---------------------------- MODULE MCHistoryGc ----------------------------
(* A small instance of HistoryGc for TLC.                                  *)
EXTENDS HistoryGc
=============================================================================
