------------------------------- MODULE MCCloud -------------------------------
(* Small instances of Cloud.                                               *)
EXTENDS Cloud

MCRows == 1..3
MCDbs == 1..2
ResumeDbs == 1..3
MCThreads == 1..3

Base == [rows |-> {}, db |-> <<1, 1, 1>>, calls |-> <<<<>>, <<>>, <<>>>>, fails |-> FALSE,
         breaks |-> FALSE, end |-> 0, legacy |-> FALSE]

\* Three writers.
Writers == [Base EXCEPT !.rows = {1, 2},
            !.calls = <<<<"insert", "delete">>, <<"insert", "update">>, <<"delete">>>>]
\* A first insert into an empty table, by two.
First == [Base EXCEPT !.calls = <<<<"insert">>, <<"insert">>, <<"update">>>>]
\* A filtered scan while rows move between segments and segments are tiered.
Scans == [Base EXCEPT !.rows = {1, 2, 3}, !.calls = <<<<"scan">>, <<"insert", "delete">>, <<"tier">>>>]
\* Two tiering runs, the second of which recovers the first, and a writer.
Tiers == [Base EXCEPT !.rows = {1, 2, 3}, !.fails = TRUE,
          !.calls = <<<<"tier">>, <<"tier">>, <<"delete", "update">>>>]
\* Hibernation of a database that is tiered, and life after it is resumed.
Moves == [Base EXCEPT !.rows = {1, 2}, !.db = <<1, 2, 1>>, !.fails = TRUE,
          !.calls = <<<<"tier", "hibernate">>, <<"restore", "tier">>, <<"delete">>>>]
\* Leases that expire and are broken.
Leases == [Base EXCEPT !.rows = {1}, !.db = <<1, 2, 1>>, !.fails = TRUE, !.breaks = TRUE, !.end = 3,
           !.calls = <<<<"hibernate">>, <<"resume">>, <<"hibernate">>>>]
Old == [Leases EXCEPT !.legacy = TRUE]

MCStarts == {Writers, First, Scans, Tiers, Moves, Leases, Old}

\* One hibernation and two that resume it.
ResumeStarts == {[Base EXCEPT !.rows = {1}, !.db = <<1, 2, 3>>,
                  !.calls = <<<<"hibernate">>, <<"resume">>, <<"resume">>>>]}
=============================================================================
