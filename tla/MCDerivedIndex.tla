--------------------------- MODULE MCDerivedIndex ---------------------------
(* Small instances of DerivedIndex: two documents of two values.  Two        *)
(* refreshers of the full-text index overlap; the geo index has one at a time.*)
EXTENDS DerivedIndex, TLC

CONSTANTS t1, t2, a, b

\* The two texts share a term; the two points lie in different cells.
MCTerms == a :> {1} @@ b :> {1, 2}
MCCellOf == a :> 1 @@ b :> 2

Start(kind, first, second, docs, max_writes) ==
    [kind |-> kind, calls |-> t1 :> first @@ t2 :> second, docs |-> docs, max_writes |-> max_writes]

MCStarts ==
    {Start("text", <<"inc", "inc">>, <<"inc">>, {1}, 3),
     Start("text", <<"inc">>, <<"inc">>, {1, 2}, 2),
     Start("text", <<"full">>, <<"inc">>, {1}, 3),
     Start("text", <<"full">>, <<"inc">>, {1, 2}, 2),
     Start("text", <<"full">>, <<"full">>, {1}, 2),
     Start("geo", <<"inc", "full">>, <<>>, {1}, 3),
     Start("geo", <<"full", "inc">>, <<>>, {1}, 3),
     Start("geo", <<"full", "inc">>, <<>>, {1, 2}, 2)}

GeoStarts == {Start("geo", <<"inc">>, <<>>, {1}, 2)}
=============================================================================
