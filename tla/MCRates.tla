------------------------------- MODULE MCRates -------------------------------
(***************************************************************************)
(* Two resolvers whose hours start at different times.  Three kinds of      *)
(* traffic: none, a little, and much of which all or nothing is blocked.    *)
(***************************************************************************)
EXTENDS Rates

Counted(q, b) == [queries |-> q, blocked |-> b]

Patterns ==
    {[early |-> FALSE, counts |-> [a |-> Counted(2, 2), b |-> Counted(2, 0)]],
     [early |-> TRUE,  counts |-> [a |-> Counted(3, 0), b |-> Counted(1, 1)]],
     [early |-> FALSE, counts |-> [a |-> Counted(0, 0), b |-> Counted(2, 2)]]}

Attending == {{"a", "b"}, {"a"}}

\* A migrated run, before the counters start again at time 0: the reading of
\* `a` may be inexact, and both members had much traffic afterwards.
OldRun(time, q, exact) ==
    [time |-> time, seen |-> [t \in Member |-> Counted(q - 9, q - 9)],
     readings |-> [a |-> [counts |-> Counted(q, q), exact |-> exact],
                   b |-> [counts |-> Counted(q, q), exact |-> TRUE]]]

\* A new state, one whose newest reading is inexact, and one with a history of
\* busy and quiet windows.
OldStates ==
    {<<>>,
     (-1 :> OldRun(-1, 0, TRUE)) @@ (0 :> OldRun(0, 9, FALSE)),
     (-3 :> OldRun(-3, 0, TRUE)) @@ (-2 :> OldRun(-2, 2, TRUE)) @@ (-1 :> OldRun(-1, 2, TRUE)) @@ (0 :> OldRun(0, 4, TRUE))}

Phases == [a |-> 0, b |-> 1]

\* Two local hours, of which the first comes twice.
Hours == [t \in -3..9 |-> IF t \in 2..4 THEN 1 ELSE 0]

\* Everyone is always there; a new state.
Everyone == {{"a", "b"}}
NewState == {<<>>}

=============================================================================
