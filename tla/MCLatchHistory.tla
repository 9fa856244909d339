--------------------------- MODULE MCLatchHistory ---------------------------
(***************************************************************************)
(* A small instance of LatchHistory for TLC: thresholds that change from    *)
(* run to run, up to the largest value of the counters.                     *)
(***************************************************************************)
EXTENDS LatchHistory

Active(n) == [outcome |-> "active", threshold |-> n]
Clear(n)  == [outcome |-> "clear", threshold |-> n]
Skipped   == [outcome |-> "not_evaluated", threshold |-> 1]

Streaks == {Active(1), Active(2), Clear(1), Clear(2), Skipped}

=============================================================================
