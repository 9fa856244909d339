----------------------------- MODULE MCDelivery -----------------------------
(***************************************************************************)
(* Small instances of Delivery for TLC.  Thresholds of 1 and 2 tell "at     *)
(* once" from "after a streak".                                             *)
(***************************************************************************)
EXTENDS Reports, TLC

CONSTANTS c1, c2

Active(n) == [outcome |-> "active", threshold |-> n]
Clear(n)  == [outcome |-> "clear", threshold |-> n]
Skipped   == [outcome |-> "not_evaluated", threshold |-> 1]

\* Everything at once: each active run alerts and each clear run recovers.
Prompt == {Active(1), Clear(1), Skipped}

\* The thresholds of one condition differ from run to run.
Streaks == {Active(1), Active(2), Clear(1), Clear(2), Skipped}

OnlySent == {FALSE}

Conditions == Permutations(Condition)

=============================================================================
