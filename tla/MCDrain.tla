------------------------------ MODULE MCDrain -------------------------------
(***************************************************************************)
(* A small instance of Drain for TLC: three places in the line, so that a   *)
(* message can be behind one that is refused and ahead of a newer one.      *)
(***************************************************************************)
EXTENDS Drain

CONSTANTS m1, m2, m3

=============================================================================
