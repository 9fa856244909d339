----------------------------- MODULE MCMigration -----------------------------
(***************************************************************************)
(* Two conditions, of which one's line is as long as a message may be and   *)
(* the other's is a prefix of it.                                           *)
(***************************************************************************)
EXTENDS Migration

Ranks == [c \in {"a", "b"} |-> IF c = "a" THEN 1 ELSE 2]

Summaries == [c \in {"a", "b"} |-> IF c = "a" THEN <<1, 1>> ELSE <<1>>]

=============================================================================
