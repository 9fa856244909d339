---------------------------- MODULE Announcements ----------------------------
(***************************************************************************)
(* What the notifications of a deployment promise its operator, whatever    *)
(* becomes of checks, messages and the provider: a notice is the alert or   *)
(* the resolution of one episode of one condition.  Delivery implements     *)
(* this specification.                                                      *)
(***************************************************************************)
EXTENDS Naturals

CONSTANTS
    Condition,      \* condition identifiers
    Episode         \* numbers of episodes, from 1

VARIABLES
    current,        \* the newest episode of each condition, 0 before the first
    shown,          \* the notices the operator has been shown
    confirmed       \* the notices a result reports as delivered

vars == <<current, shown, confirmed>>

Notices == Condition \X Episode \X {"alert", "resolution"}

Init ==
    /\ current = [c \in Condition |-> 0]
    /\ shown = {}
    /\ confirmed = {}

\* New episodes, all of one run, later than those they follow.
Open ==
    /\ \E opened \in SUBSET Condition, e \in Episode :
         /\ \A c \in opened : current[c] < e
         /\ current' = [c \in Condition |-> IF c \in opened THEN e ELSE current[c]]
    /\ UNCHANGED <<shown, confirmed>>

\* Notices of one kind are shown, late ones too; a resolution only after the
\* alert of its episode was confirmed.
Announce ==
    /\ \E kind \in {"alert", "resolution"}, N \in SUBSET (Notices \ shown) :
         /\ \A n \in N : /\ n[2] <= current[n[1]]
                         /\ n[3] = kind
                         /\ kind = "resolution" => <<n[1], n[2], "alert">> \in confirmed
         /\ shown' = shown \cup N
    /\ UNCHANGED <<current, confirmed>>

\* Notices of current episodes are reported as delivered, and they have been.
Confirm ==
    /\ \E N \in SUBSET (shown \ confirmed) :
         /\ \A n \in N : n[2] = current[n[1]]
         /\ confirmed' = confirmed \cup N
    /\ UNCHANGED <<current, shown>>

Next == Open \/ Announce \/ Confirm

Spec == Init /\ [][Next]_vars

=============================================================================
