------------------------------- MODULE Latch -------------------------------
(***************************************************************************)
(* The condition latch: how one evaluation of a condition advances its      *)
(* durable state, which notification transition that produces, and which    *)
(* unsent messages it withdraws.  Pure operators, one per idea, translated  *)
(* from advance_condition (sentinel-core) and from the per-evaluation loop  *)
(* of commit_run (sentinel-store) that wraps it.                            *)
(*                                                                         *)
(* A run is a positive ordinal; 0 stands for "no episode yet".  The         *)
(* counters saturate at CounterCap, which is u32::MAX in the program.       *)
(***************************************************************************)
EXTENDS Naturals

CONSTANT CounterCap     \* where the u32 run counters saturate

ASSUME CounterCapAssumption == CounterCap \in Nat \ {0}

Lifecycle == {"clear", "pending", "firing"}

DeliveryState ==
    {"never", "pending", "delivered", "suppressed", "failed", "unknown", "resolved"}

Kind == {"alert", "resolution"}

ConditionState ==
    [lifecycle : Lifecycle, active : 0..CounterCap, clear : 0..CounterCap,
     delivery : DeliveryState, episode : Nat]

NewCondition ==
    [lifecycle |-> "clear", active |-> 0, clear |-> 0,
     delivery |-> "never", episode |-> 0]

Outcome == {"active", "clear", "not_evaluated"}

(***************************************************************************)
(* An evaluation carries the threshold its outcome is compared with:        *)
(* sustain_runs when active, recovery_runs when clear.                      *)
(***************************************************************************)
Evaluation == [outcome : Outcome, threshold : Nat]

\* Mutant: a counter that goes past the largest u32.
Unbounded(n) == n + 1

Saturated(n) == IF n < CounterCap THEN n + 1 ELSE CounterCap

-----------------------------------------------------------------------------
(* What one evaluation decides.                                            *)

\* An active observation of a cleared condition opens an episode.
OpensEpisode(s, ev) == ev.outcome = "active" /\ s.lifecycle = "clear"

\* Mutant: the counter is compared before this run is counted.
RaisesLate(s, ev) ==
    /\ ev.outcome = "active"
    /\ s.lifecycle # "firing"
    /\ s.active >= ev.threshold

\* The sustain threshold is reached while the condition is not firing yet.
RaisesAlert(s, ev) ==
    /\ ev.outcome = "active"
    /\ s.lifecycle # "firing"
    /\ Saturated(s.active) >= ev.threshold

\* The recovery threshold is reached.
Recovers(s, ev) ==
    /\ ev.outcome = "clear"
    /\ Saturated(s.clear) >= ev.threshold

\* Mutant: a resolution is owed for any alert that left the queue.
ResolvesUnconfirmed(s, ev, suppress) ==
    /\ Recovers(s, ev)
    /\ s.lifecycle = "firing"
    /\ s.delivery \notin {"never", "pending"}

\* A resolution is owed only for an alert that was confirmed, or, while
\* notifications are suppressed, for one that was suppressed too.
RaisesResolution(s, ev, suppress) ==
    /\ Recovers(s, ev)
    /\ s.lifecycle = "firing"
    /\ s.delivery = "delivered" \/ (suppress /\ s.delivery = "suppressed")

\* A recovery withdraws an alert that has not been delivered.
WithdrawsAlert(s, ev) ==
    /\ Recovers(s, ev)
    /\ s.lifecycle # "clear"
    /\ s.delivery = "pending"

\* Mutant: a new episode leaves the previous episode's resolution queued.
WithdrawsAlertOnly(s, ev, kind) == kind = "alert" /\ WithdrawsAlert(s, ev)

\* Whether the evaluation withdraws the condition from unsent messages of a kind.
Withdraws(s, ev, kind) ==
    \/ OpensEpisode(s, ev)
    \/ kind = "alert" /\ WithdrawsAlert(s, ev)

-----------------------------------------------------------------------------
(* The state after the evaluation.                                         *)

Queued(suppress) == IF suppress THEN "suppressed" ELSE "pending"

AfterActive(s, ev, run, suppress) ==
    [lifecycle |-> IF RaisesAlert(s, ev) \/ s.lifecycle = "firing"
                   THEN "firing" ELSE "pending",
     active    |-> Saturated(s.active),
     clear     |-> 0,
     delivery  |-> IF RaisesAlert(s, ev) THEN Queued(suppress)
                   ELSE IF OpensEpisode(s, ev) THEN "never" ELSE s.delivery,
     episode   |-> IF OpensEpisode(s, ev) THEN run ELSE s.episode]

AfterClear(s, ev, suppress) ==
    [lifecycle |-> IF Recovers(s, ev) THEN "clear" ELSE s.lifecycle,
     active    |-> 0,
     clear     |-> Saturated(s.clear),
     delivery  |-> IF RaisesResolution(s, ev, suppress) THEN Queued(suppress)
                   ELSE IF WithdrawsAlert(s, ev) THEN "never" ELSE s.delivery,
     episode   |-> s.episode]

Advance(s, ev, run, suppress) ==
    IF ev.outcome = "active" THEN AfterActive(s, ev, run, suppress)
    ELSE IF ev.outcome = "clear" THEN AfterClear(s, ev, suppress)
    ELSE s

=============================================================================
