----------------------------- MODULE Observation -----------------------------
(***************************************************************************)
(* The observation of all targets by one check, over a sequence of checks   *)
(* that share the recorded authentication cooldowns.  The targets are       *)
(* observed concurrently, each with the same six requests one after the     *)
(* other; the first request that is not answered well ends its observation. *)
(* A target whose rejection is recorded gets no request until its cooldown  *)
(* has passed.  When every target has a report the run is committed.        *)
(*                                                                         *)
(* Time.  `retry` counts the seconds that remain until auth_retry_after, so *)
(* that time can pass for ever in finitely many states.  Whether a target   *)
(* is paused is decided for the start of the check, as in main.rs.          *)
(* A check may end in any step, killed or by an error, before it commits.   *)
(***************************************************************************)
EXTENDS Naturals, FiniteSets

CONSTANTS
    Target,             \* target identifiers
    TargetConcurrency,  \* observation.target_concurrency
    MinimumComplete,    \* observation.minimum_complete_targets
    MaxRetry            \* bound on authentication_retry_seconds

ASSUME TargetAssumption == IsFiniteSet(Target)
ASSUME ConcurrencyAssumption == TargetConcurrency \in Nat \ {0}
ASSUME MinimumAssumption == MinimumComplete \in 1..Cardinality(Target)
ASSUME MaxRetryAssumption == MaxRetry \in Nat \ {0}

VARIABLES
    retry,      \* target_runtime_state: seconds left, or NoRow
    pc,         \* where the running check is
    request,    \* the request a target is answering, 0 for none
    report,     \* the status of the target's report, "none" before it
    exit,       \* the exit code of the committed run
    failOn,     \* --fail-on of this check, as the least severity it matches
    served,     \* history: targets that answered everything in this check
    rejected    \* history: targets with a committed rejection and none complete since

vars == <<retry, pc, request, report, exit, failOn, served, rejected>>

-----------------------------------------------------------------------------
(* Reports.                                                                *)

\* The number of requests of an observation: status, stats, dns_info,
\* filtering/status, rewrite/list and rewrite/settings.
Requests == 6

\* No row in target_runtime_state: a number that is no remaining time.
NoRow == MaxRetry + 1

TargetStatus ==
    {"complete", "authentication_rejected", "authentication_cooldown", "unavailable",
     "invalid_response", "unsupported_version", "response_too_large"}

\* What a failing request makes of the report.  Only the first request carries
\* the version; only what cannot be decoded or normalised is invalid.
Failure(k) ==
    {"authentication_rejected", "unavailable", "invalid_response", "response_too_large"}
      \cup IF k = 1 THEN {"unsupported_version"} ELSE {}

\* Severities in their order; FailOn::Never matches none of them.
Severity == 1..3
Never == 4

\* The severity of an active target:<id>:api condition.
ApiSeverity(status) ==
    CASE status \in {"authentication_rejected", "authentication_cooldown"} -> 3
      [] status \in {"unsupported_version", "invalid_response", "response_too_large"} -> 2
      [] status = "unavailable" -> 1

\* Mutant: a paused target is skipped instead of reported.
CooldownNotEvaluated(status) ==
    CASE status = "complete" -> "clear"
      [] status = "authentication_cooldown" -> "not_evaluated"
      [] OTHER -> "active"

\* The outcome of target:<id>:api, for every configured target.
ApiOutcome(status) == IF status = "complete" THEN "clear" ELSE "active"

\* A cooldown is recorded and has not passed.
Paused(t) == retry[t] \in 1..MaxRetry

\* Mutant: the last second of the cooldown is not waited for.
SkipsTooFew(t) == retry[t] \in 2..MaxRetry

\* The check does not ask a target that is paused at its start.
Skips(t) == Paused(t)

Busy == {t \in Target : request[t] # 0}

Complete == {t \in Target : report[t] = "complete"}

-----------------------------------------------------------------------------
Init ==
    /\ retry = [t \in Target |-> NoRow]
    /\ pc = "idle"
    /\ request = [t \in Target |-> 0]
    /\ report = [t \in Target |-> "none"]
    /\ exit = 0
    /\ failOn = Never
    /\ served = {}
    /\ rejected = {}

\* The process is gone, and its memory and its requests with it.
Exits ==
    /\ pc' = "idle"
    /\ request' = [t \in Target |-> 0]
    /\ report' = [t \in Target |-> "none"]
    /\ exit' = 0
    /\ failOn' = Never
    /\ served' = {}

\* The clock is read, the cooldowns are, and paused targets are reported at once.
StartCheck ==
    /\ pc = "idle"
    /\ pc' = "observing"
    /\ report' = [t \in Target |-> IF Skips(t) THEN "authentication_cooldown" ELSE "none"]
    /\ UNCHANGED <<retry, request, exit, failOn, served, rejected>>

\* buffer_unordered takes up the next target while fewer than the limit are busy.
StartTarget(t) ==
    /\ pc = "observing"
    /\ report[t] = "none"
    /\ request[t] = 0
    /\ Cardinality(Busy) < TargetConcurrency
    /\ request' = [request EXCEPT ![t] = 1]
    /\ UNCHANGED <<retry, pc, report, exit, failOn, served, rejected>>

\* The request is answered well; the normalisation of all six answers follows
\* the last one, and may still find them invalid.
Answered(t) ==
    /\ request[t] # 0
    /\ IF request[t] < Requests
       THEN /\ request' = [request EXCEPT ![t] = @ + 1]
            /\ UNCHANGED <<report, served>>
       ELSE /\ request' = [request EXCEPT ![t] = 0]
            /\ \E status \in {"complete", "invalid_response"} :
                  report' = [report EXCEPT ![t] = status]
            /\ served' = served \cup {t}
    /\ UNCHANGED <<retry, pc, exit, failOn, rejected>>

\* Mutant: a target that fails late keeps what it answered before.
FailsLateAsComplete(t) ==
    /\ request[t] # 0
    /\ \E status \in Failure(request[t]) :
          report' = [report EXCEPT ![t] = IF request[t] = Requests THEN "complete" ELSE status]
    /\ request' = [request EXCEPT ![t] = 0]
    /\ UNCHANGED <<retry, pc, exit, failOn, served, rejected>>

\* It is rejected, cannot be answered in time, or its answer cannot be used.
Failed(t) ==
    /\ request[t] # 0
    /\ \E status \in Failure(request[t]) : report' = [report EXCEPT ![t] = status]
    /\ request' = [request EXCEPT ![t] = 0]
    /\ UNCHANGED <<retry, pc, exit, failOn, served, rejected>>

\* Mutant: a check that leaves a target paused starts its cooldown anew.
RenewedWhilePaused(t, seconds) ==
    CASE report[t] \in {"authentication_rejected", "authentication_cooldown"} -> seconds
      [] report[t] = "complete" -> NoRow
      [] OTHER -> retry[t]

\* update_runtime_states: a rejection starts a cooldown, a complete
\* observation clears the record, and nothing else touches it.
RetryAfter(t, seconds) ==
    CASE report[t] = "authentication_rejected" -> seconds
      [] report[t] = "complete" -> NoRow
      [] OTHER -> retry[t]

\* The findings that may meet --fail-on: those of incomplete targets, and the
\* others (`other`, 0 for none), which the evaluation of the rest produces.
FailOnMatch(least, other) ==
    \/ other >= least
    \/ \E t \in Target : ApiOutcome(report[t]) = "active" /\ ApiSeverity(report[t]) >= least

\* The exit code of the run as it is first stored.
InitialExit(recovered, least, other) ==
    IF recovered THEN 4
    ELSE IF Cardinality(Complete) < MinimumComplete THEN 3
    ELSE IF FailOnMatch(least, other) THEN 1 ELSE 0

\* commit_run, with the cooldowns in the same transaction.  `recovered` says
\* that the check has quarantined an attempt.
CommitRun ==
    /\ pc = "observing"
    /\ \A t \in Target : report[t] # "none"
    /\ \E seconds \in [Target -> 1..MaxRetry] :
          retry' = [t \in Target |-> RetryAfter(t, seconds[t])]
    /\ \E recovered \in BOOLEAN, least \in Severity \cup {Never}, other \in {0} \cup Severity :
          /\ exit' = InitialExit(recovered, least, other)
          /\ failOn' = least
    /\ rejected' = {t \in Target : \/ report[t] = "authentication_rejected"
                                   \/ t \in rejected /\ report[t] # "complete"}
    /\ pc' = "committed"
    /\ UNCHANGED <<request, report, served>>

\* An attempt of this check was not confirmed: the exit code becomes 4.
DeliveryFails ==
    /\ pc = "committed"
    /\ exit' = 4
    /\ UNCHANGED <<retry, pc, request, report, failOn, served, rejected>>

Finish ==
    /\ pc = "committed"
    /\ Exits
    /\ UNCHANGED <<retry, rejected>>

EndEarly ==
    /\ pc = "observing"
    /\ Exits
    /\ UNCHANGED <<retry, rejected>>

\* A second passes.
Tick ==
    /\ \E t \in Target : Paused(t)
    /\ retry' = [t \in Target |-> IF Paused(t) THEN retry[t] - 1 ELSE retry[t]]
    /\ UNCHANGED <<pc, request, report, exit, failOn, served, rejected>>

Next ==
    \/ StartCheck
    \/ \E t \in Target : StartTarget(t)
    \/ \E t \in Target : Answered(t)
    \/ \E t \in Target : Failed(t)
    \/ CommitRun
    \/ DeliveryFails
    \/ Finish
    \/ EndEarly
    \/ Tick

\* Time passes, the timer starts checks, requests end (each has a timeout), and
\* checks are not killed for ever before they have asked a target.
Fairness ==
    /\ WF_vars(Tick)
    /\ WF_vars(StartCheck)
    /\ WF_vars(Finish)
    /\ \A t \in Target : WF_vars(Answered(t) \/ Failed(t))
    /\ \A t \in Target : SF_vars(StartTarget(t))
    /\ SF_vars(CommitRun)

Spec == Init /\ [][Next]_vars /\ Fairness

-----------------------------------------------------------------------------
(* Properties.                                                             *)

TypeOK ==
    /\ retry \in [Target -> 0..NoRow]
    /\ pc \in {"idle", "observing", "committed"}
    /\ request \in [Target -> 0..Requests]
    /\ report \in [Target -> TargetStatus \cup {"none"}]
    /\ exit \in {0, 1, 3, 4}
    /\ failOn \in Severity \cup {Never}
    /\ served \subseteq Target
    /\ rejected \subseteq Target

\* No request reaches a target during its recorded cooldown, however checks
\* and requests interleave with time (docs/BEHAVIOR.md).
CooldownRespected ==
    \A t \in Target : request[t] # 0 => ~Paused(t)

\* From a committed rejection until the next complete observation every
\* committed run reports the api condition of the target as active: it is never
\* dropped while its requests are paused, and no other failure clears it.
RejectionStaysActive ==
    \A t \in rejected :
        /\ retry[t] # NoRow
        /\ pc = "committed" => ApiOutcome(report[t]) = "active"

\* Nothing is concluded from targets that did not answer: a run that is not
\* unhealthy has the minimum of targets that answered all six requests in this
\* very check, and one that was asked to fail on warnings and exits 0 has them all.
ExitIsHonest ==
    pc = "committed" =>
        /\ exit \in {0, 1} => Cardinality(served) >= MinimumComplete
        /\ exit = 0 /\ failOn = 1 => served = Target

\* A rejected target is asked again, whatever else fails.
RejectedIsAskedAgain ==
    \A t \in Target : t \in rejected ~> request[t] # 0

-----------------------------------------------------------------------------
(* The inductive invariant: what the properties above rest on.             *)

\* A cooldown is on record exactly from a rejection to the next complete one.
RecordedWhileRejected == \A t \in Target : retry[t] = NoRow <=> t \notin rejected

\* A complete report was earned in this check.
CompleteWasServed == Complete \subseteq served

\* Requests belong to the observing check and to targets without a report,
\* and those are not paused.
RequestsAreOpen ==
    \A t \in Target :
        /\ request[t] # 0 => pc = "observing" /\ report[t] = "none"
        /\ report[t] = "none" /\ pc = "observing" => ~Paused(t)

\* A committed run has a report of every target.
ReportsAreIn == pc = "committed" => \A t \in Target : report[t] # "none"

IInv ==
    /\ TypeOK
    /\ CooldownRespected
    /\ RejectionStaysActive
    /\ ExitIsHonest
    /\ RecordedWhileRejected
    /\ CompleteWasServed
    /\ RequestsAreOpen
    /\ ReportsAreIn

=============================================================================
