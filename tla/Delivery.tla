------------------------------ MODULE Delivery ------------------------------
(***************************************************************************)
(* One state database and the sequence of `check` processes that use it:    *)
(* each check recovers the attempt an earlier process left in flight,       *)
(* commits its run (latches, report, outbox) in one transaction, then       *)
(* delivers what is queued, claiming each message durably before it is sent *)
(* and recording the provider's answer after.  Any check may end early, in  *)
(* any step: killed, or by an error it returns before a commit.             *)
(*                                                                         *)
(* The database is latch, outbox, runs and last; the check's memory is pc,  *)
(* recovered, failed, queue, sending and answer; shown and confirmed are    *)
(* history variables.  Every action on the database is one transaction.     *)
(* One check runs at a time: the advisory lock is taken in StartCheck.      *)
(*                                                                         *)
(* Time.  Runs are numbered in the order they commit, which is the order of *)
(* completed_at (a run that starts before the newest completed_at is        *)
(* refused), so a run's number also stands for its time.  A clock that      *)
(* regresses between two reads makes the check return an error: EndEarly.   *)
(* Whether a retryable message's backoff has passed is a free choice.       *)
(***************************************************************************)
EXTENDS Latch, FiniteSets

CONSTANTS
    Condition,      \* condition identifiers
    Evaluations,    \* the evaluations a check can make of a condition
    Suppressions,   \* values of suppress_notifications: BOOLEAN, or one of them
    MaxRuns         \* bound on the number of committed runs

ASSUME EvaluationsAssumption == Evaluations \subseteq Evaluation
ASSUME SuppressionsAssumption == Suppressions \subseteq BOOLEAN
ASSUME MaxRunsAssumption == MaxRuns \in Nat

VARIABLES
    latch,      \* condition_state: one latch per condition
    outbox,     \* notification_outbox: the row of each message
    runs,       \* runs that have not been pruned, with their report
    last,       \* the number of the newest committed run
    pc,         \* where the running check is; "idle" when there is none
    recovered,  \* the attempts this check has quarantined
    failed,     \* notification_failed
    queue,      \* messages read by pending_outbox and not attempted yet
    sending,    \* the message of the current attempt
    answer,     \* what the provider's answer was classified as
    shown,      \* history: what the provider accepted for display
    confirmed   \* history: what a committed result reports as delivered

database == <<latch, outbox, runs, last>>
process  == <<pc, recovered, failed, queue, sending, answer>>
history  == <<shown, confirmed>>
vars     == <<database, process, history>>

-----------------------------------------------------------------------------
(* Messages, their rows, and the reports of runs.                          *)

Run == 1..MaxRuns

\* A condition in one of its episodes.
Member == Condition \X Run

\* A message is identified by its origin run, its kind and its membership:
\* the batches of a run are disjoint, and a replacement is strictly smaller.
Message == [run : Run, kind : Kind, members : SUBSET Member]

NoMessage == [run |-> 0, kind |-> "alert", members |-> {}]

\* What the provider can show an operator: one transition of one episode.
Notice == Condition \X Run \X Kind

Notices(m) == {<<p[1], p[2], m.kind>> : p \in m.members}

UnsentStatus == {"pending", "retryable"}
LiveStatus == UnsentStatus \cup {"in_flight"}
Status == LiveStatus \cup {"delivered", "failed", "unknown", "suppressed", "cancelled"}

\* `executor` is the run whose attempt the row's attempt_id names, 0 for none.
Row == [status : Status, executor : 0..MaxRuns]

\* "interrupted" is `unknown` with the error class of an interrupted process.
Result == {"delivered", "retryable", "failed", "unknown", "interrupted"}

\* Mutant: an interrupted attempt is queued again instead of quarantined.
RequeueInterrupted(result) == IF result = "interrupted" THEN "retryable" ELSE result

RowStatus(result) == IF result = "interrupted" THEN "unknown" ELSE result

Action == {"attempt", "recovered"}

\* An entry of delivery_activity: at most one per attempt and report.
Activity ==
    [message : Message, executor : Run, action : Action, result : Result \cup {"in_flight"}]

Evidence == [episode : 0..MaxRuns, delivery : DeliveryState]

\* 4 is the delivery failure; 0 stands for what else the exit arbitrates (0, 1, 3).
ExitCode == {0, 4}

Report ==
    [exit : ExitCode, activity : SUBSET Activity, evidence : [Condition -> Evidence]]

Unsent == {m \in DOMAIN outbox : outbox[m].status \in UnsentStatus}

Live == {m \in DOMAIN outbox : outbox[m].status \in LiveStatus}

InFlight == {m \in DOMAIN outbox : outbox[m].status = "in_flight"}

-----------------------------------------------------------------------------
Init ==
    /\ latch = [c \in Condition |-> NewCondition]
    /\ outbox = [m \in {} |-> [status |-> "pending", executor |-> 0]]
    /\ runs = [r \in {} |-> [exit |-> 0, activity |-> {},
                             evidence |-> [c \in Condition |-> [episode |-> 0, delivery |-> "never"]]]]
    /\ last = 0
    /\ pc = "idle"
    /\ recovered = {}
    /\ failed = FALSE
    /\ queue = {}
    /\ sending = NoMessage
    /\ answer = "unknown"
    /\ shown = {}
    /\ confirmed = {}

\* The process is gone and its memory with it.
Exits ==
    /\ pc' = "idle"
    /\ recovered' = {}
    /\ failed' = FALSE
    /\ queue' = {}
    /\ sending' = NoMessage
    /\ answer' = "unknown"

-----------------------------------------------------------------------------
(* Recording a result, in record_notification_attempt.                     *)

\* An attempt's entry replaces the one it already has in the report.
Noted(activity, entry) ==
    {e \in activity : e.message # entry.message \/ e.executor # entry.executor} \cup {entry}

\* The delivery state a result leaves the members of a message in.
Reached(kind, result) ==
    IF result = "delivered" THEN IF kind = "alert" THEN "delivered" ELSE "resolved"
    ELSE RowStatus(result)

\* The latches a result moves: the members still in the message's episode.
LatchAfter(m, result) ==
    [c \in Condition |->
        IF result # "retryable" /\ <<c, latch[c].episode>> \in m.members
        THEN [latch[c] EXCEPT !.delivery = Reached(m.kind, result)]
        ELSE latch[c]]

\* The origin run's report is refreshed, episode by episode.
EvidenceAfter(m, result, evidence) ==
    [c \in Condition |->
        IF result # "retryable" /\ <<c, evidence[c].episode>> \in m.members
        THEN [evidence[c] EXCEPT !.delivery = Reached(m.kind, result)]
        ELSE evidence[c]]

\* The origin run has its evidence refreshed; the executing run has the
\* activity noted and fails unless the message was delivered.
RunsAfter(m, executor, result) ==
    [r \in DOMAIN runs |->
        [exit     |-> IF r = executor /\ result # "delivered" THEN 4 ELSE runs[r].exit,
         activity |-> IF r = executor
                      THEN Noted(runs[r].activity,
                                 [message |-> m, executor |-> executor,
                                  action |-> "attempt", result |-> result])
                      ELSE runs[r].activity,
         evidence |-> IF r = m.run
                      THEN EvidenceAfter(m, result, runs[r].evidence)
                      ELSE runs[r].evidence]]

\* One transaction; it is refused unless this attempt is the one in flight,
\* and fails unless the executing run's report is still there.
Record(m, executor, result) ==
    /\ m \in DOMAIN outbox
    /\ outbox[m].status = "in_flight"
    /\ outbox[m].executor = executor
    /\ executor \in DOMAIN runs
    /\ outbox' = [outbox EXCEPT ![m].status = RowStatus(result)]
    /\ latch' = LatchAfter(m, result)
    /\ runs' = RunsAfter(m, executor, result)
    /\ confirmed' = IF result = "delivered" THEN confirmed \cup Notices(m) ELSE confirmed
    /\ UNCHANGED last

-----------------------------------------------------------------------------
(* Starting a check and recovering what was interrupted.                   *)

\* check_with_sink opens the store, which takes the lock.
StartCheck ==
    /\ pc = "idle"
    /\ pc' = "recovering"
    /\ UNCHANGED <<database, recovered, failed, queue, sending, answer, history>>

\* recover_interrupted_attempts, one transaction per message in flight.
RecoverAttempt ==
    /\ pc = "recovering"
    /\ \E m \in InFlight :
         /\ Record(m, outbox[m].executor, "interrupted")
         /\ recovered' = recovered \cup {[message |-> m, executor |-> outbox[m].executor]}
    /\ UNCHANGED <<pc, failed, queue, sending, answer, shown>>

\* Mutant: observation starts with an attempt still in flight.
RecoverNothing ==
    /\ pc = "recovering"
    /\ pc' = "observing"
    /\ failed' = (recovered # {})
    /\ UNCHANGED <<database, recovered, queue, sending, answer, history>>

\* Nothing is in flight any more; the targets are observed and evaluated.
RecoverDone ==
    /\ pc = "recovering"
    /\ InFlight = {}
    /\ pc' = "observing"
    /\ failed' = (recovered # {})
    /\ UNCHANGED <<database, recovered, queue, sending, answer, history>>

-----------------------------------------------------------------------------
(* Committing the run.                                                     *)

\* The ways build_outbox can split a set of transitions of one kind.
Batches(S) ==
    {B \in SUBSET ((SUBSET S) \ {{}}) :
        /\ UNION B = S
        /\ \A x, y \in B : x = y \/ x \cap y = {}}

\* The messages of one kind, each member in the episode it now is in.
Built(run, kind, batches, advanced) ==
    {[run |-> run, kind |-> kind,
      members |-> {<<c, advanced[c].episode>> : c \in batch}] : batch \in batches}

\* The members of an unsent message that the run's evaluations withdraw.
Withdrawn(m, ev) == {p \in m.members : Withdraws(latch[p[1]], ev[p[1]], m.kind)}

\* Mutant: the status of the message is not looked at.
CancelAnyStatus(ev) == {m \in DOMAIN outbox : Withdrawn(m, ev) # {}}

\* Unsent messages that lose a member are cancelled ...
CancelledBy(ev) == {m \in Unsent : Withdrawn(m, ev) # {}}

\* Mutant: the replacement belongs to the run that withdrew the member.
SurvivorOfThisRun(m, ev) == [m EXCEPT !.members = @ \ Withdrawn(m, ev), !.run = last + 1]

Survivor(m, ev) == [m EXCEPT !.members = @ \ Withdrawn(m, ev)]

\* ... and replaced, if a member survives, by a copy without the withdrawn.
ReplacedBy(ev) == {m \in CancelledBy(ev) : m.members # Withdrawn(m, ev)}

Copies(ev) == {Survivor(m, ev) : m \in ReplacedBy(ev)}

Original(n, ev) == CHOOSE m \in ReplacedBy(ev) : Survivor(m, ev) = n

\* Mutant: a cancelled message is deleted.
OutboxWithoutCancelled(ev, new, suppress) ==
    [n \in (DOMAIN outbox \ CancelledBy(ev)) \cup Copies(ev) \cup new |->
        IF n \in DOMAIN outbox
        THEN outbox[n]
        ELSE IF n \in Copies(ev)
        THEN [status |-> outbox[Original(n, ev)].status, executor |-> 0]
        ELSE [status |-> Queued(suppress), executor |-> 0]]

\* The outbox after the cancellations and the insertion of the new messages.
OutboxAfter(ev, new, suppress) ==
    [n \in DOMAIN outbox \cup Copies(ev) \cup new |->
        IF n \in CancelledBy(ev)
        THEN [outbox[n] EXCEPT !.status = "cancelled"]
        ELSE IF n \in DOMAIN outbox
        THEN outbox[n]
        ELSE IF n \in Copies(ev)
        THEN [status |-> outbox[Original(n, ev)].status, executor |-> 0]
        ELSE [status |-> Queued(suppress), executor |-> 0]]

\* Mutant: only messages that will be attempted again keep their run's report.
RetainedUndecided == LiveStatus

\* prune_runs deletes the reports older than the cutoff, except those that
\* still have an undecided or unconfirmed message; messages go with their run.
RetainedStatus == LiveStatus \cup {"unknown", "failed"}

Pruned(present, rows, cutoff) ==
    {r \in present :
        /\ r < cutoff
        /\ ~ \E m \in DOMAIN rows : m.run = r /\ rows[m].status \in RetainedStatus}

\* Mutant: what was recovered is reported but does not fail the run.
ReportWithoutFailure(advanced) ==
    [exit     |-> 0,
     activity |-> {[message |-> a.message, executor |-> a.executor,
                    action |-> "recovered", result |-> "interrupted"] : a \in recovered},
     evidence |-> [c \in Condition |-> [episode  |-> advanced[c].episode,
                                        delivery |-> advanced[c].delivery]]]

\* The report of the new run.
NewReport(advanced) ==
    [exit     |-> IF recovered # {} THEN 4 ELSE 0,
     activity |-> {[message |-> a.message, executor |-> a.executor,
                    action |-> "recovered", result |-> "interrupted"] : a \in recovered},
     evidence |-> [c \in Condition |-> [episode  |-> advanced[c].episode,
                                        delivery |-> advanced[c].delivery]]]

Alerting(ev) == {c \in Condition : RaisesAlert(latch[c], ev[c])}

Resolving(ev, suppress) == {c \in Condition : RaisesResolution(latch[c], ev[c], suppress)}

Advanced(ev, suppress) ==
    [c \in Condition |-> Advance(latch[c], ev[c], last + 1, suppress)]

\* One transaction, for the evaluations, the batches and the retention cutoff.
Commit(ev, suppress, cutoff, alerts, resolutions) ==
    LET run == last + 1
        advanced == Advanced(ev, suppress)
        new == Built(run, "alert", alerts, advanced)
                 \cup Built(run, "resolution", resolutions, advanced)
        rows == OutboxAfter(ev, new, suppress)
        gone == Pruned(DOMAIN runs, rows, cutoff)
    IN  /\ latch' = advanced
        /\ outbox' = [m \in {n \in DOMAIN rows : n.run \notin gone} |-> rows[m]]
        /\ runs' = [r \in (DOMAIN runs \cup {run}) \ gone |->
                       IF r = run THEN NewReport(advanced) ELSE runs[r]]
        /\ last' = run

CommitRun ==
    /\ pc = "observing"
    /\ last < MaxRuns
    /\ \E ev \in [Condition -> Evaluations], suppress \in Suppressions, cutoff \in 1..(last + 1) :
         /\ \E alerts \in Batches(Alerting(ev)), resolutions \in Batches(Resolving(ev, suppress)) :
               Commit(ev, suppress, cutoff, alerts, resolutions)
         /\ pc' = IF suppress THEN "finishing" ELSE "committed"
    /\ UNCHANGED <<recovered, failed, queue, sending, answer, history>>

-----------------------------------------------------------------------------
(* Delivering.                                                             *)

\* pending_outbox: what is pending, and what is retryable and due.
ReadPending ==
    /\ pc = "committed"
    /\ \E due \in SUBSET {m \in Unsent : outbox[m].status = "retryable"} :
         queue' = {m \in Unsent : outbox[m].status = "pending"} \cup due
    /\ pc' = "delivering"
    /\ UNCHANGED <<database, recovered, failed, sending, answer, history>>

\* Oldest first, and alerts before resolutions of the same time.
Precedes(m, n) ==
    \/ m.run < n.run
    \/ m.run = n.run /\ m.kind = "alert" /\ n.kind = "resolution"

\* begin_notification_attempt: the durable claim.
BeginAttempt ==
    /\ pc = "delivering"
    /\ \E m \in queue :
         /\ \A n \in queue : ~Precedes(n, m)
         /\ m \in Unsent
         /\ m.members # {}
         /\ last \in DOMAIN runs
         /\ outbox' = [outbox EXCEPT ![m] = [status |-> "in_flight", executor |-> last]]
         /\ runs' = [runs EXCEPT ![last].activity =
                        Noted(@, [message |-> m, executor |-> last,
                                  action |-> "attempt", result |-> "in_flight"])]
         /\ sending' = m
         /\ queue' = queue \ {m}
    /\ pc' = "sending"
    /\ UNCHANGED <<latch, last, recovered, failed, answer, history>>

\* The provider, and how its answer is classified.  A delivered answer means
\* that it shows the message; a retryable or a failed one that it never will;
\* after an unknown one it may or may not.
Send ==
    /\ pc = "sending"
    /\ \E result \in {"delivered", "retryable", "failed", "unknown"} :
         /\ result \in {"retryable", "failed"} => Notices(sending) \cap shown = {}
         /\ answer' = result
         /\ shown' = IF result = "delivered" THEN shown \cup Notices(sending) ELSE shown
    /\ pc' = "sent"
    /\ UNCHANGED <<database, recovered, failed, queue, sending, confirmed>>

\* The provider shows a message whose attempt has no confirmed result: before
\* it answers, after the process is gone, or long after a timeout.
Arrive ==
    /\ \E m \in DOMAIN outbox :
         /\ outbox[m].status \in {"in_flight", "unknown"}
         /\ ~(pc = "sent" /\ sending = m /\ answer \in {"retryable", "failed"})
         /\ ~(Notices(m) \subseteq shown)
         /\ shown' = shown \cup Notices(m)
    /\ UNCHANGED <<database, process, confirmed>>

\* record_notification_attempt, and the loop goes on only after a delivery.
RecordAttempt ==
    /\ pc = "sent"
    /\ Record(sending, last, answer)
    /\ failed' = (failed \/ answer # "delivered")
    /\ pc' = IF answer = "delivered" THEN "delivering" ELSE "finishing"
    /\ sending' = NoMessage
    /\ answer' = "unknown"
    /\ UNCHANGED <<recovered, queue, shown>>

\* refresh_run_delivery, then the report is written out and the lock released.
Finish ==
    /\ pc = "finishing" \/ (pc = "delivering" /\ queue = {})
    /\ last \in DOMAIN runs
    /\ runs' = [runs EXCEPT ![last].evidence =
                  [c \in Condition |->
                     IF @[c].episode = latch[c].episode /\ latch[c].episode # 0
                     THEN [@[c] EXCEPT !.delivery = latch[c].delivery]
                     ELSE @[c]]]
    /\ Exits
    /\ UNCHANGED <<latch, outbox, last, history>>

\* The process ends in any other way: it is killed, or a step returns an
\* error before its transaction commits (a clock that regressed, an I/O or
\* configuration error).
EndEarly ==
    /\ pc # "idle"
    /\ Exits
    /\ UNCHANGED <<database, history>>

Next ==
    \/ StartCheck
    \/ RecoverAttempt
    \/ RecoverDone
    \/ CommitRun
    \/ ReadPending
    \/ BeginAttempt
    \/ Send
    \/ Arrive
    \/ RecordAttempt
    \/ Finish
    \/ EndEarly

Spec == Init /\ [][Next]_vars

-----------------------------------------------------------------------------
(* Properties.                                                             *)

\* Every variable has its type.
TypeOK ==
    /\ latch \in [Condition -> ConditionState]
    /\ \A c \in Condition : latch[c].episode \in 0..MaxRuns
    /\ DOMAIN outbox \subseteq Message
    /\ outbox \in [DOMAIN outbox -> Row]
    /\ DOMAIN runs \subseteq Run
    /\ runs \in [DOMAIN runs -> Report]
    /\ last \in 0..MaxRuns
    /\ pc \in {"idle", "recovering", "observing", "committed", "delivering",
               "sending", "sent", "finishing"}
    /\ recovered \subseteq [message : Message, executor : Run]
    /\ failed \in BOOLEAN
    /\ queue \subseteq Message
    /\ sending \in Message \cup {NoMessage}
    /\ answer \in Result
    /\ shown \subseteq Notice
    /\ confirmed \subseteq Notice

\* The live messages that speak of a condition's current episode.
LiveFor(c) == {m \in Live : <<c, latch[c].episode>> \in m.members}

\* What the latch expects to be sent next for a condition whose delivery is pending.
Expected(s) == IF s.lifecycle = "clear" THEN "resolution" ELSE "alert"

\* The latches and the outbox tell the same story, whatever was committed,
\* withdrawn, batched, replaced, attempted or interrupted: a condition whose
\* delivery is pending has exactly one live message, of the kind its lifecycle
\* calls for, and a live message speaks only of the current episode of
\* conditions whose delivery is pending.
OutboxBacksLatches ==
    /\ \A c \in Condition :
         latch[c].delivery = "pending" =>
            \E m \in LiveFor(c) : LiveFor(c) = {m} /\ m.kind = Expected(latch[c])
    /\ \A m \in Live : \A p \in m.members :
         latch[p[1]].episode = p[2] /\ latch[p[1]].delivery = "pending"

\* What the provider has shown, or may have shown, is never queued or sent
\* again, in the same message or in another: retries, replacements after a
\* withdrawal and recovery after a crash included.
NoReplay ==
    \A m \in Unsent : Notices(m) \cap shown = {}

\* A resolution reaches the provider only when the alert of the same episode
\* was confirmed as delivered before.
ResolutionFollowsAlert ==
    \A n \in shown : n[3] = "resolution" =>
        /\ <<n[1], n[2], "alert">> \in confirmed
        /\ <<n[1], n[2], "alert">> \in shown

\* The outcome that a latch or a stored report states of an episode's delivery.
Claims ==
    {<<c, latch[c].episode, latch[c].delivery>> : c \in Condition}
      \cup UNION {{<<c, runs[r].evidence[c].episode, runs[r].evidence[c].delivery>>
                     : c \in Condition} : r \in DOMAIN runs}

\* No latch and no report, of the origin run or of a later one, claims an
\* outcome that was not recorded for that condition in that episode.
ClaimsAreTrue ==
    \A claim \in Claims :
        /\ claim[3] = "delivered" => <<claim[1], claim[2], "alert">> \in confirmed
        /\ claim[3] = "resolved" => <<claim[1], claim[2], "resolution">> \in confirmed
        /\ claim[3] \in {"failed", "unknown"} =>
              \E m \in DOMAIN outbox :
                 outbox[m].status = claim[3] /\ <<claim[1], claim[2]>> \in m.members

\* At most one attempt is in flight; the run that executes it still has its
\* report, which shows it.  Recovery returns an error otherwise, and then no
\* check could ever run again.
InFlightIsRecoverable ==
    \A m \in InFlight :
        /\ InFlight = {m}
        /\ outbox[m].executor \in DOMAIN runs
        /\ [message |-> m, executor |-> outbox[m].executor,
            action |-> "attempt", result |-> "in_flight"]
              \in runs[outbox[m].executor].activity

\* A stored exit code is the delivery failure exactly when the report shows an
\* attempt or a recovery that was not confirmed, and the code the check is
\* about to return is the stored one.
ExitMatchesActivity ==
    /\ \A r \in DOMAIN runs :
         runs[r].exit = 4 <=>
            \E e \in runs[r].activity : e.result \notin {"delivered", "in_flight"}
    /\ pc \in {"committed", "delivering", "finishing"} =>
         (failed <=> runs[last].exit = 4)

\* A decided message keeps its status, and evidence of a delivery that failed
\* or may have failed is never pruned.
DecidedStays ==
    [][\A m \in DOMAIN outbox :
         outbox[m].status \notin LiveStatus =>
            \/ m \in DOMAIN outbox' /\ outbox'[m].status = outbox[m].status
            \/ m \notin DOMAIN outbox' /\ outbox[m].status \notin {"failed", "unknown"}]_vars

\* Every quarantine a recovery makes is reported by a later run's activity,
\* as the troubleshooting guide says.  Between checks nothing is left to
\* report it.
RecoveryReported ==
    pc = "idle" =>
        \A r \in DOMAIN runs : \A e \in runs[r].activity :
            e.action = "attempt" /\ e.result = "interrupted" =>
                \E q \in DOMAIN runs :
                    [e EXCEPT !.action = "recovered"] \in runs[q].activity

\* What the operator is promised: the abstract specification, with the episode
\* of each latch as the condition's newest episode.
Told == INSTANCE Announcements WITH
            Episode <- Run,
            current <- [c \in Condition |-> latch[c].episode]

\* Every step of a check, a crash or the provider is a step the operator was
\* promised or none: episodes open in order, a resolution is shown only once the
\* alert of its episode is confirmed, and a result confirms only notices that
\* were shown and belong to the episode their condition is still in.
KeepsItsPromise == Told!Spec

-----------------------------------------------------------------------------
(* The inductive invariant: what the properties above rest on.             *)

\* Episodes, origin runs and notices are no younger than what created them.
NothingFromTheFuture ==
    /\ \A c \in Condition : latch[c].episode <= last
    /\ \A m \in DOMAIN outbox : m.run <= last
    /\ \A m \in DOMAIN outbox : \A p \in m.members : p[2] <= latch[p[1]].episode
    /\ \A n \in shown : n[2] <= latch[n[1]].episode

\* A condition that is not clear is in an episode; until the episode reaches
\* its threshold nothing is owed for it.
EpisodesAreOpen ==
    \A c \in Condition :
        /\ latch[c].lifecycle # "clear" => latch[c].episode # 0
        /\ latch[c].lifecycle = "pending" => latch[c].delivery = "never"

\* The notices the latch can still create have not been shown.
FutureNoticesUnseen ==
    \A c \in Condition :
        /\ latch[c].lifecycle = "pending" => <<c, latch[c].episode, "alert">> \notin shown
        /\ latch[c].lifecycle \in {"pending", "firing"} =>
              <<c, latch[c].episode, "resolution">> \notin shown

\* A quarantined message of a current episode shows in the latch.
QuarantineShows ==
    \A m \in DOMAIN outbox : outbox[m].status = "unknown" =>
        \A p \in m.members : latch[p[1]].episode = p[2] =>
            /\ latch[p[1]].delivery = "unknown"
            /\ m.kind = "resolution" => latch[p[1]].lifecycle = "clear"

\* Rows of a batch: a live one is contained in those it shares a member with.
Nested ==
    /\ \A m \in DOMAIN outbox : m.members # {}
    /\ \A m \in Live, n \in DOMAIN outbox :
         m.run = n.run /\ m.kind = n.kind /\ m.members \cap n.members # {} =>
            m.members \subseteq n.members

\* Where a check stands and what is in flight.
AttemptOfCheck ==
    /\ pc = "observing" => InFlight = {}
    /\ pc \in {"sending", "sent"} => sending \in InFlight
    /\ pc = "sent" /\ answer \in {"retryable", "failed"} => Notices(sending) \cap shown = {}
    /\ pc = "sent" /\ answer = "delivered" => Notices(sending) \subseteq shown

\* What a resolution rests on, from the latch to the outbox to the provider.
AlertsConfirmed ==
    /\ \A c \in Condition : latch[c].delivery = "delivered" =>
         <<c, latch[c].episode, "alert">> \in confirmed
    /\ \A m \in DOMAIN outbox : m.kind = "resolution" /\ outbox[m].status # "suppressed" =>
         \A p \in m.members : <<p[1], p[2], "alert">> \in confirmed
    /\ confirmed \subseteq shown

IInv ==
    /\ TypeOK
    /\ OutboxBacksLatches
    /\ NoReplay
    /\ ResolutionFollowsAlert
    /\ NothingFromTheFuture
    /\ EpisodesAreOpen
    /\ FutureNoticesUnseen
    /\ QuarantineShows
    /\ Nested
    /\ AttemptOfCheck
    /\ AlertsConfirmed

=============================================================================
