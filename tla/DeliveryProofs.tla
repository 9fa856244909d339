--------------------------- MODULE DeliveryProofs ---------------------------
(***************************************************************************)
(* Proofs about Delivery and Reports, for every set of conditions, every    *)
(* evaluation a check can make of them and every number of runs: what an    *)
(* evaluation does to a latch, the invariant of the database and the        *)
(* sequence of checks, the abstract specification that they implement, and  *)
(* what stored reports say.                                                 *)
(***************************************************************************)
EXTENDS Reports, TLAPS

-----------------------------------------------------------------------------
(* What one evaluation does to a latch.                                    *)

(* Counters saturate instead of leaving their range.                       *)
LEMMA SaturatedType ==
    ASSUME NEW n \in 0..CounterCap
    PROVE  Saturated(n) \in 0..CounterCap
BY CounterCapAssumption DEF Saturated

(* advance_condition maps well-formed latches to well-formed latches.      *)
LEMMA AdvanceType ==
    ASSUME NEW s \in ConditionState, NEW ev \in Evaluation,
           NEW run \in Nat, NEW suppress \in BOOLEAN
    PROVE  Advance(s, ev, run, suppress) \in ConditionState
<1>1. Saturated(s.active) \in 0..CounterCap /\ Saturated(s.clear) \in 0..CounterCap
  BY SaturatedType DEF ConditionState
<1>2. 0 \in 0..CounterCap
  BY CounterCapAssumption
<1>3. Queued(suppress) \in DeliveryState
  BY DEF Queued, DeliveryState
<1>4. AfterActive(s, ev, run, suppress) \in ConditionState
  BY <1>1, <1>2, <1>3 DEF AfterActive, ConditionState, Lifecycle, DeliveryState
<1>5. AfterClear(s, ev, suppress) \in ConditionState
  BY <1>1, <1>2, <1>3 DEF AfterClear, ConditionState, Lifecycle, DeliveryState
<1> QED
  BY <1>4, <1>5 DEF Advance, Evaluation, Outcome

(* Only an active observation of a cleared condition changes the episode,  *)
(* and it takes the run's identity.                                        *)
LEMMA AdvanceEpisode ==
    ASSUME NEW s \in ConditionState, NEW ev \in Evaluation,
           NEW run \in Nat, NEW suppress \in BOOLEAN
    PROVE  Advance(s, ev, run, suppress).episode =
               IF OpensEpisode(s, ev) THEN run ELSE s.episode
BY DEF Advance, AfterActive, AfterClear, OpensEpisode, Evaluation, Outcome

(* The delivery state after an evaluation, by what the evaluation decides. *)
LEMMA AdvanceDelivery ==
    ASSUME NEW s \in ConditionState, NEW ev \in Evaluation,
           NEW run \in Nat, NEW suppress \in BOOLEAN
    PROVE  LET a == Advance(s, ev, run, suppress) IN
           /\ RaisesAlert(s, ev) => a.delivery = Queued(suppress)
           /\ RaisesResolution(s, ev, suppress) => a.delivery = Queued(suppress)
           /\ OpensEpisode(s, ev) /\ ~RaisesAlert(s, ev) => a.delivery = "never"
           /\ WithdrawsAlert(s, ev) => a.delivery = "never"
           /\ ~OpensEpisode(s, ev) /\ ~RaisesAlert(s, ev) /\ ~WithdrawsAlert(s, ev)
                /\ ~RaisesResolution(s, ev, suppress) => a.delivery = s.delivery
BY DEF Advance, AfterActive, AfterClear, OpensEpisode, RaisesAlert, RaisesResolution,
       WithdrawsAlert, Recovers, Evaluation, Outcome

(* The lifecycle after an evaluation, by where it can have come from.      *)
LEMMA AdvanceLifecycle ==
    ASSUME NEW s \in ConditionState, NEW ev \in Evaluation,
           NEW run \in Nat, NEW suppress \in BOOLEAN
    PROVE  LET a == Advance(s, ev, run, suppress) IN
           /\ RaisesAlert(s, ev) => a.lifecycle = "firing"
           /\ Recovers(s, ev) => a.lifecycle = "clear"
           /\ a.lifecycle = "pending" =>
                ~RaisesAlert(s, ev) /\ (OpensEpisode(s, ev) \/ s.lifecycle = "pending")
           /\ a.lifecycle = "firing" => RaisesAlert(s, ev) \/ s.lifecycle = "firing"
           /\ s.lifecycle = "clear" /\ ~OpensEpisode(s, ev) => a.lifecycle = "clear"
           /\ s.lifecycle = "firing" /\ ~Recovers(s, ev) => a.lifecycle = "firing"
           /\ s.lifecycle = "pending" =>
                a.lifecycle = "pending" \/ RaisesAlert(s, ev) \/ Recovers(s, ev)
BY DEF Advance, AfterActive, AfterClear, OpensEpisode, RaisesAlert, Recovers,
       ConditionState, Lifecycle, Evaluation, Outcome

-----------------------------------------------------------------------------
(* Type correctness.                                                       *)

(* What is shown for a well-formed message is a set of notices.            *)
LEMMA NoticesType ==
    ASSUME NEW m \in Message
    PROVE  Notices(m) \subseteq Notice
BY DEF Notices, Notice, Message, Member

(* The initial state is well formed.                                       *)
LEMMA InitType == Init => TypeOK
<1> SUFFICES ASSUME Init PROVE TypeOK
  OBVIOUS
<1>1. latch \in [Condition -> ConditionState] /\ \A c \in Condition : latch[c].episode \in 0..MaxRuns
  BY CounterCapAssumption, MaxRunsAssumption
     DEF Init, NewCondition, ConditionState, Lifecycle, DeliveryState
<1>2. DOMAIN outbox = {} /\ outbox \in [DOMAIN outbox -> Row]
  BY DEF Init
<1>3. DOMAIN runs = {} /\ runs \in [DOMAIN runs -> Report]
  BY DEF Init
<1>4. failed \in BOOLEAN
  BY DEF Init
<1>5. last \in 0..MaxRuns
  BY MaxRunsAssumption DEF Init
<1>6. DOMAIN outbox \subseteq Message /\ DOMAIN runs \subseteq Run
  BY <1>2, <1>3
<1> QED
  BY <1>1, <1>2, <1>3, <1>4, <1>5, <1>6 DEF Init, TypeOK, Result

(* Recording a result keeps the database well formed.                      *)
LEMMA RecordType ==
    ASSUME TypeOK, NEW m, NEW executor, NEW result \in Result, Record(m, executor, result)
    PROVE  /\ latch' \in [Condition -> ConditionState]
           /\ \A c \in Condition : latch'[c].episode \in 0..MaxRuns
           /\ DOMAIN outbox' = DOMAIN outbox
           /\ outbox' \in [DOMAIN outbox -> Row]
           /\ DOMAIN runs' = DOMAIN runs
           /\ runs' \in [DOMAIN runs -> Report]
           /\ confirmed' \subseteq Notice
           /\ last' = last
           /\ m \in Message /\ executor \in Run
<1>1. m \in Message /\ executor \in Run
  BY DEF Record, TypeOK
<1>2. RowStatus(result) \in Status
  BY DEF RowStatus, Result, Status, LiveStatus, UnsentStatus
<1>3. ASSUME result # "retryable" PROVE Reached(m.kind, result) \in DeliveryState
  BY <1>3 DEF Reached, RowStatus, Result, DeliveryState
<1>4. latch' \in [Condition -> ConditionState] /\ \A c \in Condition : latch'[c].episode \in 0..MaxRuns
  <2>1. ASSUME NEW c \in Condition
        PROVE  LatchAfter(m, result)[c] \in ConditionState
               /\ LatchAfter(m, result)[c].episode \in 0..MaxRuns
    <3>1. latch[c] \in ConditionState /\ latch[c].episode \in 0..MaxRuns
      BY DEF TypeOK
    <3> QED
      BY <3>1, <1>3 DEF LatchAfter, ConditionState
  <2> QED
    BY <2>1 DEF Record, LatchAfter
<1>5. DOMAIN outbox' = DOMAIN outbox /\ outbox' \in [DOMAIN outbox -> Row]
  BY <1>2 DEF Record, TypeOK, Row
<1>6. DOMAIN runs' = DOMAIN runs /\ runs' \in [DOMAIN runs -> Report]
  <2>1. ASSUME NEW r \in DOMAIN runs
        PROVE  RunsAfter(m, executor, result)[r] \in Report
    <3>1. runs[r] \in Report
      BY DEF TypeOK
    <3>2. EvidenceAfter(m, result, runs[r].evidence) \in [Condition -> Evidence]
      BY <3>1, <1>3 DEF EvidenceAfter, Report, Evidence
    <3>3. Noted(runs[r].activity, [message |-> m, executor |-> executor,
                                   action |-> "attempt", result |-> result]) \subseteq Activity
      BY <3>1, <1>1 DEF Noted, Report, Activity, Action
    <3> QED
      BY <3>1, <3>2, <3>3 DEF RunsAfter, Report, ExitCode
  <2> QED
    BY <2>1 DEF Record, RunsAfter
<1>7. confirmed' \subseteq Notice
  BY <1>1, NoticesType DEF Record, TypeOK
<1> QED
  BY <1>1, <1>4, <1>5, <1>6, <1>7 DEF Record

(* The messages a commit builds are well formed.                           *)
LEMMA BuiltType ==
    ASSUME NEW run \in Run, NEW kind \in Kind, NEW S \in SUBSET Condition,
           NEW batches \in Batches(S), NEW advanced,
           \A c \in S : advanced[c].episode \in Run
    PROVE  Built(run, kind, batches, advanced) \subseteq Message
<1>1. ASSUME NEW batch \in batches
      PROVE  {<<c, advanced[c].episode>> : c \in batch} \subseteq Member
  <2>1. batch \subseteq S
    BY DEF Batches
  <2> QED
    BY <2>1 DEF Member
<1> QED
  BY <1>1 DEF Built, Message

(* Facts about the latches a commit writes.                                *)
LEMMA AdvancedType ==
    ASSUME TypeOK, last < MaxRuns, NEW ev \in [Condition -> Evaluations],
           NEW suppress \in Suppressions
    PROVE  /\ Advanced(ev, suppress) \in [Condition -> ConditionState]
           /\ \A c \in Condition :
                /\ latch[c] \in ConditionState /\ ev[c] \in Evaluation
                /\ suppress \in BOOLEAN /\ last + 1 \in Run
                /\ Advanced(ev, suppress)[c] = Advance(latch[c], ev[c], last + 1, suppress)
                /\ Advanced(ev, suppress)[c].episode =
                     IF OpensEpisode(latch[c], ev[c]) THEN last + 1 ELSE latch[c].episode
                /\ Advanced(ev, suppress)[c].episode \in 0..MaxRuns
<1>1. last + 1 \in Run /\ last + 1 \in Nat /\ suppress \in BOOLEAN
  BY MaxRunsAssumption, SuppressionsAssumption DEF TypeOK, Run
<1>2. ASSUME NEW c \in Condition
      PROVE  /\ latch[c] \in ConditionState /\ ev[c] \in Evaluation
             /\ Advanced(ev, suppress)[c] = Advance(latch[c], ev[c], last + 1, suppress)
             /\ Advanced(ev, suppress)[c] \in ConditionState
             /\ Advanced(ev, suppress)[c].episode =
                  IF OpensEpisode(latch[c], ev[c]) THEN last + 1 ELSE latch[c].episode
             /\ Advanced(ev, suppress)[c].episode \in 0..MaxRuns
  <2>1. latch[c] \in ConditionState /\ ev[c] \in Evaluation /\ latch[c].episode \in 0..MaxRuns
    BY EvaluationsAssumption DEF TypeOK
  <2>2. Advanced(ev, suppress)[c] = Advance(latch[c], ev[c], last + 1, suppress)
    BY DEF Advanced
  <2>3. Advanced(ev, suppress)[c] \in ConditionState
    BY <1>1, <2>1, <2>2, AdvanceType
  <2>4. Advanced(ev, suppress)[c].episode =
          IF OpensEpisode(latch[c], ev[c]) THEN last + 1 ELSE latch[c].episode
    BY <1>1, <2>1, <2>2, AdvanceEpisode
  <2> QED
    BY <1>1, <2>1, <2>2, <2>3, <2>4 DEF Run
<1>3. Advanced(ev, suppress) \in [Condition -> ConditionState]
  BY <1>2 DEF Advanced
<1> QED
  BY <1>1, <1>2, <1>3

(* A condition with a transition is in an episode.                         *)
LEMMA TransitionsHaveEpisodes ==
    ASSUME TypeOK, EpisodesAreOpen, last < MaxRuns, NEW ev \in [Condition -> Evaluations],
           NEW suppress \in Suppressions,
           NEW c \in Alerting(ev) \cup Resolving(ev, suppress)
    PROVE  Advanced(ev, suppress)[c].episode \in Run
<1>1. c \in Condition
  BY DEF Alerting, Resolving
<1>2. OpensEpisode(latch[c], ev[c]) \/ latch[c].lifecycle # "clear"
  BY DEF Alerting, Resolving, RaisesAlert, RaisesResolution, OpensEpisode
<1>3. latch[c].lifecycle # "clear" => latch[c].episode # 0
  BY <1>1 DEF EpisodesAreOpen
<1>4. latch[c].episode \in 0..MaxRuns
  BY <1>1 DEF TypeOK
<1> QED
  BY <1>1, <1>2, <1>3, <1>4, AdvancedType DEF Run

(* The batches of a commit are well-formed messages of the new run.        *)
LEMMA NewMessagesType ==
    ASSUME TypeOK, EpisodesAreOpen, last < MaxRuns, NEW ev \in [Condition -> Evaluations],
           NEW suppress \in Suppressions,
           NEW alerts \in Batches(Alerting(ev)),
           NEW resolutions \in Batches(Resolving(ev, suppress))
    PROVE  /\ Built(last + 1, "alert", alerts, Advanced(ev, suppress)) \subseteq Message
           /\ Built(last + 1, "resolution", resolutions, Advanced(ev, suppress)) \subseteq Message
<1>1. last + 1 \in Run
  BY MaxRunsAssumption DEF TypeOK, Run
<1>2. Alerting(ev) \in SUBSET Condition /\ Resolving(ev, suppress) \in SUBSET Condition
  BY DEF Alerting, Resolving
<1>3. \A c \in Alerting(ev) : Advanced(ev, suppress)[c].episode \in Run
  BY TransitionsHaveEpisodes
<1>4. \A c \in Resolving(ev, suppress) : Advanced(ev, suppress)[c].episode \in Run
  BY TransitionsHaveEpisodes
<1>5. "alert" \in Kind /\ "resolution" \in Kind
  BY DEF Kind
<1> QED
  BY <1>1, <1>2, <1>3, <1>4, <1>5, BuiltType

-----------------------------------------------------------------------------
(* The outbox a commit leaves.                                             *)

(* What cancel_unsent_condition replaces a message with: the same run and  *)
(* kind, and the members that are not withdrawn, at least one of them.     *)
LEMMA SurvivorFacts ==
    ASSUME TypeOK, NEW ev, NEW m \in ReplacedBy(ev)
    PROVE  /\ m \in Unsent /\ m \in DOMAIN outbox /\ m \in Message
           /\ Survivor(m, ev) \in Message
           /\ Survivor(m, ev).run = m.run
           /\ Survivor(m, ev).kind = m.kind
           /\ Survivor(m, ev).members = m.members \ Withdrawn(m, ev)
           /\ Survivor(m, ev).members # {}
           /\ Survivor(m, ev).members # m.members
<1>1. m \in Unsent /\ m \in DOMAIN outbox /\ m \in Message
  BY DEF ReplacedBy, CancelledBy, Unsent, TypeOK
<1>2. Withdrawn(m, ev) \subseteq m.members /\ Withdrawn(m, ev) # {} /\ Withdrawn(m, ev) # m.members
  BY DEF ReplacedBy, CancelledBy, Withdrawn
<1>3. Survivor(m, ev) = [run |-> m.run, kind |-> m.kind, members |-> m.members \ Withdrawn(m, ev)]
  BY <1>1 DEF Survivor, Message
<1>4. m.members \ Withdrawn(m, ev) # {} /\ m.members \ Withdrawn(m, ev) # m.members
  BY <1>2
<1> QED
  BY <1>1, <1>3, <1>4 DEF Message

(* The rows a commit leaves, before pruning: rows that were there keep      *)
(* their status unless they are cancelled, copies and new messages are not  *)
(* among them, and a copy is unsent like its original.                      *)
CommittedRows(rows, ev, new, suppress) ==
    /\ DOMAIN rows = DOMAIN outbox \cup Copies(ev) \cup new
    /\ DOMAIN rows \subseteq Message
    /\ rows \in [DOMAIN rows -> Row]
    /\ \A n \in DOMAIN outbox :
         rows[n].status = IF n \in CancelledBy(ev) THEN "cancelled" ELSE outbox[n].status
    /\ \A n \in Copies(ev) : n \notin DOMAIN outbox /\ rows[n].status \in UnsentStatus
    /\ \A n \in new : /\ n \notin DOMAIN outbox /\ n \notin Copies(ev)
                      /\ rows[n].status = Queued(suppress)

(* OutboxAfter leaves such rows.                                           *)
LEMMA OutboxAfterRows ==
    ASSUME TypeOK, Nested, NothingFromTheFuture, NEW ev, NEW suppress \in BOOLEAN,
           NEW new \in SUBSET Message, \A n \in new : n.run = last + 1
    PROVE  CommittedRows(OutboxAfter(ev, new, suppress), ev, new, suppress)
<1> DEFINE rows == OutboxAfter(ev, new, suppress)
<1>1. DOMAIN rows = DOMAIN outbox \cup Copies(ev) \cup new
  BY DEF OutboxAfter
<1>2. Copies(ev) \subseteq Message
  BY SurvivorFacts DEF Copies
<1>3. ASSUME NEW n \in Copies(ev)
      PROVE  /\ n \notin DOMAIN outbox
             /\ Original(n, ev) \in Unsent
             /\ n.run <= last
  <2>1. PICK m \in ReplacedBy(ev) : n = Survivor(m, ev)
    BY DEF Copies
  <2>2. Original(n, ev) \in ReplacedBy(ev)
    BY <2>1 DEF Original
  <2>3. m \in Live
    BY <2>1, SurvivorFacts DEF Live, LiveStatus, Unsent
  <2>4. n \notin DOMAIN outbox
    <3> SUFFICES ASSUME n \in DOMAIN outbox PROVE FALSE
      OBVIOUS
    <3>1. n.run = m.run /\ n.kind = m.kind /\ n.members \subseteq m.members
          /\ n.members # {} /\ n.members # m.members
      BY <2>1, SurvivorFacts
    <3>2. m.members \subseteq n.members
      BY <2>3, <3>1 DEF Nested
    <3> QED
      BY <3>1, <3>2
  <2>5. n.run <= last
    BY <2>1, SurvivorFacts DEF NothingFromTheFuture
  <2> QED
    BY <2>2, <2>4, <2>5, SurvivorFacts
<1>4. ASSUME NEW n \in new
      PROVE  n \notin DOMAIN outbox /\ n \notin Copies(ev)
  <2>1. n.run = last + 1 /\ last \in Nat
    BY MaxRunsAssumption DEF TypeOK
  <2>2. n \notin DOMAIN outbox
    BY <2>1 DEF NothingFromTheFuture, TypeOK, Message, Run
  <2>3. n \notin Copies(ev)
    BY <2>1, <1>2, <1>3 DEF Message, Run
  <2> QED
    BY <2>2, <2>3
<1>5. CancelledBy(ev) \subseteq DOMAIN outbox
  BY DEF CancelledBy, Unsent
<1>6. ASSUME NEW n \in DOMAIN outbox
      PROVE  /\ rows[n].status = IF n \in CancelledBy(ev) THEN "cancelled" ELSE outbox[n].status
             /\ rows[n] \in Row
  <2>1. outbox[n] \in Row
    BY DEF TypeOK
  <2>2. rows[n] = IF n \in CancelledBy(ev) THEN [outbox[n] EXCEPT !.status = "cancelled"] ELSE outbox[n]
    BY DEF OutboxAfter
  <2> QED
    BY <2>1, <2>2 DEF Row, Status
<1>7. ASSUME NEW n \in Copies(ev)
      PROVE  rows[n].status \in UnsentStatus /\ rows[n] \in Row
  <2>1. rows[n] = [status |-> outbox[Original(n, ev)].status, executor |-> 0]
    BY <1>3, <1>5 DEF OutboxAfter
  <2>2. outbox[Original(n, ev)].status \in UnsentStatus
    BY <1>3 DEF Unsent
  <2> QED
    BY <2>1, <2>2, MaxRunsAssumption DEF Row, Status, LiveStatus
<1>8. ASSUME NEW n \in new
      PROVE  rows[n].status = Queued(suppress) /\ rows[n] \in Row
  <2>1. rows[n] = [status |-> Queued(suppress), executor |-> 0]
    BY <1>4, <1>5 DEF OutboxAfter
  <2> QED
    BY <2>1, MaxRunsAssumption DEF Row, Status, LiveStatus, UnsentStatus, Queued
<1>9. rows \in [DOMAIN rows -> Row]
  <2>1. \A n \in DOMAIN rows : rows[n] \in Row
    BY <1>1, <1>6, <1>7, <1>8
  <2> QED
    BY <2>1 DEF OutboxAfter
<1>10. DOMAIN rows \subseteq Message
  BY <1>1, <1>2 DEF TypeOK
<1> QED
  BY <1>1, <1>3, <1>4, <1>6, <1>7, <1>8, <1>9, <1>10 DEF CommittedRows

(* What a commit does to the outbox, in the terms the invariants need: the *)
(* rows are those of OutboxAfter, and pruning takes away none that is live, *)
(* unknown or failed.                                                       *)
New(ev, suppress, alerts, resolutions) ==
    Built(last + 1, "alert", alerts, Advanced(ev, suppress))
      \cup Built(last + 1, "resolution", resolutions, Advanced(ev, suppress))

Rows(ev, suppress, alerts, resolutions) ==
    OutboxAfter(ev, New(ev, suppress, alerts, resolutions), suppress)

(* The latches, the rows and the runs that a commit leaves, spelled out.    *)
LEMMA CommitFacts ==
    ASSUME TypeOK, EpisodesAreOpen, Nested, NothingFromTheFuture, last < MaxRuns,
           NEW ev \in [Condition -> Evaluations], NEW suppress \in Suppressions,
           NEW cutoff \in Nat,
           NEW alerts \in Batches(Alerting(ev)),
           NEW resolutions \in Batches(Resolving(ev, suppress)),
           Commit(ev, suppress, cutoff, alerts, resolutions),
           NEW new, new = New(ev, suppress, alerts, resolutions),
           NEW rows, rows = Rows(ev, suppress, alerts, resolutions)
    PROVE  /\ latch' = Advanced(ev, suppress)
           /\ last' = last + 1
           /\ suppress \in BOOLEAN
           /\ \A n \in new : n.run = last + 1
           /\ CommittedRows(rows, ev, new, suppress)
           /\ DOMAIN outbox' \subseteq DOMAIN rows
           /\ \A m \in DOMAIN outbox' : outbox'[m] = rows[m]
           /\ \A m \in DOMAIN rows : rows[m].status \in RetainedStatus => m \in DOMAIN outbox'
           /\ DOMAIN runs' \subseteq DOMAIN runs \cup {last + 1}
           /\ \A r \in DOMAIN runs' :
                runs'[r] = IF r = last + 1 THEN NewReport(Advanced(ev, suppress)) ELSE runs[r]
<1> DEFINE gone == Pruned(DOMAIN runs, rows, cutoff)
<1>1. suppress \in BOOLEAN
  BY SuppressionsAssumption
<1>2. new \in SUBSET Message
  BY NewMessagesType DEF New
<1>3. \A n \in new : n.run = last + 1
  BY DEF New, Built
<1>4. /\ latch' = Advanced(ev, suppress)
      /\ last' = last + 1
      /\ outbox' = [m \in {n \in DOMAIN rows : n.run \notin gone} |-> rows[m]]
      /\ runs' = [r \in (DOMAIN runs \cup {last + 1}) \ gone |->
                     IF r = last + 1 THEN NewReport(Advanced(ev, suppress)) ELSE runs[r]]
  BY DEF Commit, New, Rows
<1>5. CommittedRows(rows, ev, new, suppress)
  BY <1>1, <1>2, <1>3, OutboxAfterRows DEF Rows
<1>6. ASSUME NEW m \in DOMAIN rows, rows[m].status \in RetainedStatus
      PROVE  m \in DOMAIN outbox'
  <2>1. m.run \notin gone
    BY <1>6 DEF Pruned
  <2> QED
    BY <1>4, <1>6, <2>1
<1> QED
  BY <1>1, <1>3, <1>4, <1>5, <1>6

(* A commit keeps the database well formed.                                *)
LEMMA CommitType ==
    ASSUME TypeOK, EpisodesAreOpen, Nested, NothingFromTheFuture, CommitRun
    PROVE  TypeOK'
<1>1. PICK ev \in [Condition -> Evaluations], suppress \in Suppressions, cutoff \in 1..(last + 1) :
        /\ \E alerts \in Batches(Alerting(ev)), resolutions \in Batches(Resolving(ev, suppress)) :
              Commit(ev, suppress, cutoff, alerts, resolutions)
        /\ pc' = IF suppress THEN "finishing" ELSE "committed"
  BY DEF CommitRun
<1>2. PICK alerts \in Batches(Alerting(ev)), resolutions \in Batches(Resolving(ev, suppress)) :
        Commit(ev, suppress, cutoff, alerts, resolutions)
  BY <1>1
<1>3. last < MaxRuns /\ cutoff \in Nat
  BY DEF CommitRun
<1> DEFINE new == New(ev, suppress, alerts, resolutions)
           rows == Rows(ev, suppress, alerts, resolutions)
<1> HIDE DEF new, rows
<1>4. /\ latch' = Advanced(ev, suppress)
      /\ last' = last + 1
      /\ CommittedRows(rows, ev, new, suppress)
      /\ DOMAIN outbox' \subseteq DOMAIN rows
      /\ \A m \in DOMAIN outbox' : outbox'[m] = rows[m]
      /\ DOMAIN runs' \subseteq DOMAIN runs \cup {last + 1}
      /\ \A r \in DOMAIN runs' :
           runs'[r] = IF r = last + 1 THEN NewReport(Advanced(ev, suppress)) ELSE runs[r]
  BY <1>2, <1>3, CommitFacts DEF new, rows
<1>5. /\ Advanced(ev, suppress) \in [Condition -> ConditionState]
      /\ \A c \in Condition : Advanced(ev, suppress)[c].episode \in 0..MaxRuns
  BY <1>3, AdvancedType
<1>6. last + 1 \in Run /\ last + 1 \in 0..MaxRuns
  BY <1>3, MaxRunsAssumption DEF TypeOK, Run
<1>7. NewReport(Advanced(ev, suppress)) \in Report
  <2>1. {[message |-> a.message, executor |-> a.executor,
          action |-> "recovered", result |-> "interrupted"] : a \in recovered} \subseteq Activity
    BY DEF TypeOK, Activity, Action, Result
  <2>2. [c \in Condition |-> [episode  |-> Advanced(ev, suppress)[c].episode,
                              delivery |-> Advanced(ev, suppress)[c].delivery]]
          \in [Condition -> Evidence]
    BY <1>5 DEF Evidence, ConditionState
  <2> QED
    BY <2>1, <2>2 DEF NewReport, Report, ExitCode
<1>8. outbox' \in [DOMAIN outbox' -> Row] /\ DOMAIN outbox' \subseteq Message
  BY <1>2, <1>4 DEF Commit, CommittedRows
<1>9. runs' \in [DOMAIN runs' -> Report] /\ DOMAIN runs' \subseteq Run
  BY <1>2, <1>4, <1>6, <1>7 DEF Commit, TypeOK
<1>10. pc' \in {"idle", "recovering", "observing", "committed", "delivering",
                "sending", "sent", "finishing"}
  BY <1>1
<1>11. UNCHANGED <<recovered, failed, queue, sending, answer, shown, confirmed>>
  BY DEF CommitRun, history
<1>12. failed' \in BOOLEAN
  BY <1>11 DEF TypeOK
<1>13. latch' \in [Condition -> ConditionState] /\ \A c \in Condition : latch'[c].episode \in 0..MaxRuns
  BY <1>4, <1>5
<1>14. last' \in 0..MaxRuns
  BY <1>4, <1>6
<1> QED
  BY <1>8, <1>9, <1>10, <1>11, <1>12, <1>13, <1>14 DEF TypeOK

(* Every step keeps the state well formed.                                 *)
LEMMA TypeStep == IInv /\ [Next]_vars => TypeOK'
<1> SUFFICES ASSUME IInv, [Next]_vars PROVE TypeOK'
  OBVIOUS
<1> USE DEF database, process, history
<1>0. TypeOK
  BY DEF IInv
<1>1. CASE StartCheck
  BY <1>0, <1>1 DEF StartCheck, TypeOK
<1>2. CASE RecoverAttempt
  <2>1. PICK m \in InFlight :
          /\ Record(m, outbox[m].executor, "interrupted")
          /\ recovered' = recovered \cup {[message |-> m, executor |-> outbox[m].executor]}
    BY <1>2 DEF RecoverAttempt
  <2>2. "interrupted" \in Result
    BY DEF Result
  <2>3. /\ latch' \in [Condition -> ConditionState]
        /\ \A c \in Condition : latch'[c].episode \in 0..MaxRuns
        /\ DOMAIN outbox' = DOMAIN outbox
        /\ outbox' \in [DOMAIN outbox -> Row]
        /\ DOMAIN runs' = DOMAIN runs
        /\ runs' \in [DOMAIN runs -> Report]
        /\ confirmed' \subseteq Notice
        /\ last' = last
        /\ m \in Message /\ outbox[m].executor \in Run
    BY <1>0, <2>1, <2>2, RecordType
  <2>4. recovered' \subseteq [message : Message, executor : Run]
    BY <1>0, <2>1, <2>3 DEF TypeOK
  <2>5. UNCHANGED <<pc, failed, queue, sending, answer, shown>>
    BY <1>2 DEF RecoverAttempt
  <2> QED
    BY <1>0, <2>3, <2>4, <2>5 DEF TypeOK
<1>3. CASE RecoverDone
  <2>1. failed' \in BOOLEAN
    BY <1>3 DEF RecoverDone
  <2> QED
    BY <1>0, <1>3, <2>1 DEF RecoverDone, TypeOK
<1>4. CASE CommitRun
  BY <1>0, <1>4, CommitType DEF IInv
<1>5. CASE ReadPending
  <2>1. queue' \subseteq Message
    BY <1>0, <1>5 DEF ReadPending, Unsent, TypeOK
  <2> QED
    BY <1>0, <1>5, <2>1 DEF ReadPending, TypeOK
<1>6. CASE BeginAttempt
  <2>1. PICK m \in queue :
          /\ m \in Unsent
          /\ last \in DOMAIN runs
          /\ outbox' = [outbox EXCEPT ![m] = [status |-> "in_flight", executor |-> last]]
          /\ runs' = [runs EXCEPT ![last].activity =
                         Noted(@, [message |-> m, executor |-> last,
                                   action |-> "attempt", result |-> "in_flight"])]
          /\ sending' = m
          /\ queue' = queue \ {m}
    BY <1>6 DEF BeginAttempt
  <2>2. m \in Message /\ last \in Run
    BY <1>0, <2>1 DEF TypeOK
  <2>3. outbox' \in [DOMAIN outbox' -> Row] /\ DOMAIN outbox' \subseteq Message
    BY <1>0, <2>1 DEF TypeOK, Row, Status, LiveStatus
  <2>4. Noted(runs[last].activity, [message |-> m, executor |-> last,
                                    action |-> "attempt", result |-> "in_flight"]) \subseteq Activity
    BY <1>0, <2>1, <2>2 DEF TypeOK, Noted, Report, Activity, Action
  <2>5. runs' \in [DOMAIN runs' -> Report] /\ DOMAIN runs' \subseteq Run
    BY <1>0, <2>1, <2>4 DEF TypeOK, Report
  <2>6. queue' \subseteq Message /\ sending' \in Message \cup {NoMessage}
    BY <1>0, <2>1, <2>2 DEF TypeOK
  <2>7. UNCHANGED <<latch, last, recovered, failed, answer, shown, confirmed>> /\ pc' = "sending"
    BY <1>6 DEF BeginAttempt
  <2> QED
    BY <1>0, <2>3, <2>5, <2>6, <2>7 DEF TypeOK
<1>7. CASE Send
  <2>1. answer' \in Result
    BY <1>7 DEF Send, Result
  <2>2. shown' \subseteq Notice
    <3>1. Notices(sending) \subseteq Notice
      BY <1>0, NoticesType DEF TypeOK, NoMessage, Notices
    <3> QED
      BY <1>0, <1>7, <3>1 DEF Send, TypeOK
  <2> QED
    BY <1>0, <1>7, <2>1, <2>2 DEF Send, TypeOK
<1>8. CASE Arrive
  <2>1. shown' \subseteq Notice
    BY <1>0, <1>8, NoticesType DEF Arrive, TypeOK
  <2> QED
    BY <1>0, <1>8, <2>1 DEF Arrive, TypeOK
<1>9. CASE RecordAttempt
  <2>1. answer \in Result /\ Record(sending, last, answer)
    BY <1>0, <1>9 DEF RecordAttempt, TypeOK
  <2>2. /\ latch' \in [Condition -> ConditionState]
        /\ \A c \in Condition : latch'[c].episode \in 0..MaxRuns
        /\ DOMAIN outbox' = DOMAIN outbox
        /\ outbox' \in [DOMAIN outbox -> Row]
        /\ DOMAIN runs' = DOMAIN runs
        /\ runs' \in [DOMAIN runs -> Report]
        /\ confirmed' \subseteq Notice
        /\ last' = last
    BY <1>0, <2>1, RecordType
  <2>3. failed' \in BOOLEAN
    BY <1>9 DEF RecordAttempt
  <2>4. answer' \in Result
    BY <1>9 DEF RecordAttempt, Result
  <2>5. pc' \in {"delivering", "finishing"} /\ sending' = NoMessage
        /\ UNCHANGED <<recovered, queue, shown>>
    BY <1>9 DEF RecordAttempt
  <2> QED
    BY <1>0, <2>2, <2>3, <2>4, <2>5 DEF TypeOK
<1>10. ASSUME Exits
       PROVE  /\ pc' = "idle" /\ recovered' = {} /\ queue' = {} /\ sending' = NoMessage
              /\ failed' \in BOOLEAN /\ answer' \in Result
  BY <1>10 DEF Exits, Result
<1>11. CASE Finish
  <2>1. runs' \in [DOMAIN runs' -> Report] /\ DOMAIN runs' \subseteq Run
    <3>1. last \in DOMAIN runs /\ runs[last] \in Report
      BY <1>0, <1>11 DEF Finish, TypeOK
    <3> DEFINE fresh == [c \in Condition |->
                 IF runs[last].evidence[c].episode = latch[c].episode /\ latch[c].episode # 0
                 THEN [runs[last].evidence[c] EXCEPT !.delivery = latch[c].delivery]
                 ELSE runs[last].evidence[c]]
    <3>2. fresh \in [Condition -> Evidence]
      <4>1. ASSUME NEW c \in Condition
            PROVE  runs[last].evidence[c] \in Evidence /\ latch[c].delivery \in DeliveryState
        BY <1>0, <3>1 DEF Report, TypeOK, ConditionState
      <4> QED
        BY <4>1 DEF Evidence
    <3>3. runs' = [runs EXCEPT ![last].evidence = fresh]
      BY <1>11 DEF Finish
    <3> QED
      BY <1>0, <3>1, <3>2, <3>3 DEF TypeOK, Report
  <2>2. UNCHANGED <<latch, outbox, last, shown, confirmed>> /\ Exits
    BY <1>11 DEF Finish
  <2> QED
    BY <1>0, <1>10, <2>1, <2>2 DEF TypeOK
<1>12. CASE EndEarly
  BY <1>0, <1>10, <1>12 DEF EndEarly, TypeOK
<1>13. CASE UNCHANGED vars
  BY <1>0, <1>13 DEF vars, TypeOK
<1> QED
  BY <1>1, <1>2, <1>3, <1>4, <1>5, <1>6, <1>7, <1>8, <1>9, <1>11, <1>12, <1>13 DEF Next

-----------------------------------------------------------------------------
(* Latches and outbox.                                                     *)

(* A member of a live message is in its condition's current episode, whose *)
(* delivery is pending, and the message is of the kind the latch expects.  *)
LEMMA LiveMember ==
    ASSUME TypeOK, OutboxBacksLatches, NEW m \in Live, NEW p \in m.members
    PROVE  /\ m \in DOMAIN outbox /\ m \in Message
           /\ p[1] \in Condition /\ p[2] \in Run /\ p = <<p[1], p[2]>>
           /\ latch[p[1]].episode = p[2]
           /\ latch[p[1]].delivery = "pending"
           /\ m.kind = Expected(latch[p[1]])
<1>1. m \in DOMAIN outbox /\ m \in Message
  BY DEF Live, TypeOK
<1>2. p[1] \in Condition /\ p[2] \in Run /\ p = <<p[1], p[2]>>
  BY <1>1 DEF Message, Member
<1>3. latch[p[1]].episode = p[2] /\ latch[p[1]].delivery = "pending"
  BY DEF OutboxBacksLatches
<1>4. m \in LiveFor(p[1])
  BY <1>2, <1>3 DEF LiveFor
<1>5. m.kind = Expected(latch[p[1]])
  BY <1>2, <1>3, <1>4 DEF OutboxBacksLatches
<1> QED
  BY <1>1, <1>2, <1>3, <1>5

(* Two live messages have no member in common.                             *)
LEMMA LiveDisjoint ==
    ASSUME TypeOK, OutboxBacksLatches, NEW m \in Live, NEW n \in Live,
           NEW p, p \in m.members, p \in n.members
    PROVE  m = n
<1>1. p[1] \in Condition /\ p = <<p[1], latch[p[1]].episode>> /\ latch[p[1]].delivery = "pending"
  BY LiveMember
<1>2. m \in LiveFor(p[1]) /\ n \in LiveFor(p[1])
  BY <1>1 DEF LiveFor
<1> QED
  BY <1>1, <1>2 DEF OutboxBacksLatches

(* What recording a result changes: the row of the attempt, and the        *)
(* delivery of its members unless it is to be retried.                     *)
LEMMA RecordFacts ==
    ASSUME TypeOK, OutboxBacksLatches, NEW m, NEW executor, NEW result \in Result,
           Record(m, executor, result)
    PROVE  /\ m \in InFlight /\ m \in Live /\ m \in Message
           /\ DOMAIN outbox' = DOMAIN outbox
           /\ outbox'[m].status = RowStatus(result)
           /\ \A n \in DOMAIN outbox : n # m => outbox'[n] = outbox[n]
           /\ \A c \in Condition :
                /\ latch'[c].lifecycle = latch[c].lifecycle
                /\ latch'[c].episode = latch[c].episode
                /\ latch'[c].delivery =
                     IF result # "retryable" /\ <<c, latch[c].episode>> \in m.members
                     THEN Reached(m.kind, result) ELSE latch[c].delivery
           /\ last' = last
<1>1. m \in InFlight /\ m \in Live /\ m \in Message
  BY DEF Record, InFlight, Live, LiveStatus, TypeOK
<1>2. DOMAIN outbox' = DOMAIN outbox /\ outbox'[m].status = RowStatus(result)
      /\ \A n \in DOMAIN outbox : n # m => outbox'[n] = outbox[n]
  BY DEF Record, TypeOK, Row
<1>3. ASSUME NEW c \in Condition
      PROVE  /\ latch'[c].lifecycle = latch[c].lifecycle
             /\ latch'[c].episode = latch[c].episode
             /\ latch'[c].delivery =
                  IF result # "retryable" /\ <<c, latch[c].episode>> \in m.members
                  THEN Reached(m.kind, result) ELSE latch[c].delivery
  <2>1. latch[c] \in ConditionState
    BY DEF TypeOK
  <2> QED
    BY <2>1 DEF Record, LatchAfter, ConditionState
<1> QED
  BY <1>1, <1>2, <1>3 DEF Record

(* Recording a result keeps the latches and the outbox in agreement.       *)
LEMMA RecordBacks ==
    ASSUME TypeOK, OutboxBacksLatches, NEW m, NEW executor, NEW result \in Result,
           Record(m, executor, result)
    PROVE  OutboxBacksLatches'
<1>1. /\ m \in InFlight /\ m \in Live /\ m \in Message
      /\ DOMAIN outbox' = DOMAIN outbox
      /\ outbox'[m].status = RowStatus(result)
      /\ \A n \in DOMAIN outbox : n # m => outbox'[n] = outbox[n]
      /\ \A c \in Condition :
           /\ latch'[c].lifecycle = latch[c].lifecycle
           /\ latch'[c].episode = latch[c].episode
           /\ latch'[c].delivery =
                IF result # "retryable" /\ <<c, latch[c].episode>> \in m.members
                THEN Reached(m.kind, result) ELSE latch[c].delivery
  BY RecordFacts
<1>2. Live' \subseteq Live
  BY <1>1 DEF Live, InFlight, LiveStatus
<1>3. \A n \in Live : n # m => n \in Live'
  BY <1>1 DEF Live
<1>4. result = "retryable" => m \in Live'
  BY <1>1 DEF Live, RowStatus, LiveStatus, UnsentStatus
<1>5. result # "retryable" => m \notin Live' /\ Reached(m.kind, result) # "pending"
  BY <1>1 DEF Live, RowStatus, LiveStatus, UnsentStatus, Result, Reached
<1>6. ASSUME NEW n \in Live', NEW p \in n.members
      PROVE  latch'[p[1]].episode = p[2] /\ latch'[p[1]].delivery = "pending"
  <2>1. n \in Live
    BY <1>2
  <2>2. p[1] \in Condition /\ p = <<p[1], p[2]>> /\ latch[p[1]].episode = p[2]
        /\ latch[p[1]].delivery = "pending"
    BY <2>1, LiveMember
  <2>3. result # "retryable" => p \notin m.members
    BY <1>1, <1>5, <2>1, LiveDisjoint
  <2> QED
    BY <1>1, <2>2, <2>3
<1>7. ASSUME NEW c \in Condition, latch'[c].delivery = "pending"
      PROVE  \E n \in LiveFor(c)' : LiveFor(c)' = {n} /\ n.kind = Expected(latch'[c])
  <2>1. latch[c].delivery = "pending"
        /\ (result = "retryable" \/ <<c, latch[c].episode>> \notin m.members)
    BY <1>1, <1>5, <1>7
  <2>2. LiveFor(c)' = LiveFor(c)
    BY <1>1, <1>2, <1>3, <1>4, <2>1 DEF LiveFor
  <2>3. Expected(latch'[c]) = Expected(latch[c])
    BY <1>1 DEF Expected
  <2> QED
    BY <2>1, <2>2, <2>3 DEF OutboxBacksLatches
<1> QED
  BY <1>6, <1>7 DEF OutboxBacksLatches

(* A commit, seen from the invariants: its evaluations and batches, the     *)
(* rows it leaves, and what becomes of the latches and the outbox.          *)
Committed(ev, suppress, alerts, resolutions, new, rows) ==
    /\ ev \in [Condition -> Evaluations]
    /\ suppress \in Suppressions /\ suppress \in BOOLEAN
    /\ alerts \in Batches(Alerting(ev))
    /\ resolutions \in Batches(Resolving(ev, suppress))
    /\ new = New(ev, suppress, alerts, resolutions)
    /\ CommittedRows(rows, ev, new, suppress)
    /\ last < MaxRuns /\ last' = last + 1
    /\ latch' = Advanced(ev, suppress)
    /\ DOMAIN outbox' \subseteq DOMAIN rows
    /\ \A m \in DOMAIN outbox' : outbox'[m] = rows[m]
    /\ \A m \in DOMAIN rows : rows[m].status \in RetainedStatus => m \in DOMAIN outbox'
    /\ \A n \in new : n.run = last + 1

(* CommitRun makes such a commit, with nothing in flight.                  *)
LEMMA CommitRunCommits ==
    ASSUME IInv, CommitRun
    PROVE  /\ InFlight = {}
           /\ \E ev, suppress, alerts, resolutions, new, rows :
                 Committed(ev, suppress, alerts, resolutions, new, rows)
<1>1. InFlight = {} /\ last < MaxRuns
  BY DEF IInv, AttemptOfCheck, CommitRun
<1>2. PICK ev \in [Condition -> Evaluations], suppress \in Suppressions, cutoff \in 1..(last + 1) :
        \E alerts \in Batches(Alerting(ev)), resolutions \in Batches(Resolving(ev, suppress)) :
           Commit(ev, suppress, cutoff, alerts, resolutions)
  BY DEF CommitRun
<1>3. PICK alerts \in Batches(Alerting(ev)), resolutions \in Batches(Resolving(ev, suppress)) :
        Commit(ev, suppress, cutoff, alerts, resolutions)
  BY <1>2
<1>4. PICK new : new = New(ev, suppress, alerts, resolutions)
  OBVIOUS
<1>5. PICK rows : rows = Rows(ev, suppress, alerts, resolutions)
  OBVIOUS
<1>6. cutoff \in Nat
  OBVIOUS
<1>7. /\ latch' = Advanced(ev, suppress)
      /\ last' = last + 1
      /\ suppress \in BOOLEAN
      /\ \A n \in new : n.run = last + 1
      /\ CommittedRows(rows, ev, new, suppress)
      /\ DOMAIN outbox' \subseteq DOMAIN rows
      /\ \A m \in DOMAIN outbox' : outbox'[m] = rows[m]
      /\ \A m \in DOMAIN rows : rows[m].status \in RetainedStatus => m \in DOMAIN outbox'
  BY <1>1, <1>3, <1>4, <1>5, <1>6, CommitFacts DEF IInv
<1>8. Committed(ev, suppress, alerts, resolutions, new, rows)
  BY <1>1, <1>3, <1>4, <1>7 DEF Committed
<1> QED
  BY <1>1, <1>8

(* What a commit makes of one condition, by what its evaluation decides.   *)
LEMMA CommitLatch ==
    ASSUME IInv, NEW ev, NEW suppress, NEW alerts, NEW resolutions, NEW new, NEW rows,
           Committed(ev, suppress, alerts, resolutions, new, rows), NEW c \in Condition
    PROVE  /\ latch[c] \in ConditionState /\ latch'[c] \in ConditionState
           /\ latch'[c].episode =
                IF OpensEpisode(latch[c], ev[c]) THEN last + 1 ELSE latch[c].episode
           /\ latch[c].episode <= last
           /\ c \in Alerting(ev) <=> RaisesAlert(latch[c], ev[c])
           /\ c \in Resolving(ev, suppress) <=> RaisesResolution(latch[c], ev[c], suppress)
           /\ c \in Alerting(ev) => latch'[c].delivery = Queued(suppress)
                                    /\ latch'[c].lifecycle = "firing"
           /\ c \in Resolving(ev, suppress) => latch'[c].delivery = Queued(suppress)
                                    /\ latch'[c].lifecycle = "clear"
           /\ OpensEpisode(latch[c], ev[c]) /\ c \notin Alerting(ev) => latch'[c].delivery = "never"
           /\ WithdrawsAlert(latch[c], ev[c]) => latch'[c].delivery = "never"
           /\ ~OpensEpisode(latch[c], ev[c]) /\ c \notin Alerting(ev)
                /\ ~WithdrawsAlert(latch[c], ev[c]) /\ c \notin Resolving(ev, suppress)
                => latch'[c].delivery = latch[c].delivery
<1>1. /\ TypeOK /\ last < MaxRuns
      /\ ev \in [Condition -> Evaluations] /\ suppress \in Suppressions
      /\ latch' = Advanced(ev, suppress)
  BY DEF IInv, Committed
<1>2. /\ latch'[c] = Advance(latch[c], ev[c], last + 1, suppress)
      /\ latch[c] \in ConditionState /\ ev[c] \in Evaluation
      /\ suppress \in BOOLEAN /\ last + 1 \in Nat
      /\ latch'[c] \in ConditionState
      /\ latch'[c].episode =
           IF OpensEpisode(latch[c], ev[c]) THEN last + 1 ELSE latch[c].episode
  BY <1>1, AdvancedType DEF Run
<1>3. latch[c].episode <= last
  BY DEF IInv, NothingFromTheFuture
<1>4. /\ c \in Alerting(ev) <=> RaisesAlert(latch[c], ev[c])
      /\ c \in Resolving(ev, suppress) <=> RaisesResolution(latch[c], ev[c], suppress)
  BY DEF Alerting, Resolving
<1>5. RaisesResolution(latch[c], ev[c], suppress) => Recovers(latch[c], ev[c])
  BY DEF RaisesResolution
<1>6. /\ RaisesAlert(latch[c], ev[c]) => latch'[c].lifecycle = "firing"
      /\ Recovers(latch[c], ev[c]) => latch'[c].lifecycle = "clear"
  BY <1>2, AdvanceLifecycle
<1> QED
  BY <1>2, <1>3, <1>4, <1>5, <1>6, AdvanceDelivery

(* A member of a live message that a commit does not withdraw stays owed,   *)
(* in the same episode and of the same kind, and has no new transition.     *)
LEMMA KeptMember ==
    ASSUME IInv, NEW ev, NEW suppress, NEW alerts, NEW resolutions, NEW new, NEW rows,
           Committed(ev, suppress, alerts, resolutions, new, rows),
           NEW m \in Live, NEW p \in m.members, p \notin Withdrawn(m, ev)
    PROVE  /\ latch'[p[1]].episode = p[2]
           /\ latch'[p[1]].delivery = "pending"
           /\ m.kind = Expected(latch'[p[1]])
           /\ p[1] \notin Alerting(ev) /\ p[1] \notin Resolving(ev, suppress)
<1> DEFINE c == p[1]
           s == latch[c]
<1>1. /\ c \in Condition /\ s.episode = p[2] /\ s.delivery = "pending" /\ m.kind = Expected(s)
  BY LiveMember DEF IInv
<1>2. ~OpensEpisode(s, ev[c]) /\ ~(m.kind = "alert" /\ WithdrawsAlert(s, ev[c]))
  BY DEF Withdrawn, Withdraws
<1>3. s.lifecycle \in {"clear", "firing"}
  BY <1>1 DEF IInv, EpisodesAreOpen, TypeOK, ConditionState, Lifecycle
<1>4. ~WithdrawsAlert(s, ev[c])
  BY <1>1, <1>2 DEF WithdrawsAlert, Expected
<1>5. c \notin Alerting(ev)
  BY <1>2, <1>3 DEF Alerting, RaisesAlert, OpensEpisode
<1>6. c \notin Resolving(ev, suppress)
  BY <1>1 DEF Resolving, RaisesResolution
<1>7. latch'[c].delivery = "pending" /\ latch'[c].episode = p[2]
  BY <1>1, <1>2, <1>4, <1>5, <1>6, CommitLatch
<1>8. Expected(latch'[c]) = Expected(s)
  <2>1. ~Recovers(s, ev[c]) \/ s.lifecycle = "clear"
    BY <1>1, <1>4 DEF WithdrawsAlert
  <2>2. /\ latch'[c] = Advance(s, ev[c], last + 1, suppress)
        /\ s \in ConditionState /\ ev[c] \in Evaluation
        /\ suppress \in BOOLEAN /\ last + 1 \in Nat
    BY <1>1, AdvancedType DEF Committed, IInv, Run
  <2>3. /\ s.lifecycle = "clear" => latch'[c].lifecycle = "clear"
        /\ s.lifecycle = "firing" /\ ~Recovers(s, ev[c]) => latch'[c].lifecycle = "firing"
    BY <1>2, <2>2, AdvanceLifecycle
  <2> QED
    BY <1>3, <2>1, <2>3 DEF Expected
<1> QED
  BY <1>1, <1>5, <1>6, <1>7, <1>8

(* A new message's member has the transition the message is about, in the  *)
(* episode its latch now is in; and every transition is in a new message.  *)
LEMMA NewMember ==
    ASSUME IInv, NEW ev, NEW suppress, NEW alerts, NEW resolutions, NEW new, NEW rows,
           Committed(ev, suppress, alerts, resolutions, new, rows),
           NEW n \in new, NEW p \in n.members
    PROVE  /\ p[1] \in Condition /\ p = <<p[1], p[2]>>
           /\ p[2] = latch'[p[1]].episode
           /\ \/ n.kind = "alert" /\ p[1] \in Alerting(ev)
              \/ n.kind = "resolution" /\ p[1] \in Resolving(ev, suppress)
           /\ n.run = last + 1
           /\ n.kind \in Kind
<1>1. /\ new = New(ev, suppress, alerts, resolutions)
      /\ latch' = Advanced(ev, suppress)
      /\ alerts \in Batches(Alerting(ev))
      /\ resolutions \in Batches(Resolving(ev, suppress))
  BY DEF Committed
<1>2. CASE n \in Built(last + 1, "alert", alerts, Advanced(ev, suppress))
  <2>1. PICK batch \in alerts : n = [run |-> last + 1, kind |-> "alert",
                 members |-> {<<c, Advanced(ev, suppress)[c].episode>> : c \in batch}]
    BY <1>2 DEF Built
  <2>2. PICK c \in batch : p = <<c, Advanced(ev, suppress)[c].episode>>
    BY <2>1
  <2>3. c \in Alerting(ev)
    BY <1>1, <2>2 DEF Batches
  <2> QED
    BY <1>1, <2>1, <2>2, <2>3 DEF Alerting, Kind
<1>3. CASE n \in Built(last + 1, "resolution", resolutions, Advanced(ev, suppress))
  <2>1. PICK batch \in resolutions : n = [run |-> last + 1, kind |-> "resolution",
                 members |-> {<<c, Advanced(ev, suppress)[c].episode>> : c \in batch}]
    BY <1>3 DEF Built
  <2>2. PICK c \in batch : p = <<c, Advanced(ev, suppress)[c].episode>>
    BY <2>1
  <2>3. c \in Resolving(ev, suppress)
    BY <1>1, <2>2 DEF Batches
  <2> QED
    BY <1>1, <2>1, <2>2, <2>3 DEF Resolving, Kind
<1> QED
  BY <1>1, <1>2, <1>3 DEF New

(* Where the rows that are live after a commit come from.                  *)
LEMMA LiveAfterCommit ==
    ASSUME IInv, InFlight = {},
           NEW ev, NEW suppress, NEW alerts, NEW resolutions, NEW new, NEW rows,
           Committed(ev, suppress, alerts, resolutions, new, rows),
           NEW n \in Live'
    PROVE  \/ /\ n \in Live /\ n \in Unsent /\ n \notin CancelledBy(ev)
              /\ Withdrawn(n, ev) = {} /\ outbox'[n].status = outbox[n].status
           \/ \E m \in ReplacedBy(ev) : n = Survivor(m, ev)
           \/ n \in new /\ suppress = FALSE
<1>1. n \in DOMAIN outbox' /\ outbox'[n].status \in LiveStatus
  BY DEF Live
<1>2. /\ n \in DOMAIN rows /\ rows[n].status \in LiveStatus /\ suppress \in BOOLEAN
      /\ CommittedRows(rows, ev, new, suppress)
      /\ outbox'[n] = rows[n]
  BY <1>1 DEF Committed
<1>3. CASE n \in DOMAIN outbox
  <2>1. n \notin CancelledBy(ev) /\ outbox[n].status = rows[n].status
    BY <1>2, <1>3 DEF CommittedRows, LiveStatus, UnsentStatus
  <2>2. n \in Live /\ n \in Unsent
    BY <1>2, <1>3, <2>1 DEF Live, Unsent, LiveStatus, InFlight
  <2> QED
    BY <1>2, <2>1, <2>2 DEF CancelledBy
<1>4. CASE n \in Copies(ev)
  BY <1>4 DEF Copies
<1>5. CASE n \in new
  BY <1>2, <1>5 DEF CommittedRows, Queued, LiveStatus, UnsentStatus
<1> QED
  BY <1>2, <1>3, <1>4, <1>5 DEF CommittedRows

\* The message n alone, of the new ones, speaks of c, and as its latch expects.
Carries(n, c, new) ==
    /\ <<c, latch'[c].episode>> \in n.members
    /\ n.kind = Expected(latch'[c])
    /\ \A n2 \in new : (\E e : <<c, e>> \in n2.members) => n2 = n

(* Each transition of a commit is in exactly one of its messages.          *)
LEMMA NewForTransition ==
    ASSUME IInv, NEW ev, NEW suppress, NEW alerts, NEW resolutions, NEW new, NEW rows,
           Committed(ev, suppress, alerts, resolutions, new, rows),
           NEW c \in Alerting(ev) \cup Resolving(ev, suppress)
    PROVE  \E n \in new : Carries(n, c, new)
<1>1. /\ new = New(ev, suppress, alerts, resolutions)
      /\ latch' = Advanced(ev, suppress)
      /\ alerts \in Batches(Alerting(ev))
      /\ resolutions \in Batches(Resolving(ev, suppress))
  BY DEF Committed
<1>2. ~(c \in Alerting(ev) /\ c \in Resolving(ev, suppress))
  BY DEF Alerting, Resolving, RaisesAlert, RaisesResolution, Recovers
<1>3. c \in Condition
  BY DEF Alerting, Resolving
<1> DEFINE Of(kind, batch) ==
             [run |-> last + 1, kind |-> kind,
              members |-> {<<d, Advanced(ev, suppress)[d].episode>> : d \in batch}]
<1>4. ASSUME NEW n2 \in new, NEW e, <<c, e>> \in n2.members
      PROVE  \/ \E batch \in alerts : c \in batch /\ n2 = Of("alert", batch)
             \/ \E batch \in resolutions : c \in batch /\ n2 = Of("resolution", batch)
  <2>1. CASE n2 \in Built(last + 1, "alert", alerts, Advanced(ev, suppress))
    <3>1. PICK batch \in alerts : n2 = Of("alert", batch)
      BY <2>1 DEF Built
    <3>2. c \in batch
      BY <1>4, <3>1
    <3> QED
      BY <3>1, <3>2
  <2>2. CASE n2 \in Built(last + 1, "resolution", resolutions, Advanced(ev, suppress))
    <3>1. PICK batch \in resolutions : n2 = Of("resolution", batch)
      BY <2>2 DEF Built
    <3>2. c \in batch
      BY <1>4, <3>1
    <3> QED
      BY <3>1, <3>2
  <2> QED
    BY <1>1, <2>1, <2>2 DEF New
<1>5. CASE c \in Alerting(ev)
  <2>1. PICK batch \in alerts : c \in batch
    BY <1>1, <1>5 DEF Batches
  <2> DEFINE n == Of("alert", batch)
  <2>2. n \in new
    BY <1>1 DEF New, Built
  <2>3. <<c, latch'[c].episode>> \in n.members
    BY <1>1, <2>1
  <2>4. n.kind = Expected(latch'[c])
    BY <1>3, <1>5, CommitLatch DEF Expected
  <2>5. ASSUME NEW n2 \in new, NEW e, <<c, e>> \in n2.members PROVE n2 = n
    <3>1. \A b \in resolutions : c \notin b
      BY <1>1, <1>2, <1>5 DEF Batches
    <3>2. PICK b \in alerts : c \in b /\ n2 = Of("alert", b)
      BY <1>4, <2>5, <3>1
    <3>3. b = batch
      BY <1>1, <2>1, <3>2 DEF Batches
    <3> QED
      BY <3>2, <3>3
  <2> QED
    BY <2>2, <2>3, <2>4, <2>5 DEF Carries
<1>6. CASE c \in Resolving(ev, suppress)
  <2>1. PICK batch \in resolutions : c \in batch
    BY <1>1, <1>6 DEF Batches
  <2> DEFINE n == Of("resolution", batch)
  <2>2. n \in new
    BY <1>1 DEF New, Built
  <2>3. <<c, latch'[c].episode>> \in n.members
    BY <1>1, <2>1
  <2>4. n.kind = Expected(latch'[c])
    BY <1>3, <1>6, CommitLatch DEF Expected
  <2>5. ASSUME NEW n2 \in new, NEW e, <<c, e>> \in n2.members PROVE n2 = n
    <3>1. \A b \in alerts : c \notin b
      BY <1>1, <1>2, <1>6 DEF Batches
    <3>2. PICK b \in resolutions : c \in b /\ n2 = Of("resolution", b)
      BY <1>4, <2>5, <3>1
    <3>3. b = batch
      BY <1>1, <2>1, <3>2 DEF Batches
    <3> QED
      BY <3>2, <3>3
  <2> QED
    BY <2>2, <2>3, <2>4, <2>5 DEF Carries
<1> QED
  BY <1>5, <1>6

(* Two messages of a commit have no member in common.                      *)
LEMMA NewDisjoint ==
    ASSUME IInv, NEW ev, NEW suppress, NEW alerts, NEW resolutions, NEW new, NEW rows,
           Committed(ev, suppress, alerts, resolutions, new, rows),
           NEW m \in new, NEW n \in new, NEW p, p \in m.members, p \in n.members
    PROVE  m = n
<1>1. ASSUME NEW c \in Condition, NEW e, p = <<c, e>>,
             c \in Alerting(ev) \/ c \in Resolving(ev, suppress)
      PROVE  m = n
  <2>1. PICK n1 \in new : Carries(n1, c, new)
    BY <1>1, NewForTransition
  <2>2. m = n1 /\ n = n1
    BY <1>1, <2>1 DEF Carries
  <2> QED
    BY <2>2
<1>2. \E c \in Condition : \E e :
        p = <<c, e>> /\ (c \in Alerting(ev) \/ c \in Resolving(ev, suppress))
  BY NewMember
<1> QED
  BY <1>1, <1>2

(* A commit keeps the latches and the outbox in agreement.                 *)
LEMMA CommitBacks ==
    ASSUME IInv, InFlight = {},
           NEW ev, NEW suppress, NEW alerts, NEW resolutions, NEW new, NEW rows,
           Committed(ev, suppress, alerts, resolutions, new, rows)
    PROVE  OutboxBacksLatches'
<1>1. /\ CommittedRows(rows, ev, new, suppress) /\ suppress \in BOOLEAN
      /\ \A m \in DOMAIN outbox' : outbox'[m] = rows[m]
      /\ \A m \in DOMAIN rows : rows[m].status \in RetainedStatus => m \in DOMAIN outbox'
  BY DEF Committed
<1>2. TypeOK /\ OutboxBacksLatches
  BY DEF IInv
<1>3. ASSUME NEW m \in ReplacedBy(ev)
      PROVE  /\ m \in Live
             /\ \A p \in Survivor(m, ev).members : p \in m.members /\ p \notin Withdrawn(m, ev)
  BY <1>2, SurvivorFacts DEF Live, LiveStatus, Unsent
<1>4. ASSUME NEW n \in Live', NEW p \in n.members
      PROVE  latch'[p[1]].episode = p[2] /\ latch'[p[1]].delivery = "pending"
  <2>1. CASE n \in Live /\ Withdrawn(n, ev) = {}
    BY <2>1, KeptMember
  <2>2. CASE \E m \in ReplacedBy(ev) : n = Survivor(m, ev)
    <3>1. PICK m \in ReplacedBy(ev) : n = Survivor(m, ev)
      BY <2>2
    <3>2. m \in Live /\ p \in m.members /\ p \notin Withdrawn(m, ev)
      BY <1>3, <3>1
    <3> QED
      BY <3>2, KeptMember
  <2>3. CASE n \in new /\ suppress = FALSE
    BY <2>3, NewMember, CommitLatch DEF Queued
  <2> QED
    BY <2>1, <2>2, <2>3, LiveAfterCommit
<1>5. ASSUME NEW c \in Condition, latch'[c].delivery = "pending"
      PROVE  \E n \in LiveFor(c)' : LiveFor(c)' = {n} /\ n.kind = Expected(latch'[c])
  <2> DEFINE q == <<c, latch'[c].episode>>
             owed == c \in Alerting(ev) \/ c \in Resolving(ev, suppress)
  <2>1. ASSUME NEW m \in Live, q \in m.members, q \notin Withdrawn(m, ev)
        PROVE  ~owed /\ m.kind = Expected(latch'[c])
    BY <2>1, KeptMember
  <2>2. CASE owed
    <3>1. PICK n \in new : Carries(n, c, new)
      BY <2>2, NewForTransition
    <3>2. suppress = FALSE
      BY <1>1, <1>5, <2>2, CommitLatch DEF Queued
    <3>3. n \in DOMAIN rows /\ rows[n].status = "pending"
      BY <1>1, <3>2 DEF CommittedRows, Queued
    <3>4. n \in Live'
      BY <1>1, <3>3 DEF Live, RetainedStatus, LiveStatus, UnsentStatus
    <3>5. ASSUME NEW n2 \in Live', q \in n2.members PROVE n2 = n
      <4>1. ~(n2 \in Live /\ Withdrawn(n2, ev) = {})
        BY <2>1, <2>2, <3>5
      <4>2. ~ \E m \in ReplacedBy(ev) : n2 = Survivor(m, ev)
        BY <1>3, <2>1, <2>2, <3>5
      <4>3. n2 \in new
        BY <4>1, <4>2, LiveAfterCommit
      <4> QED
        BY <3>1, <3>5, <4>3 DEF Carries
    <3>6. q \in n.members /\ n.kind = Expected(latch'[c])
      BY <3>1 DEF Carries
    <3> QED
      BY <3>4, <3>5, <3>6 DEF LiveFor
  <2>3. CASE ~owed
    <3>1. /\ ~OpensEpisode(latch[c], ev[c]) /\ ~WithdrawsAlert(latch[c], ev[c])
          /\ latch[c].delivery = "pending" /\ latch'[c].episode = latch[c].episode
      BY <1>5, <2>3, CommitLatch
    <3>2. PICK m \in LiveFor(c) : LiveFor(c) = {m}
      BY <1>2, <3>1 DEF OutboxBacksLatches
    <3>3. m \in Live /\ q \in m.members
      BY <3>1, <3>2 DEF LiveFor
    <3>4. q \notin Withdrawn(m, ev)
      BY <3>1 DEF Withdrawn, Withdraws
    <3>5. m.kind = Expected(latch'[c])
      BY <2>1, <3>3, <3>4
    <3>6. \A n2 \in new : q \notin n2.members
      BY <2>3, NewMember
    <3>7. m \in DOMAIN outbox /\ m \in Unsent /\ outbox[m].status \in UnsentStatus
      BY <3>3 DEF Live, Unsent, LiveStatus, InFlight
    <3>8. ASSUME NEW n2 \in Live', q \in n2.members
          PROVE  \/ n2 = m /\ m \notin CancelledBy(ev)
                 \/ m \in ReplacedBy(ev) /\ n2 = Survivor(m, ev)
      <4>1. CASE n2 \in Live /\ n2 \notin CancelledBy(ev)
        BY <1>2, <3>3, <3>8, <4>1, LiveDisjoint
      <4>2. CASE \E m2 \in ReplacedBy(ev) : n2 = Survivor(m2, ev)
        <5>1. PICK m2 \in ReplacedBy(ev) : n2 = Survivor(m2, ev)
          BY <4>2
        <5>2. m2 \in Live /\ q \in m2.members
          BY <1>3, <3>8, <5>1
        <5>3. m2 = m
          BY <1>2, <3>3, <5>2, LiveDisjoint
        <5> QED
          BY <5>1, <5>3
      <4> QED
        BY <3>6, <3>8, <4>1, <4>2, LiveAfterCommit
    <3>9. CASE m \notin CancelledBy(ev)
      <4>1. m \in Live'
        BY <1>1, <3>7, <3>9 DEF CommittedRows, Live, RetainedStatus, LiveStatus
      <4>2. m \notin ReplacedBy(ev)
        BY <3>9 DEF ReplacedBy
      <4> QED
        BY <3>3, <3>5, <3>8, <4>1, <4>2 DEF LiveFor
    <3>10. CASE m \in CancelledBy(ev)
      <4>1. m \in ReplacedBy(ev)
        BY <3>3, <3>4, <3>10 DEF ReplacedBy
      <4> DEFINE n == Survivor(m, ev)
      <4>2. n \in Copies(ev) /\ n.kind = m.kind /\ q \in n.members
        BY <1>2, <3>3, <3>4, <4>1, SurvivorFacts DEF Copies
      <4>3. n \in Live'
        BY <1>1, <4>2 DEF CommittedRows, Live, RetainedStatus, LiveStatus
      <4> HIDE DEF n
      <4>4. \A n2 \in LiveFor(c)' : n2 = n
        BY <3>8, <3>10 DEF LiveFor, n
      <4> QED
        BY <3>5, <4>2, <4>3, <4>4 DEF LiveFor
    <3> QED
      BY <3>9, <3>10
  <2> QED
    BY <2>2, <2>3
<1> QED
  BY <1>4, <1>5 DEF OutboxBacksLatches

-----------------------------------------------------------------------------
(* The five ways a step can bear on the invariants.                        *)

Quiet == UNCHANGED <<latch, outbox, last, shown, confirmed>>

\* A result is recorded: by recovery, or for the answer the check has got.
Records ==
    \E m, executor : \E result \in Result :
        /\ Record(m, executor, result)
        /\ shown' = shown
        /\ result # "interrupted" => pc = "sent" /\ sending = m /\ answer = result

\* The provider shows a message that is in flight or was quarantined.
Shows ==
    /\ \E m \in DOMAIN outbox :
          outbox[m].status \in {"in_flight", "unknown"} /\ shown' = shown \cup Notices(m)
    /\ UNCHANGED <<latch, outbox, last, confirmed>>

Commits ==
    /\ InFlight = {}
    /\ UNCHANGED <<shown, confirmed>>
    /\ \E ev, suppress, alerts, resolutions, new, rows :
          Committed(ev, suppress, alerts, resolutions, new, rows)

\* A message is claimed.
Begins ==
    /\ \E m \in Unsent :
          outbox' = [outbox EXCEPT ![m] = [status |-> "in_flight", executor |-> last]]
    /\ UNCHANGED <<latch, last, shown, confirmed>>

(* Every step is of one of these kinds, so a fact that only depends on the  *)
(* database and the history is shown once per kind.                        *)
LEMMA StepKinds ==
    ASSUME IInv, [Next]_vars
    PROVE  Quiet \/ Records \/ Shows \/ Commits \/ Begins
<1> USE DEF database, process, history
<1>0. TypeOK /\ AttemptOfCheck
  BY DEF IInv
<1>1. CASE StartCheck
  BY <1>1 DEF StartCheck, Quiet
<1>2. CASE RecoverAttempt
  BY <1>2 DEF RecoverAttempt, Records, Result
<1>3. CASE RecoverDone
  BY <1>3 DEF RecoverDone, Quiet
<1>4. CASE CommitRun
  <2>1. UNCHANGED <<shown, confirmed>>
    BY <1>4 DEF CommitRun
  <2> QED
    BY <1>4, <2>1, CommitRunCommits DEF Commits
<1>5. CASE ReadPending
  BY <1>5 DEF ReadPending, Quiet
<1>6. CASE BeginAttempt
  BY <1>6 DEF BeginAttempt, Begins
<1>7. CASE Send
  <2>1. PICK result \in {"delivered", "retryable", "failed", "unknown"} :
          shown' = IF result = "delivered" THEN shown \cup Notices(sending) ELSE shown
    BY <1>7 DEF Send
  <2>2. sending \in DOMAIN outbox /\ outbox[sending].status = "in_flight"
    BY <1>0, <1>7 DEF Send, AttemptOfCheck, InFlight
  <2>3. UNCHANGED <<latch, outbox, last, confirmed>>
    BY <1>7 DEF Send
  <2>4. CASE result = "delivered"
    BY <2>1, <2>2, <2>3, <2>4 DEF Shows
  <2>5. CASE result # "delivered"
    BY <2>1, <2>3, <2>5 DEF Quiet
  <2> QED
    BY <2>4, <2>5
<1>8. CASE Arrive
  BY <1>8 DEF Arrive, Shows
<1>9. CASE RecordAttempt
  BY <1>0, <1>9 DEF RecordAttempt, Records, TypeOK
<1>10. CASE Finish
  BY <1>10 DEF Finish, Quiet
<1>11. CASE EndEarly
  BY <1>11 DEF EndEarly, Quiet
<1>12. CASE UNCHANGED vars
  BY <1>12 DEF vars, Quiet
<1> QED
  BY <1>1, <1>2, <1>3, <1>4, <1>5, <1>6, <1>7, <1>8, <1>9, <1>10, <1>11, <1>12 DEF Next

(* Every step keeps the latches and the outbox in agreement.               *)
LEMMA BacksStep == IInv /\ [Next]_vars => OutboxBacksLatches'
<1> SUFFICES ASSUME IInv, [Next]_vars PROVE OutboxBacksLatches'
  OBVIOUS
<1>0. TypeOK /\ OutboxBacksLatches
  BY DEF IInv
<1>1. ASSUME UNCHANGED latch, Live' = Live PROVE OutboxBacksLatches'
  <2>1. \A c \in Condition : LiveFor(c)' = LiveFor(c) /\ latch'[c] = latch[c]
    BY <1>1 DEF LiveFor
  <2> QED
    BY <1>0, <1>1, <2>1 DEF OutboxBacksLatches
<1>2. CASE Quiet \/ Shows
  BY <1>1, <1>2 DEF Quiet, Shows, Live
<1>3. CASE Records
  BY <1>0, <1>3, RecordBacks DEF Records
<1>4. CASE Commits
  BY <1>4, CommitBacks DEF Commits
<1>5. CASE Begins
  <2>1. Live' = Live
    BY <1>0, <1>5 DEF Begins, Live, Unsent, LiveStatus, TypeOK, Row
  <2> QED
    BY <1>1, <1>5, <2>1 DEF Begins
<1> QED
  BY <1>2, <1>3, <1>4, <1>5, StepKinds

(* Every step keeps episodes, origin runs and notices in the past.         *)
LEMMA FutureStep == IInv /\ [Next]_vars => NothingFromTheFuture'
<1> SUFFICES ASSUME IInv, [Next]_vars PROVE NothingFromTheFuture'
  OBVIOUS
<1>0. /\ TypeOK /\ OutboxBacksLatches /\ NothingFromTheFuture
      /\ last \in Nat /\ \A c \in Condition : latch[c].episode \in Nat
  BY MaxRunsAssumption DEF IInv, TypeOK
<1>1. CASE Quiet
  BY <1>0, <1>1 DEF Quiet, NothingFromTheFuture
<1>2. CASE Records
  <2>1. PICK m, executor : \E result \in Result :
          Record(m, executor, result) /\ shown' = shown
    BY <1>2 DEF Records
  <2>2. PICK result \in Result : Record(m, executor, result) /\ shown' = shown
    BY <2>1
  <2>3. /\ DOMAIN outbox' = DOMAIN outbox /\ last' = last
        /\ \A c \in Condition : latch'[c].episode = latch[c].episode
    BY <1>0, <2>2, RecordFacts
  <2>4. \A n \in DOMAIN outbox : \A p \in n.members : p[1] \in Condition
    BY <1>0 DEF TypeOK, Message, Member
  <2>5. \A n \in shown : n[1] \in Condition
    BY <1>0 DEF TypeOK, Notice
  <2> QED
    BY <1>0, <2>2, <2>3, <2>4, <2>5 DEF NothingFromTheFuture
<1>3. CASE Shows
  <2>1. PICK m \in DOMAIN outbox : shown' = shown \cup Notices(m)
    BY <1>3 DEF Shows
  <2>2. \A n \in Notices(m) : n[2] <= latch[n[1]].episode
    BY <1>0, <2>1 DEF Notices, NothingFromTheFuture
  <2> QED
    BY <1>0, <1>3, <2>1, <2>2 DEF Shows, NothingFromTheFuture
<1>4. CASE Begins
  BY <1>0, <1>4 DEF Begins, NothingFromTheFuture, Unsent
<1>5. CASE Commits
  <2>1. PICK ev, suppress, alerts, resolutions, new, rows :
          Committed(ev, suppress, alerts, resolutions, new, rows)
    BY <1>5 DEF Commits
  <2>2. /\ last' = last + 1 /\ DOMAIN outbox' \subseteq DOMAIN outbox \cup Copies(ev) \cup new
        /\ CommittedRows(rows, ev, new, suppress)
    BY <2>1 DEF Committed, CommittedRows
  <2>3. ASSUME NEW c \in Condition
        PROVE  latch'[c].episode <= last' /\ latch[c].episode <= latch'[c].episode
    BY <1>0, <2>1, <2>2, CommitLatch
  <2>4. ASSUME NEW m \in DOMAIN outbox
        PROVE  /\ m.run <= last' /\ \A p \in m.members : p[2] <= latch'[p[1]].episode
               /\ \A p \in m.members : p[1] \in Condition
    <3>1. m \in Message
      BY <1>0 DEF TypeOK
    <3>2. m.run <= last'
      BY <1>0, <2>2, <3>1 DEF NothingFromTheFuture, Message, Run
    <3>3. ASSUME NEW p \in m.members PROVE p[1] \in Condition /\ p[2] <= latch'[p[1]].episode
      <4>1. p[1] \in Condition /\ p[2] \in Nat
        BY <3>1 DEF Message, Member, Run
      <4>2. p[2] <= latch[p[1]].episode
        BY <1>0 DEF NothingFromTheFuture
      <4>3. latch'[p[1]].episode \in Nat
        BY <2>1, <4>1, CommitLatch DEF ConditionState
      <4> QED
        BY <1>0, <2>3, <4>1, <4>2, <4>3
    <3> QED
      BY <3>2, <3>3
  <2>5. ASSUME NEW m \in ReplacedBy(ev)
        PROVE  /\ Survivor(m, ev).run <= last'
               /\ \A p \in Survivor(m, ev).members : p[2] <= latch'[p[1]].episode
    BY <1>0, <2>4, SurvivorFacts
  <2>6. ASSUME NEW m \in new
        PROVE  m.run <= last' /\ \A p \in m.members : p[2] <= latch'[p[1]].episode
    <3>1. m.run = last'
      BY <2>1, <2>2 DEF Committed
    <3>2. ASSUME NEW p \in m.members PROVE p[2] <= latch'[p[1]].episode
      <4>1. p[1] \in Condition /\ p[2] = latch'[p[1]].episode
        BY <2>1, NewMember
      <4>2. latch'[p[1]].episode \in Nat
        BY <2>1, <4>1, CommitLatch DEF ConditionState
      <4> QED
        BY <4>1, <4>2
    <3> QED
      BY <1>0, <2>2, <3>1, <3>2
  <2>7. ASSUME NEW n \in shown PROVE n[2] <= latch'[n[1]].episode
    <3>1. n[1] \in Condition /\ n[2] \in Nat
      BY <1>0 DEF TypeOK, Notice, Run
    <3>2. n[2] <= latch[n[1]].episode
      BY <1>0 DEF NothingFromTheFuture
    <3>3. latch'[n[1]].episode \in Nat
      BY <2>1, <3>1, CommitLatch DEF ConditionState
    <3> QED
      BY <1>0, <2>3, <3>1, <3>2, <3>3
  <2>8. shown' = shown
    BY <1>5 DEF Commits
  <2>9. \A m \in DOMAIN outbox' : m.run <= last' /\ \A p \in m.members : p[2] <= latch'[p[1]].episode
    BY <2>2, <2>4, <2>5, <2>6 DEF Copies
  <2> QED
    BY <2>3, <2>7, <2>8, <2>9 DEF NothingFromTheFuture
<1> QED
  BY <1>1, <1>2, <1>3, <1>4, <1>5, StepKinds

(* Recovery, alerts and lifecycles of one condition in a commit.           *)
LEMMA CommitLifecycle ==
    ASSUME IInv, NEW ev, NEW suppress, NEW alerts, NEW resolutions, NEW new, NEW rows,
           Committed(ev, suppress, alerts, resolutions, new, rows), NEW c \in Condition
    PROVE  /\ latch'[c].lifecycle = "pending" =>
                c \notin Alerting(ev)
                /\ (OpensEpisode(latch[c], ev[c]) \/ latch[c].lifecycle = "pending")
           /\ latch'[c].lifecycle = "firing" =>
                c \in Alerting(ev) \/ latch[c].lifecycle = "firing"
           /\ latch[c].lifecycle = "clear" /\ ~OpensEpisode(latch[c], ev[c]) =>
                latch'[c].lifecycle = "clear"
           /\ c \in Alerting(ev) =>
                OpensEpisode(latch[c], ev[c]) \/ latch[c].lifecycle = "pending"
           /\ OpensEpisode(latch[c], ev[c]) => latch[c].lifecycle = "clear"
           /\ c \in Resolving(ev, suppress) =>
                /\ latch[c].lifecycle = "firing"
                /\ latch[c].delivery = "delivered" \/ (suppress /\ latch[c].delivery = "suppressed")
<1>1. /\ latch'[c] = Advance(latch[c], ev[c], last + 1, suppress)
      /\ latch[c] \in ConditionState /\ ev[c] \in Evaluation
      /\ suppress \in BOOLEAN /\ last + 1 \in Nat
  BY AdvancedType DEF Committed, IInv, Run
<1>2. /\ c \in Alerting(ev) <=> RaisesAlert(latch[c], ev[c])
      /\ c \in Resolving(ev, suppress) <=> RaisesResolution(latch[c], ev[c], suppress)
  BY DEF Alerting, Resolving
<1>3. RaisesAlert(latch[c], ev[c]) =>
        OpensEpisode(latch[c], ev[c]) \/ latch[c].lifecycle = "pending"
  BY <1>1 DEF RaisesAlert, OpensEpisode, ConditionState, Lifecycle
<1>4. /\ OpensEpisode(latch[c], ev[c]) => latch[c].lifecycle = "clear"
      /\ RaisesResolution(latch[c], ev[c], suppress) =>
           /\ latch[c].lifecycle = "firing"
           /\ latch[c].delivery = "delivered" \/ (suppress /\ latch[c].delivery = "suppressed")
  BY DEF OpensEpisode, RaisesResolution
<1> QED
  BY <1>1, <1>2, <1>3, <1>4, AdvanceLifecycle

(* Every step keeps the episodes of unclear conditions open.               *)
LEMMA EpisodesStep == IInv /\ [Next]_vars => EpisodesAreOpen'
<1> SUFFICES ASSUME IInv, [Next]_vars PROVE EpisodesAreOpen'
  OBVIOUS
<1>0. /\ TypeOK /\ OutboxBacksLatches /\ EpisodesAreOpen
      /\ last \in Nat /\ \A c \in Condition : latch[c].episode \in Nat
  BY MaxRunsAssumption DEF IInv, TypeOK
<1>1. CASE Quiet \/ Shows \/ Begins
  BY <1>0, <1>1 DEF Quiet, Shows, Begins, EpisodesAreOpen
<1>2. CASE Records
  <2>1. PICK m, executor : \E result \in Result : Record(m, executor, result)
    BY <1>2 DEF Records
  <2>2. PICK result \in Result : Record(m, executor, result)
    BY <2>1
  <2>3. ASSUME NEW c \in Condition
        PROVE  /\ latch'[c].lifecycle = latch[c].lifecycle
               /\ latch'[c].episode = latch[c].episode
               /\ latch[c].delivery = "never" => latch'[c].delivery = "never"
    <3>1. m \in Live
      BY <1>0, <2>2, RecordFacts
    <3>2. latch[c].delivery = "never" => <<c, latch[c].episode>> \notin m.members
      BY <1>0, <3>1, LiveMember
    <3> QED
      BY <1>0, <2>2, <3>2, RecordFacts
  <2> QED
    BY <1>0, <2>3 DEF EpisodesAreOpen
<1>3. CASE Commits
  <2>1. PICK ev, suppress, alerts, resolutions, new, rows :
          Committed(ev, suppress, alerts, resolutions, new, rows)
    BY <1>3 DEF Commits
  <2>2. ASSUME NEW c \in Condition, latch'[c].lifecycle # "clear"
        PROVE  latch'[c].episode # 0
    <3>1. OpensEpisode(latch[c], ev[c]) \/ latch[c].lifecycle # "clear"
      BY <2>1, <2>2, CommitLifecycle
    <3>2. latch'[c].episode =
            IF OpensEpisode(latch[c], ev[c]) THEN last + 1 ELSE latch[c].episode
      BY <2>1, CommitLatch
    <3> QED
      BY <1>0, <3>1, <3>2 DEF EpisodesAreOpen
  <2>3. ASSUME NEW c \in Condition, latch'[c].lifecycle = "pending"
        PROVE  latch'[c].delivery = "never"
    <3>1. /\ c \notin Alerting(ev)
          /\ OpensEpisode(latch[c], ev[c]) \/ latch[c].lifecycle = "pending"
      BY <2>1, <2>3, CommitLifecycle
    <3>2. CASE OpensEpisode(latch[c], ev[c])
      BY <2>1, <3>1, <3>2, CommitLatch
    <3>3. CASE ~OpensEpisode(latch[c], ev[c])
      <4>1. latch[c].delivery = "never" /\ latch[c].lifecycle = "pending"
        BY <1>0, <3>1, <3>3 DEF EpisodesAreOpen
      <4>2. c \notin Resolving(ev, suppress) /\ ~WithdrawsAlert(latch[c], ev[c])
        BY <4>1 DEF Resolving, RaisesResolution, WithdrawsAlert
      <4> QED
        BY <2>1, <3>1, <3>3, <4>1, <4>2, CommitLatch
    <3> QED
      BY <3>2, <3>3
  <2> QED
    BY <2>2, <2>3 DEF EpisodesAreOpen
<1> QED
  BY <1>1, <1>2, <1>3, StepKinds

(* What the latch can still create has not been shown, after every step.   *)
LEMMA UnseenStep == IInv /\ [Next]_vars => FutureNoticesUnseen'
<1> SUFFICES ASSUME IInv, [Next]_vars PROVE FutureNoticesUnseen'
  OBVIOUS
<1>0. /\ TypeOK /\ OutboxBacksLatches /\ EpisodesAreOpen /\ NothingFromTheFuture
      /\ FutureNoticesUnseen /\ QuarantineShows
      /\ last \in Nat /\ \A c \in Condition : latch[c].episode \in Nat
  BY MaxRunsAssumption DEF IInv, TypeOK
<1>1. CASE Quiet \/ Begins
  BY <1>0, <1>1 DEF Quiet, Begins, FutureNoticesUnseen
<1>2. CASE Records
  <2>1. PICK m, executor : \E result \in Result : Record(m, executor, result) /\ shown' = shown
    BY <1>2 DEF Records
  <2>2. PICK result \in Result : Record(m, executor, result) /\ shown' = shown
    BY <2>1
  <2>3. \A c \in Condition : /\ latch'[c].lifecycle = latch[c].lifecycle
                             /\ latch'[c].episode = latch[c].episode
    BY <1>0, <2>2, RecordFacts
  <2> QED
    BY <1>0, <2>2, <2>3 DEF FutureNoticesUnseen
<1>3. CASE Shows
  <2>1. PICK m \in DOMAIN outbox :
          outbox[m].status \in {"in_flight", "unknown"} /\ shown' = shown \cup Notices(m)
    BY <1>3 DEF Shows
  <2>2. ASSUME NEW c \in Condition, NEW kind, <<c, latch[c].episode, kind>> \in Notices(m)
        PROVE  /\ latch[c].lifecycle # "pending"
               /\ kind = "resolution" => latch[c].lifecycle = "clear"
    <3>1. <<c, latch[c].episode>> \in m.members /\ m.kind = kind
      <4>1. PICK p \in m.members : <<c, latch[c].episode, kind>> = <<p[1], p[2], m.kind>>
        BY <2>2 DEF Notices
      <4>2. p = <<p[1], p[2]>>
        BY <1>0 DEF TypeOK, Message, Member
      <4> QED
        BY <4>1, <4>2
    <3>2. latch[c].lifecycle = "pending" => latch[c].delivery = "never"
      BY <1>0 DEF EpisodesAreOpen
    <3>3. CASE outbox[m].status = "in_flight"
      <4>1. m \in Live
        BY <3>3 DEF Live, LiveStatus
      <4>2. latch[c].delivery = "pending" /\ m.kind = Expected(latch[c])
        BY <1>0, <3>1, <4>1, LiveMember
      <4> QED
        BY <3>1, <3>2, <4>2 DEF Expected
    <3>4. CASE outbox[m].status = "unknown"
      BY <1>0, <3>1, <3>2, <3>4 DEF QuarantineShows
    <3> QED
      BY <2>1, <3>3, <3>4
  <2>3. latch' = latch
    BY <1>3 DEF Shows
  <2> QED
    BY <1>0, <2>1, <2>2, <2>3 DEF FutureNoticesUnseen
<1>4. CASE Commits
  <2>1. PICK ev, suppress, alerts, resolutions, new, rows :
          Committed(ev, suppress, alerts, resolutions, new, rows)
    BY <1>4 DEF Commits
  <2>2. shown' = shown
    BY <1>4 DEF Commits
  <2>3. ASSUME NEW c \in Condition, NEW kind, OpensEpisode(latch[c], ev[c])
        PROVE  <<c, latch'[c].episode, kind>> \notin shown
    <3>1. latch'[c].episode = last + 1 /\ latch[c].episode <= last
      BY <2>1, <2>3, CommitLatch
    <3> QED
      BY <1>0, <3>1 DEF NothingFromTheFuture
  <2>4. ASSUME NEW c \in Condition, ~OpensEpisode(latch[c], ev[c])
        PROVE  /\ latch'[c].episode = latch[c].episode
               /\ latch'[c].lifecycle = "pending" => latch[c].lifecycle = "pending"
               /\ latch'[c].lifecycle = "firing" => latch[c].lifecycle \in {"pending", "firing"}
    BY <2>1, <2>4, CommitLatch, CommitLifecycle
  <2> QED
    BY <1>0, <2>2, <2>3, <2>4 DEF FutureNoticesUnseen
<1> QED
  BY <1>1, <1>2, <1>3, <1>4, StepKinds

(* A notice of one message is a notice of another only if they are of one   *)
(* kind and share the member.                                              *)
LEMMA SharedNotice ==
    ASSUME NEW m \in Message, NEW n \in Message, NEW x \in Notices(m), x \in Notices(n)
    PROVE  m.kind = n.kind /\ \E p \in m.members : p \in n.members
<1>1. PICK p \in m.members : x = <<p[1], p[2], m.kind>>
  BY DEF Notices
<1>2. PICK q \in n.members : x = <<q[1], q[2], n.kind>>
  BY DEF Notices
<1>3. p = <<p[1], p[2]>> /\ q = <<q[1], q[2]>>
  BY DEF Message, Member
<1> QED
  BY <1>1, <1>2, <1>3

(* A quarantined message shares no member with a live one.                 *)
LEMMA QuarantineDisjoint ==
    ASSUME TypeOK, OutboxBacksLatches, QuarantineShows,
           NEW m \in DOMAIN outbox, outbox[m].status = "unknown",
           NEW n \in Live, NEW p \in n.members
    PROVE  p \notin m.members
<1>1. latch[p[1]].episode = p[2] /\ latch[p[1]].delivery = "pending"
  BY LiveMember
<1> QED
  BY <1>1 DEF QuarantineShows

(* Every step keeps what was shown out of the queue.                       *)
LEMMA ReplayStep == IInv /\ [Next]_vars => NoReplay'
<1> SUFFICES ASSUME IInv, [Next]_vars PROVE NoReplay'
  OBVIOUS
<1>0. /\ TypeOK /\ OutboxBacksLatches /\ NothingFromTheFuture /\ NoReplay
      /\ FutureNoticesUnseen /\ QuarantineShows /\ AttemptOfCheck
      /\ last \in Nat /\ \A c \in Condition : latch[c].episode \in Nat
      /\ Unsent \subseteq Live /\ Unsent \subseteq Message
  BY MaxRunsAssumption DEF IInv, TypeOK, Unsent, Live, LiveStatus
<1>1. CASE Quiet
  BY <1>0, <1>1 DEF Quiet, NoReplay, Unsent
<1>2. CASE Begins
  <2>1. Unsent' \subseteq Unsent /\ shown' = shown
    BY <1>0, <1>2 DEF Begins, Unsent, UnsentStatus, TypeOK, Row
  <2> QED
    BY <1>0, <2>1 DEF NoReplay
<1>3. CASE Records
  <2>1. PICK m, executor : \E result \in Result :
          /\ Record(m, executor, result) /\ shown' = shown
          /\ result # "interrupted" => pc = "sent" /\ sending = m /\ answer = result
    BY <1>3 DEF Records
  <2>2. PICK result \in Result :
          /\ Record(m, executor, result) /\ shown' = shown
          /\ result # "interrupted" => pc = "sent" /\ sending = m /\ answer = result
    BY <2>1
  <2>3. /\ DOMAIN outbox' = DOMAIN outbox
        /\ outbox'[m].status = RowStatus(result)
        /\ \A n \in DOMAIN outbox : n # m => outbox'[n] = outbox[n]
    BY <1>0, <2>2, RecordFacts
  <2>4. \A n \in Unsent' : n \in Unsent \/ (n = m /\ result = "retryable")
    BY <2>3 DEF Unsent, RowStatus, Result, UnsentStatus
  <2>5. result = "retryable" => Notices(m) \cap shown = {}
    BY <1>0, <2>2 DEF AttemptOfCheck
  <2> QED
    BY <1>0, <2>2, <2>4, <2>5 DEF NoReplay
<1>4. CASE Shows
  <2>1. PICK m \in DOMAIN outbox :
          outbox[m].status \in {"in_flight", "unknown"} /\ shown' = shown \cup Notices(m)
    BY <1>4 DEF Shows
  <2>2. Unsent' = Unsent /\ m \in Message
    BY <1>0, <1>4 DEF Shows, Unsent, TypeOK
  <2>3. ASSUME NEW n \in Unsent, NEW x \in Notices(m), x \in Notices(n)
        PROVE  FALSE
    <3>1. PICK p \in m.members : p \in n.members
      BY <1>0, <2>2, <2>3, SharedNotice
    <3>2. CASE outbox[m].status = "in_flight"
      <4>1. m \in Live /\ m \notin Unsent
        BY <3>2 DEF Live, LiveStatus, Unsent, UnsentStatus
      <4> QED
        BY <1>0, <3>1, <4>1, LiveDisjoint
    <3>3. CASE outbox[m].status = "unknown"
      BY <1>0, <3>1, <3>3, QuarantineDisjoint
    <3> QED
      BY <2>1, <3>2, <3>3
  <2> QED
    BY <1>0, <2>1, <2>2, <2>3 DEF NoReplay
<1>5. CASE Commits
  <2>1. PICK ev, suppress, alerts, resolutions, new, rows :
          Committed(ev, suppress, alerts, resolutions, new, rows)
    BY <1>5 DEF Commits
  <2>2. shown' = shown /\ InFlight = {}
    BY <1>5 DEF Commits
  <2>3. Unsent' \subseteq Live'
    BY DEF Unsent, Live, LiveStatus
  <2>4. ASSUME NEW n \in Unsent' PROVE Notices(n) \cap shown = {}
    <3>1. CASE n \in Unsent
      BY <1>0, <3>1 DEF NoReplay
    <3>2. CASE \E m \in ReplacedBy(ev) : n = Survivor(m, ev)
      <4>1. PICK m \in ReplacedBy(ev) : n = Survivor(m, ev)
        BY <3>2
      <4>2. m \in Unsent /\ n.kind = m.kind /\ n.members \subseteq m.members
        BY <1>0, <4>1, SurvivorFacts
      <4>3. Notices(n) \subseteq Notices(m)
        BY <4>2 DEF Notices
      <4> QED
        BY <1>0, <4>2, <4>3 DEF NoReplay
    <3>3. CASE n \in new /\ suppress = FALSE
      <4>1. ASSUME NEW p \in n.members PROVE <<p[1], p[2], n.kind>> \notin shown
        <5>1. /\ p[1] \in Condition /\ p[2] = latch'[p[1]].episode
              /\ \/ n.kind = "alert" /\ p[1] \in Alerting(ev)
                 \/ n.kind = "resolution" /\ p[1] \in Resolving(ev, suppress)
          BY <2>1, <3>3, NewMember
        <5>2. CASE OpensEpisode(latch[p[1]], ev[p[1]])
          <6>1. p[2] = last + 1 /\ latch[p[1]].episode <= last
            BY <2>1, <5>1, <5>2, CommitLatch
          <6> QED
            BY <1>0, <5>1, <6>1 DEF NothingFromTheFuture
        <5>3. CASE ~OpensEpisode(latch[p[1]], ev[p[1]])
          <6>1. p[2] = latch[p[1]].episode
            BY <2>1, <5>1, <5>3, CommitLatch
          <6>2. \/ n.kind = "alert" /\ latch[p[1]].lifecycle = "pending"
                \/ n.kind = "resolution" /\ latch[p[1]].lifecycle = "firing"
            BY <2>1, <5>1, <5>3, CommitLifecycle
          <6> QED
            BY <1>0, <5>1, <6>1, <6>2 DEF FutureNoticesUnseen
        <5> QED
          BY <5>2, <5>3
      <4> QED
        BY <4>1 DEF Notices
    <3> QED
      BY <2>1, <2>2, <2>3, <3>1, <3>2, <3>3, LiveAfterCommit
  <2> QED
    BY <2>2, <2>4 DEF NoReplay
<1> QED
  BY <1>1, <1>2, <1>3, <1>4, <1>5, StepKinds

(* Every step keeps quarantined messages visible in the latches.           *)
LEMMA QuarantineStep == IInv /\ [Next]_vars => QuarantineShows'
<1> SUFFICES ASSUME IInv, [Next]_vars PROVE QuarantineShows'
  OBVIOUS
<1>0. /\ TypeOK /\ OutboxBacksLatches /\ NothingFromTheFuture /\ QuarantineShows
      /\ EpisodesAreOpen
      /\ last \in Nat /\ \A c \in Condition : latch[c].episode \in Nat
      /\ \A m \in DOMAIN outbox : \A p \in m.members :
           p[1] \in Condition /\ p[2] \in Nat /\ p = <<p[1], p[2]>>
  BY MaxRunsAssumption DEF IInv, TypeOK, Message, Member, Run
<1>1. CASE Quiet \/ Shows
  BY <1>0, <1>1 DEF Quiet, Shows, QuarantineShows
<1>2. CASE Begins
  <2>1. /\ DOMAIN outbox' = DOMAIN outbox /\ latch' = latch
        /\ \A n \in DOMAIN outbox : outbox'[n].status = "unknown" => outbox[n].status = "unknown"
    BY <1>0, <1>2 DEF Begins, TypeOK, Row
  <2> QED
    BY <1>0, <2>1 DEF QuarantineShows
<1>3. CASE Records
  <2>1. PICK m, executor : \E result \in Result : Record(m, executor, result)
    BY <1>3 DEF Records
  <2>2. PICK result \in Result : Record(m, executor, result)
    BY <2>1
  <2>3. /\ m \in Live /\ m \in DOMAIN outbox
        /\ DOMAIN outbox' = DOMAIN outbox
        /\ outbox'[m].status = RowStatus(result)
        /\ \A n \in DOMAIN outbox : n # m => outbox'[n] = outbox[n]
        /\ \A c \in Condition :
             /\ latch'[c].lifecycle = latch[c].lifecycle
             /\ latch'[c].episode = latch[c].episode
             /\ latch'[c].delivery =
                  IF result # "retryable" /\ <<c, latch[c].episode>> \in m.members
                  THEN Reached(m.kind, result) ELSE latch[c].delivery
    BY <1>0, <2>2, RecordFacts DEF Live
  <2>4. ASSUME NEW n \in DOMAIN outbox, outbox'[n].status = "unknown",
               NEW p \in n.members, latch'[p[1]].episode = p[2]
        PROVE  /\ latch'[p[1]].delivery = "unknown"
               /\ n.kind = "resolution" => latch'[p[1]].lifecycle = "clear"
    <3>1. p[1] \in Condition /\ p = <<p[1], latch[p[1]].episode>>
      BY <1>0, <2>3, <2>4
    <3>2. CASE n = m
      <4>1. RowStatus(result) = "unknown" /\ result # "retryable"
        BY <2>3, <2>4, <3>2 DEF RowStatus
      <4>2. Reached(m.kind, result) = "unknown"
        BY <4>1 DEF Reached, RowStatus
      <4>3. n.kind = Expected(latch[p[1]])
        BY <1>0, <2>3, <2>4, <3>2, LiveMember
      <4> QED
        BY <2>3, <2>4, <3>1, <3>2, <4>1, <4>2, <4>3 DEF Expected
    <3>3. CASE n # m
      <4>1. outbox[n].status = "unknown" /\ latch[p[1]].episode = p[2]
        BY <2>3, <2>4, <3>1, <3>3
      <4>2. p \notin m.members
        BY <1>0, <2>3, <4>1, <2>4, QuarantineDisjoint
      <4> QED
        BY <1>0, <2>3, <2>4, <3>1, <4>1, <4>2 DEF QuarantineShows
    <3> QED
      BY <3>2, <3>3
  <2> QED
    BY <2>3, <2>4 DEF QuarantineShows
<1>4. CASE Commits
  <2>1. PICK ev, suppress, alerts, resolutions, new, rows :
          Committed(ev, suppress, alerts, resolutions, new, rows)
    BY <1>4 DEF Commits
  <2>2. /\ CommittedRows(rows, ev, new, suppress) /\ suppress \in BOOLEAN
        /\ DOMAIN outbox' \subseteq DOMAIN rows
        /\ \A n \in DOMAIN outbox' : outbox'[n] = rows[n]
    BY <2>1 DEF Committed
  <2>3. ASSUME NEW n \in DOMAIN outbox', outbox'[n].status = "unknown",
               NEW p \in n.members, latch'[p[1]].episode = p[2]
        PROVE  /\ latch'[p[1]].delivery = "unknown"
               /\ n.kind = "resolution" => latch'[p[1]].lifecycle = "clear"
    <3>1. n \in DOMAIN outbox /\ outbox[n].status = "unknown"
      BY <2>2, <2>3 DEF CommittedRows, UnsentStatus, Queued
    <3> DEFINE c == p[1]
    <3>2. c \in Condition /\ p[2] \in Nat /\ p[2] <= latch[c].episode /\ latch[c].episode <= last
      BY <1>0, <3>1 DEF NothingFromTheFuture
    <3>3. ~OpensEpisode(latch[c], ev[c]) /\ latch[c].episode = p[2]
      BY <1>0, <2>1, <2>3, <3>2, CommitLatch
    <3>4. latch[c].delivery = "unknown" /\ (n.kind = "resolution" => latch[c].lifecycle = "clear")
      BY <3>1, <3>3, <1>0 DEF QuarantineShows
    <3>5. latch[c].lifecycle # "pending"
      BY <1>0, <3>2, <3>4 DEF EpisodesAreOpen
    <3>6. c \notin Alerting(ev) /\ c \notin Resolving(ev, suppress)
      BY <2>1, <3>2, <3>3, <3>4, <3>5, CommitLifecycle
    <3>7. ~WithdrawsAlert(latch[c], ev[c])
      BY <3>4 DEF WithdrawsAlert
    <3> QED
      BY <2>1, <3>2, <3>3, <3>4, <3>6, <3>7, CommitLatch, CommitLifecycle
  <2> QED
    BY <2>3 DEF QuarantineShows
<1> QED
  BY <1>1, <1>2, <1>3, <1>4, StepKinds

(* Every step keeps the rows of a batch nested.                            *)
LEMMA NestedStep == IInv /\ [Next]_vars => Nested'
<1> SUFFICES ASSUME IInv, [Next]_vars PROVE Nested'
  OBVIOUS
<1>0. /\ TypeOK /\ OutboxBacksLatches /\ NothingFromTheFuture /\ Nested
      /\ last \in Nat /\ \A m \in DOMAIN outbox : m.run \in Nat
  BY MaxRunsAssumption DEF IInv, TypeOK, Message, Run
<1>1. ASSUME DOMAIN outbox' = DOMAIN outbox, Live' \subseteq Live PROVE Nested'
  BY <1>0, <1>1 DEF Nested
<1>2. CASE Quiet \/ Shows
  BY <1>1, <1>2 DEF Quiet, Shows, Live
<1>3. CASE Records
  <2>1. PICK m, executor : \E result \in Result : Record(m, executor, result)
    BY <1>3 DEF Records
  <2>2. PICK result \in Result : Record(m, executor, result)
    BY <2>1
  <2>3. /\ m \in Live /\ DOMAIN outbox' = DOMAIN outbox
        /\ \A n \in DOMAIN outbox : n # m => outbox'[n] = outbox[n]
    BY <1>0, <2>2, RecordFacts
  <2>4. Live' \subseteq Live
    BY <2>3 DEF Live
  <2> QED
    BY <1>1, <2>3, <2>4
<1>4. CASE Begins
  <2>1. DOMAIN outbox' = DOMAIN outbox /\ Live' \subseteq Live
    BY <1>0, <1>4 DEF Begins, Live, Unsent, LiveStatus, TypeOK, Row
  <2> QED
    BY <1>1, <2>1
<1>5. CASE Commits
  <2>1. PICK ev, suppress, alerts, resolutions, new, rows :
          Committed(ev, suppress, alerts, resolutions, new, rows)
    BY <1>5 DEF Commits
  <2>2. /\ new = New(ev, suppress, alerts, resolutions)
        /\ alerts \in Batches(Alerting(ev))
        /\ resolutions \in Batches(Resolving(ev, suppress))
        /\ DOMAIN outbox' \subseteq DOMAIN outbox \cup Copies(ev) \cup new
        /\ \A n \in new : n.run = last + 1
        /\ InFlight = {}
    BY <1>5, <2>1 DEF Commits, Committed, CommittedRows
  <2>3. ASSUME NEW m \in ReplacedBy(ev)
        PROVE  /\ m \in Live /\ m \in DOMAIN outbox
               /\ Survivor(m, ev).run = m.run /\ Survivor(m, ev).kind = m.kind
               /\ Survivor(m, ev).members \subseteq m.members
               /\ Survivor(m, ev).members # {}
               /\ Withdrawn(m, ev) # {}
    BY <1>0, SurvivorFacts DEF Unsent, Live, LiveStatus, ReplacedBy, CancelledBy
  <2>4. ASSUME NEW n \in new PROVE n.members # {}
    <3>1. ASSUME NEW kind, NEW S, NEW batches \in Batches(S),
                 n \in Built(last + 1, kind, batches, Advanced(ev, suppress))
          PROVE  n.members # {}
      <4>1. PICK batch \in batches : n = [run |-> last + 1, kind |-> kind,
               members |-> {<<c, Advanced(ev, suppress)[c].episode>> : c \in batch}]
        BY <3>1 DEF Built
      <4>2. batches \subseteq ((SUBSET S) \ {{}})
        BY DEF Batches
      <4>3. batch # {}
        BY <4>2
      <4> QED
        BY <4>1, <4>3
    <3> QED
      BY <2>2, <3>1 DEF New
  <2>5. \A n \in DOMAIN outbox' : n.members # {}
    BY <1>0, <2>2, <2>3, <2>4 DEF Nested, Copies
  <2>6. ASSUME NEW m \in Live', NEW n \in DOMAIN outbox',
               m.run = n.run, m.kind = n.kind, NEW p \in m.members, p \in n.members
        PROVE  m.members \subseteq n.members
    <3>1. CASE m \in new
      <4>1. n \in new
        BY <1>0, <2>2, <2>3, <2>6, <3>1 DEF Copies, NothingFromTheFuture
      <4>2. m = n
        BY <2>1, <2>6, <3>1, <4>1, NewDisjoint
      <4> QED
        BY <4>2
    <3>2. CASE \E m0 \in Live : /\ m.run = m0.run /\ m.kind = m0.kind
                                /\ m.members \subseteq m0.members
                                /\ m0 \in ReplacedBy(ev) => m = Survivor(m0, ev)
      <4>1. PICK m0 \in Live : /\ m.run = m0.run /\ m.kind = m0.kind
                               /\ m.members \subseteq m0.members
                               /\ m0 \in ReplacedBy(ev) => m = Survivor(m0, ev)
        BY <3>2
      <4>2. CASE n \in DOMAIN outbox
        BY <1>0, <2>6, <4>1, <4>2 DEF Nested
      <4>3. CASE \E n0 \in ReplacedBy(ev) : n = Survivor(n0, ev)
        <5>1. PICK n0 \in ReplacedBy(ev) : n = Survivor(n0, ev)
          BY <4>3
        <5>2. n0 = m0
          BY <1>0, <2>3, <2>6, <4>1, <5>1, LiveDisjoint
        <5> QED
          BY <4>1, <5>1, <5>2
      <4>4. CASE n \in new
        <5>1. m0.run <= last /\ m0.run \in Nat
          BY <1>0 DEF Live, NothingFromTheFuture
        <5>2. n.run = last + 1 /\ n.run = m0.run
          BY <2>2, <2>6, <4>1, <4>4
        <5> QED
          BY <1>0, <5>1, <5>2
      <4>5. n \in DOMAIN outbox \/ n \in Copies(ev) \/ n \in new
        BY <2>2, <2>6
      <4> QED
        BY <4>2, <4>3, <4>4, <4>5 DEF Copies
    <3>3. CASE m \in Live /\ Withdrawn(m, ev) = {}
      <4>1. m \notin ReplacedBy(ev)
        BY <2>3, <3>3
      <4> QED
        BY <3>2, <3>3, <4>1
    <3>4. CASE \E m1 \in ReplacedBy(ev) : m = Survivor(m1, ev)
      BY <2>3, <3>2, <3>4
    <3> QED
      BY <2>1, <2>2, <2>6, <3>1, <3>3, <3>4, LiveAfterCommit
  <2> QED
    BY <2>5, <2>6 DEF Nested
<1> QED
  BY <1>2, <1>3, <1>4, <1>5, StepKinds

(* Every step keeps what a check is doing tied to what is in flight.       *)
LEMMA AttemptStep == IInv /\ [Next]_vars => AttemptOfCheck'
<1> SUFFICES ASSUME IInv, [Next]_vars PROVE AttemptOfCheck'
  OBVIOUS
<1> USE DEF database, process, history
<1>0. TypeOK /\ OutboxBacksLatches /\ QuarantineShows /\ AttemptOfCheck
  BY DEF IInv
<1>1. ASSUME pc' \notin {"observing", "sending", "sent"} PROVE AttemptOfCheck'
  BY <1>1 DEF AttemptOfCheck
<1>2. CASE StartCheck \/ CommitRun \/ ReadPending \/ RecordAttempt \/ Finish \/ EndEarly
  BY <1>1, <1>2 DEF StartCheck, CommitRun, ReadPending, RecordAttempt, Finish, EndEarly, Exits
<1>3. CASE RecoverAttempt
  BY <1>1, <1>3 DEF RecoverAttempt
<1>4. CASE RecoverDone
  BY <1>4 DEF RecoverDone, AttemptOfCheck, InFlight
<1>5. CASE BeginAttempt
  <2>1. sending' \in InFlight'
    BY <1>0, <1>5 DEF BeginAttempt, InFlight, Unsent, TypeOK, Row
  <2> QED
    BY <1>5, <2>1 DEF BeginAttempt, AttemptOfCheck
<1>6. CASE Send
  <2>1. sending' = sending /\ sending \in InFlight /\ InFlight' = InFlight /\ pc' = "sent"
    BY <1>0, <1>6 DEF Send, AttemptOfCheck, InFlight
  <2>2. /\ answer' \in {"retryable", "failed"} => Notices(sending) \cap shown' = {}
        /\ answer' = "delivered" => Notices(sending) \subseteq shown'
    BY <1>6 DEF Send
  <2> QED
    BY <2>1, <2>2 DEF AttemptOfCheck, Notices
<1>7. CASE Arrive
  <2>1. PICK m \in DOMAIN outbox :
          /\ outbox[m].status \in {"in_flight", "unknown"}
          /\ ~(pc = "sent" /\ sending = m /\ answer \in {"retryable", "failed"})
          /\ shown' = shown \cup Notices(m)
    BY <1>7 DEF Arrive
  <2>2. UNCHANGED <<outbox, pc, sending, answer>> /\ InFlight' = InFlight
    BY <1>7 DEF Arrive, InFlight
  <2>3. ASSUME pc = "sent", answer \in {"retryable", "failed"}
        PROVE  Notices(sending) \cap shown' = {}
    <3>1. sending \in InFlight /\ Notices(sending) \cap shown = {} /\ m # sending
      BY <1>0, <2>1, <2>3 DEF AttemptOfCheck
    <3>2. sending \in Live /\ sending \in Message /\ m \in Message
      BY <1>0, <3>1 DEF InFlight, Live, LiveStatus, TypeOK
    <3>3. ASSUME NEW x \in Notices(m), x \in Notices(sending) PROVE FALSE
      <4>1. PICK p \in m.members : p \in sending.members
        BY <3>2, <3>3, SharedNotice
      <4>2. outbox[m].status = "in_flight" => m \in Live
        BY DEF Live, LiveStatus
      <4> QED
        BY <1>0, <2>1, <3>1, <3>2, <4>1, <4>2, LiveDisjoint, QuarantineDisjoint
    <3> QED
      BY <2>1, <3>1, <3>3
  <2> QED
    BY <1>0, <2>1, <2>2, <2>3 DEF AttemptOfCheck, Notices
<1>8. CASE UNCHANGED vars
  BY <1>0, <1>8 DEF vars, AttemptOfCheck, InFlight, Notices
<1> QED
  BY <1>2, <1>3, <1>4, <1>5, <1>6, <1>7, <1>8 DEF Next

(* Every step keeps resolutions resting on confirmed alerts.               *)
LEMMA ConfirmedStep == IInv /\ [Next]_vars => AlertsConfirmed'
<1> SUFFICES ASSUME IInv, [Next]_vars PROVE AlertsConfirmed'
  OBVIOUS
<1>0. /\ TypeOK /\ OutboxBacksLatches /\ AttemptOfCheck /\ AlertsConfirmed
      /\ \A m \in DOMAIN outbox : \A p \in m.members : p = <<p[1], p[2]>>
  BY DEF IInv, TypeOK, Message, Member
<1>1. CASE Quiet
  BY <1>0, <1>1 DEF Quiet, AlertsConfirmed
<1>2. CASE Shows
  BY <1>0, <1>2 DEF Shows, AlertsConfirmed
<1>3. CASE Begins
  <2>1. /\ DOMAIN outbox' = DOMAIN outbox /\ UNCHANGED <<latch, shown, confirmed>>
        /\ \A n \in DOMAIN outbox : outbox[n].status = "suppressed" => outbox'[n].status = "suppressed"
    BY <1>0, <1>3 DEF Begins, Unsent, UnsentStatus, TypeOK, Row
  <2> QED
    BY <1>0, <2>1 DEF AlertsConfirmed
<1>4. CASE Records
  <2>1. PICK m, executor : \E result \in Result :
          /\ Record(m, executor, result) /\ shown' = shown
          /\ result # "interrupted" => pc = "sent" /\ sending = m /\ answer = result
    BY <1>4 DEF Records
  <2>2. PICK result \in Result :
          /\ Record(m, executor, result) /\ shown' = shown
          /\ result # "interrupted" => pc = "sent" /\ sending = m /\ answer = result
    BY <2>1
  <2>3. /\ m \in InFlight /\ m \in DOMAIN outbox
        /\ DOMAIN outbox' = DOMAIN outbox
        /\ \A n \in DOMAIN outbox : n # m => outbox'[n] = outbox[n]
        /\ \A c \in Condition :
             /\ latch'[c].episode = latch[c].episode
             /\ latch'[c].delivery =
                  IF result # "retryable" /\ <<c, latch[c].episode>> \in m.members
                  THEN Reached(m.kind, result) ELSE latch[c].delivery
    BY <1>0, <2>2, RecordFacts DEF InFlight
  <2>4. confirmed' = IF result = "delivered" THEN confirmed \cup Notices(m) ELSE confirmed
    BY <2>2 DEF Record
  <2>5. confirmed' \subseteq shown'
    BY <1>0, <2>2, <2>4 DEF AttemptOfCheck, AlertsConfirmed
  <2>6. ASSUME NEW c \in Condition, latch'[c].delivery = "delivered"
        PROVE  <<c, latch'[c].episode, "alert">> \in confirmed'
    <3>1. CASE result # "retryable" /\ <<c, latch[c].episode>> \in m.members
      <4>1. m.kind = "alert" /\ result = "delivered"
        BY <2>3, <2>6, <3>1 DEF Reached, RowStatus
      <4> QED
        BY <2>3, <2>4, <3>1, <4>1 DEF Notices
    <3>2. CASE ~(result # "retryable" /\ <<c, latch[c].episode>> \in m.members)
      BY <1>0, <2>3, <2>4, <2>6, <3>2 DEF AlertsConfirmed
    <3> QED
      BY <3>1, <3>2
  <2>7. \A n \in DOMAIN outbox : outbox[n].status = "suppressed" => outbox'[n].status = "suppressed"
    BY <2>3 DEF InFlight
  <2> QED
    BY <1>0, <2>3, <2>4, <2>5, <2>6, <2>7 DEF AlertsConfirmed
<1>5. CASE Commits
  <2>1. PICK ev, suppress, alerts, resolutions, new, rows :
          Committed(ev, suppress, alerts, resolutions, new, rows)
    BY <1>5 DEF Commits
  <2>2. UNCHANGED <<shown, confirmed>>
    BY <1>5 DEF Commits
  <2>3. /\ CommittedRows(rows, ev, new, suppress) /\ suppress \in BOOLEAN
        /\ DOMAIN outbox' \subseteq DOMAIN rows
        /\ \A n \in DOMAIN outbox' : outbox'[n] = rows[n]
    BY <2>1 DEF Committed
  <2>4. ASSUME NEW c \in Condition, latch'[c].delivery = "delivered"
        PROVE  <<c, latch'[c].episode, "alert">> \in confirmed
    <3>1. ~OpensEpisode(latch[c], ev[c]) /\ latch[c].delivery = "delivered"
      BY <2>1, <2>3, <2>4, CommitLatch DEF Queued
    <3>2. latch'[c].episode = latch[c].episode
      BY <2>1, <3>1, CommitLatch
    <3> QED
      BY <1>0, <3>1, <3>2 DEF AlertsConfirmed
  <2>5. ASSUME NEW n \in DOMAIN outbox', n.kind = "resolution", outbox'[n].status # "suppressed",
               NEW p \in n.members
        PROVE  <<p[1], p[2], "alert">> \in confirmed
    <3>1. CASE n \in DOMAIN outbox
      <4>1. outbox[n].status # "suppressed"
        BY <2>3, <2>5, <3>1 DEF CommittedRows, CancelledBy, Unsent, UnsentStatus
      <4> QED
        BY <1>0, <2>5, <3>1, <4>1 DEF AlertsConfirmed
    <3>2. CASE n \in Copies(ev)
      <4>1. PICK m \in ReplacedBy(ev) : n = Survivor(m, ev)
        BY <3>2 DEF Copies
      <4>2. /\ m \in Unsent /\ m \in DOMAIN outbox /\ m.kind = "resolution" /\ p \in m.members
        BY <1>0, <2>5, <4>1, SurvivorFacts
      <4>3. outbox[m].status # "suppressed"
        BY <4>2 DEF Unsent, UnsentStatus
      <4> QED
        BY <1>0, <4>2, <4>3 DEF AlertsConfirmed
    <3>3. CASE n \in new
      <4>1. suppress = FALSE
        BY <2>3, <2>5, <3>3 DEF CommittedRows, Queued
      <4>2. p[1] \in Condition /\ p[2] = latch'[p[1]].episode /\ p[1] \in Resolving(ev, suppress)
        BY <2>1, <2>5, <3>3, NewMember
      <4>3. latch[p[1]].lifecycle = "firing" /\ latch[p[1]].delivery = "delivered"
        BY <2>1, <4>1, <4>2, CommitLifecycle
      <4>4. latch'[p[1]].episode = latch[p[1]].episode
        BY <2>1, <4>2, <4>3, CommitLatch, CommitLifecycle
      <4> QED
        BY <1>0, <4>2, <4>3, <4>4 DEF AlertsConfirmed
    <3> QED
      BY <2>3, <3>1, <3>2, <3>3 DEF CommittedRows
  <2> QED
    BY <1>0, <2>2, <2>4, <2>5 DEF AlertsConfirmed
<1> QED
  BY <1>1, <1>2, <1>3, <1>4, <1>5, StepKinds

(* Every step keeps resolutions after confirmed alerts.                    *)
LEMMA ResolutionStep == IInv /\ [Next]_vars => ResolutionFollowsAlert'
<1> SUFFICES ASSUME IInv, [Next]_vars PROVE ResolutionFollowsAlert'
  OBVIOUS
<1>0. TypeOK /\ OutboxBacksLatches /\ ResolutionFollowsAlert /\ AlertsConfirmed
  BY DEF IInv
<1>1. CASE Quiet \/ Begins \/ Commits
  BY <1>0, <1>1 DEF Quiet, Begins, Commits, ResolutionFollowsAlert
<1>2. CASE Records
  <2>1. shown' = shown /\ confirmed \subseteq confirmed'
    BY <1>2 DEF Records, Record
  <2> QED
    BY <1>0, <2>1 DEF ResolutionFollowsAlert
<1>3. CASE Shows
  <2>1. PICK m \in DOMAIN outbox :
          outbox[m].status \in {"in_flight", "unknown"} /\ shown' = shown \cup Notices(m)
    BY <1>3 DEF Shows
  <2>2. ASSUME NEW n \in Notices(m), n[3] = "resolution"
        PROVE  <<n[1], n[2], "alert">> \in confirmed
    <3>1. PICK p \in m.members : n = <<p[1], p[2], m.kind>>
      BY <2>2 DEF Notices
    <3>2. m.kind = "resolution" /\ outbox[m].status # "suppressed"
      BY <2>1, <2>2, <3>1
    <3> QED
      BY <1>0, <3>1, <3>2 DEF AlertsConfirmed
  <2>3. confirmed' = confirmed /\ confirmed \subseteq shown
    BY <1>0, <1>3 DEF Shows, AlertsConfirmed
  <2> QED
    BY <1>0, <2>1, <2>2, <2>3 DEF ResolutionFollowsAlert
<1> QED
  BY <1>1, <1>2, <1>3, StepKinds

-----------------------------------------------------------------------------
(* The theorems.                                                           *)

(* The inductive invariant holds before any run.                           *)
LEMMA InitInv == Init => IInv
<1> SUFFICES ASSUME Init PROVE IInv
  OBVIOUS
<1>1. TypeOK
  BY InitType
<1>2. /\ DOMAIN outbox = {} /\ shown = {} /\ confirmed = {} /\ last = 0 /\ pc = "idle"
      /\ \A c \in Condition : latch[c] = NewCondition
  BY DEF Init
<1>3. Live = {} /\ Unsent = {} /\ InFlight = {}
  BY <1>2 DEF Live, Unsent, InFlight
<1>4. OutboxBacksLatches /\ NoReplay /\ ResolutionFollowsAlert
  BY <1>2, <1>3 DEF OutboxBacksLatches, NoReplay, ResolutionFollowsAlert, NewCondition
<1>5. NothingFromTheFuture /\ EpisodesAreOpen /\ FutureNoticesUnseen
  BY <1>2 DEF NothingFromTheFuture, EpisodesAreOpen, FutureNoticesUnseen, NewCondition
<1>6. QuarantineShows /\ Nested /\ AttemptOfCheck /\ AlertsConfirmed
  BY <1>2, <1>3 DEF QuarantineShows, Nested, AttemptOfCheck, AlertsConfirmed, NewCondition
<1> QED
  BY <1>1, <1>4, <1>5, <1>6 DEF IInv

(* Every step preserves the inductive invariant.                           *)
LEMMA InvStep == IInv /\ [Next]_vars => IInv'
BY TypeStep, BacksStep, ReplayStep, ResolutionStep, FutureStep, EpisodesStep, UnseenStep,
   QuarantineStep, NestedStep, AttemptStep, ConfirmedStep DEF IInv

(* The inductive invariant holds in every reachable state, so each of the  *)
(* properties that are its conjuncts does.                                 *)
THEOREM Invariant == Spec => []IInv
<1>1. Init => IInv
  BY InitInv
<1>2. IInv /\ [Next]_vars => IInv'
  BY InvStep
<1> QED
  BY <1>1, <1>2, PTL DEF Spec

(* Every reachable state is well formed: the database, the memory of the   *)
(* check and the history.                                                  *)
THEOREM TypeCorrect == Spec => []TypeOK
<1>1. IInv => TypeOK
  BY DEF IInv
<1> QED
  BY <1>1, Invariant, PTL

(* commit_run, begin_notification_attempt, record_notification_attempt and *)
(* recovery keep the latches and the outbox in agreement, for any set of   *)
(* conditions, any thresholds and any batching.                            *)
THEOREM LatchesAreBacked == Spec => []OutboxBacksLatches
<1>1. IInv => OutboxBacksLatches
  BY DEF IInv
<1> QED
  BY <1>1, Invariant, PTL

(* What the provider has shown, or may have shown, is never queued again.  *)
THEOREM NothingIsReplayed == Spec => []NoReplay
<1>1. IInv => NoReplay
  BY DEF IInv
<1> QED
  BY <1>1, Invariant, PTL

(* A resolution is shown only after its alert was shown and confirmed.     *)
THEOREM ResolutionsFollowAlerts == Spec => []ResolutionFollowsAlert
<1>1. IInv => ResolutionFollowsAlert
  BY DEF IInv
<1> QED
  BY <1>1, Invariant, PTL

-----------------------------------------------------------------------------
(* Delivery implements Announcements, with the episodes of the latches as the *)
(* newest episodes: every step maps to a step or a stutter.                 *)

(* A step that changes no latch, nothing shown and nothing confirmed.      *)
LEMMA QuietStutters == Quiet => UNCHANGED Told!vars
BY DEF Quiet, Told!vars

LEMMA BeginStutters == Begins => UNCHANGED Told!vars
BY DEF Begins, Told!vars

(* What the provider shows are the notices of one message, of episodes that *)
(* have begun, and resolutions of confirmed alerts only.                    *)
LEMMA ShowsAnnounces ==
    ASSUME IInv, Shows
    PROVE  Told!Announce
<1>0. /\ TypeOK /\ AlertsConfirmed /\ NothingFromTheFuture
  BY DEF IInv
<1>1. PICK m \in DOMAIN outbox :
        outbox[m].status \in {"in_flight", "unknown"} /\ shown' = shown \cup Notices(m)
  BY DEF Shows
<1> DEFINE N == Notices(m) \ shown
<1>2. m \in Message /\ m.kind \in {"alert", "resolution"}
  BY <1>0, <1>1 DEF TypeOK, Message, Kind
<1>3. N \in SUBSET (Told!Notices \ shown)
  BY <1>2, NoticesType DEF Told!Notices, Notice, Kind
<1>4. ASSUME NEW n \in N
      PROVE  /\ n[2] <= latch[n[1]].episode
             /\ n[1] \in Condition
             /\ n[3] = m.kind
             /\ m.kind = "resolution" => <<n[1], n[2], "alert">> \in confirmed
  <2>1. PICK p \in m.members : n = <<p[1], p[2], m.kind>>
    BY <1>4 DEF Notices
  <2>2. p[1] \in Condition /\ p[2] <= latch[p[1]].episode
    BY <1>0, <1>1, <1>2, <2>1 DEF NothingFromTheFuture, Message, Member
  <2>3. m.kind = "resolution" => <<p[1], p[2], "alert">> \in confirmed
    BY <1>0, <1>1, <2>1 DEF AlertsConfirmed
  <2> QED
    BY <2>1, <2>2, <2>3
<1>5. shown' = shown \cup N
  BY <1>1
<1>6. UNCHANGED <<latch, confirmed>>
  BY DEF Shows
<1> HIDE DEF N
<1> QED
  BY <1>2, <1>3, <1>4, <1>5, <1>6 DEF Told!Announce

(* A result confirms the notices of the message in flight: they are shown,  *)
(* and the message is live, so its episodes are the newest.                 *)
LEMMA RecordsConfirms ==
    ASSUME IInv, Records
    PROVE  Told!Confirm \/ UNCHANGED Told!vars
<1>0. TypeOK /\ OutboxBacksLatches /\ AttemptOfCheck /\ AlertsConfirmed
  BY DEF IInv
<1>1. PICK m, executor : \E result \in Result :
        /\ Record(m, executor, result) /\ shown' = shown
        /\ result # "interrupted" => pc = "sent" /\ sending = m /\ answer = result
  BY DEF Records
<1>2. PICK result \in Result :
        /\ Record(m, executor, result) /\ shown' = shown
        /\ result # "interrupted" => pc = "sent" /\ sending = m /\ answer = result
  BY <1>1
<1>3. /\ m \in Live /\ m \in Message
      /\ \A c \in Condition : latch'[c].episode = latch[c].episode
  BY <1>0, <1>2, RecordFacts
<1>4. [c \in Condition |-> latch[c].episode]' = [c \in Condition |-> latch[c].episode]
  BY <1>3
<1>5. CASE result # "delivered"
  <2>1. confirmed' = confirmed
    BY <1>2, <1>5 DEF Record
  <2> QED
    BY <1>2, <1>4, <2>1 DEF Told!vars
<1>6. CASE result = "delivered"
  <2> DEFINE N == Notices(m) \ confirmed
  <2>1. confirmed' = confirmed \cup N
    BY <1>2, <1>6 DEF Record
  <2>2. N \in SUBSET (shown \ confirmed)
    BY <1>0, <1>2, <1>6 DEF AttemptOfCheck
  <2>3. ASSUME NEW n \in N
        PROVE  n[2] = latch[n[1]].episode /\ n[1] \in Condition
    <3>1. PICK p \in m.members : n = <<p[1], p[2], m.kind>>
      BY <2>3 DEF Notices
    <3> QED
      BY <1>0, <1>3, <3>1 DEF OutboxBacksLatches, Message, Member
  <2> HIDE DEF N
  <2> QED
    BY <1>2, <1>4, <2>1, <2>2, <2>3 DEF Told!Confirm
<1> QED
  BY <1>5, <1>6

(* A run opens episodes of its own number, which is later than all others.  *)
LEMMA CommitsOpens ==
    ASSUME IInv, Commits
    PROVE  Told!Open
<1>1. PICK ev, suppress, alerts, resolutions, new, rows :
        Committed(ev, suppress, alerts, resolutions, new, rows)
  BY DEF Commits
<1> DEFINE opened == {c \in Condition : OpensEpisode(latch[c], ev[c])}
<1>2. last \in 0..MaxRuns /\ last < MaxRuns /\ last + 1 \in Run
  BY <1>1, MaxRunsAssumption DEF IInv, TypeOK, Committed, Run
<1>3. ASSUME NEW c \in Condition
      PROVE  /\ latch'[c].episode =
                  IF OpensEpisode(latch[c], ev[c]) THEN last + 1 ELSE latch[c].episode
             /\ latch[c].episode <= last
             /\ latch[c].episode \in 0..MaxRuns
  BY <1>1, <1>3, CommitLatch DEF IInv, TypeOK
<1>4. \A c \in opened : latch[c].episode < last + 1
  BY <1>2, <1>3, MaxRunsAssumption
<1>5. [c \in Condition |-> latch[c].episode]'
        = [c \in Condition |-> IF c \in opened THEN last + 1
                               ELSE [d \in Condition |-> latch[d].episode][c]]
  BY <1>3
<1>6. UNCHANGED <<shown, confirmed>>
  BY DEF Commits
<1>7. opened \in SUBSET Condition
  OBVIOUS
<1> HIDE DEF opened
<1> QED
  BY <1>2, <1>4, <1>5, <1>6, <1>7 DEF Told!Open

(* Every step of a check, the provider or a crash maps to a step of the     *)
(* promise or to none.                                                      *)
LEMMA StepKeepsPromise == IInv /\ [Next]_vars => [Told!Next]_(Told!vars)
BY StepKinds, QuietStutters, BeginStutters, ShowsAnnounces, RecordsConfirms, CommitsOpens
   DEF Told!Next

LEMMA InitKeepsPromise == Init => Told!Init
<1> SUFFICES ASSUME Init PROVE Told!Init
  OBVIOUS
<1>1. \A c \in Condition : latch[c].episode = 0
  BY DEF Init, NewCondition
<1> QED
  BY <1>1 DEF Init, Told!Init

(* The delivery protocol keeps what the operator is promised, for any       *)
(* conditions, evaluations, batching and number of runs.                    *)
THEOREM DeliveryKeepsItsPromise == Spec => KeepsItsPromise
<1>1. Init => Told!Init
  BY InitKeepsPromise
<1>2. IInv /\ [Next]_vars => [Told!Next]_(Told!vars)
  BY StepKeepsPromise
<1> QED
  BY <1>1, <1>2, Invariant, PTL DEF Spec, KeepsItsPromise, Told!Spec

-----------------------------------------------------------------------------
(* What stored runs say: a second inductive invariant, ReportInv, on top of *)
(* the first.  The reports never take part in the decisions of a check, so  *)
(* the first invariant does not need this one.                              *)

(* What recording a result does to the stored reports.                     *)
LEMMA RecordReports ==
    ASSUME TypeOK, NEW m, NEW executor, NEW result \in Result, Record(m, executor, result)
    PROVE  /\ m \in InFlight /\ m \in Message
           /\ outbox[m].executor = executor /\ executor \in DOMAIN runs
           /\ DOMAIN outbox' = DOMAIN outbox
           /\ \A n \in DOMAIN outbox : outbox'[n].executor = outbox[n].executor
           /\ InFlight' = InFlight \ {m}
           /\ DOMAIN runs' = DOMAIN runs /\ last' = last
           /\ \A r \in DOMAIN runs :
                /\ runs'[r].exit = IF r = executor /\ result # "delivered" THEN 4
                                   ELSE runs[r].exit
                /\ r # executor => runs'[r].activity = runs[r].activity
                /\ r # m.run => runs'[r].evidence = runs[r].evidence
           /\ runs'[executor].activity =
                Noted(runs[executor].activity,
                      [message |-> m, executor |-> executor,
                       action |-> "attempt", result |-> result])
           /\ m.run \in DOMAIN runs =>
                runs'[m.run].evidence = EvidenceAfter(m, result, runs[m.run].evidence)
<1>1. /\ m \in DOMAIN outbox /\ outbox[m].status = "in_flight"
      /\ outbox' = [outbox EXCEPT ![m].status = RowStatus(result)]
      /\ runs' = RunsAfter(m, executor, result)
      /\ executor \in DOMAIN runs /\ outbox[m].executor = executor /\ last' = last
  BY DEF Record
<1>2. outbox \in [DOMAIN outbox -> Row] /\ m \in Message
  BY <1>1 DEF TypeOK
<1>3. RowStatus(result) # "in_flight"
  BY DEF RowStatus, Result
<1>4. /\ DOMAIN outbox' = DOMAIN outbox
      /\ \A n \in DOMAIN outbox : n # m => outbox'[n] = outbox[n]
      /\ outbox'[m].status = RowStatus(result) /\ outbox'[m].executor = outbox[m].executor
  BY <1>1, <1>2 DEF Row
<1>5. InFlight' = InFlight \ {m}
  BY <1>3, <1>4 DEF InFlight
<1>6. DOMAIN runs' = DOMAIN runs
  BY <1>1 DEF RunsAfter
<1>7. ASSUME NEW r \in DOMAIN runs
      PROVE  /\ runs'[r].exit = IF r = executor /\ result # "delivered" THEN 4
                                ELSE runs[r].exit
             /\ r # executor => runs'[r].activity = runs[r].activity
             /\ r # m.run => runs'[r].evidence = runs[r].evidence
             /\ r = executor => runs'[r].activity =
                  Noted(runs[r].activity, [message |-> m, executor |-> executor,
                                           action |-> "attempt", result |-> result])
             /\ r = m.run => runs'[r].evidence = EvidenceAfter(m, result, runs[r].evidence)
  BY <1>1, <1>7 DEF RunsAfter
<1> QED
  BY <1>1, <1>2, <1>4, <1>5, <1>6, <1>7 DEF InFlight

(* What a commit does to the stored reports: the new one is added, others   *)
(* are kept as they are or pruned, and the messages of a kept run are kept. *)
Reported(suppress, rows) ==
    /\ pc = "observing" /\ pc' = IF suppress THEN "finishing" ELSE "committed"
    /\ InFlight = {}
    /\ UNCHANGED <<recovered, failed, queue, sending, answer, shown, confirmed>>
    /\ last + 1 \in DOMAIN runs'
    /\ DOMAIN runs' \subseteq DOMAIN runs \cup {last + 1}
    /\ runs'[last + 1] = NewReport(latch')
    /\ \A r \in DOMAIN runs' : r # last + 1 => runs'[r] = runs[r]
    /\ \A m \in DOMAIN rows : m.run \in DOMAIN runs' => m \in DOMAIN outbox'

LEMMA CommitReports ==
    ASSUME IInv, RunsAreNumbered, CommitRun
    PROVE  \E ev, suppress, alerts, resolutions, new, rows :
             /\ Committed(ev, suppress, alerts, resolutions, new, rows)
             /\ Reported(suppress, rows)
<1>0. last \in Nat
  BY MaxRunsAssumption DEF IInv, TypeOK
<1>1. InFlight = {} /\ last < MaxRuns /\ pc = "observing"
  BY DEF IInv, AttemptOfCheck, CommitRun
<1>2. PICK ev \in [Condition -> Evaluations], suppress \in Suppressions, cutoff \in 1..(last + 1) :
        /\ \E alerts \in Batches(Alerting(ev)), resolutions \in Batches(Resolving(ev, suppress)) :
              Commit(ev, suppress, cutoff, alerts, resolutions)
        /\ pc' = IF suppress THEN "finishing" ELSE "committed"
  BY DEF CommitRun
<1>3. PICK alerts \in Batches(Alerting(ev)), resolutions \in Batches(Resolving(ev, suppress)) :
        Commit(ev, suppress, cutoff, alerts, resolutions)
  BY <1>2
<1>4. PICK new : new = New(ev, suppress, alerts, resolutions)
  OBVIOUS
<1>5. PICK rows : rows = Rows(ev, suppress, alerts, resolutions)
  OBVIOUS
<1>6. cutoff \in Nat
  OBVIOUS
<1>7. /\ latch' = Advanced(ev, suppress)
      /\ last' = last + 1
      /\ suppress \in BOOLEAN
      /\ \A n \in new : n.run = last + 1
      /\ CommittedRows(rows, ev, new, suppress)
      /\ DOMAIN outbox' \subseteq DOMAIN rows
      /\ \A m \in DOMAIN outbox' : outbox'[m] = rows[m]
      /\ \A m \in DOMAIN rows : rows[m].status \in RetainedStatus => m \in DOMAIN outbox'
  BY <1>1, <1>3, <1>4, <1>5, <1>6, CommitFacts DEF IInv
<1>8. Committed(ev, suppress, alerts, resolutions, new, rows)
  BY <1>1, <1>3, <1>4, <1>7 DEF Committed
<1> DEFINE gone == Pruned(DOMAIN runs, rows, cutoff)
<1>9. /\ outbox' = [m \in {n \in DOMAIN rows : n.run \notin gone} |-> rows[m]]
      /\ runs' = [r \in (DOMAIN runs \cup {last + 1}) \ gone |->
                     IF r = last + 1 THEN NewReport(Advanced(ev, suppress)) ELSE runs[r]]
  BY <1>3, <1>4, <1>5 DEF Commit, New, Rows
<1>10. last + 1 \notin DOMAIN runs
  BY <1>0 DEF RunsAreNumbered
<1>11. gone \subseteq DOMAIN runs
  BY DEF Pruned
<1> HIDE DEF gone
<1>12. ASSUME NEW m \in DOMAIN rows, m.run \in DOMAIN runs' PROVE m \in DOMAIN outbox'
  BY <1>9, <1>12
<1>13. /\ last + 1 \in DOMAIN runs'
       /\ DOMAIN runs' \subseteq DOMAIN runs \cup {last + 1}
       /\ runs'[last + 1] = NewReport(latch')
       /\ \A r \in DOMAIN runs' : r # last + 1 => runs'[r] = runs[r]
  BY <1>7, <1>9, <1>10, <1>11
<1>14. UNCHANGED <<recovered, failed, queue, sending, answer, shown, confirmed>>
  BY DEF CommitRun, history
<1>15. Reported(suppress, rows)
  BY <1>1, <1>2, <1>12, <1>13, <1>14 DEF Reported
<1> QED
  BY <1>8, <1>15

-----------------------------------------------------------------------------
(* Numbers of runs, and what is in flight.                                 *)

(* Stored runs stay no younger than the newest.                            *)
LEMMA NumberedStep == IInv /\ ReportInv /\ [Next]_vars => RunsAreNumbered'
<1> SUFFICES ASSUME IInv, ReportInv, [Next]_vars PROVE RunsAreNumbered'
  OBVIOUS
<1> USE DEF database, process, history
<1>0. /\ TypeOK /\ RunsAreNumbered /\ last \in Nat /\ DOMAIN runs \subseteq Nat
      /\ \A a \in recovered : a.executor \in Nat
  BY MaxRunsAssumption DEF IInv, ReportInv, TypeOK, Run
<1>1. CASE StartCheck \/ RecoverDone \/ ReadPending \/ Send \/ Arrive \/ UNCHANGED vars
  BY <1>0, <1>1 DEF StartCheck, RecoverDone, ReadPending, Send, Arrive, vars, RunsAreNumbered
<1>2. CASE RecoverAttempt
  <2>1. PICK m \in InFlight :
          /\ Record(m, outbox[m].executor, "interrupted")
          /\ recovered' = recovered \cup {[message |-> m, executor |-> outbox[m].executor]}
    BY <1>2 DEF RecoverAttempt
  <2>2. /\ outbox[m].executor \in DOMAIN runs /\ DOMAIN runs' = DOMAIN runs /\ last' = last
        /\ pc' = "recovering"
    BY <1>0, <1>2, <2>1, RecordReports DEF RecoverAttempt, Result
  <2> QED
    BY <1>0, <2>1, <2>2 DEF RunsAreNumbered
<1>3. CASE CommitRun
  <2>1. PICK ev, suppress, alerts, resolutions, new, rows :
          /\ Committed(ev, suppress, alerts, resolutions, new, rows)
          /\ Reported(suppress, rows)
    BY <1>0, <1>3, CommitReports
  <2> QED
    BY <1>0, <2>1 DEF Committed, Reported, RunsAreNumbered
<1>4. CASE BeginAttempt
  <2>1. DOMAIN runs' = DOMAIN runs /\ UNCHANGED <<last, recovered>> /\ last \in DOMAIN runs
    BY <1>4 DEF BeginAttempt
  <2> QED
    BY <1>0, <2>1 DEF RunsAreNumbered
<1>5. CASE RecordAttempt
  <2>1. /\ DOMAIN runs' = DOMAIN runs /\ last' = last /\ recovered' = recovered
        /\ last \in DOMAIN runs
    BY <1>0, <1>5, RecordReports DEF RecordAttempt, TypeOK
  <2> QED
    BY <1>0, <2>1 DEF RunsAreNumbered
<1>6. CASE Finish
  BY <1>0, <1>6 DEF Finish, Exits, RunsAreNumbered
<1>7. CASE EndEarly
  BY <1>0, <1>7 DEF EndEarly, Exits, RunsAreNumbered
<1> QED
  BY <1>1, <1>2, <1>3, <1>4, <1>5, <1>6, <1>7 DEF Next

(* A commit leaves nothing in flight.                                      *)
LEMMA CommitQueues ==
    ASSUME IInv, InFlight = {},
           NEW ev, NEW suppress, NEW alerts, NEW resolutions, NEW new, NEW rows,
           Committed(ev, suppress, alerts, resolutions, new, rows)
    PROVE  InFlight' = {}
<1> SUFFICES ASSUME NEW n \in DOMAIN outbox', outbox'[n].status = "in_flight" PROVE FALSE
  BY DEF InFlight
<1>1. /\ CommittedRows(rows, ev, new, suppress)
      /\ n \in DOMAIN rows /\ rows[n].status = "in_flight"
  BY DEF Committed
<1>2. n \notin DOMAIN outbox
  BY <1>1 DEF CommittedRows, InFlight
<1> QED
  BY <1>1, <1>2 DEF CommittedRows, Queued, UnsentStatus

(* Claiming a message, in full.                                            *)
LEMMA BeginReports ==
    ASSUME TypeOK, BeginAttempt
    PROVE  /\ pc = "delivering" /\ pc' = "sending"
           /\ UNCHANGED <<latch, last, recovered, failed, answer, shown, confirmed>>
           /\ sending' \in Message /\ sending' \in Unsent
           /\ DOMAIN outbox' = DOMAIN outbox
           /\ \A n \in DOMAIN outbox : n # sending' => outbox'[n] = outbox[n]
           /\ outbox'[sending'] = [status |-> "in_flight", executor |-> last]
           /\ InFlight' = InFlight \cup {sending'}
           /\ last \in DOMAIN runs /\ DOMAIN runs' = DOMAIN runs
           /\ \A r \in DOMAIN runs :
                /\ runs'[r].exit = runs[r].exit
                /\ runs'[r].evidence = runs[r].evidence
                /\ r # last => runs'[r].activity = runs[r].activity
           /\ runs'[last].activity =
                Noted(runs[last].activity,
                      [message |-> sending', executor |-> last,
                       action |-> "attempt", result |-> "in_flight"])
<1>1. PICK m \in queue :
         /\ m \in Unsent
         /\ last \in DOMAIN runs
         /\ outbox' = [outbox EXCEPT ![m] = [status |-> "in_flight", executor |-> last]]
         /\ runs' = [runs EXCEPT ![last].activity =
                        Noted(@, [message |-> m, executor |-> last,
                                  action |-> "attempt", result |-> "in_flight"])]
         /\ sending' = m
  BY DEF BeginAttempt
<1>2. /\ runs \in [DOMAIN runs -> Report] /\ outbox \in [DOMAIN outbox -> Row]
      /\ m \in DOMAIN outbox /\ m \in Message
  BY <1>1 DEF TypeOK, Unsent
<1>3. /\ pc = "delivering" /\ pc' = "sending"
      /\ UNCHANGED <<latch, last, recovered, failed, answer, shown, confirmed>>
  BY DEF BeginAttempt, history
<1>4. /\ DOMAIN outbox' = DOMAIN outbox
      /\ \A n \in DOMAIN outbox : n # m => outbox'[n] = outbox[n]
      /\ outbox'[m] = [status |-> "in_flight", executor |-> last]
  BY <1>1, <1>2
<1>5. InFlight' = InFlight \cup {m}
  BY <1>2, <1>4 DEF InFlight
<1>6. DOMAIN runs' = DOMAIN runs /\ \A r \in DOMAIN runs : r # last => runs'[r] = runs[r]
  BY <1>1, <1>2
<1>7. /\ runs'[last].exit = runs[last].exit
      /\ runs'[last].evidence = runs[last].evidence
      /\ runs'[last].activity =
           Noted(runs[last].activity, [message |-> m, executor |-> last,
                                       action |-> "attempt", result |-> "in_flight"])
  BY <1>1, <1>2 DEF Report
<1> QED
  BY <1>1, <1>2, <1>3, <1>4, <1>5, <1>6, <1>7

(* Recording the result of the attempt leaves nothing in flight.           *)
LEMMA RecordLands ==
    ASSUME TypeOK, AtMostOneInFlight,
           NEW m, NEW executor, NEW result \in Result, Record(m, executor, result)
    PROVE  InFlight' = {}
<1>1. m \in InFlight /\ InFlight' = InFlight \ {m}
  BY RecordReports
<1>2. \A n \in InFlight : n = m
  BY <1>1 DEF AtMostOneInFlight
<1> QED
  BY <1>1, <1>2

(* One attempt at a time, and none where a check observes or chooses.      *)
LEMMA FlightStep == IInv /\ ReportInv /\ [Next]_vars => AtMostOneInFlight'
<1> SUFFICES ASSUME IInv, ReportInv, [Next]_vars PROVE AtMostOneInFlight'
  OBVIOUS
<1> USE DEF database, process, history
<1>0. TypeOK /\ AttemptOfCheck /\ AtMostOneInFlight /\ RunsAreNumbered
  BY DEF IInv, ReportInv
<1>1. CASE StartCheck \/ RecoverDone \/ ReadPending \/ Send \/ Arrive \/ Finish
           \/ EndEarly \/ UNCHANGED vars
  <2>1. UNCHANGED <<outbox, last>> /\ InFlight' = InFlight
    BY <1>1 DEF StartCheck, RecoverDone, ReadPending, Send, Arrive, Finish, EndEarly, vars, InFlight
  <2>2. pc' \in {"observing", "committed", "delivering", "finishing"} => InFlight = {}
    BY <1>0, <1>1 DEF StartCheck, RecoverDone, ReadPending, Send, Arrive, Finish, EndEarly,
       Exits, vars, AtMostOneInFlight
  <2>3. pc' \in {"sending", "sent"} => pc \in {"sending", "sent"} /\ sending' = sending
    BY <1>1 DEF StartCheck, RecoverDone, ReadPending, Send, Arrive, Finish, EndEarly, Exits, vars
  <2> QED
    BY <1>0, <2>1, <2>2, <2>3 DEF AtMostOneInFlight
<1>2. ASSUME NEW m, NEW executor, NEW result \in Result, Record(m, executor, result),
             pc' \notin {"sending", "sent"}
      PROVE  AtMostOneInFlight'
  <2>1. InFlight' = {}
    BY <1>0, <1>2, RecordLands
  <2> QED
    BY <1>2, <2>1 DEF AtMostOneInFlight
<1>3. CASE RecoverAttempt
  BY <1>2, <1>3 DEF RecoverAttempt, Result
<1>4. CASE RecordAttempt
  BY <1>0, <1>2, <1>4 DEF RecordAttempt, TypeOK
<1>5. CASE CommitRun
  <2>1. PICK ev, suppress, alerts, resolutions, new, rows :
          /\ Committed(ev, suppress, alerts, resolutions, new, rows)
          /\ Reported(suppress, rows)
    BY <1>0, <1>5, CommitReports
  <2>2. InFlight' = {} /\ pc' \in {"committed", "finishing"}
    BY <2>1, CommitQueues DEF Reported
  <2> QED
    BY <2>2 DEF AtMostOneInFlight
<1>6. CASE BeginAttempt
  <2>1. InFlight = {}
    BY <1>0, <1>6 DEF BeginAttempt, AtMostOneInFlight
  <2>2. /\ pc' = "sending" /\ InFlight' = {sending'} /\ outbox'[sending'].executor = last
        /\ last' = last
    BY <1>0, <1>6, <2>1, BeginReports
  <2> QED
    BY <2>2 DEF AtMostOneInFlight
<1> QED
  BY <1>1, <1>3, <1>4, <1>5, <1>6 DEF Next

(* What is in flight is shown by the report of the run that executes it.   *)
LEMMA RecoverableStep == IInv /\ ReportInv /\ [Next]_vars => InFlightIsRecoverable'
<1> SUFFICES ASSUME IInv, ReportInv, [Next]_vars PROVE InFlightIsRecoverable'
  OBVIOUS
<1> USE DEF database, process, history
<1>0. TypeOK /\ AtMostOneInFlight /\ RunsAreNumbered /\ InFlightIsRecoverable
  BY DEF IInv, ReportInv
<1>1. CASE StartCheck \/ RecoverDone \/ ReadPending \/ Send \/ Arrive \/ EndEarly \/ UNCHANGED vars
  BY <1>0, <1>1 DEF StartCheck, RecoverDone, ReadPending, Send, Arrive, EndEarly, vars,
     InFlightIsRecoverable, InFlight
<1>2. ASSUME InFlight' = {} PROVE InFlightIsRecoverable'
  BY <1>2 DEF InFlightIsRecoverable
<1>3. ASSUME NEW m, NEW executor, NEW result \in Result, Record(m, executor, result)
      PROVE  InFlight' = {}
  BY <1>0, <1>3, RecordLands
<1>4. CASE RecoverAttempt
  BY <1>2, <1>3, <1>4 DEF RecoverAttempt, Result
<1>5. CASE RecordAttempt
  BY <1>0, <1>2, <1>3, <1>5 DEF RecordAttempt, TypeOK
<1>6. CASE CommitRun
  <2>1. PICK ev, suppress, alerts, resolutions, new, rows :
          /\ Committed(ev, suppress, alerts, resolutions, new, rows)
          /\ Reported(suppress, rows)
    BY <1>0, <1>6, CommitReports
  <2> QED
    BY <1>2, <2>1, CommitQueues DEF Reported
<1>7. CASE Finish
  <2>1. InFlight = {}
    BY <1>0, <1>7 DEF Finish, AtMostOneInFlight
  <2> QED
    BY <1>2, <1>7, <2>1 DEF Finish, InFlight
<1>8. CASE BeginAttempt
  <2>1. InFlight = {}
    BY <1>0, <1>8 DEF BeginAttempt, AtMostOneInFlight
  <2>2. /\ InFlight' = {sending'} /\ outbox'[sending'].executor = last
        /\ last \in DOMAIN runs' /\ last' = last
        /\ [message |-> sending', executor |-> last,
            action |-> "attempt", result |-> "in_flight"] \in runs'[last].activity
    BY <1>0, <1>8, <2>1, BeginReports DEF Noted
  <2> QED
    BY <2>2 DEF InFlightIsRecoverable
<1> QED
  BY <1>1, <1>4, <1>5, <1>6, <1>7, <1>8 DEF Next

-----------------------------------------------------------------------------
(* Exit codes and activities.                                              *)

Unconfirmed(activity) == \E e \in activity : e.result \notin {"delivered", "in_flight"}

(* A result that is not a delivery shows in the activity it is noted in.   *)
LEMMA NotedShows ==
    ASSUME NEW activity, NEW entry, entry.result \notin {"delivered", "in_flight"}
    PROVE  Unconfirmed(Noted(activity, entry))
<1>1. entry \in Noted(activity, entry)
  BY DEF Noted
<1> QED
  BY <1>1 DEF Unconfirmed

(* A new report tells of what was recovered, and fails exactly for that.   *)
LEMMA NewReportFacts ==
    ASSUME NEW advanced
    PROVE  /\ NewReport(advanced).exit = 4 <=> recovered # {}
           /\ Unconfirmed(NewReport(advanced).activity) <=> recovered # {}
           /\ \A e \in NewReport(advanced).activity : \E a \in recovered : e.executor = a.executor
           /\ NewReport(advanced).evidence =
                [c \in Condition |-> [episode  |-> advanced[c].episode,
                                      delivery |-> advanced[c].delivery]]
<1>1. NewReport(advanced).activity =
        {[message |-> a.message, executor |-> a.executor,
          action |-> "recovered", result |-> "interrupted"] : a \in recovered}
  BY DEF NewReport
<1>2. NewReport(advanced).exit = IF recovered # {} THEN 4 ELSE 0
  BY DEF NewReport
<1>3. Unconfirmed(NewReport(advanced).activity) <=> recovered # {}
  <2>1. ASSUME NEW a \in recovered PROVE Unconfirmed(NewReport(advanced).activity)
    <3> DEFINE e == [message |-> a.message, executor |-> a.executor,
                     action |-> "recovered", result |-> "interrupted"]
    <3>1. e \in NewReport(advanced).activity
      BY <1>1
    <3>2. e.result \notin {"delivered", "in_flight"}
      OBVIOUS
    <3> HIDE DEF e
    <3> QED
      BY <3>1, <3>2 DEF Unconfirmed
  <2>2. ASSUME Unconfirmed(NewReport(advanced).activity) PROVE recovered # {}
    BY <1>1, <2>2 DEF Unconfirmed
  <2> QED
    BY <2>1, <2>2
<1>4. \A e \in NewReport(advanced).activity : \E a \in recovered : e.executor = a.executor
  BY <1>1
<1> QED
  BY <1>2, <1>3, <1>4 DEF NewReport

(* While it delivers, a check knows its exit code and its attempts.        *)
LEMMA KnowsStep == IInv /\ ReportInv /\ [Next]_vars => CheckKnowsItsReport'
<1> SUFFICES ASSUME IInv, ReportInv, [Next]_vars PROVE CheckKnowsItsReport'
  OBVIOUS
<1> USE DEF database, process, history
<1>0. /\ TypeOK /\ AttemptOfCheck /\ RunsAreNumbered /\ AtMostOneInFlight
      /\ ExitMatchesActivity /\ CheckKnowsItsReport
      /\ last \in Nat /\ \A a \in recovered : a.executor \in Nat
  BY MaxRunsAssumption DEF IInv, ReportInv, TypeOK, Run
<1>1. ASSUME pc' \notin {"observing", "committed", "delivering", "sending", "sent"}
      PROVE  CheckKnowsItsReport'
  BY <1>1 DEF CheckKnowsItsReport
<1>2. CASE StartCheck \/ RecoverAttempt \/ Finish \/ EndEarly
  BY <1>1, <1>2 DEF StartCheck, RecoverAttempt, Finish, EndEarly, Exits
<1>3. CASE RecoverDone
  BY <1>3 DEF RecoverDone, CheckKnowsItsReport
<1>4. CASE CommitRun
  <2>1. PICK ev, suppress, alerts, resolutions, new, rows :
          /\ Committed(ev, suppress, alerts, resolutions, new, rows)
          /\ Reported(suppress, rows)
    BY <1>0, <1>4, CommitReports
  <2>2. /\ last' = last + 1 /\ pc' \in {"committed", "finishing"}
        /\ runs'[last'] = NewReport(latch')
    BY <2>1 DEF Committed, Reported
  <2>3. ASSUME NEW e \in NewReport(latch').activity PROVE e.executor # last'
    <3>1. PICK a \in recovered : e.executor = a.executor
      BY <2>3, NewReportFacts
    <3> QED
      BY <1>0, <2>2, <3>1 DEF RunsAreNumbered
  <2> QED
    BY <2>2, <2>3 DEF CheckKnowsItsReport
<1>5. CASE BeginAttempt
  <2>1. /\ pc = "delivering" /\ pc' = "sending" /\ last' = last /\ failed' = failed
        /\ runs'[last].exit = runs[last].exit
        /\ runs'[last].activity =
             Noted(runs[last].activity,
                   [message |-> sending', executor |-> last,
                    action |-> "attempt", result |-> "in_flight"])
    BY <1>0, <1>5, BeginReports
  <2>2. failed <=> runs[last].exit = 4
    BY <1>0, <2>1 DEF ExitMatchesActivity
  <2>3. ASSUME NEW e \in runs'[last].activity, e.executor = last
        PROVE  e.result = "delivered" \/ (e.message = sending' /\ e.result = "in_flight")
    BY <1>0, <2>1, <2>3 DEF Noted, CheckKnowsItsReport
  <2> QED
    BY <2>1, <2>2, <2>3 DEF CheckKnowsItsReport
<1>6. CASE RecordAttempt
  <2>1. /\ Record(sending, last, answer) /\ answer \in Result /\ pc = "sent"
        /\ pc' = IF answer = "delivered" THEN "delivering" ELSE "finishing"
    BY <1>0, <1>6 DEF RecordAttempt, TypeOK
  <2>2. CASE answer = "delivered"
    <3>1. /\ last' = last
          /\ runs'[last].activity =
               Noted(runs[last].activity,
                     [message |-> sending, executor |-> last,
                      action |-> "attempt", result |-> answer])
      BY <1>0, <2>1, RecordReports
    <3>2. \A e \in runs'[last].activity : e.executor = last => e.result = "delivered"
      BY <1>0, <2>1, <2>2, <3>1 DEF Noted, CheckKnowsItsReport
    <3> QED
      BY <2>1, <2>2, <3>1, <3>2 DEF CheckKnowsItsReport
  <2> QED
    BY <1>1, <2>1, <2>2
<1>7. CASE ReadPending
  BY <1>0, <1>7 DEF ReadPending, CheckKnowsItsReport
<1>8. CASE Send
  BY <1>0, <1>8 DEF Send, CheckKnowsItsReport
<1>9. CASE Arrive \/ UNCHANGED vars
  BY <1>0, <1>9 DEF Arrive, vars, CheckKnowsItsReport
<1> QED
  BY <1>2, <1>3, <1>4, <1>5, <1>6, <1>7, <1>8, <1>9 DEF Next

(* Stored exit codes follow the stored activities.                         *)
LEMMA ExitStep == IInv /\ ReportInv /\ [Next]_vars => ExitMatchesActivity'
<1> SUFFICES ASSUME IInv, ReportInv, [Next]_vars PROVE ExitMatchesActivity'
  OBVIOUS
<1> USE DEF database, process, history
<1>0. /\ TypeOK /\ AttemptOfCheck /\ RunsAreNumbered /\ AtMostOneInFlight
      /\ InFlightIsRecoverable /\ ExitMatchesActivity /\ CheckKnowsItsReport
      /\ last \in Nat
      /\ \A r \in DOMAIN runs : runs[r].exit = 4 <=> Unconfirmed(runs[r].activity)
  BY MaxRunsAssumption DEF IInv, ReportInv, TypeOK, ExitMatchesActivity, Unconfirmed
<1>1. ASSUME \A r \in DOMAIN runs' : runs'[r].exit = 4 <=> Unconfirmed(runs'[r].activity),
             pc' \in {"committed", "delivering", "finishing"} =>
                (failed' <=> runs'[last'].exit = 4)
      PROVE  ExitMatchesActivity'
  BY <1>1 DEF ExitMatchesActivity, Unconfirmed
<1>2. CASE StartCheck \/ RecoverDone \/ Send \/ ReadPending \/ Arrive \/ EndEarly \/ UNCHANGED vars
  <2>1. runs' = runs
    BY <1>2 DEF StartCheck, RecoverDone, Send, ReadPending, Arrive, EndEarly, vars
  <2>2. pc' \in {"committed", "delivering", "finishing"} =>
          /\ pc \in {"committed", "delivering", "finishing"}
          /\ failed' = failed /\ last' = last
    BY <1>2 DEF StartCheck, RecoverDone, Send, ReadPending, Arrive, EndEarly, Exits, vars
  <2> QED
    BY <1>0, <1>1, <2>1, <2>2 DEF ExitMatchesActivity
<1>3. CASE RecoverAttempt
  <2>1. PICK m \in InFlight : Record(m, outbox[m].executor, "interrupted")
    BY <1>3 DEF RecoverAttempt
  <2>0. PICK x, result : /\ result \in Result /\ result = "interrupted"
                         /\ Record(m, x, result)
    <3>1. "interrupted" \in Result
      BY DEF Result
    <3> QED
      BY <2>1, <3>1, Zenon
  <2> DEFINE entry == [message |-> m, executor |-> x,
                       action |-> "attempt", result |-> result]
  <2>2. /\ DOMAIN runs' = DOMAIN runs
        /\ \A r \in DOMAIN runs : /\ runs'[r].exit = IF r = x THEN 4 ELSE runs[r].exit
                                  /\ r # x => runs'[r].activity = runs[r].activity
        /\ runs'[x].activity = Noted(runs[x].activity, entry)
    BY <1>0, <2>0, RecordReports
  <2>3. entry.result \notin {"delivered", "in_flight"}
    BY <2>0
  <2> HIDE DEF entry
  <2>5. Unconfirmed(runs'[x].activity)
    BY <2>2, <2>3, NotedShows
  <2>4. pc' = "recovering"
    BY <1>3 DEF RecoverAttempt
  <2> QED
    BY <1>0, <1>1, <2>2, <2>4, <2>5
<1>4. CASE CommitRun
  <2>1. PICK ev, suppress, alerts, resolutions, new, rows :
          /\ Committed(ev, suppress, alerts, resolutions, new, rows)
          /\ Reported(suppress, rows)
    BY <1>0, <1>4, CommitReports
  <2>2. /\ last' = last + 1 /\ failed' = failed /\ pc = "observing"
        /\ DOMAIN runs' \subseteq DOMAIN runs \cup {last + 1}
        /\ runs'[last + 1] = NewReport(latch')
        /\ \A r \in DOMAIN runs' : r # last + 1 => runs'[r] = runs[r]
    BY <2>1 DEF Committed, Reported
  <2>3. /\ runs'[last + 1].exit = 4 <=> recovered # {}
        /\ Unconfirmed(runs'[last + 1].activity) <=> recovered # {}
    <3>1. /\ NewReport(latch').exit = 4 <=> recovered # {}
          /\ Unconfirmed(NewReport(latch').activity) <=> recovered # {}
      BY NewReportFacts
    <3> QED
      BY ONLY <2>2, <3>1
  <2>4. failed <=> recovered # {}
    BY <1>0, <2>2 DEF CheckKnowsItsReport
  <2> QED
    BY <1>0, <1>1, <2>2, <2>3, <2>4
<1>5. CASE BeginAttempt
  <2>1. /\ pc = "delivering" /\ pc' = "sending" /\ DOMAIN runs' = DOMAIN runs
        /\ \A r \in DOMAIN runs : /\ runs'[r].exit = runs[r].exit
                                  /\ r # last => runs'[r].activity = runs[r].activity
        /\ runs'[last].activity =
             Noted(runs[last].activity,
                   [message |-> sending', executor |-> last,
                    action |-> "attempt", result |-> "in_flight"])
    BY <1>0, <1>5, BeginReports
  <2>2. Unconfirmed(runs'[last].activity) <=> Unconfirmed(runs[last].activity)
    BY <1>0, <2>1 DEF Noted, Unconfirmed, CheckKnowsItsReport
  <2> QED
    BY <1>0, <1>1, <2>1, <2>2
<1>6. CASE RecordAttempt
  <2>1. /\ Record(sending, last, answer) /\ answer \in Result /\ pc = "sent"
        /\ failed' = (failed \/ answer # "delivered")
    BY <1>0, <1>6 DEF RecordAttempt, TypeOK
  <2>2. answer # "in_flight"
    BY <2>1 DEF Result
  <2> DEFINE entry == [message |-> sending, executor |-> last,
                       action |-> "attempt", result |-> answer]
  <2>3. /\ DOMAIN runs' = DOMAIN runs /\ last' = last /\ last \in DOMAIN runs
        /\ \A r \in DOMAIN runs :
             /\ runs'[r].exit = IF r = last /\ answer # "delivered" THEN 4 ELSE runs[r].exit
             /\ r # last => runs'[r].activity = runs[r].activity
        /\ runs'[last].activity = Noted(runs[last].activity, entry)
    BY <1>0, <2>1, RecordReports
  <2>4. failed <=> runs[last].exit = 4
    BY <1>0, <2>1 DEF CheckKnowsItsReport
  <2>5. CASE answer = "delivered"
    <3>1. Unconfirmed(runs'[last].activity) <=> Unconfirmed(runs[last].activity)
      BY <1>0, <2>1, <2>3, <2>5 DEF Noted, Unconfirmed, CheckKnowsItsReport
    <3> QED
      BY <1>0, <1>1, <2>1, <2>3, <2>4, <2>5, <3>1
  <2>6. CASE answer # "delivered"
    <3>1. entry.result \notin {"delivered", "in_flight"}
      BY <2>2, <2>6
    <3> HIDE DEF entry
    <3>2. Unconfirmed(runs'[last].activity)
      BY <2>3, <3>1, NotedShows
    <3> QED
      BY <1>0, <1>1, <2>1, <2>3, <2>6, <3>2
  <2> QED
    BY <2>5, <2>6
<1>7. CASE Finish
  <2>1. /\ DOMAIN runs' = DOMAIN runs /\ pc' = "idle"
        /\ \A r \in DOMAIN runs : /\ runs'[r].exit = runs[r].exit
                                  /\ runs'[r].activity = runs[r].activity
    BY <1>0, <1>7 DEF Finish, Exits, TypeOK, Report
  <2> QED
    BY <1>0, <1>1, <2>1
<1> QED
  BY <1>2, <1>3, <1>4, <1>5, <1>6, <1>7 DEF Next

-----------------------------------------------------------------------------
(* What the messages tell, and which of them stay.                         *)

(* A decided message keeps its status, in every step; it may be pruned, but *)
(* not if it failed or is unknown.                                         *)
LEMMA DecidedStep ==
    ASSUME IInv, [Next]_vars, NEW m \in DOMAIN outbox, outbox[m].status \notin LiveStatus
    PROVE  \/ m \in DOMAIN outbox' /\ outbox'[m].status = outbox[m].status
           \/ m \notin DOMAIN outbox' /\ outbox[m].status \notin {"failed", "unknown"}
<1>0. TypeOK /\ OutboxBacksLatches
  BY DEF IInv
<1>1. CASE Quiet \/ Shows
  BY <1>1 DEF Quiet, Shows
<1>2. CASE Records
  <2>1. PICK n, executor : \E result \in Result : Record(n, executor, result)
    BY <1>2 DEF Records
  <2>2. PICK result \in Result : Record(n, executor, result)
    BY <2>1
  <2>3. n \in Live
    BY <1>0, <2>2, RecordFacts
  <2>4. m # n
    BY <2>3 DEF Live
  <2> QED
    BY <1>0, <2>2, <2>4, RecordFacts
<1>3. CASE Begins
  <2>1. PICK n \in Unsent :
          outbox' = [outbox EXCEPT ![n] = [status |-> "in_flight", executor |-> last]]
    BY <1>3 DEF Begins
  <2>2. m # n
    BY DEF Unsent, LiveStatus
  <2> QED
    BY <2>1, <2>2
<1>4. CASE Commits
  <2>1. PICK ev, suppress, alerts, resolutions, new, rows :
          Committed(ev, suppress, alerts, resolutions, new, rows)
    BY <1>4 DEF Commits
  <2>2. m \notin CancelledBy(ev)
    BY DEF CancelledBy, Unsent, LiveStatus
  <2>3. /\ m \in DOMAIN rows /\ rows[m].status = outbox[m].status
        /\ rows[m].status \in RetainedStatus => m \in DOMAIN outbox'
        /\ m \in DOMAIN outbox' => outbox'[m] = rows[m]
    BY <2>1, <2>2 DEF Committed, CommittedRows
  <2> QED
    BY <2>3 DEF RetainedStatus
<1> QED
  BY <1>1, <1>2, <1>3, <1>4, StepKinds

(* A row that a commit leaves is new, or tells no more than an older row of *)
(* the same run and kind.                                                  *)
LEMMA CommitRow ==
    ASSUME IInv, NEW ev, NEW suppress, NEW alerts, NEW resolutions, NEW new, NEW rows,
           Committed(ev, suppress, alerts, resolutions, new, rows),
           NEW n \in DOMAIN rows
    PROVE  \/ n \in new /\ n.run = last + 1
           \/ \E o \in DOMAIN outbox :
                 o.run = n.run /\ o.kind = n.kind /\ n.members \subseteq o.members
<1>1. n \in DOMAIN outbox \/ n \in Copies(ev) \/ (n \in new /\ n.run = last + 1)
  BY DEF Committed, CommittedRows
<1>2. CASE n \in Copies(ev)
  <2>1. PICK o \in ReplacedBy(ev) : n = Survivor(o, ev)
    BY <1>2 DEF Copies
  <2>2. /\ o \in DOMAIN outbox /\ n.run = o.run /\ n.kind = o.kind
        /\ n.members \subseteq o.members
    BY <2>1, SurvivorFacts DEF IInv
  <2> QED
    BY <2>2
<1> QED
  BY <1>1, <1>2

(* An older row speaks of a condition's episode after a commit only if it    *)
(* did before: the run did not open it.                                    *)
LEMMA OlderMember ==
    ASSUME IInv, NEW ev, NEW suppress, NEW alerts, NEW resolutions, NEW new, NEW rows,
           Committed(ev, suppress, alerts, resolutions, new, rows),
           NEW o \in DOMAIN outbox, NEW p \in o.members, latch'[p[1]].episode = p[2]
    PROVE  /\ p[1] \in Condition
           /\ latch[p[1]].episode = p[2]
           /\ ~OpensEpisode(latch[p[1]], ev[p[1]])
<1>0. TypeOK /\ NothingFromTheFuture /\ last \in Nat
  BY MaxRunsAssumption DEF IInv, TypeOK
<1>1. p[1] \in Condition /\ p[2] \in Nat
  BY <1>0 DEF TypeOK, Message, Member, Run
<1>2. p[2] <= latch[p[1]].episode
  BY <1>0 DEF NothingFromTheFuture
<1>3. /\ latch'[p[1]].episode =
           IF OpensEpisode(latch[p[1]], ev[p[1]]) THEN last + 1 ELSE latch[p[1]].episode
      /\ latch[p[1]].episode <= last
  BY <1>1, CommitLatch
<1>4. latch[p[1]].episode \in Nat
  BY <1>0, <1>1, MaxRunsAssumption DEF TypeOK
<1> QED
  BY <1>0, <1>1, <1>2, <1>3, <1>4

(* The latch makes a transition before any message tells it.               *)
LEMMA RowsStep == IInv /\ ReportInv /\ [Next]_vars => RowsFollowLatches'
<1> SUFFICES ASSUME IInv, ReportInv, [Next]_vars PROVE RowsFollowLatches'
  OBVIOUS
<1>0. /\ TypeOK /\ OutboxBacksLatches /\ RowsFollowLatches
      /\ \A m \in DOMAIN outbox : \A p \in m.members : p[1] \in Condition
  BY DEF IInv, ReportInv, TypeOK, Message, Member
<1>1. CASE Quiet \/ Shows
  BY <1>0, <1>1 DEF Quiet, Shows, RowsFollowLatches
<1>2. CASE Records
  <2>1. PICK m, executor : \E result \in Result : Record(m, executor, result)
    BY <1>2 DEF Records
  <2>2. PICK result \in Result : Record(m, executor, result)
    BY <2>1
  <2>3. /\ DOMAIN outbox' = DOMAIN outbox
        /\ \A c \in Condition : /\ latch'[c].lifecycle = latch[c].lifecycle
                                /\ latch'[c].episode = latch[c].episode
    BY <1>0, <2>2, RecordFacts
  <2> QED
    BY <1>0, <2>3 DEF RowsFollowLatches
<1>3. CASE Begins
  <2>1. DOMAIN outbox' = DOMAIN outbox /\ latch' = latch
    BY <1>3 DEF Begins
  <2> QED
    BY <1>0, <2>1 DEF RowsFollowLatches
<1>4. CASE Commits
  <2>1. PICK ev, suppress, alerts, resolutions, new, rows :
          Committed(ev, suppress, alerts, resolutions, new, rows)
    BY <1>4 DEF Commits
  <2>2. ASSUME NEW n \in DOMAIN outbox', NEW p \in n.members, latch'[p[1]].episode = p[2]
        PROVE  /\ latch'[p[1]].lifecycle # "pending"
               /\ n.kind = "resolution" => latch'[p[1]].lifecycle = "clear"
    <3>1. CASE n \in new
      <4>1. /\ p[1] \in Condition
            /\ \/ n.kind = "alert" /\ p[1] \in Alerting(ev)
               \/ n.kind = "resolution" /\ p[1] \in Resolving(ev, suppress)
        BY <2>1, <2>2, <3>1, NewMember
      <4>2. /\ p[1] \in Alerting(ev) => latch'[p[1]].lifecycle = "firing"
            /\ p[1] \in Resolving(ev, suppress) => latch'[p[1]].lifecycle = "clear"
        BY <2>1, <4>1, CommitLatch
      <4> QED
        BY <4>1, <4>2
    <3>2. CASE \E o \in DOMAIN outbox : o.kind = n.kind /\ n.members \subseteq o.members
      <4>1. PICK o \in DOMAIN outbox : o.kind = n.kind /\ n.members \subseteq o.members
        BY <3>2
      <4>2. /\ p \in o.members /\ p[1] \in Condition /\ latch[p[1]].episode = p[2]
            /\ ~OpensEpisode(latch[p[1]], ev[p[1]])
        BY <2>1, <2>2, <4>1, OlderMember
      <4>3. /\ latch[p[1]].lifecycle # "pending"
            /\ o.kind = "resolution" => latch[p[1]].lifecycle = "clear"
        BY <1>0, <4>2 DEF RowsFollowLatches
      <4>4. /\ latch'[p[1]].lifecycle = "pending" => latch[p[1]].lifecycle = "pending"
            /\ latch[p[1]].lifecycle = "clear" => latch'[p[1]].lifecycle = "clear"
        BY <2>1, <4>2, CommitLifecycle
      <4> QED
        BY <4>1, <4>3, <4>4
    <3>3. n \in DOMAIN rows
      BY <2>1 DEF Committed
    <3> QED
      BY <2>1, <3>1, <3>2, <3>3, CommitRow
  <2> QED
    BY <2>2 DEF RowsFollowLatches
<1> QED
  BY <1>1, <1>2, <1>3, <1>4, StepKinds

(* No run tells a transition that another run has told.                    *)
LEMMA NewIsUntold ==
    ASSUME IInv, RowsFollowLatches,
           NEW ev, NEW suppress, NEW alerts, NEW resolutions, NEW new, NEW rows,
           Committed(ev, suppress, alerts, resolutions, new, rows),
           NEW n \in new, NEW o \in DOMAIN outbox, n.kind = o.kind,
           NEW p, p \in n.members, p \in o.members
    PROVE  FALSE
<1>1. /\ p[1] \in Condition
      /\ p[2] = latch'[p[1]].episode
      /\ \/ n.kind = "alert" /\ p[1] \in Alerting(ev)
         \/ n.kind = "resolution" /\ p[1] \in Resolving(ev, suppress)
  BY NewMember
<1>2. latch[p[1]].episode = p[2] /\ ~OpensEpisode(latch[p[1]], ev[p[1]])
  BY <1>1, OlderMember
<1>3. /\ latch[p[1]].lifecycle # "pending"
      /\ o.kind = "resolution" => latch[p[1]].lifecycle = "clear"
  BY <1>2 DEF RowsFollowLatches
<1>4. /\ p[1] \in Alerting(ev) =>
           OpensEpisode(latch[p[1]], ev[p[1]]) \/ latch[p[1]].lifecycle = "pending"
      /\ p[1] \in Resolving(ev, suppress) => latch[p[1]].lifecycle = "firing"
  BY <1>1, CommitLifecycle
<1> QED
  BY <1>1, <1>2, <1>3, <1>4

LEMMA ToldStep == IInv /\ ReportInv /\ [Next]_vars => ToldByOneRun'
<1> SUFFICES ASSUME IInv, ReportInv, [Next]_vars PROVE ToldByOneRun'
  OBVIOUS
<1>0. TypeOK /\ OutboxBacksLatches /\ RowsFollowLatches /\ ToldByOneRun
  BY DEF IInv, ReportInv
<1>1. ASSUME DOMAIN outbox' = DOMAIN outbox PROVE ToldByOneRun'
  BY <1>0, <1>1 DEF ToldByOneRun
<1>2. CASE Quiet \/ Shows \/ Begins
  BY <1>1, <1>2 DEF Quiet, Shows, Begins
<1>3. CASE Records
  <2>1. PICK m, executor : \E result \in Result : Record(m, executor, result)
    BY <1>3 DEF Records
  <2> QED
    BY <1>0, <1>1, <2>1, RecordFacts
<1>4. CASE Commits
  <2>1. PICK ev, suppress, alerts, resolutions, new, rows :
          Committed(ev, suppress, alerts, resolutions, new, rows)
    BY <1>4 DEF Commits
  <2>2. DOMAIN outbox' \subseteq DOMAIN rows
    BY <2>1 DEF Committed
  <2> DEFINE Older(n) == \E o \in DOMAIN outbox :
                            o.run = n.run /\ o.kind = n.kind /\ n.members \subseteq o.members
  <2>3. \A n \in DOMAIN outbox' : (n \in new /\ n.run = last + 1) \/ Older(n)
    BY <2>1, <2>2, CommitRow
  <2>4. ASSUME NEW m, NEW n, m.kind = n.kind, NEW p, p \in m.members, p \in n.members,
               Older(m), Older(n)
        PROVE  m.run = n.run
    BY <1>0, <2>4 DEF ToldByOneRun
  <2>5. ASSUME NEW m \in new, NEW n, m.kind = n.kind,
               NEW p, p \in m.members, p \in n.members, Older(n)
        PROVE  FALSE
    <3>1. PICK o \in DOMAIN outbox : o.kind = m.kind /\ p \in o.members
      BY <2>5
    <3> QED
      BY <1>0, <2>1, <2>5, <3>1, NewIsUntold
  <2> HIDE DEF Older
  <2> QED
    BY <2>3, <2>4, <2>5 DEF ToldByOneRun
<1> QED
  BY <1>2, <1>3, <1>4, StepKinds

-----------------------------------------------------------------------------
(* What latches and reports claim.                                         *)

\* The outcome d of the episode e of c was recorded.
Grounded(c, e, d) ==
    /\ d = "delivered" => <<c, e, "alert">> \in confirmed
    /\ d = "resolved" => <<c, e, "resolution">> \in confirmed
    /\ d \in {"failed", "unknown"} =>
         \E m \in DOMAIN outbox : outbox[m].status = d /\ <<c, e>> \in m.members

LEMMA ClaimsAreGrounded ==
    ASSUME ClaimsAreTrue
    PROVE  /\ \A c \in Condition : Grounded(c, latch[c].episode, latch[c].delivery)
           /\ \A r \in DOMAIN runs : \A c \in Condition :
                Grounded(c, runs[r].evidence[c].episode, runs[r].evidence[c].delivery)
<1>1. ASSUME NEW c, NEW e, NEW d, <<c, e, d>> \in Claims PROVE Grounded(c, e, d)
  BY <1>1 DEF ClaimsAreTrue, Grounded
<1>2. ASSUME NEW c \in Condition PROVE <<c, latch[c].episode, latch[c].delivery>> \in Claims
  BY DEF Claims
<1>3. ASSUME NEW r \in DOMAIN runs, NEW c \in Condition
      PROVE  <<c, runs[r].evidence[c].episode, runs[r].evidence[c].delivery>> \in Claims
  BY DEF Claims
<1> QED
  BY <1>1, <1>2, <1>3

(* What was recorded stays recorded.                                       *)
LEMMA GroundedStays ==
    ASSUME IInv, [Next]_vars, NEW c, NEW e, NEW d, Grounded(c, e, d)
    PROVE  Grounded(c, e, d)'
<1>1. confirmed \subseteq confirmed'
  BY StepKinds DEF Quiet, Records, Record, Shows, Commits, Begins
<1>2. ASSUME d \in {"failed", "unknown"}
      PROVE  \E m \in DOMAIN outbox' : outbox'[m].status = d /\ <<c, e>> \in m.members
  <2>1. PICK m \in DOMAIN outbox : outbox[m].status = d /\ <<c, e>> \in m.members
    BY <1>2 DEF Grounded
  <2>2. outbox[m].status \notin LiveStatus
    BY <1>2, <2>1 DEF LiveStatus, UnsentStatus
  <2>3. m \in DOMAIN outbox' /\ outbox'[m].status = d
    BY <1>2, <2>1, <2>2, DecidedStep
  <2> QED
    BY <2>1, <2>3
<1> QED
  BY <1>1, <1>2 DEF Grounded

(* A result is on record for the members of its message.                   *)
LEMMA RecordGrounds ==
    ASSUME TypeOK, OutboxBacksLatches,
           NEW m, NEW executor, NEW result \in Result, Record(m, executor, result),
           result # "retryable", NEW c, NEW e, <<c, e>> \in m.members,
           NEW d, d = Reached(m.kind, result)
    PROVE  Grounded(c, e, d)'
<1>1. m \in DOMAIN outbox' /\ outbox'[m].status = RowStatus(result) /\ m.kind \in {"alert", "resolution"}
  BY RecordFacts DEF Live, Message, Kind
<1>2. CASE result = "delivered"
  <2>1. confirmed' = confirmed \cup Notices(m)
    BY <1>2 DEF Record
  <2>2. <<c, e, m.kind>> \in Notices(m)
    BY DEF Notices
  <2>3. d = IF m.kind = "alert" THEN "delivered" ELSE "resolved"
    BY <1>2 DEF Reached
  <2> QED
    BY <1>1, <2>1, <2>2, <2>3 DEF Grounded
<1>3. CASE result # "delivered"
  <2>1. d = RowStatus(result) /\ d \in {"failed", "unknown"}
    BY <1>3 DEF Reached, RowStatus, Result
  <2> QED
    BY <1>1, <2>1 DEF Grounded
<1> QED
  BY <1>2, <1>3

(* A commit claims nothing new: it queues, suppresses or withdraws.        *)
LEMMA CommitDelivery ==
    ASSUME IInv, NEW ev, NEW suppress, NEW alerts, NEW resolutions, NEW new, NEW rows,
           Committed(ev, suppress, alerts, resolutions, new, rows), NEW c \in Condition
    PROVE  \/ latch'[c].delivery \in {"never", "pending", "suppressed"}
           \/ /\ latch'[c].delivery = latch[c].delivery
              /\ latch'[c].episode = latch[c].episode
<1>1. /\ latch'[c] = Advance(latch[c], ev[c], last + 1, suppress)
      /\ suppress \in BOOLEAN
  BY AdvancedType DEF Committed, IInv
<1> QED
  BY <1>1 DEF Advance, AfterActive, AfterClear, Queued, OpensEpisode

(* What the latches claim after a step is on record.                       *)
LEMMA LatchesAreGrounded ==
    ASSUME IInv, ReportInv, [Next]_vars, NEW c \in Condition,
           NEW e, NEW d, latch'[c].episode = e, latch'[c].delivery = d
    PROVE  Grounded(c, e, d)'
<1>0. TypeOK /\ OutboxBacksLatches /\ ClaimsAreTrue
  BY DEF IInv, ReportInv
<1>1. CASE e = latch[c].episode /\ d = latch[c].delivery
  <2>1. Grounded(c, e, d)
    BY <1>0, <1>1, ClaimsAreGrounded
  <2> QED
    BY <2>1, GroundedStays
<1>2. CASE Quiet \/ Shows \/ Begins
  BY <1>1, <1>2 DEF Quiet, Shows, Begins
<1>3. CASE Records
  <2>1. PICK m, executor : \E result \in Result : Record(m, executor, result)
    BY <1>3 DEF Records
  <2>2. PICK result \in Result : Record(m, executor, result)
    BY <2>1
  <2>3. /\ e = latch[c].episode
        /\ d = IF result # "retryable" /\ <<c, latch[c].episode>> \in m.members
               THEN Reached(m.kind, result) ELSE latch[c].delivery
    BY <1>0, <2>2, RecordFacts
  <2>4. CASE result # "retryable" /\ <<c, e>> \in m.members
    BY <1>0, <2>2, <2>3, <2>4, RecordGrounds
  <2> QED
    BY <1>1, <2>3, <2>4
<1>4. CASE Commits
  <2>1. PICK ev, suppress, alerts, resolutions, new, rows :
          Committed(ev, suppress, alerts, resolutions, new, rows)
    BY <1>4 DEF Commits
  <2>2. CASE d \in {"never", "pending", "suppressed"}
    BY <2>2 DEF Grounded
  <2> QED
    BY <1>1, <2>1, <2>2, CommitDelivery
<1> QED
  BY <1>2, <1>3, <1>4, StepKinds

(* What the stored reports claim after a step is on record.                *)
LEMMA ReportsAreGrounded ==
    ASSUME IInv, ReportInv, [Next]_vars, NEW r \in DOMAIN runs', NEW c \in Condition,
           NEW e, NEW d, runs'[r].evidence[c].episode = e, runs'[r].evidence[c].delivery = d
    PROVE  Grounded(c, e, d)'
<1> USE DEF database, process, history
<1>0. TypeOK /\ OutboxBacksLatches /\ ClaimsAreTrue /\ RunsAreNumbered
  BY DEF IInv, ReportInv
<1>1. CASE /\ r \in DOMAIN runs
           /\ e = runs[r].evidence[c].episode /\ d = runs[r].evidence[c].delivery
  <2>1. Grounded(c, e, d)
    BY <1>0, <1>1, ClaimsAreGrounded
  <2> QED
    BY <2>1, GroundedStays
<1>2. CASE latch'[c].episode = e /\ latch'[c].delivery = d
  BY <1>2, LatchesAreGrounded
<1>3. CASE StartCheck \/ RecoverDone \/ ReadPending \/ Send \/ Arrive \/ EndEarly \/ UNCHANGED vars
  <2>1. runs' = runs
    BY <1>3 DEF StartCheck, RecoverDone, ReadPending, Send, Arrive, EndEarly, vars
  <2> QED
    BY <1>1, <2>1
<1>4. ASSUME NEW m, NEW executor, NEW result \in Result, Record(m, executor, result)
      PROVE  Grounded(c, e, d)'
  <2>1. /\ r \in DOMAIN runs
        /\ r # m.run => runs'[r].evidence = runs[r].evidence
        /\ r = m.run => runs'[r].evidence = EvidenceAfter(m, result, runs[r].evidence)
    <3>1. /\ DOMAIN runs' = DOMAIN runs
          /\ \A q \in DOMAIN runs : q # m.run => runs'[q].evidence = runs[q].evidence
          /\ m.run \in DOMAIN runs =>
               runs'[m.run].evidence = EvidenceAfter(m, result, runs[m.run].evidence)
      BY <1>0, <1>4, RecordReports
    <3> QED
      BY <3>1
  <2>2. CASE r # m.run
    BY <1>1, <2>1, <2>2
  <2>3. CASE r = m.run
    <3> DEFINE old == runs[r].evidence[c]
    <3>1. old \in Evidence
      BY <1>0, <2>1 DEF TypeOK, Report
    <3>2. runs'[r].evidence[c] =
            IF result # "retryable" /\ <<c, old.episode>> \in m.members
            THEN [old EXCEPT !.delivery = Reached(m.kind, result)] ELSE old
      BY <2>1, <2>3 DEF EvidenceAfter
    <3>3. CASE result # "retryable" /\ <<c, old.episode>> \in m.members
      <4>1. e = old.episode /\ d = Reached(m.kind, result)
        BY <3>1, <3>2, <3>3 DEF Evidence
      <4> QED
        BY <1>0, <1>4, <3>3, <4>1, RecordGrounds
    <3>4. CASE ~(result # "retryable" /\ <<c, old.episode>> \in m.members)
      BY <1>1, <2>1, <3>2, <3>4
    <3> QED
      BY <3>3, <3>4
  <2> QED
    BY <2>2, <2>3
<1>5. CASE RecoverAttempt
  BY <1>4, <1>5 DEF RecoverAttempt, Result
<1>6. CASE RecordAttempt
  BY <1>0, <1>4, <1>6 DEF RecordAttempt, TypeOK
<1>7. CASE CommitRun
  <2>1. PICK ev, suppress, alerts, resolutions, new, rows :
          /\ Committed(ev, suppress, alerts, resolutions, new, rows)
          /\ Reported(suppress, rows)
    BY <1>0, <1>7, CommitReports
  <2>2. CASE r = last + 1
    <3>1. runs'[r].evidence[c] = [episode |-> latch'[c].episode, delivery |-> latch'[c].delivery]
      <4>1. NewReport(latch').evidence =
              [b \in Condition |-> [episode  |-> latch'[b].episode,
                                    delivery |-> latch'[b].delivery]]
        BY NewReportFacts
      <4>2. runs'[r] = NewReport(latch')
        BY <2>1, <2>2 DEF Reported
      <4> QED
        BY <4>1, <4>2
    <3> QED
      BY <1>2, <3>1
  <2>3. CASE r # last + 1
    BY <1>1, <2>1, <2>3 DEF Reported
  <2> QED
    BY <2>2, <2>3
<1>8. CASE BeginAttempt
  <2>1. r \in DOMAIN runs /\ runs'[r].evidence = runs[r].evidence
    BY <1>0, <1>8, BeginReports
  <2> QED
    BY <1>1, <2>1
<1>9. CASE Finish
  <2>1. /\ last \in DOMAIN runs /\ latch' = latch
        /\ runs' = [runs EXCEPT ![last].evidence =
             [b \in Condition |->
                IF @[b].episode = latch[b].episode /\ latch[b].episode # 0
                THEN [@[b] EXCEPT !.delivery = latch[b].delivery]
                ELSE @[b]]]
    BY <1>9 DEF Finish
  <2>2. r \in DOMAIN runs /\ runs[r] \in Report
    BY <1>0, <2>1 DEF TypeOK
  <2>3. CASE r # last
    BY <1>1, <2>1, <2>2, <2>3
  <2>4. CASE r = last
    <3> DEFINE old == runs[r].evidence[c]
    <3>1. runs'[r].evidence[c] =
            IF old.episode = latch[c].episode /\ latch[c].episode # 0
            THEN [old EXCEPT !.delivery = latch[c].delivery] ELSE old
      BY <2>1, <2>2, <2>4 DEF Report
    <3>2. old \in Evidence
      BY <2>2 DEF Report
    <3>3. CASE old.episode = latch[c].episode /\ latch[c].episode # 0
      BY <1>2, <2>1, <3>1, <3>2, <3>3 DEF Evidence
    <3>4. CASE ~(old.episode = latch[c].episode /\ latch[c].episode # 0)
      BY <1>1, <2>2, <3>1, <3>4
    <3> QED
      BY <3>3, <3>4
  <2> QED
    BY <2>3, <2>4
<1> QED
  BY <1>3, <1>5, <1>6, <1>7, <1>8, <1>9 DEF Next

(* No latch and no report comes to claim what was not recorded.            *)
LEMMA ClaimsStep == IInv /\ ReportInv /\ [Next]_vars => ClaimsAreTrue'
<1> SUFFICES ASSUME IInv, ReportInv, [Next]_vars PROVE ClaimsAreTrue'
  OBVIOUS
<1>1. ASSUME NEW claim \in Claims'
      PROVE  \E c, e, d : claim = <<c, e, d>> /\ Grounded(c, e, d)'
  <2>1. CASE \E c \in Condition : claim = <<c, latch'[c].episode, latch'[c].delivery>>
    BY <2>1, LatchesAreGrounded
  <2>2. CASE \E r \in DOMAIN runs' : \E c \in Condition :
               claim = <<c, runs'[r].evidence[c].episode, runs'[r].evidence[c].delivery>>
    BY <2>2, ReportsAreGrounded
  <2> QED
    BY <2>1, <2>2 DEF Claims
<1>2. ASSUME NEW claim \in Claims'
      PROVE  /\ claim[3] = "delivered" => <<claim[1], claim[2], "alert">> \in confirmed'
             /\ claim[3] = "resolved" => <<claim[1], claim[2], "resolution">> \in confirmed'
             /\ claim[3] \in {"failed", "unknown"} =>
                  \E m \in DOMAIN outbox' :
                     outbox'[m].status = claim[3] /\ <<claim[1], claim[2]>> \in m.members
  <2>1. PICK c, e, d : claim = <<c, e, d>> /\ Grounded(c, e, d)'
    BY <1>1
  <2>2. claim[1] = c /\ claim[2] = e /\ claim[3] = d
    BY <2>1
  <2> QED
    BY <2>1, <2>2 DEF Grounded
<1> QED
  BY <1>2 DEF ClaimsAreTrue

-----------------------------------------------------------------------------
(* What a stored report loads as.                                          *)

(* A kept run keeps its messages, and they keep telling the same.          *)
LEMMA RunKeepsItsRows ==
    ASSUME IInv, ReportInv, [Next]_vars,
           NEW r \in DOMAIN runs, r \in DOMAIN runs', NEW m \in RowsOf(r)
    PROVE  m \in RowsOf(r)'
<1>0. TypeOK /\ OutboxBacksLatches /\ RunsAreNumbered
  BY DEF IInv, ReportInv
<1> USE DEF database, process, history
<1>1. ASSUME DOMAIN outbox' = DOMAIN outbox PROVE m \in RowsOf(r)'
  BY <1>1 DEF RowsOf
<1>2. CASE CommitRun
  <2>1. PICK ev, suppress, alerts, resolutions, new, rows :
          /\ Committed(ev, suppress, alerts, resolutions, new, rows)
          /\ Reported(suppress, rows)
    BY <1>0, <1>2, CommitReports
  <2>2. m \in DOMAIN rows /\ m.run = r
    BY <2>1 DEF Committed, CommittedRows, RowsOf
  <2> QED
    BY <2>1, <2>2 DEF Reported, RowsOf
<1>3. ASSUME NEW n, NEW executor, NEW result \in Result, Record(n, executor, result)
      PROVE  m \in RowsOf(r)'
  <2>1. DOMAIN outbox' = DOMAIN outbox
    BY <1>0, <1>3, RecordFacts
  <2> QED
    BY <1>1, <2>1
<1>4. CASE RecoverAttempt
  BY <1>3, <1>4 DEF RecoverAttempt, Result
<1>5. CASE RecordAttempt
  BY <1>0, <1>3, <1>5 DEF RecordAttempt, TypeOK
<1>6. CASE BeginAttempt
  BY <1>0, <1>1, <1>6, BeginReports
<1>7. CASE StartCheck \/ RecoverDone \/ ReadPending \/ Send \/ Arrive \/ Finish
           \/ EndEarly \/ UNCHANGED vars
  BY <1>1, <1>7 DEF StartCheck, RecoverDone, ReadPending, Send, Arrive, Finish, EndEarly, vars
<1> QED
  BY <1>2, <1>4, <1>5, <1>6, <1>7 DEF Next

(* Whatever joins them tells nothing new: it is a replacement.             *)
LEMMA RunTellsNothingNew ==
    ASSUME IInv, ReportInv, [Next]_vars,
           NEW r \in DOMAIN runs, NEW n \in RowsOf(r)'
    PROVE  \E o \in RowsOf(r) : o.kind = n.kind /\ n.members \subseteq o.members
<1>0. TypeOK /\ OutboxBacksLatches /\ RunsAreNumbered /\ last \in Nat /\ r \in Nat
  BY MaxRunsAssumption DEF IInv, ReportInv, TypeOK, Run
<1>1. n \in DOMAIN outbox' /\ n.run = r
  BY DEF RowsOf
<1>2. CASE n \in DOMAIN outbox
  BY <1>1, <1>2 DEF RowsOf
<1>3. CASE Quiet \/ Shows \/ Begins
  BY <1>1, <1>2, <1>3 DEF Quiet, Shows, Begins
<1>4. CASE Records
  <2>1. PICK m, executor : \E result \in Result : Record(m, executor, result)
    BY <1>4 DEF Records
  <2> QED
    BY <1>0, <1>1, <1>2, <2>1, RecordFacts
<1>5. CASE Commits
  <2>1. PICK ev, suppress, alerts, resolutions, new, rows :
          Committed(ev, suppress, alerts, resolutions, new, rows)
    BY <1>5 DEF Commits
  <2>2. n \in DOMAIN rows
    BY <1>1, <2>1 DEF Committed
  <2>3. n.run # last + 1
    BY <1>0, <1>1 DEF RunsAreNumbered
  <2>4. PICK o \in DOMAIN outbox : o.run = n.run /\ o.kind = n.kind /\ n.members \subseteq o.members
    BY <2>1, <2>2, <2>3, CommitRow
  <2> QED
    BY <1>1, <2>4 DEF RowsOf
<1> QED
  BY <1>3, <1>4, <1>5, StepKinds

(* An exit that failed for a delivery stays failed.                        *)
LEMMA ExitStays ==
    ASSUME IInv, ReportInv, [Next]_vars,
           NEW r \in DOMAIN runs, r \in DOMAIN runs', runs[r].exit = 4
    PROVE  runs'[r].exit = 4
<1> USE DEF database, process, history
<1>0. TypeOK /\ RunsAreNumbered /\ last \in Nat /\ r \in Nat
  BY MaxRunsAssumption DEF IInv, ReportInv, TypeOK, Run
<1>1. CASE StartCheck \/ RecoverDone \/ ReadPending \/ Send \/ Arrive \/ EndEarly \/ UNCHANGED vars
  BY <1>1 DEF StartCheck, RecoverDone, ReadPending, Send, Arrive, EndEarly, vars
<1>2. ASSUME NEW m, NEW executor, NEW result \in Result, Record(m, executor, result)
      PROVE  runs'[r].exit = 4
  <2>1. runs'[r].exit = IF r = executor /\ result # "delivered" THEN 4 ELSE runs[r].exit
    BY <1>2 DEF Record, RunsAfter
  <2> QED
    BY <2>1
<1>3. CASE RecoverAttempt
  BY <1>2, <1>3 DEF RecoverAttempt, Result
<1>4. CASE RecordAttempt
  BY <1>0, <1>2, <1>4 DEF RecordAttempt, TypeOK
<1>5. CASE CommitRun
  <2>1. PICK ev, suppress, alerts, resolutions, new, rows :
          /\ Committed(ev, suppress, alerts, resolutions, new, rows)
          /\ Reported(suppress, rows)
    BY <1>0, <1>5, CommitReports
  <2>2. r # last + 1
    BY <1>0 DEF RunsAreNumbered
  <2> QED
    BY <2>1, <2>2 DEF Reported
<1>6. CASE BeginAttempt
  BY <1>0, <1>6, BeginReports
<1>7. CASE Finish
  BY <1>0, <1>7 DEF Finish, TypeOK, Report
<1> QED
  BY <1>1, <1>3, <1>4, <1>5, <1>6, <1>7 DEF Next

\* What ReportsKeepTheirHistory says of one step.
HistoryKept ==
    LET before == LoadedReports(1)
        after == LoadedReports(1)'
    IN  \A r \in DOMAIN before \cap DOMAIN after :
          /\ after[r].transitions = before[r].transitions
          /\ DOMAIN before[r].notifications \subseteq DOMAIN after[r].notifications
          /\ before[r].exit = 4 => after[r].exit = 4

LEMMA HistoryStep == IInv /\ ReportInv /\ [Next]_vars => HistoryKept
<1> SUFFICES ASSUME IInv, ReportInv, [Next]_vars PROVE HistoryKept
  OBVIOUS
<1>1. ASSUME NEW r \in DOMAIN runs, r \in DOMAIN runs'
      PROVE  /\ RowsOf(r) \subseteq RowsOf(r)'
             /\ Transitions(r)' = Transitions(r)
             /\ runs[r].exit = 4 => runs'[r].exit = 4
  <2>1. RowsOf(r) \subseteq RowsOf(r)'
    BY <1>1, RunKeepsItsRows
  <2>2. ASSUME NEW t \in Transitions(r) PROVE t \in Transitions(r)'
    <3>1. PICK m \in RowsOf(r) : t \in {<<m.kind, p[1]>> : p \in m.members}
      BY <2>2 DEF Transitions
    <3>2. m \in RowsOf(r)'
      BY <2>1, <3>1
    <3> QED
      BY <3>1, <3>2 DEF Transitions
  <2>3. ASSUME NEW t \in Transitions(r)' PROVE t \in Transitions(r)
    <3>1. PICK n \in RowsOf(r)' : t \in {<<n.kind, p[1]>> : p \in n.members}
      BY <2>3 DEF Transitions
    <3>2. PICK o \in RowsOf(r) : o.kind = n.kind /\ n.members \subseteq o.members
      BY RunTellsNothingNew
    <3>3. t \in {<<o.kind, p[1]>> : p \in o.members}
      BY <3>1, <3>2
    <3> QED
      BY <3>2, <3>3 DEF Transitions
  <2> QED
    BY <1>1, <2>1, <2>2, <2>3, ExitStays
<1> QED
  BY <1>1 DEF HistoryKept, LoadedReports, LoadedReport, Notifications

-----------------------------------------------------------------------------
(* The theorems.                                                           *)

LEMMA InitReports == Init => ReportInv
<1> SUFFICES ASSUME Init PROVE ReportInv
  OBVIOUS
<1>1. /\ DOMAIN outbox = {} /\ DOMAIN runs = {} /\ recovered = {} /\ pc = "idle"
      /\ \A c \in Condition : latch[c] = NewCondition
  BY DEF Init
<1>2. InFlight = {}
  BY <1>1 DEF InFlight
<1>3. ASSUME NEW claim \in Claims PROVE claim[3] = "never"
  <2>1. PICK c \in Condition : claim = <<c, latch[c].episode, latch[c].delivery>>
    BY <1>1 DEF Claims
  <2> QED
    BY <1>1, <2>1 DEF NewCondition
<1>4. ClaimsAreTrue
  BY <1>3 DEF ClaimsAreTrue
<1> QED
  BY <1>1, <1>2, <1>4 DEF ReportInv, ToldByOneRun, InFlightIsRecoverable, ExitMatchesActivity,
     RowsFollowLatches, RunsAreNumbered, AtMostOneInFlight, CheckKnowsItsReport

LEMMA ReportStep == IInv /\ ReportInv /\ [Next]_vars => ReportInv'
BY ToldStep, RecoverableStep, ExitStep, ClaimsStep, RowsStep, NumberedStep, FlightStep, KnowsStep
   DEF ReportInv

(* The second invariant holds along with the first.                        *)
THEOREM ReportInvariant == Spec => [](IInv /\ ReportInv)
<1>1. Init => IInv /\ ReportInv
  BY InitInv, InitReports
<1>2. IInv /\ ReportInv /\ [Next]_vars => (IInv /\ ReportInv)'
  BY InvStep, ReportStep
<1> QED
  BY <1>1, <1>2, PTL DEF Spec

(* Recovery always finds the attempt in flight, its run and its entry.     *)
THEOREM RecoveryFindsItsAttempt == Spec => []InFlightIsRecoverable
<1>1. ReportInv => InFlightIsRecoverable
  BY DEF ReportInv
<1> QED
  BY <1>1, ReportInvariant, PTL

(* Stored exit codes, the one a check is about to return and the activity   *)
(* of the reports agree.                                                   *)
THEOREM ExitsFollowActivities == Spec => []ExitMatchesActivity
<1>1. ReportInv => ExitMatchesActivity
  BY DEF ReportInv
<1> QED
  BY <1>1, ReportInvariant, PTL

(* No latch and no stored report claims an outcome that was not recorded.  *)
THEOREM NothingFalseIsClaimed == Spec => []ClaimsAreTrue
<1>1. ReportInv => ClaimsAreTrue
  BY DEF ReportInv
<1> QED
  BY <1>1, ReportInvariant, PTL

(* A transition is told by the reports of one run only.                    *)
THEOREM OneRunTells == Spec => []ToldByOneRun
<1>1. ReportInv => ToldByOneRun
  BY DEF ReportInv
<1> QED
  BY <1>1, ReportInvariant, PTL

(* Decided messages keep their status, and evidence of a delivery that      *)
(* failed or may have failed is never pruned.                              *)
THEOREM DecisionsAreKept == Spec => DecidedStays
<1> DEFINE Kept == \A m \in DOMAIN outbox :
              outbox[m].status \notin LiveStatus =>
                 \/ m \in DOMAIN outbox' /\ outbox'[m].status = outbox[m].status
                 \/ m \notin DOMAIN outbox' /\ outbox[m].status \notin {"failed", "unknown"}
<1>1. IInv /\ [Next]_vars => Kept
  BY DecidedStep
<1>2. IInv /\ [Next]_vars => [Kept]_vars
  BY <1>1
<1> QED
  BY <1>2, Invariant, PTL DEF Spec, DecidedStays

(* Stored reports keep their transitions, their notifications and a failed  *)
(* exit, whatever later runs do to their messages.                         *)
THEOREM HistoryIsKept == Spec => ReportsKeepTheirHistory
<1>1. IInv /\ ReportInv /\ [Next]_vars => [HistoryKept]_vars
  BY HistoryStep
<1> QED
  BY <1>1, ReportInvariant, PTL DEF Spec, ReportsKeepTheirHistory, HistoryKept

-----------------------------------------------------------------------------
(* What a check has read or begun still holds when it comes back to it.     *)

\* While a check delivers, what it read of the outbox is still to be sent.
QueueIsUnsent ==
    /\ pc \in {"delivering", "sending", "sent"} => queue \subseteq Unsent
    /\ pc \in {"sending", "sent"} => sending \notin queue

\* The store accepts the next step of a check, at every point.
NothingIsRefused ==
    /\ pc = "recovering" => \A m \in InFlight : outbox[m].executor \in DOMAIN runs
    /\ pc = "delivering" =>
         last \in DOMAIN runs /\ \A m \in queue : m \in Unsent /\ m.members # {}
    /\ pc \in {"sending", "sent"} =>
         /\ sending \in DOMAIN outbox /\ last \in DOMAIN runs
         /\ outbox[sending].status = "in_flight" /\ outbox[sending].executor = last
    /\ pc = "finishing" => last \in DOMAIN runs

(* Every step keeps the messages that were read unsent, but for its own.    *)
LEMMA QueueStep == IInv /\ ReportInv /\ QueueIsUnsent /\ [Next]_vars => QueueIsUnsent'
<1> SUFFICES ASSUME IInv, ReportInv, QueueIsUnsent, [Next]_vars PROVE QueueIsUnsent'
  OBVIOUS
<1> USE DEF database, process, history
<1>0. TypeOK /\ OutboxBacksLatches /\ AtMostOneInFlight
  BY DEF IInv, ReportInv
<1>1. ASSUME pc' \notin {"delivering", "sending", "sent"} PROVE QueueIsUnsent'
  BY <1>1 DEF QueueIsUnsent
<1>2. CASE StartCheck \/ RecoverAttempt \/ RecoverDone \/ CommitRun \/ Finish \/ EndEarly
  BY <1>1, <1>2 DEF StartCheck, RecoverAttempt, RecoverDone, CommitRun, Finish, EndEarly, Exits
<1>3. CASE ReadPending
  <2>1. queue' \subseteq Unsent /\ pc' = "delivering" /\ outbox' = outbox
    BY <1>3 DEF ReadPending
  <2> QED
    BY <2>1 DEF QueueIsUnsent, Unsent
<1>4. CASE BeginAttempt
  <2>1. /\ pc = "delivering" /\ DOMAIN outbox' = DOMAIN outbox
        /\ \A n \in DOMAIN outbox : n # sending' => outbox'[n] = outbox[n]
    BY <1>0, <1>4, BeginReports
  <2>2. queue' = queue \ {sending'}
    BY <1>4 DEF BeginAttempt
  <2>3. queue \subseteq Unsent
    BY <2>1 DEF QueueIsUnsent
  <2>4. queue' \subseteq Unsent' /\ sending' \notin queue'
    BY <2>1, <2>2, <2>3 DEF Unsent
  <2> QED
    BY <2>4 DEF QueueIsUnsent
<1>5. CASE Send
  <2>1. pc = "sending" /\ pc' = "sent" /\ UNCHANGED <<outbox, queue, sending>>
    BY <1>5 DEF Send
  <2> QED
    BY <2>1 DEF QueueIsUnsent, Unsent
<1>6. CASE Arrive \/ UNCHANGED vars
  <2>1. UNCHANGED <<pc, outbox, queue, sending>>
    BY <1>6 DEF Arrive, vars
  <2> QED
    BY <2>1 DEF QueueIsUnsent, Unsent
<1>7. CASE RecordAttempt
  <2>1. /\ pc = "sent" /\ queue' = queue /\ pc' \in {"delivering", "finishing"}
        /\ Record(sending, last, answer)
    BY <1>7 DEF RecordAttempt
  <2>2. /\ DOMAIN outbox' = DOMAIN outbox
        /\ \A n \in DOMAIN outbox : n # sending => outbox'[n] = outbox[n]
    BY <1>0, <2>1, RecordFacts DEF TypeOK
  <2>3. queue \subseteq Unsent /\ sending \notin queue
    BY <2>1 DEF QueueIsUnsent
  <2>4. queue' \subseteq Unsent'
    BY <2>1, <2>2, <2>3 DEF Unsent
  <2> QED
    BY <2>1, <2>4 DEF QueueIsUnsent
<1> QED
  BY <1>2, <1>3, <1>4, <1>5, <1>6, <1>7 DEF Next

(* The store does not refuse a check for what it finds in the outbox or the  *)
(* runs: recover_interrupted_attempts finds the report of the run that       *)
(* executed the attempt, begin_notification_attempt the message pending or   *)
(* retryable and with members, record_notification_attempt the check's own   *)
(* attempt in flight, and refresh_run_delivery its own run, whatever was     *)
(* withdrawn, replaced, pruned or interrupted since.  (It may still refuse   *)
(* a clock that ran backwards: EndEarly.)                                  *)
THEOREM ChecksAreNotRefused == Spec => []NothingIsRefused
<1>1. Init => QueueIsUnsent
  BY DEF Init, QueueIsUnsent
<1>2. IInv /\ ReportInv /\ QueueIsUnsent => NothingIsRefused
  <2> SUFFICES ASSUME IInv, ReportInv, QueueIsUnsent PROVE NothingIsRefused
    OBVIOUS
  <2>1. \A m \in InFlight : outbox[m].executor \in DOMAIN runs
    BY DEF ReportInv, InFlightIsRecoverable
  <2>2. pc \in {"delivering", "sending", "sent", "finishing"} => last \in DOMAIN runs
    BY DEF ReportInv, RunsAreNumbered
  <2>3. pc = "delivering" => \A m \in queue : m \in Unsent /\ m.members # {}
    BY DEF IInv, Nested, QueueIsUnsent, Unsent
  <2>4. pc \in {"sending", "sent"} => sending \in InFlight /\ outbox[sending].executor = last
    BY DEF IInv, AttemptOfCheck, ReportInv, AtMostOneInFlight
  <2>5. \A m \in InFlight : m \in DOMAIN outbox /\ outbox[m].status = "in_flight"
    BY DEF InFlight
  <2> QED
    BY <2>1, <2>2, <2>3, <2>4, <2>5 DEF NothingIsRefused
<1> QED
  BY <1>1, <1>2, QueueStep, ReportInvariant, PTL DEF Spec

=============================================================================
