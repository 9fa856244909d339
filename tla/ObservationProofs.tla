-------------------------- MODULE ObservationProofs --------------------------
(***************************************************************************)
(* Proofs about Observation, for every set of targets, every concurrency,   *)
(* every required number of complete targets and every length of cooldown.  *)
(***************************************************************************)
EXTENDS Observation, FiniteSetTheorems, TLAPS

-----------------------------------------------------------------------------
(* Facts about reports.                                                    *)

(* Every status a request or a paused target can be given is a status.     *)
LEMMA StatusType ==
    /\ \A k : Failure(k) \subseteq TargetStatus \ {"complete"}
    /\ "complete" \in TargetStatus
    /\ "invalid_response" \in TargetStatus
    /\ "authentication_cooldown" \in TargetStatus
    /\ "none" \notin TargetStatus
BY DEF Failure, TargetStatus

(* The severity of an incomplete target meets every threshold it can be     *)
(* compared with from below: it is at least 1.                              *)
LEMMA SeverityBound ==
    ASSUME NEW status \in TargetStatus, status # "complete"
    PROVE  ApiSeverity(status) \in 1..3
BY DEF ApiSeverity, TargetStatus

(* A run that could fail on warnings and did not has complete targets only. *)
LEMMA NoMatchMeansComplete ==
    ASSUME report \in [Target -> TargetStatus], NEW other, ~FailOnMatch(1, other)
    PROVE  Complete = Target
<1>1. ASSUME NEW t \in Target
      PROVE  report[t] = "complete"
  <2>1. ~(ApiOutcome(report[t]) = "active" /\ ApiSeverity(report[t]) >= 1)
    BY DEF FailOnMatch
  <2>2. report[t] # "complete" => ApiSeverity(report[t]) >= 1
    BY SeverityBound
  <2> QED
    BY <2>1, <2>2 DEF ApiOutcome
<1> QED
  BY <1>1 DEF Complete

(* A second that passes pauses no target that was not paused.              *)
LEMMA TickPauses ==
    ASSUME TypeOK, Tick, NEW t \in Target
    PROVE  /\ retry'[t] \in 0..NoRow
           /\ retry'[t] = NoRow <=> retry[t] = NoRow
           /\ Paused(t)' => Paused(t)
<1>1. retry[t] \in 0..NoRow /\ MaxRetry \in Nat
  BY MaxRetryAssumption DEF TypeOK
<1>2. retry'[t] = IF retry[t] \in 1..MaxRetry THEN retry[t] - 1 ELSE retry[t]
  BY DEF Tick, Paused
<1> QED
  BY <1>1, <1>2 DEF NoRow, Paused

-----------------------------------------------------------------------------
(* The steps.                                                              *)

(* A check that begins finds no request, and asks no paused target.        *)
LEMMA StartCheckStep == IInv /\ StartCheck => IInv'
<1> SUFFICES ASSUME IInv, StartCheck PROVE IInv'
  OBVIOUS
<1>1. /\ TypeOK /\ CooldownRespected /\ RejectionStaysActive
      /\ RecordedWhileRejected /\ RequestsAreOpen
  BY DEF IInv
<1>2. /\ pc = "idle" /\ pc' = "observing"
      /\ report' = [t \in Target |-> IF Skips(t) THEN "authentication_cooldown" ELSE "none"]
      /\ UNCHANGED <<retry, request, exit, failOn, served, rejected>>
  BY DEF StartCheck
<1>3. TypeOK'
  BY <1>1, <1>2, StatusType DEF TypeOK
<1>4. CooldownRespected' /\ RecordedWhileRejected'
  BY <1>1, <1>2 DEF CooldownRespected, RecordedWhileRejected, Paused
<1>5. RejectionStaysActive' /\ ExitIsHonest' /\ ReportsAreIn'
  BY <1>1, <1>2 DEF RejectionStaysActive, ExitIsHonest, ReportsAreIn
<1>6. CompleteWasServed'
  BY <1>2 DEF CompleteWasServed, Complete
<1>7. RequestsAreOpen'
  BY <1>1, <1>2 DEF RequestsAreOpen, Skips, Paused
<1> QED
  BY <1>3, <1>4, <1>5, <1>6, <1>7 DEF IInv

(* What one target does while it is observed: it is asked, answers or fails.*)
LEMMA TargetStep ==
    ASSUME IInv, NEW t \in Target, StartTarget(t) \/ Answered(t) \/ Failed(t)
    PROVE  IInv'
<1>1. /\ TypeOK /\ CooldownRespected /\ RejectionStaysActive /\ ExitIsHonest
      /\ RecordedWhileRejected /\ CompleteWasServed /\ RequestsAreOpen
  BY DEF IInv
<1>2. /\ pc = "observing" /\ report[t] = "none" /\ ~Paused(t)
      /\ UNCHANGED <<retry, pc, exit, failOn, rejected>>
  BY <1>1 DEF StartTarget, Answered, Failed, RequestsAreOpen
<1>3. \E k \in 0..Requests : request' = [request EXCEPT ![t] = k] /\ (k # 0 => report' = report)
  BY <1>1 DEF StartTarget, Answered, Failed, TypeOK, Requests
<1>4. \E s \in TargetStatus \cup {"none"} :
        /\ report' = [report EXCEPT ![t] = s]
        /\ s = "complete" => t \in served'
  <2>1. CASE StartTarget(t)
    BY <1>1, <1>2, <2>1 DEF StartTarget, TypeOK
  <2>2. CASE Answered(t)
    BY <1>1, <1>2, <2>2, StatusType DEF Answered, TypeOK
  <2>3. CASE Failed(t)
    BY <1>1, <1>2, <2>3, StatusType DEF Failed
  <2> QED
    BY <2>1, <2>2, <2>3
<1>5. served \subseteq served' /\ served' \subseteq Target
  BY <1>1 DEF StartTarget, Answered, Failed, TypeOK
<1>6. TypeOK'
  BY <1>1, <1>2, <1>3, <1>4, <1>5 DEF TypeOK
<1>7. CooldownRespected'
  BY <1>1, <1>2, <1>3 DEF CooldownRespected, TypeOK, Paused
<1>8. RejectionStaysActive' /\ ExitIsHonest' /\ RecordedWhileRejected' /\ ReportsAreIn'
  BY <1>1, <1>2 DEF RejectionStaysActive, ExitIsHonest, RecordedWhileRejected, ReportsAreIn
<1>9. CompleteWasServed'
  BY <1>1, <1>4, <1>5 DEF CompleteWasServed, Complete, TypeOK
<1>10. RequestsAreOpen'
  BY <1>1, <1>2, <1>3, <1>4 DEF RequestsAreOpen, Paused, TypeOK
<1> QED
  BY <1>6, <1>7, <1>8, <1>9, <1>10 DEF IInv

(* The exit code of a committed run is honest about what was served.       *)
LEMMA CommitIsHonest == IInv /\ CommitRun => ExitIsHonest'
<1> SUFFICES ASSUME IInv, CommitRun PROVE ExitIsHonest'
  OBVIOUS
<1>1. TypeOK /\ CompleteWasServed
  BY DEF IInv
<1>2. report \in [Target -> TargetStatus]
  BY <1>1 DEF CommitRun, TypeOK
<1>3. PICK recovered \in BOOLEAN, least \in Severity \cup {Never}, other \in {0} \cup Severity :
        exit' = InitialExit(recovered, least, other) /\ failOn' = least
  BY DEF CommitRun
<1>4. served' = served
  BY DEF CommitRun
<1>5. exit' \in {0, 1} => Cardinality(served') >= MinimumComplete
  <2>1. IsFiniteSet(served) /\ Cardinality(Complete) <= Cardinality(served)
    BY <1>1, TargetAssumption, FS_Subset DEF TypeOK, CompleteWasServed
  <2>2. Cardinality(served) \in Nat /\ Cardinality(Complete) \in Nat
    BY <1>1, <2>1, FS_Subset, FS_CardinalityType DEF CompleteWasServed
  <2>3. exit' \in {0, 1} => ~(Cardinality(Complete) < MinimumComplete)
    BY <1>3 DEF InitialExit
  <2>4. MinimumComplete \in Int
    BY MinimumAssumption
  <2> QED
    BY <1>4, <2>1, <2>2, <2>3, <2>4
<1>6. exit' = 0 /\ failOn' = 1 => served' = Target
  <2>1. exit' = 0 => ~FailOnMatch(least, other)
    BY <1>3 DEF InitialExit
  <2> QED
    BY <1>1, <1>2, <1>3, <1>4, <2>1, NoMatchMeansComplete DEF CompleteWasServed, TypeOK
<1> QED
  BY <1>5, <1>6 DEF ExitIsHonest

(* A committed run leaves a cooldown exactly where a rejection stands.     *)
LEMMA CommitRunStep == IInv /\ CommitRun => IInv'
<1> SUFFICES ASSUME IInv, CommitRun PROVE IInv'
  OBVIOUS
<1>1. /\ TypeOK /\ RejectionStaysActive /\ RecordedWhileRejected
      /\ CompleteWasServed /\ RequestsAreOpen
  BY DEF IInv
<1>2. /\ pc = "observing" /\ pc' = "committed"
      /\ \A t \in Target : report[t] # "none"
      /\ rejected' = {t \in Target : \/ report[t] = "authentication_rejected"
                                     \/ t \in rejected /\ report[t] # "complete"}
      /\ UNCHANGED <<request, report, served>>
  BY DEF CommitRun
<1>3. \A t \in Target : request[t] = 0
  BY <1>1, <1>2 DEF RequestsAreOpen
<1>4. PICK seconds \in [Target -> 1..MaxRetry] :
        retry' = [t \in Target |-> RetryAfter(t, seconds[t])]
  BY DEF CommitRun
<1>5. ASSUME NEW t \in Target
      PROVE  retry'[t] \in 0..NoRow /\ (retry'[t] = NoRow <=> t \notin rejected')
  <2>1. retry[t] \in 0..NoRow /\ seconds[t] \in 1..MaxRetry /\ MaxRetry \in Nat
    BY <1>1, MaxRetryAssumption DEF TypeOK
  <2>2. retry'[t] = RetryAfter(t, seconds[t])
    BY <1>4
  <2>3. retry[t] = NoRow <=> t \notin rejected
    BY <1>1 DEF RecordedWhileRejected
  <2>4. CASE report[t] = "authentication_rejected"
    BY <1>2, <2>1, <2>2, <2>4 DEF RetryAfter, NoRow
  <2>5. CASE report[t] = "complete"
    BY <1>2, <2>1, <2>2, <2>5 DEF RetryAfter, NoRow
  <2>6. CASE report[t] \notin {"authentication_rejected", "complete"}
    BY <1>2, <2>1, <2>2, <2>3, <2>6 DEF RetryAfter
  <2> QED
    BY <2>4, <2>5, <2>6
<1>6. exit' \in {0, 1, 3, 4} /\ failOn' \in Severity \cup {Never}
  BY DEF CommitRun, InitialExit
<1>7. retry' \in [Target -> 0..NoRow]
  BY <1>4, <1>5
<1>8. TypeOK'
  BY <1>1, <1>2, <1>6, <1>7 DEF TypeOK
<1>9. CooldownRespected' /\ RequestsAreOpen' /\ ReportsAreIn' /\ CompleteWasServed'
  BY <1>1, <1>2, <1>3
     DEF CooldownRespected, RequestsAreOpen, ReportsAreIn, CompleteWasServed, Complete
<1>10. RecordedWhileRejected'
  BY <1>5 DEF RecordedWhileRejected, NoRow
<1>11. RejectionStaysActive'
  BY <1>2, <1>5 DEF RejectionStaysActive, ApiOutcome, NoRow
<1> QED
  BY <1>8, <1>9, <1>10, <1>11, CommitIsHonest DEF IInv

(* A refused delivery only changes the exit code, to 4.                    *)
LEMMA DeliveryFailsStep == IInv /\ DeliveryFails => IInv'
<1> SUFFICES ASSUME IInv, DeliveryFails PROVE IInv'
  OBVIOUS
<1>1. /\ exit' = 4 /\ UNCHANGED <<retry, pc, request, report, failOn, served, rejected>>
  BY DEF DeliveryFails
<1> QED
  BY <1>1
     DEF IInv, TypeOK, CooldownRespected, RejectionStaysActive, ExitIsHonest,
         RecordedWhileRejected, CompleteWasServed, RequestsAreOpen, ReportsAreIn, Complete, Paused

(* A check that ends takes its requests, reports and exit code with it.    *)
LEMMA ExitsStep == IInv /\ Exits /\ UNCHANGED <<retry, rejected>> => IInv'
<1> SUFFICES ASSUME IInv, Exits, UNCHANGED <<retry, rejected>> PROVE IInv'
  OBVIOUS
<1>1. TypeOK /\ RejectionStaysActive /\ RecordedWhileRejected
  BY DEF IInv
<1>2. /\ pc' = "idle" /\ exit' = 0 /\ failOn' = Never /\ served' = {}
      /\ request' = [t \in Target |-> 0] /\ report' = [t \in Target |-> "none"]
  BY DEF Exits
<1>3. TypeOK'
  BY <1>1, <1>2 DEF TypeOK, Requests
<1> QED
  BY <1>1, <1>2, <1>3
     DEF IInv, CooldownRespected, RejectionStaysActive, ExitIsHonest, RecordedWhileRejected,
         CompleteWasServed, RequestsAreOpen, ReportsAreIn, Complete

(* Time pauses no target and ends no record.                               *)
LEMMA TickStep == IInv /\ Tick => IInv'
<1> SUFFICES ASSUME IInv, Tick PROVE IInv'
  OBVIOUS
<1>1. UNCHANGED <<pc, request, report, exit, failOn, served, rejected>>
  BY DEF Tick
<1>2. TypeOK
  BY DEF IInv
<1>3. \A t \in Target : /\ retry'[t] \in 0..NoRow
                        /\ retry'[t] = NoRow <=> retry[t] = NoRow
                        /\ Paused(t)' => Paused(t)
  BY <1>2, TickPauses
<1>4. retry' \in [Target -> 0..NoRow]
  BY <1>3 DEF Tick
<1>5. TypeOK'
  BY <1>1, <1>2, <1>4 DEF TypeOK
<1>6. CooldownRespected' /\ RequestsAreOpen'
  BY <1>1, <1>3 DEF IInv, CooldownRespected, RequestsAreOpen
<1>7. RejectionStaysActive' /\ RecordedWhileRejected'
  <2>1. rejected \subseteq Target /\ NoRow' = NoRow
    BY <1>2 DEF TypeOK, NoRow
  <2> QED
    BY <1>1, <1>3, <2>1 DEF IInv, RejectionStaysActive, RecordedWhileRejected
<1>8. ExitIsHonest' /\ CompleteWasServed' /\ ReportsAreIn'
  BY <1>1 DEF IInv, ExitIsHonest, CompleteWasServed, ReportsAreIn, Complete
<1> QED
  BY <1>5, <1>6, <1>7, <1>8 DEF IInv

-----------------------------------------------------------------------------
(* The theorems.                                                           *)

(* The inductive invariant holds before any check.                         *)
LEMMA InitInv == Init => IInv
BY MaxRetryAssumption
   DEF Init, IInv, TypeOK, CooldownRespected, RejectionStaysActive, ExitIsHonest,
       RecordedWhileRejected, CompleteWasServed, RequestsAreOpen, ReportsAreIn, Complete,
       NoRow, Requests

(* Every step preserves the inductive invariant.                           *)
LEMMA InvStep == IInv /\ [Next]_vars => IInv'
<1> SUFFICES ASSUME IInv, [Next]_vars PROVE IInv'
  OBVIOUS
<1>1. CASE StartCheck
  BY <1>1, StartCheckStep
<1>2. CASE \E t \in Target : StartTarget(t) \/ Answered(t) \/ Failed(t)
  BY <1>2, TargetStep
<1>3. CASE CommitRun
  BY <1>3, CommitRunStep
<1>4. CASE DeliveryFails
  BY <1>4, DeliveryFailsStep
<1>5. CASE Finish \/ EndEarly
  BY <1>5, ExitsStep DEF Finish, EndEarly
<1>6. CASE Tick
  BY <1>6, TickStep
<1>7. CASE UNCHANGED vars
  BY <1>7
     DEF vars, IInv, TypeOK, CooldownRespected, RejectionStaysActive, ExitIsHonest,
         RecordedWhileRejected, CompleteWasServed, RequestsAreOpen, ReportsAreIn, Complete, Paused
<1> QED
  BY <1>1, <1>2, <1>3, <1>4, <1>5, <1>6, <1>7 DEF Next

(* The inductive invariant holds in every reachable state, so each of the  *)
(* properties that are its conjuncts does.                                 *)
THEOREM Invariant == Spec => []IInv
<1>1. Init => IInv
  BY InitInv
<1>2. IInv /\ [Next]_vars => IInv'
  BY InvStep
<1> QED
  BY <1>1, <1>2, PTL DEF Spec

(* A paused target is never asked, however the requests of the concurrent   *)
(* observations, the checks and time interleave.                            *)
THEOREM CooldownsAreRespected == Spec => []CooldownRespected
<1>1. IInv => CooldownRespected
  BY DEF IInv
<1> QED
  BY <1>1, Invariant, PTL

(* A rejection stays an active condition until a complete observation.     *)
THEOREM RejectionsStayActive == Spec => []RejectionStaysActive
<1>1. IInv => RejectionStaysActive
  BY DEF IInv
<1> QED
  BY <1>1, Invariant, PTL

(* Exit codes 0 and 1 rest on enough targets that answered in this check.  *)
THEOREM ExitsAreHonest == Spec => []ExitIsHonest
<1>1. IInv => ExitIsHonest
  BY DEF IInv
<1> QED
  BY <1>1, Invariant, PTL

=============================================================================
