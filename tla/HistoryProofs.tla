--------------------------- MODULE HistoryProofs ----------------------------
(***************************************************************************)
(* Proofs about LatchHistory: the latch is a faithful summary of the whole  *)
(* history of its condition, and no episode is announced twice.             *)
(***************************************************************************)
EXTENDS LatchHistory, FiniteSetTheorems, TLAPS

(* Counters saturate instead of leaving their range.                       *)
LEMMA SaturatedType ==
    ASSUME NEW n \in 0..CounterCap
    PROVE  Saturated(n) \in 0..CounterCap
BY CounterCapAssumption DEF Saturated

(* advance_condition maps well-formed latches to well-formed latches.      *)
LEMMA AdvanceType ==
    ASSUME NEW s \in ConditionState, NEW ev \in Evaluation,
           NEW run \in Nat, NEW suppress \in BOOLEAN
    PROVE  Advance(s, ev, run, suppress) \in ConditionState
<1>1. Saturated(s.active) \in 0..CounterCap /\ Saturated(s.clear) \in 0..CounterCap
  BY SaturatedType DEF ConditionState
<1>2. 0 \in 0..CounterCap
  BY CounterCapAssumption
<1>3. Queued(suppress) \in DeliveryState
  BY DEF Queued, DeliveryState
<1>4. AfterActive(s, ev, run, suppress) \in ConditionState
  BY <1>1, <1>2, <1>3 DEF AfterActive, ConditionState, Lifecycle, DeliveryState
<1>5. AfterClear(s, ev, suppress) \in ConditionState
  BY <1>1, <1>2, <1>3 DEF AfterClear, ConditionState, Lifecycle, DeliveryState
<1> QED
  BY <1>4, <1>5 DEF Advance, Evaluation, Outcome

(* A step, spelled out: the evaluation of a run, or a result.              *)
Evaluates(ev, suppress) ==
    /\ ev \in Evaluations /\ ev \in Evaluation /\ ev.threshold <= CounterCap
    /\ suppress \in BOOLEAN
    /\ state' = Advance(state, ev, Len(history) + 1, suppress)
    /\ history' = Append(history, ev)
    /\ log' = IF RaisesAlert(state, ev) THEN Append(log, Transition("alert", suppress))
              ELSE IF RaisesResolution(state, ev, suppress)
              THEN Append(log, Transition("resolution", suppress))
              ELSE log

LEMMA EvaluateStep == Evaluate => \E ev, suppress : Evaluates(ev, suppress)
BY EvaluationsAssumption, SuppressionsAssumption, ThresholdsAssumption DEF Evaluate, Evaluates

(* A result moves only the delivery state of what is owed.                 *)
LEMMA DeliverStep ==
    ASSUME TypeOK, Deliver
    PROVE  /\ UNCHANGED <<history, log>>
           /\ state' \in ConditionState
           /\ state'.lifecycle = state.lifecycle /\ state'.episode = state.episode
           /\ state'.active = state.active /\ state'.clear = state.clear
           /\ state.delivery = "pending"
           /\ state'.delivery \in {"delivered", "failed", "unknown", "resolved"}
<1>1. PICK reached \in {IF state.lifecycle = "clear" THEN "resolved" ELSE "delivered",
                        "failed", "unknown"} :
        state' = [state EXCEPT !.delivery = reached]
  BY DEF Deliver
<1>2. reached \in {"delivered", "failed", "unknown", "resolved"}
  OBVIOUS
<1> QED
  BY <1>1, <1>2 DEF Deliver, TypeOK, ConditionState, DeliveryState

-----------------------------------------------------------------------------
(* Types.                                                                  *)

LEMMA TypeStep == TypeOK /\ [Next]_vars => TypeOK'
<1> SUFFICES ASSUME TypeOK, [Next]_vars PROVE TypeOK'
  OBVIOUS
<1>1. CASE Evaluate
  <2>1. PICK ev, suppress : Evaluates(ev, suppress)
    BY <1>1, EvaluateStep
  <2>2. state' \in ConditionState
    <3>1. Len(history) + 1 \in Nat /\ state \in ConditionState
      BY DEF TypeOK
    <3> QED
      BY <2>1, <3>1, AdvanceType DEF Evaluates
  <2>3. history' \in Seq(Evaluations)
    BY <2>1 DEF Evaluates, TypeOK
  <2> DEFINE T == [kind : Kind, episode : Nat, suppressed : BOOLEAN, confirmed : BOOLEAN]
  <2>4. Transition("alert", suppress) \in T /\ Transition("resolution", suppress) \in T
    BY <2>1, <2>2 DEF Transition, Kind, ConditionState, Evaluates
  <2>5. log \in Seq(T)
    BY DEF TypeOK
  <2> HIDE DEF T
  <2>6. log' \in Seq(T)
    BY <2>1, <2>4, <2>5 DEF Evaluates
  <2> QED
    BY <2>2, <2>3, <2>6 DEF TypeOK, T
<1>2. CASE Deliver
  BY <1>2, DeliverStep DEF TypeOK
<1>3. CASE UNCHANGED vars
  BY <1>3 DEF vars, TypeOK
<1> QED
  BY <1>1, <1>2, <1>3 DEF Next

-----------------------------------------------------------------------------
(* What is announced of an episode.                                        *)

(* A run that announces nothing leaves the log and keeps a firing latch's   *)
(* delivery; whatever it evaluates, the episode is its own or as before.    *)
LEMMA AnnouncedStep ==
    EpisodesAreAnnouncedOnce /\ LogFollowsLatch /\ TypeOK /\ [Next]_vars
      => (EpisodesAreAnnouncedOnce /\ LogFollowsLatch)'
<1> SUFFICES ASSUME EpisodesAreAnnouncedOnce, LogFollowsLatch, TypeOK, [Next]_vars
             PROVE  (EpisodesAreAnnouncedOnce /\ LogFollowsLatch)'
  OBVIOUS
<1> DEFINE T == [kind : Kind, episode : Nat, suppressed : BOOLEAN, confirmed : BOOLEAN]
<1>a. log \in Seq(T)
  BY DEF TypeOK
<1>b. \A t \in T : t.episode \in Nat
  OBVIOUS
<1> HIDE DEF T
<1>0. /\ log \in Seq(T) /\ Len(history) \in Nat /\ Len(log) \in Nat
      /\ state \in ConditionState /\ state.episode \in Nat
      /\ \A i \in DOMAIN log : log[i].episode \in Nat
  BY <1>a, <1>b DEF TypeOK, ConditionState
<1>1. CASE Deliver
  <2>1. /\ UNCHANGED <<history, log>>
        /\ state'.lifecycle = state.lifecycle /\ state'.episode = state.episode
        /\ state.delivery = "pending"
    BY <1>1, DeliverStep
  <2>2. EpisodesAreAnnouncedOnce'
    BY <2>1 DEF EpisodesAreAnnouncedOnce
  <2>3. state'.lifecycle # "pending"
    BY <2>1 DEF LogFollowsLatch
  <2>4. state.lifecycle = "firing" =>
          \E i \in DOMAIN log :
             /\ log[i].kind = "alert" /\ log[i].episode = state.episode /\ ~log[i].suppressed
    BY <2>1 DEF LogFollowsLatch
  <2> QED
    BY <2>1, <2>2, <2>3, <2>4 DEF LogFollowsLatch
<1>2. CASE UNCHANGED vars
  BY <1>2 DEF vars, EpisodesAreAnnouncedOnce, LogFollowsLatch
<1>3. CASE Evaluate
  <2>1. PICK ev, suppress : Evaluates(ev, suppress)
    BY <1>3, EvaluateStep
  <2> DEFINE N == Len(history)
  <2>2. /\ state' = Advance(state, ev, N + 1, suppress)
        /\ ev \in Evaluation /\ suppress \in BOOLEAN /\ N + 1 \in Nat
        /\ Len(history') = N + 1
    BY <2>1 DEF Evaluates, TypeOK
  <2>3. state'.episode = IF OpensEpisode(state, ev) THEN N + 1 ELSE state.episode
    BY <1>0, <2>2 DEF Advance, AfterActive, AfterClear, OpensEpisode, Evaluation, Outcome
  <2>4. /\ RaisesAlert(state, ev) => state'.lifecycle = "firing"
        /\ Recovers(state, ev) => state'.lifecycle = "clear"
        /\ state'.lifecycle = "pending" =>
             ~RaisesAlert(state, ev) /\ (OpensEpisode(state, ev) \/ state.lifecycle = "pending")
        /\ state'.lifecycle = "firing" => RaisesAlert(state, ev) \/ state.lifecycle = "firing"
    BY <1>0, <2>2 DEF Advance, AfterActive, AfterClear, OpensEpisode, RaisesAlert, Recovers,
       TypeOK, ConditionState, Lifecycle, Evaluation, Outcome
  <2>5. /\ RaisesAlert(state, ev) => state'.delivery = Queued(suppress)
        /\ OpensEpisode(state, ev) /\ ~RaisesAlert(state, ev) => state'.delivery = "never"
        /\ WithdrawsAlert(state, ev) => state'.delivery = "never"
        /\ ~OpensEpisode(state, ev) /\ ~RaisesAlert(state, ev) /\ ~WithdrawsAlert(state, ev)
             /\ ~RaisesResolution(state, ev, suppress) => state'.delivery = state.delivery
    BY <1>0, <2>2 DEF Advance, AfterActive, AfterClear, OpensEpisode, RaisesAlert, RaisesResolution,
       WithdrawsAlert, Recovers, TypeOK, ConditionState, Evaluation, Outcome
  <2>6. /\ OpensEpisode(state, ev) => state.lifecycle = "clear"
        /\ RaisesResolution(state, ev, suppress) =>
             /\ Recovers(state, ev) /\ state.lifecycle = "firing"
             /\ state.delivery = "delivered" \/ (suppress /\ state.delivery = "suppressed")
        /\ WithdrawsAlert(state, ev) => Recovers(state, ev)
        /\ RaisesAlert(state, ev) => ev.outcome = "active" /\ state.lifecycle # "firing"
        /\ Recovers(state, ev) => ev.outcome = "clear"
        /\ RaisesAlert(state, ev) => OpensEpisode(state, ev) \/ state.lifecycle = "pending"
    BY <1>0 DEF OpensEpisode, RaisesResolution, WithdrawsAlert, RaisesAlert, Recovers,
       ConditionState, Lifecycle
  <2>7. /\ state.episode <= N /\ \A i \in DOMAIN log : log[i].episode <= state.episode
        /\ state.lifecycle = "pending" =>
             /\ state.delivery = "never"
             /\ \A i \in DOMAIN log : log[i].episode # state.episode
        /\ state.lifecycle = "firing" =>
             \A i \in DOMAIN log : log[i].kind = "resolution" => log[i].episode # state.episode
    BY DEF LogFollowsLatch
  <2>8. state'.episode <= N + 1 /\ state'.episode \in Nat /\ state.episode <= state'.episode
    BY <1>0, <2>2, <2>3, <2>7
  <2>9. OpensEpisode(state, ev) => \A i \in DOMAIN log : log[i].episode # state'.episode
    BY <1>0, <2>2, <2>3, <2>7
  <2> HIDE DEF N
  \* The alert of a firing episode.
  <2>10. ASSUME state.lifecycle = "firing"
         PROVE  \E i \in DOMAIN log :
                  /\ log[i].kind = "alert" /\ log[i].episode = state.episode
                  /\ log[i].suppressed => state.delivery = "suppressed"
    BY <2>10 DEF LogFollowsLatch
  <2>11. CASE ~RaisesAlert(state, ev) /\ ~RaisesResolution(state, ev, suppress)
    <3>1. log' = log
      BY <2>1, <2>11 DEF Evaluates
    <3>2. EpisodesAreAnnouncedOnce'
      BY <3>1 DEF EpisodesAreAnnouncedOnce
    <3>3. \A i \in DOMAIN log' : log'[i].episode <= state'.episode
      BY <1>0, <2>7, <2>8, <3>1
    <3>4. state'.lifecycle = "pending" =>
            /\ state'.delivery = "never"
            /\ \A i \in DOMAIN log' : log'[i].episode # state'.episode
      BY <2>3, <2>4, <2>5, <2>6, <2>7, <2>9, <2>11, <3>1
    <3>5. ASSUME state'.lifecycle = "firing"
          PROVE  /\ \A i \in DOMAIN log' : log'[i].kind = "resolution" =>
                                             log'[i].episode # state'.episode
                 /\ \E i \in DOMAIN log' :
                      /\ log'[i].kind = "alert" /\ log'[i].episode = state'.episode
                      /\ log'[i].suppressed => state'.delivery = "suppressed"
      <4>1. state.lifecycle = "firing" /\ ~OpensEpisode(state, ev) /\ ~WithdrawsAlert(state, ev)
        BY <2>4, <2>6, <2>11, <3>5
      <4>2. state'.episode = state.episode /\ state'.delivery = state.delivery
        BY <2>3, <2>5, <2>11, <4>1
      <4> QED
        BY <2>7, <2>10, <3>1, <4>1, <4>2
    <3> QED
      BY <2>2, <2>8, <3>2, <3>3, <3>4, <3>5 DEF LogFollowsLatch
  <2>12. ASSUME NEW t, log' = Append(log, t)
         PROVE  /\ DOMAIN log' = DOMAIN log \cup {Len(log) + 1}
                /\ Len(log) + 1 \notin DOMAIN log /\ log'[Len(log) + 1] = t
                /\ \A i \in DOMAIN log : log'[i] = log[i] /\ i \in 1..Len(log)
                /\ DOMAIN log = 1..Len(log)
    BY <1>0, <2>12
  <2>13. CASE RaisesAlert(state, ev)
    <3> DEFINE t == [kind |-> "alert", episode |-> state'.episode, suppressed |-> suppress,
                     confirmed |-> state.delivery = "delivered"]
               L == Len(log) + 1
    <3>1. log' = Append(log, t)
      BY <2>1, <2>13 DEF Evaluates, Transition
    <3>2. t.kind = "alert" /\ t.episode = state'.episode /\ t.suppressed = suppress
      OBVIOUS
    <3> HIDE DEF t
    <3>3. /\ DOMAIN log' = DOMAIN log \cup {L} /\ L \notin DOMAIN log /\ log'[L] = t
          /\ \A i \in DOMAIN log : log'[i] = log[i] /\ i \in 1..Len(log)
          /\ DOMAIN log = 1..Len(log)
      BY <2>12, <3>1
    <3> HIDE DEF L
    <3>4. \A i \in DOMAIN log : log[i].episode # state'.episode
      BY <2>3, <2>6, <2>7, <2>9, <2>13
    <3>5. EpisodesAreAnnouncedOnce'
      <4>1. \A i, j \in DOMAIN log' : i # j =>
              <<log'[i].episode, log'[i].kind>> # <<log'[j].episode, log'[j].kind>>
        BY <3>2, <3>3, <3>4 DEF EpisodesAreAnnouncedOnce
      <4>2. ASSUME NEW j \in DOMAIN log', log'[j].kind = "resolution"
            PROVE  \E i \in 1..(j - 1) :
                     /\ log'[i].kind = "alert" /\ log'[i].episode = log'[j].episode
                     /\ ~log'[j].suppressed => ~log'[i].suppressed /\ log'[j].confirmed
        <5>1. j \in DOMAIN log
          BY <3>2, <3>3, <4>2
        <5>2. log'[j] = log[j] /\ j \in 1..Len(log)
          BY <3>3, <5>1
        <5>3. PICK i \in 1..(j - 1) :
                 /\ log[i].kind = "alert" /\ log[i].episode = log[j].episode
                 /\ ~log[j].suppressed => ~log[i].suppressed /\ log[j].confirmed
          BY <4>2, <5>1, <5>2 DEF EpisodesAreAnnouncedOnce
        <5>4. i \in DOMAIN log /\ log'[i] = log[i]
          BY <1>0, <3>3, <5>2, <5>3
        <5> QED
          BY <5>2, <5>3, <5>4
      <4> QED
        BY <4>1, <4>2 DEF EpisodesAreAnnouncedOnce
    <3>6. \A i \in DOMAIN log' : log'[i].episode <= state'.episode
      BY <1>0, <2>7, <2>8, <3>2, <3>3
    <3>7. state'.lifecycle = "firing"
      BY <2>4, <2>13
    <3>8. \A i \in DOMAIN log' : log'[i].kind = "resolution" => log'[i].episode # state'.episode
      BY <3>2, <3>3, <3>4
    <3>9. log'[L].suppressed => state'.delivery = "suppressed"
      BY <2>5, <2>13, <3>2, <3>3 DEF Queued
    <3> QED
      BY <2>2, <2>8, <3>2, <3>3, <3>5, <3>6, <3>7, <3>8, <3>9 DEF LogFollowsLatch
  <2>14. CASE ~RaisesAlert(state, ev) /\ RaisesResolution(state, ev, suppress)
    <3> DEFINE t == [kind |-> "resolution", episode |-> state'.episode, suppressed |-> suppress,
                     confirmed |-> state.delivery = "delivered"]
               L == Len(log) + 1
    <3>1. log' = Append(log, t)
      BY <2>1, <2>14 DEF Evaluates, Transition
    <3>2. /\ t.kind = "resolution" /\ t.episode = state'.episode /\ t.suppressed = suppress
          /\ t.confirmed <=> state.delivery = "delivered"
      OBVIOUS
    <3> HIDE DEF t
    <3>3. /\ DOMAIN log' = DOMAIN log \cup {L} /\ L \notin DOMAIN log /\ log'[L] = t
          /\ \A i \in DOMAIN log : log'[i] = log[i] /\ i \in 1..Len(log)
          /\ DOMAIN log = 1..Len(log) /\ L - 1 = Len(log)
      BY <1>0, <2>12, <3>1
    <3> HIDE DEF L
    <3>4. /\ state.lifecycle = "firing" /\ state'.episode = state.episode
          /\ state'.lifecycle = "clear"
          /\ state.delivery = "delivered" \/ (suppress /\ state.delivery = "suppressed")
      BY <2>3, <2>4, <2>6, <2>14
    <3>5. PICK a \in DOMAIN log :
            /\ log[a].kind = "alert" /\ log[a].episode = state.episode
            /\ log[a].suppressed => state.delivery = "suppressed"
      BY <2>10, <3>4
    <3>6. EpisodesAreAnnouncedOnce'
      <4>1. \A i, j \in DOMAIN log' : i # j =>
              <<log'[i].episode, log'[i].kind>> # <<log'[j].episode, log'[j].kind>>
        BY <2>7, <3>2, <3>3, <3>4 DEF EpisodesAreAnnouncedOnce
      <4>2. ASSUME NEW j \in DOMAIN log', log'[j].kind = "resolution"
            PROVE  \E i \in 1..(j - 1) :
                     /\ log'[i].kind = "alert" /\ log'[i].episode = log'[j].episode
                     /\ ~log'[j].suppressed => ~log'[i].suppressed /\ log'[j].confirmed
        <5>1. CASE j = L
          <6>1. a \in 1..(j - 1) /\ log'[a] = log[a] /\ log'[j] = t
            BY <3>3, <3>5, <5>1
          <6>2. ~suppress => ~log[a].suppressed /\ t.confirmed
            BY <3>2, <3>4, <3>5
          <6> QED
            BY <3>2, <3>4, <3>5, <6>1, <6>2
        <5>2. CASE j \in DOMAIN log
          <6>1. log'[j] = log[j] /\ j \in 1..Len(log)
            BY <3>3, <5>2
          <6>2. PICK i \in 1..(j - 1) :
                   /\ log[i].kind = "alert" /\ log[i].episode = log[j].episode
                   /\ ~log[j].suppressed => ~log[i].suppressed /\ log[j].confirmed
            BY <4>2, <5>2, <6>1 DEF EpisodesAreAnnouncedOnce
          <6>3. i \in DOMAIN log /\ log'[i] = log[i]
            BY <1>0, <3>3, <6>1, <6>2
          <6> QED
            BY <6>1, <6>2, <6>3
        <5> QED
          BY <3>3, <5>1, <5>2
      <4> QED
        BY <4>1, <4>2 DEF EpisodesAreAnnouncedOnce
    <3>7. \A i \in DOMAIN log' : log'[i].episode <= state'.episode
      BY <1>0, <2>7, <2>8, <3>2, <3>3
    <3> QED
      BY <2>2, <2>8, <3>4, <3>6, <3>7 DEF LogFollowsLatch
  <2> QED
    BY <2>11, <2>13, <2>14
<1> QED
  BY <1>1, <1>2, <1>3 DEF Next

-----------------------------------------------------------------------------
(* Streaks.                                                                *)

StreakRuns(i) ==
    {j \in 1..i :
        /\ history[j].outcome = history[i].outcome
        /\ \A k \in j..i : history[k].outcome \in {history[i].outcome, "not_evaluated"}}

(* A run's streak is a finite set of runs.                                 *)
LEMMA StreakIsFinite ==
    ASSUME NEW i \in Nat
    PROVE  /\ IsFiniteSet(StreakRuns(i)) /\ Streak(i) = Cardinality(StreakRuns(i))
           /\ Streak(i) \in Nat
<1>1. IsFiniteSet(1..i)
  BY FS_Interval
<1>2. StreakRuns(i) \in SUBSET (1..i)
  BY DEF StreakRuns
<1>3. IsFiniteSet(StreakRuns(i))
  BY <1>1, <1>2, FS_Subset
<1> QED
  BY <1>3, FS_CardinalityType DEF Streak, StreakRuns

(* A later run leaves the streaks of those before it.                      *)
LEMMA StreakStays ==
    ASSUME TypeOK, NEW ev, history' = Append(history, ev), NEW i \in Runs
    PROVE  Streak(i)' = Streak(i)
<1>1. history \in Seq(Evaluations) /\ Len(history) \in Nat
  BY DEF TypeOK
<1>2. \A k \in 1..i : history'[k] = history[k]
  BY <1>1 DEF Runs
<1>3. StreakRuns(i)' = StreakRuns(i)
  <2>1. ASSUME NEW j \in 1..i
        PROVE  /\ j \in Int /\ i \in Int
               /\ history'[j] = history[j] /\ history'[i] = history[i]
               /\ \A k \in j..i : history'[k] = history[k]
    BY <1>1, <1>2 DEF Runs
  <2> QED
    BY <2>1 DEF StreakRuns
<1> QED
  BY <1>3 DEF Streak, StreakRuns

(* A run that evaluates extends the streak of its outcome, or begins one.  *)
LEMMA StreakGrows ==
    ASSUME TypeOK, NewestCounts, NEW ev, history' = Append(history, ev),
           NEW o, o = ev.outcome, o # "not_evaluated", NEW N, N = Len(history) + 1
    PROVE  Streak(N)' = StreakOf(o) + 1
<1> DEFINE S == StreakRuns(Newest)
<1>1. history \in Seq(Evaluations) /\ Len(history) \in Nat /\ N \in Nat
  BY DEF TypeOK
<1>2. history'[N] = ev /\ \A k \in 1..Len(history) : history'[k] = history[k]
  BY <1>1
<1>3. /\ Newest # 0 => /\ Newest \in 1..Len(history)
                       /\ history[Newest].outcome # "not_evaluated"
      /\ \A j \in 1..Len(history) : (Newest = 0 \/ Newest < j) =>
            history[j].outcome = "not_evaluated"
  <2>1. CASE Newest = 0
    BY <2>1 DEF NewestCounts, Runs
  <2>2. CASE Newest # 0
    <3>1. Newest \in {i \in Runs : history[i].outcome # "not_evaluated"}
      BY <2>2 DEF NewestCounts
    <3>2. \A j \in {i \in Runs : history[i].outcome # "not_evaluated"} : j <= Newest
      BY <2>2 DEF NewestCounts
    <3> QED
      BY <1>1, <2>2, <3>1, <3>2 DEF Runs
  <2> QED
    BY <2>1, <2>2
<1>4. StreakRuns(N)' = {j \in 1..N : /\ history'[j].outcome = o
                                     /\ \A k \in j..N : history'[k].outcome \in {o, "not_evaluated"}}
  <2>1. history'[N].outcome = o
    BY <1>2
  <2> QED
    BY <2>1 DEF StreakRuns
<1>5. N \in StreakRuns(N)'
  BY <1>1, <1>2, <1>4
<1>6. Streak(N)' = Cardinality(StreakRuns(N)')
  BY DEF Streak, StreakRuns
<1>7. CASE Newest # 0 /\ history[Newest].outcome = o
  <2>1. ASSUME NEW j \in StreakRuns(N)', j # N PROVE j \in S
    <3>1. /\ j \in 1..Len(history) /\ history[j].outcome = o
          /\ \A k \in j..N : history'[k].outcome \in {o, "not_evaluated"}
      BY <1>1, <1>2, <1>4, <2>1
    <3>2. j <= Newest
      BY <1>1, <1>3, <1>7, <3>1
    <3>3. \A k \in j..Newest : history[k].outcome \in {o, "not_evaluated"}
      BY <1>1, <1>2, <1>3, <1>7, <3>1
    <3> QED
      BY <1>1, <1>3, <1>7, <3>1, <3>2, <3>3 DEF StreakRuns
  <2>2. ASSUME NEW j \in S PROVE j \in StreakRuns(N)' /\ j # N
    <3>1. /\ j \in 1..Newest /\ history[j].outcome = o
          /\ \A k \in j..Newest : history[k].outcome \in {o, "not_evaluated"}
      BY <1>7 DEF StreakRuns
    <3>2. j \in 1..Len(history) /\ history'[j].outcome = o
      BY <1>1, <1>2, <1>3, <1>7, <3>1
    <3>3. ASSUME NEW k \in j..N PROVE history'[k].outcome \in {o, "not_evaluated"}
      <4>1. k \in 1..N /\ (k <= Newest => k \in j..Newest)
        BY <1>1, <1>3, <1>7, <3>2
      <4>2. k # N => k \in 1..Len(history) /\ history'[k] = history[k]
        BY <1>1, <1>2, <4>1
      <4> QED
        BY <1>1, <1>2, <1>3, <1>7, <3>1, <4>1, <4>2
    <3> QED
      BY <1>1, <1>4, <3>2, <3>3
  <2>3. StreakRuns(N)' = S \cup {N} /\ N \notin S
    BY <1>5, <2>1, <2>2
  <2>4. IsFiniteSet(S) /\ Streak(Newest) = Cardinality(S)
    BY <1>1, <1>3, <1>7, StreakIsFinite
  <2> HIDE DEF S
  <2>5. Cardinality(S \cup {N}) = Cardinality(S) + 1
    BY <2>3, <2>4, FS_AddElement
  <2> QED
    BY <1>6, <1>7, <2>3, <2>4, <2>5 DEF StreakOf
<1>8. CASE ~(Newest # 0 /\ history[Newest].outcome = o)
  <2>1. ASSUME NEW j \in StreakRuns(N)', j # N PROVE FALSE
    <3>1. /\ j \in 1..Len(history) /\ history[j].outcome = o
          /\ \A k \in j..N : history'[k].outcome \in {o, "not_evaluated"}
      BY <1>1, <1>2, <1>4, <2>1
    <3>2. Newest # 0 /\ j <= Newest
      BY <1>1, <1>3, <3>1
    <3>3. Newest \in j..N /\ history'[Newest] = history[Newest]
      BY <1>1, <1>2, <1>3, <3>1, <3>2
    <3> QED
      BY <1>3, <1>8, <3>1, <3>2, <3>3
  <2>2. StreakRuns(N)' = {N}
    BY <1>5, <2>1
  <2>3. Streak(N)' = 1
    BY <1>6, <2>2, FS_Singleton
  <2>4. StreakOf(o) = 0
    BY <1>8 DEF StreakOf
  <2> QED
    BY <2>3, <2>4
<1> QED
  BY <1>7, <1>8

(* The newest run that evaluated anything, after another run.              *)
LEMMA NewestStep ==
    ASSUME TypeOK, NewestCounts, NEW ev, history' = Append(history, ev),
           NEW N, N = Len(history) + 1
    PROVE  /\ Newest' = IF ev.outcome # "not_evaluated" THEN N ELSE Newest
           /\ NewestCounts'
<1> DEFINE counted == {i \in Runs : history[i].outcome # "not_evaluated"}
<1>1. /\ history \in Seq(Evaluations) /\ Len(history) \in Nat /\ N \in Nat
      /\ Len(history') = N
  BY DEF TypeOK
<1>2. /\ history'[N] = ev /\ \A k \in 1..Len(history) : history'[k] = history[k]
      /\ Runs' = Runs \cup {N} /\ N \notin Runs /\ Runs = 1..Len(history)
  BY <1>1 DEF Runs
<1>3. CASE ev.outcome # "not_evaluated"
  <2>1. counted' = counted \cup {N}
    BY <1>2, <1>3
  <2>2. \A j \in counted' : j <= N
    BY <1>1, <1>2, <2>1
  <2>3. \A i \in counted' : (\A j \in counted' : j <= i) => i = N
    BY <1>1, <1>2, <2>1
  <2>4. counted' # {} /\ N \in counted'
    BY <2>1
  <2> HIDE DEF counted
  <2>5. (CHOOSE i \in counted' : \A j \in counted' : j <= i) = N
    BY <2>2, <2>3, <2>4
  <2>6. Newest' = N
    BY <2>4, <2>5 DEF Newest, counted
  <2>7. N # 0
    BY <1>1
  <2> QED
    BY <1>3, <2>2, <2>4, <2>6, <2>7 DEF NewestCounts, counted
<1>4. CASE ev.outcome = "not_evaluated"
  <2>1. counted' = counted
    BY <1>2, <1>4
  <2> HIDE DEF counted
  <2>2. Newest = IF counted = {} THEN 0 ELSE CHOOSE i \in counted : \A j \in counted : j <= i
    BY DEF Newest, counted
  <2>3. Newest' = IF counted' = {} THEN 0 ELSE CHOOSE i \in counted' : \A j \in counted' : j <= i
    BY DEF Newest, counted
  <2>4. Newest' = Newest
    BY <2>1, <2>2, <2>3
  <2> QED
    BY <1>4, <2>1, <2>4 DEF NewestCounts, counted
<1> QED
  BY <1>3, <1>4

-----------------------------------------------------------------------------
(* The latch and the history.                                              *)

Capped(n) == IF n < CounterCap THEN n ELSE CounterCap

LEMMA StreakOfType == TypeOK /\ NewestCounts => \A o : StreakOf(o) \in Nat
<1> SUFFICES ASSUME TypeOK, NewestCounts, NEW o PROVE StreakOf(o) \in Nat
  OBVIOUS
<1>1. Newest # 0 => Newest \in Nat
  BY DEF NewestCounts, Runs
<1> QED
  BY <1>1, StreakIsFinite DEF StreakOf

(* The streak of an outcome, after another run.                            *)
LEMMA StreakOfStep ==
    ASSUME TypeOK, NewestCounts, NEW ev \in Evaluation, history' = Append(history, ev),
           NEW o \in {"active", "clear"}
    PROVE  StreakOf(o)' = IF ev.outcome = o THEN StreakOf(o) + 1
                          ELSE IF ev.outcome = "not_evaluated" THEN StreakOf(o) ELSE 0
<1>1. PICK N : N = Len(history) + 1
  OBVIOUS
<1>2. /\ history \in Seq(Evaluations) /\ Len(history) \in Nat /\ N \in Nat /\ N # 0
      /\ history'[N] = ev /\ \A k \in 1..Len(history) : history'[k] = history[k]
      /\ ev.outcome \in {"active", "clear", "not_evaluated"}
  BY <1>1 DEF TypeOK, Evaluation, Outcome
<1>3. Newest' = IF ev.outcome # "not_evaluated" THEN N ELSE Newest
  BY <1>1, NewestStep
<1>4. CASE ev.outcome = o
  <2>1. Streak(N)' = StreakOf(o) + 1
    BY <1>1, <1>4, StreakGrows
  <2>2. Newest' = N /\ history'[N].outcome = o
    BY <1>2, <1>3, <1>4
  <2>3. StreakOf(o)' = Streak(N)'
    BY <1>2, <2>2 DEF StreakOf
  <2> QED
    BY <1>4, <2>1, <2>3
<1>5. CASE ev.outcome # o /\ ev.outcome # "not_evaluated"
  BY <1>2, <1>3, <1>5 DEF StreakOf
<1>6. CASE ev.outcome = "not_evaluated"
  <2>1. PICK M : M = Newest
    OBVIOUS
  <2>2. Newest' = M
    BY <1>3, <1>6, <2>1
  <2>3. CASE M = 0
    BY <1>6, <2>1, <2>2, <2>3 DEF StreakOf
  <2>4. CASE M # 0
    <3>1. M \in Runs
      BY <2>1, <2>4 DEF NewestCounts
    <3>2. Streak(M)' = Streak(M)
      BY <3>1, StreakStays
    <3>3. history'[M] = history[M]
      BY <1>2, <3>1 DEF Runs
    <3>4. StreakOf(o)' = IF history'[M].outcome = o THEN Streak(M)' ELSE 0
      BY <2>2, <2>4 DEF StreakOf
    <3>5. StreakOf(o) = IF history[M].outcome = o THEN Streak(M) ELSE 0
      BY <2>1, <2>4 DEF StreakOf
    <3> QED
      BY <1>6, <3>2, <3>3, <3>4, <3>5
  <2> QED
    BY <2>3, <2>4
<1> QED
  BY <1>4, <1>5, <1>6

(* The runs that reach their threshold, after another run.                 *)
LEMMA ReachesStep ==
    ASSUME TypeOK, NewestCounts, NEW ev \in Evaluation, history' = Append(history, ev),
           NEW N, N = Len(history) + 1, NEW o \in {"active", "clear"}
    PROVE  Reaches(o)' = IF ev.outcome = o /\ StreakOf(o) + 1 >= ev.threshold
                         THEN Reaches(o) \cup {N} ELSE Reaches(o)
<1>1. /\ history \in Seq(Evaluations) /\ Len(history) \in Nat /\ N \in Nat
      /\ history'[N] = ev /\ \A k \in 1..Len(history) : history'[k] = history[k]
      /\ Runs' = Runs \cup {N} /\ N \notin Runs /\ Runs = 1..Len(history)
  BY DEF TypeOK, Runs
<1>2. \A i \in Runs : Streak(i)' = Streak(i)
  BY StreakStays
<1>3. \A i \in Runs : i \in Reaches(o)' <=> i \in Reaches(o)
  BY <1>1, <1>2 DEF Reaches
<1>4. N \in Reaches(o)' <=> ev.outcome = o /\ Streak(N)' >= ev.threshold
  BY <1>1 DEF Reaches
<1>5. ev.outcome = o => Streak(N)' = StreakOf(o) + 1
  BY StreakGrows
<1>6. Reaches(o)' \subseteq Runs \cup {N} /\ Reaches(o) \subseteq Runs
  BY <1>1 DEF Reaches
<1>7. N \in Reaches(o)' <=> ev.outcome = o /\ StreakOf(o) + 1 >= ev.threshold
  BY <1>4, <1>5
<1>8. N \notin Runs
  BY <1>1
<1>9. CASE N \in Reaches(o)'
  <2>1. Reaches(o)' = Reaches(o) \cup {N}
    BY <1>3, <1>6, <1>9
  <2> QED
    BY <1>7, <1>9, <2>1
<1>10. CASE N \notin Reaches(o)'
  <2>1. Reaches(o)' = Reaches(o)
    BY <1>3, <1>6, <1>8, <1>10
  <2> QED
    BY <1>7, <1>10, <2>1
<1> QED
  BY <1>9, <1>10

(* What the counters decide is what the history says.                      *)
LEMMA CountersDecide ==
    ASSUME NEW streak \in Nat, NEW counter, counter = Capped(streak),
           NEW threshold \in Nat, threshold <= CounterCap
    PROVE  /\ Saturated(counter) = Capped(streak + 1)
           /\ Saturated(counter) >= threshold <=> streak + 1 >= threshold
BY CounterCapAssumption DEF Capped, Saturated

LEMMA HistoryStep ==
    TypeOK /\ NewestCounts /\ LogFollowsLatch /\ LatchFollowsHistory /\ [Next]_vars
      => (NewestCounts /\ LatchFollowsHistory)'
<1> SUFFICES ASSUME TypeOK, NewestCounts, LogFollowsLatch, LatchFollowsHistory, [Next]_vars
             PROVE  (NewestCounts /\ LatchFollowsHistory)'
  OBVIOUS
<1>1. ASSUME history' = history PROVE NewestCounts'
  <2>1. Newest' = Newest /\ Runs' = Runs
    BY <1>1 DEF Newest, Runs
  <2>2. {i \in Runs : history[i].outcome # "not_evaluated"}'
          = {i \in Runs : history[i].outcome # "not_evaluated"}
    BY <1>1, <2>1
  <2> QED
    BY <2>1, <2>2 DEF NewestCounts
<1>3. CASE Deliver \/ UNCHANGED vars
  <2>1. /\ history' = history
        /\ state'.lifecycle = state.lifecycle /\ state'.episode = state.episode
        /\ state'.active = state.active /\ state'.clear = state.clear
    BY <1>3, DeliverStep DEF vars
  <2>2. /\ LifecycleOfHistory' = LifecycleOfHistory /\ ActiveSince' = ActiveSince
        /\ StreakOf("active")' = StreakOf("active") /\ StreakOf("clear")' = StreakOf("clear")
    BY <2>1 DEF LifecycleOfHistory, ActiveSince, Reaches, Streak, StreakOf, Newest, Runs
  <2> QED
    BY <1>1, <2>1, <2>2 DEF LatchFollowsHistory
<1>4. CASE Evaluate
  <2>1. PICK ev, suppress : Evaluates(ev, suppress)
    BY <1>4, EvaluateStep
  <2>2. PICK N : N = Len(history) + 1
    OBVIOUS
  <2>3. /\ history \in Seq(Evaluations) /\ Len(history) \in Nat /\ N \in Nat
        /\ history' = Append(history, ev)
        /\ history'[N] = ev /\ \A k \in 1..Len(history) : history'[k] = history[k]
        /\ Runs' = Runs \cup {N} /\ N \notin Runs /\ Runs = 1..Len(history)
        /\ ev \in Evaluation /\ ev.outcome \in {"active", "clear", "not_evaluated"}
        /\ ev.threshold \in Nat /\ ev.threshold <= CounterCap
        /\ state \in ConditionState /\ suppress \in BOOLEAN
        /\ state' = Advance(state, ev, N, suppress)
    BY <2>1, <2>2 DEF TypeOK, Runs, Evaluates, Evaluation, Outcome
  <2>4. NewestCounts'
    BY <2>2, <2>3, NewestStep
  <2> DEFINE A == StreakOf("active")
             C == StreakOf("clear")
  <2>5. /\ A \in Nat /\ C \in Nat
        /\ state.active = Capped(A) /\ state.clear = Capped(C)
        /\ state.lifecycle = LifecycleOfHistory
        /\ \A i \in ActiveSince : state.episode <= i
        /\ ActiveSince # {} => state.episode \in ActiveSince
    BY StreakOfType DEF LatchFollowsHistory, Capped
  <2>6. /\ A' = IF ev.outcome = "active" THEN A + 1
                ELSE IF ev.outcome = "not_evaluated" THEN A ELSE 0
        /\ C' = IF ev.outcome = "clear" THEN C + 1
                ELSE IF ev.outcome = "not_evaluated" THEN C ELSE 0
    BY <2>3, StreakOfStep
  <2>7. /\ Reaches("active")' = IF ev.outcome = "active" /\ A + 1 >= ev.threshold
                                THEN Reaches("active") \cup {N} ELSE Reaches("active")
        /\ Reaches("clear")' = IF ev.outcome = "clear" /\ C + 1 >= ev.threshold
                               THEN Reaches("clear") \cup {N} ELSE Reaches("clear")
        /\ Reaches("active") \subseteq Runs /\ Reaches("clear") \subseteq Runs
    BY <2>2, <2>3, ReachesStep DEF Reaches
  <2> HIDE DEF A, C
  <2>8. /\ Saturated(state.active) = Capped(A + 1)
        /\ Saturated(state.active) >= ev.threshold <=> A + 1 >= ev.threshold
        /\ Saturated(state.clear) = Capped(C + 1)
        /\ Saturated(state.clear) >= ev.threshold <=> C + 1 >= ev.threshold
    BY <2>3, <2>5, CountersDecide
  <2>9. /\ Recovers(state, ev) <=> ev.outcome = "clear" /\ C + 1 >= ev.threshold
        /\ RaisesAlert(state, ev) <=> /\ ev.outcome = "active" /\ state.lifecycle # "firing"
                                      /\ A + 1 >= ev.threshold
    BY <2>8 DEF Recovers, RaisesAlert
  <2>10. /\ state'.active = IF ev.outcome = "active" THEN Saturated(state.active)
                            ELSE IF ev.outcome = "clear" THEN 0 ELSE state.active
         /\ state'.clear = IF ev.outcome = "clear" THEN Saturated(state.clear)
                           ELSE IF ev.outcome = "active" THEN 0 ELSE state.clear
         /\ state'.episode = IF OpensEpisode(state, ev) THEN N ELSE state.episode
         /\ state'.lifecycle =
              IF ev.outcome = "active"
              THEN IF RaisesAlert(state, ev) \/ state.lifecycle = "firing" THEN "firing" ELSE "pending"
              ELSE IF Recovers(state, ev) THEN "clear" ELSE state.lifecycle
    BY <2>3 DEF Advance, AfterActive, AfterClear, OpensEpisode, Recovers
  <2>11. state'.active = Capped(A') /\ state'.clear = Capped(C')
    BY <2>3, <2>5, <2>6, <2>8, <2>10, CounterCapAssumption DEF Capped
  <2>12. ActiveSince' = IF ev.outcome = "active" THEN ActiveSince \cup {N}
                        ELSE IF Recovers(state, ev) THEN {} ELSE ActiveSince
    <3>1. ActiveSince' = {i \in Runs \cup {N} : history'[i].outcome = "active"
                                              /\ \A r \in Reaches("clear")' : r < i}
      BY <2>3 DEF ActiveSince
    <3>2. CASE ev.outcome = "active"
      <4>1. Reaches("clear")' = Reaches("clear") /\ \A r \in Reaches("clear") : r < N
        BY <2>2, <2>3, <2>7, <3>2
      <4>2. \A i \in Runs : history'[i] = history[i]
        BY <2>3
      <4>3. history'[N].outcome = "active" /\ N \notin Runs
        BY <2>3, <3>2
      <4> QED
        BY <3>1, <3>2, <4>1, <4>2, <4>3 DEF ActiveSince
    <3>3. CASE ev.outcome # "active" /\ Recovers(state, ev)
      <4>1. N \in Reaches("clear")'
        BY <2>7, <2>9, <3>3
      <4>2. \A i \in Runs \cup {N} : ~(N < i)
        BY <2>2, <2>3
      <4> QED
        BY <3>1, <3>3, <4>1, <4>2
    <3>4. CASE ev.outcome # "active" /\ ~Recovers(state, ev)
      <4>1. Reaches("clear")' = Reaches("clear")
        BY <2>7, <2>9, <3>4
      <4> QED
        BY <2>3, <3>1, <3>4, <4>1 DEF ActiveSince
    <3> QED
      BY <3>2, <3>3, <3>4
  <2>13. ActiveSince \subseteq Runs
    BY DEF ActiveSince
  <2>14. LifecycleOfHistory = IF ActiveSince = {} THEN "clear"
                              ELSE IF ActiveSince \cap Reaches("active") = {} THEN "pending"
                              ELSE "firing"
    BY DEF LifecycleOfHistory
  <2>15. LifecycleOfHistory' = IF ActiveSince' = {} THEN "clear"
                               ELSE IF ActiveSince' \cap Reaches("active")' = {} THEN "pending"
                               ELSE "firing"
    BY DEF LifecycleOfHistory
  <2>16. state'.lifecycle = LifecycleOfHistory'
    <3>1. CASE ev.outcome = "active"
      <4>1. ActiveSince' = ActiveSince \cup {N} /\ ActiveSince' # {}
        BY <2>12, <3>1
      <4>2. ActiveSince' \cap Reaches("active")' # {} <=>
              ActiveSince \cap Reaches("active") # {} \/ A + 1 >= ev.threshold
        BY <2>3, <2>7, <2>13, <3>1, <4>1
      <4> QED
        BY <2>5, <2>9, <2>10, <2>14, <2>15, <3>1, <4>1, <4>2
    <3>2. CASE ev.outcome # "active"
      <4>1. Reaches("active")' = Reaches("active")
        BY <2>7, <3>2
      <4> QED
        BY <2>5, <2>10, <2>12, <2>14, <2>15, <3>2, <4>1
    <3> QED
      BY <3>1, <3>2
  <2>17. /\ \A i \in ActiveSince' : state'.episode <= i
         /\ ActiveSince' # {} => state'.episode \in ActiveSince'
    <3>1. OpensEpisode(state, ev) <=> ev.outcome = "active" /\ ActiveSince = {}
      BY <2>5, <2>14 DEF OpensEpisode
    <3>2. CASE OpensEpisode(state, ev)
      <4>1. ActiveSince' = {N} /\ state'.episode = N
        BY <2>10, <2>12, <3>1, <3>2
      <4> QED
        BY <2>3, <4>1
    <3>3. CASE ~OpensEpisode(state, ev)
      <4>1. state'.episode = state.episode
        BY <2>10, <3>3
      <4>2. CASE ev.outcome = "active"
        <5>1. ActiveSince # {} /\ ActiveSince' = ActiveSince \cup {N}
          BY <2>12, <3>1, <3>3, <4>2
        <5>2. state.episode \in ActiveSince /\ state.episode \in Runs
          BY <2>5, <2>13, <5>1
        <5>3. state.episode <= N
          BY <2>2, <2>3, <5>2
        <5> QED
          BY <2>5, <4>1, <5>1, <5>2, <5>3
      <4>3. CASE ev.outcome # "active"
        BY <2>5, <2>12, <4>1, <4>3
      <4> QED
        BY <4>2, <4>3
    <3> QED
      BY <3>2, <3>3
  <2> QED
    BY <2>4, <2>11, <2>16, <2>17 DEF LatchFollowsHistory, Capped, A, C
<1> QED
  BY <1>3, <1>4 DEF Next

-----------------------------------------------------------------------------
(* The theorems.                                                           *)

LEMMA InitInv == Init => HistoryInv
<1> SUFFICES ASSUME Init PROVE HistoryInv
  OBVIOUS
<1>1. /\ state = NewCondition /\ history = <<>> /\ log = <<>>
      /\ Len(history) = 0 /\ DOMAIN log = {} /\ Runs = {}
  BY DEF Init, Runs
<1>2. TypeOK
  BY <1>1, CounterCapAssumption DEF TypeOK, NewCondition, ConditionState, Lifecycle, DeliveryState
<1>3. EpisodesAreAnnouncedOnce /\ LogFollowsLatch
  BY <1>1 DEF EpisodesAreAnnouncedOnce, LogFollowsLatch, NewCondition
<1>4. Newest = 0 /\ NewestCounts
  BY <1>1 DEF Newest, NewestCounts
<1>5. StreakOf("active") = 0 /\ StreakOf("clear") = 0
  BY <1>4 DEF StreakOf
<1>6. ActiveSince = {} /\ LifecycleOfHistory = "clear"
  BY <1>1 DEF ActiveSince, LifecycleOfHistory
<1>7. LatchFollowsHistory
  BY <1>1, <1>5, <1>6, CounterCapAssumption DEF LatchFollowsHistory, NewCondition
<1> QED
  BY <1>2, <1>3, <1>4, <1>7 DEF HistoryInv

THEOREM Invariant == Spec => []HistoryInv
<1>1. HistoryInv /\ [Next]_vars => HistoryInv'
  BY TypeStep, AnnouncedStep, HistoryStep DEF HistoryInv
<1> QED
  BY <1>1, InitInv, PTL DEF Spec

(* Two saturating counters, a lifecycle and an episode are what the whole   *)
(* history says, for any number of runs and thresholds that change at each. *)
THEOREM LatchRemembersItsHistory == Spec => []LatchFollowsHistory
<1>1. HistoryInv => LatchFollowsHistory
  BY DEF HistoryInv
<1> QED
  BY <1>1, Invariant, PTL

(* An episode is alerted at most once and resolved at most once, after its  *)
(* alert and only for one that was really sent and confirmed.              *)
THEOREM NothingIsAnnouncedTwice == Spec => []EpisodesAreAnnouncedOnce
<1>1. HistoryInv => EpisodesAreAnnouncedOnce
  BY DEF HistoryInv
<1> QED
  BY <1>1, Invariant, PTL

=============================================================================
