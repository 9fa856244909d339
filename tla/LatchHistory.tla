---------------------------- MODULE LatchHistory ----------------------------
(***************************************************************************)
(* One condition over a sequence of runs, against its whole history: the    *)
(* latch keeps two counters, a lifecycle and an episode; here they are      *)
(* compared with what the runs so far say by definition, and its            *)
(* transitions with what may ever be announced of an episode.               *)
(*                                                                         *)
(* Delivery is reduced to its outcome: between two runs the owed message is *)
(* delivered, refused, quarantined, or stays queued.                        *)
(***************************************************************************)
EXTENDS Latch, Sequences, FiniteSets

CONSTANTS
    Evaluations,    \* the evaluations a run can make
    Suppressions,   \* values of suppress_notifications
    MaxRuns         \* bound on the number of runs

ASSUME EvaluationsAssumption == Evaluations \subseteq Evaluation
ASSUME SuppressionsAssumption == Suppressions \subseteq BOOLEAN
ASSUME MaxRunsAssumption == MaxRuns \in Nat

\* The thresholds are u32 as the counters are.
ASSUME ThresholdsAssumption == \A ev \in Evaluations : ev.threshold <= CounterCap

VARIABLES
    state,      \* the latch
    history,    \* the evaluations so far, oldest first
    log         \* the transitions so far, oldest first

vars == <<state, history, log>>

-----------------------------------------------------------------------------
Init ==
    /\ state = NewCondition
    /\ history = <<>>
    /\ log = <<>>

\* A transition as commit_run queues it, with what the latch knew of the alert.
Transition(kind, suppress) ==
    [kind |-> kind, episode |-> state'.episode, suppressed |-> suppress,
     confirmed |-> state.delivery = "delivered"]

\* commit_run, for the condition.
Evaluate ==
    /\ Len(history) < MaxRuns
    /\ \E ev \in Evaluations, suppress \in Suppressions :
         /\ state' = Advance(state, ev, Len(history) + 1, suppress)
         /\ history' = Append(history, ev)
         /\ log' = IF RaisesAlert(state, ev) THEN Append(log, Transition("alert", suppress))
                   ELSE IF RaisesResolution(state, ev, suppress)
                   THEN Append(log, Transition("resolution", suppress))
                   ELSE log

\* The attempt of the owed message gets a result that moves the latch.
Deliver ==
    /\ state.delivery = "pending"
    /\ \E reached \in {IF state.lifecycle = "clear" THEN "resolved" ELSE "delivered",
                       "failed", "unknown"} :
         state' = [state EXCEPT !.delivery = reached]
    /\ UNCHANGED <<history, log>>

Next == Evaluate \/ Deliver

Spec == Init /\ [][Next]_vars

-----------------------------------------------------------------------------
(* What the history says.                                                  *)

Runs == 1..Len(history)

\* The run and those before it that have its outcome, with no opposite one in
\* between; runs that evaluated nothing do not interrupt a streak.
Streak(i) ==
    Cardinality({j \in 1..i :
        /\ history[j].outcome = history[i].outcome
        /\ \A k \in j..i : history[k].outcome \in {history[i].outcome, "not_evaluated"}})

\* The newest run that evaluated anything, 0 if there is none.
Newest ==
    LET counted == {i \in Runs : history[i].outcome # "not_evaluated"}
    IN  IF counted = {} THEN 0 ELSE CHOOSE i \in counted : \A j \in counted : j <= i

StreakOf(outcome) ==
    IF Newest # 0 /\ history[Newest].outcome = outcome THEN Streak(Newest) ELSE 0

\* Runs at which a streak is long enough by the threshold of that very run.
Reaches(outcome) ==
    {i \in Runs : history[i].outcome = outcome /\ Streak(i) >= history[i].threshold}

\* Active runs after the newest recovery.
ActiveSince ==
    {i \in Runs : history[i].outcome = "active" /\ \A r \in Reaches("clear") : r < i}

LifecycleOfHistory ==
    IF ActiveSince = {} THEN "clear"
    ELSE IF ActiveSince \cap Reaches("active") = {} THEN "pending"
    ELSE "firing"

-----------------------------------------------------------------------------
(* Properties.                                                             *)

\* Two counters and a lifecycle are all the memory a condition needs: whatever
\* thresholds the configuration had at each run, they are what the whole
\* history says, an open episode is the first active run since the newest
\* recovery, and saturation never hides a threshold that fits the counter.
LatchFollowsHistory ==
    /\ state.lifecycle = LifecycleOfHistory
    /\ \A i \in ActiveSince : state.episode <= i
    /\ ActiveSince # {} => state.episode \in ActiveSince
    /\ \A pair \in {<<state.active, StreakOf("active")>>, <<state.clear, StreakOf("clear")>>} :
         pair[1] = IF pair[2] < CounterCap THEN pair[2] ELSE CounterCap

\* Over any sequence of runs and results an episode has at most one alert and
\* at most one resolution, after the alert; and a resolution is sent only for
\* an alert that was really sent and confirmed, never for a suppressed one.
EpisodesAreAnnouncedOnce ==
    /\ \A i, j \in DOMAIN log :
         i # j => <<log[i].episode, log[i].kind>> # <<log[j].episode, log[j].kind>>
    /\ \A j \in DOMAIN log : log[j].kind = "resolution" =>
         \E i \in 1..(j - 1) :
            /\ log[i].kind = "alert" /\ log[i].episode = log[j].episode
            /\ ~log[j].suppressed => ~log[i].suppressed /\ log[j].confirmed

-----------------------------------------------------------------------------
(* The inductive invariant: what the two properties rest on.               *)

TypeOK ==
    /\ state \in ConditionState
    /\ history \in Seq(Evaluations)
    /\ log \in Seq([kind : Kind, episode : Nat, suppressed : BOOLEAN, confirmed : BOOLEAN])

\* The log has no episode that is still to come; nothing of a pending one; and
\* of a firing one the alert, suppressed only if the latch says so.
LogFollowsLatch ==
    /\ state.episode <= Len(history)
    /\ \A i \in DOMAIN log : log[i].episode <= state.episode
    /\ state.lifecycle = "pending" =>
         /\ state.delivery = "never"
         /\ \A i \in DOMAIN log : log[i].episode # state.episode
    /\ state.lifecycle = "firing" =>
         /\ \A i \in DOMAIN log : log[i].kind = "resolution" => log[i].episode # state.episode
         /\ \E i \in DOMAIN log :
              /\ log[i].kind = "alert" /\ log[i].episode = state.episode
              /\ log[i].suppressed => state.delivery = "suppressed"

\* The newest run that evaluated anything is one, and none is newer.
NewestCounts ==
    LET counted == {i \in Runs : history[i].outcome # "not_evaluated"}
    IN  IF Newest = 0 THEN counted = {}
        ELSE Newest \in counted /\ \A j \in counted : j <= Newest

HistoryInv ==
    /\ TypeOK
    /\ EpisodesAreAnnouncedOnce
    /\ LogFollowsLatch
    /\ NewestCounts
    /\ LatchFollowsHistory

=============================================================================
