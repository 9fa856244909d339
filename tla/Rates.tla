-------------------------------- MODULE Rates --------------------------------
(***************************************************************************)
(* Behavioural conditions: what is kept of the hourly counters of the       *)
(* resolvers, which of it is read back, and what a check concludes from it. *)
(* One step of the model is one committed run together with the traffic     *)
(* since the run before it.                                                 *)
(*                                                                         *)
(* The resolvers are external: each counts its traffic since its own last   *)
(* hour.  `total` is the traffic they really had; a stored reading remembers *)
(* it next to the counters, so that windows can be compared with it.        *)
(* Initially the store may hold migrated readings, of which some are        *)
(* inexact: a saturated counter of a version 1 state (a precision barrier). *)
(*                                                                         *)
(* Runs have numbers that grow in the order of completed_at and rowid:      *)
(* those of migrated runs are at most 0.  A series of readings is a function *)
(* of the runs they are from.                                               *)
(*                                                                         *)
(* Fractions (rates, ratios) are integers in units of 1/Scale, and medians  *)
(* are doubled, so that nothing is rounded.                                 *)
(***************************************************************************)
EXTENDS Integers, SequencesExt

CONSTANTS
    Member,             \* behavioral_baseline.target_ids
    Traffic,            \* what may happen between two runs, see Traffics
    Attendance,         \* sets of members that may be observed completely
    Steps,              \* seconds between runs
    Retention,          \* values of state.retention_days, in seconds
    Migrated,           \* the runs that a migrated state may begin with
    Hour,               \* the local hour of a time, in the configured zone
    HourLength, Phase,  \* when the counters of a member start again
    MaximumGap,         \* RATE_WINDOW_MAXIMUM_SECONDS
    Learning,           \* learning_days, in seconds
    MinimumWindows,     \* minimum_same_hour_samples
    MinimumQueries,     \* RATE_WINDOW_MINIMUM_QUERIES
    MaxCounter,         \* u64::MAX
    Scale,              \* the unit of fractions
    MaxRuns             \* bound on the committed runs

Counts == [queries : Nat, blocked : Nat]
Seen == [queries : Int, blocked : Int]      \* traffic, from time 0 on

\* Traffic of each member, before or after the counters that start again.
Traffics == [early : BOOLEAN, counts : [Member -> Counts]]

ASSUME TrafficAssumption == Traffic \subseteq Traffics
ASSUME MemberAssumption == IsFiniteSet(Member) /\ "group" \notin Member
ASSUME AttendanceAssumption == Attendance \subseteq SUBSET Member
ASSUME TimesAssumption == Steps \cup Retention \subseteq Nat /\ Phase \in [Member -> Nat]
\* What validation asks for: retention_days is at least learning_days.
ASSUME RetentionAssumption == \A seconds \in Retention : seconds >= Learning
ASSUME ScaleAssumption == Scale \in Nat /\ \A n \in 1..MaximumGap : Scale % n = 0
ASSUME ThresholdsAssumption ==
    {Learning, MaximumGap, MinimumQueries} \subseteq Nat /\ MinimumWindows \in Nat \ {0}

VARIABLES
    now,        \* the time of the newest run
    counter,    \* the resolvers: counts since the counters started again
    total,      \* the resolvers: counts since ever
    runs,       \* the stored runs, by their numbers
    origin,     \* history: the runs that the state was migrated with
    committed,  \* history: the number of committed runs
    used        \* the windows that the newest evaluation of each subject used

vars == <<now, counter, total, runs, origin, committed, used>>

Zero == [queries |-> 0, blocked |-> 0]

Plus(a, b) == [queries |-> a.queries + b.queries, blocked |-> a.blocked + b.blocked]

Minus(a, b) == [queries |-> a.queries - b.queries, blocked |-> a.blocked - b.blocked]

AtLeast(a, b) == a.queries >= b.queries /\ a.blocked >= b.blocked

\* The stored runs of a state: their time, the traffic until then, and what was
\* read of the members that were observed.
IsStore(s) ==
    /\ IsFiniteSet(DOMAIN s) /\ DOMAIN s \subseteq Int
    /\ \A i \in DOMAIN s :
         /\ s[i].time \in Int /\ s[i].seen \in [Member -> Seen]
         /\ DOMAIN s[i].readings \subseteq Member
         /\ \A t \in DOMAIN s[i].readings : s[i].readings[t] \in [counts : Counts, exact : BOOLEAN]

\* The exact readings of t.
Exact(s, t) == {i \in DOMAIN s : t \in DOMAIN s[i].readings /\ s[i].readings[t].exact}

Inexact(s, t) == {i \in DOMAIN s : t \in DOMAIN s[i].readings /\ ~s[i].readings[t].exact}

\* What counters do not tell of the traffic of t when they are read: it grows.
Untold(s, i, t) == Minus(s[i].seen[t], s[i].readings[t].counts)

\* A migrated state is the work of earlier checks, up to time 0.
ASSUME MigratedAssumption ==
    \A s \in Migrated :
        /\ IsStore(s) /\ \A i \in DOMAIN s : i <= 0 /\ s[i].time <= 0
        /\ \A i, j \in DOMAIN s : i <= j => s[i].time <= s[j].time
        /\ \A t \in Member : \A i \in Exact(s, t) :
             /\ AtLeast(Zero, Untold(s, i, t))
             /\ \A j \in Exact(s, t) : i <= j => AtLeast(Untold(s, j, t), Untold(s, i, t))

-----------------------------------------------------------------------------
(* What the store keeps and what it reads back.                            *)

Newest(S) == {i \in S : \A j \in S : j <= i}
Oldest(S) == {i \in S : \A j \in S : i <= j}

\* The run of the latest inexact reading of t, if there is one.
Barrier(s, t) == Newest(Inexact(s, t))

\* Mutant: barriers are pruned like any other run.
RetainedForEvidence(s, cutoff, evidence) ==
    {i \in DOMAIN s : s[i].time >= cutoff \/ i \in evidence}

\* prune_runs keeps what is recent, each member's latest barrier, and whatever
\* still has delivery evidence.
Retained(s, cutoff, evidence) ==
    {i \in DOMAIN s : s[i].time >= cutoff \/ i \in evidence \/ \E t \in Member : i \in Barrier(s, t)}

\* load_target_samples: the runs whose reading of t is used.
Samples(t, cutoff) ==
    {i \in Exact(runs, t) : runs[i].time >= cutoff /\ \A b \in Barrier(runs, t) : i > b}

\* A reading as it is differenced, with the traffic it had seen.
Point(time, counts, seen) == [time |-> time, counts |-> counts, seen |-> seen]

Series(t, cutoff) ==
    [i \in Samples(t, cutoff) |-> Point(runs[i].time, runs[i].readings[t].counts, runs[i].seen[t])]

Sum(f, S) == FoldSet(LAMBDA t, acc : Plus(f[t], acc), Zero, S)

\* The members that reported in a run, and the sums of what they reported.
Present(i, cutoff) == {t \in Member : i \in Samples(t, cutoff)}

Fits(counts) == counts.queries <= MaxCounter /\ counts.blocked <= MaxCounter

RunCounts(i) == [t \in DOMAIN runs[i].readings |-> runs[i].readings[t].counts]

\* An overflow in any run makes the whole group unavailable.
Overflows(cutoff) ==
    \E i \in DOMAIN runs : ~Fits(Sum(RunCounts(i), Present(i, cutoff)))

\* Mutant: a run is summed over the members that happen to be there.
AnyMember(i, cutoff) == Present(i, cutoff) # {}

AllMembers(i, cutoff) == Present(i, cutoff) = Member

\* combined_readings: runs in which every member reported.
GroupSeries(cutoff) ==
    [i \in {i \in DOMAIN runs : AllMembers(i, cutoff)} |->
        Point(runs[i].time, Sum(RunCounts(i), Present(i, cutoff)), Sum(runs[i].seen, Member))]

-----------------------------------------------------------------------------
(* Windows.                                                                *)

\* window_between: p and c can be differenced.
IsWindow(p, c) ==
    /\ AtLeast(c.counts, p.counts)
    /\ c.time - p.time \in 1..MaximumGap
    /\ Minus(c.counts, p.counts).blocked <= Minus(c.counts, p.counts).queries

\* The window from the reading p of the run i to the reading c.
Window(i, p, c) ==
    [counts |-> Minus(c.counts, p.counts), elapsed |-> c.time - p.time, from |-> i, end |-> c.time,
     seen |-> Minus(c.seen, p.seen)]

Rate(w) == (w.counts.queries * Scale) \div w.elapsed

Ratio(w) == IF w.counts.queries = 0 THEN 0 ELSE (w.counts.blocked * Scale) \div w.counts.queries

\* comparable_blocked_ratio
Comparable(w) == w.counts.queries >= MinimumQueries

\* The pairs of readings that follow each other, of which the later ends a window.
Pairs(series) ==
    {p \in (DOMAIN series) \X (DOMAIN series) :
        /\ p[1] < p[2] /\ ~\E k \in DOMAIN series : p[1] < k /\ k < p[2]
        /\ IsWindow(series[p[1]], series[p[2]])}

\* Mutant: the hour of a window is not looked at.
AnyHour(series, hour) ==
    [p \in Pairs(series) |-> Window(p[1], series[p[1]], series[p[2]])]

\* The windows of earlier readings that end in the same local hour.
SameHour(series, hour) ==
    [p \in {p \in Pairs(series) : Hour[series[p[2]].time] = hour} |->
        Window(p[1], series[p[1]], series[p[2]])]

\* The window that ends at the current reading: at most one.
Current(series, point) ==
    {Window(i, series[i], point) : i \in {i \in Newest(DOMAIN series) : IsWindow(series[i], point)}}

\* The history is old enough.
Aged(series, time) == \E i \in Oldest(DOMAIN series) : time - series[i].time >= Learning

\* What one evaluation of a subject has to go on.
Basis(series, point) ==
    [aged |-> Aged(series, point.time),
     times |-> {series[i].time : i \in DOMAIN series},
     history |-> SameHour(series, Hour[point.time]),
     current |-> Current(series, point)]

-----------------------------------------------------------------------------
(* Verdicts, functions of a basis b.                                       *)

\* The k-th smallest value of f, a value counted as often as f takes it.
KthSmallest(f, k) ==
    CHOOSE v \in Range(f) :
        /\ Cardinality({d \in DOMAIN f : f[d] < v}) < k
        /\ Cardinality({d \in DOMAIN f : f[d] <= v}) >= k

\* Twice the median of the values of f: of the middle one, or of both.
DoubleMedian(f) ==
    LET n == Cardinality(DOMAIN f) IN KthSmallest(f, (n + 1) \div 2) + KthSmallest(f, n \div 2 + 1)

Distance(a, b) == IF a > b THEN a - b ELSE b - a

\* robust_bounds: twice the median, and four times the median of the
\* absolute deviations from it.  The floor of 1e-9 is less than any fraction.
Bounds(f) ==
    LET m2 == DoubleMedian(f)
    IN  [m2 |-> m2, mad4 |-> DoubleMedian([d \in DOMAIN f |-> Distance(2 * f[d], m2)])]

Rates(b) == [p \in DOMAIN b.history |-> Rate(b.history[p])]

\* The windows of b that carry a comparable ratio.
ComparableWindows(b) == {p \in DOMAIN b.history : Comparable(b.history[p])}

Ratios(b) == [p \in ComparableWindows(b) |-> Ratio(b.history[p])]

Trained(b, population) == b.aged /\ Cardinality(DOMAIN population) >= MinimumWindows

\* Mutant: either bound is enough.
EitherBound(b) ==
    IF ~Trained(b, Rates(b)) THEN "baseline_learning"
    ELSE IF b.current = {} THEN "rate_window_unavailable"
    ELSE LET v == Rate(CHOOSE w \in b.current : TRUE)
             k == Bounds(Rates(b))
         IN  IF 2 * v > 3 * k.m2 \/ 40000 * v > 20000 * k.m2 + 59304 * k.mad4
             THEN "active" ELSE "clear"

\* The query rate: above max(3 m, m + 4 d), where d = 1.4826 MAD.
RateVerdict(b) ==
    IF ~Trained(b, Rates(b)) THEN "baseline_learning"
    ELSE IF b.current = {} THEN "rate_window_unavailable"
    ELSE LET v == Rate(CHOOSE w \in b.current : TRUE)
             k == Bounds(Rates(b))
         IN  IF 2 * v > 3 * k.m2 /\ 40000 * v > 20000 * k.m2 + 59304 * k.mad4
             THEN "active" ELSE "clear"

\* What the two ratio conditions can be compared with.
RatioSupport(b) ==
    IF ~Trained(b, Ratios(b)) THEN "baseline_learning"
    ELSE IF b.current = {} THEN "rate_window_unavailable"
    ELSE IF ~Comparable(CHOOSE w \in b.current : TRUE) THEN "window_too_small" ELSE "compared"

\* The blocked ratio: further from the median than max(0.04, 6 d).
RatioVerdict(b) ==
    IF RatioSupport(b) # "compared" THEN RatioSupport(b)
    ELSE LET k == Bounds(Ratios(b))
             off == Distance(2 * Ratio(CHOOSE w \in b.current : TRUE), k.m2)
         IN  IF 100 * off > 8 * Scale /\ 20000 * off > 88956 * k.mad4 THEN "active" ELSE "clear"

\* Blocking collapse: below a quarter of the median.
CollapseVerdict(b) ==
    IF RatioSupport(b) # "compared" THEN RatioSupport(b)
    ELSE IF 8 * Ratio(CHOOSE w \in b.current : TRUE) < Bounds(Ratios(b)).m2 THEN "active" ELSE "clear"

-----------------------------------------------------------------------------
Init ==
    /\ now = 0
    /\ counter = [t \in Member |-> Zero]
    /\ total = [t \in Member |-> Zero]
    /\ runs \in Migrated
    /\ origin = runs
    /\ committed = 0
    /\ used = [s \in {} |-> Basis(<<>>, Point(0, Zero, Zero))]

\* Do the counters of t start again between two times?
StartsAgain(t, from, to) == (from + Phase[t]) \div HourLength # (to + Phase[t]) \div HourLength

CounterAfter(t, time, traffic) ==
    IF ~StartsAgain(t, now, time) THEN Plus(counter[t], traffic.counts[t])
    ELSE IF traffic.early THEN Zero ELSE traffic.counts[t]

\* The subjects that are evaluated: complete members, and the group if every
\* member is complete and no sum overflows.
Evaluated(attending, cutoff, counters) ==
    attending \cup IF attending = Member /\ Fits(Sum(counters, Member)) /\ ~Overflows(cutoff)
                   THEN {"group"} ELSE {}

\* One committed run: traffic, observation, evaluation from what is stored,
\* and the commit with its pruning, in that order.
CommitRun ==
    /\ committed < MaxRuns
    /\ \E step \in Steps, traffic \in Traffic, attending \in Attendance, retention \in Retention :
         LET time == now + step
             cutoff == time - retention
             counters == [t \in Member |-> CounterAfter(t, time, traffic)]
             totals == [t \in Member |-> Plus(total[t], traffic.counts[t])]
             run == [time |-> time, seen |-> totals,
                     readings |-> [t \in attending |-> [counts |-> counters[t], exact |-> TRUE]]]
             stored == [i \in DOMAIN runs \cup {committed + 1} |->
                            IF i = committed + 1 THEN run ELSE runs[i]]
         IN  /\ now' = time
             /\ counter' = counters
             /\ total' = totals
             /\ used' = [s \in Evaluated(attending, cutoff, counters) |->
                  IF s = "group"
                  THEN Basis(GroupSeries(cutoff), Point(time, Sum(counters, Member), Sum(totals, Member)))
                  ELSE Basis(Series(s, cutoff), Point(time, counters[s], totals[s]))]
             /\ \E evidence \in SUBSET {i \in DOMAIN runs : runs[i].time < cutoff} :
                  runs' = Restrict(stored, Retained(stored, cutoff, evidence))
    /\ committed' = committed + 1
    /\ UNCHANGED origin

Next == CommitRun

Spec == Init /\ [][Next]_vars

-----------------------------------------------------------------------------
(* Properties.                                                             *)

\* The windows of a basis.
WindowsOf(b) == Range(b.history) \cup b.current

\* No window holds more than what really happened between its readings, for
\* one resolver and for the group: over counters that start again, members that
\* are missing from some runs, and readings that were pruned in between.
NeverOvercounts ==
    \A s \in DOMAIN used : \A w \in WindowsOf(used[s]) :
        /\ AtLeast(w.seen, w.counts)
        /\ w.counts.blocked <= w.counts.queries

\* No window reaches over an inexact reading of its subject, although pruning
\* may keep older runs for their delivery evidence, and a longer retention may
\* make them visible again.
NoWindowBridgesABarrier ==
    \A s \in DOMAIN used : \A w \in WindowsOf(used[s]) :
        \A t \in IF s = "group" THEN Member ELSE {s} :
            \A i \in Inexact(origin, t) : w.from > i

\* Nothing is concluded from less than the configuration asks for: enough
\* windows of the very local hour, a history of the configured age and a
\* current window; and the two populations are judged apart: few comparable
\* ratios do not silence the rate, many rates do not admit a ratio.
VerdictsAreSupported ==
    \A s \in DOMAIN used :
        LET b == used[s]
            old == \E time \in b.times : time <= now - Learning
            ofHour == \A p \in DOMAIN b.history : Hour[b.history[p].end] = Hour[now]
            ratios == {p \in DOMAIN b.history : b.history[p].counts.queries >= MinimumQueries}
        IN  /\ RateVerdict(b) \in {"active", "clear"} <=>
                  old /\ ofHour /\ Cardinality(DOMAIN b.history) >= MinimumWindows /\ b.current # {}
            /\ {RatioVerdict(b), CollapseVerdict(b)} \subseteq {"active", "clear"} <=>
                  /\ old /\ ofHour /\ Cardinality(ratios) >= MinimumWindows
                  /\ \E w \in b.current : w.counts.queries >= MinimumQueries

\* An alarm is exceptional, whatever single windows look like: an alarming rate
\* is more than three times that of at least half of the windows of its hour,
\* and a collapsed ratio less than a quarter of that of at least half of them.
AlarmsAreExceptional ==
    \A s \in DOMAIN used :
        LET b == used[s] IN
        \A w \in b.current :
            /\ RateVerdict(b) = "active" =>
                  2 * Cardinality({p \in DOMAIN b.history : 3 * Rate(b.history[p]) < Rate(w)})
                     >= Cardinality(DOMAIN b.history)
            /\ CollapseVerdict(b) = "active" =>
                  2 * Cardinality({p \in ComparableWindows(b) : Ratio(b.history[p]) > 4 * Ratio(w)})
                     >= Cardinality(ComparableWindows(b))

\* Once every resolver has been observed in every run for the learning time,
\* no subject has too short a history.  (The validation of the configuration
\* says that retention_days has to be "at least" learning_days for it.)
LearnsInTime ==
    /\ origin = <<>> /\ committed > 0
    /\ \A i \in DOMAIN runs : DOMAIN runs[i].readings = Member
    /\ now >= Learning + Max(Steps)
    => \A s \in DOMAIN used : used[s].aged

=============================================================================
