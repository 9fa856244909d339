--------------------------- MODULE UpstreamLatency ---------------------------
(***************************************************************************)
(* Upstream latency of one target: the resolver counts the responses of its *)
(* upstreams in the current statistics unit, checks read the counters at    *)
(* some moment of their run, and the evaluation pools the differences of    *)
(* consecutive readings (ADR 0013).                                         *)
(*                                                                         *)
(* The resolver is external.  Its statistics are a function of `log`, every *)
(* response it ever gave; a reading remembers, next to the counters it      *)
(* stores, how much of the log it has seen, so that what the code computes  *)
(* from counters can be compared with what happened.                        *)
(*                                                                         *)
(* Durations are integers and averages are fractions, compared by cross     *)
(* multiplication; from_average restores the summed duration of a fraction  *)
(* exactly.  The resolver and the checks share one clock, and nobody clears *)
(* the statistics within a unit.                                            *)
(***************************************************************************)
EXTENDS Integers, Sequences, FiniteSets

CONSTANTS
    Upstream,
    Duration,           \* possible durations of a response, per upstream
    ListLimit,          \* UPSTREAM_LIST_LIMIT
    Unit,               \* STATISTICS_UNIT_SECONDS
    Lookback,           \* UPSTREAM_LOOKBACK_SECONDS
    MaximumGap,         \* RATE_WINDOW_MAXIMUM_SECONDS
    MinimumResponses,   \* UPSTREAM_MINIMUM_RESPONSES
    Threshold,          \* upstream_latency_ms
    FirstTime, MaxTime, \* bounds on the clock
    MaxResponses,       \* bound on the log
    MaxRuns             \* bound on the complete runs

ASSUME DurationAssumption == Duration \in [Upstream -> SUBSET Nat]
\* A list can not be filled by upstreams that answer in no measurable time.
ASSUME InstantAssumption ==
    IsFiniteSet(Upstream) /\ Cardinality({u \in Upstream : 0 \in Duration[u]}) < ListLimit
ASSUME LimitsAssumption ==
    /\ {ListLimit, Unit, MinimumResponses} \subseteq Nat \ {0}
    /\ {Lookback, MaximumGap, Threshold, FirstTime, MaxTime, MaxResponses, MaxRuns} \subseteq Nat

VARIABLES
    now,        \* the clock
    log,        \* the resolver: every response, oldest first
    pc,         \* where the running check is
    started,    \* when it started
    reading,    \* what it has read
    readings,   \* the upstream observations of complete runs, oldest first
    verdict     \* the evaluation of the newest run

vars == <<now, log, pc, started, reading, readings, verdict>>

-----------------------------------------------------------------------------
(* The resolver's statistics.                                              *)

UnitOf(time) == time \div Unit

\* The responses of u in the unit of `time`, among the first n.
InUnit(u, n, time) == {k \in 1..n : log[k].upstream = u /\ UnitOf(log[k].at) = UnitOf(time)}

\* The time that a set of responses took, as a set: a duration is so many ticks.
Ticks(entries) == UNION {{k} \X (1..log[k].duration) : k \in entries}

\* The pair that a set of responses counts as.
Totals(entries) == [responses |-> Cardinality(entries), total |-> Cardinality(Ticks(entries))]

Nothing == [responses |-> 0, total |-> 0]

\* Is the average of a less than that of b?
Slower(a, b) == b.total * a.responses > a.total * b.responses

\* A list keeps the largest `ListLimit` of its entries; ties are broken somehow.
\* `below` are the pairs of upstreams of which the first is less.
Listed(candidates, below) ==
    {L \in SUBSET candidates :
        /\ Cardinality(L) = IF Cardinality(candidates) < ListLimit
                            THEN Cardinality(candidates) ELSE ListLimit
        /\ (L \X (candidates \ L)) \cap below = {}}

\* The counters at `time`.
CountersAt(n, time) == [u \in Upstream |-> Totals(InUnit(u, n, time))]

Counted(counters) == {u \in Upstream : counters[u].responses > 0}

\* An average of zero is not listed.
Timed(counters) == {u \in Upstream : counters[u].total > 0}

Fewer(counters) ==
    {p \in Upstream \X Upstream : counters[p[1]].responses < counters[p[2]].responses}

Faster(counters) == {p \in Upstream \X Upstream : Slower(counters[p[1]], counters[p[2]])}

\* The statistics at `time`: the counters, and the lists of the upstreams whose
\* counts and whose averages they show.
Statistics(n, time) ==
    LET counters == CountersAt(n, time)
    IN  {[counters |-> counters, counts |-> counts, averages |-> averages] :
            counts \in Listed(Counted(counters), Fewer(counters)),
            averages \in Listed(Timed(counters), Faster(counters))}

-----------------------------------------------------------------------------
(* normalize_upstreams and the readings of the store.                      *)

\* Mutant: a list of exactly the limit is taken for complete.
TruncatedBeyondLimit(counts) == Cardinality(counts) > ListLimit

PossiblyTruncated(counts) == Cardinality(counts) >= ListLimit

\* Below the limit, an average without a positive count is invalid.
Invalid(s) == ~PossiblyTruncated(s.counts) /\ ~(s.averages \subseteq s.counts)

\* The upstreams of the observation; those counted but without an average are
\* there with a total of zero, unless the list may be truncated.
Observed(s) == IF PossiblyTruncated(s.counts) THEN s.averages ELSE s.averages \cup s.counts

\* The counts are known: from a list that is complete.  An observation without
\* upstreams has no count that could be unknown.
Known(s) == ~PossiblyTruncated(s.counts) \/ s.averages = {}

CountersOf(s) == [u \in Observed(s) |-> s.counters[u]]

\* An upstream that a reading does not have gave no responses.
Counter(r, u) == IF u \in DOMAIN r.counters THEN r.counters[u] ELSE Nothing

-----------------------------------------------------------------------------
(* The evaluation.                                                         *)

\* Both readings were certainly taken in the same unit.
SameUnit(p, c) ==
    /\ UnitOf(p.started) = UnitOf(p.completed)
    /\ UnitOf(c.started) = UnitOf(c.completed)
    /\ UnitOf(p.completed) = UnitOf(c.completed)

\* upstream_window: p and c make a window.
IsWindow(p, c) ==
    /\ c.completed - p.completed \in 1..MaximumGap
    /\ SameUnit(p, c)
    /\ \A u \in DOMAIN p.counters \cup DOMAIN c.counters :
          /\ Counter(c, u).responses >= Counter(p, u).responses
          /\ Counter(c, u).total >= Counter(p, u).total

\* readings.windows(2), of the readings that were chosen.
Consecutive(chosen) ==
    {w \in chosen \X chosen : w[1] < w[2] /\ ~\E k \in chosen : w[1] < k /\ k < w[2]}

\* The reading that is evaluated is the newest of s.
Current(s) == s[Len(s)]

\* The windows that are pooled.
Pooled(s, chosen) ==
    {w \in Consecutive(chosen) :
        /\ s[w[2]].completed > Current(s).completed - Lookback
        /\ IsWindow(s[w[1]], s[w[2]])}

\* The steps that take a counter from a to b, in the window w.
Gain(w, a, b) == {w} \X ((a + 1)..b)

\* The differences of the counters of u in the windows, added up.
PooledTotals(s, windows, u) ==
    LET responses(w) == Gain(w, Counter(s[w[1]], u).responses, Counter(s[w[2]], u).responses)
        total(w) == Gain(w, Counter(s[w[1]], u).total, Counter(s[w[2]], u).total)
    IN  [responses |-> Cardinality(UNION {responses(w) : w \in windows}),
         total |-> Cardinality(UNION {total(w) : w \in windows})]

Judged(s, windows) == {u \in Upstream : PooledTotals(s, windows, u).responses >= MinimumResponses}

\* The stored readings with known counts.
Stored(s) == {i \in 1..(Len(s) - 1) : s[i].known}

\* Mutant: the readings of the lookback, without the one that leads into it.
ShortHistory(s) == {i \in Stored(s) : s[i].completed > Current(s).completed - Lookback}

\* load_upstream_samples: those of the last UPSTREAM_HISTORY_SECONDS.
Loaded(s) == {i \in Stored(s) : s[i].completed >= Current(s).completed - (Lookback + MaximumGap)}

\* What evaluate_upstream_latency looks at; the current reading comes last.
Upto(s, samples) == {i \in samples : s[i].completed < Current(s).completed} \cup {Len(s)}

\* The windows that the current reading is evaluated from.
Basis(s) == Pooled(s, Upto(s, Loaded(s)))

\* Mutant: an average at the threshold is an alarm.
AtThreshold(s) ==
    IF ~Current(s).known \/ Basis(s) = {} \/ Judged(s, Basis(s)) = {} THEN "not_evaluated"
    ELSE IF \E u \in Judged(s, Basis(s)) :
               LET t == PooledTotals(s, Basis(s), u) IN t.total >= Threshold * t.responses
    THEN "active" ELSE "clear"

\* The slowest upstream with enough responses decides; equality is clear.
Verdict(s) ==
    IF ~Current(s).known \/ Basis(s) = {} \/ Judged(s, Basis(s)) = {} THEN "not_evaluated"
    ELSE IF \E u \in Judged(s, Basis(s)) :
               LET t == PooledTotals(s, Basis(s), u) IN t.total > Threshold * t.responses
    THEN "active" ELSE "clear"

-----------------------------------------------------------------------------
NoReading == [known |-> FALSE]

Init ==
    /\ now = FirstTime
    /\ log = <<>>
    /\ pc = "idle"
    /\ started = 0
    /\ reading = NoReading
    /\ readings = <<>>
    /\ verdict = "none"

\* The resolver.
Respond ==
    /\ Len(log) < MaxResponses
    /\ \E u \in Upstream : \E d \in Duration[u] :
          log' = Append(log, [at |-> now, upstream |-> u, duration |-> d])
    /\ UNCHANGED <<now, pc, started, reading, readings, verdict>>

Tick ==
    /\ now < MaxTime
    /\ now' = now + 1
    /\ UNCHANGED <<log, pc, started, reading, readings, verdict>>

StartCheck ==
    /\ pc = "idle"
    /\ Len(readings) < MaxRuns
    /\ pc' = "observing"
    /\ started' = now
    /\ UNCHANGED <<now, log, reading, readings, verdict>>

\* GET /control/stats and its normalisation.
Read ==
    /\ pc = "observing"
    /\ \E s \in Statistics(Len(log), now) :
          /\ ~Invalid(s)
          /\ reading' = [known |-> Known(s), counters |-> CountersOf(s),
                         seen |-> Len(log)]
    /\ pc' = "read"
    /\ UNCHANGED <<now, log, started, readings, verdict>>

\* The run completes: the reading is evaluated and stored.
CompleteRun ==
    /\ pc = "read"
    /\ LET current == [known |-> reading.known, counters |-> reading.counters,
                       seen |-> reading.seen, started |-> started, completed |-> now]
       IN  /\ readings' = Append(readings, current)
           /\ verdict' = Verdict(Append(readings, current))
    /\ pc' = "idle"
    /\ started' = 0
    /\ reading' = NoReading
    /\ UNCHANGED <<now, log>>

\* The target is incomplete, or the check ends before it commits.
Abandon ==
    /\ pc # "idle"
    /\ pc' = "idle"
    /\ started' = 0
    /\ reading' = NoReading
    /\ UNCHANGED <<now, log, readings, verdict>>

Next == Respond \/ Tick \/ StartCheck \/ Read \/ CompleteRun \/ Abandon

Spec == Init /\ [][Next]_vars

-----------------------------------------------------------------------------
(* Properties.                                                             *)

\* The responses that u really gave in a window, and in all that are pooled.
Given(w, u) == {k \in (readings[w[1]].seen + 1)..readings[w[2]].seen : log[k].upstream = u}

Truth(u) == Totals(UNION {Given(w, u) : w \in Basis(readings)})

\* What is pooled is what happened: for every upstream the counters of the
\* windows add up to the responses it gave between the readings, each counted
\* once, although the counters restart with every unit, upstreams come and go
\* in the lists, and a run may cross the end of a unit at any moment.
PooledIsTrue ==
    readings # <<>> /\ Current(readings).known =>
        \A u \in Upstream : PooledTotals(readings, Basis(readings), u) = Truth(u)

\* The verdict is the one that the true responses between the readings call
\* for: an alarm names an upstream that really was slow on average, over enough
\* responses; all clear means that enough were seen and none was slow; and
\* nothing is decided from counts that are unknown.
VerdictIsTrue ==
    readings # <<>> =>
        LET enough == {u \in Upstream :
                          Current(readings).known /\ Truth(u).responses >= MinimumResponses}
            slow == {u \in enough : Truth(u).total > Threshold * Truth(u).responses}
        IN  /\ verdict = "active" <=> slow # {}
            /\ verdict = "clear" <=> enough # {} /\ slow = {}

\* The readings that are loaded are enough: from the whole history the newest
\* run would have pooled the same ("so the oldest pooled window still has its
\* starting reading", analysis.rs:47-48).
HistorySuffices ==
    readings # <<>> /\ Current(readings).known =>
        Basis(readings) = Pooled(readings, Upto(readings, Stored(readings)))

=============================================================================
