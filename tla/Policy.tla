------------------------------- MODULE Policy -------------------------------
(***************************************************************************)
(* Policy evaluation of one target by one check, with the declarations of   *)
(* the file it has loaded: the six answers are read one after the other     *)
(* from a resolver that may be changed between them, normalised when all    *)
(* are there, and judged against what is declared.                          *)
(*                                                                         *)
(* The resolver is external: its configuration changes to any of            *)
(* Configurations, time passes, and an enabled filter list is refreshed now *)
(* and then.  That requests fail is the matter of the module Observation.   *)
(* The clock of the check is read once, when it starts; the resolver and    *)
(* the check share it.                                                      *)
(***************************************************************************)
EXTENDS Configuration

CONSTANTS
    Configurations,     \* what the resolver may be configured to
    Files,              \* configuration files, of which only valid ones are loaded
    Start,              \* the time at which the check starts
    Tolerance,          \* how far ahead of it a filter update may be
    SlowestAnswer,      \* processing_latency_ms
    MaxTime,            \* bound on time
    MaxChanges          \* bound on changes of the resolver

\* What the answers of a resolver are decoded to.
AdGuardConfiguration ==
    [protection : BOOLEAN, mode : STRING, upstreams : Seq(STRING),
     stats : [queries : Nat, blocked : Nat, clients : Seq(Nat), latency : Nat],
     filters : Seq([url : STRING, enabled : BOOLEAN, updated : Optional(Nat)]),
     rewrites : Seq(RequiredRewrite), on : BOOLEAN]

ASSUME TimeAssumption == {Start, Tolerance, SlowestAnswer, MaxTime, MaxChanges} \subseteq Nat
ASSUME ConfigurationsAssumption == Configurations \subseteq AdGuardConfiguration
ASSUME FilesAssumption == \A f \in Files : IsConfig(f)

VARIABLES
    config,         \* the resolver's configuration
    now,            \* the time
    file,           \* the loaded configuration file
    target,         \* the target, its place in the file
    read,           \* the answers so far, in the order of the requests
    complete,       \* the report is complete
    outcome,        \* the evaluated conditions with their reasons
    seen,           \* history: the configurations since the check started
    changes         \* history: the number of changes

vars == <<config, now, file, target, read, complete, outcome, seen, changes>>

Requests == 6

\* The declarations that the check judges the target by.
DeclaredPolicy == PolicyOf(file, file.targets[target])

-----------------------------------------------------------------------------
(* Answers.                                                                *)

\* What the requests are answered with by a resolver that is configured as c.
Answers(c) ==
    <<c.protection, c.stats, [mode |-> c.mode, upstreams |-> c.upstreams], c.filters, c.rewrites, c.on>>

Protection == read[1]
Stats == read[2]
Dns == read[3]
Filters == read[4]
Rewrites == read[5]
RewritesEnabled == read[6]

\* normalize_stats
UsableStats(s) == s.blocked <= s.queries /\ \A n \in ToSet(s.clients) : n <= s.queries

\* normalize_dns: the empty mode is an old name of load balancing.
NormalMode(mode) == IF mode = "" THEN "load_balance" ELSE mode

UsableDns(d) == d.mode # Blank /\ ValidUpstreams(d.upstreams)

\* normalize_filters: only what is required is looked at more closely.
UsableFilters(filters) ==
    /\ UniqueBy(filters, Url) /\ Blank \notin Keys(filters, Url)
    /\ \A f \in ToSet(filters) :
         f.url \in Keys(DeclaredPolicy.filters, Url) =>
           /\ \A t \in f.updated : t <= Start + Tolerance
           /\ f.enabled => f.updated # {}

\* normalize_rewrites
UsableRewrites(rewrites) == UniqueBy(rewrites, Name) /\ Blank \notin Keys(rewrites, Name)

Usable ==
    UsableStats(Stats) /\ UsableDns(Dns) /\ UsableFilters(Filters) /\ UsableRewrites(Rewrites)

-----------------------------------------------------------------------------
(* Verdicts: the reason of an evaluation, which tells its outcome.         *)

Clear == {"available", "enabled", "disabled", "within_threshold", "matches_policy"}

\* The same observed states are active if the policy declares the other.
ProtectionVerdict(declared) ==
    IF Protection = declared THEN IF declared THEN "enabled" ELSE "disabled" ELSE "drift"

MatchVerdict(matches) == IF matches THEN "matches_policy" ELSE "drift"

\* Mutant: a filter is stale at its maximum age already.
StaleAtMaximum(required) ==
    LET found == {f \in ToSet(Filters) : f.url = required.url} IN
    IF found = {} THEN "missing"
    ELSE IF \E f \in found : f.enabled # required.enabled THEN "state_drift"
    ELSE IF required.enabled /\ \A f \in found : \A t \in f.updated, h \in required.hours :
              Start - t >= h * Hour THEN "stale"
    ELSE "matches_policy"

\* evaluate_filters
FilterVerdict(required) ==
    LET found == {f \in ToSet(Filters) : f.url = required.url} IN
    IF found = {} THEN "missing"
    ELSE IF \E f \in found : f.enabled # required.enabled THEN "state_drift"
    ELSE IF required.enabled /\ \A f \in found : \A t \in f.updated, h \in required.hours :
              Start - t > h * Hour THEN "stale"
    ELSE "matches_policy"

\* Mutant: the entry alone is looked at, not the switch of all rewrites.
EntryVerdict(required) ==
    IF ~\E r \in ToSet(Rewrites) : Name(r) = Name(required) /\ r.enabled = required.enabled
    THEN "missing_or_disabled" ELSE "matches_policy"

\* evaluate_rewrites: an enabled entry has no effect while the switch is off.
RewriteVerdict(required) ==
    IF ~\E r \in ToSet(Rewrites) : Name(r) = Name(required) /\ r.enabled = required.enabled
    THEN "missing_or_disabled"
    ELSE IF required.enabled /\ ~RewritesEnabled THEN "globally_disabled"
    ELSE "matches_policy"

\* The reason for which a declared condition is as it is.
Verdict(id) ==
    CASE id = <<"protection">> -> ProtectionVerdict(CHOOSE d \in DeclaredPolicy.protection : TRUE)
      [] id = <<"upstream-mode">> -> MatchVerdict({NormalMode(Dns.mode)} = DeclaredPolicy.mode)
      [] id = <<"upstream-set">> -> MatchVerdict(\E s \in DeclaredPolicy.upstreams : ToSet(s) = ToSet(Dns.upstreams))
      [] id = <<"rewrites-enabled">> -> MatchVerdict({RewritesEnabled} = DeclaredPolicy.enabled)
      [] id[1] = "filter" -> FilterVerdict(CHOOSE f \in ToSet(DeclaredPolicy.filters) : f.url = id[2])
      [] id[1] = "rewrite" -> RewriteVerdict(CHOOSE r \in ToSet(DeclaredPolicy.required) : Name(r) = id[2])

Declared == ToSet(DeclaredConditions(DeclaredPolicy))

\* evaluate_target
Evaluation ==
    IF ~Usable THEN [id \in {<<"api">>} |-> "invalid_response"]
    ELSE [id \in {<<"api">>, <<"processing-latency">>} \cup Declared |->
            IF id = <<"api">> THEN "available"
            ELSE IF id = <<"processing-latency">>
                 THEN IF Stats.latency > SlowestAnswer THEN "above_threshold" ELSE "within_threshold"
            ELSE Verdict(id)]

-----------------------------------------------------------------------------
Init ==
    /\ config \in Configurations
    /\ now = Start
    /\ file \in {f \in Files : Valid(f)}
    /\ target \in DOMAIN file.targets
    /\ read = <<>>
    /\ complete = FALSE
    /\ outcome = [id \in {} |-> ""]
    /\ seen = {config}
    /\ changes = 0

Running == outcome = [id \in {} |-> ""]

\* The next request is answered.
Answered ==
    /\ Running /\ Len(read) < Requests
    /\ read' = Append(read, Answers(config)[Len(read) + 1])
    /\ UNCHANGED <<config, now, file, target, complete, outcome, seen, changes>>

\* All answers are normalised and judged.
Evaluate ==
    /\ Running /\ Len(read) = Requests
    /\ complete' = Usable
    /\ outcome' = Evaluation
    /\ UNCHANGED <<config, now, file, target, read, seen, changes>>

\* The resolver goes on with another configuration while the check runs.
Becomes(c) ==
    /\ Running /\ changes < MaxChanges
    /\ config' = c
    /\ seen' = seen \cup {c}
    /\ changes' = changes + 1
    /\ UNCHANGED <<now, file, target, read, complete, outcome>>

Reconfigure == \E c \in Configurations : c # config /\ Becomes(c)

\* The resolver updates one of its enabled filter lists.
Refresh ==
    \E i \in DOMAIN config.filters :
        /\ config.filters[i].enabled
        /\ config.filters[i].updated # {now}
        /\ Becomes([config EXCEPT !.filters[i].updated = {now}])

Tick ==
    /\ Running /\ now < MaxTime
    /\ now' = now + 1
    /\ UNCHANGED <<config, file, target, read, complete, outcome, seen, changes>>

Next == Answered \/ Evaluate \/ Reconfigure \/ Refresh \/ Tick

Spec == Init /\ [][Next]_vars

-----------------------------------------------------------------------------
(* Properties.                                                             *)

\* What a configuration c does with a name: it is answered, or it is listed
\* and has no effect of its own.
Resolves(c, name) == \E r \in ToSet(c.rewrites) : Name(r) = name /\ r.enabled
Listed(c, name) == \E r \in ToSet(c.rewrites) : Name(r) = name /\ ~r.enabled

\* A filter list is there, and as old as it may be at the start of the check.
Fresh(c, f) ==
    \E g \in ToSet(c.filters) :
        /\ g.url = f.url /\ g.enabled = f.enabled
        /\ f.enabled => \E t \in g.updated, h \in f.hours : t + h * Hour >= Start

\* The facts that a declared condition claims, each a set of configurations
\* among C in which it is true.
Facts(id, C) ==
    CASE id = <<"protection">> -> {{c \in C : c.protection \in DeclaredPolicy.protection}}
      [] id = <<"upstream-mode">> ->
           {{c \in C : c.mode \in DeclaredPolicy.mode \/ (c.mode = "" /\ DeclaredPolicy.mode = {"load_balance"})}}
      [] id = <<"upstream-set">> -> {{c \in C : \A s \in DeclaredPolicy.upstreams : ToSet(s) = ToSet(c.upstreams)}}
      [] id = <<"rewrites-enabled">> -> {{c \in C : c.on \in DeclaredPolicy.enabled}}
      [] id[1] = "filter" -> {{c \in C : Fresh(c, f)} : f \in {f \in ToSet(DeclaredPolicy.filters) : f.url = id[2]}}
      [] id[1] = "rewrite" ->
           LET r == CHOOSE r \in ToSet(DeclaredPolicy.required) : Name(r) = id[2]
           IN  IF r.enabled THEN {{c \in C : Resolves(c, id[2])}, {c \in C : c.on}}
               ELSE {{c \in C : Listed(c, id[2])}}

\* A clear condition is never a guess: everything it claims was true at some
\* moment of the check, and all of it at once if the resolver was left alone.
\* A required rewrite is not clear while the global switch is off, whether or
\* not the switch itself is declared (ADR 0011).
ClearMeansHeld ==
    \A id \in DOMAIN outcome \cap Declared :
        outcome[id] \in Clear => \A fact \in Facts(id, seen) : fact # {}

\* The configuration c can be judged, is fast enough and does what is declared.
Complies(c) ==
    /\ UsableStats(c.stats) /\ c.stats.latency <= SlowestAnswer
    /\ UsableDns(c) /\ UsableFilters(c.filters) /\ UsableRewrites(c.rewrites)
    /\ \A id \in Declared : \A fact \in Facts(id, {c}) : fact # {}

\* A resolver that complies all the time raises no alarm, whichever compliant
\* configurations its six answers come from: with names spelled otherwise, the
\* old name of the mode, a filter at its maximum age or refreshed meanwhile.
\* (A refresh later than Tolerance after the start does not count as complying:
\* the answer is then refused as being from the future.)
CompliantIsClear ==
    ~Running /\ (\A c \in seen : Complies(c)) =>
        complete /\ \A id \in DOMAIN outcome : outcome[id] \in Clear

\* The evaluations of a check have different identifiers, whatever file it has
\* accepted: two of the same would make each commit of a run fail, the
\* identifiers being a key of the run's evaluations and of the latches.
ConditionsAreDistinct ==
    LET ids == ConditionIds(file) IN
    \A i, j \in DOMAIN ids : \A k \in DOMAIN ids[i], l \in DOMAIN ids[j] :
        ids[i][k] = ids[j][l] => i = j /\ k = l

\* What an accepted file leaves to be looked up is there, and it is what the
\* other modules assume: runs that count, targets that can be enough, a group
\* of one profile whose history may get as old as it has to, and credentials.
AcceptedIsUsable ==
    /\ \A t \in ToSet(file.targets) :
         /\ \A n \in ToSet(file.profiles[t.profile].runs) : n > 0
         /\ t.auth = "basic" => \E secret \in t.password : secret \in AbsolutePath
    /\ file.concurrency > 0 /\ file.minimum \in 1..Cardinality(Keys(file.targets, Id))
    /\ \A b \in file.baseline :
         /\ b.learning <= file.retention
         /\ \A t \in ToSet(file.targets) :
              t.id \in ToSet(b.targets) => t.profile = BaselineProfile(file, b)
    /\ file.provider = "pushover" => file.pushover # {}

=============================================================================
