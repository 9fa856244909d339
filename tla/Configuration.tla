---------------------------- MODULE Configuration ----------------------------
(***************************************************************************)
(* Configuration files: what validation accepts, and what a check goes on   *)
(* to take from an accepted one.  Data only.                                *)
(*                                                                         *)
(* A path is a name; AbsolutePath are those that are absolute.  A base URL  *)
(* is what validation looks at: its scheme, whether its host is this one,   *)
(* and whether it is bare (no credentials, path, query and fragment).       *)
(***************************************************************************)
EXTENDS Declarations

CONSTANTS
    Slug,           \* the identifiers that are stable slugs
    AbsolutePath    \* the paths that are absolute

MaxTargets == 64
MaxTimeout == 60000             \* milliseconds
MaxResponse == 16 * 1048576     \* bytes

\* What the parser makes of a file, before it is validated.
ConditionProfile == [runs : Seq(Nat), durations : Seq(Nat)]
BehavioralBaselineConfig == [targets : Seq(STRING), zone : STRING, learning : Nat, samples : Nat]
TargetConfig ==
    [id : STRING, name : STRING, auth : {"none", "basic"}, username : Optional(STRING),
     password : Optional(STRING), policy : Optional(STRING), profile : STRING,
     url : [scheme : STRING, loopback : BOOLEAN, bare : BOOLEAN], insecure : BOOLEAN]

IsConfig(f) ==
    /\ f.targets \in Seq(TargetConfig)
    /\ f.baseline \in Optional(BehavioralBaselineConfig)
    /\ \A id \in DOMAIN f.profiles : f.profiles[id] \in ConditionProfile
    /\ \A id \in DOMAIN f.policies : f.policies[id] \in PolicyConfig
    /\ f.pushover \in Optional(STRING \X STRING)
    /\ {f.version, f.retention, f.requestTimeout, f.notificationTimeout, f.maxResponse, f.lookback,
        f.concurrency, f.minimum} \subseteq Nat
    /\ f.provider \in {"disabled", "pushover"}

\* validate, as far as the sections of numbers go.
ValidNumbers(f) ==
    /\ f.version = 1
    /\ f.statePath \in AbsolutePath
    /\ f.retention > 0
    /\ f.requestTimeout \in 1..MaxTimeout /\ f.notificationTimeout \in 1..MaxTimeout
    /\ f.maxResponse \in 1024..MaxResponse
    /\ f.lookback > 0 /\ f.lookback % 3600000 = 0
    /\ Len(f.targets) \in 1..MaxTargets
    /\ f.concurrency \in 1..MaxTargets
    /\ f.minimum \in 1..Len(f.targets)

\* The range that this release has evidence for, or one that is allowed anyway.
ValidRequirement(f) ==
    f.requirement = "supported" \/ (f.requirement = "untested" /\ f.allowUntested)

\* validate_profiles: counts of runs, and durations.
ValidProfiles(f) ==
    /\ f.profiles # <<>>
    /\ DOMAIN f.profiles \subseteq Slug
    /\ \A id \in DOMAIN f.profiles :
         /\ \A n \in ToSet(f.profiles[id].runs) : n \in 1..1000
         /\ \A d \in ToSet(f.profiles[id].durations) : d > 0

ValidPolicies(f) == \A id \in DOMAIN f.policies : id \in Slug /\ ValidPolicy(f.policies[id])

ValidUrl(t) ==
    /\ t.url.bare
    /\ t.url.scheme = "https" \/ (t.url.scheme = "http" /\ (t.url.loopback \/ t.insecure))

\* Credentials are there if and only if they are used.
ValidAuth(t) ==
    IF t.auth = "none" THEN t.username = {} /\ t.password = {}
    ELSE t.username \notin {{}, {Blank}} /\ t.password # {} /\ t.password \subseteq AbsolutePath

Id(t) == t.id
NameOf(t) == t.name

\* validate_targets, the targets themselves.
ValidTargets(f) ==
    /\ UniqueBy(f.targets, Id) /\ Keys(f.targets, Id) \subseteq Slug
    /\ UniqueBy(f.targets, NameOf) /\ Blank \notin Keys(f.targets, NameOf)
    /\ \A t \in ToSet(f.targets) :
         /\ ValidAuth(t) /\ ValidUrl(t)
         /\ t.policy \subseteq DOMAIN f.policies
         /\ t.profile \in DOMAIN f.profiles

\* The targets of the behavioural group.
Group(f, b) == {t \in ToSet(f.targets) : t.id \in ToSet(b.targets)}

\* Mutant: the members of the group may have any profile.
AnyProfile(f) ==
    \A b \in f.baseline :
        /\ b.zone # Blank /\ b.learning > 0 /\ b.samples > 0
        /\ f.retention >= b.learning
        /\ b.targets # <<>> /\ UniqueBy(b.targets, Self)
        /\ ToSet(b.targets) \subseteq Keys(f.targets, Id)

\* The behavioural section, from validate and validate_targets.
ValidBaseline(f) ==
    \A b \in f.baseline :
        /\ b.zone # Blank /\ b.learning > 0 /\ b.samples > 0
        /\ f.retention >= b.learning
        /\ b.targets # <<>> /\ UniqueBy(b.targets, Self)
        /\ ToSet(b.targets) \subseteq Keys(f.targets, Id)
        /\ Cardinality({t.profile : t \in Group(f, b)}) <= 1

\* validate_notifications: the two credentials, or none of them.
ValidNotifications(f) ==
    IF f.provider = "disabled" THEN f.pushover = {}
    ELSE f.pushover # {} /\ \A p \in f.pushover : ToSet(p) \subseteq AbsolutePath

Valid(f) ==
    /\ ValidNumbers(f) /\ ValidRequirement(f) /\ ValidProfiles(f) /\ ValidPolicies(f)
    /\ ValidTargets(f) /\ ValidBaseline(f) /\ ValidNotifications(f)

-----------------------------------------------------------------------------
(* What a check takes from it.                                             *)

Nothing ==
    [protection |-> {}, mode |-> {}, upstreams |-> {}, filters |-> <<>>, enabled |-> {}, required |-> <<>>]

\* The declarations of a target.
PolicyOf(f, t) == IF t.policy = {} THEN Nothing ELSE f.policies[CHOOSE p \in t.policy : TRUE]

\* baseline_profile: that of the first member.
BaselineProfile(f, b) ==
    (CHOOSE t \in ToSet(f.targets) : t.id = b.targets[1]).profile

Behaviour == <<"query-rate", "blocked-ratio", "blocking-collapsed">>

\* The condition identifiers of a target's evaluations in a check that observes
\* it; those of the group are only there if it is in the group.
TargetConditions(f, t) ==
    LET own == <<<<"api">>, <<"processing-latency">>, <<"upstream-latency">>>> \o DeclaredConditions(PolicyOf(f, t))
        behaviour == IF \E b \in f.baseline : t.id \in ToSet(b.targets)
                     THEN [i \in DOMAIN Behaviour |-> <<Behaviour[i]>>] ELSE <<>>
        all == own \o behaviour
    IN  [i \in DOMAIN all |-> <<"target", t.id>> \o all[i]]

\* Those of all evaluations of a check that observes all targets: a list for
\* each target, and one for the group.
ConditionIds(f) ==
    [i \in DOMAIN f.targets |-> TargetConditions(f, f.targets[i])]
      \o IF f.baseline = {} THEN <<>> ELSE <<[i \in DOMAIN Behaviour |-> <<"aggregate", Behaviour[i]>>]>>

=============================================================================
