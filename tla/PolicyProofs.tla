---------------------------- MODULE PolicyProofs ----------------------------
(***************************************************************************)
(* What Policy promises, for every resolver, every loaded file and any      *)
(* number of changes while the check runs.                                  *)
(*                                                                         *)
(* The inductive invariant relates the answers to the configurations that   *)
(* the resolver has had since the check started.  What is left is about     *)
(* data: which conditions an accepted policy gives rise to, that each       *)
(* verdict says of the answers what the condition says of a configuration,  *)
(* and that no two conditions of an accepted file have the same identifier. *)
(***************************************************************************)
EXTENDS Policy, FiniteSetTheorems, TLAPS

\* What condition identifiers consist of: words of the program, and texts.
Words ==
    {"api", "processing-latency", "upstream-latency", "protection", "upstream-mode", "upstream-set", "filter",
     "rewrites-enabled", "rewrite", "query-rate", "blocked-ratio", "blocking-collapsed", "target", "aggregate"}

ConditionId == Seq(Words \cup STRING)

Distinct(s) == \A i, j \in DOMAIN s : s[i] = s[j] => i = j

-----------------------------------------------------------------------------
(* Sequences.                                                              *)

LEMMA One == ASSUME NEW S, NEW a \in S  PROVE <<a>> \in Seq(S) /\ <<a>>[1] = a
<1>1. <<a>> = [i \in 1..1 |-> a]  OBVIOUS
<1>2. [i \in 1..1 |-> a] \in Seq(S)  OBVIOUS
<1> QED  BY <1>1, <1>2

LEMMA Two == ASSUME NEW S, NEW a \in S, NEW b \in S  PROVE <<a, b>> \in Seq(S) /\ <<a, b>>[1] = a
<1>1. <<a, b>> = [i \in 1..2 |-> IF i = 1 THEN a ELSE b]  OBVIOUS
<1>2. [i \in 1..2 |-> IF i = 1 THEN a ELSE b] \in Seq(S)  OBVIOUS
<1> QED  BY <1>1, <1>2

LEMMA SequenceOf ==
    ASSUME NEW S, NEW n \in Nat, NEW s \in [1..n -> S]
    PROVE  s \in Seq(S)
OBVIOUS

LEMMA Concatenation ==
    ASSUME NEW S, NEW s \in Seq(S), NEW t \in Seq(S)
    PROVE  s \o t \in Seq(S) /\ ToSet(s \o t) = ToSet(s) \cup ToSet(t)
<1>1. \A i \in DOMAIN s : (s \o t)[i] = s[i] /\ i \in DOMAIN (s \o t)
  OBVIOUS
<1>2. \A i \in DOMAIN t : (s \o t)[Len(s) + i] = t[i] /\ Len(s) + i \in DOMAIN (s \o t)
  OBVIOUS
<1>3. \A i \in DOMAIN (s \o t) : i \in DOMAIN s \/ \E j \in DOMAIN t : i = Len(s) + j
  <2> TAKE i \in DOMAIN (s \o t)
  <2>1. CASE i <= Len(s)  BY <2>1
  <2>2. CASE i > Len(s)
    <3>1. i - Len(s) \in DOMAIN t /\ i = Len(s) + (i - Len(s))  BY <2>2
    <3> QED  BY <3>1
  <2> QED  BY <2>1, <2>2
<1>4. s \o t \in Seq(S)
  OBVIOUS
<1>5. ASSUME NEW x \in ToSet(s \o t)
      PROVE  x \in ToSet(s) \cup ToSet(t)
  <2>1. PICK i \in DOMAIN (s \o t) : x = (s \o t)[i]
    BY DEF ToSet
  <2> QED  BY <2>1, <1>1, <1>2, <1>3 DEF ToSet
<1>6. ASSUME NEW x \in ToSet(s)
      PROVE  x \in ToSet(s \o t)
  <2>1. PICK i \in DOMAIN s : x = s[i]
    BY DEF ToSet
  <2>2. i \in DOMAIN (s \o t) /\ (s \o t)[i] = x
    BY <2>1, <1>1
  <2> QED  BY <2>2, Zenon DEF ToSet
<1>7. ASSUME NEW x \in ToSet(t)
      PROVE  x \in ToSet(s \o t)
  <2>1. PICK i \in DOMAIN t : x = t[i]
    BY DEF ToSet
  <2>2. Len(s) + i \in DOMAIN (s \o t) /\ (s \o t)[Len(s) + i] = x
    BY <2>1, <1>2
  <2> QED  BY <2>2, Zenon DEF ToSet
<1> QED  BY <1>4, <1>5, <1>6, <1>7

LEMMA DistinctConcatenation ==
    ASSUME NEW S, NEW s \in Seq(S), NEW t \in Seq(S),
           Distinct(s), Distinct(t), ToSet(s) \cap ToSet(t) = {}
    PROVE  Distinct(s \o t)
<1> SUFFICES ASSUME NEW i \in DOMAIN (s \o t), NEW j \in DOMAIN (s \o t), (s \o t)[i] = (s \o t)[j]
             PROVE  i = j
  BY DEF Distinct
<1>1. CASE i <= Len(s) /\ j <= Len(s)
  BY <1>1 DEF Distinct
<1>2. CASE i > Len(s) /\ j > Len(s)
  <2>1. i - Len(s) \in DOMAIN t /\ j - Len(s) \in DOMAIN t
    BY <1>2
  <2>2. t[i - Len(s)] = t[j - Len(s)]
    BY <1>2
  <2> QED  BY <2>1, <2>2 DEF Distinct
<1>3. CASE i <= Len(s) /\ j > Len(s)
  <2>1. i \in DOMAIN s /\ j - Len(s) \in DOMAIN t /\ s[i] = t[j - Len(s)]
    BY <1>3
  <2> QED  BY <2>1 DEF ToSet
<1>4. CASE i > Len(s) /\ j <= Len(s)
  <2>1. j \in DOMAIN s /\ i - Len(s) \in DOMAIN t /\ s[j] = t[i - Len(s)]
    BY <1>4
  <2> QED  BY <2>1 DEF ToSet
<1> QED  BY <1>1, <1>2, <1>3, <1>4

\* An optional value is there once or not at all.
LEMMA OptionalSize ==
    ASSUME NEW o, \A x, y \in o : x = y
    PROVE  Cardinality(o) \in {0, 1} /\ (Cardinality(o) = 1 <=> o # {})
<1>1. CASE o = {}
  BY <1>1, FS_EmptySet
<1>2. CASE o # {}
  <2>1. PICK x : o = {x}  BY <1>2
  <2> QED  BY <2>1, <1>2, FS_Singleton
<1> QED  BY <1>1, <1>2

\* A condition that an optional declaration gives rise to.
LEMMA OptionalCondition ==
    ASSUME NEW o, \A x, y \in o : x = y, NEW id \in ConditionId
    PROVE  LET s == [i \in 1..Cardinality(o) |-> id]
           IN  s \in Seq(ConditionId) /\ Distinct(s) /\ ToSet(s) = IF o = {} THEN {} ELSE {id}
<1> DEFINE s == [i \in 1..Cardinality(o) |-> id]
<1>1. Cardinality(o) \in Nat
  BY OptionalSize
<1>2. s \in Seq(ConditionId) /\ DOMAIN s = 1..Cardinality(o)
  BY <1>1
<1>3. Distinct(s)
  BY <1>2, OptionalSize DEF Distinct
<1>4. ToSet(s) = IF o = {} THEN {} ELSE {id}
  BY <1>2, OptionalSize DEF ToSet
<1> QED  BY <1>2, <1>3, <1>4

-----------------------------------------------------------------------------
(* The conditions of a policy.                                             *)

LEMMA NormalizedIsText ==
    ASSUME NEW n \in DOMAIN Normal \cup {Blank}
    PROVE  Normalized(n) \in STRING
BY NormalAssumption DEF Normalized

LEMMA FilterConditions ==
    ASSUME NEW p \in PolicyConfig
    PROVE  LET s == [i \in DOMAIN p.filters |-> <<"filter", p.filters[i].url>>]
           IN  /\ s \in Seq(ConditionId)
               /\ \A id \in ToSet(s) : \E f \in ToSet(p.filters) : id = <<"filter", f.url>>
               /\ UniqueBy(p.filters, Url) => Distinct(s)
<1> DEFINE s == [i \in DOMAIN p.filters |-> <<"filter", p.filters[i].url>>]
<1>1. p.filters \in Seq(RequiredFilter)
  BY DEF PolicyConfig
<1>2. ASSUME NEW i \in DOMAIN p.filters
      PROVE  p.filters[i] \in ToSet(p.filters) /\ <<"filter", p.filters[i].url>> \in ConditionId
  <2>1. p.filters[i] \in RequiredFilter
    BY <1>1
  <2>2. p.filters[i].url \in Words \cup STRING /\ "filter" \in Words \cup STRING
    BY <2>1 DEF RequiredFilter, Words
  <2>3. <<"filter", p.filters[i].url>> \in ConditionId
    BY <2>2, Two, Zenon DEF ConditionId
  <2> QED  BY <2>3 DEF ToSet
<1>3. s \in Seq(ConditionId)
  <2>1. s \in [1..Len(p.filters) -> ConditionId] /\ Len(p.filters) \in Nat
    <3>1. Len(p.filters) \in Nat /\ DOMAIN p.filters = 1..Len(p.filters)
      BY <1>1
    <3> QED  BY <3>1, <1>2
  <2> HIDE DEF s
  <2> QED  BY <2>1, SequenceOf
<1>4. \A id \in ToSet(s) : \E f \in ToSet(p.filters) : id = <<"filter", f.url>>
  BY <1>2 DEF ToSet
<1>5. ASSUME UniqueBy(p.filters, Url)  PROVE  Distinct(s)
  BY <1>5 DEF UniqueBy, Url, Distinct
<1> QED  BY <1>3, <1>4, <1>5

LEMMA RewriteConditions ==
    ASSUME NEW p \in PolicyConfig
    PROVE  LET s == [i \in DOMAIN p.required |-> <<"rewrite", Name(p.required[i])>>]
           IN  /\ s \in Seq(ConditionId)
               /\ \A id \in ToSet(s) : \E r \in ToSet(p.required) : id = <<"rewrite", Name(r)>>
               /\ UniqueBy(p.required, Name) => Distinct(s)
<1> DEFINE s == [i \in DOMAIN p.required |-> <<"rewrite", Name(p.required[i])>>]
<1>1. p.required \in Seq(RequiredRewrite)
  BY DEF PolicyConfig
<1>2. ASSUME NEW i \in DOMAIN p.required
      PROVE  p.required[i] \in ToSet(p.required) /\ <<"rewrite", Name(p.required[i])>> \in ConditionId
  <2>1. p.required[i] \in RequiredRewrite
    BY <1>1
  <2>2. p.required[i].name \in DOMAIN Normal \cup {Blank}
    BY <2>1 DEF RequiredRewrite
  <2>3. Name(p.required[i]) \in Words \cup STRING /\ "rewrite" \in Words \cup STRING
    BY <2>2, NormalizedIsText DEF Name, Words
  <2>4. <<"rewrite", Name(p.required[i])>> \in ConditionId
    BY <2>3, Two, Zenon DEF ConditionId
  <2> QED  BY <2>4 DEF ToSet
<1>3. s \in Seq(ConditionId)
  <2>1. s \in [1..Len(p.required) -> ConditionId] /\ Len(p.required) \in Nat
    <3>1. Len(p.required) \in Nat /\ DOMAIN p.required = 1..Len(p.required)
      BY <1>1
    <3> QED  BY <3>1, <1>2
  <2> HIDE DEF s
  <2> QED  BY <2>1, SequenceOf
<1>4. \A id \in ToSet(s) : \E r \in ToSet(p.required) : id = <<"rewrite", Name(r)>>
  BY <1>2 DEF ToSet
<1>5. ASSUME UniqueBy(p.required, Name)  PROVE  Distinct(s)
  BY <1>5 DEF UniqueBy, Distinct
<1> QED  BY <1>3, <1>4, <1>5

\* A condition of a policy is of one of six forms, and what gives rise to it
\* is declared; those of a valid policy are different.
LEMMA PolicyConditions ==
    ASSUME NEW p \in PolicyConfig
    PROVE  /\ DeclaredConditions(p) \in Seq(ConditionId)
           /\ \A id \in ToSet(DeclaredConditions(p)) :
                \/ id = <<"protection">> /\ p.protection # {}
                \/ id = <<"upstream-mode">> /\ p.mode # {}
                \/ id = <<"upstream-set">> /\ p.upstreams # {}
                \/ \E f \in ToSet(p.filters) : id = <<"filter", f.url>>
                \/ id = <<"rewrites-enabled">> /\ p.enabled # {}
                \/ \E r \in ToSet(p.required) : id = <<"rewrite", Name(r)>>
           /\ ValidPolicy(p) => Distinct(DeclaredConditions(p))
<1> DEFINE a == [i \in 1..Cardinality(p.protection) |-> <<"protection">>]
           b == [i \in 1..Cardinality(p.mode) |-> <<"upstream-mode">>]
           c == [i \in 1..Cardinality(p.upstreams) |-> <<"upstream-set">>]
           d == [i \in DOMAIN p.filters |-> <<"filter", p.filters[i].url>>]
           e == [i \in 1..Cardinality(p.enabled) |-> <<"rewrites-enabled">>]
           f == [i \in DOMAIN p.required |-> <<"rewrite", Name(p.required[i])>>]
           ab == a \o b
           abc == ab \o c
           abcd == abc \o d
           abcde == abcd \o e
           abcdef == abcde \o f
<1>0. /\ \A x, y \in p.protection : x = y
      /\ \A x, y \in p.mode : x = y
      /\ \A x, y \in p.upstreams : x = y
      /\ \A x, y \in p.enabled : x = y
  BY DEF PolicyConfig, Optional
<1>w. \A w \in Words : <<w>> \in ConditionId
  BY One DEF ConditionId
<1>1. /\ a \in Seq(ConditionId) /\ Distinct(a)
      /\ ToSet(a) = IF p.protection = {} THEN {} ELSE {<<"protection">>}
  <2>1. <<"protection">> \in ConditionId
    BY <1>w DEF Words
  <2> QED  BY <2>1, <1>0, OptionalCondition, Zenon
<1>2. /\ b \in Seq(ConditionId) /\ Distinct(b)
      /\ ToSet(b) = IF p.mode = {} THEN {} ELSE {<<"upstream-mode">>}
  <2>1. <<"upstream-mode">> \in ConditionId
    BY <1>w DEF Words
  <2> QED  BY <2>1, <1>0, OptionalCondition, Zenon
<1>3. /\ c \in Seq(ConditionId) /\ Distinct(c)
      /\ ToSet(c) = IF p.upstreams = {} THEN {} ELSE {<<"upstream-set">>}
  <2>1. <<"upstream-set">> \in ConditionId
    BY <1>w DEF Words
  <2> QED  BY <2>1, <1>0, OptionalCondition, Zenon
<1>4. /\ d \in Seq(ConditionId)
      /\ \A id \in ToSet(d) : \E g \in ToSet(p.filters) : id = <<"filter", g.url>>
      /\ UniqueBy(p.filters, Url) => Distinct(d)
  BY FilterConditions, Zenon
<1>5. /\ e \in Seq(ConditionId) /\ Distinct(e)
      /\ ToSet(e) = IF p.enabled = {} THEN {} ELSE {<<"rewrites-enabled">>}
  <2>1. <<"rewrites-enabled">> \in ConditionId
    BY <1>w DEF Words
  <2> QED  BY <2>1, <1>0, OptionalCondition, Zenon
<1>6. /\ f \in Seq(ConditionId)
      /\ \A id \in ToSet(f) : \E r \in ToSet(p.required) : id = <<"rewrite", Name(r)>>
      /\ UniqueBy(p.required, Name) => Distinct(f)
  BY RewriteConditions, Zenon
<1>7. DeclaredConditions(p) = abcdef
  BY DEF DeclaredConditions
<1> HIDE DEF a, b, c, d, e, f
<1>a. ab \in Seq(ConditionId) /\ ToSet(ab) = ToSet(a) \cup ToSet(b)
  BY <1>1, <1>2, Concatenation
<1> HIDE DEF ab
<1>b. abc \in Seq(ConditionId) /\ ToSet(abc) = ToSet(ab) \cup ToSet(c)
  BY <1>a, <1>3, Concatenation
<1> HIDE DEF abc
<1>c. abcd \in Seq(ConditionId) /\ ToSet(abcd) = ToSet(abc) \cup ToSet(d)
  BY <1>b, <1>4, Concatenation
<1> HIDE DEF abcd
<1>d. abcde \in Seq(ConditionId) /\ ToSet(abcde) = ToSet(abcd) \cup ToSet(e)
  BY <1>c, <1>5, Concatenation
<1> HIDE DEF abcde
<1>e. abcdef \in Seq(ConditionId) /\ ToSet(abcdef) = ToSet(abcde) \cup ToSet(f)
  BY <1>d, <1>6, Concatenation
<1> HIDE DEF abcdef
<1>f. ToSet(abcdef) = ToSet(a) \cup ToSet(b) \cup ToSet(c) \cup ToSet(d) \cup ToSet(e) \cup ToSet(f)
  BY <1>a, <1>b, <1>c, <1>d, <1>e, Zenon
<1>8. \A id \in ToSet(abcdef) :
                \/ id = <<"protection">> /\ p.protection # {}
                \/ id = <<"upstream-mode">> /\ p.mode # {}
                \/ id = <<"upstream-set">> /\ p.upstreams # {}
                \/ \E g \in ToSet(p.filters) : id = <<"filter", g.url>>
                \/ id = <<"rewrites-enabled">> /\ p.enabled # {}
                \/ \E r \in ToSet(p.required) : id = <<"rewrite", Name(r)>>
  BY <1>f, <1>1, <1>2, <1>3, <1>4, <1>5, <1>6
<1>9. ASSUME ValidPolicy(p)  PROVE  Distinct(abcdef)
  <2>a. \A id \in ToSet(a) : id[1] = "protection"
    BY <1>1
  <2>b. \A id \in ToSet(b) : id[1] = "upstream-mode"
    BY <1>2
  <2>c. \A id \in ToSet(c) : id[1] = "upstream-set"
    BY <1>3
  <2>d. \A id \in ToSet(d) : id[1] = "filter"
    BY <1>4
  <2>e. \A id \in ToSet(e) : id[1] = "rewrites-enabled"
    BY <1>5
  <2>f. ASSUME NEW id \in ToSet(f)  PROVE  id[1] = "rewrite"
    <3>1. PICK r : id = <<"rewrite", Name(r)>>
      BY <1>6
    <3> QED  BY <3>1
  <2>1. Distinct(d) /\ Distinct(f)
    BY <1>9, <1>4, <1>6, Zenon DEF ValidPolicy
  <2>2. Distinct(ab)
    <3>1. ToSet(a) \cap ToSet(b) = {}  BY <2>a, <2>b
    <3> QED  BY <3>1, <1>1, <1>2, DistinctConcatenation, Zenon DEF ab
  <2>3. Distinct(abc)
    <3>1. ToSet(ab) \cap ToSet(c) = {}  BY <2>a, <2>b, <2>c, <1>a
    <3> QED  BY <3>1, <2>2, <1>a, <1>3, DistinctConcatenation, Zenon DEF abc
  <2>4. Distinct(abcd)
    <3>1. ToSet(abc) \cap ToSet(d) = {}  BY <2>a, <2>b, <2>c, <2>d, <1>a, <1>b
    <3> QED  BY <3>1, <2>1, <2>3, <1>b, <1>4, DistinctConcatenation, Zenon DEF abcd
  <2>5. Distinct(abcde)
    <3>1. ToSet(abcd) \cap ToSet(e) = {}  BY <2>a, <2>b, <2>c, <2>d, <2>e, <1>a, <1>b, <1>c
    <3> QED  BY <3>1, <2>4, <1>c, <1>5, DistinctConcatenation, Zenon DEF abcde
  <2>6. ToSet(abcde) \cap ToSet(f) = {}
    BY <2>a, <2>b, <2>c, <2>d, <2>e, <2>f, <1>a, <1>b, <1>c, <1>d
  <2> QED  BY <2>6, <2>1, <2>5, <1>d, <1>6, DistinctConcatenation, Zenon DEF abcdef
<1> QED  BY <1>7, <1>8, <1>9, <1>e, Zenon

-----------------------------------------------------------------------------
(* Accepted files.                                                         *)

LEMMA ElementOf ==
    ASSUME NEW S, NEW s \in Seq(S), NEW x \in ToSet(s)
    PROVE  x \in S
BY DEF ToSet

LEMMA NothingIsValid == Nothing \in PolicyConfig /\ ValidPolicy(Nothing)
<1>1. {} \in Optional(BOOLEAN) /\ {} \in Optional(STRING) /\ {} \in Optional(Seq(STRING))
  BY DEF Optional
<1>2. <<>> \in Seq(RequiredFilter) /\ <<>> \in Seq(RequiredRewrite)
  OBVIOUS
<1>3. Nothing \in PolicyConfig
  BY <1>1, <1>2 DEF Nothing, PolicyConfig
<1>4. ValidPolicy(Nothing)
  BY DEF ValidPolicy, Nothing, UniqueBy, ToSet, Keys
<1> QED  BY <1>3, <1>4

\* A target of an accepted file is judged by a valid policy.
LEMMA AcceptedPolicy ==
    ASSUME NEW f, IsConfig(f), Valid(f), NEW t \in ToSet(f.targets)
    PROVE  PolicyOf(f, t) \in PolicyConfig /\ ValidPolicy(PolicyOf(f, t))
<1>1. CASE t.policy = {}
  BY <1>1, NothingIsValid DEF PolicyOf
<1>2. CASE t.policy # {}
  <2>1. t.policy \subseteq DOMAIN f.policies
    BY DEF Valid, ValidTargets
  <2>2. (CHOOSE p \in t.policy : TRUE) \in DOMAIN f.policies
    BY <2>1, <1>2
  <2>3. PolicyOf(f, t) = f.policies[CHOOSE p \in t.policy : TRUE]
    BY <1>2 DEF PolicyOf
  <2> QED  BY <2>2, <2>3 DEF IsConfig, Valid, ValidPolicies
<1> QED  BY <1>1, <1>2

\* A prefix of two words tells nothing apart and hides nothing.
LEMMA Prefixed ==
    ASSUME NEW S, NEW a \in S, NEW b \in S, NEW x \in Seq(S), NEW y \in Seq(S)
    PROVE  /\ (<<a, b>> \o x)[1] = a /\ (<<a, b>> \o x)[2] = b
           /\ <<a, b>> \o x = <<a, b>> \o y => x = y
<1>1. <<a, b>> \in Seq(S) /\ Len(<<a, b>>) = 2
  BY Two
<1>2. (<<a, b>> \o x)[1] = a /\ (<<a, b>> \o x)[2] = b
  BY <1>1
<1>3. ASSUME <<a, b>> \o x = <<a, b>> \o y  PROVE  x = y
  <2>1. Len(x) = Len(y)
    <3>1. Len(<<a, b>> \o x) = 2 + Len(x) /\ Len(<<a, b>> \o y) = 2 + Len(y)
      BY <1>1
    <3> QED  BY <3>1, <1>3
  <2>2. \A i \in 1..Len(x) : x[i] = y[i]
    <3> TAKE i \in 1..Len(x)
    <3>1. (<<a, b>> \o x)[2 + i] = x[i]
      BY <1>1
    <3>2. (<<a, b>> \o y)[2 + i] = y[i]
      BY <1>1, <2>1
    <3> QED  BY <3>1, <3>2, <1>3
  <2> QED  BY <2>1, <2>2
<1> QED  BY <1>2, <1>3

LEMMA Three ==
    ASSUME NEW S, NEW a \in S, NEW b \in S, NEW c \in S
    PROVE  /\ <<a, b, c>> \in Seq(S) /\ ToSet(<<a, b, c>>) = {a, b, c}
           /\ a # b /\ b # c /\ a # c => Distinct(<<a, b, c>>)
<1> DEFINE s == [i \in 1..3 |-> IF i = 1 THEN a ELSE IF i = 2 THEN b ELSE c]
<1>1. <<a, b, c>> = s  OBVIOUS
<1>2. s \in Seq(S)  OBVIOUS
<1>3. ToSet(s) = {a, b, c}
  <2>1. 1 \in 1..3 /\ 2 \in 1..3 /\ 3 \in 1..3 /\ s[1] = a /\ s[2] = b /\ s[3] = c
    OBVIOUS
  <2>2. ToSet(s) \subseteq {a, b, c}
    BY DEF ToSet
  <2>3. {a, b, c} \subseteq ToSet(s)
    BY <2>1 DEF ToSet
  <2> QED  BY <2>2, <2>3
<1>4. ASSUME a # b, b # c, a # c  PROVE  Distinct(s)
  BY <1>4 DEF Distinct
<1> QED  BY <1>1, <1>2, <1>3, <1>4

\* The conditions of a target bear its identifier and are different.
LEMMA ConditionsOfTarget ==
    ASSUME NEW f, IsConfig(f), Valid(f), NEW t \in ToSet(f.targets)
    PROVE  /\ \A k \in DOMAIN TargetConditions(f, t) :
                TargetConditions(f, t)[k][1] = "target" /\ TargetConditions(f, t)[k][2] = t.id
           /\ Distinct(TargetConditions(f, t))
<1> DEFINE own == <<<<"api">>, <<"processing-latency">>, <<"upstream-latency">>>>
           declared == DeclaredConditions(PolicyOf(f, t))
           group == [i \in DOMAIN Behaviour |-> <<Behaviour[i]>>]
           behaviour == IF \E b \in f.baseline : t.id \in ToSet(b.targets) THEN group ELSE <<>>
           both == own \o declared
           all == both \o behaviour
<1>0. t \in TargetConfig
  BY ElementOf DEF IsConfig
<1>w. \A w \in Words : <<w>> \in ConditionId /\ <<w>>[1] = w
  BY One DEF ConditionId
<1>1. /\ own \in Seq(ConditionId) /\ Distinct(own)
      /\ ToSet(own) = {<<"api">>, <<"processing-latency">>, <<"upstream-latency">>}
  <2>1. <<"api">> \in ConditionId /\ <<"processing-latency">> \in ConditionId /\ <<"upstream-latency">> \in ConditionId
    BY <1>w DEF Words
  <2>2. <<"api">> # <<"processing-latency">> /\ <<"processing-latency">> # <<"upstream-latency">> /\ <<"api">> # <<"upstream-latency">>
    OBVIOUS
  <2> QED  BY <2>1, <2>2, Three
<1>2. /\ declared \in Seq(ConditionId) /\ Distinct(declared)
      /\ \A id \in ToSet(declared) :
           id[1] \in {"protection", "upstream-mode", "upstream-set", "filter", "rewrites-enabled", "rewrite"}
  <2>1. PolicyOf(f, t) \in PolicyConfig /\ ValidPolicy(PolicyOf(f, t))
    BY AcceptedPolicy
  <2>2. declared \in Seq(ConditionId) /\ Distinct(declared)
    BY <2>1, PolicyConditions
  <2>3. ASSUME NEW id \in ToSet(declared)
        PROVE  id[1] \in {"protection", "upstream-mode", "upstream-set", "filter", "rewrites-enabled", "rewrite"}
    <3>1. \/ id = <<"protection">> \/ id = <<"upstream-mode">> \/ id = <<"upstream-set">> \/ id = <<"rewrites-enabled">>
          \/ \E u : id = <<"filter", u>>
          \/ \E u : id = <<"rewrite", u>>
      BY <2>1, PolicyConditions
    <3> QED  BY <3>1
  <2> QED  BY <2>2, <2>3
<1>3. /\ behaviour \in Seq(ConditionId) /\ Distinct(behaviour)
      /\ ToSet(behaviour) \subseteq {<<"query-rate">>, <<"blocked-ratio">>, <<"blocking-collapsed">>}
  <2>1. <<"query-rate">> \in ConditionId /\ <<"blocked-ratio">> \in ConditionId /\ <<"blocking-collapsed">> \in ConditionId
    BY <1>w DEF Words
  <2>2. group = <<<<"query-rate">>, <<"blocked-ratio">>, <<"blocking-collapsed">>>>
    BY DEF Behaviour
  <2>3. <<"query-rate">> # <<"blocked-ratio">> /\ <<"blocked-ratio">> # <<"blocking-collapsed">> /\ <<"query-rate">> # <<"blocking-collapsed">>
    OBVIOUS
  <2>4. /\ group \in Seq(ConditionId) /\ Distinct(group)
        /\ ToSet(group) = {<<"query-rate">>, <<"blocked-ratio">>, <<"blocking-collapsed">>}
    <3> HIDE DEF group
    <3>1. /\ <<<<"query-rate">>, <<"blocked-ratio">>, <<"blocking-collapsed">>>> \in Seq(ConditionId)
          /\ ToSet(<<<<"query-rate">>, <<"blocked-ratio">>, <<"blocking-collapsed">>>>) =
               {<<"query-rate">>, <<"blocked-ratio">>, <<"blocking-collapsed">>}
          /\ Distinct(<<<<"query-rate">>, <<"blocked-ratio">>, <<"blocking-collapsed">>>>)
      BY ONLY <2>1, <2>3, Three
    <3> QED  BY ONLY <2>2, <3>1
  <2>5. <<>> \in Seq(ConditionId) /\ Distinct(<<>>) /\ ToSet(<<>>) = {}
    BY DEF Distinct, ToSet
  <2> HIDE DEF group
  <2> QED  BY <2>4, <2>5
<1>4. TargetConditions(f, t) = [i \in DOMAIN all |-> <<"target", t.id>> \o all[i]]
  BY DEF TargetConditions
<1> HIDE DEF own, declared, group, behaviour
<1>5. both \in Seq(ConditionId) /\ ToSet(both) = ToSet(own) \cup ToSet(declared)
  BY <1>1, <1>2, Concatenation
<1>6. Distinct(both)
  <2>1. ToSet(own) \cap ToSet(declared) = {}
    <3>1. \A id \in ToSet(own) : id[1] \in {"api", "processing-latency", "upstream-latency"}
      BY <1>1
    <3> QED  BY <3>1, <1>2
  <2> QED  BY <2>1, <1>1, <1>2, DistinctConcatenation
<1> HIDE DEF both
<1>7. all \in Seq(ConditionId)
  BY <1>3, <1>5, Concatenation
<1>8. Distinct(all)
  <2>1. ToSet(both) \cap ToSet(behaviour) = {}
    <3>1. \A id \in ToSet(own) : id[1] \in {"api", "processing-latency", "upstream-latency"}
      BY <1>1
    <3>2. \A id \in ToSet(behaviour) : id[1] \in {"query-rate", "blocked-ratio", "blocking-collapsed"}
      BY <1>3
    <3> QED  BY <3>1, <3>2, <1>2, <1>5
  <2> QED  BY <2>1, <1>3, <1>5, <1>6, DistinctConcatenation
<1> HIDE DEF all
<1>9. "target" \in Words \cup STRING /\ t.id \in Words \cup STRING
  BY <1>0 DEF Words, TargetConfig
<1>10. \A k \in DOMAIN all : all[k] \in ConditionId
  BY <1>7
<1>11. \A k \in DOMAIN all : (<<"target", t.id>> \o all[k])[1] = "target" /\ (<<"target", t.id>> \o all[k])[2] = t.id
  BY <1>9, <1>10, Prefixed DEF ConditionId
<1>12. \A k, l \in DOMAIN all : <<"target", t.id>> \o all[k] = <<"target", t.id>> \o all[l] => k = l
  BY <1>8, <1>9, <1>10, Prefixed DEF ConditionId, Distinct
<1> QED  BY <1>4, <1>11, <1>12 DEF Distinct

\* No two evaluations of a check with an accepted file have the same identifier.
LEMMA DistinctConditions ==
    ASSUME NEW f, IsConfig(f), Valid(f)
    PROVE  \A i, j \in DOMAIN ConditionIds(f) :
             \A k \in DOMAIN ConditionIds(f)[i], l \in DOMAIN ConditionIds(f)[j] :
               ConditionIds(f)[i][k] = ConditionIds(f)[j][l] => i = j /\ k = l
<1> DEFINE n == Len(f.targets)
           own == [i \in DOMAIN f.targets |-> TargetConditions(f, f.targets[i])]
           last == [i \in DOMAIN Behaviour |-> <<"aggregate", Behaviour[i]>>]
           group == IF f.baseline = {} THEN <<>> ELSE <<last>>
           ids == own \o group
<1>1. f.targets \in Seq(TargetConfig) /\ n \in Nat /\ DOMAIN f.targets = 1..n
  BY DEF IsConfig
<1>2. ASSUME NEW i \in 1..n
      PROVE  /\ \A k \in DOMAIN own[i] : own[i][k][1] = "target" /\ own[i][k][2] = f.targets[i].id
             /\ Distinct(own[i])
  <2>1. f.targets[i] \in ToSet(f.targets)
    BY <1>1 DEF ToSet
  <2> QED  BY <2>1, <1>1, ConditionsOfTarget
<1>3. /\ \A k \in DOMAIN last : last[k][1] = "aggregate"
      /\ Distinct(last)
  BY DEF Behaviour, Distinct
<1>4. /\ DOMAIN ids \subseteq 1..(n + 1)
      /\ \A i \in DOMAIN ids : IF i <= n THEN ids[i] = own[i] ELSE i = n + 1 /\ ids[i] = last
  BY <1>1, SMTT(60)
<1>5. \A i, j \in 1..n : f.targets[i].id = f.targets[j].id => i = j
  BY <1>1 DEF Valid, ValidTargets, UniqueBy, Id
<1>6. ConditionIds(f) = ids
  BY DEF ConditionIds
<1> HIDE DEF own, last, ids
<1> SUFFICES ASSUME NEW i \in DOMAIN ids, NEW j \in DOMAIN ids, NEW k \in DOMAIN ids[i], NEW l \in DOMAIN ids[j],
                    ids[i][k] = ids[j][l]
             PROVE  i = j /\ k = l
  BY <1>6
<1>7. CASE i <= n /\ j <= n
  <2>1. i \in 1..n /\ j \in 1..n /\ ids[i] = own[i] /\ ids[j] = own[j]
    BY <1>4, <1>7
  <2>2. i = j
    BY <2>1, <1>2, <1>5
  <2> QED  BY <2>1, <2>2, <1>2 DEF Distinct
<1>8. CASE i <= n /\ ~(j <= n)
  BY <1>1, <1>2, <1>3, <1>4, <1>8
<1>9. CASE ~(i <= n) /\ j <= n
  BY <1>1, <1>2, <1>3, <1>4, <1>9
<1>10. CASE ~(i <= n) /\ ~(j <= n)
  <2>1. i = j /\ ids[i] = last
    BY <1>4, <1>10
  <2> QED  BY <2>1, <1>3 DEF Distinct
<1> QED  BY <1>7, <1>8, <1>9, <1>10

\* As many identifiers as targets.
LEMMA TargetCount ==
    ASSUME NEW f, IsConfig(f), Valid(f)
    PROVE  Cardinality(Keys(f.targets, Id)) = Len(f.targets) /\ IsFiniteSet(ToSet(f.targets))
<1> DEFINE n == Len(f.targets)
           ids == {f.targets[i].id : i \in 1..n}
           g == [i \in 1..n |-> f.targets[i].id]
<1>1. n \in Nat /\ DOMAIN f.targets = 1..n
  BY DEF IsConfig
<1>2. IsFiniteSet(1..n) /\ Cardinality(1..n) = n
  BY <1>1, FS_Interval
<1>3. g \in [1..n -> ids] /\ \A i, j \in 1..n : g[i] = g[j] => i = j
  BY <1>1 DEF Valid, ValidTargets, UniqueBy, Id
<1>4. \A y \in ids : \E i \in 1..n : g[i] = y
  OBVIOUS
<1>5. g \in Bijection(1..n, ids)
  BY <1>3, <1>4 DEF Bijection, Injection, Surjection, IsInjective
<1>6. Cardinality(ids) = n
  <2>1. ExistsBijection(1..n, ids)
    BY <1>5 DEF ExistsBijection
  <2> QED  BY <2>1, <1>2, FS_Bijection
<1>7. Keys(f.targets, Id) = ids
  BY <1>1 DEF Keys, Id
<1>8. IsFiniteSet(ToSet(f.targets))
  <2> DEFINE h == [i \in 1..n |-> f.targets[i]]
  <2>1. h \in Surjection(1..n, ToSet(f.targets))
    BY <1>1 DEF Surjection, ToSet
  <2> QED  BY <2>1, <1>2, FS_Surjection
<1> QED  BY <1>6, <1>7, <1>8

LEMMA AtMostOne ==
    ASSUME NEW S, IsFiniteSet(S), Cardinality(S) <= 1
    PROVE  \A x, y \in S : x = y
<1> SUFFICES ASSUME NEW x \in S, NEW y \in S, x # y  PROVE FALSE
  OBVIOUS
<1>1. IsFiniteSet({x}) /\ Cardinality({x}) = 1 /\ y \notin {x}
  BY FS_Singleton
<1>2. IsFiniteSet({x} \cup {y}) /\ Cardinality({x} \cup {y}) = 2
  <2>1. Cardinality({x} \cup {y}) = Cardinality({x}) + 1
    BY <1>1, FS_AddElement, Zenon
  <2> QED  BY <2>1, <1>1, FS_AddElement
<1>3. Cardinality({x} \cup {y}) <= Cardinality(S)
  BY FS_Subset
<1> QED  BY <1>2, <1>3, FS_CardinalityType

\* The members of the group have one profile, that of the first.
LEMMA GroupProfile ==
    ASSUME NEW f, IsConfig(f), Valid(f), NEW b \in f.baseline, NEW t \in ToSet(f.targets), t.id \in ToSet(b.targets)
    PROVE  t.profile = BaselineProfile(f, b)
<1> DEFINE first == CHOOSE u \in ToSet(f.targets) : u.id = b.targets[1]
           profiles == {u.profile : u \in Group(f, b)}
<1>1. b.targets \in Seq(STRING) /\ b.targets # <<>>
  BY DEF IsConfig, Optional, BehavioralBaselineConfig, Valid, ValidBaseline
<1>2. b.targets[1] \in ToSet(b.targets)
  BY <1>1 DEF ToSet
<1>3. \E u \in ToSet(f.targets) : u.id = b.targets[1]
  <2>1. b.targets[1] \in Keys(f.targets, Id)
    BY <1>2 DEF Valid, ValidBaseline
  <2> QED  BY <2>1 DEF Keys, Id, ToSet
<1>4. first \in ToSet(f.targets) /\ first.id = b.targets[1]
  BY <1>3
<1>5. first \in Group(f, b) /\ t \in Group(f, b)
  BY <1>2, <1>4 DEF Group
<1>6. IsFiniteSet(profiles)
  <2>1. IsFiniteSet(Group(f, b))
    BY TargetCount, FS_Subset DEF Group
  <2> DEFINE h == [u \in Group(f, b) |-> u.profile]
  <2>2. h \in Surjection(Group(f, b), profiles)
    BY DEF Surjection
  <2> QED  BY <2>1, <2>2, FS_Surjection
<1>7. Cardinality(profiles) <= 1
  BY DEF Valid, ValidBaseline
<1>8. t.profile = first.profile
  BY <1>5, <1>6, <1>7, AtMostOne
<1> QED  BY <1>8 DEF BaselineProfile

LEMMA UsableFile ==
    ASSUME IsConfig(file), Valid(file)
    PROVE  AcceptedIsUsable
<1>1. ASSUME NEW t \in ToSet(file.targets)
      PROVE  /\ \A n \in ToSet(file.profiles[t.profile].runs) : n > 0
             /\ t.auth = "basic" => \E secret \in t.password : secret \in AbsolutePath
  <2>1. t.profile \in DOMAIN file.profiles /\ ValidAuth(t)
    BY DEF Valid, ValidTargets
  <2>2. \A n \in ToSet(file.profiles[t.profile].runs) : n > 0
    <3>1. \A n \in ToSet(file.profiles[t.profile].runs) : n \in 1..1000
      BY <2>1, Zenon DEF Valid, ValidProfiles
    <3> QED  BY <3>1
  <2> QED  BY <2>1, <2>2 DEF ValidAuth
<1>2. file.concurrency > 0 /\ file.minimum \in 1..Cardinality(Keys(file.targets, Id))
  <2>1. file.concurrency \in 1..MaxTargets /\ file.minimum \in 1..Len(file.targets)
    BY DEF Valid, ValidNumbers
  <2>2. Cardinality(Keys(file.targets, Id)) = Len(file.targets)
    BY TargetCount, Zenon
  <2>3. file.concurrency > 0
    <3>1. MaxTargets \in Nat  BY DEF MaxTargets
    <3> QED  BY <2>1, <3>1
  <2> QED  BY <2>1, <2>2, <2>3
<1>3. \A b \in file.baseline :
        /\ b.learning <= file.retention
        /\ \A t \in ToSet(file.targets) : t.id \in ToSet(b.targets) => t.profile = BaselineProfile(file, b)
  <2>1. \A b \in file.baseline : b.learning <= file.retention
    BY DEF Valid, ValidBaseline, IsConfig, Optional, BehavioralBaselineConfig
  <2> QED  BY <2>1, GroupProfile
<1>4. file.provider = "pushover" => file.pushover # {}
  BY DEF Valid, ValidNotifications
<1> QED  BY <1>1, <1>2, <1>3, <1>4 DEF AcceptedIsUsable

-----------------------------------------------------------------------------
(* The inductive invariant.                                                *)

Answer == {Answers(c)[k] : c \in AdGuardConfiguration, k \in 1..Requests}

\* The state that the check and the resolver are in.
TypeOK ==
    /\ config \in AdGuardConfiguration
    /\ now \in Nat
    /\ IsConfig(file) /\ Valid(file)
    /\ target \in DOMAIN file.targets
    /\ read \in Seq(Answer) /\ Len(read) <= Requests
    /\ seen \subseteq AdGuardConfiguration /\ config \in seen

\* Each answer is what some configuration since the start answers there.
ReadFromSeen == \A k \in DOMAIN read : \E c \in seen : read[k] = Answers(c)[k]

IInv == TypeOK /\ ReadFromSeen /\ ClearMeansHeld /\ CompliantIsClear

\* The conditions of the target under check, as PolicyConditions has them.
LEMMA DeclaredForms ==
    ASSUME TypeOK
    PROVE  /\ DeclaredPolicy \in PolicyConfig /\ ValidPolicy(DeclaredPolicy)
           /\ \A id \in Declared :
                \/ id = <<"protection">> /\ DeclaredPolicy.protection # {}
                \/ id = <<"upstream-mode">> /\ DeclaredPolicy.mode # {}
                \/ id = <<"upstream-set">> /\ DeclaredPolicy.upstreams # {}
                \/ \E f \in ToSet(DeclaredPolicy.filters) : id = <<"filter", f.url>>
                \/ id = <<"rewrites-enabled">> /\ DeclaredPolicy.enabled # {}
                \/ \E r \in ToSet(DeclaredPolicy.required) : id = <<"rewrite", Name(r)>>
<1>1. file.targets[target] \in ToSet(file.targets)
  BY DEF TypeOK, IsConfig, ToSet
<1>2. DeclaredPolicy \in PolicyConfig /\ ValidPolicy(DeclaredPolicy)
  BY <1>1, AcceptedPolicy DEF TypeOK, DeclaredPolicy
<1> QED  BY <1>2, PolicyConditions, Zenon DEF Declared

\* What has been read when all requests are answered.
LEMMA AllRead ==
    ASSUME TypeOK, ReadFromSeen, Len(read) = Requests
    PROVE  /\ \E c \in seen : Protection = c.protection
           /\ \E c \in seen : Stats = c.stats
           /\ \E c \in seen : Dns = [mode |-> c.mode, upstreams |-> c.upstreams]
           /\ \E c \in seen : Filters = c.filters
           /\ \E c \in seen : Rewrites = c.rewrites
           /\ \E c \in seen : RewritesEnabled = c.on
<1>1. \A k \in 1..6 : \E c \in seen : read[k] = Answers(c)[k]
  BY DEF TypeOK, ReadFromSeen, Requests
<1>2. \A c : /\ Answers(c)[1] = c.protection /\ Answers(c)[2] = c.stats
             /\ Answers(c)[3] = [mode |-> c.mode, upstreams |-> c.upstreams]
             /\ Answers(c)[4] = c.filters /\ Answers(c)[5] = c.rewrites /\ Answers(c)[6] = c.on
  BY DEF Answers
<1>3. \E c \in seen : Protection = c.protection
  <2>1. PICK c \in seen : read[1] = Answers(c)[1]
    BY <1>1
  <2> QED  BY <2>1, <1>2 DEF Protection
<1>4. \E c \in seen : Stats = c.stats
  <2>1. PICK c \in seen : read[2] = Answers(c)[2]
    BY <1>1
  <2> QED  BY <2>1, <1>2 DEF Stats
<1>5. \E c \in seen : Dns = [mode |-> c.mode, upstreams |-> c.upstreams]
  <2>1. PICK c \in seen : read[3] = Answers(c)[3]
    BY <1>1
  <2> QED  BY <2>1, <1>2 DEF Dns
<1>6. \E c \in seen : Filters = c.filters
  <2>1. PICK c \in seen : read[4] = Answers(c)[4]
    BY <1>1
  <2> QED  BY <2>1, <1>2 DEF Filters
<1>7. \E c \in seen : Rewrites = c.rewrites
  <2>1. PICK c \in seen : read[5] = Answers(c)[5]
    BY <1>1
  <2> QED  BY <2>1, <1>2 DEF Rewrites
<1>8. \E c \in seen : RewritesEnabled = c.on
  <2>1. PICK c \in seen : read[6] = Answers(c)[6]
    BY <1>1
  <2> QED  BY <2>1, <1>2 DEF RewritesEnabled
<1> QED  BY <1>3, <1>4, <1>5, <1>6, <1>7, <1>8

-----------------------------------------------------------------------------
(* Verdicts and what they claim.                                           *)

LEMMA VerdictOf ==
    /\ Verdict(<<"protection">>) = ProtectionVerdict(CHOOSE d \in DeclaredPolicy.protection : TRUE)
    /\ Verdict(<<"upstream-mode">>) = MatchVerdict({NormalMode(Dns.mode)} = DeclaredPolicy.mode)
    /\ Verdict(<<"upstream-set">>) =
         MatchVerdict(\E s \in DeclaredPolicy.upstreams : ToSet(s) = ToSet(Dns.upstreams))
    /\ Verdict(<<"rewrites-enabled">>) = MatchVerdict({RewritesEnabled} = DeclaredPolicy.enabled)
    /\ \A u : Verdict(<<"filter", u>>) = FilterVerdict(CHOOSE f \in ToSet(DeclaredPolicy.filters) : f.url = u)
    /\ \A u : Verdict(<<"rewrite", u>>) = RewriteVerdict(CHOOSE r \in ToSet(DeclaredPolicy.required) : Name(r) = u)
BY DEF Verdict

LEMMA FactsOf ==
    ASSUME NEW C
    PROVE  /\ Facts(<<"protection">>, C) = {{c \in C : c.protection \in DeclaredPolicy.protection}}
           /\ Facts(<<"upstream-mode">>, C) =
                {{c \in C : c.mode \in DeclaredPolicy.mode \/ (c.mode = "" /\ DeclaredPolicy.mode = {"load_balance"})}}
           /\ Facts(<<"upstream-set">>, C) = {{c \in C : \A s \in DeclaredPolicy.upstreams : ToSet(s) = ToSet(c.upstreams)}}
           /\ Facts(<<"rewrites-enabled">>, C) = {{c \in C : c.on \in DeclaredPolicy.enabled}}
           /\ \A u : Facts(<<"filter", u>>, C) =
                {{c \in C : Fresh(c, f)} : f \in {f \in ToSet(DeclaredPolicy.filters) : f.url = u}}
           /\ \A u : LET r == CHOOSE r \in ToSet(DeclaredPolicy.required) : Name(r) = u
                     IN  Facts(<<"rewrite", u>>, C) =
                           IF r.enabled THEN {{c \in C : Resolves(c, u)}, {c \in C : c.on}}
                           ELSE {{c \in C : Listed(c, u)}}
BY DEF Facts

\* Elements of a list without two of the same key are told apart by it.
LEMMA ByUrl ==
    ASSUME NEW s, UniqueBy(s, Url), NEW f \in ToSet(s), NEW g \in ToSet(s), f.url = g.url
    PROVE  f = g
BY DEF UniqueBy, Url, ToSet

LEMMA ByName ==
    ASSUME NEW s, UniqueBy(s, Name), NEW f \in ToSet(s), NEW g \in ToSet(s), Name(f) = Name(g)
    PROVE  f = g
BY DEF UniqueBy, ToSet

\* A filter that is judged to be as required is there and fresh enough.
LEMMA FilterIsFresh ==
    ASSUME NEW c \in AdGuardConfiguration, Filters = c.filters,
           NEW f \in RequiredFilter, FilterVerdict(f) \in Clear
    PROVE  Fresh(c, f)
<1> DEFINE found == {g \in ToSet(Filters) : g.url = f.url}
<1>1. /\ found # {}
      /\ \A g \in found : g.enabled = f.enabled
      /\ f.enabled => \E g \in found : \E t \in g.updated, h \in f.hours : ~(Start - t > h * Hour)
  BY DEF FilterVerdict, Clear
<1>2. CASE f.enabled
  <2>1. PICK g \in found : \E t \in g.updated, h \in f.hours : ~(Start - t > h * Hour)
    BY <1>1, <1>2
  <2>2. PICK t \in g.updated, h \in f.hours : ~(Start - t > h * Hour)
    BY <2>1
  <2>3. t \in Nat
    <3>1. c.filters \in Seq([url : STRING, enabled : BOOLEAN, updated : Optional(Nat)])
      BY DEF AdGuardConfiguration
    <3>2. g \in [url : STRING, enabled : BOOLEAN, updated : Optional(Nat)]
      BY <3>1, ElementOf
    <3> QED  BY <3>2 DEF Optional
  <2>4. h \in Nat
    BY DEF RequiredFilter, Optional
  <2>5. h * Hour \in Nat
    BY <2>4, HourAssumption
  <2>6. t + h * Hour >= Start
    BY <2>2, <2>3, <2>5, TimeAssumption
  <2> QED  BY <1>1, <2>6 DEF Fresh
<1>3. CASE ~f.enabled
  BY <1>1, <1>3 DEF Fresh
<1> QED  BY <1>2, <1>3

LEMMA ClearVerdicts ==
    ASSUME TypeOK, ReadFromSeen, Len(read) = Requests,
           NEW id \in Declared, Verdict(id) \in Clear, NEW fact \in Facts(id, seen)
    PROVE  fact # {}
<1>1. CASE id = <<"protection">> /\ DeclaredPolicy.protection # {}
  <2>1. PICK c \in seen : Protection = c.protection
    BY AllRead
  <2>2. Protection \in DeclaredPolicy.protection
    BY <1>1, VerdictOf DEF ProtectionVerdict, Clear
  <2>3. fact = {d \in seen : d.protection \in DeclaredPolicy.protection}
    <3>1. Facts(id, seen) = {{d \in seen : d.protection \in DeclaredPolicy.protection}}
      BY <1>1, FactsOf
    <3> QED  BY <3>1, Zenon
  <2> QED  BY <2>1, <2>2, <2>3
<1>2. CASE id = <<"upstream-mode">> /\ DeclaredPolicy.mode # {}
  <2>1. PICK c \in seen : Dns = [mode |-> c.mode, upstreams |-> c.upstreams]
    BY AllRead
  <2>2. {NormalMode(c.mode)} = DeclaredPolicy.mode
    BY <1>2, <2>1, VerdictOf DEF MatchVerdict, Clear
  <2>3. c.mode \in DeclaredPolicy.mode \/ (c.mode = "" /\ DeclaredPolicy.mode = {"load_balance"})
    BY <2>2 DEF NormalMode
  <2>4. fact = {d \in seen : d.mode \in DeclaredPolicy.mode \/ (d.mode = "" /\ DeclaredPolicy.mode = {"load_balance"})}
    <3>1. Facts(id, seen) = {{d \in seen : d.mode \in DeclaredPolicy.mode \/ (d.mode = "" /\ DeclaredPolicy.mode = {"load_balance"})}}
      BY <1>2, FactsOf
    <3> QED  BY <3>1, Zenon
  <2> QED  BY <2>3, <2>4
<1>3. CASE id = <<"upstream-set">> /\ DeclaredPolicy.upstreams # {}
  <2>1. PICK c \in seen : Dns = [mode |-> c.mode, upstreams |-> c.upstreams]
    BY AllRead
  <2>2. \E s \in DeclaredPolicy.upstreams : ToSet(s) = ToSet(c.upstreams)
    BY <1>3, <2>1, VerdictOf DEF MatchVerdict, Clear
  <2>3. \A s, t \in DeclaredPolicy.upstreams : s = t
    BY DeclaredForms DEF PolicyConfig, Optional
  <2>4. \A s \in DeclaredPolicy.upstreams : ToSet(s) = ToSet(c.upstreams)
    BY <2>2, <2>3
  <2>5. fact = {d \in seen : \A s \in DeclaredPolicy.upstreams : ToSet(s) = ToSet(d.upstreams)}
    <3>1. Facts(id, seen) = {{d \in seen : \A s \in DeclaredPolicy.upstreams : ToSet(s) = ToSet(d.upstreams)}}
      BY <1>3, FactsOf
    <3> QED  BY <3>1, Zenon
  <2> QED  BY <2>4, <2>5
<1>4. CASE \E f \in ToSet(DeclaredPolicy.filters) : id = <<"filter", f.url>>
  <2>1. PICK f \in ToSet(DeclaredPolicy.filters) : id = <<"filter", f.url>>
    BY <1>4
  <2>2. UniqueBy(DeclaredPolicy.filters, Url) /\ DeclaredPolicy.filters \in Seq(RequiredFilter)
    BY DeclaredForms, Zenon DEF ValidPolicy, PolicyConfig
  <2>3. f = CHOOSE g \in ToSet(DeclaredPolicy.filters) : g.url = f.url
    BY <2>2, ByUrl
  <2>4. FilterVerdict(f) \in Clear
    BY <2>1, <2>3, VerdictOf
  <2>5. PICK c \in seen : Filters = c.filters
    BY AllRead
  <2>6. Fresh(c, f)
    BY <2>2, <2>4, <2>5, ElementOf, FilterIsFresh DEF TypeOK
  <2>7. PICK h \in ToSet(DeclaredPolicy.filters) : h.url = f.url /\ fact = {d \in seen : Fresh(d, h)}
    <3>1. Facts(id, seen) = {{d \in seen : Fresh(d, h)} : h \in {h \in ToSet(DeclaredPolicy.filters) : h.url = f.url}}
      <4>1. Facts(<<"filter", f.url>>, seen) =
              {{d \in seen : Fresh(d, h)} : h \in {h \in ToSet(DeclaredPolicy.filters) : h.url = f.url}}
        BY DEF Facts
      <4> QED  BY <4>1, <2>1, Zenon
    <3> QED  BY <3>1, Zenon
  <2>8. h = f
    BY <2>2, <2>7, ByUrl
  <2> QED  BY <2>6, <2>7, <2>8
<1>5. CASE id = <<"rewrites-enabled">> /\ DeclaredPolicy.enabled # {}
  <2>1. PICK c \in seen : RewritesEnabled = c.on
    BY AllRead
  <2>2. c.on \in DeclaredPolicy.enabled
    BY <1>5, <2>1, VerdictOf DEF MatchVerdict, Clear
  <2>3. fact = {d \in seen : d.on \in DeclaredPolicy.enabled}
    <3>1. Facts(id, seen) = {{d \in seen : d.on \in DeclaredPolicy.enabled}}
      BY <1>5, FactsOf
    <3> QED  BY <3>1, Zenon
  <2> QED  BY <2>2, <2>3
<1>6. CASE \E r \in ToSet(DeclaredPolicy.required) : id = <<"rewrite", Name(r)>>
  <2>1. PICK q \in ToSet(DeclaredPolicy.required) : id = <<"rewrite", Name(q)>>
    BY <1>6
  <2> DEFINE r == CHOOSE r \in ToSet(DeclaredPolicy.required) : Name(r) = Name(q)
  <2>2. r \in ToSet(DeclaredPolicy.required) /\ Name(r) = Name(q)
    BY <2>1
  <2>3. r.enabled \in BOOLEAN
    <3>1. DeclaredPolicy.required \in Seq(RequiredRewrite)
      BY DeclaredForms DEF PolicyConfig
    <3>2. r \in RequiredRewrite
      BY <2>2, <3>1, ElementOf, Zenon
    <3> QED  BY <3>2 DEF RequiredRewrite
  <2>4. RewriteVerdict(r) \in Clear
    BY <2>1, VerdictOf
  <2>5. fact \in IF r.enabled THEN {{c \in seen : Resolves(c, Name(q))}, {c \in seen : c.on}}
                 ELSE {{c \in seen : Listed(c, Name(q))}}
    BY <2>1, FactsOf
  <2> HIDE DEF r
  <2>6. /\ \E e \in ToSet(Rewrites) : Name(e) = Name(q) /\ e.enabled = r.enabled
        /\ r.enabled => RewritesEnabled
    BY <2>2, <2>3, <2>4 DEF RewriteVerdict, Clear
  <2>7. PICK c \in seen : Rewrites = c.rewrites
    BY AllRead
  <2>8. PICK d \in seen : RewritesEnabled = d.on
    BY AllRead
  <2>9. CASE r.enabled
    <3>1. Resolves(c, Name(q)) /\ d.on
      BY <2>6, <2>7, <2>8, <2>9 DEF Resolves
    <3> QED  BY <2>5, <2>9, <3>1
  <2>10. CASE ~r.enabled
    <3>1. Listed(c, Name(q))
      BY <2>6, <2>7, <2>10 DEF Listed
    <3> QED  BY <2>5, <2>10, <3>1
  <2> QED  BY <2>3, <2>9, <2>10
<1> QED  BY <1>1, <1>2, <1>3, <1>4, <1>5, <1>6, DeclaredForms

\* A filter list that is fresh, in a list without duplicates, is judged so.
LEMMA FreshIsClear ==
    ASSUME NEW c \in AdGuardConfiguration, Filters = c.filters, UniqueBy(c.filters, Url),
           NEW f \in RequiredFilter, Fresh(c, f)
    PROVE  FilterVerdict(f) \in Clear
<1> DEFINE found == {g \in ToSet(Filters) : g.url = f.url}
<1>1. PICK g \in ToSet(c.filters) :
        /\ g.url = f.url /\ g.enabled = f.enabled
        /\ f.enabled => \E t \in g.updated, h \in f.hours : t + h * Hour >= Start
  BY DEF Fresh
<1>2. found = {g}
  BY <1>1, ByUrl
<1>3. f.enabled => ~(\A t \in g.updated, h \in f.hours : Start - t > h * Hour)
  <2> SUFFICES ASSUME f.enabled  PROVE \E t \in g.updated, h \in f.hours : ~(Start - t > h * Hour)
    OBVIOUS
  <2>1. PICK t \in g.updated, h \in f.hours : t + h * Hour >= Start
    BY <1>1
  <2>2. t \in Nat
    <3>1. c.filters \in Seq([url : STRING, enabled : BOOLEAN, updated : Optional(Nat)])
      BY DEF AdGuardConfiguration
    <3>2. g \in [url : STRING, enabled : BOOLEAN, updated : Optional(Nat)]
      BY <3>1, ElementOf
    <3> QED  BY <3>2 DEF Optional
  <2>3. h * Hour \in Nat
    <3>1. h \in Nat  BY DEF RequiredFilter, Optional
    <3> QED  BY <3>1, HourAssumption
  <2>4. ~(Start - t > h * Hour)
    BY <2>1, <2>2, <2>3, TimeAssumption
  <2> QED  BY <2>4
<1> HIDE DEF found
<1>4. FilterVerdict(f) = "matches_policy"
  BY <1>1, <1>2, <1>3 DEF FilterVerdict, found
<1> QED  BY <1>4 DEF Clear

\* What a compliant configuration does is what is declared.
LEMMA CompliantFact ==
    ASSUME NEW c, Complies(c), NEW id \in Declared, NEW fact \in Facts(id, {c})
    PROVE  fact # {}
BY DEF Complies

LEMMA CompliantVerdicts ==
    ASSUME TypeOK, ReadFromSeen, Len(read) = Requests, \A c \in seen : Complies(c), NEW id \in Declared
    PROVE  Verdict(id) \in Clear
<1>1. CASE id = <<"protection">> /\ DeclaredPolicy.protection # {}
  <2>1. PICK c \in seen : Protection = c.protection
    BY AllRead
  <2>2. c.protection \in DeclaredPolicy.protection
    <3>1. {d \in {c} : d.protection \in DeclaredPolicy.protection} \in Facts(id, {c})
      <4>1. Facts(id, {c}) = {{d \in {c} : d.protection \in DeclaredPolicy.protection}}
        BY <1>1, FactsOf
      <4> QED  BY <4>1, Zenon
    <3> QED  BY <3>1, CompliantFact
  <2>3. \A x, y \in DeclaredPolicy.protection : x = y
    BY DeclaredForms DEF PolicyConfig, Optional
  <2>4. Protection = CHOOSE d \in DeclaredPolicy.protection : TRUE
    BY <2>1, <2>2, <2>3
  <2> QED  BY <1>1, <2>4, VerdictOf DEF ProtectionVerdict, Clear
<1>2. CASE id = <<"upstream-mode">> /\ DeclaredPolicy.mode # {}
  <2>1. PICK c \in seen : Dns = [mode |-> c.mode, upstreams |-> c.upstreams]
    BY AllRead
  <2>2. c.mode \in DeclaredPolicy.mode \/ (c.mode = "" /\ DeclaredPolicy.mode = {"load_balance"})
    <3>1. {d \in {c} : d.mode \in DeclaredPolicy.mode \/ (d.mode = "" /\ DeclaredPolicy.mode = {"load_balance"})} \in Facts(id, {c})
      <4>1. Facts(id, {c}) = {{d \in {c} : d.mode \in DeclaredPolicy.mode \/ (d.mode = "" /\ DeclaredPolicy.mode = {"load_balance"})}}
        BY <1>2, FactsOf
      <4> QED  BY <4>1, Zenon
    <3> QED  BY <3>1, CompliantFact
  <2>3. \A x, y \in DeclaredPolicy.mode : x = y
    BY DeclaredForms DEF PolicyConfig, Optional
  <2>4. "" \notin DeclaredPolicy.mode
    BY DeclaredForms DEF ValidPolicy
  <2>5. {NormalMode(Dns.mode)} = DeclaredPolicy.mode
    BY <2>1, <2>2, <2>3, <2>4 DEF NormalMode
  <2> QED  BY <1>2, <2>5, VerdictOf DEF MatchVerdict, Clear
<1>3. CASE id = <<"upstream-set">> /\ DeclaredPolicy.upstreams # {}
  <2>1. PICK c \in seen : Dns = [mode |-> c.mode, upstreams |-> c.upstreams]
    BY AllRead
  <2>2. \A s \in DeclaredPolicy.upstreams : ToSet(s) = ToSet(c.upstreams)
    <3>1. {d \in {c} : \A s \in DeclaredPolicy.upstreams : ToSet(s) = ToSet(d.upstreams)} \in Facts(id, {c})
      <4>1. Facts(id, {c}) = {{d \in {c} : \A s \in DeclaredPolicy.upstreams : ToSet(s) = ToSet(d.upstreams)}}
        BY <1>3, FactsOf
      <4> QED  BY <4>1, Zenon
    <3> QED  BY <3>1, CompliantFact
  <2>3. \E s \in DeclaredPolicy.upstreams : ToSet(s) = ToSet(Dns.upstreams)
    BY <1>3, <2>1, <2>2
  <2> QED  BY <1>3, <2>3, VerdictOf DEF MatchVerdict, Clear
<1>4. CASE \E f \in ToSet(DeclaredPolicy.filters) : id = <<"filter", f.url>>
  <2>1. PICK f \in ToSet(DeclaredPolicy.filters) : id = <<"filter", f.url>>
    BY <1>4
  <2>2. UniqueBy(DeclaredPolicy.filters, Url) /\ DeclaredPolicy.filters \in Seq(RequiredFilter)
    BY DeclaredForms, Zenon DEF ValidPolicy, PolicyConfig
  <2>3. f = CHOOSE g \in ToSet(DeclaredPolicy.filters) : g.url = f.url
    BY <2>2, ByUrl
  <2>4. PICK c \in seen : Filters = c.filters
    BY AllRead
  <2>5. Fresh(c, f)
    <3>1. Facts(<<"filter", f.url>>, {c}) =
            {{d \in {c} : Fresh(d, h)} : h \in {h \in ToSet(DeclaredPolicy.filters) : h.url = f.url}}
      BY DEF Facts
    <3>2. {d \in {c} : Fresh(d, f)} \in Facts(id, {c})
      BY <3>1, <2>1, Zenon
    <3> QED  BY <3>2, CompliantFact
  <2>6. FilterVerdict(f) \in Clear
    <3>1. UniqueBy(c.filters, Url)
      BY DEF Complies, UsableFilters
    <3> QED  BY <3>1, <2>2, <2>4, <2>5, ElementOf, FreshIsClear DEF TypeOK
  <2> QED  BY <2>1, <2>3, <2>6, VerdictOf
<1>5. CASE id = <<"rewrites-enabled">> /\ DeclaredPolicy.enabled # {}
  <2>1. PICK c \in seen : RewritesEnabled = c.on
    BY AllRead
  <2>2. c.on \in DeclaredPolicy.enabled
    <3>1. {d \in {c} : d.on \in DeclaredPolicy.enabled} \in Facts(id, {c})
      <4>1. Facts(id, {c}) = {{d \in {c} : d.on \in DeclaredPolicy.enabled}}
        BY <1>5, FactsOf
      <4> QED  BY <4>1, Zenon
    <3> QED  BY <3>1, CompliantFact
  <2>3. \A x, y \in DeclaredPolicy.enabled : x = y
    BY DeclaredForms DEF PolicyConfig, Optional
  <2>4. {RewritesEnabled} = DeclaredPolicy.enabled
    BY <2>1, <2>2, <2>3
  <2> QED  BY <1>5, <2>4, VerdictOf DEF MatchVerdict, Clear
<1>6. CASE \E r \in ToSet(DeclaredPolicy.required) : id = <<"rewrite", Name(r)>>
  <2>1. PICK q \in ToSet(DeclaredPolicy.required) : id = <<"rewrite", Name(q)>>
    BY <1>6
  <2> DEFINE r == CHOOSE r \in ToSet(DeclaredPolicy.required) : Name(r) = Name(q)
  <2>2. r \in ToSet(DeclaredPolicy.required) /\ Name(r) = Name(q)
    BY <2>1
  <2>3. r.enabled \in BOOLEAN
    <3>1. DeclaredPolicy.required \in Seq(RequiredRewrite)
      BY DeclaredForms DEF PolicyConfig
    <3>2. r \in RequiredRewrite
      BY <2>2, <3>1, ElementOf, Zenon
    <3> QED  BY <3>2 DEF RequiredRewrite
  <2>4. Verdict(id) = RewriteVerdict(r)
    BY <2>1, VerdictOf
  <2>5. PICK c \in seen : Rewrites = c.rewrites
    BY AllRead
  <2>6. PICK d \in seen : RewritesEnabled = d.on
    BY AllRead
  <2>7. \A e : Facts(id, {e}) = IF r.enabled THEN {{x \in {e} : Resolves(x, Name(q))}, {x \in {e} : x.on}}
                                ELSE {{x \in {e} : Listed(x, Name(q))}}
    BY <2>1, FactsOf
  <2> HIDE DEF r
  <2>8. CASE r.enabled
    <3>1. {x \in {c} : Resolves(x, Name(q))} \in Facts(id, {c}) /\ {x \in {d} : x.on} \in Facts(id, {d})
      BY <2>7, <2>8
    <3>2. Resolves(c, Name(q)) /\ d.on
      BY <3>1, CompliantFact
    <3>3. c.rewrites \in Seq(RequiredRewrite)
      BY DEF TypeOK, AdGuardConfiguration
    <3>4. \E e \in ToSet(Rewrites) : Name(e) = Name(r) /\ e.enabled = r.enabled
      <4>1. PICK e \in ToSet(c.rewrites) : Name(e) = Name(q) /\ e.enabled
        BY <3>2 DEF Resolves
      <4>2. e.enabled \in BOOLEAN
        <5>1. e \in RequiredRewrite
          BY <3>3, ElementOf, Zenon
        <5> QED  BY <5>1 DEF RequiredRewrite
      <4> QED  BY <4>1, <4>2, <2>2, <2>3, <2>5, <2>8
    <3> QED  BY <2>4, <2>6, <3>2, <3>4 DEF RewriteVerdict, Clear
  <2>9. CASE ~r.enabled
    <3>1. {x \in {c} : Listed(x, Name(q))} \in Facts(id, {c})
      BY <2>7, <2>9
    <3>2. Listed(c, Name(q))
      BY <3>1, CompliantFact
    <3>3. c.rewrites \in Seq(RequiredRewrite)
      BY DEF TypeOK, AdGuardConfiguration
    <3>4. \E e \in ToSet(Rewrites) : Name(e) = Name(r) /\ e.enabled = r.enabled
      <4>1. PICK e \in ToSet(c.rewrites) : Name(e) = Name(q) /\ ~e.enabled
        BY <3>2 DEF Listed
      <4>2. e.enabled \in BOOLEAN
        <5>1. e \in RequiredRewrite
          BY <3>3, ElementOf, Zenon
        <5> QED  BY <5>1 DEF RequiredRewrite
      <4> QED  BY <4>1, <4>2, <2>2, <2>3, <2>5, <2>9
    <3> QED  BY <2>4, <2>9, <3>4 DEF RewriteVerdict, Clear
  <2> QED  BY <2>3, <2>8, <2>9
<1> QED  BY <1>1, <1>2, <1>3, <1>4, <1>5, <1>6, DeclaredForms

-----------------------------------------------------------------------------
(* The steps.                                                              *)

\* While the check runs nothing is concluded.
LEMMA NothingConcluded ==
    ASSUME Running
    PROVE  ClearMeansHeld /\ CompliantIsClear
<1>1. DOMAIN outcome = {}
  BY DEF Running
<1> QED  BY <1>1 DEF ClearMeansHeld, CompliantIsClear

LEMMA InitIsGood == Init => IInv
<1> SUFFICES ASSUME Init PROVE IInv
  OBVIOUS
<1>1. TypeOK
  BY ConfigurationsAssumption, FilesAssumption, TimeAssumption DEF Init, TypeOK, Requests
<1>2. ReadFromSeen
  BY DEF Init, ReadFromSeen
<1>3. Running
  BY DEF Init, Running
<1> QED  BY <1>1, <1>2, <1>3, NothingConcluded DEF IInv

LEMMA AnsweredIsGood == IInv /\ Answered => IInv'
<1> SUFFICES ASSUME IInv, Answered PROVE IInv'
  OBVIOUS
<1> DEFINE k == Len(read) + 1
<1>0. TypeOK /\ ReadFromSeen
  BY DEF IInv
<1>1. /\ read \in Seq(Answer) /\ k \in 1..Requests /\ read' = Append(read, Answers(config)[k])
      /\ UNCHANGED <<config, now, file, target, complete, outcome, seen, changes>>
  BY <1>0 DEF TypeOK, Answered, Requests
<1>2. Answers(config)[k] \in Answer
  BY <1>0, <1>1 DEF TypeOK, Answer
<1>3. TypeOK'
  <2>1. read' \in Seq(Answer) /\ Len(read') <= Requests
    BY <1>1, <1>2 DEF Requests
  <2> QED  BY <1>0, <1>1, <2>1 DEF TypeOK
<1>4. ReadFromSeen'
  <2>1. \A j \in DOMAIN read' : (j \in DOMAIN read /\ read'[j] = read[j]) \/ (j = k /\ read'[j] = Answers(config)[k])
    BY <1>1
  <2> QED  BY <2>1, <1>0, <1>1 DEF ReadFromSeen, TypeOK
<1>5. Running'
  BY <1>1 DEF Answered, Running
<1> QED  BY <1>3, <1>4, <1>5, NothingConcluded, PTL DEF IInv

LEMMA BecomesIsGood ==
    ASSUME IInv, NEW c \in AdGuardConfiguration, Becomes(c)
    PROVE  IInv'
<1>0. TypeOK /\ ReadFromSeen
  BY DEF IInv
<1>1. TypeOK'
  BY <1>0 DEF Becomes, TypeOK
<1>2. ReadFromSeen'
  BY <1>0 DEF Becomes, ReadFromSeen
<1>3. Running'
  BY DEF Becomes, Running
<1> QED  BY <1>1, <1>2, <1>3, NothingConcluded, PTL DEF IInv

LEMMA RefreshIsGood == IInv /\ Refresh => IInv'
<1> SUFFICES ASSUME IInv, Refresh PROVE IInv'
  OBVIOUS
<1>1. PICK i \in DOMAIN config.filters : Becomes([config EXCEPT !.filters[i].updated = {now}])
  BY DEF Refresh
<1>2. config \in AdGuardConfiguration /\ now \in Nat
  BY DEF IInv, TypeOK
<1>3. [config EXCEPT !.filters[i].updated = {now}] \in AdGuardConfiguration
  <2>1. {now} \in Optional(Nat)
    BY <1>2 DEF Optional
  <2> DEFINE Filter == [url : STRING, enabled : BOOLEAN, updated : Optional(Nat)]
  <2>2. config.filters \in Seq(Filter)
    BY <1>2 DEF AdGuardConfiguration
  <2>3. [config.filters[i] EXCEPT !.updated = {now}] \in Filter
    <3> HIDE DEF Filter
    <3>1. config.filters[i] \in Filter
      BY <2>2
    <3> QED  BY <2>1, <3>1 DEF Filter
  <2> HIDE DEF Filter
  <2>4. [config.filters EXCEPT ![i] = [config.filters[i] EXCEPT !.updated = {now}]] \in Seq(Filter)
    BY <2>2, <2>3
  <2>5. [config EXCEPT !.filters = [config.filters EXCEPT ![i] = [config.filters[i] EXCEPT !.updated = {now}]]]
          \in AdGuardConfiguration
    BY <1>2, <2>4 DEF AdGuardConfiguration, Filter
  <2>6. [config EXCEPT !.filters[i].updated = {now}] =
          [config EXCEPT !.filters = [config.filters EXCEPT ![i] = [config.filters[i] EXCEPT !.updated = {now}]]]
    OBVIOUS
  <2> QED  BY <2>5, <2>6
<1> QED  BY <1>1, <1>3, BecomesIsGood

LEMMA TickIsGood == IInv /\ Tick => IInv'
<1> SUFFICES ASSUME IInv, Tick PROVE IInv'
  OBVIOUS
<1>1. TypeOK' /\ ReadFromSeen'
  BY DEF IInv, Tick, TypeOK, ReadFromSeen
<1>2. Running'
  BY DEF Tick, Running
<1> QED  BY <1>1, <1>2, NothingConcluded, PTL DEF IInv

\* The step that concludes: everything was read from configurations that the
\* resolver has had since the start.
LEMMA EvaluateIsGood == IInv /\ Evaluate => IInv'
<1> SUFFICES ASSUME IInv, Evaluate PROVE IInv'
  OBVIOUS
<1>0. TypeOK /\ ReadFromSeen /\ Len(read) = Requests
  BY DEF IInv, Evaluate
<1>1. /\ complete' = Usable /\ outcome' = Evaluation
      /\ UNCHANGED <<config, now, file, target, read, seen, changes>>
  BY DEF Evaluate
<1>2. TypeOK' /\ ReadFromSeen'
  BY <1>0, <1>1 DEF TypeOK, ReadFromSeen
<1>3. DeclaredPolicy' = DeclaredPolicy
  BY <1>1 DEF DeclaredPolicy
<1>4. Declared' = Declared
  BY <1>3 DEF Declared
<1>5. \A id \in Declared : id # <<"api">> /\ id # <<"processing-latency">>
  <2> TAKE id \in Declared
  <2>1. \/ id = <<"protection">> \/ id = <<"upstream-mode">> \/ id = <<"upstream-set">> \/ id = <<"rewrites-enabled">>
        \/ \E u : id = <<"filter", u>>
        \/ \E u : id = <<"rewrite", u>>
    BY <1>0, DeclaredForms
  <2> QED  BY <2>1
<1>c. ASSUME NEW c, Complies(c)'  PROVE Complies(c)
  <2>1. UsableFilters(c.filters)' = UsableFilters(c.filters)
    BY <1>3 DEF UsableFilters
  <2>2. \A id : Facts(id, {c})' = Facts(id, {c})
    BY <1>3 DEF Facts
  <2> QED  BY <1>4, <1>c, <2>1, <2>2 DEF Complies
<1>6. CASE Usable
  <2>1. /\ DOMAIN outcome' = {<<"api">>, <<"processing-latency">>} \cup Declared
        /\ outcome'[<<"api">>] = "available"
        /\ outcome'[<<"processing-latency">>] =
             IF Stats.latency > SlowestAnswer THEN "above_threshold" ELSE "within_threshold"
        /\ \A id \in Declared : outcome'[id] = Verdict(id)
    BY <1>1, <1>5, <1>6 DEF Evaluation
  <2>2. ClearMeansHeld'
    <3> SUFFICES ASSUME NEW id \in Declared, outcome'[id] \in Clear, NEW fact \in Facts(id, seen)'
                 PROVE  fact # {}
      BY <1>4 DEF ClearMeansHeld
    <3>1. fact \in Facts(id, seen)
      BY <1>1, <1>3 DEF Facts
    <3> QED  BY <1>0, <2>1, <3>1, ClearVerdicts
  <2>3. CompliantIsClear'
    <3> SUFFICES ASSUME (\A c \in seen : Complies(c))'
                 PROVE  complete' /\ \A id \in DOMAIN outcome' : outcome'[id] \in Clear
      BY DEF CompliantIsClear
    <3>1. \A c \in seen : Complies(c)
      BY <1>1, <1>c
    <3>2. Stats.latency <= SlowestAnswer
      BY <1>0, <3>1, AllRead DEF Complies
    <3>3. \A id \in Declared : outcome'[id] \in Clear
      BY <1>0, <2>1, <3>1, CompliantVerdicts
    <3>4. outcome'[<<"processing-latency">>] = "within_threshold"
      <4>1. Stats.latency \in Nat
        BY <1>0, AllRead DEF TypeOK, AdGuardConfiguration
      <4> QED  BY <2>1, <3>2, <4>1, TimeAssumption
    <3> QED  BY <1>1, <1>6, <2>1, <3>3, <3>4 DEF Clear
  <2> QED  BY <1>2, <2>2, <2>3 DEF IInv
<1>7. CASE ~Usable
  <2>1. DOMAIN outcome' = {<<"api">>}
    BY <1>1, <1>7 DEF Evaluation
  <2>2. ClearMeansHeld'
    BY <1>4, <1>5, <2>1 DEF ClearMeansHeld
  <2>3. CompliantIsClear'
    <3> SUFFICES ASSUME (\A c \in seen : Complies(c))'  PROVE FALSE
      BY DEF CompliantIsClear
    <3>1. \A c \in seen : Complies(c)
      BY <1>1, <1>c
    <3>2. UsableStats(Stats)
      BY <1>0, <3>1, AllRead DEF Complies
    <3>3. UsableDns(Dns)
      <4>1. PICK c \in seen : Dns = [mode |-> c.mode, upstreams |-> c.upstreams]
        BY <1>0, AllRead
      <4> QED  BY <3>1, <4>1 DEF Complies, UsableDns
    <3>4. UsableFilters(Filters)
      BY <1>0, <3>1, AllRead DEF Complies
    <3>5. UsableRewrites(Rewrites)
      BY <1>0, <3>1, AllRead DEF Complies
    <3> QED  BY <1>7, <3>2, <3>3, <3>4, <3>5 DEF Usable
  <2> QED  BY <1>2, <2>2, <2>3 DEF IInv
<1> QED  BY <1>6, <1>7

\* The answers come from configurations that the resolver has had, and what is
\* concluded from them holds, at every moment of every check.
THEOREM Invariant == Spec => []IInv
<1>1. ASSUME IInv, [Next]_vars  PROVE IInv'
  <2>1. CASE Answered  BY <1>1, <2>1, AnsweredIsGood
  <2>2. CASE Evaluate  BY <1>1, <2>2, EvaluateIsGood
  <2>3. CASE Reconfigure
    <3>1. PICK c \in Configurations : Becomes(c)
      BY <2>3 DEF Reconfigure
    <3> QED  BY <1>1, <3>1, BecomesIsGood, ConfigurationsAssumption
  <2>4. CASE Refresh  BY <1>1, <2>4, RefreshIsGood
  <2>5. CASE Tick  BY <1>1, <2>5, TickIsGood
  <2>6. CASE UNCHANGED vars
    <3>1. TypeOK' /\ ReadFromSeen'
      BY <1>1, <2>6 DEF IInv, TypeOK, ReadFromSeen, vars
    <3>2. DeclaredPolicy' = DeclaredPolicy
      BY <2>6 DEF vars, DeclaredPolicy
    <3>3. Declared' = Declared
      BY <3>2 DEF Declared
    <3>4. \A id, C : Facts(id, C)' = Facts(id, C)
      BY <3>2 DEF Facts
    <3>5. \A c : UsableFilters(c.filters)' = UsableFilters(c.filters)
      BY <3>2 DEF UsableFilters
    <3>6. ClearMeansHeld'
      BY <1>1, <2>6, <3>3, <3>4 DEF IInv, ClearMeansHeld, vars
    <3>7. CompliantIsClear'
      <4>1. \A c : Complies(c)' = Complies(c)
        BY <3>3, <3>4, <3>5 DEF Complies
      <4>2. Running' = Running
        BY <2>6 DEF Running, vars
      <4> QED  BY <1>1, <2>6, <4>1, <4>2 DEF IInv, CompliantIsClear, vars
    <3> QED  BY <3>1, <3>6, <3>7 DEF IInv
  <2> QED  BY <1>1, <2>1, <2>2, <2>3, <2>4, <2>5, <2>6 DEF Next
<1> QED  BY <1>1, InitIsGood, PTL DEF Spec

\* A condition that is reported as clear was so at some moment of the check.
THEOREM NeverAGuess == Spec => []ClearMeansHeld
<1>1. IInv => ClearMeansHeld  BY DEF IInv
<1> QED  BY <1>1, Invariant, PTL

\* A resolver that complies all the time raises no alarm, from whichever of
\* its configurations the answers come.
THEOREM NoFalseAlarm == Spec => []CompliantIsClear
<1>1. IInv => CompliantIsClear  BY DEF IInv
<1> QED  BY <1>1, Invariant, PTL

\* The evaluations of a check have different identifiers, whatever file it has
\* accepted.
THEOREM IdentifiersAreKeys == Spec => []ConditionsAreDistinct
<1>1. IInv => ConditionsAreDistinct
  BY DistinctConditions DEF IInv, TypeOK, ConditionsAreDistinct
<1> QED  BY <1>1, Invariant, PTL

\* What an accepted file leaves to be looked up is there.
THEOREM ValidationSuffices == Spec => []AcceptedIsUsable
<1>1. IInv => AcceptedIsUsable
  BY UsableFile DEF IInv, TypeOK
<1> QED  BY <1>1, Invariant, PTL

=============================================================================
