---------------------------- MODULE Declarations ----------------------------
(***************************************************************************)
(* Declared policies: their shape, what validation accepts, and the         *)
(* conditions they give rise to.  Data only; Policy and Configuration build *)
(* on it.                                                                   *)
(*                                                                         *)
(* An optional value is a set of at most one element.  A rewrite's `name`   *)
(* is its domain and answer as they are spelled; Normal says which          *)
(* spellings mean the same, and Blank is what nothing but blanks and dots   *)
(* comes to.                                                                *)
(***************************************************************************)
EXTENDS Integers, SequencesExt

CONSTANTS
    Normal,     \* normalize_dns_name and normalize_rewrite_answer, of a pair
    Blank,      \* a text of blanks only, and a name with an empty part
    Hour        \* the seconds of maximum_age_hours = 1

ASSUME NormalAssumption ==
    /\ Blank \in STRING \ (DOMAIN Normal \cup {""})
    /\ Normal \in [DOMAIN Normal -> STRING \ {""}]
ASSUME HourAssumption == Hour \in Nat \ {0}

\* An optional value out of S.
Optional(S) == {o \in SUBSET S : \A x, y \in o : x = y}

\* What the parser makes of a policy, before it is validated.
RequiredFilter == [url : STRING, enabled : BOOLEAN, hours : Optional(Nat)]
RequiredRewrite == [name : DOMAIN Normal \cup {Blank}, enabled : BOOLEAN]
PolicyConfig ==
    [protection : Optional(BOOLEAN), mode : Optional(STRING), upstreams : Optional(Seq(STRING)),
     filters : Seq(RequiredFilter), enabled : Optional(BOOLEAN), required : Seq(RequiredRewrite)]

Normalized(name) == IF name = Blank THEN Blank ELSE Normal[name]

\* No two elements of s have the same key.
UniqueBy(s, Key(_)) == \A i, j \in DOMAIN s : Key(s[i]) = Key(s[j]) => i = j

Keys(s, Key(_)) == {Key(s[i]) : i \in DOMAIN s}

Self(x) == x

\* An upstream set: of declarations and of answers alike.
ValidUpstreams(s) == s # <<>> /\ UniqueBy(s, Self) /\ Blank \notin ToSet(s)

\* A required filter carries an age if and only if it must be enabled.
ValidFilter(f) ==
    /\ f.url # Blank
    /\ IF f.enabled THEN \E h \in f.hours : h > 0 ELSE f.hours = {}

Url(f) == f.url

Name(r) == Normalized(r.name)

\* Mutant: duplicates are looked for among the names as they are spelled.
SpelledApart(p) ==
    /\ p.mode \cap {"", Blank} = {}
    /\ \A s \in p.upstreams : ValidUpstreams(s)
    /\ UniqueBy(p.filters, Url) /\ \A f \in ToSet(p.filters) : ValidFilter(f)
    /\ UniqueBy(p.required, LAMBDA r : r.name) /\ Blank \notin Keys(p.required, Name)

\* validate_policies
ValidPolicy(p) ==
    /\ p.mode \cap {"", Blank} = {}
    /\ \A s \in p.upstreams : ValidUpstreams(s)
    /\ UniqueBy(p.filters, Url) /\ \A f \in ToSet(p.filters) : ValidFilter(f)
    /\ UniqueBy(p.required, Name) /\ Blank \notin Keys(p.required, Name)

\* The conditions that the declarations of p give rise to, in their order.
DeclaredConditions(p) ==
    [i \in 1..Cardinality(p.protection) |-> <<"protection">>]
      \o [i \in 1..Cardinality(p.mode) |-> <<"upstream-mode">>]
      \o [i \in 1..Cardinality(p.upstreams) |-> <<"upstream-set">>]
      \o [i \in DOMAIN p.filters |-> <<"filter", p.filters[i].url>>]
      \o [i \in 1..Cardinality(p.enabled) |-> <<"rewrites-enabled">>]
      \o [i \in DOMAIN p.required |-> <<"rewrite", Name(p.required[i])>>]

=============================================================================
