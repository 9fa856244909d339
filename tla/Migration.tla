------------------------------ MODULE Migration ------------------------------
(***************************************************************************)
(* The upgrade of a released version 1 state, in one transaction.  Version 1 *)
(* has neither episodes nor claims: a message may have been shown although   *)
(* its row says that it is pending, and a delivered row may belong to a      *)
(* message that was cut, or was never acknowledged.  The upgrade decides     *)
(* what of this can still be believed.                                       *)
(*                                                                         *)
(* The version 1 program is external (it is not in the repository): its      *)
(* actions are what the released schema, the migration and its tests say of  *)
(* it, chosen freely where they say nothing.  `shown` is what the operator   *)
(* really saw.                                                               *)
(*                                                                         *)
(* A text is the set of its characters, each with its position; a message    *)
(* begins at position 1.  An episode is the number of the run it is named    *)
(* after: legacy:<run>:<condition>.                                          *)
(***************************************************************************)
EXTENDS Integers, Sequences, FiniteSets, Functions

CONSTANTS
    Condition,          \* condition identifiers
    Rank,               \* their order: load_notification_conditions sorts by it
    Summary,            \* the summary of each condition
    Limit,              \* 1024 characters
    LegacyModes,        \* run modes of version 1 runs
    MaxLegacyRuns,      \* bounds on version 1 runs and messages
    MaxRows

Dash == -1
Newline == -2

ASSUME ConditionAssumption == IsFiniteSet(Condition) /\ Rank \in Injection(Condition, Nat)
ASSUME SummaryAssumption == Summary \in [Condition -> Seq(Nat)]
ASSUME LegacyBoundsAssumption == {Limit, MaxLegacyRuns, MaxRows} \subseteq Nat

VARIABLES
    version,        \* user_version
    modes,          \* the run modes of the stored runs
    evaluations,    \* per run, the evaluated conditions
    latch,          \* condition_state
    rows,           \* notification_outbox, oldest first
    shown           \* history: the transitions that were shown to the operator

migrationVars == <<version, modes, evaluations, latch, rows, shown>>

Delivery == {"never", "pending", "delivered", "suppressed", "failed", "unknown", "resolved"}

\* What a condition adds to a message; the first line begins at position 0.
Line(c) == <<Newline, Dash>> \o Summary[c]

Characters(S) == UNION {{c} \X DOMAIN Line(c) : c \in S}

\* How many characters a message with lines for S has, in whatever order.
Length(S) == Cardinality(Characters(S)) - 1

\* The conditions of S up to c, in an order.
Upto(S, order, c) == {d \in S : order[d] <= order[c]}

\* The text of a message with a line for each condition of S, in an order.
Text(S, order) ==
    UNION {{<<Length(Upto(S, order, c) \ {c}) + k, Line(c)[k]>> : k \in DOMAIN Line(c)} : c \in S}

Fits(text) == \A character \in text : character[1] <= Limit

Cut(text) == {character \in text : character[1] <= Limit}

\* The members whose line is there as a whole when a message is shown.
Displayed(S, order) == {c \in S : Length(Upto(S, order, c)) <= Limit}

Orders(S) == Injection(S, 1..Cardinality(S))

-----------------------------------------------------------------------------
(* Version 1.                                                              *)

MigrationInit ==
    /\ version = 1
    /\ modes = {}
    /\ evaluations = <<>>
    /\ latch = [c \in Condition |-> [firing |-> FALSE, delivery |-> "never", transition |-> 0, episode |-> 0]]
    /\ rows = <<>>
    /\ shown = {}

LegacyRow(run, kind, S, order, text) ==
    [run |-> run, kind |-> kind, members |-> S, order |-> order, message |-> text,
     status |-> "pending", acknowledged |-> FALSE]

\* The message about S that a run queues, if there is anything to tell: in any
\* order, stored as it is or as it will be cut.
Queued(run, kind, S) ==
    IF S = {} THEN {<<>>}
    ELSE UNION {{<<LegacyRow(run, kind, S, order, text)>> :
                    text \in {Text(S, order), Cut(Text(S, order))}} : order \in Orders(S)}

\* A run evaluates at least the conditions S that change; it raises alerts for A
\* and resolutions for R.
LegacyRun ==
    /\ version = 1 /\ Len(evaluations) < MaxLegacyRuns
    /\ \E mode \in LegacyModes : modes' = modes \cup {mode}
    /\ \E S \in SUBSET Condition : \E told \in SUBSET S :
         LET run == Len(evaluations) + 1
             A == {c \in S : ~latch[c].firing}
             R == {c \in told : latch[c].firing}
         IN  /\ A \subseteq told
             /\ latch' = [c \in Condition |->
                  IF c \notin S THEN latch[c]
                  ELSE [firing |-> c \in A, transition |-> run, episode |-> 0,
                        delivery |-> IF c \in told THEN "pending" ELSE latch[c].delivery]]
             /\ \E evaluated \in {S, Condition} :
                  evaluations' = Append(evaluations,
                    [c \in evaluated |-> [delivery |-> latch'[c].delivery, episode |-> 0]])
             /\ \E alert \in Queued(run, "alert", A), resolution \in Queued(run, "resolution", R) :
                  rows' = rows \o alert \o resolution
             /\ Len(rows') <= MaxRows
    /\ UNCHANGED <<version, shown>>

\* A message is sent.  Its result may be recorded or lost, with the process; an
\* acknowledged one was shown, an undecided one perhaps.  The latches
\* of its members follow, whatever happened to them since.
LegacySend(i) ==
    /\ version = 1 /\ rows[i].status \in {"pending", "retryable"}
    /\ \E status \in {"pending", "retryable", "delivered", "unknown", "failed"},
          acknowledged \in BOOLEAN, seen \in BOOLEAN :
         /\ acknowledged => status = "delivered" /\ seen
         /\ seen => status \notin {"retryable", "failed"}
         /\ rows' = [rows EXCEPT ![i].status = status, ![i].acknowledged = acknowledged]
         /\ latch' = [c \in Condition |->
              IF c \notin rows[i].members \/ status \in {"pending", "retryable"} THEN latch[c]
              ELSE [latch[c] EXCEPT !.delivery =
                      IF status # "delivered" THEN status
                      ELSE IF rows[i].kind = "alert" THEN "delivered" ELSE "resolved"]]
         /\ shown' = IF seen
                     THEN shown \cup {<<c, rows[i].run, rows[i].kind>> :
                                        c \in Displayed(rows[i].members, rows[i].order)}
                     ELSE shown
    /\ UNCHANGED <<version, modes, evaluations>>

-----------------------------------------------------------------------------
(* migrate_notification_history                                            *)

\* The lines of its members, as notification_conditions lists them.
Expected(row) == Text(row.members, Rank)

\* Mutant: a message that agrees with its membership was shown as a whole.
Agrees(row) == row.members # {} /\ row.message = Expected(row)

\* The message is exactly the lines of its members, and not too long to be shown.
Visible(row) ==
    /\ row.members # {}
    /\ row.message = Expected(row)
    /\ Fits(row.message)

Unconfirmed(row) ==
    \/ row.status \in {"pending", "retryable"}
    \/ row.status = "delivered" /\ ~(Visible(row) /\ row.acknowledged)

\* The transitions of c that some unconfirmed row tells of, and the confirmed alerts.
Doubted(c) == {rows[i].run : i \in {i \in DOMAIN rows : Unconfirmed(rows[i]) /\ c \in rows[i].members}}

Confirmed(c) ==
    {rows[i].run : i \in {i \in DOMAIN rows :
        rows[i].kind = "alert" /\ rows[i].status = "delivered"
          /\ ~Unconfirmed(rows[i]) /\ c \in rows[i].members}}

\* What the latch of c may still claim, for the episode of its last transition.
DeliveryAfter(c) ==
    IF \/ latch[c].transition \in Doubted(c)
       \/ latch[c].delivery = "pending"
       \/ latch[c].delivery = "delivered" /\ latch[c].transition \notin Confirmed(c)
    THEN "unknown" ELSE latch[c].delivery

Told(c, run) == \E i \in DOMAIN rows : rows[i].run = run /\ c \in rows[i].members

\* Mutant: only the evaluations that were transitions are brought up to date.
TransitionsOnly(run, c) ==
    [episode |-> IF Told(c, run) THEN run ELSE 0,
     delivery |-> IF run \in Doubted(c) THEN "unknown" ELSE evaluations[run][c].delivery]

\* The run of the latest evaluation of c, if there is one.
Latest(c) ==
    {run \in DOMAIN evaluations :
        /\ c \in DOMAIN evaluations[run]
        /\ \A later \in DOMAIN evaluations : run < later => c \notin DOMAIN evaluations[later]}

\* An evaluation after the upgrade: the latest one of a condition agrees with
\* its latch, and those that a row tells of with the row.
EvaluationAfter(run, c) ==
    IF run \in Latest(c)
    THEN [episode |-> latch[c].transition, delivery |-> DeliveryAfter(c)]
    ELSE [episode |-> IF Told(c, run) THEN run ELSE 0,
          delivery |-> IF run \in Doubted(c) THEN "unknown" ELSE evaluations[run][c].delivery]

\* migrate_transaction; a state of both modes is refused and stays as it is.
Migrate ==
    /\ version = 1
    /\ Cardinality(modes) <= 1
    /\ version' = 3
    /\ rows' = [i \in DOMAIN rows |->
         IF Unconfirmed(rows[i]) THEN [rows[i] EXCEPT !.status = "unknown"] ELSE rows[i]]
    /\ latch' = [c \in Condition |->
         [latch[c] EXCEPT !.episode = latch[c].transition, !.delivery = DeliveryAfter(c)]]
    /\ evaluations' = [run \in DOMAIN evaluations |->
         [c \in DOMAIN evaluations[run] |-> EvaluationAfter(run, c)]]
    /\ UNCHANGED <<modes, shown>>

MigrationNext ==
    \/ LegacyRun
    \/ \E i \in DOMAIN rows : LegacySend(i)
    \/ Migrate

MigrationSpec == MigrationInit /\ [][MigrationNext]_migrationVars

-----------------------------------------------------------------------------
(* Properties.                                                             *)

\* The upgrade invents no delivery: what it leaves as delivered was shown line
\* by line, and a latch may only be resolved with a notice if the alert of its
\* very episode was shown, although version 1 cut messages, recorded results
\* without acknowledgment, and applied late results to newer episodes.
LegacyClaimsAreTrue ==
    version = 3 =>
        /\ \A i \in DOMAIN rows : rows[i].status = "delivered" =>
              \A c \in rows[i].members : <<c, rows[i].run, rows[i].kind>> \in shown
        /\ \A c \in Condition : latch[c].delivery = "delivered" =>
              latch[c].firing /\ <<c, latch[c].episode, "alert">> \in shown

\* Nothing that version 1 may have shown is queued again, no latch waits for a
\* result that cannot come any more, and the newest report of each
\* condition tells what its latch does.
LegacyIsSettled ==
    version = 3 =>
        /\ \A i \in DOMAIN rows : rows[i].status \notin {"pending", "retryable"}
        /\ \A c \in Condition :
             /\ latch[c].delivery # "pending"
             /\ \A run \in Latest(c) : evaluations[run][c] =
                   [episode |-> latch[c].episode, delivery |-> latch[c].delivery]

-----------------------------------------------------------------------------
(* The inductive invariant.                                                *)

Latches == [firing : BOOLEAN, delivery : Delivery, transition : Nat, episode : Nat]

Evaluations == UNION {[D -> [delivery : Delivery, episode : Nat]] : D \in SUBSET Condition}

Kinds == {"alert", "resolution"}

OutboxRow ==
    [run : Nat, kind : Kinds, members : SUBSET Condition,
     order : UNION {Orders(S) : S \in SUBSET Condition}, message : SUBSET (Int \X Int),
     status : {"pending", "retryable", "delivered", "unknown", "failed"}, acknowledged : BOOLEAN]

\* Every variable has its type.
MigrationTypeOK ==
    /\ version \in {1, 3}
    /\ modes \subseteq LegacyModes
    /\ evaluations \in Seq(Evaluations)
    /\ latch \in [Condition -> Latches]
    /\ rows \in Seq(OutboxRow)
    /\ shown \subseteq Condition \X Nat \X Kinds

\* Transitions and messages are of runs that are stored.
LegacyRunsAreStored ==
    /\ \A i \in DOMAIN rows : rows[i].run <= Len(evaluations)
    /\ \A c \in Condition : latch[c].transition <= Len(evaluations)

\* A message of the run of a condition's last transition says what the latch does.
MessagesFollowTransitions ==
    \A i \in DOMAIN rows : \A c \in rows[i].members :
        rows[i].run = latch[c].transition => (rows[i].kind = "alert" <=> latch[c].firing)

\* Of an acknowledged message the operator saw the lines that were not cut.
AcknowledgedWasShown ==
    \A i \in DOMAIN rows : rows[i].acknowledged =>
        \A c \in Displayed(rows[i].members, rows[i].order) :
            <<c, rows[i].run, rows[i].kind>> \in shown

MigrationInv ==
    /\ MigrationTypeOK
    /\ LegacyRunsAreStored
    /\ MessagesFollowTransitions
    /\ AcknowledgedWasShown
    /\ LegacyClaimsAreTrue
    /\ LegacyIsSettled

=============================================================================
