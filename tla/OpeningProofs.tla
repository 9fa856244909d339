--------------------------- MODULE OpeningProofs ----------------------------
(***************************************************************************)
(* Proofs about opening a state.  First about Ownership, for any number of  *)
(* processes, any databases that the program can have left, and any clocks; *)
(* then about Migration, for any conditions, summaries and limit, and       *)
(* whatever version 1 did.                                                  *)
(***************************************************************************)
EXTENDS Ownership, Migration, FiniteSetTheorems, WellFoundedInduction, TLAPS

(* The rows of runs of a database have numbers and are well formed.         *)
LEMMA RunsType ==
    ASSUME NEW d \in Database
    PROVE  /\ DOMAIN d.runs \in SUBSET Row
           /\ \A i \in DOMAIN d.runs : /\ d.runs[i] \in RunRow
                                      /\ d.runs[i].started \in Nat
                                      /\ d.runs[i].completed \in Nat
<1>1. PICK S \in SUBSET Row : d.runs \in [S -> RunRow]
  BY DEF Database
<1>2. \A i \in DOMAIN d.runs : d.runs[i] \in RunRow
  BY <1>1
<1>3. \A row \in RunRow : row.started \in Nat /\ row.completed \in Nat
  BY BoundsAssumption DEF RunRow, Time
<1> QED
  BY <1>1, <1>2, <1>3

(* Any database that was found satisfies the invariant before anyone opens  *)
(* it.                                                                      *)
LEMMA InitInv == Init => IInv
<1> SUFFICES ASSUME Init PROVE IInv
  OBVIOUS
<1>1. TypeOK
  <2>1. Idle \in ProcessState
    BY BoundsAssumption DEF Idle, ProcessState, Command, RunMode, Time
  <2> QED
    BY <2>1, FoundAssumption DEF Init, TypeOK
<1>2. OwnersHoldTheLock /\ ChecksStillHold
  BY DEF Init, Idle, At, OwnersHoldTheLock, ChecksStillHold
<1>3. Provenance /\ RunsOfOneMode
  BY <1>1, FoundAssumption DEF Init, Provenance, KeptUntilExpired, RunsOfOneMode
<1>4. RunsInOrder
  BY DEF Init, RunsInOrder
<1> QED
  BY <1>1, <1>2, <1>3, <1>4 DEF IInv

(* The steps of one process.                                               *)
Step(p) ==
    \/ Begin(p) \/ Acquire(p) \/ Initialize(p) \/ OpenCurrent(p) \/ BackUp(p)
    \/ Upgrade(p) \/ StartObserving(p) \/ Complete(p) \/ CommitRun(p) \/ End(p)

(* The memory of a process is changed by its own steps only.               *)
LEMMA StepFrame ==
    ASSUME TypeOK, NEW p \in Process, Step(p)
    PROVE  /\ proc' = [proc EXCEPT ![p] = proc'[p]]
           /\ legacy' = legacy
BY DEF Step, Begin, Acquire, Initialize, OpenCurrent, BackUp, Upgrade, StartObserving,
       Complete, CommitRun, End, TypeOK

(* Every step keeps the memory of its process well formed.                 *)
LEMMA ProcessType ==
    ASSUME TypeOK, NEW p \in Process, Step(p)
    PROVE  proc'[p] \in ProcessState
<1> USE DEF TypeOK, ProcessState
<1>1. CASE Begin(p)
  <2>1. PICK command \in Command, now \in Time :
           proc' = [proc EXCEPT ![p] = [Idle EXCEPT !.pc = "opening",
                                        !.command = command, !.started = now]]
    BY <1>1 DEF Begin
  <2>2. proc'[p] = [pc |-> "opening", command |-> command, started |-> now,
                    completed |-> 0, own |-> 0]
    BY <2>1 DEF Idle
  <2> QED
    BY <2>2, BoundsAssumption DEF Time
<1>2. CASE Acquire(p)
  BY <1>2 DEF Acquire
<1>3. CASE Initialize(p)
  BY <1>3 DEF Initialize
<1>4. CASE OpenCurrent(p)
  BY <1>4 DEF OpenCurrent
<1>5. CASE BackUp(p)
  BY <1>5 DEF BackUp
<1>6. CASE Upgrade(p)
  BY <1>6 DEF Upgrade
<1>7. CASE StartObserving(p)
  BY <1>7 DEF StartObserving
<1>8. CASE Complete(p)
  <2>1. PICK now \in Time :
           proc' = [proc EXCEPT ![p].pc = "committing", ![p].completed = now]
    BY <1>8 DEF Complete
  <2>2. proc'[p] = [proc[p] EXCEPT !.pc = "committing", !.completed = now]
    BY <2>1
  <2> QED
    BY <2>2
<1>9. CASE CommitRun(p)
  <2>1. PICK n \in Row : proc'[p] = [proc[p] EXCEPT !.pc = "delivering", !.own = n]
    BY <1>9 DEF CommitRun
  <2> QED
    BY <2>1
<1>10. CASE End(p)
  BY <1>10, BoundsAssumption DEF End, Idle, Command, RunMode, Time
<1> QED
  BY <1>1, <1>2, <1>3, <1>4, <1>5, <1>6, <1>7, <1>8, <1>9, <1>10 DEF Step

(* A commit of p at row n adds a row after all others, and removes only rows  *)
(* that are older than the retention.                                       *)
Commits(p, n, retention) ==
    /\ proc'[p] = [proc[p] EXCEPT !.pc = "delivering", !.own = n]
    /\ \A i \in DOMAIN db.runs : i < n
    /\ DOMAIN db'.runs \subseteq DOMAIN db.runs \cup {n}
    /\ n \in DOMAIN db'.runs
    /\ db'.runs[n] = [mode |-> proc[p].command, started |-> proc[p].started,
                      completed |-> proc[p].completed]
    /\ \A i \in DOMAIN db.runs : i \in DOMAIN db'.runs => db'.runs[i] = db.runs[i]
    /\ \A i \in DOMAIN db.runs : i \notin DOMAIN db'.runs =>
          db.runs[i].completed + retention < proc[p].completed
    /\ db'.version = db.version
    /\ db'.identity = proc[p].command
    /\ db' \in Database

(* This is what a commit does.                                              *)
LEMMA CommitRow ==
    ASSUME TypeOK, ChecksStillHold, NEW p \in Process, CommitRun(p)
    PROVE  \E n \in Row, retention \in Retention : Commits(p, n, retention)
<1> DEFINE new == [mode |-> proc[p].command, started |-> proc[p].started,
                   completed |-> proc[p].completed]
<1>1. proc[p].command \in RunMode /\ db.identity \in {"none", proc[p].command}
  BY DEF CommitRun, At, ChecksStillHold, ModeFits
<1>2. new \in RunRow
  BY <1>1 DEF TypeOK, ProcessState, RunRow
<1>3. /\ DOMAIN db.runs \in SUBSET Row
      /\ \A i \in DOMAIN db.runs : db.runs[i] \in RunRow
  BY RunsType DEF TypeOK
<1>4. PICK n \in Row, retention \in Retention :
         /\ NextRow(n)
         /\ \E pruned \in SUBSET Expired(proc[p].completed, retention) :
              db' = [db EXCEPT
                !.identity = IF @ = "none" THEN proc[p].command ELSE @,
                !.runs = [i \in (DOMAIN @ \cup {n}) \ pruned |-> IF i = n THEN new ELSE @[i]]]
         /\ proc' = [proc EXCEPT ![p].pc = "delivering", ![p].own = n]
  BY DEF CommitRun
<1>5. PICK pruned \in SUBSET Expired(proc[p].completed, retention) :
         db' = [db EXCEPT
           !.identity = IF @ = "none" THEN proc[p].command ELSE @,
           !.runs = [i \in (DOMAIN @ \cup {n}) \ pruned |-> IF i = n THEN new ELSE @[i]]]
  BY <1>4
<1> DEFINE kept == (DOMAIN db.runs \cup {n}) \ pruned
           runs == [i \in kept |-> IF i = n THEN new ELSE db.runs[i]]
<1>6. \A i \in DOMAIN db.runs : i < n
  BY <1>3, <1>4 DEF NextRow, Row
<1>7. n \in kept
  <2>1. n \notin DOMAIN db.runs
    BY <1>6 DEF Row
  <2> QED
    BY <1>5, <2>1 DEF Expired
<1>8. runs \in [kept -> RunRow] /\ kept \in SUBSET Row
  BY <1>2, <1>3
<1>9. /\ db'.runs = runs /\ db'.version = db.version /\ db'.stray = db.stray
      /\ db'.identity = IF db.identity = "none" THEN proc[p].command ELSE db.identity
      /\ db' = [version |-> db'.version, identity |-> db'.identity, runs |-> db'.runs,
                stray |-> db'.stray]
  BY <1>5 DEF TypeOK, Database
<1>10. db' \in Database
  <2>1. db.version \in 0..3 /\ db.stray \in BOOLEAN
    BY DEF TypeOK, Database
  <2>2. db'.identity \in RunMode \cup {"none"}
    BY <1>1, <1>9
  <2> HIDE DEF runs, kept
  <2>3. db'.runs \in UNION {[S -> RunRow] : S \in SUBSET Row}
    BY <1>8, <1>9
  <2> QED
    BY <1>9, <2>1, <2>2, <2>3 DEF Database
<1>11. /\ \A i \in DOMAIN db.runs : i \in DOMAIN db'.runs => db'.runs[i] = db.runs[i]
       /\ \A i \in DOMAIN db.runs : i \notin DOMAIN db'.runs =>
             db.runs[i].completed + retention < proc[p].completed
  <2> SUFFICES ASSUME NEW i \in DOMAIN db.runs
               PROVE  /\ i \in DOMAIN db'.runs => db'.runs[i] = db.runs[i]
                      /\ i \notin DOMAIN db'.runs =>
                            db.runs[i].completed + retention < proc[p].completed
    OBVIOUS
  <2>1. i # n
    BY <1>6 DEF Row
  <2>2. CASE i \in pruned
    BY <1>9, <2>2 DEF Expired
  <2>3. CASE i \notin pruned
    BY <1>9, <2>1, <2>3
  <2> QED
    BY <2>2, <2>3
<1>12. /\ proc'[p] = [proc[p] EXCEPT !.pc = "delivering", !.own = n]
       /\ DOMAIN db'.runs \subseteq DOMAIN db.runs \cup {n}
       /\ n \in DOMAIN db'.runs /\ db'.runs[n] = new
       /\ db'.identity = proc[p].command
  <2>1. proc'[p] = [proc[p] EXCEPT !.pc = "delivering", !.own = n]
    BY <1>4 DEF TypeOK
  <2> QED
    BY <1>1, <1>7, <1>9, <2>1
<1> HIDE DEF runs, kept, new
<1>13. db'.runs[n] = [mode |-> proc[p].command, started |-> proc[p].started,
                      completed |-> proc[p].completed]
  BY <1>12 DEF new
<1> QED
  BY <1>6, <1>9, <1>10, <1>11, <1>12, <1>13 DEF Commits

(* An upgrade keeps the rows and binds the mode that a history of schema 1  *)
(* tells.                                                                   *)
LEMMA UpgradeRow ==
    ASSUME TypeOK, NEW p \in Process, Upgrade(p)
    PROVE  /\ db'.version = 3
           /\ db'.runs = db.runs
           /\ db.version # 1 => db'.identity = db.identity
           /\ db.version = 1 /\ Modes # {} => Modes = {db'.identity}
           /\ db' \in Database
<1>1. Modes \subseteq RunMode
  <2> SUFFICES ASSUME NEW i \in DOMAIN db.runs PROVE db.runs[i].mode \in RunMode
    BY DEF Modes
  <2>1. db.runs[i] \in RunRow
    BY RunsType DEF TypeOK
  <2> QED
    BY <2>1 DEF RunRow
<1>2. Modes # {} => (CHOOSE m \in Modes : TRUE) \in Modes
  OBVIOUS
<1>3. /\ db'.version = 3
      /\ db'.runs = db.runs
      /\ db'.stray = db.stray
      /\ db'.identity = IF db.version = 1 /\ Modes # {}
                        THEN CHOOSE m \in Modes : TRUE ELSE db.identity
  BY DEF Upgrade, TypeOK, Database
<1>4. db' \in Database
  <2>1. db'.identity \in RunMode \cup {"none"}
    BY <1>1, <1>2, <1>3 DEF TypeOK, Database
  <2>2. db' = [version |-> 3, identity |-> db'.identity, runs |-> db.runs, stray |-> db.stray]
    BY <1>3 DEF Upgrade, TypeOK, Database
  <2>3. /\ db.runs \in UNION {[S -> RunRow] : S \in SUBSET Row}
        /\ db.stray \in BOOLEAN /\ 3 \in 0..3
    BY DEF TypeOK, Database
  <2> QED
    BY <2>1, <2>2, <2>3 DEF Database
<1>5. db.version = 1 => \A m, n \in Modes : m = n
  BY DEF Upgrade, ModeIsKnown
<1> QED
  BY <1>2, <1>3, <1>4, <1>5

(* Every step keeps the state well formed.                                 *)
LEMMA TypeStep ==
    ASSUME TypeOK, ChecksStillHold, NEW p \in Process, Step(p)
    PROVE  TypeOK'
<1>1. proc' \in [Process -> ProcessState] /\ legacy' \in Database
  <2>1. proc' = [proc EXCEPT ![p] = proc'[p]] /\ legacy' = legacy
    BY StepFrame
  <2>2. proc'[p] \in ProcessState
    BY ProcessType
  <2> QED
    BY <2>1, <2>2 DEF TypeOK
<1>2. db' \in Database
  <2>1. CASE Upgrade(p)
    BY <2>1, UpgradeRow
  <2>2. CASE CommitRun(p)
    BY <2>2, CommitRow DEF Commits
  <2>3. CASE Initialize(p)
    <3>1. db' = [version |-> 3, identity |-> db.identity, runs |-> db.runs, stray |-> db.stray]
      BY <2>3 DEF Initialize, TypeOK, Database
    <3>2. /\ db.identity \in RunMode \cup {"none"}
          /\ db.runs \in UNION {[S -> RunRow] : S \in SUBSET Row}
          /\ db.stray \in BOOLEAN /\ 3 \in 0..3
      BY DEF TypeOK, Database
    <3> QED
      BY <3>1, <3>2 DEF Database
  <2> QED
    BY <2>1, <2>2, <2>3
    DEF Step, Begin, Acquire, OpenCurrent, BackUp, StartObserving, Complete, End, TypeOK
<1>3. backups' \subseteq Database /\ lock' \in Process \cup {NoProcess}
  BY DEF Step, Begin, Acquire, Initialize, OpenCurrent, BackUp, Upgrade, StartObserving,
         Complete, CommitRun, End, TypeOK
<1> QED
  BY <1>1, <1>2, <1>3 DEF TypeOK

(* The lock is given up only at the end of the process that holds it.       *)
LEMMA OwnersStep ==
    ASSUME TypeOK, OwnersHoldTheLock, NEW p \in Process, Step(p)
    PROVE  OwnersHoldTheLock'
<1> SUFFICES ASSUME NEW q \in Process, ~At(q, "idle")', ~At(q, "opening")'
             PROVE  lock' = q
  BY DEF OwnersHoldTheLock
<1>1. q # p => proc'[q] = proc[q]
  BY StepFrame DEF TypeOK
<1>2. CASE q # p
  <2>1. lock = q
    BY <1>1, <1>2 DEF OwnersHoldTheLock, At
  <2>2. q # NoProcess
    BY NoProcessAssumption
  <2> QED
    BY <1>2, <2>1, <2>2 DEF Step, Begin, Acquire, Free, Initialize, OpenCurrent, BackUp,
       Upgrade, StartObserving, Complete, CommitRun, End
<1>3. CASE q = p
  <2>1. CASE Begin(p)
    <3>1. proc'[p].pc = "opening"
      BY <2>1 DEF Begin, TypeOK, Idle
    <3> QED
      BY <1>3, <3>1 DEF At
  <2>2. CASE End(p)
    <3>1. proc'[p].pc = "idle"
      BY <2>2 DEF End, TypeOK, Idle
    <3> QED
      BY <1>3, <3>1 DEF At
  <2>3. CASE Acquire(p)
    BY <1>3, <2>3 DEF Acquire
  <2>4. CASE ~Begin(p) /\ ~End(p) /\ ~Acquire(p)
    <3>1. ~At(p, "idle") /\ ~At(p, "opening") /\ lock' = lock
      BY <2>4 DEF Step, At, Initialize, OpenCurrent, BackUp, Upgrade, StartObserving,
                  Complete, CommitRun
    <3> QED
      BY <1>3, <3>1 DEF OwnersHoldTheLock
  <2> QED
    BY <2>1, <2>2, <2>3, <2>4
<1> QED
  BY <1>2, <1>3

(* While a process owns the state, the steps of others leave it alone.      *)
LEMMA OthersKeep ==
    ASSUME TypeOK, OwnersHoldTheLock, NEW p \in Process, Step(p),
           NEW q \in Process, q # p, ~At(q, "idle"), ~At(q, "opening")
    PROVE  /\ db' = db
           /\ backups' = backups
           /\ proc'[q] = proc[q]
<1>1. lock = q /\ proc'[q] = proc[q]
  BY StepFrame DEF OwnersHoldTheLock, TypeOK
<1>2. At(p, "idle") \/ At(p, "opening") \/ lock = p
  BY DEF OwnersHoldTheLock
<1>3. At(p, "idle") \/ At(p, "opening")
  BY <1>1, <1>2
<1> QED
  BY <1>1, <1>3 DEF Step, At, Begin, Acquire, Initialize, OpenCurrent, BackUp, Upgrade,
     StartObserving, Complete, CommitRun, End

(* A number above all stored ones is above all that were found: where a     *)
(* found run is missing, a new one is stored.                               *)
LEMMA RowIsNew ==
    ASSUME TypeOK, Provenance, NEW n \in Row, \A i \in DOMAIN db.runs : i < n
    PROVE  \A i \in DOMAIN legacy.runs : i < n
<1> SUFFICES ASSUME NEW i \in DOMAIN legacy.runs PROVE i < n
  OBVIOUS
<1>1. /\ DOMAIN db.runs \in SUBSET Row /\ DOMAIN legacy.runs \in SUBSET Row
      /\ Row \subseteq Nat
  BY RunsType DEF TypeOK, Row
<1>2. CASE i \in DOMAIN db.runs
  BY <1>2
<1>3. CASE i \notin DOMAIN db.runs
  <2>1. PICK j \in DOMAIN db.runs \ DOMAIN legacy.runs : TRUE
    BY <1>3 DEF Provenance, KeptUntilExpired
  <2>2. i < j /\ j < n
    BY <2>1 DEF Provenance
  <2> QED
    <3>1. i \in Nat /\ j \in Nat /\ n \in Nat
      BY <1>1, <2>1
    <3> QED
      BY <2>2, <3>1
<1> QED
  BY <1>2, <1>3

(* What a process has checked still holds after its own steps.             *)
LEMMA OwnChecksStep ==
    ASSUME IInv, NEW p \in Process, Step(p)
    PROVE  /\ At(p, "upgrading")' => db'.version \in {1, 2} /\ db' = legacy' /\ legacy' \in backups'
           /\ proc'[p].pc \in {"open", "observing", "committing", "delivering"} => db'.version = 3
           /\ proc'[p].pc \in {"observing", "committing"} =>
                 proc'[p].command \in RunMode /\ ModeFits(p)' /\ NotBeforeLatest(p)'
           /\ At(p, "committing")' => proc'[p].started <= proc'[p].completed
           /\ At(p, "delivering")' =>
                 /\ proc'[p].own \in DOMAIN db'.runs \ DOMAIN legacy'.runs
                 /\ \A i \in DOMAIN db'.runs : i <= proc'[p].own
<1> USE DEF IInv
<1>1. CASE Begin(p)
  <2>1. proc'[p].pc = "opening"
    BY <1>1 DEF Begin, TypeOK, Idle
  <2> QED
    BY <2>1 DEF At
<1>2. CASE Acquire(p)
  <2>1. proc'[p].pc = "owner"
    BY <1>2 DEF Acquire, TypeOK, ProcessState
  <2> QED
    BY <2>1 DEF At
<1>3. CASE Initialize(p)
  <2>1. proc'[p].pc = "open" /\ db'.version = 3
    BY <1>3 DEF Initialize, TypeOK, ProcessState, Database
  <2> QED
    BY <2>1 DEF At
<1>4. CASE OpenCurrent(p)
  <2>1. proc'[p].pc = "open" /\ db'.version = 3
    BY <1>4 DEF OpenCurrent, TypeOK, ProcessState
  <2> QED
    BY <2>1 DEF At
<1>5. CASE BackUp(p)
  <2>1. proc'[p].pc = "upgrading"
    BY <1>5 DEF BackUp, TypeOK, ProcessState
  <2>2. db.version \in {1, 2} /\ db' = db /\ backups' = backups \cup {db} /\ legacy' = legacy
    BY <1>5 DEF BackUp
  <2>3. db = legacy
    BY <2>2 DEF Provenance
  <2> QED
    BY <2>1, <2>2, <2>3 DEF At
<1>6. CASE Upgrade(p)
  <2>1. proc'[p].pc = "open" /\ db'.version = 3
    BY <1>6, UpgradeRow DEF Upgrade, TypeOK, ProcessState
  <2> QED
    BY <2>1 DEF At
<1>7. CASE StartObserving(p)
  <2>1. proc'[p] = [proc[p] EXCEPT !.pc = "observing"]
    BY <1>7 DEF StartObserving, TypeOK
  <2>2. /\ proc'[p].pc = "observing" /\ proc'[p].command = proc[p].command
        /\ proc'[p].started = proc[p].started
    BY <2>1 DEF TypeOK, ProcessState
  <2>3. db' = db /\ proc[p].command \in RunMode /\ ModeFits(p) /\ NotBeforeLatest(p) /\ At(p, "open")
    BY <1>7 DEF StartObserving
  <2> QED
    BY <2>2, <2>3 DEF At, ModeFits, NotBeforeLatest, ChecksStillHold
<1>8. CASE Complete(p)
  <2>1. PICK now \in Time :
           /\ now >= proc[p].started
           /\ proc' = [proc EXCEPT ![p].pc = "committing", ![p].completed = now]
    BY <1>8 DEF Complete, NotBeforeStart
  <2>2. proc'[p] = [proc[p] EXCEPT !.pc = "committing", !.completed = now]
    BY <2>1 DEF TypeOK
  <2>3. /\ proc'[p].pc = "committing" /\ proc'[p].command = proc[p].command
        /\ proc'[p].started = proc[p].started /\ proc'[p].completed = now
    BY <2>2 DEF TypeOK, ProcessState
  <2>4. db' = db /\ ModeFits(p) /\ NotBeforeLatest(p) /\ At(p, "observing")
    BY <1>8 DEF Complete
  <2>5. proc[p].started \in Time /\ now \in Nat /\ proc[p].started \in Nat
    BY BoundsAssumption DEF TypeOK, ProcessState, Time
  <2>6. proc[p].started <= now
    BY <2>1, <2>5
  <2> QED
    BY <2>3, <2>4, <2>6 DEF At, ModeFits, NotBeforeLatest, ChecksStillHold
<1>9. CASE CommitRun(p)
  <2>1. At(p, "committing") /\ legacy' = legacy
    BY <1>9 DEF CommitRun
  <2>2. PICK n \in Row, retention \in Retention : Commits(p, n, retention)
    BY <1>9, CommitRow
  <2>3. proc'[p].pc = "delivering" /\ proc'[p].own = n
    BY <2>2 DEF Commits, TypeOK, ProcessState
  <2>4. n \notin DOMAIN legacy.runs
    <3>1. \A i \in DOMAIN legacy.runs : i < n
      BY <2>2, RowIsNew DEF Commits
    <3>2. n \in Nat
      BY DEF Row
    <3> QED
      BY <3>1, <3>2
  <2>5. db.version = 3
    BY <2>1 DEF ChecksStillHold, At
  <2>6. \A i \in DOMAIN db'.runs : i <= n
    <3>1. DOMAIN db.runs \in SUBSET Row /\ n \in Nat /\ Row \subseteq Nat
      BY RunsType DEF TypeOK, Row
    <3> QED
      BY <2>2, <3>1 DEF Commits
  <2>7. db'.version = 3 /\ n \in DOMAIN db'.runs
    BY <2>2, <2>5 DEF Commits
  <2> QED
    BY <2>1, <2>3, <2>4, <2>6, <2>7 DEF At
<1>10. CASE End(p)
  <2>1. proc'[p].pc = "idle"
    BY <1>10 DEF End, TypeOK, Idle
  <2> QED
    BY <2>1 DEF At
<1> QED
  BY <1>1, <1>2, <1>3, <1>4, <1>5, <1>6, <1>7, <1>8, <1>9, <1>10 DEF Step

(* What any process has checked still holds after every step.              *)
LEMMA ChecksStep ==
    ASSUME IInv, NEW p \in Process, Step(p)
    PROVE  ChecksStillHold'
<1> SUFFICES ASSUME NEW q \in Process
             PROVE  /\ At(q, "upgrading")' =>
                          db'.version \in {1, 2} /\ db' = legacy' /\ legacy' \in backups'
                    /\ proc'[q].pc \in {"open", "observing", "committing", "delivering"} =>
                          db'.version = 3
                    /\ proc'[q].pc \in {"observing", "committing"} =>
                          proc'[q].command \in RunMode /\ ModeFits(q)' /\ NotBeforeLatest(q)'
                    /\ At(q, "committing")' => proc'[q].started <= proc'[q].completed
                    /\ At(q, "delivering")' =>
                          /\ proc'[q].own \in DOMAIN db'.runs \ DOMAIN legacy'.runs
                          /\ \A i \in DOMAIN db'.runs : i <= proc'[q].own
  BY DEF ChecksStillHold
<1>1. CASE q = p
  BY <1>1, OwnChecksStep
<1>2. CASE q # p
  <2>1. proc'[q] = proc[q] /\ legacy' = legacy
    BY <1>2, StepFrame DEF IInv, TypeOK
  <2>2. CASE At(q, "idle") \/ At(q, "opening")
    BY <2>1, <2>2 DEF At
  <2>3. CASE ~At(q, "idle") /\ ~At(q, "opening")
    <3>1. db' = db /\ backups' = backups
      BY <1>2, <2>3, OthersKeep DEF IInv
    <3> QED
      BY <2>1, <3>1 DEF IInv, ChecksStillHold, At, ModeFits, NotBeforeLatest
  <2> QED
    BY <2>2, <2>3
<1> QED
  BY <1>1, <1>2

(* What a step may do to the database: nothing, raise its version, or, with *)
(* everything checked, commit a run.                                        *)
LEMMA DatabaseSteps ==
    ASSUME IInv, NEW p \in Process, Step(p)
    PROVE  \/ db' = db /\ backups \subseteq backups'
           \/ /\ db.version = 0 /\ db'.version = 3 /\ backups' = backups
              /\ db'.runs = db.runs /\ db'.identity = db.identity
           \/ Upgrade(p)
           \/ CommitRun(p)
<1>1. CASE Initialize(p)
  <2>1. db' = [db EXCEPT !.version = 3] /\ db.version = 0 /\ backups' = backups
    BY <1>1 DEF Initialize
  <2> QED
    BY <2>1 DEF IInv, TypeOK, Database
<1>2. CASE ~Initialize(p) /\ ~Upgrade(p) /\ ~CommitRun(p)
  BY <1>2 DEF Step, Begin, Acquire, OpenCurrent, BackUp, StartObserving, Complete, End
<1> QED
  BY <1>1, <1>2

(* Every step leaves what was found where it was, until it expires, or in a  *)
(* backup.                                                                  *)
LEMMA ProvenanceStep ==
    ASSUME IInv, NEW p \in Process, Step(p)
    PROVE  Provenance'
<1> USE DEF IInv
<1>1. legacy' = legacy
  BY StepFrame
<1>2. ASSUME db'.runs = db.runs
      PROVE  /\ \A i \in DOMAIN legacy'.runs : KeptUntilExpired(i)'
             /\ \A i \in DOMAIN legacy'.runs, j \in DOMAIN db'.runs \ DOMAIN legacy'.runs : i < j
  BY <1>1, <1>2 DEF Provenance, KeptUntilExpired
<1>3. CASE db' = db /\ backups \subseteq backups'
  BY <1>1, <1>2, <1>3 DEF Provenance
<1>4. CASE /\ db.version = 0 /\ db'.version = 3 /\ backups' = backups
           /\ db'.runs = db.runs /\ db'.identity = db.identity
  BY <1>1, <1>2, <1>4 DEF Provenance
<1>5. CASE Upgrade(p)
  <2>1. db = legacy /\ legacy \in backups /\ backups' = backups
    BY <1>5 DEF Upgrade, ChecksStillHold
  <2>2. db'.version = 3 /\ db'.runs = db.runs
    BY <1>5, UpgradeRow
  <2> QED
    BY <1>1, <1>2, <2>1, <2>2 DEF Provenance
<1>6. CASE CommitRun(p)
  <2>1. PICK n \in Row, retention \in Retention : Commits(p, n, retention)
    BY <1>6, CommitRow
  <2>2. db.version = 3 /\ backups' = backups
    BY <1>6 DEF CommitRun, At, ChecksStillHold
  <2>3. \A i \in DOMAIN legacy.runs : i < n
    BY <2>1, RowIsNew DEF Commits
  <2>4. n \in DOMAIN db'.runs \ DOMAIN legacy.runs /\ db'.runs[n].completed = proc[p].completed
    BY <2>1, <2>3 DEF Commits, Row
  <2>5. ASSUME NEW i \in DOMAIN legacy.runs PROVE KeptUntilExpired(i)'
    <3>1. CASE i \in DOMAIN db.runs
      <4>1. db.runs[i] = legacy.runs[i]
        BY <3>1 DEF Provenance, KeptUntilExpired
      <4> QED
        BY <1>1, <2>1, <2>4, <3>1, <4>1 DEF Commits, KeptUntilExpired
    <3>2. CASE i \notin DOMAIN db.runs
      <4>1. PICK j \in DOMAIN db.runs, r \in Retention :
               legacy.runs[i].completed + r < db.runs[j].completed
        BY <3>2 DEF Provenance, KeptUntilExpired
      <4>2. db.runs[j].completed <= proc[p].started /\ proc[p].started <= proc[p].completed
        BY <1>6 DEF CommitRun, At, ChecksStillHold, NotBeforeLatest
      <4>3. /\ legacy.runs[i].completed \in Nat /\ db.runs[j].completed \in Nat
            /\ r \in Nat
        BY RunsType, RetentionAssumption DEF TypeOK
      <4>4. proc[p].started \in Nat /\ proc[p].completed \in Nat
        BY BoundsAssumption DEF TypeOK, ProcessState, Time
      <4>5. legacy.runs[i].completed + r < db'.runs[n].completed
        BY <2>4, <4>1, <4>2, <4>3, <4>4
      <4>6. i \notin DOMAIN db'.runs
        BY <2>1, <2>4, <3>2 DEF Commits
      <4> QED
        BY <1>1, <2>4, <4>5, <4>6 DEF KeptUntilExpired
    <3> QED
      BY <3>1, <3>2
  <2>6. \A i \in DOMAIN legacy.runs, j \in DOMAIN db'.runs \ DOMAIN legacy.runs : i < j
    BY <2>1, <2>3 DEF Commits, Provenance
  <2> QED
    BY <1>1, <2>1, <2>2, <2>5, <2>6 DEF Commits, Provenance
<1> QED
  BY <1>3, <1>4, <1>5, <1>6, DatabaseSteps

(* Every step keeps the history of a current database in its bound mode.   *)
LEMMA OneModeStep ==
    ASSUME IInv, NEW p \in Process, Step(p)
    PROVE  RunsOfOneMode'
<1> USE DEF IInv
<1>2. CASE db' = db /\ backups \subseteq backups'
  BY <1>2 DEF RunsOfOneMode
<1>3. CASE /\ db.version = 0 /\ db'.version = 3 /\ backups' = backups
           /\ db'.runs = db.runs /\ db'.identity = db.identity
  <2>1. DOMAIN db'.runs = {}
    BY <1>3, FoundAssumption DEF Provenance
  <2> QED
    BY <2>1 DEF RunsOfOneMode
<1>4. CASE Upgrade(p)
  <2>1. /\ db'.runs = db.runs
        /\ db.version # 1 => db'.identity = db.identity
        /\ db.version = 1 /\ Modes # {} => Modes = {db'.identity}
    BY <1>4, UpgradeRow
  <2>2. db.version \in {1, 2} /\ db \in Found
    BY <1>4 DEF Upgrade, ChecksStillHold, Provenance
  <2>3. CASE db.version = 1
    BY <2>1, <2>3 DEF RunsOfOneMode, Modes
  <2>4. CASE db.version = 2
    BY <2>1, <2>2, <2>4, FoundAssumption DEF RunsOfOneMode
  <2> QED
    BY <2>2, <2>3, <2>4
<1>5. CASE CommitRun(p)
  <2>1. PICK n \in Row, retention \in Retention : Commits(p, n, retention)
    BY <1>5, CommitRow
  <2>2. db.version = 3 /\ db.identity \in {"none", proc[p].command}
    BY <1>5 DEF CommitRun, At, ChecksStillHold, ModeFits
  <2>3. \A i \in DOMAIN db.runs : db.runs[i].mode = proc[p].command
    <3> SUFFICES ASSUME NEW i \in DOMAIN db.runs PROVE db.runs[i].mode = proc[p].command
      OBVIOUS
    <3>1. db.runs[i].mode = db.identity /\ db.runs[i] \in RunRow
      BY <2>2, RunsType DEF RunsOfOneMode, TypeOK
    <3>2. db.identity # "none"
      BY <3>1 DEF RunRow, RunMode
    <3> QED
      BY <2>2, <3>1, <3>2
  <2>4. \A i \in DOMAIN db'.runs : db'.runs[i].mode = db'.identity
    BY <2>1, <2>3 DEF Commits
  <2> QED
    BY <2>4 DEF RunsOfOneMode
<1> QED
  BY <1>2, <1>3, <1>4, <1>5, DatabaseSteps

(* Every step keeps new runs in the order of their times.                  *)
LEMMA InOrderStep ==
    ASSUME IInv, NEW p \in Process, Step(p)
    PROVE  RunsInOrder'
<1> USE DEF IInv
<1>1. legacy' = legacy
  BY StepFrame
<1>2. DOMAIN db.runs \in SUBSET Row /\ Row \subseteq Nat
  BY RunsType DEF TypeOK, Row
<1>3. CASE db'.runs = db.runs
  BY <1>1, <1>3 DEF RunsInOrder
<1>4. CASE CommitRun(p)
  <2>1. PICK n \in Row, retention \in Retention : Commits(p, n, retention)
    BY <1>4, CommitRow
  <2>2. proc[p].started <= proc[p].completed /\ NotBeforeLatest(p)
    BY <1>4 DEF CommitRun, At, ChecksStillHold
  <2> SUFFICES ASSUME NEW i \in DOMAIN db'.runs, NEW j \in DOMAIN db'.runs,
                      i <= j, j \notin DOMAIN legacy.runs
               PROVE  /\ db'.runs[j].started <= db'.runs[j].completed
                      /\ i < j => db'.runs[i].completed <= db'.runs[j].started
    BY <1>1 DEF RunsInOrder
  <2>3. CASE j = n
    <3>1. db'.runs[j].started <= db'.runs[j].completed
      BY <2>1, <2>2, <2>3 DEF Commits
    <3>2. ASSUME i < j PROVE db'.runs[i].completed <= db'.runs[j].started
      <4>1. i \in DOMAIN db.runs
        BY <1>2, <2>1, <2>3, <3>2 DEF Commits, Row
      <4> QED
        BY <2>1, <2>2, <2>3, <4>1 DEF Commits, NotBeforeLatest
    <3> QED
      BY <3>1, <3>2
  <2>4. CASE j # n
    <3>1. j \in DOMAIN db.runs /\ j < n
      BY <2>1, <2>4 DEF Commits
    <3>2. i \in DOMAIN db.runs
      BY <1>2, <2>1, <3>1 DEF Commits, Row
    <3> QED
      BY <2>1, <3>1, <3>2 DEF Commits, RunsInOrder
  <2> QED
    BY <2>3, <2>4
<1> QED
  BY <1>3, <1>4, DatabaseSteps, UpgradeRow

(* Every step preserves the inductive invariant.                           *)
LEMMA InvStep == IInv /\ [Next]_vars => IInv'
<1> SUFFICES ASSUME IInv, [Next]_vars PROVE IInv'
  OBVIOUS
<1>1. CASE UNCHANGED vars
  BY <1>1 DEF vars, IInv, TypeOK, OwnersHoldTheLock, ChecksStillHold, Provenance, KeptUntilExpired,
              RunsOfOneMode, RunsInOrder, At, ModeFits, NotBeforeLatest
<1>2. CASE Next
  <2>1. PICK p \in Process : Step(p)
    BY <1>2 DEF Next, Step
  <2> QED
    BY <2>1, TypeStep, OwnersStep, ChecksStep, ProvenanceStep, OneModeStep, InOrderStep DEF IInv
<1> QED
  BY <1>1, <1>2

(* The inductive invariant holds in every reachable state.                 *)
THEOREM Invariant == Spec => []IInv
<1> QED
  BY InitInv, InvStep, PTL DEF Spec

(* Runs of one mode: live and dry-run history are never mixed, for any      *)
(* number of processes and any legal database that was found.              *)
THEOREM ModesAreNeverMixed == Spec => []RunsOfOneMode
<1>1. IInv => RunsOfOneMode
  BY DEF IInv
<1> QED
  BY <1>1, Invariant, PTL

(* New runs are committed in the order of their times and do not overlap.  *)
THEOREM RunsFollowTheirTimes == Spec => []RunsInOrder
<1>1. IInv => RunsInOrder
  BY DEF IInv
<1> QED
  BY <1>1, Invariant, PTL

(* A state that was upgraded is in a validated backup and keeps the runs     *)
(* that were found until the retention of a later run deletes them, and one  *)
(* that was not upgraded is as it was found.                                *)
THEOREM UpgradesAreBackedUp == Spec => []UpgradeHasBackup
<1>1. IInv => UpgradeHasBackup
  BY DEF IInv, Provenance, UpgradeHasBackup
<1> QED
  BY <1>1, Invariant, PTL

(* A check prints its own run: nothing newer is in the state when it ends.  *)
THEOREM ChecksPrintTheirOwnRun == Spec => []PrintsItsOwnRun
<1>1. ASSUME IInv PROVE PrintsItsOwnRun
  <2> USE <1>1 DEF IInv
  <2> SUFFICES ASSUME NEW p \in Process, At(p, "delivering")
               PROVE  proc[p].own \in DOMAIN db.runs /\ Newest(proc[p].own)
    BY DEF PrintsItsOwnRun
  <2> DEFINE n == proc[p].own
  <2>1. n \in DOMAIN db.runs /\ n \notin DOMAIN legacy.runs /\ \A j \in DOMAIN db.runs : j <= n
    BY DEF ChecksStillHold
  <2>2. \A j \in DOMAIN db.runs :
           j \in Nat /\ db.runs[j].completed \in Nat /\ db.runs[j].started \in Nat
    BY RunsType DEF TypeOK, Row
  <2>3. ASSUME NEW j \in DOMAIN db.runs
        PROVE  \/ db.runs[j].completed < db.runs[n].completed
               \/ db.runs[j].completed = db.runs[n].completed /\ j <= n
    <3>1. db.runs[n].started <= db.runs[n].completed
      BY <2>1, <2>2 DEF RunsInOrder
    <3>2. j < n => db.runs[j].completed <= db.runs[n].started
      BY <2>1 DEF RunsInOrder
    <3> QED
      BY <2>1, <2>2, <3>1, <3>2
  <2> QED
    BY <2>1, <2>3 DEF Newest
<1> QED
  BY <1>1, Invariant, PTL

(* While a process is past acquire_ownership and takes no step, nobody      *)
(* changes the database.                                                    *)
THEOREM OwnersAreAlone == Spec => OnlyTheOwnerWrites
<1>1. IInv /\ [Next]_vars =>
        [\A p \in Process :
           ~At(p, "idle") /\ ~At(p, "opening") /\ proc'[p] = proc[p] => db' = db]_vars
  <2> SUFFICES ASSUME IInv, Next, NEW q \in Process,
                      ~At(q, "idle"), ~At(q, "opening"), proc'[q] = proc[q]
               PROVE  db' = db
    OBVIOUS
  <2>1. PICK p \in Process : Step(p)
    BY DEF Next, Step
  <2>2. CASE p # q
    BY <2>1, <2>2, OthersKeep DEF IInv
  <2>3. CASE p = q
    <3>1. proc[p] \in ProcessState
      BY DEF IInv, TypeOK
    <3>2. ~Initialize(p) /\ ~Upgrade(p) /\ ~CommitRun(p)
      <4>1. ~Initialize(p) /\ ~Upgrade(p)
        BY <2>3, <3>1 DEF Initialize, Upgrade, At, IInv, TypeOK, ProcessState
      <4>2. CommitRun(p) => proc'[p].pc = "delivering" /\ proc[p].pc = "committing"
        <5> SUFFICES ASSUME CommitRun(p)
                     PROVE  proc'[p].pc = "delivering" /\ proc[p].pc = "committing"
          OBVIOUS
        <5>1. PICK n \in Row, retention \in Retention : Commits(p, n, retention)
          BY CommitRow DEF IInv
        <5>2. proc'[p] = [proc[p] EXCEPT !.pc = "delivering", !.own = n]
          BY <5>1 DEF Commits
        <5>3. proc'[p].pc = "delivering"
          BY <3>1, <5>2 DEF ProcessState
        <5> QED
          BY <5>3 DEF CommitRun, At
      <4> QED
        BY <2>3, <4>1, <4>2
    <3> QED
      BY <2>1, <3>2 DEF Step, Begin, Acquire, OpenCurrent, BackUp, StartObserving, Complete, End
  <2> QED
    BY <2>2, <2>3
<1> QED
  BY <1>1, Invariant, PTL DEF Spec, OnlyTheOwnerWrites

-----------------------------------------------------------------------------
(* Migration: messages and what of them is displayed.                      *)

(* A line is a sequence of characters, and has at least two.               *)
LEMMA LineType ==
    ASSUME NEW c \in Condition
    PROVE  /\ Line(c) \in Seq(Int)
           /\ Len(Line(c)) \in Nat
           /\ DOMAIN Line(c) = 1..Len(Line(c))
           /\ Len(Line(c)) >= 2
<1>1. Summary[c] \in Seq(Nat)
  BY SummaryAssumption
<1>2. Summary[c] \in Seq(Int) /\ <<Newline, Dash>> \in Seq(Int)
  BY <1>1 DEF Newline, Dash
<1>3. Len(<<Newline, Dash>>) = 2
  OBVIOUS
<1> QED
  BY <1>2, <1>3 DEF Line

(* The characters of one line, of several, and of some of them.            *)
LEMMA LineCharacters ==
    ASSUME NEW c \in Condition
    PROVE  /\ IsFiniteSet({c} \X DOMAIN Line(c))
           /\ Cardinality({c} \X DOMAIN Line(c)) = Len(Line(c))
<1>1. IsFiniteSet(1..Len(Line(c))) /\ Cardinality(1..Len(Line(c))) = Len(Line(c))
  BY LineType, FS_Interval
<1>2. IsFiniteSet({c}) /\ Cardinality({c}) = 1
  BY FS_Singleton
<1>3. /\ IsFiniteSet({c} \X (1..Len(Line(c))))
      /\ Cardinality({c} \X (1..Len(Line(c)))) = 1 * Len(Line(c))
  <2> DEFINE C == {c}
             N == 1..Len(Line(c))
  <2>1. IsFiniteSet(C) /\ IsFiniteSet(N) /\ Cardinality(C) = 1 /\ Cardinality(N) = Len(Line(c))
    BY <1>1, <1>2
  <2> HIDE DEF C, N
  <2>2. IsFiniteSet(C \X N) /\ Cardinality(C \X N) = Cardinality(C) * Cardinality(N)
    BY ONLY <2>1, FS_Product
  <2>3. Cardinality(C \X N) = 1 * Len(Line(c))
    BY <2>1, <2>2, Zenon
  <2> QED
    BY <2>2, <2>3, Zenon DEF C, N
<1>4. Len(Line(c)) \in Nat
  BY LineType
<1>5. {c} \X DOMAIN Line(c) = {c} \X (1..Len(Line(c)))
  BY LineType, Zenon
<1>6. 1 * Len(Line(c)) = Len(Line(c))
  BY <1>4
<1> QED
  BY <1>3, <1>5, <1>6, Zenon

LEMMA CharactersAreFinite ==
    ASSUME NEW S \in SUBSET Condition
    PROVE  IsFiniteSet(Characters(S)) /\ Length(S) \in Int
<1> DEFINE g == [c \in S |-> {c} \X DOMAIN Line(c)]
           T == {{c} \X DOMAIN Line(c) : c \in S}
<1>1. g \in Surjection(S, T)
  BY DEF Surjection
<1>2. IsFiniteSet(S)
  BY ConditionAssumption, FS_Subset
<1>3. IsFiniteSet(T)
  <2> HIDE DEF g, T
  <2> QED  BY <1>1, <1>2, FS_Surjection
<1>4. \A U \in T : IsFiniteSet(U)
  BY LineCharacters
<1>5. IsFiniteSet(UNION T)
  <2> HIDE DEF T
  <2> QED  BY <1>3, <1>4, FS_UNION
<1>6. Characters(S) = UNION T
  BY DEF Characters
<1>7. Cardinality(Characters(S)) \in Nat
  BY <1>5, <1>6, FS_CardinalityType
<1> QED
  BY <1>5, <1>6, <1>7 DEF Length

(* A message is as long as its parts together.                             *)
LEMMA LengthOfPart ==
    ASSUME NEW S \in SUBSET Condition, NEW U \in SUBSET S
    PROVE  Length(U) <= Length(S)
<1>1. Characters(U) \subseteq Characters(S)
  BY DEF Characters
<1>2. Cardinality(Characters(U)) <= Cardinality(Characters(S))
  BY <1>1, CharactersAreFinite, FS_Subset
<1>3. Cardinality(Characters(U)) \in Nat /\ Cardinality(Characters(S)) \in Nat
  BY CharactersAreFinite, FS_CardinalityType
<1> QED
  BY <1>2, <1>3 DEF Length

LEMMA LengthWithLine ==
    ASSUME NEW S \in SUBSET Condition, NEW c \in S
    PROVE  Length(S) = Length(S \ {c}) + Len(Line(c))
<1> DEFINE A == Characters(S \ {c})
           B == {c} \X DOMAIN Line(c)
<1>1. Characters(S) = A \cup B /\ A \cap B = {}
  BY DEF Characters
<1>2. IsFiniteSet(A) /\ IsFiniteSet(B) /\ Cardinality(B) = Len(Line(c))
  BY CharactersAreFinite, LineCharacters
<1>3. Cardinality(A) \in Nat /\ Cardinality(B) \in Nat
  BY <1>2, FS_CardinalityType
<1>4. Cardinality(Characters(S)) = Cardinality(A) + Cardinality(B) - 0
  <2>1. Cardinality(A \cap B) = 0
    BY <1>1, FS_EmptySet
  <2> HIDE DEF A, B
  <2> QED  BY <1>1, <1>2, <2>1, FS_Union
<1>5. Length(S) = Cardinality(Characters(S)) - 1 /\ Length(S \ {c}) = Cardinality(A) - 1
  BY DEF Length
<1> QED
  <2> HIDE DEF A, B
  <2> QED  BY <1>2, <1>3, <1>4, <1>5

(* The last condition of a message, in the order they are loaded in.       *)
LEMMA LastCondition ==
    ASSUME NEW S \in SUBSET Condition, S # {}
    PROVE  \E c \in S : \A d \in S : Rank[d] <= Rank[c]
<1> DEFINE Above(c) == {d \in S : Rank[d] > Rank[c]}
           Counts == {Cardinality(Above(c)) : c \in S}
           Less == {p \in Nat \X Nat : p[1] < p[2]}
<1>1. Rank \in [Condition -> Nat]
  BY ConditionAssumption DEF Injection
<1>2. \A c \in S : IsFiniteSet(Above(c)) /\ Cardinality(Above(c)) \in Nat
  <2>1. IsFiniteSet(S)
    BY ConditionAssumption, FS_Subset
  <2>2. \A c \in S : Above(c) \in SUBSET S
    OBVIOUS
  <2> HIDE DEF Above
  <2> QED  BY <2>1, <2>2, FS_Subset, FS_CardinalityType
<1>3. Counts \in SUBSET Nat /\ Counts # {}
  <2> HIDE DEF Above
  <2> QED  BY <1>2
<1>4. IsWellFoundedOn(Less, Nat)
  BY NatLessThanWellFounded, Zenon DEF OpToRel
<1>5. PICK n \in Counts : \A m \in Counts : ~(<<m, n>> \in Less)
  <2> HIDE DEF Counts, Less
  <2> QED  BY <1>3, <1>4, WFMin
<1>6. PICK c \in S : n = Cardinality(Above(c))
  BY <1>5
<1>7. ASSUME NEW d \in S, Rank[d] > Rank[c]
      PROVE  FALSE
  <2>1. Above(d) \in SUBSET Above(c) /\ d \in Above(c) /\ d \notin Above(d)
    BY <1>1, <1>7
  <2>2. Cardinality(Above(d)) <= Cardinality(Above(c)) /\ Cardinality(Above(d)) # Cardinality(Above(c))
    <3> HIDE DEF Above
    <3> QED  BY <1>2, <2>1, FS_Subset
  <2>3. <<Cardinality(Above(d)), n>> \in Less
    <3> HIDE DEF Above
    <3> QED  BY <1>2, <1>6, <2>2
  <2> QED
    BY <1>5, <2>3
<1> QED
  BY <1>1, <1>7

(* A message that fits in the order it is loaded in is shown as a whole, in *)
(* whatever order its lines were written.                                  *)
LEMMA FittingIsDisplayed ==
    ASSUME NEW S \in SUBSET Condition, S # {}, Fits(Text(S, Rank)), NEW order
    PROVE  Displayed(S, order) = S
<1>1. PICK c \in S : \A d \in S : Rank[d] <= Rank[c]
  BY LastCondition
<1>2. Upto(S, Rank, c) = S
  BY <1>1 DEF Upto
<1> DEFINE k == Len(Line(c))
<1>3. k \in DOMAIN Line(c) /\ k \in Nat
  BY LineType
<1>4. <<Length(S \ {c}) + k, Line(c)[k]>> \in Text(S, Rank)
  <2> DEFINE U == {<<Length(Upto(S, Rank, c) \ {c}) + j, Line(c)[j]>> : j \in DOMAIN Line(c)}
  <2>1. <<Length(S \ {c}) + k, Line(c)[k]>> \in U
    BY <1>2, <1>3, Zenon
  <2>2. U \subseteq Text(S, Rank)
    BY Zenon DEF Text
  <2> QED
    BY <2>1, <2>2, Zenon
<1>5. Length(S \ {c}) + k <= Limit
  BY <1>4 DEF Fits
<1>6. Length(S) <= Limit
  BY <1>5, LengthWithLine
<1>7. ASSUME NEW d \in S
      PROVE  Length(Upto(S, order, d)) <= Limit
  <2>1. Upto(S, order, d) \in SUBSET S
    BY DEF Upto
  <2>2. Length(Upto(S, order, d)) <= Length(S)
    BY <2>1, LengthOfPart
  <2>3. Length(Upto(S, order, d)) \in Int /\ Length(S) \in Int /\ Limit \in Int
    BY <2>1, CharactersAreFinite, LegacyBoundsAssumption
  <2> QED
    BY <1>6, <2>2, <2>3
<1> QED
  BY <1>7 DEF Displayed

-----------------------------------------------------------------------------
(* Migration: the steps of version 1.                                      *)

(* The inductive invariant but its type, and but what it says of version 3. *)
LegacyParts == LegacyRunsAreStored /\ MessagesFollowTransitions /\ AcknowledgedWasShown

LEMMA MigrationInitInv == MigrationInit => MigrationInv
<1> SUFFICES ASSUME MigrationInit PROVE MigrationInv
  OBVIOUS
<1>1. MigrationTypeOK
  BY DEF MigrationInit, MigrationTypeOK, Latches, Delivery
<1>2. LegacyParts
  BY DEF MigrationInit, LegacyParts, LegacyRunsAreStored, MessagesFollowTransitions,
         AcknowledgedWasShown
<1>3. LegacyClaimsAreTrue /\ LegacyIsSettled
  BY DEF MigrationInit, LegacyClaimsAreTrue, LegacyIsSettled
<1> QED
  BY <1>1, <1>2, <1>3 DEF MigrationInv, LegacyParts

(* The text of a message is a set of characters at positions.              *)
LEMMA TextType ==
    ASSUME NEW S \in SUBSET Condition, NEW order
    PROVE  Text(S, order) \in SUBSET (Int \X Int)
<1> DEFINE Lines(c) == {<<Length(Upto(S, order, c) \ {c}) + k, Line(c)[k]>> : k \in DOMAIN Line(c)}
<1>1. ASSUME NEW c \in S
      PROVE  Lines(c) \subseteq Int \X Int
  <2>1. Length(Upto(S, order, c) \ {c}) \in Int
    <3>1. Upto(S, order, c) \ {c} \in SUBSET Condition
      BY DEF Upto
    <3> QED
      BY <3>1, CharactersAreFinite
  <2>2. \A k \in DOMAIN Line(c) : k \in Int /\ Line(c)[k] \in Int
    BY LineType
  <2> QED
    BY <2>1, <2>2
<1>2. Text(S, order) = UNION {Lines(c) : c \in S}
  BY Zenon DEF Text
<1> QED
  <2> HIDE DEF Lines
  <2> QED  BY <1>1, <1>2

(* What a run queues is at most one message, of that run and kind, about    *)
(* the given conditions, pending and not acknowledged.                     *)
LEMMA QueuedRow ==
    ASSUME NEW run \in Nat, NEW kind \in Kinds, NEW S \in SUBSET Condition,
           NEW queued \in Queued(run, kind, S)
    PROVE  /\ queued \in Seq(OutboxRow)
           /\ \A i \in DOMAIN queued :
                queued[i].run = run /\ queued[i].kind = kind /\ queued[i].members = S
                  /\ ~queued[i].acknowledged
<1>1. CASE queued = <<>>
  BY <1>1
<1>2. CASE queued # <<>>
  <2>1. PICK order \in Orders(S) : \E text \in {Text(S, order), Cut(Text(S, order))} :
           queued = <<LegacyRow(run, kind, S, order, text)>>
    BY <1>2, Zenon DEF Queued
  <2>2. PICK text \in {Text(S, order), Cut(Text(S, order))} :
           queued = <<LegacyRow(run, kind, S, order, text)>>
    BY <2>1
  <2>3. text \in SUBSET (Int \X Int)
    BY TextType DEF Cut
  <2>4. order \in UNION {Orders(U) : U \in SUBSET Condition}
    OBVIOUS
  <2>5. LegacyRow(run, kind, S, order, text) \in OutboxRow
    BY <2>3, <2>4 DEF LegacyRow, OutboxRow
  <2> QED
    BY <2>2, <2>5 DEF LegacyRow
<1> QED
  BY <1>1, <1>2

(* The fields of stored messages.                                          *)
LEMMA RowFields ==
    ASSUME NEW s \in Seq(OutboxRow), NEW i \in DOMAIN s
    PROVE  /\ s[i] \in OutboxRow
           /\ s[i].run \in Nat /\ s[i].kind \in Kinds
           /\ s[i].members \in SUBSET Condition
           /\ s[i].acknowledged \in BOOLEAN
           /\ s[i].order \in UNION {Orders(S) : S \in SUBSET Condition}
           /\ s[i].message \in SUBSET (Int \X Int)
           /\ s[i].status \in {"pending", "retryable", "delivered", "unknown", "failed"}
<1>1. s[i] \in OutboxRow
  OBVIOUS
<1> HIDE DEF Orders
<1> QED
  BY <1>1 DEF OutboxRow

(* What follows a sequence, and what follows that.                         *)
LEMMA RowsAfterRows ==
    ASSUME NEW R, NEW s \in Seq(R), NEW t \in Seq(R)
    PROVE  /\ s \o t \in Seq(R)
           /\ \A i \in DOMAIN (s \o t) :
                \/ i \in DOMAIN s /\ (s \o t)[i] = s[i]
                \/ \E j \in DOMAIN t : (s \o t)[i] = t[j]
<1>1. s \o t \in Seq(R) /\ Len(s \o t) = Len(s) + Len(t)
  OBVIOUS
<1>2. ASSUME NEW i \in DOMAIN (s \o t)
      PROVE  \/ i \in DOMAIN s /\ (s \o t)[i] = s[i]
             \/ \E j \in DOMAIN t : (s \o t)[i] = t[j]
  <2>1. i \in 1..(Len(s) + Len(t))
    BY <1>1, <1>2
  <2>2. CASE i <= Len(s)
    BY <2>1, <2>2
  <2>3. CASE i > Len(s)
    <3>1. i - Len(s) \in DOMAIN t /\ (s \o t)[i] = t[i - Len(s)]
      BY <2>1, <2>3
    <3> QED
      BY <3>1
  <2> QED
    BY <2>1, <2>2, <2>3
<1> QED
  BY <1>1, <1>2

(* A run stores its transitions with the messages that tell of them: they   *)
(* agree, and nothing stored before is of that run.                        *)
LEMMA LegacyRunInv ==
    ASSUME MigrationInv, LegacyRun
    PROVE  MigrationInv'
<1> DEFINE run == Len(evaluations) + 1
           A(S) == {c \in S : ~latch[c].firing}
           R(told) == {c \in told : latch[c].firing}
           Transitions(S, told) ==
             latch' = [c \in Condition |->
                  IF c \notin S THEN latch[c]
                  ELSE [firing |-> c \in A(S), transition |-> run, episode |-> 0,
                        delivery |-> IF c \in told THEN "pending" ELSE latch[c].delivery]]
           Evaluated(S) ==
             \E evaluated \in {S, Condition} :
                  evaluations' = Append(evaluations,
                    [c \in evaluated |-> [delivery |-> latch'[c].delivery, episode |-> 0]])
           Messages(S, told) ==
             \E alert \in Queued(run, "alert", A(S)) :
               \E resolution \in Queued(run, "resolution", R(told)) :
                 rows' = rows \o alert \o resolution
<1> USE DEF MigrationInv
<1>1. \E S \in SUBSET Condition : \E told \in SUBSET S :
         Transitions(S, told) /\ Evaluated(S) /\ Messages(S, told)
  BY Zenon DEF LegacyRun
<1> HIDE DEF Transitions, Evaluated, Messages
<1>2. PICK S \in SUBSET Condition : \E told \in SUBSET S :
         Transitions(S, told) /\ Evaluated(S) /\ Messages(S, told)
  BY <1>1
<1>3. PICK told \in SUBSET S :
         Transitions(S, told) /\ Evaluated(S) /\ Messages(S, told)
  BY <1>2
<1>4. PICK alert \in Queued(run, "alert", A(S)) :
         \E resolution \in Queued(run, "resolution", R(told)) : rows' = rows \o alert \o resolution
  BY <1>3 DEF Messages
<1>5. PICK resolution \in Queued(run, "resolution", R(told)) :
         rows' = rows \o alert \o resolution
  BY <1>4
<1>6. /\ version = 1 /\ version' = 1 /\ shown' = shown
      /\ \E mode \in LegacyModes : modes' = modes \cup {mode}
  BY DEF LegacyRun
<1>7. run \in Nat /\ evaluations \in Seq(Evaluations) /\ latch \in [Condition -> Latches]
  BY DEF MigrationTypeOK
<1>7a. rows \in Seq(OutboxRow)
  BY DEF MigrationTypeOK
<1>8. A(S) \in SUBSET Condition /\ R(told) \in SUBSET Condition
  OBVIOUS
<1>9. latch' \in [Condition -> Latches]
  <2>1. \A c \in Condition : latch'[c] \in Latches
    BY <1>3, <1>7 DEF Transitions, Latches, Delivery
  <2> QED
    BY <1>3, <2>1 DEF Transitions
<1>10. evaluations' \in Seq(Evaluations) /\ Len(evaluations') = run
  <2>1. PICK evaluated \in {S, Condition} :
           evaluations' = Append(evaluations,
              [c \in evaluated |-> [delivery |-> latch'[c].delivery, episode |-> 0]])
    BY <1>3 DEF Evaluated
  <2> DEFINE e == [c \in evaluated |-> [delivery |-> latch'[c].delivery, episode |-> 0]]
  <2>2. \A c \in evaluated : latch'[c].delivery \in Delivery
    BY <1>9 DEF Latches
  <2>3. e \in [evaluated -> [delivery : Delivery, episode : Nat]]
    BY <2>2
  <2>4. e \in Evaluations
    BY <2>3 DEF Evaluations
  <2>5. evaluations' = Append(evaluations, e)
    BY <2>1
  <2> HIDE DEF e
  <2> QED
    BY <1>7, <2>4, <2>5
<1>11. /\ alert \in Seq(OutboxRow)
       /\ \A i \in DOMAIN alert :
            /\ alert[i].run = run /\ alert[i].kind = "alert"
            /\ alert[i].members = A(S) /\ ~alert[i].acknowledged
  BY <1>7, <1>8, QueuedRow DEF Kinds
<1>12. /\ resolution \in Seq(OutboxRow)
       /\ \A i \in DOMAIN resolution :
            /\ resolution[i].run = run /\ resolution[i].kind = "resolution"
            /\ resolution[i].members = R(told) /\ ~resolution[i].acknowledged
  BY <1>7, <1>8, QueuedRow DEF Kinds
<1>13. /\ rows' \in Seq(OutboxRow)
       /\ \A i \in DOMAIN rows' :
            \/ i \in DOMAIN rows /\ rows'[i] = rows[i]
            \/ \E j \in DOMAIN alert : rows'[i] = alert[j]
            \/ \E j \in DOMAIN resolution : rows'[i] = resolution[j]
  <2> DEFINE s == rows \o alert
  <2>1. /\ s \in Seq(OutboxRow)
        /\ \A i \in DOMAIN s :
             \/ i \in DOMAIN rows /\ s[i] = rows[i]
             \/ \E j \in DOMAIN alert : s[i] = alert[j]
    BY <1>11, <1>7a, RowsAfterRows
  <2>2. rows' = s \o resolution
    BY <1>5
  <2> HIDE DEF s
  <2>3. /\ s \o resolution \in Seq(OutboxRow)
        /\ \A i \in DOMAIN (s \o resolution) :
             \/ i \in DOMAIN s /\ (s \o resolution)[i] = s[i]
             \/ \E j \in DOMAIN resolution : (s \o resolution)[i] = resolution[j]
    BY <1>12, <2>1, RowsAfterRows
  <2>4. ASSUME NEW i \in DOMAIN (s \o resolution)
        PROVE  \/ i \in DOMAIN rows /\ (s \o resolution)[i] = rows[i]
               \/ \E j \in DOMAIN alert : (s \o resolution)[i] = alert[j]
               \/ \E j \in DOMAIN resolution : (s \o resolution)[i] = resolution[j]
    <3>1. CASE i \in DOMAIN s /\ (s \o resolution)[i] = s[i]
      BY <2>1, <3>1, Zenon
    <3> QED
      BY <2>3, <3>1, Zenon
  <2> QED
    BY <2>2, <2>3, <2>4, Zenon
<1>14. MigrationTypeOK'
  BY <1>6, <1>9, <1>10, <1>13 DEF MigrationTypeOK
<1>15. LegacyRunsAreStored'
  <2>1. \A i \in DOMAIN rows : rows[i].run <= Len(evaluations) /\ rows[i].run \in Nat
    BY <1>7a, RowFields DEF LegacyRunsAreStored
  <2>2. ASSUME NEW i \in DOMAIN rows'
        PROVE  rows'[i].run <= run
    <3>1. CASE i \in DOMAIN rows /\ rows'[i] = rows[i]
      BY <1>7, <2>1, <3>1
    <3>2. CASE \E j \in DOMAIN alert : rows'[i] = alert[j]
      BY <1>7, <1>11, <3>2
    <3>3. CASE \E j \in DOMAIN resolution : rows'[i] = resolution[j]
      BY <1>7, <1>12, <3>3
    <3> QED
      BY <1>13, <3>1, <3>2, <3>3, Zenon
  <2>3. \A c \in Condition : latch'[c].transition <= run
    BY <1>3, <1>7 DEF Transitions, Latches, LegacyRunsAreStored
  <2> QED
    BY <1>10, <2>2, <2>3 DEF LegacyRunsAreStored
<1>16. MessagesFollowTransitions'
  <2> SUFFICES ASSUME NEW i \in DOMAIN rows', NEW c \in rows'[i].members,
                      rows'[i].run = latch'[c].transition
               PROVE  rows'[i].kind = "alert" <=> latch'[c].firing
    BY DEF MessagesFollowTransitions
  <2>1. c \in Condition
    BY <1>13, RowFields
  <2>2. /\ c \in S => latch'[c].transition = run /\ latch'[c].firing = (c \in A(S))
        /\ c \notin S => latch'[c] = latch[c]
    BY <1>3, <2>1 DEF Transitions
  <2>3. latch[c].transition < run
    BY <1>7, <2>1 DEF LegacyRunsAreStored, Latches
  <2>4. CASE i \in DOMAIN rows /\ rows'[i] = rows[i]
    <3>1. rows[i].run < run
      BY <1>7, <1>7a, <2>4, RowFields DEF LegacyRunsAreStored
    <3>2. c \notin S
      BY <2>2, <2>4, <3>1, <1>7
    <3> QED
      BY <2>2, <2>4, <3>2 DEF MessagesFollowTransitions
  <2>5. CASE \E j \in DOMAIN alert : rows'[i] = alert[j]
    <3>1. c \in A(S) /\ rows'[i].kind = "alert"
      BY <1>11, <2>5
    <3> QED
      BY <2>2, <3>1
  <2>6. CASE \E j \in DOMAIN resolution : rows'[i] = resolution[j]
    <3>1. c \in R(told) /\ rows'[i].kind = "resolution"
      BY <1>12, <2>6
    <3>2. c \in S /\ c \notin A(S)
      BY <3>1
    <3> QED
      BY <2>2, <3>1, <3>2
  <2> QED
    BY <1>13, <2>4, <2>5, <2>6
<1>17. AcknowledgedWasShown'
  <2> SUFFICES ASSUME NEW i \in DOMAIN rows', rows'[i].acknowledged
               PROVE  \A c \in Displayed(rows'[i].members, rows'[i].order) :
                         <<c, rows'[i].run, rows'[i].kind>> \in shown
    BY <1>6 DEF AcknowledgedWasShown, Displayed, Upto, Length, Characters, Line
  <2>1. i \in DOMAIN rows /\ rows'[i] = rows[i]
    BY <1>11, <1>12, <1>13
  <2> QED
    BY <2>1 DEF AcknowledgedWasShown
<1>18. (LegacyClaimsAreTrue /\ LegacyIsSettled)'
  BY <1>6 DEF LegacyClaimsAreTrue, LegacyIsSettled
<1> QED
  BY <1>14, <1>15, <1>16, <1>17, <1>18

(* Whether a result is recorded or lost, an acknowledged message was shown, *)
(* and its transitions stay what they were.                                *)
LEMMA LegacySendInv ==
    ASSUME MigrationInv, NEW i \in DOMAIN rows, LegacySend(i)
    PROVE  MigrationInv'
<1> DEFINE Statuses == {"pending", "retryable", "delivered", "unknown", "failed"}
           Seen == {<<c, rows[i].run, rows[i].kind>> : c \in Displayed(rows[i].members, rows[i].order)}
           Result(status, acknowledged, seen) ==
             /\ acknowledged => status = "delivered" /\ seen
             /\ rows' = [rows EXCEPT ![i].status = status, ![i].acknowledged = acknowledged]
             /\ latch' = [c \in Condition |->
                  IF c \notin rows[i].members \/ status \in {"pending", "retryable"} THEN latch[c]
                  ELSE [latch[c] EXCEPT !.delivery =
                          IF status # "delivered" THEN status
                          ELSE IF rows[i].kind = "alert" THEN "delivered" ELSE "resolved"]]
             /\ shown' = IF seen THEN shown \cup Seen ELSE shown
<1> USE DEF MigrationInv
<1>1. \E status \in Statuses, acknowledged \in BOOLEAN, seen \in BOOLEAN :
         Result(status, acknowledged, seen)
  BY DEF LegacySend
<1>2. PICK status \in Statuses, acknowledged \in BOOLEAN, seen \in BOOLEAN :
         Result(status, acknowledged, seen)
  <2> HIDE DEF Result, Statuses
  <2> QED  BY <1>1
<1>3. version = 1 /\ UNCHANGED <<version, modes, evaluations>>
  BY DEF LegacySend
<1>4. rows \in Seq(OutboxRow) /\ latch \in [Condition -> Latches]
  BY DEF MigrationTypeOK
<1>5. /\ DOMAIN rows' = DOMAIN rows
      /\ \A j \in DOMAIN rows : j # i => rows'[j] = rows[j]
      /\ rows'[i] = [rows[i] EXCEPT !.status = status, !.acknowledged = acknowledged]
  BY <1>2, <1>4
<1>6. rows'[i] \in OutboxRow
  <2>1. rows[i] \in OutboxRow
    BY <1>4
  <2> HIDE DEF Orders
  <2> QED
    BY <1>5, <2>1 DEF OutboxRow
<1>7. rows' \in Seq(OutboxRow)
  <2>1. Len(rows') = Len(rows) /\ rows' \in [1..Len(rows) -> OutboxRow]
    <3>1. \A j \in 1..Len(rows) : rows'[j] \in OutboxRow
      BY <1>4, <1>5, <1>6
    <3> QED
      BY <1>2, <1>4, <3>1
  <2> QED
    BY <1>4, <2>1
<1>8. \A j \in DOMAIN rows : /\ rows'[j].run = rows[j].run /\ rows'[j].kind = rows[j].kind
                             /\ rows'[j].members = rows[j].members
                             /\ rows'[j].order = rows[j].order
  <2>1. rows[i] \in OutboxRow
    BY <1>4
  <2>2. /\ rows'[i].run = rows[i].run /\ rows'[i].kind = rows[i].kind
        /\ rows'[i].members = rows[i].members /\ rows'[i].order = rows[i].order
    <3> HIDE DEF Orders
    <3> QED  BY <1>5, <2>1 DEF OutboxRow
  <2> QED
    BY <1>5, <2>2
<1>9. latch' \in [Condition -> Latches]
      /\ \A c \in Condition : /\ latch'[c].transition = latch[c].transition
                              /\ latch'[c].firing = latch[c].firing
  <2>1. \A c \in Condition : /\ latch'[c] \in Latches
                             /\ latch'[c].transition = latch[c].transition
                             /\ latch'[c].firing = latch[c].firing
    BY <1>2, <1>4 DEF Latches, Delivery
  <2> QED
    BY <1>2, <2>1
<1>10. Seen \subseteq Condition \X Nat \X Kinds
  <2>1. rows[i].run \in Nat /\ rows[i].kind \in Kinds /\ rows[i].members \subseteq Condition
    BY <1>4, RowFields
  <2> QED
    BY <2>1 DEF Displayed
<1>11. MigrationTypeOK'
  BY <1>2, <1>3, <1>7, <1>9, <1>10 DEF MigrationTypeOK
<1>12. LegacyRunsAreStored'
  BY <1>3, <1>5, <1>8, <1>9 DEF LegacyRunsAreStored
<1>13. MessagesFollowTransitions'
  <2>1. \A j \in DOMAIN rows : rows[j].members \subseteq Condition
    BY <1>4, RowFields
  <2> QED
    BY <1>5, <1>8, <1>9, <2>1 DEF MessagesFollowTransitions
<1>14. AcknowledgedWasShown'
  <2> SUFFICES ASSUME NEW j \in DOMAIN rows, rows'[j].acknowledged,
                      NEW c \in Displayed(rows[j].members, rows[j].order)
               PROVE  <<c, rows[j].run, rows[j].kind>> \in shown'
    BY <1>5, <1>8 DEF AcknowledgedWasShown, Displayed, Upto, Length, Characters, Line
  <2>1. shown \subseteq shown' /\ (seen => Seen \subseteq shown')
    BY <1>2
  <2>2. CASE j = i
    <3>1. acknowledged
      <4>1. rows[i] \in OutboxRow
        BY <1>4
      <4> HIDE DEF Orders
      <4> QED  BY <1>5, <2>2, <4>1 DEF OutboxRow
    <3>2. seen
      BY <1>2, <3>1
    <3> QED
      BY <2>1, <2>2, <3>2
  <2>3. CASE j # i
    <3>1. rows[j].acknowledged
      BY <1>5, <2>3
    <3>2. <<c, rows[j].run, rows[j].kind>> \in shown
      BY <3>1 DEF AcknowledgedWasShown
    <3> QED
      BY <2>1, <3>2
  <2> QED
    BY <2>2, <2>3
<1>15. (LegacyClaimsAreTrue /\ LegacyIsSettled)'
  BY <1>3 DEF LegacyClaimsAreTrue, LegacyIsSettled
<1> QED
  BY <1>11, <1>12, <1>13, <1>14, <1>15

-----------------------------------------------------------------------------
(* Migration: the upgrade.                                                 *)

(* What the upgrade accepts as confirmed was acknowledged, was not cut, and  *)
(* is therefore known to every line.                                       *)
LEMMA ConfirmedWasShown ==
    ASSUME MigrationInv, NEW i \in DOMAIN rows, rows[i].status = "delivered",
           ~Unconfirmed(rows[i]), NEW c \in rows[i].members
    PROVE  <<c, rows[i].run, rows[i].kind>> \in shown
<1>1. Visible(rows[i]) /\ rows[i].acknowledged
  BY DEF Unconfirmed
<1>2. rows[i].members \in SUBSET Condition
  BY RowFields DEF MigrationInv, MigrationTypeOK
<1>3. rows[i].members # {} /\ Fits(Text(rows[i].members, Rank))
  BY <1>1 DEF Visible, Expected
<1>4. Displayed(rows[i].members, rows[i].order) = rows[i].members
  BY <1>2, <1>3, FittingIsDisplayed
<1> QED
  BY <1>1, <1>4 DEF MigrationInv, AcknowledgedWasShown

(* Which row, latch and evaluation becomes what.                           *)
LEMMA MigrateShape ==
    ASSUME MigrationTypeOK, Migrate
    PROVE  /\ DOMAIN rows = 1..Len(rows) /\ DOMAIN rows' = DOMAIN rows
           /\ rows' = [i \in 1..Len(rows) |->
                IF Unconfirmed(rows[i]) THEN [rows[i] EXCEPT !.status = "unknown"] ELSE rows[i]]
           /\ \A i \in DOMAIN rows : rows'[i] =
                IF Unconfirmed(rows[i]) THEN [rows[i] EXCEPT !.status = "unknown"] ELSE rows[i]
           /\ DOMAIN evaluations = 1..Len(evaluations) /\ DOMAIN evaluations' = DOMAIN evaluations
           /\ evaluations' = [run \in 1..Len(evaluations) |->
                [c \in DOMAIN evaluations[run] |-> EvaluationAfter(run, c)]]
           /\ \A run \in DOMAIN evaluations :
                evaluations'[run] = [c \in DOMAIN evaluations[run] |-> EvaluationAfter(run, c)]
<1>1. DOMAIN rows = 1..Len(rows) /\ DOMAIN evaluations = 1..Len(evaluations)
  BY DEF MigrationTypeOK
<1>2. /\ rows' = [i \in DOMAIN rows |->
            IF Unconfirmed(rows[i]) THEN [rows[i] EXCEPT !.status = "unknown"] ELSE rows[i]]
      /\ evaluations' = [run \in DOMAIN evaluations |->
            [c \in DOMAIN evaluations[run] |-> EvaluationAfter(run, c)]]
  BY Zenon DEF Migrate
<1>3. DOMAIN rows' = DOMAIN rows /\ DOMAIN evaluations' = DOMAIN evaluations
  BY <1>2, Zenon
<1>4. /\ \A i \in DOMAIN rows : rows'[i] =
            IF Unconfirmed(rows[i]) THEN [rows[i] EXCEPT !.status = "unknown"] ELSE rows[i]
      /\ \A run \in DOMAIN evaluations :
            evaluations'[run] = [c \in DOMAIN evaluations[run] |-> EvaluationAfter(run, c)]
  BY <1>2, Zenon
<1> QED
  BY <1>1, <1>2, <1>3, <1>4, Zenon

LEMMA MigrateType ==
    ASSUME MigrationTypeOK, Migrate
    PROVE  MigrationTypeOK'
<1> USE DEF MigrationTypeOK
<1>1. rows' \in Seq(OutboxRow)
  <2>1. ASSUME NEW i \in DOMAIN rows
        PROVE  rows'[i] \in OutboxRow
    <3>1. rows[i] \in OutboxRow
      OBVIOUS
    <3>2. rows'[i] = IF Unconfirmed(rows[i]) THEN [rows[i] EXCEPT !.status = "unknown"] ELSE rows[i]
      BY MigrateShape
    <3>3. [rows[i] EXCEPT !.status = "unknown"] \in OutboxRow
      <4> HIDE DEF Orders
      <4> QED  BY <3>1 DEF OutboxRow
    <3> QED
      BY <3>1, <3>2, <3>3, Zenon
  <2> DEFINE row(i) == IF Unconfirmed(rows[i]) THEN [rows[i] EXCEPT !.status = "unknown"] ELSE rows[i]
  <2>2. rows' = [i \in 1..Len(rows) |-> row(i)]
    BY MigrateShape, Zenon
  <2>3. \A i \in DOMAIN rows : row(i) = rows'[i]
    BY MigrateShape, Zenon
  <2> HIDE DEF row
  <2>4. \A i \in 1..Len(rows) : row(i) \in OutboxRow
    BY <2>1, <2>3
  <2> QED
    BY <2>2, <2>4
<1>2. \A c \in Condition : DeliveryAfter(c) \in Delivery
  BY DEF DeliveryAfter, Latches, Delivery
<1>3. latch' \in [Condition -> Latches]
  <2>1. \A c \in Condition :
           [latch[c] EXCEPT !.episode = latch[c].transition, !.delivery = DeliveryAfter(c)] \in Latches
    BY <1>2 DEF Latches
  <2> QED
    BY <2>1 DEF Migrate
<1>4. evaluations' \in Seq(Evaluations)
  <2>1. ASSUME NEW run \in DOMAIN evaluations
        PROVE  [c \in DOMAIN evaluations[run] |-> EvaluationAfter(run, c)] \in Evaluations
    <3>1. evaluations[run] \in Evaluations /\ run \in Nat
      OBVIOUS
    <3>2. PICK D \in SUBSET Condition : evaluations[run] \in [D -> [delivery : Delivery, episode : Nat]]
      BY <3>1 DEF Evaluations
    <3>3. ASSUME NEW c \in D
          PROVE  EvaluationAfter(run, c) \in [delivery : Delivery, episode : Nat]
      <4>1. /\ DeliveryAfter(c) \in Delivery /\ latch[c].transition \in Nat
            /\ evaluations[run][c].delivery \in Delivery /\ "unknown" \in Delivery
        BY <1>2, <3>2 DEF Latches, Delivery
      <4> QED
        BY <3>1, <4>1 DEF EvaluationAfter
    <3>4. [c \in D |-> EvaluationAfter(run, c)] \in [D -> [delivery : Delivery, episode : Nat]]
      BY <3>3
    <3> QED
      BY <3>2, <3>4, Zenon DEF Evaluations
  <2> DEFINE reports(run) == [c \in DOMAIN evaluations[run] |-> EvaluationAfter(run, c)]
  <2>2. /\ evaluations' = [run \in 1..Len(evaluations) |-> reports(run)]
        /\ \A run \in 1..Len(evaluations) : reports(run) \in Evaluations
    BY <2>1, MigrateShape, Zenon
  <2> HIDE DEF Evaluations, reports
  <2> QED
    BY <2>2
<1> QED
  BY <1>1, <1>3, <1>4 DEF Migrate

(* The upgrade leaves a claim only where it is confirmed.                  *)
LEMMA MigrateClaims ==
    ASSUME MigrationInv, Migrate
    PROVE  LegacyClaimsAreTrue'
<1> USE DEF MigrationInv
<1>1. shown' = shown /\ rows \in Seq(OutboxRow) /\ latch \in [Condition -> Latches]
  BY DEF Migrate, MigrationTypeOK
<1>2. ASSUME NEW i \in DOMAIN rows', rows'[i].status = "delivered", NEW c \in rows'[i].members
      PROVE  <<c, rows'[i].run, rows'[i].kind>> \in shown'
  <2>1. i \in DOMAIN rows /\ rows[i] \in OutboxRow
    BY <1>1, <1>2, MigrateShape, RowFields
  <2>2. rows'[i] = IF Unconfirmed(rows[i]) THEN [rows[i] EXCEPT !.status = "unknown"] ELSE rows[i]
    BY <2>1, MigrateShape
  <2>3. ~Unconfirmed(rows[i])
    <3>1. [rows[i] EXCEPT !.status = "unknown"].status = "unknown"
      BY <2>1 DEF OutboxRow
    <3> QED
      BY <1>2, <2>2, <3>1
  <2>4. rows'[i] = rows[i]
    BY <2>2, <2>3
  <2> QED
    BY <1>1, <1>2, <2>1, <2>3, <2>4, ConfirmedWasShown
<1>3. ASSUME NEW c \in Condition, latch'[c].delivery = "delivered"
      PROVE  latch'[c].firing /\ <<c, latch'[c].episode, "alert">> \in shown'
  <2>1. /\ latch'[c].delivery = DeliveryAfter(c)
        /\ latch'[c].episode = latch[c].transition
        /\ latch'[c].firing = latch[c].firing
    BY <1>1 DEF Migrate, Latches
  <2>2. latch[c].transition \in Confirmed(c)
    BY <1>3, <2>1 DEF DeliveryAfter
  <2>3. PICK i \in DOMAIN rows :
           /\ latch[c].transition = rows[i].run
           /\ rows[i].kind = "alert" /\ rows[i].status = "delivered"
           /\ ~Unconfirmed(rows[i]) /\ c \in rows[i].members
    BY <2>2 DEF Confirmed
  <2>4. latch[c].firing
    BY <2>3 DEF MessagesFollowTransitions
  <2>5. <<c, rows[i].run, rows[i].kind>> \in shown
    BY <2>3, ConfirmedWasShown
  <2> QED
    BY <1>1, <2>1, <2>3, <2>4, <2>5
<1> QED
  BY <1>2, <1>3 DEF LegacyClaimsAreTrue

(* The upgrade settles every row and latch, and the newest evaluations too. *)
LEMMA MigrateSettles ==
    ASSUME MigrationTypeOK, Migrate
    PROVE  LegacyIsSettled'
<1> USE DEF MigrationTypeOK
<1>1. ASSUME NEW i \in DOMAIN rows'
      PROVE  rows'[i].status \notin {"pending", "retryable"}
  <2>1. i \in DOMAIN rows /\ rows[i] \in OutboxRow
    BY <1>1, MigrateShape, RowFields
  <2>2. rows'[i] = IF Unconfirmed(rows[i]) THEN [rows[i] EXCEPT !.status = "unknown"] ELSE rows[i]
    BY <2>1, MigrateShape
  <2>3. [rows[i] EXCEPT !.status = "unknown"].status = "unknown"
    BY <2>1 DEF OutboxRow
  <2> QED
    BY <2>2, <2>3 DEF Unconfirmed
<1>2. ASSUME NEW c \in Condition
      PROVE  /\ latch'[c].delivery # "pending"
             /\ \A run \in Latest(c)' : evaluations'[run][c] =
                   [episode |-> latch'[c].episode, delivery |-> latch'[c].delivery]
  <2>1. /\ latch'[c].delivery = DeliveryAfter(c)
        /\ latch'[c].episode = latch[c].transition
    BY DEF Migrate, Latches
  <2>2. DeliveryAfter(c) # "pending"
    BY DEF DeliveryAfter
  <2>3. /\ DOMAIN evaluations' = DOMAIN evaluations
        /\ \A run \in DOMAIN evaluations :
             evaluations'[run] = [d \in DOMAIN evaluations[run] |-> EvaluationAfter(run, d)]
    BY MigrateShape
  <2>4. \A run \in DOMAIN evaluations : DOMAIN evaluations'[run] = DOMAIN evaluations[run]
    BY <2>3
  <2>5. Latest(c)' = Latest(c)
    BY <2>3, <2>4 DEF Latest
  <2>6. ASSUME NEW run \in Latest(c)
        PROVE  evaluations'[run][c] = EvaluationAfter(run, c)
    BY <2>3, <2>6 DEF Latest
  <2>7. \A run \in Latest(c) : EvaluationAfter(run, c) =
           [episode |-> latch[c].transition, delivery |-> DeliveryAfter(c)]
    BY DEF EvaluationAfter
  <2> QED
    BY <2>1, <2>2, <2>5, <2>6, <2>7
<1> QED
  BY <1>1, <1>2 DEF LegacyIsSettled

LEMMA MigrateInv ==
    ASSUME MigrationInv, Migrate
    PROVE  MigrationInv'
<1> USE DEF MigrationInv
<1>1. rows \in Seq(OutboxRow) /\ evaluations \in Seq(Evaluations) /\ latch \in [Condition -> Latches]
  BY DEF MigrationTypeOK
<1>2. /\ DOMAIN rows' = DOMAIN rows /\ Len(evaluations') = Len(evaluations) /\ shown' = shown
      /\ \A c \in Condition : /\ latch'[c].transition = latch[c].transition
                              /\ latch'[c].firing = latch[c].firing
  <2>1. DOMAIN rows' = DOMAIN rows
    BY MigrateShape
  <2>2. Len(evaluations') = Len(evaluations)
    <3>1. evaluations' \in Seq(Evaluations) /\ DOMAIN evaluations' = DOMAIN evaluations
      BY MigrateShape, MigrateType DEF MigrationTypeOK
    <3> QED
      BY <1>1, <3>1
  <2>3. shown' = shown
    BY DEF Migrate
  <2>4. \A c \in Condition : /\ latch'[c].transition = latch[c].transition
                             /\ latch'[c].firing = latch[c].firing
    BY <1>1 DEF Migrate, Latches
  <2> QED
    BY <2>1, <2>2, <2>3, <2>4
<1>3. \A i \in DOMAIN rows :
         /\ rows'[i].run = rows[i].run /\ rows'[i].kind = rows[i].kind
         /\ rows'[i].members = rows[i].members /\ rows'[i].order = rows[i].order
         /\ rows'[i].acknowledged = rows[i].acknowledged
  <2> SUFFICES ASSUME NEW i \in DOMAIN rows
               PROVE  /\ rows'[i].run = rows[i].run /\ rows'[i].kind = rows[i].kind
                      /\ rows'[i].members = rows[i].members /\ rows'[i].order = rows[i].order
                      /\ rows'[i].acknowledged = rows[i].acknowledged
    OBVIOUS
  <2>1. rows[i] \in OutboxRow
    BY <1>1
  <2>2. rows'[i] = IF Unconfirmed(rows[i]) THEN [rows[i] EXCEPT !.status = "unknown"] ELSE rows[i]
    BY MigrateShape
  <2>3. rows'[i] \in {rows[i], [rows[i] EXCEPT !.status = "unknown"]}
    BY <2>2
  <2> HIDE DEF Orders
  <2> QED
    BY <2>1, <2>3 DEF OutboxRow
<1>4. LegacyRunsAreStored'
  BY <1>2, <1>3 DEF LegacyRunsAreStored
<1>5. MessagesFollowTransitions'
  <2>1. \A i \in DOMAIN rows : rows[i].members \subseteq Condition
    BY <1>1, RowFields
  <2> QED
    BY <1>2, <1>3, <2>1 DEF MessagesFollowTransitions
<1>6. AcknowledgedWasShown'
  BY <1>2, <1>3 DEF AcknowledgedWasShown, Displayed, Upto, Length, Characters, Line
<1> QED
  BY <1>4, <1>5, <1>6, MigrateType, MigrateClaims, MigrateSettles

(* The steps of the upgrade's specification.                               *)
LEMMA MigrationStepInv == MigrationInv /\ [MigrationNext]_migrationVars => MigrationInv'
<1> SUFFICES ASSUME MigrationInv, [MigrationNext]_migrationVars
             PROVE  MigrationInv'
  OBVIOUS
<1>1. CASE LegacyRun
  BY <1>1, LegacyRunInv
<1>2. ASSUME NEW i \in DOMAIN rows, LegacySend(i)
      PROVE  MigrationInv'
  BY <1>2, LegacySendInv
<1>3. CASE Migrate
  BY <1>3, MigrateInv
<1>4. CASE UNCHANGED migrationVars
  <2>1. MigrationTypeOK' /\ LegacyParts'
    BY <1>4 DEF migrationVars, MigrationInv, MigrationTypeOK, LegacyParts, LegacyRunsAreStored,
         MessagesFollowTransitions, AcknowledgedWasShown, Displayed, Upto, Length, Characters, Line
  <2>2. LegacyClaimsAreTrue' /\ LegacyIsSettled'
    BY <1>4 DEF migrationVars, MigrationInv, LegacyClaimsAreTrue, LegacyIsSettled, Latest
  <2> QED
    BY <2>1, <2>2 DEF MigrationInv, LegacyParts
<1> QED
  BY <1>1, <1>2, <1>3, <1>4 DEF MigrationNext

(* The inductive invariant of the upgrade, for any conditions with any       *)
(* summaries, and whatever version 1 sent, lost, cut or wrote down wrongly. *)
THEOREM MigrationInvariant == MigrationSpec => []MigrationInv
BY MigrationInitInv, MigrationStepInv, PTL DEF MigrationSpec

(* What migrate_notification_history leaves as delivered had been shown to   *)
(* the operator, every line of it.                                         *)
THEOREM LegacyClaimsHold == MigrationSpec => []LegacyClaimsAreTrue
<1>1. MigrationInv => LegacyClaimsAreTrue
  BY DEF MigrationInv
<1> QED
  BY <1>1, MigrationInvariant, PTL

(* After the upgrade nothing waits for a result of version 1 or is sent     *)
(* again, and the newest report of each condition agrees with its latch.   *)
THEOREM LegacyHistoryIsSettled == MigrationSpec => []LegacyIsSettled
<1>1. MigrationInv => LegacyIsSettled
  BY DEF MigrationInv
<1> QED
  BY <1>1, MigrationInvariant, PTL

=============================================================================
