----------------------------- MODULE Ownership ------------------------------
(***************************************************************************)
(* Several processes open one state database: live and dry-run checks and   *)
(* migrations, at any time, with clocks that jump either way.  The module   *)
(* models what opening, binding to a run mode, upgrading and committing     *)
(* check, in which order and under which lock; Delivery, which models one   *)
(* check at a time over numbered runs, rests on what is shown here.         *)
(*                                                                         *)
(* The lock is the flock on the canonical sidecar file: it is released when *)
(* its process ends, however it ends.  A database is abstracted to its      *)
(* schema version, its bound mode and the rows of runs; a report is read    *)
(* under one SQLite snapshot without the lock and changes nothing.  The     *)
(* number of a row is its place in the order of rowids, which inserts       *)
(* continue and the rebuilding of a table keeps.                            *)
(***************************************************************************)
EXTENDS Naturals

CONSTANTS
    Process,    \* processes
    NoProcess,
    Found,      \* the databases the first process can find
    Retention,  \* the retentions that configurations ask for
    MaxTime,    \* bound on what a clock shows
    MaxRuns     \* bound on the numbers of runs

RunMode == {"live", "dry_run"}

Command == RunMode \cup {"migrate"}

Time == 0..MaxTime

RunRow == [mode : RunMode, started : Time, completed : Time]

Row == 1..MaxRuns

\* `stray` says that there are latches or cooldowns; it matters to schema 1,
\* whose mode only the rows of runs can tell.
Database ==
    [version : 0..3, identity : RunMode \cup {"none"},
     runs : UNION {[S -> RunRow] : S \in SUBSET Row}, stray : BOOLEAN]

ASSUME NoProcessAssumption == NoProcess \notin Process

\* What the program leaves: an empty file has nothing in it, schema 1 has no
\* table for the mode, and the later ones hold runs of their mode only.
ASSUME FoundAssumption ==
    /\ Found \subseteq Database
    /\ \A f \in Found :
         /\ f.version = 0 => DOMAIN f.runs = {}
         /\ f.version \in {0, 1} => f.identity = "none"
         /\ f.version \in {2, 3} =>
              \A i \in DOMAIN f.runs : f.runs[i].mode = f.identity

ASSUME BoundsAssumption == MaxTime \in Nat /\ MaxRuns \in Nat

ASSUME RetentionAssumption == Retention \subseteq Nat

VARIABLES
    db,         \* the database file
    backups,    \* the contents of the backups that were validated
    lock,       \* the process that holds the ownership lock
    proc,       \* the memory of each process
    legacy      \* history: the database as the first process found it

vars == <<db, backups, lock, proc, legacy>>

Idle == [pc |-> "idle", command |-> "live", started |-> 0, completed |-> 0, own |-> 0]

-----------------------------------------------------------------------------
Init ==
    /\ db \in Found
    /\ backups = {}
    /\ lock = NoProcess
    /\ proc = [p \in Process |-> Idle]
    /\ legacy = db

At(p, pc) == proc[p].pc = pc

\* check reads the clock before it opens the store.
Begin(p) ==
    /\ At(p, "idle")
    /\ \E command \in Command, now \in Time :
         proc' = [proc EXCEPT ![p] = [Idle EXCEPT !.pc = "opening",
                                                  !.command = command, !.started = now]]
    /\ UNCHANGED <<db, backups, lock, legacy>>

\* Mutant: the lock is advisory and nobody asks.
SharedLock == TRUE

Free == lock = NoProcess

\* acquire_ownership; when the lock is taken the process ends (End).
Acquire(p) ==
    /\ At(p, "opening")
    /\ Free
    /\ lock' = p
    /\ proc' = [proc EXCEPT ![p].pc = "owner"]
    /\ UNCHANGED <<db, backups, legacy>>

\* open_owned, by version.  An absent or empty database is initialised ...
Initialize(p) ==
    /\ At(p, "owner")
    /\ db.version = 0
    /\ db' = [db EXCEPT !.version = 3]
    /\ proc' = [proc EXCEPT ![p].pc = "open"]
    /\ UNCHANGED <<backups, lock, legacy>>

\* ... a current one is used as it is ...
OpenCurrent(p) ==
    /\ At(p, "owner")
    /\ db.version = 3
    /\ proc' = [proc EXCEPT ![p].pc = "open"]
    /\ UNCHANGED <<db, backups, lock, legacy>>

\* Mutant: the upgrade does not wait for its backup.
UpgradesAtOnce(p) ==
    /\ At(p, "owner")
    /\ proc' = [proc EXCEPT ![p].pc = "upgrading"]
    /\ UNCHANGED <<db, backups, lock, legacy>>

\* ... and an older one is backed up, by migrate-state only.  A process killed
\* while it writes the file leaves one that was never validated.
BackUp(p) ==
    /\ At(p, "owner")
    /\ db.version \in {1, 2}
    /\ proc[p].command = "migrate"
    /\ backups' = backups \cup {db}
    /\ proc' = [proc EXCEPT ![p].pc = "upgrading"]
    /\ UNCHANGED <<db, lock, legacy>>

Modes == {db.runs[i].mode : i \in DOMAIN db.runs}

\* Mutant: the first mode of the history is taken for all of it.
FirstModeWins == TRUE

\* Schema 1 does not store the mode: its history must tell it.
ModeIsKnown ==
    db.version = 1 =>
        /\ \A m, n \in Modes : m = n
        /\ Modes = {} => ~db.stray

\* One transaction brings the schema to version 3.
Upgrade(p) ==
    /\ At(p, "upgrading")
    /\ ModeIsKnown
    /\ db' = [db EXCEPT !.version = 3,
                        !.identity = IF db.version = 1 /\ Modes # {}
                                     THEN CHOOSE m \in Modes : TRUE
                                     ELSE @]
    /\ proc' = [proc EXCEPT ![p].pc = "open"]
    /\ UNCHANGED <<backups, lock, legacy>>

-----------------------------------------------------------------------------
(* A check, once the store is open.                                        *)

\* ensure_run_mode
ModeFits(p) == db.identity \in {"none", proc[p].command}

\* Not before the newest completed run.
NotBeforeLatest(p) == \A i \in DOMAIN db.runs : db.runs[i].completed <= proc[p].started

\* check_with_sink, before it observes anything.
StartObserving(p) ==
    /\ At(p, "open")
    /\ proc[p].command \in RunMode
    /\ ModeFits(p)
    /\ NotBeforeLatest(p)
    /\ proc' = [proc EXCEPT ![p].pc = "observing"]
    /\ UNCHANGED <<db, backups, lock, legacy>>

\* Mutant: a clock that went back during the observation is not noticed.
AnyTime(p, now) == TRUE

NotBeforeStart(p, now) == now >= proc[p].started

\* The run is complete; commit_run's checks come before its transaction begins.
Complete(p) ==
    /\ At(p, "observing")
    /\ \E now \in Time :
         /\ NotBeforeStart(p, now)
         /\ NotBeforeLatest(p)
         /\ ModeFits(p)
         /\ proc' = [proc EXCEPT ![p].pc = "committing", ![p].completed = now]
    /\ UNCHANGED <<db, backups, lock, legacy>>

\* The number of the next run: one more than the greatest.
NextRow(n) ==
    /\ DOMAIN db.runs \subseteq 1..(n - 1)
    /\ n > 1 => n - 1 \in DOMAIN db.runs

\* The runs that are older than the retention when a run completes.
Expired(completed, retention) ==
    {i \in DOMAIN db.runs : db.runs[i].completed + retention < completed}

\* The transaction: the state is bound to its first run's mode, and prune_runs
\* deletes expired runs.  Those that hold a precision barrier or an undecided or
\* failed message are spared; which these are is free here.
CommitRun(p) ==
    /\ At(p, "committing")
    /\ \E n \in Row, retention \in Retention :
         /\ NextRow(n)
         /\ \E pruned \in SUBSET Expired(proc[p].completed, retention) :
              db' = [db EXCEPT
                !.identity = IF @ = "none" THEN proc[p].command ELSE @,
                !.runs = [i \in (DOMAIN @ \cup {n}) \ pruned |->
                            IF i = n THEN [mode      |-> proc[p].command,
                                           started   |-> proc[p].started,
                                           completed |-> proc[p].completed]
                            ELSE @[i]]]
         /\ proc' = [proc EXCEPT ![p].pc = "delivering", ![p].own = n]
    /\ UNCHANGED <<backups, lock, legacy>>

\* The process ends: it is done, one of the conditions above is not met and it
\* returns an error, or it is killed.  The lock goes with it.
End(p) ==
    /\ ~At(p, "idle")
    /\ proc' = [proc EXCEPT ![p] = Idle]
    /\ lock' = IF lock = p THEN NoProcess ELSE lock
    /\ UNCHANGED <<db, backups, legacy>>

Next ==
    \E p \in Process :
        \/ Begin(p)
        \/ Acquire(p)
        \/ Initialize(p)
        \/ OpenCurrent(p)
        \/ BackUp(p)
        \/ Upgrade(p)
        \/ StartObserving(p)
        \/ Complete(p)
        \/ CommitRun(p)
        \/ End(p)

Spec == Init /\ [][Next]_vars

-----------------------------------------------------------------------------
(* Properties.                                                             *)

ProcessState ==
    [pc : {"idle", "opening", "owner", "upgrading", "open", "observing", "committing", "delivering"},
     command : Command, started : Time, completed : Time, own : {0} \cup Row]

\* Every variable has its type.
TypeOK ==
    /\ db \in Database
    /\ backups \subseteq Database
    /\ lock \in Process \cup {NoProcess}
    /\ proc \in [Process -> ProcessState]
    /\ legacy \in Database

\* From the moment a process owns the state until it ends, the database
\* changes only by that process's own steps: what it read stays true.
OnlyTheOwnerWrites ==
    [][\A p \in Process :
         ~At(p, "idle") /\ ~At(p, "opening") /\ proc'[p] = proc[p] => db' = db]_vars

\* The state never mixes live and dry-run history, whoever comes first, and
\* whatever an older schema held.
RunsOfOneMode ==
    db.version = 3 => \A i \in DOMAIN db.runs : db.runs[i].mode = db.identity

\* However clocks jump, a new run does not overlap an earlier one, and runs are
\* committed in the order of their times, which the ordering of messages and
\* reports relies on.
RunsInOrder ==
    \A i, j \in DOMAIN db.runs :
        i <= j /\ j \notin DOMAIN legacy.runs =>
            /\ db.runs[j].started <= db.runs[j].completed
            /\ i < j => db.runs[i].completed <= db.runs[j].started

\* load_reports(1, None): the newest by completion, then by insertion.
Newest(i) ==
    \A j \in DOMAIN db.runs :
        \/ db.runs[j].completed < db.runs[i].completed
        \/ db.runs[j].completed = db.runs[i].completed /\ j <= i

\* A check prints the newest stored run as its own result: it is its own.
PrintsItsOwnRun ==
    \A p \in Process : At(p, "delivering") => proc[p].own \in DOMAIN db.runs /\ Newest(proc[p].own)

\* The found run i is still there as it was found, or a later run completed
\* after some retention had passed.
KeptUntilExpired(i) ==
    IF i \in DOMAIN db.runs
    THEN db.runs[i] = legacy.runs[i]
    ELSE \E j \in DOMAIN db.runs \ DOMAIN legacy.runs, retention \in Retention :
            legacy.runs[i].completed + retention < db.runs[j].completed

\* An older state is left untouched until it is upgraded, and once it has been,
\* a validated backup of exactly what was found exists, and no found run is lost
\* or changed but by the retention of a later run, wherever the migration was
\* interrupted and repeated.
UpgradeHasBackup ==
    legacy.version \in {1, 2} =>
        IF db.version = legacy.version
        THEN db = legacy
        ELSE legacy \in backups /\ \A i \in DOMAIN legacy.runs : KeptUntilExpired(i)

-----------------------------------------------------------------------------
(* The inductive invariant.                                                *)

\* A process that is past acquire_ownership holds the lock.
OwnersHoldTheLock ==
    \A p \in Process : ~At(p, "idle") /\ ~At(p, "opening") => lock = p

\* What a process has checked still holds where it relies on it.
ChecksStillHold ==
    \A p \in Process :
        /\ At(p, "upgrading") => db.version \in {1, 2} /\ db = legacy /\ legacy \in backups
        /\ proc[p].pc \in {"open", "observing", "committing", "delivering"} => db.version = 3
        /\ proc[p].pc \in {"observing", "committing"} =>
              proc[p].command \in RunMode /\ ModeFits(p) /\ NotBeforeLatest(p)
        /\ At(p, "committing") => proc[p].started <= proc[p].completed
        /\ At(p, "delivering") =>
              /\ proc[p].own \in DOMAIN db.runs \ DOMAIN legacy.runs
              /\ \A i \in DOMAIN db.runs : i <= proc[p].own

\* Where the database and its mode come from.
Provenance ==
    /\ legacy \in Found
    /\ db.version # 3 => db = legacy
    /\ \A i \in DOMAIN legacy.runs : KeptUntilExpired(i)
    /\ \A i \in DOMAIN legacy.runs, j \in DOMAIN db.runs \ DOMAIN legacy.runs : i < j
    /\ db.version = 3 /\ legacy.version \in {1, 2} => legacy \in backups

IInv ==
    /\ TypeOK
    /\ OwnersHoldTheLock
    /\ ChecksStillHold
    /\ Provenance
    /\ RunsOfOneMode
    /\ RunsInOrder

=============================================================================
