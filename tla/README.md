# A TLA+ model of adguard-sentinel

adguard-sentinel is a monitor that runs as a series of short `check` processes
over one SQLite state file. Each check reads a fixed set of facts from several
AdGuard Home resolvers, evaluates conditions, advances a durable latch per
condition, and delivers the resulting alerts and resolutions through Pushover.
Its hard part is not one computation. It is what happens *between* processes:
a check can be killed in any step, a message may or may not have been displayed,
an episode may be over when its message is finally answered, the clock may jump,
and two processes may open the same file. This directory models that, checks it
with TLC and proves the central facts with TLAPS. It also models what a check
concludes from what it read: policies, upstream latency and the behavioural
baseline, each compared with what the resolvers really did.

Abbreviations below: `store.rs` is `crates/sentinel-store/src/store.rs`,
`schema.rs` its neighbour, `analysis.rs` and `model.rs` are in
`crates/sentinel-core/src`, `main.rs` and `notify.rs` in `apps/sentinel-cli/src`,
`config.rs` is there too, and `lib.rs` in `crates/sentinel-adguard/src`.

## 1. Inventory

| Component | State it keeps | Operations | Hard behaviour | What makes it correct |
| --- | --- | --- | --- | --- |
| Condition latch (`analysis.rs` 1291-1382, the loop of `commit_run`, `store.rs` 405-436) | per condition: lifecycle, two saturating run counters, delivery state, episode | `advance_condition`, the withdrawals around it | thresholds that change between runs; recovery with the alert still queued; notifications switched on and off | counters and lifecycle are what the history says; an episode is announced at most once, and resolved only if its alert was confirmed |
| State store (`store.rs`) | latches, outbox rows, membership, attempts, runs with their reports, samples, cooldowns, bound run mode | `commit_run`, `pending_outbox`, `begin_notification_attempt`, `record_notification_attempt`, `recover_interrupted_attempts`, `refresh_run_delivery`, `prune_runs`, `load_reports`, `load_*_samples` | a crash between any two transactions; batches that lose members; late results; retention of evidence | latches and outbox agree; nothing possibly shown is queued again; reports claim only what was recorded |
| Opening and ownership (`store.rs` 99-205, 1931-1961) | lock file, schema version, `state_identity` | `open`, `open_existing`, `migrate`, `ensure_run_mode`, `acquire_ownership` | two processes, aliases of the path, live and dry-run on a new file, clocks that regress | one writer from opening to exit; runs of one mode; runs in the order of their times |
| Check orchestration (`main.rs` 216-541) | in memory: recovered attempts, report, `notification_failed` | recover, observe, evaluate, commit, deliver, refresh, print | early returns everywhere; exit code kept in memory and in the database | exit codes agree with the stored activity; the printed report is the check's own |
| Pushover client (`notify.rs`) | none | `send`, `classify_response` | timeouts after a possible transmission | only answers that exclude display are retried |
| AdGuard client (`lib.rs`) | none | `observe`, the normalisers | six requests to a resolver that changes meanwhile; partial answers; truncated lists; an answer later than the check's clock | an incomplete observation is never taken for a complete one; a cooldown is respected |
| Evaluation (`analysis.rs`) | none (reads samples) | `evaluate_*`, `window_between`, `upstream_window`, `combined_readings`, `robust_bounds` | counter resets, gaps, members that are missing, low volume, learning, pruned history | no window holds more than happened; no alarm from data that cannot support one; clear means that the claim was true |
| Migration (`schema.rs`) | schema version, migration rows | `migrate`, `migrate_to_v2`, `migrate_notification_history` | interruption; ambiguous legacy deliveries | all or nothing, with a validated backup; nothing is invented |
| Configuration (`config.rs`) | none | `load`, `validate` | two spellings of one name; limits that meet other limits | whatever is accepted can be looked up and counted; condition identifiers are distinct |
| Rendering (`render.rs`) | none | `write_reports` | - | output only |

Interactions: `check` owns the store for its whole life through the lock; all
calls into the store are synchronous and each mutating one is a single SQLite
transaction; the provider and the resolvers are reached over HTTP, the provider
strictly between `begin_notification_attempt` and `record_notification_attempt`.
Processes communicate only through the database. `report` reads one snapshot,
without the lock. Nothing runs concurrently inside a check except the
observation of the targets, whose results are collected and sorted before use.

## 2. Modules

    Latch               operators: one evaluation of one condition
      LatchHistory      one condition over a history of runs      (MCLatchHistory)
      Delivery          the database and the sequence of checks
        Announcements   what Delivery promises the operator (it implements it)
        Reports         what a stored report says later           (MCDelivery)
    Drain               the queue and its progress                (MCDrain)
    Ownership           several processes, lock, mode, upgrade    (MCOwnership)
    Observation         requests, cooldowns and exit codes        (MCObservation)
    UpstreamLatency     statistics read, stored and pooled        (MCUpstreamLatency)
    Rates               hourly counters, barriers, verdicts       (MCRates)
    Declarations        declared policies
      Configuration     files that validation accepts
        Policy          six answers judged by a loaded file       (MCPolicy)
    Migration           what a version 1 history becomes          (MCMigration)
    HistoryProofs, DeliveryProofs, DrainProofs, ObservationProofs, PolicyProofs,
    RatesProofs, UpstreamLatencyProofs,
    OpeningProofs       Ownership and Migration                   TLAPS

The modules compose by what each lets the next assume. `Ownership` is what
allows `Delivery`, `Observation` and `Rates` to have one check at a time and to
number runs in the order of their times: its `OnlyTheOwnerWrites` and
`RunsInOrder` are exactly these two assumptions. `Observation` says which targets
are complete, which `UpstreamLatency`, `Rates` and `Policy` take up from there.
The outcomes that those three compute are the `Evaluations` that `Delivery` and
`LatchHistory` advance latches by, chosen freely there, so that whatever the
evaluation says is covered. `Configuration` says of an accepted file what the
others assume of their constants (`AcceptedIsUsable`), and `Migration` yields
states in which `Delivery` may begin (nothing pending, nothing to recover).
`Drain` looks at liveness, over checks that never stop, which the bounded runs
of `Delivery` cannot.

**Latch.** `Advance` is `advance_condition` followed by the withdrawal that
`commit_run` adds (`store.rs` 422-431). The decisions are named operators
(`OpensEpisode`, `RaisesAlert`, `Recovers`, `RaisesResolution`, `WithdrawsAlert`)
so that `Delivery` can ask what an evaluation decided. `threshold` is
`sustain_runs` or `recovery_runs` of the evaluation, whichever its outcome is
compared with; it may differ from run to run, as it does when the configuration
is edited.

**LatchHistory** compares the latch with definitions over the complete
list of evaluations (`Streak`, `Reaches`, `LifecycleOfHistory`), which do not
mention counters, and logs every transition.

**Delivery.** State and code:

| Variable | Code |
| --- | --- |
| `latch` | rows of `condition_state` |
| `outbox` | rows of `notification_outbox` with their members; `executor` is the executing run of the row's `attempt_id` |
| `runs` | rows of `runs`: exit code, `delivery_activity_json`, and the episode and delivery state of each row of `condition_evaluations` |
| `last` | the newest committed run |
| `pc`, `recovered`, `failed`, `queue`, `sending`, `answer` | the local variables of `check_with_sink` |
| `shown`, `confirmed` | history: what the provider displayed or may have, and what a committed result says was delivered |

| Action | Code |
| --- | --- |
| `StartCheck` | `StateStore::open`, `ensure_run_mode`, the clock guard |
| `RecoverAttempt`, `RecoverDone` | `recover_interrupted_attempts`, one transaction per attempt |
| `CommitRun` | `commit_run`: evaluations, latches, withdrawals with replacements, pruning, new outbox rows, the new report |
| `ReadPending` | `pending_outbox` |
| `BeginAttempt` | `begin_notification_attempt` |
| `Send`, `Arrive` | `PushoverClient::send` and `classify_response`, with the provider (external) |
| `RecordAttempt` | `record_notification_attempt` and the decision to go on |
| `Finish` | `refresh_run_delivery` and the end of the check |
| `EndEarly` | killed, or an error returned: allowed in every step |

**Announcements** is the abstract specification: three variables and three
actions (`Open` an episode, `Announce` a notice, `Confirm` one), no checks, no
queue and no crashes. `Delivery` implements it under
`Told == INSTANCE Announcements WITH Episode <- Run, current <- ...` (the
episode numbers of the latches); `KeepsItsPromise` is `Told!Spec`.

**Reports** has no state of its own. `load_reports` reads under one SQLite
snapshot (`store.rs` 848-956), so a report is an operator on one state of
`Delivery`: the stored row of the run, the statuses of its messages
(`Notifications`) and the transitions that its messages tell, cancelled ones
included (`Transitions`).

**Drain** keeps of the outbox the order of the undecided messages, which of them
wait for their retry time, and which is in flight. A replacement of a batch keeps
its place (it keeps `created_at` and `next_retry_at`). `Pending` is the query of
`pending_outbox`: the eligible messages, in the order of the line.

**Ownership** has any number of processes, each with a command and a clock that
may show any time at every reading. `Begin` reads the clock before the store is
opened, as `main.rs` does. `Initialize`, `OpenCurrent`, `BackUp` and `Upgrade`
are the arms of `open_owned`; `StartObserving` is `ensure_run_mode` and the guard
against a regressed clock; `Complete` holds the checks that `commit_run` makes
*before* its transaction, `CommitRun` the transaction: the new row, the binding of
the mode, and `prune_runs`. Any subset of the runs that are `Expired` goes, those
that were found before an upgrade included; which of them a precision barrier or
an undecided message spares is the matter of `Rates` and `Delivery`. `End` is any
exit.

**Observation.** `retry` is `target_runtime_state.auth_retry_after`, as the
seconds that remain; `request` and `report` are the futures of
`buffer_unordered` and their results (`main.rs` 257-309). `StartCheck` reads the
clock and the cooldowns once; `StartTarget` takes up a target while fewer than
`target_concurrency` are busy; `Answered` and `Failed` are one request of
`observe` each (`lib.rs` 211-276), with the error classes that a request can end
in; `CommitRun` holds `update_runtime_states` (`store.rs` 1185-1233), in the
transaction of the run, and the exit code (`InitialExit`, `main.rs` 434-479);
`DeliveryFails` is the exit code 4 of a later attempt.

**UpstreamLatency.** The resolver is `log`, every response it ever gave. Its
statistics are computed from it for the current unit of an hour, with the two
limited lists (`Statistics`). `Read` is the request with `normalize_upstreams`,
`CompleteRun` the evaluation of the new reading (`Pooled`, `Verdict`:
`upstream_window` and `evaluate_upstream_latency`) and its storage; `Loaded` is
`load_upstream_samples`. A reading remembers how much of the log it had seen, so
that the properties can count the responses between two readings directly. Sums
are cardinalities: a duration is so many ticks, and the gain of a counter in a
window is the set of its steps. What is chosen of the stored readings (`Stored`,
`Loaded`, `Upto`) is a set of their numbers, which are in the order of their
times.

**Rates.** One step is one committed run and the traffic before it. The resolvers
count since their own last hour (`counter`) and, for comparison only, since ever
(`total`). `Samples`, `Barrier` and `Retained` are `load_target_samples` and the
pruning with precision barriers (`store.rs` 210-262, 1020-1036). A series is a
function of the numbers of its runs, which are in the order of their times and
rowids. `GroupSeries` is
`combined_readings`, `IsWindow` `window_between`, `Bounds` `robust_bounds`, and
`RateVerdict`, `RatioVerdict`, `CollapseVerdict` the three behavioural conditions
(`analysis.rs` 893-1289), with the two populations of windows kept apart. A
median is an order statistic (`KthSmallest`), which is what sorting and indexing
the middle amounts to.

**Declarations, Configuration, Policy.** `Declarations` is the shape of a policy
and what `validate_policies` accepts; `Configuration` the rest of `validate` and
what a check looks up in an accepted file (`PolicyOf`, `BaselineProfile`,
`ConditionIds`). `Policy` loads a file that `Valid` accepts and observes one
target of it: `Answered` reads the next of the six answers from a resolver that
`Reconfigure`, `Refresh` and `Tick` change at any time, and `Evaluate` is
the normalisation of the six answers followed by `evaluate_target`.

**Migration.** `LegacyRun` and `LegacySend` are the version 1 program, which is
not in the repository: what the released schema, the migration and its tests say
of it, chosen freely where they say nothing. `Migrate` is
`migrate_notification_history` (`schema.rs` 364-502) in the transaction of the
upgrade. A message is the set of its characters, each with its position, because
whether it can be believed depends on whether its text is exactly the lines of
its members, in the order in which they are loaded, and short enough to be shown
(`Visible`). Version 1 put the lines in any order; what it showed of a message are
the lines that lie before the limit as a whole (`Displayed`).

### What is abstracted

- A run's number stands for its `completed_at` and for the `created_at` of its
  messages. Equal times are abstracted: the rowid order of batches of one run and
  kind is a free choice in `Delivery`.
- In `Ownership` a row's number stands for its place in the order of rowids, which
  inserts continue and `rebuild_table` keeps; what spares an expired run there is
  a free choice, and backups are compared by the rows they hold in that order.
- The text of messages (but for `Migration`), and therefore how transitions are
  split at 1024 characters: `Batches` allows every partition.
- Whether a retry time has passed: a free choice in `Delivery`, an action with
  fairness in `Drain`.
- Two withdrawals of one batch in the same commit make two replacements in a
  row, of which the first is cancelled at once; the model keeps the last.
- Every run evaluates every condition; one that the configuration does not
  have is the same as `not_evaluated`, which leaves the latch alone.
- `first_observed_at`, `last_transition_run`, summaries, evidence details and the
  HTTP status of attempts.
- Samples, barriers and cooldowns share the transactions of `Delivery` but
  neither read nor write latches or outbox: they have modules of their own.
- Floating point. Averages, rates and ratios are exact fractions, compared by
  multiplication; the constants of `robust_bounds` (1.4826, 4, 6, 0.04) are kept.
  What rounding does at equality is not modelled.
- Texts in answers and files: a DNS name is a spelling with a normal form, a path
  is absolute or not, a URL is the four things that validation asks of it.
- `UpstreamLatency` assumes that the resolver and the checks share a clock and
  that nobody clears the statistics by hand within a unit; ADR 0013 assumes the
  same.
- Secret files are not inspected (`check_secret_files` is false in the model).
- External and assumed: the provider displays what it confirms; what it rejects,
  or what could not be transmitted at all, it never displays. SQLite transactions
  are atomic and durable; the file lock is released when its process ends.

## 3. Runs

| Run | Instance | Checks |
| --- | --- | --- |
| `delivery_batches` | two conditions, every active run alerts, three runs (462 982 states, symmetric) | `TypeOK`, `OutboxBacksLatches`, `NoReplay`, `InFlightIsRecoverable`, `DecidedStays`, `ToldByOneRun`, `ReportsKeepTheirHistory` |
| `delivery_streaks` | one condition, thresholds 1 and 2, notifications on or off per run, four runs (100 892 states) | `IInv`, `ResolutionFollowsAlert`, `ClaimsAreTrue`, `ExitMatchesActivity`, `KeepsItsPromise` |
| `recovery_reported` | one condition, three runs | `RecoveryReported`, which the code violates |
| `latch_history` | one condition, six runs, thresholds 1 and 2, counters up to 2 (160 716 states) | `LatchFollowsHistory`, `EpisodesAreAnnouncedOnce` |
| `ownership` | two processes, eight databases of versions 0 to 3, times 0 to 2, a retention of 1, runs numbered up to 4 (686 420 states) | `RunsOfOneMode`, `RunsInOrder`, `PrintsItsOwnRun`, `UpgradeHasBackup`, `OnlyTheOwnerWrites` |
| `drain` | three places in the queue, endless checks (1 647 states) | `QueueStaysEligible`, `EveryMessageIsDecided` |
| `observation` | three targets, two at a time, two must be complete, cooldowns of one or two seconds, endless checks (65 082 states) | `CooldownRespected`, `RejectionStaysActive`, `ExitIsHonest`, `RejectedIsAskedAgain` |
| `upstreams` | three upstreams on lists of two, a unit of four seconds, three responses, three runs (1 192 403 states) | `PooledIsTrue`, `VerdictIsTrue`, `HistorySuffices` |
| `rates` | two resolvers, three kinds of traffic, two retentions, three states to begin with, three runs (152 376 states) | `NeverOvercounts`, `NoWindowBridgesABarrier`, `VerdictsAreSupported`, `AlarmsAreExceptional` |
| `rates_learning` | both resolvers always there, steps of two seconds, retention as long as the learning time | `LearnsInTime`, which the code violates |
| `policy` | fourteen resolver configurations, two changes during a check, 22 files (1 118 406 states) | `ClearMeansHeld`, `CompliantIsClear`, `ConditionsAreDistinct`, `AcceptedIsUsable` |
| `migration` | two conditions, three version 1 runs, two messages (659 966 states) | `LegacyClaimsAreTrue`, `LegacyIsSettled` |

What the properties say:

- `OutboxBacksLatches` - a condition whose delivery is pending has exactly one
  live message, of the right kind, and live messages speak only of such
  conditions in their current episode.
- `NoReplay` - what the provider has shown or may have shown is never queued.
- `ResolutionFollowsAlert` - a resolution is shown only after a confirmed alert.
- `ClaimsAreTrue` - no latch and no report claims an outcome that was not
  recorded for that condition in that episode.
- `InFlightIsRecoverable` - recovery always finds what it needs; otherwise no
  later check could start.
- `ExitMatchesActivity` - exit code 4 exactly when the activity shows a failure.
- `DecidedStays` - decided rows never change; failed and unknown ones are never
  pruned.
- `KeepsItsPromise` - `Delivery` implements `Announcements`.
- `ToldByOneRun`, `ReportsKeepTheirHistory` - a report is put together from rows
  that later runs withdraw, split, replace and decide; its transitions stay those
  of its run, and no two reports tell the same one.
- `LatchFollowsHistory` - the latch is what the whole history says, whatever the
  thresholds were at each run; `EpisodesAreAnnouncedOnce`.
- `RunsOfOneMode`, `RunsInOrder`, `PrintsItsOwnRun`, `OnlyTheOwnerWrites` - see
  the comments of `Ownership`. `UpgradeHasBackup` - an old state is as it was found
  until it is upgraded; then a validated backup of it exists, and each found run
  is there unchanged until a later run completes after the retention.
- `QueueStaysEligible` - no claim is refused because the queue was read earlier.
- `EveryMessageIsDecided` - every queued message is eventually decided.
- `CooldownRespected` - no request during a recorded cooldown;
  `RejectionStaysActive` - no run between a rejection and the next complete
  observation drops or clears it; `RejectedIsAskedAgain` - and there is a next
  one; `ExitIsHonest` - exit codes rest on targets that answered all six requests
  in this check.
- `PooledIsTrue`, `VerdictIsTrue` - counters, differenced over units that restart
  them and lists that lose upstreams, add up to the responses that were given,
  each once, and the verdict is the one that those call for. `HistorySuffices` -
  what is loaded is enough to pool what the whole history would.
- `NeverOvercounts`, `NoWindowBridgesABarrier` - windows hold no more than
  happened and never reach over an inexact migrated reading.
  `VerdictsAreSupported`, `AlarmsAreExceptional` - conclusions rest on enough
  windows of the very hour, and alarms exceed at least half of them by the factor.
- `ClearMeansHeld` - every fact that a clear condition claims was true at some
  moment of the check. It is a statement per fact: the six requests may see six
  configurations, so that two facts of one condition (a rewrite is listed, the
  global switch is on: ADR 0011) may have held at different moments.
  `CompliantIsClear` - the converse, for a resolver that complies all the time.
- `ConditionsAreDistinct`, `AcceptedIsUsable` - what an accepted file guarantees.
- `LegacyClaimsAreTrue`, `LegacyIsSettled` - the upgrade claims only deliveries
  that were shown, queues nothing again, and leaves no latch waiting.

**Bounds.** Two conditions are the least that can share a batch, lose one member
and be replaced; three runs are the least in which an alert is queued, its batch
is split, and the episode is replaced by a new one while an earlier message is
in flight. Four runs allow an episode, its resolution and the next episode with
thresholds of two. `CounterCap` 2 makes counters saturate inside every run. Six
runs of `LatchHistory` allow three episodes. Two processes are enough for every
conflict over one lock, and the theorems remove this bound. A retention of one
second lets a run of second 2 delete runs of second 0, found ones and new ones. Three places in the
line put a message behind one that is refused and ahead of a newer one. Three
targets, two at a time, make one wait for a free place while another is paused,
and let one of them fail with the minimum still met. In `upstreams` the clock
runs from 3 to 6 with units of 4, so that a unit ends in the middle; lists of
two lose one of three upstreams; lookback 2 and gap 1 let a reading be too old
for one window and needed for another. In `rates` the counters of the two
resolvers start again at different times, steps of 0, 1 and 3 seconds make equal
times, windows and gaps (`MaximumGap` 2), sums overflow (`MaxCounter` 6), and
retention shrinks and grows between 3 and 6 seconds, with barriers and delivery
evidence on either side of it. In `policy` the resolver may change twice between
any two answers, to configurations that differ in one or two respects; the clock
passes the tolerance for answers from the future (five minutes in the code). In
`migration` one of the two lines alone is as long as a message may be, so that a
batch of both is cut, within a line or to the whole message of a different
batch; three runs let an episode end and the next begin while the result of the
first alert is still to come.

`MaxRuns` (in `Delivery`, `LatchHistory`, `Ownership`, `UpstreamLatency`,
`Rates`), `MaxTime` (`Ownership`, `UpstreamLatency`, `Policy`), `MaxLegacyRuns`
and `MaxRows` (`Migration`), `MaxResponses`, `MaxChanges`, `MaxRetry`,
`CounterCap` (u32::MAX in the code) and `MaxCounter` (u64::MAX) are the only
bounds. `latch_history`, `upstreams`, `rates`, `policy` and `migration` end
after their runs or their check, so deadlock is not checked there; in the other
modules it is.

**Fairness.** Safety needs none. `Drain` assumes: time passes (`Elapse`) and the
timer starts checks (weak fairness, the systemd timer); checks are not killed at
the same step for ever and notifications are not disabled for good (strong
fairness of the steps, while `EndEarly` stays possible in every check); and no
single message is answered by connection errors or 5xx for ever. The last one is
really needed: the loop stops at the first message that is not delivered, and
the backoff of five seconds is shorter than any sensible timer interval, so a
message that is always answered by 5xx is attempted first by every check and
keeps everything behind it waiting. `Observation` assumes the same of time, the
timer and of checks that are killed, and that a request ends, which its timeout
makes it (weak fairness); it assumes nothing of what the requests answer.

**Mutants.** For every property PROJECT.json names a plausible bug in a mapped
definition that makes TLC find it violated: requeueing an interrupted attempt,
cancelling messages whatever their status, forgetting a stale resolution,
counting after comparing, reading the newest messages first, a lock nobody asks
for, an upgrade without its backup, a cooldown renewed by every check that
respects it, a group summed over the members that happen to be there, a barrier
that is pruned like any run, a list of exactly the limit taken for complete, a
rewrite judged without the global switch, a migrated message believed because it
agrees with its membership, and so on. They are the operators marked
`Mutant:` in the modules.

## 4. Divergences

**A recovery that is reported nowhere** (`recovery_reported`).
`docs/TROUBLESHOOTING.md` says that an interrupted-send recovery is recorded in
the new run's delivery activity. Each recovery commits on its own
(`store.rs` 611-666), and the list of recovered attempts is only in memory until
`commit_run` stores it with the new run. A check that ends in between (killed
while it observes, a regressed clock, a configuration error, any state error)
has quarantined the attempt and leaves nothing for a later check to find: no
later run reports the recovery or exits 4 for it. The quarantine itself is safe,
and the activity of the run that made the attempt does show it as unknown.

**A baseline that never finishes learning** (`rates_learning`). Validation asks
that `state.retention_days` be *at least* `behavioral_baseline.learning_days`
(`config.rs` 296-299). Readings are loaded from the completion time minus the
retention on (`main.rs` 342-344, 375-377; `store.rs` 249-252), and the oldest of
them must be `learning_days` old. With equality this needs a run that completed
in exactly that second; in every other case the behavioural conditions stay in
`baseline_learning` for ever. Both directions are proved (section 5): with
equality a series counts as learned only by such a run, and a retention that is
longer by the greatest time between two runs is always enough.

Three smaller observations, which no run is about:

- A filter list that is refreshed more than five minutes after the clock of the
  check was read makes the answer "from the future" and the target invalid for
  this run (`lib.rs` 548). `CompliantIsClear` therefore excludes it.
- A list of response counts that may be truncated, together with averages that
  are all missing because every summed duration is zero, is stored as an
  observation without upstreams. It has no count that could be unknown, and is
  read back as "no responses", although `lib.rs` 415-424 calls the counts of such
  a list unknown. TLC then finds `PooledIsTrue` and `VerdictIsTrue` violated: the
  window pools nothing where there were responses, and the condition is not
  evaluated instead of clear. It raises no alarm. It takes a hundred upstreams
  that all answered in no measurable time; `InstantAssumption` excludes the case,
  and the instance of `upstreams` has one such upstream on lists of two.
- The comment in `model.rs` that a count is "Absent only for observations
  recorded before state v3" does not mention those truncated lists.

## 5. Proofs

All theorems hold for every value of the constants: any set of conditions,
evaluations and thresholds, any number of runs, targets and processes, any
clocks, any policies and answers, any traffic. tlapm checks them to the last
leaf.

*Delivery* (`DeliveryProofs`, which begins with what one evaluation does to a
latch): `Invariant` (`Spec => []IInv`), and from it `TypeCorrect`, `LatchesAreBacked`
(`OutboxBacksLatches`), `NothingIsReplayed` (`NoReplay`) and
`ResolutionsFollowAlerts` (`ResolutionFollowsAlert`).

None of these is inductive alone. `NoReplay` fails after a crash unless what may
have been shown is tied to rows that are no longer unsent (`AttemptOfCheck`,
`QuarantineShows`), and after a commit unless the notices that the latch can
still create are known to be unseen (`FutureNoticesUnseen`, which needs
`NothingFromTheFuture`: a new episode takes the number of a run that does not
exist yet). `OutboxBacksLatches` needs `EpisodesAreOpen`. A replacement is
unsent, so its members must not have been shown; that they are the members of
the unsent original is immediate, but that the replacement does not collide with
an older row is `Nested`. `ResolutionFollowsAlert` needs `AlertsConfirmed`,
which carries the confirmation from the latch through the queued resolution to
the provider. `IInv` is their conjunction; the proof has one lemma per conjunct
and in it one case per kind of step (`StepKinds`). The commit is split into
lemmas on what happens to one condition (`CommitLatch`, `CommitLifecycle`), to
one surviving member (`KeptMember`) and to one new member (`NewMember`).

*The refinement* (also `DeliveryProofs`): `DeliveryKeepsItsPromise` (`Spec =>
KeepsItsPromise`). A commit is `Open` or a stutter, `Send` and `Arrive` are
`Announce` or stutter, `RecordAttempt` is `Confirm` or a stutter, and everything
else, recovery and crashes included, stutters. Each case takes from `IInv` what
the abstract step asks for: that the notice is new, of an existing episode, and
after its alert.

*Reports* (the last part of `DeliveryProofs`): `ReportInvariant` (`Spec =>
[](IInv /\ ReportInv)`), and from it `RecoveryFindsItsAttempt`
(`InFlightIsRecoverable`), `ExitsFollowActivities` (`ExitMatchesActivity`),
`NothingFalseIsClaimed` (`ClaimsAreTrue`), `OneRunTells` (`ToldByOneRun`), and
the action properties `DecisionsAreKept` (`DecidedStays`) and `HistoryIsKept`
(`ReportsKeepTheirHistory`). `ReportInv` adds what these need: a transition is
told only after the latch has made it (`RowsFollowLatches`, without which two
runs could tell the same one), stored runs are no younger than the newest and
the check's own one is stored from its commit on (`RunsAreNumbered`), nothing is
in flight where a new attempt begins (`AtMostOneInFlight`), and the check's
`failed` and the stored exit code agree at every step between the commit and the
end (`CheckKnowsItsReport`, since the code keeps the two apart).

`ChecksAreNotRefused` says that a check never meets an error that the store keeps
for a state it does not expect: recovery finds the report of the run that made the
attempt, a message that is claimed is still pending or retryable and has members,
a result is that of the attempt in flight, and the run whose activity is refreshed
is stored. The guards of `Delivery` say when a step of the code goes through, so a
refusal would show there as a step that is missing; the theorem shows that none is.
It needs one more fact, `QueueIsUnsent`: what was read of the outbox stays unsent
while a check delivers, but for the messages it took itself. What remains of the
refusals is a clock that ran backwards, which `EndEarly` stands for.

*The latch over its history* (`HistoryProofs`): `Invariant` (`Spec =>
[]HistoryInv`), `LatchRemembersItsHistory` (`LatchFollowsHistory`) and
`NothingIsAnnouncedTwice` (`EpisodesAreAnnouncedOnce`), for histories of any
length. The argument is about streaks: appending an evaluation leaves the
streaks of earlier runs as they are, and gives the new run one more than the
newest run that counted, or one (`NewestCounts`); recoveries move `ActiveSince`.
`LogFollowsLatch` says which transitions the log has of the current episode.

*The queue* (`DrainProofs`): `Invariant`, `QueueIsNeverStale`
(`QueueStaysEligible`) and `NoAttemptIsRefused`, for any number of messages. What
`pending_outbox` returned is used over the whole loop while rows are claimed,
decided and backed off. The invariant says why that is harmless: nothing is in
flight outside an attempt (`ClaimsAreAttempts`), a claimed message is due
(`ClaimIsDue`), and each message is in the queue once, so that recording one never
touches those still waiting. That a query in an order has every row once
(`SortedHasAll`) is a fact on injections of finite sets.

*Ownership* (`OpeningProofs`): `Invariant`, `OwnersAreAlone`
(`OnlyTheOwnerWrites`), `ModesAreNeverMixed`, `RunsFollowTheirTimes`,
`UpgradesAreBackedUp`, `ChecksPrintTheirOwnRun`. The invariant says that a
process past `acquire_ownership` holds the lock (`OwnersHoldTheLock`) and that
whatever a process checked still holds (`ChecksStillHold`): `commit_run` compares
mode and times before its transaction begins, and only the lock makes that sound.
`Provenance` says what became of the runs that were found: each is unchanged, or
gone because a later run completed after a retention had passed
(`KeptUntilExpired`), and all new runs have greater numbers. The
latter is inductive only together with the former: a number above all that are
stored is above all that were found, because where a found run is missing a new
one is stored (`RowIsNew`).

*Migration* (the second part of `OpeningProofs`): `MigrationInvariant`
(`MigrationSpec => []MigrationInv`), and from it `LegacyClaimsHold`
(`LegacyClaimsAreTrue`) and `LegacyHistoryIsSettled` (`LegacyIsSettled`), for any
conditions and summaries, any limit, and any history of version 1 that its actions
allow. The invariant describes what can be trusted of such a history: rows and
transitions belong to stored runs (`LegacyRunsAreStored`), a row of the run of a
condition's last transition says what the latch does, alert or resolution
(`MessagesFollowTransitions`: a late result may have overwritten the delivery of
the latch, but the row still says which transition it was about), and of an
acknowledged message the operator saw the lines that were not cut
(`AcknowledgedWasShown`). The migration compares only texts. That this is enough is
`FittingIsDisplayed`: a message that is exactly the lines of its members, in the
order in which they are loaded, and that fits, leaves room for all of them in any
order, so that each was shown even if version 1 had put them in another. A latch
stays delivered only with a confirmed alert of its last transition, and then
`MessagesFollowTransitions` makes it an alert that still fires, of that very
episode.

*Observation* (`ObservationProofs`): `Invariant`, `CooldownsAreRespected`,
`RejectionsStayActive` and `ExitsAreHonest`. Needed besides: the record of a
cooldown is there exactly from a rejection to the next complete observation
(`RecordedWhileRejected`), a complete report was earned in this check
(`CompleteWasServed`), requests belong to targets that are not paused
(`RequestsAreOpen`: the decision of `StartCheck` is used later, and only because
time never makes a cooldown begin is it still right), and a commit has all
reports (`ReportsAreIn`).

*Upstream latency* (`UpstreamLatencyProofs`): `PooledCountersAreTrue`
(`PooledIsTrue`), `VerdictsAreTrue` (`VerdictIsTrue`) and
`LoadedHistorySuffices` (`HistorySuffices`), for any upstreams, limits,
responses and times. The invariant says that each known reading is what the log
says at one moment of its run (`ReadingsAreTrue`) and that runs do not overlap
(`RunsInOrder`). A reading whose run lies in one unit was therefore taken in
that unit, wherever in the run it was; two readings of the same unit differ by
the responses between them, and no unit restarts the counters in between. That
the windows add up takes three more facts: windows of consecutive readings are
disjoint, the steps of the counters and the responses correspond one to one in
each window (`CountedTogether` joins these bijections), and an upstream that a
complete list lacks gave no responses (`KnownIsComplete`). `VerdictIsTrue`
follows by comparing the verdict that was stored with the pooled sums of the
same readings. `HistorySuffices` needs only that the times of runs are in order:
a reading older than lookback and gap together leads into no window that is
pooled.

*Policies and configuration* (`PolicyProofs`): `NeverAGuess` (`ClearMeansHeld`),
`NoFalseAlarm` (`CompliantIsClear`), `IdentifiersAreKeys`
(`ConditionsAreDistinct`) and `ValidationSuffices` (`AcceptedIsUsable`), for any
configurations of the resolver, any number of changes between the six requests,
and every file that `validate` accepts. The invariant adds `ReadFromSeen`: each
answer that was read is the one that some configuration the resolver had during
this check gives. The rest is about data, by the parts of a policy: a
comparison that is satisfied by normalised answers was satisfied by the
configurations they came from, fact by fact (filters, rewrites, the parental
service list), and is satisfied when every configuration complies. That
condition identifiers are distinct comes from the distinctness of the names,
which validation checks after trimming, and from the kinds of conditions having
tags of their own.

*Rates* (`RatesProofs`): `WindowsAreTrue` (`NeverOvercounts`), `BarriersHold`
(`NoWindowBridgesABarrier`), `VerdictsHaveSupport` (`VerdictsAreSupported`) and
`AlarmsOutweighHalf` (`AlarmsAreExceptional`), for any number of members, any
traffic and any counters. `NeverOvercounts` rests on `UntoldGrows`: what the
counters of a member do *not* tell of its traffic never shrinks from one exact
reading to the next, since a counter that starts again forgets and never
remembers. Differences of counters are therefore at most the traffic in between,
whether or not the counters started again, and whether or not `window_between`
could notice. `BarriersAreKept` says that pruning keeps the latest inexact
reading of each member, so that readings on both sides of one are never loaded
together. For the group the same holds of the sums, member by member
(`SumsCompare`), only because every member is in both of them. `InOrder` relates
the order of runs to that of times. `AlarmsAreExceptional` is about medians: a
value above a multiple of the median is above that multiple of at least half of
the values (`KthIsTaken`, `MedianHalves`).

Two theorems describe the divergence of section 4 for every configuration.
`ShortestRetentionLearnsByTheSecond`: where the retention is the learning time,
the smallest that validation accepts, a series is old enough only if one of its
readings was taken `Learning` before the completion, to the second.
`LongerRetentionLearnsInTime`: if every retention is at least `Learning` plus the
longest step between two runs, `LearnsInTime` holds, and what the run
`rates_learning` refutes is a matter of that margin alone. The argument is that a
state that is not migrated has in every such stretch of its past at least one run
(`NoGaps`), and neither the pruning nor the loading removes it. They assume that
`Learning` is positive and that there are members, which validation demands
(`config.rs` 367, 609).

These proofs use facts about data of any size: that a finite set of numbers has a
least and a largest member (`LeastNumber`, `LargestValue`), that sums over a set
add each member once (`SumIsAdded`), that a sum is no less than another if its
members are no less. The library's induction rules cannot be applied here, since
they take an operator as a parameter. The proofs take a minimal counterexample
instead: among the subsets for which the fact fails a smallest one
(`SmallestSubset`, from the well-foundedness of the natural numbers).

Assumptions: the constants' types; in `Ownership` also what the program leaves
in a database of each version (`FoundAssumption`); in `LatchHistory` that
thresholds fit the counters, both being u32 (`ThresholdsAssumption`); in
`Policy` that files and answers are of the types their parsers yield; in `Drain`
that messages are finitely many; in `UpstreamLatency` that upstreams are
finitely many and that fewer of them than a list holds answer in no measurable
time (`InstantAssumption`, which excludes the case described in section 4); in
`Rates` that members are finitely many and none is called `group`
(`MemberAssumption`), that at least one window is required
(`ThresholdsAssumption`, which validation asks for), that the unit of fractions
is divisible by every length of a window, so that rates are exact
(`ScaleAssumption`), and that a migrated state is the work of earlier checks
(`MigratedAssumption`); in `Migration` that conditions are finitely many and in
a strict order (`ConditionAssumption`), as their identifiers are, and that a
summary is a sequence of characters (`SummaryAssumption`). TLC evaluates all of
them on its instances.

Only model-checked: liveness, which is outside the prover
(`EveryMessageIsDecided`, `RejectedIsAskedAgain`). The two properties of the runs that
expect a violation, `RecoveryReported` and `LearnsInTime`, do not hold of the code;
what holds in place of the second is proved. Every other property of a run
is the property of a theorem.

## 6. Not modelled, and what could follow

Not modelled:

- `render.rs`, the schema command and the parsing of arguments: they only print.
- HTTP, TLS, timeouts inside the client and the bounded reading of bodies: a
  request ends in one of the classes of `Failure`. SQLite itself.
- TOML parsing, the inspection of secret files and the wording of errors.
- The greedy split of transitions at 1024 characters: `Batches` is every
  partition, of which the greedy one is one.
- Of the migration: `migrate_health` (`schema.rs` 504-543), which rewords health
  issues, `normalize_timestamps` (327-362), which brings timestamps to their
  canonical form, and `rebuild_table` (291-325). They decide nothing.
- Rounding of floating point, severities (but for the exit code) and summaries.

What could follow: the greedy split and the repeated cancellation within one
commit as folds, shown to be instances of `Batches` and `OutboxAfter`; and a clock of
the resolver that differs from that of the checks in `UpstreamLatency`.
