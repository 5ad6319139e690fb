# A verification project for DployDB

DployDB deploys releases of one SQLite-backed web application on one host. It
rehearses the migration on a snapshot, blocks users behind a maintenance page,
stops the application, takes a final backup, migrates the production database,
starts and checks the new release, switches traffic, and goes back to the
previous release and the final backup when something fails before the switch.
A command may die at any point; `dploydb recover` reads what it left behind and
continues forwards or backwards, or refuses.

The modules here model that program, TLC checks them on small instances, and
TLAPS proves their safety properties and refinements for every value of the
constants.

## Inventory

| Component | State | Operations | Interacts with |
| --- | --- | --- | --- |
| Deployment coordinator, `deploy.py` | `_Context`: stage, handles, `production_may_have_changed`, `traffic_activation_attempted`, ... | one deployment: candidate, cutover, activation, rollback | every component below |
| Recovery, `recovery.py` | none of its own; a plan computed from evidence | diagnose, take over, execute a plan | reads operations, releases, containers, checksums; same runner, hooks, stores |
| Release store, `releases.py`, `models.py` | `releases/<id>/manifest.json`, `current.json` | create, transition, intent, resolve, activate | written by deploy and recover, read by all |
| Operation journal, `state.py` | `operations/<id>/manifest.json`, `events.jsonl` | create, transition, append, list | written by every command, read without the lock by status |
| Deployment lock, `locking.py` | kernel `flock`, owner metadata file | acquire, record owner, release, inspect | one holder; metadata outlives a crash |
| Candidate and rehearsal, `candidate.py`, `migration.py` | workspaces, candidate container | preflight, snapshot, rehearse, start candidate | called by deploy |
| Production runner, `runners/docker_compose_production.py` | containers | inspect, stop, start, remove, restart | docker |
| Traffic hooks, `traffic.py` | routing and maintenance of the proxy | four hooks | user scripts |
| Cutover database, `cutover.py`, `restore.py` | the production database file | final backup, migrate, restore | backup storage, subprocesses |
| Manual restore, `manual_restore.py` | as deploy | restore an older backup with a data-loss warning | lock, stores, runner, hooks |
| Backups, `backup.py`, `storage/`, `retention.py` | local and remote artifacts with metadata | create, publish, verify, delete | deploy, recover, restore |
| Subprocess runner and health checks | process groups, deadlines | run, cancel, poll | every external command |
| Configuration, CLI, diagnostics, redaction, errors | none | parse, print | - |

What is hard here is not one step but the order of many: a command can die
between any two durable writes or external commands; an external command that
fails may have had its effect; users write whenever they get through; a second
command reads what the first one left; a migration may outlive the command that
started it. `PROJECT.json` lists these hazards at their lines.

What makes each component correct:

- deploy and recover: no acknowledged write is lost, a terminal outcome is the
  truth, an activated release is never taken back, two releases never run on one
  database, maintenance is never left on silently, every command ends;
- release store: manifests follow the lifecycle and are never rewritten once
  resolved, pointers select an active release;
- operation journal: one operation is unfinished at most, what a reader sees
  happened;
- lock: one command at a time, a crash leaves evidence that blocks the next
  deployment until it is acknowledged;
- restore and backups: the database is replaced as a whole or not at all, what is
  listed can be restored;
- subprocesses and health: every wait ends, no process of a finished command is
  left.

## The modules

| Module | What it is |
| --- | --- |
| `ReleaseStates` | `DeploymentState`, the transition table and the manifest validator of the release store |
| `Host` | the durable state, the managed world, the running command, the environment (users, crash, interrupt, reboot, surviving migration) |
| `Deploy` | the deploy command, one action per durable write or external command |
| `Recover` | the recover command: diagnosis, plan, takeover, execution |
| `ServiceContract` | the abstract specification: serving, changing or blocked |
| `DeploySystem` | both commands over one host, the specification, the properties |
| `MCDeploySystem` | the instances for TLC |
| `DeployTypes_proofs` | the type invariant, proved |
| `DeployHistory_proofs` | the invariant of the recorded history and what follows from it, proved |
| `DeployWorld_proofs` | what the records say of the managed world, the properties that survive every fault and the refinement of `ServiceContract`, proved |
| `DeployPromises_proofs` | the promises to users and the point of no return, proved |
| `OperationRecords` | the abstract specification of the operation journal: records that begin, end once, and may become unreadable |
| `StateDirectory` | the files below those records (`state.py`, `locking.py`), the commands that write them, `status` that reads them |
| `MCStateDirectory` | its instances for TLC |
| `StateDirectory_proofs` | its inductive invariant, its safety properties and its refinement, proved |
| `BackupPromise` | the abstract specification of the backups: what was reported as verified opens until it is retired |
| `BackupStorage` | creation, local publication, replication and retention of backups (`backup.py`, `storage/local.py`, `storage/s3.py`, `retention.py`) |
| `RestorePromise` | the abstract specification of a manual restore: original, restored or blocked |
| `ManualRestore` | the restore command (`manual_restore.py`) with the replacement of the database files (`restore.py`), its records and its rollback |
| `ManualRestore_proofs` | its inductive invariant, its safety and action properties and its refinement, proved |
| `BackupStorage_proofs` | its inductive invariant, all its properties and its refinement, proved |
| `CandidateStage` | the candidate stage (`candidate.py`, `migration.py`, `subprocesses.py`, the candidate runner, readiness and smoke checks) |
| `CandidateStage_proofs` | what a safe end of the stage leaves, proved |

### State

`ops` and `rels` are the operation and release manifests, as arrays in the order
of creation (identifiers are random in the code; the order recovery and
`latest_operation` use is `started_at`). A record keeps what another command can
read and act on: status, stage, the intents, the final backup (as the content it
holds), whether the handle of the new container was recorded, the outcome of the
activation hook in the event log. Timestamps, failure texts and evidence nobody
reads back are left out. `active` and `previous` are `current.json`, `owner` the
metadata of the lock.

`app`, `target`, `maintenance` and `db` are the managed world. The content of the
database is the release whose schema it has and the set of writes in it;
`Partial` is the schema in the middle of a migration. `acked` is what users were
told is stored.

`pc` and `me` are the running command: its next step and the fields of
`_Context`, or the plan of a recovery. `pc # "idle"` is the kernel lock: a
command takes it first and gives it up last, so at most one runs. The steps
between taking the lock and creating the operation write nothing and are one step
with it.

### Actions

One action is one durable write or one external command, with the conditions,
early returns and local assignments around it. Two writes that the code makes one
after the other (`_persist_stage`: the operation, then the manifest) are two
actions, so a crash falls between them. An external command that fails may or may
not have had its effect, as the code assumes. Where the code raises, the step
goes to `"failed"` with the severity of the error, and `DispatchFailure` is the
`except` clause of `_run_deployment`.

Crashes: `Crash` is SIGKILL (the owner metadata stays ACTIVE), `Interrupt` is
KeyboardInterrupt or SystemExit (no handler records an outcome; the context
manager releases the lock), `Reboot` stops every container (`restart: "no"` in
the compose files the program requires) and every process. A migration runs in
a session of its own (`subprocesses.py:324`) and may survive a crash:
`OrphanMigrates` is its end.

Recovery: `StartRecover` is the diagnosis under the lock. A plan that is not
executable, or an owner that is not acknowledged, ends the command before it
writes anything, so only executable plans are steps. The checksum comparison is
one-sided: different content never matches, equal content may (a file can hold
the same content in other bytes).

### The state directory

`Host` writes operation records atomically and cannot fail to. `StateDirectory`
is the layer below, without the deployment: a command is `work` (anything that
needs a clean history) or `recover`, and its life is the lock, the admission,
`create_operation`, `record_owner`, events and transitions, a handler, the
release of the owner metadata and of the kernel lock. One action is one system
call with an effect that another process or a later command can see: the append
to `events.jsonl` (`events`, or `torn` when it is cut short), the temporary
manifest (`tmp`), its replacement (`man`), the owner file (`owner`), the `flock`
(`lock`). Each may fail (`AppendFails`, `StageFails`, `ReplaceFails`,
`RecordFails`, `CreateFails`), in each of the ways that leave different files, and
the command may die (`Crash`) or be interrupted (`Interrupt`) before it.
Admission is one action, because nobody else writes while the lock is held.

`status` does not hold the lock while it reads: the probe, the owner, the list of
directories, each manifest and each event log are actions of their own that
commands interleave with. `rd.before` is no state of the code; it remembers what
was unfinished at the probe, for `IdleReportIsTrue`.

`ImplementsRecords` maps an operation to the status of its manifest while its log
and manifest agree, or while the lock holder is between two of its writes, and to
`unreadable` otherwise. What `OperationRecords` promises is then what `Host`
assumes of one `ops[o]`, and the outcome `unreadable` is the one `Host` leaves
out: every command refuses a history that contains it.

### Backups

`BackupStorage` is what `Host` takes for one step, the making of a backup, and
everything that happens to backups afterwards. One action is one system call on
the backup directory or one request to the object store, in the order of the
code: the staging file, the snapshot and its sync, the link of the database, the
metadata file that commits it, the two directory syncs, the verification; for a
replica the upload, the reading back of the whole object, the metadata, the last
look. `UndoPublication` and `UndoFails` are the `except` clause of
`LocalBackupStorage.put`, `DropMetadata` and `DropDatabase` are
`_cleanup_uncommitted`, `PlanRetention` and the `Purge*` actions are
`apply_retention` with the `delete` of both stores. A deployment makes two
backups and then moves the release pointers (`Activate`); a manual restore swaps
them (`RestorePrevious`).

`dir` holds the directory entries as processes see them and `disk` those that a
power loss cannot take. `PowerLoss` keeps any part of the difference, and
contents that were not synced (`bytes` is `cached`) are gone. In the bucket,
`records` are the metadata objects and `objects` the database objects; `late` are
uploads whose answer was lost and that the provider may still store. Of a
backup's content the model keeps whether it is good, because nothing else
decides whether it opens. `Foreign` are backups of another project in the same
stores, which retention must leave alone.

`ImplementsPromise` maps `offered` to the backups that
`open_verified_configured_backup` opens, from the directory or from the replica,
`promised` to those a command has verified and recorded, and `referenced` to the
final backups of the active and of the previous release.

### The manual restore

`ManualRestore` has its own managed world instead of `Host`'s, because the
question there is what two files and a crash do to a database: `db` is the main
file, `wal` the write-ahead log with the last commits, `disk` both as a power
loss would leave them. `Live` is what SQLite shows: it replays a log into
whatever main file it finds, and a log of another database corrupts it. A
container that stops by itself closes the database and empties the log; one that
is killed at the stop timeout leaves it. `OwnWrite` is a commit that no user was
told of.

The steps between the external commands are records, and they differ only in
what they write; the table `Journal` has them, `Transition` is the step. A record
that fails may leave the event without the manifest (`torn`), which every later
reader refuses. `NeedsRecovery` is `_normalize_restore_coordinator_error`:
whether an error leads to the rollback or to the end. The rollback runs the same
replacement with the pre-restore backup as its `Source`. `Kill`, `Interrupt` and
`PowerLoss` may fall between any two steps.

`ImplementsPromise` maps what the service shows (`service`), the acknowledged
writes, those in pre-restore backups, and whether users were let in on the
restored database. `service` can be `"wrong"`, a value `RestorePromise` has no step to:
the refinement shows that it never is.

### The candidate stage

`CandidateStage` is what `Deploy` takes for one step, the candidate. The command
that runs, a migration or a smoke check, is a process `tree`: its leader and a
helper it may fork, in its process group or in a session of its own, with or
without an end of the output pipes. That is what decides what `SubprocessRunner`
waits for (`HoldsPipe`), what it can end (`Grouped`) and what it overlooks.
Docker commands fail before or after their effect, and `pending` is what the
daemon still creates for a client that was killed at its timeout (`LateCreation`).
The processes and the container write into the workspace while the stage goes on.

The errors of the stage, of the log collection and of the cleanup are kept apart
and combined at the end (`CombineFailures`), as `_validate_runtime` does; the
workspace is removed whatever happened, and the outcome recorded is the one the
combined error asks for.

## The runs

| Run | Instance | Shows |
| --- | --- | --- |
| `main` | 2 releases, 4 operations, 2 writes, crash and interrupt | the promises to users and the point of no return |
| `faults` | 2 releases, 4 operations, 1 write, every fault | the records stay sound, commands end, the service contract is implemented |
| `claim_no_loss` | 1 release, 3 operations, 1 write, crash and reboot | a rollback's users lose their writes to a later recovery |
| `journal` | 2 commands, 4 operations, logs of 3 events, every fault | the files implement atomic records, ownership can always be recorded |
| `status` | 2 commands and status, 2 operations, logs of 3 events, every fault | a status next to running commands overlooks nothing, every lock holder ends |
| `backups` | 6 own backups and 1 foreign, `keep_last` 1, 2 faults: 1 kill or power loss, 2 failed calls, 2 failed requests, 1 lost copy | metadata means a database, protected backups open, retention spares what it must and ends, the promise is implemented |
| `restore` | 2 writes, 2 restores, 3 failing calls, 2 kills, interrupts or power losses | no write is lost, no log meets a foreign database, outcomes are true, a restore ends, the promise is implemented |
| `candidate` | 2 validations, 3 failing calls, interrupts or kills | a safe end leaves nothing behind, the next stage begins clean, every stage ends |
| `claim_marker` | the instance of `backups`, `MarkerFaults` | the success marker stays without its database |
| `claim_original_restored` | 1 write, 1 restore, 2 failing calls, `SwapFaults` | "the original database was restored" without its last writes |
| `claim_restore_killed` | 1 write, 1 restore, 1 crash | recover asks for no action while users are blocked |
| `claim_unproven` | 1 validation, 1 fault, `MaskedKill` | a migration that cannot be killed ends FAILED_SAFE |

Bounds. Two releases are one that has a bootstrap application before it and one
that has an active or a failed release before it: a release only reads the one
before it. Four operations are a deployment, its recovery, a recovery of that
recovery and one more command of either kind; chains that repeat differ only in
their length. One write is enough to be lost; two are checked where writes are the
question. Writes are interchangeable, so their symmetry is used in `main`, which
has no liveness property.

For the state directory, four operations are a command that dies, its recovery that
dies, the recovery of both and one command more, and a log of three events is
one that can be full after a transition, at the first write of a handler, or
never. `journal` leaves status out, which writes no file; `status` needs two
operations, an old one and one that begins while it reads.

For backups, six identities are three deployments: the first gives the active
release its pair, the second makes it the previous one, and the backups of the
third push the oldest pair out of protection and, with `keep_last` 1, into
retention. Two faults are a failure and the failure of its cleanup, or a failure
and a crash. For the restore, three failing calls are one that leads into the
rollback and two inside it or in the records of its end; a second restore is
asked for after the first one failed safe. For the candidate stage, three faults
are a start that fails, a cleanup that fails, and one more; two validations let
the second find what the first left.

Four constants separate the faults a property survives from those with which the
code breaks it. `MarkerFaults` lets a call fail once the metadata file is linked,
`LateKinds` names the uploads that may land after their client gave up (with
`"json"` a metadata object can land between the plan and the end of a retention,
which then leaves one backup more than `keep_last`; no other property of the
module minds), `SwapFaults` lets the replacement fail once the write-ahead log is
gone, `MaskedKill` lets another error hide that a process outlived its kill. The
passing runs leave these faults out, and the claims turn the other three on.

`CHECK_DEADLOCK FALSE`: a host on which nothing runs and nobody starts a command
has stopped legitimately, and so has one that needs an operator.

Fairness: `WF_vars(CommandStep)`, the steps of the command that holds the lock
taken together. Every external command has a timeout, so a started command goes
on or dies. Nothing makes an operator start a command, a user write, or a fault
happen or stop happening. In `StateDirectory` the same holds of every command that
has the lock (`WF_vars(Proceed(p))`, an action that fails is a step too) and of a
started status (`WF_vars(ReadStatus)`), in `ManualRestore` of the restore that
holds the lock (`WF_vars(CommandStep)`), and in `CandidateStage` of the stage
(`WF_vars(Stage)`): its waits have deadlines, and the deadline is one of its
steps. `BackupStorage` states no fairness and has no liveness property.

The four properties of `main` are not promised under every fault, so `main`
leaves reboots and surviving migrations out, and `faults` has the properties that
survive everything. With the instance of `main` and one such fault added, TLC
gives:

| Property | a reboot | a surviving migration |
| --- | --- | --- |
| `NoAcknowledgedWriteLost` | violated (`claim_no_loss`) | holds |
| `NoWayBackAfterActivation` | holds | violated |
| `TerminalOutcomeIsTrue` | violated | violated (`ClaimRestored.cfg`) |
| `RestoreOnlyQuiesced` | violated | violated |

These are the hypotheses of the theorems about them, neither more nor less.

Mutants. For every property of a passing run `PROJECT.json` names a definition and
a wrong form of it, as a bug in the code would make it (an intent only remembered,
a transition missing from the table, a takeover that supersedes nothing), with
which TLC finds the property violated.

### What the violations show

1. `claim_no_loss`: users are back after a rollback, the host reboots before the
   outcome is recorded, the recovery restores the final backup over their writes.
2. `claim_marker`: the unlink of the temporary metadata file, or the sync after
   it, fails when the metadata is already linked; `put` takes the database back
   and leaves the metadata. Listing still reports the backup, verification fails,
   deletion refuses it, and every retention that reaches it stops there.
3. `claim_original_restored`: the write-ahead log of the current database is
   unlinked, then the sync or the replacement fails. That error is no recovery
   error, so the rollback restarts the current application on the main file and
   reports that the original database was restored; commits that were only in the
   log are in the pre-restore backup, which this rollback does not use.
4. `claim_restore_killed`: a restore has no release manifest, so `recover`
   pairs the active release with the deployment that made it and answers that no
   action is required, while maintenance is on and the restore is in progress.
5. `claim_unproven`: `_require_usable_command_result` looks at truncated output
   before it looks at a failed cleanup.

More disagreements of this kind are stated as properties and can be run by hand
with the configurations beside the modules; each finds a violation:

| Configuration | Module, property | Shows |
| --- | --- | --- |
| `ClaimCompleteNew.cfg` | `MCDeploySystem`, `ExecutablePlanTakesRelease` | after a crash between the ACTIVE manifest and the end of its operation the plan is executable, but the release store refuses the takeover |
| `ClaimRerun.cfg` | `MCDeploySystem`, `RecoverCanBeRerun` | a recovery that died while taking over leaves owner metadata that the next recovery may not replace |
| `ClaimNoAction.cfg` | `MCDeploySystem`, `NoActionMeansAdmitted` | after a crash between the terminal operation and the release of the lock, recover needs no action and deploy refuses |
| `ClaimRestored.cfg` | `MCDeploySystem`, `TerminalOutcomeIsTrue` | a surviving migration changes the database after a recovery restored it |
| `ClaimStatus.cfg` | `MCStateDirectory`, `AlarmIsTrue` | status finds the lock free, a deployment begins, status reports it as interrupted |
| `ClaimRecord.cfg` | `BackupStorage`, `RecordMeansObject` | the cleanup of a failed upload may fail at the metadata and still delete the database: the bucket lists a backup without its object, and retention stops listing at all |
| `ClaimChange.cfg` | `ManualRestore`, `ChangeIsReported` | a replacement that could not be proven is recorded as a failure that changed nothing |

## The proofs

Each component that is proved about has a module of its own.

`TypeCorrect` proves `Spec => []TypeOK`. `TypeOK` alone is not inductive: a
recovery reads `Head(me.plan)` and `TakeRelease` writes `rels[me.rel]`, so the
invariant `Typed` adds `ContextOK`: at which steps a command has an operation,
a release, a resolved previous application and an unfinished plan (`PlanOK`: a
nonempty sequence of actions that ends in a marking action).

`DeployHistory_proofs` adds `HistoryOK`: operations are numbered without gaps and
only the newest may be unfinished (`OperationsOK`); every release but the newest
is resolved and no active one is newer than the pointer (`ReleasesOK`); the
pointers are consistent (`PointersOK`); a terminal newest operation leaves a
settled history (`AdmissionOK`); and a running command works on the newest
operation and release (`RunOK`). Each part needs the others: that a deployment
is admitted only on a settled history is what keeps `ReleasesOK` when it creates
the next release, and the takeover keeps `OperationsOK` because `RunOK` says the
release it takes is the newest. From it follow `OneUnfinished`, `Admission`,
`Pointers` and `EvidenceKept`, for any number of releases, operations and writes
and any set of faults. Both invariants were checked by TLC before they were proved.

`DeployWorld_proofs` ties that history to the managed world, under every fault. Its
invariant `WorldOK` has ten parts: what manifests say beyond what their validator
demands (`ManifestsOK`); that a deployment starts with nothing noted (`StartOK`),
that what it remembers in `_Context` agrees with its manifest at every step
(`AttemptOK`, with `StageFits`), and that the journal names the same stage, or an
announcement that is made once (`JournalOK`); which applications may exist and run (`AppsOK`) and
what the running deployment did to them (`AttemptAppsOK`); which intents cover
which effects (`IntentOK`); when the database may hold a part of a migration
(`PartialOK`); when users are not blocked (`MaintenanceOK`); and how far a plan of
recovery was carried out (`PlanRunOK`). `OneAppOnDatabase` shows why they need each
other: that a start finds the other application stopped follows from the stage,
that the stage is the one in the manifest from `AttemptOK`, and that a recovery
restarts the previous application only after it removed the new one from the order
of the plan. From `WorldOK` follow `OneApp`, `IntentFirst`, `MaintenanceIsTold`,
`RecoveryMarks` and `WritesAccepted`, and with it every step of both commands and of
the environment maps to a step of `ServiceContract` or a stutter (`KeepsContract`).
`WritesAccepted` covers every write of a deployment that a store may refuse:
`JournalOK` gives that the journal never sees a stage twice, `ManifestsOK` and
`AttemptOK` that the manifest of each intent, stage and outcome has the facts its
validator demands.
`RequireRecovery` alone may be refused, and the code goes on when it is.

`DeployPromises_proofs` is about users. Its invariant `PromisesOK` says that the hook
event in the journal is what the manifest and the command believe (`HookOK`); that
once the hook has passed the newest release serves (`ForwardOK`); that until then
there is a way back (`BackwardOK`: users are routed to the active release or to the
newest one, and before the intent to switch, or when the hook never started, to the
active one; before the intent to migrate, the database has its schema; the
final backup has its schema always, and holds every acknowledged write as long as
the active application is stopped under maintenance); what a deployment knows of
production at each step (`ProductionOK`); and what a recovery that goes back has
restored by each step of its plan (`WayBackOK`). The last clause of `BackwardOK`
carries the promise about writes: a restore, by a rollback or by a recovery, happens
only while the active application is stopped, and then loses nothing. The clause
about the route is what `RestoredOnlyQuiet` adds to that: a rollback starts only when
the hook was not attempted or never started (the last part of `HookOK`), so a
deployment changes the database with users on the active release. A recovery may
find them on the release whose activation was attempted, behind the maintenance page:
`PreviousActions` restores the database before it routes back. The invariant
holds under every fault, because each clause says which fault it does not survive
(`Runs`, `Covers`, `OnSchema`), so each theorem assumes only what it needs:
`WritesKept` that the host does not restart, `NoWayBack` that no migration outlives
its command, `OutcomesTrue` and `RestoredOnlyQuiet` both. The table in "The runs"
shows that each of these hypotheses is needed.

`StateDirectory_proofs` shows every safety property of the runs `journal` and
`status` without hypotheses. The invariant `DirectoryOK` says that only the holder of
the lock runs (`LockOK`); that only the newest operation may be unfinished or
unreadable (`FilesOK`), which is why a command that was admitted by looking at all of
them may end the newest one; what is in the log, the temporary file and the manifest
at each step of a write (`WriteOK`); that until a command has recorded itself, owner
metadata that is still active names the operation it acknowledged (`Claiming`), so
that `record_owner` accepts it; and that what a status has read so far is still true
of operations that ended (`ReaderOK`). `FilesAreRecords` then maps each system call to a
step of `OperationRecords` or a stutter: the replacement of the manifest is the step
of a record, a death between the append and the replacement is the one that makes it
unreadable.

TLC checked all three invariants on the instances of the runs before they were
proved, `PromisesOK` with all four faults.

`CandidateStage_proofs` shows `StageEndsClean` (an operation that ended succeeded
or failed_safe has left no candidate, no network and no copy of the database),
`StageBeginsClean` and, when an error cannot hide a failed kill,
`StageKillsProven`. The invariant follows the stage: what cannot have been made
before the first command (`BeforeCommands`), which command runs with Docker
touched or not (`DuringCommands`), what a rejected or stopped start has left
(`AfterStart`), that a process which outlived its kill is still an error
(`UnprovenIsError`), and what is known when the outcome is recorded (`AtTheEnd`),
which must also survive the processes and the daemon that go on afterwards.

`ManualRestore_proofs` shows seven properties and the refinement of
`RestorePromise`. Its invariant has eight parts: `Types`; `Context`, that the
flags of `_RestoreContext` tell how far the command got, which is what makes
`NeedsRecovery` decide correctly; `OriginalKept`, that whoever may start over, or
report that nothing changed, finds the original database on both media;
`Running`, that each application runs on its own database only; `Blocked`, that
maintenance and route are what the step assumes; `Logs`, that a log on either
medium belongs to both main files, any pair of which a power loss may leave;
`Saved`, that while users are blocked the pre-restore backup covers every
acknowledged write; and `Recorded`, that the records name no later stage than the
command reached. `LogsBelong`, `WritesKept`, `ReplacedOnlyQuiet`,
`NeverReplacedAgain` and `TypesKept` hold for any failing call. `EvidenceFirst`,
`OutcomesTrue` and `RestoreImplementsPromise` assume `~SwapFaults`, because
`claim_original_restored` shows that the code breaks what they rest on. TLC
checked the invariant first, with `SwapFaults` both ways, as it did that of the
backups with `MarkerFaults` both ways and late metadata.

The assumptions are the ones the modules name: `HostAssumption` (the bounds are
natural numbers, the faults are among the four), `StateDirectoryAssumption` (the
same of its bounds and faults, a log has room for one event, status is no command),
`StageAssumption`,
`RestoreAssumption` (the same of theirs) and `OwnAssumption` (the application's
own write is none of the users'). `BackupStorage` has `BoundAssumption`,
`ForeignAssumption`, `KeepLastAssumption` (at least one backup is kept, as the
configuration demands) and `LateAssumption`.

`BackupStorage_proofs` shows the whole run `backups` for every bound. Its
invariant says how far a command got with the files of its own backup (`Own`,
`Published`), that metadata on either side of a power loss has its database on
both (`Marked`), that a reported backup has both files for good or lost both
(`Filed`) and then has its replica (`Opening`), that a referenced backup of a
required policy is in the bucket (`Replicated`), and that what retention has
chosen may go in the order it goes, while the rest fits the policy (`Chosen`).
The last part carries the argument about retention: the rule of a backup counts
only newer ones, so taking the oldest first changes no other verdict
(`SparedSmaller`), and the oldest backup the plan leaves has fewer than
`keep_last` newer ones, which bounds how many are left (`DoomedFits`).
`TypesKept`, `ReplicasKept` and `RetentionKept` hold unconditionally;
`MarkersKept` assumes `~MarkerFaults`, `PolicyReached` that no metadata lands
late, `FinalsOpen` and `StoresKeepPromise` at most one lost copy. Each of these is
needed: `claim_marker` and the instance with late metadata break the first two,
and two lost copies of one backup leave none.

Model-checked only: liveness (`CommandEnds`, `LockIsReleased`, `RestoreEnds`,
`StageEnds`), which TLAPS does not reach, as it reaches neither ENABLED nor
induction over data nor RECURSIVE operators (none is used here). Every other
property of a passing run is a theorem; those of the claims are false, and TLC has
their counterexamples.

## Not modelled

- failures of the durable writes in deploy and recover (a full disk): they are below
  the atomic records of `Host`. `StateDirectory` has them for operations and the
  lock, `ManualRestore` and `CandidateStage` for their own records; those of the
  release store are modelled only for the pointers a restore swaps;
- in `ManualRestore`, a torn record of the rollback or of a hook as something other
  than a missing one;
- the errors of a directory sync that `local.py` ignores (lines 23 and 269): in
  `BackupStorage` a sync that returns has made the entries durable;
- containers that exit on their own while the host is up, in `Host` (in a reboot
  they all stop);
- data that was written but not synced when the host goes down, outside the backup
  directory (`BackupStorage`) and the database files (`ManualRestore`); foreign
  files and file modes in the state directory;
- the database of `Host` is one value: the write-ahead log is in `ManualRestore`
  only;
- `restore_stopped_database` and `rehearse_configured_migration`: no command calls
  them;
- an upload over objects the bucket already holds (identities are fresh in every
  command), the access probe, the retries inside the SDK;
- the single HTTP attempts of a health check: a check passes or does not before its
  deadline;
- the plans of recovery that refuse (manual): they write nothing;
- releases written by older versions without intent markers;
- `doctor`, configuration, CLI, redaction, errors: they keep no state; the
  demo, examples and scripts are not part of the program.

## Plan

1. Done: the core (`ReleaseStates`, `Host`, `Deploy`, `Recover`,
   `DeploySystem`, `ServiceContract`) and its first theorems.
2. Done: `StateDirectory` and `OperationRecords`, the journal and the lock below the
   records of `Host`.
3. Done: `ManualRestore` with the replacement of the database files, and its proofs.
4. Done: `BackupStorage`, the local publication, the remote copy and retention, and
   its proofs.
5. Done: `CandidateStage` with the subprocess runner and the checks, and its proof.
6. Done: proofs about `StateDirectory` and the refinement of `OperationRecords`.
7. Done: proofs about `DeploySystem`, what survives every fault, the refinement of
   `ServiceContract`, and the promises to users.
8. `Host` with the two files of the database, and failures of the writes of the
   release store.
