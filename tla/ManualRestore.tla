----------------------------- MODULE ManualRestore -----------------------------
(***************************************************************************)
(* dploydb restore: put the database of the protected previous release     *)
(* back and serve that release again.  The command runs under the          *)
(* deployment lock while users write; every record, hook, container        *)
(* command and file operation may fail, before or after its effect; the    *)
(* command may be killed and the host may lose power at any step.          *)
(*                                                                         *)
(* The production database is two files, the main file and the write-ahead *)
(* log of the last commits; disk is what a power loss leaves of them.      *)
(***************************************************************************)
EXTENDS Naturals

CONSTANTS
    Writes,         \* the writes users may send
    MaxRestores,    \* bound on the restores requested
    MaxFaults,      \* bound on the calls that fail
    MaxCrashes,     \* bound on kills, interrupts and power losses
    SwapFaults      \* whether the swap may fail once the log is removed

ASSUME RestoreAssumption ==
    MaxRestores \in Nat /\ MaxFaults \in Nat /\ MaxCrashes \in Nat /\ SwapFaults \in BOOLEAN

(* The active release and its protected predecessor; a database is of the  *)
(* release that last migrated it.                                          *)
Releases == {"current", "selected"}

(* A write the application makes for itself; nobody was told about it. *)
Own == "own"

ASSUME OwnAssumption == Own \notin Writes

Content == [base : Releases \cup {"corrupt"}, writes : SUBSET (Writes \cup {Own})]
NoLog == [base |-> "current", writes |-> {}]

VARIABLES
    (* the managed world *)
    db,          \* the main database file
    wal,         \* its write-ahead log, NoLog when there is none
    disk,        \* both files as a power loss would leave them
    app,         \* container state of both applications
    target,      \* the application the traffic hooks route to
    maintenance, \* whether users are blocked
    acked,       \* writes acknowledged to users
    saved,       \* writes in published PRE_RESTORE backups
    (* durable state of DployDB *)
    op,          \* the latest operation
    nops,        \* the restores requested so far
    owner,       \* state of the lock owner metadata
    active,      \* active_release_id of the release pointers
    (* the command that holds the lock *)
    pc, me,
    (* the bounds *)
    faults, crashes

files == <<db, wal, disk>>
routing == <<app, target, maintenance>>
record == <<op, nops, owner, active>>
vars == <<files, routing, acked, saved, record, pc, me, faults, crashes>>

(* What opening the database shows: SQLite replays the log into the main   *)
(* file, whose pages a log of another database does not fit.               *)
Live ==
    IF wal.writes = {} THEN db
    ELSE [base   |-> IF wal.base = db.base THEN db.base ELSE "corrupt",
          writes |-> IF wal.base = db.base THEN db.writes \cup wal.writes ELSE {}]

(* The final backup of the active release: the database of its predecessor *)
(* at the cutover.  open_verified_configured_backup has proved it.         *)
SelectedBackup == [base |-> "selected", writes |-> {}]

NoOperation == [status |-> "none", stage |-> "none", changed |-> FALSE, torn |-> FALSE]

(* _RestoreContext, whether the rollback runs, and the terminal record. *)
NoContext ==
    [pre |-> {}, stop_attempted |-> FALSE, stopped |-> FALSE, restart_attempted |-> FALSE,
     running |-> FALSE, replaced |-> FALSE, attempted |-> FALSE, exposed |-> FALSE,
     rollback |-> FALSE, outcome |-> "none", changed |-> FALSE]

Init ==
    /\ db = [base |-> "current", writes |-> {}] /\ wal = NoLog /\ disk = [db |-> db, wal |-> NoLog]
    /\ app = [r \in Releases |-> IF r = "current" THEN "running" ELSE "stopped"]
    /\ target = "current" /\ maintenance = FALSE /\ acked = {} /\ saved = {}
    /\ op = NoOperation /\ nops = 0 /\ owner = "none" /\ active = "current"
    /\ pc = "idle" /\ me = NoContext
    /\ faults = 0 /\ crashes = 0

Fault == faults < MaxFaults /\ faults' = faults + 1
Works == UNCHANGED faults
Goto(p) == pc' = p /\ UNCHANGED me

------------------------------------------------------------------------------
(* Errors.                                                                  *)

(* A mutant: a start that raised is taken for no start. *)
NeedsRecovery_TrustsRestart(error, m) ==
    \/ error = "recovery"
    \/ error = "raw" /\ m.stop_attempted /\ ~m.stopped
    \/ m.attempted \/ m.exposed

(* A mutant: an exposed database may be rolled back. *)
NeedsRecovery_ForgetsExposure(error, m) ==
    \/ error = "recovery"
    \/ error = "raw" /\ m.stop_attempted /\ ~m.stopped
    \/ error = "raw" /\ m.restart_attempted /\ ~m.running

(* Errors are "recovery" (RecoveryRequiredError, and every failed record), *)
(* "failed" (another DployDBError) or "raw" (anything else, the production *)
(* runner's errors among them): _normalize_restore_coordinator_error and   *)
(* the test the coordinator makes of its answer.                           *)
NeedsRecovery(error, m) ==
    \/ error = "recovery"
    \/ error = "raw" /\ m.stop_attempted /\ ~m.stopped
    \/ error = "raw" /\ m.restart_attempted /\ ~m.running
    \/ m.attempted \/ m.exposed

Finish(m, outcome) ==
    pc' = "finish" /\ me' = [m EXCEPT !.outcome = outcome, !.changed = m.replaced]

(* An error inside the rollback always needs recovery. *)
Fail(error, m) ==
    IF m.rollback \/ NeedsRecovery(error, m)
    THEN Finish(m, "recovery_required")
    ELSE pc' = "rollback_stop" /\ me' = [m EXCEPT !.rollback = TRUE]

------------------------------------------------------------------------------
(* Records.                                                                 *)

Row(stage, changed, mark, next) ==
    [stage |-> stage, changed |-> changed, mark |-> mark, next |-> next]

(* What each step records: the stage of a transition ("same" for an event  *)
(* of the current stage), its production_changed, the flag set before it,  *)
(* and the step after it.  The event of a hook or an inspection is one     *)
(* record with the transition that follows it.                             *)
Journal ==
    [record_maintained |-> Row("manual_restore_maintenance_enabled", FALSE, "none", "stop"),
     record_stopped    |-> Row("manual_restore_current_app_stopped", FALSE, "none", "backup"),
     record_prepared   |-> Row("manual_restore_prepared", FALSE, "none", "record_started"),
     record_started    |-> Row("manual_restore_started", TRUE, "none", "stage"),
     note_restored     |-> Row("same", TRUE, "none", "restart"),
     note_restarted    |-> Row("same", TRUE, "none", "check"),
     record_healthy    |-> Row("manual_restore_selected_healthy", TRUE, "none", "record_activation"),
     record_activation |-> Row("manual_restore_traffic_activation_started", TRUE, "attempted", "route"),
     record_routed     |-> Row("manual_restore_traffic_target_selected", TRUE, "none", "record_exposure"),
     record_exposure   |-> Row("manual_restore_maintenance_disable_started", TRUE, "exposed", "expose")]

(* Mutants: the replacement is announced once it is done; the backup of    *)
(* the current state is forgotten.                                         *)
Records_Late ==
    [Journal EXCEPT !.record_prepared.next = "stage",
                    !.note_restored = Row("manual_restore_started", TRUE, "none", "restart")]
Records_Unsaved == [Journal EXCEPT !.record_stopped.next = "record_prepared"]

Records == Journal

(* StateStore.transition appends the event and then replaces the manifest: *)
(* it may fail before both, between them (the records then contradict each *)
(* other for every later reader) or after both.                            *)
RecordFails(new) == Fault /\ op' \in {op, [op EXCEPT !.torn = TRUE], new}

Transition ==
    /\ pc \in DOMAIN Records
    /\ LET row == Records[pc]
           m == CASE row.mark = "attempted" -> [me EXCEPT !.attempted = TRUE]
                  [] row.mark = "exposed" -> [me EXCEPT !.exposed = TRUE]
                  [] OTHER -> me
           new == IF row.stage = "same" THEN op
                  ELSE [op EXCEPT !.stage = row.stage, !.changed = row.changed]
       IN  \/ Works /\ op' = new /\ pc' = row.next /\ me' = m
           \/ RecordFails(new) /\ Fail("recovery", m)
    /\ UNCHANGED <<files, routing, acked, saved, nops, owner, active, crashes>>

(* _finish_restore_failure leaves a terminal operation alone.  When its    *)
(* own record fails, restore_configured_release tries once more.           *)
FinishRestoreFailure ==
    /\ pc \in {"finish", "finish_again"}
    /\ LET new == [op EXCEPT !.status = me.outcome, !.stage = me.outcome, !.changed = me.changed]
           again == IF pc = "finish" THEN "finish_again" ELSE "unlock"
           worse == [me EXCEPT !.outcome = "recovery_required", !.changed = TRUE]
       IN  \/ op.status # "in_progress" /\ Works /\ UNCHANGED op /\ Goto("unlock")
           \/ op.status = "in_progress" /\ ~op.torn /\ Works /\ op' = new /\ Goto("unlock")
           \/ op.status = "in_progress" /\ op.torn /\ Works /\ UNCHANGED op
              /\ pc' = again /\ me' = worse
           \/ op.status = "in_progress" /\ ~op.torn /\ RecordFails(new)
              /\ pc' = again /\ me' = worse
    /\ UNCHANGED <<files, routing, acked, saved, nops, owner, active, crashes>>

------------------------------------------------------------------------------
(* The command starts.                                                      *)

(* require_clean_operation_state; contradictory records stop every reader. *)
CleanOperationState ==
    /\ owner # "active" /\ ~op.torn
    /\ op.status \notin {"in_progress", "recovery_required"}

(* preview_configured_restore: the selected release is the predecessor of  *)
(* the active one in the pointers and in the active manifest.  After one   *)
(* restore the manifest of the active release names an older predecessor.  *)
PreviewAllows == active = "current"

StartRestore ==
    /\ pc = "idle" /\ nops < MaxRestores
    /\ CleanOperationState /\ PreviewAllows
    /\ op' = [NoOperation EXCEPT !.status = "in_progress", !.stage = "restore_previewed"]
    /\ nops' = nops + 1
    /\ Works /\ Goto("record_owner")
    /\ UNCHANGED <<files, routing, acked, saved, owner, active, crashes>>

(* The owner is recorded before the handlers are in place: a failure here  *)
(* leaves the operation in progress.                                       *)
RecordOwner ==
    /\ pc = "record_owner"
    /\ \/ Works /\ owner' = "active" /\ Goto("open")
       \/ Fault /\ UNCHANGED owner /\ Goto("unlock")
    /\ UNCHANGED <<files, routing, acked, saved, op, nops, active, crashes>>

(* A mutant: the backup is opened before the handlers are in place. *)
OpenSelectedBackup_Unguarded ==
    /\ pc = "open"
    /\ \/ Works /\ Goto("inspect")
       \/ Fault /\ Goto("unlock")
    /\ UNCHANGED <<files, routing, acked, saved, record, crashes>>

(* The selected backup is opened and verified, then both containers are    *)
(* inspected; without a backup nothing has to be rolled back.              *)
OpenSelectedBackup ==
    /\ pc = "open"
    /\ \/ Works /\ Goto("inspect")
       \/ Fault /\ Finish(me, "failed_safe")
    /\ UNCHANGED <<files, routing, acked, saved, record, crashes>>

InspectApplications ==
    /\ pc = "inspect"
    /\ \/ Works /\ app["current"] = "running" /\ app["selected"] = "stopped" /\ Goto("maintain")
       \/ Fault /\ Fail("raw", me)
       \/ Works /\ app["current"] # "running" /\ Fail("raw", me)
    /\ UNCHANGED <<files, routing, acked, saved, record, crashes>>

(* DeploymentLock.release, whatever the command returned or raised. *)
Unlock ==
    /\ pc = "unlock"
    /\ owner' = IF owner = "active" THEN "released" ELSE owner
    /\ Works /\ pc' = "idle" /\ me' = NoContext
    /\ UNCHANGED <<files, routing, acked, saved, op, nops, active, crashes>>

------------------------------------------------------------------------------
(* Hooks and containers.  A hook or a docker command that fails may have   *)
(* had its effect, unless it never started.                                *)

EnableMaintenance ==
    /\ pc = "maintain"
    /\ \/ Works /\ maintenance' = TRUE /\ Goto("record_maintained")
       \/ Fault /\ maintenance' \in BOOLEAN /\ Goto("undo_maintenance")
    /\ UNCHANGED <<files, app, target, acked, saved, record, crashes>>

(* A passing cleanup still raises the hook's error, which needs recovery   *)
(* when the hook could not be terminated.                                  *)
UndoMaintenance ==
    /\ pc = "undo_maintenance"
    /\ \/ Works /\ maintenance' = FALSE /\ \E error \in {"failed", "recovery"} : Fail(error, me)
       \/ Fault /\ maintenance' \in {maintenance, FALSE} /\ Fail("recovery", me)
    /\ UNCHANGED <<files, app, target, acked, saved, record, crashes>>

(* Container r leaves: by itself, closing the database, which empties the  *)
(* log into the main file; or killed at the stop timeout, with its log.    *)
Leaves(r) ==
    /\ app' = [app EXCEPT ![r] = "stopped"]
    /\ \/ UNCHANGED files
       \/ db' = Live /\ wal' = NoLog /\ disk' = [db |-> Live, wal |-> NoLog]

(* stop_current proves the stop by an inspection. *)
StopCurrent ==
    /\ pc = "stop"
    /\ \/ Works /\ Leaves("current") /\ pc' = "record_stopped"
          /\ me' = [me EXCEPT !.stop_attempted = TRUE, !.stopped = TRUE]
       \/ Fault /\ (Leaves("current") \/ UNCHANGED <<app, files>>)
          /\ Fail("raw", [me EXCEPT !.stop_attempted = TRUE])
    /\ UNCHANGED <<target, maintenance, acked, saved, record, crashes>>

(* restart_previous inspects the container before and after the start. *)
Restart(r) == app[r] = "stopped" /\ app' = [app EXCEPT ![r] = "running"]

RestartSelected ==
    /\ pc = "restart"
    /\ LET m == [me EXCEPT !.restart_attempted = TRUE]
       IN  \/ Works /\ Restart("selected") /\ pc' = "note_restarted"
              /\ me' = [m EXCEPT !.running = TRUE]
           \/ Fault /\ (Restart("selected") \/ UNCHANGED app) /\ Fail("raw", m)
    /\ UNCHANGED <<files, target, maintenance, acked, saved, record, crashes>>

(* verify_sqlite_database and the health check at the production address. *)
Healthy(r) == app[r] = "running" /\ Live.base = r

CheckSelected ==
    /\ pc = "check"
    /\ \/ Works /\ Healthy("selected") /\ Goto("record_healthy")
       \/ Works /\ ~Healthy("selected") /\ Fail("raw", me)
       \/ Fault /\ Fail("raw", me)
    /\ UNCHANGED <<files, routing, acked, saved, record, crashes>>

(* activate_old: only a hook that never started leaves the route alone. *)
ActivateOld ==
    /\ pc = "route"
    /\ \/ Works /\ target' = "selected" /\ Goto("record_routed")
       \/ Fault /\ UNCHANGED target /\ Fail("failed", [me EXCEPT !.attempted = FALSE])
       \/ Fault /\ target' \in {target, "selected"} /\ Fail("failed", me)
    /\ UNCHANGED <<files, app, maintenance, acked, saved, record, crashes>>

DisableMaintenance ==
    /\ pc = "expose"
    /\ \/ Works /\ maintenance' = FALSE /\ Goto("select")
       \/ Fault /\ maintenance' \in BOOLEAN /\ Fail("recovery", me)
    /\ UNCHANGED <<files, app, target, acked, saved, record, crashes>>

(* ReleaseStore.activate_release swaps the pointers. *)
ActivateRelease ==
    /\ pc = "select"
    /\ \/ Works /\ active' = "selected" /\ Goto("succeed")
       \/ Fault /\ active' \in {active, "selected"} /\ Fail("failed", me)
    /\ UNCHANGED <<files, routing, acked, saved, op, nops, owner, crashes>>

Succeed ==
    /\ pc = "succeed"
    /\ LET new == [op EXCEPT !.status = "succeeded", !.stage = "manual_restore_completed",
                             !.changed = TRUE]
       IN  \/ Works /\ op' = new /\ Goto("unlock")
           \/ RecordFails(new) /\ Fail("recovery", me)
    /\ UNCHANGED <<files, routing, acked, saved, nops, owner, active, crashes>>

------------------------------------------------------------------------------
(* The database.                                                            *)

(* A mutant: the backup reads the main file alone. *)
BackupCurrent_MainOnly ==
    /\ pc = "backup"
    /\ \/ Works /\ me' = [me EXCEPT !.pre = {db}] /\ saved' = saved \cup db.writes
          /\ pc' = "record_prepared"
       \/ Fault /\ UNCHANGED saved /\ Fail("failed", me)
    /\ UNCHANGED <<files, routing, acked, record, crashes>>

(* create_verified_backup of the stopped database, through SQLite and so   *)
(* with the log.                                                           *)
BackupCurrent ==
    /\ pc = "backup"
    /\ \/ Works /\ me' = [me EXCEPT !.pre = {Live}] /\ saved' = saved \cup Live.writes
          /\ pc' = "record_prepared"
       \/ Fault /\ UNCHANGED saved /\ Fail("failed", me)
    /\ UNCHANGED <<files, routing, acked, record, crashes>>

(* What is put in place: the selected backup, or in a rollback the one     *)
(* made before the restore.                                                *)
Source == IF me.rollback THEN me.pre ELSE {SelectedBackup}

(* restore_verified_database, in its steps: a verified copy beside the     *)
(* database, the log unlinked and the unlink synced, the replacement, the  *)
(* proof.  Errors before the replacement are OperationFailedErrors.        *)
StageBackup ==
    /\ pc = "stage"
    /\ \/ Works /\ Goto("remove_sidecars")
       \/ Fault /\ Fail("failed", me)
    /\ UNCHANGED <<files, routing, acked, saved, record, crashes>>

(* A mutant: the log of the old database stays. *)
RemoveSqliteSidecars_Skipped ==
    /\ pc = "remove_sidecars"
    /\ Works /\ Goto("replace")
    /\ UNCHANGED <<files, routing, acked, saved, record, crashes>>

RemoveSqliteSidecars ==
    /\ pc = "remove_sidecars"
    /\ \/ Works /\ wal' = NoLog /\ Goto("sync_sidecars")
       \/ Fault /\ UNCHANGED wal /\ Fail("failed", me)
    /\ UNCHANGED <<db, disk, routing, acked, saved, record, crashes>>

SyncSidecars ==
    /\ pc = "sync_sidecars"
    /\ \/ Works /\ disk' = [disk EXCEPT !.wal = wal] /\ Goto("replace")
       \/ SwapFaults /\ Fault /\ UNCHANGED disk /\ Fail("failed", me)
    /\ UNCHANGED <<db, wal, routing, acked, saved, record, crashes>>

ReplaceDatabase ==
    /\ pc = "replace"
    /\ \/ Works /\ db' \in Source /\ Goto("prove")
       \/ SwapFaults /\ Fault /\ UNCHANGED db /\ Fail("failed", me)
    /\ UNCHANGED <<wal, disk, routing, acked, saved, record, crashes>>

(* A replacement that was not synced or verified needs recovery. *)
ProveDatabase ==
    /\ pc = "prove"
    /\ \/ Works /\ disk' = [disk EXCEPT !.db = db]
          /\ IF me.rollback
             THEN Goto("rollback_restart")
             ELSE pc' = "note_restored" /\ me' = [me EXCEPT !.replaced = TRUE]
       \/ Fault /\ disk' \in {disk, [disk EXCEPT !.db = db]} /\ Fail("recovery", me)
    /\ UNCHANGED <<db, wal, routing, acked, saved, record, crashes>>

------------------------------------------------------------------------------
(* _rollback_manual_restore.                                                *)

RollbackStop ==
    /\ pc = "rollback_stop"
    /\ LET next == IF me.replaced THEN "stage" ELSE "rollback_restart"
       IN  \/ ~me.running /\ Works /\ UNCHANGED <<app, files>> /\ Goto(next)
           \/ me.running /\ Works /\ Leaves("selected") /\ pc' = next
              /\ me' = [me EXCEPT !.running = FALSE]
           \/ me.running /\ Fault /\ (Leaves("selected") \/ UNCHANGED <<app, files>>)
              /\ Fail("raw", me)
    /\ UNCHANGED <<target, maintenance, acked, saved, record, crashes>>

RollbackRestart ==
    /\ pc = "rollback_restart"
    /\ \/ ~me.stopped /\ Works /\ UNCHANGED app /\ Goto("rollback_route")
       \/ me.stopped /\ Works /\ Restart("current") /\ Goto("rollback_route")
       \/ me.stopped /\ Fault /\ (Restart("current") \/ UNCHANGED app) /\ Fail("raw", me)
    /\ UNCHANGED <<files, target, maintenance, acked, saved, record, crashes>>

RollbackRoute ==
    /\ pc = "rollback_route"
    /\ \/ Works /\ target' = "current" /\ Goto("rollback_reopen")
       \/ Fault /\ target' \in {target, "current"} /\ Fail("raw", me)
    /\ UNCHANGED <<files, app, maintenance, acked, saved, record, crashes>>

RollbackReopen ==
    /\ pc = "rollback_reopen"
    /\ \/ Works /\ maintenance' = FALSE /\ Goto("rollback_check")
       \/ Fault /\ maintenance' \in {maintenance, FALSE} /\ Fail("raw", me)
    /\ UNCHANGED <<files, app, target, acked, saved, record, crashes>>

(* A mutant: the rollback is over once maintenance is off. *)
RollbackCheck_Trusts ==
    /\ pc = "rollback_check"
    /\ Works /\ Finish(me, "failed_safe")
    /\ UNCHANGED <<files, routing, acked, saved, record, crashes>>

RollbackCheck ==
    /\ pc = "rollback_check"
    /\ \/ Works /\ Healthy("current") /\ Finish(me, "failed_safe")
       \/ Works /\ ~Healthy("current") /\ Fail("raw", me)
       \/ Fault /\ Fail("raw", me)
    /\ UNCHANGED <<files, routing, acked, saved, record, crashes>>

------------------------------------------------------------------------------
(* The environment.                                                         *)

(* A commit of the routed application, acknowledged and durable in the log. *)
UserWrite(w) ==
    /\ ~maintenance /\ app[target] = "running" /\ w \notin acked
    /\ wal' = [base |-> db.base, writes |-> wal.writes \cup {w}]
    /\ disk' = [disk EXCEPT !.wal = wal']
    /\ acked' = acked \cup {w}
    /\ UNCHANGED <<db, routing, saved, record, pc, me, faults, crashes>>

(* A running application commits something of its own. *)
OwnWrite ==
    /\ \E r \in Releases : app[r] = "running"
    /\ Own \notin wal.writes
    /\ wal' = [base |-> db.base, writes |-> wal.writes \cup {Own}]
    /\ disk' = [disk EXCEPT !.wal = wal']
    /\ UNCHANGED <<db, routing, acked, saved, record, pc, me, faults, crashes>>

(* SIGKILL: the kernel releases the lock, the owner metadata stays. *)
Kill ==
    /\ pc # "idle" /\ crashes < MaxCrashes /\ crashes' = crashes + 1
    /\ pc' = "idle" /\ me' = NoContext
    /\ UNCHANGED <<files, routing, acked, saved, record, faults>>

(* KeyboardInterrupt: no handler records it, the lock is released. *)
Interrupt ==
    /\ pc \notin {"idle", "unlock"} /\ crashes < MaxCrashes /\ crashes' = crashes + 1
    /\ owner' = IF owner = "active" THEN "released" ELSE owner
    /\ pc' = "idle" /\ me' = NoContext
    /\ UNCHANGED <<files, routing, acked, saved, op, nops, active, faults>>

(* The host stops: no process survives and no container restarts by        *)
(* itself; a directory entry that was not synced may be the old one.       *)
PowerLoss ==
    /\ crashes < MaxCrashes /\ crashes' = crashes + 1
    /\ db' \in {db, disk.db} /\ wal' \in {wal, disk.wal}
    /\ disk' = [db |-> db', wal |-> wal']
    /\ app' = [r \in Releases |-> "stopped"]
    /\ pc' = "idle" /\ me' = NoContext
    /\ UNCHANGED <<target, maintenance, acked, saved, record, faults>>

CommandStep ==
    \/ RecordOwner \/ OpenSelectedBackup \/ InspectApplications
    \/ EnableMaintenance \/ UndoMaintenance \/ Transition \/ StopCurrent
    \/ BackupCurrent \/ StageBackup \/ RemoveSqliteSidecars \/ SyncSidecars
    \/ ReplaceDatabase \/ ProveDatabase \/ RestartSelected \/ CheckSelected
    \/ ActivateOld \/ DisableMaintenance \/ ActivateRelease \/ Succeed
    \/ RollbackStop \/ RollbackRestart \/ RollbackRoute \/ RollbackReopen
    \/ RollbackCheck \/ FinishRestoreFailure \/ Unlock

Environment ==
    \/ \E w \in Writes : UserWrite(w)
    \/ OwnWrite \/ Kill \/ Interrupt \/ PowerLoss

Next == StartRestore \/ CommandStep \/ Environment

(* Every command and hook the restore runs has a timeout, so a restore     *)
(* that was started goes on; nothing else has to happen.                   *)
Spec == Init /\ [][Next]_vars /\ WF_vars(CommandStep)

------------------------------------------------------------------------------
(* Properties.                                                              *)

Steps ==
    DOMAIN Records \cup
    {"idle", "record_owner", "open", "inspect", "maintain", "undo_maintenance", "stop",
     "backup", "stage", "remove_sidecars", "sync_sidecars", "replace", "prove", "restart",
     "check", "route", "expose", "select", "succeed", "rollback_stop", "rollback_restart",
     "rollback_route", "rollback_reopen", "rollback_check", "finish", "finish_again",
     "unlock"}

Early ==
    {"restore_previewed", "manual_restore_maintenance_enabled",
     "manual_restore_current_app_stopped", "manual_restore_prepared"}

Outcomes == {"none", "succeeded", "failed_safe", "recovery_required"}

(* Files, containers and records hold what the code keeps there, and the   *)
(* rollback and a replaced database always have their backup at hand.      *)
TypeOK ==
    /\ db \in Content /\ wal \in Content /\ disk \in [db : Content, wal : Content]
    /\ app \in [Releases -> {"running", "stopped"}]
    /\ target \in Releases /\ active \in Releases /\ maintenance \in BOOLEAN
    /\ acked \subseteq Writes /\ saved \subseteq Writes \cup {Own}
    /\ op.status \in Outcomes \cup {"in_progress"}
    /\ op.stage \in {Records[p].stage : p \in DOMAIN Records} \cup Early \cup Outcomes
                    \cup {"manual_restore_completed"}
    /\ owner \in {"none", "active", "released"} /\ nops \in 0..MaxRestores
    /\ pc \in Steps /\ me.pre \subseteq Content
    /\ me.replaced => me.pre # {}

(* A write users were told about is in the database or in a PRE_RESTORE    *)
(* backup, whatever failed and wherever the power went (README.md:284      *)
(* creates and verifies the backup first).                                 *)
NoWriteDiscarded == acked \subseteq Live.writes \cup saved

(* SQLite would apply a log of another database to this one: no step and   *)
(* no power loss may pair them (_remove_sqlite_sidecars and its sync come  *)
(* before os.replace).                                                     *)
LogBelongsToDatabase == wal.writes # {} => wal.base = db.base

(* Until manual_restore_started is durable the original database is        *)
(* complete, so whoever finds an interrupted operation of an earlier stage *)
(* may restart the current application (the stages of _run_manual_restore).*)
EvidenceBeforeReplacement ==
    op.status = "in_progress" /\ op.stage \in Early
        => Live.base = "current" /\ acked \subseteq Live.writes

(* The database is replaced only while no application is running: neither  *)
(* an unproven stop nor an unproven start leads to a replacement           *)
(* (_normalize_restore_coordinator_error).                                 *)
QuiescedReplacement ==
    [][db'.base # db.base => \A r \in Releases : app[r] = "stopped" \/ app'[r] = "stopped"]_vars

(* Once the intent to let users in is recorded, no step puts another       *)
(* database under them (manual_restore.py:533).                            *)
NoReplacementAfterExposure ==
    [][op.stage = "manual_restore_maintenance_disable_started" => db'.base = db.base]_vars

Serves(r) == ~maintenance /\ target = r /\ app[r] = "running" /\ Live.base = r

(* What a terminal record says is so: after succeeded the selected release *)
(* serves its database and is the active one; after failed_safe, unless    *)
(* nothing was begun, the current one serves all its writes.               *)
OutcomeIsTrue ==
    [][op'.status # op.status =>
        /\ op'.status = "succeeded" => Serves("selected") /\ active = "selected"
        /\ op'.status = "failed_safe" /\ me.rollback =>
              Serves("current") /\ acked \subseteq Live.writes]_vars

(* Unless it is killed, or two calls fail, a restore that opened its       *)
(* backup ends with a terminal record.                                     *)
RestoreEnds ==
    pc = "open" ~> (op.status # "in_progress" \/ crashes > 0 \/ faults > 1 \/ op.torn)

(* What the service shows, as the abstract specification sees it; "wrong"  *)
(* is a database of the other release, or the original short of a write.   *)
service ==
    IF maintenance \/ app[target] = "stopped" THEN "blocked"
    ELSE IF Serves("current") /\ acked \subseteq Live.writes THEN "original"
    ELSE IF Serves("selected") THEN "restored" ELSE "wrong"

Promise == INSTANCE RestorePromise WITH
    Writes <- Writes, service <- service, acked <- acked, archived <- saved \cap Writes,
    switched <- target = "selected" /\ ~maintenance

(* The restore implements its promise to users. *)
ImplementsPromise == Promise!Spec

(* manual_restore.py:670: "manual restore did not complete; the original   *)
(* database and application were restored and verified".                   *)
OriginalRestored == op.status = "failed_safe" => acked \subseteq Live.writes

(* IMPLEMENTATION_PLAN.md:2672: every error explains whether production    *)
(* changed; the terminal record carries its answer.                        *)
ChangeIsReported ==
    op.status \in {"failed_safe", "recovery_required"} /\ ~op.changed => db.base = "current"

(* The answer of dploydb recover: a restore has no release manifest, so    *)
(* the newest release with an operation of its own is judged; it is the    *)
(* active one, and terminal.  Contradictory records raise instead.         *)
RecoveryAnswersNoAction == pc = "idle" /\ op.status # "none" /\ ~op.torn

(* recovery.py:987: "The deployment already has a proven terminal state.", *)
(* "No recovery action is required."  Then users are not blocked.          *)
NoActionMeansServing == RecoveryAnswersNoAction => ~maintenance
=============================================================================
