-------------------------------- MODULE Deploy --------------------------------
(***************************************************************************)
(* The deploy command: candidate stages, the cutover in maintenance, the   *)
(* activation of the new release, and the rollback or the recovery marker  *)
(* when a step fails.  Each step is one durable write or one external      *)
(* command, so that a crash can fall between any two of them.              *)
(***************************************************************************)
EXTENDS Host

Severities == {"safe", "recovery"}

(* A step raises an error that does or does not require recovery. *)
Fail(e) == pc' = "failed" /\ me' = [me EXCEPT !.err = e]

(* The work of stage s is done: persist it. *)
Persist(s) == pc' = "persist" /\ me' = [me EXCEPT !.stage = s]

(* A rollback step that took effect: the coordinator goes on, or cannot    *)
(* prove it and requires recovery.                                         *)
RollbackOn(p) == Goto(p) \/ Goto("require_recovery")

(* What follows once stage s is durable. *)
After(s) ==
    CASE s = "candidate_healthy"       -> "resolve"
      [] s = "maintenance_enabled"     -> "stop"
      [] s = "current_app_stopped"     -> "create_final"
      [] s = "final_snapshot_verified" -> "replicate"
      [] s = "production_migrated"     -> "start_new"
      [] s = "new_app_healthy"         -> "intend_activation"
      [] s = "traffic_activated"       -> "disable_maintenance"
      [] s = "rollback_started"        -> "remove_new"
      [] OTHER                         -> "candidate"

------------------------------------------------------------------------------
(* Start: the operation, the lock owner, the release.                       *)

StartDeploy ==
    /\ pc = "idle" /\ nrels < MaxRel
    /\ CleanOperationState
    /\ CreateOperation([NoOperation EXCEPT !.type = "deploy", !.status = "in_progress",
                                           !.stage = "created"])
    /\ pc' = "record_owner" /\ me' = [NoContext EXCEPT !.op = nops + 1]
    /\ UNCHANGED <<rels, nrels, active, previous, owner, world>>

RecordOwner ==
    /\ pc = "record_owner"
    /\ owner' = [op |-> me.op, state |-> "active"]
    /\ Goto("create_release")
    /\ UNCHANGED <<ops, nops, rels, nrels, active, previous, world>>

(* The previous application is that of the active release, if any. *)
CreateRelease ==
    LET prev == IF active = 0 THEN NoApp ELSE active
    IN  /\ pc = "create_release"
        /\ active # 0 => rels[active].status = "active"
        /\ nrels' = nrels + 1
        /\ rels' = [rels EXCEPT ![nrels + 1] =
                       [NoManifest EXCEPT !.op = me.op, !.prev = prev]]
        /\ pc' = "candidate"
        /\ me' = [me EXCEPT !.rel = nrels + 1, !.prev = prev]
        /\ UNCHANGED <<ops, nops, active, previous, owner, world>>

(* Anything that fails before the manifest exists ends the operation. *)
FailWithoutRelease ==
    /\ pc = "create_release"
    /\ \E s \in {"failed_safe", "recovery_required"} : TransitionOperation(s, s, FALSE)
    /\ Goto("unlock")
    /\ UNCHANGED <<nops, rels, nrels, active, previous, owner, world>>

------------------------------------------------------------------------------
(* One durable stage: the operation's event first, then the manifest.       *)

PersistOperation ==
    /\ pc = "persist"
    /\ TransitionOperation("in_progress", me.stage, me.changed)
    /\ Goto("persist_release")
    /\ UNCHANGED <<nops, rels, nrels, active, previous, owner, world>>

(* The manifest changes the code passes along with stage s. *)
StageChanges(m, s) ==
    [m EXCEPT !.status = s,
              !.prev = IF s \in {"maintenance_enabled", "current_app_stopped"}
                       THEN me.prev ELSE @,
              !.rehearsed = @ \/ s = "snapshot_verified",
              !.final = IF s = "final_snapshot_verified" THEN me.final ELSE @,
              !.new = @ \/ s = "new_app_healthy",
              !.changed = @ \/ me.changed,
              !.activated = @ \/ s = "traffic_activated"]

PersistRelease ==
    /\ pc = "persist_release"
    /\ TransitionRelease(StageChanges(rels[me.rel], me.stage))
    /\ Goto(After(me.stage))
    /\ UNCHANGED <<ops, nops, nrels, active, previous, owner, world>>

------------------------------------------------------------------------------
(* Before the cutover: production is only read.                             *)

CandidateStage ==
    /\ pc = "candidate"
    /\ \E s \in TRANSITIONS(me.stage) \cap CandidateStages : Persist(s)
    /\ UNCHANGED <<durable, world>>

(* A mutant: a preflight failure requires recovery. *)
CandidateFails_Unsafe ==
    /\ pc = "candidate"
    /\ \E e \in Severities : Fail(e)
    /\ UNCHANGED <<durable, world>>

(* Preflight and snapshot fail safe; a rehearsal workspace or a candidate  *)
(* that cannot be removed requires recovery.                               *)
CandidateFails ==
    /\ pc = "candidate"
    /\ \E e \in Severities :
          (me.stage \in {"created", "preflight_passed"} => e = "safe") /\ Fail(e)
    /\ UNCHANGED <<durable, world>>

ResolvePrevious ==
    /\ pc = "resolve"
    /\ LET found == IF me.prev = NoApp THEN 0 ELSE me.prev
       IN  app[found] = "running" /\ me' = [me EXCEPT !.prev = found]
    /\ pc' = "enable_maintenance"
    /\ UNCHANGED <<durable, world>>

(* A release handle that cannot be inspected requires recovery. *)
ResolveFails ==
    /\ pc = "resolve"
    /\ \E e \in Severities : (me.prev # NoApp => e = "recovery") /\ Fail(e)
    /\ UNCHANGED <<durable, world>>

EnableMaintenance ==
    /\ pc = "enable_maintenance"
    /\ SetMaintenance(TRUE)
    /\ pc' = "persist"
    /\ me' = [me EXCEPT !.maint = TRUE, !.stage = "maintenance_enabled"]
    /\ UNCHANGED <<durable, app, target, db, acked, orphan>>

EnableFails ==
    /\ pc = "enable_maintenance"
    /\ \E b \in BOOLEAN : SetMaintenance(b)
    /\ \E e \in Severities : me' = [me EXCEPT !.err = e]
    /\ pc' = "undo_maintenance"
    /\ UNCHANGED <<durable, app, target, db, acked, orphan>>

(* A mutant: a failed enable is reported without undoing it. *)
UndoMaintenance_Skipped ==
    /\ pc = "undo_maintenance"
    /\ Goto("verify_undo")
    /\ UNCHANGED <<durable, world>>

UndoMaintenance ==
    /\ pc = "undo_maintenance"
    /\ SetMaintenance(FALSE)
    /\ Goto("verify_undo")
    /\ UNCHANGED <<durable, app, target, db, acked, orphan>>

UndoFails ==
    /\ pc = "undo_maintenance"
    /\ \E b \in BOOLEAN : SetMaintenance(maintenance /\ b)
    /\ Fail("recovery")
    /\ UNCHANGED <<durable, app, target, db, acked, orphan>>

(* The enable error is raised once the previous application is healthy. *)
VerifyUndo ==
    /\ pc = "verify_undo"
    /\ \/ Healthy(me.prev) /\ Goto("failed")
       \/ \E e \in Severities : Fail(e)
    /\ UNCHANGED <<durable, world>>

------------------------------------------------------------------------------
(* The cutover.                                                             *)

(* A mutant: the previous application keeps running during the migration. *)
StopCurrent_StillRunning ==
    /\ pc = "stop"
    /\ pc' = "persist"
    /\ me' = [me EXCEPT !.stopped = TRUE, !.stage = "current_app_stopped"]
    /\ UNCHANGED <<durable, world>>

StopCurrent ==
    /\ pc = "stop"
    /\ StopApplication(me.prev)
    /\ pc' = "persist"
    /\ me' = [me EXCEPT !.stopped = TRUE, !.stage = "current_app_stopped"]
    /\ UNCHANGED <<durable, target, maintenance, db, acked, orphan>>

StopFails ==
    /\ pc = "stop"
    /\ StopApplication(me.prev) \/ UNCHANGED app
    /\ \E e \in Severities : Fail(e)
    /\ UNCHANGED <<durable, target, maintenance, db, acked, orphan>>

CreateFinal ==
    /\ pc = "create_final"
    /\ pc' = "persist"
    /\ me' = [me EXCEPT !.final = {db}, !.stage = "final_snapshot_verified"]
    /\ UNCHANGED <<durable, world>>

(* The remote copy of the final backup, when it is required. *)
ReplicateFinal ==
    /\ pc = "replicate"
    /\ Goto("intend_migration")
    /\ UNCHANGED <<durable, world>>

BackupFails ==
    /\ pc \in {"create_final", "replicate"}
    /\ \E e \in Severities : Fail(e)
    /\ UNCHANGED <<durable, world>>

(* A mutant: the intent is only remembered, not made durable. *)
IntendMigration_InMemory ==
    /\ pc = "intend_migration"
    /\ pc' = "announce_migration" /\ me' = [me EXCEPT !.changed = TRUE]
    /\ UNCHANGED <<durable, world>>

IntendMigration ==
    /\ pc = "intend_migration"
    /\ RecordIntent([rels[me.rel] EXCEPT !.migration_started = TRUE])
    /\ pc' = "announce_migration" /\ me' = [me EXCEPT !.changed = TRUE]
    /\ UNCHANGED <<ops, nops, nrels, active, previous, owner, world>>

(* A mutant: the announcement becomes the stage of the release. *)
AnnounceMigration_AsStage ==
    /\ pc = "announce_migration"
    /\ TransitionOperation("in_progress", "production_migration_started", TRUE)
    /\ pc' = "migrate" /\ me' = [me EXCEPT !.stage = "production_migration_started"]
    /\ UNCHANGED <<nops, rels, nrels, active, previous, owner, world>>

AnnounceMigration ==
    /\ pc = "announce_migration"
    /\ TransitionOperation("in_progress", "production_migration_started", TRUE)
    /\ Goto("migrate")
    /\ UNCHANGED <<nops, rels, nrels, active, previous, owner, world>>

StartMigration ==
    /\ pc = "migrate" /\ me.stopped /\ me.final # {} /\ ~me.activated
    /\ db' = [db EXCEPT !.schema = Partial]
    /\ Goto("migrating")
    /\ UNCHANGED <<durable, app, target, maintenance, acked, orphan>>

MigrationNotStarted ==
    /\ pc = "migrate"
    /\ \E e \in Severities : Fail(e)
    /\ UNCHANGED <<durable, world>>

FinishMigration ==
    /\ pc = "migrating"
    /\ db' = [db EXCEPT !.schema = me.rel]
    /\ Persist("production_migrated")
    /\ UNCHANGED <<durable, app, target, maintenance, acked, orphan>>

(* The command fails with none, some or all of its changes made, or its    *)
(* process group cannot be proven gone.                                    *)
MigrationFails ==
    /\ pc = "migrating"
    /\ \E f \in me.final, s \in {"none", "some", "all"} :
          db' = CASE s = "none" -> f
                  [] s = "some" -> db
                  [] s = "all"  -> [db EXCEPT !.schema = me.rel]
    /\ \E e \in Severities :
          /\ Fail(e)
          /\ orphan' \in IF e = "recovery" /\ "orphan" \in Faults THEN {0, me.rel} ELSE {0}
    /\ UNCHANGED <<durable, app, target, maintenance, acked>>

StartNew ==
    /\ pc = "start_new"
    /\ app' = [app EXCEPT ![me.rel] = "running"]
    /\ pc' = "check_new" /\ me' = [me EXCEPT !.new = TRUE]
    /\ UNCHANGED <<durable, target, maintenance, db, acked, orphan>>

(* The failure is safe only when the cleanup is proven. *)
StartNewFails ==
    /\ pc = "start_new"
    /\ \/ Fail("safe") /\ UNCHANGED app
       \/ /\ Fail("recovery")
          /\ \E s \in {"absent", "stopped", "running"} : app' = [app EXCEPT ![me.rel] = s]
    /\ UNCHANGED <<durable, target, maintenance, db, acked, orphan>>

(* Logs, SQLite checks and health of the new application. *)
CheckNew ==
    /\ pc = "check_new"
    /\ \/ Healthy(me.rel) /\ Persist("new_app_healthy")
       \/ \E e \in Severities : Fail(e)
    /\ UNCHANGED <<durable, world>>

IntendActivation ==
    /\ pc = "intend_activation"
    /\ RecordIntent([rels[me.rel] EXCEPT !.attempted = TRUE])
    /\ pc' = "announce_activation" /\ me' = [me EXCEPT !.attempted = TRUE]
    /\ UNCHANGED <<ops, nops, nrels, active, previous, owner, world>>

AnnounceActivation ==
    /\ pc = "announce_activation"
    /\ TransitionOperation("in_progress", "traffic_activation_started", TRUE)
    /\ Goto("activate_new")
    /\ UNCHANGED <<nops, rels, nrels, active, previous, owner, world>>

(* The hook passes, never starts, or ends without proof of the target. *)
ActivateNew ==
    /\ pc = "activate_new"
    /\ \E h \in {"passed", "not_started", "uncertain"} :
          /\ me' = [me EXCEPT !.hook = h]
          /\ \/ h # "not_started" /\ RouteTo(me.rel)
             \/ h # "passed" /\ UNCHANGED target
    /\ pc' = "record_hook"
    /\ UNCHANGED <<durable, app, maintenance, db, acked, orphan>>

(* _hook_may_have_run *)
HookMayHaveRun(h) == h # "not_started"

(* The hook event is durable before its outcome decides the next step. *)
RecordActivation ==
    /\ pc = "record_hook"
    /\ ops[me.op].status = "in_progress"
    /\ ops' = [ops EXCEPT ![me.op].hook = me.hook]
    /\ IF me.hook = "passed"
       THEN /\ pc' = "persist"
            /\ me' = [me EXCEPT !.activated = TRUE, !.stage = "traffic_activated"]
       ELSE /\ pc' = "failed"
            /\ me' = [me EXCEPT !.attempted = HookMayHaveRun(me.hook), !.err = "safe"]
    /\ UNCHANGED <<nops, rels, nrels, active, previous, owner, world>>

------------------------------------------------------------------------------
(* After the activation there is no way back.                               *)

DisableMaintenance ==
    /\ pc = "disable_maintenance"
    /\ SetMaintenance(FALSE)
    /\ pc' = "mark_active" /\ me' = [me EXCEPT !.maint = FALSE]
    /\ UNCHANGED <<durable, app, target, db, acked, orphan>>

DisableFails ==
    /\ pc = "disable_maintenance"
    /\ \E b \in BOOLEAN : SetMaintenance(b)
    /\ Fail("recovery")
    /\ UNCHANGED <<durable, app, target, db, acked, orphan>>

MarkActive ==
    /\ pc = "mark_active"
    /\ TransitionRelease([rels[me.rel] EXCEPT !.status = "active", !.changed = TRUE,
                                              !.activated = TRUE])
    /\ Goto("select_active")
    /\ UNCHANGED <<ops, nops, nrels, active, previous, owner, world>>

SelectActive ==
    /\ pc = "select_active"
    /\ ActivateRelease(me.rel)
    /\ Goto("succeed")
    /\ UNCHANGED <<ops, nops, rels, nrels, owner, world>>

Succeed ==
    /\ pc = "succeed"
    /\ TransitionOperation("succeeded", "active", TRUE)
    /\ Goto("unlock")
    /\ UNCHANGED <<nops, rels, nrels, active, previous, owner, world>>

------------------------------------------------------------------------------
(* Failure: require recovery, roll back, or fail before the cutover.        *)

DispatchFailure ==
    /\ pc = "failed"
    /\ IF me.err = "recovery" \/ me.activated \/ me.attempted THEN Goto("require_recovery")
       ELSE IF me.maint THEN Persist("rollback_started")
       ELSE Goto("fail_release")
    /\ UNCHANGED <<durable, world>>

RemoveNew ==
    /\ pc = "remove_new"
    /\ IF me.new THEN RemoveApplication(me.rel) ELSE UNCHANGED app
    /\ RollbackOn("restore")
    /\ UNCHANGED <<durable, target, maintenance, db, acked, orphan>>

(* A mutant: the rollback keeps the migrated database. *)
RestoreDatabase_Skipped ==
    /\ pc = "restore"
    /\ RollbackOn("restart")
    /\ UNCHANGED <<durable, world>>

RestoreDatabase ==
    /\ pc = "restore"
    /\ IF me.changed
       THEN me.stopped /\ ~me.activated /\ \E f \in me.final : db' = f
       ELSE UNCHANGED db
    /\ RollbackOn("restart")
    /\ UNCHANGED <<durable, app, target, maintenance, acked, orphan>>

RestartPrevious ==
    /\ pc = "restart"
    /\ RestartApplication(me.prev)
    /\ RollbackOn("route_old")
    /\ UNCHANGED <<durable, target, maintenance, db, acked, orphan>>

RouteOld ==
    /\ pc = "route_old"
    /\ RouteTo(me.prev)
    /\ RollbackOn("reopen")
    /\ UNCHANGED <<durable, app, maintenance, db, acked, orphan>>

Reopen ==
    /\ pc = "reopen"
    /\ SetMaintenance(FALSE)
    /\ RollbackOn("verify_previous")
    /\ UNCHANGED <<durable, app, target, db, acked, orphan>>

(* A mutant: an unhealthy previous application repeats the restore. *)
VerifyPrevious_Retries ==
    /\ pc = "verify_previous"
    /\ Goto(IF Healthy(me.prev) THEN "mark_rolled_back" ELSE "restore") \/ Goto("restore")
    /\ UNCHANGED <<durable, world>>

VerifyPrevious ==
    /\ pc = "verify_previous"
    /\ Healthy(me.prev)
    /\ Goto("mark_rolled_back")
    /\ UNCHANGED <<durable, world>>

(* A rollback step fails without effect. *)
RollbackFails ==
    /\ pc \in {"remove_new", "restore", "restart", "route_old", "reopen", "verify_previous"}
    /\ Goto("require_recovery")
    /\ UNCHANGED <<durable, world>>

MarkRolledBack ==
    /\ pc = "mark_rolled_back"
    /\ TransitionRelease([rels[me.rel] EXCEPT !.status = "rolled_back",
                                              !.changed = me.changed, !.activated = FALSE])
    /\ Goto("fail_operation")
    /\ UNCHANGED <<ops, nops, nrels, active, previous, owner, world>>

FailRelease ==
    /\ pc = "fail_release"
    /\ TransitionRelease([rels[me.rel] EXCEPT !.status = "failed_safe",
                                              !.changed = me.changed, !.activated = FALSE])
    /\ Goto("fail_operation")
    /\ UNCHANGED <<ops, nops, nrels, active, previous, owner, world>>

(* The operation ends FAILED_SAFE after a rollback or before the cutover. *)
FailOperation ==
    /\ pc = "fail_operation"
    /\ TransitionOperation("failed_safe", rels[me.rel].status, me.changed)
    /\ Goto("unlock")
    /\ UNCHANGED <<nops, rels, nrels, active, previous, owner, world>>

(* A refused manifest is only noted. *)
RequireRecovery ==
    /\ pc = "require_recovery"
    /\ LET m == [rels[me.rel] EXCEPT !.status = "recovery_required",
                                     !.changed = me.changed, !.activated = me.activated]
       IN  IF Accepted(rels[me.rel], m) THEN rels' = [rels EXCEPT ![me.rel] = m]
                                        ELSE UNCHANGED rels
    /\ Goto("require_operation_recovery")
    /\ UNCHANGED <<ops, nops, nrels, active, previous, owner, world>>

RequireOperationRecovery ==
    /\ pc = "require_operation_recovery"
    /\ TransitionOperation("recovery_required", "recovery_required", me.changed)
    /\ Goto("unlock")
    /\ UNCHANGED <<nops, rels, nrels, active, previous, owner, world>>

------------------------------------------------------------------------------
(* Every step of a running deployment. *)
DeployStep ==
    \/ RecordOwner \/ CreateRelease \/ FailWithoutRelease
    \/ PersistOperation \/ PersistRelease
    \/ CandidateStage \/ CandidateFails \/ ResolvePrevious \/ ResolveFails
    \/ EnableMaintenance \/ EnableFails \/ UndoMaintenance \/ UndoFails \/ VerifyUndo
    \/ StopCurrent \/ StopFails \/ CreateFinal \/ ReplicateFinal \/ BackupFails
    \/ IntendMigration \/ AnnounceMigration
    \/ StartMigration \/ MigrationNotStarted \/ FinishMigration \/ MigrationFails
    \/ StartNew \/ StartNewFails \/ CheckNew
    \/ IntendActivation \/ AnnounceActivation \/ ActivateNew \/ RecordActivation
    \/ DisableMaintenance \/ DisableFails \/ MarkActive \/ SelectActive \/ Succeed
    \/ DispatchFailure \/ RemoveNew \/ RestoreDatabase \/ RestartPrevious
    \/ RouteOld \/ Reopen \/ VerifyPrevious \/ RollbackFails
    \/ MarkRolledBack \/ FailRelease \/ FailOperation
    \/ RequireRecovery \/ RequireOperationRecovery
=============================================================================
