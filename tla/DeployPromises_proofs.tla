------------------------- MODULE DeployPromises_proofs -------------------------
(***************************************************************************)
(* What users are promised, for every value of the constants, although     *)
(* commands may be killed or interrupted at every step: no acknowledged    *)
(* write is lost unless the host restarts; a proven activation has no way  *)
(* back unless a migration outlives its command; and when neither can      *)
(* happen, terminal outcomes are true and nothing but a user's write        *)
(* changes the database unless it is quiesced.  One invariant, PromisesOK, *)
(* holds under every fault and says what each of them leaves.               *)
(***************************************************************************)
EXTENDS DeployWorld_proofs

USE HostAssumption DEF Releases, Operations, Apps

(* The host does not restart, and no migration outlives its command. *)
NoReboot == "reboot" \notin Faults
NoOrphan == "orphan" \notin Faults

(* Commands are killed and interrupted, nothing else. *)
CommandFaults == Faults \subseteq {"crash", "interrupt"}

(* A migration that outlives its command may change the schema at any      *)
(* time, a restart may stop every application, and users who write before  *)
(* it lose what they wrote.                                                 *)
OnSchema(c, a) == NoOrphan => c.schema = a
Runs(a) == NoReboot => app[a] = "running"
Covers(c) == NoReboot => acked \subseteq c.writes

USE DEF OnSchema, Runs, Covers

(* The hook event of the newest release, and an application that serves.   *)
Hook == ops[rels[nrels].op].hook
ServedBy(a) == Runs(a) /\ target = a /\ OnSchema(db, a)

(* The steps of a rollback once the previous application is back, and once *)
(* users are routed to it.                                                  *)
Restarted == {"route_old", "reopen", "verify_previous", "mark_rolled_back"}
Rerouted == Restarted \ {"route_old"}

(* The hook event is what the manifest and the command say of it. *)
HookOK ==
    /\ pc \in Starting => ops[nops].hook = "none"
    /\ nrels # 0 => /\ Hook # "none" => rels[nrels].attempted
                    /\ rels[nrels].activated => Hook = "passed"
    /\ pc \in Attempt =>
          /\ rels[nrels].op = nops
          /\ me.stage = "new_app_healthy" /\ pc \notin {"failed", "require_recovery"} =>
                Hook = "none"
          /\ rels[nrels].attempted => me.attempted \/ Hook = "not_started"
    /\ pc \in Attempt \cup Planned => (me.activated <=> Hook = "passed")

(* Once the hook has passed, the newest release serves. *)
ForwardOK ==
    nrels # 0 /\ Hook = "passed" =>
        ServedBy(nrels) /\ rels[nrels].status \notin {"rolled_back", "failed_safe"}

(* Until then there is a way back to the active release. *)
BackwardOK ==
    /\ nrels = 0 => ServedBy(active)
    /\ nrels # 0 /\ Hook # "passed" =>
          /\ target \in {active, nrels}
          /\ ~rels[nrels].attempted \/ Hook = "not_started" => target = active
          /\ ~rels[nrels].migration_started => OnSchema(db, active)
          /\ rels[nrels].status \in CandidateStages => Runs(active)
          /\ rels[nrels].status \in {"rolled_back", "failed_safe"} => ServedBy(active)
          /\ rels[nrels].status \in Early => rels[nrels].final = {}
          /\ \A f \in rels[nrels].final : OnSchema(f, active)
          /\ NoReboot /\ app[active] # "running" =>
                \A f \in rels[nrels].final : maintenance /\ acked \subseteq f.writes

(* What a deployment knows of production at each step. *)
ProductionOK ==
    pc \in Attempt =>
        /\ rels[nrels].final # {} => me.final = rels[nrels].final
        /\ pc \in Persisting /\ me.stage = "final_snapshot_verified" =>
              \A f \in me.final : OnSchema(f, active) /\ Covers(f)
        /\ me.stage \in CutoverStages \ {"traffic_activated"}
           /\ pc \notin {"verify_previous", "mark_rolled_back", "require_recovery"} => maintenance
        /\ me.stopped /\ pc \notin Restarted \cup {"require_recovery"} =>
              app[active] # "running"
        /\ me.stage \in Early \cup {"final_snapshot_verified"} => ~me.new
        /\ me.stage \in Migrated => OnSchema(db, nrels)
        /\ me.stage \in {"new_app_healthy", "traffic_activated"} => app[nrels] = "running"
        /\ me.stage = "new_app_healthy" /\ pc \notin {"record_hook", "failed", "require_recovery"}
              => target = active
        /\ pc = "record_hook" => /\ me.hook = "passed" => target = nrels
                                 /\ me.hook = "not_started" => target = active
        /\ pc \in Restored => OnSchema(db, active)
        /\ pc \in Restarted => app[active] = "running"
        /\ pc \in Rerouted => target = active

(* What a way back has restored according to what is left of its plan. *)
WayBackOK ==
    pc \in Planned /\ ~me.activated =>
        /\ ~Left(me.plan, "restore_final") => OnSchema(db, active)
        /\ ~Left(me.plan, "restart_previous") => app[active] = "running"
        /\ ~Left(me.plan, "activate_previous") => target = active

PromisesOK ==
    /\ (NoOrphan => orphan = 0) /\ (NoReboot => NoAcknowledgedWriteLost)
    /\ HookOK /\ ForwardOK /\ BackwardOK /\ ProductionOK /\ WayBackOK

------------------------------------------------------------------------------
(* The hook event.                                                          *)


(* A transition of an operation keeps the hook events. *)
LEMMA HooksKept ==
    ASSUME TypeOK, NEW s, NEW g, NEW c, TransitionOperation(s, g, c)
    PROVE  \A o \in Operations : ops'[o].hook = ops[o].hook
<1> DEFINE r == [ops[me.op] EXCEPT !.status = s, !.stage = g, !.changed = c]
<1>1. ops' = [ops EXCEPT ![me.op] = r]
  BY DEF TransitionOperation
<1>2. me.op \in Operations => r.hook = ops[me.op].hook
  BY DEF TypeOK, OperationRecord
<1> HIDE DEF r
<1> QED
  BY <1>1, <1>2 DEF TypeOK

(* The hook of the newest release is its operation's. *)
LEMMA SameHook ==
    ASSUME Historic, \A o \in Operations : ops'[o].hook = ops[o].hook,
           UNCHANGED nrels, nrels # 0 => rels'[nrels].op = rels[nrels].op
    PROVE  nrels # 0 => Hook' = Hook
<1>1. nrels # 0 => rels[nrels].op \in Operations
  BY DEF Historic, Typed, TypeOK, HistoryOK, ReleasesOK
<1> QED
  BY <1>1 DEF Hook

(* What the steps that only act on the world do to a command's memory. *)
LEMMA QuietMemory ==
    ASSUME Historic, AttemptOK, QuietDeployStep
    PROVE  /\ me'.activated = me.activated /\ me'.attempted = me.attempted
           /\ pc # "check_new" /\ me'.stage = "new_app_healthy" => me.stage = "new_app_healthy"
           /\ pc = "failed" =>
                 me'.stage # "new_app_healthy" \/ pc' \in {"failed", "require_recovery"}
           /\ pc # "require_recovery"
<1>a. me \in Context
  BY DEF Historic, Typed, TypeOK
<1>1. CASE \/ CandidateStage \/ CandidateFails \/ ResolvePrevious \/ ResolveFails
           \/ EnableMaintenance \/ EnableFails \/ UndoMaintenance \/ UndoFails \/ VerifyUndo
           \/ StopCurrent \/ StopFails
  BY <1>a, <1>1 DEF CandidateStage, CandidateFails, ResolvePrevious, ResolveFails,
     EnableMaintenance, EnableFails, UndoMaintenance, UndoFails, VerifyUndo, StopCurrent,
     StopFails, Goto, Persist, Fail, Context, CandidateStages
<1>2. CASE \/ CreateFinal \/ ReplicateFinal \/ BackupFails \/ StartMigration
           \/ MigrationNotStarted \/ FinishMigration \/ MigrationFails \/ StartNew
           \/ StartNewFails \/ ActivateNew \/ DisableMaintenance \/ DisableFails
  BY <1>a, <1>2 DEF CreateFinal, ReplicateFinal, BackupFails, StartMigration,
     MigrationNotStarted, FinishMigration, MigrationFails, StartNew, StartNewFails,
     ActivateNew, DisableMaintenance, DisableFails, Goto, Persist, Fail, Context
<1>3. CASE CheckNew
  BY <1>a, <1>3 DEF CheckNew, Persist, Fail, Context
<1>4. CASE DispatchFailure
  <2>1. me.stage = "new_app_healthy" => me.maint \/ me.activated
    BY <1>4 DEF DispatchFailure, AttemptOK, Attempt, CutoverStages
  <2>2. QED
    BY <1>a, <1>4, <2>1 DEF DispatchFailure, Persist, Goto, Context
<1>5. CASE \/ RemoveNew \/ RestoreDatabase \/ RestartPrevious \/ RouteOld \/ Reopen
           \/ VerifyPrevious \/ RollbackFails
  BY <1>5 DEF RemoveNew, RestoreDatabase, RestartPrevious, RouteOld, Reopen,
     VerifyPrevious, RollbackFails, RollbackOn, Goto
<1> QED
  BY <1>1, <1>2, <1>3, <1>4, <1>5 DEF QuietDeployStep

(* They keep what is known of the hook. *)
LEMMA QuietHook ==
    ASSUME Historic, AttemptOK, HookOK, QuietDeployStep
    PROVE  HookOK' /\ Hook' = Hook
<1>1. UNCHANGED <<ops, nops, rels, nrels>> /\ pc \in Attempt /\ pc' \in Attempt
  BY QuietDeploy, QuietAttempts, QuietTargets DEF Historic, Typed
<1>2. Hook' = Hook
  BY <1>1 DEF Hook
<1>3. nrels \in Releases
  BY <1>1, DuringAttempt
<1>4. pc' \notin Starting
  BY <1>1 DEF Attempt, Starting
<1>5. me'.activated = me.activated /\ me'.attempted = me.attempted
  BY QuietMemory
<1>6. pc = "check_new" => Hook = "none"
  BY <1>1, <1>3 DEF AttemptOK, StageFits, HookOK, Attempt
<1>7. me'.stage = "new_app_healthy" /\ pc' \notin {"failed", "require_recovery"} => Hook = "none"
  BY <1>1, <1>6, QuietMemory DEF HookOK
<1>8. HookOK'
  BY <1>1, <1>2, <1>3, <1>4, <1>5, <1>7 DEF HookOK
<1> QED
  BY <1>2, <1>8


(* A deployment's own writes keep what is known of the hook. *)
LEMMA StoringHook ==
    ASSUME Historic, ManifestsOK, StartOK, AttemptOK, HookOK, DeployStep, ~QuietDeployStep
    PROVE  HookOK'
<1>0. TypeOK /\ ContextOK /\ HistoryOK /\ me \in Context
  BY DEF Historic, Typed, TypeOK
<1>a. pc \in Attempt => /\ me.rel = nrels /\ me.op = nops /\ nops \in Operations
                        /\ nrels \in Releases /\ rels[nrels] \in Manifest
  BY DuringAttempt
<1>b. nrels # 0 => nrels \in Releases
  BY <1>0 DEF TypeOK
<1>1. CASE RecordOwner
  BY <1>1 DEF RecordOwner, HookOK, Hook, Starting, Attempt, Planned, Goto
<1>2. CASE CreateRelease
  <2>1. nrels + 1 \in Releases /\ nrels' = nrels + 1 /\ pc \in Starting /\ pc' = "candidate"
    BY <1>0, <1>2 DEF CreateRelease, ContextOK, TypeOK, Starting
  <2>2. me.op = nops /\ nops \in Operations /\ ops[nops].hook = "none" /\ UNCHANGED <<ops, nops>>
    BY <1>0, <1>2, <2>1 DEF CreateRelease, HookOK, HistoryOK, RunOK
  <2> DEFINE m == [NoManifest EXCEPT !.op = me.op, !.prev = IF active = 0 THEN NoApp ELSE active]
  <2>3. rels'[nrels + 1] = m
    BY <1>0, <1>2, <2>1 DEF CreateRelease, TypeOK
  <2>4. m.op = nops /\ ~m.attempted /\ ~m.activated
    BY <2>2 DEF NoManifest
  <2> HIDE DEF m
  <2>5. me'.activated = FALSE /\ me'.stage = "created"
    BY <1>0, <1>2, <2>1 DEF CreateRelease, Context, StartOK, NoContext
  <2>6. Hook' = "none" /\ ~rels'[nrels'].attempted /\ ~rels'[nrels'].activated
        /\ rels'[nrels'].op = nops'
    BY <2>1, <2>2, <2>3, <2>4 DEF Hook
  <2>7. pc' \notin Starting
    BY <2>1 DEF Starting
  <2>8. QED
    BY <2>5, <2>6, <2>7 DEF HookOK
<1>3. CASE \/ FailWithoutRelease \/ PersistOperation \/ AnnounceMigration
           \/ AnnounceActivation \/ Succeed \/ FailOperation \/ RequireOperationRecovery
  <2>1. /\ UNCHANGED <<nops, rels, nrels, me>> /\ \E s, g, c : TransitionOperation(s, g, c)
        /\ pc' \in Attempt => pc \in Attempt
        /\ pc' \in {"failed", "require_recovery"} => pc \in {"failed", "require_recovery"}
        /\ pc' \notin Starting \cup Planned
        /\ pc \notin {"failed", "require_recovery"}
    BY <1>3 DEF FailWithoutRelease, PersistOperation, AnnounceMigration, AnnounceActivation,
                Succeed, FailOperation, RequireOperationRecovery, Goto, Attempt, Starting,
                Planned
  <2>2. nrels # 0 => Hook' = Hook
    BY <1>0, <2>1, HooksKept, SameHook
  <2>3. pc \in Attempt => nrels # 0
    BY <1>a
  <2>4. QED
    BY <2>1, <2>2, <2>3 DEF HookOK
<1>4. CASE RecordActivation
  <2>1. /\ pc = "record_hook" /\ pc \in Attempt /\ me.stage = "new_app_healthy"
        /\ me.stage = rels[nrels].status /\ rels[nrels].attempted /\ ~me.activated
    BY <1>4 DEF RecordActivation, Attempt, AttemptOK, StageFits, Persisting
  <2>2. ~rels[nrels].activated
    BY <1>a, <2>1 DEF ManifestsOK, ValidManifest
  <2>3. rels[nrels].op = nops /\ nops # 0
    BY <1>a, <2>1 DEF HookOK
  <2>4. UNCHANGED <<nops, rels, nrels>> /\ ops'[nops].hook = me.hook
    BY <1>0, <1>4, <1>a, <2>1 DEF RecordActivation, TypeOK, OperationRecord
  <2>5. Hook' = me.hook
    BY <2>3, <2>4 DEF Hook
  <2> DEFINE h == HookMayHaveRun(me.hook)
  <2>6. \/ /\ me.hook = "passed" /\ pc' = "persist"
           /\ me' = [me EXCEPT !.activated = TRUE, !.stage = "traffic_activated"]
        \/ /\ me.hook # "passed" /\ pc' = "failed"
           /\ me' = [me EXCEPT !.attempted = h, !.err = "safe"]
    BY <1>4 DEF RecordActivation
  <2> HIDE DEF h
  <2>7. /\ pc' \in {"persist", "failed"}
        /\ me'.activated <=> me.hook = "passed"
        /\ pc' = "persist" => me'.stage = "traffic_activated"
    BY <1>0, <2>1, <2>6 DEF Context
  <2>8. me'.attempted \/ me.hook = "not_started"
    <3>1. me.attempted
      BY <1>4, <2>1 DEF HookOK, RecordActivation
    <3>2. h <=> me.hook # "not_started"
      BY DEF h, HookMayHaveRun
    <3>3. QED
      BY <1>0, <2>6, <3>1, <3>2 DEF Context
  <2>9. pc' \notin Starting
    BY <2>7 DEF Starting
  <2>10. QED
    BY <2>1, <2>2, <2>3, <2>4, <2>5, <2>7, <2>8, <2>9 DEF HookOK
<1>5. CASE PersistRelease
  <2>1. /\ pc \in Attempt /\ pc \notin {"failed", "require_recovery"}
        /\ UNCHANGED <<ops, nops, nrels, me>>
        /\ pc' \in Attempt \cup {"idle"} /\ pc' \notin Starting \cup Planned
    BY <1>5 DEF PersistRelease, Attempt, Goto, After, Starting, Planned
  <2>2. me.rel = nrels /\ nrels \in Releases
    BY <1>a, <2>1
  <2>3. /\ rels'[nrels].op = rels[nrels].op /\ rels'[nrels].attempted = rels[nrels].attempted
        /\ rels'[nrels].activated <=> rels[nrels].activated \/ me.stage = "traffic_activated"
    BY <1>0, <1>5, <2>2, StagePersisted
  <2>4. Hook' = Hook
    BY <2>1, <2>3 DEF Hook
  <2>5. me.stage = "traffic_activated" => me.activated
    BY <2>1 DEF AttemptOK
  <2>6. QED
    BY <2>1, <2>2, <2>3, <2>4, <2>5 DEF HookOK
<1>6. CASE IntendMigration \/ IntendActivation
  <2>1. /\ pc \in Attempt /\ pc \notin {"failed", "require_recovery"}
        /\ UNCHANGED <<ops, nops, nrels>>
        /\ pc' \in Attempt /\ pc' \notin Starting
        /\ me'.stage = me.stage /\ me'.activated = me.activated
    BY <1>0, <1>6 DEF IntendMigration, IntendActivation, Attempt, Starting, Context
  <2>2. me.rel = nrels /\ nrels \in Releases
    BY <1>a, <2>1
  <2>3. /\ rels'[nrels].op = rels[nrels].op /\ rels'[nrels].activated = rels[nrels].activated
        /\ rels[nrels].attempted => rels'[nrels].attempted
        /\ rels'[nrels].attempted =>
              me'.attempted \/ (rels[nrels].attempted /\ me'.attempted = me.attempted)
    <3>1. CASE IntendMigration
      <4>1. me'.attempted = me.attempted
        BY <1>0, <3>1 DEF IntendMigration, Context
      <4>2. QED
        BY <1>0, <2>2, <3>1, <4>1, ManifestWritten DEF Continues
    <3>2. CASE IntendActivation
      <4>1. me'.attempted = TRUE
        BY <1>0, <3>2 DEF IntendActivation, Context
      <4>2. QED
        BY <1>0, <2>2, <3>2, <4>1, ManifestWritten DEF Continues
    <3>3. QED
      BY <1>6, <3>1, <3>2
  <2>4. Hook' = Hook
    BY <2>1, <2>3 DEF Hook
  <2>5. QED
    BY <2>1, <2>2, <2>3, <2>4 DEF HookOK
<1>7. CASE MarkActive \/ MarkRolledBack \/ FailRelease \/ RequireRecovery
  <2>1. /\ pc \in Attempt /\ UNCHANGED <<ops, nops, nrels>>
        /\ pc' \notin Attempt \cup Starting \cup Planned
    BY <1>7 DEF MarkActive, MarkRolledBack, FailRelease, RequireRecovery, Goto, Attempt,
                Starting, Planned
  <2>2. me.rel = nrels /\ nrels \in Releases
    BY <1>a, <2>1
  <2>3. pc = "mark_active" => me.activated
    BY <2>1 DEF AttemptOK, StageFits
  <2>4. /\ rels'[nrels].op = rels[nrels].op /\ rels'[nrels].attempted = rels[nrels].attempted
        /\ rels'[nrels].activated => rels[nrels].activated \/ me.activated
    <3>1. CASE MarkActive
      <4>1. pc = "mark_active"
        BY <3>1 DEF MarkActive
      <4>2. QED
        BY <1>0, <2>2, <2>3, <3>1, <4>1, ManifestWritten DEF Continues
    <3>2. CASE MarkRolledBack
      BY <1>0, <2>2, <3>2, ManifestWritten DEF Continues
    <3>3. CASE FailRelease
      BY <1>0, <2>2, <3>3, ManifestWritten DEF Continues
    <3>4. CASE RequireRecovery /\ ~UNCHANGED rels
      BY <1>0, <2>2, <3>4, ManifestWritten DEF Continues
    <3>5. QED
      BY <1>7, <3>1, <3>2, <3>3, <3>4
  <2>5. Hook' = Hook
    BY <2>1, <2>4 DEF Hook
  <2>6. QED
    BY <2>1, <2>2, <2>4, <2>5 DEF HookOK
<1>8. CASE SelectActive
  <2>1. UNCHANGED <<ops, nops, rels, nrels>> /\ pc' = "succeed"
    BY <1>8 DEF SelectActive, Goto
  <2>2. QED
    BY <2>1 DEF HookOK, Hook, Attempt, Starting, Planned
<1> QED
  BY <1>1, <1>2, <1>3, <1>4, <1>5, <1>6, <1>7, <1>8 DEF DeployStep, QuietDeployStep

(* A recovery records no hook event, and takes the side of the one there is. *)
LEMMA RecoverHook ==
    ASSUME Historic, PlanRunOK, HookOK, RecoverStep
    PROVE  /\ HookOK'
           /\ nrels' = nrels /\ (nrels # 0 => Hook' = Hook)
<1>0. TypeOK /\ HistoryOK /\ me \in Context
  BY DEF Historic, Typed, TypeOK
<1>a. pc \in Planned => nrels \in Releases /\ me.rel = nrels
  BY DuringPlan
<1>1. /\ nrels' = nrels /\ pc' \notin Starting \cup Attempt
      /\ pc' \in Planned => pc \in Planned /\ me'.activated = me.activated
  <2>1. CASE \/ RecoverRemoveNew \/ RecoverRestore \/ RecoverRestart \/ RecoverRoute
             \/ RecoverReopen \/ RecoverVerify \/ RecoverActionFails
    BY <1>0, <2>1 DEF RecoverRemoveNew, RecoverRestore, RecoverRestart, RecoverRoute,
       RecoverReopen, RecoverVerify, RecoverActionFails, Done, RecoveryFails, Goto, durable,
       Starting, Attempt, Planned, Context
  <2>2. CASE \/ Supersede \/ TakeRelease \/ CreateRecovery \/ OwnRecovery \/ AnnounceAction
             \/ Resolve \/ SelectRecovered \/ Recovered \/ RecoveryFailed
    BY <1>0, <2>2 DEF Supersede, TakeRelease, CreateRecovery, OwnRecovery, AnnounceAction,
       Resolve, SelectRecovered, Recovered, RecoveryFailed, RecoveryFails, Goto, ReleaseLock,
       Starting, Attempt, Planned, Context
  <2>3. QED
    BY <2>1, <2>2 DEF RecoverStep
<1>2. \A o \in 1..nops : ops'[o].hook = ops[o].hook
  <2>1. CASE UNCHANGED ops
    BY <2>1
  <2>2. CASE AnnounceAction \/ Recovered \/ RecoveryFailed
    <3>1. \E s, g, c : TransitionOperation(s, g, c)
      BY <2>2 DEF AnnounceAction, Recovered, RecoveryFailed
    <3>2. nops \in 0..MaxOps
      BY <1>0 DEF TypeOK
    <3>3. QED
      BY <1>0, <3>1, <3>2, HooksKept
  <2>3. CASE CreateRecovery
    BY <1>0, <2>3 DEF CreateRecovery, CreateOperation, TypeOK
  <2>4. CASE Supersede
    <3>1. CASE UNCHANGED ops
      BY <3>1
    <3>2. CASE ~UNCHANGED ops
      <4>1. PICK o \in Unfinished :
              ops' = [ops EXCEPT ![o] = [@ EXCEPT !.status = "recovery_required",
                                                  !.stage = "recovery_required",
                                                  !.changed = ops[o].changed \/ me.changed]]
        BY <2>4, <3>2 DEF Supersede
      <4>2. QED
        BY <1>0, <4>1 DEF Unfinished, TypeOK, OperationRecord
    <3>3. QED
      BY <3>1, <3>2
  <2>5. QED
    BY <2>1, <2>2, <2>3, <2>4 DEF RecoverStep, TakeRelease, OwnRecovery, RecoverRemoveNew,
       RecoverRestore, RecoverRestart, RecoverRoute, RecoverReopen, RecoverVerify,
       RecoverActionFails, Resolve, SelectRecovered, durable
<1>3. nrels # 0 =>
         /\ rels'[nrels].op = rels[nrels].op /\ rels'[nrels].attempted = rels[nrels].attempted
         /\ rels'[nrels].activated => rels[nrels].activated \/ (pc \in Planned /\ me.activated)
  <2>1. CASE UNCHANGED rels
    BY <2>1
  <2>2. CASE ~UNCHANGED rels
    <3>1. (TakeRelease \/ Resolve) /\ pc \in Planned
      BY <2>2 DEF RecoverStep, Supersede, TakeRelease, CreateRecovery, OwnRecovery,
         AnnounceAction, RecoverRemoveNew, RecoverRestore, RecoverRestart, RecoverRoute,
         RecoverReopen, RecoverVerify, RecoverActionFails, Resolve, SelectRecovered,
         Recovered, RecoveryFailed, durable, Planned
    <3>2. me.rel = nrels /\ nrels \in Releases
      BY <1>a, <3>1
    <3>3. CASE TakeRelease /\ ~UNCHANGED rels
      BY <1>0, <3>1, <3>2, <3>3, ManifestWritten DEF Continues
    <3>4. CASE Resolve /\ ~UNCHANGED rels
      <4>1. /\ Continues(rels'[nrels], rels[nrels])
            /\ rels'[nrels].attempted = rels[nrels].attempted
            /\ rels'[nrels].activated = me.activated
        BY <1>0, <3>2, <3>4, ManifestWritten
      <4>2. QED
        BY <3>1, <4>1 DEF Continues
    <3>5. QED
      BY <2>2, <3>1, <3>3, <3>4
  <2>3. QED
    BY <2>1, <2>2
<1>4. nrels # 0 => Hook' = Hook
  <2>1. nrels # 0 => rels[nrels].op \in 1..nops
    BY <1>0 DEF TypeOK, HistoryOK, ReleasesOK
  <2>2. QED
    BY <1>1, <1>2, <1>3, <2>1 DEF Hook
<1>5. pc' \in Planned => nrels # 0
  BY <1>1, <1>a
<1>6. HookOK'
  BY <1>1, <1>3, <1>4, <1>5 DEF HookOK
<1> QED
  BY <1>1, <1>4, <1>6


(* The plan of a recovery is the one its diagnosis of the newest release   *)
(* authorises.                                                              *)
LEMMA Diagnosis ==
    ASSUME Historic, StartRecover
    PROVE  /\ nrels \in Releases /\ pc' = "supersede" /\ UNCHANGED <<durable, world>>
           /\ \E matches \in BOOLEAN :
                 /\ matches => db \in rels[nrels].final
                 /\ \/ me'.activated = TRUE /\ CompletesNew(nrels)
                    \/ /\ me'.activated = FALSE /\ RecoversPrevious(nrels, matches)
                       /\ me'.plan = PreviousActions(nrels, matches)
<1>0. TypeOK /\ HistoryOK /\ me'.rel = nrels
  BY RecoveryAdmitted DEF Historic, Typed
<1>1. PICK r \in 1..nrels :
        \E matches \in ChecksumMatches(r) :
            /\ CompletesNew(r) \/ RecoversPrevious(r, matches)
            /\ me' = [NoContext EXCEPT
                        !.rel = r,
                        !.prev = rels[r].prev,
                        !.changed = CompletesNew(r) \/ MayHaveChanged(r),
                        !.activated = CompletesNew(r),
                        !.plan = IF CompletesNew(r) THEN NewActions
                                 ELSE PreviousActions(r, matches)]
  BY DEF StartRecover
<1>2. PICK matches \in ChecksumMatches(r) :
            /\ CompletesNew(r) \/ RecoversPrevious(r, matches)
            /\ me' = [NoContext EXCEPT
                        !.rel = r,
                        !.prev = rels[r].prev,
                        !.changed = CompletesNew(r) \/ MayHaveChanged(r),
                        !.activated = CompletesNew(r),
                        !.plan = IF CompletesNew(r) THEN NewActions
                                 ELSE PreviousActions(r, matches)]
  BY <1>1
<1> DEFINE c == CompletesNew(r) \/ MayHaveChanged(r)
           a == CompletesNew(r)
           q == IF CompletesNew(r) THEN NewActions ELSE PreviousActions(r, matches)
<1>3. a \in BOOLEAN
  BY DEF CompletesNew
<1>4. me' = [NoContext EXCEPT !.rel = r, !.prev = rels[r].prev, !.changed = c,
                              !.activated = a, !.plan = q]
  BY <1>2
<1>5. /\ ~a => q = PreviousActions(r, matches) /\ RecoversPrevious(r, matches)
      /\ a => CompletesNew(r)
  BY <1>2
<1> HIDE DEF c, a, q
<1>6. /\ me'.plan = q /\ me'.rel = r /\ me'.activated = a
  BY <1>4 DEF NoContext
<1>7. /\ r = nrels /\ nrels \in Releases
  BY <1>0, <1>6 DEF TypeOK
<1>8. matches \in BOOLEAN /\ (matches => db \in rels[nrels].final)
  BY <1>2, <1>7 DEF ChecksumMatches
<1>9. pc' = "supersede" /\ UNCHANGED <<durable, world>>
  BY DEF StartRecover
<1> QED
  BY <1>3, <1>5, <1>6, <1>7, <1>8, <1>9

(* It completes the new release exactly when the hook has passed. *)
LEMMA SideTaken ==
    ASSUME Historic, HookOK, NEW matches, nrels \in Releases
    PROVE  /\ CompletesNew(nrels) => Hook = "passed"
           /\ RecoversPrevious(nrels, matches) => Hook # "passed"
<1>1. /\ Hook # "none" => rels[nrels].attempted
      /\ rels[nrels].activated => Hook = "passed"
      /\ rels[nrels].activated \in BOOLEAN /\ rels[nrels].attempted \in BOOLEAN
  BY DEF HookOK, Historic, Typed, TypeOK, Manifest
<1>2. ActivationConclusion(nrels) = "succeeded" => Hook = "passed"
  BY <1>1 DEF ActivationConclusion, Hook
<1>3. ActivationConclusion(nrels) \in {"not_attempted", "not_started"} => Hook # "passed"
  BY <1>1 DEF ActivationConclusion, Hook
<1> QED
  BY <1>2, <1>3 DEF CompletesNew, RecoversPrevious

(* No other step records a hook event. *)
LEMMA OtherHook ==
    ASSUME Historic, HookOK, StartDeploy \/ StartRecover \/ Unlock \/ Environment
    PROVE  /\ HookOK'
           /\ nrels' = nrels /\ (nrels # 0 => Hook' = Hook)
<1> USE DEF durable, world
<1>0. TypeOK /\ HistoryOK
  BY DEF Historic, Typed
<1>1. CASE StartDeploy
  <2>1. nops + 1 \in Operations /\ nops' = nops + 1 /\ UNCHANGED <<rels, nrels>>
        /\ pc' = "record_owner"
    BY <1>0, <1>1 DEF StartDeploy, CreateOperation, TypeOK
  <2>2. /\ ops'[nops + 1].hook = "none"
        /\ \A o \in 1..nops : ops'[o] = ops[o]
    BY <1>0, <1>1, <2>1 DEF StartDeploy, CreateOperation, TypeOK, NoOperation
  <2>3. nrels # 0 => rels[nrels].op \in 1..nops
    BY <1>0 DEF TypeOK, HistoryOK, ReleasesOK
  <2>4. nrels # 0 => Hook' = Hook
    BY <2>1, <2>2, <2>3 DEF Hook
  <2>5. HookOK'
    BY <2>1, <2>2, <2>4 DEF HookOK, Attempt, Planned
  <2>6. QED
    BY <2>1, <2>4, <2>5
<1>2. CASE StartRecover
  <2>1. /\ nrels \in Releases /\ pc' = "supersede" /\ UNCHANGED <<ops, nops, rels, nrels>>
        /\ me'.activated <=> Hook = "passed"
    BY <1>2, Diagnosis, SideTaken
  <2>2. Hook' = Hook
    BY <2>1 DEF Hook
  <2>3. HookOK'
    BY <2>1, <2>2 DEF HookOK, Attempt, Starting
  <2>4. QED
    BY <2>1, <2>2, <2>3
<1>3. CASE Unlock \/ Crash \/ Interrupt \/ Reboot
  <2>1. UNCHANGED <<ops, rels, nrels>> /\ pc' = "idle"
    BY <1>3 DEF Unlock, Crash, Interrupt, Reboot, ReleaseLock
  <2>2. HookOK'
    BY <2>1 DEF HookOK, Hook, Attempt, Planned, Starting
  <2>3. QED
    BY <2>1, <2>2 DEF Hook
<1>4. CASE (\E w \in Writes : UserWrite(w)) \/ OrphanMigrates
  <2>1. UNCHANGED <<ops, nops, rels, nrels, pc, me>>
    BY <1>4 DEF UserWrite, OrphanMigrates
  <2>2. Hook' = Hook
    BY <2>1 DEF Hook
  <2>3. QED
    BY <2>1, <2>2 DEF HookOK
<1> QED
  BY <1>1, <1>2, <1>3, <1>4 DEF Environment

------------------------------------------------------------------------------
(* The way back.                                                            *)


(* A command that has seen the hook pass leaves the new release alone. *)
LEMMA QuietForward ==
    ASSUME Historic, AttemptOK, HookOK, QuietDeployStep, Hook = "passed"
    PROVE  UNCHANGED <<app, target, db>>
<1>1. pc \in Attempt \ Persisting /\ me.activated
  BY QuietAttempts DEF HookOK
<1>2. me.stage = "traffic_activated"
  BY <1>1 DEF AttemptOK
<1>3. pc \in {"disable_maintenance", "mark_active", "failed", "require_recovery"}
  BY <1>1, <1>2 DEF AttemptOK, StageFits, Attempt, Persisting, Removed, CandidateStages
<1>4. DisableMaintenance \/ DisableFails \/ DispatchFailure
  BY <1>3 DEF QuietDeployStep, CandidateStage, CandidateFails, ResolvePrevious, ResolveFails,
     EnableMaintenance, EnableFails, UndoMaintenance, UndoFails, VerifyUndo, StopCurrent,
     StopFails, CreateFinal, ReplicateFinal, BackupFails, StartMigration,
     MigrationNotStarted, FinishMigration, MigrationFails, StartNew, StartNewFails, CheckNew,
     ActivateNew, RemoveNew, RestoreDatabase, RestartPrevious, RouteOld, Reopen,
     VerifyPrevious, RollbackFails
<1> QED
  BY <1>4 DEF DisableMaintenance, DisableFails, DispatchFailure, world

(* A release in an attempt that is not activated has its way back. *)
LEMMA WayBack ==
    ASSUME Historic, AttemptOK, HookOK, BackwardOK, pc \in Attempt, Hook # "passed"
    PROVE  /\ target \in {active, nrels}
           /\ ~rels[nrels].attempted \/ Hook = "not_started" => target = active
           /\ ~rels[nrels].migration_started => OnSchema(db, active)
           /\ rels[nrels].status \in CandidateStages => Runs(active)
           /\ rels[nrels].status \in Early => rels[nrels].final = {}
           /\ \A f \in rels[nrels].final : OnSchema(f, active)
           /\ NoReboot /\ app[active] # "running" =>
                 \A f \in rels[nrels].final : maintenance /\ acked \subseteq f.writes
<1>1. nrels # 0
  BY DuringAttempt
<1> QED
  BY <1>1 DEF BackwardOK

(* The steps that only act on the world keep the way back. *)
LEMMA QuietBackward ==
    ASSUME Historic, AttemptOK, HookOK, BackwardOK, ProductionOK, QuietDeployStep
    PROVE  BackwardOK'
<1> USE DEF Persisting
<1>0. TypeOK /\ ContextOK /\ UNCHANGED <<ops, nops, rels, nrels, active>> /\ Hook' = Hook
  BY QuietDeploy, QuietHook DEF Historic, Typed
<1>a. /\ pc \in Attempt \ Persisting /\ nrels \in Releases /\ nrels # 0 /\ me.rel = nrels
      /\ me \in Context /\ rels[nrels] \in Manifest
  BY DuringAttempt, QuietAttempts
<1>b. /\ active \in Apps /\ active < nrels /\ rels[nrels].status \notin ResolvedStates
      /\ pc \in PreviousSteps => me.prev = active
  BY <1>a, NotSelected
<1>c. SUFFICES ASSUME Hook # "passed"
      PROVE  /\ target' \in {active, nrels}
             /\ ~rels[nrels].attempted \/ Hook = "not_started" => target' = active
             /\ ~rels[nrels].migration_started => OnSchema(db', active)
             /\ NoReboot /\ rels[nrels].status \in CandidateStages => app'[active] = "running"
             /\ NoReboot /\ app'[active] # "running" =>
                   \A f \in rels[nrels].final : maintenance' /\ acked' \subseteq f.writes
  BY <1>0, <1>a, <1>b DEF BackwardOK, ResolvedStates
<1>d. /\ target \in {active, nrels}
      /\ ~rels[nrels].attempted \/ Hook = "not_started" => target = active
      /\ ~rels[nrels].migration_started => OnSchema(db, active)
      /\ rels[nrels].status \in CandidateStages => Runs(active)
      /\ rels[nrels].status \in Early => rels[nrels].final = {}
      /\ NoReboot /\ app[active] # "running" =>
            \A f \in rels[nrels].final : maintenance /\ acked \subseteq f.writes
  BY <1>a, <1>c, WayBack
<1>e. rels[nrels].status = me.stage /\ ~me.activated
  BY <1>a, <1>c DEF AttemptOK, HookOK
<1>1. CASE \/ CandidateStage \/ CandidateFails \/ ResolvePrevious \/ ResolveFails \/ VerifyUndo
           \/ CreateFinal \/ ReplicateFinal \/ BackupFails \/ MigrationNotStarted \/ CheckNew
           \/ DispatchFailure \/ VerifyPrevious \/ RollbackFails
  <2>1. UNCHANGED world
    BY <1>1 DEF CandidateStage, CandidateFails, ResolvePrevious, ResolveFails, VerifyUndo,
       CreateFinal, ReplicateFinal, BackupFails, MigrationNotStarted, CheckNew,
       DispatchFailure, VerifyPrevious, RollbackFails
  <2>2. QED
    BY <1>d, <2>1 DEF world
<1>2. CASE \/ EnableMaintenance \/ EnableFails \/ UndoMaintenance \/ UndoFails
           \/ DisableMaintenance \/ DisableFails \/ Reopen
  <2>1. UNCHANGED <<app, target, db, acked>>
    BY <1>2 DEF EnableMaintenance, EnableFails, UndoMaintenance, UndoFails,
       DisableMaintenance, DisableFails, Reopen
  <2>2. rels[nrels].final = {} \/ app[active] = "running"
    <3>1. CASE pc \in {"enable_maintenance", "undo_maintenance"}
      BY <1>a, <1>d, <1>e, <3>1 DEF AttemptOK, StageFits, Early, CandidateStages
    <3>2. CASE pc = "reopen"
      BY <1>a, <3>2 DEF ProductionOK, Restarted
    <3>3. pc # "disable_maintenance"
      BY <1>a, <1>e DEF AttemptOK, StageFits
    <3>4. QED
      BY <1>2, <3>1, <3>2, <3>3 DEF EnableMaintenance, EnableFails, UndoMaintenance,
         UndoFails, DisableMaintenance, DisableFails, Reopen
  <2>3. QED
    BY <1>d, <2>1, <2>2
<1>3. CASE StopCurrent \/ StopFails
  <2>1. UNCHANGED <<target, db>> /\ pc = "stop"
    BY <1>3 DEF StopCurrent, StopFails
  <2>2. me.stage = "maintenance_enabled"
    BY <1>a, <2>1 DEF AttemptOK, StageFits
  <2>3. rels[nrels].final = {} /\ rels[nrels].status \notin CandidateStages
    BY <1>d, <1>e, <2>2 DEF Early, CandidateStages
  <2>4. QED
    BY <1>d, <2>1, <2>3
<1>4. CASE StartNew \/ StartNewFails \/ RemoveNew
  <2>1. UNCHANGED <<target, maintenance, db, acked>> /\ app'[active] = app[active]
    BY <1>0, <1>a, <1>b, <1>4 DEF StartNew, StartNewFails, RemoveNew, RemoveApplication, TypeOK
  <2>2. QED
    BY <1>d, <2>1
<1>5. CASE RestartPrevious
  <2>1. me.prev = active
    BY <1>b, <1>5 DEF RestartPrevious, PreviousSteps
  <2>2. app' = [app EXCEPT ![active] = "running"] /\ UNCHANGED <<target, db>>
    BY <1>5, <2>1 DEF RestartPrevious, RestartApplication
  <2>3. app'[active] = "running"
    BY <1>0, <1>b, <2>2 DEF TypeOK
  <2>4. QED
    BY <1>d, <2>2, <2>3
<1>6. CASE StartMigration \/ FinishMigration \/ MigrationFails \/ RestoreDatabase
  <2>1. UNCHANGED <<app, target, maintenance, acked>>
    BY <1>6 DEF StartMigration, FinishMigration, MigrationFails, RestoreDatabase
  <2>2. rels[nrels].migration_started \/ UNCHANGED db
    <3>1. CASE pc \in {"migrate", "migrating"}
      BY <1>a, <3>1 DEF AttemptOK
    <3>2. CASE pc = "restore"
      BY <1>a, <1>6, <3>2 DEF AttemptOK, RestoreDatabase, StartMigration, FinishMigration,
         MigrationFails
    <3>3. QED
      BY <1>6, <3>1, <3>2 DEF StartMigration, FinishMigration, MigrationFails, RestoreDatabase
  <2>3. QED
    BY <1>d, <2>1, <2>2
<1>7. CASE ActivateNew
  <2>1. /\ pc = "activate_new" /\ UNCHANGED <<app, maintenance, db, acked>>
        /\ me.stage = "new_app_healthy"
    BY <1>7, <1>a DEF ActivateNew, AttemptOK, StageFits
  <2>2. rels[nrels].attempted /\ Hook = "none"
    BY <1>a, <2>1 DEF AttemptOK, HookOK
  <2>3. target' \in {target, nrels}
    BY <1>7, <1>a DEF ActivateNew, RouteTo
  <2>4. QED
    BY <1>d, <2>1, <2>2, <2>3
<1>8. CASE RouteOld
  <2>1. target' = active /\ UNCHANGED <<app, maintenance, db, acked>>
    BY <1>8, <1>b DEF RouteOld, RouteTo, PreviousSteps
  <2>2. QED
    BY <1>d, <2>1
<1> QED
  BY <1>1, <1>2, <1>3, <1>4, <1>5, <1>6, <1>7, <1>8 DEF QuietDeployStep

(* They lose no acknowledged write: a backup is put back only while the    *)
(* previous application is stopped, and holds them all.                    *)
LEMMA QuietWrites ==
    ASSUME Historic, ManifestsOK, AttemptOK, HookOK, BackwardOK, ProductionOK,
           NoReboot, NoAcknowledgedWriteLost, QuietDeployStep
    PROVE  NoAcknowledgedWriteLost'
<1> USE DEF NoAcknowledgedWriteLost
<1>0. TypeOK
  BY DEF Historic, Typed
<1>a. /\ pc \in Attempt /\ nrels \in Releases /\ me \in Context
  BY DuringAttempt, QuietAttempts
<1>b. acked' = acked
  BY DEF QuietDeployStep, CandidateStage, CandidateFails, ResolvePrevious, ResolveFails,
     EnableMaintenance, EnableFails, UndoMaintenance, UndoFails, VerifyUndo, StopCurrent,
     StopFails, CreateFinal, ReplicateFinal, BackupFails, StartMigration,
     MigrationNotStarted, FinishMigration, MigrationFails, StartNew, StartNewFails, CheckNew,
     ActivateNew, DisableMaintenance, DisableFails, DispatchFailure, RemoveNew,
     RestoreDatabase, RestartPrevious, RouteOld, Reopen, VerifyPrevious, RollbackFails, world
<1>1. CASE UNCHANGED db
  BY <1>b, <1>1
<1>2. CASE db'.writes = db.writes
  BY <1>b, <1>2
<1>3. ASSUME me.changed, me.stage # "traffic_activated", me.stopped,
             pc \notin Restarted \cup {"require_recovery"}
      PROVE  \A f \in me.final : acked \subseteq f.writes
  <2>1. Hook # "passed"
    BY <1>a, <1>3 DEF AttemptOK, HookOK
  <2>2. app[active] # "running"
    BY <1>a, <1>3 DEF ProductionOK
  <2>3. rels[nrels].final # {}
    BY <1>a, <1>3 DEF AttemptOK, ManifestsOK, ValidManifest
  <2>4. me.final = rels[nrels].final
    BY <1>a, <2>3 DEF ProductionOK
  <2>5. QED
    BY <1>a, <2>1, <2>2, <2>4, WayBack
<1>4. CASE MigrationFails
  <2>1. pc = "migrating"
    BY <1>4 DEF MigrationFails
  <2>2. /\ me.changed /\ me.stage = "final_snapshot_verified" /\ me.stopped
        /\ pc \notin Restarted \cup {"require_recovery"}
    BY <1>a, <2>1 DEF AttemptOK, StageFits, Restarted
  <2>3. (\E f \in me.final : db' = f) \/ db'.writes = db.writes
    BY <1>0, <1>4 DEF MigrationFails, TypeOK, Content
  <2>4. QED
    BY <1>b, <1>3, <2>2, <2>3
<1>5. CASE RestoreDatabase /\ me.changed
  <2>1. pc = "restore" /\ \E f \in me.final : db' = f
    BY <1>5 DEF RestoreDatabase
  <2>2. /\ me.changed /\ me.stage # "traffic_activated" /\ me.stopped
        /\ pc \notin Restarted \cup {"require_recovery"}
    BY <1>5, <1>a, <2>1 DEF AttemptOK, StageFits, Removed, Restarted
  <2>3. QED
    BY <1>b, <1>3, <2>1, <2>2
<1>6. CASE StartMigration \/ FinishMigration
  BY <1>0, <1>2, <1>6 DEF StartMigration, FinishMigration, TypeOK, Content
<1>7. QED
  BY <1>1, <1>4, <1>5, <1>6 DEF QuietDeployStep, CandidateStage, CandidateFails,
     ResolvePrevious, ResolveFails, EnableMaintenance, EnableFails, UndoMaintenance,
     UndoFails, VerifyUndo, StopCurrent, StopFails, CreateFinal, ReplicateFinal, BackupFails,
     MigrationNotStarted, StartNew, StartNewFails, CheckNew, ActivateNew, DisableMaintenance,
     DisableFails, DispatchFailure, RemoveNew, RestoreDatabase, RestartPrevious, RouteOld,
     Reopen, VerifyPrevious, RollbackFails, world


(* The steps that only act on the world keep what a deployment knows. *)
LEMMA QuietProduction ==
    ASSUME Historic, ManifestsOK, AttemptOK, AttemptAppsOK, HookOK, BackwardOK, ProductionOK,
           NoReboot => NoAcknowledgedWriteLost, QuietDeployStep
    PROVE  ProductionOK'
<1> USE DEF durable, world, Persisting, Removed, Restored, Restarted, Rerouted, Migrated, Early,
            CandidateStages, CutoverStages, ProductionOK
<1>0. TypeOK /\ UNCHANGED <<ops, nops, rels, nrels, active>>
  BY QuietDeploy DEF Historic, Typed
<1>a. /\ pc \in Attempt \ Persisting /\ nrels \in Releases /\ me.rel = nrels
      /\ me \in Context
  BY DuringAttempt, QuietAttempts
<1>b. /\ active \in Apps /\ active < nrels
      /\ pc \in PreviousSteps => me.prev = active
  BY <1>a, NotSelected
<1>c. pc' \in Attempt
  BY QuietTargets
<1>d. StageFits /\ rels[nrels].status = me.stage
  BY <1>a DEF AttemptOK
<1>e. me.activated <=> me.stage = "traffic_activated"
  BY <1>a DEF AttemptOK
<1>f. me.stage # "traffic_activated" => Hook # "passed"
  BY <1>a, <1>e DEF HookOK
<1> USE DEF StageFits
<1>1. CASE CandidateStage
  BY <1>0, <1>a, <1>d, <1>1 DEF CandidateStage, Persist, Context
<1>2. CASE CandidateFails
  BY <1>0, <1>a, <1>d, <1>2 DEF CandidateFails, Fail, Context
<1>3. CASE ResolvePrevious
  BY <1>0, <1>a, <1>d, <1>3 DEF ResolvePrevious, Context
<1>4. CASE ResolveFails
  BY <1>0, <1>a, <1>d, <1>4 DEF ResolveFails, Fail, Context
<1>5. CASE EnableMaintenance
  BY <1>0, <1>a, <1>d, <1>5 DEF EnableMaintenance, SetMaintenance, Context
<1>6. CASE EnableFails
  BY <1>0, <1>a, <1>d, <1>6 DEF EnableFails, Context
<1>7. CASE UndoMaintenance
  BY <1>0, <1>a, <1>d, <1>7 DEF UndoMaintenance, Goto, Context
<1>8. CASE UndoFails
  BY <1>0, <1>a, <1>d, <1>8 DEF UndoFails, Fail, Context
<1>9. CASE VerifyUndo
  BY <1>0, <1>a, <1>d, <1>9 DEF VerifyUndo, Goto, Fail, Context
<1>10. CASE StopCurrent
  <2>1. me.prev = active
    BY <1>b, <1>10 DEF StopCurrent, PreviousSteps
  <2>2. app' = [app EXCEPT ![active] = "stopped"]
    BY <1>10, <2>1 DEF StopCurrent, StopApplication
  <2>3. app'[active] # "running"
    BY <1>0, <1>b, <2>2 DEF TypeOK
  <2>4. QED
    BY <1>0, <1>a, <1>d, <1>10, <2>3 DEF StopCurrent, Context
<1>11. CASE StopFails
  <2>1. me.prev = active
    BY <1>b, <1>11 DEF StopFails, PreviousSteps
  <2>2. app' = [app EXCEPT ![active] = "stopped"] \/ app' = app
    BY <1>11, <2>1 DEF StopFails, StopApplication
  <2>3. app[active] # "running" => app'[active] # "running"
    BY <1>0, <1>b, <2>2 DEF TypeOK
  <2>4. QED
    BY <1>0, <1>a, <1>d, <1>11, <2>3 DEF StopFails, Fail, Context
<1>12. CASE CreateFinal
  <2>1. pc = "create_final" /\ me.stage = "current_app_stopped"
    BY <1>d, <1>12 DEF CreateFinal
  <2>2. ~rels[nrels].migration_started
    BY <1>a, <1>d, <2>1 DEF ManifestsOK
  <2>3. rels[nrels].final = {} /\ OnSchema(db, active)
    BY <1>a, <1>d, <1>f, <2>1, <2>2, WayBack
  <2>4. Covers(db)
    BY DEF NoAcknowledgedWriteLost
  <2>5. /\ pc' = "persist" /\ me' = [me EXCEPT !.final = {db}, !.stage = "final_snapshot_verified"]
        /\ UNCHANGED <<app, target, maintenance, db, acked>>
    BY <1>12 DEF CreateFinal
  <2>6. me'.final = {db}
    BY <1>a, <2>5 DEF Context
  <2>7. \A f \in me'.final : OnSchema(f, active) /\ (NoReboot => acked' \subseteq f.writes)
    BY <2>3, <2>4, <2>5, <2>6
  <2>8. me'.stage = "final_snapshot_verified" /\ me'.new = me.new /\ me'.stopped = me.stopped
    BY <1>a, <2>5 DEF Context
  <2>9. QED
    BY <1>0, <1>a, <2>1, <2>3, <2>5, <2>7, <2>8
<1>13. CASE ReplicateFinal
  BY <1>0, <1>a, <1>d, <1>13 DEF ReplicateFinal, Goto, Context
<1>14. CASE BackupFails
  BY <1>0, <1>a, <1>d, <1>14 DEF BackupFails, Fail, Context
<1>15. CASE StartMigration
  BY <1>0, <1>a, <1>d, <1>15 DEF StartMigration, Goto, Context
<1>16. CASE MigrationNotStarted
  BY <1>0, <1>a, <1>d, <1>16 DEF MigrationNotStarted, Fail, Context
<1>17. CASE FinishMigration
  <2>1. OnSchema(db', nrels)
    BY <1>0, <1>a, <1>17 DEF FinishMigration, TypeOK, Content
  <2>2. QED
    BY <1>0, <1>a, <1>d, <1>17, <2>1 DEF FinishMigration, Persist, Context
<1>18. CASE MigrationFails
  BY <1>0, <1>a, <1>d, <1>18 DEF MigrationFails, Fail, Context
<1>19. CASE StartNew
  <2>1. app'[active] = app[active]
    BY <1>0, <1>a, <1>b, <1>19 DEF StartNew, TypeOK
  <2>2. QED
    BY <1>0, <1>a, <1>d, <1>19, <2>1 DEF StartNew, Context
<1>20. CASE StartNewFails
  <2>1. app'[active] = app[active]
    BY <1>0, <1>a, <1>b, <1>20 DEF StartNewFails, TypeOK
  <2>2. QED
    BY <1>0, <1>a, <1>d, <1>20, <2>1 DEF StartNewFails, Fail, Context
<1>21. CASE CheckNew
  <2>1. pc = "check_new" /\ me.stage = "production_migrated"
    BY <1>d, <1>21 DEF CheckNew
  <2>2. ~rels[nrels].attempted
    BY <1>a, <2>1 DEF AttemptOK
  <2>3. target = active
    BY <1>a, <1>f, <2>1, <2>2, WayBack
  <2>4. QED
    BY <1>0, <1>a, <1>d, <1>21, <2>3 DEF CheckNew, Healthy, Fail, Persist, Context
<1>22. CASE ActivateNew
  <2>1. /\ me'.hook = "passed" => target' = nrels
        /\ me'.hook = "not_started" => target' = target
    BY <1>a, <1>22 DEF ActivateNew, RouteTo, Context
  <2>2. QED
    BY <1>0, <1>a, <1>d, <1>22, <2>1 DEF ActivateNew, Context
<1>23. CASE DisableMaintenance
  BY <1>0, <1>a, <1>d, <1>23 DEF DisableMaintenance, Context
<1>24. CASE DisableFails
  BY <1>0, <1>a, <1>d, <1>24 DEF DisableFails, Fail, Context
<1>25. CASE DispatchFailure
  <2>1. /\ pc = "failed" /\ UNCHANGED world
        /\ \/ pc' = "require_recovery" /\ UNCHANGED me
           \/ /\ me.maint /\ ~me.activated /\ pc' = "persist"
              /\ me' = [me EXCEPT !.stage = "rollback_started"]
           \/ ~me.maint /\ ~me.activated /\ pc' = "fail_release" /\ UNCHANGED me
    BY <1>25 DEF DispatchFailure, Goto, Persist
  <2>2. /\ me.stage \in CandidateStages => ~me.maint
        /\ me.stage \in CutoverStages => me.maint \/ me.activated
        /\ me.stage \in CandidateStages \cup CutoverStages
    BY <1>a, <1>d, <2>1 DEF AttemptOK
  <2>3. CASE pc' \in {"require_recovery", "fail_release"}
    BY <1>0, <1>a, <1>e, <2>1, <2>2, <2>3
  <2>4. CASE pc' = "persist"
    <3>1. /\ me'.stage = "rollback_started" /\ me'.final = me.final /\ me'.stopped = me.stopped
          /\ me'.new = me.new
      BY <1>a, <2>1, <2>4 DEF Context
    <3>2. me.maint /\ ~me.activated /\ maintenance
      BY <1>a, <1>e, <2>1, <2>2, <2>4
    <3>3. QED
      BY <1>0, <1>a, <2>1, <2>4, <3>1, <3>2
  <2>5. QED
    BY <2>1, <2>3, <2>4
<1>26. CASE RemoveNew
  <2>1. app'[active] = app[active]
    BY <1>0, <1>a, <1>b, <1>26 DEF RemoveNew, RemoveApplication, TypeOK
  <2>2. QED
    BY <1>0, <1>a, <1>d, <1>26, <2>1 DEF RemoveNew, RollbackOn, Goto, Context
<1>27. CASE RestoreDatabase
  <2>1. pc = "restore" /\ me.stage = "rollback_started" /\ UNCHANGED <<app, target, maintenance>>
    BY <1>d, <1>27 DEF RestoreDatabase
  <2>2. OnSchema(db', active)
    <3>1. CASE me.changed
      <4>1. rels[nrels].final # {}
        BY <1>a, <3>1 DEF AttemptOK, ManifestsOK, ValidManifest
      <4>2. me.final = rels[nrels].final
        BY <1>a, <4>1
      <4>3. QED
        BY <1>27, <1>a, <1>f, <2>1, <3>1, <4>2, WayBack DEF RestoreDatabase
    <3>2. CASE ~me.changed
      <4>1. ~rels[nrels].migration_started
        BY <1>a, <3>2 DEF AttemptOK
      <4>2. QED
        BY <1>27, <1>a, <1>f, <2>1, <3>2, <4>1, WayBack DEF RestoreDatabase
    <3>3. QED
      BY <3>1, <3>2
  <2>3. pc' \in {"restart", "require_recovery"} /\ UNCHANGED me
    BY <1>27 DEF RestoreDatabase, RollbackOn, Goto
  <2>4. QED
    BY <1>0, <1>a, <2>1, <2>2, <2>3
<1>28. CASE RestartPrevious
  <2>1. me.prev = active
    BY <1>b, <1>28 DEF RestartPrevious, PreviousSteps
  <2>2. app' = [app EXCEPT ![active] = "running"]
    BY <1>28, <2>1 DEF RestartPrevious, RestartApplication
  <2>3. app'[active] = "running"
    BY <1>0, <1>b, <2>2 DEF TypeOK
  <2>4. QED
    BY <1>0, <1>a, <1>d, <1>28, <2>3 DEF RestartPrevious, RollbackOn, Goto
<1>29. CASE RouteOld
  <2>1. target' = active
    BY <1>b, <1>29 DEF RouteOld, RouteTo, PreviousSteps
  <2>2. QED
    BY <1>0, <1>a, <1>d, <1>29, <2>1 DEF RouteOld, RollbackOn, Goto
<1>30. CASE Reopen
  BY <1>0, <1>a, <1>d, <1>30 DEF Reopen, RollbackOn, Goto
<1>31. CASE VerifyPrevious
  BY <1>0, <1>a, <1>d, <1>31 DEF VerifyPrevious, Goto
<1>32. CASE RollbackFails
  BY <1>0, <1>a, <1>d, <1>32 DEF RollbackFails, Goto
<1> QED
  BY <1>1, <1>2, <1>3, <1>4, <1>5, <1>6, <1>7, <1>8, <1>9, <1>10, <1>11, <1>12, <1>13, <1>14,
     <1>15, <1>16, <1>17, <1>18, <1>19, <1>20, <1>21, <1>22, <1>23, <1>24, <1>25, <1>26, <1>27,
     <1>28, <1>29, <1>30, <1>31, <1>32 DEF QuietDeployStep


(* On a settled history the selected application serves. *)
LEMMA SettledServes ==
    ASSUME Historic, ManifestsOK, HookOK, ForwardOK, BackwardOK, Settled
    PROVE  ServedBy(active)
<1>1. nrels \in 0..MaxRel /\ active \in 0..MaxRel /\ active <= nrels
  BY DEF Historic, Typed, TypeOK, HistoryOK, PointersOK
<1>2. CASE nrels = 0
  BY <1>2 DEF BackwardOK
<1>3. CASE nrels # 0
  <2>1. nrels \in 1..nrels /\ nrels \in Releases
    BY <1>1, <1>3
  <2>2. rels[nrels].status \in ResolvedStates /\ (rels[nrels].status = "active" => active = nrels)
    BY <1>1, <2>1 DEF Settled
  <2>3. CASE Hook = "passed"
    <3>1. rels[nrels].status = "active"
      BY <1>3, <2>2, <2>3 DEF ForwardOK, ResolvedStates
    <3>2. QED
      BY <1>3, <2>2, <2>3, <3>1 DEF ForwardOK
  <2>4. CASE Hook # "passed"
    <3>1. rels[nrels].status # "active"
      BY <1>3, <2>1, <2>4 DEF HookOK, ManifestsOK, ValidManifest
    <3>2. QED
      BY <1>3, <2>2, <2>4, <3>1 DEF BackwardOK, ResolvedStates
  <2>5. QED
    BY <2>3, <2>4
<1> QED
  BY <1>2, <1>3

(* What a manifest may become while the world stays as it is. *)
LEMMA ManifestKeepsWay ==
    ASSUME Historic, BackwardOK, nrels # 0, Hook # "passed", Hook' = Hook,
           UNCHANGED <<nrels, active, app, target, db, maintenance, acked>>,
           rels[nrels].attempted => rels'[nrels].attempted,
           rels[nrels].migration_started => rels'[nrels].migration_started,
           rels'[nrels].status \in CandidateStages => rels[nrels].status \in CandidateStages,
           rels'[nrels].status \in {"rolled_back", "failed_safe"} =>
              ServedBy(active) \/ rels[nrels].status \in {"rolled_back", "failed_safe"},
           rels'[nrels].status \in Early => rels'[nrels].final = {},
           \A f \in rels'[nrels].final :
              f \in rels[nrels].final
              \/ (OnSchema(f, active) /\ maintenance /\ Covers(f))
    PROVE  BackwardOK'
    BY DEF BackwardOK, ServedBy

(* A deployment's own writes keep both sides. *)
LEMMA StoringWay ==
    ASSUME Historic, ManifestsOK, StartOK, AttemptOK, HookOK, ForwardOK, BackwardOK,
           ProductionOK, DeployStep, ~QuietDeployStep
    PROVE  ForwardOK' /\ BackwardOK'
<1>0. TypeOK /\ ContextOK /\ HistoryOK /\ me \in Context /\ HookOK'
  BY StoringHook DEF Historic, Typed, TypeOK
<1>a. pc \in Attempt => /\ me.rel = nrels /\ nrels \in Releases /\ rels[nrels] \in Manifest
                        /\ nrels # 0 /\ rels[nrels].op \in Operations
  BY <1>0, DuringAttempt DEF Manifest, HistoryOK, ReleasesOK, TypeOK
<1>b. UNCHANGED <<app, target, maintenance, db, acked>>
  BY DEF DeployStep, QuietDeployStep, RecordOwner, CreateRelease, FailWithoutRelease,
     PersistOperation, PersistRelease, IntendMigration, AnnounceMigration, IntendActivation,
     AnnounceActivation, RecordActivation, MarkActive, SelectActive, Succeed, MarkRolledBack,
     FailRelease, FailOperation, RequireRecovery, RequireOperationRecovery, world
<1>1. CASE \/ RecordOwner \/ FailWithoutRelease \/ PersistOperation \/ AnnounceMigration
           \/ AnnounceActivation \/ Succeed \/ FailOperation \/ RequireOperationRecovery
  <2>1. /\ UNCHANGED <<rels, nrels, active>>
        /\ UNCHANGED ops \/ \E s, g, c : TransitionOperation(s, g, c)
    BY <1>1 DEF RecordOwner, FailWithoutRelease, PersistOperation, AnnounceMigration,
       AnnounceActivation, Succeed, FailOperation, RequireOperationRecovery
  <2>2. nrels # 0 => Hook' = Hook
    BY <1>0, <2>1, HooksKept, SameHook
  <2>3. QED
    BY <1>b, <2>1, <2>2 DEF ForwardOK, BackwardOK, ServedBy
<1>2. CASE CreateRelease
  <2>1. nrels + 1 \in Releases /\ nrels' = nrels + 1 /\ pc \in Starting /\ active' = active
    BY <1>0, <1>2 DEF CreateRelease, ContextOK, TypeOK, Starting
  <2>2. ServedBy(active)
    BY <2>1, SettledServes DEF Historic, HistoryOK, RunOK
  <2> DEFINE m == [NoManifest EXCEPT !.op = me.op, !.prev = IF active = 0 THEN NoApp ELSE active]
  <2>3. rels'[nrels + 1] = m
    BY <1>0, <1>2, <2>1 DEF CreateRelease, TypeOK
  <2>4. m.final = {} /\ ~m.attempted /\ m.status = "created"
    BY DEF NoManifest
  <2> HIDE DEF m
  <2>5. Hook' = "none" /\ nrels' # 0
    <3>1. nrels' # 0
      BY <1>0, <2>1 DEF TypeOK
    <3>2. QED
      BY <1>0, <2>1, <2>3, <2>4, <3>1 DEF HookOK
  <2>6. QED
    BY <1>b, <2>1, <2>2, <2>3, <2>4, <2>5 DEF ForwardOK, BackwardOK, ServedBy
<1>3. CASE RecordActivation
  <2>1. /\ pc = "record_hook" /\ pc \in Attempt /\ UNCHANGED <<rels, nrels, active>>
        /\ ops' = [ops EXCEPT ![me.op].hook = me.hook]
    BY <1>3 DEF RecordActivation, Attempt
  <2>2. /\ me.stage = "new_app_healthy" /\ me.stage = rels[nrels].status
        /\ rels[nrels].attempted /\ ~me.activated
    BY <2>1 DEF AttemptOK, StageFits, Persisting
  <2>3. Hook' = me.hook
    <3>1. rels[nrels].op = nops /\ me.op = nops /\ nops \in Operations
      BY <2>1, DuringAttempt DEF HookOK
    <3>2. ops'[nops].hook = me.hook
      BY <1>0, <2>1, <3>1 DEF TypeOK, OperationRecord
    <3>3. QED
      BY <2>1, <3>1, <3>2 DEF Hook
  <2>4. /\ me.hook = "passed" => target = nrels
        /\ me.hook = "not_started" => target = active
        /\ app[nrels] = "running" /\ OnSchema(db, nrels)
    BY <2>1, <2>2 DEF ProductionOK, Migrated
  <2>5. Hook # "passed" /\ nrels # 0
    BY <1>a, <2>1, <2>2 DEF HookOK
  <2>6. ForwardOK'
    BY <1>b, <2>1, <2>2, <2>3, <2>4 DEF ForwardOK, ServedBy
  <2>7. BackwardOK'
    BY <1>b, <2>1, <2>2, <2>3, <2>4, <2>5 DEF BackwardOK, ServedBy
  <2>8. QED
    BY <2>6, <2>7
<1>4. CASE SelectActive
  <2>1. /\ pc \in Closing /\ rels[nrels].status = "active" /\ me.rel = nrels
        /\ nrels \in Releases /\ nrels # 0
    BY <1>0, <1>4 DEF SelectActive, HistoryOK, RunOK, Closing, ContextOK, TypeOK
  <2>2. Hook = "passed"
    BY <2>1 DEF HookOK, ManifestsOK, ValidManifest
  <2>3. UNCHANGED <<ops, rels, nrels>> /\ Hook' = Hook
    BY <1>4 DEF SelectActive, Hook
  <2>4. QED
    BY <1>b, <2>1, <2>2, <2>3 DEF ForwardOK, BackwardOK, ServedBy
<1>5. ASSUME pc \in Attempt, UNCHANGED <<ops, nrels, active>>,
             rels'[nrels].op = rels[nrels].op,
             rels'[nrels].status \in {"rolled_back", "failed_safe"} => ~me.activated
      PROVE  Hook' = Hook /\ ForwardOK'
  <2>1. Hook' = Hook
    BY <1>5 DEF Hook
  <2>2. Hook = "passed" => me.activated
    BY <1>5 DEF HookOK
  <2>3. QED
    BY <1>5, <1>b, <2>1, <2>2 DEF ForwardOK, ServedBy
<1>6. ASSUME pc \in Attempt, Hook = "passed", Hook' = Hook, UNCHANGED nrels PROVE BackwardOK'
  BY <1>6, <1>a DEF BackwardOK
<1>7. CASE PersistRelease
  <2>1. /\ pc \in Attempt /\ pc \in Persisting /\ pc = "persist_release"
        /\ UNCHANGED <<ops, nrels, active>>
    BY <1>7 DEF PersistRelease, Attempt, Persisting
  <2>2. me.rel = nrels /\ nrels \in Releases
    BY <1>a, <2>1
  <2>3. /\ rels'[nrels].status = me.stage /\ rels'[nrels].op = rels[nrels].op
        /\ rels'[nrels].migration_started = rels[nrels].migration_started
        /\ rels'[nrels].attempted = rels[nrels].attempted
        /\ rels'[nrels].final = IF me.stage = "final_snapshot_verified" THEN me.final
                                ELSE rels[nrels].final
    BY <1>0, <1>7, <2>2, StagePersisted
  <2>4. /\ me.stage \in TRANSITIONS(rels[nrels].status)
        /\ me.stage \in (CandidateStages \cup CutoverStages) \ {"created"}
    BY <2>1 DEF AttemptOK, StageFits
  <2>5. Hook' = Hook /\ ForwardOK'
    BY <1>5, <2>1, <2>3, <2>4 DEF CandidateStages, CutoverStages
  <2>6. BackwardOK'
    <3>1. CASE Hook = "passed"
      BY <1>6, <2>1, <2>5, <3>1
    <3>2. CASE Hook # "passed"
      <4>1. /\ me.stage \in CandidateStages => rels[nrels].status \in CandidateStages
            /\ me.stage \in Early => rels[nrels].status \in Early
            /\ me.stage \notin {"rolled_back", "failed_safe"}
        BY <1>a, <2>1, <2>4 DEF TRANSITIONS, CandidateStages, CutoverStages, Early, Manifest,
           DeploymentState, TerminalStates, ResolvedStates
      <4>2. me.stage \in Early => rels'[nrels].final = {}
        BY <2>1, <2>3, <3>2, <4>1, WayBack DEF Early, CandidateStages
      <4>3. \A f \in rels'[nrels].final :
               f \in rels[nrels].final
               \/ (OnSchema(f, active) /\ maintenance /\ Covers(f))
        BY <2>1, <2>3 DEF ProductionOK, CutoverStages
      <4>4. QED
        BY <1>a, <1>b, <2>1, <2>3, <2>5, <3>2, <4>1, <4>2, <4>3, ManifestKeepsWay
    <3>3. QED
      BY <3>1, <3>2
  <2>7. QED
    BY <2>5, <2>6
<1>8. CASE \/ IntendMigration \/ IntendActivation \/ MarkActive \/ MarkRolledBack \/ FailRelease
           \/ RequireRecovery
  <2>1. pc \in Attempt /\ UNCHANGED <<ops, nrels, active>>
    BY <1>8 DEF IntendMigration, IntendActivation, MarkActive, MarkRolledBack, FailRelease,
       RequireRecovery, Attempt
  <2>2. me.rel = nrels /\ nrels \in Releases
    BY <1>a, <2>1
  <2>3. /\ rels'[nrels].op = rels[nrels].op /\ rels'[nrels].final = rels[nrels].final
        /\ rels[nrels].migration_started => rels'[nrels].migration_started
        /\ rels[nrels].attempted => rels'[nrels].attempted
        /\ \/ rels'[nrels].status = rels[nrels].status
           \/ rels'[nrels].status = "active" /\ pc = "mark_active"
           \/ rels'[nrels].status = "rolled_back" /\ pc = "mark_rolled_back"
           \/ rels'[nrels].status = "failed_safe" /\ pc = "fail_release"
           \/ rels'[nrels].status = "recovery_required"
    <3>1. CASE IntendMigration
      BY <1>0, <2>2, <3>1, ManifestWritten DEF Continues
    <3>2. CASE IntendActivation
      BY <1>0, <2>2, <3>2, ManifestWritten DEF Continues
    <3>3. CASE MarkActive
      <4>1. pc = "mark_active"
        BY <3>3 DEF MarkActive
      <4>2. QED
        BY <1>0, <2>2, <3>3, <4>1, ManifestWritten DEF Continues
    <3>4. CASE MarkRolledBack
      <4>1. pc = "mark_rolled_back"
        BY <3>4 DEF MarkRolledBack
      <4>2. QED
        BY <1>0, <2>2, <3>4, <4>1, ManifestWritten DEF Continues
    <3>5. CASE FailRelease
      <4>1. pc = "fail_release"
        BY <3>5 DEF FailRelease
      <4>2. QED
        BY <1>0, <2>2, <3>5, <4>1, ManifestWritten DEF Continues
    <3>6. CASE RequireRecovery /\ ~UNCHANGED rels
      BY <1>0, <2>2, <3>6, ManifestWritten DEF Continues
    <3>7. CASE UNCHANGED rels
      BY <3>7
    <3>8. QED
      BY <1>8, <3>1, <3>2, <3>3, <3>4, <3>5, <3>6, <3>7
  <2>4. /\ pc = "mark_active" => me.activated
        /\ pc \in {"mark_rolled_back", "fail_release"} => ~me.activated
        /\ rels[nrels].status \notin {"rolled_back", "failed_safe"}
    <3>1. me.activated <=> me.stage = "traffic_activated"
      BY <2>1 DEF AttemptOK
    <3>2. rels[nrels].status \notin {"rolled_back", "failed_safe"}
      BY <2>1, NotSelected DEF ResolvedStates
    <3>3. QED
      BY <2>1, <3>1, <3>2 DEF AttemptOK, StageFits, Removed, CandidateStages
  <2>5. Hook' = Hook /\ ForwardOK'
    BY <1>5, <2>1, <2>3, <2>4
  <2>6. CASE Hook = "passed"
    BY <1>6, <2>1, <2>5, <2>6
  <2>7. CASE Hook # "passed"
    <3>1. pc # "mark_active"
      BY <2>1, <2>4, <2>7 DEF HookOK
    <3>2. pc = "mark_rolled_back" => ServedBy(active)
      BY <2>1 DEF ProductionOK, ServedBy, Restored, Removed, Restarted, Rerouted
    <3>3. pc = "fail_release" => ServedBy(active)
      <4> SUFFICES ASSUME pc = "fail_release" PROVE ServedBy(active)
        OBVIOUS
      <4>1. me.stage \in CandidateStages /\ rels[nrels].status = me.stage
        BY <2>1 DEF AttemptOK, StageFits, Persisting
      <4>2. ~rels[nrels].attempted /\ ~rels[nrels].migration_started
        BY <2>1, <4>1 DEF AttemptOK, Early, CandidateStages
      <4>3. QED
        BY <2>1, <2>7, <4>1, <4>2, WayBack DEF ServedBy
    <3>4. /\ rels'[nrels].status \in CandidateStages => rels[nrels].status \in CandidateStages
          /\ rels'[nrels].status \in {"rolled_back", "failed_safe"} => ServedBy(active)
          /\ rels'[nrels].status \in Early => rels'[nrels].final = {}
      BY <2>1, <2>3, <2>4, <2>7, <3>1, <3>2, <3>3, WayBack DEF CandidateStages, Early
    <3>5. QED
      BY <1>a, <1>b, <2>1, <2>3, <2>5, <2>7, <3>4, ManifestKeepsWay
  <2>8. QED
    BY <2>5, <2>6, <2>7
<1> QED
  BY <1>1, <1>2, <1>3, <1>4, <1>7, <1>8 DEF DeployStep, QuietDeployStep


(* The steps that only act on the world keep what the hook has proven. *)
LEMMA QuietForwardKept ==
    ASSUME Historic, AttemptOK, HookOK, ForwardOK, QuietDeployStep
    PROVE  ForwardOK'
<1>1. UNCHANGED <<rels, nrels>> /\ Hook' = Hook
  BY QuietDeploy, QuietHook DEF Historic, Typed
<1>2. Hook = "passed" => UNCHANGED <<app, target, db>>
  BY QuietForward
<1> QED
  BY <1>1, <1>2 DEF ForwardOK, ServedBy

(* A deployment's own writes keep what it knows of production. *)
LEMMA StoringProduction ==
    ASSUME Historic, StartOK, AttemptOK, ProductionOK, DeployStep, ~QuietDeployStep
    PROVE  ProductionOK'
<1> USE DEF ProductionOK, Persisting, Restored, Removed, Restarted, Rerouted, Migrated, Early
<1>0. TypeOK /\ ContextOK /\ HistoryOK /\ me \in Context
  BY DEF Historic, Typed, TypeOK
<1>a. pc \in Attempt => /\ me.rel = nrels /\ nrels \in Releases /\ rels[nrels] \in Manifest
                        /\ StageFits
  BY DuringAttempt DEF AttemptOK
<1>b. UNCHANGED <<app, target, maintenance, db, acked>>
  BY DEF DeployStep, QuietDeployStep, RecordOwner, CreateRelease, FailWithoutRelease,
     PersistOperation, PersistRelease, IntendMigration, AnnounceMigration, IntendActivation,
     AnnounceActivation, RecordActivation, MarkActive, SelectActive, Succeed, MarkRolledBack,
     FailRelease, FailOperation, RequireRecovery, RequireOperationRecovery, world
<1>1. CASE \/ RecordOwner \/ FailWithoutRelease \/ MarkActive \/ SelectActive \/ Succeed
           \/ MarkRolledBack \/ FailRelease \/ FailOperation \/ RequireRecovery
           \/ RequireOperationRecovery
  <2>1. pc' \notin Attempt
    BY <1>1 DEF RecordOwner, FailWithoutRelease, MarkActive, SelectActive, Succeed,
       MarkRolledBack, FailRelease, FailOperation, RequireRecovery,
       RequireOperationRecovery, Goto, Attempt
  <2>2. QED
    BY <2>1
<1>2. CASE CreateRelease
  <2>1. nrels + 1 \in Releases /\ nrels' = nrels + 1 /\ pc \in Starting /\ pc' = "candidate"
    BY <1>0, <1>2 DEF CreateRelease, ContextOK, TypeOK, Starting
  <2> DEFINE m == [NoManifest EXCEPT !.op = me.op, !.prev = IF active = 0 THEN NoApp ELSE active]
  <2>2. rels'[nrels + 1] = m
    BY <1>0, <1>2, <2>1 DEF CreateRelease, TypeOK
  <2>3. m.final = {}
    BY DEF NoManifest
  <2> HIDE DEF m
  <2>4. me'.stage = "created" /\ me'.stopped = FALSE /\ me'.new = FALSE
    BY <1>0, <1>2, <2>1 DEF CreateRelease, Context, StartOK, NoContext
  <2>5. QED
    BY <2>1, <2>2, <2>3, <2>4 DEF CutoverStages, CandidateStages
<1>3. CASE PersistOperation \/ AnnounceMigration \/ AnnounceActivation
  <2>1. /\ UNCHANGED <<rels, nrels, active, me>> /\ pc \in Attempt
        /\ pc \notin {"record_hook", "failed", "require_recovery"} \cup Restarted
        /\ pc' \notin {"record_hook", "failed", "require_recovery"} \cup Restored
        /\ pc' \in Persisting => pc \in Persisting
    BY <1>3 DEF PersistOperation, AnnounceMigration, AnnounceActivation, Goto, Attempt
  <2>2. QED
    BY <1>b, <2>1
<1>4. CASE IntendMigration \/ IntendActivation
  <2>1. /\ UNCHANGED <<nrels, active>> /\ pc \in Attempt
        /\ pc \notin {"record_hook", "failed", "require_recovery"} \cup Restarted
        /\ pc' \in {"announce_migration", "announce_activation"}
        /\ me'.final = me.final /\ me'.stage = me.stage /\ me'.stopped = me.stopped
        /\ me'.new = me.new
    BY <1>0, <1>4 DEF IntendMigration, IntendActivation, Attempt, Context
  <2>2. rels'[nrels].final = rels[nrels].final
    <3>1. CASE IntendMigration
      BY <1>0, <1>a, <2>1, <3>1, ManifestWritten DEF Continues
    <3>2. CASE IntendActivation
      BY <1>0, <1>a, <2>1, <3>2, ManifestWritten DEF Continues
    <3>3. QED
      BY <1>4, <3>1, <3>2
  <2>3. QED
    BY <1>b, <2>1, <2>2
<1>5. CASE PersistRelease
  <2>1. /\ UNCHANGED <<nrels, active, me>> /\ pc = "persist_release" /\ pc \in Attempt
        /\ pc' \in {"resolve", "stop", "create_final", "replicate", "start_new",
                    "intend_activation", "disable_maintenance", "remove_new", "candidate"}
    BY <1>5 DEF PersistRelease, Goto, After, Attempt
  <2>2. rels'[nrels].final = IF me.stage = "final_snapshot_verified" THEN me.final
                             ELSE rels[nrels].final
    BY <1>0, <1>5, <1>a, <2>1, StagePersisted
  <2>3. QED
    BY <1>b, <2>1, <2>2
<1>6. CASE RecordActivation
  <2>1. /\ UNCHANGED <<nrels, rels, active>> /\ pc = "record_hook" /\ pc \in Attempt
        /\ me.stage = "new_app_healthy"
    BY <1>6, <1>a DEF RecordActivation, Attempt, StageFits
  <2> DEFINE h == HookMayHaveRun(me.hook)
  <2>2. \/ /\ pc' = "persist"
           /\ me' = [me EXCEPT !.activated = TRUE, !.stage = "traffic_activated"]
        \/ /\ pc' = "failed"
           /\ me' = [me EXCEPT !.attempted = h, !.err = "safe"]
    BY <1>6 DEF RecordActivation
  <2> HIDE DEF h
  <2>3. /\ pc' \in {"persist", "failed"}
        /\ me'.stage = IF pc' = "persist" THEN "traffic_activated" ELSE me.stage
        /\ me'.final = me.final /\ me'.stopped = me.stopped /\ me'.new = me.new
    BY <1>0, <2>2 DEF Context
  <2>4. QED
    BY <1>b, <2>1, <2>3 DEF CandidateStages
<1> QED
  BY <1>1, <1>2, <1>3, <1>4, <1>5, <1>6 DEF DeployStep, QuietDeployStep


(* A recovery that goes forward leaves the new release alone, one that     *)
(* goes back opens the service when the active release is back.             *)
LEMMA RecoverWay ==
    ASSUME Historic, ManifestsOK, PlanRunOK, HookOK, ForwardOK, BackwardOK, WayBackOK,
           RecoverStep
    PROVE  ForwardOK' /\ BackwardOK'
<1> USE DEF world, durable
<1>0. /\ TypeOK /\ ContextOK /\ HistoryOK /\ nrels' = nrels /\ (nrels # 0 => Hook' = Hook)
      /\ active \in 0..MaxRel
  BY RecoverHook DEF Historic, Typed, TypeOK
<1>a. pc \in Planned =>
        /\ nrels \in Releases /\ nrels # 0 /\ me.rel = nrels
        /\ Head(me.plan) \in IF me.activated THEN ForwardActions ELSE BackwardActions
        /\ \A a : Rank(a) < Rank(Head(me.plan)) => ~Left(me.plan, a)
        /\ me.activated <=> Hook = "passed"
        /\ ~me.activated => me.prev = active /\ active # nrels
        /\ pc \in Taken => rels[nrels].status = "recovery_required"
  BY DuringPlan, HeadDirected DEF PlanRunOK, HookOK
<1>1. CASE \/ Supersede \/ CreateRecovery \/ OwnRecovery \/ AnnounceAction \/ RecoverVerify
           \/ RecoverActionFails \/ Recovered \/ RecoveryFailed
  <2>1. UNCHANGED <<rels, active, app, target, db, maintenance, acked>>
    BY <1>1 DEF Supersede, CreateRecovery, OwnRecovery, AnnounceAction, RecoverVerify,
       RecoverActionFails, Recovered, RecoveryFailed
  <2>2. QED
    BY <1>0, <2>1 DEF ForwardOK, BackwardOK, ServedBy
<1>2. CASE RecoverReopen
  <2>1. /\ UNCHANGED <<rels, active, app, target, db, acked>>
        /\ pc \in Planned /\ Head(me.plan) = "disable_maintenance"
    BY <1>2 DEF RecoverReopen, Planned
  <2>2. Rank("restart_previous") < Rank(Head(me.plan))
    BY <2>1 DEF Rank
  <2>3. Hook # "passed" => app[active] = "running"
    BY <1>a, <2>1, <2>2 DEF WayBackOK
  <2>4. QED
    BY <1>0, <1>a, <2>1, <2>3 DEF ForwardOK, BackwardOK, ServedBy
<1>3. CASE RecoverRemoveNew \/ RecoverRestore \/ RecoverRestart \/ RecoverRoute
  <2>1. /\ UNCHANGED <<rels, active, maintenance, acked>>
        /\ pc \in Planned /\ pc \in Taken
        /\ Head(me.plan) \in {"remove_new", "restore_final", "restart_previous",
                              "activate_previous"}
    BY <1>3 DEF RecoverRemoveNew, RecoverRestore, RecoverRestart, RecoverRoute, Planned, Taken
  <2>2. ~me.activated /\ Hook # "passed" /\ me.prev = active /\ active # nrels /\ nrels # 0
    BY <1>a, <2>1 DEF ForwardActions
  <2>3. /\ rels[nrels].status = "recovery_required" /\ target \in {active, nrels}
        /\ ~rels[nrels].attempted \/ Hook = "not_started" => target = active
        /\ ~rels[nrels].migration_started => OnSchema(db, active)
        /\ \A f \in rels[nrels].final : OnSchema(f, active)
        /\ NoReboot /\ app[active] # "running" =>
              \A f \in rels[nrels].final : maintenance /\ acked \subseteq f.writes
    BY <1>a, <2>1, <2>2 DEF BackwardOK
  <2>4. SUFFICES /\ target' \in {active, nrels}
                 /\ ~rels[nrels].attempted \/ Hook = "not_started" => target' = active
                 /\ ~rels[nrels].migration_started => OnSchema(db', active)
                 /\ app'[active] # "running" => app[active] # "running"
    BY <1>0, <2>1, <2>2, <2>3 DEF ForwardOK, BackwardOK, Early, CandidateStages
  <2>5. CASE RecoverRemoveNew
    <3>1. UNCHANGED <<target, db>> /\ app'[active] = app[active]
      BY <1>0, <1>a, <2>1, <2>2, <2>5 DEF RecoverRemoveNew, RemoveApplication, TypeOK
    <3>2. QED
      BY <2>3, <3>1
  <2>6. CASE RecoverRestore
    <3>1. UNCHANGED <<app, target>> /\ db' \in rels[nrels].final
      BY <1>a, <2>1, <2>6 DEF RecoverRestore
    <3>2. QED
      BY <2>3, <3>1
  <2>7. CASE RecoverRestart
    <3>1. UNCHANGED <<target, db>> /\ app' = [app EXCEPT ![active] = "running"]
      BY <2>2, <2>7 DEF RecoverRestart, RestartApplication
    <3>2. app'[active] = "running"
      BY <1>0, <3>1 DEF TypeOK
    <3>3. QED
      BY <2>3, <3>1, <3>2
  <2>8. CASE RecoverRoute
    BY <2>2, <2>3, <2>8 DEF RecoverRoute, RouteTo
  <2>9. QED
    BY <1>3, <2>5, <2>6, <2>7, <2>8
<1>4. CASE TakeRelease \/ Resolve
  <2>1. /\ UNCHANGED <<active, app, target, db, maintenance, acked>> /\ pc \in Planned
    BY <1>4 DEF TakeRelease, Resolve, Planned
  <2>2. CASE UNCHANGED rels
    BY <1>0, <2>1, <2>2 DEF ForwardOK, BackwardOK, ServedBy
  <2>3. CASE ~UNCHANGED rels
    <3>1. /\ rels'[nrels].final = rels[nrels].final
          /\ rels'[nrels].migration_started = rels[nrels].migration_started
          /\ rels'[nrels].attempted = rels[nrels].attempted
          /\ \/ rels'[nrels].status = "recovery_required"
             \/ Resolve /\ rels'[nrels].status = IF me.activated THEN "active" ELSE "rolled_back"
      <4>1. CASE TakeRelease
        <5>1. TakeRelease /\ ~UNCHANGED rels /\ me.rel = nrels /\ nrels \in Releases
          BY <1>a, <2>1, <2>3, <4>1
        <5>2. QED
          BY <1>0, <5>1, ManifestWritten DEF Continues
      <4>2. CASE Resolve
        <5>1. Resolve /\ ~UNCHANGED rels /\ me.rel = nrels /\ nrels \in Releases
          BY <1>a, <2>1, <2>3, <4>2
        <5>2. QED
          BY <1>0, <5>1, ManifestWritten DEF Continues
      <4>3. QED
        BY <1>4, <4>1, <4>2
    <3>2. CASE Hook = "passed"
      <4>1. me.activated
        BY <1>a, <2>1, <3>2
      <4>2. QED
        BY <1>0, <1>a, <2>1, <3>1, <3>2, <4>1 DEF ForwardOK, BackwardOK, ServedBy
    <3>3. CASE Hook # "passed"
      <4>1. ~me.activated /\ nrels # 0
        BY <1>a, <2>1, <3>3
      <4>2. Resolve => ServedBy(active)
        <5>1. Resolve =>
                /\ Rank("restore_final") < Rank(Head(me.plan))
                /\ Rank("restart_previous") < Rank(Head(me.plan))
                /\ Rank("activate_previous") < Rank(Head(me.plan))
          BY DEF Resolve, Rank
        <5>2. QED
          BY <1>a, <2>1, <4>1, <5>1 DEF WayBackOK, ServedBy
      <4>3. ForwardOK'
        BY <1>0, <3>3, <4>1 DEF ForwardOK
      <4>4. /\ rels'[nrels].status \notin CandidateStages /\ rels'[nrels].status \notin Early
            /\ rels'[nrels].status \in {"rolled_back", "failed_safe"} => ServedBy(active)
        BY <3>1, <4>1, <4>2 DEF CandidateStages, Early
      <4>5. BackwardOK'
        BY <1>0, <2>1, <3>1, <3>3, <4>1, <4>4, ManifestKeepsWay
      <4>6. QED
        BY <4>3, <4>5
    <3>4. QED
      BY <3>2, <3>3
  <2>4. QED
    BY <2>2, <2>3
<1>5. CASE SelectRecovered
  <2>1. /\ rels[nrels].status = "active" /\ me.rel = nrels /\ nrels \in Releases
        /\ UNCHANGED <<rels, app, target, db>>
    BY <1>0, <1>5 DEF SelectRecovered, HistoryOK, RunOK, Closing, ContextOK, TypeOK
  <2>2. Hook = "passed" /\ nrels # 0
    BY <2>1 DEF HookOK, ManifestsOK, ValidManifest
  <2>3. QED
    BY <1>0, <2>1, <2>2 DEF ForwardOK, BackwardOK, ServedBy
<1> QED
  BY <1>1, <1>2, <1>3, <1>4, <1>5 DEF RecoverStep

(* It puts a backup back only while the active release is stopped. *)
LEMMA RecoverWrites ==
    ASSUME Historic, PlanRunOK, HookOK, BackwardOK, NoReboot => NoAcknowledgedWriteLost,
           RecoverStep
    PROVE  (NoReboot => NoAcknowledgedWriteLost') /\ UNCHANGED orphan /\ pc' \notin Attempt
<1> USE DEF world, durable
<1>a. pc \in Planned =>
        /\ nrels \in Releases /\ nrels # 0 /\ me.rel = nrels
        /\ Head(me.plan) \in IF me.activated THEN ForwardActions ELSE BackwardActions
        /\ me.activated <=> Hook = "passed"
        /\ ~me.activated => me.prev = active
  BY DuringPlan, HeadDirected DEF PlanRunOK, HookOK
<1>1. UNCHANGED <<acked, orphan>> /\ (UNCHANGED db \/ RecoverRestore)
  BY DEF RecoverStep, Supersede, TakeRelease, CreateRecovery, OwnRecovery, AnnounceAction,
         RecoverRemoveNew, RecoverRestart, RecoverRoute, RecoverReopen, RecoverRestore,
         RecoverVerify, RecoverActionFails, Resolve, SelectRecovered, Recovered,
         RecoveryFailed
<1>b. pc' \notin Attempt
  BY DEF RecoverStep, Supersede, TakeRelease, CreateRecovery, OwnRecovery, AnnounceAction,
         RecoverRemoveNew, RecoverRestore, RecoverRestart, RecoverRoute, RecoverReopen,
         RecoverVerify, RecoverActionFails, Resolve, SelectRecovered, Recovered,
         RecoveryFailed, Done, RecoveryFails, Goto, ReleaseLock, Attempt
<1>2. CASE RecoverRestore
  <2>1. /\ pc \in Planned /\ Head(me.plan) = "restore_final" /\ app[me.prev] = "stopped"
        /\ \E f \in rels[me.rel].final : db' = f
    BY <1>2 DEF RecoverRestore, Planned
  <2>2. ~me.activated
    BY <1>a, <2>1 DEF ForwardActions
  <2>3. NoReboot => acked \subseteq db'.writes
    BY <1>a, <2>1, <2>2 DEF BackwardOK
  <2>4. QED
    BY <1>1, <1>b, <2>3 DEF NoAcknowledgedWriteLost
<1>3. CASE UNCHANGED db
  BY <1>1, <1>b, <1>3 DEF NoAcknowledgedWriteLost
<1> QED
  BY <1>1, <1>2, <1>3

(* An action that is done has brought back what the plan says. *)
LEMMA WayBackDone ==
    ASSUME Historic, PlanRunOK, WayBackOK, pc = "perform", Done, UNCHANGED active,
           ~me.activated =>
              /\ db'.schema = db.schema \/ OnSchema(db', active)
              /\ app'[active] = app[active] \/ app'[active] = "running"
              /\ target' = target \/ target' = active
              /\ Head(me.plan) = "restore_final" => OnSchema(db', active)
              /\ Head(me.plan) = "restart_previous" => app'[active] = "running"
              /\ Head(me.plan) = "activate_previous" => target' = active
    PROVE  WayBackOK'
<1>0. pc \in Planned
  BY DEF Planned
<1>1. me \in Context
  BY <1>0, DuringPlan
<1> DEFINE t == Tail(me.plan)
<1>2. \A a : Left(me.plan, a) => a = Head(me.plan) \/ Left(t, a)
  BY <1>0, HeadDirected
<1>3. me'.plan = t /\ me'.activated = me.activated
  BY <1>1 DEF Done, Context
<1> HIDE DEF t
<1>4. ~me.activated =>
        /\ ~Left(t, "restore_final") => OnSchema(db', active)
        /\ ~Left(t, "restart_previous") => app'[active] = "running"
        /\ ~Left(t, "activate_previous") => target' = active
  BY <1>0, <1>2 DEF WayBackOK
<1> QED
  BY <1>3, <1>4 DEF WayBackOK

(* The actions of a recovery bring back what its plan says. *)
LEMMA RecoverWayBack ==
    ASSUME Historic, PlanRunOK, HookOK, BackwardOK, WayBackOK, RecoverStep
    PROVE  WayBackOK'
<1> USE DEF world, durable
<1>0. TypeOK /\ active \in 0..MaxRel
  BY DEF Historic, Typed, TypeOK
<1>a. pc \in Planned =>
        /\ nrels \in Releases /\ nrels # 0 /\ me.rel = nrels /\ me \in Context
        /\ Head(me.plan) \in IF me.activated THEN ForwardActions ELSE BackwardActions
        /\ me.activated <=> Hook = "passed"
        /\ ~me.activated => me.prev = active /\ active # nrels
  BY DuringPlan, HeadDirected DEF PlanRunOK, HookOK
<1>1. CASE Supersede \/ TakeRelease \/ OwnRecovery \/ AnnounceAction
  <2>1. /\ UNCHANGED <<active, app, target, db>> /\ pc \in Planned
        /\ UNCHANGED me \/ pc' = "idle"
    BY <1>1 DEF Supersede, TakeRelease, OwnRecovery, AnnounceAction, Goto, ReleaseLock, Planned
  <2>2. QED
    BY <2>1 DEF WayBackOK, Planned
<1>2. CASE CreateRecovery
  <2>1. /\ UNCHANGED <<active, app, target, db>> /\ pc \in Planned
        /\ me' = [me EXCEPT !.op = nops + 1]
    BY <1>2 DEF CreateRecovery, Planned
  <2>2. me'.plan = me.plan /\ me'.activated = me.activated
    BY <1>a, <2>1 DEF Context
  <2>3. QED
    BY <2>1, <2>2 DEF WayBackOK
<1>3. CASE \/ RecoverActionFails \/ Resolve \/ SelectRecovered \/ Recovered \/ RecoveryFailed
  <2>1. pc' \notin Planned
    BY <1>3 DEF RecoverActionFails, Resolve, SelectRecovered, Recovered, RecoveryFailed,
          RecoveryFails, Goto, Planned
  <2>2. QED
    BY <2>1 DEF WayBackOK
<1>4. CASE \/ RecoverRemoveNew \/ RecoverRestore \/ RecoverRestart \/ RecoverRoute
           \/ RecoverReopen \/ RecoverVerify
  <2>1. /\ pc = "perform" /\ pc \in Planned /\ UNCHANGED <<rels, active>>
        /\ Done \/ RecoveryFails
    BY <1>4 DEF RecoverRemoveNew, RecoverRestore, RecoverRestart, RecoverRoute, RecoverReopen,
          RecoverVerify, Planned
  <2>2. CASE RecoveryFails
    BY <2>2 DEF RecoveryFails, Goto, WayBackOK, Planned
  <2>3. CASE Done
    <3>1. CASE RecoverRemoveNew
      <4>1. UNCHANGED <<db, target>> /\ app' = [app EXCEPT ![nrels] = "absent"]
            /\ Head(me.plan) = "remove_new"
        BY <1>a, <2>1, <3>1 DEF RecoverRemoveNew, RemoveApplication
      <4>2. active # nrels => app'[active] = app[active]
        BY <1>0, <4>1 DEF TypeOK
      <4>3. QED
        BY <1>a, <2>1, <2>3, <4>1, <4>2, WayBackDone
    <3>2. CASE RecoverRestore
      <4>1. /\ UNCHANGED <<app, target>> /\ db' \in rels[nrels].final
            /\ Head(me.plan) = "restore_final"
        BY <1>a, <2>1, <3>2 DEF RecoverRestore
      <4>2. ~me.activated => OnSchema(db', active)
        BY <1>a, <2>1, <4>1 DEF BackwardOK
      <4>3. QED
        BY <2>1, <2>3, <4>1, <4>2, WayBackDone
    <3>3. CASE RecoverRestart
      <4>1. /\ UNCHANGED <<db, target>> /\ app' = [app EXCEPT ![me.prev] = "running"]
            /\ Head(me.plan) = "restart_previous"
        BY <3>3 DEF RecoverRestart, RestartApplication
      <4>2. ~me.activated => app'[active] = "running"
        BY <1>0, <1>a, <2>1, <4>1 DEF TypeOK
      <4>3. QED
        BY <2>1, <2>3, <4>1, <4>2, WayBackDone
    <3>4. CASE RecoverRoute
      <4>1. UNCHANGED <<db, app>> /\ target' = me.prev /\ Head(me.plan) = "activate_previous"
        BY <3>4 DEF RecoverRoute, RouteTo
      <4>2. QED
        BY <1>a, <2>1, <2>3, <4>1, WayBackDone
    <3>5. CASE RecoverReopen \/ RecoverVerify
      <4>1. /\ UNCHANGED <<db, app, target>>
            /\ Head(me.plan) \in {"disable_maintenance", "verify_previous", "verify_new"}
        BY <3>5 DEF RecoverReopen, RecoverVerify
      <4>2. QED
        BY <2>1, <2>3, <4>1, WayBackDone
    <3>6. QED
      BY <1>4, <3>1, <3>2, <3>3, <3>4, <3>5
  <2>4. QED
    BY <2>1, <2>2, <2>3
<1> QED
  BY <1>1, <1>2, <1>3, <1>4 DEF RecoverStep


(* A user writes only where the promises allow it, and a command that is   *)
(* killed or interrupted leaves the world as it is.                         *)
LEMMA OtherPromises ==
    ASSUME Historic, AttemptOK, PromisesOK,
           StartDeploy \/ Unlock \/ Environment
    PROVE  PromisesOK'
<1> USE DEF world, durable
<1>0. /\ TypeOK /\ HookOK' /\ nrels' = nrels /\ (nrels # 0 => Hook' = Hook)
      /\ (NoOrphan => orphan = 0) /\ (NoReboot => NoAcknowledgedWriteLost)
      /\ HookOK /\ ForwardOK /\ BackwardOK /\ ProductionOK /\ WayBackOK
  BY OtherHook DEF PromisesOK, Historic, Typed
<1>1. CASE StartDeploy \/ Unlock \/ Crash \/ Interrupt
  <2>1. /\ UNCHANGED <<rels, active, app, target, maintenance, db, acked>>
        /\ (NoOrphan => orphan' = orphan)
        /\ pc' \in {"idle", "record_owner"}
    BY <1>1 DEF StartDeploy, Unlock, Crash, Interrupt, ReleaseLock, NoOrphan
  <2>2. ForwardOK' /\ BackwardOK'
    BY <1>0, <2>1 DEF ForwardOK, BackwardOK, ServedBy
  <2>3. ProductionOK' /\ WayBackOK'
    BY <2>1 DEF ProductionOK, WayBackOK, Attempt, Planned
  <2>4. QED
    BY <1>0, <2>1, <2>2, <2>3 DEF PromisesOK, NoAcknowledgedWriteLost
<1>2. CASE \E w \in Writes : UserWrite(w)
  <2>1. PICK w \in Writes : UserWrite(w)
    BY <1>2
  <2>2. /\ UNCHANGED <<ops, rels, active, app, target, maintenance, orphan, pc, me>>
        /\ ~maintenance /\ acked' = acked \cup {w}
        /\ db'.schema = db.schema /\ db'.writes = db.writes \cup {w}
    BY <1>0, <2>1 DEF UserWrite, TypeOK, Content
  <2>3. NoReboot => NoAcknowledgedWriteLost'
    BY <1>0, <2>2 DEF NoAcknowledgedWriteLost
  <2>4. ForwardOK'
    BY <1>0, <2>2 DEF ForwardOK, ServedBy
  <2>5. BackwardOK'
    BY <1>0, <2>2 DEF BackwardOK, ServedBy
  <2>6. ProductionOK'
    <3>1. pc \in Attempt /\ pc \in Persisting =>
             me.stage # "final_snapshot_verified"
      BY <1>0, <2>2 DEF ProductionOK, Persisting, CutoverStages
    <3>2. QED
      BY <1>0, <2>2, <3>1 DEF ProductionOK
  <2>7. WayBackOK'
    BY <1>0, <2>2 DEF WayBackOK
  <2>8. QED
    BY <1>0, <2>2, <2>3, <2>4, <2>5, <2>6, <2>7 DEF PromisesOK
<1>3. CASE OrphanMigrates
  <2>1. /\ UNCHANGED <<ops, nops, rels, nrels, active, app, target, maintenance, acked, pc, me>>
        /\ ~NoOrphan /\ db'.writes = db.writes
    BY <1>0, <1>3 DEF OrphanMigrates, TypeOK, Content
  <2>2. ForwardOK' /\ BackwardOK'
    BY <1>0, <2>1 DEF ForwardOK, BackwardOK, ServedBy
  <2>3. ProductionOK' /\ WayBackOK'
    BY <1>0, <2>1 DEF ProductionOK, WayBackOK
  <2>4. QED
    BY <1>0, <2>1, <2>2, <2>3 DEF PromisesOK, NoAcknowledgedWriteLost
<1>4. CASE Reboot
  <2>1. /\ UNCHANGED <<ops, nops, rels, nrels, active, target, maintenance, db, acked>>
        /\ ~NoReboot /\ pc' = "idle" /\ orphan' = 0
    BY <1>4 DEF Reboot, NoReboot
  <2>2. ForwardOK' /\ BackwardOK'
    BY <1>0, <2>1 DEF ForwardOK, BackwardOK, ServedBy
  <2>3. ProductionOK' /\ WayBackOK'
    BY <2>1 DEF ProductionOK, WayBackOK, Attempt, Planned
  <2>4. QED
    BY <1>0, <2>1, <2>2, <2>3 DEF PromisesOK
<1> QED
  BY <1>1, <1>2, <1>3, <1>4 DEF Environment

(* A recovery starts with a plan that brings back what is missing. *)
LEMMA DiagnosedPromises ==
    ASSUME Historic, WorldOK, PromisesOK, StartRecover
    PROVE  PromisesOK'
<1> USE DEF world, durable
<1>0. /\ TypeOK /\ HookOK' /\ nrels' = nrels /\ (nrels # 0 => Hook' = Hook)
      /\ (NoOrphan => orphan = 0) /\ (NoReboot => NoAcknowledgedWriteLost)
      /\ HookOK /\ ForwardOK /\ BackwardOK /\ ProductionOK /\ WayBackOK
  BY OtherHook DEF PromisesOK, Historic, Typed
<1>1. /\ UNCHANGED <<rels, active, app, target, maintenance, db, acked, orphan>>
      /\ pc' = "supersede" /\ pc' \in Planned /\ nrels \in Releases /\ nrels # 0
  BY Diagnosis DEF Planned
<1>2. ForwardOK' /\ BackwardOK' /\ ProductionOK'
  BY <1>0, <1>1 DEF ForwardOK, BackwardOK, ProductionOK, ServedBy, Attempt
<1>3. PlanRunOK'
  BY Diagnosed DEF WorldOK
<1>4. WayBackOK'
  <2>1. PICK matches \in BOOLEAN :
           /\ matches => db \in rels[nrels].final
           /\ \/ me'.activated = TRUE /\ CompletesNew(nrels)
              \/ /\ me'.activated = FALSE /\ RecoversPrevious(nrels, matches)
                 /\ me'.plan = PreviousActions(nrels, matches)
    BY Diagnosis
  <2>2. CASE me'.activated = TRUE
    BY <2>2 DEF WayBackOK
  <2>3. CASE me'.activated = FALSE
    <3> DEFINE p == PreviousActions(nrels, matches)
    <3>1. RecoversPrevious(nrels, matches) /\ me'.plan = p
      BY <2>1, <2>3
    <3>2. /\ Left(p, "activate_previous")
          /\ MayHaveChanged(nrels) /\ ~matches => Left(p, "restore_final")
          /\ LivePrevious(nrels) = "stopped" => Left(p, "restart_previous")
      BY PlansOrdered
    <3> HIDE DEF p
    <3>3. Hook # "passed"
      BY <1>0, <1>1, <3>1, SideTaken
    <3>4. /\ ~rels[nrels].migration_started => OnSchema(db, active)
          /\ \A f \in rels[nrels].final : OnSchema(f, active)
      BY <1>0, <1>1, <3>3 DEF BackwardOK
    <3>5. ~Left(p, "restore_final") => OnSchema(db, active)
      <4>1. ~MayHaveChanged(nrels) => ~rels[nrels].migration_started
        BY DEF MayHaveChanged
      <4>2. QED
        BY <2>1, <3>2, <3>4, <4>1
    <3>6. rels[nrels].prev = active
      BY <1>0, <1>1, <1>3, <2>3 DEF PlanRunOK
    <3>7. ~Left(p, "restart_previous") => app[active] = "running"
      <4>1. LivePrevious(nrels) \in {"running", "stopped"}
        BY <3>1 DEF RecoversPrevious
      <4>2. LivePrevious(nrels) = app[active]
        BY <4>1, <3>6 DEF LivePrevious
      <4>3. QED
        BY <3>2, <4>1, <4>2
    <3>8. QED
      BY <1>1, <3>1, <3>2, <3>5, <3>7 DEF WayBackOK
  <2>4. QED
    BY <2>1, <2>2, <2>3
<1> QED
  BY <1>0, <1>1, <1>2, <1>4 DEF PromisesOK, NoAcknowledgedWriteLost

(* A deployment keeps the promises. *)
LEMMA DeployPromises ==
    ASSUME Historic, WorldOK, PromisesOK, DeployStep
    PROVE  PromisesOK'
<1>0. /\ ManifestsOK /\ StartOK /\ AttemptOK /\ AttemptAppsOK
      /\ (NoOrphan => orphan = 0) /\ (NoReboot => NoAcknowledgedWriteLost)
      /\ HookOK /\ ForwardOK /\ BackwardOK /\ ProductionOK /\ WayBackOK
  BY DEF PromisesOK, WorldOK
<1>1. NoOrphan => orphan' = 0
  <2>1. CASE MigrationFails
    BY <2>1 DEF MigrationFails, NoOrphan
  <2>2. CASE ~MigrationFails
    <3>1. UNCHANGED orphan
      BY <2>2 DEF DeployStep, RecordOwner, CreateRelease, FailWithoutRelease,
         PersistOperation, PersistRelease, IntendMigration, AnnounceMigration,
         IntendActivation, AnnounceActivation, RecordActivation, MarkActive, SelectActive,
         Succeed, MarkRolledBack, FailRelease, FailOperation, RequireRecovery,
         RequireOperationRecovery, CandidateStage, CandidateFails, ResolvePrevious,
         ResolveFails, EnableMaintenance, EnableFails, UndoMaintenance, UndoFails,
         VerifyUndo, StopCurrent, StopFails, CreateFinal, ReplicateFinal, BackupFails,
         StartMigration, MigrationNotStarted, FinishMigration, StartNew, StartNewFails,
         CheckNew, ActivateNew, DisableMaintenance, DisableFails, DispatchFailure, RemoveNew,
         RestoreDatabase, RestartPrevious, RouteOld, Reopen, VerifyPrevious, RollbackFails,
         world
    <3>2. QED
      BY <1>0, <3>1
  <2>3. QED
    BY <2>1, <2>2
<1>2. CASE QuietDeployStep
  <2>1. /\ HookOK' /\ ForwardOK' /\ BackwardOK' /\ ProductionOK'
        /\ NoReboot => NoAcknowledgedWriteLost'
    BY <1>0, <1>2, QuietHook, QuietForwardKept, QuietBackward, QuietProduction, QuietWrites
  <2>2. WayBackOK'
    BY <1>2, QuietTargets DEF WayBackOK, Attempt, Planned
  <2>3. QED
    BY <1>1, <2>1, <2>2 DEF PromisesOK
<1>3. CASE ~QuietDeployStep
  <2>1. HookOK' /\ ForwardOK' /\ BackwardOK' /\ ProductionOK'
    BY <1>0, <1>3, StoringHook, StoringWay, StoringProduction
  <2>2. UNCHANGED <<db, acked>> /\ pc' \notin Planned
    BY <1>3 DEF DeployStep, QuietDeployStep, RecordOwner, CreateRelease, FailWithoutRelease,
        PersistOperation, PersistRelease, IntendMigration, AnnounceMigration,
        IntendActivation, AnnounceActivation, RecordActivation, MarkActive, SelectActive,
        Succeed, MarkRolledBack, FailRelease, FailOperation, RequireRecovery,
        RequireOperationRecovery, Goto, Planned, After, world
  <2>3. QED
    BY <1>0, <1>1, <2>1, <2>2 DEF PromisesOK, WayBackOK, NoAcknowledgedWriteLost
<1> QED
  BY <1>2, <1>3

(* So does a recovery. *)
LEMMA RecoverPromises ==
    ASSUME Historic, WorldOK, PromisesOK, RecoverStep
    PROVE  PromisesOK'
<1>0. /\ ManifestsOK /\ PlanRunOK
      /\ (NoOrphan => orphan = 0) /\ (NoReboot => NoAcknowledgedWriteLost)
      /\ HookOK /\ ForwardOK /\ BackwardOK /\ ProductionOK /\ WayBackOK
  BY DEF PromisesOK, WorldOK
<1>1. HookOK' /\ ForwardOK' /\ BackwardOK' /\ WayBackOK'
  BY <1>0, RecoverHook, RecoverWay, RecoverWayBack
<1>2. (NoReboot => NoAcknowledgedWriteLost') /\ (NoOrphan => orphan' = 0) /\ pc' \notin Attempt
  BY <1>0, RecoverWrites
<1> QED
  BY <1>1, <1>2 DEF PromisesOK, ProductionOK

------------------------------------------------------------------------------
(* The invariant.                                                           *)

(* The promises hold on a host without a history. *)
LEMMA InitPromises == Init => PromisesOK
<1> SUFFICES ASSUME Init PROVE PromisesOK
  OBVIOUS
<1>1. /\ nrels = 0 /\ active = 0 /\ pc = "idle" /\ target = 0 /\ orphan = 0
      /\ OnSchema(db, 0) /\ acked = {} /\ app[0] = "running"
  BY DEF Init
<1>2. HookOK /\ ProductionOK /\ WayBackOK
  BY <1>1 DEF HookOK, ProductionOK, WayBackOK, Starting, Attempt, Planned
<1>3. ForwardOK /\ BackwardOK
  BY <1>1 DEF ForwardOK, BackwardOK, ServedBy
<1> QED
  BY <1>1, <1>2, <1>3 DEF PromisesOK, NoAcknowledgedWriteLost

(* They do not depend on what is not written. *)
LEMMA StutterPromises ==
    ASSUME PromisesOK, UNCHANGED vars
    PROVE  PromisesOK'
<1>1. UNCHANGED <<ops, nops, rels, nrels, active, app, target, maintenance, db, acked, orphan,
                  pc, me>>
  BY DEF vars, durable, world
<1>2. HookOK' /\ ForwardOK' /\ BackwardOK'
  BY <1>1 DEF PromisesOK, HookOK, ForwardOK, BackwardOK, Hook, ServedBy
<1>3. ProductionOK' /\ WayBackOK'
  BY <1>1 DEF PromisesOK, ProductionOK, WayBackOK
<1> QED
  BY <1>1, <1>2, <1>3 DEF PromisesOK, NoAcknowledgedWriteLost

(* Every step of every command keeps them. *)
LEMMA NextPromises ==
    Historic /\ WorldOK /\ PromisesOK /\ [Next]_vars => PromisesOK'
<1> SUFFICES ASSUME Historic, WorldOK, PromisesOK, [Next]_vars PROVE PromisesOK'
  OBVIOUS
<1>1. CASE UNCHANGED vars
  BY <1>1, StutterPromises
<1>2. CASE DeployStep
  BY <1>2, DeployPromises
<1>3. CASE RecoverStep
  BY <1>3, RecoverPromises
<1>4. CASE StartDeploy \/ Unlock \/ Environment
  BY <1>4, OtherPromises DEF WorldOK
<1>5. CASE StartRecover
  BY <1>5, DiagnosedPromises
<1> QED
  BY <1>1, <1>2, <1>3, <1>4, <1>5 DEF Next, CommandStep

(* Whatever happens, what the faults leave of the promises holds. *)
LEMMA AlwaysPromises == Spec => [](Historic /\ WorldOK /\ PromisesOK)
<1>1. Init => Historic /\ WorldOK /\ PromisesOK
  BY InitHistoric, InitWorld, InitPromises
<1>2. Historic /\ WorldOK /\ PromisesOK /\ [Next]_vars => (Historic /\ WorldOK /\ PromisesOK)'
  BY NextHistoric, NextWorld, NextPromises
<1> QED
  BY <1>1, <1>2, PTL DEF Spec


------------------------------------------------------------------------------
(* What follows for the properties.                                         *)

(* For every value of the constants: whatever step of a deployment or a    *)
(* recovery is killed or interrupted, and however often, and also when a   *)
(* migration outlives its command, a write that the service acknowledged   *)
(* stays in the database, unless the host restarts.                         *)
THEOREM WritesKept ==
    ASSUME NoReboot
    PROVE  Spec => []NoAcknowledgedWriteLost
<1>1. Historic /\ WorldOK /\ PromisesOK => NoAcknowledgedWriteLost
  BY DEF PromisesOK
<1> QED
  BY <1>1, AlwaysPromises, PTL

(* When commands are killed or interrupted and nothing else happens, no    *)
(* migration outlives its command and the host does not restart.            *)
LEMMA OnlyCommands == CommandFaults => NoReboot /\ NoOrphan
BY DEF CommandFaults, NoReboot, NoOrphan

(* For every value of the constants and whatever is killed or interrupted: *)
(* when the newest operation says SUCCEEDED or FAILED_SAFE, the selected   *)
(* release serves users, on its own schema and out of maintenance.          *)
THEOREM OutcomesTrue ==
    ASSUME CommandFaults
    PROVE  Spec => []TerminalOutcomeIsTrue
<1>0. NoReboot /\ NoOrphan
  BY OnlyCommands
<1>1. ASSUME Historic, WorldOK, PromisesOK PROVE TerminalOutcomeIsTrue
  <2> SUFFICES ASSUME nops = 0 \/ ops[nops].status \in {"succeeded", "failed_safe"}
               PROVE  Serving(active) /\ db.schema = active
    BY DEF TerminalOutcomeIsTrue
  <2>1. Settled /\ nrels \in 0..MaxRel
    BY <1>1 DEF Historic, Typed, TypeOK, HistoryOK, AdmissionOK
  <2>2. ServedBy(active)
    BY <1>1, <2>1, SettledServes DEF WorldOK, PromisesOK
  <2>3. nrels = 0 \/ rels[nrels].status \in ResolvedStates
    BY <2>1 DEF Settled
  <2>4. ~maintenance
    BY <1>1, <2>3 DEF WorldOK, MaintenanceOK
  <2>5. QED
    BY <1>0, <2>2, <2>4 DEF ServedBy, Serving
<1>2. Historic /\ WorldOK /\ PromisesOK => TerminalOutcomeIsTrue
  BY <1>1
<1> QED
  BY <1>0, <1>2, AlwaysPromises, PTL

(* A deployment changes the database under maintenance, after every        *)
(* application stopped, while users are routed to the active release.      *)
LEMMA DeployQuiesced ==
    ASSUME Historic, AttemptOK, AppsOK, AttemptAppsOK, HookOK, BackwardOK, ProductionOK,
           DeployStep, db' # db
    PROVE  maintenance /\ (\A a \in Apps : app[a] # "running") /\ target = active
<1>1. StartMigration \/ FinishMigration \/ MigrationFails \/ (RestoreDatabase /\ me.changed)
  BY DEF DeployStep, RecordOwner, CreateRelease, FailWithoutRelease,
     PersistOperation, PersistRelease, IntendMigration, AnnounceMigration,
     IntendActivation, AnnounceActivation, RecordActivation, MarkActive, SelectActive,
     Succeed, MarkRolledBack, FailRelease, FailOperation, RequireRecovery,
     RequireOperationRecovery, CandidateStage, CandidateFails, ResolvePrevious,
     ResolveFails, EnableMaintenance, EnableFails, UndoMaintenance, UndoFails,
     VerifyUndo, StopCurrent, StopFails, CreateFinal, ReplicateFinal, BackupFails,
     MigrationNotStarted, StartNew, StartNewFails,
     CheckNew, ActivateNew, DisableMaintenance, DisableFails, DispatchFailure, RemoveNew,
     RestoreDatabase, RestartPrevious, RouteOld, Reopen, VerifyPrevious, RollbackFails,
     world
<1>2. /\ pc \in {"migrate", "migrating", "restore"} /\ pc \in Attempt
      /\ pc = "restore" => me.changed
  BY <1>1 DEF StartMigration, FinishMigration, MigrationFails, RestoreDatabase, Attempt
<1>3. /\ pc \in {"migrate", "migrating"} => me.stage = "final_snapshot_verified" /\ me.changed
      /\ pc = "restore" => me.stage = "rollback_started"
      /\ me.changed => me.stopped
  BY <1>2 DEF AttemptOK, StageFits, Removed
<1>4. maintenance
  BY <1>2, <1>3 DEF ProductionOK, CutoverStages
<1>5. app[active] # "running"
  BY <1>2, <1>3 DEF ProductionOK, Restarted
<1>6. app[nrels] = "absent"
  BY <1>2, <1>3 DEF ProductionOK, AttemptAppsOK, Removed
<1>7. target = active
  <2>1. nrels # 0 /\ Hook # "passed"
    BY <1>2, <1>3, DuringAttempt DEF AttemptOK, HookOK
  <2>2. pc \in {"migrate", "migrating"} => ~rels[nrels].attempted
    BY <1>2, <1>3 DEF AttemptOK
  <2>3. pc = "restore" => ~rels[nrels].attempted \/ Hook = "not_started"
    BY <1>2, <1>3 DEF AttemptOK, HookOK
  <2>4. QED
    BY <1>2, <2>1, <2>2, <2>3 DEF BackwardOK
<1> QED
  BY <1>4, <1>5, <1>6, <1>7 DEF AppsOK

(* So does a recovery, unless it finds users routed to the release whose   *)
(* activation was attempted.                                                *)
LEMMA RecoverQuiesced ==
    ASSUME Historic, AppsOK, IntentOK, PlanRunOK, HookOK, BackwardOK, NoReboot, RecoverStep,
           db' # db
    PROVE  /\ maintenance /\ \A a \in Apps : app[a] # "running"
           /\ \/ target = active
              \/ pc = "perform" /\ target = me.rel /\ rels[me.rel].attempted
<1>1. RecoverRestore
  BY DEF RecoverStep, Supersede, TakeRelease, CreateRecovery, OwnRecovery, AnnounceAction,
         RecoverRemoveNew, RecoverRestart, RecoverRoute, RecoverReopen,
         RecoverVerify, RecoverActionFails, Resolve, SelectRecovered, Recovered,
         RecoveryFailed, world, durable
<1>2. /\ pc \in Planned /\ pc = "perform" /\ Head(me.plan) = "restore_final" /\ app[me.prev] = "stopped"
      /\ \E f \in rels[me.rel].final : db' = f
  BY <1>1 DEF RecoverRestore, Planned
<1>3. /\ nrels \in Releases /\ nrels # 0 /\ me.rel = nrels
      /\ ~me.activated /\ Rank("remove_new") < Rank(Head(me.plan))
      /\ \A a : Rank(a) < Rank(Head(me.plan)) => ~Left(me.plan, a)
  BY <1>2, DuringPlan, HeadDirected DEF ForwardActions, Rank
<1>4. me.prev = active /\ app[nrels] = "absent" /\ Hook # "passed"
  BY <1>2, <1>3 DEF PlanRunOK, HookOK
<1>5. maintenance
  BY <1>2, <1>3, <1>4 DEF BackwardOK
<1>6. target = active \/ (target = me.rel /\ rels[me.rel].attempted)
  BY <1>3, <1>4 DEF BackwardOK, IntentOK
<1> QED
  BY <1>2, <1>4, <1>5, <1>6 DEF AppsOK

(* For every value of the constants and whatever is killed or interrupted: *)
(* the database changes by a write that a user is told of, or under        *)
(* maintenance, with every application stopped and users routed to the     *)
(* active release, or, in a recovery, to the one whose activation was      *)
(* attempted.                                                               *)
THEOREM RestoredOnlyQuiet ==
    ASSUME CommandFaults
    PROVE  Spec => RestoreOnlyQuiesced
<1> DEFINE Quiesced ==
      db' # db =>
          \/ acked' # acked /\ db'.schema = db.schema /\ db.writes \subseteq db'.writes
          \/ /\ maintenance /\ \A a \in Apps : app[a] # "running"
             /\ \/ target = active
                \/ pc = "perform" /\ target = me.rel /\ rels[me.rel].attempted
<1>0. NoReboot /\ NoOrphan
  BY OnlyCommands
<1>1. ASSUME Historic, WorldOK, PromisesOK, [Next]_vars PROVE Quiesced
  <2>0. /\ AttemptOK /\ AppsOK /\ AttemptAppsOK /\ IntentOK /\ PlanRunOK
        /\ HookOK /\ BackwardOK /\ ProductionOK /\ orphan = 0
    BY <1>0, <1>1 DEF WorldOK, PromisesOK
  <2>1. CASE db' = db
    BY <2>1
  <2>2. CASE DeployStep /\ db' # db
    BY <1>1, <2>0, <2>2, DeployQuiesced
  <2>3. CASE RecoverStep /\ db' # db
    BY <1>0, <1>1, <2>0, <2>3, RecoverQuiesced
  <2>4. CASE \E w \in Writes : UserWrite(w)
    <3>1. PICK w \in Writes : UserWrite(w)
      BY <2>4
    <3>2. acked' = acked \cup {w} /\ w \notin acked /\ db' = [db EXCEPT !.writes = @ \cup {w}]
      BY <3>1 DEF UserWrite
    <3>3. db'.schema = db.schema /\ db'.writes = db.writes \cup {w}
      BY <1>1, <3>2 DEF Historic, Typed, TypeOK, Content
    <3>4. QED
      BY <3>2, <3>3
  <2>5. CASE \/ StartDeploy \/ StartRecover \/ Unlock \/ Crash \/ Interrupt \/ Reboot
             \/ OrphanMigrates \/ UNCHANGED vars
    <3>1. db' = db
      BY <2>0, <2>5 DEF StartDeploy, StartRecover, Unlock, Crash, Interrupt, Reboot,
         OrphanMigrates, vars, world
    <3>2. QED
      BY <3>1
  <2>6. QED
    BY <1>1, <2>1, <2>2, <2>3, <2>4, <2>5 DEF Next, CommandStep, Environment
<1>2. Historic /\ WorldOK /\ PromisesOK /\ [Next]_vars => [Quiesced]_vars
  BY <1>1
<1> HIDE DEF Quiesced
<1>3. Spec => [][Quiesced]_vars
  BY <1>0, <1>2, AlwaysPromises, PTL DEF Spec
<1> QED
  BY <1>3 DEF RestoreOnlyQuiesced, Quiesced

(* A release whose hook has passed keeps its users and its database. *)
LEMMA ForwardStep ==
    ASSUME Historic, WorldOK, PromisesOK, NoOrphan, [Next]_vars, nrels # 0, Hook = "passed"
    PROVE  target' = target /\ db'.schema = db.schema /\ db.writes \subseteq db'.writes
<1> USE DEF world, durable
<1>0. /\ AttemptOK /\ PlanRunOK /\ HookOK /\ orphan = 0
      /\ db \in Content
  BY DEF WorldOK, PromisesOK, Historic, Typed, TypeOK
<1>1. CASE UNCHANGED <<target, db>>
  BY <1>1
<1>2. CASE QuietDeployStep
  BY <1>0, <1>1, <1>2, QuietForward
<1>3. CASE DeployStep /\ ~QuietDeployStep
  BY <1>1, <1>3 DEF DeployStep, QuietDeployStep, RecordOwner, CreateRelease,
     FailWithoutRelease, PersistOperation, PersistRelease, IntendMigration,
     AnnounceMigration, IntendActivation, AnnounceActivation, RecordActivation, MarkActive,
     SelectActive, Succeed, MarkRolledBack, FailRelease, FailOperation, RequireRecovery,
     RequireOperationRecovery
<1>4. CASE RecoverStep
  <2>1. pc \in Planned => me.activated /\ Head(me.plan) \in ForwardActions
    BY <1>0, HeadDirected DEF HookOK
  <2>2. /\ RecoverRestore => pc \in Planned /\ Head(me.plan) = "restore_final"
        /\ RecoverRoute => pc \in Planned /\ Head(me.plan) = "activate_previous"
    BY DEF RecoverRestore, RecoverRoute, Planned
  <2>3. ~RecoverRestore /\ ~RecoverRoute
    BY <2>1, <2>2 DEF ForwardActions
  <2>4. QED
    BY <1>1, <1>4, <2>3 DEF RecoverStep, Supersede, TakeRelease, CreateRecovery, OwnRecovery,
       AnnounceAction, RecoverRemoveNew, RecoverRestart, RecoverReopen, RecoverVerify,
       RecoverActionFails, Resolve, SelectRecovered, Recovered, RecoveryFailed
<1>5. CASE \/ StartDeploy \/ StartRecover \/ Unlock \/ Crash \/ Interrupt \/ Reboot
           \/ OrphanMigrates \/ UNCHANGED vars
  BY <1>0, <1>1, <1>5 DEF StartDeploy, StartRecover, Unlock, Crash, Interrupt, Reboot,
     OrphanMigrates, vars
<1>6. CASE \E w \in Writes : UserWrite(w)
  BY <1>0, <1>6 DEF UserWrite, Content
<1> QED
  BY <1>2, <1>3, <1>4, <1>5, <1>6 DEF Next, CommandStep, Environment

(* For every value of the constants, whatever is killed or interrupted and *)
(* also when the host restarts: once the hook has passed or the manifest   *)
(* says so, no step routes users away from the release or takes its        *)
(* database back, as long as no migration outlives its command.             *)
THEOREM NoWayBack ==
    ASSUME NoOrphan
    PROVE  Spec => NoWayBackAfterActivation
<1> DEFINE Forward ==
             \A r \in 1..nrels :
                /\ rels[r].status \notin ResolvedStates
                /\ rels[r].activated \/ ops[rels[r].op].hook = "passed"
                => target' = r /\ db.writes \subseteq db'.writes /\ db'.schema = r
<1>1. ASSUME Historic, WorldOK, PromisesOK, [Next]_vars PROVE Forward
  <2> SUFFICES ASSUME NEW r \in 1..nrels, rels[r].status \notin ResolvedStates,
                      rels[r].activated \/ ops[rels[r].op].hook = "passed"
               PROVE  target' = r /\ db.writes \subseteq db'.writes /\ db'.schema = r
    OBVIOUS
  <2>1. r = nrels /\ nrels # 0
    BY <1>1 DEF Historic, Typed, TypeOK, HistoryOK, ReleasesOK
  <2>2. Hook = "passed"
    BY <1>1, <2>1 DEF PromisesOK, HookOK, Hook
  <2>3. target = nrels /\ db.schema = nrels
    BY <1>1, <2>1, <2>2 DEF PromisesOK, ForwardOK, ServedBy
  <2>4. QED
    BY <1>1, <2>1, <2>2, <2>3, ForwardStep
<1>2. Historic /\ WorldOK /\ PromisesOK /\ [Next]_vars => [Forward]_vars
  BY <1>1
<1> HIDE DEF Forward
<1>3. Spec => [][Forward]_vars
  BY <1>2, AlwaysPromises, PTL DEF Spec
<1> QED
  BY <1>3 DEF NoWayBackAfterActivation, Forward

=============================================================================
