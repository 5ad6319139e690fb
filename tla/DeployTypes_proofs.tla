-------------------------- MODULE DeployTypes_proofs --------------------------
(***************************************************************************)
(* Type correctness of the deployment system for every value of the        *)
(* constants.  TypeOK is not inductive alone: a command uses the release,  *)
(* the previous application and the plan it noted some steps ago.          *)
(* ContextOK says of every step what the command has noted by then.        *)
(***************************************************************************)
EXTENDS DeploySystem, SequenceTheorems, TLAPS

USE HostAssumption DEF Releases, Operations, Apps

(* Steps of a recovery that still read its plan. *)
PlanSteps ==
    {"supersede", "take_release", "create_recovery", "own_recovery", "next_action",
     "perform"}

Marks == {"mark_rolled_back", "mark_active"}

(* A plan ends with the mark of the release, and routes users to the       *)
(* previous application only when that is recorded.                        *)
PlanOK(c) ==
    /\ Len(c.plan) >= 1 /\ c.plan[Len(c.plan)] \in Marks
    /\ \A i \in 1..Len(c.plan) : c.plan[i] = "activate_previous" => c.prev # NoApp

(* Steps that are taken once the previous application is known. *)
PreviousSteps ==
    {"enable_maintenance", "undo_maintenance", "verify_undo", "stop", "create_final",
     "replicate", "intend_migration", "announce_migration", "migrate", "migrating",
     "start_new", "check_new", "intend_activation", "announce_activation",
     "activate_new", "record_hook", "disable_maintenance", "mark_active",
     "select_active", "succeed", "remove_new", "restore", "restart", "route_old",
     "reopen", "verify_previous", "mark_rolled_back"}

ContextOK ==
    /\ pc \in {"record_owner", "create_release"} =>
          nrels < MaxRel /\ ~me.maint /\ me.stage = "created"
    /\ pc \notin {"idle", "record_owner", "create_release", "unlock"} => me.rel \in 1..nrels
    /\ me.maint \/ me.stage \in CutoverStages \/ pc \in PreviousSteps => me.prev # NoApp
    /\ pc \in PlanSteps => PlanOK(me)

------------------------------------------------------------------------------
(* The records that commands write.                                         *)

(* What the fields of a command's context are. *)
LEMMA ContextFields ==
    ASSUME NEW c \in Context
    PROVE  /\ c.op \in 0..MaxOps /\ c.rel \in 0..MaxRel /\ c.stage \in DeploymentState
           /\ c.prev \in Apps \cup {NoApp} /\ c.final \subseteq Content
           /\ c.changed \in BOOLEAN /\ c.activated \in BOOLEAN
           /\ c.attempted \in BOOLEAN /\ c.hook \in HookOutcomes
           /\ c.plan \in Seq(RecoveryActions)
    BY DEF Context

(* What the fields of a release manifest are. *)
LEMMA ManifestFields ==
    ASSUME NEW m \in Manifest
    PROVE  /\ m.status \in DeploymentState /\ m.op \in 0..MaxOps
           /\ m.prev \in Apps \cup {NoApp} /\ m.final \subseteq Content
           /\ m.changed \in BOOLEAN
    BY DEF Manifest

(* The assignments a deployment and a recovery make to their context keep  *)
(* it a context.                                                           *)
LEMMA ContextUpdates ==
    ASSUME NEW c \in Context
    PROVE  /\ \A e \in Severities : [c EXCEPT !.err = e] \in Context
           /\ \A s \in DeploymentState : [c EXCEPT !.stage = s] \in Context
           /\ \A p \in Apps : [c EXCEPT !.prev = p] \in Context
           /\ \A r \in Releases, p \in Apps \cup {NoApp} :
                 [c EXCEPT !.rel = r, !.prev = p] \in Context
           /\ [c EXCEPT !.maint = TRUE, !.stage = "maintenance_enabled"] \in Context
           /\ [c EXCEPT !.maint = FALSE] \in Context
           /\ [c EXCEPT !.stopped = TRUE, !.stage = "current_app_stopped"] \in Context
           /\ \A f \in SUBSET Content :
                 [c EXCEPT !.final = f, !.stage = "final_snapshot_verified"] \in Context
           /\ [c EXCEPT !.changed = TRUE] \in Context
           /\ [c EXCEPT !.new = TRUE] \in Context
           /\ [c EXCEPT !.attempted = TRUE] \in Context
           /\ \A h \in HookOutcomes : [c EXCEPT !.hook = h] \in Context
           /\ [c EXCEPT !.activated = TRUE, !.stage = "traffic_activated"] \in Context
           /\ \A b \in BOOLEAN : [c EXCEPT !.attempted = b, !.err = "safe"] \in Context
           /\ \A o \in Operations : [c EXCEPT !.op = o] \in Context
           /\ \A q \in Seq(RecoveryActions) : [c EXCEPT !.plan = q] \in Context
<1> USE DEF Context
<1>1. \A e \in Severities : [c EXCEPT !.err = e] \in Context
  OBVIOUS
<1>2. \A s \in DeploymentState : [c EXCEPT !.stage = s] \in Context
  OBVIOUS
<1>3. \A p \in Apps : [c EXCEPT !.prev = p] \in Context
  OBVIOUS
<1>4. \A r \in Releases, p \in Apps \cup {NoApp} : [c EXCEPT !.rel = r,
!.prev = p] \in Context
  <2>1. SUFFICES ASSUME NEW r \in Releases, NEW p \in Apps \cup {NoApp}
                 PROVE  [c EXCEPT !.rel = r, !.prev = p] \in Context
    OBVIOUS
  <2>2. r \in 0..MaxRel
    OBVIOUS
  <2>3. QED
    BY <2>2
<1>5. [c EXCEPT !.maint = TRUE, !.stage = "maintenance_enabled"] \in Context
  BY DEF DeploymentState, CutoverStages
<1>6. [c EXCEPT !.maint = FALSE] \in Context
  OBVIOUS
<1>7. [c EXCEPT !.stopped = TRUE, !.stage = "current_app_stopped"] \in Context
  BY DEF DeploymentState, CutoverStages
<1>8. \A f \in SUBSET Content :
          [c EXCEPT !.final = f, !.stage = "final_snapshot_verified"] \in Context
  BY DEF DeploymentState, CutoverStages
<1>9. [c EXCEPT !.changed = TRUE] \in Context
  OBVIOUS
<1>10. [c EXCEPT !.new = TRUE] \in Context
  OBVIOUS
<1>11. [c EXCEPT !.attempted = TRUE] \in Context
  OBVIOUS
<1>12. \A h \in HookOutcomes : [c EXCEPT !.hook = h] \in Context
  OBVIOUS
<1>13. [c EXCEPT !.activated = TRUE, !.stage = "traffic_activated"] \in Context
  BY DEF DeploymentState, CutoverStages
<1>14. \A b \in BOOLEAN : [c EXCEPT !.attempted = b, !.err = "safe"] \in Context
  BY DEF Severities
<1>15. \A o \in Operations : [c EXCEPT !.op = o] \in Context
  OBVIOUS
<1>16. \A q \in Seq(RecoveryActions) : [c EXCEPT !.plan = q] \in Context
  OBVIOUS
<1> HIDE DEF Context
<1> QED
  BY <1>1, <1>2, <1>3, <1>4, <1>5, <1>6, <1>7, <1>8, <1>9, <1>10, <1>11, <1>12, <1>13,
     <1>14, <1>15, <1>16

(* The empty records are records of their kind. *)
LEMMA EmptyRecords ==
    NoContext \in Context /\ NoManifest \in Manifest /\ NoOperation \in OperationRecord
<1>1. NoContext \in Context
  BY DEF NoContext, Context, DeploymentState, CandidateStages, NoApp, HookOutcomes
<1>2. NoManifest \in Manifest
  BY DEF NoManifest, Manifest, DeploymentState, CandidateStages
<1>3. NoOperation \in OperationRecord
  BY DEF NoOperation, OperationRecord, OperationStatus, Stages, HookOutcomes
<1> QED
  BY <1>1, <1>2, <1>3

(* The manifests that a deployment and a recovery write are manifests.      *)
LEMMA ManifestUpdates ==
    ASSUME NEW m \in Manifest
    PROVE  /\ \A s \in DeploymentState, c \in BOOLEAN, a \in BOOLEAN :
                 [m EXCEPT !.status = s, !.changed = c, !.activated = a] \in Manifest
           /\ [m EXCEPT !.migration_started = TRUE] \in Manifest
           /\ [m EXCEPT !.attempted = TRUE] \in Manifest
           /\ \A o \in 0..MaxOps, p \in Apps \cup {NoApp} :
                 [m EXCEPT !.op = o, !.prev = p] \in Manifest
           /\ \A s \in DeploymentState, a \in BOOLEAN, o \in 0..MaxOps :
                 [m EXCEPT !.status = s, !.activated = a, !.resolved_by = o] \in Manifest
<1> USE DEF Manifest
<1>1. \A s \in DeploymentState, c \in BOOLEAN, a \in BOOLEAN :
          [m EXCEPT !.status = s, !.changed = c, !.activated = a] \in Manifest
  OBVIOUS
<1>2. [m EXCEPT !.migration_started = TRUE] \in Manifest
  OBVIOUS
<1>3. [m EXCEPT !.attempted = TRUE] \in Manifest
  OBVIOUS
<1>4. \A o \in 0..MaxOps, p \in Apps \cup {NoApp} : [m EXCEPT !.op = o,
!.prev = p] \in Manifest
  OBVIOUS
<1>5. \A s \in DeploymentState, a \in BOOLEAN, o \in 0..MaxOps :
          [m EXCEPT !.status = s, !.activated = a, !.resolved_by = o] \in Manifest
  OBVIOUS
<1> HIDE DEF Manifest
<1> QED
  BY <1>1, <1>2, <1>3, <1>4, <1>5

(* The manifest a durable stage writes. *)
LEMMA StageChangesType ==
    ASSUME NEW m \in Manifest, NEW s \in DeploymentState, me \in Context
    PROVE  StageChanges(m, s) \in Manifest
<1> DEFINE p == IF s \in {"maintenance_enabled", "current_app_stopped"}
                THEN me.prev ELSE m.prev
           f == IF s = "final_snapshot_verified" THEN me.final ELSE m.final
<1>1. p \in Apps \cup {NoApp} /\ f \in SUBSET Content
  BY DEF Manifest, Context
<1>2. /\ (m.rehearsed \/ s = "snapshot_verified") \in BOOLEAN
      /\ (m.new \/ s = "new_app_healthy") \in BOOLEAN
      /\ (m.changed \/ me.changed) \in BOOLEAN
      /\ (m.activated \/ s = "traffic_activated") \in BOOLEAN
  OBVIOUS
<1> HIDE DEF p, f
<1>3. ASSUME NEW a \in BOOLEAN, NEW b \in BOOLEAN, NEW c \in BOOLEAN, NEW d \in BOOLEAN
      PROVE  [m EXCEPT !.status = s, !.prev = p, !.rehearsed = a, !.final = f,
                       !.new = b, !.changed = c, !.activated = d] \in Manifest
  BY <1>1 DEF Manifest
<1>4. StageChanges(m, s) =
          [m EXCEPT !.status = s, !.prev = p,
                    !.rehearsed = m.rehearsed \/ s = "snapshot_verified", !.final = f,
                    !.new = m.new \/ s = "new_app_healthy",
                    !.changed = m.changed \/ me.changed,
                    !.activated = m.activated \/ s = "traffic_activated"]
  BY DEF StageChanges, p, f, Manifest
<1>5. QED
  BY <1>2, <1>3, <1>4

(* What the stores write keeps their files of manifests and of operations.  *)
LEMMA StoreTypes ==
    ASSUME TypeOK
    PROVE  /\ \A m \in Manifest, r \in 0..MaxRel :
                 [rels EXCEPT ![r] = m] \in [Releases -> Manifest]
           /\ \A s \in OperationStatus, g \in Stages, c \in BOOLEAN, o \in 0..MaxOps :
                 [ops EXCEPT ![o] = [@ EXCEPT !.status = s, !.stage = g, !.changed = c]]
                 \in [Operations -> OperationRecord]
           /\ \A h \in HookOutcomes, o \in 0..MaxOps :
                 [ops EXCEPT ![o].hook = h] \in [Operations -> OperationRecord]
           /\ \A p \in OperationRecord, o \in 0..MaxOps :
                 [ops EXCEPT ![o] = p] \in [Operations -> OperationRecord]
<1>1. \A m \in Manifest, r \in 0..MaxRel : [rels EXCEPT ![r] = m] \in [Releases -> Manifest]
  BY DEF TypeOK
<1>2. \A s \in OperationStatus, g \in Stages, c \in BOOLEAN, o \in 0..MaxOps :
          [ops EXCEPT ![o] = [@ EXCEPT !.status = s, !.stage = g, !.changed = c]]
          \in [Operations -> OperationRecord]
  BY ZenonT(30) DEF TypeOK, OperationRecord
<1>3. \A h \in HookOutcomes, o \in 0..MaxOps :
          [ops EXCEPT ![o].hook = h] \in [Operations -> OperationRecord]
  BY ZenonT(30) DEF TypeOK, OperationRecord
<1>4. \A p \in OperationRecord, o \in 0..MaxOps :
          [ops EXCEPT ![o] = p] \in [Operations -> OperationRecord]
  BY DEF TypeOK
<1> QED
  BY <1>1, <1>2, <1>3, <1>4

(* How a step of a deployment ends. *)
LEMMA EndOfStep ==
    ASSUME TypeOK
    PROVE  /\ \A p \in Steps : Goto(p) => pc' \in Steps /\ me' \in Context
           /\ \A p \in Steps : RollbackOn(p) => pc' \in Steps /\ me' \in Context
           /\ \A e \in Severities : Fail(e) => pc' \in Steps /\ me' \in Context
           /\ \A s \in DeploymentState : Persist(s) => pc' \in Steps /\ me' \in Context
           /\ \A s : After(s) \in Steps
<1>1. \A p \in Steps : Goto(p) => pc' \in Steps /\ me' \in Context
  BY DEF Goto, TypeOK
<1>2. \A p \in Steps : RollbackOn(p) => pc' \in Steps /\ me' \in Context
  BY DEF Goto, RollbackOn, TypeOK, Steps
<1>3. \A e \in Severities : Fail(e) => pc' \in Steps /\ me' \in Context
  <2>1. SUFFICES ASSUME NEW e \in Severities, Fail(e)
                 PROVE  pc' \in Steps /\ me' \in Context
    OBVIOUS
  <2>2. me' \in Context
    BY <2>1, ContextUpdates DEF Fail, TypeOK
  <2>3. QED
    BY <2>1, <2>2 DEF Fail, Steps
<1>4. \A s \in DeploymentState : Persist(s) => pc' \in Steps /\ me' \in Context
  <2>1. SUFFICES ASSUME NEW s \in DeploymentState, Persist(s)
                 PROVE  pc' \in Steps /\ me' \in Context
    OBVIOUS
  <2>2. me' \in Context
    BY <2>1, ContextUpdates DEF Persist, TypeOK
  <2>3. QED
    BY <2>1, <2>2 DEF Persist, Steps
<1>5. \A s : After(s) \in Steps
  BY DEF After, Steps
<1> QED
  BY <1>1, <1>2, <1>3, <1>4, <1>5

(* Every step of a deployment keeps the types. *)
LEMMA DeployTypes ==
    ASSUME TypeOK, ContextOK, DeployStep
    PROVE  TypeOK'
<1> USE DEF TypeOK, durable, world
<1>0. /\ me.op \in 0..MaxOps /\ me.rel \in 0..MaxRel /\ me.stage \in DeploymentState
      /\ me.prev \in Apps \cup {NoApp} /\ me.final \subseteq Content
      /\ me.changed \in BOOLEAN /\ me.activated \in BOOLEAN /\ me.hook \in HookOutcomes
      /\ pc \notin {"idle", "record_owner", "create_release", "unlock"} =>
            rels[me.rel] \in Manifest
  BY ContextFields DEF ContextOK
<1>a. /\ CandidateStages \cup CutoverStages \cup TerminalStates \subseteq DeploymentState
      /\ DeploymentState \subseteq Stages
  BY DEF DeploymentState, Stages
<1>1. CASE RecordOwner
  BY <1>0, <1>1 DEF RecordOwner, Owner, Goto, Steps
<1>2. CASE CreateRelease
  <2>1. nrels + 1 \in Releases
    BY <1>2 DEF CreateRelease, ContextOK
  <2>2. PICK prev \in Apps \cup {NoApp} :
            /\ rels' = [rels EXCEPT ![nrels + 1] =
                            [NoManifest EXCEPT !.op = me.op, !.prev = prev]]
            /\ me' = [me EXCEPT !.rel = nrels + 1, !.prev = prev]
    BY <1>2 DEF CreateRelease
  <2>3. rels' \in [Releases -> Manifest]
    BY <1>0, <2>1, <2>2, StoreTypes, ManifestUpdates, EmptyRecords
  <2>4. me' \in Context
    BY <2>1, <2>2, ContextUpdates
  <2>5. QED
    BY <1>2, <2>1, <2>3, <2>4 DEF CreateRelease, Steps
<1>3. CASE FailWithoutRelease
  <2>1. PICK s \in {"failed_safe", "recovery_required"} : TransitionOperation(s, s, FALSE)
    BY <1>3 DEF FailWithoutRelease
  <2>2. s \in OperationStatus /\ s \in Stages
    BY <1>a DEF OperationStatus, TerminalStates, ResolvedStates
  <2>3. ops' \in [Operations -> OperationRecord]
    BY <1>0, <2>1, <2>2, StoreTypes DEF TransitionOperation
  <2>4. QED
    BY <1>3, <2>3, EndOfStep DEF FailWithoutRelease, Steps
<1>4. CASE PersistOperation
  BY <1>0, <1>a, <1>4, EndOfStep, StoreTypes
     DEF PersistOperation, TransitionOperation, Steps, OperationStatus, Stages,
         DeploymentState, TerminalStates, ResolvedStates, HookOutcomes
<1>5. CASE PersistRelease
  <2>1. StageChanges(rels[me.rel], me.stage) \in Manifest
    BY <1>0, <1>5, StageChangesType DEF PersistRelease
  <2>2. rels' \in [Releases -> Manifest]
    BY <1>0, <1>5, <2>1, StoreTypes DEF PersistRelease, TransitionRelease
  <2>3. QED
    BY <1>5, <2>2, EndOfStep DEF PersistRelease
<1>6. CASE CandidateStage
  BY <1>0, <1>a, <1>6, EndOfStep
     DEF CandidateStage, Steps
<1>7. CASE CandidateFails
  BY <1>0, <1>a, <1>7, EndOfStep
     DEF CandidateFails, Severities, Steps
<1>8. CASE ResolvePrevious
  <2> DEFINE found == IF me.prev = NoApp THEN 0 ELSE me.prev
  <2>1. found \in Apps
    BY <1>0 DEF NoApp
  <2>2. me' = [me EXCEPT !.prev = found] /\ pc' = "enable_maintenance"
    BY <1>8 DEF ResolvePrevious
  <2>3. me' \in Context
    <3> HIDE DEF found
    <3>1. QED
      BY <2>1, <2>2, ContextUpdates
  <2>4. QED
    BY <1>8, <2>2, <2>3 DEF ResolvePrevious, Steps
<1>9. CASE ResolveFails
  BY <1>0, <1>a, <1>9, EndOfStep
     DEF ResolveFails, Severities, Steps
<1>10. CASE EnableMaintenance
  BY <1>0, <1>a, <1>10, ContextUpdates
     DEF EnableMaintenance, SetMaintenance, Steps
<1>11. CASE EnableFails
  <2>1. me' \in Context
    BY <1>11, ContextUpdates DEF EnableFails
  <2>2. QED
    BY <1>11, <2>1 DEF EnableFails, SetMaintenance, Steps
<1>12. CASE UndoMaintenance
  BY <1>0, <1>a, <1>12, EndOfStep
     DEF UndoMaintenance, SetMaintenance, Steps
<1>13. CASE UndoFails
  BY <1>0, <1>a, <1>13, EndOfStep
     DEF UndoFails, SetMaintenance, Severities, Steps
<1>14. CASE VerifyUndo
  BY <1>0, <1>a, <1>14, EndOfStep
     DEF VerifyUndo, Severities, Steps
<1>15. CASE StopCurrent
  BY <1>0, <1>a, <1>15, ContextUpdates
     DEF StopCurrent, StopApplication, Steps
<1>16. CASE StopFails
  BY <1>0, <1>a, <1>16, EndOfStep
     DEF StopFails, StopApplication, Severities, Steps
<1>17. CASE CreateFinal
  BY <1>0, <1>a, <1>17, ContextUpdates
     DEF CreateFinal, Steps, CutoverStages
<1>18. CASE ReplicateFinal
  BY <1>0, <1>a, <1>18, EndOfStep
     DEF ReplicateFinal, Steps
<1>19. CASE BackupFails
  BY <1>0, <1>a, <1>19, EndOfStep
     DEF BackupFails, Severities, Steps
<1>20. CASE IntendMigration
  BY <1>0, <1>a, <1>20, StoreTypes, ManifestUpdates, ContextUpdates
     DEF IntendMigration, RecordIntent, Steps
<1>21. CASE AnnounceMigration
  BY <1>0, <1>a, <1>21, EndOfStep, StoreTypes
     DEF AnnounceMigration, TransitionOperation, Steps, OperationStatus, Stages,
         DeploymentState, TerminalStates, ResolvedStates, HookOutcomes
<1>22. CASE StartMigration
  <2>1. db' \in Content
    BY <1>22 DEF StartMigration, Content
  <2>2. QED
    BY <1>22, <2>1, EndOfStep DEF StartMigration, Steps
<1>23. CASE MigrationNotStarted
  BY <1>0, <1>a, <1>23, EndOfStep
     DEF MigrationNotStarted, Severities, Steps
<1>24. CASE FinishMigration
  <2>1. db' \in Content
    BY <1>0, <1>24 DEF FinishMigration, Content
  <2>2. "production_migrated" \in DeploymentState
    BY <1>a DEF CutoverStages
  <2>3. QED
    BY <1>24, <2>1, <2>2, EndOfStep DEF FinishMigration
<1>25. CASE MigrationFails
  <2>1. PICK f \in me.final, s \in {"none", "some", "all"} :
            db' = CASE s = "none" -> f
                    [] s = "some" -> db
                    [] s = "all"  -> [db EXCEPT !.schema = me.rel]
    BY <1>25 DEF MigrationFails
  <2>2. [db EXCEPT !.schema = me.rel] \in Content /\ f \in Content
    BY <1>0 DEF Content
  <2>3. db' \in Content
    BY <2>1, <2>2
  <2>4. orphan' \in 0..MaxRel /\ pc' \in Steps /\ me' \in Context
    BY <1>0, <1>25, EndOfStep DEF MigrationFails
  <2>5. QED
    BY <1>25, <2>3, <2>4 DEF MigrationFails
<1>26. CASE StartNew
  BY <1>0, <1>a, <1>26, ContextUpdates
     DEF StartNew, Steps
<1>27. CASE StartNewFails
  BY <1>0, <1>a, <1>27, EndOfStep
     DEF StartNewFails, Severities, Steps
<1>28. CASE CheckNew
  BY <1>0, <1>a, <1>28, EndOfStep
     DEF CheckNew, Severities, Steps, CutoverStages
<1>29. CASE IntendActivation
  BY <1>0, <1>a, <1>29, StoreTypes, ManifestUpdates, ContextUpdates
     DEF IntendActivation, RecordIntent, Steps
<1>30. CASE AnnounceActivation
  BY <1>0, <1>a, <1>30, EndOfStep, StoreTypes
     DEF AnnounceActivation, TransitionOperation, Steps, OperationStatus, Stages,
         DeploymentState, TerminalStates, ResolvedStates, HookOutcomes
<1>31. CASE ActivateNew
  <2>1. PICK h \in {"passed", "not_started", "uncertain"} :
            /\ me' = [me EXCEPT !.hook = h]
            /\ target' \in {target, me.rel}
    BY <1>31 DEF ActivateNew, RouteTo
  <2>2. me' \in Context
    BY <2>1, ContextUpdates DEF HookOutcomes
  <2>3. QED
    BY <1>0, <1>31, <2>1, <2>2 DEF ActivateNew, Steps
<1>32. CASE RecordActivation
  <2>1. ops' \in [Operations -> OperationRecord]
    BY <1>0, <1>32, StoreTypes DEF RecordActivation
  <2>2. HookMayHaveRun(me.hook) \in BOOLEAN
    BY DEF HookMayHaveRun
  <2>3. me' \in Context
    BY <1>32, <2>2, ContextUpdates DEF RecordActivation
  <2>4. QED
    BY <1>32, <2>1, <2>3 DEF RecordActivation, Steps
<1>33. CASE DisableMaintenance
  BY <1>0, <1>a, <1>33, ContextUpdates
     DEF DisableMaintenance, SetMaintenance, Steps
<1>34. CASE DisableFails
  BY <1>0, <1>a, <1>34, EndOfStep
     DEF DisableFails, SetMaintenance, Severities, Steps
<1>35. CASE MarkActive
  BY <1>0, <1>a, <1>35, EndOfStep, StoreTypes, ManifestUpdates
     DEF MarkActive, TransitionRelease, Steps, DeploymentState, TerminalStates,
         ResolvedStates
<1>36. CASE SelectActive
  BY <1>0, <1>a, <1>36, EndOfStep
     DEF SelectActive, ActivateRelease, Steps
<1>37. CASE Succeed
  BY <1>0, <1>a, <1>37, EndOfStep, StoreTypes
     DEF Succeed, TransitionOperation, Steps, OperationStatus, Stages, DeploymentState,
         TerminalStates, ResolvedStates, HookOutcomes
<1>38. CASE DispatchFailure
  BY <1>0, <1>a, <1>38, EndOfStep
     DEF DispatchFailure, Steps, CutoverStages
<1>39. CASE RemoveNew
  BY <1>0, <1>a, <1>39, EndOfStep
     DEF RemoveNew, RemoveApplication, Steps
<1>40. CASE RestoreDatabase
  BY <1>0, <1>a, <1>40, EndOfStep
     DEF RestoreDatabase, Steps
<1>41. CASE RestartPrevious
  BY <1>0, <1>a, <1>41, EndOfStep
     DEF RestartPrevious, RestartApplication, Steps
<1>42. CASE RouteOld
  <2>1. me.prev \in Apps
    BY <1>0, <1>42 DEF RouteOld, ContextOK, PreviousSteps
  <2>2. QED
    BY <1>42, <2>1, EndOfStep DEF RouteOld, RouteTo, Steps
<1>43. CASE Reopen
  BY <1>0, <1>a, <1>43, EndOfStep
     DEF Reopen, SetMaintenance, Steps
<1>44. CASE VerifyPrevious
  BY <1>0, <1>a, <1>44, EndOfStep
     DEF VerifyPrevious, Steps
<1>45. CASE RollbackFails
  BY <1>0, <1>a, <1>45, EndOfStep
     DEF RollbackFails, Steps
<1>46. CASE MarkRolledBack
  BY <1>0, <1>a, <1>46, EndOfStep, StoreTypes, ManifestUpdates
     DEF MarkRolledBack, TransitionRelease, Steps, DeploymentState, TerminalStates,
         ResolvedStates
<1>47. CASE FailRelease
  BY <1>0, <1>a, <1>47, EndOfStep, StoreTypes, ManifestUpdates
     DEF FailRelease, TransitionRelease, Steps, DeploymentState, TerminalStates,
         ResolvedStates
<1>48. CASE FailOperation
  <2>1. rels[me.rel].status \in DeploymentState
    BY <1>0, <1>48, ManifestFields DEF FailOperation
  <2>2. "failed_safe" \in OperationStatus /\ rels[me.rel].status \in Stages
    BY <1>a, <2>1 DEF OperationStatus
  <2>3. ops' \in [Operations -> OperationRecord]
    BY <1>0, <1>48, <2>2, StoreTypes DEF FailOperation, TransitionOperation
  <2>4. QED
    BY <1>48, <2>3, EndOfStep DEF FailOperation, Steps
<1>49. CASE RequireRecovery
  <2>1. "recovery_required" \in DeploymentState
    BY <1>a DEF TerminalStates
  <2>2. [rels[me.rel] EXCEPT !.status = "recovery_required", !.changed = me.changed,
                            !.activated = me.activated] \in Manifest
    BY <1>0, <1>49, <2>1, ManifestUpdates DEF RequireRecovery
  <2>3. rels' \in [Releases -> Manifest]
    BY <1>0, <1>49, <2>2, StoreTypes, ZenonT(30) DEF RequireRecovery
  <2>4. QED
    BY <1>49, <2>3, EndOfStep DEF RequireRecovery, Steps
<1>50. CASE RequireOperationRecovery
  BY <1>0, <1>a, <1>50, EndOfStep, StoreTypes
     DEF RequireOperationRecovery, TransitionOperation, Steps, OperationStatus, Stages,
         DeploymentState, TerminalStates, ResolvedStates, HookOutcomes
<1> QED
  BY <1>1, <1>2, <1>3, <1>4, <1>5, <1>6, <1>7, <1>8, <1>9, <1>10, <1>11, <1>12, <1>13,
      <1>14, <1>15, <1>16, <1>17, <1>18, <1>19, <1>20, <1>21, <1>22, <1>23, <1>24, <1>25,
      <1>26, <1>27, <1>28, <1>29, <1>30, <1>31, <1>32, <1>33, <1>34, <1>35, <1>36, <1>37,
      <1>38, <1>39, <1>40, <1>41, <1>42, <1>43, <1>44, <1>45, <1>46, <1>47, <1>48, <1>49,
      <1>50 DEF DeployStep

------------------------------------------------------------------------------
(* Plans.                                                                   *)

(* A sequence that does not start with its last element keeps it in its    *)
(* tail.                                                                    *)
LEMMA TailKeepsEnd ==
    ASSUME NEW S, NEW q \in Seq(S), Len(q) >= 1, Head(q) # q[Len(q)]
    PROVE  /\ Tail(q) \in Seq(S) /\ Len(Tail(q)) >= 1
           /\ Tail(q)[Len(Tail(q))] = q[Len(q)]
           /\ \A i \in 1..Len(Tail(q)) : i + 1 \in 1..Len(q) /\ Tail(q)[i] = q[i + 1]
<1>1. q # << >> /\ Len(q) \in Nat
  OBVIOUS
<1>2. /\ Tail(q) \in Seq(S) /\ Len(Tail(q)) = Len(q) - 1
      /\ \A i \in 1..Len(Tail(q)) : Tail(q)[i] = q[i + 1]
  BY <1>1, HeadTailProperties
<1>3. Len(q) # 1
  BY <1>1
<1> QED
  BY <1>1, <1>2, <1>3

(* What a plan is, without its command: PlanOK when the previous           *)
(* application is recorded.                                                *)
Plan(q) == q \in Seq(RecoveryActions) /\ Len(q) >= 1 /\ q[Len(q)] \in Marks

(* A plan is still a plan after an action that is not its mark.            *)
LEMMA PlanTail ==
    ASSUME NEW c \in Context, PlanOK(c), Head(c.plan) \notin Marks
    PROVE  /\ Tail(c.plan) \in Seq(RecoveryActions)
           /\ PlanOK([c EXCEPT !.plan = Tail(@)])
<1>1. c.plan \in Seq(RecoveryActions)
  BY ContextFields
<1>2. Head(c.plan) # c.plan[Len(c.plan)] /\ Len(c.plan) >= 1
  BY DEF PlanOK
<1> DEFINE q == Tail(c.plan)
<1>3. /\ q \in Seq(RecoveryActions) /\ Len(q) >= 1
      /\ q[Len(q)] = c.plan[Len(c.plan)]
      /\ \A i \in 1..Len(q) : i + 1 \in 1..Len(c.plan) /\ q[i] = c.plan[i + 1]
  BY <1>1, <1>2, TailKeepsEnd
<1> HIDE DEF q
<1>4. [c EXCEPT !.plan = q].plan = q /\ [c EXCEPT !.plan = q].prev = c.prev
  BY DEF Context
<1>5. PlanOK([c EXCEPT !.plan = q])
  BY <1>3, <1>4 DEF PlanOK
<1> QED
  BY <1>3, <1>5 DEF q

(* build_recovery_plan only builds plans, and the plan that completes the  *)
(* new release never routes users to the previous application.             *)
LEMMA PlansBuilt ==
    /\ Plan(NewActions)
    /\ \A i \in 1..Len(NewActions) : NewActions[i] # "activate_previous"
    /\ \A r, matches : Plan(PreviousActions(r, matches))
<1>1. /\ Plan(NewActions)
      /\ \A i \in 1..Len(NewActions) : NewActions[i] # "activate_previous"
  BY DEF Plan, NewActions, RecoveryActions, Marks
<1>2. ASSUME NEW r, NEW matches PROVE Plan(PreviousActions(r, matches))
  <2> DEFINE S == Seq(RecoveryActions)
             a == IF LiveNew(r) # "absent" THEN <<"remove_new">> ELSE <<>>
             b == IF MayHaveChanged(r) /\ ~matches THEN <<"restore_final">> ELSE <<>>
             c == IF LivePrevious(r) = "stopped" THEN <<"restart_previous">> ELSE <<>>
             d == <<"activate_previous", "disable_maintenance", "verify_previous",
                    "mark_rolled_back">>
  <2>1. a \in S /\ b \in S /\ c \in S
    <3>1. /\ <<>> \in S /\ <<"remove_new">> \in S
          /\ <<"restore_final">> \in S /\ <<"restart_previous">> \in S
      BY DEF RecoveryActions
    <3> HIDE DEF S
    <3>2. QED
      BY <3>1
  <2>2. d \in S /\ Len(d) = 4 /\ d[4] \in Marks
    BY DEF RecoveryActions, Marks
  <2>3. PreviousActions(r, matches) = ((a \o b) \o c) \o d
    BY DEF PreviousActions
  <2> HIDE DEF a, b, c, d
  <2>4. a \o b \in S
    BY <2>1, ConcatProperties
  <2>5. (a \o b) \o c \in S
    BY <2>1, <2>4, ConcatProperties
  <2> DEFINE e == (a \o b) \o c
  <2> HIDE DEF e
  <2>6. /\ e \o d \in S /\ Len(e \o d) = Len(e) + 4 /\ Len(e) \in Nat
        /\ (e \o d)[Len(e) + 4] = d[4]
    <3>1. e \in S /\ Len(e) \in Nat
      BY <2>5 DEF e
    <3>2. /\ e \o d \in S /\ Len(e \o d) = Len(e) + Len(d)
          /\ \A i \in 1 .. Len(e) + Len(d) :
                (e \o d)[i] = IF i <= Len(e) THEN e[i] ELSE d[i - Len(e)]
      BY <3>1, <2>2, ConcatProperties
    <3>3. Len(e) + 4 \in 1 .. Len(e) + Len(d) /\ ~(Len(e) + 4 <= Len(e))
          /\ Len(e) + 4 - Len(e) = 4
      BY <3>1, <2>2
    <3>4. QED
      BY <3>1, <3>2, <3>3, <2>2
  <2>7. QED
    BY <2>2, <2>3, <2>6 DEF Plan, e
<1> QED
  BY <1>1, <1>2

------------------------------------------------------------------------------
(* The steps of a recovery.                                                 *)

(* An action that is done leaves the rest of the plan. *)
LEMMA DoneTypes ==
    ASSUME TypeOK, PlanOK(me), Done \/ RecoveryFails,
           Head(me.plan) \notin Marks
    PROVE  pc' \in Steps /\ me' \in Context
<1>1. me \in Context
  BY DEF TypeOK
<1>2. CASE Done
  <2>1. Tail(me.plan) \in Seq(RecoveryActions)
    BY <1>1, PlanTail
  <2>2. QED
    BY <1>1, <1>2, <2>1, ContextUpdates DEF Done, Steps
<1>3. CASE RecoveryFails
  BY <1>1, <1>3, EndOfStep DEF RecoveryFails, Steps
<1> QED
  BY <1>2, <1>3

(* Every step of a recovery keeps the types. *)
LEMMA RecoverTypes ==
    ASSUME TypeOK, ContextOK, RecoverStep
    PROVE  TypeOK'
<1> USE DEF TypeOK, durable, world
<1>0. /\ me.op \in 0..MaxOps /\ me.rel \in 0..MaxRel /\ me.prev \in Apps \cup {NoApp}
      /\ me.changed \in BOOLEAN /\ me.activated \in BOOLEAN
      /\ me.plan \in Seq(RecoveryActions)
      /\ pc \notin {"idle", "record_owner", "create_release", "unlock"} =>
            me.rel \in Releases /\ rels[me.rel] \in Manifest
  BY ContextFields DEF ContextOK
<1>a. /\ CandidateStages \cup CutoverStages \cup TerminalStates \subseteq DeploymentState
      /\ DeploymentState \subseteq Stages /\ RecoveryActions \subseteq Stages
  BY DEF DeploymentState, Stages
<1>b. /\ "recovery_required" \in DeploymentState /\ "active" \in DeploymentState
      /\ "rolled_back" \in DeploymentState
  BY <1>a DEF TerminalStates, ResolvedStates
<1>1. CASE Supersede
  <2>1. CASE Unfinished = {}
    BY <1>1, <2>1, EndOfStep DEF Supersede, Steps
  <2>2. CASE Unfinished # {}
    <3>1. PICK o \in Unfinished :
              /\ ops' = [ops EXCEPT ![o] = [@ EXCEPT !.status = "recovery_required",
                                                     !.stage = "recovery_required",
                                                     !.changed = ops[o].changed \/ me.changed]]
              /\ Goto("supersede")
      BY <1>1, <2>2 DEF Supersede
    <3>2. o \in Operations
      BY DEF Unfinished
    <3> DEFINE c == ops[o].changed \/ me.changed
    <3>3. c \in BOOLEAN
      OBVIOUS
    <3>4. "recovery_required" \in OperationStatus /\ "recovery_required" \in Stages
      BY <1>a, <1>b DEF OperationStatus
    <3>5. ops' = [ops EXCEPT ![o] = [@ EXCEPT !.status = "recovery_required",
                                              !.stage = "recovery_required", !.changed = c]]
      BY <3>1
    <3>6. ops' \in [Operations -> OperationRecord]
      <4> HIDE DEF c
      <4>1. o \in 0..MaxOps
        BY <3>2
      <4>2. QED
        BY <3>3, <3>4, <3>5, <4>1, StoreTypes
    <3>7. QED
      BY <1>1, <3>1, <3>6, EndOfStep DEF Supersede, Steps
  <2>3. QED
    BY <2>1, <2>2
<1>2. CASE TakeRelease
  <2>1. TakenRelease(me.rel) \in Manifest
    BY <1>0, <1>b, <1>2, ManifestUpdates DEF TakeRelease, TakenRelease
  <2>2. rels' \in [Releases -> Manifest]
    BY <1>0, <1>2, <2>1, StoreTypes DEF TakeRelease, TransitionRelease
  <2>3. owner' \in Owner
    BY <1>2 DEF TakeRelease, ReleaseLock, Owner
  <2>4. pc' \in Steps /\ me' \in Context
    BY <1>2, EndOfStep, EmptyRecords DEF TakeRelease, ReleaseLock, Steps
  <2>5. QED
    BY <1>2, <2>2, <2>3, <2>4 DEF TakeRelease
<1>3. CASE CreateRecovery
  <2>1. rels[me.rel].op \in 0..MaxOps /\ me.rel \in 0..MaxRel /\ nops + 1 \in Operations
    BY <1>0, <1>3, ManifestFields DEF CreateRecovery, CreateOperation
  <2>2. [NoOperation EXCEPT !.type = "recover", !.status = "in_progress",
                            !.stage = "recovery_started", !.source = rels[me.rel].op,
                            !.release = me.rel] \in OperationRecord
    BY <2>1, EmptyRecords DEF OperationRecord, OperationStatus, Stages
  <2>3. ops' \in [Operations -> OperationRecord]
    BY <1>3, <2>1, <2>2, StoreTypes DEF CreateRecovery, CreateOperation
  <2>4. me' \in Context
    BY <1>3, <2>1, ContextUpdates DEF CreateRecovery
  <2>5. QED
    BY <1>3, <2>1, <2>3, <2>4 DEF CreateRecovery, CreateOperation, Steps
<1>4. CASE OwnRecovery
  BY <1>0, <1>4, EndOfStep DEF OwnRecovery, Owner, Steps
<1>5. CASE AnnounceAction
  <2>1. Head(me.plan) \in RecoveryActions
    BY <1>0, <1>5, HeadTailProperties DEF AnnounceAction, ContextOK, PlanSteps, PlanOK
  <2>2. "in_progress" \in OperationStatus /\ Head(me.plan) \in Stages
    BY <1>a, <2>1 DEF OperationStatus
  <2>3. ops' \in [Operations -> OperationRecord]
    BY <1>0, <1>5, <2>2, StoreTypes DEF AnnounceAction, TransitionOperation
  <2>4. QED
    BY <1>5, <2>3, EndOfStep DEF AnnounceAction, Steps
<1>6. CASE RecoverRemoveNew
  BY <1>6, DoneTypes DEF RecoverRemoveNew, RemoveApplication, ContextOK, PlanSteps, Marks
<1>7. CASE RecoverRestore
  <2>1. db' \in Content
    BY <1>0, <1>7, ManifestFields DEF RecoverRestore
  <2>2. QED
    BY <1>7, <2>1, DoneTypes DEF RecoverRestore, ContextOK, PlanSteps, Marks
<1>8. CASE RecoverRestart
  BY <1>8, DoneTypes DEF RecoverRestart, RestartApplication, ContextOK, PlanSteps, Marks
<1>9. CASE RecoverRoute
  <2>1. PlanOK(me) /\ Head(me.plan) = "activate_previous"
    BY <1>9 DEF RecoverRoute, ContextOK, PlanSteps
  <2>2. me.prev # NoApp
    <3>1. me.plan # <<>> /\ 1 \in 1..Len(me.plan) /\ Head(me.plan) = me.plan[1]
      BY <1>0, <2>1 DEF PlanOK
    <3>2. QED
      BY <2>1, <3>1 DEF PlanOK
  <2>3. target' \in Apps
    BY <1>0, <1>9, <2>2 DEF RecoverRoute, RouteTo
  <2>4. QED
    BY <1>9, <2>1, <2>3, DoneTypes DEF RecoverRoute, Marks
<1>10. CASE RecoverReopen
  BY <1>10, DoneTypes DEF RecoverReopen, SetMaintenance, ContextOK, PlanSteps, Marks
<1>11. CASE RecoverVerify
  BY <1>11, DoneTypes DEF RecoverVerify, ContextOK, PlanSteps, Marks
<1>12. CASE RecoverActionFails
  BY <1>12, EndOfStep DEF RecoverActionFails, RecoveryFails, Steps
<1>13. CASE Resolve
  <2>1. ResolvedRelease(me.rel) \in Manifest
    BY <1>0, <1>b, <1>13, ManifestUpdates DEF Resolve, ResolvedRelease
  <2>2. [rels EXCEPT ![me.rel] = ResolvedRelease(me.rel)] \in [Releases -> Manifest]
    BY <1>0, <2>1, StoreTypes
  <2>3. QED
    BY <1>13, <2>2, EndOfStep DEF Resolve, RecoveryFails, Steps
<1>14. CASE SelectRecovered
  BY <1>0, <1>14, EndOfStep DEF SelectRecovered, ActivateRelease, Steps
<1>15. CASE Recovered
  <2>1. PICK g \in {"recovered_active", "recovered_rolled_back"} :
            TransitionOperation("succeeded", g, me.changed)
    BY <1>15 DEF Recovered
  <2>2. ops' \in [Operations -> OperationRecord]
    BY <1>0, <2>1, StoreTypes DEF TransitionOperation, OperationStatus, Stages
  <2>3. QED
    BY <1>15, <2>2, EndOfStep DEF Recovered, Steps
<1>16. CASE RecoveryFailed
  <2>1. "recovery_required" \in OperationStatus /\ "recovery_required" \in Stages
    BY <1>a, <1>b DEF OperationStatus
  <2>2. ops' \in [Operations -> OperationRecord]
    BY <1>0, <1>16, <2>1, StoreTypes DEF RecoveryFailed, TransitionOperation
  <2>3. QED
    BY <1>16, <2>2, EndOfStep DEF RecoveryFailed, Steps
<1> QED
  BY <1>1, <1>2, <1>3, <1>4, <1>5, <1>6, <1>7, <1>8, <1>9, <1>10, <1>11, <1>12, <1>13,
     <1>14, <1>15, <1>16 DEF RecoverStep

------------------------------------------------------------------------------
(* The start of a command, its end, and the environment.                    *)

(* What a recovery notes when it starts. *)
LEMMA RecoveryPlanned ==
    ASSUME TypeOK, StartRecover
    PROVE  /\ me' \in Context /\ me'.rel \in 1..nrels /\ PlanOK(me')
           /\ me'.maint = FALSE /\ me'.stage = "created"
<1>1. PICK r \in 1..nrels :
        \E matches \in ChecksumMatches(r) :
            /\ CompletesNew(r) \/ RecoversPrevious(r, matches)
            /\ me' = [NoContext EXCEPT
                        !.rel = r,
                        !.prev = rels[r].prev,
                        !.changed = CompletesNew(r) \/ MayHaveChanged(r),
                        !.activated = CompletesNew(r),
                        !.plan = IF CompletesNew(r) THEN NewActions
                                 ELSE PreviousActions(r, matches)]
  BY DEF StartRecover
<1>2. PICK matches \in ChecksumMatches(r) :
            /\ CompletesNew(r) \/ RecoversPrevious(r, matches)
            /\ me' = [NoContext EXCEPT
                        !.rel = r,
                        !.prev = rels[r].prev,
                        !.changed = CompletesNew(r) \/ MayHaveChanged(r),
                        !.activated = CompletesNew(r),
                        !.plan = IF CompletesNew(r) THEN NewActions
                                 ELSE PreviousActions(r, matches)]
  BY <1>1
<1> DEFINE c == CompletesNew(r) \/ MayHaveChanged(r)
           a == CompletesNew(r)
           q == IF CompletesNew(r) THEN NewActions ELSE PreviousActions(r, matches)
<1>3. r \in Releases /\ rels[r].prev \in Apps \cup {NoApp}
  BY ManifestFields DEF TypeOK
<1>4. c \in BOOLEAN /\ a \in BOOLEAN
  BY DEF CompletesNew
<1>5. Plan(q)
  BY PlansBuilt
<1>6. \A i \in 1..Len(q) : q[i] = "activate_previous" => rels[r].prev # NoApp
  BY <1>2, PlansBuilt DEF RecoversPrevious, LivePrevious
<1>7. me' = [NoContext EXCEPT !.rel = r, !.prev = rels[r].prev, !.changed = c,
                              !.activated = a, !.plan = q]
  BY <1>2
<1> HIDE DEF c, a, q
<1>8. /\ me' \in Context /\ me'.plan = q /\ me'.prev = rels[r].prev /\ me'.rel = r
      /\ me'.maint = FALSE /\ me'.stage = "created"
  <2>1. q \in Seq(RecoveryActions)
    BY <1>5 DEF Plan
  <2>2. NoContext \in Context /\ NoContext.maint = FALSE /\ NoContext.stage = "created"
    BY EmptyRecords DEF NoContext
  <2>3. r \in 0..MaxRel
    BY <1>3
  <2>4. QED
    BY <1>3, <1>4, <1>7, <2>1, <2>2, <2>3 DEF Context
<1> QED
  BY <1>5, <1>6, <1>8 DEF Plan, PlanOK

(* A command that starts and the environment keep the types. *)
LEMMA OtherTypes ==
    ASSUME TypeOK, StartDeploy \/ StartRecover \/ Unlock \/ Environment \/ UNCHANGED vars
    PROVE  TypeOK'
<1> USE DEF TypeOK, durable, world
<1>1. CASE StartDeploy
  <2>1. nops + 1 \in Operations
    BY <1>1 DEF StartDeploy, CreateOperation
  <2>2. [NoOperation EXCEPT !.type = "deploy", !.status = "in_progress",
                            !.stage = "created"] \in OperationRecord
    BY EmptyRecords DEF OperationRecord, OperationStatus, Stages, DeploymentState,
                        CandidateStages
  <2>3. ops' \in [Operations -> OperationRecord]
    BY <1>1, <2>1, <2>2, StoreTypes DEF StartDeploy, CreateOperation
  <2>4. me' \in Context
    BY <1>1, <2>1, EmptyRecords, ContextUpdates DEF StartDeploy
  <2>5. QED
    BY <1>1, <2>1, <2>3, <2>4 DEF StartDeploy, CreateOperation, Steps
<1>2. CASE StartRecover
  BY <1>2, RecoveryPlanned DEF StartRecover, Steps
<1>3. CASE Unlock
  BY <1>3, EmptyRecords DEF Unlock, ReleaseLock, Owner, Steps
<1>4. CASE Environment
  <2>1. ASSUME NEW w \in Writes, UserWrite(w) PROVE TypeOK'
    BY <2>1 DEF UserWrite, Content
  <2>2. CASE Crash
    <3>1. me.rel \in 0..MaxRel
      BY ContextFields
    <3>2. QED
      BY <2>2, <3>1, EmptyRecords DEF Crash, Steps
  <2>3. CASE Interrupt
    BY <2>3, EmptyRecords DEF Interrupt, ReleaseLock, Owner, Steps
  <2>4. CASE Reboot
    BY <2>4, EmptyRecords DEF Reboot, Steps
  <2>5. CASE OrphanMigrates
    BY <2>5 DEF OrphanMigrates, Content
  <2>6. QED
    BY <1>4, <2>1, <2>2, <2>3, <2>4, <2>5 DEF Environment
<1>5. CASE UNCHANGED vars
  BY <1>5 DEF vars
<1> QED
  BY <1>1, <1>2, <1>3, <1>4, <1>5

------------------------------------------------------------------------------
(* What a command has noted.                                                *)

(* How the end of a step changes what the command has noted. *)
LEMMA NotedAtEnd ==
    ASSUME TypeOK
    PROVE  /\ \A p : Goto(p) => pc' = p /\ me' = me
           /\ \A p : RollbackOn(p) => pc' \in {p, "require_recovery"} /\ me' = me
           /\ \A e : Fail(e) => /\ pc' = "failed" /\ me'.rel = me.rel /\ me'.prev = me.prev
                                /\ me'.maint = me.maint /\ me'.stage = me.stage
           /\ \A s : Persist(s) => /\ pc' = "persist" /\ me'.rel = me.rel
                                   /\ me'.prev = me.prev /\ me'.maint = me.maint
                                   /\ me'.stage = s
<1>1. \A p : Goto(p) => pc' = p /\ me' = me
  BY DEF Goto
<1>2. \A p : RollbackOn(p) => pc' \in {p, "require_recovery"} /\ me' = me
  BY DEF Goto, RollbackOn
<1>3. ASSUME NEW e, Fail(e)
      PROVE  /\ pc' = "failed" /\ me'.rel = me.rel /\ me'.prev = me.prev
             /\ me'.maint = me.maint /\ me'.stage = me.stage
  BY <1>3 DEF Fail, TypeOK, Context
<1>4. ASSUME NEW s, Persist(s)
      PROVE  /\ pc' = "persist" /\ me'.rel = me.rel /\ me'.prev = me.prev
             /\ me'.maint = me.maint /\ me'.stage = s
  BY <1>4 DEF Persist, TypeOK, Context
<1> QED
  BY <1>1, <1>2, <1>3, <1>4

(* Every step of a deployment keeps what the command has noted. *)
LEMMA DeployContext ==
    ASSUME TypeOK, ContextOK, DeployStep
    PROVE  ContextOK'
<1> USE DEF ContextOK, PreviousSteps, PlanSteps, durable, world
<1>1. CASE RecordOwner
  BY <1>1, NotedAtEnd DEF RecordOwner
<1>2. CASE CreateRelease
  <2>1. /\ me'.rel = nrels + 1 /\ nrels' = nrels + 1 /\ pc' = "candidate"
        /\ me'.maint = me.maint /\ me'.stage = me.stage
    BY <1>2 DEF CreateRelease, TypeOK, Context
  <2>2. QED
    BY <1>2, <2>1 DEF CreateRelease, TypeOK, CutoverStages
<1>3. CASE FailWithoutRelease
  BY <1>3, NotedAtEnd DEF FailWithoutRelease
<1>4. CASE PersistOperation
  BY <1>4, NotedAtEnd DEF PersistOperation
<1>5. CASE PersistRelease
  BY <1>5, NotedAtEnd DEF PersistRelease, After, CutoverStages
<1>6. CASE CandidateStage
  BY <1>6, NotedAtEnd DEF CandidateStage, CandidateStages, CutoverStages
<1>7. CASE CandidateFails
  BY <1>7, NotedAtEnd DEF CandidateFails
<1>8. CASE ResolvePrevious
  <2>1. me'.prev # NoApp /\ me'.rel = me.rel /\ pc' = "enable_maintenance" /\ nrels' = nrels
    BY <1>8 DEF ResolvePrevious, TypeOK, Context, NoApp
  <2>2. QED
    BY <1>8, <2>1 DEF ResolvePrevious
<1>9. CASE ResolveFails
  BY <1>9, NotedAtEnd DEF ResolveFails
<1>10. CASE EnableMaintenance
  BY <1>10 DEF EnableMaintenance, TypeOK, Context
<1>11. CASE EnableFails
  BY <1>11 DEF EnableFails, TypeOK, Context
<1>12. CASE UndoMaintenance
  BY <1>12, NotedAtEnd DEF UndoMaintenance
<1>13. CASE UndoFails
  BY <1>13, NotedAtEnd DEF UndoFails
<1>14. CASE VerifyUndo
  BY <1>14, NotedAtEnd DEF VerifyUndo
<1>15. CASE StopCurrent
  BY <1>15 DEF StopCurrent, TypeOK, Context
<1>16. CASE StopFails
  BY <1>16, NotedAtEnd DEF StopFails
<1>17. CASE CreateFinal
  BY <1>17 DEF CreateFinal, TypeOK, Context
<1>18. CASE ReplicateFinal
  BY <1>18, NotedAtEnd DEF ReplicateFinal
<1>19. CASE BackupFails
  BY <1>19, NotedAtEnd DEF BackupFails
<1>20. CASE IntendMigration
  BY <1>20 DEF IntendMigration, TypeOK, Context
<1>21. CASE AnnounceMigration
  BY <1>21, NotedAtEnd DEF AnnounceMigration
<1>22. CASE StartMigration
  BY <1>22, NotedAtEnd DEF StartMigration
<1>23. CASE MigrationNotStarted
  BY <1>23, NotedAtEnd DEF MigrationNotStarted
<1>24. CASE FinishMigration
  BY <1>24, NotedAtEnd DEF FinishMigration
<1>25. CASE MigrationFails
  BY <1>25, NotedAtEnd DEF MigrationFails
<1>26. CASE StartNew
  BY <1>26 DEF StartNew, TypeOK, Context
<1>27. CASE StartNewFails
  BY <1>27, NotedAtEnd DEF StartNewFails
<1>28. CASE CheckNew
  BY <1>28, NotedAtEnd DEF CheckNew
<1>29. CASE IntendActivation
  BY <1>29 DEF IntendActivation, TypeOK, Context
<1>30. CASE AnnounceActivation
  BY <1>30, NotedAtEnd DEF AnnounceActivation
<1>31. CASE ActivateNew
  BY <1>31 DEF ActivateNew, TypeOK, Context
<1>32. CASE RecordActivation
  BY <1>32 DEF RecordActivation, TypeOK, Context
<1>33. CASE DisableMaintenance
  BY <1>33 DEF DisableMaintenance, TypeOK, Context
<1>34. CASE DisableFails
  BY <1>34, NotedAtEnd DEF DisableFails
<1>35. CASE MarkActive
  BY <1>35, NotedAtEnd DEF MarkActive
<1>36. CASE SelectActive
  BY <1>36, NotedAtEnd DEF SelectActive
<1>37. CASE Succeed
  BY <1>37, NotedAtEnd DEF Succeed
<1>38. CASE DispatchFailure
  BY <1>38, NotedAtEnd DEF DispatchFailure
<1>39. CASE RemoveNew
  BY <1>39, NotedAtEnd DEF RemoveNew
<1>40. CASE RestoreDatabase
  BY <1>40, NotedAtEnd DEF RestoreDatabase
<1>41. CASE RestartPrevious
  BY <1>41, NotedAtEnd DEF RestartPrevious
<1>42. CASE RouteOld
  BY <1>42, NotedAtEnd DEF RouteOld
<1>43. CASE Reopen
  BY <1>43, NotedAtEnd DEF Reopen
<1>44. CASE VerifyPrevious
  BY <1>44, NotedAtEnd DEF VerifyPrevious
<1>45. CASE RollbackFails
  BY <1>45, NotedAtEnd DEF RollbackFails
<1>46. CASE MarkRolledBack
  BY <1>46, NotedAtEnd DEF MarkRolledBack
<1>47. CASE FailRelease
  BY <1>47, NotedAtEnd DEF FailRelease
<1>48. CASE FailOperation
  BY <1>48, NotedAtEnd DEF FailOperation
<1>49. CASE RequireRecovery
  BY <1>49, NotedAtEnd DEF RequireRecovery
<1>50. CASE RequireOperationRecovery
  BY <1>50, NotedAtEnd DEF RequireOperationRecovery
<1> QED
  BY <1>1, <1>2, <1>3, <1>4, <1>5, <1>6, <1>7, <1>8, <1>9, <1>10, <1>11, <1>12, <1>13, <1>14, <1>15, <1>16, <1>17, <1>18, <1>19, <1>20, <1>21, <1>22, <1>23, <1>24, <1>25, <1>26, <1>27, <1>28, <1>29, <1>30, <1>31, <1>32, <1>33, <1>34, <1>35, <1>36, <1>37, <1>38, <1>39, <1>40, <1>41, <1>42, <1>43, <1>44, <1>45, <1>46, <1>47, <1>48, <1>49, <1>50 DEF DeployStep

(* Every step of a recovery keeps what the command has noted. *)
LEMMA RecoverContext ==
    ASSUME TypeOK, ContextOK, RecoverStep
    PROVE  ContextOK'
<1> USE DEF ContextOK, durable, world
<1>1. \A p : Goto(p) => pc' = p /\ me' = me
  BY NotedAtEnd
<1>2. ASSUME PlanOK(me), Head(me.plan) \notin Marks, Done \/ RecoveryFails
      PROVE  /\ me'.rel = me.rel /\ me'.prev = me.prev /\ me'.maint = me.maint
             /\ me'.stage = me.stage
             /\ \/ pc' = "next_action" /\ PlanOK(me')
                \/ pc' = "recovery_failed"
  BY <1>1, <1>2, PlanTail DEF Done, RecoveryFails, TypeOK, Context
<1>3. CASE Supersede
  <2>1. /\ pc = "supersede" /\ pc' \in {"supersede", "take_release"} /\ me' = me
        /\ nrels' = nrels
    BY <1>3, <1>1 DEF Supersede
  <2>2. QED
    BY <2>1 DEF PlanSteps, PreviousSteps, PlanOK
<1>4. CASE TakeRelease
  BY <1>4, <1>1 DEF TakeRelease, ReleaseLock, NoContext, PlanSteps, PreviousSteps,
                    CutoverStages
<1>5. CASE CreateRecovery
  <2>1. /\ me'.rel = me.rel /\ me'.prev = me.prev /\ me'.maint = me.maint
        /\ me'.stage = me.stage /\ me'.plan = me.plan
    BY <1>5 DEF CreateRecovery, TypeOK, Context
  <2>2. QED
    BY <1>5, <2>1 DEF CreateRecovery, PlanSteps, PreviousSteps, PlanOK
<1>6. CASE OwnRecovery
  BY <1>6, <1>1 DEF OwnRecovery, PlanSteps, PreviousSteps
<1>7. CASE AnnounceAction
  BY <1>7, <1>1 DEF AnnounceAction, PlanSteps, PreviousSteps
<1>8. CASE RecoverRemoveNew
  BY <1>8, <1>2 DEF RecoverRemoveNew, Marks, PlanSteps, PreviousSteps
<1>9. CASE RecoverRestore
  BY <1>9, <1>2 DEF RecoverRestore, Marks, PlanSteps, PreviousSteps
<1>10. CASE RecoverRestart
  BY <1>10, <1>2 DEF RecoverRestart, Marks, PlanSteps, PreviousSteps
<1>11. CASE RecoverRoute
  BY <1>11, <1>2 DEF RecoverRoute, Marks, PlanSteps, PreviousSteps
<1>12. CASE RecoverReopen
  BY <1>12, <1>2 DEF RecoverReopen, Marks, PlanSteps, PreviousSteps
<1>13. CASE RecoverVerify
  BY <1>13, <1>2 DEF RecoverVerify, Marks, PlanSteps, PreviousSteps
<1>14. CASE RecoverActionFails
  BY <1>14, <1>1 DEF RecoverActionFails, RecoveryFails, PlanSteps, PreviousSteps
<1>15. CASE Resolve
  BY <1>15, <1>1 DEF Resolve, RecoveryFails, PlanSteps, PreviousSteps
<1>16. CASE SelectRecovered
  BY <1>16, <1>1 DEF SelectRecovered, PlanSteps, PreviousSteps
<1>17. CASE Recovered
  BY <1>17, <1>1 DEF Recovered, PlanSteps, PreviousSteps
<1>18. CASE RecoveryFailed
  BY <1>18, <1>1 DEF RecoveryFailed, PlanSteps, PreviousSteps
<1> QED
  BY <1>3, <1>4, <1>5, <1>6, <1>7, <1>8, <1>9, <1>10, <1>11, <1>12, <1>13, <1>14, <1>15,
     <1>16, <1>17, <1>18 DEF RecoverStep

(* A command that starts or ends and the environment keep what is noted.    *)
LEMMA OtherContext ==
    ASSUME TypeOK, ContextOK,
           StartDeploy \/ StartRecover \/ Unlock \/ Environment \/ UNCHANGED vars
    PROVE  ContextOK'
<1> USE DEF ContextOK, durable, world
<1>1. ASSUME pc' = "idle", me' = NoContext PROVE ContextOK'
  BY <1>1 DEF NoContext, PlanSteps, PreviousSteps, CutoverStages
<1>2. CASE StartDeploy
  <2>1. me'.maint = FALSE /\ me'.stage = "created"
    BY <1>2 DEF StartDeploy, NoContext
  <2>2. QED
    BY <1>2, <2>1 DEF StartDeploy, PlanSteps, PreviousSteps, CutoverStages
<1>3. CASE StartRecover
  BY <1>3, RecoveryPlanned DEF StartRecover, PlanSteps, PreviousSteps, CutoverStages
<1>4. CASE Unlock
  BY <1>1, <1>4 DEF Unlock, ReleaseLock
<1>5. CASE Environment
  BY <1>1, <1>5 DEF Environment, UserWrite, Crash, Interrupt, ReleaseLock, Reboot,
                    OrphanMigrates
<1>6. CASE UNCHANGED vars
  BY <1>6 DEF vars, PlanOK
<1> QED
  BY <1>2, <1>3, <1>4, <1>5, <1>6

------------------------------------------------------------------------------
(* The inductive invariant, and type correctness.                           *)

Typed == TypeOK /\ ContextOK

(* The empty state directory and the application it finds are typed. *)
LEMMA InitTyped == Init => Typed
<1> SUFFICES ASSUME Init PROVE Typed
  OBVIOUS
<1>1. /\ ops \in [Operations -> OperationRecord] /\ rels \in [Releases -> Manifest]
      /\ me \in Context
  BY EmptyRecords DEF Init
<1>2. owner \in Owner /\ db \in Content /\ app \in [Apps -> {"absent", "running", "stopped"}]
  BY DEF Init, Owner, Content
<1>3. /\ nops \in 0..MaxOps /\ nrels \in 0..MaxRel /\ active \in 0..MaxRel
      /\ previous \in 0..MaxRel /\ target \in Apps /\ maintenance \in BOOLEAN
      /\ acked \subseteq Writes /\ orphan \in 0..MaxRel /\ pc \in Steps
  <2>1. /\ nops = 0 /\ nrels = 0 /\ active = 0 /\ previous = 0 /\ target = 0
        /\ maintenance = FALSE /\ acked = {} /\ orphan = 0 /\ pc = "idle"
    BY DEF Init
  <2>2. 0 \in 0..MaxOps /\ 0 \in 0..MaxRel /\ {} \subseteq Writes /\ "idle" \in Steps
    BY DEF Steps
  <2>3. QED
    BY <2>1, <2>2
<1>4. ContextOK
  BY DEF Init, ContextOK, NoContext, PlanSteps, PreviousSteps, CutoverStages
<1> QED
  BY <1>1, <1>2, <1>3, <1>4 DEF Typed, TypeOK

(* Every step keeps the types and what the command has noted. *)
LEMMA NextTyped == Typed /\ [Next]_vars => Typed'
<1> SUFFICES ASSUME Typed, [Next]_vars PROVE Typed'
  OBVIOUS
<1>1. CASE DeployStep
  BY <1>1, DeployTypes, DeployContext DEF Typed
<1>2. CASE RecoverStep
  BY <1>2, RecoverTypes, RecoverContext DEF Typed
<1>3. CASE StartDeploy \/ StartRecover \/ Unlock \/ Environment \/ UNCHANGED vars
  BY <1>3, OtherTypes, OtherContext DEF Typed
<1> QED
  BY <1>1, <1>2, <1>3 DEF Next, CommandStep

(* For any number of releases, operations and writes and any faults, the   *)
(* system stays typed.                                                      *)
THEOREM TypeCorrect == Spec => []TypeOK
<1>1. Spec => []Typed
  BY InitTyped, NextTyped, PTL DEF Spec
<1>2. Typed => TypeOK
  BY DEF Typed
<1> QED
  BY <1>1, <1>2, PTL

=============================================================================
