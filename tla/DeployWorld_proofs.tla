-------------------------- MODULE DeployWorld_proofs --------------------------
(***************************************************************************)
(* What the records say of the managed world, for every value of the       *)
(* constants and under every fault: which applications may run, what an    *)
(* intent covers, when users are blocked, and that the stores accept what  *)
(* a deployment and a recovery write.                                      *)
(***************************************************************************)
EXTENDS DeployHistory_proofs

USE HostAssumption DEF Releases, Operations, Apps

(* The steps of a deployment from its release to the outcome of that       *)
(* release.                                                                 *)
Attempt ==
    {"candidate", "persist", "persist_release", "resolve", "enable_maintenance",
     "undo_maintenance", "verify_undo", "stop", "create_final", "replicate",
     "intend_migration", "announce_migration", "migrate", "migrating", "start_new",
     "check_new", "intend_activation", "announce_activation", "activate_new",
     "record_hook", "disable_maintenance", "mark_active", "failed", "remove_new",
     "restore", "restart", "route_old", "reopen", "verify_previous",
     "mark_rolled_back", "fail_release", "require_recovery"}

Persisting == {"persist", "persist_release"}

(* The steps of a rollback once the new application is removed, and once   *)
(* the database is back.                                                    *)
Removed ==
    {"restore", "restart", "route_old", "reopen", "verify_previous", "mark_rolled_back"}
Restored == Removed \ {"restore"}

(* The steps of a recovery with a plan, and those with the release taken. *)
Planned == {"supersede", "take_release"} \cup
           {"create_recovery", "own_recovery", "next_action", "perform"}
Taken == {"create_recovery", "own_recovery", "next_action", "perform"}

(* The stages of the cutover that follow a migration, a final backup, a    *)
(* stop, and those that precede the final backup.                           *)
Migrated == {"production_migrated", "new_app_healthy", "traffic_activated"}
BackedUp == Migrated \cup {"final_snapshot_verified"}
Quiet == BackedUp \cup {"current_app_stopped"}
Early == CandidateStages \cup {"maintenance_enabled", "current_app_stopped"}

(* The stage that a deployment has reached, or persists, at each step. *)
StageFits ==
    /\ pc = "candidate" => me.stage \in CandidateStages \ {"candidate_healthy"}
    /\ pc \in Persisting => me.stage \in (CandidateStages \cup CutoverStages) \ {"created"}
    /\ pc \in {"resolve", "enable_maintenance", "undo_maintenance", "verify_undo"} =>
          me.stage = "candidate_healthy"
    /\ pc = "stop" => me.stage = "maintenance_enabled"
    /\ pc = "create_final" => me.stage = "current_app_stopped"
    /\ pc \in {"replicate", "intend_migration", "announce_migration", "migrate",
               "migrating"} => me.stage = "final_snapshot_verified"
    /\ pc \in {"start_new", "check_new"} => me.stage = "production_migrated"
    /\ pc \in {"intend_activation", "announce_activation", "activate_new",
               "record_hook"} => me.stage = "new_app_healthy"
    /\ pc \in {"disable_maintenance", "mark_active"} => me.stage = "traffic_activated"
    /\ pc = "failed" => me.stage \in (CandidateStages \cup CutoverStages) \ {"rollback_started"}
    /\ pc \in Removed \cup {"remove_new"} => me.stage = "rollback_started"
    /\ pc = "fail_release" => me.stage \in CandidateStages
    /\ pc = "require_recovery" =>
          me.stage \in (CandidateStages \cup CutoverStages) \ {"created", "preflight_passed"}

(* What the manifests say beyond what their validator demands. *)
ManifestsOK ==
    \A r \in Releases :
        /\ ValidManifest(rels[r])
        /\ r > nrels => ~rels[r].migration_started
        /\ rels[r].status \in Early \cup {"failed_safe"} => ~rels[r].migration_started
        /\ rels[r].status = "recovery_required" => rels[r].rehearsed
        /\ rels[r].status \in CutoverStages => rels[r].prev # NoApp
        /\ rels[r].final # {} => rels[r].prev # NoApp
        /\ r = nrels /\ r # active => rels[r].prev \in {NoApp, active}

(* A deployment starts with nothing noted but its operation. *)
StartOK == pc \in Starting => me = [NoContext EXCEPT !.op = me.op]

(* What a deployment remembers agrees with the manifest of its release. *)
AttemptOK ==
    pc \in Attempt =>
        /\ StageFits
        /\ IF pc \in Persisting THEN me.stage \in TRANSITIONS(rels[nrels].status)
                                ELSE me.stage = rels[nrels].status
        /\ me.prev \in {NoApp, active}
        /\ me.stage \in CandidateStages => ~me.maint
        /\ me.stage \in CutoverStages => me.maint \/ me.activated
        /\ me.activated <=> me.stage = "traffic_activated"
        /\ me.stage \in Quiet => me.stopped
        /\ me.stage \in BackedUp => me.final # {}
        /\ me.changed <=> rels[nrels].migration_started
        /\ me.changed => me.stopped /\ me.final # {}
        /\ me.stage \in Migrated => me.changed
        /\ me.stage \in Early => ~me.changed
        /\ pc \in Persisting /\ me.stage = "final_snapshot_verified" => ~me.changed
        /\ pc \in {"create_final", "replicate", "intend_migration"} => ~me.changed
        /\ pc \in {"replicate", "intend_migration"} => rels[nrels].final # {}
        /\ pc \in {"announce_migration", "migrate", "migrating"} => me.changed
        /\ rels[nrels].attempted =>
              me.stage \in {"new_app_healthy", "traffic_activated", "rollback_started"}
        /\ me.attempted => rels[nrels].attempted
        /\ me.stage = "rollback_started" => ~me.attempted
        /\ me.activated => rels[nrels].attempted
        /\ pc \in {"announce_activation", "activate_new", "record_hook"} =>
              rels[nrels].attempted
        /\ pc = "failed" /\ me.stage \in {"created", "preflight_passed"} => me.err # "recovery"

Announcements == {"production_migration_started", "traffic_activation_started"}
BeforeAnnouncement ==
    {"replicate", "intend_migration", "announce_migration", "intend_activation",
     "announce_activation"}

(* The journal follows the stage that a deployment persists, or holds an   *)
(* announcement, which is made once.                                        *)
JournalOK ==
    /\ pc \in Starting => ops[nops].stage = "created"
    /\ pc = "persist_release" => ops[nops].stage = me.stage
    /\ pc \in Attempt \ {"persist_release"} =>
          ops[nops].stage \in {rels[nrels].status} \cup Announcements
    /\ pc \in BeforeAnnouncement => ops[nops].stage = rels[nrels].status

(* The applications that may run: the active one or that of the newest     *)
(* release, never both.                                                     *)
AppsOK ==
    /\ \A a \in Apps : app[a] = "running" => a = active \/ a = nrels
    /\ nrels # active /\ app[nrels] = "running" => app[active] # "running"
    /\ nrels # active /\ rels[nrels].status = "active" => app[active] # "running"
    /\ nrels # active /\ rels[nrels].status = "rolled_back" => app[nrels] = "absent"

(* What a deployment has done to the applications. *)
AttemptAppsOK ==
    pc \in Attempt =>
        /\ me.stage \in Quiet => app[active] # "running"
        /\ ~me.new /\ pc # "require_recovery" /\ ~(pc = "failed" /\ me.err = "recovery")
              => app[nrels] = "absent"
        /\ pc \in Removed => app[nrels] = "absent"

(* A content that a backup may hold. *)
Sound(c) ==
    c.schema # Partial /\ (c.schema \in Releases => rels[c.schema].migration_started)

IntentOK ==
    /\ \A r \in Releases : app[r] # "absent" => rels[r].migration_started
    /\ target \in Releases => rels[target].attempted
    /\ db.schema \in Releases => rels[db.schema].migration_started
    /\ orphan \in Releases => rels[orphan].migration_started
    /\ \A r \in Releases : \A c \in rels[r].final : Sound(c)
    /\ \A c \in me.final : Sound(c)

(* When the database may hold a part of a migration. *)
PartialOK ==
    /\ db.schema = Partial =>
          /\ nrels # 0 /\ rels[nrels].migration_started /\ ~rels[nrels].attempted
          /\ rels[nrels].status \notin ResolvedStates
    /\ pc \in Attempt /\ (me.stage \in Migrated \/ pc \in Restored) => db.schema # Partial

(* When users are not blocked. *)
MaintenanceOK ==
    /\ nrels = 0 \/ rels[nrels].status \in ResolvedStates => ~maintenance
    /\ pc \in {"candidate", "resolve", "enable_maintenance", "verify_undo", "fail_release",
               "mark_active", "verify_previous", "mark_rolled_back"} => ~maintenance
    /\ pc \in Persisting /\ me.stage \in CandidateStages => ~maintenance
    /\ pc = "failed" /\ me.stage \in CandidateStages /\ me.err # "recovery" => ~maintenance

(* The place of an action in a plan. *)
Rank(a) ==
    CASE a = "remove_new"          -> 1
      [] a = "restore_final"       -> 2
      [] a = "restart_previous"    -> 3
      [] a = "activate_previous"   -> 4
      [] a = "disable_maintenance" -> 5
      [] a \in {"verify_previous", "verify_new"} -> 6
      [] OTHER                     -> 7

ForwardActions == {"disable_maintenance", "verify_new", "mark_active"}
BackwardActions == RecoveryActions \ {"verify_new", "mark_active"}

(* Action a has not been performed yet. *)
Left(q, a) == \E i \in 1..Len(q) : q[i] = a

(* A plan keeps its order and its direction. *)
Ordered(q) == \A i, j \in 1..Len(q) : i < j => Rank(q[i]) < Rank(q[j])
Directed(q, forward) ==
    \A i \in 1..Len(q) : q[i] \in IF forward THEN ForwardActions ELSE BackwardActions

(* What a recovery has done according to what is left of its plan. *)
PlanRunOK ==
    pc \in Planned =>
        /\ Ordered(me.plan) /\ Directed(me.plan, me.activated)
        /\ me.prev = rels[nrels].prev
        /\ rels[nrels].status \notin CandidateStages
        /\ pc \in Taken => rels[nrels].status = "recovery_required"
        /\ me.activated => /\ rels[nrels].attempted
                           /\ active # nrels => app[active] # "running"
        /\ ~me.activated =>
              /\ me.prev = active /\ active # nrels
              /\ ~Left(me.plan, "remove_new") => app[nrels] = "absent"
              /\ ~Left(me.plan, "restore_final") => db.schema # Partial
        /\ ~Left(me.plan, "disable_maintenance") => ~maintenance

WorldOK ==
    /\ ManifestsOK /\ StartOK /\ AttemptOK /\ JournalOK /\ AppsOK /\ AttemptAppsOK
    /\ IntentOK /\ PartialOK /\ MaintenanceOK /\ PlanRunOK

------------------------------------------------------------------------------
(* What the earlier invariants say of a running command.                    *)

LEMMA DuringAttempt ==
    ASSUME Historic, pc \in Attempt
    PROVE  /\ me \in Context /\ me.rel = nrels /\ nrels \in Releases
           /\ me.op = nops /\ nops \in Operations /\ rels[nrels] \in Manifest
    BY DEF Historic, Typed, TypeOK, ContextOK, HistoryOK, RunOK, Attempt, Plain, Steps,
           Starting, Taking, Closing

LEMMA DuringPlan ==
    ASSUME Historic, pc \in Planned
    PROVE  /\ me \in Context /\ me.rel = nrels /\ nrels \in Releases
           /\ rels[nrels] \in Manifest /\ PlanOK(me)
    BY DEF Historic, Typed, TypeOK, ContextOK, HistoryOK, RunOK, Planned, Plain, Steps,
           Starting, Taking, Closing, PlanSteps


------------------------------------------------------------------------------
(* The manifests.                                                           *)

(* One manifest is replaced, that of the newest release. *)
LEMMA ManifestReplaced ==
    ASSUME TypeOK, ManifestsOK, nrels \in Releases, NEW m,
           rels' = [rels EXCEPT ![nrels] = m], ValidManifest(m),
           m.status \in Early \cup {"failed_safe"} => ~m.migration_started,
           m.status = "recovery_required" => m.rehearsed,
           m.status \in CutoverStages => m.prev # NoApp,
           m.final # {} => m.prev # NoApp,
           nrels # active => m.prev \in {NoApp, active},
           UNCHANGED <<nrels, active>>
    PROVE  ManifestsOK'
<1>1. \A r \in Releases : rels'[r] = IF r = nrels THEN m ELSE rels[r]
  BY DEF TypeOK
<1>2. ASSUME NEW r \in Releases, r = nrels
      PROVE  /\ ValidManifest(m)
             /\ r > nrels => ~m.migration_started
             /\ m.status \in Early \cup {"failed_safe"} => ~m.migration_started
             /\ m.status = "recovery_required" => m.rehearsed
             /\ m.status \in CutoverStages => m.prev # NoApp
             /\ m.final # {} => m.prev # NoApp
             /\ r = nrels /\ r # active => m.prev \in {NoApp, active}
  BY <1>2
<1>3. ASSUME NEW r \in Releases, r # nrels
      PROVE  /\ ValidManifest(rels[r])
             /\ r > nrels => ~rels[r].migration_started
             /\ rels[r].status \in Early \cup {"failed_safe"} => ~rels[r].migration_started
             /\ rels[r].status = "recovery_required" => rels[r].rehearsed
             /\ rels[r].status \in CutoverStages => rels[r].prev # NoApp
             /\ rels[r].final # {} => rels[r].prev # NoApp
  BY <1>3 DEF ManifestsOK
<1> QED
  BY <1>1, <1>2, <1>3 DEF ManifestsOK

(* The steps that write no manifest and select no release. *)
LEMMA ManifestsUntouched ==
    ASSUME ManifestsOK, UNCHANGED <<rels, nrels, active>>
    PROVE  ManifestsOK'
    BY DEF ManifestsOK

(* The steps of a deployment keep the manifests right. *)
LEMMA DeployManifests ==
    ASSUME Historic, ManifestsOK, AttemptOK, DeployStep
    PROVE  ManifestsOK'
<1> USE DEF durable
<1>0. TypeOK /\ ContextOK /\ HistoryOK
  BY DEF Historic, Typed
<1>a. pc \in Attempt =>
        /\ me \in Context /\ me.rel = nrels /\ nrels \in Releases
        /\ rels[nrels] \in Manifest
  BY DuringAttempt
<1>1. CASE QuietDeployStep
  BY <1>0, <1>1, QuietDeploy, ManifestsUntouched
<1>2. CASE \/ RecordOwner \/ FailWithoutRelease \/ PersistOperation \/ AnnounceMigration
           \/ AnnounceActivation \/ RecordActivation \/ Succeed \/ FailOperation
           \/ RequireOperationRecovery
  <2>1. UNCHANGED <<rels, nrels, active>>
    BY <1>2 DEF RecordOwner, FailWithoutRelease, PersistOperation, AnnounceMigration,
                AnnounceActivation, RecordActivation, Succeed, FailOperation,
                RequireOperationRecovery
  <2>2. QED
    BY <2>1, ManifestsUntouched
<1>3. CASE CreateRelease
  <2> DEFINE m == [NoManifest EXCEPT !.op = me.op, !.prev = IF active = 0 THEN NoApp ELSE active]
  <2>1. nrels + 1 \in Releases /\ nrels \in 0..MaxRel /\ active \in 0..MaxRel
    BY <1>0, <1>3 DEF CreateRelease, ContextOK, TypeOK
  <2>2. /\ nrels' = nrels + 1 /\ active' = active
        /\ \A r \in Releases : rels'[r] = IF r = nrels + 1 THEN m ELSE rels[r]
    BY <1>0, <1>3, <2>1 DEF CreateRelease, TypeOK
  <2>3. /\ m.status = "created" /\ m.prev \in {NoApp, active} /\ m.final = {}
        /\ ~m.migration_started /\ ~m.activated /\ ~m.attempted /\ m.resolved_by = 0
    BY DEF NoManifest
  <2>4. ValidManifest(m)
    BY <2>3 DEF ValidManifest, CutoverStages
  <2> HIDE DEF m
  <2>5. QED
    BY <2>1, <2>2, <2>3, <2>4 DEF ManifestsOK, CutoverStages
<1>4. CASE PersistRelease
  <2> DEFINE m == StageChanges(rels[nrels], me.stage)
  <2>1. /\ pc \in Attempt /\ pc \in Persisting /\ me.stage \in CandidateStages \cup CutoverStages
    BY <1>4 DEF PersistRelease, Attempt, AttemptOK, StageFits, Persisting
  <2>2. /\ ValidManifest(m) /\ rels' = [rels EXCEPT ![nrels] = m]
        /\ UNCHANGED <<nrels, active>>
    BY <1>4, <1>a, <2>1 DEF PersistRelease, TransitionRelease, Accepted
  <2>3. /\ m.status = me.stage /\ m.migration_started = rels[nrels].migration_started
        /\ m.prev = IF me.stage \in {"maintenance_enabled", "current_app_stopped"}
                    THEN me.prev ELSE rels[nrels].prev
        /\ m.final = IF me.stage = "final_snapshot_verified" THEN me.final
                     ELSE rels[nrels].final
    BY <1>a, <2>1 DEF StageChanges, Manifest
  <2>4. me.stage \in Early => ~rels[nrels].migration_started
    BY <2>1 DEF AttemptOK
  <2>5. me.stage \in CutoverStages => m.prev # NoApp
    BY <1>0, <2>2, <2>3 DEF ValidManifest, ContextOK
  <2>6. m.final # {} => m.prev # NoApp
    BY <1>a, <2>1, <2>3, <2>5 DEF ManifestsOK, CutoverStages
  <2>7. nrels # active => m.prev \in {NoApp, active}
    BY <1>a, <2>1, <2>3 DEF ManifestsOK, AttemptOK
  <2>8. me.stage \notin {"failed_safe", "recovery_required"}
    BY <2>1 DEF CandidateStages, CutoverStages
  <2> HIDE DEF m
  <2>9. QED
    BY <1>0, <1>a, <2>1, <2>2, <2>3, <2>4, <2>5, <2>6, <2>7, <2>8, ManifestReplaced
<1>5. CASE IntendMigration \/ IntendActivation
  <2>1. PICK m \in {[rels[nrels] EXCEPT !.migration_started = TRUE],
                    [rels[nrels] EXCEPT !.attempted = TRUE]} :
            /\ ValidManifest(m) /\ rels' = [rels EXCEPT ![nrels] = m]
            /\ UNCHANGED <<nrels, active>>
    BY <1>5, <1>a DEF IntendMigration, IntendActivation, RecordIntent, IntentAccepted, Attempt
  <2>2. pc \in Attempt /\ rels[nrels].status \in {"final_snapshot_verified", "new_app_healthy"}
    BY <1>5 DEF IntendMigration, IntendActivation, Attempt, AttemptOK, StageFits, Persisting
  <2>3. /\ m.status = rels[nrels].status /\ m.prev = rels[nrels].prev
        /\ m.final = rels[nrels].final
    BY <1>a, <2>1, <2>2 DEF Manifest
  <2>4. m.status \notin Early \cup {"failed_safe", "recovery_required"}
    BY <2>2, <2>3 DEF Early, CandidateStages
  <2>5. QED
    BY <1>0, <1>a, <2>1, <2>2, <2>3, <2>4, ManifestReplaced DEF ManifestsOK
<1>6. CASE MarkActive \/ MarkRolledBack \/ FailRelease
  <2>1. pc \in Attempt
    BY <1>6 DEF MarkActive, MarkRolledBack, FailRelease, Attempt
  <2>2. PICK m :
            /\ ValidManifest(m) /\ rels' = [rels EXCEPT ![nrels] = m]
            /\ m.status \in {"active", "rolled_back", "failed_safe"}
            /\ m.prev = rels[nrels].prev /\ m.final = rels[nrels].final
            /\ m.migration_started = rels[nrels].migration_started
            /\ m.status = "failed_safe" => pc = "fail_release"
            /\ UNCHANGED <<nrels, active>>
    <3>1. CASE MarkActive
      <4> DEFINE n == [rels[nrels] EXCEPT !.status = "active", !.changed = TRUE,
                                          !.activated = TRUE]
      <4>1. /\ ValidManifest(n) /\ rels' = [rels EXCEPT ![nrels] = n]
            /\ n.status = "active" /\ n.prev = rels[nrels].prev /\ n.final = rels[nrels].final
            /\ n.migration_started = rels[nrels].migration_started
            /\ UNCHANGED <<nrels, active>>
        BY <1>a, <2>1, <3>1 DEF MarkActive, TransitionRelease, Accepted, Manifest
      <4> HIDE DEF n
      <4>2. QED
        BY <4>1
    <3>2. CASE MarkRolledBack
      <4> DEFINE n == [rels[nrels] EXCEPT !.status = "rolled_back", !.changed = me.changed,
                                          !.activated = FALSE]
      <4>1. /\ ValidManifest(n) /\ rels' = [rels EXCEPT ![nrels] = n]
            /\ n.status = "rolled_back" /\ n.prev = rels[nrels].prev
            /\ n.final = rels[nrels].final
            /\ n.migration_started = rels[nrels].migration_started
            /\ UNCHANGED <<nrels, active>>
        BY <1>a, <2>1, <3>2 DEF MarkRolledBack, TransitionRelease, Accepted, Manifest
      <4> HIDE DEF n
      <4>2. QED
        BY <4>1
    <3>3. CASE FailRelease
      <4> DEFINE n == [rels[nrels] EXCEPT !.status = "failed_safe", !.changed = me.changed,
                                          !.activated = FALSE]
      <4>1. /\ ValidManifest(n) /\ rels' = [rels EXCEPT ![nrels] = n]
            /\ n.status = "failed_safe" /\ n.prev = rels[nrels].prev
            /\ n.final = rels[nrels].final /\ pc = "fail_release"
            /\ n.migration_started = rels[nrels].migration_started
            /\ UNCHANGED <<nrels, active>>
        BY <1>a, <2>1, <3>3 DEF FailRelease, TransitionRelease, Accepted, Manifest
      <4> HIDE DEF n
      <4>2. QED
        BY <4>1
    <3>4. QED
      BY <1>6, <3>1, <3>2, <3>3
  <2>3. pc = "fail_release" => ~rels[nrels].migration_started
    BY <2>1 DEF AttemptOK, StageFits, Early
  <2>4. m.status \notin Early \cup CutoverStages \cup {"recovery_required"}
    BY <2>2 DEF Early, CandidateStages, CutoverStages
  <2>5. QED
    BY <1>0, <1>a, <2>1, <2>2, <2>3, <2>4, ManifestReplaced DEF ManifestsOK
<1>7. CASE RequireRecovery
  <2> DEFINE m == [rels[nrels] EXCEPT !.status = "recovery_required",
                                      !.changed = me.changed, !.activated = me.activated]
  <2>1. pc \in Attempt /\ pc \notin Persisting
    BY <1>7 DEF RequireRecovery, Attempt, Persisting
  <2>2. /\ UNCHANGED <<nrels, active>>
        /\ \/ UNCHANGED rels
           \/ ValidManifest(m) /\ rels' = [rels EXCEPT ![nrels] = m]
    BY <1>7, <1>a, <2>1 DEF RequireRecovery, Accepted
  <2>3. /\ m.status = "recovery_required" /\ m.prev = rels[nrels].prev
        /\ m.final = rels[nrels].final /\ m.rehearsed = rels[nrels].rehearsed
    BY <1>a, <2>1 DEF Manifest
  <2>4. rels[nrels].rehearsed
    <3>1. rels[nrels].status \in (CandidateStages \cup CutoverStages)
                                 \ {"created", "preflight_passed"}
      BY <1>7, <2>1 DEF RequireRecovery, AttemptOK, StageFits
    <3>2. QED
      BY <1>a, <2>1, <3>1 DEF ManifestsOK, ValidManifest, CandidateStages
  <2>5. m.status \notin Early \cup CutoverStages \cup {"failed_safe"}
    BY <2>3 DEF Early, CandidateStages, CutoverStages
  <2> HIDE DEF m
  <2>6. QED
    BY <1>0, <1>a, <2>1, <2>2, <2>3, <2>4, <2>5, ManifestReplaced, ManifestsUntouched
       DEF ManifestsOK
<1>8. CASE SelectActive
  <2>1. active' = nrels /\ UNCHANGED <<rels, nrels>>
    BY <1>0, <1>8 DEF SelectActive, ActivateRelease, HistoryOK, RunOK, Closing, Plain
  <2>2. QED
    BY <2>1 DEF ManifestsOK
<1> QED
  BY <1>1, <1>2, <1>3, <1>4, <1>5, <1>6, <1>7, <1>8 DEF DeployStep, QuietDeployStep


(* The steps of a recovery keep the manifests right. *)
LEMMA RecoverManifests ==
    ASSUME Historic, ManifestsOK, PlanRunOK, RecoverStep
    PROVE  ManifestsOK'
<1> USE DEF durable
<1>0. TypeOK /\ ContextOK /\ HistoryOK
  BY DEF Historic, Typed
<1>a. pc \in Planned => me.rel = nrels /\ nrels \in Releases /\ rels[nrels] \in Manifest
  BY DuringPlan
<1>1. CASE \/ Supersede \/ CreateRecovery \/ OwnRecovery \/ AnnounceAction \/ Recovered
           \/ RecoveryFailed
  <2>1. UNCHANGED <<rels, nrels, active>>
    BY <1>1 DEF Supersede, CreateRecovery, OwnRecovery, AnnounceAction, Recovered,
                RecoveryFailed
  <2>2. QED
    BY <2>1, ManifestsUntouched
<1>2. CASE \/ RecoverRemoveNew \/ RecoverRestore \/ RecoverRestart \/ RecoverRoute
           \/ RecoverReopen \/ RecoverVerify \/ RecoverActionFails
  BY <1>0, <1>2, QuietRecovery, ManifestsUntouched
<1>3. CASE TakeRelease
  <2> DEFINE m == [rels[nrels] EXCEPT !.status = "recovery_required", !.changed = me.changed,
                                      !.activated = me.activated]
  <2>1. pc \in Planned
    BY <1>3 DEF TakeRelease, Planned
  <2>2. /\ UNCHANGED <<nrels, active>>
        /\ \/ UNCHANGED rels
           \/ /\ ValidManifest(m) /\ rels' = [rels EXCEPT ![nrels] = m]
              /\ m.status \in TRANSITIONS(rels[nrels].status)
    BY <1>3, <1>a, <2>1 DEF TakeRelease, TransitionRelease, Accepted, TakenRelease
  <2>3. /\ m.status = "recovery_required" /\ m.prev = rels[nrels].prev
        /\ m.final = rels[nrels].final /\ m.rehearsed = rels[nrels].rehearsed
    BY <1>a, <2>1 DEF Manifest
  <2>4. CASE m.status \in TRANSITIONS(rels[nrels].status)
    <3>1. rels[nrels].status \in CutoverStages
      BY <1>a, <2>1, <2>4 DEF PlanRunOK, TRANSITIONS, CandidateStages, CutoverStages
    <3>2. m.rehearsed
      BY <1>a, <2>1, <2>3, <3>1 DEF ManifestsOK, ValidManifest
    <3>3. m.status \notin Early \cup CutoverStages \cup {"failed_safe"}
      BY <2>3 DEF Early, CandidateStages, CutoverStages
    <3> HIDE DEF m
    <3>4. QED
      BY <1>0, <1>a, <2>1, <2>2, <2>3, <3>2, <3>3, ManifestReplaced, ManifestsUntouched
         DEF ManifestsOK
  <2>5. QED
    BY <2>2, <2>4, ManifestsUntouched
<1>4. CASE Resolve
  <2> DEFINE m == [rels[nrels] EXCEPT !.status = IF me.activated THEN "active"
                                                 ELSE "rolled_back",
                                      !.activated = me.activated, !.resolved_by = me.op]
  <2>1. pc \in Planned
    BY <1>4 DEF Resolve, Planned
  <2>2. /\ UNCHANGED <<nrels, active>>
        /\ \/ UNCHANGED rels
           \/ ValidManifest(m) /\ rels' = [rels EXCEPT ![nrels] = m]
    BY <1>4, <1>a, <2>1 DEF Resolve, Resolvable, ResolvedRelease
  <2>3. /\ m.status \in {"active", "rolled_back"} /\ m.prev = rels[nrels].prev
        /\ m.final = rels[nrels].final
    BY <1>a, <2>1 DEF Manifest
  <2>4. m.status \notin Early \cup CutoverStages \cup {"failed_safe", "recovery_required"}
    BY <2>3 DEF Early, CandidateStages, CutoverStages
  <2> HIDE DEF m
  <2>5. QED
    BY <1>0, <1>a, <2>1, <2>2, <2>3, <2>4, ManifestReplaced, ManifestsUntouched
       DEF ManifestsOK
<1>5. CASE SelectRecovered
  <2>1. active' = nrels /\ UNCHANGED <<rels, nrels>>
    BY <1>0, <1>5 DEF SelectRecovered, ActivateRelease, HistoryOK, RunOK, Closing, Plain
  <2>2. QED
    BY <2>1 DEF ManifestsOK
<1> QED
  BY <1>1, <1>2, <1>3, <1>4, <1>5 DEF RecoverStep

------------------------------------------------------------------------------
(* What a step writes in the manifests.                                     *)

(* What a write leaves of the evidence: m is written over n. *)
Continues(m, n) ==
    /\ m.op = n.op /\ m.rehearsed = n.rehearsed
    /\ m.prev = n.prev /\ m.final = n.final /\ m.new = n.new

(* The manifest that each step of an attempt or a recovery writes. *)
LEMMA ManifestWritten ==
    ASSUME TypeOK, nrels \in Releases, me.rel = nrels
    PROVE  /\ IntendMigration =>
                /\ Continues(rels'[nrels], rels[nrels])
                /\ rels'[nrels].status = rels[nrels].status
                /\ rels'[nrels].activated = rels[nrels].activated
                /\ rels'[nrels].migration_started = TRUE
                /\ rels'[nrels].attempted = rels[nrels].attempted
           /\ IntendActivation =>
                /\ Continues(rels'[nrels], rels[nrels])
                /\ rels'[nrels].status = rels[nrels].status
                /\ rels'[nrels].activated = rels[nrels].activated
                /\ rels'[nrels].migration_started = rels[nrels].migration_started
                /\ rels'[nrels].attempted = TRUE
           /\ MarkActive =>
                /\ Continues(rels'[nrels], rels[nrels])
                /\ rels'[nrels].migration_started = rels[nrels].migration_started
                /\ rels'[nrels].attempted = rels[nrels].attempted
                /\ rels'[nrels].status = "active" /\ rels'[nrels].activated = TRUE
           /\ MarkRolledBack =>
                /\ Continues(rels'[nrels], rels[nrels])
                /\ rels'[nrels].migration_started = rels[nrels].migration_started
                /\ rels'[nrels].attempted = rels[nrels].attempted
                /\ rels'[nrels].status = "rolled_back" /\ rels'[nrels].activated = FALSE
           /\ FailRelease =>
                /\ Continues(rels'[nrels], rels[nrels])
                /\ rels'[nrels].migration_started = rels[nrels].migration_started
                /\ rels'[nrels].attempted = rels[nrels].attempted
                /\ rels'[nrels].status = "failed_safe" /\ rels'[nrels].activated = FALSE
           /\ RequireRecovery /\ ~UNCHANGED rels =>
                /\ Continues(rels'[nrels], rels[nrels])
                /\ rels'[nrels].migration_started = rels[nrels].migration_started
                /\ rels'[nrels].attempted = rels[nrels].attempted
                /\ rels'[nrels].status = "recovery_required"
                /\ rels'[nrels].activated = me.activated
           /\ TakeRelease /\ ~UNCHANGED rels =>
                /\ Continues(rels'[nrels], rels[nrels])
                /\ rels'[nrels].migration_started = rels[nrels].migration_started
                /\ rels'[nrels].attempted = rels[nrels].attempted
                /\ rels'[nrels].status = "recovery_required"
                /\ rels'[nrels].activated = me.activated
           /\ Resolve /\ ~UNCHANGED rels =>
                /\ Continues(rels'[nrels], rels[nrels])
                /\ rels'[nrels].migration_started = rels[nrels].migration_started
                /\ rels'[nrels].attempted = rels[nrels].attempted
                /\ rels'[nrels].status = (IF me.activated THEN "active" ELSE "rolled_back")
                /\ rels'[nrels].activated = me.activated
<1>0. rels \in [Releases -> Manifest] /\ nrels \in Releases /\ rels[nrels] \in Manifest
  BY DEF TypeOK
<1>1. ASSUME IntendMigration
      PROVE  /\ Continues(rels'[nrels], rels[nrels])
             /\ rels'[nrels].status = rels[nrels].status
             /\ rels'[nrels].activated = rels[nrels].activated
             /\ rels'[nrels].migration_started = TRUE
             /\ rels'[nrels].attempted = rels[nrels].attempted
  <2> DEFINE m == [rels[nrels] EXCEPT !.migration_started = TRUE]
  <2>1. rels' = [rels EXCEPT ![nrels] = m]
    BY <1>1 DEF IntendMigration, RecordIntent
  <2>2. rels'[nrels] = m
    BY <1>0, <2>1
  <2>3. QED
    BY <1>0, <2>2 DEF Manifest, Continues
<1>2. ASSUME IntendActivation
      PROVE  /\ Continues(rels'[nrels], rels[nrels])
             /\ rels'[nrels].status = rels[nrels].status
             /\ rels'[nrels].activated = rels[nrels].activated
             /\ rels'[nrels].migration_started = rels[nrels].migration_started
             /\ rels'[nrels].attempted = TRUE
  <2> DEFINE m == [rels[nrels] EXCEPT !.attempted = TRUE]
  <2>1. rels' = [rels EXCEPT ![nrels] = m]
    BY <1>2 DEF IntendActivation, RecordIntent
  <2>2. rels'[nrels] = m
    BY <1>0, <2>1
  <2>3. QED
    BY <1>0, <2>2 DEF Manifest, Continues
<1>3. ASSUME MarkActive
      PROVE  /\ Continues(rels'[nrels], rels[nrels])
             /\ rels'[nrels].migration_started = rels[nrels].migration_started
             /\ rels'[nrels].attempted = rels[nrels].attempted
             /\ rels'[nrels].status = "active" /\ rels'[nrels].activated = TRUE
  <2> DEFINE m == [rels[nrels] EXCEPT !.status = "active", !.changed = TRUE, !.activated = TRUE]
  <2>1. rels' = [rels EXCEPT ![nrels] = m]
    BY <1>3 DEF MarkActive, TransitionRelease
  <2>2. rels'[nrels] = m
    BY <1>0, <2>1
  <2>3. QED
    BY <1>0, <2>2 DEF Manifest, Continues
<1>4. ASSUME MarkRolledBack
      PROVE  /\ Continues(rels'[nrels], rels[nrels])
             /\ rels'[nrels].migration_started = rels[nrels].migration_started
             /\ rels'[nrels].attempted = rels[nrels].attempted
             /\ rels'[nrels].status = "rolled_back" /\ rels'[nrels].activated = FALSE
  <2> DEFINE m == [rels[nrels] EXCEPT !.status = "rolled_back", !.changed = me.changed, !.activated = FALSE]
  <2>1. rels' = [rels EXCEPT ![nrels] = m]
    BY <1>4 DEF MarkRolledBack, TransitionRelease
  <2>2. rels'[nrels] = m
    BY <1>0, <2>1
  <2>3. QED
    BY <1>0, <2>2 DEF Manifest, Continues
<1>5. ASSUME FailRelease
      PROVE  /\ Continues(rels'[nrels], rels[nrels])
             /\ rels'[nrels].migration_started = rels[nrels].migration_started
             /\ rels'[nrels].attempted = rels[nrels].attempted
             /\ rels'[nrels].status = "failed_safe" /\ rels'[nrels].activated = FALSE
  <2> DEFINE m == [rels[nrels] EXCEPT !.status = "failed_safe", !.changed = me.changed, !.activated = FALSE]
  <2>1. rels' = [rels EXCEPT ![nrels] = m]
    BY <1>5 DEF FailRelease, TransitionRelease
  <2>2. rels'[nrels] = m
    BY <1>0, <2>1
  <2>3. QED
    BY <1>0, <2>2 DEF Manifest, Continues
<1>6. ASSUME RequireRecovery, ~UNCHANGED rels
      PROVE  /\ Continues(rels'[nrels], rels[nrels])
             /\ rels'[nrels].migration_started = rels[nrels].migration_started
             /\ rels'[nrels].attempted = rels[nrels].attempted
             /\ rels'[nrels].status = "recovery_required"
             /\ rels'[nrels].activated = me.activated
  <2> DEFINE m == [rels[nrels] EXCEPT !.status = "recovery_required", !.changed = me.changed, !.activated = me.activated]
  <2>1. rels' = [rels EXCEPT ![nrels] = m]
    BY <1>6 DEF RequireRecovery
  <2>2. rels'[nrels] = m
    BY <1>0, <2>1
  <2>3. QED
    BY <1>0, <2>2 DEF Manifest, Continues
<1>7. ASSUME TakeRelease, ~UNCHANGED rels
      PROVE  /\ Continues(rels'[nrels], rels[nrels])
             /\ rels'[nrels].migration_started = rels[nrels].migration_started
             /\ rels'[nrels].attempted = rels[nrels].attempted
             /\ rels'[nrels].status = "recovery_required"
             /\ rels'[nrels].activated = me.activated
  <2> DEFINE m == [rels[nrels] EXCEPT !.status = "recovery_required", !.changed = me.changed, !.activated = me.activated]
  <2>1. rels' = [rels EXCEPT ![nrels] = m]
    BY <1>7 DEF TakeRelease, TransitionRelease, TakenRelease
  <2>2. rels'[nrels] = m
    BY <1>0, <2>1
  <2>3. QED
    BY <1>0, <2>2 DEF Manifest, Continues
<1>8. ASSUME Resolve, ~UNCHANGED rels
      PROVE  /\ Continues(rels'[nrels], rels[nrels])
             /\ rels'[nrels].migration_started = rels[nrels].migration_started
             /\ rels'[nrels].attempted = rels[nrels].attempted
             /\ rels'[nrels].status = (IF me.activated THEN "active" ELSE "rolled_back")
             /\ rels'[nrels].activated = me.activated
  <2> DEFINE m == [rels[nrels] EXCEPT !.status = IF me.activated THEN "active" ELSE "rolled_back", !.activated = me.activated, !.resolved_by = me.op]
  <2>1. rels' = [rels EXCEPT ![nrels] = m]
    BY <1>8 DEF Resolve, ResolvedRelease
  <2>2. rels'[nrels] = m
    BY <1>0, <2>1
  <2>3. QED
    BY <1>0, <2>2 DEF Manifest, Continues
<1> QED
  BY <1>1, <1>2, <1>3, <1>4, <1>5, <1>6, <1>7, <1>8

(* The manifest that a durable stage writes. *)
LEMMA StagePersisted ==
    ASSUME TypeOK, nrels \in Releases, me.rel = nrels, PersistRelease
    PROVE  /\ rels'[nrels].status = me.stage /\ rels'[nrels].op = rels[nrels].op
           /\ rels'[nrels].migration_started = rels[nrels].migration_started
           /\ rels'[nrels].attempted = rels[nrels].attempted
           /\ rels'[nrels].activated <=> rels[nrels].activated \/ me.stage = "traffic_activated"
           /\ rels'[nrels].final = IF me.stage = "final_snapshot_verified" THEN me.final
                                   ELSE rels[nrels].final
<1>0. rels \in [Releases -> Manifest] /\ rels[nrels] \in Manifest
  BY DEF TypeOK
<1> DEFINE m == StageChanges(rels[nrels], me.stage)
<1>1. rels' = [rels EXCEPT ![nrels] = m]
  BY DEF PersistRelease, TransitionRelease
<1>2. rels'[nrels] = m
  BY <1>0, <1>1
<1>3. m.activated = (rels[nrels].activated \/ me.stage = "traffic_activated")
  BY <1>0 DEF StageChanges, Manifest
<1> QED
  BY <1>0, <1>2, <1>3 DEF StageChanges, Manifest

(* A step writes the newest manifest only. *)
LEMMA OneManifestWritten ==
    ASSUME Historic, Next
    PROVE  \A r \in Releases : r # nrels' => rels'[r] = rels[r]
<1> USE DEF durable
<1>0. TypeOK /\ HistoryOK /\ rels \in [Releases -> Manifest]
  BY DEF Historic, Typed, TypeOK
<1>1. CASE UNCHANGED rels
  BY <1>1
<1>2. ASSUME me.rel = nrels, nrels' = nrels, NEW m, rels' = [rels EXCEPT ![me.rel] = m]
      PROVE  \A r \in Releases : r # nrels' => rels'[r] = rels[r]
  BY <1>0, <1>2
<1>3. pc \notin Starting \cup {"idle", "unlock"} => me.rel = nrels
  BY <1>0 DEF HistoryOK, RunOK, Plain, TypeOK
<1>4. CASE CreateRelease
  BY <1>0, <1>4 DEF CreateRelease
<1>5. CASE PersistRelease \/ IntendMigration \/ IntendActivation \/ MarkActive
           \/ MarkRolledBack \/ FailRelease \/ RequireRecovery \/ TakeRelease \/ Resolve
  <2>1. /\ nrels' = nrels /\ pc \notin Starting \cup {"idle", "unlock"}
        /\ \/ UNCHANGED rels
           \/ \E m : rels' = [rels EXCEPT ![me.rel] = m]
    BY <1>5 DEF PersistRelease, IntendMigration, IntendActivation, MarkActive, MarkRolledBack,
                FailRelease, RequireRecovery, TakeRelease, Resolve, TransitionRelease,
                RecordIntent, Starting
  <2>2. QED
    BY <1>1, <1>2, <1>3, <2>1
<1>6. CASE QuietDeployStep
  BY <1>0, <1>1, <1>6, QuietDeploy
<1>7. CASE \/ RecoverRemoveNew \/ RecoverRestore \/ RecoverRestart \/ RecoverRoute
           \/ RecoverReopen \/ RecoverVerify \/ RecoverActionFails
  BY <1>0, <1>1, <1>7, QuietRecovery
<1>8. CASE \/ RecordOwner \/ FailWithoutRelease \/ PersistOperation \/ AnnounceMigration
           \/ AnnounceActivation \/ RecordActivation \/ SelectActive \/ Succeed
           \/ FailOperation \/ RequireOperationRecovery
  BY <1>1, <1>8 DEF RecordOwner, FailWithoutRelease, PersistOperation, AnnounceMigration,
                    AnnounceActivation, RecordActivation, SelectActive, Succeed,
                    FailOperation, RequireOperationRecovery
<1>9. CASE \/ Supersede \/ CreateRecovery \/ OwnRecovery \/ AnnounceAction \/ SelectRecovered
           \/ Recovered \/ RecoveryFailed \/ StartDeploy \/ StartRecover \/ Unlock \/ Environment
  BY <1>1, <1>9 DEF Supersede, CreateRecovery, OwnRecovery, AnnounceAction, SelectRecovered,
                    Recovered, RecoveryFailed, StartDeploy, StartRecover, Unlock, Environment,
                    UserWrite, Crash, Interrupt, Reboot, OrphanMigrates
<1> QED
  BY <1>4, <1>5, <1>6, <1>7, <1>8, <1>9
     DEF Next, CommandStep, DeployStep, QuietDeployStep, RecoverStep

(* Intents and final backups stay in the manifests. *)
LEMMA EvidenceGrows ==
    ASSUME Historic, ManifestsOK, Next
    PROVE  \A r \in Releases :
              /\ rels[r].migration_started => rels'[r].migration_started
              /\ rels[r].attempted => rels'[r].attempted
              /\ rels'[r].final \subseteq rels[r].final \cup me.final
<1> USE DEF durable
<1>0. TypeOK /\ HistoryOK /\ rels \in [Releases -> Manifest] /\ nrels \in 0..MaxRel
  BY DEF Historic, Typed, TypeOK
<1>1. CASE UNCHANGED rels
  BY <1>1
<1>2. CASE CreateRelease
  <2>1. /\ nrels + 1 \in Releases /\ nrels' = nrels + 1
        /\ ~rels[nrels + 1].migration_started /\ ~rels[nrels + 1].attempted
    BY <1>0, <1>2 DEF CreateRelease, Historic, Typed, ContextOK, ManifestsOK, ValidManifest
  <2>2. rels'[nrels + 1].final = {}
    BY <1>0, <1>2, <2>1 DEF CreateRelease, NoManifest
  <2>3. QED
    BY <2>1, <2>2, OneManifestWritten
<1>3. CASE \/ PersistRelease \/ IntendMigration \/ IntendActivation \/ MarkActive
           \/ MarkRolledBack \/ FailRelease \/ RequireRecovery \/ TakeRelease \/ Resolve
  <2>1. /\ nrels' = nrels /\ pc \notin Starting \cup {"idle", "unlock"}
    BY <1>3 DEF PersistRelease, IntendMigration, IntendActivation, MarkActive, MarkRolledBack,
                FailRelease, RequireRecovery, TakeRelease, Resolve, Starting
  <2>2. me.rel = nrels /\ nrels \in Releases
    BY <1>0, <2>1 DEF HistoryOK, RunOK, Plain, TypeOK, Historic, Typed, ContextOK, Starting
  <2>3. CASE PersistRelease
    BY <1>0, <2>1, <2>2, <2>3, StagePersisted, OneManifestWritten
  <2>4. CASE \/ IntendMigration \/ IntendActivation \/ MarkActive \/ MarkRolledBack \/ FailRelease
             \/ (RequireRecovery \/ TakeRelease \/ Resolve) /\ ~UNCHANGED rels
    <3>1. /\ Continues(rels'[nrels], rels[nrels])
          /\ rels[nrels].migration_started => rels'[nrels].migration_started
          /\ rels[nrels].attempted => rels'[nrels].attempted
      BY <1>0, <2>2, <2>4, ManifestWritten
    <3>2. QED
      BY <2>1, <2>2, <3>1, OneManifestWritten DEF Continues
  <2>5. QED
    BY <1>1, <1>3, <2>3, <2>4
<1>4. CASE QuietDeployStep
  BY <1>0, <1>1, <1>4, QuietDeploy
<1>5. CASE \/ RecoverRemoveNew \/ RecoverRestore \/ RecoverRestart \/ RecoverRoute
           \/ RecoverReopen \/ RecoverVerify \/ RecoverActionFails
  BY <1>0, <1>1, <1>5, QuietRecovery
<1>6. CASE \/ RecordOwner \/ FailWithoutRelease \/ PersistOperation \/ AnnounceMigration
           \/ AnnounceActivation \/ RecordActivation \/ SelectActive \/ Succeed
           \/ FailOperation \/ RequireOperationRecovery
  BY <1>1, <1>6 DEF RecordOwner, FailWithoutRelease, PersistOperation, AnnounceMigration,
                    AnnounceActivation, RecordActivation, SelectActive, Succeed,
                    FailOperation, RequireOperationRecovery
<1>7. CASE \/ Supersede \/ CreateRecovery \/ OwnRecovery \/ AnnounceAction \/ SelectRecovered
           \/ Recovered \/ RecoveryFailed \/ StartDeploy \/ StartRecover \/ Unlock \/ Environment
  BY <1>1, <1>7 DEF Supersede, CreateRecovery, OwnRecovery, AnnounceAction, SelectRecovered,
                    Recovered, RecoveryFailed, StartDeploy, StartRecover, Unlock, Environment,
                    UserWrite, Crash, Interrupt, Reboot, OrphanMigrates
<1> QED
  BY <1>2, <1>3, <1>4, <1>5, <1>6, <1>7
     DEF Next, CommandStep, DeployStep, QuietDeployStep, RecoverStep

------------------------------------------------------------------------------
(* What a deployment remembers.                                             *)

(* The steps that write no record are steps between the release and its    *)
(* outcome.                                                                 *)
LEMMA QuietAttempts ==
    ASSUME QuietDeployStep
    PROVE  pc \in Attempt \ Persisting
  BY  DEF QuietDeployStep, CandidateStage , CandidateFails , ResolvePrevious , ResolveFails
    , EnableMaintenance , EnableFails , UndoMaintenance , UndoFails
    , VerifyUndo , StopCurrent , StopFails , CreateFinal
    , ReplicateFinal , BackupFails , StartMigration , MigrationNotStarted
    , FinishMigration , MigrationFails , StartNew , StartNewFails
    , CheckNew , ActivateNew , DisableMaintenance , DisableFails
    , DispatchFailure , RemoveNew , RestoreDatabase , RestartPrevious
    , RouteOld , Reopen , VerifyPrevious , RollbackFails, Attempt, Persisting

(* They keep what the deployment remembers right. *)
LEMMA QuietAttempt ==
    ASSUME Historic, AttemptOK, AppsOK, QuietDeployStep
    PROVE  AttemptOK'
<1> USE DEF durable, Attempt, Persisting, Removed, Restored, Migrated, BackedUp, Quiet, Early, CandidateStages, CutoverStages, AttemptOK, StageFits
<1>0. TypeOK /\ ContextOK /\ HistoryOK /\ UNCHANGED <<ops, nops, rels, nrels, active, previous>>
  BY QuietDeploy DEF Historic, Typed
<1>a. pc \in Attempt /\ nrels \in Releases /\ me \in Context /\ rels[nrels] \in Manifest
  BY DuringAttempt, QuietAttempts 
<1>1. CASE CandidateStage
  BY <1>0, <1>a, <1>1 DEF CandidateStage, Persist, TRANSITIONS, Context
<1>2. CASE CandidateFails
  BY <1>0, <1>a, <1>2 DEF CandidateFails, Fail, Severities, Context
<1>3. CASE ResolvePrevious
  <2>1. me'.prev = active
    BY <1>0, <1>a, <1>3 DEF ResolvePrevious, AppsOK, Context
  <2>2. QED
    BY <1>0, <1>a, <1>3, <2>1 DEF ResolvePrevious, Context
<1>4. CASE ResolveFails
  BY <1>0, <1>a, <1>4 DEF ResolveFails, Fail, Context
<1>5. CASE EnableMaintenance
  BY <1>0, <1>a, <1>5 DEF EnableMaintenance, TRANSITIONS, Context
<1>6. CASE EnableFails
  BY <1>0, <1>a, <1>6 DEF EnableFails, Context
<1>7. CASE UndoMaintenance
  BY <1>0, <1>a, <1>7 DEF UndoMaintenance, Goto, Context
<1>8. CASE UndoFails
  BY <1>0, <1>a, <1>8 DEF UndoFails, Fail, Context
<1>9. CASE VerifyUndo
  BY <1>0, <1>a, <1>9 DEF VerifyUndo, Goto, Fail, Context
<1>10. CASE StopCurrent
  BY <1>0, <1>a, <1>10 DEF StopCurrent, TRANSITIONS, Context
<1>11. CASE StopFails
  BY <1>0, <1>a, <1>11 DEF StopFails, Fail, Context
<1>12. CASE CreateFinal
  BY <1>0, <1>a, <1>12 DEF CreateFinal, TRANSITIONS, Context
<1>13. CASE ReplicateFinal
  BY <1>0, <1>a, <1>13 DEF ReplicateFinal, Goto, Context
<1>14. CASE BackupFails
  BY <1>0, <1>a, <1>14 DEF BackupFails, Fail, Context
<1>15. CASE StartMigration
  BY <1>0, <1>a, <1>15 DEF StartMigration, Goto, Context
<1>16. CASE MigrationNotStarted
  BY <1>0, <1>a, <1>16 DEF MigrationNotStarted, Fail, Context
<1>17. CASE FinishMigration
  BY <1>0, <1>a, <1>17 DEF FinishMigration, Persist, TRANSITIONS, Context
<1>18. CASE MigrationFails
  BY <1>0, <1>a, <1>18 DEF MigrationFails, Fail, Context
<1>19. CASE StartNew
  BY <1>0, <1>a, <1>19 DEF StartNew, Context
<1>20. CASE StartNewFails
  BY <1>0, <1>a, <1>20 DEF StartNewFails, Fail, Context
<1>21. CASE CheckNew
  BY <1>0, <1>a, <1>21 DEF CheckNew, Fail, Persist, TRANSITIONS, Context
<1>22. CASE ActivateNew
  BY <1>0, <1>a, <1>22 DEF ActivateNew, Context
<1>23. CASE DisableMaintenance
  BY <1>0, <1>a, <1>23 DEF DisableMaintenance, Context
<1>24. CASE DisableFails
  BY <1>0, <1>a, <1>24 DEF DisableFails, Fail, Context
<1>25. CASE DispatchFailure
  BY <1>0, <1>a, <1>25 DEF DispatchFailure, Goto, Persist, TRANSITIONS, Context
<1>26. CASE RemoveNew
  BY <1>0, <1>a, <1>26 DEF RemoveNew, RollbackOn, Goto, Context
<1>27. CASE RestoreDatabase
  BY <1>0, <1>a, <1>27 DEF RestoreDatabase, RollbackOn, Goto, Context
<1>28. CASE RestartPrevious
  BY <1>0, <1>a, <1>28 DEF RestartPrevious, RollbackOn, Goto, Context
<1>29. CASE RouteOld
  BY <1>0, <1>a, <1>29 DEF RouteOld, RollbackOn, Goto, Context
<1>30. CASE Reopen
  BY <1>0, <1>a, <1>30 DEF Reopen, RollbackOn, Goto, Context
<1>31. CASE VerifyPrevious
  BY <1>0, <1>a, <1>31 DEF VerifyPrevious, Goto, Context
<1>32. CASE RollbackFails
  BY <1>0, <1>a, <1>32 DEF RollbackFails, Goto, Context
<1> QED
  BY <1>1, <1>2, <1>3, <1>4, <1>5, <1>6, <1>7, <1>8, <1>9, <1>10, <1>11, <1>12, <1>13, <1>14, <1>15, <1>16, <1>17, <1>18, <1>19, <1>20, <1>21, <1>22, <1>23, <1>24, <1>25, <1>26, <1>27, <1>28, <1>29, <1>30, <1>31, <1>32 DEF QuietDeployStep
(* So do those that write one. *)
LEMMA StoringAttempt ==
    ASSUME Historic, StartOK, AttemptOK, DeployStep, ~QuietDeployStep
    PROVE  AttemptOK'
<1> USE DEF durable, Attempt, Persisting, Removed, Restored, Migrated, BackedUp, Quiet,
            Early, CandidateStages, CutoverStages, AttemptOK, StageFits
<1>0. TypeOK /\ ContextOK /\ HistoryOK /\ me \in Context
  BY DEF Historic, Typed, TypeOK
<1>a. pc \in Attempt => me.rel = nrels /\ me.op = nops /\ nrels \in Releases /\ rels[nrels] \in Manifest
  BY DuringAttempt
<1>1. CASE RecordOwner \/ FailWithoutRelease \/ Succeed \/ FailOperation \/ RequireOperationRecovery
           \/ MarkActive \/ MarkRolledBack \/ FailRelease \/ RequireRecovery \/ SelectActive
  BY <1>1 DEF RecordOwner, FailWithoutRelease, Succeed, FailOperation, RequireOperationRecovery,
              MarkActive, MarkRolledBack, FailRelease, RequireRecovery, SelectActive, Goto
<1>2. CASE CreateRelease
  <2>1. nrels + 1 \in Releases
    BY <1>0, <1>2 DEF CreateRelease, ContextOK, TypeOK
  <2>2. rels'[nrels + 1] = [NoManifest EXCEPT !.op = me.op, !.prev = IF active = 0 THEN NoApp ELSE active]
    BY <1>0, <1>2, <2>1 DEF CreateRelease, TypeOK
  <2>3. rels'[nrels + 1].status = "created" /\ ~rels'[nrels + 1].migration_started /\ ~rels'[nrels + 1].attempted
    BY <2>2 DEF NoManifest
  <2>4. /\ me.stage = "created" /\ ~me.maint /\ ~me.activated /\ ~me.changed /\ ~me.attempted
        /\ me'.stage = me.stage /\ me'.maint = me.maint /\ me'.activated = me.activated
        /\ me'.changed = me.changed /\ me'.attempted = me.attempted
        /\ me'.prev \in {NoApp, active}
    BY <1>0, <1>2 DEF CreateRelease, Context, StartOK, Starting, NoContext
  <2>5. QED
    BY <1>0, <1>2, <2>3, <2>4 DEF CreateRelease
<1>3. CASE PersistOperation
  BY <1>0, <1>a, <1>3 DEF PersistOperation, Goto, TRANSITIONS
<1>4. CASE PersistRelease
  <2>1. /\ rels' = [rels EXCEPT ![nrels] = StageChanges(rels[nrels], me.stage)]
        /\ UNCHANGED <<nrels, active, me>> /\ pc' = After(me.stage)
        /\ ValidManifest(StageChanges(rels[nrels], me.stage))
    BY <1>4, <1>a DEF PersistRelease, TransitionRelease, Goto, Accepted
  <2>2. rels'[nrels] = StageChanges(rels[nrels], me.stage)
    BY <1>0, <1>4, <1>a, <2>1 DEF TypeOK, PersistRelease
  <2>3. /\ rels'[nrels].status = me.stage
        /\ rels'[nrels].migration_started = rels[nrels].migration_started
        /\ rels'[nrels].attempted = rels[nrels].attempted
        /\ me.stage = "final_snapshot_verified" => rels'[nrels].final = me.final
    BY <1>0, <1>4, <1>a, <2>2 DEF StageChanges, Manifest, PersistRelease
  <2>4. QED
    BY <1>0, <1>a, <1>4, <2>1, <2>3 DEF PersistRelease, After
<1>5. CASE IntendMigration
  BY <1>0, <1>a, <1>5 DEF IntendMigration, RecordIntent, TypeOK, Context, Manifest
<1>6. CASE AnnounceMigration
  BY <1>0, <1>a, <1>6 DEF AnnounceMigration, Goto
<1>7. CASE IntendActivation
  BY <1>0, <1>a, <1>7 DEF IntendActivation, RecordIntent, TypeOK, Context, Manifest
<1>8. CASE AnnounceActivation
  BY <1>0, <1>a, <1>8 DEF AnnounceActivation, Goto
<1>9. CASE RecordActivation
  <2> DEFINE h == HookMayHaveRun(me.hook)
  <2>a. /\ pc = "record_hook" /\ UNCHANGED <<rels, nrels, active>>
        /\ \/ pc' = "persist" /\ me' = [me EXCEPT !.activated = TRUE, !.stage = "traffic_activated"]
           \/ pc' = "failed" /\ me' = [me EXCEPT !.attempted = h, !.err = "safe"]
    BY <1>9 DEF RecordActivation
  <2> HIDE DEF h
  <2>1. /\ me'.prev = me.prev /\ me'.maint = me.maint /\ me'.changed = me.changed
        /\ me'.stopped = me.stopped /\ me'.final = me.final
        /\ pc' = "persist" => me'.activated = TRUE /\ me'.stage = "traffic_activated"
        /\ pc' = "failed" => me'.activated = me.activated /\ me'.stage = me.stage
    <3>1. CASE pc' = "persist" /\ me' = [me EXCEPT !.activated = TRUE, !.stage = "traffic_activated"]
      BY <1>0, <3>1 DEF Context
    <3>2. CASE pc' = "failed" /\ me' = [me EXCEPT !.attempted = h, !.err = "safe"]
      BY <1>0, <3>2 DEF Context
    <3>3. QED
      BY <2>a, <3>1, <3>2
  <2>2. /\ me.stage = "new_app_healthy" /\ rels[nrels].status = "new_app_healthy"
        /\ rels[nrels].attempted /\ me.maint /\ me.stopped /\ me.changed /\ me.final # {}
        /\ ~me.activated /\ me.prev \in {NoApp, active} /\ rels[nrels].migration_started
    BY <2>a
  <2>3. CASE pc' = "persist"
    BY <2>a, <2>1, <2>2, <2>3 DEF TRANSITIONS
  <2>4. CASE pc' = "failed"
    BY <2>a, <2>1, <2>2, <2>4
  <2>5. QED
    BY <2>a, <2>3, <2>4
<1> QED
  BY <1>1, <1>2, <1>3, <1>4, <1>5, <1>6, <1>7, <1>8, <1>9 DEF DeployStep, QuietDeployStep

(* No other step is taken during an attempt, or goes into one. *)
LEMMA OtherAttempt ==
    ASSUME Historic, AttemptOK, StartOK,
           StartDeploy \/ StartRecover \/ Unlock \/ Environment \/ RecoverStep \/ UNCHANGED vars
    PROVE  AttemptOK' /\ StartOK'
<1> USE DEF durable, world
<1>1. CASE StartDeploy
  BY <1>1 DEF StartDeploy, AttemptOK, StartOK, Attempt, NoContext
<1>2. CASE StartRecover
  BY <1>2 DEF StartRecover, AttemptOK, StartOK, Attempt, Starting
<1>3. CASE Unlock \/ Crash \/ Interrupt \/ Reboot
  BY <1>3 DEF Unlock, Crash, Interrupt, Reboot, ReleaseLock, AttemptOK, StartOK, Attempt, Starting
<1>4. CASE (\E w \in Writes : UserWrite(w)) \/ OrphanMigrates \/ UNCHANGED vars
  <2>1. UNCHANGED <<rels, nrels, active, pc, me>>
    BY <1>4 DEF UserWrite, OrphanMigrates, vars
  <2>2. AttemptOK'
    BY <2>1 DEF AttemptOK, StageFits, TRANSITIONS
  <2>3. QED
    BY <2>1, <2>2 DEF StartOK
<1>5. CASE RecoverStep
  <2>1. pc' \notin Attempt \cup Starting
    BY <1>5 DEF RecoverStep, Supersede, TakeRelease, CreateRecovery, OwnRecovery, AnnounceAction,
                RecoverRemoveNew, RecoverRestore, RecoverRestart, RecoverRoute, RecoverReopen,
                RecoverVerify, RecoverActionFails, Resolve, SelectRecovered, Recovered,
                RecoveryFailed, Done, RecoveryFails, Goto, ReleaseLock, Attempt, Starting
  <2>2. QED
    BY <2>1 DEF AttemptOK, StartOK
<1> QED
  BY <1>1, <1>2, <1>3, <1>4, <1>5 DEF Environment

(* A deployment that runs does not start again. *)
LEMMA DeployStarted ==
    ASSUME Historic, StartOK, DeployStep
    PROVE  StartOK'
<1>1. CASE RecordOwner
  BY <1>1 DEF RecordOwner, StartOK, Starting, Goto
<1>2. CASE CreateRelease
  BY <1>2 DEF CreateRelease, StartOK, Starting
<1>3. CASE QuietDeployStep
  BY <1>3, QuietDeploy, Classes DEF Historic, Typed, StartOK
<1>4. CASE \/ FailWithoutRelease \/ PersistOperation \/ PersistRelease \/ IntendMigration
           \/ AnnounceMigration \/ IntendActivation \/ AnnounceActivation \/ RecordActivation
           \/ MarkActive \/ SelectActive \/ Succeed \/ MarkRolledBack \/ FailRelease
           \/ FailOperation \/ RequireRecovery \/ RequireOperationRecovery
  <2>1. pc' \notin Starting
    BY <1>4 DEF FailWithoutRelease, PersistOperation, PersistRelease, IntendMigration,
                AnnounceMigration, IntendActivation, AnnounceActivation, RecordActivation,
                MarkActive, SelectActive, Succeed, MarkRolledBack, FailRelease, FailOperation,
                RequireRecovery, RequireOperationRecovery, Goto, After, Starting
  <2>2. QED
    BY <2>1 DEF StartOK
<1> QED
  BY <1>1, <1>2, <1>3, <1>4 DEF DeployStep, QuietDeployStep

------------------------------------------------------------------------------
(* The journal of a deployment.                                             *)

(* The steps that write no record leave the journal as it is. *)
LEMMA QuietJournal ==
    ASSUME Historic, JournalOK, QuietDeployStep
    PROVE  JournalOK'
<1>1. UNCHANGED <<ops, nops, rels, nrels>> /\ pc' \in Plain /\ pc \in Attempt \ Persisting
  BY QuietDeploy, QuietAttempts DEF Historic, Typed
<1>2. /\ pc' # "persist_release"
      /\ pc' \in BeforeAnnouncement => pc = "replicate"
  BY DEF QuietDeployStep, CandidateStage, CandidateFails, ResolvePrevious, ResolveFails,
     EnableMaintenance, EnableFails, UndoMaintenance, UndoFails, VerifyUndo, StopCurrent,
     StopFails, CreateFinal, ReplicateFinal, BackupFails, StartMigration,
     MigrationNotStarted, FinishMigration, MigrationFails, StartNew, StartNewFails,
     CheckNew, ActivateNew, DisableMaintenance, DisableFails, DispatchFailure, RemoveNew,
     RestoreDatabase, RestartPrevious, RouteOld, Reopen, VerifyPrevious, RollbackFails,
     Goto, Fail, Persist, RollbackOn, BeforeAnnouncement
<1> QED
  BY <1>1, <1>2 DEF JournalOK, Persisting, BeforeAnnouncement, Plain

(* Those that write one keep the journal and the manifest together. *)
LEMMA StoringJournal ==
    ASSUME Historic, StartOK, AttemptOK, JournalOK, DeployStep, ~QuietDeployStep
    PROVE  JournalOK'
<1> USE DEF JournalOK, Announcements, BeforeAnnouncement
<1>0. TypeOK /\ HistoryOK /\ me \in Context
  BY DEF Historic, Typed, TypeOK
<1>a. pc \in Attempt => /\ me.rel = nrels /\ me.op = nops /\ nops \in Operations
                       /\ nrels \in Releases /\ rels[nrels] \in Manifest
  BY DuringAttempt
<1>1. CASE RecordOwner \/ FailWithoutRelease \/ Succeed \/ FailOperation
           \/ RequireOperationRecovery \/ MarkActive \/ MarkRolledBack \/ FailRelease
           \/ RequireRecovery \/ SelectActive
  BY <1>1 DEF RecordOwner, FailWithoutRelease, Succeed, FailOperation,
     RequireOperationRecovery, MarkActive, MarkRolledBack, FailRelease, RequireRecovery,
     SelectActive, Goto, Attempt, Starting
<1>2. CASE CreateRelease
  <2>1. nrels + 1 \in Releases /\ UNCHANGED <<ops, nops>>
    BY <1>0, <1>2 DEF Historic, Typed, CreateRelease, ContextOK, TypeOK
  <2>2. rels'[nrels + 1].status = "created"
    BY <1>0, <1>2, <2>1 DEF CreateRelease, TypeOK, NoManifest
  <2>3. pc' = "candidate" /\ nrels' = nrels + 1 /\ ops[nops].stage = "created"
    BY <1>2 DEF CreateRelease, Starting
  <2>4. QED
    BY <2>1, <2>2, <2>3 DEF Starting
<1>3. CASE PersistOperation
  <2>1. /\ pc = "persist" /\ pc' = "persist_release" /\ UNCHANGED <<nops, me>>
        /\ TransitionOperation("in_progress", me.stage, me.changed)
    BY <1>3 DEF PersistOperation, Goto
  <2>2. ops'[nops].stage = me.stage
    BY <1>0, <1>a, <2>1, OperationWritten DEF Attempt
  <2>3. QED
    BY <2>1, <2>2 DEF Starting
<1>4. CASE PersistRelease
  <2>1. /\ rels' = [rels EXCEPT ![nrels] = StageChanges(rels[nrels], me.stage)]
        /\ pc = "persist_release" /\ pc' = After(me.stage)
        /\ UNCHANGED <<ops, nops, nrels, me>>
    BY <1>4, <1>a DEF PersistRelease, TransitionRelease, Goto, Attempt
  <2>2. rels'[nrels].status = me.stage
    BY <1>0, <1>a, <2>1 DEF TypeOK, StageChanges, Manifest, Attempt
  <2>3. pc' \notin Starting \cup {"persist_release"}
    BY <2>1 DEF After, Starting
  <2>4. QED
    BY <2>1, <2>2, <2>3
<1>5. CASE IntendMigration \/ IntendActivation
  <2>1. rels'[nrels].status = rels[nrels].status /\ UNCHANGED <<ops, nops, nrels>>
    <3>1. PICK m \in {[rels[nrels] EXCEPT !.migration_started = TRUE],
                      [rels[nrels] EXCEPT !.attempted = TRUE]} :
              rels' = [rels EXCEPT ![nrels] = m] /\ UNCHANGED <<ops, nops, nrels>>
      BY <1>5, <1>a DEF IntendMigration, IntendActivation, RecordIntent, Attempt
    <3>2. m.status = rels[nrels].status
      BY <1>a, <1>5 DEF IntendMigration, IntendActivation, Manifest, Attempt
    <3>3. QED
      BY <1>0, <1>a, <1>5, <3>1, <3>2 DEF IntendMigration, IntendActivation, TypeOK, Attempt
  <2>2. /\ pc \in {"intend_migration", "intend_activation"}
        /\ pc' \in {"announce_migration", "announce_activation"}
    BY <1>5 DEF IntendMigration, IntendActivation
  <2>3. QED
    BY <2>1, <2>2 DEF Attempt, Starting
<1>6. CASE AnnounceMigration \/ AnnounceActivation
  <2>1. /\ pc \in Attempt /\ pc' \in {"migrate", "activate_new"} /\ nops' = nops
        /\ \E g \in Announcements : TransitionOperation("in_progress", g, TRUE)
    BY <1>6 DEF AnnounceMigration, AnnounceActivation, Goto, Attempt
  <2>2. ops'[nops].stage \in Announcements
    BY <1>0, <1>a, <2>1, OperationWritten
  <2>3. QED
    BY <2>1, <2>2 DEF Starting
<1>7. CASE RecordActivation
  <2>1. /\ pc = "record_hook" /\ pc' \in {"persist", "failed"}
        /\ ops' = [ops EXCEPT ![nops].hook = me.hook] /\ UNCHANGED <<nops, rels, nrels>>
    BY <1>7, <1>a DEF RecordActivation, Attempt
  <2>2. ops'[nops].stage = ops[nops].stage
    BY <1>0, <1>a, <2>1 DEF TypeOK, OperationRecord, Attempt
  <2>3. QED
    BY <2>1, <2>2 DEF Attempt, Starting
<1> QED
  BY <1>1, <1>2, <1>3, <1>4, <1>5, <1>6, <1>7 DEF DeployStep, QuietDeployStep

(* A deployment starts with the stage of a new release; no other step      *)
(* writes to the journal of an attempt.                                     *)
LEMMA OtherJournal ==
    ASSUME Historic, JournalOK,
           StartDeploy \/ StartRecover \/ Unlock \/ Environment \/ RecoverStep
    PROVE  JournalOK'
<1> USE DEF JournalOK
<1>1. CASE StartDeploy
  <2>1. /\ nops + 1 \in Operations /\ nops' = nops + 1 /\ pc' = "record_owner"
        /\ ops' = [ops EXCEPT ![nops + 1] =
                       [NoOperation EXCEPT !.type = "deploy", !.status = "in_progress",
                                           !.stage = "created"]]
    BY <1>1 DEF Historic, Typed, TypeOK, StartDeploy, CreateOperation
  <2>2. ops'[nops'].stage = "created"
    BY <2>1 DEF Historic, Typed, TypeOK, NoOperation
  <2>3. QED
    BY <2>1, <2>2 DEF Attempt, BeforeAnnouncement
<1>2. CASE (\E w \in Writes : UserWrite(w)) \/ OrphanMigrates
  BY <1>2 DEF UserWrite, OrphanMigrates, durable
<1>3. CASE StartRecover \/ Unlock \/ Crash \/ Interrupt \/ Reboot
  BY <1>3 DEF StartRecover, Unlock, Crash, Interrupt, Reboot, ReleaseLock, Attempt,
     Starting, BeforeAnnouncement
<1>4. CASE RecoverStep
  <2>1. pc' \notin Attempt \cup Starting \cup BeforeAnnouncement
    BY <1>4 DEF RecoverStep, Supersede, TakeRelease, CreateRecovery, OwnRecovery,
       AnnounceAction, RecoverRemoveNew, RecoverRestore, RecoverRestart, RecoverRoute,
       RecoverReopen, RecoverVerify, RecoverActionFails, Resolve, SelectRecovered,
       Recovered, RecoveryFailed, Done, RecoveryFails, Goto, ReleaseLock, Attempt,
       Starting, BeforeAnnouncement
  <2>2. QED
    BY <2>1 DEF Attempt
<1> QED
  BY <1>1, <1>2, <1>3, <1>4 DEF Environment

------------------------------------------------------------------------------
(* The applications.                                                        *)

(* The release of an attempt is not selected yet. *)
LEMMA NotSelected ==
    ASSUME Historic, AttemptOK, pc \in Attempt
    PROVE  /\ active \in 0..MaxRel /\ active < nrels /\ rels[nrels].status \notin ResolvedStates \cup {"recovery_required"}
           /\ pc \in PreviousSteps => me.prev = active
<1>1. /\ rels[nrels].status \notin ResolvedStates \cup {"recovery_required"} /\ me.prev \in {NoApp, active}
  BY DEF AttemptOK, StageFits, CandidateStages, CutoverStages, ResolvedStates, TRANSITIONS, Attempt, Persisting, Removed
<1>2. active \in 0..MaxRel /\ active <= nrels /\ (active # 0 => rels[active].status = "active") /\ nrels \in Releases
  BY DuringAttempt DEF Historic, Typed, TypeOK, HistoryOK, PointersOK
<1>3. pc \in PreviousSteps => me.prev # NoApp
  BY DEF Historic, Typed, ContextOK
<1> QED
  BY <1>1, <1>2, <1>3 DEF ResolvedStates

(* The external commands of a deployment never start one application       *)
(* beside the other.                                                        *)
LEMMA QuietApps ==
    ASSUME Historic, AttemptOK, AppsOK, AttemptAppsOK, QuietDeployStep
    PROVE  AppsOK'
<1> USE DEF durable
<1>0. TypeOK /\ UNCHANGED <<ops, nops, rels, nrels, active, previous>>
  BY QuietDeploy DEF Historic, Typed
<1>a. pc \in Attempt /\ me \in Context /\ nrels \in Releases /\ rels[nrels] \in Manifest /\ me.rel = nrels
  BY DuringAttempt, QuietAttempts
<1>b. /\ active \in 0..MaxRel /\ active < nrels /\ rels[nrels].status \notin ResolvedStates
      /\ pc \in PreviousSteps => me.prev = active
      /\ pc \notin Persisting => StageFits
  BY <1>a, NotSelected DEF AttemptOK
<1>c. UNCHANGED app => AppsOK'
  BY <1>0 DEF AppsOK
<1>1. CASE CandidateStage \/ CandidateFails \/ ResolvePrevious \/ ResolveFails \/ EnableMaintenance \/ EnableFails \/ UndoMaintenance \/ UndoFails \/ VerifyUndo \/ CreateFinal \/ ReplicateFinal \/ BackupFails \/ StartMigration \/ MigrationNotStarted \/ FinishMigration \/ MigrationFails \/ CheckNew \/ ActivateNew \/ DisableMaintenance \/ DisableFails \/ DispatchFailure \/ RestoreDatabase \/ RouteOld \/ Reopen \/ VerifyPrevious \/ RollbackFails
  <2>1. UNCHANGED app
    BY <1>1 DEF CandidateStage, CandidateFails, ResolvePrevious, ResolveFails, EnableMaintenance, EnableFails, UndoMaintenance, UndoFails, VerifyUndo, CreateFinal, ReplicateFinal, BackupFails, StartMigration, MigrationNotStarted, FinishMigration, MigrationFails, CheckNew, ActivateNew, DisableMaintenance, DisableFails, DispatchFailure, RestoreDatabase, RouteOld, Reopen, VerifyPrevious, RollbackFails, world
  <2>2. QED
    BY <1>c, <2>1
<1>2. CASE StopCurrent \/ StopFails
  BY <1>0, <1>a, <1>b, <1>2 DEF StopCurrent, StopFails, StopApplication, AppsOK, TypeOK, ResolvedStates
<1>3. CASE StartNew \/ StartNewFails
  <2>1. app[active] # "running"
    BY <1>a, <1>b, <1>3 DEF StartNew, StartNewFails, AttemptAppsOK, StageFits, Persisting, Quiet, BackedUp, Migrated
  <2>2. QED
    BY <1>0, <1>a, <1>b, <1>3, <2>1 DEF StartNew, StartNewFails, AppsOK, TypeOK, ResolvedStates
<1>4. CASE RemoveNew
  BY <1>0, <1>a, <1>b, <1>4 DEF RemoveNew, RemoveApplication, AppsOK, TypeOK, ResolvedStates
<1>5. CASE RestartPrevious
  <2>1. app[nrels] = "absent" /\ me.prev = active
    BY <1>a, <1>b, <1>5 DEF RestartPrevious, AttemptAppsOK, PreviousSteps, Removed
  <2>2. QED
    BY <1>0, <1>a, <1>b, <1>5, <2>1 DEF RestartPrevious, RestartApplication, AppsOK, TypeOK, ResolvedStates
<1> QED
  BY <1>1, <1>2, <1>3, <1>4, <1>5 DEF QuietDeployStep

(* And the deployment knows what runs. *)
LEMMA QuietAttemptApps ==
    ASSUME Historic, AttemptOK, AttemptAppsOK, QuietDeployStep
    PROVE  AttemptAppsOK'
<1> USE DEF durable, world, Attempt, Persisting, Removed, Restored, Migrated, BackedUp, Quiet, Early,
       AttemptAppsOK, PreviousSteps, CandidateStages, CutoverStages, StageFits
<1>0. TypeOK /\ UNCHANGED <<ops, nops, rels, nrels, active, previous>>
  BY QuietDeploy DEF Historic, Typed
<1>a. pc \in Attempt /\ me \in Context /\ nrels \in Releases /\ rels[nrels] \in Manifest /\ me.rel = nrels
  BY DuringAttempt, QuietAttempts
<1>b. /\ active \in 0..MaxRel /\ active < nrels
      /\ pc \in PreviousSteps => me.prev = active
      /\ StageFits
  BY <1>a, NotSelected DEF AttemptOK
<1>1. CASE CandidateStage
  BY <1>0, <1>a, <1>b, <1>1 DEF CandidateStage, Persist, Context
<1>2. CASE CandidateFails
  BY <1>0, <1>a, <1>b, <1>2 DEF CandidateFails, Fail, Context
<1>3. CASE ResolvePrevious
  BY <1>0, <1>a, <1>b, <1>3 DEF ResolvePrevious, Context
<1>4. CASE ResolveFails
  BY <1>0, <1>a, <1>b, <1>4 DEF ResolveFails, Fail, Context
<1>5. CASE EnableMaintenance
  BY <1>0, <1>a, <1>b, <1>5 DEF EnableMaintenance, Context
<1>6. CASE EnableFails
  BY <1>0, <1>a, <1>b, <1>6 DEF EnableFails, Context
<1>7. CASE UndoMaintenance
  BY <1>0, <1>a, <1>b, <1>7 DEF UndoMaintenance, Goto, Context
<1>8. CASE UndoFails
  BY <1>0, <1>a, <1>b, <1>8 DEF UndoFails, Fail, Context
<1>9. CASE VerifyUndo
  BY <1>0, <1>a, <1>b, <1>9 DEF VerifyUndo, Fail, Goto, Context
<1>12. CASE CreateFinal
  BY <1>0, <1>a, <1>b, <1>12 DEF CreateFinal, Context
<1>13. CASE ReplicateFinal
  BY <1>0, <1>a, <1>b, <1>13 DEF ReplicateFinal, Goto, Context
<1>14. CASE BackupFails
  BY <1>0, <1>a, <1>b, <1>14 DEF BackupFails, Fail, Context
<1>15. CASE StartMigration
  BY <1>0, <1>a, <1>b, <1>15 DEF StartMigration, Goto, Context
<1>16. CASE MigrationNotStarted
  BY <1>0, <1>a, <1>b, <1>16 DEF MigrationNotStarted, Fail, Context
<1>17. CASE FinishMigration
  BY <1>0, <1>a, <1>b, <1>17 DEF FinishMigration, Persist, Context
<1>18. CASE MigrationFails
  BY <1>0, <1>a, <1>b, <1>18 DEF MigrationFails, Fail, Context
<1>21. CASE CheckNew
  BY <1>0, <1>a, <1>b, <1>21 DEF CheckNew, Fail, Persist, Context
<1>22. CASE ActivateNew
  BY <1>0, <1>a, <1>b, <1>22 DEF ActivateNew, Context
<1>23. CASE DisableMaintenance
  BY <1>0, <1>a, <1>b, <1>23 DEF DisableMaintenance, Context
<1>24. CASE DisableFails
  BY <1>0, <1>a, <1>b, <1>24 DEF DisableFails, Fail, Context
<1>25. CASE DispatchFailure
  BY <1>0, <1>a, <1>b, <1>25 DEF DispatchFailure, Persist, Goto, Context
<1>27. CASE RestoreDatabase
  BY <1>0, <1>a, <1>b, <1>27 DEF RestoreDatabase, RollbackOn, Goto, Context
<1>29. CASE RouteOld
  BY <1>0, <1>a, <1>b, <1>29 DEF RouteOld, RollbackOn, Goto, Context
<1>30. CASE Reopen
  BY <1>0, <1>a, <1>b, <1>30 DEF Reopen, RollbackOn, Goto, Context
<1>31. CASE VerifyPrevious
  BY <1>0, <1>a, <1>b, <1>31 DEF VerifyPrevious, Goto, Context
<1>32. CASE RollbackFails
  BY <1>0, <1>a, <1>b, <1>32 DEF RollbackFails, Goto, Context
<1>10. CASE StopCurrent
  <2>1. /\ me'.stage = "current_app_stopped" /\ pc' = "persist" /\ me'.new = me.new
        /\ app'[active] = "stopped" /\ app'[nrels] = app[nrels]
    BY <1>0, <1>a, <1>b, <1>10 DEF StopCurrent, StopApplication, Context, TypeOK
  <2>2. QED
    BY <1>0, <1>a, <1>b, <1>10, <2>1 DEF StopCurrent
<1>11. CASE StopFails
  <2>1. /\ me'.stage = me.stage /\ pc' = "failed" /\ me'.new = me.new
        /\ app'[nrels] = app[nrels]
    BY <1>0, <1>a, <1>b, <1>11 DEF StopFails, StopApplication, Fail, Context, TypeOK
  <2>2. QED
    BY <1>0, <1>a, <1>b, <1>11, <2>1 DEF StopFails
<1>19. CASE StartNew
  BY <1>0, <1>a, <1>b, <1>19 DEF StartNew, Context, TypeOK
<1>20. CASE StartNewFails
  <2>1. /\ pc' = "failed" /\ me'.stage = me.stage /\ me'.new = me.new
        /\ me'.err # "recovery" => UNCHANGED app
        /\ app'[active] = app[active]
    BY <1>0, <1>a, <1>b, <1>20 DEF StartNewFails, Fail, Context, TypeOK
  <2>2. QED
    BY <1>0, <1>a, <1>b, <1>20, <2>1 DEF StartNewFails
<1>26. CASE RemoveNew
  BY <1>0, <1>a, <1>b, <1>26 DEF RemoveNew, RollbackOn, Goto, RemoveApplication, Context, TypeOK
<1>28. CASE RestartPrevious
  BY <1>0, <1>a, <1>b, <1>28 DEF RestartPrevious, RollbackOn, Goto, RestartApplication, Context, TypeOK
<1> QED
  BY <1>1, <1>2, <1>3, <1>4, <1>5, <1>6, <1>7, <1>8, <1>9, <1>10, <1>11, <1>12, <1>13, <1>14, <1>15, <1>16, <1>17, <1>18, <1>19, <1>20, <1>21, <1>22, <1>23, <1>24, <1>25, <1>26, <1>27, <1>28, <1>29, <1>30, <1>31, <1>32 DEF QuietDeployStep
(* The releases a deployment finds. *)
LEMMA PastApps ==
    ASSUME Historic, ManifestsOK, IntentOK, Settled
    PROVE  /\ nrels # active => app[nrels] = "absent" \/ rels[nrels].status = "rolled_back"
           /\ \A r \in Releases : r > nrels => app[r] = "absent"
<1>0. /\ nrels \in 0..MaxRel /\ active \in 0..MaxRel /\ active <= nrels
      /\ app \in [Apps -> {"absent", "running", "stopped"}]
  BY DEF Historic, Typed, TypeOK, HistoryOK, PointersOK
<1>1. \A r \in Releases : r > nrels => app[r] = "absent"
  BY DEF ManifestsOK, IntentOK
<1>2. nrels # active => app[nrels] = "absent" \/ rels[nrels].status = "rolled_back"
  <2>1. SUFFICES ASSUME nrels # active PROVE app[nrels] = "absent" \/ rels[nrels].status = "rolled_back"
    OBVIOUS
  <2>2. nrels \in Releases
    BY <1>0, <2>1
  <2>3. rels[nrels].status \in ResolvedStates /\ rels[nrels].status # "active"
    BY <1>0, <2>1, <2>2 DEF Settled
  <2>4. rels[nrels].status = "failed_safe" => app[nrels] = "absent"
    BY <2>2 DEF ManifestsOK, IntentOK
  <2>5. QED
    BY <2>3, <2>4 DEF ResolvedStates
<1> QED
  BY <1>1, <1>2

(* The writes of a deployment change what the records say of the           *)
(* applications only when it holds.                                         *)
LEMMA StoringApps ==
    ASSUME Historic, ManifestsOK, StartOK, AttemptOK, AppsOK, AttemptAppsOK, IntentOK,
           DeployStep, ~QuietDeployStep
    PROVE  AppsOK' /\ AttemptAppsOK'
<1> USE DEF durable, world, Attempt, Persisting, Removed, Restored, Migrated, BackedUp, Quiet
<1>0. TypeOK /\ ContextOK /\ HistoryOK /\ me \in Context /\ active <= nrels /\ active \in 0..MaxRel
  BY DEF Historic, Typed, TypeOK, HistoryOK, PointersOK
<1>a. pc \in Attempt =>
        /\ me.rel = nrels /\ nrels \in Releases /\ rels[nrels] \in Manifest /\ active < nrels
  BY <1>0, DuringAttempt, NotSelected
<1>1. CASE RecordOwner \/ FailWithoutRelease \/ Succeed \/ FailOperation \/ RequireOperationRecovery
  <2>1. UNCHANGED <<app, rels, nrels, active>> /\ pc' \notin Attempt
    BY <1>1 DEF RecordOwner, FailWithoutRelease, Succeed, FailOperation, RequireOperationRecovery, Goto
  <2>2. QED
    BY <2>1 DEF AppsOK, AttemptAppsOK
<1>2. CASE CreateRelease
  <2>a. /\ nrels + 1 \in Releases /\ nrels \in 0..MaxRel
        /\ pc \in Starting /\ me.stage = "created" /\ ~me.new
    <3>1. pc = "create_release" /\ nrels \in 0..MaxRel
      BY <1>0, <1>2 DEF CreateRelease, TypeOK
    <3>2. nrels < MaxRel /\ me.stage = "created"
      BY <1>0, <3>1 DEF ContextOK
    <3>3. me = [NoContext EXCEPT !.op = me.op]
      BY <3>1 DEF StartOK, Starting
    <3>4. ~me.new
      BY <3>3 DEF NoContext
    <3>5. QED
      BY <3>1, <3>2, <3>4 DEF Starting
  <2>b. /\ nrels' = nrels + 1 /\ UNCHANGED <<app, active>> /\ pc' = "candidate"
        /\ me'.stage = me.stage /\ me'.new = me.new
    BY <1>0, <1>2 DEF CreateRelease, Context
  <2>1. /\ nrels + 1 \in Releases /\ nrels' = nrels + 1 /\ UNCHANGED <<app, active>> /\ nrels \in 0..MaxRel
        /\ me.stage = "created" /\ ~me.new /\ me'.stage = me.stage /\ me'.new = me.new /\ pc' = "candidate"
    BY <2>a, <2>b
  <2>2. rels'[nrels + 1].status = "created"
    BY <1>0, <1>2, <2>1 DEF CreateRelease, TypeOK, NoManifest
  <2>3. Settled
    BY <1>0, <1>2 DEF CreateRelease, HistoryOK, RunOK, Starting
  <2>4. /\ nrels # active => app[nrels] # "running"
        /\ app[nrels + 1] = "absent"
    BY <2>1, <2>3, PastApps DEF AppsOK
  <2>5. AppsOK'
    BY <1>0, <2>1, <2>2, <2>4 DEF AppsOK
  <2>6. AttemptAppsOK'
    BY <2>1, <2>4 DEF AttemptAppsOK
  <2>7. QED
    BY <2>5, <2>6
<1>3. CASE PersistOperation \/ AnnounceMigration \/ AnnounceActivation
  <2>1. /\ UNCHANGED <<app, rels, nrels, active, me>> /\ pc \in Attempt \ (Removed \cup {"require_recovery", "failed"})
        /\ pc' \in Attempt \ (Removed \cup {"require_recovery", "failed"})
    BY <1>3 DEF PersistOperation, AnnounceMigration, AnnounceActivation, Goto
  <2>2. QED
    BY <2>1 DEF AppsOK, AttemptAppsOK
<1>4. CASE PersistRelease
  <2>1. /\ UNCHANGED <<app, nrels, active, me>>
        /\ pc = "persist_release" /\ pc' = After(me.stage)
    BY <1>4, <1>a DEF PersistRelease, Goto
  <2>2. /\ rels'[nrels].status = me.stage /\ me.stage \notin {"active", "rolled_back"}
    BY <1>0, <1>4, <1>a, <2>1, StagePersisted
       DEF AttemptOK, StageFits, CandidateStages, CutoverStages
  <2>3. AppsOK'
    BY <2>1, <2>2 DEF AppsOK
  <2>4. AttemptAppsOK'
    BY <2>1 DEF AttemptAppsOK, After
  <2>5. QED
    BY <2>3, <2>4
<1>5. CASE IntendMigration \/ IntendActivation
  <2>1. /\ pc \in {"intend_migration", "intend_activation"} /\ pc' \in {"announce_migration", "announce_activation"}
        /\ UNCHANGED <<app, nrels, active>> /\ me'.stage = me.stage /\ me'.new = me.new
    BY <1>0, <1>5 DEF IntendMigration, IntendActivation, Context
  <2>2. rels'[nrels].status = rels[nrels].status
    BY <1>0, <1>5, <1>a, <2>1, ManifestWritten
  <2>3. QED
    BY <2>1, <2>2 DEF AppsOK, AttemptAppsOK
<1>6. CASE RecordActivation
  <2> DEFINE h == HookMayHaveRun(me.hook)
  <2>a. /\ pc = "record_hook" /\ UNCHANGED <<app, rels, nrels, active>>
        /\ \/ pc' = "persist" /\ me' = [me EXCEPT !.activated = TRUE, !.stage = "traffic_activated"]
           \/ pc' = "failed" /\ me' = [me EXCEPT !.attempted = h, !.err = "safe"]
    BY <1>6 DEF RecordActivation
  <2> HIDE DEF h
  <2>1. me'.new = me.new /\ me'.stage \in {me.stage, "traffic_activated"} /\ me.stage = "new_app_healthy"
    <3>1. me.stage = "new_app_healthy"
      BY <2>a DEF AttemptOK, StageFits
    <3>2. me'.new = me.new /\ me'.stage \in {me.stage, "traffic_activated"}
      BY <1>0, <2>a DEF Context
    <3>3. QED
      BY <3>1, <3>2
  <2>2. QED
    BY <2>a, <2>1 DEF AppsOK, AttemptAppsOK
<1>7. CASE MarkActive \/ MarkRolledBack \/ FailRelease \/ RequireRecovery
  <2>1. pc \in Attempt /\ pc' \notin Attempt /\ UNCHANGED <<app, nrels, active>>
    BY <1>7 DEF MarkActive, MarkRolledBack, FailRelease, RequireRecovery, Goto
  <2>2. CASE MarkActive
    <3>1. rels'[nrels].status = "active" /\ app[active] # "running"
      BY <1>0, <1>a, <2>1, <2>2, ManifestWritten DEF MarkActive, AttemptOK, StageFits, AttemptAppsOK
    <3>2. QED
      BY <2>1, <3>1 DEF AppsOK, AttemptAppsOK
  <2>3. CASE MarkRolledBack
    <3>1. rels'[nrels].status = "rolled_back" /\ app[nrels] = "absent"
      BY <1>0, <1>a, <2>1, <2>3, ManifestWritten DEF MarkRolledBack, AttemptAppsOK
    <3>2. QED
      BY <2>1, <3>1 DEF AppsOK, AttemptAppsOK
  <2>4. CASE FailRelease
    <3>1. rels'[nrels].status = "failed_safe"
      BY <1>0, <1>a, <2>1, <2>4, ManifestWritten
    <3>2. QED
      BY <2>1, <3>1 DEF AppsOK, AttemptAppsOK
  <2>5. CASE RequireRecovery
    <3>1. rels'[nrels].status = "recovery_required" \/ UNCHANGED rels
      BY <1>0, <1>a, <2>1, <2>5, ManifestWritten
    <3>2. QED
      BY <2>1, <3>1 DEF AppsOK, AttemptAppsOK
  <2>6. QED
    BY <1>7, <2>2, <2>3, <2>4, <2>5
<1>8. CASE SelectActive
  <2>1. active' = nrels /\ UNCHANGED <<app, rels, nrels>> /\ rels[nrels].status = "active" /\ pc' \notin Attempt
    BY <1>0, <1>8 DEF SelectActive, ActivateRelease, HistoryOK, RunOK, Closing, Plain, Goto
  <2>2. QED
    BY <2>1 DEF AppsOK, AttemptAppsOK
<1> QED
  BY <1>1, <1>2, <1>3, <1>4, <1>5, <1>6, <1>7, <1>8 DEF DeployStep, QuietDeployStep

------------------------------------------------------------------------------
(* The plans of a recovery.                                                 *)


(* A plan keeps its order, its direction and what is left of it but the    *)
(* action performed.                                                        *)
LEMMA PlanGoesOn ==
    ASSUME NEW q \in Seq(RecoveryActions), Len(q) >= 1
    PROVE  /\ \A a : Left(q, a) => a = Head(q) \/ Left(Tail(q), a)
           /\ Ordered(q) => Ordered(Tail(q))
           /\ \A b \in BOOLEAN : Directed(q, b) => Directed(Tail(q), b)
           /\ \A b \in BOOLEAN : Directed(q, b) =>
                 Head(q) \in IF b THEN ForwardActions ELSE BackwardActions
           /\ Ordered(q) => \A a : Rank(a) < Rank(Head(q)) => ~Left(q, a)
<1>1. q # << >> /\ Len(q) \in Nat /\ Head(q) = q[1]
  OBVIOUS
<1>2. /\ Tail(q) \in Seq(RecoveryActions) /\ Len(Tail(q)) = Len(q) - 1
      /\ \A i \in 1..Len(Tail(q)) : Tail(q)[i] = q[i + 1]
  BY <1>1, HeadTailProperties
<1> DEFINE t == Tail(q)
<1>3. /\ t \in Seq(RecoveryActions) /\ Len(t) = Len(q) - 1
      /\ \A i \in 1..Len(t) : i + 1 \in 1..Len(q) /\ t[i] = q[i + 1]
      /\ \A i \in 1..Len(q) : i = 1 \/ (i - 1 \in 1..Len(t) /\ q[i] = t[i - 1])
  BY <1>1, <1>2
<1> HIDE DEF t
<1>4. \A a : Left(q, a) => a = Head(q) \/ Left(t, a)
  BY <1>1, <1>3 DEF Left
<1>5. Ordered(q) => Ordered(t)
  <2> SUFFICES ASSUME Ordered(q), NEW i \in 1..Len(t), NEW j \in 1..Len(t), i < j
               PROVE  Rank(t[i]) < Rank(t[j])
    BY DEF Ordered
  <2>1. i + 1 \in 1..Len(q) /\ j + 1 \in 1..Len(q) /\ i + 1 < j + 1
    BY <1>1, <1>3
  <2>2. Rank(q[i + 1]) < Rank(q[j + 1])
    BY <2>1 DEF Ordered
  <2>3. QED
    BY <1>3, <2>2
<1>6. \A b \in BOOLEAN : Directed(q, b) => Directed(t, b)
  BY <1>3 DEF Directed
<1>7. \A b \in BOOLEAN : Directed(q, b) =>
          Head(q) \in IF b THEN ForwardActions ELSE BackwardActions
  BY <1>1 DEF Directed
<1>8. Ordered(q) => \A a : Rank(a) < Rank(Head(q)) => ~Left(q, a)
  <2> SUFFICES ASSUME Ordered(q), NEW a, Rank(a) < Rank(Head(q)), NEW i \in 1..Len(q), q[i] = a
               PROVE  FALSE
    BY DEF Left
  <2>1. CASE i = 1
    BY <1>1, <2>1 DEF Rank
  <2>2. CASE i # 1
    <3>1. 1 \in 1..Len(q) /\ 1 < i
      BY <1>1, <2>2
    <3>2. Rank(q[1]) < Rank(q[i])
      BY <3>1 DEF Ordered
    <3>3. QED
      BY <1>1, <3>2 DEF Rank
  <2>3. QED
    BY <2>1, <2>2
<1> QED
  BY <1>4, <1>5, <1>6, <1>7, <1>8 DEF t

(* Two parts of a plan that are joined. *)
Upto(q, k) == \A i \in 1..Len(q) : Rank(q[i]) <= k
Beyond(q, k) == \A i \in 1..Len(q) : k < Rank(q[i])

LEMMA PlansJoined ==
    ASSUME NEW p \in Seq(RecoveryActions), NEW q \in Seq(RecoveryActions), NEW k \in Nat,
           NEW h \in Nat, k < h, Ordered(p), Ordered(q), Upto(p, k), Beyond(q, k), Upto(q, h),
           Directed(p, FALSE), Directed(q, FALSE)
    PROVE  /\ p \o q \in Seq(RecoveryActions) /\ Ordered(p \o q) /\ Upto(p \o q, h)
           /\ Directed(p \o q, FALSE)
           /\ \A a : Left(p, a) \/ Left(q, a) => Left(p \o q, a)
<1> DEFINE s == p \o q
           n == Len(p)
           l == Len(q)
<1>0. n \in Nat /\ l \in Nat
  OBVIOUS
<1>1. /\ s \in Seq(RecoveryActions) /\ Len(s) = n + l
      /\ \A i \in 1..(n + l) : s[i] = IF i <= n THEN p[i] ELSE q[i - n]
  BY ConcatProperties
<1>2. \A a : Rank(a) \in 1..7
  BY DEF Rank
<1>o. /\ \A i \in 1..n, j \in 1..n : i < j => Rank(p[i]) < Rank(p[j])
      /\ \A i \in 1..l, j \in 1..l : i < j => Rank(q[i]) < Rank(q[j])
      /\ \A i \in 1..n : Rank(p[i]) <= k
      /\ \A i \in 1..l : k < Rank(q[i]) /\ Rank(q[i]) <= h
  BY DEF Ordered, Upto, Beyond
<1>d. /\ \A i \in 1..n : p[i] \in BackwardActions
      /\ \A i \in 1..l : q[i] \in BackwardActions
  BY DEF Directed
<1>l. \A a : /\ Left(p, a) <=> \E i \in 1..n : p[i] = a
             /\ Left(q, a) <=> \E i \in 1..l : q[i] = a
  BY DEF Left
<1> HIDE DEF s, n, l
<1>5. \A i \in 1..(n + l) : \/ i \in 1..n /\ s[i] = p[i]
                            \/ /\ i > n /\ i - n \in 1..l /\ s[i] = q[i - n]
  <2> SUFFICES ASSUME NEW i \in 1..(n + l)
               PROVE  \/ i \in 1..n /\ s[i] = p[i]
                      \/ /\ i > n /\ i - n \in 1..l /\ s[i] = q[i - n]
    OBVIOUS
  <2>1. CASE i <= n
    BY <1>0, <1>1, <2>1
  <2>2. CASE ~(i <= n)
    BY <1>0, <1>1, <2>2
  <2>3. QED
    BY <2>1, <2>2
<1>3. Ordered(s)
  <2> SUFFICES ASSUME NEW i \in 1..(n + l), NEW j \in 1..(n + l), i < j
               PROVE  Rank(s[i]) < Rank(s[j])
    BY <1>1 DEF Ordered
  <2>1. CASE j \in 1..n /\ s[j] = p[j]
    <3>1. i \in 1..n /\ s[i] = p[i]
      BY <1>0, <1>5, <2>1
    <3>2. QED
      BY <1>o, <2>1, <3>1
  <2>2. CASE j > n /\ j - n \in 1..l /\ s[j] = q[j - n]
    <3>1. CASE i \in 1..n /\ s[i] = p[i]
      <4>1. Rank(p[i]) <= k /\ k < Rank(q[j - n])
        BY <1>o, <2>2, <3>1
      <4>2. Rank(p[i]) \in Int /\ Rank(q[j - n]) \in Int
        BY <1>2
      <4>3. QED
        BY <2>2, <3>1, <4>1, <4>2
    <3>2. CASE i > n /\ i - n \in 1..l /\ s[i] = q[i - n]
      <4>1. i - n < j - n
        BY <1>0
      <4>2. Rank(q[i - n]) < Rank(q[j - n])
        BY <1>o, <2>2, <3>2, <4>1
      <4>3. QED
        BY <2>2, <3>2, <4>2
    <3>3. QED
      BY <1>5, <3>1, <3>2
  <2>3. QED
    BY <1>5, <2>1, <2>2
<1>4. Upto(s, h)
  <2> SUFFICES ASSUME NEW i \in 1..(n + l) PROVE Rank(s[i]) <= h
    BY <1>1 DEF Upto
  <2>1. CASE i \in 1..n /\ s[i] = p[i]
    <3>1. Rank(p[i]) <= k /\ Rank(p[i]) \in Int
      BY <1>o, <1>2, <2>1
    <3>2. QED
      BY <2>1, <3>1
  <2>2. CASE i > n /\ i - n \in 1..l /\ s[i] = q[i - n]
    BY <1>o, <2>2
  <2>3. QED
    BY <1>5, <2>1, <2>2
<1>6. Directed(s, FALSE)
  <2> SUFFICES ASSUME NEW i \in 1..(n + l) PROVE s[i] \in BackwardActions
    BY <1>1 DEF Directed
  <2>1. QED
    BY <1>5, <1>d
<1>7. ASSUME NEW a, Left(p, a) \/ Left(q, a) PROVE Left(s, a)
  <2>1. CASE Left(p, a)
    <3>1. PICK i \in 1..n : p[i] = a
      BY <1>l, <2>1
    <3>2. i \in 1..(n + l) /\ s[i] = a
      BY <1>0, <1>1, <3>1
    <3>3. QED
      BY <1>1, <3>2 DEF Left
  <2>2. CASE Left(q, a)
    <3>1. PICK i \in 1..l : q[i] = a
      BY <1>l, <2>2
    <3> DEFINE j == i + n
    <3>2. j \in 1..(n + l) /\ ~(j <= n) /\ j - n = i
      BY <1>0, <3>1
    <3> HIDE DEF j
    <3>3. s[j] = a
      BY <1>1, <3>1, <3>2
    <3>4. QED
      BY <1>1, <3>2, <3>3 DEF Left
  <2>3. QED
    BY <1>7, <2>1, <2>2
<1> QED
  BY <1>1, <1>3, <1>4, <1>6, <1>7 DEF s

(* The plan that completes a release is ordered and goes forward, those    *)
(* that recover the previous one go back.                                   *)
LEMMA PlansOrdered ==
    /\ Ordered(NewActions) /\ Directed(NewActions, TRUE)
    /\ Left(NewActions, "disable_maintenance")
    /\ \A r, matches :
          /\ Ordered(PreviousActions(r, matches)) /\ Directed(PreviousActions(r, matches), FALSE)
          /\ Left(PreviousActions(r, matches), "disable_maintenance")
          /\ Left(PreviousActions(r, matches), "activate_previous")
          /\ LiveNew(r) # "absent" => Left(PreviousActions(r, matches), "remove_new")
          /\ MayHaveChanged(r) /\ ~matches =>
                Left(PreviousActions(r, matches), "restore_final")
          /\ LivePrevious(r) = "stopped" =>
                Left(PreviousActions(r, matches), "restart_previous")
<1>1. Ordered(NewActions) /\ Directed(NewActions, TRUE) /\ Left(NewActions, "disable_maintenance")
  BY DEF NewActions, ForwardActions, Ordered, Directed, Left, Rank
<1>2. ASSUME NEW r, NEW matches
      PROVE  /\ Ordered(PreviousActions(r, matches)) /\ Directed(PreviousActions(r, matches), FALSE)
             /\ Left(PreviousActions(r, matches), "disable_maintenance")
             /\ Left(PreviousActions(r, matches), "activate_previous")
             /\ LiveNew(r) # "absent" => Left(PreviousActions(r, matches), "remove_new")
             /\ MayHaveChanged(r) /\ ~matches =>
                   Left(PreviousActions(r, matches), "restore_final")
             /\ LivePrevious(r) = "stopped" =>
                   Left(PreviousActions(r, matches), "restart_previous")
  <2> DEFINE a == IF LiveNew(r) # "absent" THEN <<"remove_new">> ELSE <<>>
             b == IF MayHaveChanged(r) /\ ~matches THEN <<"restore_final">> ELSE <<>>
             c == IF LivePrevious(r) = "stopped" THEN <<"restart_previous">> ELSE <<>>
             d == <<"activate_previous", "disable_maintenance", "verify_previous",
                    "mark_rolled_back">>
  <2>0. \A k, h \in Nat :
          /\ <<>> \in Seq(RecoveryActions) /\ Ordered(<<>>) /\ Directed(<<>>, FALSE)
          /\ Beyond(<<>>, k) /\ Upto(<<>>, h)
    BY DEF Ordered, Directed, Upto, Beyond
  <2>s. \A x \in BackwardActions :
          /\ <<x>> \in Seq(RecoveryActions) /\ Ordered(<<x>>) /\ Directed(<<x>>, FALSE)
          /\ Left(<<x>>, x)
          /\ Upto(<<x>>, Rank(x))
          /\ \A k \in Nat : k < Rank(x) => Beyond(<<x>>, k)
    <3> SUFFICES ASSUME NEW x \in BackwardActions
                 PROVE  /\ <<x>> \in Seq(RecoveryActions) /\ Ordered(<<x>>)
                        /\ Directed(<<x>>, FALSE) /\ Left(<<x>>, x) /\ Upto(<<x>>, Rank(x))
                        /\ \A k \in Nat : k < Rank(x) => Beyond(<<x>>, k)
      OBVIOUS
    <3>1. /\ <<x>> \in Seq(RecoveryActions) /\ Len(<<x>>) = 1 /\ <<x>>[1] = x
          /\ 1..Len(<<x>>) = {1} /\ Rank(x) \in Int
      BY DEF BackwardActions, Rank
    <3> DEFINE y == <<x>>
    <3> HIDE DEF y
    <3>2. /\ Ordered(y) /\ Directed(y, FALSE) /\ Left(y, x) /\ Upto(y, Rank(x))
          /\ \A k \in Nat : k < Rank(x) => Beyond(y, k)
      BY <3>1 DEF y, Ordered, Directed, Left, Upto, Beyond
    <3>3. QED
      BY <3>1, <3>2 DEF y
  <2>r. /\ Rank("remove_new") = 1 /\ Rank("restore_final") = 2 /\ Rank("restart_previous") = 3
        /\ {"remove_new", "restore_final", "restart_previous"} \subseteq BackwardActions
    BY DEF Rank, BackwardActions, RecoveryActions
  <2>1. /\ a \in Seq(RecoveryActions) /\ Ordered(a) /\ Directed(a, FALSE) /\ Upto(a, 1)
        /\ LiveNew(r) # "absent" => Left(a, "remove_new")
    <3>1. CASE LiveNew(r) # "absent"
      <4>1. a = <<"remove_new">>
        BY <3>1
      <4> HIDE DEF a
      <4>2. QED
        BY <2>s, <2>r, <4>1
    <3>2. CASE ~(LiveNew(r) # "absent")
      <4>1. a = <<>>
        BY <3>2
      <4> HIDE DEF a
      <4>2. QED
        BY <2>0, <3>2, <4>1
    <3>3. QED
      BY <3>1, <3>2
  <2>2. /\ b \in Seq(RecoveryActions) /\ Ordered(b) /\ Directed(b, FALSE)
        /\ Beyond(b, 1) /\ Upto(b, 2)
        /\ MayHaveChanged(r) /\ ~matches => Left(b, "restore_final")
    <3>1. CASE MayHaveChanged(r) /\ ~matches
      <4>1. b = <<"restore_final">> /\ 1 \in Nat /\ 1 < Rank("restore_final")
        BY <2>r, <3>1
      <4> HIDE DEF b
      <4>2. QED
        BY <2>s, <2>r, <4>1
    <3>2. CASE ~(MayHaveChanged(r) /\ ~matches)
      <4>1. b = <<>>
        BY <3>2
      <4> HIDE DEF b
      <4>2. QED
        BY <2>0, <3>2, <4>1
    <3>3. QED
      BY <3>1, <3>2
  <2>3. /\ c \in Seq(RecoveryActions) /\ Ordered(c) /\ Directed(c, FALSE)
        /\ Beyond(c, 2) /\ Upto(c, 3)
        /\ LivePrevious(r) = "stopped" => Left(c, "restart_previous")
    <3>1. CASE LivePrevious(r) = "stopped"
      <4>1. c = <<"restart_previous">> /\ 2 \in Nat /\ 2 < Rank("restart_previous")
        BY <2>r, <3>1
      <4> HIDE DEF c
      <4>2. QED
        BY <2>s, <2>r, <4>1
    <3>2. CASE LivePrevious(r) # "stopped"
      <4>1. c = <<>>
        BY <3>2
      <4> HIDE DEF c
      <4>2. QED
        BY <2>0, <3>2, <4>1
    <3>3. QED
      BY <3>1, <3>2
  <2>4. /\ d \in Seq(RecoveryActions) /\ Ordered(d) /\ Directed(d, FALSE)
        /\ Beyond(d, 3) /\ Upto(d, 7)
        /\ Left(d, "disable_maintenance") /\ Left(d, "activate_previous")
    BY DEF Ordered, Directed, Upto, Beyond, Left, Rank, BackwardActions, RecoveryActions
  <2>5. PreviousActions(r, matches) = ((a \o b) \o c) \o d
    BY DEF PreviousActions
  <2> HIDE DEF a, b, c, d
  <2> DEFINE ab == a \o b
  <2>6. /\ ab \in Seq(RecoveryActions) /\ Ordered(ab) /\ Upto(ab, 2) /\ Directed(ab, FALSE)
        /\ \A x : Left(a, x) \/ Left(b, x) => Left(ab, x)
    <3>1. 1 \in Nat /\ 2 \in Nat /\ 1 < 2
      OBVIOUS
    <3>2. QED
      BY <2>1, <2>2, <3>1, PlansJoined
  <2> HIDE DEF ab
  <2> DEFINE abc == ab \o c
  <2>7. /\ abc \in Seq(RecoveryActions) /\ Ordered(abc) /\ Upto(abc, 3) /\ Directed(abc, FALSE)
        /\ \A x : Left(ab, x) \/ Left(c, x) => Left(abc, x)
    <3>1. 3 \in Nat /\ 2 \in Nat /\ 2 < 3
      OBVIOUS
    <3>2. QED
      BY <2>3, <2>6, <3>1, PlansJoined
  <2> HIDE DEF abc
  <2> DEFINE abcd == abc \o d
  <2>8. /\ Ordered(abcd) /\ Directed(abcd, FALSE)
        /\ \A x : Left(abc, x) \/ Left(d, x) => Left(abcd, x)
    <3>1. 3 \in Nat /\ 7 \in Nat /\ 3 < 7
      OBVIOUS
    <3>2. QED
      BY <2>4, <2>7, <3>1, PlansJoined
  <2>9. PreviousActions(r, matches) = abcd
    BY <2>5 DEF ab, abc
  <2> HIDE DEF abcd
  <2>10. \A x : Left(a, x) \/ Left(b, x) \/ Left(c, x) \/ Left(d, x) => Left(abcd, x)
    BY <2>6, <2>7, <2>8
  <2>11. QED
    BY <2>1, <2>2, <2>3, <2>4, <2>8, <2>9, <2>10
<1> QED
  BY <1>1, <1>2

------------------------------------------------------------------------------
(* The intents.                                                             *)


(* The selected release has the evidence of its migration and activation. *)
LEMMA ActiveEvidence ==
    ASSUME Historic, ManifestsOK, active \in Releases
    PROVE  rels[active].migration_started /\ rels[active].attempted
<1>1. rels[active].status = "active" /\ ValidManifest(rels[active])
  BY DEF Historic, HistoryOK, PointersOK, ManifestsOK
<1> QED
  BY <1>1 DEF ValidManifest

(* What a step touches that an intent covers already. *)
Covered ==
    /\ \A r \in Releases : app'[r] # "absent" => app[r] # "absent" \/ rels[r].migration_started
    /\ target' \in Releases => target' = target \/ rels[target'].attempted
    /\ db'.schema \in Releases =>
          db'.schema = db.schema \/ rels[db'.schema].migration_started
    /\ orphan' \in Releases => orphan' = orphan \/ rels[orphan'].migration_started
    /\ \A c \in me'.final : c \in me.final \/ Sound(c)

(* Intents cover the world as long as each step touches what they cover. *)
LEMMA IntentKept ==
    ASSUME Historic, ManifestsOK, IntentOK, Next, Covered
    PROVE  IntentOK'
<1>1. \A r \in Releases :
          /\ rels[r].migration_started => rels'[r].migration_started
          /\ rels[r].attempted => rels'[r].attempted
          /\ rels'[r].final \subseteq rels[r].final \cup me.final
  BY EvidenceGrows
<1>2. \A c : Sound(c) => Sound(c)'
  BY <1>1 DEF Sound
<1>3. \A r \in Releases : app'[r] # "absent" => rels'[r].migration_started
  BY <1>1 DEF Covered, IntentOK
<1>4. target' \in Releases => rels'[target'].attempted
  BY <1>1 DEF Covered, IntentOK
<1>5. db'.schema \in Releases => rels'[db'.schema].migration_started
  BY <1>1 DEF Covered, IntentOK
<1>6. orphan' \in Releases => rels'[orphan'].migration_started
  BY <1>1 DEF Covered, IntentOK
<1>7. \A r \in Releases : \A c \in rels'[r].final : Sound(c)'
  BY <1>1, <1>2 DEF IntentOK
<1>8. \A c \in me'.final : Sound(c)'
  BY <1>2 DEF Covered, IntentOK
<1> QED
  BY <1>3, <1>4, <1>5, <1>6, <1>7, <1>8 DEF IntentOK

(* The external commands of a deployment act on what an intent covers. *)
LEMMA QuietIntent ==
    ASSUME Historic, ManifestsOK, AttemptOK, IntentOK, PartialOK, QuietDeployStep
    PROVE  Covered
<1> USE DEF world
<1>0. TypeOK /\ ContextOK
  BY DEF Historic, Typed
<1>a. /\ pc \in Attempt /\ me \in Context /\ nrels \in Releases /\ me.rel = nrels
      /\ pc \notin Persisting
  BY DuringAttempt, QuietAttempts
<1>b. /\ active \in 0..MaxRel /\ active < nrels /\ (pc \in PreviousSteps => me.prev = active)
      /\ active \in Releases => rels[active].migration_started /\ rels[active].attempted
  BY <1>a, NotSelected, ActiveEvidence
<1>m. (me.stage \in Migrated \/ pc = "migrating") => rels[nrels].migration_started
  BY <1>a DEF AttemptOK
<1>1. CASE CandidateStage \/ CandidateFails \/ ResolvePrevious \/ ResolveFails
           \/ EnableMaintenance \/ EnableFails \/ UndoMaintenance \/ UndoFails \/ VerifyUndo
           \/ ReplicateFinal \/ BackupFails \/ MigrationNotStarted \/ CheckNew
           \/ DisableMaintenance \/ DisableFails \/ DispatchFailure \/ Reopen
           \/ VerifyPrevious \/ RollbackFails
  <2>1. UNCHANGED <<app, target, db, orphan>> /\ me'.final = me.final
    BY <1>a, <1>1 DEF CandidateStage, CandidateFails, ResolvePrevious, ResolveFails,
          EnableMaintenance, EnableFails, UndoMaintenance, UndoFails, VerifyUndo,
          ReplicateFinal, BackupFails, MigrationNotStarted, CheckNew, DisableMaintenance,
          DisableFails, DispatchFailure, Reopen, VerifyPrevious, RollbackFails, Goto, Fail,
          Persist, RollbackOn, Context
  <2>2. QED
    BY <2>1 DEF Covered
<1>2. CASE StopCurrent \/ StopFails \/ RestartPrevious
  <2>1. /\ UNCHANGED <<target, db, orphan>> /\ me'.final = me.final
        /\ \/ UNCHANGED app
           \/ \E t : app' = [app EXCEPT ![me.prev] = t]
    BY <1>a, <1>2 DEF StopCurrent, StopFails, RestartPrevious, StopApplication,
          RestartApplication, Fail, RollbackOn, Goto, Context
  <2>2. me.prev = active
    BY <1>b, <1>2 DEF StopCurrent, StopFails, RestartPrevious, PreviousSteps
  <2>3. \A r \in Releases : r # active => app'[r] = app[r]
    BY <1>0, <2>1, <2>2 DEF TypeOK
  <2>4. QED
    BY <1>b, <2>1, <2>3 DEF Covered
<1>3. CASE StartNew \/ StartNewFails \/ RemoveNew
  <2>1. /\ UNCHANGED <<target, db, orphan>> /\ me'.final = me.final
        /\ \A r \in Releases : r # nrels => app'[r] = app[r]
    BY <1>0, <1>a, <1>3 DEF StartNew, StartNewFails, RemoveNew, RemoveApplication, Fail,
          RollbackOn, Goto, Context, TypeOK
  <2>2. app'[nrels] # "absent" => app'[nrels] = app[nrels] \/ rels[nrels].migration_started
    <3>1. CASE StartNew \/ StartNewFails
      BY <1>a, <1>m, <3>1 DEF StartNew, StartNewFails, AttemptOK, StageFits, Migrated
    <3>2. CASE RemoveNew
      BY <1>0, <1>a, <3>2 DEF RemoveNew, RemoveApplication, TypeOK
    <3>3. QED
      BY <1>3, <3>1, <3>2
  <2>3. QED
    BY <2>1, <2>2 DEF Covered
<1>4. CASE CreateFinal
  <2>1. UNCHANGED <<app, target, orphan, db>> /\ me'.final = {db}
    BY <1>a, <1>4 DEF CreateFinal, Context
  <2>2. ~rels[nrels].migration_started
    BY <1>a, <1>4 DEF CreateFinal, AttemptOK
  <2>3. Sound(db)
    BY <2>2 DEF Sound, IntentOK, PartialOK
  <2>4. QED
    BY <2>1, <2>3 DEF Covered
<1>5. CASE ActivateNew
  <2>1. /\ UNCHANGED <<app, db, orphan>> /\ me'.final = me.final
        /\ target' \in {target, nrels}
    BY <1>a, <1>5 DEF ActivateNew, RouteTo, Context
  <2>2. rels[nrels].attempted
    BY <1>a, <1>5 DEF ActivateNew, AttemptOK
  <2>3. QED
    BY <2>1, <2>2 DEF Covered
<1>6. CASE RouteOld
  <2>1. /\ UNCHANGED <<app, db, orphan>> /\ me'.final = me.final /\ target' = active
    BY <1>a, <1>b, <1>6 DEF RouteOld, RouteTo, RollbackOn, Goto, PreviousSteps
  <2>2. QED
    BY <1>b, <2>1 DEF Covered
<1>7. CASE StartMigration \/ FinishMigration \/ MigrationFails \/ RestoreDatabase
  <2>1. UNCHANGED <<app, target>> /\ me'.final = me.final
    BY <1>a, <1>7 DEF StartMigration, FinishMigration, MigrationFails, RestoreDatabase,
          Goto, Persist, Fail, RollbackOn, Context
  <2>2. \A f \in me.final : f.schema \in Releases => rels[f.schema].migration_started
    BY DEF IntentOK, Sound
  <2>3. db \in Content
    BY <1>0 DEF TypeOK
  <2>4. /\ db'.schema \in Releases =>
              db'.schema = db.schema \/ rels[db'.schema].migration_started
        /\ orphan' \in Releases => orphan' = orphan \/ rels[orphan'].migration_started
    <3>1. CASE StartMigration
      BY <2>3, <3>1 DEF StartMigration, Content, Partial
    <3>2. CASE FinishMigration
      BY <1>a, <1>m, <2>3, <3>2 DEF FinishMigration, Content
    <3>3. CASE MigrationFails
      <4>1. /\ db' \in me.final \/ db' = db \/ db' = [db EXCEPT !.schema = me.rel]
            /\ orphan' \in {0, me.rel} /\ pc = "migrating"
        BY <3>3 DEF MigrationFails
      <4>2. rels[nrels].migration_started
        BY <1>m, <4>1
      <4>3. db'.schema \in {db.schema, nrels} \/ db' \in me.final
        BY <1>a, <2>3, <4>1 DEF Content
      <4>4. QED
        BY <1>a, <2>2, <4>1, <4>2, <4>3
    <3>4. CASE RestoreDatabase
      BY <2>2, <3>4 DEF RestoreDatabase
    <3>5. QED
      BY <1>7, <3>1, <3>2, <3>3, <3>4
  <2>5. QED
    BY <2>1, <2>4 DEF Covered
<1> QED
  BY <1>1, <1>2, <1>3, <1>4, <1>5, <1>6, <1>7 DEF QuietDeployStep


(* The head of a plan tells its direction. *)
LEMMA HeadDirected ==
    ASSUME Historic, PlanRunOK, pc \in Planned
    PROVE  /\ me.plan \in Seq(RecoveryActions) /\ Len(me.plan) >= 1
           /\ Head(me.plan) \in IF me.activated THEN ForwardActions ELSE BackwardActions
           /\ \A a : Rank(a) < Rank(Head(me.plan)) => ~Left(me.plan, a)
           /\ \A a : Left(me.plan, a) => a = Head(me.plan) \/ Left(Tail(me.plan), a)
           /\ Ordered(Tail(me.plan)) /\ Directed(Tail(me.plan), me.activated)
<1>1. me \in Context /\ PlanOK(me)
  BY DuringPlan
<1>2. me.plan \in Seq(RecoveryActions) /\ Len(me.plan) >= 1 /\ me.activated \in BOOLEAN
  BY <1>1, ContextFields DEF PlanOK
<1>3. Ordered(me.plan) /\ Directed(me.plan, me.activated)
  BY DEF PlanRunOK
<1> QED
  BY <1>2, <1>3, PlanGoesOn

(* The writes of a deployment touch nothing else. *)
LEMMA StoringIntent ==
    ASSUME Historic, DeployStep, ~QuietDeployStep
    PROVE  Covered
<1>0. me \in Context
  BY DEF Historic, Typed, TypeOK
<1>1. UNCHANGED world /\ me'.final = me.final
  BY <1>0 DEF DeployStep, QuietDeployStep, RecordOwner, CreateRelease, FailWithoutRelease,
        PersistOperation, PersistRelease, IntendMigration, AnnounceMigration,
        IntendActivation, AnnounceActivation, RecordActivation, MarkActive, SelectActive,
        Succeed, MarkRolledBack, FailRelease, FailOperation, RequireRecovery,
        RequireOperationRecovery, Goto, Context
<1> QED
  BY <1>1 DEF Covered, world

(* A recovery brings back what has run, or what is in a final backup. *)
LEMMA RecoverIntent ==
    ASSUME Historic, ManifestsOK, IntentOK, PlanRunOK, RecoverStep
    PROVE  Covered
<1> USE DEF world
<1>0. TypeOK /\ me \in Context
  BY DEF Historic, Typed, TypeOK
<1>a. pc \in Planned =>
        /\ nrels \in Releases /\ me.rel = nrels
        /\ Head(me.plan) \in IF me.activated THEN ForwardActions ELSE BackwardActions
  BY DuringPlan, HeadDirected
<1>b. me'.final = me.final \/ me'.final = {}
  <2>1. /\ Done => me'.final = me.final
        /\ RecoveryFails => me'.final = me.final
        /\ \A p : Goto(p) => me'.final = me.final
        /\ ReleaseLock => me'.final = {}
        /\ CreateRecovery => me'.final = me.final
    BY <1>0 DEF Done, RecoveryFails, Goto, ReleaseLock, CreateRecovery, Context, NoContext
  <2>2. CASE Supersede \/ TakeRelease \/ OwnRecovery \/ AnnounceAction \/ CreateRecovery
    BY <2>1, <2>2 DEF Supersede, TakeRelease, OwnRecovery, AnnounceAction
  <2>3. CASE \/ RecoverRemoveNew \/ RecoverRestore \/ RecoverRestart \/ RecoverRoute
             \/ RecoverReopen \/ RecoverVerify \/ RecoverActionFails
    BY <2>1, <2>3 DEF RecoverRemoveNew, RecoverRestore, RecoverRestart, RecoverRoute,
          RecoverReopen, RecoverVerify, RecoverActionFails
  <2>4. CASE Resolve \/ SelectRecovered \/ Recovered \/ RecoveryFailed
    BY <2>1, <2>4 DEF Resolve, SelectRecovered, Recovered, RecoveryFailed
  <2>5. QED
    BY <2>2, <2>3, <2>4 DEF RecoverStep
<1>1. CASE \/ Supersede \/ TakeRelease \/ CreateRecovery \/ OwnRecovery \/ AnnounceAction
           \/ RecoverReopen \/ RecoverVerify \/ RecoverActionFails \/ Resolve
           \/ SelectRecovered \/ Recovered \/ RecoveryFailed
  <2>1. UNCHANGED <<app, target, db, orphan>>
    BY <1>1 DEF Supersede, TakeRelease, CreateRecovery, OwnRecovery, AnnounceAction,
          RecoverReopen, RecoverVerify, RecoverActionFails, Resolve, SelectRecovered,
          Recovered, RecoveryFailed
  <2>2. QED
    BY <1>b, <2>1 DEF Covered
<1>2. CASE RecoverRemoveNew
  <2>1. UNCHANGED <<target, db, orphan>> /\ app' = [app EXCEPT ![me.rel] = "absent"]
    BY <1>2 DEF RecoverRemoveNew, RemoveApplication
  <2>2. \A r \in Releases : app'[r] # "absent" => app[r] # "absent"
    BY <1>0, <2>1 DEF TypeOK
  <2>3. QED
    BY <1>b, <2>1, <2>2 DEF Covered
<1>3. CASE RecoverRestore
  <2>1. /\ UNCHANGED <<app, target, orphan>> /\ db' \in rels[nrels].final /\ nrels \in Releases
    BY <1>a, <1>3 DEF RecoverRestore, Planned
  <2>2. Sound(db')
    BY <2>1 DEF IntentOK
  <2>3. QED
    BY <1>b, <2>1, <2>2 DEF Covered, Sound
<1>4. CASE RecoverRestart
  <2>1. /\ UNCHANGED <<target, db, orphan>> /\ app' = [app EXCEPT ![me.prev] = "running"]
        /\ me.prev # 0 => app[me.prev] = "stopped"
    BY <1>4 DEF RecoverRestart, RestartApplication
  <2>2. \A r \in Releases : app'[r] # "absent" => app[r] # "absent"
    BY <1>0, <2>1 DEF TypeOK
  <2>3. QED
    BY <1>b, <2>1, <2>2 DEF Covered
<1>5. CASE RecoverRoute
  <2>1. /\ UNCHANGED <<app, db, orphan>> /\ target' = me.prev
        /\ pc \in Planned /\ Head(me.plan) = "activate_previous"
    BY <1>5 DEF RecoverRoute, RouteTo, Planned
  <2>2. ~me.activated
    BY <1>a, <2>1 DEF ForwardActions
  <2>3. me.prev = active
    BY <2>1, <2>2 DEF PlanRunOK
  <2>4. QED
    BY <1>b, <2>1, <2>3, ActiveEvidence DEF Covered
<1> QED
  BY <1>1, <1>2, <1>3, <1>4, <1>5 DEF RecoverStep

(* So do users, faults and the commands that start or end. *)
LEMMA OtherIntent ==
    ASSUME Historic, AttemptOK, IntentOK,
           StartDeploy \/ StartRecover \/ Unlock \/ Environment
    PROVE  Covered
<1> USE DEF world
<1>0. TypeOK
  BY DEF Historic, Typed
<1>1. CASE StartDeploy \/ Unlock \/ Interrupt
  BY <1>1 DEF StartDeploy, Unlock, Interrupt, ReleaseLock, NoContext, Covered
<1>2. CASE StartRecover
  <2>1. UNCHANGED world /\ me'.final = {}
    BY <1>2 DEF StartRecover, NoContext
  <2>2. QED
    BY <2>1 DEF Covered
<1>3. CASE \E w \in Writes : UserWrite(w)
  BY <1>0, <1>3 DEF UserWrite, Covered, TypeOK, Content
<1>4. CASE Crash
  <2>1. /\ UNCHANGED <<app, target, db>> /\ me'.final = {}
        /\ orphan' = orphan \/ (pc = "migrating" /\ orphan' = me.rel)
    BY <1>4 DEF Crash, NoContext
  <2>2. pc = "migrating" => rels[me.rel].migration_started
    BY DuringAttempt DEF AttemptOK, Attempt
  <2>3. QED
    BY <2>1, <2>2 DEF Covered
<1>5. CASE Reboot
  BY <1>0, <1>5 DEF Reboot, NoContext, Covered, TypeOK
<1>6. CASE OrphanMigrates
  BY <1>0, <1>6 DEF OrphanMigrates, Covered, IntentOK, TypeOK, Content
<1> QED
  BY <1>1, <1>2, <1>3, <1>4, <1>5, <1>6 DEF Environment

------------------------------------------------------------------------------
(* A partial migration.                                                     *)


(* A deployment leaves a part of a migration only while its release is     *)
(* unresolved and not activated.                                            *)
LEMMA QuietPartial ==
    ASSUME Historic, AttemptOK, IntentOK, PartialOK, QuietDeployStep
    PROVE  PartialOK'
<1> USE DEF world
<1>0. TypeOK /\ UNCHANGED <<ops, nops, rels, nrels, active, previous>> /\ db \in Content
  BY QuietDeploy DEF Historic, Typed, TypeOK
<1>a. /\ pc \in Attempt \ Persisting /\ me \in Context /\ nrels \in Releases /\ me.rel = nrels
      /\ me.stage = rels[nrels].status /\ StageFits
      /\ rels[nrels].status \notin ResolvedStates
  BY DuringAttempt, QuietAttempts, NotSelected DEF AttemptOK
<1>b. db'.schema # Partial \/ db'.schema = db.schema =>
         (db'.schema = Partial => /\ nrels' # 0 /\ rels'[nrels'].migration_started
                                  /\ ~rels'[nrels'].attempted
                                  /\ rels'[nrels'].status \notin ResolvedStates)
  BY <1>0 DEF PartialOK
<1>1. CASE CandidateStage \/ CandidateFails \/ ResolvePrevious \/ ResolveFails
           \/ EnableMaintenance \/ EnableFails \/ UndoMaintenance \/ UndoFails \/ VerifyUndo
           \/ StopCurrent \/ StopFails \/ CreateFinal \/ ReplicateFinal \/ BackupFails
           \/ MigrationNotStarted \/ StartNew \/ StartNewFails \/ ActivateNew
           \/ DisableMaintenance \/ DisableFails \/ DispatchFailure \/ RemoveNew
  <2>a. ASSUME \/ CandidateStage \/ CandidateFails \/ ResolvePrevious \/ ResolveFails
               \/ EnableMaintenance \/ EnableFails \/ UndoMaintenance \/ UndoFails \/ VerifyUndo
               \/ StopCurrent \/ StopFails
        PROVE  UNCHANGED db /\ (me'.stage = me.stage \/ me'.stage \notin Migrated) /\ pc' \notin Restored
    BY <1>a, <2>a DEF CandidateStage, CandidateFails, ResolvePrevious, ResolveFails,
          EnableMaintenance, EnableFails, UndoMaintenance, UndoFails, VerifyUndo, StopCurrent,
          StopFails, Goto, Fail, Persist, Context, Migrated, Restored, Removed, CandidateStages
  <2>b. ASSUME \/ CreateFinal \/ ReplicateFinal \/ BackupFails
               \/ MigrationNotStarted \/ StartNew \/ StartNewFails \/ ActivateNew
               \/ DisableMaintenance \/ DisableFails \/ DispatchFailure \/ RemoveNew
        PROVE  UNCHANGED db /\ (me'.stage = me.stage \/ me'.stage \notin Migrated) /\ pc' \notin Restored
    BY <1>a, <2>b DEF CreateFinal, ReplicateFinal, BackupFails, MigrationNotStarted, StartNew,
          StartNewFails, ActivateNew, DisableMaintenance, DisableFails, DispatchFailure,
          RemoveNew, Goto, Fail, Persist, RollbackOn, Context, Migrated, Restored, Removed
  <2>1. UNCHANGED db /\ (me'.stage = me.stage \/ me'.stage \notin Migrated) /\ pc' \notin Restored
    BY <1>1, <2>a, <2>b
  <2>2. QED
    BY <1>a, <1>b, <2>1 DEF PartialOK
<1>2. CASE CheckNew
  <2>1. me.stage = "production_migrated" /\ UNCHANGED db /\ pc' \in {"persist", "failed"}
    BY <1>a, <1>2 DEF CheckNew, StageFits, Persist, Fail
  <2>2. QED
    BY <1>a, <1>b, <2>1 DEF PartialOK, Migrated, Restored, Removed
<1>3. CASE RestartPrevious \/ RouteOld \/ Reopen \/ VerifyPrevious \/ RollbackFails
  <2>1. /\ UNCHANGED <<db>> /\ me' = me /\ (pc' \in Restored => pc \in Restored)
    BY <1>3 DEF RestartPrevious, RouteOld, Reopen, VerifyPrevious, RollbackFails, RollbackOn,
          Goto, Restored, Removed
  <2>2. QED
    BY <1>a, <1>b, <2>1 DEF PartialOK
<1>4. CASE StartMigration
  <2>1. /\ pc = "migrate" /\ pc' = "migrating" /\ me' = me /\ db'.schema = Partial
    BY <1>0, <1>4 DEF StartMigration, Goto, Content
  <2>2. /\ me.stage = "final_snapshot_verified" /\ rels[nrels].migration_started
        /\ ~rels[nrels].attempted
    BY <1>a, <2>1 DEF StageFits, AttemptOK
  <2>3. QED
    BY <1>0, <1>a, <2>1, <2>2 DEF PartialOK, Migrated, Restored, Removed
<1>5. CASE FinishMigration
  <2>1. db'.schema # Partial
    BY <1>0, <1>a, <1>5 DEF FinishMigration, Content, Partial
  <2>2. QED
    BY <1>b, <2>1 DEF PartialOK
<1>6. CASE MigrationFails
  <2>1. /\ pc = "migrating" /\ pc' = "failed" /\ me'.stage = me.stage
        /\ db' \in me.final \/ db' = db \/ db' = [db EXCEPT !.schema = me.rel]
    BY <1>a, <1>6 DEF MigrationFails, Fail, Context
  <2>2. db'.schema # Partial \/ db'.schema = db.schema
    BY <1>0, <1>a, <2>1 DEF IntentOK, Sound, Content, Partial
  <2>3. me.stage = "final_snapshot_verified"
    BY <1>a, <2>1 DEF StageFits
  <2>4. QED
    BY <1>b, <2>1, <2>2, <2>3 DEF PartialOK, Migrated, Restored, Removed
<1>7. CASE RestoreDatabase
  <2>1. /\ pc = "restore" /\ me' = me /\ (IF me.changed THEN db' \in me.final ELSE UNCHANGED db)
    BY <1>7 DEF RestoreDatabase, RollbackOn, Goto
  <2>2. db'.schema # Partial
    <3>1. CASE me.changed
      BY <2>1, <3>1 DEF IntentOK, Sound
    <3>2. CASE ~me.changed
      BY <1>a, <2>1, <3>2 DEF AttemptOK, PartialOK
    <3>3. QED
      BY <3>1, <3>2
  <2>3. QED
    BY <1>b, <2>2 DEF PartialOK
<1> QED
  BY <1>1, <1>2, <1>3, <1>4, <1>5, <1>6, <1>7 DEF QuietDeployStep

(* Its writes say so. *)
LEMMA StoringPartial ==
    ASSUME Historic, AttemptOK, PartialOK, DeployStep, ~QuietDeployStep
    PROVE  PartialOK'
<1> USE DEF world
<1>0. TypeOK /\ ContextOK /\ HistoryOK /\ me \in Context /\ nrels \in 0..MaxRel
  BY DEF Historic, Typed, TypeOK
<1>a. pc \in Attempt =>
        /\ me.rel = nrels /\ nrels \in Releases
        /\ rels[nrels].status \notin ResolvedStates
  BY DuringAttempt, NotSelected
<1>1. CASE RecordOwner \/ FailWithoutRelease \/ Succeed \/ FailOperation
           \/ RequireOperationRecovery \/ SelectActive
  <2>1. UNCHANGED <<db, rels, nrels>> /\ pc' \notin Attempt
    BY <1>1 DEF RecordOwner, FailWithoutRelease, Succeed, FailOperation, SelectActive,
          RequireOperationRecovery, Goto, Attempt
  <2>2. QED
    BY <2>1 DEF PartialOK
<1>2. CASE CreateRelease
  <2>1. Settled /\ UNCHANGED db /\ pc' = "candidate" /\ me'.stage = me.stage /\ me.stage = "created"
    BY <1>0, <1>2 DEF CreateRelease, HistoryOK, RunOK, Starting, ContextOK, Context
  <2>2. db.schema # Partial
    BY <1>0, <2>1 DEF Settled, PartialOK
  <2>3. QED
    BY <2>1, <2>2 DEF PartialOK
<1>3. CASE PersistOperation \/ AnnounceMigration \/ AnnounceActivation
  <2>1. UNCHANGED <<db, rels, nrels, me>> /\ pc \in Attempt /\ pc' \notin Restored
    BY <1>3 DEF PersistOperation, AnnounceMigration, AnnounceActivation, Goto, Restored,
          Removed, Attempt
  <2>2. QED
    BY <2>1 DEF PartialOK
<1>4. CASE PersistRelease
  <2>1. UNCHANGED <<db, nrels, me>> /\ pc = "persist_release" /\ pc' = After(me.stage)
    BY <1>4 DEF PersistRelease, Goto
  <2>2. /\ rels'[nrels].status = me.stage /\ me.stage \notin ResolvedStates
        /\ rels'[nrels].migration_started = rels[nrels].migration_started
        /\ rels'[nrels].attempted = rels[nrels].attempted
    BY <1>0, <1>4, <1>a, <2>1, StagePersisted
       DEF AttemptOK, StageFits, CandidateStages, CutoverStages, Persisting, Attempt, ResolvedStates
  <2>3. pc' \notin Restored /\ pc \in Attempt
    BY <2>1 DEF After, Restored, Removed, Attempt
  <2>4. QED
    BY <2>1, <2>2, <2>3 DEF PartialOK
<1>5. CASE IntendMigration
  <2>1. /\ UNCHANGED <<db, nrels>> /\ pc \in Attempt /\ pc' \notin Restored
        /\ me'.stage = me.stage
    BY <1>0, <1>5 DEF IntendMigration, Context, Restored, Removed, Attempt
  <2>2. rels'[nrels].migration_started = TRUE /\ rels'[nrels].status = rels[nrels].status
        /\ rels'[nrels].attempted = rels[nrels].attempted
    BY <1>0, <1>5, <1>a, <2>1, ManifestWritten
  <2>3. QED
    BY <2>1, <2>2 DEF PartialOK
<1>6. CASE IntendActivation \/ MarkActive \/ MarkRolledBack
  <2>1. UNCHANGED <<db, nrels>> /\ pc \in Attempt
    BY <1>6 DEF IntendActivation, MarkActive, MarkRolledBack, Attempt
  <2>2. db.schema # Partial
    BY <2>1, <1>6 DEF IntendActivation, MarkActive, MarkRolledBack, AttemptOK, StageFits,
          Migrated, Restored, Removed, PartialOK
  <2>3. QED
    BY <2>1, <2>2 DEF PartialOK
<1>7. CASE RecordActivation
  <2>1. /\ UNCHANGED <<db, rels, nrels>> /\ pc = "record_hook" /\ pc' \in {"persist", "failed"}
    BY <1>7 DEF RecordActivation
  <2>2. db.schema # Partial
    BY <2>1 DEF AttemptOK, StageFits, Migrated, PartialOK, Attempt
  <2>3. QED
    BY <2>1, <2>2 DEF PartialOK
<1>8. CASE FailRelease
  <2>1. UNCHANGED <<db, nrels>> /\ pc = "fail_release" /\ pc \in Attempt
    BY <1>8 DEF FailRelease, Attempt
  <2>2. ~rels[nrels].migration_started
    BY <2>1 DEF AttemptOK, StageFits, Early
  <2>3. QED
    BY <2>1, <2>2 DEF PartialOK
<1>9. CASE RequireRecovery
  <2>1. UNCHANGED <<db, nrels>> /\ pc \in Attempt /\ pc' \notin Attempt
    BY <1>9 DEF RequireRecovery, Attempt, Goto
  <2>2. CASE UNCHANGED rels
    BY <2>1, <2>2 DEF PartialOK
  <2>3. CASE ~UNCHANGED rels
    <3>1. /\ rels'[nrels].migration_started = rels[nrels].migration_started
          /\ rels'[nrels].attempted = rels[nrels].attempted
          /\ rels'[nrels].status = "recovery_required"
      BY <1>0, <1>9, <1>a, <2>1, <2>3, ManifestWritten
    <3>2. QED
      BY <2>1, <3>1 DEF PartialOK, ResolvedStates
  <2>4. QED
    BY <2>2, <2>3
<1> QED
  BY <1>1, <1>2, <1>3, <1>4, <1>5, <1>6, <1>7, <1>8, <1>9 DEF DeployStep, QuietDeployStep

(* A recovery marks the release only once the database is whole. *)
LEMMA RecoverPartial ==
    ASSUME Historic, AttemptOK, IntentOK, PartialOK, PlanRunOK, RecoverStep
    PROVE  PartialOK'
<1> USE DEF world
<1>0. TypeOK
  BY DEF Historic, Typed
<1>a. pc \in Planned =>
        /\ me \in Context /\ nrels \in Releases /\ me.rel = nrels
        /\ Head(me.plan) \in IF me.activated THEN ForwardActions ELSE BackwardActions
        /\ \A a : Rank(a) < Rank(Head(me.plan)) => ~Left(me.plan, a)
  BY DuringPlan, HeadDirected
<1>b. pc' \notin Attempt /\ nrels' = nrels
  BY DEF RecoverStep, Supersede, TakeRelease, CreateRecovery, OwnRecovery, AnnounceAction,
         RecoverRemoveNew, RecoverRestore, RecoverRestart, RecoverRoute, RecoverReopen,
         RecoverVerify, RecoverActionFails, Resolve, SelectRecovered, Recovered,
         RecoveryFailed, Done, RecoveryFails, Goto, ReleaseLock, Attempt, durable
<1>1. CASE \/ Supersede \/ CreateRecovery \/ OwnRecovery \/ AnnounceAction
           \/ RecoverRemoveNew \/ RecoverRestart \/ RecoverRoute
           \/ RecoverReopen \/ RecoverVerify \/ RecoverActionFails
           \/ SelectRecovered \/ Recovered \/ RecoveryFailed
  <2>1. UNCHANGED <<db, rels>>
    BY <1>1 DEF Supersede, CreateRecovery, OwnRecovery, AnnounceAction, RecoverRemoveNew,
          RecoverRestart, RecoverRoute, RecoverReopen, RecoverVerify, RecoverActionFails,
          SelectRecovered, Recovered, RecoveryFailed, durable
  <2>2. QED
    BY <1>b, <2>1 DEF PartialOK
<1>2. CASE RecoverRestore
  <2>1. db' \in rels[nrels].final /\ nrels \in Releases
    BY <1>a, <1>2 DEF RecoverRestore, Planned
  <2>2. QED
    BY <1>b, <2>1 DEF IntentOK, Sound, PartialOK
<1>3. CASE TakeRelease \/ Resolve
  <2>1. UNCHANGED db /\ pc \in Planned
    BY <1>3 DEF TakeRelease, Resolve, Planned
  <2>2. CASE UNCHANGED rels
    BY <1>b, <2>1, <2>2 DEF PartialOK
  <2>3. CASE TakeRelease /\ ~UNCHANGED rels
    <3>1. /\ rels'[nrels].migration_started = rels[nrels].migration_started
          /\ rels'[nrels].attempted = rels[nrels].attempted
          /\ rels'[nrels].status = "recovery_required"
      BY <1>0, <1>a, <2>1, <2>3, ManifestWritten
    <3>2. QED
      BY <1>b, <2>1, <3>1 DEF PartialOK, ResolvedStates
  <2>4. CASE Resolve
    <3>1. CASE me.activated
      BY <1>b, <2>1, <3>1 DEF PartialOK, PlanRunOK
    <3>2. CASE ~me.activated
      <4>1. Rank(Head(me.plan)) = 7 /\ Rank("restore_final") = 2
        BY <2>4 DEF Resolve, Rank
      <4>2. db.schema # Partial
        BY <1>a, <2>1, <3>2, <4>1 DEF PlanRunOK
      <4>3. QED
        BY <1>b, <2>1, <4>2 DEF PartialOK
    <3>3. QED
      BY <3>1, <3>2
  <2>5. QED
    BY <1>3, <2>2, <2>3, <2>4
<1> QED
  BY <1>1, <1>2, <1>3 DEF RecoverStep

(* Nothing else starts a migration. *)
LEMMA OtherPartial ==
    ASSUME Historic, PartialOK, StartDeploy \/ StartRecover \/ Unlock \/ Environment
    PROVE  PartialOK'
<1> USE DEF world, durable
<1>0. TypeOK
  BY DEF Historic, Typed
<1>1. CASE StartDeploy \/ StartRecover \/ Unlock \/ Crash \/ Interrupt \/ Reboot
  <2>1. UNCHANGED <<db, rels, nrels>> /\ pc' \notin Attempt
    BY <1>1 DEF StartDeploy, StartRecover, Unlock, Crash, Interrupt, Reboot, ReleaseLock, Attempt
  <2>2. QED
    BY <2>1 DEF PartialOK
<1>2. CASE (\E w \in Writes : UserWrite(w)) \/ OrphanMigrates
  <2>1. /\ UNCHANGED <<rels, nrels, pc, me>>
        /\ db'.schema = db.schema \/ db'.schema # Partial
    BY <1>0, <1>2 DEF UserWrite, OrphanMigrates, TypeOK, Content, Partial
  <2>2. QED
    BY <2>1 DEF PartialOK
<1> QED
  BY <1>1, <1>2 DEF Environment

------------------------------------------------------------------------------
(* Maintenance.                                                             *)


(* A deployment blocks users only during its cutover. *)
LEMMA QuietMaintenance ==
    ASSUME Historic, AttemptOK, MaintenanceOK, QuietDeployStep
    PROVE  MaintenanceOK'
<1> USE DEF world, Persisting
<1>0. TypeOK /\ UNCHANGED <<ops, nops, rels, nrels, active, previous>>
  BY QuietDeploy DEF Historic, Typed
<1>a. /\ pc \in Attempt \ Persisting /\ me \in Context /\ nrels \in Releases
      /\ me.stage = rels[nrels].status /\ StageFits
      /\ rels[nrels].status \notin ResolvedStates
  BY DuringAttempt, QuietAttempts, NotSelected DEF AttemptOK
<1>b. nrels' # 0 /\ rels'[nrels'].status \notin ResolvedStates
  BY <1>0, <1>a
<1>1. CASE CandidateStage \/ CandidateFails \/ ResolvePrevious \/ ResolveFails \/ VerifyUndo
  <2>1. UNCHANGED maintenance /\ ~maintenance /\ pc' \notin {"undo_maintenance"}
    BY <1>1 DEF CandidateStage, CandidateFails, ResolvePrevious, ResolveFails, VerifyUndo,
          MaintenanceOK, Goto, Fail, Persist
  <2>2. QED
    BY <2>1 DEF MaintenanceOK
<1>2. CASE EnableMaintenance \/ EnableFails
  BY <1>a, <1>b, <1>2 DEF EnableMaintenance, EnableFails, MaintenanceOK, CandidateStages, Context
<1>3. CASE UndoMaintenance \/ DisableMaintenance \/ Reopen
  <2>1. maintenance' = FALSE
    BY <1>3 DEF UndoMaintenance, DisableMaintenance, Reopen, SetMaintenance
  <2>2. QED
    BY <2>1 DEF MaintenanceOK
<1>4. CASE UndoFails \/ DisableFails
  <2>1. pc' = "failed" /\ me'.err = "recovery"
    BY <1>a, <1>4 DEF UndoFails, DisableFails, Fail, Context
  <2>2. QED
    BY <1>b, <2>1 DEF MaintenanceOK
<1>5. CASE StopCurrent \/ StopFails \/ CreateFinal \/ ReplicateFinal \/ BackupFails
           \/ StartMigration \/ MigrationNotStarted \/ FinishMigration \/ MigrationFails
           \/ StartNew \/ StartNewFails \/ CheckNew \/ ActivateNew
  <2>0. pc \in {"stop", "create_final", "replicate", "migrate", "migrating", "start_new",
                "check_new", "activate_new"}
    BY <1>5 DEF StopCurrent, StopFails, CreateFinal, ReplicateFinal, BackupFails,
          StartMigration, MigrationNotStarted, FinishMigration, MigrationFails, StartNew,
          StartNewFails, CheckNew, ActivateNew
  <2>s. me.stage \notin CandidateStages
    BY <1>a, <2>0 DEF StageFits, CandidateStages
  <2>1. /\ pc' \in {"persist", "failed", "intend_migration", "migrating", "check_new",
                    "record_hook"}
        /\ me'.stage = me.stage \/ me'.stage \in CutoverStages
    BY <1>a, <1>5 DEF StopCurrent, StopFails, CreateFinal, ReplicateFinal, BackupFails,
          StartMigration, MigrationNotStarted, FinishMigration, MigrationFails, StartNew,
          StartNewFails, CheckNew, ActivateNew, CutoverStages, Goto, Fail,
          Persist, Context
  <2>2. QED
    BY <1>b, <2>1, <2>s DEF MaintenanceOK, CandidateStages, CutoverStages
<1>6. CASE DispatchFailure
  <2>1. pc = "failed" /\ UNCHANGED maintenance
    BY <1>6 DEF DispatchFailure
  <2>2. CASE pc' = "fail_release"
    <3>1. me.err # "recovery" /\ ~me.activated /\ ~me.maint
      BY <1>6, <2>2 DEF DispatchFailure, Persist, Goto
    <3>2. me.stage \in CandidateStages
      BY <1>a, <2>1, <3>1 DEF AttemptOK, StageFits
    <3>3. ~maintenance
      BY <2>1, <3>1, <3>2 DEF MaintenanceOK
    <3>4. QED
      BY <2>1, <3>3 DEF MaintenanceOK
  <2>3. CASE pc' # "fail_release"
    <3>1. pc' \in {"require_recovery", "persist"} /\ (pc' = "persist" => me'.stage = "rollback_started")
      BY <1>a, <1>6, <2>3 DEF DispatchFailure, Persist, Goto, Context
    <3>2. QED
      BY <1>b, <3>1 DEF MaintenanceOK, CandidateStages
  <2>4. QED
    BY <2>2, <2>3
<1>7. CASE RemoveNew \/ RestoreDatabase \/ RestartPrevious \/ RouteOld \/ RollbackFails
  <2>1. pc' \in {"restore", "restart", "route_old", "reopen", "require_recovery"}
    BY <1>7 DEF RemoveNew, RestoreDatabase, RestartPrevious, RouteOld, RollbackFails,
          RollbackOn, Goto
  <2>2. QED
    BY <1>b, <2>1 DEF MaintenanceOK
<1>8. CASE VerifyPrevious
  <2>1. pc = "verify_previous" /\ UNCHANGED maintenance
    BY <1>8 DEF VerifyPrevious
  <2>2. QED
    BY <2>1 DEF MaintenanceOK
<1> QED
  BY <1>1, <1>2, <1>3, <1>4, <1>5, <1>6, <1>7, <1>8 DEF QuietDeployStep

(* Its outcomes are written when users get through. *)
LEMMA StoringMaintenance ==
    ASSUME Historic, AttemptOK, MaintenanceOK, DeployStep, ~QuietDeployStep
    PROVE  MaintenanceOK'
<1> USE DEF world, Persisting
<1>0. TypeOK /\ ContextOK /\ HistoryOK /\ me \in Context /\ nrels \in 0..MaxRel
  BY DEF Historic, Typed, TypeOK
<1>a. pc \in Attempt =>
        /\ me.rel = nrels /\ nrels \in Releases
        /\ rels[nrels].status \notin ResolvedStates
  BY DuringAttempt, NotSelected
<1>1. CASE RecordOwner \/ FailWithoutRelease \/ Succeed \/ FailOperation
           \/ RequireOperationRecovery \/ SelectActive
  <2>1. UNCHANGED <<maintenance, rels, nrels>> /\ pc' \notin Attempt
    BY <1>1 DEF RecordOwner, FailWithoutRelease, Succeed, FailOperation, SelectActive,
          RequireOperationRecovery, Goto, Attempt
  <2>2. QED
    BY <2>1 DEF MaintenanceOK, Attempt
<1>2. CASE CreateRelease
  <2>1. Settled /\ UNCHANGED maintenance
    BY <1>0, <1>2 DEF CreateRelease, HistoryOK, RunOK, Starting
  <2>2. ~maintenance
    BY <1>0, <2>1 DEF Settled, MaintenanceOK
  <2>3. QED
    BY <2>1, <2>2 DEF MaintenanceOK
<1>3. CASE PersistOperation \/ AnnounceMigration \/ AnnounceActivation
  <2>1. /\ UNCHANGED <<maintenance, rels, nrels, me>> /\ pc \in Attempt
        /\ \/ pc' \in {"migrate", "activate_new"}
           \/ pc = "persist" /\ pc' = "persist_release"
    BY <1>3 DEF PersistOperation, AnnounceMigration, AnnounceActivation, Goto, Attempt
  <2>2. QED
    BY <2>1 DEF MaintenanceOK
<1>4. CASE PersistRelease
  <2>1. UNCHANGED <<maintenance, nrels, me>> /\ pc = "persist_release" /\ pc' = After(me.stage)
    BY <1>4 DEF PersistRelease, Goto
  <2>2. /\ rels'[nrels].status = me.stage /\ me.stage \notin ResolvedStates /\ nrels # 0
        /\ me.stage \in (CandidateStages \cup CutoverStages) \ {"created"}
    BY <1>0, <1>4, <1>a, <2>1, StagePersisted
       DEF AttemptOK, StageFits, CandidateStages, CutoverStages, Attempt, ResolvedStates
  <2>3. CASE me.stage \in CandidateStages
    <3>1. ~maintenance
      BY <2>1, <2>3 DEF MaintenanceOK
    <3>2. QED
      BY <2>1, <3>1 DEF MaintenanceOK
  <2>4. CASE me.stage \in CutoverStages
    <3>1. pc' \in {"stop", "create_final", "replicate", "start_new", "intend_activation",
                   "disable_maintenance", "remove_new"}
      BY <2>1, <2>4 DEF After, CutoverStages
    <3>2. QED
      BY <2>1, <2>2, <3>1 DEF MaintenanceOK
  <2>5. QED
    BY <2>2, <2>3, <2>4
<1>5. CASE IntendMigration \/ IntendActivation
  <2>1. /\ UNCHANGED <<maintenance, nrels>> /\ pc \in Attempt
        /\ pc' \in {"announce_migration", "announce_activation"}
    BY <1>5 DEF IntendMigration, IntendActivation, Attempt
  <2>2. rels'[nrels].status = rels[nrels].status
    BY <1>0, <1>5, <1>a, <2>1, ManifestWritten
  <2>3. QED
    BY <1>a, <2>1, <2>2 DEF MaintenanceOK
<1>6. CASE RecordActivation
  <2>1. /\ UNCHANGED <<maintenance, rels, nrels>> /\ pc = "record_hook"
        /\ pc' \in {"persist", "failed"} /\ me'.stage \in {me.stage, "traffic_activated"}
    BY <1>0, <1>6 DEF RecordActivation, Context
  <2>2. me'.stage \notin CandidateStages
    BY <2>1 DEF AttemptOK, StageFits, Attempt, CandidateStages
  <2>3. QED
    BY <2>1, <2>2 DEF MaintenanceOK
<1>7. CASE MarkActive \/ MarkRolledBack \/ FailRelease
  <2>1. UNCHANGED maintenance /\ ~maintenance
    BY <1>7 DEF MarkActive, MarkRolledBack, FailRelease, MaintenanceOK
  <2>2. QED
    BY <2>1 DEF MaintenanceOK
<1>8. CASE RequireRecovery
  <2>1. /\ UNCHANGED <<maintenance, nrels>> /\ pc \in Attempt
        /\ pc' = "require_operation_recovery"
    BY <1>8 DEF RequireRecovery, Attempt, Goto
  <2>2. rels'[nrels].status \notin ResolvedStates
    <3>1. CASE UNCHANGED rels
      BY <1>a, <2>1, <3>1
    <3>2. CASE ~UNCHANGED rels
      BY <1>0, <1>8, <1>a, <2>1, <3>2, ManifestWritten DEF ResolvedStates
    <3>3. QED
      BY <3>1, <3>2
  <2>3. QED
    BY <1>a, <2>1, <2>2 DEF MaintenanceOK
<1> QED
  BY <1>1, <1>2, <1>3, <1>4, <1>5, <1>6, <1>7, <1>8 DEF DeployStep, QuietDeployStep

(* A recovery marks the release after users get through. *)
LEMMA RecoverMaintenance ==
    ASSUME Historic, MaintenanceOK, PlanRunOK, RecoverStep
    PROVE  MaintenanceOK'
<1> USE DEF world, Persisting
<1>0. TypeOK
  BY DEF Historic, Typed
<1>a. pc \in Planned =>
        /\ me \in Context /\ nrels \in Releases /\ me.rel = nrels
        /\ \A a : Rank(a) < Rank(Head(me.plan)) => ~Left(me.plan, a)
  BY DuringPlan, HeadDirected
<1>b. /\ pc' \in {"idle", "unlock", "supersede", "take_release", "create_recovery",
                  "own_recovery", "next_action", "perform", "select_recovered", "recovered",
                  "recovery_failed"}
      /\ nrels' = nrels
  BY DEF RecoverStep, Supersede, TakeRelease, CreateRecovery, OwnRecovery, AnnounceAction,
         RecoverRemoveNew, RecoverRestore, RecoverRestart, RecoverRoute, RecoverReopen,
         RecoverVerify, RecoverActionFails, Resolve, SelectRecovered, Recovered,
         RecoveryFailed, Done, RecoveryFails, Goto, ReleaseLock, durable
<1>1. CASE \/ Supersede \/ CreateRecovery \/ OwnRecovery \/ AnnounceAction
           \/ RecoverRemoveNew \/ RecoverRestore \/ RecoverRestart \/ RecoverRoute
           \/ RecoverVerify \/ RecoverActionFails
           \/ SelectRecovered \/ Recovered \/ RecoveryFailed
  <2>1. UNCHANGED <<maintenance, rels>>
    BY <1>1 DEF Supersede, CreateRecovery, OwnRecovery, AnnounceAction, RecoverRemoveNew,
          RecoverRestore, RecoverRestart, RecoverRoute, RecoverVerify, RecoverActionFails,
          SelectRecovered, Recovered, RecoveryFailed, durable
  <2>2. QED
    BY <1>b, <2>1 DEF MaintenanceOK
<1>2. CASE RecoverReopen
  <2>1. maintenance' = FALSE
    BY <1>2 DEF RecoverReopen, SetMaintenance
  <2>2. QED
    BY <2>1 DEF MaintenanceOK
<1>3. CASE TakeRelease
  <2>1. UNCHANGED maintenance /\ pc \in Planned
    BY <1>3 DEF TakeRelease, Planned
  <2>2. CASE UNCHANGED rels
    BY <1>b, <2>1, <2>2 DEF MaintenanceOK
  <2>3. CASE ~UNCHANGED rels
    <3>1. TakeRelease /\ ~UNCHANGED rels /\ nrels \in Releases /\ me.rel = nrels
      BY <1>a, <1>3, <2>1, <2>3
    <3>2. rels'[nrels].status = "recovery_required"
      BY <1>0, <3>1, ManifestWritten
    <3>3. QED
      BY <1>b, <2>1, <3>1, <3>2 DEF MaintenanceOK, ResolvedStates
  <2>4. QED
    BY <2>2, <2>3
<1>4. CASE Resolve
  <2>1. /\ UNCHANGED maintenance /\ pc \in Planned
        /\ Rank(Head(me.plan)) = 7 /\ Rank("disable_maintenance") = 5
    BY <1>4 DEF Resolve, Planned, Rank
  <2>2. ~maintenance
    BY <1>a, <2>1 DEF PlanRunOK
  <2>3. QED
    BY <1>b, <2>1, <2>2 DEF MaintenanceOK
<1> QED
  BY <1>1, <1>2, <1>3, <1>4 DEF RecoverStep

(* Nothing else blocks users. *)
LEMMA OtherMaintenance ==
    ASSUME MaintenanceOK, StartDeploy \/ StartRecover \/ Unlock \/ Environment
    PROVE  MaintenanceOK'
<1> USE DEF world, durable
<1>1. CASE StartDeploy \/ StartRecover \/ Unlock \/ Crash \/ Interrupt \/ Reboot
  <2>1. /\ UNCHANGED <<maintenance, rels, nrels>>
        /\ pc' \in {"idle", "record_owner", "supersede"}
    BY <1>1 DEF StartDeploy, StartRecover, Unlock, Crash, Interrupt, Reboot, ReleaseLock
  <2>2. QED
    BY <2>1 DEF MaintenanceOK, Persisting
<1>2. CASE (\E w \in Writes : UserWrite(w)) \/ OrphanMigrates
  <2>1. UNCHANGED <<maintenance, rels, nrels, pc, me>>
    BY <1>2 DEF UserWrite, OrphanMigrates
  <2>2. QED
    BY <2>1 DEF MaintenanceOK
<1> QED
  BY <1>1, <1>2 DEF Environment


(* A recovery starts the previous application after the new one is gone,   *)
(* and selects the new release after the previous one stopped.              *)
LEMMA RecoverApps ==
    ASSUME Historic, AppsOK, PlanRunOK, RecoverStep
    PROVE  AppsOK' /\ AttemptAppsOK'
<1> USE DEF world, durable
<1>0. TypeOK /\ HistoryOK /\ active \in 0..MaxRel /\ nrels \in 0..MaxRel
  BY DEF Historic, Typed, TypeOK
<1>a. pc \in Planned =>
        /\ nrels \in Releases /\ me.rel = nrels
        /\ Head(me.plan) \in IF me.activated THEN ForwardActions ELSE BackwardActions
        /\ \A a : Rank(a) < Rank(Head(me.plan)) => ~Left(me.plan, a)
  BY DuringPlan, HeadDirected
<1>b. pc' \notin Attempt /\ nrels' = nrels
  BY DEF RecoverStep, Supersede, TakeRelease, CreateRecovery, OwnRecovery, AnnounceAction,
         RecoverRemoveNew, RecoverRestore, RecoverRestart, RecoverRoute, RecoverReopen,
         RecoverVerify, RecoverActionFails, Resolve, SelectRecovered, Recovered,
         RecoveryFailed, Done, RecoveryFails, Goto, ReleaseLock, Attempt
<1>c. AttemptAppsOK'
  BY <1>b DEF AttemptAppsOK
<1>1. CASE \/ Supersede \/ CreateRecovery \/ OwnRecovery \/ AnnounceAction
           \/ RecoverRestore \/ RecoverRoute \/ RecoverReopen \/ RecoverVerify
           \/ RecoverActionFails \/ Recovered \/ RecoveryFailed
  <2>1. UNCHANGED <<app, rels, active>>
    BY <1>1 DEF Supersede, CreateRecovery, OwnRecovery, AnnounceAction, RecoverRestore,
          RecoverRoute, RecoverReopen, RecoverVerify, RecoverActionFails, Recovered,
          RecoveryFailed
  <2>2. QED
    BY <1>b, <1>c, <2>1 DEF AppsOK
<1>2. CASE RecoverRemoveNew
  <2>1. /\ UNCHANGED <<rels, active>> /\ app' = [app EXCEPT ![me.rel] = "absent"]
        /\ pc \in Planned
    BY <1>2 DEF RecoverRemoveNew, RemoveApplication, Planned
  <2>2. app'[nrels] = "absent" /\ \A a \in Apps : a # nrels => app'[a] = app[a]
    BY <1>0, <1>a, <2>1 DEF TypeOK
  <2>3. QED
    BY <1>0, <1>b, <1>c, <2>1, <2>2 DEF AppsOK
<1>3. CASE RecoverRestart
  <2>1. /\ UNCHANGED <<rels, active>> /\ app' = [app EXCEPT ![me.prev] = "running"]
        /\ pc \in Planned /\ pc \in Taken /\ Head(me.plan) = "restart_previous"
    BY <1>3 DEF RecoverRestart, RestartApplication, Planned, Taken
  <2>2. ~me.activated /\ Rank("remove_new") < Rank(Head(me.plan))
    BY <1>a, <2>1 DEF ForwardActions, Rank
  <2>3. /\ me.prev = active /\ active # nrels /\ app[nrels] = "absent"
        /\ rels[nrels].status = "recovery_required"
    BY <1>a, <2>1, <2>2 DEF PlanRunOK
  <2>4. app'[active] = "running" /\ \A a \in Apps : a # active => app'[a] = app[a]
    BY <1>0, <2>1, <2>3 DEF TypeOK
  <2>5. QED
    BY <1>0, <1>b, <1>c, <2>1, <2>3, <2>4 DEF AppsOK
<1>4. CASE TakeRelease
  <2>1. UNCHANGED <<app, active>> /\ pc \in Planned
    BY <1>4 DEF TakeRelease, Planned
  <2>2. UNCHANGED rels \/ rels'[nrels].status = "recovery_required"
    BY <1>0, <1>a, <1>4, <2>1, ManifestWritten
  <2>3. QED
    BY <1>b, <1>c, <2>1, <2>2 DEF AppsOK
<1>5. CASE Resolve
  <2>1. /\ UNCHANGED <<app, active>> /\ pc \in Planned
        /\ Rank("remove_new") < Rank(Head(me.plan))
    BY <1>5 DEF Resolve, Planned, Rank
  <2>2. \/ UNCHANGED rels
        \/ rels'[nrels].status = IF me.activated THEN "active" ELSE "rolled_back"
    BY <1>0, <1>a, <1>5, <2>1, ManifestWritten
  <2>3. /\ me.activated /\ active # nrels => app[active] # "running"
        /\ ~me.activated => app[nrels] = "absent"
    BY <1>a, <2>1 DEF PlanRunOK
  <2>4. QED
    BY <1>b, <1>c, <2>1, <2>2, <2>3 DEF AppsOK
<1>6. CASE SelectRecovered
  <2>1. active' = nrels /\ UNCHANGED <<app, rels>> /\ rels[nrels].status = "active"
    BY <1>0, <1>6 DEF SelectRecovered, ActivateRelease, HistoryOK, RunOK, Closing, Plain
  <2>2. QED
    BY <1>b, <1>c, <2>1 DEF AppsOK
<1> QED
  BY <1>1, <1>2, <1>3, <1>4, <1>5, <1>6 DEF RecoverStep

(* Nothing else starts an application. *)
LEMMA OtherApps ==
    ASSUME Historic, AppsOK, AttemptAppsOK, StartDeploy \/ StartRecover \/ Unlock \/ Environment
    PROVE  AppsOK' /\ AttemptAppsOK'
<1> USE DEF world, durable
<1>0. TypeOK /\ active \in 0..MaxRel /\ nrels \in 0..MaxRel
  BY DEF Historic, Typed, TypeOK
<1>1. CASE StartDeploy \/ StartRecover \/ Unlock \/ Crash \/ Interrupt
  <2>1. UNCHANGED <<app, rels, nrels, active>> /\ pc' \notin Attempt
    BY <1>1 DEF StartDeploy, StartRecover, Unlock, Crash, Interrupt, ReleaseLock, Attempt
  <2>2. QED
    BY <2>1 DEF AppsOK, AttemptAppsOK
<1>2. CASE (\E w \in Writes : UserWrite(w)) \/ OrphanMigrates
  <2>1. UNCHANGED <<app, rels, nrels, active, pc, me>>
    BY <1>2 DEF UserWrite, OrphanMigrates
  <2>2. QED
    BY <2>1 DEF AppsOK, AttemptAppsOK
<1>3. CASE Reboot
  <2>1. /\ UNCHANGED <<rels, nrels, active>> /\ pc' = "idle"
        /\ \A a \in Apps : app'[a] = IF app[a] = "running" THEN "stopped" ELSE app[a]
    BY <1>3 DEF Reboot
  <2>2. \A a \in Apps : app'[a] # "running" /\ (app[a] = "absent" => app'[a] = "absent")
    BY <2>1
  <2>3. AppsOK'
    BY <1>0, <2>1, <2>2 DEF AppsOK
  <2>4. QED
    BY <2>1, <2>3 DEF AttemptAppsOK, Attempt
<1> QED
  BY <1>1, <1>2, <1>3 DEF Environment

------------------------------------------------------------------------------
(* What a recovery has done.                                                *)


(* What the diagnosis of a recovery has found when it starts. *)
LEMMA Diagnosed ==
    ASSUME Historic, ManifestsOK, AppsOK, IntentOK, PartialOK, StartRecover
    PROVE  PlanRunOK'
<1>0. TypeOK /\ HistoryOK /\ me'.rel = nrels
  BY RecoveryAdmitted DEF Historic, Typed
<1>1. PICK r \in 1..nrels :
        \E matches \in ChecksumMatches(r) :
            /\ CompletesNew(r) \/ RecoversPrevious(r, matches)
            /\ me' = [NoContext EXCEPT
                        !.rel = r,
                        !.prev = rels[r].prev,
                        !.changed = CompletesNew(r) \/ MayHaveChanged(r),
                        !.activated = CompletesNew(r),
                        !.plan = IF CompletesNew(r) THEN NewActions
                                 ELSE PreviousActions(r, matches)]
  BY DEF StartRecover
<1>2. PICK matches \in ChecksumMatches(r) :
            /\ CompletesNew(r) \/ RecoversPrevious(r, matches)
            /\ me' = [NoContext EXCEPT
                        !.rel = r,
                        !.prev = rels[r].prev,
                        !.changed = CompletesNew(r) \/ MayHaveChanged(r),
                        !.activated = CompletesNew(r),
                        !.plan = IF CompletesNew(r) THEN NewActions
                                 ELSE PreviousActions(r, matches)]
  BY <1>1
<1> DEFINE c == CompletesNew(r) \/ MayHaveChanged(r)
           a == CompletesNew(r)
           q == IF CompletesNew(r) THEN NewActions ELSE PreviousActions(r, matches)
<1>3. a \in BOOLEAN
  BY DEF CompletesNew
<1>4. me' = [NoContext EXCEPT !.rel = r, !.prev = rels[r].prev, !.changed = c,
                              !.activated = a, !.plan = q]
  BY <1>2
<1>q. /\ a => q = NewActions
      /\ ~a => q = PreviousActions(r, matches) /\ RecoversPrevious(r, matches)
      /\ a => CompletesNew(r)
  BY <1>2
<1> HIDE DEF c, a, q
<1>5. /\ me'.plan = q /\ me'.prev = rels[r].prev /\ me'.rel = r /\ me'.activated = a
  BY <1>4 DEF NoContext
<1>6. /\ r = nrels /\ nrels \in Releases /\ rels[nrels] \in Manifest
      /\ ValidManifest(rels[nrels])
  BY <1>0, <1>5 DEF TypeOK, ManifestsOK
<1>7. UNCHANGED <<rels, nrels, active, app, db, maintenance>> /\ pc' = "supersede"
  BY DEF StartRecover, durable, world
<1>8. CASE a
  <2>1. Ordered(q) /\ Directed(q, TRUE) /\ Left(q, "disable_maintenance")
    BY <1>8, <1>q, PlansOrdered
  <2>2. ActivationConclusion(nrels) = "succeeded" /\ app[nrels] = "running"
    BY <1>8, <1>q, <1>6 DEF CompletesNew, LiveNew
  <2>3. rels[nrels].attempted
    <3>1. rels[nrels].activated \/ rels[nrels].attempted
      BY <2>2 DEF ActivationConclusion
    <3>2. QED
      BY <1>6, <3>1 DEF ValidManifest
  <2>4. rels[nrels].status \notin CandidateStages
    BY <1>6, <2>3 DEF ValidManifest, ManifestsOK, Early
  <2>5. active # nrels => app[active] # "running"
    BY <2>2 DEF AppsOK
  <2>6. me'.activated = TRUE
    BY <1>3, <1>5, <1>8
  <2>7. QED
    BY <1>5, <1>6, <1>7, <2>1, <2>3, <2>4, <2>5, <2>6 DEF PlanRunOK, Taken
<1>9. CASE ~a
  <2> DEFINE p == PreviousActions(r, matches)
  <2>1. /\ Ordered(p) /\ Directed(p, FALSE) /\ Left(p, "disable_maintenance")
        /\ LiveNew(r) # "absent" => Left(p, "remove_new")
        /\ MayHaveChanged(r) /\ ~matches => Left(p, "restore_final")
    BY PlansOrdered
  <2> HIDE DEF p
  <2>2. q = p /\ RecoversPrevious(r, matches)
    BY <1>9, <1>q DEF p
  <2>3. rels[nrels].status # "active" /\ rels[nrels].status \notin CandidateStages
    <3>1. ~rels[nrels].activated /\ rels[nrels].status \notin CandidateStages
      BY <1>6, <2>2 DEF RecoversPrevious, ActivationConclusion
    <3>2. QED
      BY <1>6, <3>1 DEF ValidManifest
  <2>4. active # nrels
    BY <1>0, <1>6, <2>3 DEF HistoryOK, PointersOK
  <2>5. rels[nrels].prev = active
    <3>1. rels[nrels].prev # NoApp
      BY <1>6, <2>2 DEF RecoversPrevious, LivePrevious
    <3>2. QED
      BY <1>6, <2>4, <3>1 DEF ManifestsOK
  <2>6. ~Left(q, "remove_new") => app[nrels] = "absent"
    BY <1>6, <2>1, <2>2 DEF LiveNew
  <2>7. ~Left(q, "restore_final") => db.schema # Partial
    <3>1. CASE matches
      <4>1. db \in rels[nrels].final
        BY <1>2, <1>6, <3>1 DEF ChecksumMatches
      <4>2. QED
        BY <1>6, <4>1 DEF IntentOK, Sound
    <3>2. CASE ~MayHaveChanged(r)
      BY <1>6, <3>2 DEF MayHaveChanged, PartialOK
    <3>3. QED
      BY <2>1, <2>2, <3>1, <3>2
  <2>8. me'.activated = FALSE
    BY <1>3, <1>5, <1>9
  <2>9. Ordered(q) /\ Directed(q, FALSE) /\ Left(q, "disable_maintenance")
    BY <2>1, <2>2
  <2>10. QED
    BY <1>5, <1>6, <1>7, <2>3, <2>4, <2>5, <2>6, <2>7, <2>8, <2>9 DEF PlanRunOK, Taken
<1> QED
  BY <1>8, <1>9

(* What a recovery has done when an action of its plan is done. *)
LEMMA ActionDone ==
    ASSUME Historic, PlanRunOK, pc = "perform", Done, UNCHANGED <<rels, nrels, active>>,
           app'[active] = app[active] \/ ~me.activated,
           app'[nrels] = app[nrels] \/ app'[nrels] = "absent",
           db'.schema = db.schema \/ db'.schema # Partial,
           maintenance' = maintenance \/ ~maintenance',
           Head(me.plan) = "remove_new" => app'[nrels] = "absent",
           Head(me.plan) = "restore_final" => db'.schema # Partial,
           Head(me.plan) = "disable_maintenance" => ~maintenance'
    PROVE  PlanRunOK'
<1>0. pc \in Planned /\ pc \in Taken /\ pc' = "next_action"
  BY DEF Planned, Taken, Done
<1>1. me \in Context
  BY <1>0, DuringPlan
<1> DEFINE t == Tail(me.plan)
<1>2. /\ Ordered(t) /\ Directed(t, me.activated)
      /\ \A a : Left(me.plan, a) => a = Head(me.plan) \/ Left(t, a)
  BY <1>0, HeadDirected
<1>3. me'.plan = t /\ me'.activated = me.activated /\ me'.prev = me.prev
  BY <1>1 DEF Done, Context
<1> HIDE DEF t
<1>4. /\ me.prev = rels[nrels].prev /\ rels[nrels].status = "recovery_required"
      /\ rels[nrels].status \notin CandidateStages
      /\ me.activated => /\ rels[nrels].attempted
                         /\ active # nrels => app[active] # "running"
      /\ ~me.activated =>
            /\ me.prev = active /\ active # nrels
            /\ ~Left(me.plan, "remove_new") => app[nrels] = "absent"
            /\ ~Left(me.plan, "restore_final") => db.schema # Partial
      /\ ~Left(me.plan, "disable_maintenance") => ~maintenance
  BY <1>0 DEF PlanRunOK
<1>5. me.activated => (active # nrels => app'[active] # "running")
  BY <1>4
<1>6. ~me.activated => (~Left(t, "remove_new") => app'[nrels] = "absent")
  BY <1>2, <1>4
<1>7. ~me.activated => (~Left(t, "restore_final") => db'.schema # Partial)
  BY <1>2, <1>4
<1>8. ~Left(t, "disable_maintenance") => ~maintenance'
  BY <1>2, <1>4
<1> QED
  BY <1>2, <1>3, <1>4, <1>5, <1>6, <1>7, <1>8 DEF PlanRunOK

(* The actions of a recovery do what its plan says. *)
LEMMA RecoverPlan ==
    ASSUME Historic, IntentOK, PlanRunOK, RecoverStep
    PROVE  PlanRunOK'
<1> USE DEF world, durable
<1>0. TypeOK /\ active \in 0..MaxRel /\ app \in [Apps -> {"absent", "running", "stopped"}]
  BY DEF Historic, Typed, TypeOK
<1>a. pc \in Planned =>
        /\ nrels \in Releases /\ me.rel = nrels /\ me \in Context
        /\ Head(me.plan) \in IF me.activated THEN ForwardActions ELSE BackwardActions
        /\ ~me.activated => me.prev = active /\ active # nrels
  BY DuringPlan, HeadDirected DEF PlanRunOK
<1>1. CASE Supersede \/ OwnRecovery \/ AnnounceAction
  <2>1. /\ UNCHANGED <<rels, nrels, active, app, db, maintenance, me>>
        /\ pc \in Planned /\ (pc' \in Taken => pc \in Taken)
    BY <1>1 DEF Supersede, OwnRecovery, AnnounceAction, Goto, Planned, Taken
  <2>2. QED
    BY <2>1 DEF PlanRunOK
<1>2. CASE CreateRecovery
  <2>1. /\ UNCHANGED <<rels, nrels, active, app, db, maintenance>> /\ pc \in Planned /\ pc \in Taken
        /\ me' = [me EXCEPT !.op = nops + 1]
    BY <1>2 DEF CreateRecovery, Planned, Taken
  <2>2. me'.plan = me.plan /\ me'.activated = me.activated /\ me'.prev = me.prev
    BY <1>a, <2>1 DEF Context
  <2>3. QED
    BY <2>1, <2>2 DEF PlanRunOK
<1>3. CASE TakeRelease
  <2>1. /\ UNCHANGED <<nrels, active, app, db, maintenance>> /\ pc \in Planned
        /\ \/ pc' = "create_recovery" /\ me' = me
           \/ pc' = "idle"
    BY <1>3 DEF TakeRelease, Planned, Goto, ReleaseLock
  <2>2. CASE pc' = "create_recovery" /\ me' = me
    <3>1. /\ rels'[nrels].status = "recovery_required" /\ rels'[nrels].prev = rels[nrels].prev
          /\ rels'[nrels].attempted = rels[nrels].attempted
      <4>1. CASE UNCHANGED rels
        <5>1. rels[nrels].status = "recovery_required"
          <6>1. SUFFICES ASSUME rels[nrels].status # "recovery_required" PROVE FALSE
            OBVIOUS
          <6>2. rels' = [rels EXCEPT ![nrels] = TakenRelease(nrels)]
            BY <1>3, <1>a, <2>1, <2>2, <6>1 DEF TakeRelease, TransitionRelease, ReleaseLock
          <6>3. rels'[nrels].status = "recovery_required"
            BY <1>0, <1>a, <2>1, <6>2 DEF TypeOK, TakenRelease, Manifest
          <6>4. QED
            BY <4>1, <6>1, <6>3
        <5>2. QED
          BY <4>1, <5>1
      <4>2. CASE ~UNCHANGED rels
        BY <1>0, <1>a, <1>3, <2>1, <4>2, ManifestWritten DEF Continues
      <4>3. QED
        BY <4>1, <4>2
    <3>2. QED
      BY <2>1, <2>2, <3>1 DEF PlanRunOK, CandidateStages
  <2>3. CASE pc' = "idle"
    BY <2>3 DEF PlanRunOK, Planned
  <2>4. QED
    BY <2>1, <2>2, <2>3
<1>4. CASE \/ RecoverActionFails \/ Resolve \/ SelectRecovered \/ Recovered \/ RecoveryFailed
  <2>1. pc' \notin Planned
    BY <1>4 DEF RecoverActionFails, Resolve, SelectRecovered, Recovered, RecoveryFailed,
          RecoveryFails, Goto, Planned
  <2>2. QED
    BY <2>1 DEF PlanRunOK
<1>5. CASE \/ RecoverRemoveNew \/ RecoverRestore \/ RecoverRestart \/ RecoverRoute
           \/ RecoverReopen \/ RecoverVerify
  <2>1. /\ pc = "perform" /\ pc \in Planned /\ UNCHANGED <<rels, nrels, active>>
        /\ Done \/ RecoveryFails
    BY <1>5 DEF RecoverRemoveNew, RecoverRestore, RecoverRestart, RecoverRoute, RecoverReopen,
          RecoverVerify, Planned
  <2>2. CASE RecoveryFails
    BY <2>2 DEF RecoveryFails, Goto, PlanRunOK, Planned
  <2>3. CASE Done
    <3>1. CASE RecoverRemoveNew
      <4>1. /\ UNCHANGED <<db, maintenance>> /\ app' = [app EXCEPT ![nrels] = "absent"]
            /\ Head(me.plan) = "remove_new"
        BY <1>a, <2>1, <3>1 DEF RecoverRemoveNew, RemoveApplication
      <4>2. ~me.activated
        BY <1>a, <2>1, <4>1 DEF ForwardActions
      <4>3. app'[nrels] = "absent"
        BY <1>0, <1>a, <2>1, <4>1
      <4>4. QED
        BY <2>1, <2>3, <4>1, <4>2, <4>3, ActionDone
    <3>2. CASE RecoverRestore
      <4>1. /\ UNCHANGED <<app, maintenance>> /\ db' \in rels[nrels].final
            /\ Head(me.plan) = "restore_final"
        BY <1>a, <2>1, <3>2 DEF RecoverRestore
      <4>2. db'.schema # Partial
        BY <1>a, <2>1, <4>1 DEF IntentOK, Sound
      <4>3. QED
        BY <2>1, <2>3, <4>1, <4>2, ActionDone
    <3>3. CASE RecoverRestart
      <4>1. /\ UNCHANGED <<db, maintenance>> /\ app' = [app EXCEPT ![me.prev] = "running"]
            /\ Head(me.plan) = "restart_previous"
        BY <3>3 DEF RecoverRestart, RestartApplication
      <4>2. ~me.activated
        BY <1>a, <2>1, <4>1 DEF ForwardActions
      <4>3. app'[nrels] = app[nrels]
        BY <1>0, <1>a, <2>1, <4>1, <4>2
      <4>4. QED
        BY <2>1, <2>3, <4>1, <4>2, <4>3, ActionDone
    <3>4. CASE RecoverRoute
      <4>1. UNCHANGED <<db, maintenance, app>> /\ Head(me.plan) = "activate_previous"
        BY <3>4 DEF RecoverRoute
      <4>2. QED
        BY <2>1, <2>3, <4>1, ActionDone
    <3>5. CASE RecoverReopen
      <4>1. UNCHANGED <<db, app>> /\ maintenance' = FALSE /\ Head(me.plan) = "disable_maintenance"
        BY <3>5 DEF RecoverReopen, SetMaintenance
      <4>2. QED
        BY <2>1, <2>3, <4>1, ActionDone
    <3>6. CASE RecoverVerify
      <4>1. /\ UNCHANGED <<db, maintenance, app>>
            /\ Head(me.plan) \in {"verify_previous", "verify_new"}
        BY <3>6 DEF RecoverVerify
      <4>2. QED
        BY <2>1, <2>3, <4>1, ActionDone
    <3>7. QED
      BY <1>5, <3>1, <3>2, <3>3, <3>4, <3>5, <3>6
  <2>4. QED
    BY <2>1, <2>2, <2>3
<1> QED
  BY <1>1, <1>2, <1>3, <1>4, <1>5 DEF RecoverStep

(* A deployment that commands the world goes on with its attempt. *)
LEMMA QuietTargets ==
    ASSUME QuietDeployStep
    PROVE  pc' \in Attempt
<1> USE DEF Attempt, Goto, Fail, Persist, RollbackOn
<1>1. CASE CandidateStage \/ CandidateFails \/ ResolvePrevious \/ ResolveFails
           \/ EnableMaintenance \/ EnableFails \/ UndoMaintenance \/ UndoFails \/ VerifyUndo
           \/ StopCurrent \/ StopFails \/ CreateFinal \/ ReplicateFinal \/ BackupFails
  BY <1>1 DEF CandidateStage, CandidateFails, ResolvePrevious, ResolveFails,
        EnableMaintenance, EnableFails, UndoMaintenance, UndoFails, VerifyUndo,
        StopCurrent, StopFails, CreateFinal, ReplicateFinal, BackupFails
<1>2. CASE StartMigration \/ MigrationNotStarted \/ FinishMigration \/ MigrationFails
           \/ StartNew \/ StartNewFails \/ CheckNew \/ ActivateNew \/ DisableMaintenance
           \/ DisableFails
  BY <1>2 DEF StartMigration, MigrationNotStarted, FinishMigration, MigrationFails,
        StartNew, StartNewFails, CheckNew, ActivateNew, DisableMaintenance, DisableFails
<1>3. CASE DispatchFailure \/ RemoveNew \/ RestoreDatabase \/ RestartPrevious
           \/ RouteOld \/ Reopen \/ VerifyPrevious \/ RollbackFails
  BY <1>3 DEF DispatchFailure, RemoveNew, RestoreDatabase, RestartPrevious, RouteOld, Reopen,
        VerifyPrevious, RollbackFails
<1> QED
  BY <1>1, <1>2, <1>3 DEF QuietDeployStep

(* No other step is taken with a plan. *)
LEMMA OtherPlan ==
    ASSUME Historic, PlanRunOK, DeployStep \/ StartDeploy \/ Unlock \/ Environment
    PROVE  PlanRunOK'
<1> USE DEF world, durable
<1>0. TypeOK
  BY DEF Historic, Typed
<1>1. CASE StartDeploy \/ Unlock \/ Crash \/ Interrupt \/ Reboot
  <2>1. pc' \notin Planned
    BY <1>1 DEF StartDeploy, Unlock, Crash, Interrupt, Reboot, ReleaseLock, Planned
  <2>2. QED
    BY <2>1 DEF PlanRunOK
<1>2. CASE (\E w \in Writes : UserWrite(w)) \/ OrphanMigrates
  <2>1. /\ UNCHANGED <<app, rels, nrels, active, maintenance, pc, me>>
        /\ db'.schema = db.schema \/ db'.schema # Partial
    BY <1>0, <1>2 DEF UserWrite, OrphanMigrates, TypeOK, Content, Partial
  <2>2. QED
    BY <2>1 DEF PlanRunOK
<1>3. CASE QuietDeployStep
  <2>1. pc \in Attempt /\ pc' \in Attempt
    BY <1>0, <1>3, QuietAttempts, QuietTargets
  <2>2. QED
    BY <2>1 DEF PlanRunOK, Attempt, Planned
<1>4. CASE DeployStep /\ ~QuietDeployStep
  <2>1. pc' \notin Planned
    BY <1>4 DEF DeployStep, QuietDeployStep, RecordOwner, CreateRelease, FailWithoutRelease,
        PersistOperation, PersistRelease, IntendMigration, AnnounceMigration,
        IntendActivation, AnnounceActivation, RecordActivation, MarkActive, SelectActive,
        Succeed, MarkRolledBack, FailRelease, FailOperation, RequireRecovery,
        RequireOperationRecovery, Goto, Planned, After
  <2>2. QED
    BY <2>1 DEF PlanRunOK
<1> QED
  BY <1>1, <1>2, <1>3, <1>4 DEF Environment

------------------------------------------------------------------------------
(* The invariant, and what follows from it.                                 *)


(* A host without a history is in order. *)
LEMMA InitWorld == Init => WorldOK
<1> SUFFICES ASSUME Init PROVE WorldOK
  OBVIOUS
<1>1. /\ nrels = 0 /\ active = 0 /\ pc = "idle" /\ target = 0 /\ ~maintenance /\ orphan = 0
      /\ db.schema = 0 /\ me.final = {}
      /\ \A r \in Releases : rels[r] = NoManifest /\ app[r] = "absent"
      /\ \A a \in Apps : app[a] = "running" => a = 0
  BY DEF Init, NoContext
<1>2. /\ NoManifest.status = "created" /\ NoManifest.final = {} /\ ~NoManifest.attempted
      /\ ~NoManifest.migration_started /\ ~NoManifest.activated /\ NoManifest.resolved_by = 0
  BY DEF NoManifest
<1>3. ManifestsOK
  <2>1. ValidManifest(NoManifest)
    BY <1>2 DEF ValidManifest, CutoverStages
  <2>2. QED
    BY <1>1, <1>2, <2>1 DEF ManifestsOK, CutoverStages
<1>4. StartOK /\ AttemptOK /\ JournalOK /\ AttemptAppsOK /\ PlanRunOK
  BY <1>1 DEF StartOK, Starting, AttemptOK, AttemptAppsOK, Attempt, PlanRunOK, Planned,
              JournalOK, BeforeAnnouncement
<1>5. AppsOK
  BY <1>1 DEF AppsOK
<1>6. IntentOK
  BY <1>1, <1>2 DEF IntentOK
<1>7. PartialOK
  BY <1>1 DEF PartialOK, Partial, Attempt
<1>8. MaintenanceOK
  BY <1>1 DEF MaintenanceOK
<1> QED
  BY <1>3, <1>4, <1>5, <1>6, <1>7, <1>8 DEF WorldOK

(* The invariant does not depend on what is not written. *)
LEMMA StutterWorld ==
    ASSUME WorldOK, UNCHANGED vars
    PROVE  WorldOK'
<1>1. UNCHANGED <<ops, nops, rels, nrels, active, app, target, maintenance, db, orphan, pc, me>>
  BY DEF vars, durable, world
<1>2. ManifestsOK' /\ StartOK' /\ AttemptOK' /\ JournalOK' /\ AppsOK'
  BY <1>1 DEF WorldOK, ManifestsOK, StartOK, AttemptOK, JournalOK, AppsOK, StageFits
<1>3. AttemptAppsOK' /\ IntentOK' /\ PartialOK' /\ MaintenanceOK'
  BY <1>1 DEF WorldOK, AttemptAppsOK, IntentOK, Sound, PartialOK, MaintenanceOK
<1>4. PlanRunOK'
  BY <1>1 DEF WorldOK, PlanRunOK
<1> QED
  BY <1>2, <1>3, <1>4 DEF WorldOK

(* Every step keeps the world in order. *)
LEMMA NextWorld == Historic /\ WorldOK /\ [Next]_vars => WorldOK'
<1> SUFFICES ASSUME Historic, WorldOK, [Next]_vars PROVE WorldOK'
  OBVIOUS
<1>0. /\ ManifestsOK /\ StartOK /\ AttemptOK /\ JournalOK /\ AppsOK /\ AttemptAppsOK
      /\ IntentOK /\ PartialOK /\ MaintenanceOK /\ PlanRunOK
  BY DEF WorldOK
<1>1. CASE UNCHANGED vars
  BY <1>1, StutterWorld
<1>2. CASE DeployStep
  <2>1. Next
    BY <1>2 DEF Next, CommandStep
  <2>2. ManifestsOK' /\ StartOK' /\ PlanRunOK'
    BY <1>0, <1>2, DeployManifests, DeployStarted, OtherPlan
  <2>3. CASE QuietDeployStep
    <3>1. AttemptOK' /\ JournalOK' /\ AppsOK' /\ AttemptAppsOK'
      BY <1>0, <2>3, QuietAttempt, QuietJournal, QuietApps, QuietAttemptApps
    <3>2. IntentOK' /\ PartialOK' /\ MaintenanceOK'
      BY <1>0, <2>1, <2>3, QuietIntent, IntentKept, QuietPartial, QuietMaintenance
    <3>3. QED
      BY <2>2, <3>1, <3>2 DEF WorldOK
  <2>4. CASE ~QuietDeployStep
    <3>1. AttemptOK' /\ JournalOK' /\ AppsOK' /\ AttemptAppsOK'
      BY <1>0, <1>2, <2>4, StoringAttempt, StoringJournal, StoringApps
    <3>2. IntentOK' /\ PartialOK' /\ MaintenanceOK'
      BY <1>0, <1>2, <2>1, <2>4, StoringIntent, IntentKept, StoringPartial, StoringMaintenance
    <3>3. QED
      BY <2>2, <3>1, <3>2 DEF WorldOK
  <2>5. QED
    BY <2>3, <2>4
<1>3. CASE RecoverStep
  <2>1. Next
    BY <1>3 DEF Next, CommandStep
  <2>2. ManifestsOK' /\ StartOK' /\ PlanRunOK' /\ AttemptOK' /\ JournalOK'
    BY <1>0, <1>3, RecoverManifests, OtherAttempt, OtherJournal, RecoverPlan
  <2>3. AppsOK' /\ AttemptAppsOK'
    BY <1>0, <1>3, RecoverApps
  <2>4. IntentOK' /\ PartialOK' /\ MaintenanceOK'
    BY <1>0, <1>3, <2>1, RecoverIntent, IntentKept, RecoverPartial, RecoverMaintenance
  <2>5. QED
    BY <2>2, <2>3, <2>4 DEF WorldOK
<1>4. CASE StartDeploy \/ StartRecover \/ Unlock \/ Environment
  <2>1. Next /\ UNCHANGED <<rels, nrels, active>>
    BY <1>4 DEF Next, CommandStep, StartDeploy, StartRecover, Unlock, Environment, durable,
                UserWrite, Crash, Interrupt, Reboot, OrphanMigrates
  <2>2. ManifestsOK' /\ StartOK' /\ AttemptOK' /\ JournalOK'
    BY <1>0, <1>4, <2>1, ManifestsUntouched, OtherAttempt, OtherJournal
  <2>3. AppsOK' /\ AttemptAppsOK'
    BY <1>0, <1>4, OtherApps
  <2>4. IntentOK' /\ PartialOK' /\ MaintenanceOK'
    BY <1>0, <1>4, <2>1, OtherIntent, IntentKept, OtherPartial, OtherMaintenance
  <2>5. PlanRunOK'
    BY <1>0, <1>4, Diagnosed, OtherPlan
  <2>6. QED
    BY <2>2, <2>3, <2>4, <2>5 DEF WorldOK
<1> QED
  BY <1>1, <1>2, <1>3, <1>4 DEF Next, CommandStep

(* The world is in order in every state of every behaviour. *)
LEMMA AlwaysWorld == Spec => [](Historic /\ WorldOK)
<1>1. Init => Historic /\ WorldOK
  BY InitHistoric, InitWorld
<1>2. Historic /\ WorldOK /\ [Next]_vars => (Historic /\ WorldOK)'
  BY NextHistoric, NextWorld
<1> QED
  BY <1>1, <1>2, PTL DEF Spec

------------------------------------------------------------------------------
(* What follows for the safety properties.                                  *)

(* For every value of the constants and under every fault, two releases    *)
(* never run on the production database at once: each cutover stops the    *)
(* previous application before it starts the new one, and every rollback   *)
(* and recovery removes the new one before it restarts the previous.       *)
THEOREM OneApp == Spec => []OneAppOnDatabase
<1>1. Historic /\ WorldOK => OneAppOnDatabase
  BY DEF WorldOK, AppsOK, OneAppOnDatabase
<1> QED
  BY <1>1, AlwaysWorld, PTL

(* For every value of the constants and under every fault, the intent of a *)
(* migration or an activation is durable before its effect: what recovery  *)
(* reads in the manifests is never behind what happened to production.     *)
THEOREM IntentFirst == Spec => []IntentBeforeEffect
<1>1. Historic /\ WorldOK => IntentBeforeEffect
  <2> SUFFICES ASSUME Historic, WorldOK PROVE IntentBeforeEffect
    OBVIOUS
  <2>1. nrels \in 0..MaxRel
    BY DEF Historic, Typed, TypeOK
  <2>2. db.schema = Partial => \E r \in Unresolved : rels[r].migration_started
    BY <2>1 DEF WorldOK, PartialOK, Unresolved
  <2>3. QED
    BY <2>2 DEF WorldOK, IntentOK, IntentBeforeEffect
<1> QED
  BY <1>1, AlwaysWorld, PTL

(* For every value of the constants and under every fault, users are never *)
(* left blocked without an unfinished operation that says so.              *)
THEOREM MaintenanceIsTold == Spec => []NoSilentMaintenance
<1>1. Historic /\ WorldOK => NoSilentMaintenance
  <2> SUFFICES ASSUME Historic, WorldOK, maintenance
               PROVE  ops[nops].status \in {"in_progress", "recovery_required"}
    BY DEF NoSilentMaintenance
  <2>1. nops \in 0..MaxOps /\ nrels \in 0..MaxRel
    BY DEF Historic, Typed, TypeOK
  <2>2. nrels \in 1..nrels /\ rels[nrels].status \notin ResolvedStates
    BY <2>1 DEF WorldOK, MaintenanceOK
  <2>3. nops # 0 /\ ops[nops].status \notin {"succeeded", "failed_safe"}
    BY <2>2 DEF Historic, HistoryOK, AdmissionOK, Settled
  <2>4. ops[nops].status \in OperationStatus /\ ops[nops].status # "none"
    BY <2>1, <2>3 DEF Historic, Typed, TypeOK, OperationRecord, HistoryOK, OperationsOK
  <2>5. QED
    BY <2>3, <2>4 DEF OperationStatus
<1> QED
  BY <1>1, AlwaysWorld, PTL

(* For every value of the constants and under every fault, a recovery that *)
(* reached its last action finds in the manifest the evidence that the     *)
(* outcome requires, so it does not fail after it has changed production.  *)
THEOREM RecoveryMarks == Spec => []RecoveredReleaseIsMarked
<1>1. Historic /\ WorldOK => RecoveredReleaseIsMarked
  <2> SUFFICES ASSUME Historic, WorldOK, pc = "perform",
                      Head(me.plan) \in {"mark_rolled_back", "mark_active"}
               PROVE  Resolvable(rels[me.rel], ResolvedRelease(me.rel))
    BY DEF RecoveredReleaseIsMarked
  <2>1. pc \in Planned /\ pc \in Taken
    BY DEF Planned, Taken
  <2>2. /\ me \in Context /\ me.rel = nrels /\ nrels \in Releases /\ rels[nrels] \in Manifest
    BY <2>1, DuringPlan
  <2>3. /\ rels[nrels].status = "recovery_required" /\ me.prev = rels[nrels].prev
        /\ me.activated => rels[nrels].attempted
        /\ ~me.activated => me.prev = active
    BY <2>1 DEF WorldOK, PlanRunOK
  <2>4. /\ ValidManifest(rels[nrels]) /\ rels[nrels].rehearsed
        /\ rels[nrels].final # {} => rels[nrels].prev # NoApp
    BY <2>2, <2>3 DEF WorldOK, ManifestsOK
  <2>5. rels[nrels].attempted => rels[nrels].migration_started /\ rels[nrels].changed
                                 /\ rels[nrels].new /\ rels[nrels].final # {}
    BY <2>4 DEF ValidManifest
  <2>6. rels[nrels].prev # NoApp
    <3>1. active # NoApp
      BY DEF Historic, Typed, TypeOK, NoApp
    <3>2. QED
      BY <2>2, <2>3, <2>4, <2>5, <3>1 DEF Context
  <2> DEFINE m == ResolvedRelease(nrels)
  <2>7. /\ m.status = (IF me.activated THEN "active" ELSE "rolled_back")
        /\ m.activated = me.activated /\ m.prev = rels[nrels].prev
        /\ m.rehearsed = rels[nrels].rehearsed /\ m.attempted = rels[nrels].attempted
        /\ m.migration_started = rels[nrels].migration_started
        /\ m.changed = rels[nrels].changed /\ m.new = rels[nrels].new
        /\ m.final = rels[nrels].final
    BY <2>2 DEF ResolvedRelease, Manifest
  <2> HIDE DEF m
  <2>8. me.activated \in BOOLEAN
    BY <2>2 DEF Context
  <2>9. ValidManifest(m)
    <3>1. CASE me.activated
      BY <2>3, <2>4, <2>5, <2>6, <2>7, <3>1 DEF ValidManifest, CutoverStages
    <3>2. CASE ~me.activated
      BY <2>3, <2>4, <2>5, <2>6, <2>7, <3>2 DEF ValidManifest, CutoverStages
    <3>3. QED
      BY <3>1, <3>2
  <2>10. QED
    BY <2>2, <2>3, <2>9 DEF Resolvable, m
<1> QED
  BY <1>1, AlwaysWorld, PTL


(* The manifest of the stage that a deployment persists is accepted. *)
LEMMA StageAccepted ==
    ASSUME Historic, ManifestsOK, AttemptOK, pc = "persist_release"
    PROVE  Accepted(rels[nrels], StageChanges(rels[nrels], me.stage))
<1> DEFINE m == StageChanges(rels[nrels], me.stage)
<1>1. pc \in Attempt /\ pc \in Persisting
  BY DEF Attempt, Persisting
<1>2. me \in Context /\ nrels \in Releases /\ rels[nrels] \in Manifest
  BY <1>1, DuringAttempt
<1>3. /\ me.stage \in TRANSITIONS(rels[nrels].status)
      /\ me.stage \in (CandidateStages \cup CutoverStages) \ {"created"}
      /\ me.stage \in BackedUp => me.final # {}
      /\ me.stage \in Migrated => me.changed
      /\ me.changed <=> rels[nrels].migration_started
      /\ me.activated <=> me.stage = "traffic_activated"
      /\ me.activated => rels[nrels].attempted
  BY <1>1 DEF AttemptOK, StageFits
<1>4. me.stage \in CutoverStages => me.prev # NoApp
  BY DEF Historic, Typed, ContextOK
<1>5. /\ ValidManifest(rels[nrels])
      /\ rels[nrels].status \in CutoverStages => rels[nrels].prev # NoApp
  BY <1>2 DEF ManifestsOK
<1>6. /\ m.status = me.stage
      /\ m.prev = IF me.stage \in {"maintenance_enabled", "current_app_stopped"}
                  THEN me.prev ELSE rels[nrels].prev
      /\ m.rehearsed = (rels[nrels].rehearsed \/ me.stage = "snapshot_verified")
      /\ m.final = IF me.stage = "final_snapshot_verified" THEN me.final ELSE rels[nrels].final
      /\ m.new = (rels[nrels].new \/ me.stage = "new_app_healthy")
      /\ m.changed = (rels[nrels].changed \/ me.changed)
      /\ m.activated = (rels[nrels].activated \/ me.stage = "traffic_activated")
      /\ m.migration_started = rels[nrels].migration_started
      /\ m.attempted = rels[nrels].attempted /\ m.resolved_by = rels[nrels].resolved_by
  BY <1>2 DEF StageChanges, Manifest
<1> HIDE DEF m
<1>7. rels[nrels].status \in CandidateStages \cup CutoverStages
  BY <1>2, <1>3 DEF Manifest, DeploymentState, TerminalStates, ResolvedStates, TRANSITIONS
<1>8. m.rehearsed \/ m.status = "preflight_passed"
  BY <1>3, <1>5, <1>6, <1>7 DEF TRANSITIONS, CandidateStages, CutoverStages, ValidManifest
<1>9. m.status \in CutoverStages \ {"maintenance_enabled"} => m.prev # NoApp
  BY <1>3, <1>4, <1>5, <1>6, <1>7 DEF TRANSITIONS, CandidateStages, CutoverStages
<1>10. /\ m.activated <=> m.status = "traffic_activated"
       /\ m.activated => m.changed /\ m.attempted
  BY <1>3, <1>5, <1>6, <1>7 DEF TRANSITIONS, CandidateStages, CutoverStages, ValidManifest
<1>11. /\ m.migration_started => m.final # {}
       /\ m.attempted => m.migration_started /\ m.changed /\ m.new
  BY <1>3, <1>5, <1>6 DEF BackedUp, ValidManifest
<1>12. m.status \in Migrated => m.final # {} /\ m.changed /\ m.migration_started
  BY <1>3, <1>6, <1>11
<1>13. m.status \in {"new_app_healthy", "traffic_activated"} => m.new
  BY <1>3, <1>5, <1>6, <1>7 DEF TRANSITIONS, CandidateStages, CutoverStages, ValidManifest
<1>14. m.resolved_by = 0
  BY <1>5, <1>6, <1>7 DEF CandidateStages, CutoverStages, ValidManifest
<1>15. m.status \in (CandidateStages \cup CutoverStages) \ {"created"}
  BY <1>3, <1>6
<1>16. ValidManifest(m)
  BY <1>8, <1>9, <1>10, <1>11, <1>12, <1>13, <1>14, <1>15
  DEF ValidManifest, Migrated, CandidateStages, CutoverStages
<1> QED
  BY <1>3, <1>6, <1>16 DEF Accepted, m

(* The manifest of the outcome of a deployment is accepted. *)
LEMMA OutcomeAccepted ==
    ASSUME Historic, ManifestsOK, AttemptOK
    PROVE  /\ pc = "mark_active" =>
                 Accepted(rels[nrels], [rels[nrels] EXCEPT !.status = "active"])
           /\ pc = "mark_rolled_back" =>
                 Accepted(rels[nrels], [rels[nrels] EXCEPT !.status = "rolled_back",
                                                           !.changed = me.changed])
           /\ pc = "fail_release" =>
                 Accepted(rels[nrels], [rels[nrels] EXCEPT !.status = "failed_safe",
                                                           !.changed = me.changed])
<1> SUFFICES ASSUME pc \in {"mark_active", "mark_rolled_back", "fail_release"} PROVE
           /\ pc = "mark_active" =>
                 Accepted(rels[nrels], [rels[nrels] EXCEPT !.status = "active"])
           /\ pc = "mark_rolled_back" =>
                 Accepted(rels[nrels], [rels[nrels] EXCEPT !.status = "rolled_back",
                                                           !.changed = me.changed])
           /\ pc = "fail_release" =>
                 Accepted(rels[nrels], [rels[nrels] EXCEPT !.status = "failed_safe",
                                                           !.changed = me.changed])
  OBVIOUS
<1>1. pc \in Attempt
  BY DEF Attempt
<1>2. me \in Context /\ nrels \in Releases /\ rels[nrels] \in Manifest
  BY <1>1, DuringAttempt
<1>3. /\ rels[nrels].status = me.stage
      /\ me.changed <=> rels[nrels].migration_started
      /\ me.stage \in Early => ~me.changed
      /\ pc = "mark_active" => me.stage = "traffic_activated"
      /\ pc = "mark_rolled_back" => me.stage = "rollback_started"
      /\ pc = "fail_release" => me.stage \in CandidateStages
  BY <1>1 DEF AttemptOK, StageFits, Persisting, Removed
<1>4. ValidManifest(rels[nrels])
  BY <1>2 DEF ManifestsOK
<1>5. CASE pc = "mark_active"
  <2> DEFINE m == [rels[nrels] EXCEPT !.status = "active"]
  <2>1. /\ m.status = "active" /\ m.prev = rels[nrels].prev /\ m.final = rels[nrels].final
        /\ m.rehearsed = rels[nrels].rehearsed /\ m.new = rels[nrels].new
        /\ m.changed = rels[nrels].changed /\ m.activated = rels[nrels].activated
        /\ m.migration_started = rels[nrels].migration_started
        /\ m.attempted = rels[nrels].attempted /\ m.resolved_by = rels[nrels].resolved_by
    BY <1>2 DEF Manifest
  <2> HIDE DEF m
  <2>2. ValidManifest(m)
    BY <1>3, <1>4, <1>5, <2>1 DEF ValidManifest, CutoverStages
  <2>3. Accepted(rels[nrels], m)
    BY <1>3, <1>5, <2>1, <2>2 DEF Accepted, TRANSITIONS
  <2>4. QED
    BY <1>5, <2>3 DEF m
<1>6. CASE pc = "mark_rolled_back"
  <2> DEFINE m == [rels[nrels] EXCEPT !.status = "rolled_back", !.changed = me.changed]
  <2>1. /\ m.status = "rolled_back" /\ m.prev = rels[nrels].prev /\ m.final = rels[nrels].final
        /\ m.rehearsed = rels[nrels].rehearsed /\ m.new = rels[nrels].new
        /\ m.changed = me.changed /\ m.activated = rels[nrels].activated
        /\ m.migration_started = rels[nrels].migration_started
        /\ m.attempted = rels[nrels].attempted /\ m.resolved_by = rels[nrels].resolved_by
    BY <1>2 DEF Manifest
  <2> HIDE DEF m
  <2>2. ValidManifest(m)
    BY <1>3, <1>4, <1>6, <2>1 DEF ValidManifest, CutoverStages
  <2>3. Accepted(rels[nrels], m)
    BY <1>3, <1>6, <2>1, <2>2 DEF Accepted, TRANSITIONS
  <2>4. QED
    BY <1>6, <2>3 DEF m
<1>7. CASE pc = "fail_release"
  <2> DEFINE m == [rels[nrels] EXCEPT !.status = "failed_safe", !.changed = me.changed]
  <2>1. /\ m.status = "failed_safe" /\ m.prev = rels[nrels].prev /\ m.final = rels[nrels].final
        /\ m.rehearsed = rels[nrels].rehearsed /\ m.new = rels[nrels].new
        /\ m.changed = me.changed /\ m.activated = rels[nrels].activated
        /\ m.migration_started = rels[nrels].migration_started
        /\ m.attempted = rels[nrels].attempted /\ m.resolved_by = rels[nrels].resolved_by
    BY <1>2 DEF Manifest
  <2> HIDE DEF m
  <2>2. ~me.changed /\ me.stage \in CandidateStages
    BY <1>3, <1>7 DEF Early
  <2>3. ValidManifest(m)
    BY <1>3, <1>4, <2>1, <2>2 DEF ValidManifest, CutoverStages, CandidateStages
  <2>4. Accepted(rels[nrels], m)
    BY <1>3, <2>1, <2>2, <2>3 DEF Accepted, TRANSITIONS, CandidateStages
  <2>5. QED
    BY <1>7, <2>4 DEF m
<1> QED
  BY <1>5, <1>6, <1>7

(* The journal accepts the stage that a deployment persists, what it       *)
(* announces, and every event and end while its operation is in progress.  *)
LEMMA JournalAccepted ==
    ASSUME Historic, AttemptOK, JournalOK
    PROVE  /\ pc = "persist" => JournalAccepts("in_progress", me.stage)
           /\ pc = "announce_migration" =>
                 JournalAccepts("in_progress", "production_migration_started")
           /\ pc = "announce_activation" =>
                 JournalAccepts("in_progress", "traffic_activation_started")
           /\ pc \in {"create_release", "record_hook", "succeed", "fail_operation",
                      "require_operation_recovery"} => ops[me.op].status = "in_progress"
<1>1. pc \in Starting \cup Closing \cup Plain =>
          me.op = nops /\ ops[nops].status = "in_progress"
  BY DEF Historic, HistoryOK, RunOK
<1>2. CASE pc = "persist"
  <2>1. /\ me.stage \in TRANSITIONS(rels[nrels].status)
        /\ me.stage \in CandidateStages \cup CutoverStages
    BY <1>2 DEF AttemptOK, StageFits, Attempt, Persisting
  <2>2. me.stage # rels[nrels].status
    BY <2>1 DEF TRANSITIONS
  <2>3. me.stage \notin Announcements
    BY <2>1 DEF CandidateStages, CutoverStages, Announcements
  <2>4. ops[nops].stage # me.stage
    BY <1>2, <2>2, <2>3 DEF JournalOK, Attempt
  <2>5. QED
    BY <1>1, <1>2, <2>4 DEF JournalAccepts, Plain, Steps, Starting, Taking, Closing
<1>3. CASE pc \in {"announce_migration", "announce_activation"}
  <2>1. ops[nops].stage \in {"final_snapshot_verified", "new_app_healthy"}
    BY <1>3 DEF JournalOK, BeforeAnnouncement, AttemptOK, StageFits, Attempt, Persisting
  <2>2. QED
    BY <1>1, <1>3, <2>1 DEF JournalAccepts, Plain, Steps, Starting, Taking, Closing
<1>4. CASE pc \in {"create_release", "record_hook", "succeed", "fail_operation",
                  "require_operation_recovery"}
  BY <1>1, <1>4 DEF Plain, Steps, Starting, Taking, Closing
<1> QED
  BY <1>2, <1>3, <1>4

(* The release store accepts both intents. *)
LEMMA IntentsAccepted ==
    ASSUME Historic, ManifestsOK, AttemptOK
    PROVE  /\ pc = "intend_migration" =>
                 IntentAccepted([rels[nrels] EXCEPT !.migration_started = TRUE])
           /\ pc = "intend_activation" =>
                 IntentAccepted([rels[nrels] EXCEPT !.attempted = TRUE])
<1> SUFFICES ASSUME pc \in {"intend_migration", "intend_activation"} PROVE
           /\ pc = "intend_migration" =>
                 IntentAccepted([rels[nrels] EXCEPT !.migration_started = TRUE])
           /\ pc = "intend_activation" =>
                 IntentAccepted([rels[nrels] EXCEPT !.attempted = TRUE])
  OBVIOUS
<1>1. pc \in Attempt
  BY DEF Attempt
<1>2. me.rel = nrels /\ nrels \in Releases /\ rels[nrels] \in Manifest
  BY <1>1, DuringAttempt
<1>3. /\ pc = "intend_migration" =>
            rels[nrels].status = "final_snapshot_verified" /\ rels[nrels].final # {}
      /\ pc = "intend_activation" => rels[nrels].status = "new_app_healthy"
  BY <1>1 DEF AttemptOK, StageFits, Persisting
<1>4. ValidManifest(rels[nrels]) /\ rels[nrels].status \notin TerminalStates
  BY <1>2, <1>3 DEF ManifestsOK, TerminalStates, ResolvedStates
<1>5. CASE pc = "intend_migration"
  <2> DEFINE m == [rels[nrels] EXCEPT !.migration_started = TRUE]
  <2>1. /\ m.status = rels[nrels].status /\ m.prev = rels[nrels].prev
        /\ m.final = rels[nrels].final /\ m.rehearsed = rels[nrels].rehearsed
        /\ m.new = rels[nrels].new /\ m.changed = rels[nrels].changed
        /\ m.activated = rels[nrels].activated /\ m.attempted = rels[nrels].attempted
        /\ m.resolved_by = rels[nrels].resolved_by /\ m.migration_started = TRUE
    BY <1>2 DEF Manifest
  <2> HIDE DEF m
  <2>2. ValidManifest(m)
    BY <1>3, <1>4, <1>5, <2>1 DEF ValidManifest
  <2>3. QED
    BY <1>2, <1>4, <1>5, <2>1, <2>2 DEF IntentAccepted, m
<1>6. CASE pc = "intend_activation"
  <2> DEFINE m == [rels[nrels] EXCEPT !.attempted = TRUE]
  <2>1. /\ m.status = rels[nrels].status /\ m.prev = rels[nrels].prev
        /\ m.final = rels[nrels].final /\ m.rehearsed = rels[nrels].rehearsed
        /\ m.new = rels[nrels].new /\ m.changed = rels[nrels].changed
        /\ m.activated = rels[nrels].activated /\ m.attempted = TRUE
        /\ m.resolved_by = rels[nrels].resolved_by
        /\ m.migration_started = rels[nrels].migration_started
    BY <1>2 DEF Manifest
  <2> HIDE DEF m
  <2>2. ValidManifest(m)
    BY <1>3, <1>4, <1>6, <2>1 DEF ValidManifest
  <2>3. QED
    BY <1>2, <1>4, <1>6, <2>1, <2>2 DEF IntentAccepted, m
<1> QED
  BY <1>5, <1>6

(* For every value of the constants and under every fault, no check of the *)
(* stores stops a deployment: the journal accepts every stage, both        *)
(* announcements, the hook event and every end, the release store both     *)
(* intents, every stage and every outcome but the mark recovery_required,  *)
(* the pointer file the selection; and a rollback has the evidence that    *)
(* the restore demands.                                                     *)
THEOREM WritesAccepted == Spec => []DeployWritesAccepted
<1>1. Historic /\ WorldOK => DeployWritesAccepted
  <2> SUFFICES ASSUME Historic, WorldOK PROVE DeployWritesAccepted
    OBVIOUS
  <2>1. ManifestsOK /\ AttemptOK /\ JournalOK
    BY DEF WorldOK
  <2>2. /\ pc \in {"persist_release", "mark_active", "mark_rolled_back", "fail_release",
                   "intend_migration", "intend_activation"} => me.rel = nrels
        /\ pc = "select_active" => me.rel = nrels /\ rels[nrels].status = "active"
    BY DuringAttempt DEF Attempt, Historic, HistoryOK, RunOK, Closing
  <2>3. pc = "restore" /\ me.changed => me.stopped /\ me.final # {} /\ ~me.activated
    BY <2>1 DEF AttemptOK, StageFits, Attempt, Removed
  <2>4. /\ pc = "intend_migration" =>
              IntentAccepted([rels[me.rel] EXCEPT !.migration_started = TRUE])
        /\ pc = "intend_activation" =>
              IntentAccepted([rels[me.rel] EXCEPT !.attempted = TRUE])
    BY <2>1, <2>2, IntentsAccepted
  <2>5. /\ pc = "persist_release" =>
              Accepted(rels[me.rel], StageChanges(rels[me.rel], me.stage))
        /\ pc = "mark_active" =>
              Accepted(rels[me.rel], [rels[me.rel] EXCEPT !.status = "active"])
        /\ pc = "mark_rolled_back" =>
              Accepted(rels[me.rel], [rels[me.rel] EXCEPT !.status = "rolled_back",
                                                          !.changed = me.changed])
        /\ pc = "fail_release" =>
              Accepted(rels[me.rel], [rels[me.rel] EXCEPT !.status = "failed_safe",
                                                          !.changed = me.changed])
    BY <2>1, <2>2, StageAccepted, OutcomeAccepted
  <2>6. QED
    BY <2>1, <2>2, <2>3, <2>4, <2>5, JournalAccepted DEF DeployWritesAccepted
<1> QED
  BY <1>1, AlwaysWorld, PTL

------------------------------------------------------------------------------
(* The service contract.                                                    *)


(* The phase follows the status of the newest operation. *)
LEMMA PhaseOfStatus ==
    /\ nops # 0 /\ ops[nops].status = "in_progress" => Phase = "changing"
    /\ nops # 0 /\ ops[nops].status = "recovery_required" => Phase = "blocked"
    /\ nops = 0 \/ ops[nops].status \notin {"in_progress", "recovery_required"} =>
          Phase = "serving"
    BY DEF Phase

(* The same in the next state. *)
LEMMA NextPhaseOfStatus ==
    /\ nops' # 0 /\ ops'[nops'].status = "in_progress" => Phase' = "changing"
    /\ nops' # 0 /\ ops'[nops'].status = "recovery_required" => Phase' = "blocked"
    /\ nops' = 0 \/ ops'[nops'].status \notin {"in_progress", "recovery_required"} =>
          Phase' = "serving"
    BY DEF Phase

(* A write to the operation that runs is progress, an end or a block. *)
LEMMA OperationMovesPhase ==
    ASSUME Historic, pc \in Starting \cup Closing \cup Plain, NEW s, NEW g, NEW c,
           TransitionOperation(s, g, c),
           s \in {"in_progress", "succeeded", "failed_safe", "recovery_required"},
           UNCHANGED <<nops, active, acked>>
    PROVE  [Contract!Next]_(Contract!vars)
<1>1. me.op = nops /\ nops \in Operations /\ TypeOK /\ nops # 0
  BY DEF Historic, Typed, HistoryOK, RunOK
<1>2. ops[nops].status = "in_progress" /\ ops'[nops].status = s
  BY <1>1, OperationWritten
<1>3. Phase = "changing"
  BY <1>1, <1>2, PhaseOfStatus
<1>4. CASE s = "in_progress"
  <2>1. Phase' = "changing"
    BY <1>1, <1>2, <1>4, NextPhaseOfStatus
  <2>2. QED
    BY <1>3, <2>1 DEF Contract!vars
<1>5. CASE s = "recovery_required"
  <2>1. Phase' = "blocked"
    BY <1>1, <1>2, <1>5, NextPhaseOfStatus
  <2>2. QED
    BY <1>3, <2>1 DEF Contract!Next, Contract!Block
<1>6. CASE s \in {"succeeded", "failed_safe"}
  <2>1. Phase' = "serving"
    BY <1>1, <1>2, <1>6, NextPhaseOfStatus
  <2>2. QED
    BY <1>3, <2>1 DEF Contract!Next, Contract!Finish
<1> QED
  BY <1>4, <1>5, <1>6

(* A new operation begins a change, on a service that is not changing. *)
LEMMA OperationBeginsChange ==
    ASSUME Historic, NEW o, CreateOperation(o), o.status = "in_progress",
           nops = 0 \/ ops[nops].status # "in_progress",
           UNCHANGED <<active, acked>>
    PROVE  [Contract!Next]_(Contract!vars)
<1>1. TypeOK /\ nops \in 0..MaxOps
  BY DEF Historic, Typed, TypeOK
<1>2. nops' = nops + 1 /\ nops' # 0 /\ nops < MaxOps
  BY <1>1 DEF CreateOperation
<1>3. ops'[nops'].status = "in_progress"
  BY <1>1, <1>2 DEF CreateOperation, TypeOK
<1>4. Phase' = "changing"
  BY <1>2, <1>3, NextPhaseOfStatus
<1>5. Phase \in {"serving", "blocked"}
  BY PhaseOfStatus
<1> QED
  BY <1>2, <1>4, <1>5 DEF Contract!Next, Contract!Begin

(* The pointer file moves forward, while the service is changing. *)
LEMMA SelectionSwitches ==
    ASSUME Historic, SelectActive \/ SelectRecovered
    PROVE  [Contract!Next]_(Contract!vars)
<1> USE DEF world
<1>1. pc \in Closing /\ UNCHANGED <<ops, nops, acked>>
  BY DEF SelectActive, SelectRecovered, Closing
<1>2. /\ me.rel = nrels /\ nops \in Operations /\ ops[nops].status = "in_progress" /\ nops # 0
  BY <1>1 DEF Historic, HistoryOK, RunOK
<1>3. Phase = "changing" /\ Phase' = "changing"
  BY <1>1, <1>2, PhaseOfStatus, NextPhaseOfStatus
<1>4. active \in 0..MaxRel /\ active <= nrels /\ nrels \in 0..MaxRel
  BY DEF Historic, Typed, TypeOK, HistoryOK, PointersOK
<1>5. active' = active \/ (active' = nrels /\ active # nrels)
  BY <1>2 DEF SelectActive, SelectRecovered, ActivateRelease
<1>6. CASE active' = active
  BY <1>1, <1>3, <1>6 DEF Contract!vars
<1>7. CASE active' = nrels /\ active # nrels
  <2>1. nrels \in 1..MaxRel /\ nrels > active
    BY <1>4, <1>7
  <2>2. Contract!Switch(nrels)
    BY <1>1, <1>3, <1>7, <2>1 DEF Contract!Switch
  <2>3. QED
    BY <2>1, <2>2 DEF Contract!Next
<1> QED
  BY <1>5, <1>6, <1>7

(* The takeover blocks the service of the operation that was interrupted. *)
LEMMA TakeoverBlocks ==
    ASSUME Historic, Supersede
    PROVE  [Contract!Next]_(Contract!vars)
<1> USE DEF world
<1>1. TypeOK /\ UNCHANGED <<nops, active, acked>>
  BY DEF Historic, Typed, Supersede
<1>2. CASE UNCHANGED ops
  <2>1. Phase' = Phase
    BY <1>1, <1>2 DEF Phase
  <2>2. QED
    BY <1>1, <2>1 DEF Contract!vars
<1>3. CASE ~UNCHANGED ops
  <2>1. PICK o \in Unfinished :
            ops' = [ops EXCEPT ![o] = [@ EXCEPT !.status = "recovery_required",
                                                !.stage = "recovery_required",
                                                !.changed = ops[o].changed \/ me.changed]]
    BY <1>3 DEF Supersede
  <2>2. o = nops /\ nops \in Operations /\ ops[nops].status = "in_progress" /\ nops # 0
    BY DEF Unfinished, Historic, HistoryOK, OperationsOK
  <2>3. ops'[nops].status = "recovery_required"
    BY <1>1, <2>1, <2>2 DEF TypeOK, OperationRecord
  <2>4. Phase = "changing" /\ Phase' = "blocked"
    BY <1>1, <2>2, <2>3, PhaseOfStatus, NextPhaseOfStatus
  <2>5. QED
    BY <1>1, <2>4 DEF Contract!Next, Contract!Block
<1> QED
  BY <1>2, <1>3

(* Every step of the system is one of the contract, or invisible to it. *)
LEMMA StepsKeepContract ==
    ASSUME Historic, [Next]_vars
    PROVE  [Contract!Next]_(Contract!vars)
<1> USE DEF durable, world
<1>0. TypeOK /\ HistoryOK
  BY DEF Historic, Typed
<1>1. ASSUME UNCHANGED <<ops, nops, active, acked>> PROVE [Contract!Next]_(Contract!vars)
  <2>1. Phase' = Phase
    BY <1>1 DEF Phase
  <2>2. QED
    BY <1>1, <2>1 DEF Contract!vars
<1>2. CASE UNCHANGED vars
  BY <1>1, <1>2 DEF vars
<1>3. ASSUME NEW w \in Writes, UserWrite(w) PROVE [Contract!Next]_(Contract!vars)
  <2>1. UNCHANGED <<ops, nops, active>> /\ w \notin acked /\ acked' = acked \cup {w}
    BY <1>3 DEF UserWrite
  <2>2. Phase' = Phase
    BY <2>1 DEF Phase
  <2>3. Contract!Write(w)
    BY <2>1, <2>2 DEF Contract!Write
  <2>4. QED
    BY <2>3 DEF Contract!Next
<1>4. CASE Crash \/ Interrupt \/ Reboot \/ OrphanMigrates \/ Unlock \/ StartRecover
  BY <1>1, <1>4 DEF Crash, Interrupt, Reboot, OrphanMigrates, Unlock, StartRecover
<1>5. CASE StartDeploy
  <2> DEFINE o == [NoOperation EXCEPT !.type = "deploy", !.status = "in_progress",
                                      !.stage = "created"]
  <2>1. /\ CreateOperation(o) /\ o.status = "in_progress"
        /\ nops > 0 => ops[nops].status # "in_progress"
        /\ UNCHANGED <<active, acked>>
    BY <1>5 DEF StartDeploy, CleanOperationState, NoOperation
  <2> HIDE DEF o
  <2>2. nops = 0 \/ ops[nops].status # "in_progress"
    BY <1>0, <2>1 DEF TypeOK
  <2>3. QED
    BY <2>1, <2>2, OperationBeginsChange
<1>6. CASE CreateRecovery
  <2> DEFINE o == [NoOperation EXCEPT !.type = "recover", !.status = "in_progress",
                          !.stage = "recovery_started",
                          !.source = rels[me.rel].op, !.release = me.rel]
  <2>1. /\ CreateOperation(o) /\ o.status = "in_progress" /\ pc = "create_recovery"
        /\ UNCHANGED <<active, acked>>
    BY <1>6 DEF CreateRecovery, NoOperation
  <2> HIDE DEF o
  <2>2. ops[nops].status = "recovery_required"
    BY <1>0, <2>1 DEF HistoryOK, RunOK
  <2>3. QED
    BY <2>1, <2>2, OperationBeginsChange
<1>7. CASE SelectActive \/ SelectRecovered
  BY <1>7, SelectionSwitches
<1>8. CASE Supersede
  BY <1>8, TakeoverBlocks
<1>9. CASE \/ FailWithoutRelease \/ PersistOperation \/ AnnounceMigration
           \/ AnnounceActivation \/ Succeed \/ FailOperation \/ RequireOperationRecovery
           \/ AnnounceAction \/ Recovered \/ RecoveryFailed
  <2>1. UNCHANGED <<nops, active, acked>>
        /\ \E s, g, c : /\ TransitionOperation(s, g, c)
                        /\ s \in {"in_progress", "succeeded", "failed_safe",
                                  "recovery_required"}
    BY <1>9 DEF FailWithoutRelease, PersistOperation, AnnounceMigration, AnnounceActivation,
                Succeed, FailOperation, RequireOperationRecovery, AnnounceAction, Recovered,
                RecoveryFailed
  <2>2. pc \in {"create_release", "persist", "announce_migration", "announce_activation",
                "succeed", "fail_operation", "require_operation_recovery", "next_action",
                "recovered", "recovery_failed"}
    BY <1>9 DEF FailWithoutRelease, PersistOperation, AnnounceMigration, AnnounceActivation,
                Succeed, FailOperation, RequireOperationRecovery, AnnounceAction, Recovered,
                RecoveryFailed
  <2>3. pc \in Starting \cup Closing \cup Plain
    BY <2>2 DEF Starting, Closing, Plain, Taking, Steps
  <2>4. QED
    BY <2>1, <2>3, OperationMovesPhase
<1>10. CASE RecordActivation
  <2>1. pc = "record_hook" /\ UNCHANGED <<nops, active, acked>>
    BY <1>10 DEF RecordActivation
  <2>2. me.op = nops /\ nops \in Operations /\ ops[nops].status = "in_progress" /\ nops # 0
    BY <1>0, <2>1 DEF HistoryOK, RunOK, Plain, Starting, Closing, Taking, Steps
  <2>3. ops'[nops].status = "in_progress"
    BY <1>0, <1>10, <2>2 DEF RecordActivation, TypeOK, OperationRecord
  <2>4. Phase = "changing" /\ Phase' = "changing"
    BY <2>1, <2>2, <2>3, PhaseOfStatus, NextPhaseOfStatus
  <2>5. QED
    BY <2>1, <2>4 DEF Contract!vars
<1>11. CASE \/ RecordOwner \/ CreateRelease \/ PersistRelease \/ IntendMigration
            \/ IntendActivation \/ MarkActive \/ MarkRolledBack \/ FailRelease
            \/ RequireRecovery
  BY <1>1, <1>11 DEF RecordOwner, CreateRelease, PersistRelease, IntendMigration,
     IntendActivation, MarkActive, MarkRolledBack, FailRelease, RequireRecovery
<1>12. CASE QuietDeployStep
  <2>1. UNCHANGED <<ops, nops, active>>
    BY <1>0, <1>12, QuietDeploy
  <2>2. UNCHANGED acked
    BY <1>12 DEF QuietDeployStep, CandidateStage, CandidateFails, ResolvePrevious,
       ResolveFails, EnableMaintenance, EnableFails, UndoMaintenance, UndoFails, VerifyUndo,
       StopCurrent, StopFails, CreateFinal, ReplicateFinal, BackupFails, StartMigration,
       MigrationNotStarted, FinishMigration, MigrationFails, StartNew, StartNewFails,
       CheckNew, ActivateNew, DisableMaintenance, DisableFails, DispatchFailure, RemoveNew,
       RestoreDatabase, RestartPrevious, RouteOld, Reopen, VerifyPrevious, RollbackFails
  <2>3. QED
    BY <1>1, <2>1, <2>2
<1>13. CASE TakeRelease \/ OwnRecovery \/ Resolve
  BY <1>1, <1>13 DEF TakeRelease, OwnRecovery, Resolve
<1>14. CASE \/ RecoverRemoveNew \/ RecoverRestore \/ RecoverRestart \/ RecoverRoute
            \/ RecoverReopen \/ RecoverVerify \/ RecoverActionFails
  BY <1>1, <1>14 DEF RecoverRemoveNew, RecoverRestore, RecoverRestart, RecoverRoute,
     RecoverReopen, RecoverVerify, RecoverActionFails
<1> QED
  BY <1>2, <1>3, <1>4, <1>5, <1>6, <1>7, <1>8, <1>9, <1>10, <1>11, <1>12, <1>13, <1>14
  DEF Next, CommandStep, DeployStep, RecoverStep, QuietDeployStep, Environment

(* For every value of the constants and under every fault, deploy and      *)
(* recover implement the service contract: the selected release moves      *)
(* forward and only while an operation is in progress, a change begins     *)
(* when none is, and one that did not finish blocks the service until a    *)
(* recovery takes it up.                                                    *)
THEOREM KeepsContract == Spec => ImplementsContract
<1>1. Init => Contract!Init
  BY PhaseOfStatus DEF Init, Contract!Init
<1>2. Historic /\ [Next]_vars => [Contract!Next]_(Contract!vars)
  BY StepsKeepContract
<1> QED
  BY <1>1, <1>2, AlwaysHistoric, PTL DEF Spec, ImplementsContract, Contract!Spec

=============================================================================
