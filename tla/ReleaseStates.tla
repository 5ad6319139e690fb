---------------------------- MODULE ReleaseStates ----------------------------
(***************************************************************************)
(* The lifecycle of one release manifest: the states of DeploymentState,   *)
(* the transition table of ReleaseStore and the facts the manifest model   *)
(* refuses to persist.  A manifest keeps the facts recovery reads; hook    *)
(* and health summaries, timestamps and failure texts are left out.        *)
(***************************************************************************)
EXTENDS Integers

(* States a deployment passes before it touches production. *)
CandidateStages ==
    {"created", "preflight_passed", "snapshot_verified", "rehearsal_passed",
     "candidate_healthy"}

(* States of the cutover, between maintenance and the activated release. *)
CutoverStages ==
    {"maintenance_enabled", "current_app_stopped", "final_snapshot_verified",
     "production_migrated", "new_app_healthy", "traffic_activated",
     "rollback_started"}

ResolvedStates == {"active", "rolled_back", "failed_safe"}
TerminalStates == ResolvedStates \cup {"recovery_required"}
DeploymentState == CandidateStages \cup CutoverStages \cup TerminalStates

(* A mutant: a checked release that fails before activation cannot roll back. *)
TRANSITIONS_NoLateRollback(s) ==
    CASE s = "created"                 -> {"preflight_passed", "failed_safe", "recovery_required"}
      [] s = "preflight_passed"        -> {"snapshot_verified", "failed_safe", "recovery_required"}
      [] s = "snapshot_verified"       -> {"rehearsal_passed", "failed_safe", "recovery_required"}
      [] s = "rehearsal_passed"        -> {"candidate_healthy", "failed_safe", "recovery_required"}
      [] s = "candidate_healthy"       -> {"maintenance_enabled", "failed_safe", "recovery_required"}
      [] s = "maintenance_enabled"     -> {"current_app_stopped", "rollback_started", "recovery_required"}
      [] s = "current_app_stopped"     -> {"final_snapshot_verified", "rollback_started", "recovery_required"}
      [] s = "final_snapshot_verified" -> {"production_migrated", "rollback_started", "recovery_required"}
      [] s = "production_migrated"     -> {"new_app_healthy", "rollback_started", "recovery_required"}
      [] s = "new_app_healthy"         -> {"traffic_activated", "recovery_required"}
      [] s = "traffic_activated"       -> {"active", "recovery_required"}
      [] s = "rollback_started"        -> {"rolled_back", "recovery_required"}
      [] OTHER                         -> {}

(* The states a release in state s may be moved to; terminal states: none. *)
TRANSITIONS(s) ==
    CASE s = "created"                 -> {"preflight_passed", "failed_safe", "recovery_required"}
      [] s = "preflight_passed"        -> {"snapshot_verified", "failed_safe", "recovery_required"}
      [] s = "snapshot_verified"       -> {"rehearsal_passed", "failed_safe", "recovery_required"}
      [] s = "rehearsal_passed"        -> {"candidate_healthy", "failed_safe", "recovery_required"}
      [] s = "candidate_healthy"       -> {"maintenance_enabled", "failed_safe", "recovery_required"}
      [] s = "maintenance_enabled"     -> {"current_app_stopped", "rollback_started", "recovery_required"}
      [] s = "current_app_stopped"     -> {"final_snapshot_verified", "rollback_started", "recovery_required"}
      [] s = "final_snapshot_verified" -> {"production_migrated", "rollback_started", "recovery_required"}
      [] s = "production_migrated"     -> {"new_app_healthy", "rollback_started", "recovery_required"}
      [] s = "new_app_healthy"         -> {"traffic_activated", "rollback_started", "recovery_required"}
      [] s = "traffic_activated"       -> {"active", "recovery_required"}
      [] s = "rollback_started"        -> {"rolled_back", "recovery_required"}
      [] OTHER                         -> {}

(* No application: a release whose previous application is not recorded. *)
NoApp == -1

(* The model validator of ReleaseManifest on the facts kept here: a record *)
(* that contradicts itself is never persisted.                             *)
ValidManifest(m) ==
    /\ m.status \in (CutoverStages \cup {"snapshot_verified", "rehearsal_passed",
          "candidate_healthy", "active", "rolled_back"}) => m.rehearsed
    /\ m.status \in (CutoverStages \cup {"active", "rolled_back"}) \ {"maintenance_enabled"}
          => m.prev # NoApp
    /\ m.activated => m.status \in {"traffic_activated", "active", "recovery_required"}
    /\ m.activated => m.changed /\ m.attempted
    /\ m.migration_started => m.final # {}
    /\ m.attempted => m.migration_started /\ m.changed /\ m.new
    /\ m.status = "failed_safe" => ~m.changed
    /\ m.status \in {"production_migrated", "new_app_healthy", "traffic_activated", "active"}
          => m.final # {} /\ m.changed /\ m.migration_started
    /\ m.status \in {"new_app_healthy", "traffic_activated", "active"} => m.new
    /\ m.status \in {"traffic_activated", "active"} => m.activated
    /\ m.resolved_by # 0 => m.status \in {"active", "rolled_back"}

(* A mutant: the transition table is not consulted. *)
Accepted_AnyOrder(old, m) == ValidManifest(m)

(* ReleaseStore.transition refuses terminal manifests, moves the table     *)
(* does not list and manifests the model rejects.                          *)
Accepted(old, m) == m.status \in TRANSITIONS(old.status) /\ ValidManifest(m)

(* ReleaseStore.resolve_recovery accepts only a recovery-required release. *)
Resolvable(old, m) == old.status = "recovery_required" /\ ValidManifest(m)
=============================================================================
