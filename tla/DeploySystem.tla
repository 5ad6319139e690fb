----------------------------- MODULE DeploySystem -----------------------------
(***************************************************************************)
(* The host with its two state-changing commands: deploy and recover run   *)
(* one at a time under the kernel lock while users write and faults strike.*)
(* The properties say what an operator may rely on.                        *)
(***************************************************************************)
EXTENDS Deploy, Recover

(* A step of the command that holds the lock. *)
CommandStep == DeployStep \/ RecoverStep \/ Unlock

Next == StartDeploy \/ StartRecover \/ CommandStep \/ Environment

(* Every subprocess has a timeout, so a command that was started goes on;  *)
(* nobody has to start one, and no fault has to happen.                    *)
Spec == Init /\ [][Next]_vars /\ WF_vars(CommandStep)

------------------------------------------------------------------------------
(* Types.                                                                   *)

OperationStatus == {"none", "in_progress", "succeeded", "failed_safe", "recovery_required"}

RecoveryActions ==
    {"remove_new", "restore_final", "restart_previous", "activate_previous",
     "disable_maintenance", "verify_previous", "mark_rolled_back", "verify_new",
     "mark_active"}

Stages ==
    DeploymentState \cup RecoveryActions \cup
    {"none", "production_migration_started", "traffic_activation_started",
     "recovery_started", "recovered_active", "recovered_rolled_back"}

HookOutcomes == {"none", "passed", "not_started", "uncertain"}

OperationRecord ==
    [type : {"none", "deploy", "recover"}, status : OperationStatus, stage : Stages,
     changed : BOOLEAN, hook : HookOutcomes, source : 0..MaxOps, release : 0..MaxRel]

Manifest ==
    [status : DeploymentState, op : 0..MaxOps, prev : Apps \cup {NoApp}, new : BOOLEAN,
     rehearsed : BOOLEAN, final : SUBSET Content, migration_started : BOOLEAN,
     changed : BOOLEAN, attempted : BOOLEAN, activated : BOOLEAN,
     resolved_by : 0..MaxOps]

Context ==
    [op : 0..MaxOps, rel : 0..MaxRel, stage : DeploymentState, prev : Apps \cup {NoApp},
     stopped : BOOLEAN, final : SUBSET Content, new : BOOLEAN, maint : BOOLEAN,
     changed : BOOLEAN, attempted : BOOLEAN, activated : BOOLEAN, hook : HookOutcomes,
     err : {"none"} \cup Severities, plan : Seq(RecoveryActions)]

Owner == [op : 0..MaxOps, state : {"none", "active", "released"}]

Steps ==
    {"idle", "record_owner", "create_release", "candidate", "persist", "persist_release",
     "resolve", "enable_maintenance", "undo_maintenance", "verify_undo", "stop",
     "create_final", "replicate", "intend_migration", "announce_migration", "migrate",
     "migrating", "start_new", "check_new", "intend_activation", "announce_activation",
     "activate_new", "record_hook", "disable_maintenance", "mark_active",
     "select_active", "succeed", "failed", "remove_new", "restore", "restart",
     "route_old", "reopen", "verify_previous", "mark_rolled_back", "fail_release",
     "fail_operation", "require_recovery", "require_operation_recovery", "unlock",
     "supersede", "take_release", "create_recovery", "own_recovery", "next_action",
     "perform", "select_recovered", "recovered", "recovery_failed"}

(* Every variable holds the data the stores and the coordinator keep there. *)
TypeOK ==
    /\ ops \in [Operations -> OperationRecord] /\ nops \in 0..MaxOps
    /\ rels \in [Releases -> Manifest] /\ nrels \in 0..MaxRel
    /\ active \in 0..MaxRel /\ previous \in 0..MaxRel
    /\ owner \in Owner
    /\ app \in [Apps -> {"absent", "running", "stopped"}]
    /\ target \in Apps /\ maintenance \in BOOLEAN
    /\ db \in Content /\ acked \subseteq Writes /\ orphan \in 0..MaxRel
    /\ pc \in Steps /\ me \in Context

------------------------------------------------------------------------------
(* What users rely on.                                                      *)

(* A write that the service acknowledged is never lost: not by a restore,  *)
(* a rollback or a recovery, wherever a crash falls (the final backup is   *)
(* taken after the last writer stopped, and is restored only before any    *)
(* writer is back).                                                        *)
NoAcknowledgedWriteLost == acked \subseteq db.writes

(* Two releases never run on the production database at once: the new one  *)
(* starts after the previous one was stopped, and the previous one         *)
(* restarts after the new one was removed, in deploy and in recover.       *)
OneAppOnDatabase ==
    \A a, b \in Apps : app[a] = "running" /\ app[b] = "running" => a = b

Serving(a) == app[a] = "running" /\ target = a /\ ~maintenance

(* A terminal outcome is the truth: while the newest operation ended       *)
(* SUCCEEDED or FAILED_SAFE, the selected release (or the bootstrap        *)
(* application) serves users, out of maintenance and on its own schema.    *)
TerminalOutcomeIsTrue ==
    nops = 0 \/ ops[nops].status \in {"succeeded", "failed_safe"} =>
        Serving(active) /\ db.schema = active

(* Maintenance is never left on silently: when no command runs, either     *)
(* users get through or the newest operation says it is unfinished.        *)
NoSilentMaintenance ==
    pc = "idle" /\ maintenance =>
        ops[nops].status \in {"in_progress", "recovery_required"}

------------------------------------------------------------------------------
(* What recovery relies on.                                                 *)

(* An intent is durable before its effect: a database that a release's     *)
(* migration touched, or its container, implies migration_started; traffic *)
(* routed to a release implies attempted.                                  *)
IntentBeforeEffect ==
    /\ db.schema = Partial => \E r \in Unresolved : rels[r].migration_started
    /\ db.schema \in Releases => rels[db.schema].migration_started
    /\ \A r \in Releases : app[r] # "absent" => rels[r].migration_started
    /\ target \in Releases => rels[target].attempted

(* A new command is admitted only when the past is settled: every release  *)
(* is resolved, the pointer selects the newest active one, no operation is *)
(* unfinished.  The code looks at the newest operation only.               *)
AdmittedOnlyWhenSettled ==
    pc = "idle" /\ CleanOperationState =>
        /\ Unresolved = {} /\ Unfinished = {}
        /\ \A r \in 1..nrels : rels[r].status = "active" => r <= active

(* latest_operation refuses a history with two unfinished operations: the  *)
(* takeover supersedes the old one before it creates its own.              *)
AtMostOneUnfinished == \A o, p \in Unfinished : o = p

(* The checks that the stores and the coordinator raise on never fire in a *)
(* deployment: the journal accepts every stage, announcement, hook event   *)
(* and end (an operation in progress may not repeat its stage), the        *)
(* release store every intent, stage and outcome and the selection; a      *)
(* rollback has its evidence.  Only the mark recovery_required may be      *)
(* refused, and then the code notes that and goes on.                      *)
DeployWritesAccepted ==
    /\ pc = "persist" => JournalAccepts("in_progress", me.stage)
    /\ pc = "announce_migration" =>
          JournalAccepts("in_progress", "production_migration_started")
    /\ pc = "announce_activation" =>
          JournalAccepts("in_progress", "traffic_activation_started")
    /\ pc \in {"create_release", "record_hook", "succeed", "fail_operation",
               "require_operation_recovery"} => ops[me.op].status = "in_progress"
    /\ pc = "intend_migration" =>
          IntentAccepted([rels[me.rel] EXCEPT !.migration_started = TRUE])
    /\ pc = "intend_activation" =>
          IntentAccepted([rels[me.rel] EXCEPT !.attempted = TRUE])
    /\ pc = "select_active" => rels[me.rel].status = "active"
    /\ pc = "persist_release" =>
          Accepted(rels[me.rel], StageChanges(rels[me.rel], me.stage))
    /\ pc = "mark_active" =>
          Accepted(rels[me.rel], [rels[me.rel] EXCEPT !.status = "active"])
    /\ pc = "mark_rolled_back" =>
          Accepted(rels[me.rel], [rels[me.rel] EXCEPT !.status = "rolled_back",
                                                      !.changed = me.changed])
    /\ pc = "fail_release" =>
          Accepted(rels[me.rel], [rels[me.rel] EXCEPT !.status = "failed_safe",
                                                      !.changed = me.changed])
    /\ pc = "restore" /\ me.changed => me.stopped /\ me.final # {} /\ ~me.activated

(* A recovery that reached its last action can mark the release: the       *)
(* manifest has the evidence that rolled_back and active require, so the   *)
(* recovery does not fail after it has changed the world.                  *)
RecoveredReleaseIsMarked ==
    pc = "perform" /\ Head(me.plan) \in {"mark_rolled_back", "mark_active"} =>
        Resolvable(rels[me.rel], ResolvedRelease(me.rel))

(* current.json always selects an active manifest, and the one before it.  *)
PointersConsistent ==
    /\ active # 0 => rels[active].status = "active"
    /\ previous # 0 => rels[previous].status = "active" /\ previous < active
    /\ active = 0 => previous = 0

------------------------------------------------------------------------------
(* What a step may never do.                                                *)

(* The database changes by a write that a user is told of, or under        *)
(* maintenance, with every application stopped and users routed to the     *)
(* active one.  Only a recovery may find them routed to the release whose  *)
(* activation was attempted: it restores the database before it routes     *)
(* back.  A migration and a restore count from their first byte to their   *)
(* last.                                                                   *)
RestoreOnlyQuiesced ==
    [][db' # db =>
          \/ acked' # acked /\ db'.schema = db.schema /\ db.writes \subseteq db'.writes
          \/ /\ maintenance /\ \A a \in Apps : app[a] # "running"
             /\ \/ target = active
                \/ pc = "perform" /\ target = me.rel /\ rels[me.rel].attempted]_vars

(* Evidence is kept: a resolved manifest and a terminal operation never    *)
(* change again.                                                           *)
TerminalEvidenceKept ==
    [][/\ \A r \in Releases : rels[r].status \in ResolvedStates => rels'[r] = rels[r]
       /\ \A o \in Operations :
            ops[o].status \in {"succeeded", "failed_safe", "recovery_required"}
            => ops'[o] = ops[o]]_vars

(* Once the activation of a release is proven, by its manifest or by the   *)
(* durable event of the hook, no step of any command routes users away     *)
(* from it or takes its database back, up to the active release.           *)
NoWayBackAfterActivation ==
    [][\A r \in 1..nrels :
          /\ rels[r].status \notin ResolvedStates
          /\ rels[r].activated \/ ops[rels[r].op].hook = "passed"
          => target' = r /\ db.writes \subseteq db'.writes /\ db'.schema = r]_vars

------------------------------------------------------------------------------
(* What must happen.                                                        *)

(* Every command that starts ends, at the latest when it is killed. *)
CommandEnds == pc # "idle" ~> pc = "idle"

------------------------------------------------------------------------------
(* The promise to the operator.                                             *)

Phase ==
    IF nops = 0 THEN "serving"
    ELSE CASE ops[nops].status = "in_progress" -> "changing"
           [] ops[nops].status = "recovery_required" -> "blocked"
           [] OTHER -> "serving"

Contract ==
    INSTANCE ServiceContract WITH phase <- Phase, selected <- active, changes <- nops

(* Deploy and recover implement the service contract: seen through the     *)
(* newest operation and the pointer file, the service moves from serving   *)
(* through changing and back, or is blocked until a recovery resumes it.   *)
ImplementsContract == Contract!Spec

------------------------------------------------------------------------------
(* Claims of the documentation that the code does not keep.                 *)

Executable(r) ==
    /\ Selected(r)
    /\ CompletesNew(r) \/ \E matches \in ChecksumMatches(r) : RecoversPrevious(r, matches)

(* README.md: recovery can "finish an already checked new release when     *)
(* durable hook evidence proves activation succeeded".  The takeover of an *)
(* executable plan must therefore be able to take the release.             *)
ExecutablePlanTakesRelease ==
    pc = "take_release" /\ rels[me.rel].status # "recovery_required" =>
        Accepted(rels[me.rel], TakenRelease(me.rel))

(* recovery.py: "Preserve the recovery log and rerun dploydb recover".  A  *)
(* recovery that ended or was cut short can be run again as long as there  *)
(* is something to execute.                                                *)
RecoverCanBeRerun ==
    pc = "idle" /\ nops > 0 /\ ops[nops].type = "recover"
        => \A r \in 1..nrels : Executable(r) => StaleOwnerAcknowledged(r)

(* recovery.py: "The deployment already has a proven terminal state.  No   *)
(* recovery action is required."  Then a new deployment is admitted, at    *)
(* least when no later operation failed.                                   *)
NoActionMeansAdmitted ==
    pc = "idle" =>
        \A r \in 1..nrels :
            Selected(r) /\ NoActionRequired(r) /\ rels[r].op = nops => CleanOperationState
=============================================================================
