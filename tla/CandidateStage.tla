----------------------------- MODULE CandidateStage -----------------------------
(***************************************************************************)
(* The production-read-only stage before a cutover: copy the verified      *)
(* snapshot into a private workspace, migrate the copy, start one isolated *)
(* container on it, check the container, and remove all of it again.       *)
(*                                                                         *)
(* The commands of the configuration run as trees of processes which fork, *)
(* hang and write while the stage goes on; Docker commands fail before or  *)
(* after their effect, and the daemon may finish a request whose client is *)
(* gone.  Users of the stage are interrupted and killed at any step.       *)
(***************************************************************************)
EXTENDS Naturals

CONSTANTS
    MaxStages,   \* bound on the validations requested
    MaxFaults,   \* bound on failed calls, interrupts and kills
    MaskedKill   \* whether the error of a command that cannot be killed may be masked,
                 \* by its flooded output or by an interrupt of the log collection

ASSUME StageAssumption ==
    MaxStages \in Nat /\ MaxFaults \in Nat /\ MaskedKill \in BOOLEAN

(* A helper forked by a command: in its process group or in a session of   *)
(* its own, with or without an end of the output pipes.                    *)
Helpers == {"grouped", "grouped_quiet", "escaped", "escaped_quiet"}

VARIABLES
    (* the managed world *)
    workspace,  \* what the private workspace holds
    container,  \* the candidate; "late": created after its client was gone
    network,    \* the network of its isolated Compose project
    isolated,   \* whether the container is what the inspection requires
    pending,    \* what the Docker daemon still creates for a client that is gone
    tree,       \* the processes of the configured command
    unproven,   \* whether a command outlived its forced termination
    (* durable state of DployDB *)
    op, nops, owner,
    (* the stage that holds the lock *)
    pc, me,
    faults

docker == <<container, network, isolated, pending>>
processes == <<tree, unproven>>
record == <<op, nops, owner>>
world == <<workspace, docker, processes>>
vars == <<world, record, pc, me, faults>>

Trees == [leader : BOOLEAN, helper : Helpers \cup {"none"}]
NoTree == [leader |-> FALSE, helper |-> "none"]

Errors == {"none", "failed", "recovery", "interrupt"}

Contexts ==
    [command : {"none", "migration", "smoke"}, error : Errors, logs : Errors,
     cleanup : Errors, started : BOOLEAN, commands : BOOLEAN, absent : BOOLEAN]

(* The command that runs, the primary error, that of the logs and of the   *)
(* cleanup, whether start returned, and what stop has seen.                *)
NoContext ==
    [command |-> "none", error |-> "none", logs |-> "none", cleanup |-> "none",
     started |-> FALSE, commands |-> TRUE, absent |-> FALSE]

Init ==
    /\ workspace = {} /\ container = "absent" /\ network = "absent" /\ isolated = FALSE
    /\ pending = "none" /\ tree = NoTree /\ unproven = FALSE
    /\ op = "none" /\ nops = 0 /\ owner = "none"
    /\ pc = "idle" /\ me = NoContext /\ faults = 0

Fault == faults < MaxFaults /\ faults' = faults + 1
Works == UNCHANGED faults
Goto(p) == pc' = p /\ UNCHANGED me

------------------------------------------------------------------------------
(* Errors: "failed" (ends FAILED_SAFE), "recovery" (RecoveryRequiredError,  *)
(* and every record that cannot be written) and "interrupt".                *)

Combine(errors) ==
    IF "recovery" \in errors THEN "recovery"
    ELSE IF "failed" \in errors THEN "failed"
    ELSE IF "interrupt" \in errors THEN "interrupt" ELSE "none"

(* The context manager of the rehearsal is left with an error. *)
LeaveWith(error) == pc' = "clean_sidecars" /\ me' = [me EXCEPT !.error = error]

(* start, the inspection or a check is rejected. *)
Reject(error) == pc' = "rejected" /\ me' = [me EXCEPT !.error = error]

EndStage(error) == pc' = "finish" /\ me' = [me EXCEPT !.error = error]

------------------------------------------------------------------------------
(* One validation under the lock.                                           *)

(* A mutant: an operation that needs recovery does not block the next. *)
RequireClean_LooksForOwner == owner # "active" /\ op # "in_progress"

RequireClean == owner # "active" /\ op \notin {"in_progress", "recovery_required"}

(* create_operation and record_owner; every name of the stage is derived   *)
(* from the new operation, and what is left of an earlier one is none of   *)
(* its business.                                                           *)
Begin ==
    /\ pc = "idle" /\ nops < MaxStages /\ RequireClean
    /\ op' = "in_progress" /\ nops' = nops + 1 /\ owner' = "active"
    /\ workspace' = {} /\ container' = "absent" /\ network' = "absent" /\ pending' = "none"
    /\ tree' = NoTree /\ unproven' = FALSE
    /\ pc' = "prepare" /\ me' = NoContext
    /\ Works /\ UNCHANGED isolated

(* The preflight, its record, the REHEARSAL backup and its record. *)
Prepare ==
    /\ pc = "prepare"
    /\ \/ Works /\ Goto("workspace")
       \/ Fault /\ \E error \in {"failed", "recovery", "interrupt"} : EndStage(error)
    /\ UNCHANGED <<world, record>>

(* _create_workspace and _materialize_snapshot.  A directory whose parent  *)
(* could not be synced is removed, if that works, and forgotten.           *)
Materialize ==
    /\ pc = "workspace"
    /\ \/ Works /\ workspace' = {"dir", "database"} /\ Goto("spawn")
       \/ Fault /\ workspace' \in {{}, {"dir"}} /\ EndStage("failed")
       \/ Fault /\ workspace' \in {{"dir"}, {"dir", "database"}}
          /\ \E error \in {"failed", "interrupt"} : LeaveWith(error)
    /\ UNCHANGED <<docker, processes, record>>

------------------------------------------------------------------------------
(* SubprocessRunner.run: the migration and the smoke command.               *)

Grouped(t) == t.leader \/ t.helper \in {"grouped", "grouped_quiet"}
HoldsPipe(t) == t.leader \/ t.helper \in {"grouped", "escaped"}

CommandName == IF me.command = "none" THEN "migration" ELSE "smoke"

(* What the caller makes of the result: _require_usable_command_result     *)
(* asks for the flood first; SmokeCheckError looks at the outcome.         *)
CommandError(outcome, flooded) ==
    IF outcome = "unproven" /\ ~(flooded /\ me.command = "migration") THEN "recovery"
    ELSE IF flooded \/ outcome # "succeeded" THEN "failed" ELSE "none"

Return(outcome, flooded) ==
    LET error == CommandError(outcome, flooded)
    IN IF me.command = "migration"
       THEN IF error = "none" THEN Goto("verify") ELSE LeaveWith(error)
       ELSE IF error = "none" THEN Goto("note_health") ELSE Reject(error)

(* The same with an error of the caller's own. *)
Raise(error) == IF me.command = "migration" THEN LeaveWith(error) ELSE Reject(error)

(* Popen in a new session, or no process at all.  A helper of the migration *)
(* is in no group, and holds no pipe, of the smoke command.                *)
Spawn ==
    /\ pc = "spawn" /\ Works
    /\ tree' = [leader |-> TRUE, helper |-> IF tree = NoTree THEN "none" ELSE "escaped_quiet"]
    /\ pc' = "wait" /\ me' = [me EXCEPT !.command = CommandName]
    /\ UNCHANGED <<workspace, docker, unproven, record>>

SpawnFails ==
    /\ pc = "spawn" /\ Fault
    /\ IF CommandName = "migration" THEN LeaveWith("failed") ELSE Reject("failed")
    /\ UNCHANGED <<world, record>>

(* The command and both ends of its output are gone; nobody looks at the   *)
(* rest of its group.  The evidence of a migration is recorded before its  *)
(* outcome is judged, and output that does not fit an event is refused.    *)
Complete ==
    /\ pc = "wait" /\ ~HoldsPipe(tree)
    /\ \/ Works /\ \E o \in {"succeeded", "nonzero"}, f \in BOOLEAN : Return(o, f)
       \/ Fault /\ me.command = "migration" /\ LeaveWith("recovery")
    /\ UNCHANGED <<world, record>>

(* A mutant: the deadline guards the process, not the readers. *)
Deadline_OfTheProcess ==
    /\ pc = "wait" /\ tree.leader /\ Works
    /\ Goto("terminate")
    /\ UNCHANGED <<world, record>>

(* The deadline passes, or the caller cancels. *)
Deadline ==
    /\ pc = "wait" /\ Works
    /\ Goto("terminate")
    /\ UNCHANGED <<world, record>>

(* SIGTERM, and a grace period in which the group may end or not. *)
Terminate ==
    /\ pc = "terminate" /\ Works
    /\ \E l \in BOOLEAN, h \in {"none", tree.helper} :
          /\ l => tree.leader
          /\ h # tree.helper => tree.helper \in {"grouped", "grouped_quiet"}
          /\ tree' = [leader |-> l, helper |-> h]
    /\ IF Grouped(tree') \/ HoldsPipe(tree') THEN Goto("kill")
       ELSE \E f \in BOOLEAN : Return("stopped", f)
    /\ UNCHANGED <<workspace, docker, unproven, record>>

(* What SIGKILL leaves: a helper in a session of its own. *)
KillGroup(t) ==
    [leader |-> FALSE,
     helper |-> IF t.helper \in {"escaped", "escaped_quiet"} THEN t.helper ELSE "none"]

(* SIGKILL: the group ends, except for a process the kernel cannot end     *)
(* (a fault); a process outside the group may still hold a pipe.           *)
Kill ==
    /\ pc = "kill"
    /\ \/ Works /\ tree' = KillGroup(tree)
       \/ Fault /\ Grouped(tree) /\ tree' = tree
    /\ unproven' = (Grouped(tree') \/ HoldsPipe(tree'))
    /\ IF unproven'
       THEN \E f \in {FALSE, MaskedKill} : Return("unproven", f)
       ELSE \E f \in BOOLEAN : Return("stopped", f)
    /\ UNCHANGED <<workspace, docker, record>>

(* An interrupt while the runner waits: it ends the group and raises. *)
InterruptCommand ==
    /\ pc = "wait" /\ Fault
    /\ tree' \in {KillGroup(tree), tree}
    /\ Raise("interrupt")
    /\ UNCHANGED <<workspace, docker, unproven, record>>

(* verify_sqlite_database on the migrated copy, and rehearsal_passed. *)
Verify ==
    /\ pc = "verify"
    /\ \/ Works /\ "database" \in workspace /\ Goto("start")
       \/ Works /\ LeaveWith("failed")
       \/ Fault /\ LeaveWith("recovery")
    /\ UNCHANGED <<world, record>>

------------------------------------------------------------------------------
(* DockerComposeCandidateRunner and _validate_runtime.                      *)

(* compose run --detach creates the network, then the container. *)
Start ==
    /\ pc = "start" /\ Works
    /\ network' = "present" /\ container' = "running" /\ isolated' \in BOOLEAN
    /\ pc' = "inspect" /\ me' = [me EXCEPT !.started = TRUE]
    /\ UNCHANGED <<workspace, pending, processes, record>>

(* What a start leaves that got somewhere, and what the daemon was asked   *)
(* for when its client was killed.                                         *)
StartedPartly ==
    \/ /\ network' = "absent" /\ container' = "absent"
       /\ pending' \in {"none", "network"}
    \/ /\ network' = "present" /\ container' = "absent"
       /\ pending' \in {"none", "container"}
    \/ network' = "present" /\ container' \in {"created", "running"} /\ pending' = "none"

(* The start failed, timed out, or named no container: the resources of    *)
(* the candidate are removed at once.                                      *)
StartFails ==
    /\ pc = "start" /\ Fault /\ StartedPartly
    /\ isolated' \in BOOLEAN
    /\ Goto("stop_query")
    /\ UNCHANGED <<workspace, processes, record>>

(* An interrupt ends the client and leaves no handle to clean up with; so  *)
(* does a path the runner refuses, before it calls Docker.                 *)
StartRaises ==
    /\ pc = "start" /\ Fault
    /\ \/ StartedPartly /\ Reject("interrupt")
       \/ UNCHANGED <<network, container, pending>> /\ Reject("recovery")
    /\ isolated' \in BOOLEAN
    /\ UNCHANGED <<workspace, processes, record>>

(* The event of the start, then the inspection of the live container. *)
Inspect ==
    /\ pc = "inspect"
    /\ \/ Works /\ container = "running" /\ isolated /\ Goto("ready")
       \/ Works /\ ~(container = "running" /\ isolated) /\ Reject("recovery")
       \/ Fault /\ \E error \in {"recovery", "interrupt"} : Reject(error)
    /\ UNCHANGED <<world, record>>

(* wait_until_ready: requests until one is answered or the deadline is     *)
(* over; then the smoke command, if there is one.                          *)
Ready ==
    /\ pc = "ready" /\ container = "running" /\ Works
    /\ \E p \in {"spawn", "note_health"} : Goto(p)
    /\ UNCHANGED <<world, record>>

NotReady ==
    /\ pc = "ready"
    /\ \/ Works /\ Reject("failed")
       \/ Fault /\ \E error \in {"recovery", "interrupt"} : Reject(error)
    /\ UNCHANGED <<world, record>>

(* The event of the health check, and that of whatever was rejected. *)
NoteHealth ==
    /\ pc = "note_health"
    /\ \/ Works /\ Goto("logs")
       \/ Fault /\ Reject("recovery")
    /\ UNCHANGED <<world, record>>

NoteRejection ==
    /\ pc = "rejected"
    /\ \E error \in {me.error, "recovery"} :
          /\ IF error = me.error THEN Works ELSE Fault
          /\ pc' = IF me.started THEN "logs" ELSE "combine"
          /\ me' = [me EXCEPT !.error = error]
    /\ UNCHANGED <<world, record>>

(* An interrupt of the log collection becomes the primary error. *)
CollectLogs ==
    /\ pc = "logs" /\ pc' = "stop_query"
    /\ \/ Works /\ UNCHANGED me
       \/ Fault /\ \E error \in {"failed", "recovery"} : me' = [me EXCEPT !.logs = error]
       \/ Fault /\ (unproven => MaskedKill) /\ me' = [me EXCEPT !.error = "interrupt"]
    /\ UNCHANGED <<world, record>>

------------------------------------------------------------------------------
(* stop: query, remove, compose down, and the proof of absence.             *)

Listed == container # "absent"

(* A Docker command: it works, or it fails and stop goes on. *)
Docker(p, answers) ==
    \/ Works /\ answers /\ Goto(p)
    \/ Fault /\ pc' = p /\ me' = [me EXCEPT !.commands = FALSE]

StopQuery ==
    /\ pc = "stop_query"
    /\ \/ Works /\ Goto(IF Listed THEN "stop_remove" ELSE "stop_down")
       \/ Fault /\ pc' = "stop_down" /\ me' = [me EXCEPT !.commands = FALSE]
    /\ UNCHANGED <<world, record>>

StopRemove ==
    /\ pc = "stop_remove"
    /\ container' \in {container, "absent"}
    /\ Docker("stop_down", container' = "absent")
    /\ UNCHANGED <<workspace, network, isolated, pending, processes, record>>

(* compose down keeps a network that a container still uses, and removes   *)
(* the containers it takes for its own.                                    *)
StopDown ==
    /\ pc = "stop_down"
    /\ container' \in {container, "absent"}
    /\ network' \in {network, "absent"}
    /\ container' = "running" => network' = network
    /\ Docker("prove_container", container' # "running" => network' = "absent")
    /\ UNCHANGED <<workspace, isolated, pending, processes, record>>

ProveContainer ==
    /\ pc = "prove_container" /\ pc' = "prove_network"
    /\ \/ Works /\ me' = [me EXCEPT !.absent = ~Listed]
       \/ Fault /\ me' = [me EXCEPT !.absent = FALSE]
    /\ UNCHANGED <<world, record>>

(* A mutant: a failed start has left nothing behind. *)
StopEnds_TrustsFailedStart(proven, m) ==
    IF m.started THEN
        [m EXCEPT !.cleanup =
            IF m.commands /\ proven THEN "none" ELSE IF proven THEN "failed" ELSE "recovery"]
    ELSE [m EXCEPT !.error = "failed"]

(* CandidateCleanupError is raised when a command or the proof failed;     *)
(* what it means depends on the proof alone.                               *)
StopEnds(proven, m) ==
    IF m.started THEN
        [m EXCEPT !.cleanup =
            IF m.commands /\ proven THEN "none" ELSE IF proven THEN "failed" ELSE "recovery"]
    ELSE [m EXCEPT !.error = IF proven THEN "failed" ELSE "recovery"]

ProveNetwork ==
    /\ pc = "prove_network"
    /\ \E answered \in BOOLEAN :
          /\ IF answered THEN Works ELSE Fault
          /\ me' = StopEnds(answered /\ me.absent /\ network = "absent", me)
    /\ pc' = IF me.started THEN "note_cleanup" ELSE "rejected"
    /\ UNCHANGED <<world, record>>

NoteCleanup ==
    /\ pc = "note_cleanup" /\ pc' = "combine"
    /\ \/ Works /\ UNCHANGED me
       \/ Fault /\ me' = [me EXCEPT !.cleanup = "recovery"]
    /\ UNCHANGED <<world, record>>

(* An interrupt inside stop: of the cleanup of a running candidate, or of  *)
(* that of a failed start, which then has no handle.                       *)
InterruptStop ==
    /\ pc \in {"stop_query", "stop_remove", "stop_down", "prove_container", "prove_network"}
    /\ Fault
    /\ IF me.started THEN pc' = "combine" /\ me' = [me EXCEPT !.cleanup = "recovery"]
       ELSE Reject("interrupt")
    /\ UNCHANGED <<world, record>>

(* An interrupt is raised again only when nothing else went wrong. *)
CombineFailures ==
    /\ pc = "combine" /\ Works
    /\ LeaveWith(Combine({me.error, me.logs, me.cleanup}))
    /\ UNCHANGED <<world, record>>

------------------------------------------------------------------------------
(* The workspace is removed whatever happened, and the outcome recorded.    *)

CleanupError(error) == IF error = "interrupt" THEN "interrupt" ELSE "recovery"

CleanupFails ==
    \/ EndStage(CleanupError(me.error))
    \/ EndStage("interrupt")

(* _cleanup_workspace: the files it knows, and no others. *)
CleanSidecars ==
    /\ pc = "clean_sidecars"
    /\ \/ Works /\ workspace' = workspace \ {"sidecars"} /\ Goto("clean_database")
       \/ Fault /\ UNCHANGED workspace /\ CleanupFails
    /\ UNCHANGED <<docker, processes, record>>

CleanDatabase ==
    /\ pc = "clean_database"
    /\ \/ Works /\ workspace' = workspace \ {"database"} /\ Goto("clean_directory")
       \/ Fault /\ UNCHANGED workspace /\ CleanupFails
    /\ UNCHANGED <<docker, processes, record>>

CleanDirectory ==
    /\ pc = "clean_directory"
    /\ \/ Works /\ workspace \subseteq {"dir"} /\ workspace' = {} /\ EndStage(me.error)
       \/ Works /\ ~(workspace \subseteq {"dir"}) /\ UNCHANGED workspace
          /\ EndStage(CleanupError(me.error))
       \/ Fault /\ workspace' \in {workspace, {}} /\ workspace \subseteq {"dir"} /\ CleanupFails
    /\ UNCHANGED <<docker, processes, record>>

Outcome ==
    CASE me.error = "none" -> "succeeded"
      [] me.error = "failed" -> "failed_safe"
      [] me.error = "recovery" -> "recovery_required"
      [] OTHER -> op

(* The terminal record; one that fails may be durable.  The failure of the *)
(* record of a success is recorded in its turn.                            *)
RecordOutcome ==
    /\ pc = "finish"
    /\ \/ Works /\ op' = Outcome /\ Goto("release")
       \/ Fault /\ op' \in {op, Outcome}
          /\ IF me.error = "none" /\ op' = op THEN EndStage("recovery") ELSE Goto("release")
    /\ UNCHANGED <<world, nops, owner>>

Release ==
    /\ pc = "release" /\ Works
    /\ owner' = "released" /\ pc' = "idle" /\ me' = NoContext
    /\ UNCHANGED <<world, op, nops>>

------------------------------------------------------------------------------
(* The environment.                                                         *)

Killed ==
    /\ pc # "idle" /\ Fault
    /\ pc' = "idle" /\ me' = NoContext
    /\ UNCHANGED <<world, record>>

Fork ==
    /\ tree.leader /\ tree.helper = "none"
    /\ \E h \in Helpers : tree' = [tree EXCEPT !.helper = h]
    /\ UNCHANGED <<workspace, docker, unproven, record, pc, me, faults>>

Exit ==
    /\ \/ tree.leader /\ tree' = [tree EXCEPT !.leader = FALSE]
       \/ tree.helper # "none" /\ tree' = [tree EXCEPT !.helper = "none"]
    /\ UNCHANGED <<workspace, docker, unproven, record, pc, me, faults>>

(* Whoever has the workspace may write to it: SQLite's files and others. *)
WriteWorkspace ==
    /\ "dir" \in workspace
    /\ tree # NoTree \/ container = "running"
    /\ \E file \in {"database", "sidecars", "foreign"} \ workspace :
          workspace' = workspace \cup {file}
    /\ UNCHANGED <<docker, processes, record, pc, me, faults>>

ContainerExits ==
    /\ container = "running" /\ container' = "exited"
    /\ UNCHANGED <<workspace, network, isolated, pending, processes, record, pc, me, faults>>

(* The daemon completes a request whose client is gone. *)
LateCreation ==
    /\ pending # "none" /\ pending' = "none"
    /\ IF pending = "network" THEN network' = "late" /\ UNCHANGED container
       ELSE container' = "late" /\ UNCHANGED network
    /\ UNCHANGED <<workspace, isolated, processes, record, pc, me, faults>>

Stage ==
    \/ Prepare \/ Materialize
    \/ Spawn \/ SpawnFails \/ Complete \/ Deadline \/ Terminate \/ Kill \/ InterruptCommand
    \/ Verify \/ Start \/ StartFails \/ StartRaises \/ Inspect \/ Ready \/ NotReady
    \/ NoteHealth \/ NoteRejection \/ CollectLogs
    \/ StopQuery \/ StopRemove \/ StopDown \/ ProveContainer \/ ProveNetwork \/ NoteCleanup
    \/ InterruptStop \/ CombineFailures
    \/ CleanSidecars \/ CleanDatabase \/ CleanDirectory \/ RecordOutcome \/ Release

Next ==
    \/ Begin \/ Stage \/ Killed
    \/ Fork \/ Exit \/ WriteWorkspace \/ ContainerExits \/ LateCreation

Spec == Init /\ [][Next]_vars /\ WF_vars(Stage)

------------------------------------------------------------------------------
(* Properties.                                                              *)

WorldTypes ==
    /\ workspace \subseteq {"dir", "database", "sidecars", "foreign"}
    /\ container \in {"absent", "created", "running", "exited", "late"}
    /\ network \in {"absent", "present", "late"} /\ isolated \in BOOLEAN
    /\ pending \in {"none", "network", "container"}

ProcessTypes == tree \in Trees /\ unproven \in BOOLEAN

RecordTypes ==
    /\ op \in {"none", "in_progress", "succeeded", "failed_safe", "recovery_required"}
    /\ nops \in 0 .. MaxStages /\ owner \in {"none", "active", "released"}

StageTypes == me \in Contexts /\ faults \in 0 .. MaxFaults

(* Variables have their types. *)
TypeOK == WorldTypes /\ ProcessTypes /\ RecordTypes /\ StageTypes

Safe(status) == status \in {"succeeded", "failed_safe"}

(* Nothing of a candidate is left but what the daemon created afterwards,  *)
(* no copy of the database, and no process that outlived its kill.         *)
NothingLeft ==
    /\ container \in {"absent", "late"} /\ network \in {"absent", "late"}
    /\ workspace \subseteq {"dir"}
    /\ unproven => tree = NoTree

(* candidate.py _finish_failure: an operation that ended safe (succeeded   *)
(* or FAILED_SAFE, "correct the failure and retry") has left no candidate, *)
(* no network, no copy of the production data and no unkilled command.     *)
SafeEndIsClean == Safe(op) => NothingLeft

(* require_clean_operation_state: no stage begins over what an earlier one *)
(* could not remove.                                                       *)
BeginsClean == [][pc = "idle" /\ pc' # "idle" => NothingLeft]_vars

(* A stage ends, however the commands it runs behave: they may hang, fork, *)
(* leave their session and hold the output pipes for ever.                 *)
StageEnds == (pc # "idle") ~> (pc = "idle")

(* IMPLEMENTATION_PLAN.md "unproven cleanup ends recovery_required": an    *)
(* operation one of whose commands outlived its kill does not end safe.    *)
UnprovenNeedsRecovery == Safe(op) => ~unproven
==============================================================================
