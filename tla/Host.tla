--------------------------------- MODULE Host ---------------------------------
(***************************************************************************)
(* One host that DployDB manages: what its commands persist, what they act *)
(* on, what the one command that holds the deployment lock remembers, and  *)
(* the environment they share (users, crashes, reboots, processes that     *)
(* outlive their command).                                                 *)
(*                                                                         *)
(* Releases are 1..MaxRel in order of creation, operations 1..MaxOps in    *)
(* order of started_at.  Application r is the container of release r;      *)
(* application 0 is the container the compose project ran before DployDB.  *)
(***************************************************************************)
EXTENDS Integers, ReleaseStates

CONSTANTS
    MaxRel,     \* bound on the releases created
    MaxOps,     \* bound on the operations created
    Writes,     \* the writes users may send
    Faults      \* the faults the environment may produce

ASSUME HostAssumption ==
    /\ MaxRel \in Nat /\ MaxOps \in Nat
    /\ Faults \subseteq {"crash", "interrupt", "reboot", "orphan"}

Releases == 1..MaxRel
Operations == 1..MaxOps
Apps == 0..MaxRel

(* The schema is that of the release that last migrated the database,      *)
(* or Partial while a migration has written some of its changes.           *)
Partial == -1
Content == [schema : Apps \cup {Partial}, writes : SUBSET Writes]

VARIABLES
    (* durable state under state_directory *)
    ops,         \* operation manifests and the facts recovery reads in events
    nops,        \* operations created so far
    rels,        \* release manifests
    nrels,       \* releases created so far
    active,      \* active_release_id of current.json, 0 without the file
    previous,    \* previous_release_id of current.json, 0 for none
    owner,       \* owner metadata of the deployment lock
    (* the managed world *)
    app,         \* container state of every application
    target,      \* application the traffic hooks route to
    maintenance, \* whether the maintenance hook blocks users
    db,          \* content of the production database
    acked,       \* writes acknowledged to users
    orphan,      \* release whose migration outlived its command, 0 for none
    (* the command that holds the lock *)
    pc,          \* its next step, "idle" when no command runs
    me           \* its local variables

durable == <<ops, nops, rels, nrels, active, previous, owner>>
world == <<app, target, maintenance, db, acked, orphan>>
vars == <<durable, world, pc, me>>

NoOperation ==
    [type |-> "none", status |-> "none", stage |-> "none", changed |-> FALSE,
     hook |-> "none", source |-> 0, release |-> 0]

NoManifest ==
    [status |-> "created", op |-> 0, prev |-> NoApp, new |-> FALSE, rehearsed |-> FALSE,
     final |-> {}, migration_started |-> FALSE, changed |-> FALSE,
     attempted |-> FALSE, activated |-> FALSE, resolved_by |-> 0]

(* _Context of a deployment, and the plan of a recovery. *)
NoContext ==
    [op |-> 0, rel |-> 0, stage |-> "created", prev |-> NoApp, stopped |-> FALSE,
     final |-> {}, new |-> FALSE, maint |-> FALSE, changed |-> FALSE,
     attempted |-> FALSE, activated |-> FALSE, hook |-> "none", err |-> "none",
     plan |-> <<>>]

Init ==
    /\ ops = [o \in Operations |-> NoOperation] /\ nops = 0
    /\ rels = [r \in Releases |-> NoManifest] /\ nrels = 0
    /\ active = 0 /\ previous = 0
    /\ owner = [op |-> 0, state |-> "none"]
    /\ app = [a \in Apps |-> IF a = 0 THEN "running" ELSE "absent"]
    /\ target = 0 /\ maintenance = FALSE
    /\ db = [schema |-> 0, writes |-> {}] /\ acked = {} /\ orphan = 0
    /\ pc = "idle" /\ me = NoContext

------------------------------------------------------------------------------
(* What a command does in more than one place.                              *)

Goto(p) == pc' = p /\ UNCHANGED me

(* A command that creates the next operation. *)
CreateOperation(o) ==
    /\ nops < MaxOps
    /\ nops' = nops + 1
    /\ ops' = [ops EXCEPT ![nops + 1] = o]

(* StateStore.transition: terminal operations are immutable, a transition  *)
(* in progress changes the stage.                                          *)
JournalAccepts(status, stage) ==
    /\ ops[me.op].status = "in_progress"
    /\ status = "in_progress" => stage # ops[me.op].stage

TransitionOperation(status, stage, changed) ==
    /\ JournalAccepts(status, stage)
    /\ ops' = [ops EXCEPT ![me.op] = [@ EXCEPT !.status = status, !.stage = stage,
                                               !.changed = changed]]

TransitionRelease(m) == Accepted(rels[me.rel], m) /\ rels' = [rels EXCEPT ![me.rel] = m]

(* record_recovery_intent: the intent of a terminal release is immutable. *)
IntentAccepted(m) == rels[me.rel].status \notin TerminalStates /\ ValidManifest(m)

RecordIntent(m) ==
    /\ IntentAccepted(m)
    /\ rels' = [rels EXCEPT ![me.rel] = m]

(* Whether the owner metadata names the command that runs. *)
Owned == owner.state = "active" /\ owner.op = me.op /\ me.op # 0

Unfinished == {o \in Operations : ops[o].status = "in_progress"}

(* A mutant: only an active lock owner blocks a new command. *)
CleanOperationState_OwnerOnly == owner.state # "active"

(* require_clean_operation_state and the latest_operation it reads. *)
CleanOperationState ==
    /\ owner.state # "active"
    /\ nops > 0 => ops[nops].status \notin {"in_progress", "recovery_required"}

(* A mutant: the old selection is read after the new one is written. *)
ActivateRelease_ReadsLate(r) ==
    /\ rels[r].status = "active"
    /\ active' = r /\ previous' = r

(* ReleaseStore.activate_release: select r, keep the old selection. *)
ActivateRelease(r) ==
    /\ rels[r].status = "active"
    /\ IF active = r
       THEN UNCHANGED <<active, previous>>
       ELSE active' = r /\ previous' = active

(* DeploymentLock.release, run when a command returns or raises. *)
ReleaseLock ==
    /\ owner' = IF Owned THEN [owner EXCEPT !.state = "released"] ELSE owner
    /\ pc' = "idle" /\ me' = NoContext

Unlock ==
    /\ pc = "unlock"
    /\ ReleaseLock
    /\ UNCHANGED <<ops, nops, rels, nrels, active, previous, world>>

------------------------------------------------------------------------------
(* External commands.  One that fails may or may not have had its effect.   *)

StopApplication(a) == app' = [app EXCEPT ![a] = "stopped"]

(* The handle of a release needs an inspected stopped container; the       *)
(* bootstrap handle is started as it is.                                   *)
RestartApplication(a) ==
    /\ a # 0 => app[a] = "stopped"
    /\ app' = [app EXCEPT ![a] = "running"]

RemoveApplication(a) == app' = [app EXCEPT ![a] = "absent"]

RouteTo(a) == target' = a

SetMaintenance(b) == maintenance' = b

(* verify_sqlite_database and the health check at the production address. *)
Healthy(a) == app[a] = "running"

------------------------------------------------------------------------------
(* The environment.                                                         *)

(* A user write that the routed application accepts and acknowledges. *)
UserWrite(w) ==
    /\ ~maintenance /\ app[target] = "running" /\ w \notin acked
    /\ db' = [db EXCEPT !.writes = @ \cup {w}]
    /\ acked' = acked \cup {w}
    /\ UNCHANGED <<durable, app, target, maintenance, orphan, pc, me>>

(* The command dies at any point (SIGKILL): the kernel lock goes, the      *)
(* owner metadata stays active.  A migration it was running is in a        *)
(* session of its own and may survive.                                     *)
Crash ==
    /\ "crash" \in Faults /\ pc # "idle"
    /\ pc' = "idle" /\ me' = NoContext
    /\ \/ UNCHANGED orphan
       \/ "orphan" \in Faults /\ pc = "migrating" /\ orphan' = me.rel
    /\ UNCHANGED <<durable, app, target, maintenance, db, acked>>

(* KeyboardInterrupt or SystemExit: no handler records an outcome, the     *)
(* context manager releases the lock.                                      *)
Interrupt ==
    /\ "interrupt" \in Faults /\ pc \notin {"idle", "unlock"}
    /\ ReleaseLock
    /\ UNCHANGED <<ops, nops, rels, nrels, active, previous, world>>

(* The host restarts: no process survives, stopped containers stay stopped *)
(* (restart: "no"), routing and maintenance are files of the proxy.        *)
Reboot ==
    /\ "reboot" \in Faults
    /\ \E a \in Apps : app[a] = "running"
    /\ app' = [a \in Apps |-> IF app[a] = "running" THEN "stopped" ELSE app[a]]
    /\ orphan' = 0
    /\ pc' = "idle" /\ me' = NoContext
    /\ UNCHANGED <<durable, target, maintenance, db, acked>>

(* A migration that outlived its command finishes. *)
OrphanMigrates ==
    /\ orphan # 0
    /\ db' = [db EXCEPT !.schema = orphan] /\ orphan' = 0
    /\ UNCHANGED <<durable, app, target, maintenance, acked, pc, me>>

Environment ==
    \/ \E w \in Writes : UserWrite(w)
    \/ Crash \/ Interrupt \/ Reboot \/ OrphanMigrates
=============================================================================
