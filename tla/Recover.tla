------------------------------- MODULE Recover --------------------------------
(***************************************************************************)
(* The recover command: diagnosis of the durable and live evidence, the    *)
(* deterministic plan it authorises, the takeover of the interrupted       *)
(* operation and the execution of the plan, action by action.              *)
(***************************************************************************)
EXTENDS Host, Sequences, FiniteSets

Unresolved == {r \in 1..nrels : rels[r].status \notin ResolvedStates}

(* A resolved release whose recovery operation did not succeed. *)
IncompleteResolution ==
    \E r \in 1..nrels :
        rels[r].resolved_by # 0 /\ ops[rels[r].resolved_by].status # "succeeded"

(* Exactly one unresolved release, or else the newest. *)
Selected(r) ==
    /\ ~IncompleteResolution
    /\ Cardinality(Unresolved) <= 1
    /\ IF Unresolved # {} THEN r \in Unresolved ELSE r = nrels /\ nrels > 0

LivePrevious(r) == IF rels[r].prev = NoApp THEN "unknown" ELSE app[rels[r].prev]

(* Without a recorded handle only absence can be proven. *)
LiveNew(r) == IF rels[r].new \/ app[r] = "absent" THEN app[r] ELSE "unknown"

(* A mutant: only the manifest is consulted, not the hook event. *)
ActivationConclusion_ManifestOnly(r) ==
    IF rels[r].activated THEN "succeeded" ELSE "not_attempted"

(* _activation_conclusion *)
ActivationConclusion(r) ==
    CASE rels[r].activated -> "succeeded"
      [] ~rels[r].activated /\ ~rels[r].attempted -> "not_attempted"
      [] OTHER -> CASE ops[rels[r].op].hook = "passed" -> "succeeded"
                    [] ops[rels[r].op].hook = "not_started" -> "not_started"
                    [] OTHER -> "uncertain"

MayHaveChanged(r) ==
    rels[r].changed \/ rels[r].migration_started \/ ops[rels[r].op].changed

------------------------------------------------------------------------------
(* build_recovery_plan.  `matches` says whether the production file has     *)
(* the checksum of the final backup.                                        *)

NoActionRequired(r) ==
    /\ rels[r].status \in ResolvedStates
    /\ ops[rels[r].op].status # "in_progress" \/ rels[r].resolved_by # 0

CompletesNew(r) ==
    /\ ~NoActionRequired(r)
    /\ ActivationConclusion(r) = "succeeded"
    /\ LiveNew(r) = "running"

RecoversPrevious(r, matches) ==
    /\ ~NoActionRequired(r)
    /\ ActivationConclusion(r) \in {"not_attempted", "not_started"}
    /\ rels[r].status \notin CandidateStages
    /\ LivePrevious(r) \in {"running", "stopped"}
    /\ LiveNew(r) # "unknown"
    /\ MayHaveChanged(r) =>
          /\ rels[r].final # {}
          /\ matches \/ LivePrevious(r) = "stopped"

PreviousActions(r, matches) ==
    (IF LiveNew(r) # "absent" THEN <<"remove_new">> ELSE <<>>)
    \o (IF MayHaveChanged(r) /\ ~matches THEN <<"restore_final">> ELSE <<>>)
    \o (IF LivePrevious(r) = "stopped" THEN <<"restart_previous">> ELSE <<>>)
    \o <<"activate_previous", "disable_maintenance", "verify_previous", "mark_rolled_back">>

NewActions == <<"disable_maintenance", "verify_new", "mark_active">>

(* The checksum compares files: the same content may be stored in other    *)
(* bytes, different content never has the checksum of the backup.          *)
ChecksumMatches(r) == {b \in BOOLEAN : b => db \in rels[r].final}

(* _acknowledged_stale_owner_id: the owner metadata may be replaced only   *)
(* when it is released or belongs to this recovery's lineage.              *)
StaleOwnerAcknowledged(r) ==
    \/ owner.state # "active"
    \/ owner.op = rels[r].op
    \/ /\ ops[owner.op].type = "recover" /\ ops[owner.op].status = "in_progress"
       /\ ops[owner.op].source = rels[r].op /\ ops[owner.op].release = r

------------------------------------------------------------------------------
(* Diagnosis under the lock.  A plan that is not executable, or an owner    *)
(* that is not acknowledged, ends the command before it writes anything.    *)

StartRecover ==
    /\ pc = "idle" /\ nops < MaxOps
    /\ \E r \in 1..nrels :
          /\ Selected(r) /\ StaleOwnerAcknowledged(r)
          /\ \E matches \in ChecksumMatches(r) :
                /\ CompletesNew(r) \/ RecoversPrevious(r, matches)
                /\ me' = [NoContext EXCEPT
                            !.rel = r,
                            !.prev = rels[r].prev,
                            !.changed = CompletesNew(r) \/ MayHaveChanged(r),
                            !.activated = CompletesNew(r),
                            !.plan = IF CompletesNew(r) THEN NewActions
                                     ELSE PreviousActions(r, matches)]
    /\ pc' = "supersede"
    /\ UNCHANGED <<durable, world>>

(* A mutant: the interrupted operation stays in progress. *)
Supersede_None ==
    /\ pc = "supersede"
    /\ Goto("take_release")
    /\ UNCHANGED <<durable, world>>

(* _take_recovery_ownership: unfinished operations first, newest first.  A *)
(* step waits for an operation of this release or a recovery; the code     *)
(* raises on any other, which CommandEnds shows is never met.              *)
Supersede ==
    /\ pc = "supersede"
    /\ IF Unfinished = {}
       THEN Goto("take_release") /\ UNCHANGED ops
       ELSE \E o \in Unfinished :
              /\ \A p \in Unfinished : p <= o
              /\ o = rels[me.rel].op \/ ops[o].type = "recover"
              /\ ops' = [ops EXCEPT ![o] = [@ EXCEPT !.status = "recovery_required",
                                                     !.stage = "recovery_required",
                                                     !.changed = ops[o].changed
                                                                 \/ me.changed]]
              /\ Goto("supersede")
    /\ UNCHANGED <<nops, rels, nrels, active, previous, owner, world>>

TakenRelease(r) ==
    [rels[r] EXCEPT !.status = "recovery_required", !.changed = me.changed,
                    !.activated = me.activated]

TakeRelease ==
    /\ pc = "take_release"
    /\ \/ /\ rels[me.rel].status = "recovery_required"
          /\ Goto("create_recovery") /\ UNCHANGED <<rels, owner>>
       \/ /\ rels[me.rel].status # "recovery_required"
          /\ TransitionRelease(TakenRelease(me.rel))
          /\ Goto("create_recovery") /\ UNCHANGED owner
       \/ /\ rels[me.rel].status # "recovery_required"
          /\ ~Accepted(rels[me.rel], TakenRelease(me.rel))
          /\ ReleaseLock /\ UNCHANGED rels
    /\ UNCHANGED <<ops, nops, nrels, active, previous, world>>

CreateRecovery ==
    /\ pc = "create_recovery"
    /\ CreateOperation([NoOperation EXCEPT !.type = "recover", !.status = "in_progress",
                          !.stage = "recovery_started",
                          !.source = rels[me.rel].op, !.release = me.rel])
    /\ pc' = "own_recovery" /\ me' = [me EXCEPT !.op = nops + 1]
    /\ UNCHANGED <<rels, nrels, active, previous, owner, world>>

OwnRecovery ==
    /\ pc = "own_recovery"
    /\ owner' = [op |-> me.op, state |-> "active"]
    /\ Goto("next_action")
    /\ UNCHANGED <<ops, nops, rels, nrels, active, previous, world>>

------------------------------------------------------------------------------
(* Execution: every action is announced, then performed.                    *)

AnnounceAction ==
    /\ pc = "next_action"
    /\ TransitionOperation("in_progress", Head(me.plan), me.changed)
    /\ Goto("perform")
    /\ UNCHANGED <<nops, rels, nrels, active, previous, owner, world>>

(* A mutant: a finished action stays at the head of the plan. *)
Done_Repeats == pc' = "next_action" /\ UNCHANGED me

(* The next action of the plan. *)
Done == pc' = "next_action" /\ me' = [me EXCEPT !.plan = Tail(@)]

RecoveryFails == Goto("recovery_failed")

RecoverRemoveNew ==
    /\ pc = "perform" /\ Head(me.plan) = "remove_new"
    /\ RemoveApplication(me.rel)
    /\ Done \/ RecoveryFails
    /\ UNCHANGED <<durable, target, maintenance, db, acked, orphan>>

RecoverRestore ==
    /\ pc = "perform" /\ Head(me.plan) = "restore_final"
    /\ app[me.prev] = "stopped"
    /\ \E f \in rels[me.rel].final : db' = f
    /\ Done \/ RecoveryFails
    /\ UNCHANGED <<durable, app, target, maintenance, acked, orphan>>

RecoverRestart ==
    /\ pc = "perform" /\ Head(me.plan) = "restart_previous"
    /\ RestartApplication(me.prev)
    /\ Done \/ RecoveryFails
    /\ UNCHANGED <<durable, target, maintenance, db, acked, orphan>>

RecoverRoute ==
    /\ pc = "perform" /\ Head(me.plan) = "activate_previous"
    /\ RouteTo(me.prev)
    /\ Done \/ RecoveryFails
    /\ UNCHANGED <<durable, app, maintenance, db, acked, orphan>>

RecoverReopen ==
    /\ pc = "perform" /\ Head(me.plan) = "disable_maintenance"
    /\ SetMaintenance(FALSE)
    /\ Done \/ RecoveryFails
    /\ UNCHANGED <<durable, app, target, db, acked, orphan>>

RecoverVerify ==
    /\ pc = "perform"
    /\ \/ Head(me.plan) = "verify_previous" /\ Healthy(me.prev)
       \/ Head(me.plan) = "verify_new" /\ Healthy(me.rel)
    /\ Done
    /\ UNCHANGED <<durable, world>>

(* Any action but the last may fail without effect. *)
RecoverActionFails ==
    /\ pc = "perform"
    /\ Head(me.plan) \notin {"mark_rolled_back", "mark_active"}
    /\ RecoveryFails
    /\ UNCHANGED <<durable, world>>

ResolvedRelease(r) ==
    [rels[r] EXCEPT !.status = IF me.activated THEN "active" ELSE "rolled_back",
                    !.activated = me.activated, !.resolved_by = me.op]

(* resolve_recovery; a manifest the model rejects fails the recovery. *)
Resolve ==
    /\ pc = "perform"
    /\ Head(me.plan) \in {"mark_rolled_back", "mark_active"}
    /\ IF Resolvable(rels[me.rel], ResolvedRelease(me.rel))
       THEN /\ rels' = [rels EXCEPT ![me.rel] = ResolvedRelease(me.rel)]
            /\ Goto(IF me.activated THEN "select_recovered" ELSE "recovered")
       ELSE RecoveryFails /\ UNCHANGED rels
    /\ UNCHANGED <<ops, nops, nrels, active, previous, owner, world>>

SelectRecovered ==
    /\ pc = "select_recovered"
    /\ ActivateRelease(me.rel)
    /\ Goto("recovered")
    /\ UNCHANGED <<ops, nops, rels, nrels, owner, world>>

Recovered ==
    /\ pc = "recovered"
    /\ TransitionOperation("succeeded",
          IF me.activated THEN "recovered_active" ELSE "recovered_rolled_back", me.changed)
    /\ Goto("unlock")
    /\ UNCHANGED <<nops, rels, nrels, active, previous, owner, world>>

RecoveryFailed ==
    /\ pc = "recovery_failed"
    /\ TransitionOperation("recovery_required", "recovery_required", me.changed)
    /\ Goto("unlock")
    /\ UNCHANGED <<nops, rels, nrels, active, previous, owner, world>>

------------------------------------------------------------------------------
(* Every step of a running recovery. *)
RecoverStep ==
    \/ Supersede \/ TakeRelease \/ CreateRecovery \/ OwnRecovery \/ AnnounceAction
    \/ RecoverRemoveNew \/ RecoverRestore \/ RecoverRestart \/ RecoverRoute
    \/ RecoverReopen \/ RecoverVerify \/ RecoverActionFails
    \/ Resolve \/ SelectRecovered \/ Recovered \/ RecoveryFailed
=============================================================================
