---------------------------- MODULE StateDirectory ----------------------------
(***************************************************************************)
(* The files below the atomic operation records: the directory of every    *)
(* operation with its event log and its manifest, the owner metadata and   *)
(* the kernel lock.  Commands write them under the lock, one system call   *)
(* at a time, and may die or meet an I/O error at each; `status` reads     *)
(* them without the lock.                                                  *)
(*                                                                         *)
(* Operations are 1..MaxOps in order of creation (started_at).  An event   *)
(* is the status it carries; stages, messages and evidence are left out.   *)
(***************************************************************************)
EXTENDS Integers, Sequences, FiniteSets

CONSTANTS
    Commands,   \* processes that run deploy or recover
    Status,     \* the process that runs status
    NoOne,
    MaxOps,     \* bound on the operations created
    MaxEvents,  \* MAX_EVENT_COUNT
    Faults      \* "crash", "interrupt" and "io"

ASSUME StateDirectoryAssumption ==
    /\ MaxOps \in Nat /\ MaxEvents \in Nat \ {0}
    /\ Faults \subseteq {"crash", "interrupt", "io"}
    /\ Status \notin Commands /\ NoOne \notin Commands \cup {Status}

Operations == 1..MaxOps
Ended == {"succeeded", "failed_safe", "recovery_required"}

VARIABLES
    (* files *)
    dirs,     \* operation directories created so far
    origin,   \* operation_type and source plan of every operation
    events,   \* complete records of every event log
    torn,     \* logs that end in a partial record
    man,      \* manifests
    tmp,      \* directories with a temporary manifest
    owner,    \* owner metadata of the lock
    (* processes *)
    lock,     \* holder of the kernel lock
    pc, me,   \* commands
    rpc, rd   \* status

files == <<dirs, origin, events, torn, man, tmp, owner>>
reader == <<rpc, rd>>
vars == <<files, lock, pc, me, reader>>

NoManifest == [status |-> "none", last |-> 0]

NoCommand == [type |-> "work", source |-> 0, ack |-> 0, op |-> 0, owned |-> FALSE,
              failed |-> FALSE, target |-> 0, status |-> "none", next |-> "idle"]

NoReport == [report |-> "none", owner |-> [op |-> 0, state |-> "none"], before |-> {},
             listed |-> 0, left |-> {}, found |-> {}, cur |-> 0, man |-> NoManifest]

Init ==
    /\ dirs = 0
    /\ origin = [o \in Operations |-> [type |-> "work", source |-> 0]]
    /\ events = [o \in Operations |-> <<>>]
    /\ torn = [o \in Operations |-> FALSE]
    /\ man = [o \in Operations |-> NoManifest]
    /\ tmp = [o \in Operations |-> FALSE]
    /\ owner = [op |-> 0, state |-> "none"]
    /\ lock = NoOne
    /\ pc = [p \in Commands |-> "idle"] /\ me = [p \in Commands |-> NoCommand]
    /\ rpc = "idle" /\ rd = NoReport

(* _read_consistent, for the holder of the lock: no temporary file, a      *)
(* manifest, a complete log, and both agree.                               *)
Readable(o) ==
    /\ ~tmp[o] /\ man[o].status # "none" /\ ~torn[o]
    /\ man[o].last = Len(events[o])
    /\ events[o][man[o].last] = man[o].status

Unfinished == {o \in 1..dirs : man[o].status = "in_progress"}

------------------------------------------------------------------------------
(* Admission under the lock.                                                *)

Goto(p, l) == pc' = [pc EXCEPT ![p] = l]

Acquire(p) ==
    /\ pc[p] = "idle" /\ lock = NoOne
    /\ lock' = p
    /\ \E t \in {"work", "recover"} : me' = [me EXCEPT ![p] = [NoCommand EXCEPT !.type = t]]
    /\ Goto(p, "admit")
    /\ UNCHANGED <<files, reader>>

(* A mutant: only the manifest of the newest operation is read. *)
CleanOperationState_NewestManifest ==
    /\ owner.state # "active"
    /\ dirs > 0 => man[dirs].status \notin {"in_progress", "recovery_required"}

(* A mutant: the owner metadata is not consulted. *)
CleanOperationState_NoOwner ==
    /\ \A o \in 1..dirs : Readable(o)
    /\ Cardinality(Unfinished) <= 1
    /\ dirs > 0 => man[dirs].status \notin {"in_progress", "recovery_required"}

(* require_clean_operation_state and latest_operation. *)
CleanOperationState ==
    /\ owner.state # "active"
    /\ \A o \in 1..dirs : Readable(o)
    /\ Cardinality(Unfinished) <= 1
    /\ dirs > 0 => man[dirs].status \notin {"in_progress", "recovery_required"}

(* Operations whose release a recovery may resolve: a command that did not *)
(* end well and that no recovery has resolved.                             *)
Recoverable(o) ==
    /\ origin[o].type = "work" /\ man[o].status \in {"in_progress", "recovery_required"}
    /\ ~\E r \in 1..dirs : origin[r].source = o /\ man[r].status = "succeeded"

(* _acknowledged_stale_owner_id *)
Acknowledged(o) ==
    \/ owner.state # "active"
    \/ owner.op = o
    \/ \E r \in 1..dirs :
          /\ r = owner.op
          /\ origin[r] = [type |-> "recover", source |-> o]
          /\ man[r].status = "in_progress"

Admit(p) ==
    /\ pc[p] = "admit"
    /\ \/ /\ me[p].type = "work" /\ CleanOperationState
          /\ Goto(p, "create") /\ UNCHANGED me
       \/ /\ me[p].type = "recover" /\ \A o \in 1..dirs : Readable(o)
          /\ \E o \in 1..dirs :
                /\ Recoverable(o) /\ Acknowledged(o)
                /\ me' = [me EXCEPT ![p] = [@ EXCEPT
                             !.source = o,
                             !.ack = IF owner.state = "active" THEN owner.op ELSE 0]]
          /\ Goto(p, "supersede")
    /\ UNCHANGED <<files, lock, reader>>

(* The command is refused, or has nothing to recover. *)
Refuse(p) ==
    /\ pc[p] = "admit"
    /\ \/ me[p].type = "work" /\ ~CleanOperationState
       \/ me[p].type = "recover"
    /\ Goto(p, "unlock")
    /\ UNCHANGED <<files, lock, me, reader>>

------------------------------------------------------------------------------
(* One record: the event is appended, a temporary manifest is written, it   *)
(* replaces the manifest.                                                   *)

(* Start to record status s of operation o, and go on at l. *)
Write(p, o, s, l) ==
    /\ Goto(p, "append")
    /\ me' = [me EXCEPT ![p] = [@ EXCEPT !.target = o, !.status = s, !.next = l]]

(* A mutant: the log has no limit. *)
Writable_NoLimit(o) ==
    Readable(o) /\ man[o].status = "in_progress"

(* The append is refused at the limit, and whatever cannot be read.        *)
Writable(o) ==
    Readable(o) /\ man[o].status = "in_progress" /\ Len(events[o]) < MaxEvents

(* create_operation *)
Create(p) ==
    /\ pc[p] = "create" /\ dirs < MaxOps
    /\ dirs' = dirs + 1
    /\ origin' = [origin EXCEPT ![dirs + 1] = [type |-> me[p].type, source |-> me[p].source]]
    /\ pc' = [pc EXCEPT ![p] = "append"]
    /\ me' = [me EXCEPT ![p] = [@ EXCEPT !.op = dirs + 1, !.target = dirs + 1,
                                         !.status = "in_progress", !.next = "record"]]
    /\ UNCHANGED <<events, torn, man, tmp, owner, lock, reader>>

(* Nothing was created: the bound of the model, or mkdir failed. *)
CreateFails(p) ==
    /\ pc[p] = "create" /\ (dirs = MaxOps \/ "io" \in Faults)
    /\ Goto(p, "unlock")
    /\ UNCHANGED <<files, lock, me, reader>>

AppendEvent(p) ==
    /\ pc[p] = "append"
    /\ events' = [events EXCEPT ![me[p].target] = Append(@, me[p].status)]
    /\ Goto(p, "stage")
    /\ UNCHANGED <<dirs, origin, torn, man, tmp, owner, lock, me, reader>>

StageManifest(p) ==
    /\ pc[p] = "stage"
    /\ tmp' = [tmp EXCEPT ![me[p].target] = TRUE]
    /\ Goto(p, "replace")
    /\ UNCHANGED <<dirs, origin, events, torn, man, owner, lock, me, reader>>

(* os.replace: the temporary file becomes the manifest. *)
Replaced(o, s) ==
    /\ man' = [man EXCEPT ![o] = [status |-> s, last |-> Len(events[o])]]
    /\ tmp' = [tmp EXCEPT ![o] = FALSE]

ReplaceManifest(p) ==
    /\ pc[p] = "replace"
    /\ Replaced(me[p].target, me[p].status)
    /\ Goto(p, me[p].next)
    /\ UNCHANGED <<dirs, origin, events, torn, owner, lock, me, reader>>

(* Where an I/O error of a write leads: the handler of a running command   *)
(* ends its operation; its own error, or one before the command runs, ends *)
(* the command.                                                            *)
OnError(p) ==
    CASE me[p].next \in {"record", "supersede"} -> "unlock"
      [] me[p].failed                          -> "release"
      [] OTHER                                 -> "handle"

(* The event is not written, written but not synced, or written in part. *)
AppendFails(p) ==
    /\ "io" \in Faults /\ pc[p] = "append"
    /\ \/ UNCHANGED <<events, torn>>
       \/ /\ events' = [events EXCEPT ![me[p].target] = Append(@, me[p].status)]
          /\ UNCHANGED torn
       \/ torn' = [torn EXCEPT ![me[p].target] = TRUE] /\ UNCHANGED events
    /\ Goto(p, OnError(p))
    /\ UNCHANGED <<dirs, origin, man, tmp, owner, lock, me, reader>>

(* The temporary file is removed, unless that fails too. *)
StageFails(p) ==
    /\ "io" \in Faults /\ pc[p] = "stage"
    /\ \E b \in BOOLEAN : tmp' = [tmp EXCEPT ![me[p].target] = b]
    /\ Goto(p, OnError(p))
    /\ UNCHANGED <<dirs, origin, events, torn, man, owner, lock, me, reader>>

(* The replacement fails, or its directory cannot be synced. *)
ReplaceFails(p) ==
    /\ "io" \in Faults /\ pc[p] = "replace"
    /\ \/ Replaced(me[p].target, me[p].status)
       \/ \E b \in BOOLEAN : tmp' = [tmp EXCEPT ![me[p].target] = b] /\ UNCHANGED man
    /\ Goto(p, OnError(p))
    /\ UNCHANGED <<dirs, origin, events, torn, owner, lock, me, reader>>

------------------------------------------------------------------------------
(* The life of a command between the lock and its release.                  *)

(* _take_recovery_ownership: the unfinished operations end, newest first;  *)
(* an unrelated one, or a full log, ends the command.                      *)
Supersede(p) ==
    /\ pc[p] = "supersede"
    /\ IF Unfinished = {} THEN Goto(p, "create") /\ UNCHANGED me
       ELSE \E o \in Unfinished :
              /\ \A q \in Unfinished : q <= o
              /\ IF Writable(o) /\ (o = me[p].source \/ origin[o].type = "recover")
                 THEN Write(p, o, "recovery_required", "supersede")
                 ELSE Goto(p, "unlock") /\ UNCHANGED me
    /\ UNCHANGED <<files, lock, reader>>

(* record_owner: active metadata is replaced only when acknowledged. *)
RecordOwner(p) ==
    /\ pc[p] = "record"
    /\ IF owner.state = "active" /\ owner.op # me[p].ack
       THEN Goto(p, "unlock") /\ UNCHANGED <<owner, me>>
       ELSE /\ owner' = [op |-> me[p].op, state |-> "active"]
            /\ me' = [me EXCEPT ![p] = [@ EXCEPT !.owned = TRUE]]
            /\ Goto(p, "work")
    /\ UNCHANGED <<dirs, origin, events, torn, man, tmp, lock, reader>>

(* The metadata is not replaced, or its directory cannot be synced; no     *)
(* handler ends the operation.                                             *)
RecordFails(p) ==
    /\ "io" \in Faults /\ pc[p] = "record"
    /\ owner' \in {owner, [op |-> me[p].op, state |-> "active"]}
    /\ Goto(p, "unlock")
    /\ UNCHANGED <<dirs, origin, events, torn, man, tmp, lock, me, reader>>

(* append_event, a transition in progress, or the outcome. *)
Work(p) ==
    /\ pc[p] = "work"
    /\ IF Writable(me[p].op)
       THEN \/ Write(p, me[p].op, "in_progress", "work")
            \/ \E s \in Ended : Write(p, me[p].op, s, "release")
       ELSE Goto(p, "handle") /\ UNCHANGED me
    /\ UNCHANGED <<files, lock, reader>>

(* Start to record that the command's operation ended with s. *)
Fail(p, s) ==
    /\ Goto(p, "append")
    /\ me' = [me EXCEPT ![p] = [@ EXCEPT !.target = me[p].op, !.status = s,
                                         !.next = "release", !.failed = TRUE]]

(* A mutant: the handler waits until it can record the failure. *)
Handle_Insists(p) ==
    /\ pc[p] = "handle"
    /\ IF Writable(me[p].op)
       THEN \E s \in {"failed_safe", "recovery_required"} : Fail(p, s)
       ELSE Goto(p, "handle") /\ UNCHANGED me
    /\ UNCHANGED <<files, lock, reader>>

(* _finish_failure, _finish_recovery_required: the outcome of the failure, *)
(* when the record still takes it.                                         *)
Handle(p) ==
    /\ pc[p] = "handle"
    /\ IF Writable(me[p].op)
       THEN \E s \in {"failed_safe", "recovery_required"} : Fail(p, s)
       ELSE Goto(p, "release") /\ UNCHANGED me
    /\ UNCHANGED <<files, lock, reader>>

(* DeploymentLock.release: the metadata first; a failure is reported after *)
(* the kernel lock is gone.                                                *)
ReleaseOwner(p) ==
    /\ pc[p] = "release"
    /\ LET released == IF me[p].owned THEN [owner EXCEPT !.state = "released"] ELSE owner
       IN  owner' \in IF "io" \in Faults THEN {owner, released} ELSE {released}
    /\ Goto(p, "unlock")
    /\ UNCHANGED <<dirs, origin, events, torn, man, tmp, lock, me, reader>>

Unlock(p) ==
    /\ pc[p] = "unlock"
    /\ lock' = NoOne
    /\ Goto(p, "idle") /\ me' = [me EXCEPT ![p] = NoCommand]
    /\ UNCHANGED <<files, reader>>

(* The command dies: the kernel frees its lock, the files stay, an append  *)
(* may be cut short when the host goes down with it.                       *)
Crash(p) ==
    /\ "crash" \in Faults /\ pc[p] # "idle"
    /\ \/ UNCHANGED torn
       \/ pc[p] = "append" /\ torn' = [torn EXCEPT ![me[p].target] = TRUE]
    /\ lock' = NoOne
    /\ Goto(p, "idle") /\ me' = [me EXCEPT ![p] = NoCommand]
    /\ UNCHANGED <<dirs, origin, events, man, tmp, owner, reader>>

(* KeyboardInterrupt or SystemExit: no handler records an outcome, the     *)
(* temporary file is removed and the lock is released.                     *)
Interrupt(p) ==
    /\ "interrupt" \in Faults /\ pc[p] \notin {"idle", "release", "unlock"}
    /\ tmp' = IF pc[p] = "replace" THEN [tmp EXCEPT ![me[p].target] = FALSE] ELSE tmp
    /\ Goto(p, "release")
    /\ UNCHANGED <<dirs, origin, events, torn, man, owner, lock, me, reader>>

------------------------------------------------------------------------------
(* status: probe the lock, then read every operation without it.            *)

Troubled(o) == ~Readable(o) \/ man[o].status = "in_progress"

(* The report stays, with what the properties compare it to. *)
Answer(r) ==
    /\ rpc' = "idle"
    /\ rd' = [NoReport EXCEPT !.report = r,
                              !.before = IF r = "idle" THEN rd.before ELSE {},
                              !.listed = IF r = "interrupted" THEN rd.listed ELSE 0]

(* inspect_lock tries the lock itself; `before` only serves a property. *)
Probe ==
    /\ rpc = "idle"
    /\ IF lock # NoOne
       THEN /\ rd' = [NoReport EXCEPT !.report = "active"]
            /\ UNCHANGED <<lock, rpc>>
       ELSE /\ lock' = Status /\ rpc' = "probed"
            /\ rd' = [NoReport EXCEPT !.before = {o \in 1..dirs : Troubled(o)}]
    /\ UNCHANGED <<files, pc, me>>

ReadOwner ==
    /\ rpc = "probed"
    /\ lock' = NoOne
    /\ rpc' = "list" /\ rd' = [rd EXCEPT !.owner = owner]
    /\ UNCHANGED <<files, pc, me>>

List ==
    /\ rpc = "list"
    /\ rpc' = "scan" /\ rd' = [rd EXCEPT !.listed = dirs, !.left = 1..dirs]
    /\ UNCHANGED <<files, lock, pc, me>>

(* A mutant: a directory without a manifest is passed over. *)
ScanDirectory_SkipsIncomplete ==
    /\ rpc = "scan"
    /\ \E o \in rd.left :
          IF tmp[o] \/ man[o].status = "none"
          THEN rd' = [rd EXCEPT !.left = @ \ {o}] /\ UNCHANGED rpc
          ELSE rpc' = "events" /\ rd' = [rd EXCEPT !.cur = o, !.man = man[o]]
    /\ UNCHANGED <<files, lock, pc, me>>

(* The entries of a directory and its manifest. *)
ScanDirectory ==
    /\ rpc = "scan"
    /\ \E o \in rd.left :
          IF tmp[o] \/ man[o].status = "none"
          THEN Answer("recovery_required")
          ELSE rpc' = "events" /\ rd' = [rd EXCEPT !.cur = o, !.man = man[o]]
    /\ UNCHANGED <<files, lock, pc, me>>

ReadEvents ==
    /\ rpc = "events"
    /\ LET o == rd.cur
       IN  IF torn[o] \/ rd.man.last # Len(events[o])
                      \/ events[o][rd.man.last] # rd.man.status
           THEN Answer("recovery_required")
           ELSE rpc' = "scan" /\ rd' = [rd EXCEPT !.left = @ \ {o},
                                          !.found = @ \cup {[op |-> o, status |-> rd.man.status]}]
    /\ UNCHANGED <<files, lock, pc, me>>

(* The newest operation listed, with the status that was read. *)
Latest == {f \in rd.found : f.op = rd.listed}

(* inspect_runtime_status, from the owner and the operations read. *)
Report ==
    /\ rpc = "scan" /\ rd.left = {}
    /\ LET unfinished == {f \in rd.found : f.status = "in_progress"}
       IN  Answer(
             CASE Cardinality(unfinished) > 1 -> "recovery_required"
               [] rd.owner.state = "active" /\ Cardinality(unfinished) <= 1 ->
                    IF \E f \in Latest \cap unfinished : f.op = rd.owner.op
                    THEN "interrupted" ELSE "recovery_required"
               [] OTHER ->
                    IF Latest \cap unfinished # {} THEN "interrupted"
                    ELSE IF \E f \in Latest : f.status = "recovery_required"
                    THEN "recovery_required" ELSE "idle")
    /\ UNCHANGED <<files, lock, pc, me>>

------------------------------------------------------------------------------
(* A command that has the lock goes on; a fault does not have to happen.    *)
Proceed(p) ==
    \/ Admit(p) \/ Refuse(p) \/ Create(p) \/ CreateFails(p)
    \/ AppendEvent(p) \/ StageManifest(p) \/ ReplaceManifest(p)
    \/ AppendFails(p) \/ StageFails(p) \/ ReplaceFails(p)
    \/ Supersede(p) \/ RecordOwner(p) \/ RecordFails(p) \/ Work(p) \/ Handle(p)
    \/ ReleaseOwner(p) \/ Unlock(p)

ReadStatus == ReadOwner \/ List \/ ScanDirectory \/ ReadEvents \/ Report

Next ==
    \/ \E p \in Commands : Acquire(p) \/ Proceed(p) \/ Crash(p) \/ Interrupt(p)
    \/ Probe \/ ReadStatus

Spec ==
    /\ Init /\ [][Next]_vars
    /\ \A p \in Commands : WF_vars(Proceed(p))
    /\ WF_vars(ReadStatus)

------------------------------------------------------------------------------
(* Types: no complete record is ever appended beyond MAX_EVENT_COUNT, so    *)
(* the log of an operation stays readable when it is full (state.py).       *)
TypeOK ==
    /\ dirs \in 0..MaxOps
    /\ \A o \in Operations :
          /\ origin[o] \in [type : {"work", "recover"}, source : 0..MaxOps]
          /\ Len(events[o]) <= MaxEvents
          /\ \A i \in 1..Len(events[o]) : events[o][i] \in Ended \cup {"in_progress"}
          /\ man[o] \in [status : Ended \cup {"none", "in_progress"}, last : 0..MaxEvents]
    /\ torn \in [Operations -> BOOLEAN] /\ tmp \in [Operations -> BOOLEAN]
    /\ owner \in [op : 0..MaxOps, state : {"none", "active", "released"}]
    /\ lock \in Commands \cup {Status, NoOne}
    /\ \A p \in Commands : pc[p] # "idle" => lock = p
    /\ rpc \in {"idle", "probed", "list", "scan", "events"}
    /\ rd.report \in {"none", "active", "idle", "interrupted", "recovery_required"}

(* What the command that holds the lock is entitled to read of an operation *)
(* it is writing, and any later command of an operation nobody writes.      *)
BeingWritten(o) ==
    \E p \in Commands : pc[p] \in {"append", "stage", "replace"} /\ me[p].target = o

RecordOf(o) ==
    CASE o > dirs                        -> "none"
      [] Readable(o) \/ BeingWritten(o)  -> man[o].status
      [] OTHER                           -> "unreadable"

Records == INSTANCE OperationRecords WITH record <- [o \in Operations |-> RecordOf(o)]

(* The event log, the temporary file, the manifest and the lock implement   *)
(* atomic operation records: whatever dies or fails between two system      *)
(* calls, an operation begins only after all others ended, ends once, and   *)
(* a half-written record is never taken for a whole one (StateStore with    *)
(* DeploymentLock).                                                         *)
ImplementsRecords == Records!Spec

(* A command that was admitted and created its operation never finds owner  *)
(* metadata that it may not replace: the admission of deploy and of recover *)
(* and record_owner agree, so no operation is left behind without an owner  *)
(* unless an I/O error or a crash is to blame (locking.py record_owner).    *)
RecordAccepted ==
    \A p \in Commands :
        pc[p] = "record" /\ owner.state = "active" => owner.op = me[p].ack

(* When status answers "idle", every operation that was unfinished or       *)
(* unreadable when it probed the lock has been brought to a readable end    *)
(* since, although it reads the files one by one while commands write them  *)
(* (diagnostics.py inspect_runtime_status).                                 *)
IdleReportIsTrue ==
    rd.report = "idle" => \A o \in rd.before : ~Troubled(o)

(* Whoever holds the lock gives it up: no sequence of errors and no full    *)
(* log keeps a command in its handlers (DeploymentLock.__exit__).           *)
LockIsReleased ==
    \A p \in Commands \cup {Status} : lock = p ~> lock # p

(* "An operation is unfinished but no process holds the deployment lock.":  *)
(* the operation that status reports as interrupted is not being run by a   *)
(* command (diagnostics.py inspect_runtime_status).                         *)
AlarmIsTrue ==
    rd.report = "interrupted" => \A p \in Commands : me[p].op # rd.listed
=============================================================================
