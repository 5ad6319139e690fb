------------------------- MODULE DeployHistory_proofs -------------------------
(***************************************************************************)
(* The history that commands leave behind, for every value of the          *)
(* constants: which releases and operations may still change, what the     *)
(* pointer file selects, and when a new deployment is admitted.            *)
(***************************************************************************)
EXTENDS DeployTypes_proofs

USE HostAssumption DEF Releases, Operations, Apps

(* The steps between the lock and the first release of a deployment. *)
Starting == {"record_owner", "create_release"}

(* The steps of a recovery before it has an operation of its own. *)
Taking == {"supersede", "take_release", "create_recovery"}

(* The steps after which an outcome is recorded. *)
Closing == {"fail_operation", "select_active", "succeed", "select_recovered", "recovered"}

(* The other steps of a command with an operation and a release of its own. *)
Plain == Steps \ (Starting \cup Taking \cup Closing \cup {"idle", "unlock"})

Ended == {"succeeded", "failed_safe", "recovery_required"}

(* Every release is resolved, and no active one is newer than the pointer. *)
Settled ==
    \A r \in 1..nrels :
        rels[r].status \in ResolvedStates /\ (rels[r].status = "active" => r <= active)

OperationsOK ==
    /\ \A o \in Operations : (o > nops) <=> (ops[o].status = "none")
    /\ \A o \in Operations : ops[o].status = "in_progress" => o = nops

ReleasesOK ==
    /\ \A r \in Releases : r > nrels => rels[r].status = "created"
    /\ \A r \in 1..nrels : rels[r].op \in 1..nops
    /\ \A r \in 1..nrels :
          r < nrels => /\ rels[r].status \in ResolvedStates
                       /\ rels[r].status = "active" => r <= active

(* The pointers, and that an ended operation leaves a settled history. *)
PointersOK ==
    /\ active <= nrels
    /\ active # 0 => rels[active].status = "active"
    /\ previous # 0 => rels[previous].status = "active" /\ previous < active
    /\ active = 0 => previous = 0

AdmissionOK ==
    nops = 0 \/ ops[nops].status \in {"succeeded", "failed_safe"} => Settled

(* What a running command relies on. *)
RunOK ==
    /\ pc \in Starting => Settled
    /\ pc \in Taking \cup Closing \cup Plain => me.rel = nrels
    /\ pc \in Starting \cup Closing \cup Plain =>
          me.op = nops /\ nops \in Operations /\ ops[nops].status = "in_progress"
    /\ pc \in Taking =>
          nops \in Operations /\ ops[nops].status \in {"in_progress", "recovery_required"}
    /\ pc \in {"take_release", "create_recovery"} => ops[nops].status = "recovery_required"
    /\ pc = "fail_operation" => rels[nrels].status \in {"rolled_back", "failed_safe"}
    /\ pc \in {"select_active", "succeed", "select_recovered"} => rels[nrels].status = "active"
    /\ pc = "succeed" => active = nrels
    /\ pc = "recovered" =>
          rels[nrels].status \in ResolvedStates /\ (rels[nrels].status = "active" => active = nrels)

HistoryOK == OperationsOK /\ ReleasesOK /\ PointersOK /\ AdmissionOK /\ RunOK

------------------------------------------------------------------------------
(* Effects of the writes on what the history keeps.                         *)

(* A transition changes the command's operation only. *)
LEMMA OperationWritten ==
    ASSUME TypeOK, me.op \in Operations, NEW s, NEW g, NEW c, TransitionOperation(s, g, c)
    PROVE  /\ ops[me.op].status = "in_progress"
           /\ ops'[me.op].status = s /\ ops'[me.op].stage = g
           /\ \A o \in Operations : o # me.op => ops'[o] = ops[o]
    BY DEF TypeOK, TransitionOperation, JournalAccepts, OperationRecord

(* A write of the command's release changes that release only. *)
LEMMA ReleaseWritten ==
    ASSUME TypeOK, me.rel \in Releases, NEW m, rels' = [rels EXCEPT ![me.rel] = m]
    PROVE  rels'[me.rel] = m /\ \A r \in Releases : r # me.rel => rels'[r] = rels[r]
    BY DEF TypeOK

(* No transition leaves a resolved state. *)
LEMMA ResolvedIsFinal ==
    ASSUME NEW s \in ResolvedStates
    PROVE  TRANSITIONS(s) = {}
    BY DEF ResolvedStates, TRANSITIONS

(* The steps are classified once and without overlap. *)
LEMMA Classes ==
    /\ Starting \cap (Taking \cup Closing \cup Plain \cup {"idle", "unlock"}) = {}
    /\ Taking \cap (Closing \cup Plain \cup {"idle", "unlock"}) = {}
    /\ Closing \cap (Plain \cup {"idle", "unlock"}) = {}
    /\ Plain \cap {"idle", "unlock"} = {}
    BY DEF Starting, Taking, Closing, Plain

(* A step that writes nothing to the history. *)
LEMMA QuietStep ==
    ASSUME HistoryOK, pc \in Plain, pc' \in Plain, me'.op = me.op, me'.rel = me.rel,
           UNCHANGED <<ops, nops, rels, nrels, active, previous>>
    PROVE  HistoryOK'
<1> USE DEF HistoryOK, OperationsOK, ReleasesOK, PointersOK, AdmissionOK, Settled
<1>1. OperationsOK' /\ ReleasesOK' /\ PointersOK' /\ AdmissionOK'
  OBVIOUS
<1>2. RunOK'
  BY Classes DEF RunOK, Starting, Taking, Closing, Plain
<1> QED
  BY <1>1, <1>2

(* A command that ends without an outcome. *)
LEMMA AbandonedStep ==
    ASSUME HistoryOK, pc' = "idle", UNCHANGED <<ops, nops, rels, nrels, active, previous>>
    PROVE  HistoryOK'
<1> USE DEF HistoryOK, OperationsOK, ReleasesOK, PointersOK, AdmissionOK, Settled
<1>1. OperationsOK' /\ ReleasesOK' /\ PointersOK' /\ AdmissionOK'
  OBVIOUS
<1>2. RunOK'
  BY DEF RunOK, Starting, Taking, Closing, Plain
<1> QED
  BY <1>1, <1>2

(* A step that records progress of the operation. *)
LEMMA ProgressStep ==
    ASSUME TypeOK, HistoryOK, pc \in Plain, pc' \in Plain, me'.op = me.op, me'.rel = me.rel,
           \E g, c : TransitionOperation("in_progress", g, c),
           UNCHANGED <<nops, rels, nrels, active, previous>>
    PROVE  HistoryOK'
<1>1. me.op = nops /\ nops \in Operations /\ ops[nops].status = "in_progress"
  BY DEF HistoryOK, RunOK
<1>2. \A o \in Operations : ops'[o].status = ops[o].status
  <2>1. PICK g, c : TransitionOperation("in_progress", g, c)
    OBVIOUS
  <2>2. QED
    BY <1>1, <2>1, OperationWritten
<1>3. OperationsOK' /\ ReleasesOK' /\ PointersOK'
  BY <1>2 DEF HistoryOK, OperationsOK, ReleasesOK, PointersOK
<1>4. AdmissionOK'
  <2>1. nops' = nops /\ nops # 0 /\ ops'[nops].status = "in_progress"
    BY <1>1, <1>2
  <2>2. QED
    BY <2>1 DEF AdmissionOK
<1>5. RunOK'
  BY <1>1, <1>2 DEF HistoryOK, RunOK, Starting, Taking, Closing, Plain
<1> QED
  BY <1>3, <1>4, <1>5 DEF HistoryOK

(* A step that ends the operation; an outcome needs a settled history. *)
LEMMA EndingStep ==
    ASSUME TypeOK, HistoryOK, pc \in Starting \cup Closing \cup Plain, pc' = "unlock",
           NEW s \in Ended, NEW g, NEW c, TransitionOperation(s, g, c),
           s \in {"succeeded", "failed_safe"} => Settled,
           UNCHANGED <<nops, rels, nrels, active, previous>>
    PROVE  HistoryOK'
<1>1. me.op = nops /\ nops \in Operations
  BY DEF HistoryOK, RunOK
<1>2. ops'[nops].status = s /\ \A o \in Operations : o # nops => ops'[o] = ops[o]
  BY <1>1, OperationWritten
<1>3. OperationsOK'
  <2>1. \A o \in Operations : (o > nops) <=> (ops'[o].status = "none")
    BY <1>1, <1>2 DEF HistoryOK, OperationsOK, Ended
  <2>2. \A o \in Operations : ops'[o].status # "in_progress"
    BY <1>1, <1>2 DEF HistoryOK, OperationsOK, Ended
  <2>3. QED
    BY <2>1, <2>2 DEF OperationsOK
<1>4. ReleasesOK' /\ PointersOK'
  BY DEF HistoryOK, ReleasesOK, PointersOK
<1>5. AdmissionOK'
  <2>1. Settled => Settled'
    BY DEF Settled
  <2>2. nops # 0
    BY <1>1
  <2>3. CASE Settled
    BY <2>1, <2>3 DEF AdmissionOK
  <2>4. CASE ~Settled
    <3>1. ops'[nops].status \notin {"succeeded", "failed_safe"}
      BY <1>2, <2>4
    <3>2. nops' = nops
      OBVIOUS
    <3>3. QED
      BY <2>2, <3>1, <3>2 DEF AdmissionOK
  <2>5. QED
    BY <2>3, <2>4
<1>6. RunOK'
  BY DEF RunOK, Starting, Taking, Closing, Plain
<1> QED
  BY <1>3, <1>4, <1>5, <1>6 DEF HistoryOK

(* A step that writes the newest release while its operation is unfinished. *)
LEMMA ReleaseStep ==
    ASSUME TypeOK, HistoryOK, me.rel = nrels, me.rel \in Releases, nops \in Operations,
           ops[nops].status \in {"in_progress", "recovery_required"},
           NEW m, rels' = [rels EXCEPT ![me.rel] = m],
           m.op = rels[me.rel].op, rels[me.rel].status \notin ResolvedStates,
           UNCHANGED <<ops, nops, nrels, active, previous>>
    PROVE  /\ OperationsOK' /\ ReleasesOK' /\ PointersOK' /\ AdmissionOK'
           /\ rels'[nrels] = m
<1>1. rels'[nrels] = m /\ \A r \in Releases : r # nrels => rels'[r] = rels[r]
  BY ReleaseWritten
<1>2. active < nrels
  <2>1. active \in 0..MaxRel /\ nrels \in 0..MaxRel /\ nrels \in 1..MaxRel
    BY DEF TypeOK
  <2>2. active <= nrels /\ (active # 0 => rels[active].status = "active")
    BY DEF HistoryOK, PointersOK
  <2>3. rels[nrels].status # "active"
    BY DEF ResolvedStates
  <2>4. QED
    BY <2>1, <2>2, <2>3
<1>3. OperationsOK'
  BY DEF HistoryOK, OperationsOK
<1>4. ReleasesOK'
  BY <1>1 DEF HistoryOK, ReleasesOK, TypeOK
<1>5. PointersOK'
  BY <1>1, <1>2 DEF HistoryOK, PointersOK, TypeOK
<1>6. AdmissionOK'
  <2>1. nops' = nops /\ ops' = ops /\ nops # 0
    OBVIOUS
  <2>2. QED
    BY <2>1 DEF AdmissionOK
<1> QED
  BY <1>1, <1>3, <1>4, <1>5, <1>6

------------------------------------------------------------------------------
(* The steps of a deployment.                                               *)

(* The steps that act on the world or only decide. *)
QuietDeployStep ==
    \/ CandidateStage \/ CandidateFails \/ ResolvePrevious \/ ResolveFails
    \/ EnableMaintenance \/ EnableFails \/ UndoMaintenance \/ UndoFails
    \/ VerifyUndo \/ StopCurrent \/ StopFails \/ CreateFinal
    \/ ReplicateFinal \/ BackupFails \/ StartMigration \/ MigrationNotStarted
    \/ FinishMigration \/ MigrationFails \/ StartNew \/ StartNewFails
    \/ CheckNew \/ ActivateNew \/ DisableMaintenance \/ DisableFails
    \/ DispatchFailure \/ RemoveNew \/ RestoreDatabase \/ RestartPrevious
    \/ RouteOld \/ Reopen \/ VerifyPrevious \/ RollbackFails

(* They write nothing to the history, and the command goes on with the     *)
(* same operation and release.                                              *)
LEMMA QuietDeploy ==
    ASSUME TypeOK, QuietDeployStep
    PROVE  /\ pc \in Plain /\ pc' \in Plain /\ me'.op = me.op /\ me'.rel = me.rel
           /\ UNCHANGED <<ops, nops, rels, nrels, active, previous>>
<1> USE DEF durable, Plain, Steps, Starting, Taking, Closing
<1>0. /\ \A p : Goto(p) => pc' = p /\ me'.op = me.op /\ me'.rel = me.rel
      /\ \A p : RollbackOn(p) => /\ pc' \in {p, "require_recovery"}
                                 /\ me'.op = me.op /\ me'.rel = me.rel
      /\ \A e : Fail(e) => pc' = "failed" /\ me'.op = me.op /\ me'.rel = me.rel
      /\ \A s : Persist(s) => pc' = "persist" /\ me'.op = me.op /\ me'.rel = me.rel
  BY DEF Goto, RollbackOn, Fail, Persist, TypeOK, Context
<1>1. CASE CandidateStage
  BY <1>0, <1>1 DEF CandidateStage
<1>2. CASE CandidateFails
  BY <1>0, <1>2 DEF CandidateFails
<1>3. CASE ResolvePrevious
  BY <1>3 DEF ResolvePrevious, TypeOK, Context
<1>4. CASE ResolveFails
  BY <1>0, <1>4 DEF ResolveFails
<1>5. CASE EnableMaintenance
  BY <1>5 DEF EnableMaintenance, TypeOK, Context
<1>6. CASE EnableFails
  BY <1>6 DEF EnableFails, TypeOK, Context
<1>7. CASE UndoMaintenance
  BY <1>0, <1>7 DEF UndoMaintenance
<1>8. CASE UndoFails
  BY <1>0, <1>8 DEF UndoFails
<1>9. CASE VerifyUndo
  BY <1>0, <1>9 DEF VerifyUndo
<1>10. CASE StopCurrent
  BY <1>10 DEF StopCurrent, TypeOK, Context
<1>11. CASE StopFails
  BY <1>0, <1>11 DEF StopFails
<1>12. CASE CreateFinal
  BY <1>12 DEF CreateFinal, TypeOK, Context
<1>13. CASE ReplicateFinal
  BY <1>0, <1>13 DEF ReplicateFinal
<1>14. CASE BackupFails
  BY <1>0, <1>14 DEF BackupFails
<1>15. CASE StartMigration
  BY <1>0, <1>15 DEF StartMigration
<1>16. CASE MigrationNotStarted
  BY <1>0, <1>16 DEF MigrationNotStarted
<1>17. CASE FinishMigration
  BY <1>0, <1>17 DEF FinishMigration
<1>18. CASE MigrationFails
  BY <1>0, <1>18 DEF MigrationFails
<1>19. CASE StartNew
  BY <1>19 DEF StartNew, TypeOK, Context
<1>20. CASE StartNewFails
  BY <1>0, <1>20 DEF StartNewFails
<1>21. CASE CheckNew
  BY <1>0, <1>21 DEF CheckNew
<1>22. CASE ActivateNew
  BY <1>22 DEF ActivateNew, TypeOK, Context
<1>23. CASE DisableMaintenance
  BY <1>23 DEF DisableMaintenance, TypeOK, Context
<1>24. CASE DisableFails
  BY <1>0, <1>24 DEF DisableFails
<1>25. CASE DispatchFailure
  BY <1>0, <1>25 DEF DispatchFailure
<1>26. CASE RemoveNew
  BY <1>0, <1>26 DEF RemoveNew
<1>27. CASE RestoreDatabase
  BY <1>0, <1>27 DEF RestoreDatabase
<1>28. CASE RestartPrevious
  BY <1>0, <1>28 DEF RestartPrevious
<1>29. CASE RouteOld
  BY <1>0, <1>29 DEF RouteOld
<1>30. CASE Reopen
  BY <1>0, <1>30 DEF Reopen
<1>31. CASE VerifyPrevious
  BY <1>0, <1>31 DEF VerifyPrevious
<1>32. CASE RollbackFails
  BY <1>0, <1>32 DEF RollbackFails
<1> QED
  BY <1>1, <1>2, <1>3, <1>4, <1>5, <1>6, <1>7, <1>8, <1>9, <1>10, <1>11, <1>12,
     <1>13, <1>14, <1>15, <1>16, <1>17, <1>18, <1>19, <1>20, <1>21, <1>22, <1>23,
     <1>24, <1>25, <1>26, <1>27, <1>28, <1>29, <1>30, <1>31, <1>32
     DEF QuietDeployStep

(* A step that selects the newest release, which is active. *)
LEMMA SelectionStep ==
    ASSUME TypeOK, HistoryOK, pc \in Closing, pc' \in {"succeed", "recovered"}, me' = me,
           rels[nrels].status = "active", nrels \in Releases, ActivateRelease(nrels),
           UNCHANGED <<ops, nops, rels, nrels>>
    PROVE  HistoryOK'
<1>1. active' = nrels /\ nrels # 0
  BY DEF ActivateRelease
<1>2. /\ active \in 0..MaxRel /\ nrels \in 0..MaxRel /\ previous \in 0..MaxRel
      /\ active <= nrels
  BY DEF TypeOK, HistoryOK, PointersOK
<1>3. OperationsOK'
  BY DEF HistoryOK, OperationsOK
<1>4. ReleasesOK'
  BY <1>1, <1>2 DEF HistoryOK, ReleasesOK
<1>5. PointersOK'
  <2>1. CASE active = nrels
    BY <1>1, <1>2, <2>1 DEF ActivateRelease, HistoryOK, PointersOK
  <2>2. CASE active # nrels
    BY <1>1, <1>2, <2>2 DEF ActivateRelease, HistoryOK, PointersOK
  <2>3. QED
    BY <2>1, <2>2
<1>6. nops' = nops /\ nops \in Operations /\ ops'[nops].status = "in_progress"
  BY DEF HistoryOK, RunOK
<1>7. AdmissionOK'
  BY <1>6 DEF AdmissionOK
<1>8. RunOK'
  BY <1>1, <1>6 DEF HistoryOK, RunOK, Starting, Taking, Closing, Plain, ResolvedStates
<1> QED
  BY <1>3, <1>4, <1>5, <1>7, <1>8 DEF HistoryOK

(* Every step of a deployment keeps the history. *)
LEMMA DeployHistory ==
    ASSUME TypeOK, ContextOK, HistoryOK, DeployStep
    PROVE  HistoryOK'
<1> USE DEF durable, Plain, Steps, Starting, Taking, Closing
<1>0. /\ \A p : Goto(p) => pc' = p /\ me' = me
      /\ me.op \in 0..MaxOps /\ me.rel \in 0..MaxRel
  BY ContextFields DEF Goto, TypeOK
<1>a. /\ pc \in Closing \cup Plain => me.rel = nrels /\ me.rel \in Releases
      /\ pc \in Starting \cup Closing \cup Plain =>
            me.op = nops /\ nops \in Operations /\ ops[nops].status = "in_progress"
  BY DEF HistoryOK, RunOK, ContextOK, TypeOK
<1>b. ASSUME NEW s, NEW m, TransitionRelease(m), m.status = s
      PROVE  rels[me.rel].status \notin ResolvedStates
  BY <1>b, ResolvedIsFinal DEF TransitionRelease, Accepted
<1>c. pc \notin {"idle", "record_owner", "create_release", "unlock"} => rels[me.rel] \in Manifest
  BY DEF ContextOK, TypeOK
<1>1. CASE QuietDeployStep
  BY <1>1, QuietDeploy, QuietStep
<1>2. CASE RecordOwner
  BY <1>0, <1>2 DEF RecordOwner, HistoryOK, OperationsOK, ReleasesOK, PointersOK,
                    AdmissionOK, Settled, RunOK
<1>3. CASE CreateRelease
  <2>1. nrels + 1 \in Releases /\ nrels \in 0..MaxRel /\ active \in 0..MaxRel
        /\ previous \in 0..MaxRel /\ nops \in Operations /\ me.op = nops
        /\ ops[nops].status = "in_progress"
    BY <1>3, <1>a DEF CreateRelease, ContextOK, TypeOK
  <2>2. /\ rels'[nrels + 1].status = "created" /\ rels'[nrels + 1].op = me.op
        /\ \A r \in Releases : r # nrels + 1 => rels'[r] = rels[r]
    BY <1>3, <2>1 DEF CreateRelease, TypeOK, NoManifest
  <2>3. /\ me'.op = me.op /\ me'.rel = nrels + 1 /\ nrels' = nrels + 1 /\ pc' = "candidate"
        /\ UNCHANGED <<ops, nops, active, previous>>
    BY <1>3 DEF CreateRelease, TypeOK, Context
  <2>4. Settled
    BY <1>3 DEF CreateRelease, HistoryOK, RunOK
  <2>5. OperationsOK'
    BY <2>3 DEF HistoryOK, OperationsOK
  <2>6. ReleasesOK'
    <3>1. \A r \in Releases : r > nrels + 1 => rels'[r].status = "created"
      BY <2>1, <2>2 DEF HistoryOK, ReleasesOK
    <3>2. \A r \in 1..(nrels + 1) : rels'[r].op \in 1..nops
      BY <2>1, <2>2 DEF HistoryOK, ReleasesOK
    <3>3. \A r \in 1..nrels :
              /\ rels'[r].status \in ResolvedStates
              /\ rels'[r].status = "active" => r <= active
      BY <2>1, <2>2, <2>4 DEF Settled
    <3>4. QED
      BY <2>1, <2>3, <3>1, <3>2, <3>3 DEF ReleasesOK
  <2>7. PointersOK'
    BY <2>1, <2>2, <2>3 DEF HistoryOK, PointersOK
  <2>8. AdmissionOK'
    BY <2>1, <2>3 DEF AdmissionOK
  <2>9. RunOK'
    BY <2>1, <2>3 DEF RunOK
  <2>10. QED
    BY <2>5, <2>6, <2>7, <2>8, <2>9 DEF HistoryOK
<1>4. CASE FailWithoutRelease
  <2>1. PICK s \in {"failed_safe", "recovery_required"} : TransitionOperation(s, s, FALSE)
    BY <1>4 DEF FailWithoutRelease
  <2>2. s \in Ended /\ pc \in Starting /\ pc' = "unlock" /\ Settled
        /\ UNCHANGED <<nops, rels, nrels, active, previous>>
    BY <1>0, <1>4, <2>1 DEF FailWithoutRelease, Ended, HistoryOK, RunOK
  <2>3. QED
    BY <2>1, <2>2, EndingStep
<1>5. CASE PersistOperation
  <2>1. \E g, c : TransitionOperation("in_progress", g, c)
    BY <1>5 DEF PersistOperation
  <2>2. QED
    BY <1>0, <1>5, <2>1, ProgressStep DEF PersistOperation
<1>6. CASE AnnounceMigration
  <2>1. \E g, c : TransitionOperation("in_progress", g, c)
    BY <1>6 DEF AnnounceMigration
  <2>2. QED
    BY <1>0, <1>6, <2>1, ProgressStep DEF AnnounceMigration
<1>7. CASE AnnounceActivation
  <2>1. \E g, c : TransitionOperation("in_progress", g, c)
    BY <1>7 DEF AnnounceActivation
  <2>2. QED
    BY <1>0, <1>7, <2>1, ProgressStep DEF AnnounceActivation
<1>8. CASE RecordActivation
  <2>1. /\ pc = "record_hook" /\ pc' \in {"persist", "failed"} /\ me'.op = me.op
        /\ me'.rel = me.rel /\ UNCHANGED <<nops, rels, nrels, active, previous>>
    BY <1>8 DEF RecordActivation, TypeOK, Context
  <2>2. \A o \in Operations : ops'[o].status = ops[o].status
    BY <1>8 DEF RecordActivation, TypeOK, OperationRecord
  <2>3. OperationsOK' /\ ReleasesOK' /\ PointersOK'
    BY <2>1, <2>2 DEF HistoryOK, OperationsOK, ReleasesOK, PointersOK
  <2>4. AdmissionOK'
    BY <1>a, <2>1, <2>2 DEF AdmissionOK
  <2>5. RunOK'
    BY <1>a, <2>1, <2>2 DEF HistoryOK, RunOK
  <2>6. QED
    BY <2>3, <2>4, <2>5 DEF HistoryOK
<1>9. CASE PersistRelease
  <2> DEFINE m == StageChanges(rels[me.rel], me.stage)
  <2>1. /\ TransitionRelease(m) /\ pc = "persist_release" /\ pc' = After(me.stage) /\ me' = me
        /\ UNCHANGED <<ops, nops, nrels, active, previous>>
    BY <1>0, <1>9 DEF PersistRelease
  <2>2. m.op = rels[me.rel].op
    BY <1>c, <2>1 DEF StageChanges, Manifest
  <2>3. rels' = [rels EXCEPT ![me.rel] = m] /\ rels[me.rel].status \notin ResolvedStates
    BY <1>b, <2>1 DEF TransitionRelease
  <2> HIDE DEF m
  <2>4. OperationsOK' /\ ReleasesOK' /\ PointersOK' /\ AdmissionOK'
    BY <1>a, <2>1, <2>2, <2>3, ReleaseStep
  <2>5. pc' \in Plain
    BY <2>1 DEF After
  <2>6. RunOK'
    BY <1>a, <2>1, <2>5 DEF RunOK
  <2>7. QED
    BY <2>4, <2>6 DEF HistoryOK
<1>10. CASE IntendMigration
  <2> DEFINE m == [rels[me.rel] EXCEPT !.migration_started = TRUE]
  <2>1. /\ RecordIntent(m) /\ pc \in Plain /\ pc' = "announce_migration" /\ me'.op = me.op
        /\ me'.rel = me.rel /\ UNCHANGED <<ops, nops, nrels, active, previous>>
    BY <1>10 DEF IntendMigration, TypeOK, Context
  <2>2. m.op = rels[me.rel].op
    BY <1>c, <2>1 DEF Manifest
  <2>3. rels' = [rels EXCEPT ![me.rel] = m] /\ rels[me.rel].status \notin ResolvedStates
    BY <2>1 DEF RecordIntent, IntentAccepted, TerminalStates
  <2> HIDE DEF m
  <2>4. OperationsOK' /\ ReleasesOK' /\ PointersOK' /\ AdmissionOK'
    BY <1>a, <2>1, <2>2, <2>3, ReleaseStep
  <2>5. RunOK'
    BY <1>a, <2>1 DEF RunOK
  <2>6. QED
    BY <2>4, <2>5 DEF HistoryOK
<1>11. CASE IntendActivation
  <2> DEFINE m == [rels[me.rel] EXCEPT !.attempted = TRUE]
  <2>1. /\ RecordIntent(m) /\ pc \in Plain /\ pc' = "announce_activation" /\ me'.op = me.op
        /\ me'.rel = me.rel /\ UNCHANGED <<ops, nops, nrels, active, previous>>
    BY <1>11 DEF IntendActivation, TypeOK, Context
  <2>2. m.op = rels[me.rel].op
    BY <1>c, <2>1 DEF Manifest
  <2>3. rels' = [rels EXCEPT ![me.rel] = m] /\ rels[me.rel].status \notin ResolvedStates
    BY <2>1 DEF RecordIntent, IntentAccepted, TerminalStates
  <2> HIDE DEF m
  <2>4. OperationsOK' /\ ReleasesOK' /\ PointersOK' /\ AdmissionOK'
    BY <1>a, <2>1, <2>2, <2>3, ReleaseStep
  <2>5. RunOK'
    BY <1>a, <2>1 DEF RunOK
  <2>6. QED
    BY <2>4, <2>5 DEF HistoryOK
<1>12. CASE MarkActive
  <2> DEFINE m == [rels[me.rel] EXCEPT !.status = "active", !.changed = TRUE,
                                       !.activated = TRUE]
  <2>1. /\ TransitionRelease(m) /\ pc \in Plain /\ pc' = "select_active" /\ me' = me
        /\ UNCHANGED <<ops, nops, nrels, active, previous>>
    BY <1>0, <1>12 DEF MarkActive
  <2>2. m.op = rels[me.rel].op /\ m.status = "active"
    BY <1>c, <2>1 DEF Manifest
  <2>3. rels' = [rels EXCEPT ![me.rel] = m] /\ rels[me.rel].status \notin ResolvedStates
    BY <1>b, <2>1 DEF TransitionRelease
  <2> HIDE DEF m
  <2>4. OperationsOK' /\ ReleasesOK' /\ PointersOK' /\ AdmissionOK' /\ rels'[nrels] = m
    BY <1>a, <2>1, <2>2, <2>3, ReleaseStep
  <2>5. RunOK'
    BY <1>a, <2>1, <2>2, <2>4 DEF RunOK
  <2>6. QED
    BY <2>4, <2>5 DEF HistoryOK
<1>13. CASE MarkRolledBack
  <2> DEFINE m == [rels[me.rel] EXCEPT !.status = "rolled_back", !.changed = me.changed,
                                       !.activated = FALSE]
  <2>1. /\ TransitionRelease(m) /\ pc \in Plain /\ pc' = "fail_operation" /\ me' = me
        /\ UNCHANGED <<ops, nops, nrels, active, previous>>
    BY <1>0, <1>13 DEF MarkRolledBack
  <2>2. m.op = rels[me.rel].op /\ m.status = "rolled_back"
    BY <1>c, <2>1 DEF Manifest
  <2>3. rels' = [rels EXCEPT ![me.rel] = m] /\ rels[me.rel].status \notin ResolvedStates
    BY <1>b, <2>1 DEF TransitionRelease
  <2> HIDE DEF m
  <2>4. OperationsOK' /\ ReleasesOK' /\ PointersOK' /\ AdmissionOK' /\ rels'[nrels] = m
    BY <1>a, <2>1, <2>2, <2>3, ReleaseStep
  <2>5. RunOK'
    BY <1>a, <2>1, <2>2, <2>4 DEF RunOK
  <2>6. QED
    BY <2>4, <2>5 DEF HistoryOK
<1>14. CASE FailRelease
  <2> DEFINE m == [rels[me.rel] EXCEPT !.status = "failed_safe", !.changed = me.changed,
                                       !.activated = FALSE]
  <2>1. /\ TransitionRelease(m) /\ pc \in Plain /\ pc' = "fail_operation" /\ me' = me
        /\ UNCHANGED <<ops, nops, nrels, active, previous>>
    BY <1>0, <1>14 DEF FailRelease
  <2>2. m.op = rels[me.rel].op /\ m.status = "failed_safe"
    BY <1>c, <2>1 DEF Manifest
  <2>3. rels' = [rels EXCEPT ![me.rel] = m] /\ rels[me.rel].status \notin ResolvedStates
    BY <1>b, <2>1 DEF TransitionRelease
  <2> HIDE DEF m
  <2>4. OperationsOK' /\ ReleasesOK' /\ PointersOK' /\ AdmissionOK' /\ rels'[nrels] = m
    BY <1>a, <2>1, <2>2, <2>3, ReleaseStep
  <2>5. RunOK'
    BY <1>a, <2>1, <2>2, <2>4 DEF RunOK
  <2>6. QED
    BY <2>4, <2>5 DEF HistoryOK
<1>15. CASE RequireRecovery
  <2> DEFINE m == [rels[me.rel] EXCEPT !.status = "recovery_required",
                                       !.changed = me.changed, !.activated = me.activated]
  <2>1. /\ pc \in Plain /\ pc' = "require_operation_recovery" /\ me' = me
        /\ UNCHANGED <<ops, nops, nrels, active, previous>>
        /\ \/ Accepted(rels[me.rel], m) /\ rels' = [rels EXCEPT ![me.rel] = m]
           \/ UNCHANGED rels
    BY <1>0, <1>15 DEF RequireRecovery
  <2>2. m.op = rels[me.rel].op
    BY <1>c, <2>1 DEF Manifest
  <2> HIDE DEF m
  <2>3. CASE UNCHANGED rels
    BY <2>1, <2>3, QuietStep
  <2>4. CASE Accepted(rels[me.rel], m) /\ rels' = [rels EXCEPT ![me.rel] = m]
    <3>1. rels[me.rel].status \notin ResolvedStates
      BY <2>4, ResolvedIsFinal DEF Accepted
    <3>2. OperationsOK' /\ ReleasesOK' /\ PointersOK' /\ AdmissionOK'
      BY <1>a, <2>1, <2>2, <2>4, <3>1, ReleaseStep
    <3>3. RunOK'
      BY <1>a, <2>1 DEF RunOK
    <3>4. QED
      BY <3>2, <3>3 DEF HistoryOK
  <2>5. QED
    BY <2>1, <2>3, <2>4
<1>16. CASE SelectActive
  <2>1. /\ pc = "select_active" /\ pc' = "succeed" /\ me' = me /\ ActivateRelease(me.rel)
        /\ UNCHANGED <<ops, nops, rels, nrels>>
    BY <1>0, <1>16 DEF SelectActive
  <2>2. QED
    BY <1>a, <2>1, SelectionStep DEF HistoryOK, RunOK
<1>17. CASE Succeed
  <2>1. TransitionOperation("succeeded", "active", TRUE) /\ pc = "succeed" /\ pc' = "unlock"
        /\ UNCHANGED <<nops, rels, nrels, active, previous>>
    BY <1>0, <1>17 DEF Succeed
  <2>2. Settled
    BY <2>1 DEF HistoryOK, RunOK, ReleasesOK, Settled, ResolvedStates, TypeOK
  <2>3. QED
    BY <2>1, <2>2, EndingStep DEF Ended
<1>18. CASE FailOperation
  <2>1. TransitionOperation("failed_safe", rels[me.rel].status, me.changed)
        /\ pc = "fail_operation" /\ pc' = "unlock"
        /\ UNCHANGED <<nops, rels, nrels, active, previous>>
    BY <1>0, <1>18 DEF FailOperation
  <2>2. Settled
    BY <2>1 DEF HistoryOK, RunOK, ReleasesOK, Settled, ResolvedStates, TypeOK
  <2>3. QED
    BY <2>1, <2>2, EndingStep DEF Ended
<1>19. CASE RequireOperationRecovery
  <2>1. TransitionOperation("recovery_required", "recovery_required", me.changed)
        /\ pc = "require_operation_recovery" /\ pc' = "unlock"
        /\ UNCHANGED <<nops, rels, nrels, active, previous>>
    BY <1>0, <1>19 DEF RequireOperationRecovery
  <2>2. QED
    BY <2>1, EndingStep DEF Ended
<1> QED
  BY <1>1, <1>2, <1>3, <1>4, <1>5, <1>6, <1>7, <1>8, <1>9, <1>10, <1>11, <1>12, <1>13,
     <1>14, <1>15, <1>16, <1>17, <1>18, <1>19 DEF DeployStep, QuietDeployStep

------------------------------------------------------------------------------
(* The steps of a recovery.                                                 *)

(* A recovery starts only when the newest operation did not end well, and  *)
(* it takes the newest release.                                             *)
LEMMA RecoveryAdmitted ==
    ASSUME TypeOK, HistoryOK, StartRecover
    PROVE  /\ me'.rel = nrels /\ nops \in Operations
           /\ ops[nops].status \in {"in_progress", "recovery_required"}
<1>1. PICK r \in 1..nrels :
          /\ Selected(r) /\ ~NoActionRequired(r) /\ me'.rel = r
  <2>1. PICK r \in 1..nrels :
          /\ Selected(r)
          /\ \E matches \in ChecksumMatches(r) :
                /\ CompletesNew(r) \/ RecoversPrevious(r, matches)
                /\ me' = [NoContext EXCEPT
                            !.rel = r,
                            !.prev = rels[r].prev,
                            !.changed = CompletesNew(r) \/ MayHaveChanged(r),
                            !.activated = CompletesNew(r),
                            !.plan = IF CompletesNew(r) THEN NewActions
                                     ELSE PreviousActions(r, matches)]
    BY DEF StartRecover
  <2>2. ~NoActionRequired(r)
    BY <2>1 DEF CompletesNew, RecoversPrevious
  <2>3. me'.rel = r
    BY <2>1 DEF NoContext
  <2>4. QED
    BY <2>1, <2>2, <2>3
<1>2. nrels \in 1..MaxRel /\ nops \in 0..MaxOps
  BY <1>1 DEF TypeOK
<1>3. r = nrels
  <2>1. CASE Unresolved = {}
    BY <1>1, <2>1 DEF Selected
  <2>2. CASE Unresolved # {}
    <3>1. r \in Unresolved
      BY <1>1, <2>2 DEF Selected
    <3>2. rels[r].status \notin ResolvedStates
      BY <3>1 DEF Unresolved
    <3>3. QED
      BY <1>1, <1>2, <3>2 DEF HistoryOK, ReleasesOK
  <2>3. QED
    BY <2>1, <2>2
<1>4. rels[r].op \in 1..nops /\ nops \in Operations
  BY <1>1, <1>2 DEF HistoryOK, ReleasesOK
<1>5. ops[nops].status \notin {"succeeded", "failed_safe"}
  <2>1. SUFFICES ASSUME ops[nops].status \in {"succeeded", "failed_safe"} PROVE FALSE
    OBVIOUS
  <2>2. rels[r].status \in ResolvedStates
    BY <1>1, <2>1 DEF HistoryOK, AdmissionOK, Settled
  <2>3. ops[rels[r].op].status = "in_progress"
    BY <1>1, <2>2 DEF NoActionRequired
  <2>4. rels[r].op = nops
    BY <1>4, <2>3 DEF HistoryOK, OperationsOK
  <2>5. QED
    BY <2>1, <2>3, <2>4
<1>6. ops[nops].status \in OperationStatus /\ ops[nops].status # "none"
  BY <1>4 DEF TypeOK, OperationRecord, HistoryOK, OperationsOK
<1> QED
  BY <1>1, <1>3, <1>4, <1>5, <1>6 DEF OperationStatus

(* The actions of a plan write nothing to the history. *)
LEMMA QuietRecovery ==
    ASSUME TypeOK,
           \/ RecoverRemoveNew \/ RecoverRestore \/ RecoverRestart \/ RecoverRoute
           \/ RecoverReopen \/ RecoverVerify \/ RecoverActionFails
    PROVE  /\ pc \in Plain /\ pc' \in Plain /\ me'.op = me.op /\ me'.rel = me.rel
           /\ UNCHANGED <<ops, nops, rels, nrels, active, previous>>
<1>1. Done \/ RecoveryFails =>
          pc' \in {"next_action", "recovery_failed"} /\ me'.op = me.op /\ me'.rel = me.rel
  BY DEF Done, RecoveryFails, Goto, TypeOK, Context
<1>2. /\ pc = "perform" /\ (Done \/ RecoveryFails)
      /\ UNCHANGED <<ops, nops, rels, nrels, active, previous>>
  BY DEF RecoverRemoveNew, RecoverRestore, RecoverRestart, RecoverRoute, RecoverReopen,
         RecoverVerify, RecoverActionFails, durable
<1> QED
  BY <1>1, <1>2 DEF Plain, Steps, Starting, Taking, Closing

(* Every step of a recovery keeps the history. *)
LEMMA RecoverHistory ==
    ASSUME TypeOK, ContextOK, HistoryOK, RecoverStep
    PROVE  HistoryOK'
<1> USE DEF durable, Plain, Steps, Starting, Taking, Closing
<1>0. /\ \A p : Goto(p) => pc' = p /\ me' = me
      /\ me.op \in 0..MaxOps /\ me.rel \in 0..MaxRel
  BY ContextFields DEF Goto, TypeOK
<1>a. /\ pc \in Taking \cup Closing \cup Plain =>
            me.rel = nrels /\ me.rel \in Releases /\ rels[me.rel] \in Manifest
      /\ pc \in Closing \cup Plain =>
            me.op = nops /\ nops \in Operations /\ ops[nops].status = "in_progress"
      /\ pc \in Taking =>
            nops \in Operations /\ ops[nops].status \in {"in_progress", "recovery_required"}
  BY DEF HistoryOK, RunOK, ContextOK, TypeOK
<1>1. CASE Supersede
  <2>1. /\ pc = "supersede" /\ me' = me /\ pc' \in {"supersede", "take_release"}
        /\ UNCHANGED <<nops, rels, nrels, active, previous>>
    BY <1>0, <1>1 DEF Supersede
  <2>2. CASE Unfinished = {}
    <3>1. ops' = ops /\ ops[nops].status = "recovery_required"
      BY <1>1, <1>a, <2>1, <2>2 DEF Supersede, Unfinished
    <3>2. OperationsOK' /\ ReleasesOK' /\ PointersOK'
      BY <2>1, <3>1 DEF HistoryOK, OperationsOK, ReleasesOK, PointersOK
    <3>3. AdmissionOK'
      BY <1>a, <2>1, <3>1 DEF AdmissionOK
    <3>4. RunOK'
      BY <1>a, <2>1, <3>1 DEF RunOK
    <3>5. QED
      BY <3>2, <3>3, <3>4 DEF HistoryOK
  <2>3. CASE Unfinished # {}
    <3>1. PICK o \in Unfinished :
              /\ ops' = [ops EXCEPT ![o] = [@ EXCEPT !.status = "recovery_required",
                                                     !.stage = "recovery_required",
                                                     !.changed = ops[o].changed
                                                                 \/ me.changed]]
              /\ Goto("supersede")
      BY <1>1, <2>3 DEF Supersede
    <3>2. o = nops /\ o \in Operations
      BY DEF Unfinished, HistoryOK, OperationsOK
    <3>3. /\ ops'[nops].status = "recovery_required"
          /\ \A p \in Operations : p # nops => ops'[p] = ops[p]
      BY <3>1, <3>2 DEF TypeOK, OperationRecord
    <3>4. OperationsOK'
      <4>1. \A p \in Operations : (p > nops) <=> (ops'[p].status = "none")
        BY <3>2, <3>3 DEF HistoryOK, OperationsOK
      <4>2. \A p \in Operations : ops'[p].status # "in_progress"
        BY <3>2, <3>3 DEF HistoryOK, OperationsOK
      <4>3. QED
        BY <2>1, <4>1, <4>2 DEF OperationsOK
    <3>5. ReleasesOK' /\ PointersOK'
      BY <2>1 DEF HistoryOK, ReleasesOK, PointersOK
    <3>6. AdmissionOK'
      BY <1>a, <2>1, <3>2, <3>3 DEF AdmissionOK
    <3>7. RunOK'
      BY <1>0, <1>a, <2>1, <3>1, <3>2, <3>3 DEF RunOK
    <3>8. QED
      BY <3>4, <3>5, <3>6, <3>7 DEF HistoryOK
  <2>4. QED
    BY <2>2, <2>3
<1>2. CASE TakeRelease
  <2> DEFINE m == TakenRelease(me.rel)
  <2>1. /\ pc = "take_release" /\ UNCHANGED <<ops, nops, nrels, active, previous>>
        /\ ops[nops].status = "recovery_required"
    BY <1>2 DEF TakeRelease, HistoryOK, RunOK
  <2>2. CASE rels' = rels /\ me' = me /\ pc' = "create_recovery"
    <3>1. OperationsOK' /\ ReleasesOK' /\ PointersOK'
      BY <2>1, <2>2 DEF HistoryOK, OperationsOK, ReleasesOK, PointersOK
    <3>2. AdmissionOK'
      BY <1>a, <2>1 DEF AdmissionOK
    <3>3. RunOK'
      BY <1>a, <2>1, <2>2 DEF RunOK
    <3>4. QED
      BY <3>1, <3>2, <3>3 DEF HistoryOK
  <2>3. CASE TransitionRelease(m) /\ me' = me /\ pc' = "create_recovery"
    <3>1. m.op = rels[me.rel].op
      BY <1>a, <2>1 DEF TakenRelease, Manifest
    <3>2. rels' = [rels EXCEPT ![me.rel] = m] /\ rels[me.rel].status \notin ResolvedStates
      BY <2>3, ResolvedIsFinal DEF TransitionRelease, Accepted
    <3> HIDE DEF m
    <3>3. OperationsOK' /\ ReleasesOK' /\ PointersOK' /\ AdmissionOK'
      BY <1>a, <2>1, <3>1, <3>2, ReleaseStep
    <3>4. RunOK'
      BY <1>a, <2>1, <2>3 DEF RunOK
    <3>5. QED
      BY <3>3, <3>4 DEF HistoryOK
  <2>4. CASE ReleaseLock /\ UNCHANGED rels
    BY <2>1, <2>4, AbandonedStep DEF ReleaseLock
  <2>5. QED
    BY <1>0, <1>2, <2>2, <2>3, <2>4 DEF TakeRelease
<1>3. CASE CreateRecovery
  <2>1. /\ pc = "create_recovery" /\ pc' = "own_recovery" /\ nops' = nops + 1
        /\ me'.op = nops + 1 /\ me'.rel = me.rel /\ nops + 1 \in Operations
        /\ nops \in Operations /\ ops[nops].status = "recovery_required"
        /\ UNCHANGED <<rels, nrels, active, previous>>
    BY <1>a, <1>3 DEF CreateRecovery, CreateOperation, TypeOK, Context, HistoryOK, RunOK
  <2>2. /\ ops'[nops + 1].status = "in_progress"
        /\ \A o \in Operations : o # nops + 1 => ops'[o] = ops[o]
    BY <1>3, <2>1 DEF CreateRecovery, CreateOperation, TypeOK, NoOperation
  <2>3. OperationsOK'
    <3>1. \A o \in Operations : (o > nops + 1) <=> (ops'[o].status = "none")
      BY <2>1, <2>2 DEF HistoryOK, OperationsOK
    <3>2. \A o \in Operations : ops'[o].status = "in_progress" => o = nops + 1
      BY <2>1, <2>2 DEF HistoryOK, OperationsOK
    <3>3. QED
      BY <2>1, <3>1, <3>2 DEF OperationsOK
  <2>4. ReleasesOK'
    BY <2>1 DEF HistoryOK, ReleasesOK
  <2>5. PointersOK'
    BY <2>1 DEF HistoryOK, PointersOK
  <2>6. AdmissionOK'
    BY <2>1, <2>2 DEF AdmissionOK
  <2>7. RunOK'
    BY <1>a, <2>1, <2>2 DEF RunOK
  <2>8. QED
    BY <2>3, <2>4, <2>5, <2>6, <2>7 DEF HistoryOK
<1>4. CASE OwnRecovery
  BY <1>0, <1>4, QuietStep DEF OwnRecovery
<1>5. CASE AnnounceAction
  <2>1. \E g, c : TransitionOperation("in_progress", g, c)
    BY <1>5 DEF AnnounceAction
  <2>2. QED
    BY <1>0, <1>5, <2>1, ProgressStep DEF AnnounceAction
<1>6. CASE \/ RecoverRemoveNew \/ RecoverRestore \/ RecoverRestart \/ RecoverRoute
           \/ RecoverReopen \/ RecoverVerify \/ RecoverActionFails
  BY <1>6, QuietRecovery, QuietStep
<1>7. CASE Resolve
  <2> DEFINE m == ResolvedRelease(me.rel)
  <2>1. /\ pc = "perform" /\ me' = me /\ UNCHANGED <<ops, nops, nrels, active, previous>>
        /\ \/ UNCHANGED rels /\ pc' = "recovery_failed"
           \/ /\ Resolvable(rels[me.rel], m) /\ rels' = [rels EXCEPT ![me.rel] = m]
              /\ pc' = IF me.activated THEN "select_recovered" ELSE "recovered"
    BY <1>0, <1>7 DEF Resolve, RecoveryFails
  <2>2. /\ m.op = rels[me.rel].op
        /\ m.status = IF me.activated THEN "active" ELSE "rolled_back"
    BY <1>a, <2>1 DEF ResolvedRelease, Manifest
  <2> HIDE DEF m
  <2>3. CASE UNCHANGED rels /\ pc' = "recovery_failed"
    BY <2>1, <2>3, QuietStep
  <2>4. CASE /\ Resolvable(rels[me.rel], m) /\ rels' = [rels EXCEPT ![me.rel] = m]
             /\ pc' = IF me.activated THEN "select_recovered" ELSE "recovered"
    <3>1. rels[me.rel].status \notin ResolvedStates
      BY <2>4 DEF Resolvable, ResolvedStates
    <3>2. OperationsOK' /\ ReleasesOK' /\ PointersOK' /\ AdmissionOK' /\ rels'[nrels] = m
      BY <1>a, <2>1, <2>2, <2>4, <3>1, ReleaseStep
    <3>3. RunOK'
      BY <1>a, <2>1, <2>2, <2>4, <3>2 DEF RunOK, ResolvedStates
    <3>4. QED
      BY <3>2, <3>3 DEF HistoryOK
  <2>5. QED
    BY <2>1, <2>3, <2>4
<1>8. CASE SelectRecovered
  <2>1. /\ pc = "select_recovered" /\ pc' = "recovered" /\ me' = me
        /\ ActivateRelease(me.rel) /\ UNCHANGED <<ops, nops, rels, nrels>>
    BY <1>0, <1>8 DEF SelectRecovered
  <2>2. QED
    BY <1>a, <2>1, SelectionStep DEF HistoryOK, RunOK
<1>9. CASE Recovered
  <2>1. PICK g : TransitionOperation("succeeded", g, me.changed)
    BY <1>9 DEF Recovered
  <2>2. pc = "recovered" /\ pc' = "unlock" /\ UNCHANGED <<nops, rels, nrels, active, previous>>
    BY <1>0, <1>9 DEF Recovered
  <2>3. Settled
    BY <2>2 DEF HistoryOK, RunOK, ReleasesOK, Settled, TypeOK
  <2>4. QED
    BY <2>1, <2>2, <2>3, EndingStep DEF Ended
<1>10. CASE RecoveryFailed
  <2>1. TransitionOperation("recovery_required", "recovery_required", me.changed)
        /\ pc = "recovery_failed" /\ pc' = "unlock"
        /\ UNCHANGED <<nops, rels, nrels, active, previous>>
    BY <1>0, <1>10 DEF RecoveryFailed
  <2>2. QED
    BY <2>1, EndingStep DEF Ended
<1> QED
  BY <1>1, <1>2, <1>3, <1>4, <1>5, <1>6, <1>7, <1>8, <1>9, <1>10 DEF RecoverStep

------------------------------------------------------------------------------
(* The other steps, and the inductive invariant.                            *)

(* A command that starts or ends and the environment keep the history. *)
LEMMA OtherHistory ==
    ASSUME TypeOK, HistoryOK,
           StartDeploy \/ StartRecover \/ Unlock \/ Environment \/ UNCHANGED vars
    PROVE  HistoryOK'
<1> USE DEF durable, Plain, Steps, Starting, Taking, Closing
<1>1. CASE StartDeploy
  <2>1. /\ pc' = "record_owner" /\ nops' = nops + 1 /\ nops + 1 \in Operations
        /\ nops \in 0..MaxOps /\ me'.op = nops + 1
        /\ UNCHANGED <<rels, nrels, active, previous>>
    BY <1>1 DEF StartDeploy, CreateOperation, TypeOK, NoContext
  <2>2. /\ ops'[nops + 1].status = "in_progress"
        /\ \A o \in Operations : o # nops + 1 => ops'[o] = ops[o]
    BY <1>1, <2>1 DEF StartDeploy, CreateOperation, TypeOK, NoOperation
  <2>3. Settled /\ \A o \in Operations : ops[o].status # "in_progress"
    <3>1. nops = 0 \/ ops[nops].status \in {"succeeded", "failed_safe"}
      <4>1. CASE nops # 0
        <5>1. ops[nops].status \in OperationStatus /\ ops[nops].status # "none"
          BY <2>1, <4>1 DEF TypeOK, OperationRecord, HistoryOK, OperationsOK
        <5>2. ops[nops].status \notin {"in_progress", "recovery_required"}
          BY <1>1, <2>1, <4>1 DEF StartDeploy, CleanOperationState
        <5>3. QED
          BY <5>1, <5>2 DEF OperationStatus
      <4>2. QED
        BY <4>1
    <3>2. Settled
      BY <3>1 DEF HistoryOK, AdmissionOK
    <3>3. \A o \in Operations : ops[o].status # "in_progress"
      BY <2>1, <3>1 DEF HistoryOK, OperationsOK
    <3>4. QED
      BY <3>2, <3>3
  <2>4. OperationsOK'
    <3>1. \A o \in Operations : (o > nops + 1) <=> (ops'[o].status = "none")
      BY <2>1, <2>2 DEF HistoryOK, OperationsOK
    <3>2. \A o \in Operations : ops'[o].status = "in_progress" => o = nops + 1
      BY <2>1, <2>2, <2>3
    <3>3. QED
      BY <2>1, <3>1, <3>2 DEF OperationsOK
  <2>5. ReleasesOK'
    BY <2>1 DEF HistoryOK, ReleasesOK
  <2>6. PointersOK'
    BY <2>1 DEF HistoryOK, PointersOK
  <2>7. AdmissionOK'
    BY <2>1, <2>2 DEF AdmissionOK
  <2>8. Settled'
    BY <2>1, <2>3 DEF Settled
  <2>9. RunOK'
    BY <2>1, <2>2, <2>8 DEF RunOK
  <2>10. QED
    BY <2>4, <2>5, <2>6, <2>7, <2>9 DEF HistoryOK
<1>2. CASE StartRecover
  <2>1. /\ pc' = "supersede" /\ UNCHANGED <<ops, nops, rels, nrels, active, previous>>
    BY <1>2 DEF StartRecover
  <2>2. /\ me'.rel = nrels /\ nops \in Operations
        /\ ops[nops].status \in {"in_progress", "recovery_required"}
    BY <1>2, RecoveryAdmitted
  <2>3. OperationsOK' /\ ReleasesOK' /\ PointersOK'
    BY <2>1 DEF HistoryOK, OperationsOK, ReleasesOK, PointersOK
  <2>4. AdmissionOK'
    BY <2>1, <2>2 DEF AdmissionOK
  <2>5. RunOK'
    BY <2>1, <2>2 DEF RunOK
  <2>6. QED
    BY <2>3, <2>4, <2>5 DEF HistoryOK
<1>3. CASE Unlock
  BY <1>3, AbandonedStep DEF Unlock, ReleaseLock
<1>4. CASE Crash \/ Interrupt \/ Reboot
  BY <1>4, AbandonedStep DEF Crash, Interrupt, Reboot, ReleaseLock
<1>5. CASE \/ \E w \in Writes : UserWrite(w)
           \/ OrphanMigrates \/ UNCHANGED vars
  <2>1. UNCHANGED <<ops, nops, rels, nrels, active, previous, pc, me>>
    BY <1>5 DEF UserWrite, OrphanMigrates, vars
  <2>2. QED
    BY <2>1 DEF HistoryOK, OperationsOK, ReleasesOK, PointersOK, AdmissionOK, Settled, RunOK
<1> QED
  BY <1>1, <1>2, <1>3, <1>4, <1>5 DEF Environment

Historic == Typed /\ HistoryOK

(* A host without a history has a correct one. *)
LEMMA InitHistoric == Init => Historic
<1> SUFFICES ASSUME Init PROVE Historic
  OBVIOUS
<1>1. Typed
  BY InitTyped
<1>2. /\ nops = 0 /\ nrels = 0 /\ active = 0 /\ previous = 0 /\ pc = "idle"
      /\ \A o \in Operations : ops[o].status = "none"
      /\ \A r \in Releases : rels[r].status = "created"
  BY DEF Init, NoOperation, NoManifest
<1>3. HistoryOK
  BY <1>2 DEF HistoryOK, OperationsOK, ReleasesOK, PointersOK, AdmissionOK, Settled, RunOK,
              Starting, Taking, Closing, Plain
<1> QED
  BY <1>1, <1>3 DEF Historic

(* Every step keeps the history. *)
LEMMA NextHistoric == Historic /\ [Next]_vars => Historic'
<1> SUFFICES ASSUME Historic, [Next]_vars PROVE Historic'
  OBVIOUS
<1>1. TypeOK /\ ContextOK /\ HistoryOK /\ Typed'
  BY NextTyped DEF Historic, Typed
<1>2. CASE DeployStep
  BY <1>1, <1>2, DeployHistory DEF Historic
<1>3. CASE RecoverStep
  BY <1>1, <1>3, RecoverHistory DEF Historic
<1>4. CASE StartDeploy \/ StartRecover \/ Unlock \/ Environment \/ UNCHANGED vars
  BY <1>1, <1>4, OtherHistory DEF Historic
<1> QED
  BY <1>2, <1>3, <1>4 DEF Next, CommandStep

(* The history is right in every state of every behaviour. *)
LEMMA AlwaysHistoric == Spec => []Historic
    BY InitHistoric, NextHistoric, PTL DEF Spec

------------------------------------------------------------------------------
(* What follows for the safety properties.                                  *)

(* For every value of the constants, no history has two unfinished         *)
(* operations: latest_operation never has to refuse one.                    *)
THEOREM OneUnfinished == Spec => []AtMostOneUnfinished
<1>1. Historic => AtMostOneUnfinished
  BY DEF Historic, HistoryOK, OperationsOK, AtMostOneUnfinished, Unfinished
<1> QED
  BY <1>1, AlwaysHistoric, PTL

(* For every value of the constants, a command is admitted only on a       *)
(* settled history, although require_clean_operation_state looks at the    *)
(* newest operation alone.                                                  *)
THEOREM Admission == Spec => []AdmittedOnlyWhenSettled
<1>1. Historic => AdmittedOnlyWhenSettled
  <2> SUFFICES ASSUME Historic, CleanOperationState
               PROVE  /\ Unresolved = {} /\ Unfinished = {}
                      /\ \A r \in 1..nrels : rels[r].status = "active" => r <= active
    BY DEF AdmittedOnlyWhenSettled
  <2>1. nops \in 0..MaxOps
    BY DEF Historic, Typed, TypeOK
  <2>2. nops = 0 \/ ops[nops].status \in {"succeeded", "failed_safe"}
    <3>1. CASE nops # 0
      <4>1. ops[nops].status \in OperationStatus /\ ops[nops].status # "none"
        BY <2>1, <3>1 DEF Historic, Typed, TypeOK, OperationRecord, HistoryOK, OperationsOK
      <4>2. ops[nops].status \notin {"in_progress", "recovery_required"}
        BY <2>1, <3>1 DEF CleanOperationState
      <4>3. QED
        BY <4>1, <4>2 DEF OperationStatus
    <3>2. QED
      BY <3>1
  <2>3. Settled
    BY <2>2 DEF Historic, HistoryOK, AdmissionOK
  <2>4. Unfinished = {}
    BY <2>1, <2>2 DEF Historic, HistoryOK, OperationsOK, Unfinished
  <2>5. Unresolved = {} /\ \A r \in 1..nrels : rels[r].status = "active" => r <= active
    BY <2>3 DEF Settled, Unresolved
  <2>6. QED
    BY <2>4, <2>5
<1> QED
  BY <1>1, AlwaysHistoric, PTL

(* For every value of the constants, the pointer file selects an active    *)
(* release, and the one that was active before it.                          *)
THEOREM Pointers == Spec => []PointersConsistent
<1>1. Historic => PointersConsistent
  BY DEF Historic, HistoryOK, PointersOK, PointersConsistent
<1> QED
  BY <1>1, AlwaysHistoric, PTL

(* For every value of the constants, resolved releases and ended           *)
(* operations never change again.                                           *)
THEOREM EvidenceKept == Spec => TerminalEvidenceKept
<1> DEFINE Kept == /\ \A r \in Releases :
                          rels[r].status \in ResolvedStates => rels'[r] = rels[r]
                   /\ \A o \in Operations :
                          ops[o].status \in {"succeeded", "failed_safe", "recovery_required"}
                          => ops'[o] = ops[o]
<1>1. ASSUME Historic, [Next]_vars PROVE Kept
  <2> USE DEF durable
  <2>1. TypeOK /\ HistoryOK /\ ContextOK
    BY <1>1 DEF Historic, Typed
  <2>2. CASE UNCHANGED <<ops, rels>>
    BY <2>2
  <2>3. ASSUME NEW m, TransitionRelease(m) \/ RecordIntent(m)
        PROVE  \A r \in Releases : rels[r].status \in ResolvedStates => rels'[r] = rels[r]
    <3>1. rels[me.rel].status \notin ResolvedStates
      BY <2>3, ResolvedIsFinal DEF TransitionRelease, RecordIntent, IntentAccepted, Accepted,
         TerminalStates
    <3>2. rels' = [rels EXCEPT ![me.rel] = m]
      BY <2>3 DEF TransitionRelease, RecordIntent
    <3>3. QED
      BY <2>1, <3>1, <3>2 DEF TypeOK
  <2>4. ASSUME \E s, g, c : TransitionOperation(s, g, c)
        PROVE  \A o \in Operations :
                  ops[o].status \in {"succeeded", "failed_safe", "recovery_required"}
                  => ops'[o] = ops[o]
    BY <2>1, <2>4 DEF TransitionOperation, JournalAccepts, TypeOK
  <2>5. ASSUME NEW p, CreateOperation(p), UNCHANGED rels PROVE Kept
    <3>1. nops + 1 \in Operations /\ ops' = [ops EXCEPT ![nops + 1] = p]
      BY <2>1, <2>5 DEF CreateOperation, TypeOK
    <3>2. ops[nops + 1].status = "none"
      BY <2>1, <3>1 DEF HistoryOK, OperationsOK, TypeOK
    <3>3. QED
      BY <2>1, <2>5, <3>1, <3>2 DEF TypeOK
  <2>6. CASE StartDeploy \/ CreateRecovery
    BY <2>5, <2>6 DEF StartDeploy, CreateRecovery
  <2>7. CASE StartRecover \/ Unlock \/ Environment \/ UNCHANGED vars
    BY <2>2, <2>7 DEF StartRecover, Unlock, Environment, UserWrite, Crash, Interrupt, Reboot,
                      OrphanMigrates, vars
  <2>8. CASE QuietDeployStep \/ RecordOwner \/ SelectActive
    BY <2>1, <2>2, <2>8, QuietDeploy DEF RecordOwner, SelectActive
  <2>9. CASE CreateRelease
    <3>1. nrels + 1 \in Releases /\ rels[nrels + 1].status = "created"
      BY <2>1, <2>9 DEF CreateRelease, ContextOK, HistoryOK, ReleasesOK, TypeOK
    <3>2. PICK m : rels' = [rels EXCEPT ![nrels + 1] = m] /\ UNCHANGED ops
      BY <2>9 DEF CreateRelease
    <3>3. QED
      BY <2>1, <3>1, <3>2 DEF TypeOK, ResolvedStates
  <2>10. CASE \/ FailWithoutRelease \/ PersistOperation \/ AnnounceMigration
              \/ AnnounceActivation \/ Succeed \/ FailOperation \/ RequireOperationRecovery
              \/ AnnounceAction \/ Recovered \/ RecoveryFailed
    <3>1. UNCHANGED rels /\ \E s, g, c : TransitionOperation(s, g, c)
      BY <2>10 DEF FailWithoutRelease, PersistOperation, AnnounceMigration, AnnounceActivation,
                   Succeed, FailOperation, RequireOperationRecovery, AnnounceAction, Recovered,
                   RecoveryFailed
    <3>2. QED
      BY <2>4, <3>1
  <2>11. CASE RecordActivation
    BY <2>1, <2>11 DEF RecordActivation, TypeOK
  <2>12. CASE PersistRelease \/ IntendMigration \/ IntendActivation \/ MarkActive
              \/ MarkRolledBack \/ FailRelease
    <3>1. UNCHANGED ops /\ \E m : TransitionRelease(m) \/ RecordIntent(m)
      BY <2>12 DEF PersistRelease, IntendMigration, IntendActivation, MarkActive,
                   MarkRolledBack, FailRelease
    <3>2. QED
      BY <2>3, <3>1
  <2>13. CASE RequireRecovery
    <3>1. UNCHANGED ops /\ (UNCHANGED rels \/ \E m : TransitionRelease(m))
      BY <2>13 DEF RequireRecovery, TransitionRelease
    <3>2. QED
      BY <2>2, <2>3, <3>1
  <2>14. CASE Supersede
    <3>1. UNCHANGED rels /\ (UNCHANGED ops \/ \E o \in Unfinished : \E p : ops' = [ops EXCEPT ![o] = p])
      BY <2>14 DEF Supersede
    <3>2. QED
      BY <2>1, <2>2, <3>1 DEF Unfinished, TypeOK
  <2>15. CASE TakeRelease
    <3>1. UNCHANGED ops /\ (UNCHANGED rels \/ \E m : TransitionRelease(m))
      BY <2>15 DEF TakeRelease
    <3>2. QED
      BY <2>2, <2>3, <3>1
  <2>16. CASE OwnRecovery \/ SelectRecovered
    BY <2>2, <2>16 DEF OwnRecovery, SelectRecovered
  <2>17. CASE \/ RecoverRemoveNew \/ RecoverRestore \/ RecoverRestart \/ RecoverRoute
              \/ RecoverReopen \/ RecoverVerify \/ RecoverActionFails
    BY <2>1, <2>2, <2>17, QuietRecovery
  <2>18. CASE Resolve
    <3>1. UNCHANGED ops
          /\ \/ UNCHANGED rels
             \/ /\ rels[me.rel].status = "recovery_required"
                /\ \E m : rels' = [rels EXCEPT ![me.rel] = m]
      BY <2>18 DEF Resolve, Resolvable
    <3>2. QED
      BY <2>1, <2>2, <3>1 DEF TypeOK, ResolvedStates
  <2>19. QED
    BY <1>1, <2>6, <2>7, <2>8, <2>9, <2>10, <2>11, <2>12, <2>13, <2>14, <2>15, <2>16, <2>17,
       <2>18 DEF Next, CommandStep, DeployStep, RecoverStep, QuietDeployStep
<1>2. Historic /\ [Next]_vars => [Kept]_vars
  BY <1>1
<1> QED
  BY <1>2, AlwaysHistoric, PTL DEF Spec, TerminalEvidenceKept, Kept

=============================================================================
