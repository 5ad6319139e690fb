------------------------- MODULE CandidateStage_proofs -------------------------
(***************************************************************************)
(* A stage that ends safe has left nothing behind, for any number of       *)
(* stages and faults, unless the error of a command that cannot be killed  *)
(* is masked.                                                              *)
(***************************************************************************)
EXTENDS CandidateStage, TLAPS

(* What Docker holds: nothing yet, or nothing a live client asked for. *)
Untouched == container = "absent" /\ network = "absent" /\ pending = "none"
DockerGone == container \in {"absent", "late"} /\ network \in {"absent", "late"}

Waiting == {"wait", "terminate", "kill"}
Stopping == {"stop_query", "stop_remove", "stop_down", "prove_container", "prove_network"}
Cleaning == {"clean_sidecars", "clean_database", "clean_directory"}

(* Before the first command nothing has been made. *)
BeforeCommands ==
    pc \in {"prepare", "workspace"} =>
        /\ Untouched /\ tree = NoTree /\ ~unproven /\ workspace = {}
        /\ me.command = "none" /\ ~me.started /\ me.logs = "none" /\ me.cleanup = "none"

(* A migration runs before Docker is touched, a smoke command on a started *)
(* candidate.                                                              *)
DuringCommands ==
    /\ pc \in {"spawn"} \cup Waiting \cup {"verify", "start"} =>
        /\ ~unproven
        /\ me.started \/ (Untouched /\ me.logs = "none" /\ me.cleanup = "none")
    /\ pc = "spawn" => (me.started <=> me.command # "none")
    /\ pc \in Waiting => me.command # "none" /\ (me.started <=> me.command = "smoke")
    /\ pc \in {"verify", "start"} => ~me.started /\ me.command = "migration"
    /\ pc \in {"inspect", "ready", "note_health"} =>
        me.started /\ me.command # "none" /\ ~unproven

(* A start that was rejected has been cleaned up, or needs recovery. *)
AfterStart ==
    /\ pc \in {"rejected", "combine"} /\ ~me.started =>
        /\ me.logs = "none" /\ me.cleanup = "none"
        /\ me.error \in {"recovery", "interrupt"} \/ (me.error = "failed" /\ DockerGone)
    /\ pc \in Stopping /\ ~me.started => me.logs = "none" /\ me.cleanup = "none"
    /\ pc \in {"logs", "note_cleanup"} => me.started
    /\ pc = "prove_network" /\ me.absent => container \in {"absent", "late"}
    /\ pc \in {"note_cleanup", "combine"} /\ me.started /\ me.cleanup # "recovery" => DockerGone

(* A command that outlived its kill is remembered as an error. *)
UnprovenIsError ==
    /\ unproven /\ pc \in {"rejected", "logs", "note_cleanup", "combine"} \cup Stopping =>
        me.started /\ me.error = "recovery"
    /\ unproven /\ pc \in Cleaning \cup {"finish"} => me.error \in {"recovery", "interrupt"}

(* What is known when the outcome is recorded, and stays true. *)
Left == DockerGone /\ ~unproven /\ workspace \subseteq {"dir"} /\ (workspace = {} \/ tree = NoTree)

AtTheEnd ==
    /\ pc \in Cleaning /\ me.error \in {"none", "failed"} => DockerGone
    /\ pc = "finish" /\ me.error \in {"none", "failed"} => Left
    /\ pc \notin {"idle", "release"} => op = "in_progress"
    /\ Safe(op) \/ op = "none" => Left

Places ==
    {"idle", "prepare", "workspace", "spawn", "verify", "start", "inspect", "ready",
     "note_health", "rejected", "logs", "note_cleanup", "combine", "finish", "release"}
    \cup Waiting \cup Stopping \cup Cleaning

IInv ==
    /\ TypeOK /\ pc \in Places
    /\ BeforeCommands /\ DuringCommands /\ AfterStart /\ UnprovenIsError /\ AtTheEnd

------------------------------------------------------------------------------

(* The processes that SIGKILL leaves are processes of the command. *)
LEMMA KillGroupType == ASSUME NEW t \in Trees PROVE KillGroup(t) \in Trees
  BY DEF KillGroup, Trees, Helpers

(* The stage starts from nothing. *)
LEMMA InitInvariant == Init => IInv
<1> SUFFICES ASSUME Init PROVE IInv
    OBVIOUS
<1> USE StageAssumption DEF Init, NoContext
<1>1. TypeOK
  <2>1. WorldTypes
      BY DEF WorldTypes
  <2>2. ProcessTypes
      BY DEF ProcessTypes, Trees, NoTree
  <2>3. me \in Contexts /\ faults \in 0 .. MaxFaults
      BY DEF Contexts, Errors
  <2>4. nops \in 0 .. MaxStages
      OBVIOUS
  <2>5. RecordTypes
      BY <2>4 DEF RecordTypes
  <2> QED
      BY <2>1, <2>2, <2>3, <2>5 DEF TypeOK, StageTypes
<1>2. pc \in Places /\ BeforeCommands /\ DuringCommands /\ AfterStart
    BY DEF Places, BeforeCommands, DuringCommands, AfterStart, Waiting, Stopping
<1>3. UnprovenIsError /\ AtTheEnd
    BY DEF UnprovenIsError, AtTheEnd, Cleaning, Safe, Left, DockerGone, Stopping
<1> QED
    BY <1>1, <1>2, <1>3 DEF IInv

(* Every step of the stage, of the environment and of the daemon keeps the *)
(* invariant, unless it masks the error of a command that was not killed.  *)
LEMMA NextInvariant == ASSUME ~MaskedKill, IInv, [Next]_vars PROVE IInv'
<1> USE StageAssumption DEF Places, Waiting, Stopping, Cleaning, Goto, Works,
   Fault, TypeOK, WorldTypes, ProcessTypes, RecordTypes, StageTypes, Trees,
   Contexts, Errors, Helpers, NoTree, IInv, BeforeCommands, DuringCommands,
   AfterStart, UnprovenIsError, AtTheEnd, Untouched, DockerGone, Left, Safe,
   world, docker, processes, record
<1>1. ASSUME Begin PROVE IInv'
  <2>1. WorldTypes'
      BY <1>1 DEF Begin, RequireClean, NoContext
  <2>2. ProcessTypes'
      BY <1>1 DEF Begin, RequireClean, NoContext
  <2>3. RecordTypes'
      BY <1>1 DEF Begin, RequireClean, NoContext
  <2>4. StageTypes'
      BY <1>1 DEF Begin, RequireClean, NoContext
  <2>5. (pc \in Places)'
      BY <1>1 DEF Begin, RequireClean, NoContext
  <2>6. BeforeCommands'
      BY <1>1 DEF Begin, RequireClean, NoContext
  <2>7. DuringCommands'
      BY <1>1 DEF Begin, RequireClean, NoContext
  <2>8. AfterStart'
      BY <1>1 DEF Begin, RequireClean, NoContext
  <2>9. UnprovenIsError'
      BY <1>1 DEF Begin, RequireClean, NoContext
  <2>10. AtTheEnd'
      BY <1>1 DEF Begin, RequireClean, NoContext
  <2> QED
      BY <2>1, <2>2, <2>3, <2>4, <2>5, <2>6, <2>7, <2>8, <2>9, <2>10
<1>2. ASSUME Prepare PROVE IInv'
    BY <1>2 DEF Prepare, EndStage
<1>3. ASSUME Materialize PROVE IInv'
    BY <1>3 DEF Materialize, EndStage, LeaveWith
<1>4. ASSUME Spawn PROVE IInv'
    BY <1>4 DEF Spawn, CommandName
<1>5. ASSUME SpawnFails PROVE IInv'
    BY <1>5 DEF SpawnFails, CommandName, LeaveWith, Reject
<1>6. ASSUME Complete PROVE IInv'
    BY <1>6 DEF Complete, Return, CommandError, LeaveWith, Reject, HoldsPipe
<1>7. ASSUME Deadline PROVE IInv'
    BY <1>7 DEF Deadline
<1>8. ASSUME Terminate PROVE IInv'
    BY <1>8 DEF Terminate, Return, CommandError, LeaveWith, Reject, HoldsPipe,
       Grouped
<1>9. ASSUME Kill PROVE IInv'
  <2>1. WorldTypes'
      BY <1>9 DEF Kill, Return, CommandError, LeaveWith, Reject, HoldsPipe,
         Grouped
  <2>2. ProcessTypes'
    <3>1. KillGroup(tree) \in Trees
      BY KillGroupType
    <3>2. tree' \in Trees
      BY <1>9, <3>1 DEF Kill
    <3>3. unproven' \in BOOLEAN
      BY <1>9 DEF Kill, Grouped, HoldsPipe
    <3> QED
      BY <3>2, <3>3
  <2>3. RecordTypes'
      BY <1>9 DEF Kill, Return, CommandError, LeaveWith, Reject, HoldsPipe,
         Grouped
  <2>4. StageTypes'
      BY <1>9 DEF Kill, Return, CommandError, LeaveWith, Reject, HoldsPipe,
         Grouped
  <2>5. (pc \in Places)'
      BY <1>9 DEF Kill, Return, CommandError, LeaveWith, Reject, HoldsPipe,
         Grouped
  <2>6. BeforeCommands'
      BY <1>9 DEF Kill, Return, CommandError, LeaveWith, Reject, HoldsPipe,
         Grouped
  <2>7. DuringCommands'
      BY <1>9 DEF Kill, Return, CommandError, LeaveWith, Reject, HoldsPipe,
         Grouped
  <2>8. AfterStart'
      BY <1>9 DEF Kill, Return, CommandError, LeaveWith, Reject, HoldsPipe,
         Grouped
  <2>9. UnprovenIsError'
      BY <1>9 DEF Kill, Return, CommandError, LeaveWith, Reject, HoldsPipe,
         Grouped
  <2>10. AtTheEnd'
      BY <1>9 DEF Kill, Return, CommandError, LeaveWith, Reject, HoldsPipe,
         Grouped
  <2> QED
      BY <2>1, <2>2, <2>3, <2>4, <2>5, <2>6, <2>7, <2>8, <2>9, <2>10
<1>10. ASSUME InterruptCommand PROVE IInv'
  <2>1. WorldTypes'
      BY <1>10 DEF InterruptCommand, Raise, LeaveWith, Reject
  <2>2. ProcessTypes'
    <3>1. KillGroup(tree) \in Trees
      BY KillGroupType
    <3>2. tree' \in Trees
      BY <1>10, <3>1 DEF InterruptCommand
    <3>3. unproven' \in BOOLEAN
      BY <1>10 DEF InterruptCommand, Grouped, HoldsPipe
    <3> QED
      BY <3>2, <3>3
  <2>3. RecordTypes'
      BY <1>10 DEF InterruptCommand, Raise, LeaveWith, Reject
  <2>4. StageTypes'
      BY <1>10 DEF InterruptCommand, Raise, LeaveWith, Reject
  <2>5. (pc \in Places)'
      BY <1>10 DEF InterruptCommand, Raise, LeaveWith, Reject
  <2>6. BeforeCommands'
      BY <1>10 DEF InterruptCommand, Raise, LeaveWith, Reject
  <2>7. DuringCommands'
      BY <1>10 DEF InterruptCommand, Raise, LeaveWith, Reject
  <2>8. AfterStart'
      BY <1>10 DEF InterruptCommand, Raise, LeaveWith, Reject
  <2>9. UnprovenIsError'
      BY <1>10 DEF InterruptCommand, Raise, LeaveWith, Reject
  <2>10. AtTheEnd'
      BY <1>10 DEF InterruptCommand, Raise, LeaveWith, Reject
  <2> QED
      BY <2>1, <2>2, <2>3, <2>4, <2>5, <2>6, <2>7, <2>8, <2>9, <2>10
<1>11. ASSUME Verify PROVE IInv'
    BY <1>11 DEF Verify, LeaveWith
<1>12. ASSUME Start PROVE IInv'
    BY <1>12 DEF Start
<1>13. ASSUME StartFails PROVE IInv'
    BY <1>13 DEF StartFails, StartedPartly
<1>14. ASSUME StartRaises PROVE IInv'
    BY <1>14 DEF StartRaises, StartedPartly, Reject
<1>15. ASSUME Inspect PROVE IInv'
    BY <1>15 DEF Inspect, Reject
<1>16. ASSUME Ready PROVE IInv'
    BY <1>16 DEF Ready
<1>17. ASSUME NotReady PROVE IInv'
    BY <1>17 DEF NotReady, Reject
<1>18. ASSUME NoteHealth PROVE IInv'
    BY <1>18 DEF NoteHealth, Reject
<1>19. ASSUME NoteRejection PROVE IInv'
    BY <1>19 DEF NoteRejection
<1>20. ASSUME CollectLogs PROVE IInv'
    BY <1>20 DEF CollectLogs
<1>21. ASSUME StopQuery PROVE IInv'
  <2>1. WorldTypes'
      BY <1>21 DEF StopQuery, Listed
  <2>2. ProcessTypes'
      BY <1>21 DEF StopQuery, Listed
  <2>3. RecordTypes'
      BY <1>21 DEF StopQuery, Listed
  <2>4. StageTypes'
    <3>1. (me \in Contexts)'
      BY <1>21 DEF StopQuery, Listed
    <3>2. (faults \in 0 .. MaxFaults)'
      BY <1>21 DEF StopQuery, Listed
    <3> QED
      BY <3>1, <3>2
  <2>5. (pc \in Places)'
      BY <1>21 DEF StopQuery, Listed
  <2>6. BeforeCommands'
      BY <1>21 DEF StopQuery, Listed
  <2>7. DuringCommands'
      BY <1>21 DEF StopQuery, Listed
  <2>8. AfterStart'
      BY <1>21 DEF StopQuery, Listed
  <2>9. UnprovenIsError'
      BY <1>21 DEF StopQuery, Listed
  <2>10. AtTheEnd'
      BY <1>21 DEF StopQuery, Listed
  <2> QED
      BY <2>1, <2>2, <2>3, <2>4, <2>5, <2>6, <2>7, <2>8, <2>9, <2>10
<1>22. ASSUME StopRemove PROVE IInv'
  <2>1. WorldTypes'
      BY <1>22 DEF StopRemove, Docker
  <2>2. ProcessTypes'
      BY <1>22 DEF StopRemove, Docker
  <2>3. RecordTypes'
      BY <1>22 DEF StopRemove, Docker
  <2>4. StageTypes'
    <3>1. (me \in Contexts)'
      BY <1>22 DEF StopRemove, Docker
    <3>2. (faults \in 0 .. MaxFaults)'
      BY <1>22 DEF StopRemove, Docker
    <3> QED
      BY <3>1, <3>2
  <2>5. (pc \in Places)'
      BY <1>22 DEF StopRemove, Docker
  <2>6. BeforeCommands'
      BY <1>22 DEF StopRemove, Docker
  <2>7. DuringCommands'
      BY <1>22 DEF StopRemove, Docker
  <2>8. AfterStart'
      BY <1>22 DEF StopRemove, Docker
  <2>9. UnprovenIsError'
      BY <1>22 DEF StopRemove, Docker
  <2>10. AtTheEnd'
      BY <1>22 DEF StopRemove, Docker
  <2> QED
      BY <2>1, <2>2, <2>3, <2>4, <2>5, <2>6, <2>7, <2>8, <2>9, <2>10
<1>23. ASSUME StopDown PROVE IInv'
  <2>1. WorldTypes'
      BY <1>23 DEF StopDown, Docker
  <2>2. ProcessTypes'
      BY <1>23 DEF StopDown, Docker
  <2>3. RecordTypes'
      BY <1>23 DEF StopDown, Docker
  <2>4. StageTypes'
    <3>1. (me \in Contexts)'
      BY <1>23 DEF StopDown, Docker
    <3>2. (faults \in 0 .. MaxFaults)'
      BY <1>23 DEF StopDown, Docker
    <3> QED
      BY <3>1, <3>2
  <2>5. (pc \in Places)'
      BY <1>23 DEF StopDown, Docker
  <2>6. BeforeCommands'
      BY <1>23 DEF StopDown, Docker
  <2>7. DuringCommands'
      BY <1>23 DEF StopDown, Docker
  <2>8. AfterStart'
      BY <1>23 DEF StopDown, Docker
  <2>9. UnprovenIsError'
      BY <1>23 DEF StopDown, Docker
  <2>10. AtTheEnd'
      BY <1>23 DEF StopDown, Docker
  <2> QED
      BY <2>1, <2>2, <2>3, <2>4, <2>5, <2>6, <2>7, <2>8, <2>9, <2>10
<1>24. ASSUME ProveContainer PROVE IInv'
  <2>1. WorldTypes'
      BY <1>24 DEF ProveContainer, Listed
  <2>2. ProcessTypes'
      BY <1>24 DEF ProveContainer, Listed
  <2>3. RecordTypes'
      BY <1>24 DEF ProveContainer, Listed
  <2>4. StageTypes'
    <3>1. (me \in Contexts)'
      BY <1>24, ZenonT(30) DEF ProveContainer, Listed
    <3>2. (faults \in 0 .. MaxFaults)'
      BY <1>24 DEF ProveContainer, Listed
    <3> QED
      BY <3>1, <3>2
  <2>5. (pc \in Places)'
      BY <1>24 DEF ProveContainer, Listed
  <2>6. BeforeCommands'
      BY <1>24 DEF ProveContainer, Listed
  <2>7. DuringCommands'
      BY <1>24 DEF ProveContainer, Listed
  <2>8. AfterStart'
      BY <1>24 DEF ProveContainer, Listed
  <2>9. UnprovenIsError'
      BY <1>24 DEF ProveContainer, Listed
  <2>10. AtTheEnd'
      BY <1>24 DEF ProveContainer, Listed
  <2> QED
      BY <2>1, <2>2, <2>3, <2>4, <2>5, <2>6, <2>7, <2>8, <2>9, <2>10
<1>25. ASSUME ProveNetwork PROVE IInv'
    BY <1>25 DEF ProveNetwork, StopEnds
<1>26. ASSUME NoteCleanup PROVE IInv'
    BY <1>26 DEF NoteCleanup
<1>27. ASSUME InterruptStop PROVE IInv'
    BY <1>27 DEF InterruptStop, Reject
<1>28. ASSUME CombineFailures PROVE IInv'
    BY <1>28 DEF CombineFailures, Combine, LeaveWith
<1>29. ASSUME CleanSidecars PROVE IInv'
    BY <1>29 DEF CleanSidecars, CleanupFails, CleanupError, EndStage
<1>30. ASSUME CleanDatabase PROVE IInv'
    BY <1>30 DEF CleanDatabase, CleanupFails, CleanupError, EndStage
<1>31. ASSUME CleanDirectory PROVE IInv'
    BY <1>31 DEF CleanDirectory, CleanupFails, CleanupError, EndStage
<1>32. ASSUME RecordOutcome PROVE IInv'
    BY <1>32 DEF RecordOutcome, Outcome, EndStage
<1>33. ASSUME Release PROVE IInv'
    BY <1>33 DEF Release, NoContext
<1>34. ASSUME Killed PROVE IInv'
    BY <1>34 DEF Killed, NoContext
<1>35. ASSUME Fork PROVE IInv'
    BY <1>35 DEF Fork
<1>36. ASSUME Exit PROVE IInv'
  <2>1. WorldTypes'
      BY <1>36 DEF Exit
  <2>2. ProcessTypes'
      BY <1>36 DEF Exit
  <2>3. RecordTypes'
      BY <1>36 DEF Exit
  <2>4. StageTypes'
      BY <1>36 DEF Exit
  <2>5. (pc \in Places)'
      BY <1>36 DEF Exit
  <2>6. BeforeCommands'
      BY <1>36 DEF Exit
  <2>7. DuringCommands'
      BY <1>36 DEF Exit
  <2>8. AfterStart'
      BY <1>36 DEF Exit
  <2>9. UnprovenIsError'
      BY <1>36 DEF Exit
  <2>10. AtTheEnd'
      BY <1>36 DEF Exit
  <2> QED
      BY <2>1, <2>2, <2>3, <2>4, <2>5, <2>6, <2>7, <2>8, <2>9, <2>10
<1>37. ASSUME WriteWorkspace PROVE IInv'
    BY <1>37 DEF WriteWorkspace
<1>38. ASSUME ContainerExits PROVE IInv'
    BY <1>38 DEF ContainerExits
<1>39. ASSUME LateCreation PROVE IInv'
    BY <1>39 DEF LateCreation
<1>40. ASSUME UNCHANGED vars PROVE IInv'
    BY <1>40 DEF vars
<1> QED
    BY <1>1, <1>2, <1>3, <1>4, <1>5, <1>6, <1>7, <1>8, <1>9, <1>10, <1>11,
       <1>12, <1>13, <1>14, <1>15, <1>16, <1>17, <1>18, <1>19, <1>20, <1>21,
       <1>22, <1>23, <1>24, <1>25, <1>26, <1>27, <1>28, <1>29, <1>30, <1>31,
       <1>32, <1>33, <1>34, <1>35, <1>36, <1>37, <1>38, <1>39, <1>40 DEF Next,
       Stage

(* A stage that ends safe has left no candidate, no network, no copy of    *)
(* the database and no process that outlived its kill.                     *)
THEOREM StageEndsClean == ASSUME ~MaskedKill PROVE Spec => []SafeEndIsClean
<1>1. IInv => SafeEndIsClean
    BY DEF IInv, TypeOK, AtTheEnd, Left, DockerGone, SafeEndIsClean, NothingLeft
<1> QED
    BY <1>1, InitInvariant, NextInvariant, PTL DEF Spec

(* No stage begins over what an earlier one could not remove.               *)
THEOREM StageBeginsClean == ASSUME ~MaskedKill PROVE Spec => BeginsClean
<1>1. IInv /\ [Next]_vars => [pc = "idle" /\ pc' # "idle" => NothingLeft]_vars
  <2> SUFFICES ASSUME IInv, Next, pc = "idle", pc' # "idle" PROVE NothingLeft
      BY DEF vars
  <2>1. CASE Begin
      BY <2>1 DEF IInv, AtTheEnd, Left, DockerGone, NothingLeft, Begin, RequireClean,
         TypeOK, RecordTypes, Safe
  <2>2. CASE Stage
      BY <2>2 DEF Stage, Prepare, Materialize, Spawn, SpawnFails,
         Complete, Deadline, Terminate, Kill, InterruptCommand, Verify, Start,
         StartFails, StartRaises, Inspect, Ready, NotReady, NoteHealth,
         NoteRejection, CollectLogs, StopQuery, StopRemove, StopDown,
         ProveContainer, ProveNetwork, NoteCleanup, InterruptStop,
         CombineFailures, CleanSidecars, CleanDatabase, CleanDirectory,
         RecordOutcome, Release
  <2>3. CASE Killed \/ Fork \/ Exit \/ WriteWorkspace \/ ContainerExits \/ LateCreation
      BY <2>3 DEF Killed, Fork, Exit, WriteWorkspace, ContainerExits, LateCreation
  <2> QED
      BY <2>1, <2>2, <2>3 DEF Next
<1> QED
    BY <1>1, InitInvariant, NextInvariant, PTL DEF Spec, BeginsClean

(* An operation that ends safe had no command that outlived its kill.      *)
THEOREM StageKillsProven == ASSUME ~MaskedKill PROVE Spec => []UnprovenNeedsRecovery
<1>1. IInv => UnprovenNeedsRecovery
    BY DEF IInv, AtTheEnd, Left, UnprovenNeedsRecovery
<1> QED
    BY <1>1, InitInvariant, NextInvariant, PTL DEF Spec
==============================================================================
