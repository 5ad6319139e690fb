------------------------- MODULE ManualRestore_proofs -------------------------
(***************************************************************************)
(* What a manual restore keeps, for any writes and any number of restores, *)
(* failing calls and crashes: logs and databases stay together, no write   *)
(* is discarded, the recorded outcome is true and the promise to users is  *)
(* implemented.  The last two need a swap that does not fail once the log  *)
(* is removed.                                                             *)
(***************************************************************************)
EXTENDS ManualRestore, TLAPS

Swapping == {"stage", "remove_sidecars", "sync_sidecars", "replace", "prove"}
BeforeStop ==
    {"record_owner", "open", "inspect", "maintain", "undo_maintenance",
     "record_maintained", "stop"}
Stopped == {"record_stopped", "backup"}
Prepared == {"record_prepared", "record_started"}
Restored == {"note_restored", "restart"}
Checking ==
    {"note_restarted", "check", "record_healthy", "record_activation", "route",
     "record_routed", "record_exposure"}
Exposing == {"expose", "select", "succeed"}
RollingBack == {"rollback_restart", "rollback_route", "rollback_reopen", "rollback_check"}
Ending == {"finish", "finish_again", "unlock", "idle"}

Exposure == "manual_restore_maintenance_disable_started"

Places ==
    BeforeStop \cup Stopped \cup Prepared \cup Swapping \cup Restored \cup Checking
    \cup Exposing \cup {"rollback_stop"} \cup RollingBack \cup Ending

Stages ==
    Early \cup Outcomes
    \cup {"manual_restore_started", "manual_restore_selected_healthy",
          "manual_restore_traffic_activation_started", "manual_restore_traffic_target_selected",
          "manual_restore_completed", Exposure}
OpType ==
    [status : Outcomes \cup {"in_progress"}, stage : Stages, changed : BOOLEAN, torn : BOOLEAN]
ContextType ==
    [pre : SUBSET Content, stop_attempted : BOOLEAN, stopped : BOOLEAN,
     restart_attempted : BOOLEAN, running : BOOLEAN, replaced : BOOLEAN,
     attempted : BOOLEAN, exposed : BOOLEAN, rollback : BOOLEAN, outcome : Outcomes,
     changed : BOOLEAN]

Types ==
    /\ db \in Content /\ wal \in Content /\ disk \in [db : Content, wal : Content]
    /\ app \in [Releases -> {"running", "stopped"}]
    /\ target \in Releases /\ active \in Releases /\ maintenance \in BOOLEAN
    /\ acked \subseteq Writes /\ saved \subseteq Writes \cup {Own}
    /\ op \in OpType /\ me \in ContextType /\ pc \in Places

(* The context of a command tells how far it got. *)
Context ==
    /\ pc \in BeforeStop \cup {"idle"} => me = NoContext
    /\ pc \notin Ending => op.status = "in_progress" /\ (me.stop_attempted <=> me.stopped)
    /\ pc \notin Ending /\ ~me.rollback =>
        /\ (me.restart_attempted <=> me.running)
        /\ me.stopped <=> pc \notin BeforeStop
        /\ me.running <=> pc \in Checking \cup Exposing
        /\ me.replaced <=> pc \in Restored \cup Checking \cup Exposing
        /\ pc \notin RollingBack \cup {"rollback_stop"}
        /\ me.attempted => pc \in {"route", "record_routed", "record_exposure"} \cup Exposing
        /\ me.exposed => pc \in Exposing
    /\ pc \in {"finish", "finish_again"} => me.outcome \in {"failed_safe", "recovery_required"}
    /\ pc \in Exposing => me.exposed
    /\ pc \in {"route", "record_routed", "record_exposure"} => me.attempted
    /\ pc \notin Ending /\ me.rollback =>
        /\ pc \in Swapping \cup RollingBack \cup {"rollback_stop"}
        /\ ~me.attempted /\ ~me.exposed
        /\ me.replaced => me.stopped
        /\ me.running => me.replaced /\ pc = "rollback_stop"
        /\ pc \in Swapping => me.replaced

(* The original database is on both media. *)
Kept ==
    /\ acked \subseteq db.writes \cup wal.writes
    /\ acked \subseteq db.writes \cup disk.wal.writes
    /\ acked \subseteq disk.db.writes \cup wal.writes
    /\ acked \subseteq disk.db.writes \cup disk.wal.writes
Intact == db.base = "current" /\ disk.db.base = "current" /\ (~SwapFaults => Kept)
Original == Intact /\ target = "current" /\ app["selected"] = "stopped"

(* Whoever may begin again, or report that nothing was changed, finds the  *)
(* original, and so does a reader of an early stage.                       *)
OriginalKept ==
    /\ op.status \in {"none", "failed_safe"} => Original
    /\ pc \in {"finish", "finish_again"} /\ me.outcome = "failed_safe" => Original
    /\ pc \in BeforeStop \cup Stopped \cup Prepared \cup RollingBack => Original
    /\ pc \in {"stage", "remove_sidecars"} /\ ~me.rollback => Original
    /\ pc = "rollback_stop" /\ ~me.replaced => Original
    /\ pc \in {"sync_sidecars", "replace"} /\ ~me.rollback =>
        db.base = "current" /\ disk.db.base = "current"
    /\ op.status = "in_progress" /\ op.stage \in Early => Intact
    /\ op.status = "succeeded" => active = "selected"

(* Each application runs on its own database only. *)
Running ==
    /\ app["current"] = "running" => Original
    /\ app["selected"] = "running" =>
        /\ db.base = "selected" /\ disk.db.base = "selected"
        /\ pc \notin Ending => me.running
    /\ pc \notin Ending /\ me.running => app["selected"] = "running"
    /\ pc \notin Ending /\ me.stopped /\ pc \notin RollingBack => app["current"] = "stopped"
    /\ pc \in Restored \cup Checking \cup Exposing =>
        db.base = "selected" /\ disk.db.base = "selected"
    /\ pc \in {"finish", "finish_again"} /\ me.outcome = "failed_safe" /\ me.rollback =>
        ~maintenance /\ app["current"] = "running"

(* Until users are let in again nobody writes but the applications. *)
Blocked ==
    /\ pc \in {"record_maintained", "stop"} \cup Stopped \cup Prepared \cup Swapping
              \cup Restored \cup Checking \cup {"expose"} => maintenance
    /\ pc = "rollback_stop" /\ me.replaced => maintenance
    /\ pc = "rollback_check" \/ pc \in {"select", "succeed"} => ~maintenance
    /\ pc \notin Ending \cup Exposing \cup {"record_routed", "record_exposure"} =>
        target = "current"
    /\ pc \in {"record_routed", "record_exposure"} \cup Exposing => target = "selected"
    /\ pc = "succeed" => active = "selected"

(* A log, on either medium, belongs to both main files. *)
Logs ==
    /\ wal.writes # {} => wal.base = db.base /\ wal.base = disk.db.base
    /\ disk.wal.writes # {} => disk.wal.base = db.base /\ disk.wal.base = disk.db.base
    /\ pc \in {"sync_sidecars", "replace", "prove"} => wal.writes = {}
    /\ pc \in {"replace", "prove"} => disk.wal.writes = {}
    /\ disk.db.base # db.base =>
        pc \in Ending \cup {"prove"} /\ op.stage # Exposure

(* The backup of the current state has every write until users are back. *)
Saved ==
    /\ acked \subseteq db.writes \cup wal.writes \cup saved
    /\ acked \subseteq db.writes \cup disk.wal.writes \cup saved
    /\ acked \subseteq disk.db.writes \cup wal.writes \cup saved
    /\ acked \subseteq disk.db.writes \cup disk.wal.writes \cup saved
    /\ pc \in Prepared \cup Swapping \cup Restored \cup Checking \cup {"expose"}
       \/ (pc = "rollback_stop" /\ me.replaced) =>
        /\ acked \subseteq saved
        /\ \E b \in Content : me.pre = {b} /\ b.base = "current"
                              /\ (~SwapFaults => acked \subseteq b.writes)
    /\ pc = "prove" => db \in Source
    /\ saved \subseteq acked \cup {Own}
    /\ db.writes \cup disk.db.writes \cup wal.writes \cup disk.wal.writes
         \subseteq acked \cup {Own}
    /\ pc \notin Ending => \A b \in me.pre : b.writes \subseteq acked \cup {Own}

(* The records name no later stage than the command has reached. *)
Recorded ==
    /\ pc \in Swapping \cup Restored \cup Checking \cup Exposing => op.stage \notin Early
    /\ pc = "rollback_stop" /\ me.replaced => op.stage \notin Early
    /\ pc \notin Ending \cup Exposing => op.stage # Exposure

IInv ==
    Types /\ Context /\ OriginalKept /\ Running /\ Blocked /\ Logs /\ Saved /\ Recorded

------------------------------------------------------------------------------
(* The steps of a restore.                                                  *)

(* What an error leaves of the context: recovery is required, or the       *)
(* rollback begins and nothing was exposed, attempted or left unproven.    *)
Failed(error, m) ==
    /\ me' \in ContextType
    /\ me'.pre = m.pre /\ me'.replaced = m.replaced
    /\ me'.stop_attempted = m.stop_attempted /\ me'.stopped = m.stopped
    /\ me'.restart_attempted = m.restart_attempted /\ me'.running = m.running
    /\ me'.attempted = m.attempted /\ me'.exposed = m.exposed
    /\ \/ pc' = "finish" /\ me'.outcome = "recovery_required" /\ me'.rollback = m.rollback
       \/ /\ pc' = "rollback_stop" /\ me'.rollback /\ me'.outcome = m.outcome
          /\ ~m.rollback /\ error # "recovery" /\ ~m.attempted /\ ~m.exposed
          /\ error = "raw" => (m.stop_attempted => m.stopped)
                              /\ (m.restart_attempted => m.running)

(* _normalize_restore_coordinator_error and the coordinator's test.        *)
LEMMA FailEnds ==
    ASSUME NEW error, NEW m \in ContextType, Fail(error, m) PROVE Failed(error, m)
  BY DEF Fail, Finish, NeedsRecovery, ContextType, Outcomes, Failed

(* A log that belongs to the database adds its writes.                     *)
LEMMA LiveIs ==
    ASSUME db \in Content, wal \in Content, wal.writes # {} => wal.base = db.base
    PROVE  /\ Live \in Content
           /\ Live.base = db.base /\ Live.writes = db.writes \cup wal.writes
  BY DEF Live, Content

(* A container that leaves changes neither the database nor its writes.    *)
LEMMA LeavesKeeps ==
    ASSUME Types, Logs, NEW r \in Releases, Leaves(r)
    PROVE  /\ app' \in [Releases -> {"running", "stopped"}] /\ app'[r] = "stopped"
           /\ \A x \in Releases : x # r => app'[x] = app[x]
           /\ db' \in Content /\ wal' \in Content /\ disk' \in [db : Content, wal : Content]
           /\ \/ db' = db /\ wal' = wal /\ disk' = disk
              \/ /\ db'.base = db.base /\ db'.writes = db.writes \cup wal.writes
                 /\ wal'.writes = {} /\ disk'.db = db' /\ disk'.wal.writes = {}
<1>1. wal.writes # {} => wal.base = db.base
    BY DEF Logs
<1>2. Live \in Content /\ Live.base = db.base /\ Live.writes = db.writes \cup wal.writes
    BY <1>1, LiveIs DEF Types
<1>3. NoLog \in Content /\ NoLog.writes = {}
    BY DEF NoLog, Content, Releases
<1>4. app' = [app EXCEPT ![r] = "stopped"]
    BY DEF Leaves
<1>5. CASE UNCHANGED files
    BY <1>4, <1>5 DEF Types, files
<1>6. CASE db' = Live /\ wal' = NoLog /\ disk' = [db |-> Live, wal |-> NoLog]
    BY <1>2, <1>3, <1>4, <1>6 DEF Types
<1> QED
    BY <1>5, <1>6 DEF Leaves

(* The table of the transitions, row by row.                               *)
LEMMA JournalRows ==
    /\ DOMAIN Records =
         {"record_maintained", "record_stopped", "record_prepared", "record_started",
          "note_restored", "note_restarted", "record_healthy", "record_activation",
          "record_routed", "record_exposure"}
    /\ Records["record_maintained"] =
         Row("manual_restore_maintenance_enabled", FALSE, "none", "stop")
    /\ Records["record_stopped"] =
         Row("manual_restore_current_app_stopped", FALSE, "none", "backup")
    /\ Records["record_prepared"] =
         Row("manual_restore_prepared", FALSE, "none", "record_started")
    /\ Records["record_started"] =
         Row("manual_restore_started", TRUE, "none", "stage")
    /\ Records["note_restored"] =
         Row("same", TRUE, "none", "restart")
    /\ Records["note_restarted"] =
         Row("same", TRUE, "none", "check")
    /\ Records["record_healthy"] =
         Row("manual_restore_selected_healthy", TRUE, "none", "record_activation")
    /\ Records["record_activation"] =
         Row("manual_restore_traffic_activation_started", TRUE, "attempted", "route")
    /\ Records["record_routed"] =
         Row("manual_restore_traffic_target_selected", TRUE, "none", "record_exposure")
    /\ Records["record_exposure"] =
         Row("manual_restore_maintenance_disable_started", TRUE, "exposed", "expose")
  BY DEF Records, Journal

RowNext ==
    {"stop", "backup", "record_started", "stage", "restart", "check", "record_activation",
     "route", "record_exposure", "expose"}
RowType ==
    [stage : Stages \cup {"same"}, changed : BOOLEAN, mark : {"none", "attempted", "exposed"},
     next : RowNext]

(* Every row has the type of a row.                                        *)
LEMMA RowTypes == ASSUME NEW p \in DOMAIN Records PROVE Records[p] \in RowType
<1> USE DEF Row, RowType, RowNext, Stages, Early, Exposure
<1>1. Records["record_maintained"] \in RowType
    BY JournalRows
<1>2. Records["record_stopped"] \in RowType
    BY JournalRows
<1>3. Records["record_prepared"] \in RowType
    BY JournalRows
<1>4. Records["record_started"] \in RowType
    BY JournalRows
<1>5. Records["note_restored"] \in RowType
    BY JournalRows
<1>6. Records["note_restarted"] \in RowType
    BY JournalRows
<1>7. Records["record_healthy"] \in RowType
    BY JournalRows
<1>8. Records["record_activation"] \in RowType
    BY JournalRows
<1>9. Records["record_routed"] \in RowType
    BY JournalRows
<1>10. Records["record_exposure"] \in RowType
    BY JournalRows
<1> QED
    BY <1>1, <1>2, <1>3, <1>4, <1>5, <1>6, <1>7, <1>8, <1>9, <1>10, JournalRows

(* Every step of the restore, of the users, of the applications and of the *)
(* crashes keeps the invariant.                                            *)
LEMMA NextInvariant == ASSUME IInv, [Next]_vars PROVE IInv'
<1> USE RestoreAssumption, OwnAssumption DEF Types, Context, OriginalKept, Running, Blocked,
   Logs, Saved, Recorded, Original, Intact, Kept, Content, Source, SelectedBackup, OpType,
   Stages, Outcomes, Releases, Early, Exposure, Swapping, BeforeStop, Stopped, Prepared,
   Restored, Checking, Exposing, RollingBack, Ending, Places, Goto, Works, Fault, files,
   routing, record
<1>a. Types /\ Context /\ OriginalKept /\ Running /\ Blocked /\ Logs /\ Saved /\ Recorded
    BY DEF IInv
<1>1. ASSUME StartRestore PROVE IInv'
  <2>1. op.status \in {"none", "succeeded", "failed_safe"} /\ active = "current"
      BY <1>1, <1>a DEF StartRestore, CleanOperationState, PreviewAllows
  <2>2. op' = [status |-> "in_progress", stage |-> "restore_previewed", changed |-> FALSE,
               torn |-> FALSE]
      BY <1>1 DEF StartRestore, NoOperation
  <2>3. op' \in OpType /\ op'.status = "in_progress" /\ op'.stage = "restore_previewed"
      BY <2>2
  <2>4. /\ pc' = "record_owner" /\ me' = me /\ me = NoContext
        /\ UNCHANGED <<files, routing, acked, saved, owner, active>>
      BY <1>1, <1>a DEF StartRestore
  <2>5. NoContext \in ContextType
      BY DEF NoContext, ContextType
  <2>6. Types'
      BY <2>1, <2>3, <2>4, <2>5, <1>a DEF NoContext
  <2>7. Context'
      BY <2>1, <2>3, <2>4, <2>5, <1>a DEF NoContext
  <2>8. OriginalKept'
      BY <2>1, <2>3, <2>4, <2>5, <1>a DEF NoContext
  <2>9. Running'
      BY <2>1, <2>3, <2>4, <2>5, <1>a DEF NoContext
  <2>10. Blocked'
      BY <2>1, <2>3, <2>4, <2>5, <1>a DEF NoContext
  <2>11. Logs'
      BY <2>1, <2>3, <2>4, <2>5, <1>a DEF NoContext
  <2>12. Saved'
      BY <2>1, <2>3, <2>4, <2>5, <1>a DEF NoContext
  <2>13. Recorded'
      BY <2>1, <2>3, <2>4, <2>5, <1>a DEF NoContext
  <2> QED
      BY <2>6, <2>7, <2>8, <2>9, <2>10, <2>11, <2>12, <2>13 DEF IInv
<1>2. ASSUME RecordOwner PROVE IInv'
  <2>1. Types'
      BY <1>2, <1>a DEF RecordOwner
  <2>2. Context'
      BY <1>2, <1>a DEF RecordOwner
  <2>3. OriginalKept'
      BY <1>2, <1>a DEF RecordOwner
  <2>4. Running'
      BY <1>2, <1>a DEF RecordOwner
  <2>5. Blocked'
      BY <1>2, <1>a DEF RecordOwner
  <2>6. Logs'
      BY <1>2, <1>a DEF RecordOwner
  <2>7. Saved'
      BY <1>2, <1>a DEF RecordOwner
  <2>8. Recorded'
      BY <1>2, <1>a DEF RecordOwner
  <2> QED
      BY <2>1, <2>2, <2>3, <2>4, <2>5, <2>6, <2>7, <2>8 DEF IInv
<1>3. ASSUME OpenSelectedBackup PROVE IInv'
  <2>1. me = NoContext
      BY <1>3, <1>a DEF OpenSelectedBackup
  <2>2. me \in ContextType /\ ~me.rollback
      BY <1>a, <2>1 DEF NoContext
  <2>3. me' \in ContextType /\ ~me'.rollback /\ (pc' = "finish" => me'.outcome = "failed_safe")
      BY <1>3, <2>2 DEF OpenSelectedBackup, Finish, ContextType
  <2>4. Types'
      BY <1>3, <2>1, <2>3, <1>a DEF OpenSelectedBackup, Finish, NoContext
  <2>5. Context'
      BY <1>3, <2>1, <2>3, <1>a DEF OpenSelectedBackup, Finish, NoContext
  <2>6. OriginalKept'
      BY <1>3, <2>1, <2>3, <1>a DEF OpenSelectedBackup, Finish, NoContext
  <2>7. Running'
      BY <1>3, <2>1, <2>3, <1>a DEF OpenSelectedBackup, Finish, NoContext
  <2>8. Blocked'
      BY <1>3, <2>1, <2>3, <1>a DEF OpenSelectedBackup, Finish, NoContext
  <2>9. Logs'
      BY <1>3, <2>1, <2>3, <1>a DEF OpenSelectedBackup, Finish, NoContext
  <2>10. Saved'
      BY <1>3, <2>1, <2>3, <1>a DEF OpenSelectedBackup, Finish, NoContext
  <2>11. Recorded'
      BY <1>3, <2>1, <2>3, <1>a DEF OpenSelectedBackup, Finish, NoContext
  <2> QED
      BY <2>4, <2>5, <2>6, <2>7, <2>8, <2>9, <2>10, <2>11 DEF IInv
<1>4. ASSUME InspectApplications PROVE IInv'
  <2>1. Types'
      BY <1>4, FailEnds, <1>a DEF InspectApplications, Failed
  <2>2. Context'
      BY <1>4, FailEnds, <1>a DEF InspectApplications, Failed
  <2>3. OriginalKept'
      BY <1>4, FailEnds, <1>a DEF InspectApplications, Failed
  <2>4. Running'
      BY <1>4, FailEnds, <1>a DEF InspectApplications, Failed
  <2>5. Blocked'
      BY <1>4, FailEnds, <1>a DEF InspectApplications, Failed
  <2>6. Logs'
      BY <1>4, FailEnds, <1>a DEF InspectApplications, Failed
  <2>7. Saved'
      BY <1>4, FailEnds, <1>a DEF InspectApplications, Failed
  <2>8. Recorded'
      BY <1>4, FailEnds, <1>a DEF InspectApplications, Failed
  <2> QED
      BY <2>1, <2>2, <2>3, <2>4, <2>5, <2>6, <2>7, <2>8 DEF IInv
<1>5. ASSUME EnableMaintenance PROVE IInv'
  <2>1. maintenance' \in BOOLEAN
      BY <1>5, <1>a DEF EnableMaintenance
  <2>2. me' = me \/ Failed("recovery", me)
      BY <1>5, <1>a, FailEnds DEF EnableMaintenance
  <2>3. me' \in ContextType /\ pc' \in Places
      BY <1>5, <2>2, <1>a, FailEnds DEF EnableMaintenance, Failed
  <2>4. UNCHANGED <<files, app, target, acked, saved, record>>
      BY <1>5 DEF EnableMaintenance
  <2>5. Types'
      BY <2>1, <2>3, <2>4, <1>a
  <2>6. Context'
      BY <1>5, <2>1, <2>2, <2>3, FailEnds, <1>a DEF EnableMaintenance, Failed
  <2>7. OriginalKept'
      BY <1>5, <2>1, <2>2, <2>3, FailEnds, <1>a DEF EnableMaintenance, Failed
  <2>8. Running'
      BY <1>5, <2>1, <2>2, <2>3, FailEnds, <1>a DEF EnableMaintenance, Failed
  <2>9. Blocked'
      BY <1>5, <2>1, <2>2, <2>3, FailEnds, <1>a DEF EnableMaintenance, Failed
  <2>10. Logs'
      BY <1>5, <2>1, <2>2, <2>3, FailEnds, <1>a DEF EnableMaintenance, Failed
  <2>11. Saved'
      BY <1>5, <2>1, <2>2, <2>3, FailEnds, <1>a DEF EnableMaintenance, Failed
  <2>12. Recorded'
      BY <1>5, <2>1, <2>2, <2>3, FailEnds, <1>a DEF EnableMaintenance, Failed
  <2> QED
      BY <2>5, <2>6, <2>7, <2>8, <2>9, <2>10, <2>11, <2>12 DEF IInv
<1>6. ASSUME UndoMaintenance PROVE IInv'
  <2>1. PICK error : Fail(error, me)
      BY <1>6 DEF UndoMaintenance
  <2>2. Failed(error, me)
      BY <2>1, <1>a, FailEnds
  <2>3. me = NoContext /\ pc = "undo_maintenance"
        /\ UNCHANGED <<files, app, target, acked, saved, record>>
      BY <1>6, <1>a DEF UndoMaintenance
  <2>4. maintenance' \in BOOLEAN
      BY <1>6, <1>a DEF UndoMaintenance
  <2>5. me' \in ContextType /\ pc' \in {"finish", "rollback_stop"}
      BY <2>2 DEF Failed
  <2>6. Types'
      BY <2>3, <2>4, <2>5, <1>a
  <2>7. Context'
      BY <2>2, <2>3, <2>4, <1>a DEF Failed, NoContext
  <2>8. OriginalKept'
      BY <2>2, <2>3, <2>4, <1>a DEF Failed, NoContext
  <2>9. Running'
      BY <2>2, <2>3, <2>4, <1>a DEF Failed, NoContext
  <2>10. Blocked'
      BY <2>2, <2>3, <2>4, <1>a DEF Failed, NoContext
  <2>11. Logs'
      BY <2>2, <2>3, <2>4, <1>a DEF Failed, NoContext
  <2>12. Saved'
      BY <2>2, <2>3, <2>4, <1>a DEF Failed, NoContext
  <2>13. Recorded'
      BY <2>2, <2>3, <2>4, <1>a DEF Failed, NoContext
  <2> QED
      BY <2>6, <2>7, <2>8, <2>9, <2>10, <2>11, <2>12, <2>13 DEF IInv
<1>7. ASSUME Transition PROVE IInv'
  <2>1. pc \in DOMAIN Records
      BY <1>7 DEF Transition
  <2> DEFINE row == Records[pc]
             m == CASE row.mark = "attempted" -> [me EXCEPT !.attempted = TRUE]
                    [] row.mark = "exposed" -> [me EXCEPT !.exposed = TRUE]
                    [] OTHER -> me
             new == IF row.stage = "same" THEN op
                    ELSE [op EXCEPT !.stage = row.stage, !.changed = row.changed]
  <2>2. /\ row.stage \in Stages \cup {"same"} /\ row.changed \in BOOLEAN
        /\ row.mark \in {"none", "attempted", "exposed"} /\ row.next \in RowNext
      BY <2>1, RowTypes DEF RowType
  <2>3. /\ m \in ContextType /\ m.pre = me.pre /\ m.replaced = me.replaced
        /\ m.stop_attempted = me.stop_attempted /\ m.stopped = me.stopped
        /\ m.restart_attempted = me.restart_attempted /\ m.running = me.running
        /\ m.rollback = me.rollback /\ m.outcome = me.outcome
        /\ (m.attempted <=> me.attempted \/ row.mark = "attempted")
        /\ (m.exposed <=> me.exposed \/ row.mark = "exposed")
        /\ row.mark = "none" => m = me
    <3> HIDE DEF row
    <3> QED
        BY <1>a, ZenonT(30) DEF ContextType
  <2>4. new \in OpType /\ new.status = op.status
        /\ new.stage = IF row.stage = "same" THEN op.stage ELSE row.stage
    <3>1. CASE row.stage = "same"
        BY <3>1, <1>a
    <3>2. CASE row.stage # "same"
      <4>1. new = [op EXCEPT !.stage = row.stage, !.changed = row.changed]
          BY <3>2
      <4> HIDE DEF row, new
      <4> QED
          BY <2>2, <3>2, <4>1, <1>a
    <3> QED
        BY <3>1, <3>2
  <2>5. \/ op' = new /\ pc' = row.next /\ me' = m
        \/ op' \in {op, [op EXCEPT !.torn = TRUE], new} /\ Fail("recovery", m)
      BY <1>7 DEF Transition, RecordFails
  <2>6. UNCHANGED <<files, routing, acked, saved, nops, owner, active>>
      BY <1>7 DEF Transition
  <2>7. op' \in OpType /\ op'.status = op.status
        /\ op'.stage \in {op.stage, IF row.stage = "same" THEN op.stage ELSE row.stage}
    <3>1. CASE op' = [op EXCEPT !.torn = TRUE]
        BY <3>1, <1>a
    <3>2. op' = op \/ op' = new \/ op' = [op EXCEPT !.torn = TRUE]
        BY <2>5
    <3> HIDE DEF m, new, row
    <3> QED
        BY <2>4, <3>1, <3>2, <1>a
  <2>8. \/ /\ pc' = row.next /\ me' = m
           /\ op'.stage = IF row.stage = "same" THEN op.stage ELSE row.stage
        \/ /\ pc' = "finish" /\ me'.outcome = "recovery_required" /\ me' \in ContextType
           /\ me'.pre = me.pre
    <3>1. Fail("recovery", m) => Failed("recovery", m)
        BY <2>3, FailEnds
    <3> HIDE DEF m, new, row
    <3> QED
        BY <2>3, <2>4, <2>5, <3>1 DEF Failed
  <2> HIDE DEF m, new, row
  <2>9. Types'
      BY <2>1, <2>2, <2>3, <2>6, <2>7, <2>8, JournalRows, <1>a DEF row, Row
  <2>10. Context'
      BY <2>1, <2>2, <2>3, <2>6, <2>7, <2>8, JournalRows, <1>a DEF row, Row
  <2>11. OriginalKept'
      BY <2>1, <2>2, <2>3, <2>6, <2>7, <2>8, JournalRows, <1>a DEF row, Row
  <2>12. Running'
      BY <2>1, <2>2, <2>3, <2>6, <2>7, <2>8, JournalRows, <1>a DEF row, Row
  <2>13. Blocked'
      BY <2>1, <2>2, <2>3, <2>6, <2>7, <2>8, JournalRows, <1>a DEF row, Row
  <2>14. Logs'
      BY <2>1, <2>2, <2>3, <2>6, <2>7, <2>8, JournalRows, <1>a DEF row, Row
  <2>15. Saved'
      BY <2>1, <2>2, <2>3, <2>6, <2>7, <2>8, JournalRows, <1>a DEF row, Row
  <2>16. Recorded'
      BY <2>1, <2>2, <2>3, <2>6, <2>7, <2>8, JournalRows, <1>a DEF row, Row
  <2> QED
      BY <2>9, <2>10, <2>11, <2>12, <2>13, <2>14, <2>15, <2>16 DEF IInv
<1>8. ASSUME StopCurrent PROVE IInv'
  <2>1. me = NoContext /\ pc = "stop" /\ UNCHANGED <<target, maintenance, acked, saved, record>>
      BY <1>8, <1>a DEF StopCurrent
  <2>2. Leaves("current") \/ UNCHANGED <<app, files>>
      BY <1>8 DEF StopCurrent
  <2>3. [me EXCEPT !.stop_attempted = TRUE] \in ContextType
        /\ [me EXCEPT !.stop_attempted = TRUE, !.stopped = TRUE] \in ContextType
      BY <1>a DEF ContextType
  <2>4. \/ /\ Leaves("current") /\ pc' = "record_stopped"
           /\ me' = [me EXCEPT !.stop_attempted = TRUE, !.stopped = TRUE]
        \/ Failed("raw", [me EXCEPT !.stop_attempted = TRUE])
      BY <1>8, <2>3, FailEnds DEF StopCurrent
  <2>5. me'.pre = me.pre /\ me' \in ContextType
        /\ \/ pc' = "record_stopped" /\ me'.stop_attempted /\ me'.stopped /\ ~me'.rollback
              /\ ~me'.restart_attempted /\ ~me'.running /\ ~me'.replaced /\ ~me'.attempted
              /\ ~me'.exposed /\ app'["current"] = "stopped"
           \/ pc' = "finish" /\ me'.outcome = "recovery_required"
    <3>1. ~me.stopped /\ ~me.restart_attempted /\ ~me.running /\ ~me.replaced
          /\ ~me.attempted /\ ~me.exposed /\ ~me.rollback /\ me \in ContextType
        BY <2>1, <1>a DEF NoContext
    <3>2. CASE Leaves("current") /\ pc' = "record_stopped"
               /\ me' = [me EXCEPT !.stop_attempted = TRUE, !.stopped = TRUE]
      <4>1. app'["current"] = "stopped"
          BY <3>2, LeavesKeeps, <1>a
      <4> QED
          BY <3>1, <3>2, <2>3, <4>1 DEF ContextType
    <3>3. CASE Failed("raw", [me EXCEPT !.stop_attempted = TRUE])
        BY <3>1, <3>3, <2>3 DEF Failed, ContextType
    <3> QED
        BY <2>4, <3>2, <3>3
  <2>6. Types'
      BY <2>1, <2>2, <2>5, LeavesKeeps, <1>a
  <2>7. Context'
      BY <2>1, <2>2, <2>5, LeavesKeeps, <1>a
  <2>8. OriginalKept'
      BY <2>1, <2>2, <2>5, LeavesKeeps, <1>a
  <2>9. Running'
      BY <2>1, <2>2, <2>5, LeavesKeeps, <1>a
  <2>10. Blocked'
      BY <2>1, <2>2, <2>5, LeavesKeeps, <1>a
  <2>11. Logs'
      BY <2>1, <2>2, <2>5, LeavesKeeps, <1>a
  <2>12. Saved'
      BY <2>1, <2>2, <2>5, LeavesKeeps, <1>a
  <2>13. Recorded'
      BY <2>1, <2>2, <2>5, LeavesKeeps, <1>a
  <2> QED
      BY <2>6, <2>7, <2>8, <2>9, <2>10, <2>11, <2>12, <2>13 DEF IInv
<1>9. ASSUME BackupCurrent PROVE IInv'
  <2>1. Live \in Content /\ Live.base = "current" /\ Live.writes = db.writes \cup wal.writes
      BY <1>9, <1>a, LiveIs DEF BackupCurrent
  <2>2. \/ /\ me' = [me EXCEPT !.pre = {Live}] /\ me' \in ContextType
           /\ saved' = saved \cup Live.writes /\ pc' = "record_prepared"
        \/ UNCHANGED saved /\ Failed("failed", me)
      BY <1>9, <1>a, <2>1, FailEnds DEF BackupCurrent, ContextType
  <2>3. UNCHANGED <<files, routing, acked, op, active>> /\ pc = "backup"
      BY <1>9 DEF BackupCurrent
  <2>4. /\ me' \in ContextType /\ me'.replaced = me.replaced
        /\ me'.stop_attempted = me.stop_attempted /\ me'.stopped = me.stopped
        /\ me'.restart_attempted = me.restart_attempted /\ me'.running = me.running
        /\ me'.attempted = me.attempted /\ me'.exposed = me.exposed
        /\ \/ pc' = "record_prepared" /\ me'.pre = {Live} /\ saved' = saved \cup Live.writes
              /\ ~me'.rollback
           \/ pc' = "finish" /\ me'.outcome = "recovery_required" /\ UNCHANGED saved
           \/ pc' = "rollback_stop" /\ UNCHANGED saved /\ me'.rollback /\ me'.pre = me.pre
    <3>1. me \in ContextType /\ ~me.rollback
        BY <2>3, <1>a
    <3> QED
        BY <2>2, <3>1 DEF Failed, ContextType
  <2>5. Types'
      BY <2>1, <2>3, <2>4, <1>a
  <2>6. Context'
      BY <2>1, <2>3, <2>4, <1>a
  <2>7. OriginalKept'
      BY <2>1, <2>3, <2>4, <1>a
  <2>8. Running'
      BY <2>1, <2>3, <2>4, <1>a
  <2>9. Blocked'
      BY <2>1, <2>3, <2>4, <1>a
  <2>10. Logs'
      BY <2>1, <2>3, <2>4, <1>a
  <2>11. Saved'
      BY <2>1, <2>3, <2>4, <1>a
  <2>12. Recorded'
      BY <2>1, <2>3, <2>4, <1>a
  <2> QED
      BY <2>5, <2>6, <2>7, <2>8, <2>9, <2>10, <2>11, <2>12 DEF IInv
<1>10. ASSUME StageBackup PROVE IInv'
  <2>1. Types'
      BY <1>10, FailEnds, <1>a DEF StageBackup, Failed
  <2>2. Context'
      BY <1>10, FailEnds, <1>a DEF StageBackup, Failed
  <2>3. OriginalKept'
      BY <1>10, FailEnds, <1>a DEF StageBackup, Failed
  <2>4. Running'
      BY <1>10, FailEnds, <1>a DEF StageBackup, Failed
  <2>5. Blocked'
      BY <1>10, FailEnds, <1>a DEF StageBackup, Failed
  <2>6. Logs'
      BY <1>10, FailEnds, <1>a DEF StageBackup, Failed
  <2>7. Saved'
      BY <1>10, FailEnds, <1>a DEF StageBackup, Failed
  <2>8. Recorded'
      BY <1>10, FailEnds, <1>a DEF StageBackup, Failed
  <2> QED
      BY <2>1, <2>2, <2>3, <2>4, <2>5, <2>6, <2>7, <2>8 DEF IInv
<1>11. ASSUME RemoveSqliteSidecars PROVE IInv'
  <2>1. Types'
      BY <1>11, FailEnds, <1>a DEF RemoveSqliteSidecars, Failed, NoLog
  <2>2. Context'
      BY <1>11, FailEnds, <1>a DEF RemoveSqliteSidecars, Failed, NoLog
  <2>3. OriginalKept'
      BY <1>11, FailEnds, <1>a DEF RemoveSqliteSidecars, Failed, NoLog
  <2>4. Running'
      BY <1>11, FailEnds, <1>a DEF RemoveSqliteSidecars, Failed, NoLog
  <2>5. Blocked'
      BY <1>11, FailEnds, <1>a DEF RemoveSqliteSidecars, Failed, NoLog
  <2>6. Logs'
      BY <1>11, FailEnds, <1>a DEF RemoveSqliteSidecars, Failed, NoLog
  <2>7. Saved'
      BY <1>11, FailEnds, <1>a DEF RemoveSqliteSidecars, Failed, NoLog
  <2>8. Recorded'
      BY <1>11, FailEnds, <1>a DEF RemoveSqliteSidecars, Failed, NoLog
  <2> QED
      BY <2>1, <2>2, <2>3, <2>4, <2>5, <2>6, <2>7, <2>8 DEF IInv
<1>12. ASSUME SyncSidecars PROVE IInv'
  <2>1. Types'
      BY <1>12, FailEnds, <1>a DEF SyncSidecars, Failed
  <2>2. Context'
      BY <1>12, FailEnds, <1>a DEF SyncSidecars, Failed
  <2>3. OriginalKept'
      BY <1>12, FailEnds, <1>a DEF SyncSidecars, Failed
  <2>4. Running'
      BY <1>12, FailEnds, <1>a DEF SyncSidecars, Failed
  <2>5. Blocked'
      BY <1>12, FailEnds, <1>a DEF SyncSidecars, Failed
  <2>6. Logs'
      BY <1>12, FailEnds, <1>a DEF SyncSidecars, Failed
  <2>7. Saved'
      BY <1>12, FailEnds, <1>a DEF SyncSidecars, Failed
  <2>8. Recorded'
      BY <1>12, FailEnds, <1>a DEF SyncSidecars, Failed
  <2> QED
      BY <2>1, <2>2, <2>3, <2>4, <2>5, <2>6, <2>7, <2>8 DEF IInv
<1>13. ASSUME ReplaceDatabase PROVE IInv'
  <2>1. Types'
      BY <1>13, FailEnds, <1>a DEF ReplaceDatabase, Failed
  <2>2. Context'
      BY <1>13, FailEnds, <1>a DEF ReplaceDatabase, Failed
  <2>3. OriginalKept'
      BY <1>13, FailEnds, <1>a DEF ReplaceDatabase, Failed
  <2>4. Running'
      BY <1>13, FailEnds, <1>a DEF ReplaceDatabase, Failed
  <2>5. Blocked'
      BY <1>13, FailEnds, <1>a DEF ReplaceDatabase, Failed
  <2>6. Logs'
      BY <1>13, FailEnds, <1>a DEF ReplaceDatabase, Failed
  <2>7. Saved'
      BY <1>13, FailEnds, <1>a DEF ReplaceDatabase, Failed
  <2>8. Recorded'
      BY <1>13, FailEnds, <1>a DEF ReplaceDatabase, Failed
  <2> QED
      BY <2>1, <2>2, <2>3, <2>4, <2>5, <2>6, <2>7, <2>8 DEF IInv
<1>14. ASSUME ProveDatabase PROVE IInv'
  <2>1. [me EXCEPT !.replaced = TRUE] \in ContextType
      BY <1>a DEF ContextType
  <2>2. /\ pc = "prove" /\ UNCHANGED <<db, wal, routing, acked, saved, record>>
        /\ disk' = disk \/ disk' = [disk EXCEPT !.db = db]
      BY <1>14 DEF ProveDatabase
  <2>3. \/ disk' = [disk EXCEPT !.db = db] /\ me.rollback /\ pc' = "rollback_restart" /\ me' = me
        \/ disk' = [disk EXCEPT !.db = db] /\ ~me.rollback /\ pc' = "note_restored"
           /\ me' = [me EXCEPT !.replaced = TRUE]
        \/ Failed("recovery", me)
      BY <1>14, <1>a, FailEnds DEF ProveDatabase
  <2>4. /\ me' \in ContextType /\ me'.pre = me.pre
        /\ me'.stop_attempted = me.stop_attempted /\ me'.stopped = me.stopped
        /\ me'.restart_attempted = me.restart_attempted /\ me'.running = me.running
        /\ me'.attempted = me.attempted /\ me'.exposed = me.exposed /\ me'.rollback = me.rollback
        /\ \/ disk' = [disk EXCEPT !.db = db] /\ me.rollback /\ pc' = "rollback_restart"
              /\ me'.replaced = me.replaced
           \/ disk' = [disk EXCEPT !.db = db] /\ ~me.rollback /\ pc' = "note_restored"
              /\ me'.replaced
           \/ pc' = "finish" /\ me'.outcome = "recovery_required"
    <3>1. CASE Failed("recovery", me)
        BY <3>1 DEF Failed
    <3>2. CASE me' = [me EXCEPT !.replaced = TRUE] /\ ~me.rollback /\ pc' = "note_restored"
               /\ disk' = [disk EXCEPT !.db = db]
        BY <3>2, <2>1, <1>a DEF ContextType
    <3> QED
        BY <2>3, <3>1, <3>2, <1>a
  <2>5. Types'
      BY <2>2, <2>4, <1>a
  <2>6. Context'
      BY <2>2, <2>4, <1>a
  <2>7. OriginalKept'
      BY <2>2, <2>4, <1>a
  <2>8. Running'
      BY <2>2, <2>4, <1>a
  <2>9. Blocked'
      BY <2>2, <2>4, <1>a
  <2>10. Logs'
      BY <2>2, <2>4, <1>a
  <2>11. Saved'
      BY <2>2, <2>4, <1>a
  <2>12. Recorded'
      BY <2>2, <2>4, <1>a
  <2> QED
      BY <2>5, <2>6, <2>7, <2>8, <2>9, <2>10, <2>11, <2>12 DEF IInv
<1>15. ASSUME RestartSelected PROVE IInv'
  <2>1. pc = "restart" /\ UNCHANGED <<files, target, maintenance, acked, saved, record>>
      BY <1>15 DEF RestartSelected
  <2>2. [me EXCEPT !.restart_attempted = TRUE] \in ContextType
      BY <1>a DEF ContextType
  <2>3. \/ /\ Restart("selected") /\ pc' = "note_restarted"
           /\ me' = [me EXCEPT !.restart_attempted = TRUE, !.running = TRUE]
        \/ /\ Restart("selected") \/ UNCHANGED app
           /\ Failed("raw", [me EXCEPT !.restart_attempted = TRUE])
      BY <1>15, <2>2, <1>a, FailEnds DEF RestartSelected, ContextType
  <2>4. /\ me' \in ContextType /\ me'.pre = me.pre /\ me'.replaced = me.replaced
        /\ me'.stop_attempted = me.stop_attempted /\ me'.stopped = me.stopped
        /\ me'.rollback = me.rollback /\ me'.attempted = me.attempted /\ me'.exposed = me.exposed
        /\ \/ pc' = "note_restarted" /\ me'.restart_attempted /\ me'.running
              /\ app'["selected"] = "running"
           \/ pc' = "finish" /\ me'.outcome = "recovery_required"
    <3>1. me \in ContextType /\ ~me.running /\ ~me.rollback
        BY <2>1, <1>a
    <3>2. CASE Failed("raw", [me EXCEPT !.restart_attempted = TRUE])
        BY <2>2, <3>1, <3>2 DEF Failed, ContextType
    <3>3. CASE /\ Restart("selected") /\ pc' = "note_restarted"
               /\ me' = [me EXCEPT !.restart_attempted = TRUE, !.running = TRUE]
      <4>1. app'["selected"] = "running"
          BY <3>3, <1>a DEF Restart
      <4> QED
          BY <3>1, <3>3, <4>1 DEF ContextType
    <3> QED
        BY <2>3, <3>2, <3>3
  <2>5. app' \in [Releases -> {"running", "stopped"}] /\ app'["current"] = app["current"]
      BY <2>3, <1>a DEF Restart
  <2>6. Types'
      BY <2>1, <2>4, <2>5, <1>a
  <2>7. Context'
      BY <2>1, <2>4, <2>5, <1>a
  <2>8. OriginalKept'
      BY <2>1, <2>4, <2>5, <1>a
  <2>9. Running'
      BY <2>1, <2>4, <2>5, <1>a
  <2>10. Blocked'
      BY <2>1, <2>4, <2>5, <1>a
  <2>11. Logs'
      BY <2>1, <2>4, <2>5, <1>a
  <2>12. Saved'
      BY <2>1, <2>4, <2>5, <1>a
  <2>13. Recorded'
      BY <2>1, <2>4, <2>5, <1>a
  <2> QED
      BY <2>6, <2>7, <2>8, <2>9, <2>10, <2>11, <2>12, <2>13 DEF IInv
<1>16. ASSUME CheckSelected PROVE IInv'
  <2>1. Types'
      BY <1>16, FailEnds, <1>a DEF CheckSelected, Failed, Healthy, Live
  <2>2. Context'
      BY <1>16, FailEnds, <1>a DEF CheckSelected, Failed, Healthy, Live
  <2>3. OriginalKept'
      BY <1>16, FailEnds, <1>a DEF CheckSelected, Failed, Healthy, Live
  <2>4. Running'
      BY <1>16, FailEnds, <1>a DEF CheckSelected, Failed, Healthy, Live
  <2>5. Blocked'
      BY <1>16, FailEnds, <1>a DEF CheckSelected, Failed, Healthy, Live
  <2>6. Logs'
      BY <1>16, FailEnds, <1>a DEF CheckSelected, Failed, Healthy, Live
  <2>7. Saved'
      BY <1>16, FailEnds, <1>a DEF CheckSelected, Failed, Healthy, Live
  <2>8. Recorded'
      BY <1>16, FailEnds, <1>a DEF CheckSelected, Failed, Healthy, Live
  <2> QED
      BY <2>1, <2>2, <2>3, <2>4, <2>5, <2>6, <2>7, <2>8 DEF IInv
<1>17. ASSUME ActivateOld PROVE IInv'
  <2>1. pc = "route" /\ target = "current"
        /\ UNCHANGED <<files, app, maintenance, acked, saved, record, crashes>>
      BY <1>17, <1>a DEF ActivateOld
  <2>2. [me EXCEPT !.attempted = FALSE] \in ContextType
      BY <1>a, ZenonT(30) DEF ContextType
  <2>3. \/ target' = "selected" /\ pc' = "record_routed" /\ me' = me
        \/ UNCHANGED target /\ Failed("failed", [me EXCEPT !.attempted = FALSE])
        \/ target' \in Releases /\ Failed("failed", me)
      BY <1>17, <1>a, <2>2, FailEnds DEF ActivateOld
  <2>4. /\ me' \in ContextType /\ me'.pre = me.pre /\ me'.replaced = me.replaced
        /\ me'.stop_attempted = me.stop_attempted /\ me'.stopped = me.stopped
        /\ me'.restart_attempted = me.restart_attempted /\ me'.running = me.running
        /\ me'.exposed = me.exposed
        /\ \/ target' = "selected" /\ pc' = "record_routed" /\ me' = me
           \/ target' \in Releases /\ pc' = "finish" /\ me'.outcome = "recovery_required"
           \/ UNCHANGED target /\ pc' = "rollback_stop" /\ me'.rollback /\ ~me'.attempted
              /\ ~me'.exposed
    <3>1. me \in ContextType /\ me.attempted
        BY <1>a, <2>1
    <3>2. CASE Failed("failed", [me EXCEPT !.attempted = FALSE]) /\ UNCHANGED target
        BY <3>1, <3>2, <1>a DEF Failed, ContextType
    <3> QED
        BY <3>1, <3>2, <2>3, <1>a DEF Failed
  <2>5. Types'
      BY <2>1, <2>4, <1>a
  <2>6. Context'
      BY <2>1, <2>4, <1>a
  <2>7. OriginalKept'
      BY <2>1, <2>4, <1>a
  <2>8. Running'
      BY <2>1, <2>4, <1>a
  <2>9. Blocked'
      BY <2>1, <2>4, <1>a
  <2>10. Logs'
      BY <2>1, <2>4, <1>a
  <2>11. Saved'
      BY <2>1, <2>4, <1>a
  <2>12. Recorded'
      BY <2>1, <2>4, <1>a
  <2> QED
      BY <2>5, <2>6, <2>7, <2>8, <2>9, <2>10, <2>11, <2>12 DEF IInv
<1>18. ASSUME DisableMaintenance PROVE IInv'
  <2>1. maintenance' \in BOOLEAN
      BY <1>18, <1>a DEF DisableMaintenance
  <2>2. me' = me \/ Failed("recovery", me)
      BY <1>18, <1>a, FailEnds DEF DisableMaintenance
  <2>3. me' \in ContextType /\ pc' \in Places
      BY <1>18, <2>2, <1>a, FailEnds DEF DisableMaintenance, Failed
  <2>4. UNCHANGED <<files, app, target, acked, saved, record>>
      BY <1>18 DEF DisableMaintenance
  <2>5. Types'
      BY <2>1, <2>3, <2>4, <1>a
  <2>6. Context'
      BY <1>18, <2>1, <2>2, <2>3, FailEnds, <1>a DEF DisableMaintenance, Failed
  <2>7. OriginalKept'
      BY <1>18, <2>1, <2>2, <2>3, FailEnds, <1>a DEF DisableMaintenance, Failed
  <2>8. Running'
      BY <1>18, <2>1, <2>2, <2>3, FailEnds, <1>a DEF DisableMaintenance, Failed
  <2>9. Blocked'
      BY <1>18, <2>1, <2>2, <2>3, FailEnds, <1>a DEF DisableMaintenance, Failed
  <2>10. Logs'
      BY <1>18, <2>1, <2>2, <2>3, FailEnds, <1>a DEF DisableMaintenance, Failed
  <2>11. Saved'
      BY <1>18, <2>1, <2>2, <2>3, FailEnds, <1>a DEF DisableMaintenance, Failed
  <2>12. Recorded'
      BY <1>18, <2>1, <2>2, <2>3, FailEnds, <1>a DEF DisableMaintenance, Failed
  <2> QED
      BY <2>5, <2>6, <2>7, <2>8, <2>9, <2>10, <2>11, <2>12 DEF IInv
<1>19. ASSUME ActivateRelease PROVE IInv'
  <2>1. Types'
      BY <1>19, FailEnds, <1>a DEF ActivateRelease, Failed
  <2>2. Context'
      BY <1>19, FailEnds, <1>a DEF ActivateRelease, Failed
  <2>3. OriginalKept'
      BY <1>19, FailEnds, <1>a DEF ActivateRelease, Failed
  <2>4. Running'
      BY <1>19, FailEnds, <1>a DEF ActivateRelease, Failed
  <2>5. Blocked'
      BY <1>19, FailEnds, <1>a DEF ActivateRelease, Failed
  <2>6. Logs'
      BY <1>19, FailEnds, <1>a DEF ActivateRelease, Failed
  <2>7. Saved'
      BY <1>19, FailEnds, <1>a DEF ActivateRelease, Failed
  <2>8. Recorded'
      BY <1>19, FailEnds, <1>a DEF ActivateRelease, Failed
  <2> QED
      BY <2>1, <2>2, <2>3, <2>4, <2>5, <2>6, <2>7, <2>8 DEF IInv
<1>20. ASSUME Succeed PROVE IInv'
  <2>1. pc = "succeed" /\ UNCHANGED <<files, routing, acked, saved, active>>
      BY <1>20 DEF Succeed
  <2>2. /\ op' \in OpType
        /\ \/ /\ op'.status = "succeeded" /\ op'.stage = "manual_restore_completed"
           \/ op'.status = op.status /\ op'.stage = op.stage
    <3>1. CASE op' = [op EXCEPT !.status = "succeeded", !.stage = "manual_restore_completed",
                                !.changed = TRUE]
        BY <3>1, <1>a
    <3>2. CASE op' = [op EXCEPT !.torn = TRUE]
        BY <3>2, <1>a
    <3> QED
        BY <1>20, <3>1, <3>2, <1>a DEF Succeed, RecordFails
  <2>3. \/ pc' = "unlock" /\ me' = me
        \/ Failed("recovery", me)
      BY <1>20, <1>a, FailEnds DEF Succeed
  <2>4. Types'
      BY <2>1, <2>2, <2>3, <1>a DEF Failed
  <2>5. Context'
      BY <2>1, <2>2, <2>3, <1>a DEF Failed
  <2>6. OriginalKept'
      BY <2>1, <2>2, <2>3, <1>a DEF Failed
  <2>7. Running'
      BY <2>1, <2>2, <2>3, <1>a DEF Failed
  <2>8. Blocked'
      BY <2>1, <2>2, <2>3, <1>a DEF Failed
  <2>9. Logs'
      BY <2>1, <2>2, <2>3, <1>a DEF Failed
  <2>10. Saved'
      BY <2>1, <2>2, <2>3, <1>a DEF Failed
  <2>11. Recorded'
      BY <2>1, <2>2, <2>3, <1>a DEF Failed
  <2> QED
      BY <2>4, <2>5, <2>6, <2>7, <2>8, <2>9, <2>10, <2>11 DEF IInv
<1>21. ASSUME RollbackStop PROVE IInv'
  <2>1. pc = "rollback_stop" /\ UNCHANGED <<target, maintenance, acked, saved, record>>
      BY <1>21 DEF RollbackStop
  <2>2. /\ me' \in ContextType /\ me'.pre = me.pre /\ me'.replaced = me.replaced
        /\ me'.stop_attempted = me.stop_attempted /\ me'.stopped = me.stopped
        /\ me'.rollback = me.rollback /\ me'.attempted = me.attempted /\ me'.exposed = me.exposed
        /\ \/ /\ pc' = IF me.replaced THEN "stage" ELSE "rollback_restart"
              /\ ~me'.running
              /\ \/ ~me.running /\ UNCHANGED <<app, files>>
                 \/ me.running /\ Leaves("selected")
           \/ /\ pc' = "finish" /\ me'.outcome = "recovery_required"
              /\ UNCHANGED <<app, files>> \/ (me.running /\ Leaves("selected"))
    <3>1. me \in ContextType /\ me.rollback
        BY <2>1, <1>a
    <3>2. CASE me.running /\ Leaves("selected") /\ me' = [me EXCEPT !.running = FALSE]
               /\ pc' = IF me.replaced THEN "stage" ELSE "rollback_restart"
        BY <3>1, <3>2 DEF ContextType
    <3>3. CASE me.running /\ (Leaves("selected") \/ UNCHANGED <<app, files>>)
               /\ Failed("raw", me)
        BY <3>1, <3>3 DEF Failed
    <3> QED
        BY <1>21, <3>1, <3>2, <3>3, FailEnds DEF RollbackStop
  <2>3. Types'
      BY <2>1, <2>2, LeavesKeeps, <1>a
  <2>4. Context'
      BY <2>1, <2>2, LeavesKeeps, <1>a
  <2>5. OriginalKept'
      BY <2>1, <2>2, LeavesKeeps, <1>a
  <2>6. Running'
      BY <2>1, <2>2, LeavesKeeps, <1>a
  <2>7. Blocked'
      BY <2>1, <2>2, LeavesKeeps, <1>a
  <2>8. Logs'
      BY <2>1, <2>2, LeavesKeeps, <1>a
  <2>9. Saved'
      BY <2>1, <2>2, LeavesKeeps, <1>a
  <2>10. Recorded'
      BY <2>1, <2>2, LeavesKeeps, <1>a
  <2> QED
      BY <2>3, <2>4, <2>5, <2>6, <2>7, <2>8, <2>9, <2>10 DEF IInv
<1>22. ASSUME RollbackRestart PROVE IInv'
  <2>1. Types'
      BY <1>22, FailEnds, <1>a DEF RollbackRestart, Failed, Restart
  <2>2. Context'
      BY <1>22, FailEnds, <1>a DEF RollbackRestart, Failed, Restart
  <2>3. OriginalKept'
      BY <1>22, FailEnds, <1>a DEF RollbackRestart, Failed, Restart
  <2>4. Running'
      BY <1>22, FailEnds, <1>a DEF RollbackRestart, Failed, Restart
  <2>5. Blocked'
      BY <1>22, FailEnds, <1>a DEF RollbackRestart, Failed, Restart
  <2>6. Logs'
      BY <1>22, FailEnds, <1>a DEF RollbackRestart, Failed, Restart
  <2>7. Saved'
      BY <1>22, FailEnds, <1>a DEF RollbackRestart, Failed, Restart
  <2>8. Recorded'
      BY <1>22, FailEnds, <1>a DEF RollbackRestart, Failed, Restart
  <2> QED
      BY <2>1, <2>2, <2>3, <2>4, <2>5, <2>6, <2>7, <2>8 DEF IInv
<1>23. ASSUME RollbackRoute PROVE IInv'
  <2>1. Types'
      BY <1>23, FailEnds, <1>a DEF RollbackRoute, Failed
  <2>2. Context'
      BY <1>23, FailEnds, <1>a DEF RollbackRoute, Failed
  <2>3. OriginalKept'
      BY <1>23, FailEnds, <1>a DEF RollbackRoute, Failed
  <2>4. Running'
      BY <1>23, FailEnds, <1>a DEF RollbackRoute, Failed
  <2>5. Blocked'
      BY <1>23, FailEnds, <1>a DEF RollbackRoute, Failed
  <2>6. Logs'
      BY <1>23, FailEnds, <1>a DEF RollbackRoute, Failed
  <2>7. Saved'
      BY <1>23, FailEnds, <1>a DEF RollbackRoute, Failed
  <2>8. Recorded'
      BY <1>23, FailEnds, <1>a DEF RollbackRoute, Failed
  <2> QED
      BY <2>1, <2>2, <2>3, <2>4, <2>5, <2>6, <2>7, <2>8 DEF IInv
<1>24. ASSUME RollbackReopen PROVE IInv'
  <2>1. pc = "rollback_reopen" /\ me.rollback
        /\ UNCHANGED <<files, app, target, acked, saved, record>>
      BY <1>24, <1>a DEF RollbackReopen
  <2>2. maintenance' \in BOOLEAN /\ (pc' = "rollback_check" => maintenance' = FALSE)
    <3>1. maintenance' \in BOOLEAN
        BY <1>24, <1>a DEF RollbackReopen
    <3>2. pc' = "rollback_check" => maintenance' = FALSE
        BY <1>24, <2>1 DEF RollbackReopen, Fail, Finish
    <3> QED
        BY <3>1, <3>2
  <2>3. \/ me' = me /\ pc' = "rollback_check"
        \/ pc' = "finish" /\ me'.outcome = "recovery_required" /\ me' \in ContextType
           /\ me'.pre = me.pre
      BY <1>24, <1>a, FailEnds DEF RollbackReopen, Failed
  <2>4. Types'
      BY <2>1, <2>2, <2>3, <1>a
  <2>5. Context'
      BY <2>1, <2>2, <2>3, <1>a
  <2>6. OriginalKept'
      BY <2>1, <2>2, <2>3, <1>a
  <2>7. Running'
      BY <2>1, <2>2, <2>3, <1>a
  <2>8. Blocked'
      BY <2>1, <2>2, <2>3, <1>a
  <2>9. Logs'
      BY <2>1, <2>2, <2>3, <1>a
  <2>10. Saved'
      BY <2>1, <2>2, <2>3, <1>a
  <2>11. Recorded'
      BY <2>1, <2>2, <2>3, <1>a
  <2> QED
      BY <2>4, <2>5, <2>6, <2>7, <2>8, <2>9, <2>10, <2>11 DEF IInv
<1>25. ASSUME RollbackCheck PROVE IInv'
  <2>1. pc = "rollback_check" /\ me.rollback /\ UNCHANGED <<files, routing, acked, saved, record>>
      BY <1>25, <1>a DEF RollbackCheck
  <2>2. [me EXCEPT !.outcome = "failed_safe", !.changed = me.replaced] \in ContextType
      BY <1>a DEF ContextType
  <2>3. \/ /\ pc' = "finish" /\ app["current"] = "running"
           /\ me' = [me EXCEPT !.outcome = "failed_safe", !.changed = me.replaced]
        \/ Failed("raw", me)
      BY <1>25, <1>a, FailEnds DEF RollbackCheck, Finish, Healthy
  <2>4. /\ me' \in ContextType /\ me'.pre = me.pre /\ pc' = "finish"
        /\ \/ me'.outcome = "failed_safe" /\ app["current"] = "running"
           \/ me'.outcome = "recovery_required"
    <3>1. CASE Failed("raw", me)
        BY <3>1, <2>1 DEF Failed
    <3>2. CASE /\ pc' = "finish" /\ app["current"] = "running"
               /\ me' = [me EXCEPT !.outcome = "failed_safe", !.changed = me.replaced]
        BY <3>2, <2>2, <1>a DEF ContextType
    <3> QED
        BY <2>3, <3>1, <3>2
  <2>5. Types'
      BY <2>1, <2>4, <1>a
  <2>6. Context'
      BY <2>1, <2>4, <1>a
  <2>7. OriginalKept'
      BY <2>1, <2>4, <1>a
  <2>8. Running'
      BY <2>1, <2>4, <1>a
  <2>9. Blocked'
      BY <2>1, <2>4, <1>a
  <2>10. Logs'
      BY <2>1, <2>4, <1>a
  <2>11. Saved'
      BY <2>1, <2>4, <1>a
  <2>12. Recorded'
      BY <2>1, <2>4, <1>a
  <2> QED
      BY <2>5, <2>6, <2>7, <2>8, <2>9, <2>10, <2>11, <2>12 DEF IInv
<1>26. ASSUME FinishRestoreFailure PROVE IInv'
  <2>1. pc \in {"finish", "finish_again"} /\ UNCHANGED <<files, routing, acked, saved, active>>
      BY <1>26 DEF FinishRestoreFailure
  <2>2. me.outcome \in Outcomes /\ me.changed \in BOOLEAN /\ me \in ContextType
      BY <1>a DEF ContextType
  <2>3. /\ op' \in OpType
        /\ \/ op'.status = op.status /\ op'.stage = op.stage
           \/ op'.status = me.outcome /\ op'.stage = me.outcome
    <3>1. CASE op' = [op EXCEPT !.status = me.outcome, !.stage = me.outcome, !.changed = me.changed]
        BY <2>2, <3>1, <1>a
    <3>2. CASE op' = [op EXCEPT !.torn = TRUE]
        BY <3>2, <1>a
    <3> QED
        BY <1>26, <3>1, <3>2, <1>a DEF FinishRestoreFailure, RecordFails
  <2>4. /\ me' \in ContextType /\ me'.pre = me.pre
        /\ pc' \in {"finish_again", "unlock"}
        /\ pc' = "finish_again" => me'.outcome = "recovery_required"
    <3>1. CASE me' = me /\ pc' = "unlock"
        BY <2>2, <3>1
    <3>2. CASE /\ me' = [me EXCEPT !.outcome = "recovery_required", !.changed = TRUE]
               /\ pc' \in {"finish_again", "unlock"}
        BY <2>2, <3>2 DEF ContextType
    <3> QED
        BY <1>26, <3>1, <3>2 DEF FinishRestoreFailure
  <2>5. Types'
      BY <2>1, <2>2, <2>3, <2>4, <1>a
  <2>6. Context'
      BY <2>1, <2>2, <2>3, <2>4, <1>a
  <2>7. OriginalKept'
      BY <2>1, <2>2, <2>3, <2>4, <1>a
  <2>8. Running'
      BY <2>1, <2>2, <2>3, <2>4, <1>a
  <2>9. Blocked'
      BY <2>1, <2>2, <2>3, <2>4, <1>a
  <2>10. Logs'
      BY <2>1, <2>2, <2>3, <2>4, <1>a
  <2>11. Saved'
      BY <2>1, <2>2, <2>3, <2>4, <1>a
  <2>12. Recorded'
      BY <2>1, <2>2, <2>3, <2>4, <1>a
  <2> QED
      BY <2>5, <2>6, <2>7, <2>8, <2>9, <2>10, <2>11, <2>12 DEF IInv
<1>27. ASSUME Unlock PROVE IInv'
  <2>1. NoContext \in ContextType
      BY DEF NoContext, ContextType
  <2>2. Types'
      BY <1>27, <2>1, <1>a DEF Unlock, NoContext
  <2>3. Context'
      BY <1>27, <2>1, <1>a DEF Unlock, NoContext
  <2>4. OriginalKept'
      BY <1>27, <2>1, <1>a DEF Unlock, NoContext
  <2>5. Running'
      BY <1>27, <2>1, <1>a DEF Unlock, NoContext
  <2>6. Blocked'
      BY <1>27, <2>1, <1>a DEF Unlock, NoContext
  <2>7. Logs'
      BY <1>27, <2>1, <1>a DEF Unlock, NoContext
  <2>8. Saved'
      BY <1>27, <2>1, <1>a DEF Unlock, NoContext
  <2>9. Recorded'
      BY <1>27, <2>1, <1>a DEF Unlock, NoContext
  <2> QED
      BY <2>2, <2>3, <2>4, <2>5, <2>6, <2>7, <2>8, <2>9 DEF IInv
<1>28. ASSUME NEW w \in Writes, UserWrite(w) PROVE IInv'
  <2>1. Types'
      BY <1>28, <1>a DEF UserWrite
  <2>2. Context'
      BY <1>28, <1>a DEF UserWrite
  <2>3. OriginalKept'
      BY <1>28, <1>a DEF UserWrite
  <2>4. Running'
      BY <1>28, <1>a DEF UserWrite
  <2>5. Blocked'
      BY <1>28, <1>a DEF UserWrite
  <2>6. Logs'
      BY <1>28, <1>a DEF UserWrite
  <2>7. Saved'
      BY <1>28, <1>a DEF UserWrite
  <2>8. Recorded'
      BY <1>28, <1>a DEF UserWrite
  <2> QED
      BY <2>1, <2>2, <2>3, <2>4, <2>5, <2>6, <2>7, <2>8 DEF IInv
<1>29. ASSUME OwnWrite PROVE IInv'
  <2>1. Types'
      BY <1>29, <1>a DEF OwnWrite
  <2>2. Context'
      BY <1>29, <1>a DEF OwnWrite
  <2>3. OriginalKept'
      BY <1>29, <1>a DEF OwnWrite
  <2>4. Running'
      BY <1>29, <1>a DEF OwnWrite
  <2>5. Blocked'
      BY <1>29, <1>a DEF OwnWrite
  <2>6. Logs'
      BY <1>29, <1>a DEF OwnWrite
  <2>7. Saved'
      BY <1>29, <1>a DEF OwnWrite
  <2>8. Recorded'
      BY <1>29, <1>a DEF OwnWrite
  <2> QED
      BY <2>1, <2>2, <2>3, <2>4, <2>5, <2>6, <2>7, <2>8 DEF IInv
<1>30. ASSUME Kill PROVE IInv'
  <2>1. NoContext \in ContextType
      BY DEF NoContext, ContextType
  <2>2. Types'
      BY <1>30, <2>1, <1>a DEF Kill, NoContext
  <2>3. Context'
      BY <1>30, <2>1, <1>a DEF Kill, NoContext
  <2>4. OriginalKept'
      BY <1>30, <2>1, <1>a DEF Kill, NoContext
  <2>5. Running'
      BY <1>30, <2>1, <1>a DEF Kill, NoContext
  <2>6. Blocked'
      BY <1>30, <2>1, <1>a DEF Kill, NoContext
  <2>7. Logs'
      BY <1>30, <2>1, <1>a DEF Kill, NoContext
  <2>8. Saved'
      BY <1>30, <2>1, <1>a DEF Kill, NoContext
  <2>9. Recorded'
      BY <1>30, <2>1, <1>a DEF Kill, NoContext
  <2> QED
      BY <2>2, <2>3, <2>4, <2>5, <2>6, <2>7, <2>8, <2>9 DEF IInv
<1>31. ASSUME Interrupt PROVE IInv'
  <2>1. NoContext \in ContextType
      BY DEF NoContext, ContextType
  <2>2. Types'
      BY <1>31, <2>1, <1>a DEF Interrupt, NoContext
  <2>3. Context'
      BY <1>31, <2>1, <1>a DEF Interrupt, NoContext
  <2>4. OriginalKept'
      BY <1>31, <2>1, <1>a DEF Interrupt, NoContext
  <2>5. Running'
      BY <1>31, <2>1, <1>a DEF Interrupt, NoContext
  <2>6. Blocked'
      BY <1>31, <2>1, <1>a DEF Interrupt, NoContext
  <2>7. Logs'
      BY <1>31, <2>1, <1>a DEF Interrupt, NoContext
  <2>8. Saved'
      BY <1>31, <2>1, <1>a DEF Interrupt, NoContext
  <2>9. Recorded'
      BY <1>31, <2>1, <1>a DEF Interrupt, NoContext
  <2> QED
      BY <2>2, <2>3, <2>4, <2>5, <2>6, <2>7, <2>8, <2>9 DEF IInv
<1>32. ASSUME PowerLoss PROVE IInv'
  <2>1. NoContext \in ContextType
      BY DEF NoContext, ContextType
  <2>2. Types'
      BY <1>32, <2>1, <1>a DEF PowerLoss, NoContext
  <2>3. Context'
      BY <1>32, <2>1, <1>a DEF PowerLoss, NoContext
  <2>4. OriginalKept'
      BY <1>32, <2>1, <1>a DEF PowerLoss, NoContext
  <2>5. Running'
      BY <1>32, <2>1, <1>a DEF PowerLoss, NoContext
  <2>6. Blocked'
      BY <1>32, <2>1, <1>a DEF PowerLoss, NoContext
  <2>7. Logs'
      BY <1>32, <2>1, <1>a DEF PowerLoss, NoContext
  <2>8. Saved'
      BY <1>32, <2>1, <1>a DEF PowerLoss, NoContext
  <2>9. Recorded'
      BY <1>32, <2>1, <1>a DEF PowerLoss, NoContext
  <2> QED
      BY <2>2, <2>3, <2>4, <2>5, <2>6, <2>7, <2>8, <2>9 DEF IInv
<1>33. ASSUME UNCHANGED vars PROVE IInv'
  <2>1. Types'
      BY <1>33, <1>a DEF vars
  <2>2. Context'
      BY <1>33, <1>a DEF vars
  <2>3. OriginalKept'
      BY <1>33, <1>a DEF vars
  <2>4. Running'
      BY <1>33, <1>a DEF vars
  <2>5. Blocked'
      BY <1>33, <1>a DEF vars
  <2>6. Logs'
      BY <1>33, <1>a DEF vars
  <2>7. Saved'
      BY <1>33, <1>a DEF vars
  <2>8. Recorded'
      BY <1>33, <1>a DEF vars
  <2> QED
      BY <2>1, <2>2, <2>3, <2>4, <2>5, <2>6, <2>7, <2>8 DEF IInv
<1> QED
    BY <1>1, <1>2, <1>3, <1>4, <1>5, <1>6, <1>7, <1>8, <1>9, <1>10, <1>11, <1>12, <1>13,
       <1>14, <1>15, <1>16, <1>17, <1>18, <1>19, <1>20, <1>21, <1>22, <1>23, <1>24,
       <1>25, <1>26, <1>27, <1>28, <1>29, <1>30, <1>31, <1>32, <1>33 DEF Next,
       CommandStep, Environment

(* A restore starts from an untouched installation.                        *)
LEMMA InitInvariant == Init => IInv
<1> SUFFICES ASSUME Init PROVE IInv
    OBVIOUS
<1>1. NoContext \in ContextType
    BY DEF NoContext, ContextType, Outcomes
<1> USE <1>1, RestoreAssumption, OwnAssumption DEF Init, NoOperation, NoLog, Content,
   Releases, Outcomes, Ending
<1>2. Types
  <2>1. op \in OpType
      BY DEF OpType, Stages
  <2> QED
      BY <2>1 DEF Types, Places
<1>3. Context
    BY DEF Context, BeforeStop, Exposing
<1>4. Intact /\ Original
    BY DEF Original, Intact, Kept
<1>5. OriginalKept
    BY <1>4 DEF OriginalKept, BeforeStop, Stopped, Prepared, RollingBack, Early
<1>6. Running
    BY <1>4 DEF Running, Restored, Checking, Exposing
<1>7. Blocked
    BY DEF Blocked, BeforeStop, Stopped, Prepared, RollingBack, Swapping, Restored, Checking,
       Exposing
<1>8. Logs
    BY DEF Logs, Exposure
<1>9. Saved
    BY DEF Saved, NoContext, Prepared, Swapping, Restored, Checking
<1>10. Recorded
    BY DEF Recorded, Swapping, Restored, Checking, Exposing
<1> QED
    BY <1>2, <1>3, <1>5, <1>6, <1>7, <1>8, <1>9, <1>10 DEF IInv

(* The invariant of the restore.                                           *)
THEOREM Invariant == Spec => []IInv
BY InitInvariant, NextInvariant, PTL DEF Spec

------------------------------------------------------------------------------
(* Safety.                                                                  *)

(* SQLite never applies a log of another database to the current one:      *)
(* _remove_sqlite_sidecars and its sync come before os.replace.            *)
THEOREM LogsBelong == Spec => []LogBelongsToDatabase
<1>1. IInv => LogBelongsToDatabase
    BY DEF IInv, Logs, LogBelongsToDatabase
<1> QED
    BY <1>1, Invariant, PTL

(* What a reader of the database sees, on the states of the invariant.     *)
LEMMA LiveContent ==
    ASSUME IInv PROVE Live.base = db.base /\ Live.writes = db.writes \cup wal.writes
  BY LiveIs DEF IInv, Types, Logs

(* No failure and no crash loses an acknowledged write: it is in the       *)
(* database or in a PRE_RESTORE backup.                                    *)
THEOREM WritesKept == Spec => []NoWriteDiscarded
<1>1. IInv => NoWriteDiscarded
    BY LiveContent DEF IInv, Saved, NoWriteDiscarded
<1> QED
    BY <1>1, Invariant, PTL

(* An operation of an early stage finds the original database complete,    *)
(* when the swap does not fail once the log is removed.                    *)
THEOREM EvidenceFirst == ASSUME ~SwapFaults PROVE Spec => []EvidenceBeforeReplacement
<1>1. IInv => EvidenceBeforeReplacement
    BY LiveContent DEF IInv, OriginalKept, Intact, Kept, EvidenceBeforeReplacement
<1> QED
    BY <1>1, Invariant, PTL

(* Only the replacement, and a power loss that undoes one, change whose    *)
(* database is in place.                                                   *)
LEMMA BaseChanges ==
    ASSUME IInv, [Next]_vars, db'.base # db.base
    PROVE  \/ pc = "replace" /\ UNCHANGED <<app, op>>
           \/ disk.db.base # db.base /\ UNCHANGED op /\ app' = [r \in Releases |-> "stopped"]
<1> USE DEF files
<1>1. ~UNCHANGED db
    OBVIOUS
<1>2. ReplaceDatabase \/ StopCurrent \/ RollbackStop \/ PowerLoss
    BY <1>1 DEF Next, CommandStep, Environment, vars, StartRestore, RecordOwner,
       OpenSelectedBackup, InspectApplications, EnableMaintenance, UndoMaintenance, Transition,
       BackupCurrent, StageBackup, RemoveSqliteSidecars, SyncSidecars, ProveDatabase,
       RestartSelected, CheckSelected, ActivateOld, DisableMaintenance, ActivateRelease, Succeed,
       RollbackRestart, RollbackRoute, RollbackReopen, RollbackCheck, FinishRestoreFailure,
       Unlock, UserWrite, OwnWrite, Kill, Interrupt
<1>3. ASSUME NEW r \in Releases, Leaves(r) PROVE FALSE
  <2>1. db'.base = db.base
      BY <1>3, LeavesKeeps DEF IInv
  <2> QED
      BY <2>1
<1>4. CASE StopCurrent
    BY <1>1, <1>3, <1>4 DEF StopCurrent, Releases
<1>5. CASE RollbackStop
    BY <1>1, <1>3, <1>5 DEF RollbackStop, Releases
<1>6. CASE ReplaceDatabase
    BY <1>6 DEF ReplaceDatabase, routing, record
<1>7. CASE PowerLoss
    BY <1>7 DEF PowerLoss, record
<1> QED
    BY <1>2, <1>4, <1>5, <1>6, <1>7

(* Nothing replaces the database under a running application, whatever     *)
(* stop or start remained unproven.                                        *)
THEOREM ReplacedOnlyQuiet == Spec => QuiescedReplacement
<1>1. ASSUME IInv, [Next]_vars, db'.base # db.base, NEW r \in Releases
      PROVE  app[r] = "stopped" \/ app'[r] = "stopped"
  <2>1. pc = "replace" => \A x \in Releases : app[x] = "stopped"
    <3>1. pc = "replace" => me.stopped /\ ~me.running
        BY <1>1 DEF IInv, Types, Context, Releases, Ending, RollingBack, Checking, Exposing,
           Restored, BeforeStop, Swapping
    <3> QED
        BY <1>1, <3>1 DEF IInv, Types, Running, Releases, Ending, RollingBack
  <2> QED
      BY <1>1, <2>1, BaseChanges
<1>2. IInv /\ [Next]_vars =>
        [db'.base # db.base => \A r \in Releases : app[r] = "stopped" \/ app'[r] = "stopped"]_vars
    BY <1>1
<1> QED
    BY <1>2, InitInvariant, NextInvariant, PTL DEF Spec, QuiescedReplacement

(* Users who may be on the selected database never find another one.       *)
THEOREM NeverReplacedAgain == Spec => NoReplacementAfterExposure
<1>1. ASSUME IInv, [Next]_vars, op.stage = Exposure PROVE db'.base = db.base
    BY <1>1, BaseChanges DEF IInv, Logs, Recorded, Ending, Exposing
<1>2. IInv /\ [Next]_vars =>
        [op.stage = "manual_restore_maintenance_disable_started" => db'.base = db.base]_vars
    BY <1>1 DEF Exposure
<1> QED
    BY <1>2, InitInvariant, NextInvariant, PTL DEF Spec, NoReplacementAfterExposure

(* Only a start and the two ends of an operation change its status.        *)
LEMMA StatusChanges ==
    ASSUME IInv, [Next]_vars, op'.status # op.status
    PROVE  Succeed \/ FinishRestoreFailure \/ op'.status = "in_progress"
<1> USE DEF record
<1>1. ~UNCHANGED op
    OBVIOUS
<1>2. Transition \/ StartRestore \/ Succeed \/ FinishRestoreFailure
    BY <1>1 DEF Next, CommandStep, Environment, vars, RecordOwner,
       OpenSelectedBackup, InspectApplications, EnableMaintenance, UndoMaintenance, StopCurrent,
       BackupCurrent, StageBackup, RemoveSqliteSidecars, SyncSidecars, ReplaceDatabase,
       ProveDatabase, RestartSelected, CheckSelected, ActivateOld, DisableMaintenance,
       ActivateRelease, RollbackStop, RollbackRestart, RollbackRoute, RollbackReopen,
       RollbackCheck, Unlock, UserWrite, OwnWrite, Kill, Interrupt, PowerLoss
<1>3. CASE Transition
  <2>1. op \in OpType
      BY DEF IInv, Types
  <2>2. \/ op' = op \/ op' = [op EXCEPT !.torn = TRUE]
        \/ \E s, c : op' = [op EXCEPT !.stage = s, !.changed = c]
      BY <1>3 DEF Transition, RecordFails
  <2> QED
      BY <2>1, <2>2 DEF OpType
<1>4. CASE StartRestore
    BY <1>4 DEF StartRestore, NoOperation
<1> QED
    BY <1>2, <1>3, <1>4

(* The terminal record says what is so, when the swap does not fail once   *)
(* the log is removed.                                                     *)
THEOREM OutcomesTrue == ASSUME ~SwapFaults PROVE Spec => OutcomeIsTrue
<1> USE DEF record
<1>1. ASSUME IInv, [Next]_vars, op'.status # op.status, op'.status = "succeeded"
      PROVE  Serves("selected") /\ active = "selected"
  <2>1. CASE Succeed
    <3>1. pc = "succeed"
        BY <2>1 DEF Succeed
    <3>2. me.running
      <4>1. ~me.rollback
          BY <1>1, <3>1 DEF IInv, Context, Ending, Swapping, RollingBack
      <4> QED
          BY <1>1, <3>1, <4>1 DEF IInv, Context, Ending, Exposing
    <3>3. app["selected"] = "running" /\ db.base = "selected"
        BY <1>1, <3>1, <3>2 DEF IInv, Running, Ending
    <3>4. ~maintenance /\ target = "selected" /\ active = "selected"
        BY <1>1, <3>1 DEF IInv, Blocked, Exposing
    <3> QED
        BY <1>1, <3>3, <3>4, LiveContent DEF Serves
  <2>2. CASE FinishRestoreFailure
      BY <1>1, <2>2 DEF FinishRestoreFailure, RecordFails, IInv, Context, Types, OpType
  <2> QED
      BY <1>1, <2>1, <2>2, StatusChanges
<1>2. ASSUME IInv, [Next]_vars, op'.status # op.status, op'.status = "failed_safe", me.rollback
      PROVE  Serves("current") /\ acked \subseteq Live.writes
  <2>1. CASE Succeed
    <3>1. op \in OpType
        BY <1>2 DEF IInv, Types
    <3>2. CASE op' = [op EXCEPT !.torn = TRUE]
        BY <1>2, <3>1, <3>2 DEF OpType
    <3>3. CASE op' = [op EXCEPT !.status = "succeeded", !.stage = "manual_restore_completed",
                                !.changed = TRUE]
        BY <1>2, <3>1, <3>3 DEF OpType
    <3> QED
        BY <1>2, <2>1, <3>2, <3>3 DEF Succeed, RecordFails
  <2>2. CASE FinishRestoreFailure
    <3>1. pc \in {"finish", "finish_again"} /\ me.outcome = "failed_safe"
        BY <1>2, <2>2 DEF FinishRestoreFailure, RecordFails, IInv, Types, OpType
    <3> QED
        BY <1>2, <3>1, LiveContent DEF IInv, OriginalKept, Running, Original, Intact, Kept, Serves
  <2> QED
      BY <1>2, <2>1, <2>2, StatusChanges
<1>3. IInv /\ [Next]_vars =>
        [op'.status # op.status =>
          /\ op'.status = "succeeded" => Serves("selected") /\ active = "selected"
          /\ op'.status = "failed_safe" /\ me.rollback =>
                Serves("current") /\ acked \subseteq Live.writes]_vars
    BY <1>1, <1>2
<1> QED
    BY <1>3, InitInvariant, NextInvariant, PTL DEF Spec, OutcomeIsTrue

(* What the invariant does not need and the type has.                      *)
Rest ==
    /\ nops \in 0..MaxRestores /\ owner \in {"none", "active", "released"}
    /\ me.replaced => me.pre # {}

(* A database is replaced when its backup is at hand, and the backup       *)
(* stays there.                                                            *)
LEMMA RestInvariant == ASSUME IInv, Rest, [Next]_vars PROVE Rest'
<1> USE RestoreAssumption DEF Goto, Works, Fault, record
<1>0. me \in ContextType /\ Context /\ Saved
    BY DEF IInv, Types
<1>1. nops' \in 0..MaxRestores
  <2>1. CASE StartRestore
      BY <2>1 DEF StartRestore, Rest
  <2>2. CASE CommandStep \/ Environment \/ UNCHANGED vars
    <3>1. UNCHANGED nops
        BY <2>2 DEF CommandStep, Environment, vars, RecordOwner, OpenSelectedBackup,
           InspectApplications, EnableMaintenance, UndoMaintenance, Transition, StopCurrent,
           BackupCurrent, StageBackup, RemoveSqliteSidecars, SyncSidecars, ReplaceDatabase,
           ProveDatabase, RestartSelected, CheckSelected, ActivateOld, DisableMaintenance,
           ActivateRelease, Succeed, RollbackStop, RollbackRestart, RollbackRoute,
           RollbackReopen, RollbackCheck, FinishRestoreFailure, Unlock, UserWrite, OwnWrite,
           Kill, Interrupt, PowerLoss
    <3> QED
        BY <3>1 DEF Rest
  <2> QED
      BY <2>1, <2>2 DEF Next
<1>2. owner' \in {"none", "active", "released"}
  <2>1. CASE RecordOwner \/ Unlock \/ Interrupt
      BY <2>1 DEF RecordOwner, Unlock, Interrupt, Rest
  <2>2. CASE ~(RecordOwner \/ Unlock \/ Interrupt)
    <3>1. UNCHANGED owner
        BY <2>2 DEF Next, CommandStep, Environment, vars, StartRestore, OpenSelectedBackup,
           InspectApplications, EnableMaintenance, UndoMaintenance, Transition, StopCurrent,
           BackupCurrent, StageBackup, RemoveSqliteSidecars, SyncSidecars, ReplaceDatabase,
           ProveDatabase, RestartSelected, CheckSelected, ActivateOld, DisableMaintenance,
           ActivateRelease, Succeed, RollbackStop, RollbackRestart, RollbackRoute,
           RollbackReopen, RollbackCheck, FinishRestoreFailure, UserWrite, OwnWrite,
           Kill, PowerLoss
    <3> QED
        BY <3>1 DEF Rest
  <2> QED
      BY <2>1, <2>2
<1>3. me'.replaced => me'.pre # {}
  <2>1. ASSUME NEW error, NEW m \in ContextType, m.replaced = me.replaced, m.pre = me.pre,
               Fail(error, m)
        PROVE  me'.replaced => me'.pre # {}
      BY <2>1, FailEnds DEF Failed, Rest
  <2>2. CASE UNCHANGED me
      BY <2>2 DEF Rest
  <2>3. CASE me' = NoContext
      BY <2>3 DEF NoContext
  <2>4. CASE OpenSelectedBackup \/ InspectApplications \/ StageBackup \/ RemoveSqliteSidecars
             \/ SyncSidecars \/ ReplaceDatabase \/ CheckSelected \/ DisableMaintenance
             \/ ActivateRelease \/ Succeed \/ RollbackRestart \/ RollbackRoute \/ RollbackReopen
             \/ RollbackCheck \/ UndoMaintenance
    <3>1. \/ UNCHANGED me \/ \E error : Fail(error, me)
          \/ \E outcome : Finish(me, outcome)
        BY <2>4 DEF OpenSelectedBackup, InspectApplications, StageBackup, RemoveSqliteSidecars,
           SyncSidecars, ReplaceDatabase, CheckSelected, DisableMaintenance, ActivateRelease,
           Succeed, RollbackRestart, RollbackRoute, RollbackReopen, RollbackCheck,
           UndoMaintenance
    <3>2. ASSUME NEW outcome, Finish(me, outcome) PROVE me'.replaced => me'.pre # {}
        BY <1>0, <3>2 DEF Finish, Rest, ContextType
    <3> QED
        BY <1>0, <2>1, <2>2, <3>1, <3>2
  <2>5. CASE Transition
    <3> DEFINE row == Records[pc]
               m == CASE row.mark = "attempted" -> [me EXCEPT !.attempted = TRUE]
                      [] row.mark = "exposed" -> [me EXCEPT !.exposed = TRUE]
                      [] OTHER -> me
    <3>1. m \in ContextType /\ m.replaced = me.replaced /\ m.pre = me.pre
      <4> HIDE DEF row
      <4> QED
          BY <1>0 DEF ContextType
    <3>2. me' = m \/ Fail("recovery", m)
        BY <2>5 DEF Transition
    <3> HIDE DEF m
    <3> QED
        BY <2>1, <3>1, <3>2 DEF Rest
  <2>6. CASE StopCurrent
    <3>1. [me EXCEPT !.stop_attempted = TRUE] \in ContextType
        BY <1>0 DEF ContextType
    <3>2. CASE Fail("raw", [me EXCEPT !.stop_attempted = TRUE])
        BY <1>0, <2>1, <3>1, <3>2 DEF ContextType
    <3>3. CASE me' = [me EXCEPT !.stop_attempted = TRUE, !.stopped = TRUE]
        BY <1>0, <3>3 DEF ContextType, Rest
    <3> QED
        BY <2>6, <3>2, <3>3 DEF StopCurrent
  <2>7. CASE RestartSelected
    <3>1. [me EXCEPT !.restart_attempted = TRUE] \in ContextType
        BY <1>0 DEF ContextType
    <3>2. CASE Fail("raw", [me EXCEPT !.restart_attempted = TRUE])
        BY <1>0, <2>1, <3>1, <3>2 DEF ContextType
    <3>3. CASE me' = [me EXCEPT !.restart_attempted = TRUE, !.running = TRUE]
        BY <1>0, <3>3 DEF ContextType, Rest
    <3> QED
        BY <1>0, <2>7, <3>2, <3>3 DEF RestartSelected, ContextType
  <2>8. CASE ActivateOld
    <3>1. [me EXCEPT !.attempted = FALSE] \in ContextType
        BY <1>0 DEF ContextType
    <3>2. CASE Fail("failed", [me EXCEPT !.attempted = FALSE])
        BY <1>0, <2>1, <3>1, <3>2 DEF ContextType
    <3> QED
        BY <1>0, <2>1, <2>2, <2>8, <3>2 DEF ActivateOld
  <2>9. CASE BackupCurrent
    <3>1. CASE me' = [me EXCEPT !.pre = {Live}]
        BY <1>0, <3>1 DEF ContextType
    <3> QED
        BY <1>0, <2>1, <2>9, <3>1 DEF BackupCurrent
  <2>10. CASE ProveDatabase
    <3>1. pc = "prove" => me.pre # {}
        BY <1>0 DEF Saved, Swapping
    <3>2. CASE me' = [me EXCEPT !.replaced = TRUE] /\ pc = "prove"
        BY <1>0, <3>1, <3>2 DEF ContextType
    <3> QED
        BY <1>0, <2>1, <2>2, <2>10, <3>2 DEF ProveDatabase
  <2>11. CASE RollbackStop
    <3>1. CASE me' = [me EXCEPT !.running = FALSE]
        BY <1>0, <3>1 DEF ContextType, Rest
    <3> QED
        BY <1>0, <2>1, <2>2, <2>11, <3>1 DEF RollbackStop
  <2>12. CASE FinishRestoreFailure
    <3>1. CASE me' = [me EXCEPT !.outcome = "recovery_required", !.changed = TRUE]
        BY <1>0, <3>1 DEF ContextType, Rest
    <3> QED
        BY <2>2, <2>12, <3>1 DEF FinishRestoreFailure
  <2>13. CASE StartRestore \/ RecordOwner \/ EnableMaintenance \/ Unlock \/ Environment
              \/ UNCHANGED vars
      BY <2>2, <2>3, <2>13 DEF StartRestore, RecordOwner, EnableMaintenance, Unlock, Environment,
         UserWrite, OwnWrite, Kill, Interrupt, PowerLoss, vars
  <2> QED
      BY <2>4, <2>5, <2>6, <2>7, <2>8, <2>9, <2>10, <2>11, <2>12, <2>13 DEF Next, CommandStep
<1> QED
    BY <1>1, <1>2, <1>3 DEF Rest

(* Files, containers and records keep their types.                         *)
THEOREM TypesKept == Spec => []TypeOK
<1>1. Init => Rest
    BY RestoreAssumption DEF Init, Rest, NoContext
<1>2. IInv /\ Rest => TypeOK
  <2> SUFFICES ASSUME IInv, Rest PROVE TypeOK
      OBVIOUS
  <2> USE DEF IInv, Types, Rest
  <2>1. op.status \in Outcomes \cup {"in_progress"}
      BY DEF OpType
  <2>2. op.stage \in {Records[p].stage : p \in DOMAIN Records} \cup Early \cup Outcomes
                     \cup {"manual_restore_completed"}
    <3>1. op.stage \in Stages
        BY DEF OpType
    <3> DEFINE named == {Records[p].stage : p \in DOMAIN Records}
    <3>2. /\ "manual_restore_started" \in named /\ "manual_restore_selected_healthy" \in named
          /\ "manual_restore_traffic_activation_started" \in named
          /\ "manual_restore_traffic_target_selected" \in named /\ Exposure \in named
        BY JournalRows DEF Row, Exposure
    <3> HIDE DEF named
    <3>3. op.stage \in named \cup Early \cup Outcomes \cup {"manual_restore_completed"}
        BY <3>1, <3>2 DEF Stages
    <3> QED
        BY <3>3 DEF named
  <2>3. pc \in Steps
      BY JournalRows DEF Steps, Places, BeforeStop, Stopped, Prepared, Swapping, Restored,
         Checking, Exposing, RollingBack, Ending
  <2>4. me.pre \subseteq Content
      BY DEF ContextType
  <2> QED
      BY <2>1, <2>2, <2>3, <2>4 DEF TypeOK
<1>3. IInv /\ Rest /\ [Next]_vars => Rest'
    BY RestInvariant
<1> QED
    BY <1>1, <1>2, <1>3, InitInvariant, NextInvariant, PTL DEF Spec

------------------------------------------------------------------------------
(* The promise to users.                                                    *)

(* Users are blocked or on the target; each application shows its own      *)
(* database, the current one with every write.                             *)
Shown ==
    IF maintenance \/ app[target] = "stopped" THEN "blocked"
    ELSE IF target = "current" THEN "original" ELSE "restored"

(* The abstract service is what the routed application shows.              *)
LEMMA ServiceIs == ASSUME ~SwapFaults PROVE IInv => service = Shown
<1> SUFFICES ASSUME IInv, ~maintenance, app[target] # "stopped" PROVE service = Shown
    BY DEF service, Shown
<1>1. target \in Releases /\ app[target] = "running"
    BY DEF IInv, Types
<1>2. CASE target = "current"
    BY <1>1, <1>2, LiveContent DEF service, Shown, Serves, IInv, Running, Original, Intact, Kept
<1>3. CASE target = "selected"
    BY <1>1, <1>3, LiveContent DEF service, Shown, Serves, IInv, Running
<1> QED
    BY <1>1, <1>2, <1>3 DEF Releases

(* Every step keeps the promise: a step that shows users another database  *)
(* is a step the promise allows.                                           *)
LEMMA StepKeepsPromise ==
    ASSUME ~SwapFaults, IInv, IInv', [Next]_vars, service = Shown, service' = Shown'
    PROVE  [Promise!Next]_(Promise!vars)
<1> USE DEF Promise!Next, Promise!vars, files, routing, Goto, Works, Fault
<1>0. Types /\ Context /\ Running /\ Blocked /\ Saved
    BY DEF IInv
<1>1. ASSUME UNCHANGED <<app, target, maintenance, acked, saved>> PROVE UNCHANGED Promise!vars
    BY <1>1 DEF Shown
<1>2. ASSUME maintenance, maintenance', UNCHANGED <<acked, saved>> PROVE UNCHANGED Promise!vars
    BY <1>2 DEF Shown
<1>3. ASSUME target = "current", target' = "current", UNCHANGED <<acked, saved>>
      PROVE  [Promise!Next]_(Promise!vars)
    BY <1>3 DEF Shown, Promise!Block, Promise!Reopen
<1>4. ASSUME NEW w \in Writes, UserWrite(w) PROVE Promise!Next
  <2>1. Promise!Write(w)
      BY <1>0, <1>4 DEF UserWrite, Promise!Write, Shown
  <2> QED
      BY <2>1
<1>5. CASE BackupCurrent
  <2>1. CASE saved' = saved \cup Live.writes
    <3>1. pc = "backup" /\ UNCHANGED <<app, target, maintenance, acked, db, wal>>
        BY <1>5 DEF BackupCurrent
    <3>2. Live.writes = db.writes \cup wal.writes /\ acked \subseteq db.writes \cup wal.writes
        BY <3>1, LiveContent DEF IInv, OriginalKept, Stopped, Original, Intact, Kept
    <3>3. db.writes \cup wal.writes \subseteq acked \cup {Own} /\ saved \subseteq acked \cup {Own}
          /\ acked \subseteq Writes
        BY <1>0 DEF Saved, Types
    <3>4. saved' \cap Writes = acked
        BY <2>1, <3>2, <3>3, OwnAssumption
    <3>5. maintenance
        BY <1>0, <3>1 DEF Blocked, Stopped
    <3> QED
        BY <3>1, <3>4, <3>5 DEF Shown, Promise!Archive
  <2>2. CASE UNCHANGED saved
      BY <1>1, <1>5, <2>2 DEF BackupCurrent
  <2> QED
      BY <1>5, <2>1, <2>2 DEF BackupCurrent
<1>6. CASE DisableMaintenance
  <2>1. pc = "expose" /\ maintenance /\ UNCHANGED <<app, target, acked, saved>>
      BY <1>0, <1>6 DEF DisableMaintenance, Blocked
  <2>2. target = "selected" /\ acked \subseteq saved /\ saved \subseteq acked \cup {Own}
      BY <1>0, <2>1 DEF Blocked, Saved, Exposing
  <2>3. app["selected"] = "running"
    <3>1. me.running
        BY <1>0, <2>1 DEF Context, Ending, Exposing, Swapping, RollingBack
    <3> QED
        BY <1>0, <2>1, <3>1 DEF Running, Ending
  <2>4. CASE ~maintenance'
      BY <1>0, <2>1, <2>2, <2>3, <2>4, OwnAssumption DEF Types, Shown, Promise!Switch
  <2>5. CASE maintenance'
      BY <1>2, <2>1, <2>5
  <2> QED
      BY <2>4, <2>5
<1>7. CASE PowerLoss
    BY <1>0, <1>7 DEF PowerLoss, Types, Shown, Promise!Block
<1>8. CASE EnableMaintenance \/ UndoMaintenance \/ RollbackRestart \/ RollbackRoute
           \/ RollbackReopen
  <2>1. target = "current"
      BY <1>0, <1>8 DEF Blocked, EnableMaintenance, UndoMaintenance, RollbackRestart,
         RollbackRoute, RollbackReopen, Ending, Exposing
  <2>2. target' = "current" /\ UNCHANGED <<acked, saved>>
      BY <1>8, <2>1 DEF EnableMaintenance, UndoMaintenance, RollbackRestart,
         RollbackRoute, RollbackReopen
  <2> QED
      BY <1>3, <2>1, <2>2
<1>9. CASE StopCurrent \/ RestartSelected \/ ActivateOld
  <2>1. maintenance /\ UNCHANGED <<maintenance, acked, saved>>
      BY <1>0, <1>9 DEF Blocked, StopCurrent, RestartSelected, ActivateOld, Restored, Checking
  <2> QED
      BY <1>2, <2>1
<1>10. CASE RollbackStop
  <2>1. CASE me.running
    <3>1. maintenance /\ UNCHANGED <<maintenance, acked, saved>>
        BY <1>0, <1>10, <2>1 DEF Blocked, RollbackStop, Context, Ending, Checking, Exposing
    <3> QED
        BY <1>2, <3>1
  <2>2. CASE ~me.running
      BY <1>1, <1>10, <2>2 DEF RollbackStop
  <2> QED
      BY <2>1, <2>2
<1>11. CASE StartRestore \/ RecordOwner \/ OpenSelectedBackup \/ InspectApplications
            \/ Transition \/ StageBackup \/ RemoveSqliteSidecars \/ SyncSidecars
            \/ ReplaceDatabase \/ ProveDatabase \/ CheckSelected \/ ActivateRelease \/ Succeed
            \/ RollbackCheck \/ FinishRestoreFailure \/ Unlock \/ OwnWrite \/ Kill
            \/ Interrupt \/ UNCHANGED vars
  <2>1. UNCHANGED <<app, target, maintenance, acked, saved>>
      BY <1>11 DEF StartRestore, RecordOwner, OpenSelectedBackup, InspectApplications,
         Transition, StageBackup, RemoveSqliteSidecars, SyncSidecars, ReplaceDatabase,
         ProveDatabase, CheckSelected, ActivateRelease, Succeed, RollbackCheck,
         FinishRestoreFailure, Unlock, OwnWrite, Kill, Interrupt, vars
  <2> QED
      BY <1>1, <2>1
<1> QED
    BY <1>4, <1>5, <1>6, <1>7, <1>8, <1>9, <1>10, <1>11 DEF Next, CommandStep, Environment

(* The restore implements its promise, when the swap does not fail once    *)
(* the log is removed: writes are archived before the restored database is *)
(* shown, and the original does not come back afterwards.                  *)
THEOREM RestoreImplementsPromise == ASSUME ~SwapFaults PROVE Spec => ImplementsPromise
<1>1. Init => Promise!Init
  <2>1. ASSUME Init PROVE IInv
      BY <2>1, InitInvariant
  <2> QED
      BY <2>1, ServiceIs DEF Init, Shown, Promise!Init, Releases
<1>2. IInv /\ IInv' /\ [Next]_vars /\ service = Shown /\ (service = Shown)'
        => [Promise!Next]_(Promise!vars)
    BY StepKeepsPromise
<1>3. IInv => service = Shown
    BY ServiceIs
<1> QED
    BY <1>1, <1>2, <1>3, InitInvariant, NextInvariant, PTL
       DEF Spec, ImplementsPromise, Promise!Spec
==============================================================================
