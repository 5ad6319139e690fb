---------------------------- MODULE BackupStorage ----------------------------
(***************************************************************************)
(* Verified backups: their creation, their local publication (a database   *)
(* file, then the metadata file that commits it), their replication to an  *)
(* object store, and retention, one system call or request at a time.      *)
(*                                                                         *)
(* Commands run one after the other: the deployment lock (StateDirectory)  *)
(* excludes two of them.  What may go wrong between two steps: a system    *)
(* call fails, a request fails or its answer is lost, the process is       *)
(* killed, the power goes and takes every directory entry that was not     *)
(* synced, a copy is lost.                                                 *)
(***************************************************************************)
EXTENDS Naturals, FiniteSets

CONSTANTS
  MaxBackups,      \* bound: backup identities in a behaviour, in order of creation
  Foreign,         \* backups of another project, committed in both stores from the start
  KeepLast,        \* backup.keep_last of the configuration
  MaxCrashes,      \* bound: killed processes and power losses
  MaxIOErrors,     \* bound: system calls that fail
  MaxNetErrors,    \* bound: requests that fail or whose answer is lost
  MaxDamage,       \* bound: copies lost for good
  MaxFaults,       \* bound: all of these together
  MarkerFaults,    \* may a call fail once the metadata file is linked?
  LateKinds        \* kinds of objects an unanswered upload may still store later

ASSUME BoundAssumption == MaxBackups \in Nat /\ MaxDamage \in Nat
ASSUME ForeignAssumption == Foreign \subseteq 1..MaxBackups
ASSUME KeepLastAssumption == KeepLast \in Nat \ {0}
ASSUME LateAssumption == LateKinds \subseteq {"db", "json"}

VARIABLES
  dir,             \* entries of the backup directory, as the processes see it
  disk,            \* entries of it that a power loss cannot take
  bytes,           \* contents of the database file of a backup
  objects,         \* database object of a backup in the bucket
  records,         \* backups whose metadata object is in the bucket
  late,            \* uploads without an answer that may still be stored
  policy,          \* backup.remote: "disabled", "optional" or "required"
  pointers,        \* final and rehearsal backups of the active and previous release
  cmd,             \* the command that runs
  used,            \* identities given to a backup
  reported,        \* backups a command has verified and recorded, until retired
  faults           \* faults so far, by kind

vars == <<dir, disk, bytes, objects, records, late, policy, pointers, cmd, used,
          reported, faults>>

localVars == <<dir, disk, bytes>>
remoteVars == <<objects, records, late>>
commandVars == <<pointers, used, reported>>

Ids == 1..MaxBackups
FileKinds == {"staging", "db", "tmp", "json"}
Files(b) == {<<k, b>> : k \in FileKinds}

NoRelease == [rehearsal |-> 0, final |-> 0]
Idle == [kind |-> "none", at |-> "idle", id |-> 0, rehearsal |-> 0, upload |-> FALSE,
         doomed |-> {}, doomedRemote |-> {}]

Stages ==
  {"idle", "stage", "snapshot", "flush", "link", "unstage", "syncdb", "tmp", "mark",
   "untmp", "syncmark", "verify", "undo", "upload", "readback", "commit", "committed",
   "dropjson", "dropdb", "activate", "plan", "purge", "syncpurge", "purgedb",
   "syncpurged", "purgeremote", "purgeobject", "prove", "retained"}

-----------------------------------------------------------------------------
(* What the stores answer.                                                 *)

\* LocalBackupStorage.get and the checks of verify_backup.
OpensLocally(b) ==
  /\ {<<"db", b>>, <<"json", b>>} \subseteq dir
  /\ bytes[b] \in {"cached", "durable"}

\* _local_artifact_absent
AbsentLocally(b) == {<<"db", b>>, <<"json", b>>} \intersect dir = {}

\* S3BackupStorage.download after verify_metadata
OpensFromReplica(b) ==
  /\ policy # "disabled"
  /\ b \in records
  /\ objects[b] = "good"

\* open_verified_configured_backup: damaged local files are never replaced
\* silently by the replica.
Opens(b) ==
  \/ OpensLocally(b)
  \/ AbsentLocally(b) /\ OpensFromReplica(b)

\* list() of either store reads the committed metadata.
LocalInventory == {b \in Ids : <<"json", b>> \in dir}
RemoteInventory == IF policy = "disabled" THEN {} ELSE records

\* S3BackupStorage.list fails on metadata without its database object.
RemoteListable == \A b \in RemoteInventory : objects[b] # "none"

\* protected_backup_ids
Protected ==
  {pointers.active.rehearsal, pointers.active.final,
   pointers.previous.rehearsal, pointers.previous.final} \ {0}

RetainUnprotectedOnly(inventory) ==
  LET managed == inventory \ Foreign
  IN {b \in managed : Cardinality({c \in managed : c > b}) >= KeepLast}

KeepOneTooFew(inventory) ==
  LET unprotected == inventory \ (Foreign \union Protected)
  IN {b \in unprotected : Cardinality({c \in unprotected : c > b}) + 1 >= KeepLast}

KeepOneTooMany(inventory) ==
  LET unprotected == inventory \ (Foreign \union Protected)
  IN {b \in unprotected : Cardinality({c \in unprotected : c > b}) > KeepLast}

\* _plan_inventory: what retention deletes of an inventory.
Doomed(inventory) ==
  LET unprotected == inventory \ (Foreign \union Protected)
  IN {b \in unprotected : Cardinality({c \in unprotected : c > b}) >= KeepLast}

Oldest(S) == CHOOSE b \in S : \A c \in S : b <= c

Finals == {pointers.active.final, pointers.previous.final} \ {0}

-----------------------------------------------------------------------------
Init ==
  /\ dir = {"db", "json"} \X Foreign
  /\ disk = dir
  /\ bytes = [b \in Ids |-> IF b \in Foreign THEN "durable" ELSE "none"]
  /\ policy \in {"disabled", "optional", "required"}
  /\ records = IF policy = "disabled" THEN {} ELSE Foreign
  /\ objects = [b \in Ids |-> IF b \in records THEN "good" ELSE "none"]
  /\ late = {}
  /\ pointers = [active |-> NoRelease, previous |-> NoRelease, lineage |-> FALSE]
  /\ cmd = Idle
  /\ used = Foreign
  /\ reported = Foreign
  /\ faults = [crash |-> 0, io |-> 0, net |-> 0, damage |-> 0]

Goto(stage) == cmd' = [cmd EXCEPT !.at = stage]
Fault(kind) == faults' = [faults EXCEPT ![kind] = @ + 1]
MayFault == faults.crash + faults.io + faults.net + faults.damage < MaxFaults
IOMayFail == MayFault /\ faults.io < MaxIOErrors
NetMayFail == MayFault /\ faults.net < MaxNetErrors
Fresh == Ids \ used

-----------------------------------------------------------------------------
(* create_verified_backup and LocalBackupStorage.put.                      *)

BeginReusingIdentity(kind) ==
  /\ cmd.at = "idle"
  /\ Fresh # {}
  /\ \E upload \in {policy = "required"} :
       cmd' = [Idle EXCEPT !.kind = kind, !.at = "stage", !.id = Oldest(Fresh),
                           !.upload = upload]
  /\ UNCHANGED <<localVars, remoteVars, policy, commandVars, faults>>

\* create_configured_backup_result or deploy takes the lock; a required
\* replica is uploaded without being asked for.
Begin(kind) ==
  /\ cmd.at = "idle"
  /\ Fresh # {}
  /\ \E upload \in BOOLEAN :
       /\ upload => policy # "disabled"
       /\ policy = "required" => upload
       /\ kind = "deploy" => upload = (policy = "required")
       /\ cmd' = [Idle EXCEPT !.kind = kind, !.at = "stage", !.id = Oldest(Fresh),
                              !.upload = upload]
  /\ used' = used \union {Oldest(Fresh)}
  /\ UNCHANGED <<localVars, remoteVars, policy, pointers, reported, faults>>

CreateStaging ==
  /\ cmd.at = "stage"
  /\ dir' = dir \union {<<"staging", cmd.id>>}
  /\ disk' = dir'
  /\ Goto("snapshot")
  /\ UNCHANGED <<bytes, remoteVars, commandVars, policy, faults>>

Snapshot ==
  /\ cmd.at = "snapshot"
  /\ bytes' = [bytes EXCEPT ![cmd.id] = "cached"]
  /\ Goto("flush")
  /\ UNCHANGED <<dir, disk, remoteVars, commandVars, policy, faults>>

\* _fsync_file, then the snapshot is checked and hashed.
FlushSnapshot ==
  /\ cmd.at = "flush"
  /\ bytes' = [bytes EXCEPT ![cmd.id] = "durable"]
  /\ Goto("link")
  /\ UNCHANGED <<dir, disk, remoteVars, commandVars, policy, faults>>

LinkDatabase ==
  /\ cmd.at = "link"
  /\ AbsentLocally(cmd.id)
  /\ dir' = dir \union {<<"db", cmd.id>>}
  /\ Goto("unstage")
  /\ UNCHANGED <<disk, bytes, remoteVars, commandVars, policy, faults>>

UnlinkStaging ==
  /\ cmd.at = "unstage"
  /\ dir' = dir \ {<<"staging", cmd.id>>}
  /\ Goto("syncdb")
  /\ UNCHANGED <<disk, bytes, remoteVars, commandVars, policy, faults>>

SyncDatabaseSkipped ==
  /\ cmd.at = "syncdb"
  /\ disk' = disk
  /\ Goto("tmp")
  /\ UNCHANGED <<dir, bytes, remoteVars, commandVars, policy, faults>>

\* The database entry is durable before its metadata exists.
SyncDatabase ==
  /\ cmd.at = "syncdb"
  /\ disk' = dir
  /\ Goto("tmp")
  /\ UNCHANGED <<dir, bytes, remoteVars, commandVars, policy, faults>>

WriteMetadata ==
  /\ cmd.at = "tmp"
  /\ dir' = dir \union {<<"tmp", cmd.id>>}
  /\ Goto("mark")
  /\ UNCHANGED <<disk, bytes, remoteVars, commandVars, policy, faults>>

\* The commit point.
LinkMetadata ==
  /\ cmd.at = "mark"
  /\ dir' = dir \union {<<"json", cmd.id>>}
  /\ Goto("untmp")
  /\ UNCHANGED <<disk, bytes, remoteVars, commandVars, policy, faults>>

UnlinkTemporary ==
  /\ cmd.at = "untmp"
  /\ dir' = dir \ {<<"tmp", cmd.id>>}
  /\ Goto("syncmark")
  /\ UNCHANGED <<disk, bytes, remoteVars, commandVars, policy, faults>>

SyncMetadataSkipped ==
  /\ cmd.at = "syncmark"
  /\ disk' = disk
  /\ Goto("verify")
  /\ UNCHANGED <<dir, bytes, remoteVars, commandVars, policy, faults>>

SyncMetadata ==
  /\ cmd.at = "syncmark"
  /\ disk' = dir
  /\ Goto("verify")
  /\ UNCHANGED <<dir, bytes, remoteVars, commandVars, policy, faults>>

\* A deployment backs up twice: for the rehearsal, then with the writers stopped.
VerifyRehearsal ==
  /\ cmd.at = "verify"
  /\ OpensLocally(cmd.id)
  /\ cmd.kind = "deploy"
  /\ cmd.rehearsal = 0
  /\ Fresh # {}
  /\ reported' = reported \union {cmd.id}
  /\ cmd' = [cmd EXCEPT !.at = "stage", !.rehearsal = cmd.id, !.id = Oldest(Fresh)]
  /\ used' = used \union {Oldest(Fresh)}
  /\ UNCHANGED <<localVars, remoteVars, policy, pointers, faults>>

VerifyBackup ==
  /\ cmd.at = "verify"
  /\ OpensLocally(cmd.id)
  /\ cmd.kind = "deploy" => cmd.rehearsal # 0
  /\ reported' = reported \union {cmd.id}
  /\ cmd' = CASE cmd.upload -> [cmd EXCEPT !.at = "upload"]
              [] ~cmd.upload /\ cmd.kind = "deploy" -> [cmd EXCEPT !.at = "activate"]
              [] OTHER -> Idle
  /\ UNCHANGED <<localVars, remoteVars, policy, pointers, used, faults>>

\* A failure before the database is linked leaves nothing but the staging file,
\* which _cleanup_staging removes.
PreparationFails ==
  /\ cmd.at \in {"stage", "snapshot", "flush", "link"}
  /\ IOMayFail
  /\ dir' = dir \ {<<"staging", cmd.id>>}
  /\ cmd' = Idle
  /\ Fault("io")
  /\ UNCHANGED <<disk, bytes, remoteVars, commandVars, policy>>

\* A failure in put after that; _publish_metadata removes its own temporary.
PublicationFails ==
  /\ \/ cmd.at \in {"unstage", "syncdb", "tmp", "mark"}
     \/ MarkerFaults /\ cmd.at \in {"untmp", "syncmark"}
  /\ IOMayFail
  /\ dir' = dir \ {<<"tmp", cmd.id>>}
  /\ Goto("undo")
  /\ Fault("io")
  /\ UNCHANGED <<disk, bytes, remoteVars, commandVars, policy>>

\* put removes the database, not the metadata, and syncs; create_verified_backup
\* then removes the staging file.
UndoPublication ==
  /\ cmd.at = "undo"
  /\ dir' = dir \ {<<"db", cmd.id>>, <<"staging", cmd.id>>}
  /\ disk' = dir \ {<<"db", cmd.id>>}
  /\ cmd' = Idle
  /\ UNCHANGED <<bytes, remoteVars, commandVars, policy, faults>>

\* The cleanup fails too: at the unlink, or at the sync after it.
UndoFails ==
  /\ cmd.at = "undo"
  /\ IOMayFail
  /\ \E gone \in SUBSET {<<"db", cmd.id>>} :
       dir' = dir \ (gone \union {<<"staging", cmd.id>>})
  /\ cmd' = Idle
  /\ Fault("io")
  /\ UNCHANGED <<disk, bytes, remoteVars, commandVars, policy>>

-----------------------------------------------------------------------------
(* S3BackupStorage.put of a backup that was never uploaded before.         *)

AfterReplica == IF cmd.kind = "deploy" THEN [cmd EXCEPT !.at = "activate"] ELSE Idle

UploadDatabase ==
  /\ cmd.at = "upload"
  /\ cmd.id \notin records
  /\ objects' = [objects EXCEPT ![cmd.id] = "good"]
  /\ Goto("readback")
  /\ UNCHANGED <<localVars, records, late, commandVars, policy, faults>>

UploadDatabaseBestEffort ==
  /\ cmd.at = "upload"
  /\ NetMayFail
  /\ cmd' = AfterReplica
  /\ Fault("net")
  /\ UNCHANGED <<localVars, remoteVars, commandVars, policy>>

\* An upload without an answer was not stored, was stored, or is stored later.
\* The database upload is outside the try block: nothing is cleaned up.
UploadDatabaseFails ==
  /\ cmd.at = "upload"
  /\ NetMayFail
  /\ \/ objects' = [objects EXCEPT ![cmd.id] = "good"] /\ UNCHANGED late
     \/ late' = late \union ({<<"db", cmd.id>>} \intersect (LateKinds \X Ids))
        /\ UNCHANGED objects
  /\ cmd' = Idle
  /\ Fault("net")
  /\ UNCHANGED <<localVars, records, commandVars, policy>>

\* _verify_remote_database_bytes reads the whole object back.
ReadBack ==
  /\ cmd.at = "readback"
  /\ objects[cmd.id] = "good"
  /\ Goto("commit")
  /\ UNCHANGED <<localVars, remoteVars, commandVars, policy, faults>>

UploadMetadata ==
  /\ cmd.at = "commit"
  /\ records' = records \union {cmd.id}
  /\ Goto("committed")
  /\ UNCHANGED <<localVars, objects, late, commandVars, policy, faults>>

UploadMetadataFails ==
  /\ cmd.at = "commit"
  /\ NetMayFail
  /\ \/ records' = records \union {cmd.id} /\ UNCHANGED late
     \/ late' = late \union ({<<"json", cmd.id>>} \intersect (LateKinds \X Ids))
        /\ UNCHANGED records
  /\ Goto("dropjson")
  /\ Fault("net")
  /\ UNCHANGED <<localVars, objects, commandVars, policy>>

VerifyCommitted ==
  /\ cmd.at = "committed"
  /\ cmd.id \in records
  /\ objects[cmd.id] # "none"
  /\ cmd' = AfterReplica
  /\ UNCHANGED <<localVars, remoteVars, commandVars, policy, faults>>

VerificationFails ==
  /\ cmd.at \in {"readback", "committed"}
  /\ NetMayFail
  /\ Goto("dropjson")
  /\ Fault("net")
  /\ UNCHANGED <<localVars, remoteVars, commandVars, policy>>

\* _cleanup_uncommitted deletes metadata and database; a deletion that fails
\* is noted on the error and the other one is still tried.
DropMetadata ==
  /\ cmd.at = "dropjson"
  /\ records' = records \ {cmd.id}
  /\ Goto("dropdb")
  /\ UNCHANGED <<localVars, objects, late, commandVars, policy, faults>>

DropMetadataFails ==
  /\ cmd.at = "dropjson"
  /\ NetMayFail
  /\ Goto("dropdb")
  /\ Fault("net")
  /\ UNCHANGED <<localVars, remoteVars, commandVars, policy>>

DropDatabase ==
  /\ cmd.at = "dropdb"
  /\ objects' = [objects EXCEPT ![cmd.id] = "none"]
  /\ cmd' = Idle
  /\ UNCHANGED <<localVars, records, late, commandVars, policy, faults>>

DropDatabaseFails ==
  /\ cmd.at = "dropdb"
  /\ NetMayFail
  /\ cmd' = Idle
  /\ Fault("net")
  /\ UNCHANGED <<localVars, remoteVars, commandVars, policy>>

\* The provider stores an upload nobody waits for any more.
LateUploadLands(k, b) ==
  /\ <<k, b>> \in late
  /\ late' = late \ {<<k, b>>}
  /\ objects' = IF k = "db" THEN [objects EXCEPT ![b] = "good"] ELSE objects
  /\ records' = IF k = "json" THEN records \union {b} ELSE records
  /\ UNCHANGED <<localVars, commandVars, policy, cmd, faults>>

-----------------------------------------------------------------------------
(* Release pointers: a deployment becomes active, or a manual restore      *)
(* returns to the previous release.                                        *)

\* _complete_active writes the manifest and the pointers.
Activate ==
  /\ cmd.at = "activate"
  /\ pointers' = [active |-> [rehearsal |-> cmd.rehearsal, final |-> cmd.id],
                  previous |-> pointers.active,
                  lineage |-> pointers.active # NoRelease]
  /\ Goto("plan")
  /\ UNCHANGED <<localVars, remoteVars, policy, used, reported, faults>>

\* A finished manual restore, without its pre-restore backup (a "backup" here).
\* preview_configured_restore accepts only the recorded previous release, and
\* opens the final backup of the active one.
RestorePrevious ==
  /\ cmd.at = "idle"
  /\ pointers.lineage
  /\ \E b \in Ids : b = pointers.active.final /\ Opens(b)
  /\ pointers' = [active |-> pointers.previous, previous |-> pointers.active,
                  lineage |-> FALSE]
  /\ UNCHANGED <<localVars, remoteVars, policy, cmd, used, reported, faults>>

-----------------------------------------------------------------------------
(* apply_retention, after the activation.                                  *)

\* Both inventories are read, then both plans are made.
PlanRetention ==
  /\ cmd.at = "plan"
  /\ RemoteListable
  /\ cmd' = [cmd EXCEPT !.at = "purge", !.doomed = Doomed(LocalInventory),
                        !.doomedRemote = Doomed(RemoteInventory)]
  /\ UNCHANGED <<localVars, remoteVars, commandVars, policy, faults>>

\* A request fails, or metadata in the bucket has no database: nothing is deleted.
PlanFails ==
  /\ cmd.at = "plan"
  /\ policy # "disabled"
  /\ RemoteListable => NetMayFail
  /\ cmd' = Idle
  /\ IF RemoteListable THEN Fault("net") ELSE UNCHANGED faults
  /\ UNCHANGED <<localVars, remoteVars, commandVars, policy>>

\* LocalBackupStorage.delete refuses metadata without a database, and unlinks
\* the metadata first.
PurgeMetadata ==
  /\ cmd.at = "purge"
  /\ cmd.doomed # {}
  /\ <<"db", Oldest(cmd.doomed)>> \in dir
  /\ dir' = dir \ {<<"json", Oldest(cmd.doomed)>>}
  /\ reported' = reported \ {Oldest(cmd.doomed)}
  /\ cmd' = [cmd EXCEPT !.at = "syncpurge", !.id = Oldest(cmd.doomed)]
  /\ UNCHANGED <<disk, bytes, remoteVars, pointers, used, policy, faults>>

SyncPurgedMetadata ==
  /\ cmd.at = "syncpurge"
  /\ disk' = dir
  /\ Goto("purgedb")
  /\ UNCHANGED <<dir, bytes, remoteVars, commandVars, policy, faults>>

PurgeDatabase ==
  /\ cmd.at = "purgedb"
  /\ dir' = dir \ {<<"db", cmd.id>>}
  /\ Goto("syncpurged")
  /\ UNCHANGED <<disk, bytes, remoteVars, commandVars, policy, faults>>

SyncPurgedDatabase ==
  /\ cmd.at = "syncpurged"
  /\ disk' = dir
  /\ bytes' = [bytes EXCEPT ![cmd.id] = "none"]
  /\ cmd' = [cmd EXCEPT !.at = "purge", !.doomed = @ \ {cmd.id}]
  /\ UNCHANGED <<dir, remoteVars, commandVars, policy, faults>>

\* LocalBackupStorage.delete: "backup metadata exists without its committed database".
Refused == cmd.at = "purge" /\ cmd.doomed # {} /\ <<"db", Oldest(cmd.doomed)>> \notin dir

\* A call fails, or the deletion is refused: the retention stops, the
\* deployment stays active.
PurgeFails ==
  /\ cmd.at \in {"purge", "syncpurge", "purgedb", "syncpurged"}
  /\ cmd.at = "purge" => cmd.doomed # {}
  /\ ~Refused => IOMayFail
  /\ cmd' = Idle
  /\ IF Refused THEN UNCHANGED faults ELSE Fault("io")
  /\ UNCHANGED <<localVars, remoteVars, commandVars, policy>>

\* S3BackupStorage.delete: metadata, database, then a proof that both are gone.
PurgeRecord ==
  /\ cmd.at = "purge"
  /\ cmd.doomed = {}
  /\ cmd.doomedRemote # {}
  /\ records' = records \ {Oldest(cmd.doomedRemote)}
  /\ reported' = reported \ {Oldest(cmd.doomedRemote)}
  /\ cmd' = [cmd EXCEPT !.at = "purgeobject", !.id = Oldest(cmd.doomedRemote)]
  /\ UNCHANGED <<localVars, objects, late, pointers, used, policy, faults>>

PurgeObject ==
  /\ cmd.at = "purgeobject"
  /\ objects' = [objects EXCEPT ![cmd.id] = "none"]
  /\ Goto("prove")
  /\ UNCHANGED <<localVars, records, late, commandVars, policy, faults>>

ProveAbsent ==
  /\ cmd.at = "prove"
  /\ cmd.id \notin records
  /\ objects[cmd.id] = "none"
  /\ cmd' = [cmd EXCEPT !.at = "purge", !.doomedRemote = @ \ {cmd.id}]
  /\ UNCHANGED <<localVars, remoteVars, commandVars, policy, faults>>

\* A request fails, its effect done or not; later deletions are not tried.
RemotePurgeFails ==
  /\ NetMayFail
  /\ \/ cmd.at \in {"purgeobject", "prove"} /\ UNCHANGED <<records, objects, reported>>
     \/ cmd.at = "purge" /\ cmd.doomed = {} /\ cmd.doomedRemote # {}
        /\ records' = records \ {Oldest(cmd.doomedRemote)}
        /\ reported' = reported \ {Oldest(cmd.doomedRemote)}
        /\ UNCHANGED objects
     \/ cmd.at = "purgeobject"
        /\ objects' = [objects EXCEPT ![cmd.id] = "none"]
        /\ UNCHANGED <<records, reported>>
  /\ cmd' = Idle
  /\ Fault("net")
  /\ UNCHANGED <<localVars, late, pointers, used, policy>>

Retained ==
  /\ cmd.at = "purge"
  /\ cmd.doomed = {}
  /\ cmd.doomedRemote = {}
  /\ Goto("retained")
  /\ UNCHANGED <<localVars, remoteVars, commandVars, policy, faults>>

EndDeploy ==
  /\ cmd.at = "retained"
  /\ cmd' = Idle
  /\ UNCHANGED <<localVars, remoteVars, commandVars, policy, faults>>

-----------------------------------------------------------------------------
(* Faults.                                                                 *)

Killed ==
  /\ cmd.at # "idle"
  /\ MayFault /\ faults.crash < MaxCrashes
  /\ cmd' = Idle
  /\ Fault("crash")
  /\ UNCHANGED <<localVars, remoteVars, commandVars, policy>>

\* Of the entries made or removed since the last sync any part survives, and
\* contents that were not synced are gone.
PowerLoss ==
  /\ MayFault /\ faults.crash < MaxCrashes
  /\ \E kept \in SUBSET ((dir \ disk) \union (disk \ dir)) :
       /\ dir' = (dir \intersect disk) \union kept
       /\ disk' = dir'
  /\ bytes' = [b \in Ids |-> IF bytes[b] = "cached" THEN "lost" ELSE bytes[b]]
  /\ cmd' = Idle
  /\ Fault("crash")
  /\ UNCHANGED <<remoteVars, commandVars, policy>>

\* A local copy, or the object of a replica, is lost between two commands.
\* Only a required replica answers for it.
LoseLocalCopy(b) ==
  /\ cmd.at = "idle"
  /\ policy = "required"
  /\ MayFault /\ faults.damage < MaxDamage
  /\ OpensLocally(b)
  /\ dir' = dir \ Files(b)
  /\ disk' = disk \ Files(b)
  /\ reported' = IF OpensFromReplica(b) THEN reported ELSE reported \ {b}
  /\ Fault("damage")
  /\ UNCHANGED <<bytes, remoteVars, policy, pointers, cmd, used>>

RotReplica(b) ==
  /\ cmd.at = "idle"
  /\ policy = "required"
  /\ MayFault /\ faults.damage < MaxDamage
  /\ objects[b] = "good"
  /\ objects' = [objects EXCEPT ![b] = "bad"]
  /\ Fault("damage")
  /\ UNCHANGED <<localVars, records, late, policy, commandVars, cmd>>

-----------------------------------------------------------------------------
Publication ==
  \/ CreateStaging \/ Snapshot \/ FlushSnapshot \/ LinkDatabase \/ UnlinkStaging
  \/ SyncDatabase \/ WriteMetadata \/ LinkMetadata \/ UnlinkTemporary \/ SyncMetadata
  \/ VerifyRehearsal \/ VerifyBackup
  \/ PreparationFails \/ PublicationFails \/ UndoPublication \/ UndoFails

Replication ==
  \/ UploadDatabase \/ UploadDatabaseFails \/ ReadBack
  \/ UploadMetadata \/ UploadMetadataFails \/ VerifyCommitted \/ VerificationFails
  \/ DropMetadata \/ DropMetadataFails \/ DropDatabase \/ DropDatabaseFails

Retention ==
  \/ PlanRetention \/ PlanFails \/ PurgeMetadata \/ SyncPurgedMetadata
  \/ PurgeDatabase \/ SyncPurgedDatabase \/ PurgeFails
  \/ PurgeRecord \/ PurgeObject \/ ProveAbsent \/ RemotePurgeFails
  \/ Retained \/ EndDeploy

Environment ==
  \/ \E k \in LateKinds, b \in Ids : LateUploadLands(k, b)
  \/ Killed \/ PowerLoss
  \/ \E b \in Ids : LoseLocalCopy(b) \/ RotReplica(b)

Next ==
  \/ \E kind \in {"backup", "deploy"} : Begin(kind)
  \/ Publication \/ Replication \/ Activate \/ RestorePrevious \/ Retention
  \/ Environment

Spec == Init /\ [][Next]_vars

-----------------------------------------------------------------------------
TypeOK ==
  /\ dir \subseteq FileKinds \X Ids
  /\ disk \subseteq FileKinds \X Ids
  /\ bytes \in [Ids -> {"none", "cached", "durable", "lost"}]
  /\ objects \in [Ids -> {"none", "good", "bad"}]
  /\ records \subseteq used
  /\ late \subseteq LateKinds \X used
  /\ policy \in {"disabled", "optional", "required"}
  /\ Protected \subseteq used
  /\ pointers.lineage \in BOOLEAN
  /\ cmd.at \in Stages
  /\ cmd.at # "idle" => cmd.id \in used
  /\ cmd.doomed \union cmd.doomedRemote \subseteq used
  /\ used \subseteq Ids
  /\ reported \subseteq used

\* storage/local.py:27, "Publish backup metadata last so it is the durable
\* success marker": whatever is killed, loses power or fails, the metadata of a
\* backup is never in the directory without its database, contents included.
MarkerMeansDatabase ==
  \A b \in LocalInventory : <<"db", b>> \in dir /\ bytes[b] \in {"cached", "durable"}

\* The same of the bucket (storage/s3.py put and delete): metadata that is
\* listed has its database object.
RecordMeansObject == \A b \in RemoteInventory : objects[b] # "none"

\* The final backup of the active and of the previous release can be opened at
\* any time, from the directory or from the replica, although retention,
\* failed commands, power losses and one lost copy have been at work.
ProtectedBackupOpens == \A b \in Finals : Opens(b)

\* backup.remote.required: a release that is active or previous has its final
\* backup committed in the bucket, and nothing ever takes it away.
RequiredReplicaKept ==
  policy = "required" => \A b \in Finals : b \in records /\ objects[b] # "none"

\* A retention that reached its end leaves at most keep_last unprotected
\* backups of the project in each store, whatever earlier ones left half done.
RetentionLeavesPolicy ==
  cmd.at = "retained" =>
    \A inventory \in {LocalInventory, RemoteInventory} :
      Cardinality(inventory \ (Foreign \union Protected)) <= KeepLast

MayGo(b, remaining) ==
  /\ b \notin Protected \union Foreign
  /\ Cardinality({c \in remaining \ (Protected \union Foreign) : c > b}) >= KeepLast

\* A reported backup leaves an inventory only by retention's rule, judged in
\* the state it leaves in: own, unprotected, and with keep_last newer ones that
\* stay.  A lost copy and an upload that is taken back are the exceptions.
RetentionSpares ==
  [][faults'.damage = faults.damage =>
       /\ \A b \in (LocalInventory \intersect reported) \ LocalInventory' :
            MayGo(b, LocalInventory')
       /\ \A b \in RemoteInventory \ RemoteInventory' :
            MayGo(b, RemoteInventory') \/ (cmd.at = "dropjson" /\ b = cmd.id)]_vars

Promise == INSTANCE BackupPromise WITH
  offered <- {b \in Ids : Opens(b)}, promised <- reported, referenced <- Finals

\* The stores keep the promise of BackupPromise: what a command reported as
\* verified opens until retention retires it, and no referenced final backup is
\* retired.
ImplementsPromise == Promise!Spec
=============================================================================
