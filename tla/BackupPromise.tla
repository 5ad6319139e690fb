---------------------------- MODULE BackupPromise ----------------------------
(***************************************************************************)
(* What a backup promises, with no files, objects or crashes: a backup     *)
(* that a command has reported as verified can be opened until retention   *)
(* retires it, and retention never retires the final backup of the active  *)
(* or of the previous release.  A backup that nobody was told of may come  *)
(* and go.  BackupStorage implements this module.                          *)
(***************************************************************************)
CONSTANT Ids               \* backup identities

VARIABLES offered,         \* backups that open_verified_configured_backup opens
          promised,        \* backups a command has reported as verified
          referenced       \* final backups of the active and previous release

vars == <<offered, promised, referenced>>

TypeOK ==
  /\ offered \subseteq Ids
  /\ promised \subseteq offered
  /\ referenced \subseteq promised

Init ==
  /\ offered \in SUBSET Ids
  /\ promised \in SUBSET offered      \* backups of other projects
  /\ referenced = {}

\* Publication, and the loss of what was not reported.
Publish ==
  /\ offered' \in SUBSET Ids
  /\ promised \subseteq offered'
  /\ UNCHANGED <<promised, referenced>>

Promise(b) ==
  /\ b \in offered
  /\ promised' = promised \union {b}
  /\ UNCHANGED <<offered, referenced>>

\* A deployment or a restore moves the release pointers.
Reference(finals) ==
  /\ finals \subseteq promised
  /\ referenced' = finals
  /\ UNCHANGED <<offered, promised>>

\* Retention, or a damaged medium, takes a backup no release refers to.
Retire(b) ==
  /\ b \in promised \ referenced
  /\ promised' = promised \ {b}
  /\ offered' \in SUBSET Ids
  /\ promised' \subseteq offered'
  /\ UNCHANGED referenced

Next ==
  \/ Publish
  \/ \E b \in Ids : Promise(b) \/ Retire(b)
  \/ \E finals \in SUBSET Ids : Reference(finals)

Spec == Init /\ [][Next]_vars
=============================================================================
