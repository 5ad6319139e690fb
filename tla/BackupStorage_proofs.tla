------------------------ MODULE BackupStorage_proofs ------------------------
(***************************************************************************)
(* What the backup stores keep for any number of backups, faults and       *)
(* crashes: metadata means a database, what a release refers to opens and  *)
(* has its required replica, retention spares what it must and leaves what *)
(* it may, and the promise of BackupPromise is implemented.                *)
(***************************************************************************)
EXTENDS BackupStorage, FiniteSetTheorems, WellFoundedInduction, TLAPS

(* Retention's rule for a backup b of the inventory S when P is protected, *)
(* and what it may leave of S when D is to go.                             *)
Unprotected(S, P) == S \ (Foreign \union P)
Newer(b, S, P) == {c \in Unprotected(S, P) : c > b}
Spared(b, S, P) == b \notin Foreign \union P /\ Cardinality(Newer(b, S, P)) >= KeepLast
Fits(S, P, D) == Cardinality(Unprotected(S, P) \ D) <= KeepLast

-----------------------------------------------------------------------------
(* Oldest chooses the oldest backup of a set. *)
LEMMA OldestIn ==
  ASSUME NEW S \in SUBSET Ids, S # {}
  PROVE  Oldest(S) \in S /\ \A c \in S : Oldest(S) <= c
<1>1. \E x \in S : \A y \in S : ~ (<<y, x>> \in OpToRel(<, Nat))
  <2>1. S \subseteq Nat
    BY BoundAssumption DEF Ids
  <2> QED
    BY <2>1, NatLessThanWellFounded, WFMin
<1>2. PICK x \in S : \A y \in S : ~ (<<y, x>> \in OpToRel(<, Nat))
  BY <1>1
<1>3. \A y \in S : x <= y
  <2>1. SUFFICES ASSUME NEW y \in S, y < x PROVE FALSE
    BY BoundAssumption DEF Ids
  <2>2. <<y, x>> \in Nat \X Nat
    BY BoundAssumption DEF Ids
  <2>3. <<y, x>>[1] < <<y, x>>[2]
    BY <2>1
  <2>4. <<y, x>> \in {ss \in Nat \X Nat : ss[1] < ss[2]}
    BY <2>2, <2>3
  <2> QED
    BY <1>2, <2>4 DEF OpToRel
<1> QED
  BY <1>3 DEF Oldest

(* Identities are finitely many, and so is any set of them. *)
LEMMA FiniteIds == ASSUME NEW S \in SUBSET Ids PROVE IsFiniteSet(S) /\ Cardinality(S) \in Nat
<1>1. IsFiniteSet(Ids)
  BY FS_Interval, BoundAssumption DEF Ids
<1> QED
  BY <1>1, FS_Subset, FS_CardinalityType

(* The removal of an older backup spares what was spared. *)
LEMMA SparedSmaller ==
  ASSUME NEW S \in SUBSET Ids, NEW P, NEW b \in Ids, NEW o \in Ids, o <= b, Spared(b, S, P)
  PROVE  Spared(b, S \ {o}, P)
<1>1. Newer(b, S \ {o}, P) = Newer(b, S, P)
  BY BoundAssumption DEF Newer, Unprotected, Ids
<1> QED
  BY <1>1 DEF Spared

(* So does the arrival of another backup. *)
LEMMA SparedMore ==
  ASSUME NEW S \in SUBSET Ids, NEW T \in SUBSET Ids, S \subseteq T, NEW P, NEW b,
         Spared(b, S, P)
  PROVE  Spared(b, T, P)
<1>1. /\ Newer(b, S, P) \in SUBSET Newer(b, T, P)
      /\ Newer(b, S, P) \in SUBSET Ids /\ Newer(b, T, P) \in SUBSET Ids
  BY DEF Newer, Unprotected
<1>2. Cardinality(Newer(b, S, P)) <= Cardinality(Newer(b, T, P))
  BY <1>1, FiniteIds, FS_Subset
<1>3. Cardinality(Newer(b, S, P)) \in Nat /\ Cardinality(Newer(b, T, P)) \in Nat
  BY <1>1, FiniteIds
<1> QED
  BY <1>2, <1>3, KeepLastAssumption DEF Spared

(* What fits goes on fitting when there is less. *)
LEMMA FitsSmaller ==
  ASSUME NEW S \in SUBSET Ids, NEW T \in SUBSET Ids, NEW P, NEW D, NEW E,
         T \ E \subseteq S \ D, Fits(S, P, D)
  PROVE  Fits(T, P, E)
<1> DEFINE A == Unprotected(T, P) \ E
           B == Unprotected(S, P) \ D
<1>1. A \in SUBSET B /\ A \in SUBSET Ids /\ B \in SUBSET Ids
  BY DEF Unprotected
<1>2. Cardinality(A) <= Cardinality(B)
  BY <1>1, FiniteIds, FS_Subset
<1>3. Cardinality(A) \in Nat /\ Cardinality(B) \in Nat
  BY <1>1, FiniteIds
<1>4. Cardinality(B) <= KeepLast
  BY DEF Fits
<1>5. Cardinality(A) <= KeepLast
  <2> HIDE DEF A, B
  <2> QED
    BY <1>2, <1>3, <1>4, KeepLastAssumption
<1> QED
  BY <1>5 DEF Fits

(* The plan of retention dooms only what may go, and leaves at most        *)
(* keep_last: the oldest backup it leaves has fewer newer ones.            *)
LEMMA DoomedSpared ==
  ASSUME NEW S \in SUBSET Ids
  PROVE  Doomed(S) \subseteq S /\ \A b \in Doomed(S) : Spared(b, S, Protected)
<1>1. \A b : Newer(b, S, Protected) = {c \in S \ (Foreign \union Protected) : c > b}
  BY DEF Newer, Unprotected
<1> QED
  BY <1>1 DEF Doomed, Spared

(* It leaves at most keep_last. *)
LEMMA DoomedFits ==
  ASSUME NEW S \in SUBSET Ids
  PROVE  Fits(S, Protected, Doomed(S))
<1> DEFINE U == Unprotected(S, Protected)
           R == U \ Doomed(S)
<1>1. U \in SUBSET Ids /\ R \in SUBSET Ids
  BY DEF Unprotected
<1>2. CASE R = {}
  BY <1>2, FS_EmptySet, KeepLastAssumption DEF Fits
<1>3. CASE R # {}
  <2> DEFINE m == Oldest(R)
             N == {c \in U : c > m}
  <2>1. m \in R /\ \A c \in R : m <= c
    BY <1>1, <1>3, OldestIn
  <2>2. N \in SUBSET Ids /\ IsFiniteSet(N) /\ Cardinality(N) \in Nat
    BY <1>1, FiniteIds
  <2>3. ~ (Cardinality(N) >= KeepLast)
    <3> HIDE DEF m
    <3> QED
      BY <2>1 DEF Doomed, Unprotected
  <2>4. R \subseteq N \union {m}
    <3> HIDE DEF m
    <3> QED
      BY <2>1, <1>1, BoundAssumption DEF Ids
  <2>5. IsFiniteSet(N \union {m}) /\ Cardinality(N \union {m}) <= Cardinality(N) + 1
    <3> HIDE DEF m, N
    <3> QED
      BY <2>2, FS_AddElement
  <2>6. Cardinality(R) <= Cardinality(N \union {m}) /\ Cardinality(R) \in Nat
    BY <2>4, <2>5, <1>1, FS_Subset, FiniteIds
  <2>7. Cardinality(N \union {m}) \in Nat
    BY <2>5, FS_CardinalityType
  <2>8. Cardinality(R) <= KeepLast
    <3> HIDE DEF m, N, R, U
    <3> QED
      BY <2>2, <2>3, <2>5, <2>6, <2>7, KeepLastAssumption
  <2> QED
    BY <2>8 DEF Fits
<1> QED
  BY <1>2, <1>3

-----------------------------------------------------------------------------
Unmarked == {"stage", "snapshot", "flush", "link", "unstage", "syncdb", "tmp", "mark"}
Publishing == Unmarked \cup {"untmp", "syncmark", "verify", "undo"}
Replicating ==
  {"upload", "readback", "commit", "committed", "dropjson", "dropdb", "activate"}
PurgingLocally == {"syncpurge", "purgedb", "syncpurged"}
PurgingRemotely == {"purgeobject", "prove"}
Retaining == {"purge", "retained"} \cup PurgingLocally \cup PurgingRemotely

Command ==
  [kind : {"none", "backup", "deploy"}, at : Stages, id : Nat, rehearsal : Nat,
   upload : BOOLEAN, doomed : SUBSET Ids, doomedRemote : SUBSET Ids]
Release == [rehearsal : used \union {0}, final : used \union {0}]
Counters == [crash : Nat, io : Nat, net : Nat, damage : Nat]

(* Everything the stores hold belongs to an identity that was given out. *)
Types ==
  /\ dir \subseteq FileKinds \X used
  /\ disk \subseteq FileKinds \X used
  /\ bytes \in [Ids -> {"none", "cached", "durable", "lost"}]
  /\ objects \in [Ids -> {"none", "good", "bad"}]
  /\ records \subseteq used
  /\ late \subseteq LateKinds \X used
  /\ policy \in {"disabled", "optional", "required"}
  /\ pointers \in [active : Release, previous : Release, lineage : BOOLEAN]
  /\ cmd \in Command
  /\ cmd.at # "idle" => cmd.id \in used
  /\ cmd.rehearsal \in used \union {0}
  /\ cmd.doomed \subseteq used /\ cmd.doomedRemote \subseteq used
  /\ used \subseteq Ids
  /\ reported \subseteq used
  /\ faults \in Counters

(* Both files of a backup are there for good, or gone for good. *)
Local(b) ==
  /\ <<"db", b>> \in dir /\ <<"db", b>> \in disk
  /\ <<"json", b>> \in dir /\ <<"json", b>> \in disk
  /\ bytes[b] = "durable"
Gone(b) ==
  /\ <<"db", b>> \notin dir /\ <<"db", b>> \notin disk
  /\ <<"json", b>> \notin dir /\ <<"json", b>> \notin disk

(* The backup of a command is nobody else's until its release is active. *)
Own ==
  /\ cmd.at \in Publishing => cmd.id \notin reported
  /\ cmd.at \in Publishing \cup Replicating => cmd.id \notin Protected
  /\ cmd.at \in Replicating => cmd.id \in reported
  /\ cmd.at # "idle" /\ cmd.kind = "deploy" /\ policy = "required" => cmd.upload = TRUE
  /\ cmd.at \notin Retaining => cmd.doomed = {} /\ cmd.doomedRemote = {}

(* How far the publication of a backup got tells which files it has. *)
Published ==
  /\ cmd.at \in Unmarked => <<"json", cmd.id>> \notin dir /\ <<"json", cmd.id>> \notin disk
  /\ cmd.at = "undo" /\ ~MarkerFaults =>
       <<"json", cmd.id>> \notin dir /\ <<"json", cmd.id>> \notin disk
  /\ cmd.at \in {"link", "unstage", "syncdb", "tmp", "mark", "untmp", "syncmark", "verify"} =>
       bytes[cmd.id] = "durable"
  /\ cmd.at \in {"unstage", "syncdb"} => <<"db", cmd.id>> \in dir
  /\ cmd.at \in {"tmp", "mark", "untmp", "syncmark", "verify"} =>
       <<"db", cmd.id>> \in dir /\ <<"db", cmd.id>> \in disk
  /\ cmd.at \in {"untmp", "syncmark", "verify"} => <<"json", cmd.id>> \in dir
  /\ cmd.at = "verify" => <<"json", cmd.id>> \in disk
  /\ cmd.at \in Replicating => Local(cmd.id)

(* Metadata, on either side of a power loss, has its database on both. *)
Marked ==
  ~MarkerFaults => \A b \in Ids :
    <<"json", b>> \in dir \union disk =>
      <<"db", b>> \in dir /\ <<"db", b>> \in disk /\ bytes[b] = "durable"

(* A reported backup has both files, or lost both. *)
Filed == \A b \in reported : Local(b) \/ Gone(b)

(* With at most one lost copy a reported backup has one left, and a        *)
(* referenced one is reported.                                             *)
Opening ==
  MaxDamage <= 1 =>
    /\ faults.damage <= 1
    /\ \A b \in reported : Gone(b) => faults.damage = 1 /\ OpensFromReplica(b)
    /\ Finals \subseteq reported

(* The replica of a required policy is complete once its release is active. *)
Replicated ==
  /\ cmd.at \in {"commit", "committed"} => objects[cmd.id] = "good"
  /\ policy = "required" /\ cmd.at = "activate" =>
       cmd.id \in records /\ objects[cmd.id] = "good"
  /\ policy = "required" => \A b \in Finals :
       b \in records /\ objects[b] # "none" /\ (faults.damage = 0 => objects[b] = "good")

(* What retention has chosen may go, and goes oldest first; what it has    *)
(* not chosen fits the policy.                                             *)
Chosen ==
  /\ \A b \in cmd.doomed : Spared(b, LocalInventory, Protected)
  /\ \A b \in cmd.doomedRemote : Spared(b, RemoteInventory, Protected)
  /\ cmd.at \in Retaining => Fits(LocalInventory, Protected, cmd.doomed)
  /\ cmd.at \in Retaining /\ "json" \notin LateKinds =>
       Fits(RemoteInventory, Protected, cmd.doomedRemote)
  /\ cmd.at \in PurgingLocally =>
       cmd.id \in cmd.doomed /\ cmd.id \notin reported /\ <<"json", cmd.id>> \notin dir
  /\ cmd.at \in {"purgedb", "syncpurged"} => <<"json", cmd.id>> \notin disk
  /\ cmd.at \in PurgingRemotely =>
       cmd.doomed = {} /\ cmd.id \in cmd.doomedRemote /\ cmd.id \notin reported
  /\ cmd.at = "retained" => cmd.doomed = {} /\ cmd.doomedRemote = {}

IInv ==
  Types /\ Own /\ Published /\ Marked /\ Filed /\ Opening /\ Replicated /\ Chosen

-----------------------------------------------------------------------------
(* Steps that leave the files alone keep what is known of them. *)
LEMMA FilesKept ==
  ASSUME Marked, Filed, UNCHANGED <<dir, disk, bytes, reported>>
  PROVE  Marked' /\ Filed'
BY DEF Marked, Filed, Local, Gone

(* So do steps that leave both stores and the pointers alone. *)
LEMMA OpeningKept ==
  ASSUME Opening, UNCHANGED <<dir, disk, objects, records, policy, pointers, reported>>,
         faults'.damage = faults.damage
  PROVE  Opening'
BY DEF Opening, Gone, OpensFromReplica, Finals

(* A step that is none of a replication keeps the replicas. *)
LEMMA ReplicatedKept ==
  ASSUME Replicated, UNCHANGED <<objects, records, policy, pointers>>,
         faults'.damage = faults.damage, cmd'.at \notin {"commit", "committed", "activate"}
  PROVE  Replicated'
BY DEF Replicated, Finals

(* A command that ended has nothing of its own. *)
LEMMA IdleKept == ASSUME cmd' = Idle PROVE Own' /\ Published' /\ Chosen'
BY DEF Idle, Own, Published, Chosen, Publishing, Unmarked, Replicating, Retaining,
    PurgingLocally, PurgingRemotely

(* Before and after retention nothing is chosen. *)
LEMMA NothingChosen ==
  ASSUME cmd'.at \notin Retaining, cmd'.doomed = {}, cmd'.doomedRemote = {}
  PROVE  Chosen'
BY DEF Chosen, Retaining, PurgingLocally, PurgingRemotely

(* Every step keeps the invariant. *)
LEMMA NextInvariant == IInv /\ [Next]_vars => IInv'
<1> SUFFICES ASSUME IInv, [Next]_vars PROVE IInv'
  OBVIOUS
<1>a. Types /\ Own /\ Published /\ Marked /\ Filed /\ Opening /\ Replicated /\ Chosen
  BY DEF IInv
<1>1. ASSUME NEW kind \in {"backup", "deploy"}, Begin(kind) PROVE IInv'
  <2>1. Fresh # {} /\ Oldest(Fresh) \in Ids /\ Oldest(Fresh) \notin used
    BY <1>1, OldestIn DEF Begin, Fresh
  <2>2. /\ cmd' \in Command /\ cmd'.at = "stage" /\ cmd'.id = Oldest(Fresh)
        /\ cmd'.rehearsal \in used' \union {0} /\ cmd'.doomed = {} /\ cmd'.doomedRemote = {}
        /\ cmd'.kind = "deploy" /\ policy = "required" => cmd'.upload = TRUE
    <3>1. PICK upload \in BOOLEAN :
            /\ kind = "deploy" => upload = (policy = "required")
            /\ cmd' = [Idle EXCEPT !.kind = kind, !.at = "stage", !.id = Oldest(Fresh),
                                   !.upload = upload]
      BY <1>1 DEF Begin
    <3>2. Oldest(Fresh) \in Nat
      BY <2>1, BoundAssumption DEF Ids
    <3>3. CASE upload = TRUE
      BY <3>1, <3>2, <3>3 DEF Command, Stages, Idle
    <3>4. CASE upload = FALSE
      BY <3>1, <3>2, <3>4 DEF Command, Stages, Idle
    <3> QED
      BY <3>3, <3>4
  <2>3. Types'
    BY <2>1, <2>2, <1>1, <1>a DEF Begin, Types, Release, localVars, remoteVars, FileKinds
  <2>4. Own'
    BY <2>1, <2>2, <1>1, <1>a DEF Begin, Own, Types, Release, Protected, Publishing, Unmarked,
        Replicating, Retaining, PurgingLocally, PurgingRemotely
  <2>5. Published'
    BY <2>1, <2>2, <1>1, <1>a DEF Begin, Idle, localVars, remoteVars, Published, Own, Types,
        Command, Local, Unmarked, Replicating
  <2>6. Chosen'
    BY <1>1, <1>a, NothingChosen DEF Begin, Idle, Own, Types, Command, Retaining,
        PurgingLocally, PurgingRemotely
  <2>7. Marked' /\ Filed'
    BY <1>1, <1>a, FilesKept DEF Begin, localVars
  <2>8. Opening'
    BY <1>1, <1>a, OpeningKept DEF Begin, localVars, remoteVars
  <2>9. Replicated'
    BY <1>1, <1>a, ReplicatedKept DEF Begin, Idle, localVars, remoteVars, Types, Command
  <2> QED
    BY <2>3, <2>4, <2>5, <2>6, <2>7, <2>8, <2>9 DEF IInv
<1>2. ASSUME CreateStaging PROVE IInv'
  <2>1. Types'
    BY <1>2, <1>a DEF CreateStaging, Goto, remoteVars, commandVars, Types, Command, Counters,
        Release, FileKinds, Stages
  <2>2. Own'
    BY <1>2, <1>a DEF CreateStaging, Goto, remoteVars, commandVars, Own, Types, Command,
        Protected, Publishing, Unmarked, Replicating, Retaining, PurgingLocally,
        PurgingRemotely
  <2>3. Published'
    BY <1>2, <1>a DEF CreateStaging, Goto, remoteVars, commandVars, Published, Own, Types,
        Command, Local, Unmarked, Replicating
  <2>4. Marked'
    BY <1>2, <1>a DEF CreateStaging, Goto, remoteVars, commandVars, Marked, Published, Types,
        Command, Unmarked, Publishing
  <2>5. Filed'
    BY <1>2, <1>a DEF CreateStaging, Goto, remoteVars, commandVars, Filed, Own, Published,
        Types, Command, Local, Gone, Publishing, Unmarked
  <2>6. Opening'
    BY <1>2, <1>a DEF CreateStaging, Goto, remoteVars, commandVars, Opening, Filed, Own, Types,
        Command, Counters, Local, Gone, Finals, OpensFromReplica
  <2>7. Replicated'
    BY <1>2, <1>a, ReplicatedKept DEF CreateStaging, Goto, remoteVars, commandVars, Types, Command
  <2>8. Chosen'
    BY <1>2, <1>a, NothingChosen DEF CreateStaging, Goto, Own, Types, Command, Retaining,
        PurgingLocally, PurgingRemotely
  <2> QED
    BY <2>1, <2>2, <2>3, <2>4, <2>5, <2>6, <2>7, <2>8 DEF IInv
<1>3. ASSUME Snapshot PROVE IInv'
  <2>1. Types'
    BY <1>3, <1>a DEF Snapshot, Goto, remoteVars, commandVars, Types, Command, Counters,
        Release, FileKinds, Stages
  <2>2. Own'
    BY <1>3, <1>a DEF Snapshot, Goto, remoteVars, commandVars, Own, Types, Command, Protected,
        Publishing, Unmarked, Replicating, Retaining, PurgingLocally, PurgingRemotely
  <2>3. Published'
    BY <1>3, <1>a DEF Snapshot, Goto, remoteVars, commandVars, Published, Own, Types, Command,
        Local, Unmarked, Replicating
  <2>4. Marked'
    BY <1>3, <1>a DEF Snapshot, Goto, remoteVars, commandVars, Marked, Published, Types,
        Command, Unmarked, Publishing
  <2>5. Filed'
    BY <1>3, <1>a DEF Snapshot, Goto, remoteVars, commandVars, Filed, Own, Published, Types,
        Command, Local, Gone, Publishing, Unmarked
  <2>6. Opening'
    BY <1>3, <1>a, OpeningKept DEF Snapshot, remoteVars, commandVars
  <2>7. Replicated'
    BY <1>3, <1>a, ReplicatedKept DEF Snapshot, Goto, remoteVars, commandVars, Types, Command
  <2>8. Chosen'
    BY <1>3, <1>a, NothingChosen DEF Snapshot, Goto, Own, Types, Command, Retaining,
        PurgingLocally, PurgingRemotely
  <2> QED
    BY <2>1, <2>2, <2>3, <2>4, <2>5, <2>6, <2>7, <2>8 DEF IInv
<1>4. ASSUME FlushSnapshot PROVE IInv'
  <2>1. Types'
    BY <1>4, <1>a DEF FlushSnapshot, Goto, remoteVars, commandVars, Types, Command, Counters,
        Release, FileKinds, Stages
  <2>2. Own'
    BY <1>4, <1>a DEF FlushSnapshot, Goto, remoteVars, commandVars, Own, Types, Command,
        Protected, Publishing, Unmarked, Replicating, Retaining, PurgingLocally,
        PurgingRemotely
  <2>3. Published'
    BY <1>4, <1>a DEF FlushSnapshot, Goto, remoteVars, commandVars, Published, Own, Types,
        Command, Local, Unmarked, Replicating
  <2>4. Marked'
    BY <1>4, <1>a DEF FlushSnapshot, Goto, remoteVars, commandVars, Marked, Published, Types,
        Command, Unmarked, Publishing
  <2>5. Filed'
    BY <1>4, <1>a DEF FlushSnapshot, Goto, remoteVars, commandVars, Filed, Own, Published,
        Types, Command, Local, Gone, Publishing, Unmarked
  <2>6. Opening'
    BY <1>4, <1>a, OpeningKept DEF FlushSnapshot, remoteVars, commandVars
  <2>7. Replicated'
    BY <1>4, <1>a, ReplicatedKept DEF FlushSnapshot, Goto, remoteVars, commandVars, Types, Command
  <2>8. Chosen'
    BY <1>4, <1>a, NothingChosen DEF FlushSnapshot, Goto, Own, Types, Command, Retaining,
        PurgingLocally, PurgingRemotely
  <2> QED
    BY <2>1, <2>2, <2>3, <2>4, <2>5, <2>6, <2>7, <2>8 DEF IInv
<1>5. ASSUME LinkDatabase PROVE IInv'
  <2>1. Types'
    BY <1>5, <1>a DEF LinkDatabase, Goto, remoteVars, commandVars, Types, Command, Counters,
        Release, FileKinds, Stages
  <2>2. Own'
    BY <1>5, <1>a DEF LinkDatabase, Goto, remoteVars, commandVars, Own, Types, Command,
        Protected, Publishing, Unmarked, Replicating, Retaining, PurgingLocally,
        PurgingRemotely
  <2>3. Published'
    BY <1>5, <1>a DEF LinkDatabase, Goto, remoteVars, commandVars, Published, Own, Types,
        Command, Local, Unmarked, Replicating
  <2>4. Marked'
    BY <1>5, <1>a DEF LinkDatabase, Goto, remoteVars, commandVars, Marked, Published, Types,
        Command, Unmarked, Publishing
  <2>5. Filed'
    BY <1>5, <1>a DEF LinkDatabase, Goto, remoteVars, commandVars, Filed, Own, Published,
        Types, Command, Local, Gone, Publishing, Unmarked
  <2>6. Opening'
    BY <1>5, <1>a DEF LinkDatabase, Goto, remoteVars, commandVars, Opening, Filed, Own, Types,
        Command, Counters, Local, Gone, Finals, OpensFromReplica
  <2>7. Replicated'
    BY <1>5, <1>a, ReplicatedKept DEF LinkDatabase, Goto, remoteVars, commandVars, Types, Command
  <2>8. Chosen'
    BY <1>5, <1>a, NothingChosen DEF LinkDatabase, Goto, Own, Types, Command, Retaining,
        PurgingLocally, PurgingRemotely
  <2> QED
    BY <2>1, <2>2, <2>3, <2>4, <2>5, <2>6, <2>7, <2>8 DEF IInv
<1>6. ASSUME UnlinkStaging PROVE IInv'
  <2>1. Types'
    BY <1>6, <1>a DEF UnlinkStaging, Goto, remoteVars, commandVars, Types, Command, Counters,
        Release, FileKinds, Stages
  <2>2. Own'
    BY <1>6, <1>a DEF UnlinkStaging, Goto, remoteVars, commandVars, Own, Types, Command,
        Protected, Publishing, Unmarked, Replicating, Retaining, PurgingLocally,
        PurgingRemotely
  <2>3. Published'
    BY <1>6, <1>a DEF UnlinkStaging, Goto, remoteVars, commandVars, Published, Own, Types,
        Command, Local, Unmarked, Replicating
  <2>4. Marked'
    BY <1>6, <1>a DEF UnlinkStaging, Goto, remoteVars, commandVars, Marked, Published, Types,
        Command, Unmarked, Publishing
  <2>5. Filed'
    BY <1>6, <1>a DEF UnlinkStaging, Goto, remoteVars, commandVars, Filed, Own, Published,
        Types, Command, Local, Gone, Publishing, Unmarked
  <2>6. Opening'
    BY <1>6, <1>a DEF UnlinkStaging, Goto, remoteVars, commandVars, Opening, Filed, Own, Types,
        Command, Counters, Local, Gone, Finals, OpensFromReplica
  <2>7. Replicated'
    BY <1>6, <1>a, ReplicatedKept DEF UnlinkStaging, Goto, remoteVars, commandVars, Types, Command
  <2>8. Chosen'
    BY <1>6, <1>a, NothingChosen DEF UnlinkStaging, Goto, Own, Types, Command, Retaining,
        PurgingLocally, PurgingRemotely
  <2> QED
    BY <2>1, <2>2, <2>3, <2>4, <2>5, <2>6, <2>7, <2>8 DEF IInv
<1>7. ASSUME SyncDatabase PROVE IInv'
  <2>1. Types'
    BY <1>7, <1>a DEF SyncDatabase, Goto, remoteVars, commandVars, Types, Command, Counters,
        Release, FileKinds, Stages
  <2>2. Own'
    BY <1>7, <1>a DEF SyncDatabase, Goto, remoteVars, commandVars, Own, Types, Command,
        Protected, Publishing, Unmarked, Replicating, Retaining, PurgingLocally,
        PurgingRemotely
  <2>3. Published'
    BY <1>7, <1>a DEF SyncDatabase, Goto, remoteVars, commandVars, Published, Own, Types,
        Command, Local, Unmarked, Replicating
  <2>4. Marked'
    BY <1>7, <1>a DEF SyncDatabase, Goto, remoteVars, commandVars, Marked, Published, Types,
        Command, Unmarked, Publishing
  <2>5. Filed'
    BY <1>7, <1>a DEF SyncDatabase, Goto, remoteVars, commandVars, Filed, Own, Published,
        Types, Command, Local, Gone, Publishing, Unmarked
  <2>6. Opening'
    BY <1>7, <1>a DEF SyncDatabase, Goto, remoteVars, commandVars, Opening, Filed, Own, Types,
        Command, Counters, Local, Gone, Finals, OpensFromReplica
  <2>7. Replicated'
    BY <1>7, <1>a, ReplicatedKept DEF SyncDatabase, Goto, remoteVars, commandVars, Types, Command
  <2>8. Chosen'
    BY <1>7, <1>a, NothingChosen DEF SyncDatabase, Goto, Own, Types, Command, Retaining,
        PurgingLocally, PurgingRemotely
  <2> QED
    BY <2>1, <2>2, <2>3, <2>4, <2>5, <2>6, <2>7, <2>8 DEF IInv
<1>8. ASSUME WriteMetadata PROVE IInv'
  <2>1. Types'
    BY <1>8, <1>a DEF WriteMetadata, Goto, remoteVars, commandVars, Types, Command, Counters,
        Release, FileKinds, Stages
  <2>2. Own'
    BY <1>8, <1>a DEF WriteMetadata, Goto, remoteVars, commandVars, Own, Types, Command,
        Protected, Publishing, Unmarked, Replicating, Retaining, PurgingLocally,
        PurgingRemotely
  <2>3. Published'
    BY <1>8, <1>a DEF WriteMetadata, Goto, remoteVars, commandVars, Published, Own, Types,
        Command, Local, Unmarked, Replicating
  <2>4. Marked'
    BY <1>8, <1>a DEF WriteMetadata, Goto, remoteVars, commandVars, Marked, Published, Types,
        Command, Unmarked, Publishing
  <2>5. Filed'
    BY <1>8, <1>a DEF WriteMetadata, Goto, remoteVars, commandVars, Filed, Own, Published,
        Types, Command, Local, Gone, Publishing, Unmarked
  <2>6. Opening'
    BY <1>8, <1>a DEF WriteMetadata, Goto, remoteVars, commandVars, Opening, Filed, Own, Types,
        Command, Counters, Local, Gone, Finals, OpensFromReplica
  <2>7. Replicated'
    BY <1>8, <1>a, ReplicatedKept DEF WriteMetadata, Goto, remoteVars, commandVars, Types, Command
  <2>8. Chosen'
    BY <1>8, <1>a, NothingChosen DEF WriteMetadata, Goto, Own, Types, Command, Retaining,
        PurgingLocally, PurgingRemotely
  <2> QED
    BY <2>1, <2>2, <2>3, <2>4, <2>5, <2>6, <2>7, <2>8 DEF IInv
<1>9. ASSUME LinkMetadata PROVE IInv'
  <2>1. Types'
    BY <1>9, <1>a DEF LinkMetadata, Goto, remoteVars, commandVars, Types, Command, Counters,
        Release, FileKinds, Stages
  <2>2. Own'
    BY <1>9, <1>a DEF LinkMetadata, Goto, remoteVars, commandVars, Own, Types, Command,
        Protected, Publishing, Unmarked, Replicating, Retaining, PurgingLocally,
        PurgingRemotely
  <2>3. Published'
    BY <1>9, <1>a DEF LinkMetadata, Goto, remoteVars, commandVars, Published, Own, Types,
        Command, Local, Unmarked, Replicating
  <2>4. Marked'
    BY <1>9, <1>a DEF LinkMetadata, Goto, remoteVars, commandVars, Marked, Published, Types,
        Command, Unmarked, Publishing
  <2>5. Filed'
    BY <1>9, <1>a DEF LinkMetadata, Goto, remoteVars, commandVars, Filed, Own, Published,
        Types, Command, Local, Gone, Publishing, Unmarked
  <2>6. Opening'
    BY <1>9, <1>a DEF LinkMetadata, Goto, remoteVars, commandVars, Opening, Filed, Own, Types,
        Command, Counters, Local, Gone, Finals, OpensFromReplica
  <2>7. Replicated'
    BY <1>9, <1>a, ReplicatedKept DEF LinkMetadata, Goto, remoteVars, commandVars, Types, Command
  <2>8. Chosen'
    BY <1>9, <1>a, NothingChosen DEF LinkMetadata, Goto, Own, Types, Command, Retaining,
        PurgingLocally, PurgingRemotely
  <2> QED
    BY <2>1, <2>2, <2>3, <2>4, <2>5, <2>6, <2>7, <2>8 DEF IInv
<1>10. ASSUME UnlinkTemporary PROVE IInv'
  <2>1. Types'
    BY <1>10, <1>a DEF UnlinkTemporary, Goto, remoteVars, commandVars, Types, Command,
        Counters, Release, FileKinds, Stages
  <2>2. Own'
    BY <1>10, <1>a DEF UnlinkTemporary, Goto, remoteVars, commandVars, Own, Types, Command,
        Protected, Publishing, Unmarked, Replicating, Retaining, PurgingLocally,
        PurgingRemotely
  <2>3. Published'
    BY <1>10, <1>a DEF UnlinkTemporary, Goto, remoteVars, commandVars, Published, Own, Types,
        Command, Local, Unmarked, Replicating
  <2>4. Marked'
    BY <1>10, <1>a DEF UnlinkTemporary, Goto, remoteVars, commandVars, Marked, Published,
        Types, Command, Unmarked, Publishing
  <2>5. Filed'
    BY <1>10, <1>a DEF UnlinkTemporary, Goto, remoteVars, commandVars, Filed, Own, Published,
        Types, Command, Local, Gone, Publishing, Unmarked
  <2>6. Opening'
    BY <1>10, <1>a DEF UnlinkTemporary, Goto, remoteVars, commandVars, Opening, Filed, Own,
        Types, Command, Counters, Local, Gone, Finals, OpensFromReplica
  <2>7. Replicated'
    BY <1>10, <1>a, ReplicatedKept DEF UnlinkTemporary, Goto, remoteVars, commandVars, Types,
        Command
  <2>8. Chosen'
    BY <1>10, <1>a, NothingChosen DEF UnlinkTemporary, Goto, Own, Types, Command, Retaining,
        PurgingLocally, PurgingRemotely
  <2> QED
    BY <2>1, <2>2, <2>3, <2>4, <2>5, <2>6, <2>7, <2>8 DEF IInv
<1>11. ASSUME SyncMetadata PROVE IInv'
  <2>1. Types'
    BY <1>11, <1>a DEF SyncMetadata, Goto, remoteVars, commandVars, Types, Command, Counters,
        Release, FileKinds, Stages
  <2>2. Own'
    BY <1>11, <1>a DEF SyncMetadata, Goto, remoteVars, commandVars, Own, Types, Command,
        Protected, Publishing, Unmarked, Replicating, Retaining, PurgingLocally,
        PurgingRemotely
  <2>3. Published'
    BY <1>11, <1>a DEF SyncMetadata, Goto, remoteVars, commandVars, Published, Own, Types,
        Command, Local, Unmarked, Replicating
  <2>4. Marked'
    BY <1>11, <1>a DEF SyncMetadata, Goto, remoteVars, commandVars, Marked, Published, Types,
        Command, Unmarked, Publishing
  <2>5. Filed'
    BY <1>11, <1>a DEF SyncMetadata, Goto, remoteVars, commandVars, Filed, Own, Published,
        Types, Command, Local, Gone, Publishing, Unmarked
  <2>6. Opening'
    BY <1>11, <1>a DEF SyncMetadata, Goto, remoteVars, commandVars, Opening, Filed, Own, Types,
        Command, Counters, Local, Gone, Finals, OpensFromReplica
  <2>7. Replicated'
    BY <1>11, <1>a, ReplicatedKept DEF SyncMetadata, Goto, remoteVars, commandVars, Types, Command
  <2>8. Chosen'
    BY <1>11, <1>a, NothingChosen DEF SyncMetadata, Goto, Own, Types, Command, Retaining,
        PurgingLocally, PurgingRemotely
  <2> QED
    BY <2>1, <2>2, <2>3, <2>4, <2>5, <2>6, <2>7, <2>8 DEF IInv
<1>12. ASSUME VerifyRehearsal PROVE IInv'
  <2>1. Fresh # {} /\ Oldest(Fresh) \in Ids /\ Oldest(Fresh) \notin used
    BY <1>12, OldestIn DEF VerifyRehearsal, Fresh
  <2>2. /\ cmd' \in Command /\ cmd'.at = "stage" /\ cmd'.id = Oldest(Fresh)
        /\ cmd'.rehearsal \in used' \union {0} /\ cmd'.doomed = {} /\ cmd'.doomedRemote = {}
        /\ cmd'.kind = "deploy" /\ policy = "required" => cmd'.upload = TRUE
    <3>1. Oldest(Fresh) \in Nat
      BY <2>1, BoundAssumption DEF Ids
    <3>2. cmd.doomed = {} /\ cmd.doomedRemote = {}
      BY <1>12, <1>a DEF VerifyRehearsal, Own, Retaining, PurgingLocally, PurgingRemotely
    <3> QED
      BY <1>12, <3>1, <3>2, <1>a DEF VerifyRehearsal, Own, Types, Command, Stages
  <2>3. Types'
    BY <2>1, <2>2, <1>12, <1>a DEF VerifyRehearsal, Types, Release, localVars, remoteVars,
        FileKinds
  <2>4. Own'
    BY <2>1, <2>2, <1>12, <1>a DEF VerifyRehearsal, Own, Types, Release, Protected, Publishing,
        Unmarked,
        Replicating, Retaining, PurgingLocally, PurgingRemotely
  <2>5. Published'
    BY <2>1, <2>2, <1>12, <1>a DEF VerifyRehearsal, OpensLocally, localVars, remoteVars,
        Published, Own, Types, Command, Local, Unmarked, Replicating
  <2>6. Marked'
    BY <2>1, <2>2, <1>12, <1>a DEF VerifyRehearsal, OpensLocally, localVars, remoteVars,
        Marked, Published, Types, Command, Unmarked, Publishing
  <2>7. Filed'
    BY <2>1, <2>2, <1>12, <1>a DEF VerifyRehearsal, OpensLocally, localVars, remoteVars, Filed,
        Own, Published, Types, Command, Local, Gone, Publishing, Unmarked
  <2>8. Opening'
    BY <2>1, <2>2, <1>12, <1>a DEF VerifyRehearsal, OpensLocally, localVars, remoteVars,
        Opening, Filed, Own, Types, Command, Counters, Local, Gone, Finals, OpensFromReplica
  <2>9. Replicated'
    BY <1>12, <1>a, ReplicatedKept DEF VerifyRehearsal, localVars, remoteVars, Types, Command
  <2>10. Chosen'
    BY <1>12, <1>a, NothingChosen DEF VerifyRehearsal, Own, Types, Command, Retaining,
        PurgingLocally, PurgingRemotely
  <2> QED
    BY <2>3, <2>4, <2>5, <2>6, <2>7, <2>8, <2>9, <2>10 DEF IInv
<1>13. ASSUME VerifyBackup PROVE IInv'
  <2>1. Types'
    BY <1>13, <1>a DEF VerifyBackup, Idle, OpensLocally, localVars, remoteVars, Types, Command,
        Counters, Release, FileKinds, Stages
  <2>2. Own'
    BY <1>13, <1>a DEF VerifyBackup, Idle, OpensLocally, localVars, remoteVars, Own, Types,
        Command, Protected, Publishing, Unmarked, Replicating, Retaining, PurgingLocally,
        PurgingRemotely
  <2>3. Published'
    BY <1>13, <1>a DEF VerifyBackup, Idle, OpensLocally, localVars, remoteVars, Published, Own,
        Types, Command, Local, Unmarked, Replicating
  <2>4. Chosen'
    BY <1>13, <1>a, NothingChosen DEF VerifyBackup, Idle, Own, Types, Command, Retaining,
        PurgingLocally, PurgingRemotely
  <2>5. Marked'
    BY <1>13, <1>a DEF VerifyBackup, Idle, OpensLocally, localVars, remoteVars, Marked,
        Published, Types, Command, Unmarked, Publishing
  <2>6. Filed'
    BY <1>13, <1>a DEF VerifyBackup, Idle, OpensLocally, localVars, remoteVars, Filed, Own,
        Published, Types, Command, Local, Gone, Publishing, Unmarked
  <2>7. Opening'
    BY <1>13, <1>a DEF VerifyBackup, Idle, OpensLocally, localVars, remoteVars, Opening, Filed,
        Own, Types, Command, Counters, Local, Gone, Finals, OpensFromReplica
  <2>8. Replicated'
    BY <1>13, <1>a DEF VerifyBackup, Idle, OpensLocally, localVars, remoteVars, Replicated,
        Own, Types, Command, Counters, Finals, Protected, Publishing, Unmarked, Replicating
  <2> QED
    BY <2>1, <2>2, <2>3, <2>4, <2>5, <2>6, <2>7, <2>8 DEF IInv
<1>14. ASSUME PreparationFails PROVE IInv'
  <2>1. Types'
    BY <1>14, <1>a DEF PreparationFails, Fault, IOMayFail, MayFault, Idle, remoteVars,
        commandVars, Types, Command, Counters, Release, FileKinds, Stages
  <2>2. Own' /\ Published' /\ Chosen'
    BY <1>14, IdleKept DEF PreparationFails
  <2>3. Marked'
    BY <1>14, <1>a DEF PreparationFails, Idle, remoteVars, commandVars, Marked, Published,
        Types, Command, Unmarked, Publishing
  <2>4. Filed'
    BY <1>14, <1>a DEF PreparationFails, Idle, remoteVars, commandVars, Filed, Own, Published,
        Types, Command, Local, Gone, Publishing, Unmarked
  <2>5. Opening'
    BY <1>14, <1>a DEF PreparationFails, Fault, IOMayFail, MayFault, Idle, remoteVars,
        commandVars, Opening, Filed, Own, Types, Command, Counters, Local, Gone, Finals,
        OpensFromReplica
  <2>6. Replicated'
    BY <1>14, <1>a, ReplicatedKept DEF PreparationFails, Fault, Idle, remoteVars, commandVars,
        Types, Command, Counters
  <2> QED
    BY <2>1, <2>2, <2>3, <2>4, <2>5, <2>6 DEF IInv
<1>15. ASSUME PublicationFails PROVE IInv'
  <2>1. Types'
    BY <1>15, <1>a DEF PublicationFails, Goto, Fault, IOMayFail, MayFault, remoteVars,
        commandVars, Types, Command, Counters, Release, FileKinds, Stages
  <2>2. Own'
    BY <1>15, <1>a DEF PublicationFails, Goto, remoteVars, commandVars, Own, Types, Command,
        Protected, Publishing, Unmarked, Replicating, Retaining, PurgingLocally,
        PurgingRemotely
  <2>3. Published'
    BY <1>15, <1>a DEF PublicationFails, Goto, remoteVars, commandVars, Published, Own, Types,
        Command, Local, Unmarked, Replicating
  <2>4. Marked'
    BY <1>15, <1>a DEF PublicationFails, Goto, remoteVars, commandVars, Marked, Published,
        Types, Command, Unmarked, Publishing
  <2>5. Filed'
    BY <1>15, <1>a DEF PublicationFails, Goto, remoteVars, commandVars, Filed, Own, Published,
        Types, Command, Local, Gone, Publishing, Unmarked
  <2>6. Opening'
    BY <1>15, <1>a DEF PublicationFails, Goto, Fault, IOMayFail, MayFault, remoteVars,
        commandVars, Opening, Filed, Own, Types, Command, Counters, Local, Gone, Finals,
        OpensFromReplica
  <2>7. Replicated'
    BY <1>15, <1>a, ReplicatedKept DEF PublicationFails, Goto, Fault, remoteVars, commandVars,
        Types, Command, Counters
  <2>8. Chosen'
    BY <1>15, <1>a, NothingChosen DEF PublicationFails, Goto, Own, Types, Command, Retaining,
        PurgingLocally, PurgingRemotely
  <2> QED
    BY <2>1, <2>2, <2>3, <2>4, <2>5, <2>6, <2>7, <2>8 DEF IInv
<1>16. ASSUME UndoPublication PROVE IInv'
  <2>1. Types'
    BY <1>16, <1>a DEF UndoPublication, Idle, remoteVars, commandVars, Types, Command,
        Counters, Release, FileKinds, Stages
  <2>2. Own' /\ Published' /\ Chosen'
    BY <1>16, IdleKept DEF UndoPublication
  <2>3. Marked'
    BY <1>16, <1>a DEF UndoPublication, Idle, remoteVars, commandVars, Marked, Published,
        Types, Command, Unmarked, Publishing
  <2>4. Filed'
    BY <1>16, <1>a DEF UndoPublication, Idle, remoteVars, commandVars, Filed, Own, Published,
        Types, Command, Local, Gone, Publishing, Unmarked
  <2>5. Opening'
    BY <1>16, <1>a DEF UndoPublication, Idle, remoteVars, commandVars, Opening, Filed, Own,
        Types, Command, Counters, Local, Gone, Finals, OpensFromReplica
  <2>6. Replicated'
    BY <1>16, <1>a, ReplicatedKept DEF UndoPublication, Idle, remoteVars, commandVars, Types,
        Command
  <2> QED
    BY <2>1, <2>2, <2>3, <2>4, <2>5, <2>6 DEF IInv
<1>17. ASSUME UndoFails PROVE IInv'
  <2>1. Types'
    BY <1>17, <1>a DEF UndoFails, Fault, IOMayFail, MayFault, Idle, remoteVars, commandVars,
        Types, Command, Counters, Release, FileKinds, Stages
  <2>2. Own' /\ Published' /\ Chosen'
    BY <1>17, IdleKept DEF UndoFails
  <2>3. Marked'
    BY <1>17, <1>a DEF UndoFails, Idle, remoteVars, commandVars, Marked, Published, Types,
        Command, Unmarked, Publishing
  <2>4. Filed'
    BY <1>17, <1>a DEF UndoFails, Idle, remoteVars, commandVars, Filed, Own, Published, Types,
        Command, Local, Gone, Publishing, Unmarked
  <2>5. Opening'
    BY <1>17, <1>a DEF UndoFails, Fault, IOMayFail, MayFault, Idle, remoteVars, commandVars,
        Opening, Filed, Own, Types, Command, Counters, Local, Gone, Finals, OpensFromReplica
  <2>6. Replicated'
    BY <1>17, <1>a, ReplicatedKept DEF UndoFails, Fault, Idle, remoteVars, commandVars, Types,
        Command, Counters
  <2> QED
    BY <2>1, <2>2, <2>3, <2>4, <2>5, <2>6 DEF IInv
<1>18. ASSUME UploadDatabase PROVE IInv'
  <2>1. Types'
    BY <1>18, <1>a DEF UploadDatabase, Goto, localVars, commandVars, Types, Command, Counters,
        Release, FileKinds, Stages
  <2>2. Own'
    BY <1>18, <1>a DEF UploadDatabase, Goto, localVars, commandVars, Own, Types, Command,
        Protected, Publishing, Unmarked, Replicating, Retaining, PurgingLocally,
        PurgingRemotely
  <2>3. Published'
    BY <1>18, <1>a DEF UploadDatabase, Goto, localVars, commandVars, Published, Own, Types,
        Command, Local, Unmarked, Replicating
  <2>4. Marked' /\ Filed'
    BY <1>18, <1>a, FilesKept DEF UploadDatabase, localVars, commandVars
  <2>5. Opening'
    BY <1>18, <1>a DEF UploadDatabase, Goto, localVars, commandVars, Opening, Filed, Own,
        Types, Command, Counters, Local, Gone, Finals, OpensFromReplica
  <2>6. Replicated'
    BY <1>18, <1>a DEF UploadDatabase, Goto, localVars, commandVars, Replicated, Own, Types,
        Command, Counters, Finals, Protected, Publishing, Unmarked, Replicating
  <2>7. Chosen'
    BY <1>18, <1>a, NothingChosen DEF UploadDatabase, Goto, Own, Types, Command, Retaining,
        PurgingLocally, PurgingRemotely
  <2> QED
    BY <2>1, <2>2, <2>3, <2>4, <2>5, <2>6, <2>7 DEF IInv
<1>19. ASSUME UploadDatabaseFails PROVE IInv'
  <2>1. Types'
    BY <1>19, <1>a DEF UploadDatabaseFails, Fault, NetMayFail, MayFault, Idle, localVars,
        commandVars, Types, Command, Counters, Release, FileKinds, Stages
  <2>2. Own' /\ Published' /\ Chosen'
    BY <1>19, IdleKept DEF UploadDatabaseFails
  <2>3. Marked' /\ Filed'
    BY <1>19, <1>a, FilesKept DEF UploadDatabaseFails, localVars, commandVars
  <2>4. Opening'
    BY <1>19, <1>a DEF UploadDatabaseFails, Fault, NetMayFail, MayFault, Idle, localVars,
        commandVars, Opening, Filed, Own, Types, Command, Counters, Local, Gone, Finals,
        OpensFromReplica
  <2>5. Replicated'
    BY <1>19, <1>a DEF UploadDatabaseFails, Fault, NetMayFail, MayFault, Idle, localVars,
        commandVars, Replicated, Own, Types, Command, Counters, Finals, Protected, Publishing,
        Unmarked, Replicating
  <2> QED
    BY <2>1, <2>2, <2>3, <2>4, <2>5 DEF IInv
<1>20. ASSUME ReadBack PROVE IInv'
  <2>1. Types'
    BY <1>20, <1>a DEF ReadBack, Goto, localVars, remoteVars, commandVars, Types, Command,
        Counters, Release, FileKinds, Stages
  <2>2. Own'
    BY <1>20, <1>a DEF ReadBack, Goto, localVars, remoteVars, commandVars, Own, Types, Command,
        Protected, Publishing, Unmarked, Replicating, Retaining, PurgingLocally,
        PurgingRemotely
  <2>3. Published'
    BY <1>20, <1>a DEF ReadBack, Goto, localVars, remoteVars, commandVars, Published, Own,
        Types, Command, Local, Unmarked, Replicating
  <2>4. Marked' /\ Filed'
    BY <1>20, <1>a, FilesKept DEF ReadBack, localVars, commandVars
  <2>5. Opening'
    BY <1>20, <1>a, OpeningKept DEF ReadBack, localVars, remoteVars, commandVars
  <2>6. Replicated'
    BY <1>20, <1>a DEF ReadBack, Goto, localVars, remoteVars, commandVars, Replicated, Own,
        Types, Command, Counters, Finals, Protected, Publishing, Unmarked, Replicating
  <2>7. Chosen'
    BY <1>20, <1>a, NothingChosen DEF ReadBack, Goto, Own, Types, Command, Retaining,
        PurgingLocally, PurgingRemotely
  <2> QED
    BY <2>1, <2>2, <2>3, <2>4, <2>5, <2>6, <2>7 DEF IInv
<1>21. ASSUME UploadMetadata PROVE IInv'
  <2>1. Types'
    BY <1>21, <1>a DEF UploadMetadata, Goto, localVars, commandVars, Types, Command, Counters,
        Release, FileKinds, Stages
  <2>2. Own'
    BY <1>21, <1>a DEF UploadMetadata, Goto, localVars, commandVars, Own, Types, Command,
        Protected, Publishing, Unmarked, Replicating, Retaining, PurgingLocally,
        PurgingRemotely
  <2>3. Published'
    BY <1>21, <1>a DEF UploadMetadata, Goto, localVars, commandVars, Published, Own, Types,
        Command, Local, Unmarked, Replicating
  <2>4. Marked' /\ Filed'
    BY <1>21, <1>a, FilesKept DEF UploadMetadata, localVars, commandVars
  <2>5. Opening'
    BY <1>21, <1>a DEF UploadMetadata, Goto, localVars, commandVars, Opening, Filed, Own,
        Types, Command, Counters, Local, Gone, Finals, OpensFromReplica
  <2>6. Replicated'
    BY <1>21, <1>a DEF UploadMetadata, Goto, localVars, commandVars, Replicated, Own, Types,
        Command, Counters, Finals, Protected, Publishing, Unmarked, Replicating
  <2>7. Chosen'
    BY <1>21, <1>a, NothingChosen DEF UploadMetadata, Goto, Own, Types, Command, Retaining,
        PurgingLocally, PurgingRemotely
  <2> QED
    BY <2>1, <2>2, <2>3, <2>4, <2>5, <2>6, <2>7 DEF IInv
<1>22. ASSUME UploadMetadataFails PROVE IInv'
  <2>1. Types'
    BY <1>22, <1>a DEF UploadMetadataFails, Goto, Fault, NetMayFail, MayFault, localVars,
        commandVars, Types, Command, Counters, Release, FileKinds, Stages
  <2>2. Own'
    BY <1>22, <1>a DEF UploadMetadataFails, Goto, localVars, commandVars, Own, Types, Command,
        Protected, Publishing, Unmarked, Replicating, Retaining, PurgingLocally,
        PurgingRemotely
  <2>3. Published'
    BY <1>22, <1>a DEF UploadMetadataFails, Goto, localVars, commandVars, Published, Own,
        Types, Command, Local, Unmarked, Replicating
  <2>4. Marked' /\ Filed'
    BY <1>22, <1>a, FilesKept DEF UploadMetadataFails, localVars, commandVars
  <2>5. Opening'
    BY <1>22, <1>a DEF UploadMetadataFails, Goto, Fault, NetMayFail, MayFault, localVars,
        commandVars, Opening, Filed, Own, Types, Command, Counters, Local, Gone, Finals,
        OpensFromReplica
  <2>6. Replicated'
    BY <1>22, <1>a DEF UploadMetadataFails, Goto, Fault, NetMayFail, MayFault, localVars,
        commandVars, Replicated, Own, Types, Command, Counters, Finals, Protected, Publishing,
        Unmarked, Replicating
  <2>7. Chosen'
    BY <1>22, <1>a, NothingChosen DEF UploadMetadataFails, Goto, Own, Types, Command,
        Retaining, PurgingLocally, PurgingRemotely
  <2> QED
    BY <2>1, <2>2, <2>3, <2>4, <2>5, <2>6, <2>7 DEF IInv
<1>23. ASSUME VerifyCommitted PROVE IInv'
  <2>1. Types'
    BY <1>23, <1>a DEF VerifyCommitted, Idle, AfterReplica, localVars, remoteVars, commandVars,
        Types, Command, Counters, Release, FileKinds, Stages
  <2>2. Own'
    BY <1>23, <1>a DEF VerifyCommitted, Idle, AfterReplica, localVars, remoteVars, commandVars,
        Own, Types, Command, Protected, Publishing, Unmarked, Replicating, Retaining,
        PurgingLocally, PurgingRemotely
  <2>3. Published'
    BY <1>23, <1>a DEF VerifyCommitted, Idle, AfterReplica, localVars, remoteVars, commandVars,
        Published, Own, Types, Command, Local, Unmarked, Replicating
  <2>4. Marked' /\ Filed'
    BY <1>23, <1>a, FilesKept DEF VerifyCommitted, localVars, commandVars
  <2>5. Opening'
    BY <1>23, <1>a, OpeningKept DEF VerifyCommitted, localVars, remoteVars, commandVars
  <2>6. Replicated'
    BY <1>23, <1>a DEF VerifyCommitted, Idle, AfterReplica, localVars, remoteVars, commandVars,
        Replicated, Own, Types, Command, Counters, Finals, Protected, Publishing, Unmarked,
        Replicating
  <2>7. Chosen'
    BY <1>23, <1>a, NothingChosen DEF VerifyCommitted, Idle, AfterReplica, Own, Types, Command,
        Retaining, PurgingLocally, PurgingRemotely
  <2> QED
    BY <2>1, <2>2, <2>3, <2>4, <2>5, <2>6, <2>7 DEF IInv
<1>24. ASSUME VerificationFails PROVE IInv'
  <2>1. Types'
    BY <1>24, <1>a DEF VerificationFails, Goto, Fault, NetMayFail, MayFault, localVars,
        remoteVars, commandVars, Types, Command, Counters, Release, FileKinds, Stages
  <2>2. Own'
    BY <1>24, <1>a DEF VerificationFails, Goto, localVars, remoteVars, commandVars, Own, Types,
        Command, Protected, Publishing, Unmarked, Replicating, Retaining, PurgingLocally,
        PurgingRemotely
  <2>3. Published'
    BY <1>24, <1>a DEF VerificationFails, Goto, localVars, remoteVars, commandVars, Published,
        Own, Types, Command, Local, Unmarked, Replicating
  <2>4. Marked' /\ Filed'
    BY <1>24, <1>a, FilesKept DEF VerificationFails, localVars, commandVars
  <2>5. Opening'
    BY <1>24, <1>a, OpeningKept DEF VerificationFails, Types, Counters, Fault, localVars,
        remoteVars, commandVars
  <2>6. Replicated'
    BY <1>24, <1>a, ReplicatedKept DEF VerificationFails, Goto, Fault, localVars, remoteVars,
        commandVars, Types, Command, Counters
  <2>7. Chosen'
    BY <1>24, <1>a, NothingChosen DEF VerificationFails, Goto, Own, Types, Command, Retaining,
        PurgingLocally, PurgingRemotely
  <2> QED
    BY <2>1, <2>2, <2>3, <2>4, <2>5, <2>6, <2>7 DEF IInv
<1>25. ASSUME DropMetadata PROVE IInv'
  <2>1. Types'
    BY <1>25, <1>a DEF DropMetadata, Goto, localVars, commandVars, Types, Command, Counters,
        Release, FileKinds, Stages
  <2>2. Own'
    BY <1>25, <1>a DEF DropMetadata, Goto, localVars, commandVars, Own, Types, Command,
        Protected, Publishing, Unmarked, Replicating, Retaining, PurgingLocally,
        PurgingRemotely
  <2>3. Published'
    BY <1>25, <1>a DEF DropMetadata, Goto, localVars, commandVars, Published, Own, Types,
        Command, Local, Unmarked, Replicating
  <2>4. Marked' /\ Filed'
    BY <1>25, <1>a, FilesKept DEF DropMetadata, localVars, commandVars
  <2>5. Opening'
    BY <1>25, <1>a DEF DropMetadata, Goto, localVars, commandVars, Opening, Filed, Own, Types,
        Command, Counters, Local, Gone, Finals, OpensFromReplica, Published, Publishing,
        Unmarked, Replicating, Retaining, PurgingLocally, PurgingRemotely
  <2>6. Replicated'
    BY <1>25, <1>a DEF DropMetadata, Goto, localVars, commandVars, Replicated, Own, Types,
        Command, Counters, Finals, Protected, Publishing, Unmarked, Replicating
  <2>7. Chosen'
    BY <1>25, <1>a, NothingChosen DEF DropMetadata, Goto, Own, Types, Command, Retaining,
        PurgingLocally, PurgingRemotely
  <2> QED
    BY <2>1, <2>2, <2>3, <2>4, <2>5, <2>6, <2>7 DEF IInv
<1>26. ASSUME DropMetadataFails PROVE IInv'
  <2>1. Types'
    BY <1>26, <1>a DEF DropMetadataFails, Goto, Fault, NetMayFail, MayFault, localVars,
        remoteVars, commandVars, Types, Command, Counters, Release, FileKinds, Stages
  <2>2. Own'
    BY <1>26, <1>a DEF DropMetadataFails, Goto, localVars, remoteVars, commandVars, Own, Types,
        Command, Protected, Publishing, Unmarked, Replicating, Retaining, PurgingLocally,
        PurgingRemotely
  <2>3. Published'
    BY <1>26, <1>a DEF DropMetadataFails, Goto, localVars, remoteVars, commandVars, Published,
        Own, Types, Command, Local, Unmarked, Replicating
  <2>4. Marked' /\ Filed'
    BY <1>26, <1>a, FilesKept DEF DropMetadataFails, localVars, commandVars
  <2>5. Opening'
    BY <1>26, <1>a, OpeningKept DEF DropMetadataFails, Types, Counters, Fault, localVars,
        remoteVars, commandVars
  <2>6. Replicated'
    BY <1>26, <1>a, ReplicatedKept DEF DropMetadataFails, Goto, Fault, localVars, remoteVars,
        commandVars, Types, Command, Counters
  <2>7. Chosen'
    BY <1>26, <1>a, NothingChosen DEF DropMetadataFails, Goto, Own, Types, Command, Retaining,
        PurgingLocally, PurgingRemotely
  <2> QED
    BY <2>1, <2>2, <2>3, <2>4, <2>5, <2>6, <2>7 DEF IInv
<1>27. ASSUME DropDatabase PROVE IInv'
  <2>1. Types'
    BY <1>27, <1>a DEF DropDatabase, Idle, localVars, commandVars, Types, Command, Counters,
        Release, FileKinds, Stages
  <2>2. Own' /\ Published' /\ Chosen'
    BY <1>27, IdleKept DEF DropDatabase
  <2>3. Marked' /\ Filed'
    BY <1>27, <1>a, FilesKept DEF DropDatabase, localVars, commandVars
  <2>4. Opening'
    BY <1>27, <1>a DEF DropDatabase, Idle, localVars, commandVars, Opening, Filed, Own, Types,
        Command, Counters, Local, Gone, Finals, OpensFromReplica, Published, Publishing,
        Unmarked, Replicating, Retaining, PurgingLocally, PurgingRemotely
  <2>5. Replicated'
    BY <1>27, <1>a DEF DropDatabase, Idle, localVars, commandVars, Replicated, Own, Types,
        Command, Counters, Finals, Protected, Publishing, Unmarked, Replicating
  <2> QED
    BY <2>1, <2>2, <2>3, <2>4, <2>5 DEF IInv
<1>28. ASSUME DropDatabaseFails PROVE IInv'
  <2>1. Types'
    BY <1>28, <1>a DEF DropDatabaseFails, Fault, NetMayFail, MayFault, Idle, localVars,
        remoteVars, commandVars, Types, Command, Counters, Release, FileKinds, Stages
  <2>2. Own' /\ Published' /\ Chosen'
    BY <1>28, IdleKept DEF DropDatabaseFails
  <2>3. Marked' /\ Filed'
    BY <1>28, <1>a, FilesKept DEF DropDatabaseFails, localVars, commandVars
  <2>4. Opening'
    BY <1>28, <1>a, OpeningKept DEF DropDatabaseFails, Types, Counters, Fault, localVars,
        remoteVars, commandVars
  <2>5. Replicated'
    BY <1>28, <1>a, ReplicatedKept DEF DropDatabaseFails, Fault, Idle, localVars, remoteVars,
        commandVars, Types, Command, Counters
  <2> QED
    BY <2>1, <2>2, <2>3, <2>4, <2>5 DEF IInv
<1>29. ASSUME Activate PROVE IInv'
  <2>1. Types'
    BY <1>29, <1>a DEF Activate, Goto, localVars, remoteVars, Types, Command, Counters,
        Release, FileKinds, Stages
  <2>2. Own'
    BY <1>29, <1>a DEF Activate, Goto, localVars, remoteVars, Own, Types, Command, Protected,
        Publishing, Unmarked, Replicating, Retaining, PurgingLocally, PurgingRemotely
  <2>3. Published'
    BY <1>29, <1>a DEF Activate, Goto, localVars, remoteVars, Published, Own, Types, Command,
        Local, Unmarked, Replicating
  <2>4. Marked' /\ Filed'
    BY <1>29, <1>a, FilesKept DEF Activate, localVars
  <2>5. Opening'
    BY <1>29, <1>a DEF Activate, Goto, localVars, remoteVars, Opening, Filed, Own, Types,
        Command, Counters, Local, Gone, Finals, OpensFromReplica, Publishing, Unmarked,
        Replicating, Retaining, PurgingLocally, PurgingRemotely
  <2>6. Replicated'
    BY <1>29, <1>a DEF Activate, Goto, localVars, remoteVars, Replicated, Own, Types, Command,
        Counters, Finals, Protected, Publishing, Unmarked, Replicating
  <2>7. Chosen'
    BY <1>29, <1>a, NothingChosen DEF Activate, Goto, Own, Types, Command, Retaining,
        PurgingLocally, PurgingRemotely
  <2> QED
    BY <2>1, <2>2, <2>3, <2>4, <2>5, <2>6, <2>7 DEF IInv
<1>30. ASSUME RestorePrevious PROVE IInv'
  <2>1. Types'
    BY <1>30, <1>a DEF RestorePrevious, localVars, remoteVars, Types, Command, Counters,
        Release, FileKinds, Stages
  <2>2. Own'
    BY <1>30, <1>a DEF RestorePrevious, localVars, remoteVars, Own, Types, Command, Protected,
        Publishing, Unmarked, Replicating, Retaining, PurgingLocally, PurgingRemotely
  <2>3. Published'
    BY <1>30, <1>a DEF RestorePrevious, localVars, remoteVars, Published, Own, Types, Command,
        Local, Unmarked, Replicating
  <2>4. Marked' /\ Filed'
    BY <1>30, <1>a, FilesKept DEF RestorePrevious, localVars
  <2>5. Opening'
    BY <1>30, <1>a DEF RestorePrevious, localVars, remoteVars, Opening, Filed, Own, Types,
        Command, Counters, Local, Gone, Finals, OpensFromReplica
  <2>6. Replicated'
    BY <1>30, <1>a DEF RestorePrevious, localVars, remoteVars, Replicated, Own, Types, Command,
        Counters, Finals, Protected, Publishing, Unmarked, Replicating
  <2>7. Chosen'
    BY <1>30, <1>a, NothingChosen DEF RestorePrevious, Own, Types, Command, Retaining,
        PurgingLocally, PurgingRemotely
  <2> QED
    BY <2>1, <2>2, <2>3, <2>4, <2>5, <2>6, <2>7 DEF IInv
<1>31. ASSUME PlanRetention PROVE IInv'
  <2>1. LocalInventory \in SUBSET Ids /\ RemoteInventory \in SUBSET Ids
    BY <1>a DEF Types, LocalInventory, RemoteInventory
  <2>2. Doomed(LocalInventory) \subseteq used /\ Doomed(RemoteInventory) \subseteq used
    <3>1. LocalInventory \subseteq used /\ RemoteInventory \subseteq used
      BY <1>a DEF Types, LocalInventory, RemoteInventory
    <3> QED
      BY <2>1, <3>1, DoomedSpared
  <2>3. Types'
    BY <2>1, <2>2, <1>31, <1>a DEF PlanRetention, localVars, remoteVars, commandVars, Types,
        Command, Counters, Release, FileKinds, Stages
  <2>4. Own'
    BY <2>1, <2>2, <1>31, <1>a DEF PlanRetention, localVars, remoteVars, commandVars, Own,
        Types, Command, Protected, Publishing, Unmarked, Replicating, Retaining,
        PurgingLocally, PurgingRemotely
  <2>5. Published'
    BY <2>1, <2>2, <1>31, <1>a DEF PlanRetention, localVars, remoteVars, commandVars,
        Published, Own, Types, Command, Local, Unmarked, Replicating
  <2>6. Marked' /\ Filed'
    BY <1>31, <1>a, FilesKept DEF PlanRetention, localVars, commandVars
  <2>7. Opening'
    BY <1>31, <1>a, OpeningKept DEF PlanRetention, localVars, remoteVars, commandVars
  <2>8. Replicated'
    BY <1>31, <1>a, ReplicatedKept DEF PlanRetention, localVars, remoteVars, commandVars,
        Types, Command
  <2>9. Chosen'
    <3>1. LocalInventory' = LocalInventory /\ RemoteInventory' = RemoteInventory
          /\ Protected' = Protected
      BY <1>31 DEF PlanRetention, LocalInventory, RemoteInventory, Protected, localVars,
          remoteVars,
          commandVars
    <3>2. /\ cmd'.at = "purge" /\ cmd'.doomed = Doomed(LocalInventory)
          /\ cmd'.doomedRemote = Doomed(RemoteInventory)
      BY <1>31, <1>a DEF PlanRetention, Types, Command
    <3>3. /\ \A b \in Doomed(LocalInventory) : Spared(b, LocalInventory, Protected)
          /\ \A b \in Doomed(RemoteInventory) : Spared(b, RemoteInventory, Protected)
      BY <2>1, DoomedSpared
    <3>4. /\ Fits(LocalInventory, Protected, Doomed(LocalInventory))
          /\ Fits(RemoteInventory, Protected, Doomed(RemoteInventory))
      BY <2>1, DoomedFits
    <3> QED
      BY <3>1, <3>2, <3>3, <3>4 DEF Chosen, PurgingLocally, PurgingRemotely
  <2> QED
    BY <2>3, <2>4, <2>5, <2>6, <2>7, <2>8, <2>9 DEF IInv
<1>32. ASSUME PlanFails PROVE IInv'
  <2>1. Types'
    BY <1>32, <1>a DEF PlanFails, Fault, NetMayFail, MayFault, Idle, localVars, remoteVars,
        commandVars, Types, Command, Counters, Release, FileKinds, Stages
  <2>2. Own' /\ Published' /\ Chosen'
    BY <1>32, IdleKept DEF PlanFails
  <2>3. Marked' /\ Filed'
    BY <1>32, <1>a, FilesKept DEF PlanFails, localVars, commandVars
  <2>4. Opening'
    BY <1>32, <1>a, OpeningKept DEF PlanFails, Types, Counters, Fault, localVars, remoteVars,
        commandVars
  <2>5. Replicated'
    BY <1>32, <1>a, ReplicatedKept DEF PlanFails, Fault, Idle, localVars, remoteVars,
        commandVars, Types, Command, Counters
  <2> QED
    BY <2>1, <2>2, <2>3, <2>4, <2>5 DEF IInv
<1>33. ASSUME PurgeMetadata PROVE IInv'
  <2>1. Oldest(cmd.doomed) \in cmd.doomed /\ \A c \in cmd.doomed : Oldest(cmd.doomed) <= c
    BY <1>33, <1>a, OldestIn DEF PurgeMetadata, Types, Command
  <2>2. Oldest(cmd.doomed) \in Ids
    BY <2>1, <1>a DEF Types, Command
  <2>3. Types'
    <3> DEFINE o == Oldest(cmd.doomed)
    <3>1. o \in used /\ o \in Nat
      BY <2>1, <2>2, <1>a, BoundAssumption DEF Types, Ids
    <3>2. cmd' = [cmd EXCEPT !.at = "syncpurge", !.id = o] /\ reported' = reported \ {o}
      BY <1>33 DEF PurgeMetadata
    <3>3. dir' = dir \ {<<"json", o>>} /\ UNCHANGED <<disk, bytes, remoteVars, pointers, used,
        policy, faults>>
      BY <1>33 DEF PurgeMetadata, localVars
    <3> HIDE DEF o
    <3> QED
      BY <3>1, <3>2, <3>3, <1>a DEF Types, Command, Stages, Release, remoteVars
  <2>4. Own'
    BY <2>1, <2>2, <1>33, <1>a DEF PurgeMetadata, remoteVars, Own, Types, Command, Protected,
        Publishing, Unmarked, Replicating, Retaining, PurgingLocally, PurgingRemotely
  <2>5. Published'
    BY <2>1, <2>2, <1>33, <1>a DEF PurgeMetadata, remoteVars, Published, Own, Types, Command,
        Local, Unmarked, Replicating
  <2>6. Marked'
    BY <2>1, <2>2, <1>33, <1>a DEF PurgeMetadata, remoteVars, Marked, Published, Types,
        Command, Unmarked, Publishing
  <2>7. Filed'
    BY <2>1, <2>2, <1>33, <1>a DEF PurgeMetadata, remoteVars, Filed, Own, Published, Types,
        Command, Local, Gone, Publishing, Unmarked
  <2>8. Opening'
    BY <2>1, <2>2, <1>33, <1>a DEF PurgeMetadata, remoteVars, Opening, Filed, Own, Types,
        Command, Counters, Local, Gone, Finals, OpensFromReplica, Chosen, Spared, Protected
  <2>9. Replicated'
    BY <1>33, <1>a, ReplicatedKept DEF PurgeMetadata, remoteVars, Types, Command
  <2>10. Chosen'
    <3> DEFINE o == Oldest(cmd.doomed)
    <3>0. LocalInventory' = LocalInventory \ {o}
      <4>1. dir' = dir \ {<<"json", o>>}
        BY <1>33 DEF PurgeMetadata
      <4> HIDE DEF o
      <4> QED
        BY <4>1 DEF LocalInventory
    <3>1. RemoteInventory' = RemoteInventory /\ Protected' = Protected
      BY <1>33 DEF PurgeMetadata, RemoteInventory, Protected, remoteVars
    <3>2. /\ cmd'.at = "syncpurge" /\ cmd'.id = o
          /\ cmd'.doomed = cmd.doomed /\ cmd'.doomedRemote = cmd.doomedRemote
      BY <1>33, <1>a DEF PurgeMetadata, Types, Command
    <3>3. LocalInventory \in SUBSET Ids /\ LocalInventory \ {o} \in SUBSET Ids
      BY DEF LocalInventory
    <3>4. \A b \in cmd.doomed : Spared(b, LocalInventory \ {o}, Protected)
      BY <2>1, <2>2, <3>3, <1>a, SparedSmaller DEF Chosen, Types, Command
    <3>5. Fits(LocalInventory, Protected, cmd.doomed)
      BY <1>33, <1>a DEF PurgeMetadata, Chosen, Retaining
    <3>6. Fits(LocalInventory \ {o}, Protected, cmd.doomed)
      BY <3>3, <3>5, FitsSmaller
    <3>7. "json" \notin LateKinds => Fits(RemoteInventory, Protected, cmd.doomedRemote)
      BY <1>33, <1>a DEF PurgeMetadata, Chosen, Retaining
    <3>8. o \in cmd.doomed /\ o \notin reported' /\ <<"json", o>> \notin dir'
      BY <1>33, <2>1 DEF PurgeMetadata
    <3> HIDE DEF o
    <3> QED
      BY <3>0, <3>1, <3>2, <3>4, <3>6, <3>7, <3>8, <1>a DEF Chosen, PurgingLocally,
          PurgingRemotely
  <2> QED
    BY <2>3, <2>4, <2>5, <2>6, <2>7, <2>8, <2>9, <2>10 DEF IInv
<1>34. ASSUME SyncPurgedMetadata PROVE IInv'
  <2>1. Types'
    BY <1>34, <1>a DEF SyncPurgedMetadata, Goto, remoteVars, commandVars, Types, Command,
        Counters, Release, FileKinds, Stages
  <2>2. Own'
    BY <1>34, <1>a DEF SyncPurgedMetadata, Goto, remoteVars, commandVars, Own, Types, Command,
        Protected, Publishing, Unmarked, Replicating, Retaining, PurgingLocally,
        PurgingRemotely
  <2>3. Published'
    BY <1>34, <1>a DEF SyncPurgedMetadata, Goto, remoteVars, commandVars, Published, Own,
        Types, Command, Local, Unmarked, Replicating
  <2>4. Marked'
    BY <1>34, <1>a DEF SyncPurgedMetadata, Goto, remoteVars, commandVars, Marked, Published,
        Types, Command, Unmarked, Publishing
  <2>5. Filed'
    BY <1>34, <1>a DEF SyncPurgedMetadata, Goto, remoteVars, commandVars, Filed, Own,
        Published, Types, Command, Local, Gone, Publishing, Unmarked
  <2>6. Opening'
    BY <1>34, <1>a DEF SyncPurgedMetadata, Goto, remoteVars, commandVars, Opening, Filed, Own,
        Types, Command, Counters, Local, Gone, Finals, OpensFromReplica
  <2>7. Replicated'
    BY <1>34, <1>a, ReplicatedKept DEF SyncPurgedMetadata, Goto, remoteVars, commandVars,
        Types, Command
  <2>8. Chosen'
    BY <1>34, <1>a DEF SyncPurgedMetadata, Goto, remoteVars, commandVars, Chosen, Own, Types,
        Command, LocalInventory, RemoteInventory, Protected, Retaining, PurgingLocally,
        PurgingRemotely
  <2> QED
    BY <2>1, <2>2, <2>3, <2>4, <2>5, <2>6, <2>7, <2>8 DEF IInv
<1>35. ASSUME PurgeDatabase PROVE IInv'
  <2>1. Types'
    BY <1>35, <1>a DEF PurgeDatabase, Goto, remoteVars, commandVars, Types, Command, Counters,
        Release, FileKinds, Stages
  <2>2. Own'
    BY <1>35, <1>a DEF PurgeDatabase, Goto, remoteVars, commandVars, Own, Types, Command,
        Protected, Publishing, Unmarked, Replicating, Retaining, PurgingLocally,
        PurgingRemotely
  <2>3. Published'
    BY <1>35, <1>a DEF PurgeDatabase, Goto, remoteVars, commandVars, Published, Own, Types,
        Command, Local, Unmarked, Replicating
  <2>4. Marked'
    BY <1>35, <1>a DEF PurgeDatabase, Goto, remoteVars, commandVars, Marked, Published, Types,
        Command, Chosen, Publishing, Unmarked, Replicating, Retaining, PurgingLocally,
        PurgingRemotely
  <2>5. Filed'
    BY <1>35, <1>a DEF PurgeDatabase, Goto, remoteVars, commandVars, Filed, Own, Published,
        Types, Command, Local, Gone, Chosen, Publishing, Unmarked
  <2>6. Opening'
    BY <1>35, <1>a DEF PurgeDatabase, Goto, remoteVars, commandVars, Opening, Filed, Own,
        Types, Command, Counters, Local, Gone, Finals, OpensFromReplica
  <2>7. Replicated'
    BY <1>35, <1>a, ReplicatedKept DEF PurgeDatabase, Goto, remoteVars, commandVars, Types,
        Command
  <2>8. Chosen'
    BY <1>35, <1>a DEF PurgeDatabase, Goto, remoteVars, commandVars, Chosen, Own, Types,
        Command, LocalInventory, RemoteInventory, Protected, Retaining, PurgingLocally,
        PurgingRemotely
  <2> QED
    BY <2>1, <2>2, <2>3, <2>4, <2>5, <2>6, <2>7, <2>8 DEF IInv
<1>36. ASSUME SyncPurgedDatabase PROVE IInv'
  <2>1. Types'
    BY <1>36, <1>a DEF SyncPurgedDatabase, remoteVars, commandVars, Types, Command, Counters,
        Release, FileKinds, Stages
  <2>2. Own'
    BY <1>36, <1>a DEF SyncPurgedDatabase, remoteVars, commandVars, Own, Types, Command,
        Protected, Publishing, Unmarked, Replicating, Retaining, PurgingLocally,
        PurgingRemotely
  <2>3. Published'
    BY <1>36, <1>a DEF SyncPurgedDatabase, remoteVars, commandVars, Published, Own, Types,
        Command, Local, Unmarked, Replicating
  <2>4. Marked'
    BY <1>36, <1>a DEF SyncPurgedDatabase, remoteVars, commandVars, Marked, Published, Types,
        Command, Chosen, Publishing, Unmarked, Replicating, Retaining, PurgingLocally,
        PurgingRemotely
  <2>5. Filed'
    BY <1>36, <1>a DEF SyncPurgedDatabase, remoteVars, commandVars, Filed, Own, Published,
        Types, Command, Local, Gone, Chosen, Publishing, Unmarked
  <2>6. Opening'
    BY <1>36, <1>a DEF SyncPurgedDatabase, remoteVars, commandVars, Opening, Filed, Own, Types,
        Command, Counters, Local, Gone, Finals, OpensFromReplica
  <2>7. Replicated'
    BY <1>36, <1>a, ReplicatedKept DEF SyncPurgedDatabase, remoteVars, commandVars, Types, Command
  <2>8. Chosen'
    <3>1. LocalInventory' = LocalInventory /\ RemoteInventory' = RemoteInventory
          /\ Protected' = Protected /\ cmd.id \notin LocalInventory
      BY <1>36, <1>a DEF SyncPurgedDatabase, Chosen, LocalInventory, RemoteInventory, Protected,
          remoteVars, commandVars, PurgingLocally
    <3>2. /\ cmd'.at = "purge" /\ cmd'.doomed = cmd.doomed \ {cmd.id}
          /\ cmd'.doomedRemote = cmd.doomedRemote
      BY <1>36, <1>a DEF SyncPurgedDatabase, Types, Command
    <3>3. LocalInventory \in SUBSET Ids
      BY DEF LocalInventory
    <3>4. Fits(LocalInventory, Protected, cmd.doomed)
      BY <1>36, <1>a DEF SyncPurgedDatabase, Chosen, Retaining, PurgingLocally
    <3>5. Fits(LocalInventory, Protected, cmd.doomed \ {cmd.id})
      BY <3>1, <3>3, <3>4, FitsSmaller
    <3>6. "json" \notin LateKinds => Fits(RemoteInventory, Protected, cmd.doomedRemote)
      BY <1>36, <1>a DEF SyncPurgedDatabase, Chosen, Retaining, PurgingLocally
    <3> QED
      BY <3>1, <3>2, <3>5, <3>6, <1>a DEF Chosen, PurgingLocally, PurgingRemotely
  <2> QED
    BY <2>1, <2>2, <2>3, <2>4, <2>5, <2>6, <2>7, <2>8 DEF IInv
<1>37. ASSUME PurgeFails PROVE IInv'
  <2>1. Types'
    BY <1>37, <1>a DEF PurgeFails, Fault, IOMayFail, MayFault, Idle, Refused, localVars,
        remoteVars, commandVars, Types, Command, Counters, Release, FileKinds, Stages
  <2>2. Own' /\ Published' /\ Chosen'
    BY <1>37, IdleKept DEF PurgeFails
  <2>3. Marked' /\ Filed'
    BY <1>37, <1>a, FilesKept DEF PurgeFails, localVars, commandVars
  <2>4. Opening'
    BY <1>37, <1>a, OpeningKept DEF PurgeFails, Types, Counters, Fault, localVars, remoteVars,
        commandVars
  <2>5. Replicated'
    BY <1>37, <1>a, ReplicatedKept DEF PurgeFails, Fault, Idle, localVars, remoteVars,
        commandVars, Types, Command, Counters
  <2> QED
    BY <2>1, <2>2, <2>3, <2>4, <2>5 DEF IInv
<1>38. ASSUME PurgeRecord PROVE IInv'
  <2>1. Oldest(cmd.doomedRemote) \in cmd.doomedRemote /\ \A c \in cmd.doomedRemote :
      Oldest(cmd.doomedRemote) <= c
    BY <1>38, <1>a, OldestIn DEF PurgeRecord, Types, Command
  <2>2. Oldest(cmd.doomedRemote) \in Ids
    BY <2>1, <1>a DEF Types, Command
  <2>3. Types'
    <3> DEFINE o == Oldest(cmd.doomedRemote)
    <3>1. o \in used /\ o \in Nat
      BY <2>1, <2>2, <1>a, BoundAssumption DEF Types, Ids
    <3>2. cmd' = [cmd EXCEPT !.at = "purgeobject", !.id = o] /\ reported' = reported \ {o}
      BY <1>38 DEF PurgeRecord
    <3>3. records' = records \ {o} /\ UNCHANGED <<dir, disk, bytes, objects, late, pointers,
        used, policy, faults>>
      BY <1>38 DEF PurgeRecord, localVars
    <3> HIDE DEF o
    <3> QED
      BY <3>1, <3>2, <3>3, <1>a DEF Types, Command, Stages, Release, remoteVars
  <2>4. Own'
    BY <2>1, <2>2, <1>38, <1>a DEF PurgeRecord, localVars, Own, Types, Command, Protected,
        Publishing, Unmarked, Replicating, Retaining, PurgingLocally, PurgingRemotely
  <2>5. Published'
    BY <2>1, <2>2, <1>38, <1>a DEF PurgeRecord, localVars, Published, Own, Types, Command,
        Local, Unmarked, Replicating
  <2>6. Marked'
    BY <2>1, <2>2, <1>38, <1>a DEF PurgeRecord, localVars, Marked, Published, Types, Command,
        Unmarked, Publishing
  <2>7. Filed'
    BY <2>1, <2>2, <1>38, <1>a DEF PurgeRecord, localVars, Filed, Own, Published, Types,
        Command, Local, Gone, Publishing, Unmarked
  <2>8. Opening'
    BY <2>1, <2>2, <1>38, <1>a DEF PurgeRecord, localVars, Opening, Filed, Own, Types, Command,
        Counters, Local, Gone, Finals, OpensFromReplica, Chosen, Spared, Protected
  <2>9. Replicated'
    BY <2>1, <2>2, <1>38, <1>a DEF PurgeRecord, localVars, Replicated, Own, Types, Command,
        Counters, Finals, Protected, Chosen, Spared, Publishing, Unmarked, Replicating
  <2>10. Chosen'
    <3> DEFINE o == Oldest(cmd.doomedRemote)
    <3>1. RemoteInventory' = RemoteInventory \ {o} /\ LocalInventory' = LocalInventory
          /\ Protected' = Protected
      BY <1>38 DEF PurgeRecord, LocalInventory, RemoteInventory, Protected, localVars
    <3>2. /\ cmd'.at = "purgeobject" /\ cmd'.id = o
          /\ cmd'.doomed = {} /\ cmd'.doomedRemote = cmd.doomedRemote
      BY <1>38, <1>a DEF PurgeRecord, Types, Command
    <3>3. RemoteInventory \in SUBSET Ids /\ RemoteInventory \ {o} \in SUBSET Ids
      BY <1>a DEF RemoteInventory, Types
    <3>4. \A b \in cmd.doomedRemote : Spared(b, RemoteInventory \ {o}, Protected)
      BY <2>1, <2>2, <3>3, <1>a, SparedSmaller DEF Chosen, Types, Command
    <3>5. "json" \notin LateKinds => Fits(RemoteInventory, Protected, cmd.doomedRemote)
      BY <1>38, <1>a DEF PurgeRecord, Chosen, Retaining
    <3>6. "json" \notin LateKinds => Fits(RemoteInventory \ {o}, Protected, cmd.doomedRemote)
      BY <3>3, <3>5, FitsSmaller
    <3>7. Fits(LocalInventory, Protected, {})
      BY <1>38, <1>a DEF PurgeRecord, Chosen, Retaining
    <3>8. o \in cmd.doomedRemote /\ o \notin reported'
      BY <1>38, <2>1 DEF PurgeRecord
    <3> HIDE DEF o
    <3> QED
      BY <3>1, <3>2, <3>4, <3>6, <3>7, <3>8 DEF Chosen, PurgingLocally, PurgingRemotely
  <2> QED
    BY <2>3, <2>4, <2>5, <2>6, <2>7, <2>8, <2>9, <2>10 DEF IInv
<1>39. ASSUME PurgeObject PROVE IInv'
  <2>1. Types'
    BY <1>39, <1>a DEF PurgeObject, Goto, localVars, commandVars, Types, Command, Counters,
        Release, FileKinds, Stages
  <2>2. Own'
    BY <1>39, <1>a DEF PurgeObject, Goto, localVars, commandVars, Own, Types, Command,
        Protected, Publishing, Unmarked, Replicating, Retaining, PurgingLocally,
        PurgingRemotely
  <2>3. Published'
    BY <1>39, <1>a DEF PurgeObject, Goto, localVars, commandVars, Published, Own, Types,
        Command, Local, Unmarked, Replicating
  <2>4. Marked' /\ Filed'
    BY <1>39, <1>a, FilesKept DEF PurgeObject, localVars, commandVars
  <2>5. Opening'
    BY <1>39, <1>a DEF PurgeObject, Goto, localVars, commandVars, Opening, Filed, Own, Types,
        Command, Counters, Local, Gone, Finals, OpensFromReplica, Chosen, Publishing, Unmarked,
        Replicating, Retaining, PurgingLocally, PurgingRemotely
  <2>6. Replicated'
    BY <1>39, <1>a DEF PurgeObject, Goto, localVars, commandVars, Replicated, Own, Types,
        Command, Counters, Finals, Protected, Chosen, Spared, Publishing, Unmarked,
        Replicating, Retaining, PurgingLocally, PurgingRemotely
  <2>7. Chosen'
    BY <1>39, <1>a DEF PurgeObject, Goto, localVars, commandVars, Chosen, Own, Types, Command,
        LocalInventory, RemoteInventory, Protected, Retaining, PurgingLocally, PurgingRemotely
  <2> QED
    BY <2>1, <2>2, <2>3, <2>4, <2>5, <2>6, <2>7 DEF IInv
<1>40. ASSUME ProveAbsent PROVE IInv'
  <2>1. Types'
    BY <1>40, <1>a DEF ProveAbsent, localVars, remoteVars, commandVars, Types, Command,
        Counters, Release, FileKinds, Stages
  <2>2. Own'
    BY <1>40, <1>a DEF ProveAbsent, localVars, remoteVars, commandVars, Own, Types, Command,
        Protected, Publishing, Unmarked, Replicating, Retaining, PurgingLocally,
        PurgingRemotely
  <2>3. Published'
    BY <1>40, <1>a DEF ProveAbsent, localVars, remoteVars, commandVars, Published, Own, Types,
        Command, Local, Unmarked, Replicating
  <2>4. Marked' /\ Filed'
    BY <1>40, <1>a, FilesKept DEF ProveAbsent, localVars, commandVars
  <2>5. Opening'
    BY <1>40, <1>a, OpeningKept DEF ProveAbsent, localVars, remoteVars, commandVars
  <2>6. Replicated'
    BY <1>40, <1>a, ReplicatedKept DEF ProveAbsent, localVars, remoteVars, commandVars, Types,
        Command
  <2>7. Chosen'
    <3>1. LocalInventory' = LocalInventory /\ RemoteInventory' = RemoteInventory
          /\ Protected' = Protected /\ cmd.id \notin RemoteInventory
      BY <1>40 DEF ProveAbsent, LocalInventory, RemoteInventory, Protected, localVars, remoteVars,
          commandVars
    <3>2. /\ cmd'.at = "purge" /\ cmd'.doomed = {}
          /\ cmd'.doomedRemote = cmd.doomedRemote \ {cmd.id}
      BY <1>40, <1>a DEF ProveAbsent, Types, Command, Chosen, PurgingRemotely
    <3>3. RemoteInventory \in SUBSET Ids
      BY <1>a DEF RemoteInventory, Types
    <3>4. "json" \notin LateKinds => Fits(RemoteInventory, Protected, cmd.doomedRemote)
      BY <1>40, <1>a DEF ProveAbsent, Chosen, Retaining, PurgingRemotely
    <3>5. "json" \notin LateKinds =>
            Fits(RemoteInventory, Protected, cmd.doomedRemote \ {cmd.id})
      BY <3>1, <3>3, <3>4, FitsSmaller
    <3>6. Fits(LocalInventory, Protected, {})
      BY <1>40, <1>a DEF ProveAbsent, Chosen, Retaining, PurgingRemotely
    <3> QED
      BY <3>1, <3>2, <3>5, <3>6, <1>a DEF Chosen, PurgingLocally, PurgingRemotely
  <2> QED
    BY <2>1, <2>2, <2>3, <2>4, <2>5, <2>6, <2>7 DEF IInv
<1>41. ASSUME RemotePurgeFails PROVE IInv'
  <2>1. cmd.doomedRemote # {} => Oldest(cmd.doomedRemote) \in cmd.doomedRemote
    BY <1>a, OldestIn DEF Types, Command
  <2>2. Types'
    BY <2>1, <1>41, <1>a DEF RemotePurgeFails, Fault, NetMayFail, MayFault, Idle, localVars,
        Types, Command, Counters, Release, FileKinds, Stages
  <2>3. Own' /\ Published' /\ Chosen'
    BY <1>41, IdleKept DEF RemotePurgeFails
  <2>4. Marked'
    BY <2>1, <1>41, <1>a DEF RemotePurgeFails, Idle, localVars, Marked, Published, Types,
        Command, Unmarked, Publishing
  <2>5. Filed'
    BY <2>1, <1>41, <1>a DEF RemotePurgeFails, Idle, localVars, Filed, Own, Published, Types,
        Command, Local, Gone, Publishing, Unmarked
  <2>6. Opening'
    BY <2>1, <1>41, <1>a DEF RemotePurgeFails, Fault, NetMayFail, MayFault, Idle, localVars,
        Opening, Filed, Own, Types, Command, Counters, Local, Gone, Finals, OpensFromReplica,
        Chosen, Spared, Protected, Publishing, Unmarked, Replicating, Retaining,
        PurgingLocally, PurgingRemotely
  <2>7. Replicated'
    BY <2>1, <1>41, <1>a DEF RemotePurgeFails, Fault, NetMayFail, MayFault, Idle, localVars,
        Replicated, Own, Types, Command, Counters, Finals, Protected, Chosen, Spared,
        Publishing, Unmarked, Replicating, Retaining, PurgingLocally, PurgingRemotely
  <2> QED
    BY <2>2, <2>3, <2>4, <2>5, <2>6, <2>7 DEF IInv
<1>42. ASSUME Retained PROVE IInv'
  <2>1. Types'
    BY <1>42, <1>a DEF Retained, Goto, localVars, remoteVars, commandVars, Types, Command,
        Counters, Release, FileKinds, Stages
  <2>2. Own'
    BY <1>42, <1>a DEF Retained, Goto, localVars, remoteVars, commandVars, Own, Types, Command,
        Protected, Publishing, Unmarked, Replicating, Retaining, PurgingLocally,
        PurgingRemotely
  <2>3. Published'
    BY <1>42, <1>a DEF Retained, Goto, localVars, remoteVars, commandVars, Published, Own,
        Types, Command, Local, Unmarked, Replicating
  <2>4. Marked' /\ Filed'
    BY <1>42, <1>a, FilesKept DEF Retained, localVars, commandVars
  <2>5. Opening'
    BY <1>42, <1>a, OpeningKept DEF Retained, localVars, remoteVars, commandVars
  <2>6. Replicated'
    BY <1>42, <1>a, ReplicatedKept DEF Retained, Goto, localVars, remoteVars, commandVars,
        Types, Command
  <2>7. Chosen'
    BY <1>42, <1>a DEF Retained, Goto, localVars, remoteVars, commandVars, Chosen, Own, Types,
        Command, LocalInventory, RemoteInventory, Protected, Retaining, PurgingLocally,
        PurgingRemotely
  <2> QED
    BY <2>1, <2>2, <2>3, <2>4, <2>5, <2>6, <2>7 DEF IInv
<1>43. ASSUME EndDeploy PROVE IInv'
  <2>1. Types'
    BY <1>43, <1>a DEF EndDeploy, Idle, localVars, remoteVars, commandVars, Types, Command,
        Counters, Release, FileKinds, Stages
  <2>2. Own' /\ Published' /\ Chosen'
    BY <1>43, IdleKept DEF EndDeploy
  <2>3. Marked' /\ Filed'
    BY <1>43, <1>a, FilesKept DEF EndDeploy, localVars, commandVars
  <2>4. Opening'
    BY <1>43, <1>a, OpeningKept DEF EndDeploy, localVars, remoteVars, commandVars
  <2>5. Replicated'
    BY <1>43, <1>a, ReplicatedKept DEF EndDeploy, Idle, localVars, remoteVars, commandVars,
        Types, Command
  <2> QED
    BY <2>1, <2>2, <2>3, <2>4, <2>5 DEF IInv
<1>44. ASSUME NEW k \in LateKinds, NEW b \in Ids, LateUploadLands(k, b) PROVE IInv'
  <2>1. Types'
    BY <1>44, <1>a DEF LateUploadLands, localVars, commandVars, Types, Command, Counters,
        Release, FileKinds, Stages
  <2>2. Own'
    BY <1>44, <1>a DEF LateUploadLands, localVars, commandVars, Own, Types, Command, Protected,
        Publishing, Unmarked, Replicating, Retaining, PurgingLocally, PurgingRemotely
  <2>3. Published'
    BY <1>44, <1>a DEF LateUploadLands, localVars, commandVars, Published, Own, Types, Command,
        Local, Unmarked, Replicating
  <2>4. Marked' /\ Filed'
    BY <1>44, <1>a, FilesKept DEF LateUploadLands, localVars, commandVars
  <2>5. Opening'
    BY <1>44, <1>a DEF LateUploadLands, localVars, commandVars, Opening, Filed, Own, Types,
        Command, Counters, Local, Gone, Finals, OpensFromReplica
  <2>6. Replicated'
    BY <1>44, <1>a DEF LateUploadLands, localVars, commandVars, Replicated, Own, Types,
        Command, Counters, Finals, Protected, Publishing, Unmarked, Replicating
  <2>7. Chosen'
    <3>1. LocalInventory' = LocalInventory /\ Protected' = Protected
          /\ ("json" \notin LateKinds => RemoteInventory' = RemoteInventory)
      BY <1>44 DEF LateUploadLands, LocalInventory, RemoteInventory, Protected, localVars,
          commandVars
    <3>2. /\ RemoteInventory \in SUBSET Ids /\ RemoteInventory' \in SUBSET Ids
          /\ RemoteInventory \subseteq RemoteInventory'
      BY <1>44, <1>a DEF LateUploadLands, RemoteInventory, Types
    <3>3. \A c \in cmd.doomedRemote : Spared(c, RemoteInventory', Protected)
      BY <3>2, <1>a, SparedMore DEF Chosen
    <3>4. cmd' = cmd /\ dir' = dir /\ disk' = disk /\ reported' = reported
      BY <1>44 DEF LateUploadLands, localVars, commandVars
    <3> QED
      BY <3>1, <3>3, <3>4, <1>a DEF Chosen
  <2> QED
    BY <2>1, <2>2, <2>3, <2>4, <2>5, <2>6, <2>7 DEF IInv
<1>45. ASSUME Killed PROVE IInv'
  <2>1. Types'
    BY <1>45, <1>a DEF Killed, Fault, MayFault, Idle, localVars, remoteVars, commandVars,
        Types, Command, Counters, Release, FileKinds, Stages
  <2>2. Own' /\ Published' /\ Chosen'
    BY <1>45, IdleKept DEF Killed
  <2>3. Marked' /\ Filed'
    BY <1>45, <1>a, FilesKept DEF Killed, localVars, commandVars
  <2>4. Opening'
    BY <1>45, <1>a, OpeningKept DEF Killed, Types, Counters, Fault, localVars, remoteVars,
        commandVars
  <2>5. Replicated'
    BY <1>45, <1>a, ReplicatedKept DEF Killed, Fault, Idle, localVars, remoteVars, commandVars,
        Types, Command, Counters
  <2> QED
    BY <2>1, <2>2, <2>3, <2>4, <2>5 DEF IInv
<1>46. ASSUME PowerLoss PROVE IInv'
  <2>1. Types'
    BY <1>46, <1>a DEF PowerLoss, Fault, MayFault, Idle, remoteVars, commandVars, Types,
        Command, Counters, Release, FileKinds, Stages
  <2>2. Own' /\ Published' /\ Chosen'
    BY <1>46, IdleKept DEF PowerLoss
  <2>3. Marked'
    BY <1>46, <1>a DEF PowerLoss, Idle, remoteVars, commandVars, Marked, Published, Types,
        Command, Unmarked, Publishing
  <2>4. Filed'
    BY <1>46, <1>a DEF PowerLoss, Idle, remoteVars, commandVars, Filed, Own, Published, Types,
        Command, Local, Gone, Publishing, Unmarked
  <2>5. Opening'
    BY <1>46, <1>a DEF PowerLoss, Fault, MayFault, Idle, remoteVars, commandVars, Opening,
        Filed, Own, Types, Command, Counters, Local, Gone, Finals, OpensFromReplica
  <2>6. Replicated'
    BY <1>46, <1>a, ReplicatedKept DEF PowerLoss, Fault, Idle, remoteVars, commandVars, Types,
        Command, Counters
  <2> QED
    BY <2>1, <2>2, <2>3, <2>4, <2>5, <2>6 DEF IInv
<1>47. ASSUME NEW b \in Ids, LoseLocalCopy(b) PROVE IInv'
  <2>1. Types'
    BY <1>47, <1>a DEF LoseLocalCopy, Fault, MayFault, OpensLocally, OpensFromReplica, Files,
        FileKinds, remoteVars, Types, Command, Counters, Release, Stages
  <2>2. Own'
    BY <1>47, <1>a DEF LoseLocalCopy, OpensLocally, OpensFromReplica, Files, FileKinds,
        remoteVars, Own, Types, Command, Protected, Publishing, Unmarked, Replicating,
        Retaining, PurgingLocally, PurgingRemotely
  <2>3. Published'
    BY <1>47, <1>a DEF LoseLocalCopy, OpensLocally, OpensFromReplica, Files, FileKinds,
        remoteVars, Published, Own, Types, Command, Local, Unmarked, Replicating
  <2>4. Marked'
    BY <1>47, <1>a DEF LoseLocalCopy, OpensLocally, OpensFromReplica, Files, FileKinds,
        remoteVars, Marked, Published, Types, Command, Unmarked, Publishing
  <2>5. Filed'
    BY <1>47, <1>a, ZenonT(30) DEF LoseLocalCopy, OpensLocally, OpensFromReplica, Files, FileKinds,
        remoteVars, Filed, Own, Published, Types, Command, Local, Gone, Publishing, Unmarked
  <2>6. Opening'
    BY BoundAssumption, <1>47, <1>a DEF LoseLocalCopy, Fault, MayFault, OpensLocally,
        OpensFromReplica, Files, FileKinds, remoteVars, Opening, Filed, Own, Types, Command,
        Counters, Local, Gone, Finals, Replicated
  <2>7. Replicated'
    BY <1>47, <1>a DEF LoseLocalCopy, Fault, MayFault, OpensLocally, OpensFromReplica, Files,
        FileKinds, remoteVars, Replicated, Own, Types, Command, Counters, Finals, Protected,
        Publishing, Unmarked, Replicating
  <2>8. Chosen'
    BY <1>47, <1>a, NothingChosen DEF LoseLocalCopy, Own, Types, Command, Retaining,
        PurgingLocally, PurgingRemotely
  <2> QED
    BY <2>1, <2>2, <2>3, <2>4, <2>5, <2>6, <2>7, <2>8 DEF IInv
<1>48. ASSUME NEW b \in Ids, RotReplica(b) PROVE IInv'
  <2>1. Types'
    BY <1>48, <1>a DEF RotReplica, Fault, MayFault, localVars, commandVars, Types, Command,
        Counters, Release, FileKinds, Stages
  <2>2. Own'
    BY <1>48, <1>a DEF RotReplica, localVars, commandVars, Own, Types, Command, Protected,
        Publishing, Unmarked, Replicating, Retaining, PurgingLocally, PurgingRemotely
  <2>3. Published'
    BY <1>48, <1>a DEF RotReplica, localVars, commandVars, Published, Own, Types, Command,
        Local, Unmarked, Replicating
  <2>4. Marked' /\ Filed'
    BY <1>48, <1>a, FilesKept DEF RotReplica, localVars, commandVars
  <2>5. Opening'
    BY BoundAssumption, <1>48, <1>a DEF RotReplica, Fault, MayFault, localVars, commandVars,
        Opening, Filed, Own, Types, Command, Counters, Local, Gone, Finals, OpensFromReplica
  <2>6. Replicated'
    BY <1>48, <1>a DEF RotReplica, Fault, MayFault, localVars, commandVars, Replicated, Own,
        Types, Command, Counters, Finals, Protected, Publishing, Unmarked, Replicating
  <2>7. Chosen'
    BY <1>48, <1>a, NothingChosen DEF RotReplica, Own, Types, Command, Retaining,
        PurgingLocally, PurgingRemotely
  <2> QED
    BY <2>1, <2>2, <2>3, <2>4, <2>5, <2>6, <2>7 DEF IInv
<1>49. CASE UNCHANGED vars
  <2>1. UNCHANGED <<dir, disk, bytes, objects, records, late, policy, pointers, cmd, used,
                    reported, faults>>
    BY <1>49 DEF vars
  <2>2. Types' /\ Own' /\ Marked' /\ Filed'
    BY <2>1, <1>a DEF Types, Own, Marked, Filed, Protected, Local, Gone, Release
  <2>3. Published'
    BY <2>1, <1>a DEF Published, Local
  <2>4. Opening' /\ Replicated'
    BY <2>1, <1>a DEF Opening, Replicated, Finals, Gone, OpensFromReplica
  <2>5. LocalInventory' = LocalInventory /\ RemoteInventory' = RemoteInventory
        /\ Protected' = Protected
    BY <2>1 DEF LocalInventory, RemoteInventory, Protected
  <2>6. Chosen'
    BY <2>1, <2>5, <1>a DEF Chosen
  <2> QED
    BY <2>2, <2>3, <2>4, <2>6 DEF IInv
<1> QED
  BY <1>1, <1>2, <1>3, <1>4, <1>5, <1>6, <1>7, <1>8, <1>9, <1>10, <1>11, <1>12, <1>13, <1>14,
      <1>15, <1>16, <1>17, <1>18, <1>19, <1>20, <1>21, <1>22, <1>23, <1>24, <1>25, <1>26,
      <1>27, <1>28, <1>29, <1>30, <1>31, <1>32, <1>33, <1>34, <1>35, <1>36, <1>37, <1>38,
      <1>39, <1>40, <1>41, <1>42, <1>43, <1>44, <1>45, <1>46, <1>47, <1>48, <1>49
      DEF Next, Publication, Replication, Retention, Environment

(* The first state has the invariant. *)
LEMMA InitInvariant == Init => IInv
<1> SUFFICES ASSUME Init PROVE IInv
  OBVIOUS
<1>1. Types
  BY ForeignAssumption DEF Init, Types, Command, Counters, Release, Idle, NoRelease, Stages,
      FileKinds, Ids
<1>2. Own /\ Published /\ Chosen
  BY DEF Init, Own, Published, Chosen, Idle, Publishing, Unmarked, Replicating, Retaining,
      PurgingLocally, PurgingRemotely
<1>3. Marked /\ Filed
  BY ForeignAssumption DEF Init, Marked, Filed, Local, Ids
<1>4. Finals = {}
  BY DEF Init, Finals, NoRelease
<1>5. Opening /\ Replicated
  BY <1>4, ForeignAssumption DEF Init, Opening, Replicated, Gone, Idle, Ids
<1> QED
  BY <1>1, <1>2, <1>3, <1>5 DEF IInv

(* The invariant holds for any number of backups, faults and crashes. *)
THEOREM Invariant == Spec => []IInv
<1> QED
  BY InitInvariant, NextInvariant, PTL DEF Spec

(* The stores, the pointers and the command have their types. *)
THEOREM TypesKept == Spec => []TypeOK
<1>1. IInv => TypeOK
  BY DEF IInv, Types, TypeOK, Command, Release, Protected
<1> QED
  BY <1>1, Invariant, PTL

(* Metadata is never in the directory without its database, when no call   *)
(* fails once it is linked.                                                *)
THEOREM MarkersKept == ASSUME ~MarkerFaults PROVE Spec => []MarkerMeansDatabase
<1>1. IInv => MarkerMeansDatabase
  BY DEF IInv, Marked, MarkerMeansDatabase, LocalInventory
<1> QED
  BY <1>1, Invariant, PTL

(* What was reported opens, and what is referenced was reported. *)
Covered == reported \subseteq {b \in Ids : Opens(b)} /\ Finals \subseteq reported

(* A reported backup opens from one of its two places, after at most one   *)
(* lost copy.                                                              *)
LEMMA ReportedOpens ==
  ASSUME IInv, MaxDamage <= 1
  PROVE  Covered
<1>1. reported \subseteq Ids /\ Finals \subseteq reported
  BY DEF IInv, Types, Opening
<1>2. ASSUME NEW b \in reported PROVE Opens(b)
  <2>1. CASE Local(b)
    BY <2>1 DEF Local, Opens, OpensLocally
  <2>2. CASE Gone(b)
    BY <2>2 DEF IInv, Opening, Gone, Opens, AbsentLocally
  <2> QED
    BY <2>1, <2>2 DEF IInv, Filed
<1> QED
  BY <1>1, <1>2 DEF Covered

(* The final backups of the active and the previous release open, whatever *)
(* failed, with at most one lost copy.                                     *)
THEOREM FinalsOpen == ASSUME MaxDamage <= 1 PROVE Spec => []ProtectedBackupOpens
<1>1. IInv => ProtectedBackupOpens
  BY ReportedOpens DEF Covered, ProtectedBackupOpens
<1> QED
  BY <1>1, Invariant, PTL

(* A required replica stays committed as long as its release is active or  *)
(* previous, whatever failed.                                              *)
THEOREM ReplicasKept == Spec => []RequiredReplicaKept
<1>1. IInv => RequiredReplicaKept
  BY DEF IInv, Replicated, RequiredReplicaKept
<1> QED
  BY <1>1, Invariant, PTL

(* A retention that reached its end leaves what the policy allows, when no *)
(* metadata lands in the bucket behind its back.                           *)
THEOREM PolicyReached == ASSUME "json" \notin LateKinds PROVE Spec => []RetentionLeavesPolicy
<1>1. ASSUME IInv, cmd.at = "retained"
      PROVE  /\ Cardinality(LocalInventory \ (Foreign \union Protected)) <= KeepLast
             /\ Cardinality(RemoteInventory \ (Foreign \union Protected)) <= KeepLast
  <2>1. cmd.doomed = {} /\ cmd.doomedRemote = {}
    BY <1>1 DEF IInv, Chosen
  <2>2. /\ Fits(LocalInventory, Protected, {})
        /\ Fits(RemoteInventory, Protected, {})
    BY <1>1, <2>1 DEF IInv, Chosen, Retaining
  <2>3. \A S : Unprotected(S, Protected) \ {} = S \ (Foreign \union Protected)
    BY DEF Unprotected
  <2> QED
    BY <2>2, <2>3 DEF Fits
<1>2. IInv => RetentionLeavesPolicy
  BY <1>1 DEF RetentionLeavesPolicy
<1> QED
  BY <1>2, Invariant, PTL

-----------------------------------------------------------------------------
(* What retention may take, in the words of the invariant. *)
LEMMA SparedMayGo == \A b, S : Spared(b, S, Protected) => MayGo(b, S)
<1>1. \A b, S : {c \in S \ (Protected \union Foreign) : c > b} = Newer(b, S, Protected)
  BY DEF Newer, Unprotected
<1> QED
  BY <1>1 DEF Spared, MayGo

(* A backup that a command reported leaves the directory by retention's    *)
(* rule only.                                                              *)
LEMMA LocalStep ==
  ASSUME IInv, [Next]_vars, faults'.damage = faults.damage,
         NEW b \in (LocalInventory \intersect reported) \ LocalInventory'
  PROVE  MayGo(b, LocalInventory')
<1>1. <<"json", b>> \in dir /\ <<"json", b>> \notin dir' /\ b \in Ids
  BY DEF LocalInventory
<1>2. Types /\ Own /\ Published /\ Filed /\ Chosen
  BY DEF IInv
<1>3. CASE PurgeMetadata
  <2> DEFINE o == Oldest(cmd.doomed)
  <2>1. o \in cmd.doomed /\ (\A c \in cmd.doomed : o <= c) /\ o \in Ids
    BY <1>2, <1>3, OldestIn DEF PurgeMetadata, Types, Command
  <2>2. dir' = dir \ {<<"json", o>>}
    BY <1>3 DEF PurgeMetadata
  <2>3. b = o
    BY <1>1, <2>2
  <2>4. LocalInventory' = LocalInventory \ {o}
    <3> HIDE DEF o
    <3> QED
      BY <2>2 DEF LocalInventory
  <2>5. Spared(o, LocalInventory, Protected)
    BY <1>2, <2>1 DEF Chosen
  <2>6. Spared(o, LocalInventory \ {o}, Protected)
    <3> LocalInventory \in SUBSET Ids /\ o <= o
      BY <2>1, BoundAssumption DEF LocalInventory, Ids
    <3> HIDE DEF o
    <3> QED
      BY <2>1, <2>5, SparedSmaller
  <2> QED
    BY <2>3, <2>4, <2>6, SparedMayGo
<1>4. CASE PowerLoss
  <2>1. <<"json", b>> \in disk
    BY <1>1, <1>2 DEF Filed, Local, Gone
  <2> QED
    BY <1>1, <1>4, <2>1 DEF PowerLoss
<1>5. CASE \E c \in Ids : LoseLocalCopy(c)
  BY <1>2, <1>5 DEF LoseLocalCopy, Fault, Types, Counters
<1>6. CASE UNCHANGED vars
  BY <1>1, <1>6 DEF vars
<1>7. CASE \E kind \in {"backup", "deploy"} : Begin(kind)
  BY <1>1, <1>7 DEF Begin, localVars
<1>8. CASE Publication
  BY <1>1, <1>8 DEF Publication, localVars, CreateStaging, Snapshot, FlushSnapshot, LinkDatabase,
      UnlinkStaging, SyncDatabase, WriteMetadata, LinkMetadata, UnlinkTemporary, SyncMetadata,
      VerifyRehearsal, VerifyBackup, PreparationFails, PublicationFails, UndoPublication, UndoFails
<1>9. CASE Replication \/ Activate \/ RestorePrevious
  BY <1>1, <1>9 DEF Replication, localVars, UploadDatabase, UploadDatabaseFails, ReadBack,
      UploadMetadata, UploadMetadataFails, VerifyCommitted, VerificationFails, DropMetadata,
      DropMetadataFails, DropDatabase, DropDatabaseFails, Activate, RestorePrevious
<1>10. CASE PlanRetention \/ PlanFails \/ SyncPurgedMetadata \/ PurgeDatabase
            \/ SyncPurgedDatabase \/ PurgeFails \/ PurgeRecord \/ PurgeObject \/ ProveAbsent
            \/ RemotePurgeFails \/ Retained \/ EndDeploy
  BY <1>1, <1>10 DEF localVars, PlanRetention, PlanFails, SyncPurgedMetadata, PurgeDatabase,
      SyncPurgedDatabase, PurgeFails, PurgeRecord, PurgeObject, ProveAbsent, RemotePurgeFails,
      Retained, EndDeploy
<1>11. CASE \/ \E k \in LateKinds, c \in Ids : LateUploadLands(k, c)
            \/ Killed \/ \E c \in Ids : RotReplica(c)
  BY <1>1, <1>11 DEF localVars, LateUploadLands, Killed, RotReplica
<1> QED
  BY <1>3, <1>4, <1>5, <1>6, <1>7, <1>8, <1>9, <1>10, <1>11 DEF Next, Retention, Environment

(* A record leaves the bucket by retention's rule, or is taken back. *)
LEMMA RemoteStep ==
  ASSUME IInv, [Next]_vars, NEW b \in RemoteInventory \ RemoteInventory'
  PROVE  MayGo(b, RemoteInventory') \/ (cmd.at = "dropjson" /\ b = cmd.id)
<1>1. b \in records /\ b \in Ids /\ policy # "disabled"
  BY DEF RemoteInventory, IInv, Types
<1>2. Types /\ Chosen
  BY DEF IInv
<1>3. policy' = policy
  BY DEF Next, Publication, Replication, Retention, Environment, vars, Begin, CreateStaging,
      Snapshot, FlushSnapshot, LinkDatabase, UnlinkStaging, SyncDatabase, WriteMetadata,
      LinkMetadata, UnlinkTemporary, SyncMetadata, VerifyRehearsal, VerifyBackup,
      PreparationFails, PublicationFails, UndoPublication, UndoFails, UploadDatabase,
      UploadDatabaseFails, ReadBack, UploadMetadata, UploadMetadataFails, VerifyCommitted,
      VerificationFails, DropMetadata, DropMetadataFails, DropDatabase, DropDatabaseFails,
      Activate, RestorePrevious, PlanRetention, PlanFails, PurgeMetadata, SyncPurgedMetadata,
      PurgeDatabase, SyncPurgedDatabase, PurgeFails, PurgeRecord, PurgeObject, ProveAbsent,
      RemotePurgeFails, Retained, EndDeploy, LateUploadLands, Killed, PowerLoss, LoseLocalCopy,
      RotReplica
<1>4. RemoteInventory' = records' /\ RemoteInventory = records /\ b \notin records'
  BY <1>1, <1>3 DEF RemoteInventory
<1>5. CASE PurgeRecord \/ RemotePurgeFails
  <2> DEFINE o == Oldest(cmd.doomedRemote)
  <2>1. cmd.doomedRemote # {} /\ records' = records \ {o}
    BY <1>4, <1>5 DEF PurgeRecord, RemotePurgeFails
  <2>2. o \in cmd.doomedRemote /\ (\A c \in cmd.doomedRemote : o <= c) /\ o \in Ids
    BY <1>2, <2>1, OldestIn DEF Types, Command
  <2>3. b = o
    BY <1>1, <1>4, <2>1
  <2>4. Spared(o, records, Protected)
    BY <1>2, <1>4, <2>2 DEF Chosen
  <2>5. Spared(o, records \ {o}, Protected)
    <3> records \in SUBSET Ids /\ o <= o
      BY <1>2, <2>2, BoundAssumption DEF Types, Ids
    <3> HIDE DEF o
    <3> QED
      BY <2>2, <2>4, SparedSmaller
  <2> QED
    BY <1>4, <2>1, <2>3, <2>5, SparedMayGo
<1>6. CASE DropMetadata
  BY <1>1, <1>4, <1>6 DEF DropMetadata
<1>7. CASE UNCHANGED vars \/ \E kind \in {"backup", "deploy"} : Begin(kind)
  BY <1>1, <1>4, <1>7 DEF vars, Begin, remoteVars
<1>8. CASE Publication
  BY <1>1, <1>4, <1>8 DEF Publication, remoteVars, CreateStaging, Snapshot, FlushSnapshot,
      LinkDatabase, UnlinkStaging, SyncDatabase, WriteMetadata, LinkMetadata, UnlinkTemporary,
      SyncMetadata, VerifyRehearsal, VerifyBackup, PreparationFails, PublicationFails,
      UndoPublication, UndoFails
<1>9. CASE UploadDatabase \/ UploadDatabaseFails \/ ReadBack \/ UploadMetadata
           \/ UploadMetadataFails \/ VerifyCommitted \/ VerificationFails \/ DropMetadataFails
           \/ DropDatabase \/ DropDatabaseFails \/ Activate \/ RestorePrevious
  BY <1>1, <1>4, <1>9 DEF remoteVars, UploadDatabase, UploadDatabaseFails, ReadBack,
      UploadMetadata, UploadMetadataFails, VerifyCommitted, VerificationFails,
      DropMetadataFails, DropDatabase, DropDatabaseFails, Activate, RestorePrevious
<1>10. CASE PlanRetention \/ PlanFails \/ PurgeMetadata \/ SyncPurgedMetadata \/ PurgeDatabase
            \/ SyncPurgedDatabase \/ PurgeFails \/ PurgeObject \/ ProveAbsent \/ Retained
            \/ EndDeploy
  BY <1>1, <1>4, <1>10 DEF remoteVars, PlanRetention, PlanFails, PurgeMetadata,
      SyncPurgedMetadata, PurgeDatabase, SyncPurgedDatabase, PurgeFails, PurgeObject,
      ProveAbsent, Retained, EndDeploy
<1>11. CASE Environment
  BY <1>1, <1>4, <1>11 DEF Environment, remoteVars, LateUploadLands, Killed, PowerLoss,
      LoseLocalCopy, RotReplica
<1> QED
  BY <1>5, <1>6, <1>7, <1>8, <1>9, <1>10, <1>11 DEF Next, Replication, Retention

(* Whatever fails, reported backups leave an inventory by retention's rule *)
(* only, judged in the state they leave in.                                *)
THEOREM RetentionKept == Spec => RetentionSpares
<1>1. IInv /\ [Next]_vars =>
        [faults'.damage = faults.damage =>
          /\ \A b \in (LocalInventory \intersect reported) \ LocalInventory' :
               MayGo(b, LocalInventory')
          /\ \A b \in RemoteInventory \ RemoteInventory' :
               MayGo(b, RemoteInventory') \/ (cmd.at = "dropjson" /\ b = cmd.id)]_vars
  BY LocalStep, RemoteStep
<1> QED
  BY <1>1, Invariant, PTL DEF Spec, RetentionSpares

-----------------------------------------------------------------------------
(* With at most one lost copy every step is a step of BackupPromise, or    *)
(* none of its business.                                                   *)
LEMMA StepKeepsPromise ==
  ASSUME IInv, Covered, Covered', [Next]_vars, MaxDamage <= 1
  PROVE  [Promise!Next]_(Promise!vars)
<1> DEFINE offered == {b \in Ids : Opens(b)}
<1>1. /\ offered \in SUBSET Ids /\ reported \subseteq offered /\ Finals \subseteq reported
      /\ offered' \in SUBSET Ids /\ reported' \subseteq offered' /\ Finals' \subseteq reported'
  BY DEF Covered
<1>2. Types
  BY DEF IInv
<1>3. ASSUME reported' = reported, Finals' = Finals PROVE Promise!Publish
  BY <1>1, <1>3 DEF Promise!Publish
<1>4. ASSUME NEW b \in reported, reported' = reported \ {b}, Finals' = Finals
      PROVE  Promise!Retire(b)
  BY <1>1, <1>4 DEF Promise!Retire
<1>5. ASSUME NEW b \in Ids, reported' \in {reported, reported \ {b}}, Finals' = Finals
      PROVE  Promise!Next
  <2>1. CASE reported' = reported
    BY <1>3, <1>5, <2>1 DEF Promise!Next
  <2>2. CASE reported' = reported \ {b} /\ b \in reported
    BY <1>4, <1>5, <2>2 DEF Promise!Next
  <2>3. CASE reported' = reported \ {b} /\ b \notin reported
    BY <1>3, <1>5, <2>3 DEF Promise!Next
  <2> QED
    BY <1>5, <2>1, <2>2, <2>3
<1>6. CASE VerifyRehearsal \/ VerifyBackup
  <2>1. /\ cmd.id \in Ids /\ OpensLocally(cmd.id) /\ reported' = reported \union {cmd.id}
        /\ UNCHANGED <<localVars, remoteVars, policy, pointers>>
    BY <1>2, <1>6 DEF VerifyRehearsal, VerifyBackup, Types
  <2>2. offered' = offered /\ Finals' = Finals
    BY <2>1 DEF Opens, OpensLocally, AbsentLocally, OpensFromReplica, Finals, localVars, remoteVars
  <2>3. cmd.id \in offered
    BY <2>1 DEF Opens
  <2> QED
    BY <2>1, <2>2, <2>3 DEF Promise!Next, Promise!Promise
<1>7. CASE Activate
  <2>1. UNCHANGED <<localVars, remoteVars, policy, reported>>
    BY <1>7 DEF Activate
  <2>2. offered' = offered
    BY <2>1 DEF Opens, OpensLocally, AbsentLocally, OpensFromReplica, localVars, remoteVars
  <2>3. Finals' \in SUBSET Ids /\ Finals' \subseteq reported
    BY <1>1, <2>1
  <2> QED
    BY <2>1, <2>2, <2>3 DEF Promise!Next, Promise!Reference
<1>8. CASE RestorePrevious
  <2>1. reported' = reported /\ Finals' = Finals
    BY <1>8 DEF RestorePrevious, Finals
  <2> QED
    BY <1>3, <2>1 DEF Promise!Next
<1>9. CASE PurgeMetadata
  <2>1. Oldest(cmd.doomed) \in Ids
    BY <1>2, <1>9, OldestIn DEF PurgeMetadata, Types, Command
  <2>2. reported' = reported \ {Oldest(cmd.doomed)} /\ Finals' = Finals
    BY <1>9 DEF PurgeMetadata, Finals
  <2> QED
    BY <1>5, <2>1, <2>2
<1>10. CASE PurgeRecord \/ RemotePurgeFails
  <2>1. reported' \in {reported, reported \ {Oldest(cmd.doomedRemote)}} /\ Finals' = Finals
    BY <1>10 DEF PurgeRecord, RemotePurgeFails, Finals
  <2>2. CASE cmd.doomedRemote # {}
    <3>1. Oldest(cmd.doomedRemote) \in Ids
      BY <1>2, <2>2, OldestIn DEF Types, Command
    <3> QED
      BY <1>5, <2>1, <3>1
  <2>3. CASE cmd.doomedRemote = {}
    <3>1. reported' = reported
      BY <1>10, <2>3 DEF PurgeRecord, RemotePurgeFails
    <3> QED
      BY <1>3, <2>1, <3>1 DEF Promise!Next
  <2> QED
    BY <2>2, <2>3
<1>11. CASE \E b \in Ids : LoseLocalCopy(b)
  <2>1. PICK b \in Ids : LoseLocalCopy(b)
    BY <1>11
  <2>2. reported' \in {reported, reported \ {b}} /\ Finals' = Finals
    BY <2>1 DEF LoseLocalCopy, Finals
  <2> QED
    BY <1>5, <2>2
<1>12. CASE UNCHANGED vars \/ (\E kind \in {"backup", "deploy"} : Begin(kind))
            \/ CreateStaging \/ Snapshot \/ FlushSnapshot \/ LinkDatabase \/ UnlinkStaging
            \/ SyncDatabase \/ WriteMetadata \/ LinkMetadata \/ UnlinkTemporary \/ SyncMetadata
            \/ PreparationFails \/ PublicationFails \/ UndoPublication \/ UndoFails
            \/ Replication
  <2>1. UNCHANGED <<reported, pointers>>
    BY <1>12 DEF vars, commandVars, Begin, CreateStaging, Snapshot, FlushSnapshot, LinkDatabase,
        UnlinkStaging, SyncDatabase, WriteMetadata, LinkMetadata, UnlinkTemporary, SyncMetadata,
        PreparationFails, PublicationFails, UndoPublication, UndoFails, Replication,
        UploadDatabase, UploadDatabaseFails, ReadBack, UploadMetadata, UploadMetadataFails,
        VerifyCommitted, VerificationFails, DropMetadata, DropMetadataFails, DropDatabase,
        DropDatabaseFails
  <2> QED
    BY <1>3, <2>1 DEF Promise!Next, Finals
<1>13. CASE PlanRetention \/ PlanFails \/ SyncPurgedMetadata \/ PurgeDatabase
            \/ SyncPurgedDatabase \/ PurgeFails \/ PurgeObject \/ ProveAbsent \/ Retained
            \/ EndDeploy \/ Killed \/ PowerLoss \/ (\E b \in Ids : RotReplica(b))
            \/ (\E k \in LateKinds, b \in Ids : LateUploadLands(k, b))
  <2>1. UNCHANGED <<reported, pointers>>
    BY <1>13 DEF commandVars, PlanRetention, PlanFails, SyncPurgedMetadata, PurgeDatabase,
        SyncPurgedDatabase, PurgeFails, PurgeObject, ProveAbsent, Retained, EndDeploy, Killed,
        PowerLoss, RotReplica, LateUploadLands
  <2> QED
    BY <1>3, <2>1 DEF Promise!Next, Finals
<1> QED
  BY <1>6, <1>7, <1>8, <1>9, <1>10, <1>11, <1>12, <1>13
      DEF Next, Publication, Retention, Environment

(* The stores keep the promise of BackupPromise, after any failures and    *)
(* crashes and at most one lost copy.                                      *)
THEOREM StoresKeepPromise == ASSUME MaxDamage <= 1 PROVE Spec => ImplementsPromise
<1>1. Init => Promise!Init
  <2>1. ASSUME Init PROVE IInv
    BY <2>1, InitInvariant
  <2>2. ASSUME Init PROVE Finals = {}
    BY <2>2 DEF Init, Finals, NoRelease
  <2> QED
    BY <2>1, <2>2, ReportedOpens DEF Covered, Promise!Init
<1>2. IInv /\ Covered /\ Covered' /\ [Next]_vars => [Promise!Next]_(Promise!vars)
  BY StepKeepsPromise
<1>3. IInv => Covered
  BY ReportedOpens
<1> QED
  BY <1>1, <1>2, <1>3, InitInvariant, NextInvariant, PTL DEF Spec, ImplementsPromise, Promise!Spec
=============================================================================
