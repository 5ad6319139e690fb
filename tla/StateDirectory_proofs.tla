------------------------- MODULE StateDirectory_proofs -------------------------
(***************************************************************************)
(* The state directory, for every number of commands, operations and       *)
(* events: it is typed, the admission of a command and the owner metadata  *)
(* agree, an idle report is true, and the files implement atomic operation *)
(* records, whatever dies or fails between two system calls.               *)
(***************************************************************************)
EXTENDS StateDirectory, TLAPS

USE StateDirectoryAssumption DEF Operations

Statuses == Ended \cup {"none", "in_progress"}
Steps ==
    {"idle", "admit", "supersede", "create", "append", "stage", "replace", "record", "work",
     "handle", "release", "unlock"}
Writing == {"append", "stage", "replace"}

Origins == [type : {"work", "recover"}, source : 0..MaxOps]
Manifests == [status : Statuses, last : 0..MaxEvents]
Owners == [op : 0..MaxOps, state : {"none", "active", "released"}]
CommandStates ==
    [type : {"work", "recover"}, source : 0..MaxOps, ack : 0..MaxOps, op : 0..MaxOps,
     owned : BOOLEAN, failed : BOOLEAN, target : 0..MaxOps, status : Statuses,
     next : {"idle", "record", "supersede", "work", "release"}]
Reports ==
    [report : {"none", "active", "idle", "interrupted", "recovery_required"},
     owner : Owners, before : SUBSET Operations, listed : 0..MaxOps,
     left : SUBSET Operations, found : SUBSET [op : Operations, status : Statuses],
     cur : 0..MaxOps, man : Manifests]

Typed ==
    /\ dirs \in 0..MaxOps
    /\ origin \in [Operations -> Origins]
    /\ events \in [Operations -> Seq(Ended \cup {"in_progress"})]
    /\ torn \in [Operations -> BOOLEAN] /\ tmp \in [Operations -> BOOLEAN]
    /\ man \in [Operations -> Manifests]
    /\ owner \in Owners
    /\ lock \in Commands \cup {Status, NoOne}
    /\ pc \in [Commands -> Steps] /\ me \in [Commands -> CommandStates]
    /\ rpc \in {"idle", "probed", "list", "scan", "events"} /\ rd \in Reports

(* Only the holder of the lock runs. *)
LockOK ==
    /\ \A p \in Commands : pc[p] # "idle" => lock = p
    /\ rpc = "probed" => lock = Status

(* Only the newest operation may be unfinished or unreadable. *)
FilesOK ==
    \A o \in Operations :
       /\ Len(events[o]) <= MaxEvents
       /\ o > dirs => man[o] = NoManifest /\ events[o] = <<>> /\ ~torn[o] /\ ~tmp[o]
       /\ o < dirs => man[o].status \in Ended
       /\ man[o].status \in Ended => Readable(o)
       /\ man[o].status # "none" => man[o].last \in 1..Len(events[o])

(* A record that is being written: what is in its files at each step. *)
WriteOK(p) ==
    LET o == dirs IN
    /\ dirs # 0 /\ me[p].target = dirs /\ ~torn[o]
    /\ man[o].status = IF me[p].next = "record" THEN "none" ELSE "in_progress"
    /\ me[p].next # "supersede" => me[p].op = dirs
    /\ CASE me[p].next \in {"record", "work"} -> me[p].status = "in_progress"
         [] me[p].next = "supersede"          -> me[p].status = "recovery_required"
         [] OTHER                             -> me[p].next = "release" /\ me[p].status \in Ended
    /\ tmp[o] = (pc[p] = "replace")
    /\ IF pc[p] = "append"
       THEN /\ Len(events[o]) < MaxEvents
            /\ IF me[p].next = "record" THEN events[o] = <<>> ELSE Readable(o)
       ELSE events[o] # <<>> /\ events[o][Len(events[o])] = me[p].status

(* A command that was admitted and has not taken the owner metadata yet. *)
Claiming(p) ==
    \/ pc[p] \in {"supersede", "create", "record"}
    \/ pc[p] \in Writing /\ me[p].next \in {"record", "supersede"}

(* What a command has found or done when it arrives at a step. *)
CommandOK(p) ==
    /\ pc[p] = "supersede" => \A o \in 1..dirs : Readable(o)
    /\ pc[p] = "create" => \A o \in 1..dirs : man[o].status \in Ended
    /\ pc[p] \in Writing => WriteOK(p)
    /\ pc[p] \in {"record", "work", "handle"} => dirs # 0 /\ me[p].op = dirs
    /\ pc[p] \in {"record", "work"} => Readable(dirs) /\ man[dirs].status = "in_progress"
    /\ Claiming(p) /\ owner.state = "active" => owner.op = me[p].ack

(* What status has read so far is still true of operations that ended. *)
ReaderOK ==
    /\ rpc # "idle" =>
          /\ rd.report = "none" /\ rd.before \subseteq 1..dirs
          /\ \A f \in rd.found :
                /\ f.status # "none"
                /\ f.status \in Ended => man[f.op].status \in Ended
    /\ rpc \in {"scan", "events"} =>
          /\ rd.listed <= dirs /\ rd.before \subseteq 1..rd.listed
          /\ \A o \in 1..rd.listed : o \in rd.left \/ \E f \in rd.found : f.op = o
    /\ rpc = "events" =>
          /\ rd.cur \in rd.left /\ rd.man.status # "none"
          /\ rd.man.status \in Ended => man[rd.cur].status \in Ended
    /\ rd.report = "idle" => \A o \in rd.before : man[o].status \in Ended

DirectoryOK ==
    /\ Typed /\ LockOK /\ FilesOK /\ (\A p \in Commands : CommandOK(p)) /\ ReaderOK

------------------------------------------------------------------------------
(* The holder of the lock.                                                  *)

(* While a command runs, no other command does. *)
LEMMA Alone ==
    ASSUME LockOK, NEW p \in Commands, pc[p] # "idle"
    PROVE  /\ lock = p /\ rpc # "probed"
           /\ \A q \in Commands : q # p => pc[q] = "idle"
BY DEF LockOK

(* What is known of a record that is being written, as types. *)
LEMMA WrittenTyped ==
    ASSUME Typed, NEW p \in Commands, CommandOK(p), pc[p] \in Writing
    PROVE  /\ dirs \in Operations /\ me[p].target = dirs
           /\ me[p].status \in Ended \cup {"in_progress"}
           /\ me[p].next \in {"record", "supersede", "work", "release"}
<1>1. dirs # 0 /\ me[p].target = dirs
  BY DEF CommandOK, WriteOK
<1>2. dirs \in Operations
  BY <1>1 DEF Typed
<1>3. CASE me[p].next \in {"record", "work"}
  BY <1>1, <1>2, <1>3 DEF CommandOK, WriteOK
<1>4. CASE me[p].next = "supersede"
  BY <1>1, <1>2, <1>4 DEF CommandOK, WriteOK, Ended
<1>5. CASE me[p].next \notin {"record", "work", "supersede"}
  BY <1>1, <1>2, <1>5 DEF CommandOK, WriteOK, Ended
<1> QED
  BY <1>3, <1>4, <1>5

(* The memory of a command stays typed when it goes on. *)
LEMMA GoesOn ==
    ASSUME Typed, NEW p \in Commands, NEW l \in Steps, NEW m \in CommandStates, Goto(p, l),
           me' = [me EXCEPT ![p] = m]
    PROVE  pc' \in [Commands -> Steps] /\ me' \in [Commands -> CommandStates]
BY DEF Typed, Goto

(* So it does when it starts to write a record. *)
LEMMA WriteTyped ==
    ASSUME Typed, NEW p \in Commands, NEW o \in 0..MaxOps, NEW s \in Statuses,
           NEW l \in {"supersede", "work", "release"}, Write(p, o, s, l)
    PROVE  pc' \in [Commands -> Steps] /\ me' \in [Commands -> CommandStates]
<1> DEFINE m == [me[p] EXCEPT !.target = o, !.status = s, !.next = l]
<1>0. me[p] \in CommandStates
  BY DEF Typed
<1>1. m \in CommandStates
  BY <1>0 DEF CommandStates
<1>2. me' = [me EXCEPT ![p] = m] /\ Goto(p, "append") /\ "append" \in Steps
  BY DEF Write, Steps
<1> HIDE DEF m
<1> QED
  BY <1>1, <1>2, GoesOn

(* So it does when the handler records the outcome. *)
LEMMA FailTyped ==
    ASSUME Typed, NEW p \in Commands, NEW s \in Statuses, Fail(p, s)
    PROVE  pc' \in [Commands -> Steps] /\ me' \in [Commands -> CommandStates]
<1> DEFINE m == [me[p] EXCEPT !.target = me[p].op, !.status = s, !.next = "release",
                              !.failed = TRUE]
<1>0. me[p] \in CommandStates
  BY DEF Typed
<1>1. m \in CommandStates
  BY <1>0 DEF CommandStates
<1>2. me' = [me EXCEPT ![p] = m] /\ Goto(p, "append") /\ "append" \in Steps
  BY DEF Fail, Steps
<1> HIDE DEF m
<1> QED
  BY <1>1, <1>2, GoesOn

(* A manifest that is replaced stays typed. *)
LEMMA ReplacedTyped ==
    ASSUME Typed, FilesOK, NEW o \in Operations, NEW s \in Statuses, Replaced(o, s)
    PROVE  man' \in [Operations -> Manifests] /\ tmp' \in [Operations -> BOOLEAN]
<1>1. [status |-> s, last |-> Len(events[o])] \in Manifests
  BY DEF Typed, FilesOK, Manifests
<1> QED
  BY <1>1 DEF Replaced, Typed

(* An event that is appended leaves the logs typed. *)
LEMMA AppendTyped ==
    ASSUME Typed, NEW o \in Operations, NEW s \in Ended \cup {"in_progress"},
           events' = [events EXCEPT ![o] = Append(@, s)]
    PROVE  events' \in [Operations -> Seq(Ended \cup {"in_progress"})]
<1>1. Append(events[o], s) \in Seq(Ended \cup {"in_progress"})
  BY DEF Typed
<1> QED
  BY <1>1 DEF Typed

(* Every step of a command keeps the types. *)
LEMMA CommandTyped ==
    ASSUME Typed, FilesOK, NEW p \in Commands, CommandOK(p),
           Acquire(p) \/ Proceed(p) \/ Crash(p) \/ Interrupt(p)
    PROVE  Typed'
<1> USE DEF files, reader
<1>0. /\ Typed /\ dirs \in 0..MaxOps /\ me[p] \in CommandStates /\ NoCommand \in CommandStates
      /\ me[p].op \in 0..MaxOps /\ me[p].next \in Steps
  BY DEF Typed, NoCommand, CommandStates, Statuses, Steps
<1>a. OnError(p) \in Steps
  BY DEF OnError, Steps
<1>1. CASE Acquire(p)
  <2>1. PICK t \in {"work", "recover"} : me' = [me EXCEPT ![p] = [NoCommand EXCEPT !.type = t]]
    BY <1>1 DEF Acquire
  <2>2. [NoCommand EXCEPT !.type = t] \in CommandStates
    BY <1>0 DEF CommandStates
  <2>3. me' \in [Commands -> CommandStates]
    BY <2>1, <2>2 DEF Typed
  <2>4. QED
    BY <1>1, <2>3 DEF Acquire, Typed, Goto, Steps
<1>2. CASE Admit(p)
  <2>1. CASE UNCHANGED me
    BY <1>2, <2>1 DEF Admit, Typed, Goto, Steps
  <2>2. CASE ~UNCHANGED me
    <3>1. PICK o \in 1..dirs :
             me' = [me EXCEPT ![p] = [@ EXCEPT
                        !.source = o,
                        !.ack = IF owner.state = "active" THEN owner.op ELSE 0]]
      BY <1>2, <2>2 DEF Admit
    <3> DEFINE k == IF owner.state = "active" THEN owner.op ELSE 0
               m == [me[p] EXCEPT !.source = o, !.ack = k]
    <3>a. k \in 0..MaxOps /\ o \in 0..MaxOps
      BY <1>0 DEF Typed, Owners
    <3>b. me' = [me EXCEPT ![p] = m]
      BY <3>1
    <3> HIDE DEF k
    <3>2. m \in CommandStates /\ me' = [me EXCEPT ![p] = m]
      BY <1>0, <3>a, <3>b DEF CommandStates
    <3>3. Goto(p, "supersede") /\ "supersede" \in Steps
      BY <1>2, <2>2 DEF Admit, Steps
    <3> HIDE DEF m
    <3>4. pc' \in [Commands -> Steps] /\ me' \in [Commands -> CommandStates]
      BY <3>2, <3>3, GoesOn
    <3>5. QED
      BY <1>2, <3>4 DEF Admit, Typed
  <2>3. QED
    BY <2>1, <2>2
<1>3. CASE Refuse(p) \/ CreateFails(p)
  BY <1>3 DEF Refuse, CreateFails, Typed, Goto, Steps
<1>4. CASE Create(p)
  <2> DEFINE m == [me[p] EXCEPT !.op = dirs + 1, !.target = dirs + 1,
                                !.status = "in_progress", !.next = "record"]
  <2>a. dirs + 1 \in 0..MaxOps /\ "in_progress" \in Statuses
    BY <1>0, <1>4 DEF Create, Statuses
  <2>b. m \in CommandStates
    BY <1>0, <2>a DEF CommandStates
  <2>1. m \in CommandStates /\ me' = [me EXCEPT ![p] = m] /\ dirs' \in 0..MaxOps
    BY <1>4, <2>a, <2>b DEF Create
  <2>2. Goto(p, "append") /\ "append" \in Steps
    BY <1>4 DEF Create, Goto, Steps
  <2> HIDE DEF m
  <2>3. pc' \in [Commands -> Steps] /\ me' \in [Commands -> CommandStates]
    BY <2>1, <2>2, GoesOn
  <2>4. [type |-> me[p].type, source |-> me[p].source] \in Origins
    BY <1>0 DEF Origins, CommandStates
  <2>5. origin' \in [Operations -> Origins]
    BY <1>4, <2>4 DEF Create, Typed
  <2>6. QED
    BY <1>4, <2>1, <2>3, <2>5 DEF Create, Typed
<1>5. CASE AppendEvent(p) \/ AppendFails(p)
  <2>1. events' \in [Operations -> Seq(Ended \cup {"in_progress"})]
    <3>1. CASE UNCHANGED events
      BY <3>1 DEF Typed
    <3>2. CASE events' = [events EXCEPT ![me[p].target] = Append(@, me[p].status)]
      <4>1. pc[p] \in Writing
        BY <1>5 DEF AppendEvent, AppendFails, Writing
      <4>2. QED
        BY <3>2, <4>1, WrittenTyped, AppendTyped
    <3>3. QED
      BY <1>5, <3>1, <3>2 DEF AppendEvent, AppendFails
  <2>2. pc' \in [Commands -> Steps]
    BY <1>5, <1>a DEF AppendEvent, AppendFails, Typed, Goto, Steps
  <2>3. QED
    BY <1>5, <2>1, <2>2 DEF AppendEvent, AppendFails, Typed
<1>6. CASE StageManifest(p) \/ StageFails(p)
  <2>1. tmp' \in [Operations -> BOOLEAN]
    BY <1>6 DEF StageManifest, StageFails, Typed
  <2>2. pc' \in [Commands -> Steps]
    BY <1>6, <1>a DEF StageManifest, StageFails, Typed, Goto, Steps
  <2>3. QED
    BY <1>6, <2>1, <2>2 DEF StageManifest, StageFails, Typed
<1>7. CASE ReplaceManifest(p) \/ ReplaceFails(p)
  <2>1. man' \in [Operations -> Manifests] /\ tmp' \in [Operations -> BOOLEAN]
    <3>1. CASE Replaced(me[p].target, me[p].status)
      <4>1. pc[p] \in Writing
        BY <1>7 DEF ReplaceManifest, ReplaceFails, Writing
      <4>2. me[p].target \in Operations /\ me[p].status \in Statuses
        BY <4>1, WrittenTyped DEF Statuses
      <4>3. QED
        BY <3>1, <4>2, ReplacedTyped
    <3>2. CASE \E b \in BOOLEAN : tmp' = [tmp EXCEPT ![me[p].target] = b] /\ UNCHANGED man
      BY <3>2 DEF Typed
    <3>3. QED
      BY <1>7, <3>1, <3>2 DEF ReplaceManifest, ReplaceFails
  <2>2. pc' \in [Commands -> Steps]
    BY <1>0, <1>7, <1>a DEF ReplaceManifest, ReplaceFails, Typed, Goto
  <2>3. QED
    BY <1>7, <2>1, <2>2 DEF ReplaceManifest, ReplaceFails, Typed
<1>8. CASE Supersede(p)
  <2>1. pc' \in [Commands -> Steps] /\ me' \in [Commands -> CommandStates]
    <3>1. CASE UNCHANGED me
      BY <1>8, <3>1 DEF Supersede, Typed, Goto, Write, Steps
    <3>2. CASE ~UNCHANGED me
      <4>1. PICK o \in Unfinished : Write(p, o, "recovery_required", "supersede")
        BY <1>8, <3>2 DEF Supersede
      <4>2. o \in 0..MaxOps /\ "recovery_required" \in Statuses
        BY <1>0 DEF Unfinished, Statuses, Ended
      <4>3. QED
        BY <4>1, <4>2, WriteTyped
    <3>3. QED
      BY <3>1, <3>2
  <2>2. QED
    BY <1>8, <2>1 DEF Supersede, Typed
<1>9. CASE RecordOwner(p)
  <2>a. owner' \in Owners
    BY <1>0, <1>9 DEF RecordOwner, Typed, Owners
  <2>1. CASE UNCHANGED me
    BY <1>9, <2>a, <2>1 DEF RecordOwner, Typed, Goto, Steps
  <2>2. CASE ~UNCHANGED me
    <3> DEFINE m == [me[p] EXCEPT !.owned = TRUE]
    <3>1. m \in CommandStates /\ me' = [me EXCEPT ![p] = m]
      BY <1>0, <1>9, <2>2 DEF RecordOwner, CommandStates
    <3>2. Goto(p, "work") /\ "work" \in Steps
      BY <1>9, <2>2 DEF RecordOwner, Steps
    <3> HIDE DEF m
    <3>3. pc' \in [Commands -> Steps] /\ me' \in [Commands -> CommandStates]
      BY <3>1, <3>2, GoesOn
    <3>4. QED
      BY <1>9, <2>a, <3>3 DEF RecordOwner, Typed
  <2>3. QED
    BY <2>1, <2>2
<1>10. CASE RecordFails(p) \/ ReleaseOwner(p)
  <2>a. owner \in Owners /\ [owner EXCEPT !.state = "released"] \in Owners
    BY <1>0 DEF Typed, Owners
  <2>b. [op |-> me[p].op, state |-> "active"] \in Owners
    BY <1>0 DEF Owners
  <2>1. owner' \in Owners
    BY <1>10, <2>a, <2>b DEF RecordFails, ReleaseOwner
  <2>2. QED
    BY <1>10, <2>1 DEF RecordFails, ReleaseOwner, Typed, Goto, Steps
<1>11. CASE Work(p)
  <2>1. pc' \in [Commands -> Steps] /\ me' \in [Commands -> CommandStates]
    <3>1. CASE UNCHANGED me
      BY <1>11, <3>1 DEF Work, Typed, Goto, Write, Steps
    <3>2. CASE ~UNCHANGED me
      BY <1>0, <1>11, <3>2, WriteTyped DEF Work, Statuses
    <3>3. QED
      BY <3>1, <3>2
  <2>2. QED
    BY <1>11, <2>1 DEF Work, Typed
<1>12. CASE Handle(p)
  <2>1. pc' \in [Commands -> Steps] /\ me' \in [Commands -> CommandStates]
    <3>1. CASE UNCHANGED me
      BY <1>12, <3>1 DEF Handle, Typed, Goto, Fail, Steps
    <3>2. CASE ~UNCHANGED me
      BY <1>0, <1>12, <3>2, FailTyped DEF Handle, Statuses, Ended
    <3>3. QED
      BY <3>1, <3>2
  <2>2. QED
    BY <1>12, <2>1 DEF Handle, Typed
<1>13. CASE Unlock(p) \/ Crash(p) \/ Interrupt(p)
  <2>1. pc' \in [Commands -> Steps]
    BY <1>13 DEF Unlock, Crash, Interrupt, Typed, Goto, Steps
  <2>2. me' \in [Commands -> CommandStates] /\ lock' \in Commands \cup {Status, NoOne}
    <3>1. /\ me' = me \/ me' = [me EXCEPT ![p] = NoCommand]
          /\ lock' = lock \/ lock' = NoOne
      BY <1>13 DEF Unlock, Crash, Interrupt
    <3>2. NoCommand \in CommandStates /\ me \in [Commands -> CommandStates]
      BY <1>0 DEF Typed
    <3>3. me' \in [Commands -> CommandStates]
      BY <3>1, <3>2
    <3>4. QED
      BY <3>1, <3>3 DEF Typed
  <2>3. torn' \in [Operations -> BOOLEAN] /\ tmp' \in [Operations -> BOOLEAN]
    BY <1>13 DEF Unlock, Crash, Interrupt, Typed
  <2>4. UNCHANGED <<dirs, origin, events, man, owner, rpc, rd>>
    BY <1>13 DEF Unlock, Crash, Interrupt
  <2>5. QED
    BY <2>1, <2>2, <2>3, <2>4 DEF Typed
<1> QED
  BY <1>1, <1>2, <1>3, <1>4, <1>5, <1>6, <1>7, <1>8, <1>9, <1>10, <1>11, <1>12, <1>13 DEF Proceed

(* So does every step of status. *)
LEMMA ReaderTyped ==
    ASSUME Typed, ReaderOK, Probe \/ ReadStatus
    PROVE  Typed'
<1> USE DEF files
<1>0. Typed /\ rd \in Reports
  BY DEF Typed
<1>a. NoReport \in Reports
  BY DEF NoReport, Reports, Owners, Manifests, NoManifest, Statuses
<1>b. rd.before \subseteq Operations /\ rd.listed \in 0..MaxOps /\ rd.left \subseteq Operations
  BY <1>0 DEF Reports
<1>c. ASSUME NEW r \in {"idle", "interrupted", "recovery_required"}, Answer(r)
      PROVE  rpc' = "idle" /\ rd' \in Reports
  <2> DEFINE b == IF r = "idle" THEN rd.before ELSE {}
             n == IF r = "interrupted" THEN rd.listed ELSE 0
  <2>1. b \in SUBSET Operations /\ n \in 0..MaxOps
    BY <1>b
  <2>2. rpc' = "idle" /\ rd' = [NoReport EXCEPT !.report = r, !.before = b, !.listed = n]
    BY <1>c DEF Answer
  <2> HIDE DEF b, n
  <2>3. QED
    BY <1>a, <2>1, <2>2 DEF Reports
<1>1. CASE Probe
  <2>1. {o \in 1..dirs : Troubled(o)} \in SUBSET Operations
    BY <1>0 DEF Typed
  <2>2. rd' \in Reports
    BY <1>1, <1>a, <2>1 DEF Probe, Reports
  <2>3. QED
    BY <1>1, <2>2 DEF Probe, Typed
<1>2. CASE ReadOwner \/ List
  <2>1. owner \in Owners /\ dirs \in 0..MaxOps /\ 1..dirs \in SUBSET Operations
    BY <1>0 DEF Typed
  <2>2. rd' \in Reports
    BY <1>0, <1>2, <2>1 DEF ReadOwner, List, Reports
  <2>3. QED
    BY <1>2, <2>2 DEF ReadOwner, List, Typed
<1>3. CASE ScanDirectory
  <2>1. PICK o \in rd.left :
           \/ Answer("recovery_required")
           \/ (rpc' = "events" /\ rd' = [rd EXCEPT !.cur = o, !.man = man[o]])
    BY <1>3 DEF ScanDirectory
  <2>2. man[o] \in Manifests /\ o \in 0..MaxOps
    BY <1>0, <1>b DEF Typed
  <2>3. rd' \in Reports /\ rpc' \in {"idle", "events"}
    <3>1. CASE Answer("recovery_required")
      BY <1>c, <3>1
    <3>2. CASE rpc' = "events" /\ rd' = [rd EXCEPT !.cur = o, !.man = man[o]]
      BY <1>0, <2>2, <3>2 DEF Reports
    <3>3. QED
      BY <2>1, <3>1, <3>2
  <2>4. QED
    BY <1>3, <2>3 DEF ScanDirectory, Typed
<1>4. CASE ReadEvents
  <2>1. rd' \in Reports /\ rpc' \in {"idle", "scan"}
    <3>1. CASE Answer("recovery_required")
      BY <1>c, <3>1
    <3>2. CASE ~Answer("recovery_required")
      <4> DEFINE l == rd.left \ {rd.cur}
                 g == rd.found \cup {[op |-> rd.cur, status |-> rd.man.status]}
      <4>1. rpc' = "scan" /\ rd' = [rd EXCEPT !.left = l, !.found = g]
        BY <1>4, <3>2 DEF ReadEvents
      <4>2. rd.cur \in Operations /\ rd.man.status \in Statuses
        BY <1>0, <1>4, <1>b DEF ReadEvents, ReaderOK, Reports, Manifests
      <4>3. l \in SUBSET Operations /\ g \in SUBSET [op : Operations, status : Statuses]
        BY <1>0, <4>2 DEF Reports
      <4> HIDE DEF l, g
      <4>4. QED
        BY <1>0, <4>1, <4>3 DEF Reports
    <3>3. QED
      BY <3>1, <3>2
  <2>2. QED
    BY <1>4, <2>1 DEF ReadEvents, Typed
<1>5. CASE Report
  <2>1. \E r \in {"idle", "interrupted", "recovery_required"} : Answer(r)
    BY <1>5 DEF Report
  <2>2. rd' \in Reports /\ rpc' = "idle"
    BY <1>c, <2>1
  <2>3. QED
    BY <1>5, <2>2 DEF Report, Typed
<1> QED
  BY <1>1, <1>2, <1>3, <1>4, <1>5 DEF ReadStatus

(* The lock keeps all others out. *)
LEMMA NextLock ==
    ASSUME Typed, LockOK, Next
    PROVE  LockOK'
<1> USE DEF reader
<1>1. ASSUME NEW p \in Commands, Acquire(p)
      PROVE  LockOK'
  BY <1>1 DEF LockOK, Typed, Acquire, Goto
<1>2. ASSUME NEW p \in Commands, Unlock(p) \/ Crash(p)
      PROVE  LockOK'
  <2>1. pc[p] # "idle" /\ pc' = [pc EXCEPT ![p] = "idle"] /\ UNCHANGED rpc
    BY <1>2 DEF Unlock, Crash, Goto
  <2>2. QED
    BY <2>1, Alone DEF LockOK, Typed
<1>3. ASSUME NEW p \in Commands, Proceed(p) \/ Interrupt(p), ~Unlock(p)
      PROVE  LockOK'
  <2>1. /\ pc[p] # "idle" /\ UNCHANGED <<lock, rpc>>
        /\ \A q \in Commands : q # p => pc'[q] = pc[q]
    BY <1>3 DEF Typed, Proceed, Interrupt, Admit, Refuse, Create, CreateFails, AppendEvent,
       StageManifest, ReplaceManifest, AppendFails, StageFails, ReplaceFails, Supersede,
       RecordOwner, RecordFails, Work, Handle, ReleaseOwner, Goto, Write, Fail
  <2>2. QED
    BY <2>1 DEF LockOK
<1>4. CASE Probe \/ ReadStatus
  BY <1>4 DEF LockOK, Typed, Probe, ReadStatus, ReadOwner, List, ScanDirectory, ReadEvents,
     Report, Answer
<1> QED
  BY <1>1, <1>2, <1>3, <1>4 DEF Next

------------------------------------------------------------------------------
(* The files.                                                               *)

(* Of the operations, only the newest can change, and only while it has    *)
(* not ended.                                                               *)
LEMMA FilesStep ==
    ASSUME Typed, FilesOK, UNCHANGED dirs, dirs \in Operations,
           \A o \in Operations : o # dirs =>
              /\ events'[o] = events[o] /\ torn'[o] = torn[o]
              /\ man'[o] = man[o] /\ tmp'[o] = tmp[o],
           Len(events'[dirs]) <= MaxEvents,
           man'[dirs].status \in Ended => Readable(dirs)',
           man'[dirs].status # "none" => man'[dirs].last \in 1..Len(events'[dirs])
    PROVE  FilesOK'
<1> SUFFICES ASSUME NEW o \in Operations
             PROVE  (/\ Len(events[o]) <= MaxEvents
                     /\ o > dirs => man[o] = NoManifest /\ events[o] = <<>> /\ ~torn[o] /\ ~tmp[o]
                     /\ o < dirs => man[o].status \in Ended
                     /\ man[o].status \in Ended => Readable(o)
                     /\ man[o].status # "none" => man[o].last \in 1..Len(events[o]))'
  BY DEF FilesOK
<1>1. CASE o = dirs
  BY <1>1
<1>2. CASE o # dirs
  BY <1>2 DEF FilesOK, Readable
<1> QED
  BY <1>1, <1>2

(* A record that has not ended is unfinished or was never whole. *)
LEMMA NotEnded ==
    ASSUME Typed, NEW o \in Operations
    PROVE  man[o].status \in Ended \/ man[o].status \in {"none", "in_progress"}
BY DEF Typed, Manifests, Statuses

(* Whatever a command does, or fails to do, only the newest operation may  *)
(* be left unfinished or unreadable, and what has ended stays so.           *)
LEMMA CommandFiles ==
    ASSUME Typed, FilesOK, NEW p \in Commands, CommandOK(p),
           Acquire(p) \/ Proceed(p) \/ Crash(p) \/ Interrupt(p)
    PROVE  /\ FilesOK' /\ dirs <= dirs'
           /\ \A o \in Operations : man[o].status \in Ended => man'[o] = man[o]
<1> USE DEF files
<1>0. dirs \in 0..MaxOps
  BY DEF Typed
<1>a. pc[p] \in Writing =>
         /\ dirs \in Operations /\ me[p].target = dirs /\ ~torn[dirs]
         /\ man[dirs].status \in {"none", "in_progress"}
         /\ me[p].status \in Ended \cup {"in_progress"}
         /\ pc[p] = "append" => Len(events[dirs]) < MaxEvents
         /\ pc[p] = "replace" => /\ events[dirs] # <<>>
                                 /\ events[dirs][Len(events[dirs])] = me[p].status
  BY WrittenTyped DEF CommandOK, WriteOK, Writing
<1>b. pc[p] \in Writing => man[dirs].status \notin Ended
  BY <1>a DEF Ended
<1>c. \A o \in Operations : events[o] \in Seq(Ended \cup {"in_progress"}) /\ Len(events[o]) \in Nat
  BY DEF Typed
<1>1. CASE UNCHANGED <<dirs, events, torn, man, tmp>>
  BY <1>0, <1>1 DEF FilesOK, Readable
<1>2. CASE \/ Acquire(p) \/ Admit(p) \/ Refuse(p) \/ CreateFails(p) \/ Supersede(p)
           \/ RecordOwner(p) \/ RecordFails(p) \/ Work(p) \/ Handle(p) \/ ReleaseOwner(p)
           \/ Unlock(p)
  BY <1>1, <1>2 DEF Acquire, Admit, Refuse, CreateFails, Supersede, RecordOwner, RecordFails,
     Work, Handle, ReleaseOwner, Unlock
<1>3. CASE Create(p)
  <2>1. /\ dirs' = dirs + 1 /\ UNCHANGED <<events, torn, man, tmp>>
        /\ \A o \in 1..dirs : man[o].status \in Ended
    BY <1>3 DEF Create, CommandOK
  <2>2. QED
    BY <1>0, <2>1 DEF FilesOK, Readable
<1>4. CASE AppendEvent(p) \/ AppendFails(p) \/ (Crash(p) /\ pc[p] = "append")
  <2>1. pc[p] = "append" /\ pc[p] \in Writing /\ UNCHANGED <<dirs, man, tmp>>
    BY <1>4 DEF AppendEvent, AppendFails, Crash, Writing
  <2>2. /\ \A o \in Operations : o # dirs => events'[o] = events[o] /\ torn'[o] = torn[o]
        /\ \/ events'[dirs] = events[dirs]
           \/ events'[dirs] = Append(events[dirs], me[p].status)
    BY <1>4, <1>a, <2>1 DEF AppendEvent, AppendFails, Crash, Typed
  <2>3. Len(events'[dirs]) \in {Len(events[dirs]), Len(events[dirs]) + 1}
    BY <1>a, <1>c, <2>1, <2>2
  <2>4. /\ Len(events'[dirs]) <= MaxEvents
        /\ man[dirs].status # "none" => man[dirs].last \in 1..Len(events'[dirs])
    BY <1>a, <1>c, <2>1, <2>3 DEF FilesOK
  <2>5. FilesOK'
    BY <1>a, <1>b, <2>1, <2>2, <2>4, FilesStep
  <2>6. QED
    BY <1>0, <2>1, <2>5
<1>5. CASE \/ StageManifest(p) \/ StageFails(p) \/ (Interrupt(p) /\ pc[p] = "replace")
           \/ (ReplaceFails(p) /\ UNCHANGED man)
  <2>1. /\ pc[p] \in Writing /\ UNCHANGED <<dirs, man, events, torn>>
        /\ \A o \in Operations : o # dirs => tmp'[o] = tmp[o]
    BY <1>5, <1>a DEF StageManifest, StageFails, Interrupt, ReplaceFails, Replaced, Typed, Writing
  <2>2. FilesOK'
    BY <1>a, <1>b, <2>1, FilesStep DEF FilesOK
  <2>3. QED
    BY <1>0, <2>1, <2>2
<1>6. CASE (ReplaceManifest(p) \/ ReplaceFails(p)) /\ ~UNCHANGED man
  <2>1. /\ pc[p] = "replace" /\ pc[p] \in Writing /\ UNCHANGED <<dirs, events, torn>>
        /\ Replaced(dirs, me[p].status)
    BY <1>6, <1>a DEF ReplaceManifest, ReplaceFails, Writing
  <2>2. /\ man'[dirs] = [status |-> me[p].status, last |-> Len(events[dirs])]
        /\ tmp'[dirs] = FALSE
        /\ \A o \in Operations : o # dirs => man'[o] = man[o] /\ tmp'[o] = tmp[o]
    BY <1>a, <2>1 DEF Replaced, Typed
  <2>3. Len(events[dirs]) \in 1..MaxEvents
    BY <1>a, <1>c, <2>1 DEF FilesOK
  <2>4. Readable(dirs)'
    BY <1>a, <2>1, <2>2 DEF Readable, Ended
  <2>5. FilesOK'
    BY <1>a, <2>1, <2>2, <2>3, <2>4, FilesStep
  <2>6. QED
    BY <1>0, <1>b, <2>1, <2>2, <2>5
<1>7. CASE ReplaceManifest(p) /\ UNCHANGED man
  <2>1. /\ pc[p] \in Writing /\ UNCHANGED <<dirs, man, events, torn>>
        /\ \A o \in Operations : o # dirs => tmp'[o] = tmp[o]
    BY <1>7, <1>a DEF ReplaceManifest, Replaced, Typed, Writing
  <2>2. FilesOK'
    BY <1>a, <1>b, <2>1, FilesStep DEF FilesOK
  <2>3. QED
    BY <1>0, <2>1, <2>2
<1>8. CASE (Crash(p) /\ pc[p] # "append") \/ (Interrupt(p) /\ pc[p] # "replace")
  BY <1>1, <1>8 DEF Crash, Interrupt
<1> QED
  BY <1>2, <1>3, <1>4, <1>5, <1>6, <1>7, <1>8 DEF Proceed

------------------------------------------------------------------------------
(* The commands.                                                            *)

(* Nothing needs to be known of a command that waits or is about to end. *)
LEMMA Resting ==
    ASSUME NEW q \in Commands, pc'[q] \in {"idle", "admit", "release", "unlock"}
    PROVE  CommandOK(q)'
BY DEF CommandOK, Claiming, Writing

(* A command that starts to write knows that the record takes it. *)
LEMMA WriteStarts ==
    ASSUME Typed, NEW p \in Commands, UNCHANGED <<dirs, events, torn, man, tmp, owner>>,
           dirs \in Operations, Writable(dirs), pc'[p] = "append", me'[p].target = dirs,
           \/ me'[p].next = "work" /\ me'[p].status = "in_progress" /\ me'[p].op = dirs
           \/ me'[p].next = "release" /\ me'[p].status \in Ended /\ me'[p].op = dirs
           \/ /\ me'[p].next = "supersede" /\ me'[p].status = "recovery_required"
              /\ owner.state = "active" => owner.op = me'[p].ack
    PROVE  CommandOK(p)'
<1>1. /\ dirs' # 0 /\ me'[p].target = dirs' /\ ~torn'[dirs'] /\ tmp'[dirs'] = FALSE
      /\ man'[dirs'].status = "in_progress" /\ Len(events'[dirs']) < MaxEvents
      /\ Readable(dirs)'
  BY DEF Writable, Readable, Typed
<1>2. CASE me'[p].next = "work"
  <2>1. WriteOK(p)'
    BY <1>1, <1>2 DEF WriteOK
  <2>2. QED
    BY <1>2, <2>1 DEF CommandOK, Claiming, Writing
<1>3. CASE me'[p].next = "release"
  <2>1. WriteOK(p)'
    BY <1>1, <1>3 DEF WriteOK
  <2>2. QED
    BY <1>3, <2>1 DEF CommandOK, Claiming, Writing
<1>4. CASE me'[p].next = "supersede"
  <2>1. WriteOK(p)'
    BY <1>1, <1>4 DEF WriteOK
  <2>2. QED
    BY <1>4, <2>1 DEF CommandOK, Claiming, Writing
<1> QED
  BY <1>2, <1>3, <1>4

(* When a write fails, the handler only follows a write of the operation   *)
(* of its own command.                                                      *)
LEMMA ErrorHandled ==
    ASSUME NEW p \in Commands, CommandOK(p), pc[p] \in Writing, UNCHANGED <<dirs, me>>,
           pc'[p] = OnError(p)
    PROVE  CommandOK(p)'
<1>1. dirs # 0 /\ (me[p].next # "supersede" => me[p].op = dirs)
  BY DEF CommandOK, WriteOK
<1>2. CASE OnError(p) \in {"release", "unlock"}
  BY <1>2, Resting
<1>3. CASE OnError(p) \notin {"release", "unlock"}
  <2>1. pc'[p] = "handle" /\ me[p].next # "supersede"
    BY <1>3 DEF OnError
  <2>2. QED
    BY <1>1, <2>1 DEF CommandOK, Claiming, Writing
<1> QED
  BY <1>2, <1>3

(* Every step of a command leaves it with what its next step relies on. *)
LEMMA CommandArrives ==
    ASSUME Typed, LockOK, FilesOK, NEW p \in Commands, CommandOK(p),
           Acquire(p) \/ Proceed(p) \/ Crash(p) \/ Interrupt(p)
    PROVE  CommandOK(p)'
<1> USE DEF files
<1>0. /\ dirs \in 0..MaxOps /\ me[p] \in CommandStates /\ pc[p] \in Steps
      /\ DOMAIN pc = Commands /\ DOMAIN me = Commands
  BY DEF Typed
<1>a. pc[p] \in Writing =>
         /\ dirs \in Operations /\ me[p].target = dirs /\ WriteOK(p)
         /\ me[p].status \in Ended \cup {"in_progress"}
         /\ me[p].next \in {"record", "supersede", "work", "release"}
  BY WrittenTyped DEF CommandOK
<1>b. \A o \in Operations : events[o] \in Seq(Ended \cup {"in_progress"}) /\ Len(events[o]) \in Nat
  BY DEF Typed
<1>1. CASE Acquire(p) \/ Refuse(p) \/ CreateFails(p) \/ RecordFails(p) \/ ReleaseOwner(p)
           \/ Unlock(p) \/ Crash(p) \/ Interrupt(p)
  <2>1. pc'[p] \in {"idle", "admit", "release", "unlock"}
    BY <1>0, <1>1 DEF Acquire, Refuse, CreateFails, RecordFails, ReleaseOwner, Unlock, Crash,
       Interrupt, Goto
  <2>2. QED
    BY <2>1, Resting
<1>2. CASE Admit(p)
  <2>1. CASE CleanOperationState /\ Goto(p, "create") /\ UNCHANGED me
    <3>1. /\ pc'[p] = "create" /\ owner.state # "active"
          /\ UNCHANGED <<dirs, man, owner>>
      BY <1>0, <1>2, <2>1 DEF Admit, Goto, CleanOperationState
    <3>2. dirs > 0 => man[dirs].status \in Ended
      BY <1>0, <2>1, NotEnded DEF CleanOperationState, Readable
    <3>3. \A o \in 1..dirs : man[o].status \in Ended
      BY <1>0, <3>2 DEF FilesOK
    <3>4. QED
      BY <3>1, <3>3 DEF CommandOK, Claiming, Writing
  <2>2. CASE ~(CleanOperationState /\ Goto(p, "create") /\ UNCHANGED me)
    <3>1. /\ \A o \in 1..dirs : Readable(o)
          /\ Goto(p, "supersede")
          /\ UNCHANGED <<dirs, events, torn, man, tmp, owner>>
          /\ \E o \in 1..dirs :
                me' = [me EXCEPT ![p] = [@ EXCEPT
                             !.source = o,
                             !.ack = IF owner.state = "active" THEN owner.op ELSE 0]]
      BY <1>2, <2>2 DEF Admit
    <3>2. owner.state = "active" => owner.op = me'[p].ack
      BY <1>0, <3>1 DEF CommandStates
    <3>3. pc'[p] = "supersede"
      BY <1>0, <3>1 DEF Goto
    <3>4. QED
      BY <3>1, <3>2, <3>3 DEF CommandOK, Claiming, Writing, Readable
  <2>3. QED
    BY <2>1, <2>2
<1>3. CASE Create(p)
  <2>1. /\ pc'[p] = "append" /\ dirs' = dirs + 1 /\ dirs' \in Operations
        /\ UNCHANGED <<events, torn, man, tmp, owner>>
        /\ me' = [me EXCEPT ![p] = [@ EXCEPT !.op = dirs + 1, !.target = dirs + 1,
                                             !.status = "in_progress", !.next = "record"]]
    BY <1>0, <1>3 DEF Create
  <2>2. /\ me'[p].op = dirs' /\ me'[p].target = dirs' /\ me'[p].status = "in_progress"
        /\ me'[p].next = "record" /\ me'[p].ack = me[p].ack
    BY <1>0, <2>1 DEF CommandStates
  <2>3. /\ man'[dirs'] = NoManifest /\ events'[dirs'] = <<>> /\ ~torn'[dirs'] /\ ~tmp'[dirs']
    BY <1>0, <2>1 DEF FilesOK
  <2>4. WriteOK(p)'
    BY <2>1, <2>2, <2>3 DEF WriteOK, NoManifest, Typed
  <2>5. owner.state = "active" => owner.op = me[p].ack
    BY <1>3 DEF Create, CommandOK, Claiming
  <2>6. QED
    BY <2>1, <2>2, <2>4, <2>5 DEF CommandOK, Claiming, Writing
<1>4. CASE AppendEvent(p)
  <2>1. /\ pc[p] = "append" /\ pc[p] \in Writing /\ pc'[p] = "stage"
        /\ UNCHANGED <<dirs, torn, man, tmp, owner, me>>
        /\ events' = [events EXCEPT ![me[p].target] = Append(@, me[p].status)]
    BY <1>0, <1>4 DEF AppendEvent, Goto, Writing
  <2>2. events'[dirs] = Append(events[dirs], me[p].status)
    BY <1>a, <2>1 DEF Typed
  <2>3. events'[dirs] # <<>> /\ events'[dirs][Len(events'[dirs])] = me[p].status
    <3> DEFINE S == Ended \cup {"in_progress"}
               e == events[dirs]
    <3>1. e \in Seq(S) /\ me[p].status \in S
      BY <1>a, <1>b, <2>1
    <3> HIDE DEF S, e
    <3>2. Len(Append(e, me[p].status)) = Len(e) + 1
          /\ Append(e, me[p].status)[Len(e) + 1] = me[p].status /\ Len(e) \in Nat
      BY <3>1
    <3>3. events'[dirs] = Append(e, me[p].status)
      BY <2>2 DEF e
    <3>4. QED
      BY <3>2, <3>3
  <2>4. WriteOK(p)'
    BY <1>a, <2>1, <2>3 DEF WriteOK
  <2>5. QED
    BY <2>1, <2>4 DEF CommandOK, Claiming, Writing
<1>5. CASE StageManifest(p)
  <2>1. /\ pc[p] = "stage" /\ pc[p] \in Writing /\ pc'[p] = "replace"
        /\ UNCHANGED <<dirs, events, torn, man, owner, me>>
        /\ tmp' = [tmp EXCEPT ![me[p].target] = TRUE]
    BY <1>0, <1>5 DEF StageManifest, Goto, Writing
  <2>2. tmp'[dirs] = TRUE
    BY <1>a, <2>1 DEF Typed
  <2>3. WriteOK(p)'
    BY <1>a, <2>1, <2>2 DEF WriteOK
  <2>4. QED
    BY <2>1, <2>3 DEF CommandOK, Claiming, Writing
<1>6. CASE ReplaceManifest(p)
  <2>1. /\ pc[p] = "replace" /\ pc[p] \in Writing /\ pc'[p] = me[p].next
        /\ UNCHANGED <<dirs, events, torn, owner, me>>
        /\ man' = [man EXCEPT ![dirs] = [status |-> me[p].status, last |-> Len(events[dirs])]]
        /\ tmp' = [tmp EXCEPT ![dirs] = FALSE]
    BY <1>0, <1>6, <1>a DEF ReplaceManifest, Replaced, Goto, Writing
  <2>2. /\ man'[dirs] = [status |-> me[p].status, last |-> Len(events[dirs])]
        /\ ~tmp'[dirs] /\ ~torn'[dirs]
        /\ \A o \in Operations : o # dirs => man'[o] = man[o] /\ tmp'[o] = tmp[o]
    BY <1>a, <2>1 DEF Typed, WriteOK
  <2>3. Readable(dirs)'
    BY <1>a, <2>1, <2>2 DEF Readable, WriteOK, Ended
  <2>4. CASE me[p].next = "release"
    BY <2>1, <2>4, Resting
  <2>5. CASE me[p].next = "work"
    <3>1. me[p].op = dirs /\ me[p].status = "in_progress" /\ dirs # 0
      BY <1>a, <2>1, <2>5 DEF WriteOK
    <3>2. QED
      BY <2>1, <2>2, <2>3, <2>5, <3>1 DEF CommandOK, Claiming, Writing
  <2>6. CASE me[p].next = "record"
    <3>1. me[p].op = dirs /\ me[p].status = "in_progress" /\ dirs # 0
      BY <1>a, <2>1, <2>6 DEF WriteOK
    <3>2. owner.state = "active" => owner.op = me[p].ack
      BY <2>1, <2>6 DEF CommandOK, Claiming
    <3>3. QED
      BY <2>1, <2>2, <2>3, <2>6, <3>1, <3>2 DEF CommandOK, Claiming, Writing
  <2>7. CASE me[p].next = "supersede"
    <3>1. owner.state = "active" => owner.op = me[p].ack
      BY <2>1, <2>7 DEF CommandOK, Claiming
    <3>2. \A o \in 1..dirs : o # dirs => Readable(o)'
      BY <1>0, <2>1, <2>2 DEF FilesOK, Readable
    <3>3. QED
      BY <2>1, <2>3, <2>7, <3>1, <3>2 DEF CommandOK, Claiming, Writing
  <2>8. QED
    BY <1>a, <2>1, <2>4, <2>5, <2>6, <2>7
<1>7. CASE AppendFails(p) \/ StageFails(p) \/ ReplaceFails(p)
  <2>1. pc[p] \in Writing /\ UNCHANGED <<dirs, me>> /\ pc'[p] = OnError(p)
    BY <1>0, <1>7 DEF AppendFails, StageFails, ReplaceFails, Goto, Writing
  <2>2. QED
    BY <2>1, ErrorHandled
<1>8. CASE Supersede(p)
  <2>1. /\ UNCHANGED <<dirs, events, torn, man, tmp, owner>>
        /\ \A o \in 1..dirs : Readable(o)
        /\ owner.state = "active" => owner.op = me[p].ack
    BY <1>8 DEF Supersede, CommandOK, Claiming
  <2>2. CASE Unfinished = {}
    <3>1. pc'[p] = "create" /\ UNCHANGED me
      BY <1>0, <1>8, <2>2 DEF Supersede, Goto
    <3>2. \A o \in 1..dirs : man[o].status \in Ended
      BY <1>0, <2>1, <2>2, NotEnded DEF Unfinished, Readable
    <3>3. QED
      BY <2>1, <3>1, <3>2 DEF CommandOK, Claiming, Writing
  <2>3. CASE pc'[p] = "unlock"
    BY <2>3, Resting
  <2>4. CASE Unfinished # {} /\ pc'[p] # "unlock"
    <3>1. PICK o \in Unfinished : Writable(o) /\ Write(p, o, "recovery_required", "supersede")
      BY <1>0, <1>8, <2>4 DEF Supersede, Goto
    <3>2. o \in Operations /\ o <= dirs /\ man[o].status \notin Ended
      BY <1>0, <3>1 DEF Unfinished, Ended
    <3>3. o = dirs /\ dirs \in Operations
      BY <1>0, <3>2 DEF FilesOK
    <3>4. /\ pc'[p] = "append" /\ me'[p].target = dirs /\ me'[p].next = "supersede"
          /\ me'[p].status = "recovery_required" /\ me'[p].ack = me[p].ack
      BY <1>0, <3>1, <3>3 DEF Write, Goto, CommandStates
    <3>5. QED
      BY <2>1, <3>1, <3>3, <3>4, WriteStarts
  <2>5. QED
    BY <2>2, <2>3, <2>4
<1>9. CASE RecordOwner(p)
  <2>1. CASE pc'[p] = "unlock"
    BY <2>1, Resting
  <2>2. CASE pc'[p] # "unlock"
    <3>1. /\ pc[p] = "record" /\ pc'[p] = "work" /\ UNCHANGED <<dirs, events, torn, man, tmp>>
          /\ me' = [me EXCEPT ![p] = [@ EXCEPT !.owned = TRUE]]
      BY <1>0, <1>9, <2>2 DEF RecordOwner, Goto
    <3>2. me'[p].op = me[p].op
      BY <1>0, <3>1 DEF CommandStates
    <3>3. QED
      BY <3>1, <3>2 DEF CommandOK, Claiming, Writing, Readable
  <2>3. QED
    BY <2>1, <2>2
<1>10. CASE Work(p)
  <2>1. /\ dirs # 0 /\ dirs \in Operations /\ me[p].op = dirs
        /\ UNCHANGED <<dirs, events, torn, man, tmp, owner>>
    BY <1>0, <1>10 DEF Work, CommandOK
  <2>2. CASE Writable(dirs)
    <3>1. \/ Write(p, dirs, "in_progress", "work")
          \/ \E s \in Ended : Write(p, dirs, s, "release")
      BY <1>10, <2>1, <2>2 DEF Work
    <3> DEFINE Started(s, l) == /\ pc'[p] = "append" /\ me'[p].target = dirs /\ me'[p].op = dirs
                               /\ me'[p].next = l /\ me'[p].status = s
    <3>a. ASSUME NEW s, NEW l, Write(p, dirs, s, l)
          PROVE  Started(s, l)
      BY <1>0, <2>1, <3>a DEF Write, Goto, CommandStates
    <3>2. \/ Started("in_progress", "work")
          \/ \E s \in Ended : Started(s, "release")
      BY <3>1, <3>a
    <3>3. QED
      BY <2>1, <2>2, <3>2, WriteStarts
  <2>3. CASE ~Writable(dirs)
    <3>1. pc'[p] = "handle" /\ UNCHANGED me
      BY <1>0, <1>10, <2>1, <2>3 DEF Work, Goto
    <3>2. QED
      BY <2>1, <3>1 DEF CommandOK, Claiming, Writing
  <2>4. QED
    BY <2>2, <2>3
<1>11. CASE Handle(p)
  <2>1. /\ dirs # 0 /\ dirs \in Operations /\ me[p].op = dirs
        /\ UNCHANGED <<dirs, events, torn, man, tmp, owner>>
    BY <1>0, <1>11 DEF Handle, CommandOK
  <2>2. CASE Writable(dirs)
    <3>1. \E s \in Ended : Fail(p, s)
      BY <1>11, <2>1, <2>2 DEF Handle, Ended
    <3>2. /\ pc'[p] = "append" /\ me'[p].target = dirs /\ me'[p].op = dirs
          /\ me'[p].next = "release" /\ me'[p].status \in Ended
      BY <1>0, <2>1, <3>1 DEF Fail, Goto, CommandStates
    <3>3. QED
      BY <2>1, <2>2, <3>2, WriteStarts
  <2>3. CASE ~Writable(dirs)
    <3>1. pc'[p] = "release"
      BY <1>0, <1>11, <2>1, <2>3 DEF Handle, Goto
    <3>2. QED
      BY <3>1, Resting
  <2>4. QED
    BY <2>2, <2>3
<1> QED
  BY <1>1, <1>2, <1>3, <1>4, <1>5, <1>6, <1>7, <1>8, <1>9, <1>10, <1>11 DEF Proceed

(* While a command takes a step, all others stay idle. *)
LEMMA OneSteps ==
    ASSUME Typed, LockOK, NEW p \in Commands,
           Acquire(p) \/ Proceed(p) \/ Crash(p) \/ Interrupt(p)
    PROVE  \A q \in Commands : q # p => pc[q] = "idle" /\ pc'[q] = "idle"
<1> SUFFICES ASSUME NEW q \in Commands, q # p PROVE pc[q] = "idle" /\ pc'[q] = "idle"
  OBVIOUS
<1>1. pc[q] = "idle"
  <2>1. CASE Acquire(p)
    BY <2>1 DEF Acquire, LockOK, Typed
  <2>2. CASE ~Acquire(p)
    <3>1. pc[p] # "idle"
      BY <2>2 DEF Proceed, Crash, Interrupt, Admit, Refuse, Create, CreateFails,
         AppendEvent, StageManifest, ReplaceManifest, AppendFails, StageFails,
         ReplaceFails, Supersede, RecordOwner, RecordFails, Work, Handle, ReleaseOwner,
         Unlock
    <3>2. QED
      BY <3>1, Alone
  <2>3. QED
    BY <2>1, <2>2
<1>2. pc'[q] = pc[q]
  BY DEF Typed, Goto, Write, Fail, Acquire, Proceed, Crash, Interrupt, Admit, Refuse,
     Create, CreateFails, AppendEvent, StageManifest, ReplaceManifest, AppendFails,
     StageFails, ReplaceFails, Supersede, RecordOwner, RecordFails, Work, Handle,
     ReleaseOwner, Unlock
<1> QED
  BY <1>1, <1>2

(* Every command is left with what its next step relies on. *)
LEMMA CommandsArrive ==
    ASSUME Typed, LockOK, FilesOK, NEW p \in Commands, \A q \in Commands : CommandOK(q),
           Acquire(p) \/ Proceed(p) \/ Crash(p) \/ Interrupt(p)
    PROVE  \A q \in Commands : CommandOK(q)'
BY CommandArrives, OneSteps, Resting

(* status changes no file and no command. *)
LEMMA CommandsStay ==
    ASSUME \A q \in Commands : CommandOK(q), UNCHANGED <<files, pc, me>>
    PROVE  \A q \in Commands : CommandOK(q)'
BY DEF CommandOK, Claiming, WriteOK, Readable, files

------------------------------------------------------------------------------
(* status.                                                                  *)

(* What status has read stays true while commands go on. *)
LEMMA ReaderWaits ==
    ASSUME Typed, ReaderOK, UNCHANGED reader, dirs' \in Nat, dirs <= dirs',
           \A o \in Operations : man[o].status \in Ended => man'[o] = man[o]
    PROVE  ReaderOK'
<1>1. dirs \in 0..MaxOps /\ rd \in Reports /\ UNCHANGED <<rpc, rd>>
  BY DEF Typed, reader
<1>2. /\ rd.before \subseteq Operations /\ rd.left \subseteq Operations
      /\ \A f \in rd.found : f.op \in Operations
  BY <1>1 DEF Reports
<1>3. rpc = "events" => rd.cur \in Operations
  BY <1>2 DEF ReaderOK
<1>4. \A o \in Operations : man[o].status \in Ended => man'[o].status \in Ended
  OBVIOUS
<1>5. rpc # "idle" => /\ rd.report = "none" /\ rd.before \subseteq 1..dirs'
                      /\ \A f \in rd.found :
                            /\ f.status # "none"
                            /\ f.status \in Ended => man'[f.op].status \in Ended
  <2> SUFFICES ASSUME rpc # "idle"
               PROVE  /\ rd.report = "none" /\ rd.before \subseteq 1..dirs'
                      /\ \A f \in rd.found :
                            /\ f.status # "none"
                            /\ f.status \in Ended => man'[f.op].status \in Ended
    OBVIOUS
  <2>1. rd.report = "none" /\ rd.before \subseteq 1..dirs
    BY DEF ReaderOK
  <2>2. ASSUME NEW f \in rd.found
        PROVE  f.status # "none" /\ (f.status \in Ended => man'[f.op].status \in Ended)
    BY <1>2, <1>4 DEF ReaderOK
  <2>3. QED
    BY <1>1, <2>1, <2>2
<1>6. rpc \in {"scan", "events"} => rd.listed \in 0..MaxOps /\ rd.listed <= dirs'
  BY <1>1 DEF ReaderOK, Reports
<1>7. rd.report = "idle" => \A o \in rd.before : man'[o].status \in Ended
  BY <1>2, <1>4 DEF ReaderOK
<1>8. rpc = "events" => (rd.man.status \in Ended => man'[rd.cur].status \in Ended)
  BY <1>3, <1>4 DEF ReaderOK
<1> QED
  BY <1>1, <1>5, <1>6, <1>7, <1>8 DEF ReaderOK

(* An answer other than idle needs no proof. *)
LEMMA Answered ==
    ASSUME NEW r \in {"interrupted", "recovery_required"}, Answer(r)
    PROVE  ReaderOK'
<1>1. rpc' = "idle" /\ rd'.report = r
  BY DEF Answer, NoReport
<1> QED
  BY <1>1 DEF ReaderOK

(* status learns of an operation that it has ended only after it has. *)
LEMMA ReaderReads ==
    ASSUME Typed, FilesOK, ReaderOK, Probe \/ ReadStatus
    PROVE  ReaderOK'
<1> USE DEF files
<1>0. dirs \in 0..MaxOps /\ rd \in Reports /\ UNCHANGED <<dirs, man>>
  BY DEF Typed, Probe, ReadStatus, ReadOwner, List, ScanDirectory, ReadEvents, Report
<1>1. CASE Probe
  <2>1. CASE lock # NoOne
    BY <1>0, <1>1, <2>1 DEF Probe, NoReport, ReaderOK
  <2>2. CASE lock = NoOne
    <3>1. /\ rpc' = "probed" /\ rd'.report = "none" /\ rd'.found = {}
          /\ rd'.before = {o \in 1..dirs : Troubled(o)}
      BY <1>1, <2>2 DEF Probe, NoReport
    <3>2. QED
      BY <1>0, <3>1 DEF ReaderOK
  <2>3. QED
    BY <2>1, <2>2
<1>2. CASE ReadOwner
  <2>1. /\ rpc = "probed" /\ rpc' = "list"
        /\ rd'.report = rd.report /\ rd'.found = rd.found /\ rd'.before = rd.before
    BY <1>0, <1>2 DEF ReadOwner, Reports
  <2>2. QED
    BY <1>0, <2>1 DEF ReaderOK
<1>3. CASE List
  <2>1. /\ rpc = "list" /\ rpc' = "scan"
        /\ rd'.report = rd.report /\ rd'.found = rd.found /\ rd'.before = rd.before
        /\ rd'.listed = dirs /\ rd'.left = 1..dirs
    BY <1>0, <1>3 DEF List, Reports
  <2>2. QED
    BY <1>0, <2>1 DEF ReaderOK
<1>4. CASE ScanDirectory
  <2>1. PICK o \in rd.left :
           \/ Answer("recovery_required")
           \/ /\ rpc' = "events" /\ rd' = [rd EXCEPT !.cur = o, !.man = man[o]]
              /\ man[o].status # "none"
    BY <1>4 DEF ScanDirectory
  <2>2. CASE Answer("recovery_required")
    BY <2>2, Answered
  <2>3. CASE ~Answer("recovery_required")
    <3>1. /\ rpc = "scan" /\ rpc' = "events" /\ rd'.cur = o /\ rd'.man = man[o]
          /\ rd'.report = rd.report /\ rd'.found = rd.found /\ rd'.before = rd.before
          /\ rd'.listed = rd.listed /\ rd'.left = rd.left /\ man[o].status # "none"
      BY <1>0, <1>4, <2>1, <2>3 DEF ScanDirectory, Reports
    <3>2. QED
      BY <1>0, <3>1 DEF ReaderOK
  <2>4. QED
    BY <2>2, <2>3
<1>5. CASE ReadEvents
  <2> DEFINE g == [op |-> rd.cur, status |-> rd.man.status]
  <2>1. CASE Answer("recovery_required")
    BY <2>1, Answered
  <2>2. CASE ~Answer("recovery_required")
    <3>1. /\ rpc = "events" /\ rpc' = "scan"
          /\ rd' = [rd EXCEPT !.left = @ \ {rd.cur}, !.found = @ \cup {g}]
      BY <1>5, <2>2 DEF ReadEvents
    <3>2. /\ rd'.report = rd.report /\ rd'.before = rd.before /\ rd'.listed = rd.listed
          /\ rd'.left = rd.left \ {rd.cur} /\ rd'.found = rd.found \cup {g}
      BY <1>0, <3>1 DEF Reports
    <3>3. \A f \in rd'.found :
             f.status # "none" /\ (f.status \in Ended => man[f.op].status \in Ended)
      BY <3>1, <3>2 DEF ReaderOK
    <3>4. \A o \in 1..rd.listed : o \in rd'.left \/ \E f \in rd'.found : f.op = o
      <4>1. g \in rd'.found /\ g.op = rd.cur
        BY <3>2
      <4>2. QED
        BY <3>1, <3>2, <4>1 DEF ReaderOK
    <3>5. QED
      BY <1>0, <3>1, <3>2, <3>3, <3>4 DEF ReaderOK
  <2>3. QED
    BY <2>1, <2>2
<1>6. CASE Report
  <2>1. CASE Answer("interrupted") \/ Answer("recovery_required")
    BY <2>1, Answered
  <2>2. CASE ~(Answer("interrupted") \/ Answer("recovery_required"))
    <3>1. /\ rpc = "scan" /\ rd.left = {} /\ Answer("idle")
          /\ Latest \cap {f \in rd.found : f.status = "in_progress"} = {}
          /\ ~\E f \in Latest : f.status = "recovery_required"
      BY <1>6, <2>2 DEF Report
    <3>2. rpc' = "idle" /\ rd'.report = "idle" /\ rd'.before = rd.before
      BY <3>1 DEF Answer, NoReport
    <3>3. ASSUME NEW o \in rd.before
          PROVE  man[o].status \in Ended
      <4>1. o \in 1..rd.listed /\ rd.listed <= dirs /\ rd.listed \in 0..MaxOps
        BY <1>0, <3>1, <3>3 DEF ReaderOK, Reports
      <4>2. CASE o < dirs
        BY <1>0, <4>1, <4>2 DEF FilesOK
      <4>3. CASE o = rd.listed
        <5>1. PICK f \in rd.found : f.op = o
          BY <3>1, <4>1 DEF ReaderOK
        <5>2. f \in Latest /\ f.status \in Statuses
          BY <1>0, <4>3, <5>1 DEF Latest, Reports
        <5>3. f.status \notin {"in_progress", "recovery_required", "none"}
          BY <3>1, <5>1, <5>2 DEF ReaderOK
        <5>4. QED
          BY <3>1, <5>1, <5>2, <5>3 DEF ReaderOK, Statuses
      <4>4. QED
        BY <1>0, <4>1, <4>2, <4>3
    <3>4. QED
      BY <1>0, <3>2, <3>3 DEF ReaderOK
  <2>3. QED
    BY <2>1, <2>2
<1> QED
  BY <1>1, <1>2, <1>3, <1>4, <1>5, <1>6 DEF ReadStatus

------------------------------------------------------------------------------
(* The invariant.                                                           *)

(* An empty state directory is in order. *)
LEMMA InitDirectory == Init => DirectoryOK
<1> SUFFICES ASSUME Init PROVE DirectoryOK
  OBVIOUS
<1>1. Typed
  <2>1. NoReport \in Reports
    BY DEF NoReport, Reports, Owners, Manifests, NoManifest, Statuses
  <2>2. NoCommand \in CommandStates
    BY DEF NoCommand, CommandStates, Statuses
  <2>3. NoManifest \in Manifests /\ [op |-> 0, state |-> "none"] \in Owners
        /\ [type |-> "work", source |-> 0] \in Origins
    BY DEF NoManifest, Manifests, Owners, Origins, Statuses
  <2>4. QED
    BY <2>1, <2>2, <2>3 DEF Init, Typed, Steps
<1>2. LockOK
  BY DEF Init, LockOK
<1>3. FilesOK
  BY DEF Init, FilesOK, NoManifest, Ended
<1>4. \A p \in Commands : CommandOK(p)
  BY DEF Init, CommandOK, Claiming, Writing
<1>5. ReaderOK
  BY DEF Init, ReaderOK, NoReport
<1> QED
  BY <1>1, <1>2, <1>3, <1>4, <1>5 DEF DirectoryOK

(* Every step keeps it in order. *)
LEMMA NextDirectory == DirectoryOK /\ [Next]_vars => DirectoryOK'
<1> SUFFICES ASSUME DirectoryOK, [Next]_vars PROVE DirectoryOK'
  OBVIOUS
<1>0. Typed /\ LockOK /\ FilesOK /\ (\A p \in Commands : CommandOK(p)) /\ ReaderOK
  BY DEF DirectoryOK
<1>1. ASSUME NEW p \in Commands, Acquire(p) \/ Proceed(p) \/ Crash(p) \/ Interrupt(p)
      PROVE  DirectoryOK'
  <2>1. Typed' /\ FilesOK' /\ (\A q \in Commands : CommandOK(q)') /\ LockOK'
    BY <1>0, <1>1, CommandTyped, CommandFiles, CommandsArrive, NextLock DEF Next
  <2>2. UNCHANGED reader
    BY <1>1 DEF Acquire, Proceed, Crash, Interrupt, Admit, Refuse, Create, CreateFails,
       AppendEvent, StageManifest, ReplaceManifest, AppendFails, StageFails, ReplaceFails,
       Supersede, RecordOwner, RecordFails, Work, Handle, ReleaseOwner, Unlock
  <2>3. ReaderOK'
    BY <1>0, <1>1, <2>1, <2>2, CommandFiles, ReaderWaits DEF Typed
  <2>4. QED
    BY <2>1, <2>3 DEF DirectoryOK
<1>2. CASE Probe \/ ReadStatus
  <2>1. UNCHANGED <<files, pc, me>>
    BY <1>2 DEF Probe, ReadStatus, ReadOwner, List, ScanDirectory, ReadEvents, Report
  <2>2. FilesOK'
    BY <1>0, <2>1 DEF FilesOK, Readable, files
  <2>3. QED
    BY <1>0, <1>2, <2>1, <2>2, ReaderTyped, NextLock, CommandsStay, ReaderReads
       DEF DirectoryOK, Next
<1>3. CASE UNCHANGED vars
  <2>1. UNCHANGED <<files, dirs, origin, events, torn, man, tmp, owner, lock, pc, me, rpc, rd>>
    BY <1>3 DEF vars, files, reader
  <2>2. Typed' /\ LockOK' /\ FilesOK' /\ ReaderOK'
    BY <1>0, <2>1 DEF Typed, LockOK, FilesOK, Readable, ReaderOK
  <2>3. QED
    BY <1>0, <2>1, <2>2, CommandsStay DEF DirectoryOK
<1> QED
  BY <1>1, <1>2, <1>3 DEF Next

(* The state directory is always in order. *)
LEMMA AlwaysDirectory == Spec => []DirectoryOK
BY InitDirectory, NextDirectory, PTL DEF Spec

------------------------------------------------------------------------------
(* The records.                                                             *)

(* The records as any reader may learn them. *)
AllRecords == [o \in Operations |-> RecordOf(o)]

(* A command writes the newest operation or none. *)
LEMMA WrittenNow ==
    ASSUME DirectoryOK, NEW o \in Operations
    PROVE  BeingWritten(o) <=> o = dirs /\ \E p \in Commands : pc[p] \in Writing
<1>1. \A p \in Commands : pc[p] \in Writing => me[p].target = dirs
  BY DEF DirectoryOK, CommandOK, WriteOK
<1> QED
  BY <1>1 DEF BeingWritten, Writing

(* The same after a step. *)
LEMMA WrittenNext ==
    ASSUME DirectoryOK', NEW o \in Operations
    PROVE  BeingWritten(o)' <=> o = dirs' /\ \E p \in Commands : pc'[p] \in Writing
<1>1. \A p \in Commands : pc'[p] \in Writing => me'[p].target = dirs'
  BY DEF DirectoryOK, CommandOK, WriteOK
<1> QED
  BY <1>1 DEF BeingWritten, Writing

(* A record of the past is its manifest, one of the future is empty. *)
LEMMA PastRecords ==
    ASSUME DirectoryOK, NEW o \in Operations
    PROVE  /\ o < dirs => RecordOf(o) = man[o].status /\ man[o].status \in Ended
           /\ o > dirs => RecordOf(o) = "none"
BY DEF DirectoryOK, Typed, FilesOK, RecordOf

(* The same after a step. *)
LEMMA PastRecordsNext ==
    ASSUME DirectoryOK', NEW o \in Operations
    PROVE  /\ o < dirs' => RecordOf(o)' = man'[o].status /\ man'[o].status \in Ended
           /\ o > dirs' => RecordOf(o)' = "none"
BY DEF DirectoryOK, Typed, FilesOK, RecordOf

(* When only the record of the newest operation changes, and begins, is    *)
(* lost or ends, the records do what they promise.                          *)
LEMMA NewestChanges ==
    ASSUME DirectoryOK, DirectoryOK', UNCHANGED dirs,
           \A o \in Operations : man[o].status \in Ended => man'[o] = man[o],
           dirs \in Operations =>
              LET a == RecordOf(dirs)
                  b == RecordOf(dirs)'
              IN  \/ b = a
                  \/ a = "none" /\ b \in {"in_progress", "unreadable"}
                  \/ a = "in_progress" /\ b \in Ended \cup {"unreadable"}
    PROVE  [Records!Next]_AllRecords
<1>0. dirs \in 0..MaxOps
  BY DEF DirectoryOK, Typed
<1>1. \A o \in Operations : o # dirs => RecordOf(o)' = RecordOf(o)
  BY <1>0, PastRecords, PastRecordsNext
<1>2. CASE dirs = 0
  BY <1>1, <1>2 DEF AllRecords
<1>3. CASE dirs # 0 /\ RecordOf(dirs)' = RecordOf(dirs)
  BY <1>1, <1>3 DEF AllRecords
<1>4. CASE dirs # 0 /\ RecordOf(dirs)' # RecordOf(dirs)
  <2> DEFINE b == RecordOf(dirs)'
  <2>0. dirs \in Operations
    BY <1>0, <1>4
  <2>1. /\ AllRecords[dirs] = RecordOf(dirs)
        /\ AllRecords' = [AllRecords EXCEPT ![dirs] = b]
    BY <1>1, <2>0 DEF AllRecords
  <2>2. \A o \in 1..(dirs - 1) : AllRecords[o] \in Records!Ended
    BY <2>0, PastRecords DEF AllRecords, Ended, Records!Ended
  <2> HIDE DEF b
  <2>3. CASE RecordOf(dirs) = "none"
    <3>1. b \in {"in_progress", "unreadable"}
      BY <1>4, <2>0, <2>3 DEF b
    <3>2. Records!MayBegin(dirs)
      BY <2>1, <2>2, <2>3 DEF Records!MayBegin, AllRecords
    <3>3. Records!Begin(dirs) \/ Records!Lose(dirs)
      BY <2>1, <3>1, <3>2 DEF Records!Begin, Records!Lose, AllRecords
    <3>4. QED
      BY <2>0, <3>3 DEF Records!Next
  <2>4. CASE RecordOf(dirs) # "none"
    <3>1. RecordOf(dirs) = "in_progress" /\ b \in Ended \cup {"unreadable"}
      BY <1>4, <2>0, <2>4 DEF b
    <3>2. Records!Lose(dirs) \/ \E s \in Records!Ended : Records!End(dirs, s)
      BY <2>1, <3>1 DEF Records!Lose, Records!End, Records!Ended, Ended, AllRecords
    <3>3. QED
      BY <2>0, <3>2 DEF Records!Next
  <2>5. QED
    BY <2>3, <2>4
<1> QED
  BY <1>2, <1>3, <1>4

(* When no command writes, a record is what its files say. *)
LEMMA UnwrittenRecord ==
    ASSUME DirectoryOK, dirs \in Operations, \A p \in Commands : pc[p] \notin Writing
    PROVE  RecordOf(dirs) = IF Readable(dirs) THEN man[dirs].status ELSE "unreadable"
BY WrittenNow DEF RecordOf

(* The same after a step. *)
LEMMA UnwrittenNext ==
    ASSUME DirectoryOK', dirs' \in Operations, \A p \in Commands : pc'[p] \notin Writing
    PROVE  RecordOf(dirs)' = IF Readable(dirs)' THEN man'[dirs'].status ELSE "unreadable"
BY WrittenNext DEF RecordOf

(* When a command writes the newest record, it is what its manifest says. *)
LEMMA WrittenRecord ==
    ASSUME DirectoryOK, NEW p \in Commands, pc[p] \in Writing
    PROVE  /\ dirs \in Operations /\ RecordOf(dirs) = man[dirs].status
           /\ man[dirs].status \in {"none", "in_progress"}
<1>1. WriteOK(p) /\ dirs \in 0..MaxOps
  BY DEF DirectoryOK, Typed, CommandOK
<1>2. dirs \in Operations /\ man[dirs].status \in {"none", "in_progress"}
  BY <1>1 DEF WriteOK
<1>3. BeingWritten(dirs)
  BY <1>2, WrittenNow
<1> QED
  BY <1>2, <1>3 DEF RecordOf

(* The same after a step. *)
LEMMA WrittenRecordNext ==
    ASSUME DirectoryOK', NEW p \in Commands, pc'[p] \in Writing
    PROVE  dirs' \in Operations /\ RecordOf(dirs)' = man'[dirs'].status
<1>1. WriteOK(p)' /\ dirs' \in 0..MaxOps
  BY DEF DirectoryOK, Typed, CommandOK
<1>2. dirs' \in Operations
  BY <1>1 DEF WriteOK
<1>3. BeingWritten(dirs)'
  BY <1>2, WrittenNext
<1> QED
  BY <1>2, <1>3 DEF RecordOf

(* A write that stops halfway leaves the record whole or loses it. *)
LEMMA WriteStops ==
    ASSUME DirectoryOK, DirectoryOK', NEW p \in Commands, UNCHANGED <<dirs, man>>,
           pc[p] \in Writing, \A q \in Commands : pc'[q] \notin Writing
    PROVE  [Records!Next]_AllRecords
<1>1. /\ dirs \in Operations /\ RecordOf(dirs) = man[dirs].status
      /\ man[dirs].status \in {"none", "in_progress"}
  BY WrittenRecord
<1>2. RecordOf(dirs)' = IF Readable(dirs)' THEN man[dirs].status ELSE "unreadable"
  BY <1>1, UnwrittenNext
<1>3. Readable(dirs)' => man[dirs].status # "none"
  BY DEF Readable
<1> QED
  BY <1>1, <1>2, <1>3, NewestChanges

(* A manifest that is replaced begins, continues or ends the record. *)
LEMMA WriteTakesEffect ==
    ASSUME DirectoryOK, DirectoryOK', NEW p \in Commands, UNCHANGED <<dirs, events, torn>>,
           pc[p] = "replace", Replaced(me[p].target, me[p].status),
           \A q \in Commands : pc'[q] \notin Writing
    PROVE  [Records!Next]_AllRecords
<1>0. Typed /\ FilesOK /\ CommandOK(p) /\ pc[p] \in Writing
  BY DEF DirectoryOK, Writing
<1>1. /\ dirs \in Operations /\ RecordOf(dirs) = man[dirs].status
      /\ man[dirs].status \in {"none", "in_progress"} /\ me[p].target = dirs
      /\ WriteOK(p)
  BY <1>0, WrittenRecord DEF CommandOK, WriteOK
<1>2. /\ man'[dirs] = [status |-> me[p].status, last |-> Len(events[dirs])] /\ ~tmp'[dirs]
      /\ \A o \in Operations : o # dirs => man'[o] = man[o]
  BY <1>0, <1>1 DEF Replaced, Typed
<1>3. me[p].status \in Ended \cup {"in_progress"}
  BY <1>0, WrittenTyped
<1>4. Readable(dirs)'
  BY <1>0, <1>1, <1>2, <1>3 DEF Readable, WriteOK, Writing, Ended
<1>5. RecordOf(dirs)' = me[p].status
  BY <1>1, <1>2, <1>4, UnwrittenNext
<1>6. man[dirs].status = "none" => me[p].status = "in_progress"
  BY <1>1 DEF WriteOK
<1>7. \A o \in Operations : man[o].status \in Ended => man'[o] = man[o]
  BY <1>1, <1>2 DEF Ended
<1> QED
  BY <1>1, <1>3, <1>5, <1>6, <1>7, NewestChanges

(* Every step of a command is a step of the records, or none. *)
LEMMA CommandRecords ==
    ASSUME DirectoryOK, DirectoryOK', NEW p \in Commands,
           Acquire(p) \/ Proceed(p) \/ Crash(p) \/ Interrupt(p)
    PROVE  [Records!Next]_AllRecords
<1> USE DEF files
<1>0. /\ Typed /\ FilesOK /\ CommandOK(p) /\ dirs \in 0..MaxOps /\ pc[p] \in Steps
      /\ DOMAIN pc = Commands
      /\ \A q \in Commands : q # p => pc[q] = "idle" /\ pc'[q] = "idle"
  BY OneSteps DEF DirectoryOK, Typed
<1>a. /\ pc'[p] \notin Writing => \A q \in Commands : pc'[q] \notin Writing
      /\ pc[p] \notin Writing => \A q \in Commands : pc[q] \notin Writing
  BY <1>0 DEF Writing
<1>1. ASSUME UNCHANGED <<dirs, events, torn, man, tmp>>, pc[p] \notin Writing,
             pc'[p] \in Writing => Readable(dirs)
      PROVE  [Records!Next]_AllRecords
  <2>1. CASE pc'[p] \in Writing
    <3>1. dirs \in Operations /\ RecordOf(dirs)' = man[dirs].status
      BY <1>1, <2>1, WrittenRecordNext
    <3>2. RecordOf(dirs) = man[dirs].status
      BY <1>1, <1>a, <2>1, <3>1, UnwrittenRecord
    <3>3. QED
      BY <1>1, <3>1, <3>2, NewestChanges
  <2>2. CASE pc'[p] \notin Writing
    <3>1. Readable(dirs)' = Readable(dirs)
      BY <1>1 DEF Readable
    <3>2. dirs \in Operations => RecordOf(dirs)' = RecordOf(dirs)
      BY <1>1, <1>a, <2>2, <3>1, UnwrittenRecord, UnwrittenNext
    <3>3. QED
      BY <1>1, <3>2, NewestChanges
  <2>3. QED
    BY <2>1, <2>2
<1>2. CASE \/ Acquire(p) \/ Admit(p) \/ Refuse(p) \/ CreateFails(p) \/ RecordOwner(p)
           \/ RecordFails(p) \/ ReleaseOwner(p) \/ Unlock(p)
  <2>1. /\ UNCHANGED <<dirs, events, torn, man, tmp>>
        /\ pc[p] \notin Writing /\ pc'[p] \notin Writing
    BY <1>0, <1>2 DEF Acquire, Admit, Refuse, CreateFails, RecordOwner, RecordFails,
       ReleaseOwner, Unlock, Goto, Writing
  <2>2. QED
    BY <1>1, <2>1
<1>3. CASE Supersede(p)
  <2>1. /\ UNCHANGED <<dirs, events, torn, man, tmp>> /\ pc[p] = "supersede"
        /\ pc[p] \notin Writing
        /\ pc'[p] \in Writing => Unfinished # {}
    BY <1>0, <1>3 DEF Supersede, Goto, Writing
  <2>2. Unfinished # {} => dirs \in 1..dirs
    BY <1>0 DEF Unfinished
  <2>3. QED
    BY <1>0, <1>1, <2>1, <2>2 DEF CommandOK
<1>4. CASE Work(p) \/ Handle(p)
  <2>1. /\ UNCHANGED <<dirs, events, torn, man, tmp>> /\ pc[p] \in {"work", "handle"}
        /\ pc'[p] \in Writing => Writable(me[p].op)
    BY <1>0, <1>4 DEF Work, Handle, Goto, Writing
  <2>2. me[p].op = dirs /\ pc[p] \notin Writing
    BY <1>0, <2>1 DEF CommandOK, Writing
  <2>3. QED
    BY <1>1, <2>1, <2>2 DEF Writable
<1>5. CASE Create(p)
  <2>1. /\ dirs' = dirs + 1 /\ UNCHANGED <<events, torn, man, tmp>> /\ dirs' \in Operations
        /\ pc'[p] = "append" /\ pc'[p] \in Writing
        /\ \A o \in 1..dirs : man[o].status \in Ended
    BY <1>0, <1>5 DEF Create, CommandOK, Writing
  <2>2. RecordOf(dirs)' = "none"
    BY <1>0, <2>1, WrittenRecordNext DEF FilesOK, NoManifest
  <2>3. \A o \in Operations : o = dirs' => RecordOf(o)' = "none" /\ RecordOf(o) = "none"
    BY <1>0, <2>1, <2>2, PastRecords
  <2>4. \A o \in Operations : o < dirs' => RecordOf(o)' = RecordOf(o)
    <3>1. ASSUME NEW o \in Operations, o < dirs'
          PROVE  RecordOf(o)' = RecordOf(o)
      <4>1. o \in 1..dirs /\ Readable(o) /\ ~(o > dirs)
        BY <1>0, <2>1, <3>1 DEF FilesOK
      <4>2. RecordOf(o) = man[o].status
        BY <4>1 DEF RecordOf
      <4>3. QED
        BY <2>1, <3>1, <4>2, PastRecordsNext
    <3>2. QED
      BY <3>1
  <2>5. \A o \in Operations : o > dirs' => RecordOf(o)' = RecordOf(o)
    BY <1>0, <2>1, PastRecords, PastRecordsNext
  <2>6. QED
    BY <1>0, <2>1, <2>3, <2>4, <2>5 DEF AllRecords
<1>6. CASE AppendEvent(p) \/ StageManifest(p)
  <2>1. /\ UNCHANGED <<dirs, man>> /\ pc[p] \in Writing /\ pc'[p] \in Writing
    BY <1>0, <1>6 DEF AppendEvent, StageManifest, Goto, Writing
  <2>2. RecordOf(dirs)' = RecordOf(dirs)
    BY <2>1, WrittenRecord, WrittenRecordNext
  <2>3. QED
    BY <2>1, <2>2, NewestChanges
<1>7. CASE ReplaceManifest(p) \/ (ReplaceFails(p) /\ Replaced(me[p].target, me[p].status))
  <2>1. /\ UNCHANGED <<dirs, events, torn>> /\ pc[p] = "replace" /\ pc[p] \in Writing
        /\ Replaced(me[p].target, me[p].status)
        /\ pc'[p] \in {me[p].next, OnError(p)}
    BY <1>0, <1>7 DEF ReplaceManifest, ReplaceFails, Goto, Writing
  <2>2. pc'[p] \notin Writing
    BY <1>0, <2>1, WrittenTyped DEF OnError, Writing
  <2>3. QED
    BY <1>a, <2>1, <2>2, WriteTakesEffect
<1>8. CASE \/ AppendFails(p) \/ StageFails(p)
           \/ (ReplaceFails(p) /\ ~Replaced(me[p].target, me[p].status))
           \/ (pc[p] \in Writing /\ (Crash(p) \/ Interrupt(p)))
  <2>1. /\ UNCHANGED <<dirs, man>> /\ pc[p] \in Writing
        /\ pc'[p] \in {OnError(p), "idle", "release"}
    BY <1>0, <1>8 DEF AppendFails, StageFails, ReplaceFails, Crash, Interrupt, Goto, Writing
  <2>2. pc'[p] \notin Writing
    BY <2>1 DEF OnError, Writing
  <2>3. QED
    BY <1>a, <2>1, <2>2, WriteStops
<1>9. CASE pc[p] \notin Writing /\ (Crash(p) \/ Interrupt(p))
  <2>1. UNCHANGED <<dirs, events, torn, man, tmp>> /\ pc'[p] \notin Writing
    BY <1>0, <1>9 DEF Crash, Interrupt, Goto, Writing
  <2>2. QED
    BY <1>1, <1>9, <2>1
<1> QED
  BY <1>2, <1>3, <1>4, <1>5, <1>6, <1>7, <1>8, <1>9 DEF Proceed

(* So is every step of the system: status only reads. *)
LEMMA NextRecords ==
    ASSUME DirectoryOK, DirectoryOK', [Next]_vars
    PROVE  [Records!Next]_AllRecords
<1>1. ASSUME NEW p \in Commands, Acquire(p) \/ Proceed(p) \/ Crash(p) \/ Interrupt(p)
      PROVE  [Records!Next]_AllRecords
  BY <1>1, CommandRecords
<1>2. CASE Probe \/ ReadStatus \/ UNCHANGED vars
  <2>1. UNCHANGED <<dirs, origin, events, torn, man, tmp, pc, me>>
    BY <1>2 DEF Probe, ReadStatus, ReadOwner, List, ScanDirectory, ReadEvents, Report, vars, files
  <2>2. UNCHANGED AllRecords
    BY <2>1 DEF AllRecords, RecordOf, Readable, BeingWritten
  <2>3. QED
    BY <2>2
<1> QED
  BY <1>1, <1>2 DEF Next

(* There is no record at first. *)
LEMMA InitRecords == Init => Records!Init
<1>1. ASSUME Init, NEW o \in Operations PROVE RecordOf(o) = "none"
  BY <1>1 DEF Init, RecordOf, NoManifest
<1> QED
  BY <1>1 DEF Records!Init

------------------------------------------------------------------------------
(* What follows for the properties.                                         *)

(* For every value of the constants: every file keeps its type, the lock   *)
(* has one holder at a time, and no event log outgrows MAX_EVENT_COUNT     *)
(* (state.py, locking.py).                                                  *)
THEOREM Typing == Spec => []TypeOK
<1>1. DirectoryOK => TypeOK
  <2> SUFFICES ASSUME DirectoryOK PROVE TypeOK
    OBVIOUS
  <2>1. Typed /\ LockOK /\ FilesOK
    BY DEF DirectoryOK
  <2>2. ASSUME NEW o \in Operations
        PROVE  /\ origin[o] \in [type : {"work", "recover"}, source : 0..MaxOps]
               /\ Len(events[o]) <= MaxEvents
               /\ \A i \in 1..Len(events[o]) : events[o][i] \in Ended \cup {"in_progress"}
               /\ man[o] \in [status : Ended \cup {"none", "in_progress"}, last : 0..MaxEvents]
    BY <2>1 DEF Typed, FilesOK, Origins, Manifests, Statuses
  <2>3. rd.report \in {"none", "active", "idle", "interrupted", "recovery_required"}
    BY <2>1 DEF Typed, Reports
  <2>4. QED
    BY <2>1, <2>2, <2>3 DEF TypeOK, Typed, LockOK, Owners
<1> QED
  BY <1>1, AlwaysDirectory, PTL

(* For every value of the constants and whatever died or failed before: a  *)
(* command that was admitted may replace the owner metadata that it finds  *)
(* (locking.py record_owner).                                               *)
THEOREM OwnersAgree == Spec => []RecordAccepted
<1>1. DirectoryOK => RecordAccepted
  BY DEF DirectoryOK, CommandOK, Claiming, RecordAccepted
<1> QED
  BY <1>1, AlwaysDirectory, PTL

(* For every value of the constants: when status answers "idle", every     *)
(* operation that was unfinished or unreadable when it probed the lock has *)
(* ended since and can be read (diagnostics.py inspect_runtime_status).     *)
THEOREM IdleIsTrue == Spec => []IdleReportIsTrue
<1>1. DirectoryOK => IdleReportIsTrue
  <2> SUFFICES ASSUME DirectoryOK, rd.report = "idle", NEW o \in rd.before PROVE ~Troubled(o)
    BY DEF IdleReportIsTrue
  <2>1. o \in Operations /\ man[o].status \in Ended
    BY DEF DirectoryOK, Typed, Reports, ReaderOK
  <2>2. QED
    BY <2>1 DEF DirectoryOK, FilesOK, Troubled, Ended
<1> QED
  BY <1>1, AlwaysDirectory, PTL

(* For every value of the constants: event logs, temporary files,          *)
(* manifests and the lock implement atomic operation records, and a status *)
(* that reads them at any time disturbs nothing (StateStore with           *)
(* DeploymentLock).                                                         *)
THEOREM FilesAreRecords == Spec => ImplementsRecords
<1>1. Init => Records!Init
  BY InitRecords
<1>2. DirectoryOK /\ DirectoryOK' /\ [Next]_vars
         => [Records!Next]_([o \in Operations |-> RecordOf(o)])
  BY NextRecords DEF AllRecords
<1> QED
  BY <1>1, <1>2, AlwaysDirectory, PTL DEF Spec, ImplementsRecords, Records!Spec

=============================================================================
