--------------------------- MODULE OperationRecords ---------------------------
(***************************************************************************)
(* What the state directory promises its commands: every operation is one  *)
(* record that begins, ends once and never changes again.  A record that   *)
(* can no longer be read is the last thing that ever happens.              *)
(***************************************************************************)
EXTENDS Integers

CONSTANTS MaxOps

VARIABLES record    \* the status of every operation, as any reader may learn it

Ended == {"succeeded", "failed_safe", "recovery_required"}

Init == record = [o \in 1..MaxOps |-> "none"]

(* Operation o is the next one, and all before it have ended. *)
MayBegin(o) ==
    /\ record[o] = "none"
    /\ \A p \in 1..(o - 1) : record[p] \in Ended

Begin(o) == MayBegin(o) /\ record' = [record EXCEPT ![o] = "in_progress"]

End(o, s) == record[o] = "in_progress" /\ record' = [record EXCEPT ![o] = s]

(* A write of an unfinished or a beginning record was cut short. *)
Lose(o) ==
    /\ record[o] = "in_progress" \/ MayBegin(o)
    /\ record' = [record EXCEPT ![o] = "unreadable"]

Next == \E o \in 1..MaxOps : Begin(o) \/ Lose(o) \/ \E s \in Ended : End(o, s)

Spec == Init /\ [][Next]_record
=============================================================================
