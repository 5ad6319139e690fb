---------------------------- MODULE RestorePromise ----------------------------
(***************************************************************************)
(* What a manual restore promises to whoever uses the service.  The service *)
(* shows the original database, shows the restored one, or is blocked.     *)
(* Writes that the restored database lacks are in a backup before anybody  *)
(* sees it, and once it was shown the original never comes back by itself. *)
(***************************************************************************)
CONSTANT Writes

VARIABLES
    service,    \* "original", "restored" or "blocked"
    acked,      \* the writes users were told are stored
    archived,   \* the writes that pre-restore backups hold
    switched    \* whether the restored database was ever shown

vars == <<service, acked, archived, switched>>

Init == service = "original" /\ acked = {} /\ archived = {} /\ switched = FALSE

Write(w) ==
    /\ service # "blocked" /\ w \notin acked
    /\ acked' = acked \cup {w}
    /\ UNCHANGED <<service, archived, switched>>

Block == service' = "blocked" /\ UNCHANGED <<acked, archived, switched>>

(* A backup of the current state covers every write so far. *)
Archive ==
    /\ service = "blocked" /\ archived' = acked
    /\ UNCHANGED <<service, acked, switched>>

Reopen ==
    /\ service = "blocked" /\ ~switched
    /\ service' = "original"
    /\ UNCHANGED <<acked, archived, switched>>

Switch ==
    /\ service = "blocked" /\ ~switched /\ acked = archived
    /\ service' = "restored" /\ switched' = TRUE
    /\ UNCHANGED <<acked, archived>>

Next == (\E w \in Writes : Write(w)) \/ Block \/ Archive \/ Reopen \/ Switch

Spec == Init /\ [][Next]_vars
=============================================================================
