---------------------------- MODULE ServiceContract ----------------------------
(***************************************************************************)
(* What the deployment commands promise to whoever watches the service: it *)
(* is serving, changing or blocked; the selected release only moves        *)
(* forward, and only while the service is changing; a change never starts  *)
(* before the last one ended, and one that did not finish blocks the       *)
(* service until another takes it up; acknowledged writes accumulate.      *)
(***************************************************************************)
EXTENDS Integers

CONSTANTS MaxRel, MaxOps, Writes

VARIABLES
    phase,      \* "serving", "changing" or "blocked"
    changes,    \* the number of changes begun
    selected,   \* the release that serves when nothing changes
    acked       \* acknowledged writes

vars == <<phase, changes, selected, acked>>

Init == phase = "serving" /\ changes = 0 /\ selected = 0 /\ acked = {}

Write(w) == w \notin acked /\ acked' = acked \cup {w} /\ UNCHANGED <<phase, changes, selected>>

Begin ==
    /\ phase \in {"serving", "blocked"} /\ changes < MaxOps
    /\ phase' = "changing" /\ changes' = changes + 1
    /\ UNCHANGED <<selected, acked>>

Switch(r) ==
    /\ phase = "changing" /\ r > selected
    /\ selected' = r
    /\ UNCHANGED <<phase, changes, acked>>

Finish ==
    /\ phase = "changing" /\ phase' = "serving"
    /\ UNCHANGED <<changes, selected, acked>>

Block ==
    /\ phase = "changing" /\ phase' = "blocked"
    /\ UNCHANGED <<changes, selected, acked>>

Next ==
    \/ \E w \in Writes : Write(w)
    \/ \E r \in 1..MaxRel : Switch(r)
    \/ Begin \/ Finish \/ Block

Spec == Init /\ [][Next]_vars
=============================================================================
