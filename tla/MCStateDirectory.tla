--------------------------- MODULE MCStateDirectory ---------------------------
(***************************************************************************)
(* Instances of the state directory: commands with a concurrent status,    *)
(* and commands alone over more operations, where a recovery is itself     *)
(* interrupted and recovered.  status writes no file, so what commands do  *)
(* to the files in its absence is all they do.                             *)
(***************************************************************************)
EXTENDS StateDirectory

CommandStep == \E p \in Commands : Acquire(p) \/ Proceed(p) \/ Crash(p) \/ Interrupt(p)

CommandsSpec == Init /\ [][CommandStep]_vars
=============================================================================
