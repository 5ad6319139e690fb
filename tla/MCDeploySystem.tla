---------------------------- MODULE MCDeploySystem ----------------------------
(* Small instances of DeploySystem for TLC. *)
EXTENDS DeploySystem, TLC

WriteSymmetry == Permutations(Writes)
=============================================================================
