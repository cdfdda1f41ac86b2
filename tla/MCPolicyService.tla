-------------------------- MODULE MCPolicyService --------------------------
(***************************************************************************)
(* Model-checking harness for PolicyService. The cfg files give Keys,      *)
(* Hooks and Procs as sets of model values; handlers are interchangeable,  *)
(* so the safety runs with two handlers use ProcSymmetry.                  *)
(***************************************************************************)
EXTENDS PolicyService, TLC

ProcSymmetry == Permutations(Procs)

=============================================================================
