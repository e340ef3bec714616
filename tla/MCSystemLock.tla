---------------------------- MODULE MCSystemLock ----------------------------
(***************************************************************************)
(* SystemLock for TLC: the instances are interchangeable.                  *)
(***************************************************************************)
EXTENDS SystemLock, TLC

Symmetry == Permutations(Instance)

=============================================================================
