--------------------------- MODULE MCOneTimeCode ---------------------------
(***************************************************************************)
(* MobileCode for TLC: requests are interchangeable, and so are processes. *)
(***************************************************************************)
EXTENDS MobileCode, TLC

Symmetry == Permutations(Process) \cup Permutations(Request)

=============================================================================
