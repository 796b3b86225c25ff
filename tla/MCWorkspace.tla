----------------------------- MODULE MCWorkspace -----------------------------
(* TLC instances of Workspace.                                              *)
EXTENDS Workspace, TLC

SharedSymmetry ==
  Permutations(Procs) \cup Permutations(Contents) \cup Permutations(Paths \ Ignored)
=============================================================================
