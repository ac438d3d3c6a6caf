---------------------------- MODULE MCThreadState ----------------------------
(***************************************************************************)
(* ThreadStateCallers for TLC: three callers on one thread, or two on two. *)
(***************************************************************************)
EXTENDS ThreadStateCallers, TLC

Symmetry == Permutations(Callers)

==============================================================================
