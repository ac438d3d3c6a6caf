------------------------- MODULE MCSupervisorHistory -------------------------
(***************************************************************************)
(* SupervisorHistory for TLC.                                              *)
(***************************************************************************)
EXTENDS SupervisorHistory, TLC

Symmetry == Permutations(Requests) \cup Permutations(Killers)

==============================================================================
