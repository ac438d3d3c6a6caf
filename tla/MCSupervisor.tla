---------------------------- MODULE MCSupervisor ----------------------------
(***************************************************************************)
(* Supervisor for TLC.  Requests are interchangeable, and so are killers.  *)
(***************************************************************************)
EXTENDS Supervisor, TLC

Symmetry == Permutations(Requests) \cup Permutations(Killers)

==============================================================================
