------------------------------- MODULE MCSandbox -------------------------------
(***************************************************************************)
(* Sandbox for TLC.  No symmetry: the calls differ in what is allowed, and *)
(* the runs check liveness.                                                *)
(***************************************************************************)
EXTENDS Sandbox

==============================================================================
