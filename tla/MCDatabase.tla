------------------------------ MODULE MCDatabase ------------------------------
(***************************************************************************)
(* Database for TLC.  No symmetry: EveryWriteEnds is a liveness property.  *)
(***************************************************************************)
EXTENDS Database

==============================================================================
