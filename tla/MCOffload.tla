------------------------------ MODULE MCOffload -----------------------------
(***************************************************************************)
(* A small chip for the offload tool: see the .cfg file.                   *)
(***************************************************************************)
EXTENDS Offload
=============================================================================
