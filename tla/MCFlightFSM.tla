---------------------------- MODULE MCFlightFSM ----------------------------
(***************************************************************************)
(* Small flights for model checking the detection. The values of the       *)
(* constants are in the .cfg file.                                         *)
(***************************************************************************)
EXTENDS FlightFSMInv
=============================================================================
