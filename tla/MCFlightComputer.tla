-------------------------- MODULE MCFlightComputer --------------------------
(***************************************************************************)
(* A small flight with a short ring. The values of the constants are in    *)
(* the .cfg file.                                                          *)
(***************************************************************************)
EXTENDS FlightComputer
=============================================================================
