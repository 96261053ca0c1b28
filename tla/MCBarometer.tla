---------------------------- MODULE MCBarometer ----------------------------
(***************************************************************************)
(* The values of the constants are in the .cfg files.                      *)
(***************************************************************************)
EXTENDS Barometer
=============================================================================
