------------------------------ MODULE MCRadio ------------------------------
(***************************************************************************)
(* Two commands of begin() and two of the six that setup() goes on with.   *)
(***************************************************************************)
EXTENDS Radio

SomeCommands == <<"MODE", "BAND", "POWER", "CS">>
=============================================================================
