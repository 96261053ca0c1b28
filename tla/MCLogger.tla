------------------------------ MODULE MCLogger ------------------------------
(***************************************************************************)
(* Small chips for model checking the logger. The values of the constants  *)
(* are in the .cfg files.                                                  *)
(***************************************************************************)
EXTENDS LoggerRefinement

(* The same system on a chip whose settings page has been written once, as *)
(* the MEMRST command of the offload tool leaves it, and with the power    *)
(* going only between two calls into the logger: an ordinary use of it.    *)
OrdinarySpec ==
  Init /\ mem[0] = Formatted /\ [][Next /\ (pc' = "off" => pc = "run")]_vars
=============================================================================
