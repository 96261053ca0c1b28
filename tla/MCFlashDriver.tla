--------------------------- MODULE MCFlashDriver ---------------------------
(***************************************************************************)
(* A chip of sixteen slots, and calls that touch a page, a sector and a    *)
(* block, for model checking.                                              *)
(***************************************************************************)
EXTENDS FlashDriverInv

CONSTANT Value   \* what is written

(* Erased, or full of what an earlier flight has written.                  *)
SomeContents == {[s \in Slots |-> Blank], [s \in Slots |-> Value]}

SomeRequests ==
  {[op |-> "read", addr |-> 1, len |-> 4],
   [op |-> "write", addr |-> 2, data |-> <<Value, Value>>],
   [op |-> "write", addr |-> 5, data |-> <<Value>>],
   [op |-> "sector", addr |-> 0],
   [op |-> "block", addr |-> 8]}
=============================================================================
