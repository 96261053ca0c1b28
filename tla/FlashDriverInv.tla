--------------------------- MODULE FlashDriverInv ---------------------------
(***************************************************************************)
(* The inductive invariant of the flash driver.                            *)
(***************************************************************************)
EXTENDS FlashDriver

(* A chip is only busy while off or polled, with what it was sent.         *)
Busy ==
  /\ bus # "chip" => job = None
  /\ pc \notin {"off", "poll", "begin_poll"} => job = None
  /\ pc = "poll" => job \in {request, None}
  /\ pc = "begin_poll" => job \in {Unprotect, None}

(* Protection is gone once begin() has waited for it to go.                *)
Unprotected ==
  /\ pc \in InCall \cup {"idle"} => bus = "chip" /\ ~protected
  /\ pc = "id" /\ bus = "chip" => ~protected
  /\ pc = "begin_poll" /\ bus = "chip" /\ job = None => ~protected

(* The latch is set where a command needs it.                              *)
Latch ==
  bus = "chip" /\ pc \in {"send", "begin_send"} => wel

(* The contents are those of the slots, and what was read is in RAM.       *)
Kept ==
  /\ mem = [s \in Slots |-> mem[s]]
  /\ pc \in {"off", "failed"} \cup InBegin => result = <<>>

IInv == TypeOK /\ Busy /\ Unprotected /\ Latch /\ Kept
=============================================================================
