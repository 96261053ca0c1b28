----------------------------- MODULE FlashCalls -----------------------------
(***************************************************************************)
(* What the logger counts on: a call of the flash driver takes effect      *)
(* once, as a whole, before it returns, and a read sees what the calls     *)
(* before it have done. Logger takes a call as a single step of its own.   *)
(*                                                                         *)
(* When the processor stops in the middle of a call, the effect may have   *)
(* happened, not happened, or been cut short; the chip may even be at it   *)
(* still, and it is settled before begin() returns.                        *)
(***************************************************************************)
EXTENDS FlashChip, Sequences

CONSTANTS
  Contents,   \* what the chip may hold at first
  Requests    \* calls: [op, addr, data] for a write, [op, addr, len] for a
              \* read, [op, addr] for "sector" and "block" erases

VARIABLES
  mem,        \* the contents of the chip
  phase,      \* "off", "failed", "idle", "called", "done"
  request,    \* the call in progress or, when off, the one not settled
  result      \* what the last read returned

vars == <<mem, phase, request, result>>

None == [op |-> "none"]

(* The contents after a call.                                              *)
Effect(m, r) ==
  CASE r.op = "write"  -> Write(m, r.addr, r.data, Len(r.data))
    [] r.op = "sector" -> EraseSector(m, r.addr)
    [] r.op = "block"  -> EraseSector64(m, r.addr)
    [] OTHER           -> m

(* The contents after a call that was cut short.                           *)
Torn(m, r) == [s \in Slots |-> IF Effect(m, r)[s] = m[s] THEN m[s] ELSE Garbled]

Init == mem \in Contents /\ phase = "off" /\ request = None /\ result = <<>>

Begin ==
  /\ phase = "off" /\ request = None
  /\ phase' \in {"idle", "failed"}
  /\ UNCHANGED <<mem, request, result>>

Call(r) ==
  /\ phase = "idle" /\ phase' = "called" /\ request' = r
  /\ UNCHANGED <<mem, result>>

Answer ==
  /\ phase = "called" /\ request.op = "read"
  /\ phase' = "idle" /\ request' = None
  /\ result' = Read(mem, request.addr, request.len)
  /\ UNCHANGED mem

Do ==
  /\ phase = "called" /\ request.op # "read"
  /\ phase' = "done" /\ mem' = Effect(mem, request)
  /\ UNCHANGED <<request, result>>

Return ==
  /\ phase = "done" /\ phase' = "idle" /\ request' = None
  /\ UNCHANGED <<mem, result>>

Crash ==
  /\ phase # "off" /\ phase' = "off" /\ result' = <<>>
  /\ \/ phase = "called" /\ UNCHANGED <<mem, request>>
     \/ request' = None /\ UNCHANGED mem
     \/ phase = "called" /\ request' = None /\ mem' = Torn(mem, request)

Settle ==
  /\ phase = "off" /\ request # None /\ request' = None
  /\ mem' \in {mem, Torn(mem, request), Effect(mem, request)}
  /\ UNCHANGED <<phase, result>>

Next == \/ Begin \/ Answer \/ Do \/ Return \/ Crash \/ Settle
        \/ \E r \in Requests : Call(r)

Safety == Init /\ [][Next]_vars

(* Calls return.                                                           *)
Fairness == WF_vars(Answer \/ Do \/ Return)
=============================================================================
