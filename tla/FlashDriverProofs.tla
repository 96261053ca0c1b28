------------------------- MODULE FlashDriverProofs -------------------------
(***************************************************************************)
(* Every command of the driver is taken, and its calls are the atomic      *)
(* calls of FlashCalls, for every chip, every set of calls, and any number *)
(* of restarts and power losses.                                           *)
(***************************************************************************)
EXTENDS FlashDriverInv, TLAPS

LEMMA Constants ==
  /\ \A r \in Requests : r.op \in {"read", "write", "sector", "block"}
  /\ Buses \subseteq {"chip", "ones", "zeros"}
  /\ \A m \in Contents : m = [s \in Slots |-> m[s]]
  BY RequestAssumption

(* The two calls nobody makes, and what they would do to the contents.     *)
LEMMA NotRequests ==
  /\ None \notin Requests /\ Unprotect \notin Requests /\ None # Unprotect
  /\ None.op = "none" /\ Unprotect.op = "unprotect" /\ Calls!None = None
<1>1. None.op = "none" /\ Unprotect.op = "unprotect" /\ Calls!None = None
  BY DEF None, Unprotect, Calls!None
<1> QED
  BY <1>1, Constants

LEMMA NoEffect ==
  ASSUME mem = [s \in Slots |-> mem[s]], NEW r, r \in {None, Unprotect}
  PROVE  Calls!Effect(mem, r) = mem /\ Calls!Torn(mem, r) = mem
<1>1. r.op \notin {"write", "sector", "block"}
  BY NotRequests
<1>2. Calls!Effect(mem, r) = mem
  BY <1>1 DEF Calls!Effect
<1>3. Calls!Torn(mem, r) = [s \in Calls!Slots |-> mem[s]]
  BY <1>2 DEF Calls!Torn
<1>4. Calls!Slots = Slots
  BY DEF Calls!Slots, Slots, Calls!FlightSlots, FlightSlots, Calls!BlockSlots, BlockSlots,
     Calls!SectorSlots, SectorSlots
<1> QED
  BY <1>2, <1>3, <1>4

(* Calls leave the contents of the slots, whole or cut short.              *)
LEMMA EffectKept ==
  ASSUME mem = [s \in Slots |-> mem[s]], NEW r
  PROVE  /\ Calls!Effect(mem, r) = [s \in Slots |-> Calls!Effect(mem, r)[s]]
         /\ Calls!Torn(mem, r) = [s \in Slots |-> Calls!Torn(mem, r)[s]]
<1>1. Calls!Slots = Slots
  BY DEF Calls!Slots, Slots, Calls!FlightSlots, FlightSlots, Calls!BlockSlots, BlockSlots,
     Calls!SectorSlots, SectorSlots
<1>2. Calls!Torn(mem, r) = [s \in Slots |-> Calls!Torn(mem, r)[s]]
  BY <1>1 DEF Calls!Torn
<1>3. CASE r.op = "write"
  BY <1>1, <1>2, <1>3 DEF Calls!Effect, Calls!Write
<1>4. CASE r.op = "sector"
  BY <1>1, <1>2, <1>4 DEF Calls!Effect, Calls!EraseSector, Calls!Erase
<1>5. CASE r.op = "block"
  BY <1>1, <1>2, <1>5 DEF Calls!Effect, Calls!EraseSector64, Calls!Erase
<1>6. CASE r.op \notin {"write", "sector", "block"}
  <2>1. Calls!Effect(mem, r) = mem
    BY <1>6 DEF Calls!Effect
  <2> QED
    BY <1>2, <2>1
<1> QED
  BY <1>3, <1>4, <1>5, <1>6

-----------------------------------------------------------------------------
LEMMA InvInit == Init => IInv
<1> SUFFICES ASSUME Init PROVE IInv
  OBVIOUS
<1>1. TypeOK
  BY DEF Init, TypeOK, InCall, InBegin
<1>2. Busy /\ Unprotected /\ Latch
  BY DEF Init, Busy, Unprotected, Latch, InCall
<1>3. Kept
  BY Constants DEF Init, Kept
<1> QED
  BY <1>1, <1>2, <1>3 DEF IInv

LEMMA InvDriverStep ==
  ASSUME IInv, DriverStep
  PROVE  IInv'
<1> USE NotRequests DEF IInv, TypeOK, Busy, Unprotected, Latch, Kept, InCall, InBegin
<1>1. CASE ReadStatus
  BY <1>1 DEF ReadStatus, ShowsProtected, chipVars
<1>2. CASE BeginEnable
  BY <1>2 DEF BeginEnable, Enable
<1>3. CASE BeginSend
  BY <1>3 DEF BeginSend, Send, Accepts
<1>4. CASE BeginPoll
  BY <1>4 DEF BeginPoll, ShowsBusy, chipVars
<1>5. CASE ReadId
  BY <1>5 DEF ReadId, chipVars
<1>6. CASE ReadData
  BY <1>6 DEF ReadData, chipVars
<1>7. CASE WriteEnable
  BY <1>7 DEF WriteEnable, Enable
<1>8. CASE SendRequest
  BY <1>8 DEF SendRequest, Send, Accepts
<1>9. CASE Poll
  BY <1>9 DEF Poll, ShowsBusy, chipVars
<1> QED
  BY <1>1, <1>2, <1>3, <1>4, <1>5, <1>6, <1>7, <1>8, <1>9 DEF DriverStep

LEMMA InvStep ==
  ASSUME IInv, [Next]_vars
  PROVE  IInv'
<1> USE NotRequests
<1>1. CASE DriverStep
  BY <1>1, InvDriverStep
<1>2. CASE Finish
  <2>1. Kept'
    BY <1>2, EffectKept DEF Finish, IInv, Kept, driverVars
  <2> QED
    BY <1>2, <2>1 DEF Finish, driverVars, IInv, TypeOK, Busy, Unprotected, Latch, InCall, InBegin
<1>3. CASE Reset
  <2>1. Kept'
    BY <1>3, EffectKept DEF Reset, IInv, Kept
  <2> QED
    BY <1>3, <2>1 DEF Reset, AfterReset, IInv, TypeOK, Busy, Unprotected, Latch, InCall, InBegin
<1>4. CASE Restart
  BY <1>4 DEF Restart, chipVars, IInv, TypeOK, Busy, Unprotected, Latch, Kept, InCall, InBegin
<1>5. CASE PowerLoss
  <2>1. Kept'
    BY <1>5, EffectKept DEF PowerLoss, IInv, Kept
  <2> QED
    BY <1>5, <2>1 DEF PowerLoss, IInv, TypeOK, Busy, Unprotected, Latch, InCall, InBegin
<1>6. ASSUME NEW r \in Requests, Call(r) PROVE IInv'
  BY <1>6 DEF Call, FirstCommand, chipVars, IInv, TypeOK, Busy, Unprotected, Latch, Kept,
     InCall, InBegin
<1>7. CASE UNCHANGED vars
  BY <1>7 DEF vars, driverVars, chipVars, IInv, TypeOK, Busy, Unprotected, Latch, Kept
<1> QED
  BY <1>1, <1>2, <1>3, <1>4, <1>5, <1>6, <1>7 DEF Next

(* The strengthened invariant.                                             *)
THEOREM Invariance == Spec => []IInv
<1>1. IInv /\ [Next]_vars => IInv'
  BY InvStep
<1> QED
  BY <1>1, InvInit, PTL DEF Spec

(* A call in progress is one of Requests and takes its own way, a read the *)
(* one without write-enable; and the chip is busy with nothing else.       *)
THEOREM TypeCorrect == Spec => []TypeOK
<1>1. IInv => TypeOK
  BY DEF IInv
<1> QED
  BY <1>1, Invariance, PTL

(* No command is sent to a chip that would ignore it: begin()'s reset and  *)
(* the wait after each command see to it.                                  *)
THEOREM EveryCommandTaken == Spec => []CommandsTaken
<1>1. ASSUME IInv PROVE CommandsTaken
  BY <1>1, NotRequests DEF IInv, TypeOK, Busy, Unprotected, Latch, CommandsTaken, Accepts,
     InCall, InBegin
<1> QED
  BY <1>1, Invariance, PTL

-----------------------------------------------------------------------------
(***************************************************************************)
(* The driver implements FlashCalls.                                       *)
(***************************************************************************)
(* Where the caller sees the driver, and what is under way.                *)
SeenAs ==
  /\ pc \in {"idle", "failed"} => Phase = pc
  /\ pc \in {"read", "enable", "send"} => Phase = "called" /\ Pending = request
  /\ pc = "poll" => Pending = request
  /\ pc = "poll" /\ job = None => Phase = "done"
  /\ pc = "poll" /\ job # None => Phase = "called"
  /\ pc \in InBegin \cup {"off"} => Phase = "off"
  /\ pc \notin InCall /\ job \in {None, Unprotect} => Pending = None
  /\ pc \notin InCall /\ job \in Requests => Pending = job

LEMMA Seen == SeenAs /\ SeenAs'
<1>1. SeenAs
  BY NotRequests DEF SeenAs, Phase, Pending, InCall, InBegin
<1>2. SeenAs'
  BY NotRequests DEF SeenAs, Phase, Pending, InCall, InBegin
<1> QED
  BY <1>1, <1>2

LEMMA InitSeen == Init => Calls!Init
<1> SUFFICES ASSUME Init PROVE Calls!Init
  OBVIOUS
<1>1. pc = "off" /\ job = None
  BY DEF Init
<1>2. Phase = "off" /\ Pending = None
  BY <1>1, Seen DEF SeenAs, InCall
<1> QED
  BY <1>2, NotRequests DEF Init, Calls!Init

(* The commands of begin(), up to its result.                              *)
LEMMA BeginSeen ==
  ASSUME IInv, ReadStatus \/ BeginEnable \/ BeginSend \/ BeginPoll \/ ReadId
  PROVE  [Calls!Next]_Calls!vars
<1>1. mem' = mem /\ result' = result
  BY DEF ReadStatus, BeginEnable, Enable, BeginSend, Send, BeginPoll, ReadId, chipVars
<1>2. Phase = "off" /\ Pending = None
  BY Seen DEF SeenAs, IInv, TypeOK, Busy, InBegin, InCall, ReadStatus, BeginEnable, Enable, BeginSend,
     Send, BeginPoll, ReadId
<1>3. job' \in {None, Unprotect}
  BY DEF IInv, Busy, ReadStatus, BeginEnable, Enable, BeginSend, Send, BeginPoll, ReadId,
     chipVars
<1>4. CASE ~ReadId
  <2>1. pc' \in InBegin
    BY <1>4 DEF InBegin, ReadStatus, BeginEnable, Enable, BeginSend, Send, BeginPoll
  <2>2. Phase' = "off" /\ Pending' = None
    BY <1>3, <2>1, Seen DEF SeenAs, InBegin, InCall
  <2> QED
    BY <1>1, <1>2, <2>2 DEF Calls!vars
<1>5. CASE ReadId
  <2>1. pc' \in {"idle", "failed"}
    BY <1>5 DEF ReadId
  <2>2. Phase' \in {"idle", "failed"} /\ Pending' = None
    BY <1>3, <2>1, Seen DEF SeenAs, InCall
  <2>3. Calls!Begin
    BY <1>1, <1>2, <2>2, NotRequests DEF Calls!Begin
  <2> QED
    BY <2>3 DEF Calls!Next
<1> QED
  BY <1>4, <1>5
(* The commands of a call.                                                 *)
LEMMA CallSeen ==
  ASSUME IInv, ReadData \/ WriteEnable \/ SendRequest \/ Poll
  PROVE  [Calls!Next]_Calls!vars
<1>1. CASE ReadData
  <2>1. pc = "read" /\ job = None /\ request.op = "read"
    BY <1>1 DEF ReadData, IInv, TypeOK, Busy, InCall
  <2>2. Phase = "called" /\ Pending = request
    BY <2>1, Seen DEF SeenAs
  <2>3. pc' = "idle" /\ job' = None /\ mem' = mem
        /\ result' = Read(mem, request.addr, request.len)
    BY <1>1, <2>1 DEF ReadData, chipVars
  <2>4. Phase' = "idle" /\ Pending' = None
    BY <2>3, Seen DEF SeenAs, InCall
  <2>5. Calls!Answer
    BY <2>1, <2>2, <2>3, <2>4, NotRequests DEF Calls!Answer, Calls!Read, Read
  <2> QED
    BY <2>5 DEF Calls!Next
<1>2. CASE WriteEnable
  <2>1. /\ pc = "enable" /\ pc' = "send"
        /\ UNCHANGED <<mem, result, request>>
    BY <1>2 DEF WriteEnable, Enable
  <2>2. Phase' = Phase /\ Pending' = Pending
    BY <2>1, Seen DEF SeenAs
  <2> QED
    BY <2>1, <2>2 DEF Calls!vars
<1>3. CASE SendRequest
  <2>1. Accepts(request) /\ request \in Requests
    BY <1>3, NotRequests DEF SendRequest, Send, IInv, TypeOK, Busy, Unprotected, Latch,
       InCall, Accepts
  <2>2. /\ pc = "send" /\ pc' = "poll" /\ job' = request
        /\ UNCHANGED <<mem, result, request>>
    BY <1>3, <2>1 DEF SendRequest, Send
  <2>3. job' # None
    BY <2>1, <2>2, NotRequests
  <2>4. Phase' = Phase /\ Pending' = Pending
    BY <2>2, <2>3, Seen DEF SeenAs, None
  <2> QED
    BY <2>2, <2>4 DEF Calls!vars
<1>4. CASE Poll
  <2>1. pc = "poll" /\ job = None
    BY <1>4 DEF Poll, ShowsBusy, IInv, Unprotected, Busy, InCall
  <2>2. Phase = "done" /\ Pending = request
    BY <2>1, Seen DEF SeenAs
  <2>3. pc' = "idle" /\ job' = None /\ UNCHANGED <<mem, result>>
    BY <1>4, <2>1 DEF Poll, chipVars
  <2>4. Phase' = "idle" /\ Pending' = None
    BY <2>3, Seen DEF SeenAs, InCall
  <2>5. Calls!Return
    BY <2>2, <2>3, <2>4, NotRequests DEF Calls!Return
  <2> QED
    BY <2>5 DEF Calls!Next
<1> QED
  BY <1>1, <1>2, <1>3, <1>4

(* The chip gets done: the call has its effect.                            *)
LEMMA FinishSeen ==
  ASSUME IInv, Finish
  PROVE  [Calls!Next]_Calls!vars
<1>1. /\ job # None /\ job' = None /\ mem' = Calls!Effect(mem, job)
      /\ UNCHANGED <<pc, request, result>>
  BY DEF Finish, driverVars
<1>2. CASE pc = "poll"
  <2>1. job = request /\ request \in Requests /\ request.op # "read"
    BY <1>1, <1>2 DEF IInv, TypeOK, Busy, InCall
  <2>2. Phase = "called" /\ Pending = request
    BY <1>1, <1>2, Seen DEF SeenAs
  <2>3. Phase' = "done" /\ Pending' = request
    BY <1>1, <1>2, Seen DEF SeenAs
  <2>4. Calls!Do
    BY <1>1, <2>1, <2>2, <2>3 DEF Calls!Do
  <2> QED
    BY <2>4 DEF Calls!Next
<1>3. CASE pc # "poll"
  <2>1. pc \in {"off", "begin_poll"} /\ job \in Requests \cup {Unprotect}
    BY <1>1, <1>3 DEF IInv, TypeOK, Busy
  <2>2. Phase = "off" /\ Phase' = "off" /\ Pending' = None
    BY <1>1, <2>1, Seen DEF SeenAs, InBegin, InCall
  <2>3. CASE job \in Requests
    <3>1. Pending = job
      BY <2>1, <2>3, Seen DEF SeenAs, InCall
    <3>2. Calls!Settle
      BY <1>1, <2>2, <3>1, NotRequests DEF Calls!Settle
    <3> QED
      BY <3>2 DEF Calls!Next
  <2>4. CASE job = Unprotect
    <3>1. Pending = None
      BY <2>1, <2>4, Seen DEF SeenAs, InCall
    <3>2. mem' = mem
      BY <1>1, <2>4, NoEffect DEF IInv, Kept
    <3> QED
      BY <1>1, <2>2, <3>1, <3>2 DEF Calls!vars
  <2> QED
    BY <2>1, <2>3, <2>4
<1> QED
  BY <1>2, <1>3

(* begin() resets the chip, whatever it was still busy with.               *)
LEMMA ResetSeen ==
  ASSUME IInv, Reset
  PROVE  [Calls!Next]_Calls!vars
<1>1. /\ pc = "off" /\ pc' = "status" /\ job' = None /\ result' = result
      /\ mem' \in {mem, Calls!Torn(mem, job)}
  BY DEF Reset, AfterReset
<1>2. Phase = "off" /\ Phase' = "off" /\ Pending' = None
  BY <1>1, Seen DEF SeenAs, InBegin, InCall
<1>3. CASE job \in Requests
  <2>1. Pending = job
    BY <1>1, <1>3, Seen DEF SeenAs, InCall
  <2>2. Calls!Settle
    BY <1>1, <1>2, <1>3, <2>1, NotRequests DEF Calls!Settle
  <2> QED
    BY <2>2 DEF Calls!Next
<1>4. CASE job \notin Requests
  <2>1. job \in {None, Unprotect}
    BY <1>4 DEF IInv, TypeOK
  <2>2. Pending = None /\ mem' = mem
    BY <1>1, <2>1, Seen, NoEffect DEF SeenAs, InCall, IInv, Kept
  <2> QED
    BY <1>1, <1>2, <2>2 DEF Calls!vars
<1> QED
  BY <1>3, <1>4

(* The processor stops; the chip may still be busy.                        *)
LEMMA RestartSeen ==
  ASSUME IInv, Restart
  PROVE  [Calls!Next]_Calls!vars
<1>1. pc # "off" /\ pc' = "off" /\ result' = <<>> /\ UNCHANGED <<mem, job>>
  BY DEF Restart, chipVars
<1>2. Phase' = "off"
  BY <1>1, Seen DEF SeenAs
<1>3. CASE pc \in InBegin
  <2>1. job \in {None, Unprotect} /\ result = <<>>
    BY <1>3 DEF IInv, Busy, Kept, InBegin
  <2>2. Phase = "off" /\ Pending = None /\ Pending' = None
    BY <1>1, <1>3, <2>1, Seen DEF SeenAs, InBegin, InCall
  <2> QED
    BY <1>1, <1>2, <2>1, <2>2 DEF Calls!vars
<1>4. CASE pc = "poll" /\ job # None
  <2>1. job = request /\ job \in Requests
    BY <1>4 DEF IInv, TypeOK, Busy, InCall
  <2>2. Phase = "called" /\ Pending = job /\ Pending' = job
    BY <1>1, <1>4, <2>1, Seen DEF SeenAs, InCall
  <2>3. Calls!Crash
    BY <1>1, <1>2, <2>2 DEF Calls!Crash
  <2> QED
    BY <2>3 DEF Calls!Next
<1>5. CASE pc \notin InBegin /\ ~(pc = "poll" /\ job # None)
  <2>1. job = None /\ Phase # "off"
    BY <1>1, <1>5, Seen DEF SeenAs, IInv, TypeOK, Busy, InBegin, InCall
  <2>2. Pending' = None
    BY <1>1, <2>1, Seen DEF SeenAs, InCall
  <2>3. Calls!Crash
    BY <1>1, <1>2, <2>1, <2>2, NotRequests DEF Calls!Crash
  <2> QED
    BY <2>3 DEF Calls!Next
<1> QED
  BY <1>3, <1>4, <1>5

(* The power goes, for the processor and for the chip.                     *)
LEMMA PowerLossSeen ==
  ASSUME IInv, PowerLoss
  PROVE  [Calls!Next]_Calls!vars
<1>1. /\ pc' = "off" /\ result' = <<>> /\ job' = None
      /\ mem' \in {mem, Calls!Torn(mem, job)}
  BY DEF PowerLoss
<1>2. Phase' = "off" /\ Pending' = None
  BY <1>1, Seen DEF SeenAs, InCall
<1>3. CASE pc \in InBegin \cup {"off"}
  <2>1. Phase = "off" /\ result = <<>>
    BY <1>3, Seen DEF SeenAs, IInv, Kept
  <2>2. CASE job \in Requests
    <3>1. Pending = job
      BY <1>3, <2>2, Seen DEF SeenAs, InBegin, InCall
    <3>2. Calls!Settle
      BY <1>1, <1>2, <2>1, <2>2, <3>1, NotRequests DEF Calls!Settle
    <3> QED
      BY <3>2 DEF Calls!Next
  <2>3. CASE job \notin Requests
    <3>1. job \in {None, Unprotect}
      BY <2>3 DEF IInv, TypeOK
    <3>2. Pending = None /\ mem' = mem
      BY <1>1, <1>3, <3>1, Seen, NoEffect DEF SeenAs, InBegin, InCall, IInv, Kept
    <3> QED
      BY <1>1, <1>2, <2>1, <3>2 DEF Calls!vars
  <2> QED
    BY <2>2, <2>3
<1>4. CASE pc \notin InBegin \cup {"off"}
  <2>1. Phase # "off"
    BY <1>4, Seen DEF SeenAs, IInv, TypeOK, InBegin, InCall
  <2>2. CASE job = None
    <3>1. mem' = mem
      BY <1>1, <2>2, NoEffect DEF IInv, Kept
    <3>2. Calls!Crash
      BY <1>1, <1>2, <2>1, <3>1, NotRequests DEF Calls!Crash
    <3> QED
      BY <3>2 DEF Calls!Next
  <2>3. CASE job # None
    <3>1. pc = "poll" /\ job = request
      BY <1>4, <2>3 DEF IInv, Busy, InBegin
    <3>2. Phase = "called" /\ Pending = job
      BY <2>3, <3>1, Seen DEF SeenAs
    <3>3. Calls!Crash
      BY <1>1, <1>2, <3>2, NotRequests DEF Calls!Crash
    <3> QED
      BY <3>3 DEF Calls!Next
  <2> QED
    BY <2>2, <2>3
<1> QED
  BY <1>3, <1>4

LEMMA RequestSeen ==
  ASSUME IInv, NEW r \in Requests, Call(r)
  PROVE  [Calls!Next]_Calls!vars
<1>1. /\ pc = "idle" /\ pc' \in {"read", "enable"} /\ request' = r
      /\ UNCHANGED <<result, mem>>
  BY DEF Call, FirstCommand, chipVars
<1>2. Phase = "idle" /\ Phase' = "called" /\ Pending' = r
  BY <1>1, Seen DEF SeenAs
<1>3. Calls!Call(r)
  BY <1>1, <1>2 DEF Calls!Call
<1> QED
  BY <1>3 DEF Calls!Next

LEMMA StepSeen ==
  ASSUME IInv, [Next]_vars
  PROVE  [Calls!Next]_Calls!vars
<1>1. CASE DriverStep
  BY <1>1, BeginSeen, CallSeen DEF DriverStep
<1>2. CASE Finish
  BY <1>2, FinishSeen
<1>3. CASE Reset
  BY <1>3, ResetSeen
<1>4. CASE Restart
  BY <1>4, RestartSeen
<1>5. CASE PowerLoss
  BY <1>5, PowerLossSeen
<1>6. ASSUME NEW r \in Requests, Call(r) PROVE [Calls!Next]_Calls!vars
  BY <1>6, RequestSeen
<1>7. CASE UNCHANGED vars
  <2>1. UNCHANGED <<mem, result, request, pc, job>>
    BY <1>7 DEF vars, driverVars, chipVars
  <2>2. Phase' = Phase /\ Pending' = Pending
    BY <2>1 DEF Phase, Pending, None
  <2> QED
    BY <2>1, <2>2 DEF Calls!vars
<1> QED
  BY <1>1, <1>2, <1>3, <1>4, <1>5, <1>6, <1>7 DEF Next

(* A call of the driver takes effect once, as a whole, before it returns;  *)
(* one that was cut off is settled when begin() is through.                *)
THEOREM DriverImplementsCalls == Spec => CallsAtomic
<1>1. IInv /\ [Next]_vars => [Calls!Next]_Calls!vars
  BY StepSeen
<1> QED
  BY <1>1, InitSeen, Invariance, PTL DEF Spec, CallsAtomic, Calls!Safety
=============================================================================
