---------------------------- MODULE FlashDriver ----------------------------
(***************************************************************************)
(* The SST26VF040A driver (lib/SST26VF040A), one SPI command a step, and   *)
(* the chip at the other end of the bus.                                   *)
(*                                                                         *)
(* The chip is external to the repository, and modelled from how the       *)
(* driver handles it: it programs, erases or writes its status register    *)
(* only when write-enabled and not busy, and the first two only when it is *)
(* not protected; it is then busy for a while, and ignores everything but  *)
(* a status read and a reset. It may come up protected. A bus without a    *)
(* chip reads as all ones or as all zeros.                                 *)
(*                                                                         *)
(* The delays are left out, and so are eraseSector32 and chipErase, which  *)
(* nothing calls. The reset is two commands, taken as one step.            *)
(***************************************************************************)
EXTENDS FlashChip, Sequences

CONSTANTS
  Contents,   \* what the chip may hold at first
  Requests,   \* calls, as in FlashCalls
  Buses       \* what may answer: "chip", "ones", "zeros"

VARIABLES
  pc,         \* the next SPI command; "off", "failed", "idle" between calls
  request,    \* the call in progress
  result      \* what the last read returned

(* The chip.                                                               *)
VARIABLES
  bus,        \* what answers
  mem,        \* contents
  job,        \* what it is busy with
  wel,        \* write-enable latch
  protected   \* block protection bits, STATUS & 0x1C

driverVars == <<pc, request, result>>
chipVars   == <<bus, mem, job, wel, protected>>
vars       == <<driverVars, chipVars>>

InBegin == {"status", "begin_enable", "begin_send", "begin_poll", "id"}
InCall  == {"read", "enable", "send", "poll"}

None      == [op |-> "none"]
Unprotect == [op |-> "unprotect"]

(* Where a caller would say the driver is, and the call that is under way  *)
(* or not yet settled.                                                     *)
Phase ==
  CASE pc \in {"idle", "failed"}         -> pc
    [] pc \in {"read", "enable", "send"} -> "called"
    [] pc = "poll"                       -> IF job = None THEN "done" ELSE "called"
    [] OTHER                             -> "off"

Pending ==
  IF pc \in InCall THEN request ELSE IF job \in Requests THEN job ELSE None

Calls == INSTANCE FlashCalls WITH phase <- Phase, request <- Pending

ASSUME RequestAssumption ==
  /\ \A r \in Requests : r.op \in {"read", "write", "sector", "block"}
  /\ Buses \subseteq {"chip", "ones", "zeros"}
  /\ \A m \in Contents : m = [s \in Slots |-> m[s]]

Init ==
  /\ pc = "off" /\ request = None /\ result = <<>>
  /\ bus \in Buses /\ mem \in Contents /\ job = None
  /\ wel = FALSE /\ protected \in BOOLEAN

-----------------------------------------------------------------------------
(***************************************************************************)
(* The chip                                                                *)
(***************************************************************************)
Accepts(r) ==
  /\ bus = "chip" /\ job = None /\ wel
  /\ r # Unprotect => ~protected

Finish ==
  /\ job # None /\ job' = None /\ wel' = FALSE
  /\ mem' = Calls!Effect(mem, job)
  /\ protected' = (protected /\ job # Unprotect)
  /\ UNCHANGED <<driverVars, bus>>

(* Beside some operators stands a mutated form, NameMutant: the slip that  *)
(* a property below is there to catch. No action uses one.                 *)

(* mutated: the wrong bits are tested                                      *)
ShowsProtectedMutant == bus = "ones"
ShowsProtected       == bus = "ones" \/ (bus = "chip" /\ protected)

(* mutated: the wait is left at once; the test is the wrong way round      *)
ShowsBusyMutant   == FALSE
ShowsReadyMutant  == ~(bus = "ones" \/ (bus = "chip" /\ job # None))
ShowsBusy         == bus = "ones" \/ (bus = "chip" /\ job # None)

(* mutated: no reset is sent                                               *)
AfterResetMutant == job
AfterReset       == None

-----------------------------------------------------------------------------
(***************************************************************************)
(* begin()                                                                 *)
(***************************************************************************)
Reset ==
  /\ pc = "off" /\ pc' = "status"
  /\ job' = AfterReset
  /\ mem' \in {mem, Calls!Torn(mem, job)}
  /\ wel' = FALSE /\ protected' \in BOOLEAN
  /\ UNCHANGED <<request, result, bus>>

ReadStatus ==
  /\ pc = "status" /\ pc' = IF ShowsProtected THEN "begin_enable" ELSE "id"
  /\ UNCHANGED <<request, result, chipVars>>

Enable(here, next) ==
  /\ pc = here /\ pc' = next
  /\ wel' = (wel \/ (bus = "chip" /\ job = None))
  /\ UNCHANGED <<request, result, bus, mem, job, protected>>

Send(here, r, next) ==
  /\ pc = here /\ pc' = next
  /\ job' = IF Accepts(r) THEN r ELSE job
  /\ UNCHANGED <<request, result, bus, mem, wel, protected>>

BeginPoll ==
  /\ pc = "begin_poll" /\ ~ShowsBusy /\ pc' = "id"
  /\ UNCHANGED <<request, result, chipVars>>

ReadId ==
  /\ pc = "id" /\ pc' = IF bus = "chip" THEN "idle" ELSE "failed"
  /\ UNCHANGED <<request, result, chipVars>>

BeginEnable == Enable("begin_enable", "begin_send")
BeginSend   == Send("begin_send", Unprotect, "begin_poll")

-----------------------------------------------------------------------------
(***************************************************************************)
(* read(), write(), eraseSector(), eraseSector64()                         *)
(***************************************************************************)
(* mutated: everything is sent to the chip the same way                    *)
FirstCommandMutant(r) == "enable"
FirstCommand(r)       == IF r.op = "read" THEN "read" ELSE "enable"

Call(r) ==
  /\ pc = "idle" /\ pc' = FirstCommand(r) /\ request' = r
  /\ UNCHANGED <<result, chipVars>>

ReadData ==
  /\ pc = "read" /\ pc' = "idle" /\ request' = None
  /\ result' = IF job = None THEN Read(mem, request.addr, request.len)
               ELSE [k \in 1 .. request.len |-> Garbled]
  /\ UNCHANGED chipVars

WriteEnable == Enable("enable", "send")
SendRequest == Send("send", request, "poll")

Poll ==
  /\ pc = "poll" /\ ~ShowsBusy /\ pc' = "idle" /\ request' = None
  /\ UNCHANGED <<result, chipVars>>

-----------------------------------------------------------------------------
(* The processor stops, and the chip keeps its power and goes on.          *)
Restart ==
  /\ pc # "off" /\ pc' = "off" /\ request' = None /\ result' = <<>>
  /\ UNCHANGED chipVars

PowerLoss ==
  /\ pc' = "off" /\ request' = None /\ result' = <<>>
  /\ mem' \in {mem, Calls!Torn(mem, job)}
  /\ job' = None /\ wel' = FALSE /\ protected' \in BOOLEAN
  /\ UNCHANGED bus

DriverStep ==
  \/ ReadStatus \/ BeginEnable \/ BeginSend \/ BeginPoll \/ ReadId
  \/ ReadData \/ WriteEnable \/ SendRequest \/ Poll

Next ==
  \/ DriverStep \/ Finish \/ Reset \/ Restart \/ PowerLoss
  \/ \E r \in Requests : Call(r)

(* The processor goes on to the next command, and the chip gets done.      *)
Spec == Init /\ [][Next]_vars /\ WF_vars(DriverStep) /\ WF_vars(Finish)

-----------------------------------------------------------------------------
(* Types, and that reads and changes take their own ways.                  *)
TypeOK ==
  /\ pc \in {"off", "failed", "idle"} \cup InBegin \cup InCall
  /\ bus \in Buses
  /\ IF pc \in InCall THEN request \in Requests ELSE request = None
  /\ pc \in InCall => (pc = "read" <=> request.op = "read")
  /\ job \in Requests \cup {None, Unprotect}
  /\ wel \in BOOLEAN /\ protected \in BOOLEAN

(* No command is sent to a chip that would ignore it, be it busy with a    *)
(* job from before a restart, or write-protected when it came up.          *)
CommandsTaken ==
  /\ pc = "send" => Accepts(request)
  /\ pc = "begin_send" /\ bus = "chip" => Accepts(Unprotect)
  /\ pc = "read" => bus = "chip" /\ job = None

(* The driver's calls are those FlashCalls describes: once, whole, in      *)
(* their order, and settled before begin() is through.                     *)
CallsAtomic == Calls!Safety

(* A call returns, if the processor does not stop; and begin() comes to a  *)
(* result, so that setup() can show one, with a chip in whatever state or  *)
(* with a bus at zero. On a bus of ones it does not: see FailsLoudly.      *)
CallsReturn ==
  Calls!Fairness /\ (pc \in InBegin /\ bus # "ones" ~> pc \notin InBegin)

(* main.cpp:217, "Fail loudly": begin() comes to a result with any chip or *)
(* none, and setup() sounds and lights the failure if it is one.           *)
FailsLoudly == pc \in InBegin ~> pc \notin InBegin
=============================================================================
