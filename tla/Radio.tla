------------------------------- MODULE Radio --------------------------------
(***************************************************************************)
(* The board's LoRa module (lib/HM-TRLR-S): setup() configures it with AT  *)
(* commands over a serial line and later writes telemetry packets to it.   *)
(*                                                                         *)
(* The characters of a reply come in one by one, while the driver empties  *)
(* the input, sends a command, waits 20 ms and reads up to the first line  *)
(* end. read() does not wait: with nothing there it gives -1, which is     *)
(* stored like a character, far faster than characters come, so that a     *)
(* reply that is late runs the index past the end of response[] long       *)
(* before the second of the loop is over; what follows is undefined.       *)
(*                                                                         *)
(* The module is external to the repository: it takes what it is sent as a *)
(* command when its config pin is low, and as data to put on the air when  *)
(* it is high; it accepts a command or not, and says so, with or without a *)
(* line feed, after an empty line, late, or not at all. "OK" and "ERROR"   *)
(* are single characters here, and the parameters are left out: setup()    *)
(* sends each command once. errno_ is never read, and channel_, which      *)
(* set_channel stores before the module has accepted it, is '0' before and *)
(* after the only call: neither is modelled.                               *)
(***************************************************************************)
EXTENDS Integers, Sequences, FiniteSets

CONSTANTS
  Commands,       \* the commands of begin() and setup(), in order
  BeginCommands,  \* how many of them are in begin()
  BufSize,        \* length of response[]: 100 on the board, where a result fits
  MaxSent         \* bound: packets transmitted

ASSUME RadioAssumption ==
  /\ Commands \in Seq(STRING)
  /\ BeginCommands \in 1 .. Len(Commands) - 1
  /\ BufSize \in Nat \ {0, 1} /\ MaxSent \in Nat

VARIABLES
  pc,          \* what the driver does next
  n,           \* the command it is at
  index, seen, \* index, and the characters in response[]
  stat,        \* init_res, and lora_init_stat which takes it over
  is_ok_, config_pin_,
  allow,       \* built with ALLOW_SETUP_FAILURES
  input        \* characters received

(* The module.                                                             *)
VARIABLES
  wire,        \* characters it has yet to send
  accepted,    \* commands it has accepted
  onAir        \* packets it has put on the air

(* History variables.                                                      *)
VARIABLES
  late,        \* a reply was not there when it was read
  refused      \* a command was not accepted, or not with a plain OK

driverVars == <<pc, n, index, seen, stat, is_ok_, config_pin_, allow>>
moduleVars == <<accepted, onAir, refused>>
vars       == <<driverVars, input, wire, late, moduleVars>>

LOW  == 0
HIGH == 1

(* What the module may reply, having accepted the command, or not.         *)
Accepting == {<<"OK", "CR">>, <<"OK", "CR", "LF">>}
Unplain   == {<<"CR", "LF", "OK", "CR", "LF">>, <<>>}
Refusing  == {<<"ERROR", "CR", "LF">>, <<>>}

LineEnds == {"CR", "LF"}

Init ==
  /\ pc = "flush" /\ n = 1 /\ index = 0 /\ seen = {}
  /\ stat = TRUE /\ is_ok_ = FALSE /\ config_pin_ = LOW /\ allow \in BOOLEAN
  /\ input = <<>> /\ wire = <<>> /\ accepted = {} /\ onAir = 0
  /\ late = FALSE /\ refused = FALSE

-----------------------------------------------------------------------------
(* Beside some operators stands a mutated form, NameMutant: the slip that  *)
(* a property below is there to catch. No action uses one.                 *)

(* mutated: the input is left as it is                                     *)
EmptiedMutant == input
Emptied       == <<>>

(* mutated: only the last result counts                                    *)
SucceededMutant == "OK" \in seen
Succeeded       == stat /\ "OK" \in seen

(* begin() ends the config mode, and setup() begins it again.              *)
PinAfter == IF n = Len(Commands) THEN HIGH ELSE LOW

NextIndex == index + 1
Overrun   == index' = BufSize

(***************************************************************************)
(* write_command()                                                         *)
(***************************************************************************)
Flush ==
  /\ pc = "flush" /\ pc' = "send"
  /\ input' = Emptied
  /\ UNCHANGED <<n, index, seen, stat, is_ok_, config_pin_, allow, wire, late,
                 moduleVars>>

(* The module takes the command, if it takes it for one.                   *)
Take(c, accepts, reply) ==
  /\ config_pin_ = LOW
  /\ wire' = wire \o reply
  /\ accepted' = IF accepts THEN accepted \cup {c} ELSE accepted
  /\ refused' = (refused \/ reply \notin Accepting)

Send ==
  /\ pc = "send" /\ pc' = "delay"
  /\ index' = 0 /\ seen' = {}
  /\ \/ \E r \in Accepting \cup Unplain : Take(Commands[n], TRUE, r)
     \/ \E r \in Refusing : Take(Commands[n], FALSE, r)
     \/ config_pin_ = HIGH /\ UNCHANGED <<wire, accepted, refused>>
  /\ UNCHANGED <<n, stat, is_ok_, config_pin_, allow, input, late, onAir>>

(* The 20 ms are enough for the reply, or they are not.                    *)
Delay ==
  /\ pc = "delay" /\ pc' = "read"
  /\ late' = (late \/ wire # <<>>)
  /\ UNCHANGED <<n, index, seen, stat, is_ok_, config_pin_, allow, input, wire,
                 moduleVars>>

(* What is stored past the end of response[] is anything but a result.     *)
Store ==
  /\ index' = NextIndex
  /\ pc' = IF Overrun THEN "undefined" ELSE "read"

ReadChar ==
  /\ pc = "read" /\ input # <<>> /\ Head(input) \notin LineEnds
  /\ Store /\ seen' = seen \cup {Head(input)} /\ input' = Tail(input)
  /\ UNCHANGED <<n, stat, is_ok_, config_pin_, allow, wire, late, moduleVars>>

ReadNothing ==
  /\ pc = "read" /\ input = <<>>
  /\ Store
  /\ UNCHANGED <<n, seen, stat, is_ok_, config_pin_, allow, input, wire, late,
                 moduleVars>>

(***************************************************************************)
(* The line ends: write_command() returns, begin() or setup() goes on.     *)
(***************************************************************************)
ReadEnd ==
  /\ pc = "read" /\ input # <<>> /\ Head(input) \in LineEnds
  /\ input' = Tail(input)
  /\ stat' = Succeeded
  /\ is_ok_' = IF n = BeginCommands THEN stat' ELSE is_ok_
  /\ config_pin_' = PinAfter
  /\ IF n < Len(Commands)
     THEN n' = n + 1 /\ pc' = "flush"
     ELSE n' = n /\ pc' = IF stat' \/ allow THEN "up" ELSE "stuck"
  /\ UNCHANGED <<index, seen, allow, wire, late, moduleVars>>

(* transmit(), from loop(): the packet is short, and all of it is written. *)
transmit ==
  /\ pc = "up" /\ is_ok_ /\ onAir < MaxSent
  /\ config_pin_' = HIGH
  /\ onAir' = onAir + 1
  /\ UNCHANGED <<pc, n, index, seen, stat, is_ok_, allow, input, wire, late,
                 accepted, refused>>

(* A character comes in.                                                   *)
Receive ==
  /\ wire # <<>>
  /\ input' = Append(input, Head(wire)) /\ wire' = Tail(wire)
  /\ UNCHANGED <<driverVars, late, moduleVars>>

SetUp == Flush \/ Send \/ Delay \/ ReadChar \/ ReadNothing \/ ReadEnd
Next  == SetUp \/ transmit \/ Receive

Spec == Init /\ [][Next]_vars /\ WF_vars(SetUp)

-----------------------------------------------------------------------------
TypeOK ==
  /\ pc \in {"flush", "send", "delay", "read", "up", "stuck", "undefined"}
  /\ n \in 1 .. Len(Commands) /\ index \in 0 .. BufSize
  /\ seen \subseteq {"OK", "ERROR"}
  /\ stat \in BOOLEAN /\ is_ok_ \in BOOLEAN /\ allow \in BOOLEAN
  /\ config_pin_ \in {LOW, HIGH}
  /\ input \in Seq({"OK", "ERROR", "CR", "LF"}) /\ wire \in Seq({"OK", "ERROR", "CR", "LF"})
  /\ accepted \subseteq {Commands[k] : k \in DOMAIN Commands}
  /\ onAir \in 0 .. MaxSent /\ late \in BOOLEAN /\ refused \in BOOLEAN

(* When set-up is over the module has accepted every command, whatever was *)
(* left of a reply, or came late, and was read as that of another command. *)
(* Built to allow failures, the board transmits if it has accepted those   *)
(* of begin(): the channel it says it is on may not be the module's.       *)
ConfiguredIsAccepted ==
  pc = "up" =>
    /\ is_ok_ => \A k \in 1 .. BeginCommands : Commands[k] \in accepted
    /\ ~allow => \A k \in DOMAIN Commands : Commands[k] \in accepted

(* A module that accepts every command in time with a plain OK is set up:  *)
(* what is left of one reply does not spoil the next.                      *)
PlainRepliesSuffice ==
  ~late /\ ~refused => pc \notin {"stuck", "undefined"} /\ stat

-----------------------------------------------------------------------------
(* HopeHM.cpp:46, "Successfuly command reply: OK<CR>": a command that is   *)
(* accepted with it is taken for a success, if late.                       *)
OkIsSuccess == pc \in {"stuck", "undefined"} => refused
=============================================================================
