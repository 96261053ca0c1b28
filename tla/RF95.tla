-------------------------------- MODULE RF95 --------------------------------
(***************************************************************************)
(* The receiving side of the RFM95 driver (lib/RadioHead/RH_RF95.cpp, as   *)
(* the repository has it: the four header bytes and the address check of   *)
(* RadioHead are taken out), with the chip it drives.                      *)
(*                                                                         *)
(* The interrupt handler runs as soon as the chip has a packet, between    *)
(* any two steps of the program; available(), the copying of recv(), which *)
(* masks interrupts, and clearRxBuf(), which does too, are steps. A packet *)
(* is on the air for milliseconds and the steps take microseconds: the end *)
(* of a packet comes after the program has been slow since its start, and  *)
(* where it may be is for the program to say (ripe').                      *)
(*                                                                         *)
(* The chip is external to the repository: receiving continuously, it      *)
(* raises RxDone at the end of each packet, and says if its CRC is right.  *)
(***************************************************************************)
EXTENDS Naturals, Sequences

CONSTANT None  \* no packet

VARIABLES
  _mode,         \* _mode: "idle" or "rx"
  _rxBufValid, _buf, _bufLen,
  chip,          \* mode of the chip: "standby" or "rx"
  incoming,      \* the packet being received
  ripe,          \* the program has been slow since it began
  received       \* history: the packets the handler has kept

driverVars == <<_mode, _rxBufValid, _buf, _bufLen>>
chipVars   == <<chip, incoming, ripe>>
rf95Vars   == <<driverVars, chipVars, received>>

rf95Init ==
  /\ _mode = "idle" /\ chip = "standby"
  /\ _rxBufValid = FALSE /\ _buf = None /\ _bufLen = 0
  /\ incoming = None /\ ripe = FALSE /\ received = <<>>

-----------------------------------------------------------------------------
(* Beside some operators stands a mutated form, NameMutant: the slip that  *)
(* a property of Downlink is there to catch. No action uses one.           *)

(* validateRxBuf()                                                         *)
Valid(len) == len >= 4

(* setModeIdle(), once a packet is kept. Mutated: the chip goes on; the    *)
(* driver does not note that it has stopped it.                            *)
IdleMutant       == UNCHANGED <<_mode, chip>>
IdleUnsaidMutant == UNCHANGED _mode /\ chip' = "standby"
Idle             == _mode' = "idle" /\ chip' = "standby"

(* The driver believes its _mode, and leaves a chip that receives alone.   *)
setModeRx ==
  IF _mode # "rx" THEN _mode' = "rx" /\ chip' = "rx" ELSE UNCHANGED <<_mode, chip>>

(* mutated: the flag stays                                                 *)
ClearedMutant == TRUE
Cleared       == FALSE

(* A packet begins; one that meets another, or no receiver, is lost.       *)
Begins(p) ==
  /\ IF chip = "rx" /\ incoming = None
     THEN incoming' = p /\ ripe' = FALSE
     ELSE UNCHANGED <<incoming, ripe>>
  /\ UNCHANGED <<driverVars, chip, received>>

(* handleInterrupt() on RxDone.                                            *)
Ends == incoming # None /\ ripe /\ incoming' = None /\ ripe' = FALSE

KeepPacket ==
  /\ Ends /\ _mode = "rx" /\ incoming.crc
  /\ _buf' = incoming /\ _bufLen' = incoming.len
  /\ IF Valid(incoming.len)
     THEN _rxBufValid' = TRUE /\ Idle /\ received' = Append(received, incoming)
     ELSE UNCHANGED <<_rxBufValid, _mode, chip, received>>

RejectPacket ==
  /\ Ends /\ _mode = "rx" /\ ~incoming.crc
  /\ _rxBufValid' = FALSE /\ _bufLen' = 0
  /\ UNCHANGED <<_mode, _buf, chip, received>>

handleInterrupt == KeepPacket \/ RejectPacket

(* The calls of the program. available() starts the chip, and then looks.  *)
available ==
  /\ setModeRx
  /\ UNCHANGED <<_rxBufValid, _buf, _bufLen, incoming, ripe, received>>

clearRxBuf ==
  /\ _rxBufValid' = Cleared /\ _bufLen' = 0
  /\ UNCHANGED <<_mode, _buf, chipVars, received>>
=============================================================================
