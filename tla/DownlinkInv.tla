---------------------------- MODULE DownlinkInv -----------------------------
(***************************************************************************)
(* The inductive invariant of the downlink: where a packet can be between  *)
(* the interrupt that keeps it and the line that shows it.                 *)
(***************************************************************************)
EXTENDS Downlink

(* What a packet is made from, and what of it is transmitted.              *)
BoardData ==
  [FSM_state : 0 .. 2, gps_fix_ok : BOOLEAN, gps_siv : Nat, gps_fix_type : {0, 3},
   position : Nat]

AirPackets ==
  [id : Nat, len : Nat, status : Nat, position : Nat, gps_siv_fix_type : Nat,
   of : BoardData, crc : BOOLEAN]

(* All of a packet of the board is what the board had when it made it.     *)
FromBoard(p) ==
  /\ p.len = FullLen
  /\ p.position = p.of.position
  /\ p.gps_siv_fix_type = SivFixType(p.of)

Genuine == {p \in AirPackets : p.id = 0 \/ FromBoard(p)}

(* The lines: each shows a packet that is long enough to be kept.          *)
LineOf(p) ==
  [packet |-> p, len |-> IF p.len < FullLen THEN p.len ELSE FullLen,
   shown |-> Shown(p)]

Shows ==
  [init_noerr : Nat, gps_locked : Nat, fsm_state : Nat, telem_chan : Nat, siv : Nat,
   fix_type : Nat, position : Nat]

Lines ==
  {l \in [packet : Genuine, len : Nat, shown : Shows] :
     Valid(l.packet.len) /\ l = LineOf(l.packet)}

AirTyped ==
  /\ board \in BoardData /\ sent \in 0 .. MaxPackets /\ stray \in 0 .. MaxStray
  /\ incoming # None => incoming \in Genuine
  /\ ripe \in BOOLEAN /\ _rxBufValid \in BOOLEAN /\ _bufLen \in Nat
  /\ pc \in {"poll", "recv", "copy", "clear", "blink"}

(* The driver knows what its chip does, and what it holds.                 *)
DriverKnows ==
  /\ _mode \in {"idle", "rx"}
  /\ chip = IF _mode = "rx" THEN "rx" ELSE "standby"
  /\ _mode = "idle" => incoming = None /\ ~ripe
  /\ _rxBufValid => _buf \in Genuine /\ Valid(_buf.len) /\ _bufLen = _buf.len

(* From the moment the loop has seen a packet until it has cleared it no   *)
(* other comes in: the receiver is on again, but the program is too fast   *)
(* for one. Elsewhere a packet that is held keeps the receiver off.        *)
PacketIsSafe ==
  /\ pc \in {"recv", "copy", "clear"} => _rxBufValid /\ ~ripe
  /\ pc \in {"poll", "blink"} /\ _rxBufValid => _mode = "idle"

(* What is copied is printed as it came.                                   *)
DataTyped ==
  /\ data.len \in 0 .. FullLen
  /\ pc \in {"clear", "blink"} =>
       /\ data.packet \in Genuine /\ Valid(data.packet.len)
       /\ data.len = LineOf(data.packet).len

LinesTyped == received \in Seq(Genuine) /\ lines \in Seq(Lines)

IInv ==
  /\ AirTyped /\ DriverKnows /\ PacketIsSafe /\ DataTyped /\ LinesTyped
  /\ LinesAreThePackets
=============================================================================
