------------------------------ MODULE Downlink ------------------------------
(***************************************************************************)
(* Telemetry from the board to the ground station: make_packet() and       *)
(* transmit_telemetry() of main.cpp, the air, the RFM95 driver (RF95), and *)
(* loop() of feather/main.cpp, which prints a line for each packet.        *)
(*                                                                         *)
(* The air loses packets, corrupts them, and brings in those of others on  *)
(* the frequency. A position is the number of the GPS solution it is from, *)
(* a satellite count one of SivValues; the altitude of the barometer, sent *)
(* as it is, is left out. A packet carries, for the properties, the data   *)
(* it was made from.                                                       *)
(***************************************************************************)
EXTENDS RF95

CONSTANTS
  SivValues,    \* satellites a solution may have
  MaxPackets,   \* bound: packets transmitted
  MaxStray      \* bound: packets of others

ASSUME DownlinkAssumption ==
  SivValues \subseteq Nat /\ MaxPackets \in Nat /\ MaxStray \in Nat

VARIABLES
  board,        \* the fields of global_data a packet shows
  sent, stray,  \* packets so far
  pc, data,     \* of the ground station: what it does next, and data
  lines         \* history: what it has printed, the packets and the fields

boardVars  == <<board, sent>>
groundVars == <<pc, data, lines>>
vars       == <<rf95Vars, boardVars, stray, groundVars>>

-----------------------------------------------------------------------------
(***************************************************************************)
(* The board                                                               *)
(***************************************************************************)
FullLen == 24   \* sizeof(telem_t), on the board and on the ground

Fresh ==
  [FSM_state |-> 0, gps_fix_ok |-> FALSE, gps_siv |-> 0, gps_fix_type |-> 0,
   position |-> 0]

(* get_gps_data(): a solution without a fix leaves the last position.      *)
get_gps_data(d, ok, siv, type, number) ==
  LET seen == [d EXCEPT !.gps_fix_ok = ok, !.gps_siv = IF siv > 100 THEN 0 ELSE siv]
  IN  IF ok THEN [seen EXCEPT !.gps_fix_type = type, !.position = number] ELSE seen

(* make_packet(): init_no_err, without which setup() does not end, and     *)
(* none of the channel bits. The count and the type share an int8_t.       *)
(* mutated: the count is not shifted far enough                            *)
SivFixTypeMutant(d) == (d.gps_siv * 4 + (d.gps_fix_type % 8)) % 256
SivFixType(d)       == (d.gps_siv * 8 + (d.gps_fix_type % 8)) % 256

make_packet(d) ==
  [id |-> sent + 1, len |-> FullLen, status |-> 128,
   gps_siv_fix_type |-> SivFixType(d), position |-> d.position, of |-> d]

(* A packet of others on the frequency, of any length.                     *)
Foreign(len) ==
  [id |-> 0, len |-> len, status |-> 0, gps_siv_fix_type |-> 0, position |-> 0,
   of |-> Fresh]

OnAir(p, crc) ==
  [id |-> p.id, len |-> p.len, status |-> p.status, position |-> p.position,
   gps_siv_fix_type |-> p.gps_siv_fix_type, of |-> p.of, crc |-> crc]

Transmit ==
  /\ sent < MaxPackets /\ sent' = sent + 1
  /\ \E ok \in BOOLEAN, siv \in SivValues, fsm \in board.FSM_state .. 2 :
       board' = [get_gps_data(board, ok, siv, 3, sent') EXCEPT !.FSM_state = fsm]
  /\ \E crc \in BOOLEAN : Begins(OnAir(make_packet(board'), crc))
  /\ UNCHANGED <<stray, groundVars>>

Stray ==
  /\ stray < MaxStray /\ stray' = stray + 1
  /\ \E len \in {3, 4, FullLen + 1}, crc \in BOOLEAN : Begins(OnAir(Foreign(len), crc))
  /\ UNCHANGED <<boardVars, groundVars>>

-----------------------------------------------------------------------------
(***************************************************************************)
(* The ground station                                                      *)
(***************************************************************************)
Bit(n, weight) == (n \div weight) % 2

(* The fields of a line. The low bits of gps_siv_fix_type are the type.    *)
Shown(p) ==
  [init_noerr |-> Bit(p.status, 128), gps_locked |-> Bit(p.status, 64),
   fsm_state |-> (p.status \div 16) % 4, telem_chan |-> p.status % 16,
   siv |-> p.gps_siv_fix_type \div 8, fix_type |-> p.gps_siv_fix_type % 8,
   position |-> p.position]

(* What of a packet gets into data; the rest of data is as it was.         *)
Copied == [packet |-> _buf, len |-> IF _bufLen < FullLen THEN _bufLen ELSE FullLen]

Poll ==
  /\ pc = "poll" /\ available
  /\ pc' = IF _rxBufValid THEN "recv" ELSE "poll"
  /\ UNCHANGED <<boardVars, stray, data, lines>>

(* recv() asks available() again.                                          *)
Recv ==
  /\ pc = "recv" /\ available
  /\ pc' = IF _rxBufValid THEN "copy" ELSE "poll"
  /\ UNCHANGED <<boardVars, stray, data, lines>>

Copy ==
  /\ pc = "copy" /\ pc' = "clear"
  /\ data' = Copied
  /\ UNCHANGED <<rf95Vars, boardVars, stray, lines>>

Clear ==
  /\ pc = "clear" /\ pc' = "blink"
  /\ clearRxBuf
  /\ UNCHANGED <<boardVars, stray, data, lines>>

(* delay(50), and then the line.                                           *)
PrintLine ==
  /\ pc = "blink" /\ pc' = "poll"
  /\ lines' = Append(lines, [packet |-> data.packet, len |-> data.len,
                             shown |-> Shown(data.packet)])
  /\ UNCHANGED <<rf95Vars, boardVars, stray, data>>

(* Time passes where the ground station is slow.                           *)
Wait ==
  /\ incoming # None /\ ~ripe
  /\ \/ pc = "blink"
     \/ pc = "poll" /\ ~_rxBufValid /\ _mode = "rx"
  /\ ripe' = TRUE
  /\ UNCHANGED <<driverVars, chip, incoming, received, boardVars, stray, groundVars>>

Interrupt == handleInterrupt /\ UNCHANGED <<boardVars, stray, groundVars>>

Init ==
  /\ rf95Init
  /\ board = Fresh /\ sent = 0 /\ stray = 0
  /\ pc = "poll" /\ data = [packet |-> None, len |-> 0] /\ lines = <<>>

Ground == Poll \/ Recv \/ Copy \/ Clear \/ PrintLine
Next   == Transmit \/ Stray \/ Wait \/ Interrupt \/ Ground

(* The ground station loops, and a packet on the air ends.                 *)
Spec == Init /\ [][Next]_vars /\ WF_vars(Ground) /\ WF_vars(Wait) /\ WF_vars(Interrupt)

-----------------------------------------------------------------------------
TypeOK ==
  /\ _mode \in {"idle", "rx"} /\ chip \in {"standby", "rx"}
  /\ _rxBufValid \in BOOLEAN /\ _bufLen \in Nat /\ ripe \in BOOLEAN
  /\ pc \in {"poll", "recv", "copy", "clear", "blink"}
  /\ sent \in 0 .. MaxPackets /\ stray \in 0 .. MaxStray
  /\ data.len \in 0 .. FullLen
  /\ Len(lines) <= Len(received)

(* The packets the handler keeps are the lines printed, the one about to   *)
(* be, and the one held for the next pass: none twice, none lost to the    *)
(* one behind it, in spite of the 50 ms in which nobody looks.             *)
AboutToPrint == IF pc \in {"clear", "blink"} THEN <<data.packet>> ELSE <<>>
Held         == IF _rxBufValid /\ pc # "clear" THEN <<_buf>> ELSE <<>>

LinesAreThePackets ==
  received = [k \in DOMAIN lines |-> lines[k].packet] \o AboutToPrint \o Held

(* A line is never made up: all of it is what the board had when it made   *)
(* the packet, or the packet is not from the board. A count of satellites  *)
(* that does not fit its five bits loses what is above them, and spills    *)
(* neither into the fix type nor, by the sign of the byte, into the count. *)
LinesAreTrue ==
  \A k \in DOMAIN lines :
    LET p == lines[k].packet
    IN  \/ p.id = 0 /\ lines[k].len >= 4
        \/ /\ lines[k].len = FullLen
           /\ lines[k].shown.position = p.of.position
           /\ lines[k].shown.fix_type = p.of.gps_fix_type
           /\ lines[k].shown.siv = p.of.gps_siv % 32

(* The receiver is not left off: it is on again after each packet.         *)
ListensAgain == chip = "standby" ~> chip = "rx"

-----------------------------------------------------------------------------
(* main.cpp:64, "0=Preflight, 1=Flight": the state in the line is the      *)
(* state the board was in.                                                 *)
StatusShowsFlight ==
  \A k \in DOMAIN lines :
    lines[k].packet.id # 0 => lines[k].shown.fsm_state = lines[k].packet.of.FSM_state
=============================================================================
