--------------------------- MODULE DownlinkProofs ---------------------------
(***************************************************************************)
(* The lines of the ground station are the packets of the board, for any   *)
(* number of packets and satellites, and at any moment of its loop.        *)
(***************************************************************************)
EXTENDS DownlinkInv, SequenceTheorems, TLAPS

LEMMA Bounds == SivValues \subseteq Nat /\ MaxPackets \in Nat /\ MaxStray \in Nat
  BY DownlinkAssumption

-----------------------------------------------------------------------------
(* The fields of a packet                                                  *)

(* The count and the type share a byte, and come out of it as they were,   *)
(* the count without the bits that do not fit.                             *)
LEMMA SharedByte ==
  ASSUME NEW d \in BoardData
  PROVE  /\ SivFixType(d) \in Nat
         /\ SivFixType(d) % 8 = d.gps_fix_type
         /\ SivFixType(d) \div 8 = d.gps_siv % 32
<1> DEFINE n == d.gps_siv
           t == d.gps_fix_type
<1>1. n \in Nat /\ t \in {0, 3}
  BY DEF BoardData
<1>2. t % 8 = t
  BY <1>1
<1>3. SivFixType(d) = (n * 8 + t) % 256
  BY <1>2 DEF SivFixType
<1> HIDE DEF n, t
<1>4. (n * 8 + t) % 256 \in 0 .. 255
  BY <1>1
<1>5. ((n * 8 + t) % 256) % 8 = t
  BY <1>1
<1>6. ((n * 8 + t) % 256) \div 8 = n % 32
  BY <1>1
<1> QED
  BY <1>3, <1>4, <1>5, <1>6 DEF n, t

LEMMA ShownType ==
  ASSUME NEW p \in AirPackets
  PROVE  Shown(p) \in Shows
<1>1. p.status \in Nat /\ p.gps_siv_fix_type \in Nat /\ p.position \in Nat
  BY DEF AirPackets
<1>2. ASSUME NEW n \in Nat, NEW w \in Nat \ {0}
      PROVE  n \div w \in Nat /\ n % w \in Nat
  BY <1>2
<1>3. /\ Bit(p.status, 128) \in Nat /\ Bit(p.status, 64) \in Nat
      /\ (p.status \div 16) % 4 \in Nat /\ p.status % 16 \in Nat
      /\ p.gps_siv_fix_type \div 8 \in Nat /\ p.gps_siv_fix_type % 8 \in Nat
  BY <1>1, <1>2 DEF Bit
<1> QED
  BY <1>1, <1>3 DEF Shown, Shows

LEMMA LineType ==
  ASSUME NEW p \in Genuine, Valid(p.len)
  PROVE  /\ LineOf(p) \in Lines /\ LineOf(p).packet = p
         /\ LineOf(p).len \in 0 .. FullLen
<1>1. Shown(p) \in Shows /\ p.len \in Nat
  BY ShownType DEF Genuine, AirPackets
<1> QED
  BY <1>1 DEF LineOf, Lines, FullLen

(* What the board transmits shows what it has.                             *)
LEMMA BoardSends ==
  ASSUME NEW d \in BoardData, NEW crc \in BOOLEAN, sent \in Nat
  PROVE  OnAir(make_packet(d), crc) \in Genuine
<1>1. SivFixType(d) \in Nat /\ d.position \in Nat
  BY SharedByte DEF BoardData
<1> QED
  BY <1>1 DEF OnAir, make_packet, Genuine, AirPackets, FromBoard, FullLen

LEMMA OthersSend ==
  ASSUME NEW len \in Nat, NEW crc \in BOOLEAN
  PROVE  OnAir(Foreign(len), crc) \in Genuine
  BY DEF OnAir, Foreign, Fresh, Genuine, AirPackets, BoardData

LEMMA BoardType ==
  ASSUME NEW d \in BoardData, NEW ok \in BOOLEAN, NEW siv \in Nat, NEW number \in Nat,
         NEW fsm \in 0 .. 2
  PROVE  [get_gps_data(d, ok, siv, 3, number) EXCEPT !.FSM_state = fsm] \in BoardData
  BY DEF get_gps_data, BoardData

-----------------------------------------------------------------------------
(* The packets of the lines                                                *)
PacketsOf(l) == [k \in DOMAIN l |-> l[k].packet]

LEMMA PacketsOfLines ==
  ASSUME NEW l \in Seq(Lines)
  PROVE  /\ PacketsOf(l) \in Seq(Genuine) /\ Len(PacketsOf(l)) = Len(l)
         /\ \A k \in 1 .. Len(l) : PacketsOf(l)[k] = l[k].packet
<1>1. DOMAIN l = 1 .. Len(l) /\ Len(l) \in Nat
  OBVIOUS
<1>2. \A k \in 1 .. Len(l) : l[k].packet \in Genuine
  BY DEF Lines
<1>3. PacketsOf(l) = [k \in 1 .. Len(l) |-> l[k].packet]
  BY <1>1 DEF PacketsOf
<1>4. PacketsOf(l) \in [1 .. Len(l) -> Genuine]
  BY <1>2, <1>3
<1> QED
  BY <1>1, <1>3, <1>4

LEMMA OneMoreLine ==
  ASSUME NEW l \in Seq(Lines), NEW e \in Lines
  PROVE  PacketsOf(Append(l, e)) = PacketsOf(l) \o <<e.packet>>
<1> DEFINE a == PacketsOf(Append(l, e))
           b == PacketsOf(l)
<1>1. Append(l, e) \in Seq(Lines) /\ Len(Append(l, e)) = Len(l) + 1 /\ Len(l) \in Nat
  OBVIOUS
<1>2. /\ a \in Seq(Genuine) /\ Len(a) = Len(l) + 1
      /\ \A k \in 1 .. Len(l) + 1 : a[k] = Append(l, e)[k].packet
  BY <1>1, PacketsOfLines
<1>3. /\ b \in Seq(Genuine) /\ Len(b) = Len(l)
      /\ \A k \in 1 .. Len(l) : b[k] = l[k].packet
  BY PacketsOfLines
<1>4. e.packet \in Genuine
  BY DEF Lines
<1> HIDE DEF a, b
<1>5. /\ b \o <<e.packet>> \in Seq(Genuine) /\ Len(b \o <<e.packet>>) = Len(l) + 1
      /\ \A k \in 1 .. Len(l) + 1 :
           (b \o <<e.packet>>)[k] = IF k <= Len(l) THEN b[k] ELSE e.packet
  BY <1>1, <1>3, <1>4
<1>6. ASSUME NEW k \in 1 .. Len(l) + 1
      PROVE  a[k] = (b \o <<e.packet>>)[k]
  <2>1. CASE k <= Len(l)
    <3>1. k \in 1 .. Len(l) /\ Append(l, e)[k] = l[k]
      BY <1>1, <2>1
    <3> QED
      BY <1>2, <1>3, <1>5, <2>1, <3>1
  <2>2. CASE k = Len(l) + 1
    <3>1. Append(l, e)[k] = e /\ ~(k <= Len(l))
      BY <1>1, <2>2
    <3> QED
      BY <1>2, <1>5, <3>1
  <2>3. k <= Len(l) \/ k = Len(l) + 1
    BY <1>1
  <2> QED
    BY <2>1, <2>2, <2>3
<1>7. a = b \o <<e.packet>>
  BY <1>2, <1>5, <1>6, SeqEqual
<1> QED
  BY <1>7 DEF a, b

(* The three places of a packet that was kept.                             *)
LEMMA Places ==
  LinesAreThePackets <=> received = (PacketsOf(lines) \o AboutToPrint) \o Held
  BY DEF LinesAreThePackets, PacketsOf

LEMMA PlacesType ==
  ASSUME IInv
  PROVE  /\ PacketsOf(lines) \in Seq(Genuine)
         /\ AboutToPrint \in Seq(Genuine) /\ Held \in Seq(Genuine)
<1>1. PacketsOf(lines) \in Seq(Genuine)
  BY PacketsOfLines DEF IInv, LinesTyped
<1>2. AboutToPrint \in Seq(Genuine)
  BY DEF IInv, DataTyped, AboutToPrint
<1>3. Held \in Seq(Genuine)
  BY DEF IInv, DriverKnows, Held
<1> QED
  BY <1>1, <1>2, <1>3

-----------------------------------------------------------------------------
LEMMA InitInv == Init => IInv
<1> SUFFICES ASSUME Init PROVE IInv
  OBVIOUS
<1> USE DEF Init, rf95Init
<1>1. AirTyped
  <2>1. board \in BoardData
    BY DEF Fresh, BoardData
  <2>2. sent \in 0 .. MaxPackets /\ stray \in 0 .. MaxStray
    BY Bounds
  <2> QED
    BY <2>1, <2>2 DEF AirTyped
<1>2. DriverKnows /\ PacketIsSafe /\ DataTyped
  BY DEF DriverKnows, PacketIsSafe, DataTyped, FullLen
<1>3. LinesTyped
  BY DEF LinesTyped
<1>4. LinesAreThePackets
  <2>1. PacketsOf(lines) = <<>>
    <3>1. lines \in Seq(Lines) /\ Len(lines) = 0
      OBVIOUS
    <3>2. PacketsOf(lines) \in Seq(Genuine) /\ Len(PacketsOf(lines)) = 0
      BY <3>1, PacketsOfLines
    <3> HIDE DEF PacketsOf
    <3> QED
      BY <3>2, EmptySeq
  <2>2. AboutToPrint = <<>> /\ Held = <<>>
    BY DEF AboutToPrint, Held
  <2> QED
    BY <2>1, <2>2, Places
<1> QED
  BY <1>1, <1>2, <1>3, <1>4 DEF IInv

(* A packet that begins is seen by nobody yet.                             *)
LEMMA BeginsStep ==
  ASSUME IInv, NEW p \in Genuine, Begins(p), UNCHANGED groundVars,
         board' \in BoardData, sent' \in 0 .. MaxPackets, stray' \in 0 .. MaxStray
  PROVE  IInv'
<1>1. /\ _mode' = _mode /\ _rxBufValid' = _rxBufValid /\ _buf' = _buf
      /\ _bufLen' = _bufLen /\ chip' = chip /\ received' = received
      /\ pc' = pc /\ data' = data /\ lines' = lines
      /\ \/ chip = "rx" /\ incoming' = p /\ ripe' = FALSE
         \/ incoming' = incoming /\ ripe' = ripe
  BY DEF Begins, driverVars, groundVars
<1>2. AirTyped'
  <2>1. (incoming' # None => incoming' \in Genuine) /\ ripe' \in BOOLEAN
    BY <1>1 DEF IInv, AirTyped
  <2> QED
    BY <1>1, <2>1 DEF IInv, AirTyped
<1>3. DriverKnows'
  <2>1. _mode = "idle" => incoming' = None /\ ~ripe'
    BY <1>1 DEF IInv, DriverKnows
  <2> QED
    BY <1>1, <2>1 DEF IInv, DriverKnows
<1>4. PacketIsSafe'
  <2>1. pc \in {"recv", "copy", "clear"} => ~ripe'
    BY <1>1 DEF IInv, PacketIsSafe
  <2> QED
    BY <1>1, <2>1 DEF IInv, PacketIsSafe
<1>5. DataTyped' /\ LinesTyped'
  BY <1>1 DEF IInv, DataTyped, LinesTyped, LineOf
<1>6. LinesAreThePackets'
  BY <1>1 DEF IInv, LinesAreThePackets, AboutToPrint, Held
<1> QED
  BY <1>2, <1>3, <1>4, <1>5, <1>6 DEF IInv

LEMMA TransmitStep ==
  ASSUME IInv, Transmit
  PROVE  IInv'
<1>1. /\ sent < MaxPackets /\ sent' = sent + 1 /\ stray' = stray /\ UNCHANGED groundVars
      /\ sent \in 0 .. MaxPackets /\ stray \in 0 .. MaxStray /\ board \in BoardData
  BY DEF Transmit, IInv, AirTyped
<1>2. sent' \in 0 .. MaxPackets /\ sent \in Nat /\ sent' \in Nat
  BY <1>1, Bounds
<1>3. PICK ok \in BOOLEAN, siv \in SivValues, fsm \in board.FSM_state .. 2 :
        board' = [get_gps_data(board, ok, siv, 3, sent') EXCEPT !.FSM_state = fsm]
  BY DEF Transmit
<1>4. siv \in Nat /\ fsm \in 0 .. 2
  BY <1>1, Bounds DEF BoardData
<1>5. board' \in BoardData
  BY <1>1, <1>2, <1>3, <1>4, BoardType
<1>6. PICK crc \in BOOLEAN : Begins(OnAir(make_packet(board'), crc))
  BY DEF Transmit
<1>7. OnAir(make_packet(board'), crc) \in Genuine
  BY <1>2, <1>5, BoardSends
<1> QED
  BY <1>1, <1>2, <1>5, <1>6, <1>7, BeginsStep

LEMMA StrayStep ==
  ASSUME IInv, Stray
  PROVE  IInv'
<1>1. /\ stray < MaxStray /\ stray' = stray + 1 /\ sent' = sent /\ board' = board
      /\ UNCHANGED groundVars
      /\ sent \in 0 .. MaxPackets /\ stray \in 0 .. MaxStray /\ board \in BoardData
  BY DEF Stray, boardVars, IInv, AirTyped
<1>2. stray' \in 0 .. MaxStray
  BY <1>1, Bounds
<1>3. PICK len \in {3, 4, FullLen + 1}, crc \in BOOLEAN : Begins(OnAir(Foreign(len), crc))
  BY DEF Stray
<1>4. OnAir(Foreign(len), crc) \in Genuine
  <2>1. len \in Nat
    BY DEF FullLen
  <2> QED
    BY <2>1, OthersSend
<1> QED
  BY <1>1, <1>2, <1>3, <1>4, BeginsStep

(* Time passes only where no packet is held, or the receiver is off.       *)
LEMMA WaitStep ==
  ASSUME IInv, Wait
  PROVE  IInv'
<1>1. /\ incoming # None /\ pc \in {"poll", "blink"} /\ ripe' = TRUE
      /\ _mode' = _mode /\ chip' = chip /\ incoming' = incoming
      /\ _rxBufValid' = _rxBufValid /\ _buf' = _buf /\ _bufLen' = _bufLen
      /\ received' = received /\ board' = board /\ sent' = sent /\ stray' = stray
      /\ pc' = pc /\ data' = data /\ lines' = lines
  BY DEF Wait, driverVars, boardVars, groundVars
<1>2. AirTyped' /\ DriverKnows' /\ PacketIsSafe'
  BY <1>1 DEF IInv, AirTyped, DriverKnows, PacketIsSafe
<1>3. DataTyped' /\ LinesTyped'
  BY <1>1 DEF IInv, DataTyped, LinesTyped, LineOf
<1>4. LinesAreThePackets'
  BY <1>1 DEF IInv, LinesAreThePackets, AboutToPrint, Held
<1> QED
  BY <1>2, <1>3, <1>4 DEF IInv

LEMMA InterruptStep ==
  ASSUME IInv, Interrupt
  PROVE  IInv'
<1>1. /\ board' = board /\ sent' = sent /\ stray' = stray
      /\ pc' = pc /\ data' = data /\ lines' = lines
      /\ incoming # None /\ ripe /\ _mode = "rx"
      /\ incoming' = None /\ ripe' = FALSE
  BY DEF Interrupt, handleInterrupt, KeepPacket, RejectPacket, Ends, boardVars, groundVars
<1>2. /\ pc \in {"poll", "blink"} /\ _rxBufValid = FALSE /\ incoming \in Genuine
      /\ incoming.len \in Nat
  BY <1>1 DEF IInv, AirTyped, PacketIsSafe, Genuine, AirPackets
<1>3. DataTyped'
  BY <1>1 DEF IInv, DataTyped, LineOf
<1>4. CASE KeepPacket /\ Valid(incoming.len)
  <2>1. /\ _buf' = incoming /\ _bufLen' = incoming.len /\ _rxBufValid' = TRUE
        /\ _mode' = "idle" /\ chip' = "standby"
        /\ received' = Append(received, incoming)
    BY <1>4 DEF KeepPacket, Idle
  <2>2. AirTyped' /\ DriverKnows' /\ PacketIsSafe'
    BY <1>1, <1>2, <1>4, <2>1 DEF IInv, AirTyped, DriverKnows, PacketIsSafe
  <2>3. LinesTyped'
    BY <1>1, <1>2, <2>1 DEF IInv, LinesTyped
  <2>4. LinesAreThePackets'
    <3> DEFINE s == PacketsOf(lines) \o AboutToPrint
    <3>1. s \in Seq(Genuine)
      BY PlacesType
    <3>2. Held = <<>> /\ Held' = <<incoming>>
      BY <1>1, <1>2, <2>1 DEF Held
    <3>3. received = s \o <<>>
      BY <3>2, Places DEF IInv
    <3>4. PacketsOf(lines') = PacketsOf(lines) /\ AboutToPrint' = AboutToPrint
      BY <1>1 DEF AboutToPrint
    <3> HIDE DEF s
    <3>5. received' = s \o <<incoming>>
      BY <1>2, <2>1, <3>1, <3>3
    <3> QED
      BY <3>2, <3>4, <3>5 DEF s, LinesAreThePackets, PacketsOf
  <2> QED
    BY <1>3, <2>2, <2>3, <2>4 DEF IInv
<1>5. CASE (KeepPacket /\ ~Valid(incoming.len)) \/ RejectPacket
  <2>1. /\ _rxBufValid' = FALSE /\ _mode' = _mode /\ chip' = chip /\ received' = received
        /\ _bufLen' \in Nat
    BY <1>2, <1>5 DEF KeepPacket, RejectPacket
  <2>2. AirTyped' /\ DriverKnows' /\ PacketIsSafe'
    BY <1>1, <1>2, <2>1 DEF IInv, AirTyped, DriverKnows, PacketIsSafe
  <2>3. LinesTyped'
    BY <1>1, <2>1 DEF IInv, LinesTyped
  <2>4. LinesAreThePackets'
    BY <1>1, <1>2, <2>1 DEF IInv, LinesAreThePackets, AboutToPrint, Held
  <2> QED
    BY <1>3, <2>2, <2>3, <2>4 DEF IInv
<1> QED
  BY <1>4, <1>5 DEF Interrupt, handleInterrupt

(* available() turns the receiver on, and what is held stays held.         *)
LEMMA AvailableStep ==
  ASSUME IInv, Poll \/ Recv
  PROVE  IInv'
<1>1. /\ _mode' = "rx" /\ chip' = "rx"
      /\ _rxBufValid' = _rxBufValid /\ _buf' = _buf /\ _bufLen' = _bufLen
      /\ incoming' = incoming /\ ripe' = ripe /\ received' = received
      /\ board' = board /\ sent' = sent /\ stray' = stray
      /\ data' = data /\ lines' = lines
  BY DEF IInv, DriverKnows, Poll, Recv, available, setModeRx, boardVars
<1>2. /\ pc \in {"poll", "recv"}
      /\ _rxBufValid => pc' \in {"recv", "copy"}
      /\ ~_rxBufValid => pc' = "poll"
  BY DEF Poll, Recv
<1>3. AirTyped' /\ DriverKnows' /\ PacketIsSafe'
  BY <1>1, <1>2 DEF IInv, AirTyped, DriverKnows, PacketIsSafe
<1>4. DataTyped' /\ LinesTyped'
  BY <1>1, <1>2 DEF IInv, AirTyped, DataTyped, LinesTyped
<1>5. LinesAreThePackets'
  <2>1. pc' \in {"poll", "recv", "copy"}
    BY <1>2 DEF IInv, AirTyped
  <2>2. AboutToPrint' = AboutToPrint /\ Held' = Held
    BY <1>1, <1>2, <2>1 DEF AboutToPrint, Held
  <2> QED
    BY <1>1, <2>2 DEF IInv, LinesAreThePackets
<1> QED
  BY <1>3, <1>4, <1>5 DEF IInv

LEMMA CopyStep ==
  ASSUME IInv, Copy
  PROVE  IInv'
<1>1. /\ pc = "copy" /\ pc' = "clear" /\ data' = Copied
      /\ _mode' = _mode /\ chip' = chip
      /\ _rxBufValid' = _rxBufValid /\ _buf' = _buf /\ _bufLen' = _bufLen
      /\ incoming' = incoming /\ ripe' = ripe /\ received' = received
      /\ board' = board /\ sent' = sent /\ stray' = stray /\ lines' = lines
  BY DEF Copy, rf95Vars, driverVars, chipVars, boardVars
<1>2. _rxBufValid /\ _buf \in Genuine /\ Valid(_buf.len) /\ _bufLen = _buf.len
  BY <1>1 DEF IInv, PacketIsSafe, DriverKnows
<1>3. data'.packet = _buf /\ data'.len = LineOf(_buf).len
  BY <1>1, <1>2 DEF Copied, LineOf
<1>4. AirTyped' /\ DriverKnows' /\ PacketIsSafe'
  BY <1>1 DEF IInv, AirTyped, DriverKnows, PacketIsSafe
<1>5. DataTyped'
  <2>1. LineOf(_buf).len \in 0 .. FullLen
    BY <1>2, LineType
  <2> QED
    BY <1>1, <1>2, <1>3, <2>1 DEF DataTyped
<1>6. LinesTyped'
  BY <1>1 DEF IInv, LinesTyped
<1>7. LinesAreThePackets'
  <2>1. AboutToPrint = <<>> /\ Held = <<_buf>> /\ AboutToPrint' = <<_buf>> /\ Held' = <<>>
    BY <1>1, <1>2, <1>3 DEF AboutToPrint, Held
  <2>2. (PacketsOf(lines) \o <<>>) \o <<_buf>> = (PacketsOf(lines) \o <<_buf>>) \o <<>>
    <3>1. PacketsOf(lines) \in Seq(Genuine)
      BY PlacesType
    <3> HIDE DEF PacketsOf
    <3> QED
      BY <1>2, <3>1
  <2> QED
    BY <1>1, <2>1, <2>2, Places DEF IInv, LinesAreThePackets, PacketsOf
<1> QED
  BY <1>4, <1>5, <1>6, <1>7 DEF IInv

LEMMA ClearStep ==
  ASSUME IInv, Clear
  PROVE  IInv'
<1>1. /\ pc = "clear" /\ pc' = "blink" /\ data' = data /\ lines' = lines
      /\ _rxBufValid' = FALSE /\ _bufLen' = 0 /\ _mode' = _mode /\ _buf' = _buf
      /\ chip' = chip /\ incoming' = incoming /\ ripe' = ripe /\ received' = received
      /\ board' = board /\ sent' = sent /\ stray' = stray
  BY DEF Clear, clearRxBuf, Cleared, chipVars, boardVars
<1>2. AirTyped' /\ DriverKnows' /\ PacketIsSafe'
  BY <1>1 DEF IInv, AirTyped, DriverKnows, PacketIsSafe
<1>3. DataTyped' /\ LinesTyped'
  BY <1>1 DEF IInv, DataTyped, LinesTyped, LineOf
<1>4. LinesAreThePackets'
  BY <1>1 DEF IInv, LinesAreThePackets, AboutToPrint, Held
<1> QED
  BY <1>2, <1>3, <1>4 DEF IInv

LEMMA PrintStep ==
  ASSUME IInv, PrintLine
  PROVE  IInv'
<1> DEFINE e == LineOf(data.packet)
<1>1. /\ pc = "blink" /\ pc' = "poll" /\ data' = data
      /\ _mode' = _mode /\ chip' = chip
      /\ _rxBufValid' = _rxBufValid /\ _buf' = _buf /\ _bufLen' = _bufLen
      /\ incoming' = incoming /\ ripe' = ripe /\ received' = received
      /\ board' = board /\ sent' = sent /\ stray' = stray
      /\ lines' = Append(lines, [packet |-> data.packet, len |-> data.len,
                                 shown |-> Shown(data.packet)])
  BY DEF PrintLine, rf95Vars, driverVars, chipVars, boardVars
<1>2. /\ data.packet \in Genuine /\ Valid(data.packet.len)
      /\ data.len = LineOf(data.packet).len
  BY <1>1 DEF IInv, DataTyped
<1>3. [packet |-> data.packet, len |-> data.len, shown |-> Shown(data.packet)] = e
  BY <1>2 DEF LineOf
<1>4. e \in Lines /\ e.packet = data.packet /\ lines' = Append(lines, e)
  BY <1>1, <1>2, <1>3, LineType
<1> HIDE DEF e
<1>5. AirTyped' /\ DriverKnows' /\ PacketIsSafe' /\ DataTyped'
  BY <1>1 DEF IInv, AirTyped, DriverKnows, PacketIsSafe, DataTyped
<1>6. LinesTyped'
  BY <1>1, <1>4 DEF IInv, LinesTyped
<1>7. LinesAreThePackets'
  <2>1. AboutToPrint = <<data.packet>> /\ AboutToPrint' = <<>> /\ Held' = Held
    BY <1>1 DEF AboutToPrint, Held
  <2>2. PacketsOf(lines') = PacketsOf(lines) \o <<data.packet>>
    BY <1>4, OneMoreLine DEF IInv, LinesTyped
  <2>3. PacketsOf(lines') \o <<>> = PacketsOf(lines')
    <3>1. PacketsOf(lines') \in Seq(Genuine)
      BY <1>6, PacketsOfLines DEF LinesTyped
    <3> QED
      BY <3>1, ConcatEmptySeq
  <2>4. received' = (PacketsOf(lines') \o AboutToPrint') \o Held'
    BY <1>1, <2>1, <2>2, <2>3, Places DEF IInv
  <2> QED
    BY <2>4 DEF LinesAreThePackets, PacketsOf
<1> QED
  BY <1>5, <1>6, <1>7 DEF IInv

LEMMA StutterStep ==
  ASSUME IInv, UNCHANGED vars
  PROVE  IInv'
<1>1. /\ _mode' = _mode /\ chip' = chip /\ incoming' = incoming /\ ripe' = ripe
      /\ _rxBufValid' = _rxBufValid /\ _buf' = _buf /\ _bufLen' = _bufLen
      /\ received' = received /\ board' = board /\ sent' = sent /\ stray' = stray
      /\ pc' = pc /\ data' = data /\ lines' = lines
  BY DEF vars, rf95Vars, driverVars, chipVars, boardVars, groundVars
<1>2. AirTyped' /\ DriverKnows' /\ PacketIsSafe'
  BY <1>1 DEF IInv, AirTyped, DriverKnows, PacketIsSafe
<1>3. DataTyped' /\ LinesTyped'
  BY <1>1 DEF IInv, DataTyped, LinesTyped, LineOf
<1>4. LinesAreThePackets'
  BY <1>1 DEF IInv, LinesAreThePackets, AboutToPrint, Held
<1> QED
  BY <1>2, <1>3, <1>4 DEF IInv

-----------------------------------------------------------------------------
(* The invariant: wherever the loop is when a packet ends on the air, what *)
(* the driver holds, what the program has in data and what it has printed  *)
(* are packets as they came, in the order they came.                       *)
THEOREM DownlinkInvariance == Spec => []IInv
<1>1. IInv /\ [Next]_vars => IInv'
  <2> SUFFICES ASSUME IInv, [Next]_vars PROVE IInv'
    OBVIOUS
  <2>1. CASE Transmit
    BY <2>1, TransmitStep
  <2>2. CASE Stray
    BY <2>2, StrayStep
  <2>3. CASE Wait
    BY <2>3, WaitStep
  <2>4. CASE Interrupt
    BY <2>4, InterruptStep
  <2>5. CASE Poll \/ Recv
    BY <2>5, AvailableStep
  <2>6. CASE Copy
    BY <2>6, CopyStep
  <2>7. CASE Clear
    BY <2>7, ClearStep
  <2>8. CASE PrintLine
    BY <2>8, PrintStep
  <2>9. CASE UNCHANGED vars
    BY <2>9, StutterStep
  <2> QED
    BY <2>1, <2>2, <2>3, <2>4, <2>5, <2>6, <2>7, <2>8, <2>9 DEF Next, Ground
<1> QED
  BY <1>1, InitInv, PTL DEF Spec

(* The packets the handler keeps are the lines printed, the one about to   *)
(* be, and the one held for the next pass: none twice, none lost to the    *)
(* one behind it.                                                          *)
THEOREM PacketsPrintedOnce == Spec => []LinesAreThePackets
<1>1. IInv => LinesAreThePackets
  BY DEF IInv
<1> QED
  BY <1>1, DownlinkInvariance, PTL

(* A line is never made up: what it shows of a packet of the board, all of *)
(* it, is what the board had when it made the packet, the count of its     *)
(* satellites up to the 31 the shared byte has room for.                   *)
THEOREM LinesTold == Spec => []LinesAreTrue
<1>1. IInv => LinesAreTrue
  <2> SUFFICES ASSUME IInv, NEW k \in DOMAIN lines
               PROVE  LET p == lines[k].packet
                      IN  \/ p.id = 0 /\ lines[k].len >= 4
                          \/ /\ lines[k].len = FullLen
                             /\ lines[k].shown.position = p.of.position
                             /\ lines[k].shown.fix_type = p.of.gps_fix_type
                             /\ lines[k].shown.siv = p.of.gps_siv % 32
    BY DEF LinesAreTrue
  <2> DEFINE p == lines[k].packet
  <2>1. lines[k] \in Lines
    BY DEF IInv, LinesTyped
  <2>2. /\ p \in Genuine /\ Valid(p.len) /\ p.len \in Nat /\ p.of \in BoardData
        /\ lines[k].len = LineOf(p).len /\ lines[k].shown = LineOf(p).shown
    BY <2>1 DEF Lines, Genuine, AirPackets
  <2> HIDE DEF p
  <2>3. /\ lines[k].len = IF p.len < FullLen THEN p.len ELSE FullLen
        /\ lines[k].shown.position = p.position
        /\ lines[k].shown.fix_type = p.gps_siv_fix_type % 8
        /\ lines[k].shown.siv = p.gps_siv_fix_type \div 8
    BY <2>2 DEF LineOf, Shown
  <2>4. CASE p.id = 0
    <3>1. lines[k].len >= 4
      BY <2>2, <2>3 DEF Valid, FullLen
    <3> QED
      BY <2>4, <3>1 DEF p
  <2>5. CASE FromBoard(p)
    <3>1. /\ lines[k].len = FullLen
          /\ p.position = p.of.position
          /\ p.gps_siv_fix_type = SivFixType(p.of)
      BY <2>3, <2>5 DEF FromBoard, FullLen
    <3>2. /\ SivFixType(p.of) % 8 = p.of.gps_fix_type
          /\ SivFixType(p.of) \div 8 = p.of.gps_siv % 32
      BY <2>2, SharedByte
    <3> QED
      BY <2>3, <3>1, <3>2 DEF p
  <2> QED
    BY <2>2, <2>4, <2>5 DEF Genuine
<1> QED
  BY <1>1, DownlinkInvariance, PTL

(* The bounds of the model, and the types of the driver's fields: there    *)
(* are never more lines than packets the handler has kept.                 *)
THEOREM DownlinkTypes == Spec => []TypeOK
<1>1. IInv => TypeOK
  <2> SUFFICES ASSUME IInv PROVE TypeOK
    OBVIOUS
  <2>1. Len(lines) <= Len(received)
    <3> DEFINE a == PacketsOf(lines)
               b == AboutToPrint
               c == Held
    <3>1. a \in Seq(Genuine) /\ b \in Seq(Genuine) /\ c \in Seq(Genuine)
      BY PlacesType
    <3>2. received = (a \o b) \o c /\ Len(a) = Len(lines)
      BY Places, PacketsOfLines DEF IInv, LinesTyped
    <3> HIDE DEF a, b, c
    <3>3. /\ Len((a \o b) \o c) = Len(a) + Len(b) + Len(c)
          /\ Len(a) \in Nat /\ Len(b) \in Nat /\ Len(c) \in Nat
      BY <3>1
    <3> QED
      BY <3>2, <3>3
  <2>2. chip \in {"standby", "rx"}
    BY DEF IInv, DriverKnows
  <2> QED
    BY <2>1, <2>2 DEF IInv, AirTyped, DriverKnows, DataTyped, TypeOK
<1> QED
  BY <1>1, DownlinkInvariance, PTL
=============================================================================
