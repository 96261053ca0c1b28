----------------------- MODULE LoggerRefinementProofs -----------------------
(***************************************************************************)
(* Every step of the logger is a step of the FlightRecorder it is mapped   *)
(* to, or none at all: the safety half of LoggerRefinement.                *)
(***************************************************************************)
EXTENDS LoggerRefinement, LoggerProofs, SequenceTheorems

-----------------------------------------------------------------------------
(* Sequences given by their elements.                                      *)
LEMMA SeqOf ==
  ASSUME NEW S, NEW n \in Nat, NEW s \in [1 .. n -> S]
  PROVE  s \in Seq(S) /\ Len(s) = n
  OBVIOUS

LEMMA Added ==
  ASSUME NEW S, NEW n \in Nat, NEW s \in [1 .. n -> S], NEW v \in S,
         NEW t \in [1 .. n + 1 -> S], t[n + 1] = v,
         \A k \in 1 .. n : t[k] = s[k]
  PROVE  Append(s, v) = t /\ Len(t) = n + 1
<1>1. s \in Seq(S) /\ Len(s) = n /\ t \in Seq(S) /\ Len(t) = n + 1
  BY SeqOf
<1>2. /\ Append(s, v) \in Seq(S) /\ Len(Append(s, v)) = n + 1
      /\ \A k \in 1 .. n : Append(s, v)[k] = s[k]
      /\ Append(s, v)[n + 1] = v
  BY <1>1, AppendProperties
<1>3. \A k \in 1 .. n + 1 : Append(s, v)[k] = t[k]
  BY <1>2
<1> QED
  BY <1>1, <1>2, <1>3, SeqEqual

LEMMA Taken ==
  ASSUME NEW S, NEW n \in Nat \ {0}, NEW s \in [1 .. n -> S],
         NEW t \in [1 .. n - 1 -> S], \A k \in 1 .. n - 1 : t[k] = s[k + 1]
  PROVE  Head(s) = s[1] /\ Tail(s) = t /\ (t = <<>> <=> n = 1)
<1>1. n - 1 \in Nat
  OBVIOUS
<1>2. s \in Seq(S) /\ Len(s) = n /\ t \in Seq(S) /\ Len(t) = n - 1
  BY <1>1, SeqOf
<1>3. s # <<>> /\ (t = <<>> <=> n = 1)
  BY <1>2
<1>4. /\ Tail(s) \in Seq(S) /\ Len(Tail(s)) = n - 1
      /\ \A k \in 1 .. n - 1 : Tail(s)[k] = s[k + 1]
  BY <1>2, <1>3, HeadTailProperties
<1>5. Tail(s) = t
  BY <1>2, <1>4, SeqEqual
<1>6. Head(s) = s[1]
  BY <1>2, <1>3
<1> QED
  BY <1>3, <1>5, <1>6

-----------------------------------------------------------------------------
(* The recorder's status, at each value of pc.                             *)
StatusOfPc ==
  /\ pc \in {"off", "halted"} => statusBar = "off"
  /\ Committing /\ after = "begin" => statusBar = "off"
  /\ Committing /\ after = "launch" => statusBar = "saving"
  /\ Clearing \/ pc \in {"erase", "dump", "flush"} => statusBar = "saving"
  /\ pc = "run" /\ state = 0 => statusBar = "ready"
  /\ pc = "run" /\ state = 1 /\ ~allow_write => statusBar = "landed"
  /\ pc = "run" /\ state = 1 /\ allow_write => statusBar = "flight"

LEMMA StatusIs == TypeInv => StatusOfPc
<1> SUFFICES ASSUME TypeInv PROVE StatusOfPc
  OBVIOUS
<1> USE DEF Committing, Clearing
<1>1. pc \in {"off", "halted"} => statusBar = "off"
  BY Zenon DEF statusBar
<1>2. Committing /\ after = "begin" => statusBar = "off"
  BY Zenon DEF statusBar
<1>3. Committing /\ after = "launch" => statusBar = "saving"
  BY Zenon DEF statusBar
<1>4. Clearing \/ pc \in {"erase", "dump", "flush"} => statusBar = "saving"
  BY Zenon DEF statusBar
<1>5. pc = "run" /\ state = 0 => statusBar = "ready"
  <2>1. (state = 0 => allow_write) /\ 1 # 0
    BY DEF TypeInv, Shape
  <2> QED
    BY <2>1, Zenon DEF statusBar
<1>6. pc = "run" /\ state = 1 /\ ~allow_write => statusBar = "landed"
  <2>1. 1 # 0
    OBVIOUS
  <2> QED
    BY <2>1, Zenon DEF statusBar
<1>7. pc = "run" /\ state = 1 /\ allow_write => statusBar = "flight"
  <2>1. 1 # 0
    OBVIOUS
  <2> QED
    BY <2>1, Zenon DEF statusBar
<1> QED
  BY <1>1, <1>2, <1>3, <1>4, <1>5, <1>6, <1>7 DEF StatusOfPc

(* The packets in RAM, those in the flash, and how many there may be.      *)
BarsOfPc ==
  /\ statusBar = "off" => ringBar = <<>> /\ roomBar = 0
  /\ statusBar # "off" => roomBar = SectionRoom(section)
  /\ pc = "flush" => ringBar = FlushRing
  /\ pc = "dump" => ringBar = DumpRing
  /\ pc = "run" /\ state = 1 => ringBar = FlightRing
  /\ statusBar # "off" /\ pc \notin {"dump", "flush"} /\ state = 0 =>
       ringBar = WaitRing
  /\ Logging => logBar = SavedLog
  /\ ~Logging => logBar = <<>>

LEMMA BarsAre == TypeInv => BarsOfPc
<1> SUFFICES ASSUME TypeInv PROVE BarsOfPc
  OBVIOUS
<1>1. statusBar = "off" => ringBar = <<>>
  <2>1. statusBar = "off" => pc \notin {"run", "flush", "dump"}
    BY StatusIs DEF StatusOfPc, TypeInv, TypeOK, Phases, Committing, Clearing
  <2> QED
    BY <2>1, Zenon DEF ringBar
<1>2. pc = "flush" => ringBar = FlushRing
  <2>1. pc = "flush" => statusBar # "off"
    BY StatusIs DEF StatusOfPc
  <2> QED
    BY <2>1, Zenon DEF ringBar
<1>3. pc = "dump" => ringBar = DumpRing
  <2>1. pc = "dump" => statusBar # "off"
    BY StatusIs DEF StatusOfPc
  <2> QED
    BY <2>1, Zenon DEF ringBar
<1>4. pc = "run" /\ state = 1 => ringBar = FlightRing
  <2>1. pc = "run" => statusBar # "off"
    BY StatusIs DEF StatusOfPc, TypeInv, TypeOK, Phases, Committing, Clearing
  <2> QED
    BY <2>1, Zenon DEF ringBar
<1>5. statusBar # "off" /\ pc \notin {"dump", "flush"} /\ state = 0 => ringBar = WaitRing
  <2>1. state = 0 => state # 1
    OBVIOUS
  <2> QED
    BY <2>1, Zenon DEF ringBar
<1>6. (Logging => logBar = SavedLog) /\ (~Logging => logBar = <<>>)
  BY Zenon DEF logBar
<1>7. roomBar = IF statusBar = "off" THEN 0 ELSE SectionRoom(section)
  BY Zenon DEF roomBar
<1> QED
  BY <1>1, <1>2, <1>3, <1>4, <1>5, <1>6, <1>7 DEF BarsOfPc

(* The windows on the ring and on the section are sequences.               *)
LEMMA BarsType ==
  ASSUME TypeInv, AddrInPlace
  PROVE  /\ pc = "flush" => FlushRing \in [1 .. BufLen - i -> Packets]
         /\ pc = "dump" => DumpRing \in [1 .. BufLen + buf_idx - i -> Packets]
         /\ buf_idx <= BufLen => FlightRing \in [1 .. buf_idx -> Packets]
         /\ WaitRing \in [1 .. BufLen -> Packets]
         /\ Logging => SavedLog \in [1 .. addr - DataMin(section) -> Cells]
<1> USE DEF TypeInv, TypeOK, Shape
<1>1. BufLen \in Nat \ {0}
  BY Constants
<1>2. \A k \in Int : k % BufLen \in 0 .. BufLen - 1
  BY <1>1, ModDef
<1>3. pc = "flush" => FlushRing \in [1 .. BufLen - i -> Packets]
  BY <1>1 DEF FlushRing
<1>4. pc = "dump" => DumpRing \in [1 .. BufLen + buf_idx - i -> Packets]
  <2> SUFFICES ASSUME NEW k \in 1 .. BufLen + buf_idx - i
               PROVE  packet_array[(i + k - 1) % BufLen] \in Packets
    BY DEF DumpRing
  <2>1. i + k - 1 \in Int
    OBVIOUS
  <2>2. (i + k - 1) % BufLen \in 0 .. BufLen - 1
    BY <1>2, <2>1
  <2> QED
    BY <2>2
<1>5. buf_idx <= BufLen => FlightRing \in [1 .. buf_idx -> Packets]
  BY <1>1 DEF FlightRing
<1>6. WaitRing \in [1 .. BufLen -> Packets]
  <2> SUFFICES ASSUME NEW k \in 1 .. BufLen
               PROVE  packet_array[(buf_idx + k - 1) % BufLen] \in Packets
    BY DEF WaitRing
  <2>1. buf_idx + k - 1 \in Int
    OBVIOUS
  <2>2. (buf_idx + k - 1) % BufLen \in 0 .. BufLen - 1
    BY <1>2, <2>1
  <2> QED
    BY <2>2
<1>7. Logging => SavedLog \in [1 .. addr - DataMin(section) -> Cells]
  <2> SUFFICES ASSUME Logging, NEW k \in 1 .. addr - DataMin(section)
               PROVE  mem[DataMin(section) + k - 1] \in Cells
    BY DEF SavedLog
  <2>1. DataMin(section) \in Nat /\ DataMax(section) \in Nat /\ addr \in Nat
        /\ DataMax(section) <= 2 * FlightSlots
    BY SectionSize
  <2>2. addr <= DataMax(section)
    <3>1. CASE pc \in {"dump", "flush"}
      BY <2>1, <3>1, TargetSlot
    <3>2. CASE pc \notin {"dump", "flush"}
      BY <2>1, <3>2 DEF AddrInPlace, GroupStart, Logging
    <3> QED
      BY <3>1, <3>2
  <2>3. DataMin(section) + k - 1 \in Slots
    BY <2>1, <2>2, Geometry DEF Slots
  <2> QED
    BY <2>3
<1> QED
  BY <1>3, <1>4, <1>5, <1>6, <1>7

(* Programming the packet at addr adds it to the log.                      *)
LEMMA LogGrows ==
  ASSUME TypeInv, AddrInPlace, TargetsErased, pc \in {"dump", "flush"}, Logging',
         TypeInv', AddrInPlace',
         mem' = Outcome, addr' = addr + 1, section' = section
  PROVE  /\ pc = "dump" => SavedLog' = Append(SavedLog, packet_array[i % BufLen])
         /\ pc = "flush" => SavedLog' = Append(SavedLog, packet_array[i])
<1> DEFINE lo == DataMin(section)
           p == IF pc = "dump" THEN packet_array[i % BufLen] ELSE packet_array[i]
<1>1. /\ addr \in Slots /\ addr \in lo .. DataMax(section) - 1 /\ lo \in Nat
      /\ DataMax(section) \in Nat /\ DataMax(section) <= 2 * FlightSlots /\ Logging
  BY TargetSlot, SectionSize DEF TypeInv, TypeOK, Shape, Logging
<1>2. mem[addr] = Blank
  <2>1. addr \in addr .. DataMax(section) - 1
    BY <1>1
  <2> QED
    BY <1>1, <2>1 DEF TargetsErased, Erased
<1>3. \A s \in Slots : Outcome[s] = IF s = addr THEN p ELSE mem[s]
  BY <1>1, <1>2, Effects, ProgramErased
<1>4. p \in Cells
  <2>1. BufLen \in Nat \ {0} /\ i \in Int
    BY Constants DEF TypeInv, TypeOK
  <2>2. i % BufLen \in 0 .. BufLen - 1
    BY <2>1, ModDef
  <2> QED
    BY <2>1, <2>2, CellsHold DEF TypeInv, TypeOK, Shape
<1>5. addr - lo \in Nat /\ SavedLog \in [1 .. addr - lo -> Cells]
  BY <1>1, BarsType
<1>6. DataMin(section)' = lo
  BY DEF DataMin
<1>7. /\ SavedLog' \in [1 .. addr - lo + 1 -> Cells]
      /\ \A k \in 1 .. addr - lo + 1 : SavedLog'[k] = mem'[lo + k - 1]
  <2>1. mem' \in [Slots -> Cells]
    BY DEF TypeInv, TypeOK
  <2>2. \A k \in 1 .. addr - lo + 1 : lo + k - 1 \in Slots
    BY <1>1, Geometry DEF Slots
  <2>3. addr' - DataMin(section)' = addr - lo + 1
    BY <1>1, <1>6
  <2>4. SavedLog' = [k \in 1 .. addr' - DataMin(section)' |-> mem'[DataMin(section)' + k - 1]]
    BY DEF SavedLog
  <2> QED
    BY <1>6, <2>1, <2>2, <2>3, <2>4
<1>8. \A k \in 1 .. addr - lo : SavedLog'[k] = SavedLog[k]
  <2> SUFFICES ASSUME NEW k \in 1 .. addr - lo
               PROVE  SavedLog'[k] = SavedLog[k]
    OBVIOUS
  <2>1. /\ lo + k - 1 \in Slots /\ lo + k - 1 # addr
        /\ k \in 1 .. addr - lo + 1
    BY <1>1, Geometry DEF Slots
  <2>2. mem'[lo + k - 1] = mem[lo + k - 1]
    BY <1>3, <2>1
  <2> QED
    BY <1>7, <2>1, <2>2 DEF SavedLog
<1>9. SavedLog'[addr - lo + 1] = p
  <2>1. lo + (addr - lo + 1) - 1 = addr /\ addr - lo + 1 \in 1 .. addr - lo + 1
    BY <1>1
  <2> QED
    BY <1>1, <1>3, <1>7, <2>1
<1> HIDE DEF lo, p
<1>10. Append(SavedLog, p) = SavedLog'
  BY <1>4, <1>5, <1>7, <1>8, <1>9, Added
<1> QED
  BY <1>10 DEF p

-----------------------------------------------------------------------------
(* What the calls do to the packets in RAM.                                *)
LEMMA RingStarts ==
  ASSUME TypeInv, RingOrdered, seq = 0, state = 0
  PROVE  WaitRing = [k \in 1 .. BufLen |-> ZeroPacket]
<1> SUFFICES ASSUME NEW k \in 1 .. BufLen
             PROVE  packet_array[(buf_idx + k - 1) % BufLen] = ZeroPacket
  BY DEF WaitRing
<1>1. BufLen \in Nat \ {0}
  BY Constants
<1>2. k - 1 \in 0 .. BufLen - 1 /\ buf_idx + (k - 1) = buf_idx + k - 1
  BY <1>1 DEF TypeInv, TypeOK
<1>3. packet_array[(buf_idx + (k - 1)) % BufLen] = Recent(k - 1)
  BY <1>2 DEF RingOrdered
<1>4. Recent(k - 1) = ZeroPacket
  BY <1>1 DEF Recent
<1> QED
  BY <1>2, <1>3, <1>4

LEMMA RingTurns ==
  ASSUME TypeInv, TypeInv', AddrInPlace, AddrInPlace', WriteBeforeLaunch
  PROVE  WaitRing' = Append(Tail(WaitRing), Packet(boots, seq'))
<1> DEFINE p == Packet(boots, seq')
           B == BufLen
           w == [k \in 1 .. B - 1 |-> packet_array[(buf_idx + k) % B]]
<1>1. B \in Nat \ {0} /\ buf_idx \in Nat /\ p \in Packets /\ B - 1 \in Nat
  BY Constants DEF TypeInv, TypeOK, WriteBeforeLaunch, Offer, Packet, Packets
<1>2. /\ packet_array' = [packet_array EXCEPT ![buf_idx % B] = p]
      /\ buf_idx' = buf_idx + 1
  BY DEF WriteBeforeLaunch
<1>3. /\ packet_array \in [0 .. B - 1 -> Packets]
      /\ packet_array' \in [0 .. B - 1 -> Packets]
  BY DEF TypeInv, TypeOK
<1>4. \A k \in Int : k % B \in 0 .. B - 1
  BY <1>1, ModDef
<1>5. WaitRing \in [1 .. B -> Packets]
  BY BarsType
<1>6. WaitRing' \in [1 .. B -> Packets]
      /\ \A k \in 1 .. B : WaitRing'[k] = packet_array'[(buf_idx + k) % B]
  <2>1. WaitRing' = [k \in 1 .. B |-> packet_array'[(buf_idx' + k - 1) % B]]
    BY DEF WaitRing
  <2>2. \A k \in 1 .. B : buf_idx' + k - 1 = buf_idx + k /\ buf_idx + k \in Int
    BY <1>1, <1>2
  <2>3. \A k \in 1 .. B : WaitRing'[k] = packet_array'[(buf_idx + k) % B]
    BY <2>1, <2>2
  <2>4. \A k \in 1 .. B : packet_array'[(buf_idx' + k - 1) % B] \in Packets
    BY <1>3, <1>4, <2>2
  <2> QED
    BY <2>1, <2>3, <2>4
<1>7. w \in [1 .. B - 1 -> Packets]
  <2>1. ASSUME NEW k \in 1 .. B - 1
        PROVE  packet_array[(buf_idx + k) % B] \in Packets
    <3>1. buf_idx + k \in Int
      BY <1>1
    <3>2. (buf_idx + k) % B \in 0 .. B - 1
      BY <1>4, <3>1
    <3> QED
      BY <1>3, <3>2
  <2> QED
    BY <2>1
<1>8. \A k \in 1 .. B - 1 : w[k] = WaitRing[k + 1]
  <2> SUFFICES ASSUME NEW k \in 1 .. B - 1 PROVE w[k] = WaitRing[k + 1]
    OBVIOUS
  <2>1. k + 1 \in 1 .. B /\ buf_idx + (k + 1) - 1 = buf_idx + k
    BY <1>1
  <2> QED
    BY <2>1 DEF WaitRing
<1>9. WaitRing'[B] = p
  <2>1. (buf_idx + B) % B = buf_idx % B
    <3>1. B \in Nat \ {0} /\ buf_idx \in Int
      BY <1>1
    <3> HIDE DEF B
    <3> QED
      BY <3>1, ModShift, Zenon
  <2> QED
    BY <1>1, <1>2, <1>3, <1>4, <1>6, <2>1
<1>10. \A k \in 1 .. B - 1 : WaitRing'[k] = w[k]
  <2> SUFFICES ASSUME NEW k \in 1 .. B - 1 PROVE WaitRing'[k] = w[k]
    OBVIOUS
  <2>1. (buf_idx + k) % B # buf_idx % B
    <3>1. B \in Nat \ {0} /\ buf_idx \in Int /\ k \in 1 .. B - 1
      BY <1>1
    <3> HIDE DEF B
    <3> QED
      BY <3>1, ModShift, Zenon
  <2>2. (buf_idx + k) % B \in 0 .. B - 1
    BY <1>1, <1>4
  <2>3. packet_array'[(buf_idx + k) % B] = packet_array[(buf_idx + k) % B]
    BY <1>2, <1>3, <2>1, <2>2
  <2> QED
    BY <1>1, <1>6, <2>3
<1> HIDE DEF w, p, B
<1>11. Tail(WaitRing) = w
  BY <1>1, <1>5, <1>7, <1>8, Taken
<1>12. Append(w, p) = WaitRing'
  <2>1. B - 1 + 1 = B
    BY <1>1
  <2>2. WaitRing' \in [1 .. B - 1 + 1 -> Packets] /\ WaitRing'[B - 1 + 1] = p
    BY <1>6, <1>9, <2>1
  <2> QED
    BY <1>1, <1>7, <1>10, <2>2, Added
<1> QED
  BY <1>11, <1>12 DEF p

(* In flight a packet goes to the end of the ring, and the ring that it    *)
(* fills is the one that is flushed.                                       *)
LEMMA RingFills ==
  ASSUME TypeInv, TypeInv', AddrInPlace, AddrInPlace', WriteInFlight
  PROVE  LET ring == IF pc' = "flush" THEN FlushRing' ELSE FlightRing'
         IN  /\ ring = Append(FlightRing, Packet(boots, seq'))
             /\ Len(ring) = BufLen <=> pc' = "flush"
<1> DEFINE p == Packet(boots, seq')
           n == buf_idx
           ring == IF pc' = "flush" THEN FlushRing' ELSE FlightRing'
<1>1. /\ BufLen \in Nat \ {0} /\ n \in 0 .. BufLen - 1 /\ p \in Packets
      /\ state = 1 /\ pc = "run" /\ n \in Nat
  BY Constants
     DEF TypeInv, TypeOK, WriteInFlight, Offer, Packet, Packets
<1>2. /\ packet_array' = [packet_array EXCEPT ![n] = p]
      /\ buf_idx' = n + 1
      /\ pc' = "flush" => n + 1 = BufLen /\ i' = 0
      /\ pc' # "flush" => n + 1 < BufLen
  BY <1>1 DEF WriteInFlight, Offer, BufferFull
<1>3. /\ packet_array \in [0 .. BufLen - 1 -> Packets]
      /\ packet_array' \in [0 .. BufLen - 1 -> Packets]
  BY DEF TypeInv, TypeOK
<1>4. FlightRing \in [1 .. n -> Packets]
  BY <1>1, BarsType
<1>5. /\ ring \in [1 .. n + 1 -> Packets]
      /\ \A k \in 1 .. n + 1 : ring[k] = packet_array'[k - 1]
  <2>1. CASE pc' = "flush"
    <3>1. FlushRing' = [k \in 1 .. BufLen - i' |-> packet_array'[i' + k - 1]]
      BY DEF FlushRing
    <3>2. BufLen - i' = n + 1 /\ \A k \in 1 .. n + 1 : i' + k - 1 = k - 1
      BY <1>1, <1>2, <2>1
    <3>3. \A k \in 1 .. n + 1 : packet_array'[k - 1] \in Packets
      BY <1>1, <1>3
    <3> QED
      BY <2>1, <3>1, <3>2, <3>3
  <2>2. CASE pc' # "flush"
    <3>1. FlightRing' = [k \in 1 .. buf_idx' |-> packet_array'[k - 1]]
      BY DEF FlightRing
    <3>2. \A k \in 1 .. n + 1 : packet_array'[k - 1] \in Packets
      BY <1>1, <1>3
    <3> QED
      BY <1>2, <2>2, <3>1, <3>2
  <2> QED
    BY <2>1, <2>2
<1>6. ring[n + 1] = p
  BY <1>1, <1>2, <1>3, <1>5
<1>7. \A k \in 1 .. n : ring[k] = FlightRing[k]
  <2> SUFFICES ASSUME NEW k \in 1 .. n PROVE ring[k] = FlightRing[k]
    OBVIOUS
  <2>1. ring[k] = packet_array'[k - 1]
    BY <1>1, <1>5
  <2>2. packet_array'[k - 1] = packet_array[k - 1]
    BY <1>1, <1>2, <1>3
  <2>3. FlightRing[k] = packet_array[k - 1]
    BY DEF FlightRing
  <2> QED
    BY <2>1, <2>2, <2>3
<1> HIDE DEF p, n, ring
<1>8. Append(FlightRing, p) = ring /\ Len(ring) = n + 1
  BY <1>1, <1>4, <1>5, <1>6, <1>7, Added
<1>9. Len(ring) = BufLen <=> pc' = "flush"
  BY <1>1, <1>2, <1>8
<1> QED
  BY <1>8, <1>9 DEF ring, p

(* A packet saved leaves the ring, and the last one leaves it empty.       *)
LEMMA DumpTakes ==
  ASSUME TypeInv, TypeInv', AddrInPlace, AddrInPlace', Dump
  PROVE  LET ring == IF pc' = "dump" THEN DumpRing' ELSE FlightRing'
         IN  /\ Head(DumpRing) = packet_array[i % BufLen]
             /\ ring = Tail(DumpRing)
             /\ ring = <<>> <=> pc' # "dump"
<1> DEFINE n == BufLen + buf_idx - i
           ring == IF pc' = "dump" THEN DumpRing' ELSE FlightRing'
<1>1. /\ BufLen \in Nat \ {0} /\ buf_idx \in Nat /\ i \in Nat
      /\ i \in buf_idx .. buf_idx + BufLen - 1 /\ n \in Nat \ {0} /\ pc = "dump"
      /\ packet_array' = packet_array
  BY Constants DEF TypeInv, TypeOK, AddrInPlace, Dump
<1>2. /\ pc' = "dump" => n > 1 /\ i' = i + 1 /\ buf_idx' = buf_idx
      /\ pc' # "dump" => n = 1 /\ buf_idx' = 0
  BY <1>1 DEF Dump, DumpStart
<1>3. \A k \in Int : packet_array[k % BufLen] \in Packets
  BY <1>1, ModDef DEF TypeInv, TypeOK
<1>4. DumpRing \in [1 .. n -> Packets]
      /\ \A k \in 1 .. n : DumpRing[k] = packet_array[(i + k - 1) % BufLen]
  BY <1>1, BarsType DEF DumpRing
<1>5. /\ ring \in [1 .. n - 1 -> Packets]
      /\ \A k \in 1 .. n - 1 : ring[k] = DumpRing[k + 1]
  <2>1. CASE pc' = "dump"
    <3>1. DumpRing' = [k \in 1 .. BufLen + buf_idx' - i' |->
                         packet_array'[(i' + k - 1) % BufLen]]
      BY DEF DumpRing
    <3>2. BufLen + buf_idx' - i' = n - 1
      BY <1>1, <1>2, <2>1
    <3>3. ASSUME NEW k \in 1 .. n - 1
          PROVE  /\ packet_array'[(i' + k - 1) % BufLen] \in Packets
                 /\ packet_array'[(i' + k - 1) % BufLen] = DumpRing[k + 1]
      <4>1. i' + k - 1 = i + (k + 1) - 1 /\ k + 1 \in 1 .. n /\ i + (k + 1) - 1 \in Int
        BY <1>1, <1>2, <2>1
      <4> QED
        BY <1>1, <1>3, <1>4, <4>1
    <3> HIDE DEF n
    <3> QED
      BY <2>1, <3>1, <3>2, <3>3
  <2>2. CASE pc' # "dump"
    <3>1. FlightRing' = [k \in 1 .. buf_idx' |-> packet_array'[k - 1]]
      BY DEF FlightRing
    <3> QED
      BY <1>2, <2>2, <3>1
  <2> QED
    BY <2>1, <2>2
<1>6. DumpRing[1] = packet_array[i % BufLen]
  <2>1. i + 1 - 1 = i /\ 1 \in 1 .. n
    BY <1>1
  <2> QED
    BY <1>4, <2>1
<1> HIDE DEF n, ring
<1>7. Head(DumpRing) = DumpRing[1] /\ Tail(DumpRing) = ring /\ (ring = <<>> <=> n = 1)
  BY <1>1, <1>4, <1>5, Taken
<1>8. n = 1 <=> pc' # "dump"
  BY <1>2
<1> QED
  BY <1>6, <1>7, <1>8 DEF ring

LEMMA FlushTakes ==
  ASSUME TypeInv, TypeInv', AddrInPlace, AddrInPlace', Flush
  PROVE  LET ring == IF pc' = "flush" THEN FlushRing' ELSE FlightRing'
         IN  /\ Head(FlushRing) = packet_array[i]
             /\ ring = Tail(FlushRing)
             /\ ring = <<>> <=> pc' # "flush"
<1> DEFINE n == BufLen - i
           ring == IF pc' = "flush" THEN FlushRing' ELSE FlightRing'
<1>1. /\ BufLen \in Nat \ {0} /\ i \in Nat /\ i \in 0 .. BufLen - 1
      /\ n \in Nat \ {0} /\ pc = "flush" /\ packet_array' = packet_array
  BY Constants DEF TypeInv, TypeOK, Shape, Flush
<1>2. /\ pc' = "flush" => n > 1 /\ i' = i + 1
      /\ pc' # "flush" => n = 1 /\ buf_idx' = 0
  BY <1>1 DEF Flush
<1>3. FlushRing \in [1 .. n -> Packets]
      /\ \A k \in 1 .. n : FlushRing[k] = packet_array[i + k - 1]
  BY <1>1, BarsType DEF FlushRing
<1>4. /\ ring \in [1 .. n - 1 -> Packets]
      /\ \A k \in 1 .. n - 1 : ring[k] = FlushRing[k + 1]
  <2>1. CASE pc' = "flush"
    <3>1. FlushRing' = [k \in 1 .. BufLen - i' |-> packet_array'[i' + k - 1]]
      BY DEF FlushRing
    <3>2. BufLen - i' = n - 1
      BY <1>1, <1>2, <2>1
    <3>3. ASSUME NEW k \in 1 .. n - 1
          PROVE  /\ packet_array'[i' + k - 1] \in Packets
                 /\ packet_array'[i' + k - 1] = FlushRing[k + 1]
      <4>1. i' + k - 1 = i + (k + 1) - 1 /\ k + 1 \in 1 .. n
        BY <1>1, <1>2, <2>1
      <4> QED
        BY <1>1, <1>3, <4>1
    <3> HIDE DEF n
    <3> QED
      BY <2>1, <3>1, <3>2, <3>3
  <2>2. CASE pc' # "flush"
    <3>1. FlightRing' = [k \in 1 .. buf_idx' |-> packet_array'[k - 1]]
      BY DEF FlightRing
    <3> QED
      BY <1>2, <2>2, <3>1
  <2> QED
    BY <2>1, <2>2
<1>5. FlushRing[1] = packet_array[i]
  <2>1. i + 1 - 1 = i /\ 1 \in 1 .. n
    BY <1>1
  <2> QED
    BY <1>3, <2>1
<1> HIDE DEF n, ring
<1>6. Head(FlushRing) = FlushRing[1] /\ Tail(FlushRing) = ring /\ (ring = <<>> <=> n = 1)
  BY <1>1, <1>3, <1>4, Taken
<1>7. n = 1 <=> pc' # "flush"
  BY <1>2
<1> QED
  BY <1>5, <1>6, <1>7 DEF ring

-----------------------------------------------------------------------------
LEMMA RecorderInit == Init => R!Init
<1> SUFFICES ASSUME Init PROVE R!Init
  OBVIOUS
<1>1. TypeInv
  BY TypeInit
<1>2. StatusOfPc /\ BarsOfPc
  BY <1>1, StatusIs, BarsAre
<1>3. pc = "off" /\ state = 0
  BY DEF Init
<1>4. statusBar = "off" /\ ~Logging
  BY <1>2, <1>3 DEF StatusOfPc, Logging
<1> QED
  BY <1>2, <1>4 DEF BarsOfPc, R!Init

LEMMA RecorderStep ==
  ASSUME IInv, IInv', [Next]_vars
  PROVE  R!Next \/ UNCHANGED R!recorderVars
<1>1. /\ TypeInv /\ EraseInPlace /\ AddrInPlace /\ TargetsErased /\ RingOrdered
      /\ TypeInv' /\ AddrInPlace'
  BY DEF IInv
<1>2. StatusOfPc /\ BarsOfPc
  BY <1>1, StatusIs, BarsAre
<1>3. StatusOfPc' /\ BarsOfPc'
  <2>1. (TypeInv => StatusOfPc)' /\ (TypeInv => BarsOfPc)'
    BY StatusIs, BarsAre, PTL
  <2> QED
    BY <1>1, <2>1
<1> USE DEF Committing, Clearing, Logging, flashVars, ramVars, history
<1>4. pc \in Phases /\ state \in {0, 1} /\ after \in {"begin", "launch"}
      /\ (state = 1 => pc \in {"run", "flush"}) /\ (state = 0 => allow_write)
  BY <1>1 DEF TypeInv, TypeOK, Shape
<1>5. ASSUME packet_array' = packet_array, buf_idx' = buf_idx
      PROVE  WaitRing' = WaitRing /\ FlightRing' = FlightRing
  BY <1>5 DEF WaitRing, FlightRing
<1>6. ASSUME section' = section
      PROVE  SectionRoom(section)' = SectionRoom(section)
  BY <1>6 DEF SectionRoom, DataMin, DataMax
<1>7. ASSUME mem' = mem, addr' = addr, section' = section
      PROVE  SavedLog' = SavedLog
  BY <1>7 DEF SavedLog, DataMin
(* Nothing to be seen of it while the logger is off.                       *)
<1>8. ASSUME statusBar = "off", statusBar' = "off", ~Logging, ~Logging'
      PROVE  UNCHANGED R!recorderVars
  BY <1>2, <1>3, <1>8 DEF BarsOfPc, R!recorderVars
(* Nor of the erasing at the launch.                                       *)
<1>9. ASSUME statusBar = "saving", statusBar' = "saving", ~Logging, ~Logging',
             state = 0, state' = 0, packet_array' = packet_array,
             buf_idx' = buf_idx, section' = section
      PROVE  UNCHANGED R!recorderVars
  <2>1. ringBar = WaitRing /\ ringBar' = WaitRing'
    <3>1. pc \notin {"dump", "flush"} /\ pc' \notin {"dump", "flush"}
      BY <1>1, <1>9 DEF TypeInv, Shape
    <3> QED
      BY <1>2, <1>3, <1>9, <3>1 DEF BarsOfPc
  <2> QED
    BY <1>2, <1>3, <1>5, <1>6, <1>9, <2>1 DEF BarsOfPc, R!recorderVars
<1>10. CASE Begin \/ BeginFails
  <2>1. /\ pc = "off" /\ pc' \in {"commit_erase", "halted"} /\ state' = state
        /\ pc' = "commit_erase" => after' = "begin"
    BY <1>10 DEF Begin, BeginFails
  <2> QED
    BY <1>2, <1>3, <1>4, <1>8, <2>1 DEF StatusOfPc
<1>11. CASE CommitErase \/ CommitHead
  <2>1. /\ Committing /\ Committing' /\ after' = after /\ state = 0 /\ state' = 0
        /\ packet_array' = packet_array /\ buf_idx' = buf_idx /\ section' = section
        /\ ~Logging /\ ~Logging'
    BY <1>4, <1>11 DEF CommitErase, CommitHead
  <2>2. CASE after = "begin"
    BY <1>2, <1>3, <1>8, <2>1, <2>2 DEF StatusOfPc
  <2>3. CASE after = "launch"
    BY <1>2, <1>3, <1>9, <2>1, <2>3 DEF StatusOfPc
  <2> QED
    BY <1>4, <2>2, <2>3
<1>12. CASE CommitTailLaunch \/ ClearErase \/ ClearRestore \/ EraseBlock
  <2>1. /\ statusBar = "saving" /\ statusBar' = "saving" /\ state = 0 /\ state' = 0
        /\ packet_array' = packet_array /\ buf_idx' = buf_idx /\ section' = section
        /\ ~Logging /\ ~Logging'
    BY <1>2, <1>3, <1>4, <1>12
       DEF CommitTailLaunch, ClearErase, ClearRestore, EraseBlock, StatusOfPc
  <2> QED
    BY <1>9, <2>1
<1>13. CASE CommitTailBegin
  <2>1. /\ pc = "commit_tail" /\ after = "begin" /\ state = 0 /\ pc' = "run" /\ state' = 0
        /\ section' = section /\ packet_array' = packet_array /\ buf_idx' = buf_idx
    BY <1>4, <1>13 DEF CommitTailBegin
  <2>2. seq = 0
    BY <1>1, <2>1 DEF RingOrdered
  <2>3. statusBar = "off" /\ statusBar' = "ready"
    BY <1>2, <1>3, <2>1 DEF StatusOfPc
  <2>4. ringBar' = [k \in 1 .. BufLen |-> ZeroPacket]
    <3>1. ringBar' = WaitRing'
      BY <1>3, <2>1, <2>3 DEF BarsOfPc
    <3>2. WaitRing = [k \in 1 .. BufLen |-> ZeroPacket]
      BY <1>1, <2>1, <2>2, RingStarts
    <3> QED
      BY <1>5, <2>1, <3>1, <3>2
  <2>5. logBar' = <<>> /\ roomBar' = SectionRoom(section)
    BY <1>3, <1>6, <2>1, <2>3 DEF BarsOfPc
  <2>6. section \in Sections
    BY <1>1 DEF TypeInv, TypeOK
  <2>7. R!Start
    BY <2>3, <2>4, <2>5, <2>6 DEF R!Start
  <2> QED
    BY <2>7 DEF R!Next
<1>14. CASE EraseDone
  <2>1. /\ pc = "erase" /\ pc' = "dump" /\ state = 0 /\ state' = 0 /\ i' = buf_idx
        /\ section' = section /\ packet_array' = packet_array /\ buf_idx' = buf_idx
        /\ addr' = addr /\ addr = DataMin(section)
    BY <1>1, <1>4, <1>14 DEF EraseDone, DumpStart, AddrInPlace, Launching
  <2>2. statusBar = "saving" /\ statusBar' = "saving"
    BY <1>2, <1>3, <2>1 DEF StatusOfPc
  <2>3. ringBar' = ringBar
    <3>1. ringBar = WaitRing /\ ringBar' = DumpRing'
      BY <1>2, <1>3, <2>1, <2>2 DEF BarsOfPc
    <3>2. BufLen \in Nat /\ buf_idx \in Nat
      BY <1>1, Constants DEF TypeInv, TypeOK
    <3>3. DumpRing' = [k \in 1 .. BufLen + buf_idx' - i' |->
                         packet_array'[(i' + k - 1) % BufLen]]
      BY DEF DumpRing
    <3>4. BufLen + buf_idx' - i' = BufLen
      BY <2>1, <3>2
    <3> QED
      BY <2>1, <3>1, <3>3, <3>4 DEF WaitRing
  <2>4. logBar = <<>> /\ logBar' = <<>>
    <3>1. logBar = <<>> /\ logBar' = SavedLog'
      BY <1>2, <1>3, <2>1 DEF BarsOfPc
    <3>2. addr' - DataMin(section)' = 0
      BY <1>1, <2>1 DEF TypeInv, TypeOK, DataMin
    <3>3. SavedLog' = [k \in 1 .. addr' - DataMin(section)' |->
                         mem'[DataMin(section)' + k - 1]]
      BY DEF SavedLog
    <3> QED
      BY <3>1, <3>2, <3>3
  <2>5. roomBar' = roomBar
    BY <1>2, <1>3, <1>6, <2>1, <2>2 DEF BarsOfPc
  <2> QED
    BY <2>2, <2>3, <2>4, <2>5 DEF R!recorderVars
<1>15. CASE Dump
  <2>1. /\ pc = "dump" /\ pc' \in {"dump", "run"} /\ state = 0 /\ allow_write
        /\ pc' = "run" => state' = 1 /\ allow_write'
        /\ mem' = Outcome /\ addr' = addr + 1 /\ section' = section
    BY <1>4, <1>15 DEF Dump
  <2>2. statusBar = "saving" /\ statusBar' = IF pc' = "dump" THEN "saving" ELSE "flight"
    BY <1>2, <1>3, <2>1 DEF StatusOfPc
  <2>3. ringBar = DumpRing /\ ringBar' = IF pc' = "dump" THEN DumpRing' ELSE FlightRing'
    BY <1>2, <1>3, <2>1 DEF BarsOfPc
  <2>4. /\ Head(ringBar) = packet_array[i % BufLen]
        /\ ringBar' = Tail(ringBar)
        /\ ringBar' = <<>> <=> pc' # "dump"
    BY <1>1, <1>15, <2>3, DumpTakes
  <2>5. logBar = SavedLog /\ logBar' = SavedLog'
    BY <1>2, <1>3, <2>1 DEF BarsOfPc
  <2>6. SavedLog' = Append(SavedLog, packet_array[i % BufLen])
    BY <1>1, <2>1, LogGrows
  <2>7. roomBar' = roomBar
    BY <1>2, <1>3, <1>6, <2>1, <2>2 DEF BarsOfPc
  <2>8. R!Save
    BY <2>2, <2>4, <2>5, <2>6, <2>7 DEF R!Save
  <2> QED
    BY <2>8 DEF R!Next
<1>16. CASE Flush
  <2>1. /\ pc = "flush" /\ pc' \in {"flush", "run"} /\ state = 1 /\ state' = 1
        /\ allow_write' = allow_write
        /\ mem' = Outcome /\ addr' = addr + 1 /\ section' = section
    BY <1>1, <1>16 DEF Flush, TypeInv, Shape
  <2>2. allow_write
    BY <1>1, <2>1 DEF TypeInv, Shape
  <2>3. statusBar = "saving" /\ statusBar' = IF pc' = "flush" THEN "saving" ELSE "flight"
    BY <1>2, <1>3, <2>1, <2>2 DEF StatusOfPc
  <2>4. ringBar = FlushRing
        /\ ringBar' = IF pc' = "flush" THEN FlushRing' ELSE FlightRing'
    BY <1>2, <1>3, <2>1 DEF BarsOfPc
  <2>5. /\ Head(ringBar) = packet_array[i]
        /\ ringBar' = Tail(ringBar)
        /\ ringBar' = <<>> <=> pc' # "flush"
    BY <1>1, <1>16, <2>4, FlushTakes
  <2>6. logBar = SavedLog /\ logBar' = SavedLog'
    BY <1>2, <1>3, <2>1 DEF BarsOfPc
  <2>7. SavedLog' = Append(SavedLog, packet_array[i])
    BY <1>1, <2>1, LogGrows
  <2>8. roomBar' = roomBar
    BY <1>2, <1>3, <1>6, <2>1, <2>3 DEF BarsOfPc
  <2>9. R!Save
    BY <2>3, <2>5, <2>6, <2>7, <2>8 DEF R!Save
  <2> QED
    BY <2>9 DEF R!Next
(* An offer that is turned down.                                           *)
<1>17. CASE WriteAfterLanding \/ WriteWhenFull
  <2>1. /\ pc = "run" /\ pc' = "run" /\ state = 1 /\ state' = 1
        /\ allow_write' = allow_write /\ mem' = mem /\ addr' = addr
        /\ section' = section /\ packet_array' = packet_array /\ buf_idx' = buf_idx
    BY <1>4, <1>17 DEF WriteAfterLanding, WriteWhenFull, Offer
  <2>2. statusBar' = statusBar /\ statusBar # "off"
    <3>1. CASE allow_write
      BY <1>2, <1>3, <2>1, <3>1 DEF StatusOfPc
    <3>2. CASE ~allow_write
      BY <1>2, <1>3, <2>1, <3>2 DEF StatusOfPc
    <3> QED
      BY <3>1, <3>2
  <2>3. ringBar' = ringBar /\ logBar' = logBar /\ roomBar' = roomBar
    BY <1>2, <1>3, <1>5, <1>6, <1>7, <2>1, <2>2 DEF BarsOfPc
  <2> QED
    BY <2>2, <2>3 DEF R!recorderVars
<1>18. ASSUME Offer
       PROVE  Packet(boots, seq') \in Packets
  BY <1>1, <1>18, Constants DEF Offer, Packet, Packets, TypeInv, TypeOK
<1>19. CASE WriteBeforeLaunch
  <2>1. /\ Offer /\ pc = "run" /\ pc' = "run" /\ state = 0 /\ state' = 0
        /\ section' = section
    BY <1>19 DEF WriteBeforeLaunch, Offer
  <2>2. statusBar = "ready" /\ statusBar' = "ready"
    BY <1>2, <1>3, <2>1 DEF StatusOfPc
  <2>3. ringBar = WaitRing /\ ringBar' = WaitRing'
    BY <1>2, <1>3, <2>1, <2>2 DEF BarsOfPc
  <2>4. ringBar' = Append(Tail(ringBar), Packet(boots, seq'))
    BY <1>1, <1>19, <2>3, RingTurns
  <2>5. logBar' = logBar /\ roomBar' = roomBar
    BY <1>2, <1>3, <1>6, <2>1, <2>2 DEF BarsOfPc
  <2>6. R!Remember(Packet(boots, seq'))
    BY <2>2, <2>4, <2>5 DEF R!Remember
  <2> QED
    BY <1>18, <2>1, <2>6 DEF R!Next, R!Offer
<1>20. CASE WriteInFlight
  <2>1. /\ Offer /\ pc = "run" /\ pc' \in {"run", "flush"} /\ state = 1 /\ state' = 1
        /\ allow_write /\ allow_write' /\ addr < DataMax(section)
        /\ mem' = mem /\ addr' = addr /\ section' = section
    <3>1. addr \in Nat /\ DataMax(section) \in Nat
      BY <1>1, SectionSize DEF TypeInv, TypeOK
    <3> QED
      BY <1>4, <1>20, <3>1 DEF WriteInFlight, Offer, SectionFull
  <2>2. statusBar = "flight" /\ statusBar' = IF pc' = "flush" THEN "saving" ELSE "flight"
    BY <1>2, <1>3, <2>1 DEF StatusOfPc
  <2>3. ringBar = FlightRing
        /\ ringBar' = IF pc' = "flush" THEN FlushRing' ELSE FlightRing'
    BY <1>2, <1>3, <2>1 DEF BarsOfPc
  <2>4. /\ ringBar' = Append(ringBar, Packet(boots, seq'))
        /\ Len(ringBar') = BufLen <=> pc' = "flush"
    BY <1>1, <1>20, <2>3, RingFills
  <2>5. logBar' = logBar /\ roomBar' = roomBar /\ logBar = SavedLog
        /\ roomBar = SectionRoom(section)
    BY <1>2, <1>3, <1>6, <1>7, <2>1, <2>2 DEF BarsOfPc
  <2>6. Len(logBar) < roomBar
    <3>1. /\ DataMin(section) \in Nat /\ DataMax(section) \in Nat /\ addr \in Nat
          /\ addr - DataMin(section) \in Nat
      <4>1. /\ DataMin(section) \in Nat /\ DataMax(section) \in Nat
            /\ addr \in Nat /\ BufLen \in Nat
        BY <1>1, SectionSize, Constants DEF TypeInv, TypeOK
      <4>2. DataMin(section) + BufLen <= addr
        BY <1>1, <2>1 DEF AddrInPlace, GroupStart
      <4> QED
        BY <4>1, <4>2
    <3>2. SavedLog \in [1 .. addr - DataMin(section) -> Cells]
      BY <1>1, <2>1, BarsType
    <3>3. Len(SavedLog) = addr - DataMin(section)
      BY <3>1, <3>2, SeqOf
    <3> QED
      BY <2>1, <2>5, <3>1, <3>3 DEF SectionRoom
  <2>7. R!Record(Packet(boots, seq'))
    BY <2>2, <2>4, <2>5, <2>6 DEF R!Record
  <2> QED
    BY <1>18, <2>1, <2>7 DEF R!Next, R!Offer
<1>21. CASE Launch
  <2>1. /\ pc = "run" /\ state = 0 /\ state' = 0 /\ pc' = "commit_erase"
        /\ after' = "launch" /\ section' = section
        /\ packet_array' = packet_array /\ buf_idx' = buf_idx
    BY <1>21 DEF Launch
  <2>2. statusBar = "ready" /\ statusBar' = "saving"
    BY <1>2, <1>3, <2>1 DEF StatusOfPc
  <2>3. ringBar' = ringBar /\ logBar' = <<>> /\ roomBar' = roomBar
    BY <1>2, <1>3, <1>5, <1>6, <2>1, <2>2 DEF BarsOfPc
  <2>4. R!Launch
    BY <2>2, <2>3 DEF R!Launch
  <2> QED
    BY <2>4 DEF R!Next
<1>22. CASE Land
  <2>1. /\ pc = "run" /\ pc' = "run" /\ state = 1 /\ state' = 1
        /\ allow_write /\ ~allow_write' /\ mem' = mem /\ addr' = addr
        /\ section' = section /\ packet_array' = packet_array /\ buf_idx' = buf_idx
    BY <1>22 DEF Land
  <2>2. statusBar = "flight" /\ statusBar' = "landed"
    BY <1>2, <1>3, <2>1 DEF StatusOfPc
  <2>3. ringBar' = ringBar /\ logBar' = logBar /\ roomBar' = roomBar
    BY <1>2, <1>3, <1>5, <1>6, <1>7, <2>1, <2>2 DEF BarsOfPc
  <2>4. R!Land
    BY <2>2, <2>3 DEF R!Land
  <2> QED
    BY <2>4 DEF R!Next
<1>23. CASE PowerLoss
  <2>1. pc' = "off" /\ state' = 0
    BY <1>23 DEF PowerLoss
  <2>2. statusBar' = "off" /\ ringBar' = <<>> /\ logBar' = <<>> /\ roomBar' = 0
    BY <1>3, <2>1 DEF StatusOfPc, BarsOfPc
  <2>3. CASE statusBar = "off"
    <3>1. ~Logging
      <4>1. pc \in {"dump", "flush", "run"} => statusBar # "off"
        <5>1. CASE allow_write
          BY <1>2, <1>4, <5>1 DEF StatusOfPc
        <5>2. CASE ~allow_write
          BY <1>2, <1>4, <5>2 DEF StatusOfPc
        <5> QED
          BY <5>1, <5>2
      <4> QED
        BY <1>4, <2>3, <4>1
    <3> QED
      BY <1>8, <2>1, <2>2, <2>3, <3>1
  <2>4. CASE statusBar # "off"
    <3>1. R!PowerOff
      BY <2>2, <2>4 DEF R!PowerOff
    <3> QED
      BY <3>1 DEF R!Next
  <2> QED
    BY <2>3, <2>4
<1>24. CASE UNCHANGED vars
  BY <1>24 DEF vars, R!recorderVars, statusBar, ringBar, logBar, roomBar, FlushRing,
     DumpRing, FlightRing, WaitRing, SavedLog, SectionRoom, DataMin, DataMax
<1> QED
  BY <1>10, <1>11, <1>12, <1>13, <1>14, <1>15, <1>16, <1>17, <1>19, <1>20, <1>21,
     <1>22, <1>23, <1>24 DEF Next, FlashStep, CallStep

(* Seen from loop() the logger is a flight recorder: over every flash      *)
(* command of every call, and every power loss, a packet goes from the     *)
(* ring to the end of the log in the order it was offered, and nothing     *)
(* else changes either. (That what is due is saved is left to TLC.)        *)
THEOREM RecorderSafety == Spec => R!Init /\ [][R!Next]_(R!recorderVars)
  BY RecorderInit, RecorderStep, Invariance, PTL DEF Spec
=============================================================================
