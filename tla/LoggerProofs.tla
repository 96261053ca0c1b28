---------------------------- MODULE LoggerProofs ----------------------------
(***************************************************************************)
(* The logger's safety properties hold for every geometry of the chip,     *)
(* every length of the ring and any number of boots and packets.           *)
(***************************************************************************)
EXTENDS LoggerInv, TLAPS

-----------------------------------------------------------------------------
(***************************************************************************)
(* Facts about division with remainder, which the addresses are made with, *)
(* and about the flash operators, for any geometry: the sizes of the       *)
(* units, which slots a command can change, and what it leaves in them.    *)
(***************************************************************************)
(* Division with remainder.                                                *)
LEMMA ModDef ==
  ASSUME NEW a \in Int, NEW n \in Nat \ {0}
  PROVE  /\ a % n \in 0 .. n - 1
         /\ a \div n \in Int
         /\ a = n * (a \div n) + (a % n)
  OBVIOUS

(* Multiples of n are at least n apart.                                    *)
LEMMA MultiplesApart ==
  ASSUME NEW n \in Nat \ {0}, NEW q \in Int, NEW r \in Int, q < r
  PROVE  n * q + n <= n * r
  OBVIOUS

LEMMA MultiplesOrdered ==
  ASSUME NEW n \in Nat \ {0}, NEW q \in Int, NEW r \in Int, n * q < n * r
  PROVE  n * q + n <= n * r
<1>1. q < r
  OBVIOUS
<1> QED
  BY <1>1, MultiplesApart

(* The remainder is the only one there is.                                 *)
LEMMA ModUnique ==
  ASSUME NEW n \in Nat \ {0}, NEW q \in Int, NEW r \in 0 .. n - 1
  PROVE  (n * q + r) % n = r
<1> DEFINE a == n * q + r
<1>1. a \in Int
  OBVIOUS
<1>2. /\ a % n \in 0 .. n - 1
      /\ a \div n \in Int
      /\ a = n * (a \div n) + (a % n)
  BY <1>1, ModDef
<1>3. ~(q < a \div n)
  BY <1>2, MultiplesApart
<1>4. ~(a \div n < q)
  BY <1>2, MultiplesApart
<1>5. q = a \div n
  BY <1>2, <1>3, <1>4
<1> HIDE DEF a
<1> QED
  BY <1>2, <1>5 DEF a

(* Multiples of n.                                                         *)
LEMMA MultipleOf ==
  ASSUME NEW n \in Nat \ {0}, NEW q \in Int
  PROVE  (n * q) % n = 0
<1>1. (n * q + 0) % n = 0
  BY ModUnique
<1> QED
  BY <1>1

LEMMA MultipleIs ==
  ASSUME NEW n \in Nat \ {0}, NEW a \in Int, a % n = 0
  PROVE  a \div n \in Int /\ a = n * (a \div n)
  BY ModDef

LEMMA MultipleDiff ==
  ASSUME NEW n \in Nat \ {0}, NEW a \in Int, NEW b \in Int,
         a % n = 0, b % n = 0
  PROVE  (a - b) % n = 0
<1>1. PICK q \in Int : a = n * q
  BY MultipleIs
<1>2. PICK r \in Int : b = n * r
  BY MultipleIs
<1>3. q - r \in Int /\ a - b = n * (q - r)
  BY <1>1, <1>2
<1> QED
  BY <1>3, MultipleOf

LEMMA MultipleSum ==
  ASSUME NEW n \in Nat \ {0}, NEW a \in Int, NEW b \in Int,
         a % n = 0, b % n = 0
  PROVE  (a + b) % n = 0
<1>1. PICK q \in Int : a = n * q
  BY MultipleIs
<1>2. PICK r \in Int : b = n * r
  BY MultipleIs
<1>3. q + r \in Int /\ a + b = n * (q + r)
  BY <1>1, <1>2
<1> QED
  BY <1>3, MultipleOf

LEMMA MultipleSelf ==
  ASSUME NEW n \in Nat \ {0}
  PROVE  n % n = 0
<1>1. (n * 1) % n = 0
  BY MultipleOf
<1> QED
  BY <1>1

LEMMA MultipleStep ==
  ASSUME NEW n \in Nat \ {0}, NEW a \in Int, a % n = 0
  PROVE  (a + n) % n = 0 /\ (a - n) % n = 0
<1>1. PICK q \in Int : a = n * q
  BY MultipleIs
<1>2. q + 1 \in Int /\ a + n = n * (q + 1) /\ q - 1 \in Int /\ a - n = n * (q - 1)
  BY <1>1
<1> QED
  BY <1>2, MultipleOf

LEMMA MultiplePositive ==
  ASSUME NEW n \in Nat \ {0}, NEW a \in Int, a % n = 0, a > 0
  PROVE  a >= n
<1>1. PICK q \in Int : a = n * q
  BY MultipleIs
<1>2. n * 0 + n <= n * q
  BY <1>1, MultiplesOrdered
<1> QED
  BY <1>1, <1>2

(* Adding n, or less than n, to what is divided.                           *)
LEMMA ModShift ==
  ASSUME NEW n \in Nat \ {0}, NEW a \in Int
  PROVE  /\ (a + n) % n = a % n
         /\ \A j \in 1 .. n - 1 : (a + j) % n # a % n
<1> DEFINE q == a \div n
           r == a % n
<1>1. q \in Int /\ r \in 0 .. n - 1 /\ a = n * q + r
  BY ModDef
<1> HIDE DEF q, r
<1>2. (a + n) % n = r
  <2>1. (n * (q + 1) + r) % n = r
    BY <1>1, ModUnique
  <2>2. n * (q + 1) + r = a + n
    BY <1>1
  <2> QED
    BY <2>1, <2>2
<1>3. ASSUME NEW j \in 1 .. n - 1
      PROVE  (a + j) % n # r
  <2>1. CASE r + j < n
    <3>1. (n * q + (r + j)) % n = r + j
      BY <1>1, <2>1, ModUnique
    <3>2. n * q + (r + j) = a + j
      BY <1>1
    <3> QED
      BY <1>1, <3>1, <3>2
  <2>2. CASE r + j >= n
    <3> DEFINE t == r + j - n
    <3>1. t \in 0 .. n - 1 /\ q + 1 \in Int
      BY <1>1, <2>2
    <3>2. n * (q + 1) + t = a + j
      BY <1>1
    <3> HIDE DEF t
    <3>3. (n * (q + 1) + t) % n = t
      BY <3>1, ModUnique
    <3>4. t # r
      BY <1>1 DEF t
    <3> QED
      BY <3>2, <3>3, <3>4
  <2> QED
    BY <1>1, <2>1, <2>2
<1> QED
  BY <1>2, <1>3 DEF r

-----------------------------------------------------------------------------
(* The units, each a multiple of the one before. A flight has room past    *)
(* the page of the settings.                                               *)
LEMMA Geometry ==
  /\ PageSlots \in Nat \ {0} /\ SectorSlots \in Nat \ {0}
  /\ BlockSlots \in Nat \ {0} /\ FlightSlots \in Nat \ {0}
  /\ SectorPages \in Nat \ {0} /\ BlockSectors \in Nat \ {0}
  /\ FlightBlocks \in Nat \ {0}
  /\ SectorSlots = PageSlots * SectorPages
  /\ BlockSlots = SectorSlots * BlockSectors
  /\ FlightSlots = BlockSlots * FlightBlocks
  /\ PageSlots + PageSlots <= SectorSlots
  /\ SectorSlots <= BlockSlots /\ BlockSlots <= FlightSlots
<1>1. /\ PageSlots \in Nat \ {0} /\ SectorPages \in Nat \ {0, 1}
      /\ BlockSectors \in Nat \ {0} /\ FlightBlocks \in Nat \ {0}
  BY GeometryAssumption
<1>2. /\ SectorSlots \in Nat \ {0}
      /\ SectorSlots = PageSlots * SectorPages
      /\ PageSlots + PageSlots <= SectorSlots
  <2>1. PageSlots * 1 + PageSlots <= PageSlots * SectorPages
    BY <1>1, MultiplesApart
  <2> QED
    BY <1>1, <2>1 DEF SectorSlots
<1>3. /\ BlockSlots \in Nat \ {0}
      /\ BlockSlots = SectorSlots * BlockSectors
      /\ SectorSlots <= BlockSlots
  <2>1. SectorSlots * 0 + SectorSlots <= SectorSlots * BlockSectors
    BY <1>1, <1>2, MultiplesApart
  <2> QED
    BY <1>1, <1>2, <2>1 DEF BlockSlots
<1>4. /\ FlightSlots \in Nat \ {0}
      /\ FlightSlots = BlockSlots * FlightBlocks
      /\ BlockSlots <= FlightSlots
  <2>1. BlockSlots * 0 + BlockSlots <= BlockSlots * FlightBlocks
    BY <1>1, <1>3, MultiplesApart
  <2> QED
    BY <1>1, <1>3, <2>1 DEF FlightSlots
<1> QED
  BY <1>1, <1>2, <1>3, <1>4

LEMMA FlightMultiple ==
  /\ FlightSlots % BlockSlots = 0
  /\ FlightSlots % PageSlots = 0
<1>1. (BlockSlots * FlightBlocks) % BlockSlots = 0
  BY Geometry, MultipleOf
<1>2. /\ SectorPages * BlockSectors * FlightBlocks \in Int
      /\ FlightSlots = PageSlots * (SectorPages * BlockSectors * FlightBlocks)
  BY Geometry
<1>3. (PageSlots * (SectorPages * BlockSectors * FlightBlocks)) % PageSlots = 0
  BY <1>2, Geometry, MultipleOf
<1> QED
  BY <1>1, <1>2, <1>3, Geometry

(* An address that is a multiple of the size starts its unit.              *)
LEMMA AlignedAt ==
  ASSUME NEW n \in Nat \ {0}, NEW a \in Int, a % n = 0
  PROVE  Aligned(a, n) = a .. a + n - 1
  BY DEF Aligned

LEMMA AlignedFirst ==
  ASSUME NEW n \in Nat \ {0}
  PROVE  Aligned(0, n) = 0 .. n - 1
<1>1. (n * 0 + 0) % n = 0
  BY ModUnique
<1>2. 0 % n = 0
  BY <1>1
<1> QED
  BY <1>2 DEF Aligned

-----------------------------------------------------------------------------
(* What the commands leave is again a content of the chip.                 *)
LEMMA EraseType ==
  ASSUME NEW V, Blank \in V, NEW m \in [Slots -> V], NEW a, NEW n
  PROVE  Erase(m, a, n) \in [Slots -> V]
  BY DEF Erase

LEMMA ReadType ==
  ASSUME NEW V, NEW m \in [Slots -> V], NEW n \in Nat, n <= FlightSlots
  PROVE  Read(m, 0, n) \in [1 .. n -> V]
<1>1. ASSUME NEW k \in 1 .. n
      PROVE  m[0 + k - 1] \in V
  <2>1. 0 + k - 1 \in 0 .. 2 * FlightSlots - 1
    BY Geometry
  <2> QED
    BY <2>1 DEF Slots
<1> QED
  BY <1>1 DEF Read

LEMMA ProgramType ==
  ASSUME NEW V, Garbled \in V, NEW old \in V, NEW new \in V
  PROVE  Program(old, new) \in V
  BY DEF Program

(* An erased slot takes what is programmed.                                *)
LEMMA ProgramErased ==
  ASSUME NEW v
  PROVE  Program(Blank, v) = v
  BY Zenon DEF Program

LEMMA LatchedRange ==
  ASSUME NEW a \in Int, NEW n \in Int, NEW s \in Int
  PROVE  /\ Latched(a, n, s) \in Int
         /\ Latched(a, n, s) <= a + n - 1
<1>1. PageSlots \in Nat \ {0}
  BY Geometry
<1>2. a + n - 1 - s \in Int
  OBVIOUS
<1>3. (a + n - 1 - s) % PageSlots \in 0 .. PageSlots - 1
  BY <1>1, <1>2, ModDef
<1> QED
  BY <1>1, <1>3 DEF Latched

LEMMA WriteType ==
  ASSUME NEW V, Garbled \in V, NEW m \in [Slots -> V], NEW a \in Int,
         NEW n \in Int, NEW data \in [1 .. n -> V]
  PROVE  Write(m, a, data, n) \in [Slots -> V]
<1> SUFFICES ASSUME NEW s \in Slots, s \in Aligned(a, PageSlots),
                    Latched(a, n, s) >= a
             PROVE  Program(m[s], data[Latched(a, n, s) - a + 1]) \in V
  BY DEF Write
<1>1. s \in Int
  BY DEF Slots
<1>2. Latched(a, n, s) \in Int /\ Latched(a, n, s) <= a + n - 1
  BY <1>1, LatchedRange
<1>3. Latched(a, n, s) - a + 1 \in 1 .. n
  BY <1>2
<1> QED
  BY <1>3, ProgramType

LEMMA WriteOneType ==
  ASSUME NEW V, Garbled \in V, NEW m \in [Slots -> V], NEW a \in Int, NEW v \in V
  PROVE  Write(m, a, <<v>>, 1) \in [Slots -> V]
<1> DEFINE data == <<v>>
<1>1. data \in [1 .. 1 -> V]
  OBVIOUS
<1> HIDE DEF data
<1>2. 1 \in Int
  OBVIOUS
<1>3. Write(m, a, data, 1) \in [Slots -> V]
  BY <1>1, <1>2, WriteType, Zenon
<1> QED
  BY <1>3 DEF data

(* Writing one slot programs that slot and no other.                       *)
LEMMA WriteOne ==
  ASSUME NEW m, NEW a \in Slots, NEW v, NEW s \in Slots
  PROVE  Write(m, a, <<v>>, 1)[s] = IF s = a THEN Program(m[a], v) ELSE m[s]
<1> DEFINE P == PageSlots
           w == a - (a % P)
<1>1. /\ P \in Nat \ {0} /\ a \in Int /\ s \in Int
  BY Geometry DEF Slots
<1>2. /\ a % P \in 0 .. P - 1 /\ a - s \in Int
      /\ (a - s) % P \in 0 .. P - 1
  BY <1>1, ModDef
<1>3. Latched(a, 1, s) = a - ((a - s) % P)
  BY <1>1 DEF Latched
<1>4. a \in Aligned(a, P) /\ Latched(a, 1, a) = a
  <2>1. (a - a) % P = 0
    <3>1. (P * 0 + 0) % P = 0
      BY <1>1, ModUnique
    <3> QED
      BY <1>1, <3>1
  <2> QED
    BY <1>1, <1>2, <2>1 DEF Aligned, Latched
<1>5. ASSUME s \in Aligned(a, P), Latched(a, 1, s) >= a
      PROVE  s = a
  <2>1. (a - s) % P = 0
    BY <1>1, <1>2, <1>3, <1>5
  <2>2. a - s > -P /\ a - s < P
    BY <1>1, <1>2, <1>5 DEF Aligned
  <2>3. CASE a - s >= 0
    <3>1. (P * 0 + (a - s)) % P = a - s
      BY <1>1, <2>2, <2>3, ModUnique
    <3> QED
      BY <1>1, <2>1, <3>1
  <2>4. CASE a - s < 0
    <3>1. (P * (-1) + (a - s + P)) % P = a - s + P
      BY <1>1, <2>2, <2>4, ModUnique
    <3>2. P * (-1) + (a - s + P) = a - s
      BY <1>1
    <3> QED
      BY <1>1, <2>1, <2>2, <3>1, <3>2
  <2> QED
    BY <1>1, <2>3, <2>4
<1>6. CASE s = a
  BY <1>1, <1>4, <1>6 DEF Write
<1>7. CASE s # a
  BY <1>5, <1>7 DEF Write
<1> QED
  BY <1>6, <1>7

-----------------------------------------------------------------------------
(***************************************************************************)
(* The logger                                                              *)
(***************************************************************************)
(* The command behind each value of pc.                                    *)
LEMMA Commands ==
  /\ pc = "commit_erase" => Outcome = EraseSector(mem, 0)
  /\ pc = "commit_head" => Outcome = Write(mem, 0, <<settings>>, 1)
  /\ pc = "commit_tail" =>
       Outcome = Write(mem, PageSlots, RestOfSector, SectorSlots - PageSlots)
  /\ pc = "clear_erase" => Outcome = EraseSector64(mem, 0)
  /\ pc = "clear_restore" => Outcome = Write(mem, 0, buffer, PageSlots)
  /\ pc = "erase" /\ i < EraseTo(section) => Outcome = EraseSector64(mem, i)
  /\ pc = "erase" /\ ~(i < EraseTo(section)) => Outcome = mem
  /\ pc = "dump" => Outcome = Write(mem, addr, <<packet_array[DumpIndex(i)]>>, 1)
  /\ pc = "flush" => Outcome = Write(mem, addr, <<packet_array[i]>>, 1)
  /\ pc \in {"off", "halted", "run"} => Outcome = mem
<1>1. pc = "commit_erase" => Outcome = EraseSector(mem, 0)
  BY Zenon DEF Outcome
<1>2. pc = "commit_head" => Outcome = Write(mem, 0, <<settings>>, 1)
  BY Zenon DEF Outcome
<1>3. pc = "commit_tail" =>
       Outcome = Write(mem, PageSlots, RestOfSector, SectorSlots - PageSlots)
  BY Zenon DEF Outcome
<1>4. pc = "clear_erase" => Outcome = EraseSector64(mem, 0)
  BY Zenon DEF Outcome
<1>5. pc = "clear_restore" => Outcome = Write(mem, 0, buffer, PageSlots)
  BY Zenon DEF Outcome
<1>6. pc = "erase" /\ i < EraseTo(section) => Outcome = EraseSector64(mem, i)
  BY Zenon DEF Outcome
<1>7. pc = "erase" /\ ~(i < EraseTo(section)) => Outcome = mem
  BY Zenon DEF Outcome
<1>8. pc = "dump" => Outcome = Write(mem, addr, <<packet_array[DumpIndex(i)]>>, 1)
  BY Zenon DEF Outcome
<1>9. pc = "flush" => Outcome = Write(mem, addr, <<packet_array[i]>>, 1)
  BY Zenon DEF Outcome
<1>10. pc \in {"off", "halted", "run"} => Outcome = mem
  BY Zenon DEF Outcome
<1> QED
  BY <1>1, <1>2, <1>3, <1>4, <1>5, <1>6, <1>7, <1>8, <1>9, <1>10

-----------------------------------------------------------------------------
LEMMA Constants ==
  /\ BufLen \in Nat \ {0} /\ MaxBoots \in Nat /\ MaxWrites \in Nat
  /\ \E q \in 1 .. PageSlots : PageSlots = q * BufLen
  /\ BufLen <= PageSlots
<1>1. /\ BufLen \in Nat \ {0} /\ MaxBoots \in Nat /\ MaxWrites \in Nat
      /\ \E q \in 1 .. PageSlots : PageSlots = q * BufLen
  BY BufferAssumption
<1>2. PICK q \in 1 .. PageSlots : PageSlots = q * BufLen
  BY <1>1
<1>3. BufLen * 0 + BufLen <= BufLen * q
  BY <1>1, <1>2, Geometry, MultiplesApart
<1> QED
  BY <1>1, <1>2, <1>3, Geometry

LEMMA CellsHold ==
  /\ Blank \in Cells /\ Garbled \in Cells
  /\ Packets \subseteq Cells /\ Settings \subseteq Cells
  /\ Formatted \in Settings
  /\ ZeroPacket \in Packets
  /\ ZeroRing \in [0 .. BufLen - 1 -> Packets]
<1>1. Formatted \in Settings
  BY Constants DEF Formatted, Settings, AllOnes
<1>2. ZeroPacket \in Packets
  BY Constants DEF ZeroPacket, Packet, Packets
<1> QED
  BY <1>1, <1>2 DEF Cells, ZeroRing

(* Every command leaves a content of the chip, and so does a torn one.     *)
LEMMA OutcomeType ==
  ASSUME TypeInv
  PROVE  Outcome \in [Slots -> Cells] /\ Torn \in [Slots -> Cells]
<1> USE DEF TypeInv, TypeOK, Shape, Committing, Clearing, Phases
<1>1. Outcome \in [Slots -> Cells]
  <2>1. CASE pc = "commit_erase"
    BY <2>1, Commands, CellsHold, EraseType DEF EraseSector
  <2>2. CASE pc = "commit_head"
    BY <2>2, Commands, CellsHold, WriteOneType
  <2>3. CASE pc = "commit_tail"
    <3>1. RestOfSector \in [1 .. SectorSlots - PageSlots -> Cells]
      BY <2>3, Geometry DEF RestOfSector
    <3> QED
      BY <2>3, <3>1, Commands, CellsHold, Geometry, WriteType
  <2>4. CASE pc = "clear_erase"
    BY <2>4, Commands, CellsHold, EraseType DEF EraseSector64
  <2>5. CASE pc = "clear_restore"
    BY <2>5, Commands, CellsHold, Geometry, WriteType
  <2>6. CASE pc = "erase"
    BY <2>6, Commands, CellsHold, EraseType DEF EraseSector64
  <2>7. CASE pc = "dump"
    <3>1. DumpIndex(i) \in 0 .. BufLen - 1
      <4>1. i \in Int /\ BufLen \in Nat \ {0}
        BY Constants
      <4>2. i % BufLen \in 0 .. BufLen - 1
        BY <4>1, ModDef
      <4> QED
        BY <4>2 DEF DumpIndex
    <3>2. packet_array[DumpIndex(i)] \in Cells
      BY <3>1, CellsHold
    <3> QED
      BY <2>7, <3>2, Commands, CellsHold, WriteOneType
  <2>8. CASE pc = "flush"
    <3>1. packet_array[i] \in Cells
      BY <2>8, CellsHold
    <3> QED
      BY <2>8, <3>1, Commands, CellsHold, WriteOneType
  <2>9. CASE pc \in {"off", "halted", "run"}
    BY <2>9, Commands
  <2> QED
    BY <2>1, <2>2, <2>3, <2>4, <2>5, <2>6, <2>7, <2>8, <2>9
<1>2. Torn \in [Slots -> Cells]
  BY <1>1, CellsHold DEF Torn
<1> QED
  BY <1>1, <1>2
-----------------------------------------------------------------------------
LEMMA TypeInit == Init => TypeInv
<1> SUFFICES ASSUME Init PROVE TypeInv
  OBVIOUS
<1>1. mem \in [Slots -> Cells]
  BY CellsHold DEF Init
<1>2. buffer \in [1 .. 0 -> Cells]
  BY DEF Init
<1> QED
  BY <1>1, <1>2, CellsHold, Constants
     DEF Init, TypeInv, TypeOK, Shape, Committing, Clearing, Phases, Sections

LEMMA SectionType ==
  ASSUME NEW f \in Sections
  PROVE  /\ DataMin(f) \in Nat /\ DataMax(f) \in Nat
         /\ EraseFrom(f) \in Nat /\ EraseTo(f) \in Nat
  BY Geometry DEF Sections, DataMin, DataMax, EraseFrom, EraseTo

LEMMA ReadCells ==
  ASSUME NEW m \in [Slots -> Cells]
  PROVE  /\ Read(m, 0, PageSlots) \in [1 .. PageSlots -> Cells]
         /\ Read(m, 0, SectorSlots) \in [1 .. SectorSlots -> Cells]
<1>1. /\ PageSlots \in Nat /\ PageSlots <= FlightSlots
      /\ SectorSlots \in Nat /\ SectorSlots <= FlightSlots
  BY Geometry
<1>2. Read(m, 0, PageSlots) \in [1 .. PageSlots -> Cells]
  BY <1>1, ReadType, Zenon
<1>3. Read(m, 0, SectorSlots) \in [1 .. SectorSlots -> Cells]
  BY <1>1, ReadType, Zenon
<1> QED
  BY <1>2, <1>3

LEMMA TypeStep == TypeInv /\ [Next]_vars => TypeInv'
<1> SUFFICES ASSUME TypeInv, [Next]_vars PROVE TypeInv'
  OBVIOUS
<1> USE DEF TypeInv, TypeOK, Shape, Committing, Clearing, Phases, flashVars, ramVars, history
<1>1. Outcome \in [Slots -> Cells] /\ Torn \in [Slots -> Cells]
  BY OutcomeType
<1>2. <<>> \in [1 .. 0 -> Cells]
  OBVIOUS
<1>3. CASE Begin
  <2>1. PICK s \in SettingsIn(mem[0]) :
          /\ section' = ChooseSection(s.last)
          /\ settings' = [s EXCEPT !.last = NextLast(s.last)]
    BY <1>3 DEF Begin
  <2>2. s \in Settings
    <3>1. CASE mem[0] \in Settings
      BY <2>1, <3>1, Zenon DEF SettingsIn
    <3>2. CASE mem[0] \notin Settings
      <4>1. s \in [last : IF mem[0] = Blank THEN {AllOnes} ELSE TornInts,
                   start : {[f \in Sections |-> AllOnes]}]
        BY <2>1, <3>2, Zenon DEF SettingsIn
      <4>2. s \in [last : Int, start : {[f \in Sections |-> AllOnes]}]
        BY <4>1 DEF AllOnes, TornInts
      <4> QED
        BY <4>2, Constants DEF Settings, AllOnes
    <3> QED
      BY <3>1, <3>2
  <2>3. settings' \in Settings
    <3>1. NextLast(s.last) \in Int
      BY <2>2 DEF NextLast, CRem2, Settings
    <3> QED
      BY <2>1, <2>2, <3>1 DEF Settings
  <2>4. section' \in Sections
    BY <2>1 DEF ChooseSection, Sections
  <2>5. buffer' \in [1 .. SectorSlots -> Cells]
    BY <1>3, ReadCells DEF Begin
  <2> QED
    BY <1>3, <2>3, <2>4, <2>5, Constants DEF Begin
<1>4. CASE BeginFails
  BY <1>4, Constants DEF BeginFails
<1>5. CASE CommitErase
  BY <1>1, <1>5 DEF CommitErase
<1>6. CASE CommitHead
  BY <1>1, <1>6 DEF CommitHead
<1>7. CASE CommitTailBegin
  BY <1>1, <1>2, <1>7, SectionType DEF CommitTailBegin
<1>8. CASE CommitTailLaunch
  <2>1. section = 0 => buffer' \in [1 .. PageSlots -> Cells]
    BY <1>1, <1>8, ReadCells DEF CommitTailLaunch
  <2> QED
    BY <1>1, <1>2, <1>8, <2>1, SectionType DEF CommitTailLaunch
<1>9. CASE ClearErase
  BY <1>1, <1>9 DEF ClearErase
<1>10. CASE ClearRestore
  BY <1>1, <1>2, <1>10 DEF ClearRestore
<1>11. CASE EraseBlock
  BY <1>1, <1>11, Geometry DEF EraseBlock, EraseNext
<1>12. CASE EraseDone
  BY <1>12 DEF EraseDone, DumpStart
<1>13. CASE Dump
  BY <1>1, <1>13, Constants DEF Dump
<1>14. CASE Flush
  BY <1>1, <1>14, Constants DEF Flush
<1>15. ASSUME Offer
       PROVE  Packet(boots, seq') \in Packets /\ seq' \in 0 .. MaxWrites
  BY <1>15, Constants DEF Offer, Packet, Packets
<1>16. CASE WriteAfterLanding
  BY <1>15, <1>16 DEF WriteAfterLanding, Offer
<1>17. CASE WriteBeforeLaunch
  <2>1. packet_array' \in [0 .. BufLen - 1 -> Packets]
    BY <1>15, <1>17 DEF WriteBeforeLaunch
  <2> QED
    BY <1>15, <1>17, <2>1 DEF WriteBeforeLaunch, Offer
<1>18. CASE WriteWhenFull
  BY <1>15, <1>18 DEF WriteWhenFull, Offer
<1>19. CASE WriteInFlight
  <2>1. packet_array' \in [0 .. BufLen - 1 -> Packets]
    BY <1>15, <1>19 DEF WriteInFlight
  <2> QED
    BY <1>15, <1>19, <2>1, Constants DEF WriteInFlight, Offer, BufferFull
<1>20. CASE Launch
  <2>1. settings' \in Settings
    <3>1. settings' = [settings EXCEPT !.start[section] = boots]
      BY <1>20 DEF Launch, Stamped
    <3>2. boots \in AllOnes .. MaxBoots
      BY Constants DEF AllOnes
    <3>3. settings.start \in [Sections -> AllOnes .. MaxBoots]
      BY DEF Settings
    <3>4. [settings.start EXCEPT ![section] = boots]
            \in [Sections -> AllOnes .. MaxBoots]
      BY <3>2, <3>3
    <3> QED
      BY <3>1, <3>4 DEF Settings
  <2>2. buffer' \in [1 .. SectorSlots -> Cells]
    BY <1>20, ReadCells DEF Launch
  <2> QED
    BY <1>20, <2>1, <2>2 DEF Launch
<1>21. CASE Land
  <2>1. allow_write' \in BOOLEAN /\ state' = 1 /\ pc' = "run"
    BY <1>21, Zenon DEF Land
  <2> QED
    BY <1>21, <2>1 DEF Land
<1>22. CASE PowerLoss
  <2>1. mem' \in [Slots -> Cells]
    BY <1>1, <1>22 DEF PowerLoss
  <2>2. /\ pc' = "off" /\ after' = "begin" /\ i' = 0 /\ buffer' = <<>>
        /\ settings' = Formatted /\ section' = 0 /\ addr' = 0
        /\ packet_array' = ZeroRing /\ buf_idx' = 0
        /\ state' = 0 /\ allow_write' = TRUE
        /\ seq' = 0 /\ launchSeq' = 0
        /\ boots' = boots
    BY <1>22 DEF PowerLoss
  <2>3. /\ latest' \in {-1, latest} /\ stamped' \in {stamped, {}}
        /\ sound' \in 0 .. InTurn
    BY <1>22 DEF PowerLoss, InTurn
  <2> QED
    BY <1>2, <2>1, <2>2, <2>3, CellsHold, Constants DEF Sections
<1>23. CASE UNCHANGED vars
  BY <1>23 DEF vars
<1> QED
  BY <1>3, <1>4, <1>5, <1>6, <1>7, <1>8, <1>9, <1>10, <1>11, <1>12, <1>13,
     <1>14, <1>16, <1>17, <1>18, <1>19, <1>20, <1>21, <1>22, <1>23
     DEF Next, FlashStep, CallStep

(* Every variable keeps its type, and the array accesses stay inside.      *)
THEOREM TypeCorrect == Spec => []TypeOK
<1>1. TypeInv => TypeOK
  BY DEF TypeInv
<1> QED
  BY <1>1, TypeInit, TypeStep, PTL DEF Spec

-----------------------------------------------------------------------------
(* Sizes the calls count with.                                             *)
LEMMA RingMultiple ==
  /\ PageSlots % BufLen = 0 /\ FlightSlots % BufLen = 0
<1>1. PICK q \in 1 .. PageSlots : PageSlots = q * BufLen
  BY Constants
<1>2. BufLen \in Nat \ {0} /\ q \in Int /\ PageSlots = BufLen * q
  BY <1>1, Constants, Geometry
<1>3. PageSlots % BufLen = 0
  BY <1>2, MultipleOf
<1>4. FlightSlots = PageSlots * (FlightSlots \div PageSlots)
      /\ FlightSlots \div PageSlots \in Int
  BY Geometry, FlightMultiple, MultipleIs
<1>5. FlightSlots = BufLen * (q * (FlightSlots \div PageSlots))
      /\ q * (FlightSlots \div PageSlots) \in Int
  BY <1>2, <1>4
<1>6. FlightSlots % BufLen = 0
  BY <1>2, <1>5, MultipleOf
<1> QED
  BY <1>3, <1>6

(* A section's data is a whole number of rings, one at least.              *)
LEMMA SectionSize ==
  ASSUME NEW f \in Sections
  PROVE  /\ DataMin(f) \in Nat /\ DataMax(f) \in Nat
         /\ PageSlots <= DataMin(f)
         /\ DataMin(f) + BufLen <= DataMax(f)
         /\ DataMax(f) <= 2 * FlightSlots
         /\ (DataMax(f) - DataMin(f)) % BufLen = 0
         /\ f = 0 => DataMin(f) = PageSlots /\ DataMax(f) = FlightSlots
         /\ f = 1 => DataMin(f) = FlightSlots /\ DataMax(f) = FlightSlots + FlightSlots
         /\ f = 0 => EraseFrom(f) = BlockSlots
         /\ f = 1 => EraseFrom(f) = FlightSlots
         /\ EraseFrom(f) <= EraseTo(f)
         /\ EraseFrom(f) \in Nat /\ EraseTo(f) = DataMax(f)
         /\ EraseFrom(f) % BlockSlots = 0 /\ EraseTo(f) % BlockSlots = 0
<1>1. BufLen \in Nat \ {0} /\ BufLen <= PageSlots
  BY Constants
<1>2. FlightSlots \in Int /\ PageSlots \in Int
  BY Geometry
<1>3. (FlightSlots - PageSlots) % BufLen = 0
  BY <1>1, <1>2, RingMultiple, MultipleDiff
<1>4. (FlightSlots + FlightSlots - FlightSlots) % BufLen = 0
  BY <1>2, RingMultiple
<1>5. BlockSlots % BlockSlots = 0
  BY Geometry, MultipleSelf
<1>6. FlightSlots % BlockSlots = 0 /\ BlockSlots \in Nat \ {0}
  BY Geometry, FlightMultiple
<1>7. (FlightSlots + FlightSlots) % BlockSlots = 0
      /\ 2 * FlightSlots = FlightSlots + FlightSlots
  <2>1. (FlightSlots + FlightSlots) % BlockSlots = 0
    BY <1>2, <1>6, MultipleSum
  <2> QED
    BY <1>2, <2>1
<1>8. CASE f = 0
  BY <1>1, <1>3, <1>5, <1>8, Geometry, FlightMultiple
     DEF DataMin, DataMax, EraseFrom, EraseTo
<1>9. CASE f = 1
  BY <1>1, <1>4, <1>7, <1>9, Geometry, FlightMultiple
     DEF DataMin, DataMax, EraseFrom, EraseTo
<1> QED
  BY <1>8, <1>9 DEF Sections

(* What each command leaves in a slot.                                     *)
LEMMA Effects ==
  ASSUME TypeInv, NEW s \in Slots
  PROVE  /\ pc = "commit_erase" =>
              Outcome[s] = IF s < SectorSlots THEN Blank ELSE mem[s]
         /\ pc = "commit_head" =>
              Outcome[s] = IF s = 0 THEN Program(mem[0], settings) ELSE mem[s]
         /\ pc = "commit_tail" /\ s \notin PageSlots .. SectorSlots - 1 =>
              Outcome[s] = mem[s]
         /\ pc = "clear_erase" =>
              Outcome[s] = IF s < BlockSlots THEN Blank ELSE mem[s]
         /\ pc = "clear_restore" /\ s >= PageSlots => Outcome[s] = mem[s]
         /\ pc = "clear_restore" /\ s = 0 =>
              Outcome[s] = Program(mem[0], buffer[1])
         /\ pc = "erase" /\ i < EraseTo(section) /\ i % BlockSlots = 0 =>
              Outcome[s] = IF s \in i .. i + BlockSlots - 1 THEN Blank ELSE mem[s]
         /\ pc = "erase" /\ ~(i < EraseTo(section)) => Outcome[s] = mem[s]
         /\ pc = "dump" /\ addr \in Slots =>
              Outcome[s] = IF s = addr
                           THEN Program(mem[addr], packet_array[i % BufLen])
                           ELSE mem[s]
         /\ pc = "flush" /\ addr \in Slots =>
              Outcome[s] = IF s = addr THEN Program(mem[addr], packet_array[i])
                                       ELSE mem[s]
         /\ pc \in {"off", "halted", "run"} => Outcome[s] = mem[s]
<1>1. s \in Nat /\ 0 \in Slots
  BY Geometry DEF Slots
<1>2. Aligned(0, PageSlots) = 0 .. PageSlots - 1
      /\ Aligned(0, SectorSlots) = 0 .. SectorSlots - 1
      /\ Aligned(0, BlockSlots) = 0 .. BlockSlots - 1
  BY Geometry, AlignedFirst
<1>3. pc = "commit_erase" =>
        Outcome[s] = IF s < SectorSlots THEN Blank ELSE mem[s]
  BY <1>1, <1>2, Commands, Geometry DEF EraseSector, Erase
<1>4. pc = "commit_head" =>
        Outcome[s] = IF s = 0 THEN Program(mem[0], settings) ELSE mem[s]
  <2>1. Write(mem, 0, <<settings>>, 1)[s] =
          IF s = 0 THEN Program(mem[0], settings) ELSE mem[s]
    BY <1>1, WriteOne
  <2> QED
    BY <2>1, Commands
<1>5. pc = "commit_tail" /\ s \notin PageSlots .. SectorSlots - 1 =>
        Outcome[s] = mem[s]
  <2>1. PageSlots % PageSlots = 0
    BY Geometry, MultipleSelf
  <2>2. Aligned(PageSlots, PageSlots) = PageSlots .. PageSlots + PageSlots - 1
    BY <2>1, Geometry, AlignedAt
  <2> QED
    BY <1>1, <2>2, Commands, Geometry DEF Write
<1>6. pc = "clear_erase" =>
        Outcome[s] = IF s < BlockSlots THEN Blank ELSE mem[s]
  BY <1>1, <1>2, Commands, Geometry DEF EraseSector64, Erase
<1>7. pc = "clear_restore" /\ s >= PageSlots => Outcome[s] = mem[s]
  BY <1>1, <1>2, Commands, Geometry DEF Write
<1>8. pc = "clear_restore" /\ s = 0 => Outcome[s] = Program(mem[0], buffer[1])
  <2>1. (PageSlots - 1) % PageSlots = PageSlots - 1
    <3>1. (PageSlots * 0 + (PageSlots - 1)) % PageSlots = PageSlots - 1
      BY Geometry, ModUnique
    <3> QED
      BY <3>1, Geometry
  <2>2. Latched(0, PageSlots, 0) = 0
    BY <2>1, Geometry DEF Latched
  <2>3. 0 \in Aligned(0, PageSlots) /\ 0 - 0 + 1 = 1
    BY <1>2, Geometry
  <2>4. Write(mem, 0, buffer, PageSlots)[0] = Program(mem[0], buffer[1])
    BY <1>1, <2>2, <2>3 DEF Write
  <2> QED
    BY <2>4, Commands
<1>9. pc = "erase" /\ i < EraseTo(section) /\ i % BlockSlots = 0 =>
        Outcome[s] = IF s \in i .. i + BlockSlots - 1 THEN Blank ELSE mem[s]
  <2>1. i \in Int
    BY DEF TypeInv, TypeOK
  <2>2. i % BlockSlots = 0 => Aligned(i, BlockSlots) = i .. i + BlockSlots - 1
    BY <2>1, Geometry, AlignedAt
  <2> QED
    BY <2>2, Commands DEF EraseSector64, Erase
<1>10. pc = "erase" /\ ~(i < EraseTo(section)) => Outcome[s] = mem[s]
  BY Commands
<1>11. pc = "dump" /\ addr \in Slots =>
         Outcome[s] = IF s = addr THEN Program(mem[addr], packet_array[i % BufLen])
                                  ELSE mem[s]
  <2>1. addr \in Slots =>
          Write(mem, addr, <<packet_array[i % BufLen]>>, 1)[s] =
            IF s = addr THEN Program(mem[addr], packet_array[i % BufLen]) ELSE mem[s]
    BY WriteOne
  <2> QED
    BY <2>1, Commands DEF DumpIndex
<1>12. pc = "flush" /\ addr \in Slots =>
         Outcome[s] = IF s = addr THEN Program(mem[addr], packet_array[i])
                                  ELSE mem[s]
  <2>1. addr \in Slots =>
          Write(mem, addr, <<packet_array[i]>>, 1)[s] =
            IF s = addr THEN Program(mem[addr], packet_array[i]) ELSE mem[s]
    BY WriteOne
  <2> QED
    BY <2>1, Commands
<1>13. pc \in {"off", "halted", "run"} => Outcome[s] = mem[s]
  BY Commands
<1> QED
  BY <1>3, <1>4, <1>5, <1>6, <1>7, <1>8, <1>9, <1>10, <1>11, <1>12, <1>13

-----------------------------------------------------------------------------
(* The erase loop keeps to the blocks of its section.                      *)
LEMMA EraseStep ==
  ASSUME TypeInv, EraseInPlace, [Next]_vars
  PROVE  EraseInPlace'
<1> USE DEF TypeInv, TypeOK, Shape, EraseInPlace, Clearing
<1>1. /\ EraseFrom(section) % BlockSlots = 0
      /\ EraseFrom(section) \in Nat /\ EraseTo(section) \in Nat
      /\ EraseFrom(section) <= EraseTo(section)
      /\ EraseTo(section) % BlockSlots = 0
  BY SectionSize
<1>2. ASSUME section' = section
      PROVE  EraseFrom(section)' = EraseFrom(section) /\ EraseTo(section)' = EraseTo(section)
  BY <1>2 DEF EraseFrom, EraseTo, DataMax
<1>3. CASE CommitTailLaunch
  BY <1>1, <1>2, <1>3 DEF CommitTailLaunch, ramVars
<1>4. CASE ClearErase
  BY <1>2, <1>4 DEF ClearErase, ramVars
<1>5. CASE ClearRestore
  BY <1>1, <1>2, <1>5 DEF ClearRestore, ramVars
<1>6. CASE EraseBlock
  <2>1. i < EraseTo(section) /\ i % BlockSlots = 0 /\ i' = i + BlockSlots
        /\ pc' = "erase" /\ section' = section /\ EraseFrom(section) <= i
    BY <1>6 DEF EraseBlock, EraseNext, ramVars
  <2>2. BlockSlots \in Nat \ {0} /\ i \in Int /\ EraseTo(section) \in Int
    BY <1>1, Geometry
  <2>3. (i + BlockSlots) % BlockSlots = 0
    BY <2>1, <2>2, MultipleStep
  <2>4. (EraseTo(section) - i) % BlockSlots = 0
    BY <1>1, <2>1, <2>2, MultipleDiff
  <2>5. EraseTo(section) - i >= BlockSlots
    BY <2>1, <2>2, <2>4, MultiplePositive
  <2> QED
    BY <1>1, <1>2, <2>1, <2>2, <2>3, <2>5
<1>7. ASSUME ~(pc' \in {"clear_erase", "clear_restore", "erase"})
      PROVE  EraseInPlace'
  BY <1>7
<1>8. CASE UNCHANGED vars
  BY <1>2, <1>8 DEF vars, flashVars, ramVars
<1>9. CASE EraseDone \/ Dump \/ Flush \/ CommitErase \/ CommitHead \/ CommitTailBegin
  BY <1>7, <1>9 DEF EraseDone, Dump, Flush, CommitErase, CommitHead, CommitTailBegin
<1>10. CASE CallStep \/ PowerLoss
  BY <1>7, <1>10 DEF CallStep, PowerLoss, Begin, BeginFails, WriteAfterLanding,
     WriteBeforeLaunch, WriteWhenFull, WriteInFlight, Offer, Launch, Land, flashVars
<1> QED
  BY <1>3, <1>4, <1>5, <1>6, <1>8, <1>9, <1>10 DEF Next, FlashStep

(* addr keeps to its place.                                                *)
LEMMA AddrStep ==
  ASSUME TypeInv, AddrInPlace, [Next]_vars
  PROVE  AddrInPlace'
<1> USE DEF TypeInv, TypeOK, Shape, AddrInPlace, GroupStart, Launching, Committing,
            Clearing, Phases
<1> DEFINE lo == DataMin(section)
           hi == DataMax(section)
<1>1. /\ lo \in Nat /\ hi \in Nat /\ lo + BufLen <= hi
      /\ (hi - lo) % BufLen = 0
  BY SectionSize
<1>2. BufLen \in Nat \ {0}
  BY Constants
<1>3. ASSUME section' = section
      PROVE  lo' = lo /\ hi' = hi
  BY <1>3 DEF DataMin, DataMax
<1> HIDE DEF lo, hi
<1>4. /\ Launching \/ (pc = "run" /\ state = 0) => addr = lo
      /\ pc = "dump" => i \in buf_idx .. buf_idx + BufLen - 1 /\ addr = lo + (i - buf_idx)
      /\ state = 1 => /\ lo + BufLen <= GroupStart /\ GroupStart <= hi
                      /\ (hi - GroupStart) % BufLen = 0
      /\ pc = "flush" => GroupStart < hi
  BY DEF lo, hi
<1>5. SUFFICES
        /\ Launching' \/ (pc' = "run" /\ state' = 0) => addr' = lo'
        /\ pc' = "dump" => /\ i' \in buf_idx' .. buf_idx' + BufLen - 1
                           /\ addr' = lo' + (i' - buf_idx')
        /\ state' = 1 => /\ lo' + BufLen <= GroupStart' /\ GroupStart' <= hi'
                         /\ (hi' - GroupStart') % BufLen = 0
        /\ pc' = "flush" => GroupStart' < hi'
  BY DEF lo, hi
<1> USE <1>1, <1>2, <1>3, <1>4
<1>6. CASE Begin
  BY <1>6 DEF Begin
<1>7. CASE BeginFails
  BY <1>7 DEF BeginFails, ramVars
<1>8. CASE CommitErase
  BY <1>8 DEF CommitErase, ramVars
<1>9. CASE CommitHead
  BY <1>9 DEF CommitHead, ramVars
<1>10. CASE CommitTailBegin
  BY <1>10 DEF CommitTailBegin, lo
<1>11. CASE CommitTailLaunch
  BY <1>11 DEF CommitTailLaunch, ramVars
<1>12. CASE ClearErase
  BY <1>12 DEF ClearErase, ramVars
<1>13. CASE ClearRestore
  BY <1>13 DEF ClearRestore, ramVars
<1>14. CASE EraseBlock
  BY <1>14 DEF EraseBlock, ramVars
<1>15. CASE EraseDone
  BY <1>15 DEF EraseDone, ramVars, DumpStart
<1>16. CASE Dump
  <2>1. /\ section' = section /\ addr' = addr + 1 /\ pc = "dump" /\ state = 0
    BY <1>16 DEF Dump
  <2>2. CASE i + 1 < buf_idx + BufLen
    <3>1. i' = i + 1 /\ pc' = "dump" /\ state' = 0 /\ buf_idx' = buf_idx /\ lo' = lo
      BY <1>16, <2>1, <2>2 DEF Dump, DumpStart
    <3>2. i \in buf_idx .. buf_idx + BufLen - 1 /\ addr = lo + (i - buf_idx)
      BY <2>1 DEF lo
    <3> QED
      BY <2>1, <2>2, <3>1, <3>2 DEF Launching, Committing, Clearing
  <2>3. CASE ~(i + 1 < buf_idx + BufLen)
    <3>1. addr' = lo + BufLen /\ pc' = "run" /\ state' = 1
      BY <1>16, <2>1, <2>3 DEF Dump, DumpStart
    <3>2. (hi - lo - BufLen) % BufLen = 0
      <4>1. hi - lo \in Int
        OBVIOUS
      <4>2. ((hi - lo) - BufLen) % BufLen = 0
        BY <4>1, MultipleStep
      <4> QED
        BY <4>2
    <3>3. hi - (lo + BufLen) = hi - lo - BufLen
      OBVIOUS
    <3> QED
      BY <2>1, <3>1, <3>2, <3>3
  <2> QED
    BY <2>2, <2>3
<1>17. CASE Flush
  <2>1. /\ section' = section /\ addr' = addr + 1 /\ pc = "flush" /\ state = 1
        /\ state' = 1 /\ i \in 0 .. BufLen - 1
    BY <1>17 DEF Flush
  <2>2. CASE i + 1 < BufLen
    BY <1>17, <2>1, <2>2 DEF Flush
  <2>3. CASE ~(i + 1 < BufLen)
    <3>1. addr' = (addr - i) + BufLen /\ pc' = "run"
      BY <1>17, <2>1, <2>3 DEF Flush
    <3>2. /\ (hi - (addr - i)) % BufLen = 0 /\ hi - (addr - i) > 0
          /\ hi - (addr - i) \in Int
      BY <2>1
    <3>3. hi - (addr - i) >= BufLen
      BY <3>2, MultiplePositive
    <3>4. (hi - (addr - i) - BufLen) % BufLen = 0
      BY <3>2, MultipleStep
    <3>5. hi - ((addr - i) + BufLen) = hi - (addr - i) - BufLen
      OBVIOUS
    <3> QED
      BY <2>1, <3>1, <3>3, <3>4, <3>5
  <2> QED
    BY <2>2, <2>3
<1>18. CASE WriteAfterLanding
  BY <1>18 DEF WriteAfterLanding, Offer
<1>19. CASE WriteBeforeLaunch
  BY <1>19 DEF WriteBeforeLaunch, Offer
<1>20. CASE WriteWhenFull
  BY <1>20 DEF WriteWhenFull, Offer
<1>21. CASE WriteInFlight
  <2>1. addr < hi
    BY <1>21 DEF WriteInFlight, SectionFull, hi
  <2> QED
    BY <1>21, <2>1 DEF WriteInFlight, Offer
<1>22. CASE Launch
  BY <1>22 DEF Launch
<1>23. CASE Land
  BY <1>23 DEF Land, flashVars
<1>24. CASE PowerLoss
  BY <1>24 DEF PowerLoss
<1>25. CASE UNCHANGED vars
  BY <1>25 DEF vars, flashVars, ramVars
<1> QED
  BY <1>6, <1>7, <1>8, <1>9, <1>10, <1>11, <1>12, <1>13, <1>14, <1>15, <1>16,
     <1>17, <1>18, <1>19, <1>20, <1>21, <1>22, <1>23, <1>24, <1>25
     DEF Next, FlashStep, CallStep

-----------------------------------------------------------------------------
(* Where addr points when a packet is programmed.                          *)
LEMMA TargetSlot ==
  ASSUME TypeInv, AddrInPlace, pc \in {"dump", "flush"}
  PROVE  /\ addr \in Slots /\ addr >= PageSlots
         /\ addr \in DataMin(section) .. DataMax(section) - 1
<1> USE DEF TypeInv, TypeOK, Shape, AddrInPlace, GroupStart
<1>1. /\ DataMin(section) \in Nat /\ DataMax(section) \in Nat
      /\ PageSlots <= DataMin(section)
      /\ DataMin(section) + BufLen <= DataMax(section)
      /\ DataMax(section) <= 2 * FlightSlots
      /\ (DataMax(section) - DataMin(section)) % BufLen = 0
  BY SectionSize
<1>2. BufLen \in Nat \ {0} /\ FlightSlots \in Nat
  BY Constants, Geometry
<1>3. addr \in DataMin(section) .. DataMax(section) - 1
  <2>1. CASE pc = "dump"
    BY <1>1, <1>2, <2>1
  <2>2. CASE pc = "flush"
    <3>1. /\ DataMax(section) - (addr - i) \in Int
          /\ (DataMax(section) - (addr - i)) % BufLen = 0
          /\ DataMax(section) - (addr - i) > 0
          /\ DataMin(section) + BufLen <= addr - i
          /\ i \in 0 .. BufLen - 1
      BY <1>1, <1>2, <2>2
    <3>2. DataMax(section) - (addr - i) >= BufLen
      BY <1>2, <3>1, MultiplePositive
    <3> QED
      BY <1>1, <1>2, <3>1, <3>2
  <2> QED
    BY <2>1, <2>2
<1> QED
  BY <1>1, <1>2, <1>3, Geometry DEF Slots

LEMMA SettingsStep ==
  ASSUME TypeInv, EraseInPlace, AddrInPlace, TargetsErased, SettingsInPlace,
         [Next]_vars
  PROVE  SettingsInPlace'
<1> USE DEF SettingsInPlace, SettingsRestored, PageWhole, TypeInv, TypeOK, Clearing
<1>1. 0 \in Slots /\ PageSlots \in Nat \ {0} /\ SectorSlots \in Nat \ {0}
      /\ BlockSlots \in Nat \ {0} /\ PageSlots <= SectorSlots
  BY Geometry DEF Slots
<1>2. CASE CommitHead
  <2>1. mem[0] = Blank
    BY <1>1, <1>2 DEF CommitHead, TargetsErased, Erased
  <2>2. Outcome[0] = settings
    BY <1>1, <1>2, <2>1, Effects, ProgramErased DEF CommitHead
  <2> QED
    BY <1>2, <2>2 DEF CommitHead, ramVars
<1>3. CASE CommitTailBegin
  <2>1. Outcome[0] = mem[0]
    BY <1>1, <1>3, Effects DEF CommitTailBegin
  <2> QED
    BY <1>3, <2>1 DEF CommitTailBegin
<1>4. CASE CommitTailLaunch
  <2>1. Outcome[0] = mem[0]
    BY <1>1, <1>4, Effects DEF CommitTailLaunch
  <2>2. Read(Outcome, 0, PageSlots)[1] = Outcome[0]
    BY <1>1 DEF Read
  <2> QED
    BY <1>4, <2>1, <2>2 DEF CommitTailLaunch, ramVars
<1>5. CASE ClearErase
  BY <1>5 DEF ClearErase, ramVars
<1>6. CASE ClearRestore
  <2>1. mem[0] = Blank
    BY <1>1, <1>6 DEF ClearRestore, TargetsErased, Erased
  <2>2. Outcome[0] = buffer[1]
    BY <1>1, <1>6, <2>1, Effects, ProgramErased DEF ClearRestore
  <2> QED
    BY <1>6, <2>2 DEF ClearRestore, ramVars
<1>7. CASE EraseBlock
  <2>1. i < EraseTo(section) /\ i % BlockSlots = 0 /\ pc = "erase" /\ 0 < i
    <3>1. EraseFrom(section) >= BlockSlots
      BY Geometry DEF EraseFrom
    <3> QED
      BY <1>1, <1>7, <3>1, SectionType DEF EraseBlock, EraseInPlace
  <2>2. Outcome[0] = mem[0]
    BY <1>1, <2>1, Effects
  <2> QED
    BY <1>7, <2>2 DEF EraseBlock, ramVars
<1>8. CASE EraseDone
  BY <1>8 DEF EraseDone, ramVars
<1>9. CASE Dump \/ Flush
  <2>1. pc \in {"dump", "flush"}
    BY <1>9 DEF Dump, Flush
  <2>2. addr \in Slots /\ addr # 0
    BY <1>1, <2>1, TargetSlot
  <2>3. Outcome[0] = mem[0]
    BY <1>1, <2>1, <2>2, Effects
  <2> QED
    BY <1>9, <2>1, <2>3 DEF Dump, Flush
<1>10. CASE CommitErase
  BY <1>10 DEF CommitErase
<1>11. CASE Begin \/ BeginFails \/ Launch
  BY <1>11 DEF Begin, BeginFails, Launch
<1>12. CASE WriteAfterLanding
  BY <1>12 DEF WriteAfterLanding, Offer
<1>13. CASE WriteBeforeLaunch
  BY <1>13 DEF WriteBeforeLaunch, Offer
<1>14. CASE WriteWhenFull
  BY <1>14 DEF WriteWhenFull, Offer
<1>15. CASE WriteInFlight
  BY <1>15 DEF WriteInFlight, Offer
<1>16. CASE Land
  BY <1>16 DEF Land, flashVars
<1>17. CASE PowerLoss
  BY <1>17 DEF PowerLoss
<1>18. CASE UNCHANGED vars
  BY <1>18 DEF vars, flashVars, ramVars
<1> QED
  BY <1>2, <1>3, <1>4, <1>5, <1>6, <1>7, <1>8, <1>9, <1>10, <1>11, <1>12, <1>13,
     <1>14, <1>15, <1>16, <1>17, <1>18 DEF Next, FlashStep, CallStep

(* What the step programs is erased: TargetsErased is kept.                *)
LEMMA TargetsStep ==
  ASSUME TypeInv, EraseInPlace, AddrInPlace, TargetsErased, [Next]_vars
  PROVE  TargetsErased'
<1> USE DEF TypeInv, TypeOK, Shape, Committing, Clearing, Logging, Phases
<1>1. /\ PageSlots \in Nat \ {0} /\ SectorSlots \in Nat \ {0}
      /\ BlockSlots \in Nat \ {0} /\ FlightSlots \in Nat \ {0}
      /\ PageSlots <= SectorSlots
      /\ SectorSlots <= BlockSlots /\ BlockSlots <= FlightSlots
  BY Geometry
<1>2. \A k \in 0 .. 2 * FlightSlots - 1 : k \in Slots
  BY DEF Slots
<1>3. /\ DataMin(section) \in Nat /\ DataMax(section) \in Nat
      /\ PageSlots <= DataMin(section) /\ DataMin(section) < DataMax(section)
      /\ DataMax(section) <= 2 * FlightSlots
      /\ EraseFrom(section) \in Nat /\ EraseTo(section) = DataMax(section)
      /\ section = 0 => EraseFrom(section) = BlockSlots /\ DataMin(section) = PageSlots
      /\ section = 1 => EraseFrom(section) = FlightSlots /\ DataMin(section) = FlightSlots
  BY SectionSize, Constants
<1>4. ASSUME section' = section
      PROVE  /\ DataMin(section)' = DataMin(section)
             /\ DataMax(section)' = DataMax(section)
  BY <1>4 DEF DataMin, DataMax
<1>5. ASSUME mem' = mem, section' = section, addr' = addr, i' = i,
             pc' = pc, state' = state
      PROVE  TargetsErased'
  BY <1>4, <1>5 DEF TargetsErased, Erased
<1>6. CASE CommitErase
  <2>1. \A k \in 0 .. SectorSlots - 1 : Outcome[k] = Blank
    BY <1>1, <1>2, <1>6, Effects DEF CommitErase
  <2> QED
    BY <1>6, <2>1 DEF CommitErase, ramVars, TargetsErased, Erased
<1>7. CASE CommitHead
  <2>1. \A k \in PageSlots .. SectorSlots - 1 : Outcome[k] = mem[k]
    BY <1>1, <1>2, <1>7, Effects DEF CommitHead
  <2>2. \A k \in PageSlots .. SectorSlots - 1 : mem[k] = Blank
    BY <1>1, <1>7 DEF CommitHead, TargetsErased, Erased
  <2> QED
    BY <1>7, <2>1, <2>2 DEF CommitHead, ramVars, TargetsErased, Erased
<1>8. CASE CommitTailBegin
  BY <1>8 DEF CommitTailBegin, TargetsErased
<1>9. CASE CommitTailLaunch
  <2>1. CASE section = 0
    BY <1>9, <2>1 DEF CommitTailLaunch, ramVars, TargetsErased
  <2>2. CASE section = 1
    BY <1>1, <1>3, <1>4, <1>9, <2>2 DEF CommitTailLaunch, ramVars, TargetsErased, Erased
  <2> QED
    BY <2>1, <2>2 DEF Sections
<1>10. CASE ClearErase
  <2>1. \A k \in 0 .. BlockSlots - 1 : Outcome[k] = Blank
    BY <1>1, <1>2, <1>10, Effects DEF ClearErase
  <2> QED
    BY <1>10, <2>1 DEF ClearErase, ramVars, TargetsErased, Erased
<1>11. CASE ClearRestore
  <2>1. \A k \in PageSlots .. BlockSlots - 1 : Outcome[k] = mem[k]
    BY <1>1, <1>2, <1>11, Effects DEF ClearRestore
  <2>2. \A k \in PageSlots .. BlockSlots - 1 : mem[k] = Blank
    BY <1>1, <1>11 DEF ClearRestore, TargetsErased, Erased
  <2>3. section = 0 /\ i = BlockSlots
    BY <1>3, <1>11 DEF ClearRestore, EraseInPlace
  <2> QED
    BY <1>1, <1>3, <1>4, <1>11, <2>1, <2>2, <2>3
       DEF ClearRestore, ramVars, TargetsErased, Erased
<1>12. CASE EraseBlock
  <2>1. /\ pc = "erase" /\ i < EraseTo(section) /\ i % BlockSlots = 0
        /\ EraseFrom(section) <= i
        /\ mem' = Outcome /\ i' = i + BlockSlots /\ section' = section
        /\ pc' = "erase" /\ state' = state
    BY <1>12 DEF EraseBlock, EraseNext, ramVars, EraseInPlace
  <2>2. i + BlockSlots <= 2 * FlightSlots
    <3>1. EraseTo(section) % BlockSlots = 0 /\ EraseTo(section) \in Int
      BY SectionSize
    <3>2. (EraseTo(section) - i) % BlockSlots = 0
      BY <1>1, <2>1, <3>1, MultipleDiff
    <3>3. EraseTo(section) - i >= BlockSlots
      BY <1>1, <2>1, <3>1, <3>2, MultiplePositive
    <3> QED
      BY <1>1, <1>3, <3>1, <3>3
  <2>3. \A k \in DataMin(section) .. i + BlockSlots - 1 : k \in Slots
    BY <1>1, <1>2, <1>3, <2>2
  <2>4. \A k \in DataMin(section) .. i + BlockSlots - 1 :
           Outcome[k] = IF k \in i .. i + BlockSlots - 1 THEN Blank ELSE mem[k]
    BY <2>1, <2>3, Effects
  <2>5. \A k \in DataMin(section) .. i - 1 : mem[k] = Blank
    BY <2>1 DEF TargetsErased, Erased
  <2>6. \A k \in DataMin(section) .. i + BlockSlots - 1 : Outcome[k] = Blank
    BY <1>1, <1>3, <2>4, <2>5
  <2>7. Erased(DataMin(section), i - 1)'
    <3>1. DataMin(section)' = DataMin(section)
      BY <1>4, <2>1
    <3>2. (i - 1)' = i + BlockSlots - 1
      BY <1>1, <2>1
    <3>3. \A k \in DataMin(section) .. i + BlockSlots - 1 : mem'[k] = Blank
      BY <2>1, <2>6
    <3> QED
      BY <3>1, <3>2, <3>3 DEF Erased
  <2> QED
    BY <2>1, <2>7 DEF TargetsErased
<1>13. CASE EraseDone
  <2>1. /\ pc = "erase" /\ i >= DataMax(section) /\ mem' = mem /\ addr' = addr
        /\ section' = section /\ pc' = "dump" /\ addr = DataMin(section)
        /\ i <= EraseTo(section)
    BY <1>3, <1>13 DEF EraseDone, ramVars, AddrInPlace, Launching, EraseInPlace
  <2>2. \A k \in DataMin(section) .. i - 1 : mem[k] = Blank
    BY <2>1 DEF TargetsErased, Erased
  <2> QED
    BY <1>3, <1>4, <2>1, <2>2 DEF TargetsErased, Erased
<1>14. CASE Dump \/ Flush
  <2>1. /\ pc \in {"dump", "flush"} /\ mem' = Outcome /\ addr' = addr + 1
        /\ section' = section /\ pc' \in {"dump", "flush", "run"}
    BY <1>14 DEF Dump, Flush
  <2>2. addr \in Slots /\ addr \in DataMin(section) .. DataMax(section) - 1
    BY <2>1, TargetSlot
  <2>3. \A k \in addr + 1 .. DataMax(section) - 1 : Outcome[k] = mem[k]
    BY <1>1, <1>2, <1>3, <2>1, <2>2, Effects
  <2>4. \A k \in addr .. DataMax(section) - 1 : mem[k] = Blank
    BY <2>1 DEF TargetsErased, Erased
  <2> QED
    BY <1>3, <1>4, <2>1, <2>2, <2>3, <2>4 DEF TargetsErased, Erased
<1>15. CASE Begin \/ BeginFails \/ Launch \/ PowerLoss
  BY <1>15 DEF Begin, BeginFails, Launch, PowerLoss, ramVars, TargetsErased
<1>16. CASE WriteAfterLanding
  BY <1>5, <1>16 DEF WriteAfterLanding, Offer
<1>17. CASE WriteBeforeLaunch
  BY <1>5, <1>17 DEF WriteBeforeLaunch, Offer
<1>18. CASE WriteWhenFull
  BY <1>5, <1>18 DEF WriteWhenFull, Offer
<1>19. CASE WriteInFlight
  <2>1. /\ mem' = mem /\ section' = section /\ addr' = addr /\ pc' \in {"run", "flush"}
        /\ state = 1 /\ state' = 1
    BY <1>19 DEF WriteInFlight, Offer
  <2> QED
    BY <1>4, <2>1 DEF TargetsErased, Erased
<1>20. CASE Land
  BY <1>5, <1>20 DEF Land, flashVars
<1>21. CASE UNCHANGED vars
  BY <1>5, <1>21 DEF vars, flashVars, ramVars
<1> QED
  BY <1>6, <1>7, <1>8, <1>9, <1>10, <1>11, <1>12, <1>13, <1>14, <1>15, <1>16,
     <1>17, <1>18, <1>19, <1>20, <1>21 DEF Next, FlashStep, CallStep

-----------------------------------------------------------------------------
(* The ring before the launch.                                             *)
LEMMA RingStep ==
  ASSUME TypeInv, RingOrdered, [Next]_vars
  PROVE  RingOrdered'
<1> USE DEF TypeInv, TypeOK, Shape, Committing, Clearing, Launching, Phases
<1>1. BufLen \in Nat \ {0}
  BY Constants
<1>2. ASSUME packet_array' = packet_array, buf_idx' = buf_idx, seq' = seq,
             boots' = boots \/ seq = 0, state' = state, launchSeq' = launchSeq,
             pc' = "off" \/ (Committing' /\ after' = "begin") =>
               pc = "off" \/ (Committing /\ after = "begin"),
             Launching' \/ pc' = "dump" => Launching \/ pc = "dump"
      PROVE  RingOrdered'
  <2>1. \A k \in 0 .. BufLen - 1 : Recent(k)' = Recent(k)
    BY <1>1, <1>2 DEF Recent
  <2> QED
    BY <1>2, <2>1 DEF RingOrdered
<1>3. CASE WriteBeforeLaunch
  <2>1. /\ packet_array' = [packet_array EXCEPT ![buf_idx % BufLen] = Packet(boots, seq + 1)]
        /\ buf_idx' = buf_idx + 1 /\ seq' = seq + 1 /\ boots' = boots
        /\ pc = "run" /\ pc' = "run" /\ state = 0 /\ state' = 0
    BY <1>3 DEF WriteBeforeLaunch, Offer
  <2>2. buf_idx = seq /\ \A k \in 0 .. BufLen - 1 :
                            packet_array[(buf_idx + k) % BufLen] = Recent(k)
    BY <2>1 DEF RingOrdered
  <2>3. ASSUME NEW k \in 0 .. BufLen - 1
        PROVE  packet_array'[(buf_idx' + k) % BufLen] = Recent(k)'
    <3>1. buf_idx' + k = buf_idx + (k + 1) /\ buf_idx \in Int
      BY <2>1
    <3>2. buf_idx % BufLen \in 0 .. BufLen - 1
      BY <1>1, <3>1, ModDef
    <3>3. CASE k = BufLen - 1
      <4>1. (buf_idx + BufLen) % BufLen = buf_idx % BufLen
        BY <1>1, <3>1, ModShift
      <4>2. packet_array'[(buf_idx' + k) % BufLen] = Packet(boots, seq + 1)
        BY <1>1, <2>1, <3>1, <3>2, <3>3, <4>1
      <4>3. Recent(k)' = Packet(boots, seq + 1)
        BY <1>1, <2>1, <3>3 DEF Recent
      <4> QED
        BY <4>2, <4>3
    <3>4. CASE k # BufLen - 1
      <4>1. k + 1 \in 1 .. BufLen - 1
        BY <1>1, <3>4
      <4>2. (buf_idx + (k + 1)) % BufLen # buf_idx % BufLen
        BY <1>1, <3>1, <4>1, ModShift
      <4>3. (buf_idx + (k + 1)) % BufLen \in 0 .. BufLen - 1
        <5>1. buf_idx + (k + 1) \in Int
          BY <3>1
        <5> QED
          BY <1>1, <5>1, ModDef
      <4>4. packet_array'[(buf_idx' + k) % BufLen] = Recent(k + 1)
        BY <1>1, <2>1, <2>2, <3>1, <4>1, <4>2, <4>3
      <4>5. Recent(k)' = Recent(k + 1)
        BY <1>1, <2>1 DEF Recent
      <4> QED
        BY <4>4, <4>5
    <3> QED
      BY <3>3, <3>4
  <2> QED
    BY <2>1, <2>2, <2>3 DEF RingOrdered
<1>4. CASE Begin
  BY <1>2, <1>4 DEF Begin, RingOrdered
<1>5. CASE BeginFails
  BY <1>2, <1>5 DEF BeginFails, ramVars, RingOrdered
<1>6. CASE CommitErase
  BY <1>2, <1>6 DEF CommitErase, ramVars, history
<1>7. CASE CommitHead
  BY <1>2, <1>7 DEF CommitHead, ramVars, history
<1>8. CASE CommitTailBegin
  BY <1>2, <1>8 DEF CommitTailBegin, history
<1>9. CASE CommitTailLaunch
  BY <1>2, <1>9 DEF CommitTailLaunch, ramVars, history
<1>10. CASE ClearErase
  BY <1>2, <1>10 DEF ClearErase, ramVars, history
<1>11. CASE ClearRestore
  BY <1>2, <1>11 DEF ClearRestore, ramVars, history
<1>12. CASE EraseBlock
  BY <1>2, <1>12 DEF EraseBlock, ramVars, history
<1>13. CASE EraseDone
  BY <1>2, <1>13 DEF EraseDone, ramVars
<1>14. CASE Dump
  <2>1. CASE i + 1 < DumpStart(buf_idx) + BufLen
    BY <1>2, <1>14, <2>1 DEF Dump, history
  <2>2. CASE ~(i + 1 < DumpStart(buf_idx) + BufLen)
    BY <1>14, <2>2 DEF Dump, history, RingOrdered
  <2> QED
    BY <2>1, <2>2
<1>15. CASE Flush
  BY <1>15 DEF Flush, RingOrdered
<1>16. CASE WriteAfterLanding
  BY <1>16 DEF WriteAfterLanding, Offer, RingOrdered
<1>17. CASE WriteWhenFull
  BY <1>17 DEF WriteWhenFull, Offer, RingOrdered
<1>18. CASE WriteInFlight
  BY <1>18 DEF WriteInFlight, Offer, RingOrdered
<1>19. CASE Launch
  <2>1. \A k \in 0 .. BufLen - 1 : Recent(k)' = Recent(k)
    BY <1>1, <1>19 DEF Launch, Recent
  <2> QED
    BY <1>19, <2>1 DEF Launch, RingOrdered
<1>20. CASE Land
  BY <1>20 DEF Land, flashVars, history, RingOrdered
<1>21. CASE PowerLoss
  <2>1. /\ packet_array' = ZeroRing /\ buf_idx' = 0 /\ seq' = 0 /\ state' = 0
        /\ pc' = "off"
    BY <1>21 DEF PowerLoss
  <2>2. ASSUME NEW k \in 0 .. BufLen - 1
        PROVE  packet_array'[(buf_idx' + k) % BufLen] = Recent(k)'
    <3>1. (0 + k) % BufLen \in 0 .. BufLen - 1
      <4>1. 0 + k \in Int
        OBVIOUS
      <4> QED
        BY <1>1, <4>1, ModDef
    <3>2. Recent(k)' = ZeroPacket
      BY <1>1, <2>1 DEF Recent
    <3> QED
      BY <2>1, <3>1, <3>2 DEF ZeroRing
  <2> QED
    BY <2>1, <2>2 DEF RingOrdered
<1>22. CASE UNCHANGED vars
  BY <1>2, <1>22 DEF vars, flashVars, ramVars, history
<1> QED
  BY <1>3, <1>4, <1>5, <1>6, <1>7, <1>8, <1>9, <1>10, <1>11, <1>12, <1>13,
     <1>14, <1>15, <1>16, <1>17, <1>18, <1>19, <1>20, <1>21, <1>22
     DEF Next, FlashStep, CallStep

-----------------------------------------------------------------------------
(* In flight: every packet is in the flash or in the ring.                 *)
LEMMA CountedStep ==
  ASSUME TypeInv, AddrInPlace, RingOrdered, Counted, [Next]_vars
  PROVE  Counted'
<1> USE DEF TypeInv, TypeOK, Shape, Phases
<1>1. BufLen \in Nat \ {0}
  BY Constants
<1>2. ASSUME section' = section
      PROVE  /\ DataMin(section)' = DataMin(section)
             /\ DataMax(section)' = DataMax(section)
  BY <1>2 DEF DataMin, DataMax
<1>3. DataMin(section) \in Nat /\ DataMax(section) \in Nat
  BY SectionSize
<1>4. ASSUME state' # 1 \/ ~allow_write'
      PROVE  Counted'
  BY <1>4 DEF Counted
<1>5. CASE Dump
  <2>1. CASE i + 1 < DumpStart(buf_idx) + BufLen
    BY <1>4, <1>5, <2>1 DEF Dump
  <2>2. CASE ~(i + 1 < DumpStart(buf_idx) + BufLen)
    <3>1. /\ pc = "dump" /\ pc' = "run" /\ buf_idx' = 0 /\ addr' = addr + 1
          /\ seq' = seq /\ launchSeq' = launchSeq /\ section' = section
      BY <1>5, <2>2 DEF Dump, history
    <3>2. launchSeq = seq
      BY <3>1 DEF RingOrdered
    <3>3. addr' = DataMin(section) + BufLen
      BY <1>1, <1>3, <2>2, <3>1 DEF AddrInPlace, DumpStart
    <3> QED
      BY <1>1, <1>2, <1>3, <3>1, <3>2, <3>3 DEF Counted, GroupStart, Pending
  <2> QED
    BY <2>1, <2>2
<1>6. CASE Flush
  <2>1. /\ pc = "flush" /\ state = 1 /\ allow_write /\ addr' = addr + 1
        /\ section' = section /\ seq' = seq /\ launchSeq' = launchSeq
        /\ packet_array' = packet_array /\ boots' = boots
    BY <1>6 DEF Flush, history
  <2>2. /\ addr - i < DataMax(section)
        /\ seq - launchSeq = ((addr - i) - DataMin(section)) - BufLen + BufLen
        /\ \A k \in 0 .. BufLen - 1 :
             packet_array[k] = Packet(boots, seq - BufLen + 1 + k)
    BY <2>1 DEF Counted, AddrInPlace, GroupStart, Pending
  <2>3. CASE i + 1 < BufLen
    <3>1. pc' = "flush" /\ i' = i + 1
      BY <1>6, <2>1, <2>3 DEF Flush
    <3> QED
      BY <1>1, <1>2, <1>3, <2>1, <2>2, <3>1 DEF Counted, GroupStart, Pending
  <2>4. CASE ~(i + 1 < BufLen)
    <3>1. pc' = "run" /\ buf_idx' = 0 /\ i = BufLen - 1
      BY <1>1, <1>6, <2>1, <2>4 DEF Flush
    <3> QED
      BY <1>1, <1>2, <1>3, <2>1, <2>2, <3>1 DEF Counted, GroupStart, Pending
  <2> QED
    BY <2>3, <2>4
<1>7. CASE WriteInFlight
  <2>1. /\ pc = "run" /\ state = 1 /\ allow_write /\ addr < DataMax(section)
        /\ packet_array' = [packet_array EXCEPT ![buf_idx] = Packet(boots, seq + 1)]
        /\ buf_idx' = buf_idx + 1 /\ seq' = seq + 1 /\ launchSeq' = launchSeq
        /\ addr' = addr /\ section' = section /\ boots' = boots
        /\ buf_idx < BufLen
    BY <1>3, <1>7 DEF WriteInFlight, Offer, SectionFull
  <2>2. /\ seq - launchSeq = (addr - DataMin(section)) - BufLen + buf_idx
        /\ \A k \in 0 .. buf_idx - 1 :
             packet_array[k] = Packet(boots, seq - buf_idx + 1 + k)
    BY <2>1 DEF Counted, GroupStart, Pending
  <2>3. \A k \in 0 .. buf_idx :
          packet_array'[k] = Packet(boots, seq + 1 - (buf_idx + 1) + 1 + k)
    BY <1>1, <2>1, <2>2
  <2>4. CASE BufferFull(buf_idx + 1)
    <3>1. pc' = "flush" /\ i' = 0 /\ buf_idx + 1 = BufLen
      BY <1>1, <1>7, <2>1, <2>4 DEF WriteInFlight, BufferFull
    <3>2. GroupStart' = addr /\ Pending' = buf_idx + 1
      BY <2>1, <3>1 DEF GroupStart, Pending
    <3>3. seq' - launchSeq' = (addr - DataMin(section)) - BufLen + (buf_idx + 1)
      BY <1>1, <1>3, <2>1, <2>2
    <3>4. \A k \in 0 .. (buf_idx + 1) - 1 :
            packet_array'[k] = Packet(boots', seq' - (buf_idx + 1) + 1 + k)
      BY <2>1, <2>3
    <3> QED
      BY <1>2, <2>1, <3>2, <3>3, <3>4 DEF Counted
  <2>5. CASE ~BufferFull(buf_idx + 1)
    <3>1. pc' = "run"
      BY <1>7, <2>1, <2>5 DEF WriteInFlight
    <3> QED
      BY <1>1, <1>2, <1>3, <2>1, <2>2, <2>3, <3>1 DEF Counted, GroupStart, Pending
  <2> QED
    BY <2>4, <2>5
<1>8. CASE WriteAfterLanding
  BY <1>4, <1>8 DEF WriteAfterLanding, Offer
<1>9. CASE WriteBeforeLaunch
  BY <1>4, <1>9 DEF WriteBeforeLaunch, Offer
<1>10. CASE WriteWhenFull
  <2>1. /\ addr' = addr /\ pc' = "run" /\ section' = section
        /\ ~(addr < DataMax(section))
    BY <1>3, <1>10 DEF WriteWhenFull, Offer, SectionFull
  <2> QED
    BY <1>2, <2>1 DEF Counted, GroupStart
<1>11. CASE Land
  BY <1>4, <1>11 DEF Land
<1>12. CASE Begin \/ BeginFails \/ Launch \/ PowerLoss
  BY <1>4, <1>12 DEF Begin, BeginFails, Launch, PowerLoss, ramVars
<1>13. CASE CommitErase \/ CommitHead \/ CommitTailBegin \/ CommitTailLaunch
            \/ ClearErase \/ ClearRestore \/ EraseBlock \/ EraseDone
  BY <1>4, <1>13 DEF CommitErase, CommitHead, CommitTailBegin, CommitTailLaunch,
     ClearErase, ClearRestore, EraseBlock, EraseDone, ramVars
<1>14. CASE UNCHANGED vars
  BY <1>2, <1>14 DEF vars, flashVars, ramVars, history, Counted, GroupStart, Pending
<1> QED
  BY <1>5, <1>6, <1>7, <1>8, <1>9, <1>10, <1>11, <1>12, <1>13, <1>14
     DEF Next, FlashStep, CallStep

(* The packet about to be programmed is the one due at its slot.           *)
LEMMA NextIsDue ==
  ASSUME TypeInv, AddrInPlace, RingOrdered, Counted
  PROVE  /\ pc = "dump" =>
              /\ packet_array[i % BufLen] \in Packets
              /\ packet_array[i % BufLen] = Due(addr - DataMin(section))
         /\ pc = "flush" =>
              /\ packet_array[i] \in Packets
              /\ packet_array[i] = Due(addr - DataMin(section))
<1> USE DEF TypeInv, TypeOK, Shape, Phases
<1>1. BufLen \in Nat \ {0} /\ DataMin(section) \in Nat
  BY Constants, SectionSize
<1>2. ASSUME pc = "dump"
      PROVE  /\ packet_array[i % BufLen] \in Packets
             /\ packet_array[i % BufLen] = Due(addr - DataMin(section))
  <2> DEFINE k == i - buf_idx
  <2>1. k \in 0 .. BufLen - 1 /\ i = buf_idx + k /\ addr - DataMin(section) = k
    BY <1>1, <1>2 DEF AddrInPlace
  <2>2. /\ launchSeq = seq /\ packet_array[(buf_idx + k) % BufLen] = Recent(k)
    BY <1>2, <2>1 DEF RingOrdered
  <2>3. Recent(k) = Due(k)
    BY <2>2 DEF Recent, Due
  <2>4. i % BufLen \in 0 .. BufLen - 1
    <3>1. i \in Int
      OBVIOUS
    <3> QED
      BY <1>1, <3>1, ModDef
  <2> QED
    BY <2>1, <2>2, <2>3, <2>4
<1>3. ASSUME pc = "flush"
      PROVE  /\ packet_array[i] \in Packets
             /\ packet_array[i] = Due(addr - DataMin(section))
  <2>1. /\ seq - launchSeq = (addr - i) - DataMin(section)
        /\ packet_array[i] = Packet(boots, seq - BufLen + 1 + i)
        /\ DataMin(section) + BufLen <= addr - i
    BY <1>1, <1>3 DEF Counted, AddrInPlace, GroupStart, Pending
  <2>2. launchSeq - BufLen + 1 + (addr - DataMin(section)) = seq - BufLen + 1 + i
    <3>1. /\ launchSeq \in Int /\ seq \in Int /\ i \in Int /\ addr \in Int
          /\ BufLen \in Int /\ DataMin(section) \in Int
      BY <1>1
    <3> HIDE DEF TypeInv, TypeOK, Shape, Phases
    <3> DEFINE d == DataMin(section)
    <3>2. d \in Int /\ seq - launchSeq = (addr - i) - d
      BY <2>1, <3>1
    <3> HIDE DEF d
    <3>3. launchSeq - BufLen + 1 + (addr - d) = seq - BufLen + 1 + i
      BY <3>1, <3>2, SMT
    <3> QED
      BY <3>3 DEF d
  <2>3. ~(launchSeq - BufLen + 1 + (addr - DataMin(section)) <= 0)
    BY <1>1, <1>3, <2>1
  <2> QED
    BY <1>3, <2>1, <2>2, <2>3 DEF Due
<1> QED
  BY <1>2, <1>3

LEMMA WrittenStep ==
  ASSUME TypeInv, AddrInPlace, TargetsErased, RingOrdered, Counted, FlightWritten,
         [Next]_vars
  PROVE  FlightWritten'
<1> USE DEF TypeInv, TypeOK, Shape, Phases, Logging
<1>1. DataMin(section) \in Nat /\ DataMax(section) \in Nat
  BY SectionSize
<1>2. ASSUME section' = section
      PROVE  DataMin(section)' = DataMin(section)
  BY <1>2 DEF DataMin
<1>3. ASSUME launchSeq' = launchSeq, boots' = boots, NEW k
      PROVE  Due(k)' = Due(k)
  BY <1>3 DEF Due
<1>4. ASSUME ~Logging'
      PROVE  FlightWritten'
  BY <1>4 DEF FlightWritten
<1>5. CASE Dump \/ Flush
  <2>1. /\ pc \in {"dump", "flush"} /\ mem' = Outcome /\ addr' = addr + 1
        /\ section' = section /\ launchSeq' = launchSeq /\ boots' = boots
    BY <1>5 DEF Dump, Flush, history
  <2>2. /\ addr \in Slots /\ addr \in DataMin(section) .. DataMax(section) - 1
    BY <2>1, TargetSlot
  <2>3. mem[addr] = Blank
    BY <1>1, <2>1, <2>2 DEF TargetsErased, Erased
  <2>4. mem'[addr] \in Packets /\ mem'[addr] = Due(addr - DataMin(section))
    BY <2>1, <2>2, <2>3, Effects, NextIsDue, ProgramErased
  <2>5. ASSUME NEW a \in DataMin(section) .. addr - 1
        PROVE  mem'[a] \in Packets /\ mem'[a] = Due(a - DataMin(section))
    <3>1. a \in Slots /\ a # addr
      BY <1>1, <2>2, Geometry DEF Slots
    <3>2. mem'[a] = mem[a]
      BY <2>1, <2>2, <3>1, Effects
    <3> QED
      BY <2>1, <3>2 DEF FlightWritten
  <2>6. \A a \in DataMin(section) .. addr' - 1 :
          mem'[a] \in Packets /\ mem'[a] = Due(a - DataMin(section))
    BY <1>1, <2>1, <2>2, <2>4, <2>5
  <2> QED
    BY <1>2, <1>3, <2>1, <2>6 DEF FlightWritten
<1>6. ASSUME mem' = mem, addr' = addr, section' = section, boots' = boots,
             launchSeq' = launchSeq, Logging' => Logging
      PROVE  FlightWritten'
  BY <1>2, <1>3, <1>6 DEF FlightWritten
<1>7. CASE EraseDone
  <2>1. addr' = DataMin(section) /\ section' = section
    BY <1>7 DEF EraseDone, ramVars, AddrInPlace, Launching
  <2> QED
    BY <1>1, <1>2, <2>1 DEF FlightWritten
<1>8. CASE WriteAfterLanding
  BY <1>6, <1>8 DEF WriteAfterLanding, Offer
<1>9. CASE WriteBeforeLaunch
  BY <1>6, <1>9 DEF WriteBeforeLaunch, Offer
<1>10. CASE WriteWhenFull
  BY <1>6, <1>10 DEF WriteWhenFull, Offer
<1>11. CASE WriteInFlight
  BY <1>6, <1>11 DEF WriteInFlight, Offer
<1>12. CASE Land
  BY <1>6, <1>12 DEF Land, flashVars, history
<1>13. CASE Begin \/ BeginFails \/ Launch \/ PowerLoss
  BY <1>4, <1>13 DEF Begin, BeginFails, Launch, PowerLoss, ramVars
<1>14. CASE CommitErase \/ CommitHead \/ CommitTailBegin \/ CommitTailLaunch
            \/ ClearErase \/ ClearRestore \/ EraseBlock
  BY <1>4, <1>14 DEF CommitErase, CommitHead, CommitTailBegin, CommitTailLaunch,
     ClearErase, ClearRestore, EraseBlock, ramVars
<1>15. CASE UNCHANGED vars
  BY <1>6, <1>15 DEF vars, flashVars, ramVars, history
<1> QED
  BY <1>5, <1>7, <1>8, <1>9, <1>10, <1>11, <1>12, <1>13, <1>14, <1>15
     DEF Next, FlashStep, CallStep

-----------------------------------------------------------------------------
(* If the power goes while the settings' page is whole, or at a chip that  *)
(* was not found, the page is kept; any other slot is kept or lost.        *)
LEMMA WholeLoss ==
  ASSUME TypeInv, EraseInPlace, AddrInPlace, PowerLoss, PageWhole \/ pc = "halted"
  PROVE  /\ mem'[0] = mem[0]
         /\ \A s \in Slots : mem'[s] \in {mem[s], Garbled}
<1> USE DEF TypeInv, TypeOK, Shape, Phases, PageWhole
<1>1. mem' \in {mem, Torn}
  BY DEF PowerLoss
<1>2. 0 \in Slots /\ PageSlots \in Nat \ {0} /\ BlockSlots \in Nat \ {0}
  BY Geometry DEF Slots
<1>3. \A s \in Slots : mem'[s] \in {mem[s], Garbled}
  BY <1>1 DEF Torn
<1>4. Outcome[0] = mem[0]
  <2>1. CASE pc \in {"halted", "run", "commit_tail"}
    BY <1>2, <2>1, Effects
  <2>2. CASE pc \in {"dump", "flush"}
    <3>1. addr \in Slots /\ addr # 0
      BY <1>2, <2>2, TargetSlot
    <3> QED
      BY <1>2, <2>2, <3>1, Effects
  <2>3. CASE pc = "erase"
    <3>1. EraseFrom(section) >= BlockSlots
      BY Geometry DEF EraseFrom
    <3>2. i % BlockSlots = 0 /\ 0 < i
      BY <1>2, <2>3, <3>1, SectionType DEF EraseInPlace
    <3> QED
      BY <1>2, <2>3, <3>2, Effects
  <2> QED
    BY <2>1, <2>2, <2>3
<1>5. Torn[0] = mem[0]
  BY <1>2, <1>4 DEF Torn
<1> QED
  BY <1>1, <1>3, <1>5

(* The turn of the sections.                                               *)
LEMMA TurnStep ==
  ASSUME TypeInv, EraseInPlace, AddrInPlace, SettingsInPlace, RingOrdered, TurnInPlace,
         [Next]_vars
  PROVE  TurnInPlace'
<1> USE DEF TypeInv, TypeOK, Shape, Phases, Committing, Clearing, Logging, Sections,
            flashVars, ramVars, history, InTurn, LatestFlightKept
<1>1. CASE Begin
  <2>1. /\ pc = "off" /\ state = 0 /\ state' = 0 /\ pc' = "commit_erase"
        /\ latest' = latest /\ sound' = sound
    BY <1>1 DEF Begin, RingOrdered
  <2>2. PICK r \in SettingsIn(mem[0]) :
          /\ section' = ChooseSection(r.last)
          /\ settings' = [r EXCEPT !.last = NextLast(r.last)]
    BY <1>1 DEF Begin
  <2>3. sound >= 1 => mem[0] \in Settings /\ r = mem[0]
    <3>1. sound >= 1 => mem[0] \in Settings
      BY <2>1 DEF TurnInPlace
    <3>2. mem[0] \in Settings => r = mem[0]
      BY <2>2, Zenon DEF SettingsIn
    <3> QED
      BY <3>1, <3>2
  <2>4. r.last \in Int /\ settings'.last = NextLast(r.last)
    <3>1. CASE mem[0] \in Settings
      <4>1. r = mem[0]
        BY <2>2, <3>1, Zenon DEF SettingsIn
      <4> QED
        BY <2>2, <3>1, <4>1 DEF Settings
    <3>2. CASE mem[0] \notin Settings
      <4>1. r \in [last : IF mem[0] = Blank THEN {AllOnes} ELSE TornInts,
                   start : {[f \in Sections |-> AllOnes]}]
        BY <2>2, <3>2, Zenon DEF SettingsIn
      <4> QED
        BY <2>2, <4>1 DEF AllOnes, TornInts
    <3> QED
      BY <3>1, <3>2
  <2>5. NextLast(r.last) \in -1 .. 1
    BY <2>4 DEF NextLast, CRem2
  <2>6. r.last \in -1 .. 1 => NextLast(r.last) \in Sections
    BY DEF NextLast, CRem2
  <2>7. r.last \in Sections => NextLast(r.last) = 1 - r.last /\ section' = 1 - r.last
    BY <2>2 DEF NextLast, CRem2, ChooseSection
  <2>8. /\ sound >= 1 => r.last \in -1 .. 1
        /\ sound >= 2 => r.last \in Sections
        /\ sound >= 3 => latest \in {-1, r.last}
    BY <2>1, <2>3 DEF TurnInPlace
  <2> QED
    BY <2>1, <2>4, <2>5, <2>6, <2>7, <2>8 DEF TurnInPlace
<1>2. CASE BeginFails
  BY <1>2 DEF BeginFails, TurnInPlace
<1>3. CASE CommitErase \/ CommitHead \/ CommitTailBegin \/ CommitTailLaunch
           \/ ClearErase \/ ClearRestore \/ EraseBlock
  <2>1. /\ pc \notin {"off", "halted", "run", "dump", "flush"}
        /\ pc' \notin {"off", "halted", "dump"}
        /\ settings' = settings /\ section' = section /\ state' = state
        /\ latest' = latest /\ sound' = sound
    BY <1>3 DEF CommitErase, CommitHead, CommitTailBegin, CommitTailLaunch,
       ClearErase, ClearRestore, EraseBlock
  <2> QED
    BY <2>1 DEF TurnInPlace
<1>4. CASE EraseDone
  BY <1>4 DEF EraseDone, TurnInPlace
<1>5. CASE Dump
  BY <1>5 DEF Dump, TurnInPlace
<1>6. CASE Flush
  BY <1>6 DEF Flush, TurnInPlace
<1>7. CASE WriteAfterLanding \/ WriteBeforeLaunch \/ WriteWhenFull \/ WriteInFlight
  <2>1. /\ pc = "run" /\ pc' \in {"run", "flush"} /\ (pc' = "flush" => state # 0)
        /\ settings' = settings /\ section' = section /\ state' = state
        /\ latest' = latest /\ sound' = sound
    BY <1>7 DEF WriteAfterLanding, WriteBeforeLaunch, WriteWhenFull, WriteInFlight, Offer
  <2> QED
    BY <2>1 DEF TurnInPlace
<1>8. CASE Launch
  <2>1. settings'.last = settings.last
    BY <1>8 DEF Launch, Stamped, Settings
  <2> QED
    BY <1>8, <2>1 DEF Launch, TurnInPlace
<1>9. CASE Land
  BY <1>9 DEF Land, TurnInPlace
<1>10. CASE PowerLoss
  <2>1. pc # "off" /\ pc' = "off"
    BY <1>10 DEF PowerLoss
  <2>2. CASE pc = "halted"
    <3>1. mem'[0] = mem[0]
      BY <1>10, <2>2, WholeLoss
    <3>2. latest' = latest /\ sound' = sound
      BY <1>10, <2>2 DEF PowerLoss
    <3> QED
      BY <2>1, <2>2, <3>1, <3>2 DEF TurnInPlace
  <2>3. CASE pc # "halted" /\ PageWhole
    <3>1. mem'[0] = mem[0] /\ mem[0] = settings
      BY <1>10, <2>3, WholeLoss DEF SettingsInPlace, SettingsRestored
    <3>2. /\ latest' = IF Logging THEN latest ELSE -1
          /\ sound' = IF sound < 3 THEN sound + 1 ELSE sound
      BY <1>10, <2>3 DEF PowerLoss
    <3>3. latest' \in {-1, section} /\ sound \in 0 .. 3
      BY <2>1, <2>3, <3>2 DEF TurnInPlace
    <3>4. /\ settings.last \in -1 .. 1
          /\ sound >= 1 => settings.last \in Sections
          /\ sound >= 2 => settings.last = section
      BY <2>1, <2>3 DEF TurnInPlace
    <3> QED
      BY <2>1, <3>1, <3>2, <3>3, <3>4 DEF TurnInPlace
  <2>4. CASE pc # "halted" /\ ~PageWhole
    <3>1. sound' = 0
      BY <1>10, <2>4 DEF PowerLoss
    <3> QED
      BY <2>1, <3>1 DEF TurnInPlace
  <2> QED
    BY <2>2, <2>3, <2>4
<1>11. CASE UNCHANGED vars
  BY <1>11 DEF vars, TurnInPlace
<1> QED
  BY <1>1, <1>2, <1>3, <1>4, <1>5, <1>6, <1>7, <1>8, <1>9, <1>10, <1>11
     DEF Next, FlashStep, CallStep

(* The write that ends commit_settings programs nothing but what was read  *)
(* from the rest of the sector.                                            *)
LEMMA TailSlot ==
  ASSUME TypeInv, pc = "commit_tail", NEW s \in Slots
  PROVE  \/ Outcome[s] = mem[s]
         \/ \E k \in PageSlots + 1 .. SectorSlots :
              Outcome[s] = Program(mem[s], buffer[k])
<1> DEFINE n == SectorSlots - PageSlots
           L == Latched(PageSlots, n, s)
<1>1. PageSlots \in Nat \ {0} /\ SectorSlots \in Nat /\ n \in Int /\ s \in Int
  BY Geometry DEF Slots
<1>2. Outcome = Write(mem, PageSlots, RestOfSector, n)
  BY Commands
<1>3. CASE s \in Aligned(PageSlots, PageSlots) /\ L >= PageSlots
  <2>1. L \in Int /\ L <= PageSlots + n - 1
    <3>1. PageSlots \in Int
      BY <1>1
    <3> HIDE DEF n
    <3> QED
      BY <1>1, <3>1, LatchedRange, Zenon
  <2>2. Outcome[s] = Program(mem[s], RestOfSector[L - PageSlots + 1])
    BY <1>2, <1>3 DEF Write
  <2> HIDE DEF L
  <2>3. L - PageSlots + 1 \in 1 .. SectorSlots - PageSlots
        /\ PageSlots + (L - PageSlots + 1) = L + 1
        /\ L + 1 \in PageSlots + 1 .. SectorSlots
    BY <1>1, <1>3, <2>1
  <2>4. RestOfSector[L - PageSlots + 1] = buffer[L + 1]
    BY <2>3 DEF RestOfSector
  <2> QED
    BY <2>2, <2>3, <2>4
<1>4. CASE ~(s \in Aligned(PageSlots, PageSlots) /\ L >= PageSlots)
  BY <1>2, <1>4 DEF Write
<1> QED
  BY <1>3, <1>4

(* What a command can bring into the data of a section: the packets of the *)
(* running boot, when it is the section of the boot, or what the settings' *)
(* sector held before, when it is flight 0. All else is lost or kept.      *)
LEMMA DataSlot ==
  ASSUME TypeInv, EraseInPlace, pc \in {"dump", "flush"} => AddrInPlace,
         NEW f \in Sections, NEW a \in DataMin(f) .. DataMax(f) - 1,
         pc \in {"dump", "flush"} => f # section
  PROVE  /\ a \in Slots
         /\ \/ Outcome[a] \in {mem[a], Blank, Garbled}
            \/ /\ pc = "commit_tail" /\ f = 0
               /\ \E k \in PageSlots + 1 .. SectorSlots : Outcome[a] = buffer[k]
<1> USE DEF TypeInv, TypeOK, Shape, Phases
<1>1. /\ PageSlots \in Nat \ {0} /\ SectorSlots \in Nat \ {0}
      /\ FlightSlots \in Nat /\ SectorSlots <= FlightSlots
  BY Geometry
<1>2. /\ a \in Nat /\ PageSlots <= a /\ a \in Slots
      /\ f = 0 => a < FlightSlots
      /\ f = 1 => FlightSlots <= a
  <2>1. CASE f = 0
    BY <1>1, <2>1 DEF Slots, DataMin, DataMax
  <2>2. CASE f = 1
    BY <1>1, <2>2, Geometry DEF Slots, DataMin, DataMax
  <2> QED
    BY <2>1, <2>2 DEF Sections
<1>3. CASE pc \in {"commit_erase", "commit_head", "clear_erase", "clear_restore",
                   "off", "halted", "run"}
  BY <1>1, <1>2, <1>3, Effects
<1>4. CASE pc = "commit_tail"
  <2>1. CASE f = 0
    BY <1>2, <1>4, <2>1, TailSlot DEF Program
  <2>2. CASE f = 1
    BY <1>1, <1>2, <1>4, <2>2, Effects
  <2> QED
    BY <2>1, <2>2 DEF Sections
<1>5. CASE pc = "erase"
  BY <1>2, <1>5, Effects DEF EraseInPlace
<1>6. CASE pc \in {"dump", "flush"}
  <2>1. addr \in Slots /\ addr \in DataMin(section) .. DataMax(section) - 1
    BY <1>6, TargetSlot
  <2>2. a # addr
    <3>1. CASE f = 0
      BY <1>1, <1>2, <1>6, <2>1, <3>1 DEF Sections, DataMin, DataMax
    <3>2. CASE f = 1
      BY <1>1, <1>2, <1>6, <2>1, <3>2 DEF Sections, DataMin, DataMax
    <3> QED
      BY <3>1, <3>2 DEF Sections
  <2> QED
    BY <1>2, <1>6, <2>1, <2>2, Effects
<1> QED
  BY <1>2, <1>3, <1>4, <1>5, <1>6

LEMMA DataKept ==
  ASSUME TypeInv, EraseInPlace, pc \in {"dump", "flush"} => AddrInPlace,
         mem' \in {mem, Outcome},
         NEW f \in Sections, NEW b, DataOfBoot(f, b),
         pc \in {"dump", "flush"} => f # section,
         pc = "commit_tail" /\ f = 0 =>
           \A k \in PageSlots + 1 .. SectorSlots : OfBoot(buffer[k], b)
  PROVE  \A a \in DataMin(f) .. DataMax(f) - 1 : OfBoot(mem'[a], b)
<1> SUFFICES ASSUME NEW a \in DataMin(f) .. DataMax(f) - 1
             PROVE  OfBoot(mem'[a], b)
  OBVIOUS
<1>1. Blank \notin Packets /\ Garbled \notin Packets
  BY SentinelAssumption
<1>2. OfBoot(mem[a], b)
  BY DEF DataOfBoot
<1>3. CASE mem'[a] \in {mem[a], Blank, Garbled}
  BY <1>1, <1>2, <1>3 DEF OfBoot
<1>4. CASE mem'[a] \notin {mem[a], Blank, Garbled}
  <2>1. mem'[a] = Outcome[a]
    BY <1>4
  <2>2. pc = "commit_tail" /\ f = 0
        /\ \E k \in PageSlots + 1 .. SectorSlots : Outcome[a] = buffer[k]
    BY <1>4, <2>1, DataSlot
  <2>3. PICK k \in PageSlots + 1 .. SectorSlots : mem'[a] = buffer[k]
    BY <2>1, <2>2
  <2> QED
    BY <2>2, <2>3 DEF OfBoot
<1> QED
  BY <1>3, <1>4

(* The packets of the flight being recorded are of the running boot.       *)
LEMMA OwnFlight ==
  ASSUME TypeInv, TargetsErased, FlightWritten, Logging
  PROVE  DataOfBoot(section, boots)
<1> SUFFICES ASSUME NEW a \in DataMin(section) .. DataMax(section) - 1
             PROVE  OfBoot(mem[a], boots)
  BY DEF DataOfBoot
<1> USE DEF TypeInv, TypeOK
<1>1. addr \in Nat /\ a \in Int
  BY SectionSize
<1>2. CASE a < addr
  <2>1. mem[a] = Due(a - DataMin(section))
    BY <1>1, <1>2, SectionSize DEF FlightWritten
  <2>2. Due(a - DataMin(section)).boot \in {0, boots}
    BY DEF Due, ZeroPacket, Packet
  <2> QED
    BY <2>1, <2>2 DEF OfBoot
<1>3. CASE a >= addr
  <2>1. mem[a] = Blank
    BY <1>1, <1>3, SectionSize DEF TargetsErased, Erased
  <2> QED
    BY <2>1, SentinelAssumption DEF OfBoot
<1> QED
  BY <1>1, <1>2, <1>3

(* The rest of the sector of the settings is data of flight 0.             *)
LEMMA SectorRead ==
  ASSUME NEW b, DataOfBoot(0, b)
  PROVE  \A k \in PageSlots + 1 .. SectorSlots : OfBoot(Read(mem, 0, SectorSlots)[k], b)
<1> SUFFICES ASSUME NEW k \in PageSlots + 1 .. SectorSlots
             PROVE  OfBoot(Read(mem, 0, SectorSlots)[k], b)
  OBVIOUS
<1>1. /\ PageSlots \in Nat /\ SectorSlots \in Nat /\ FlightSlots \in Nat
      /\ SectorSlots <= FlightSlots
  BY Geometry
<1>2. k \in 1 .. SectorSlots /\ 0 + k - 1 \in DataMin(0) .. DataMax(0) - 1
  BY <1>1 DEF DataMin, DataMax
<1>3. Read(mem, 0, SectorSlots)[k] = mem[0 + k - 1]
  BY <1>2 DEF Read
<1> QED
  BY <1>2, <1>3 DEF DataOfBoot

(* The boots that stamped what the sections hold.                          *)
LEMMA StampsStep ==
  ASSUME IInv, [Next]_vars
  PROVE  StampsInPlace'
<1>1. /\ TypeInv /\ EraseInPlace /\ AddrInPlace /\ SettingsInPlace /\ TargetsErased
      /\ RingOrdered /\ FlightWritten /\ StampsInPlace
  BY DEF IInv
<1> USE DEF TypeInv, TypeOK, Shape, Phases, Committing, Clearing, Launching, Logging,
            flashVars, ramVars, history
<1>2. section \in Sections /\ stamped \subseteq Sections
  BY <1>1
<1>3. CASE Begin
  <2>1. /\ state = 0 /\ state' = 0 /\ pc = "off" /\ pc' = "commit_erase"
        /\ after' = "begin" /\ mem' = mem /\ stamped' = stamped
        /\ buffer' = Read(mem, 0, SectorSlots)
    BY <1>1, <1>3 DEF Begin, RingOrdered
  <2>2. ASSUME NEW f \in stamped
        PROVE  settings'.start = mem[0].start /\ DataOfBoot(f, mem[0].start[f])
    <3>1. mem[0] \in Settings /\ DataOfBoot(f, mem[0].start[f])
      BY <1>1, <2>1, <2>2 DEF StampsInPlace
    <3>2. SettingsIn(mem[0]) = {mem[0]}
      BY <3>1, Zenon DEF SettingsIn
    <3>3. settings' = [mem[0] EXCEPT !.last = NextLast(mem[0].last)]
      BY <1>3, <3>2 DEF Begin
    <3>4. settings'.start = mem[0].start
      BY <3>1, <3>3 DEF Settings
    <3> QED
      BY <3>1, <3>4
  <2>3. ASSUME NEW f \in stamped
        PROVE  DataOfBoot(f, settings.start[f])'
    BY <2>1, <2>2, <2>3 DEF DataOfBoot, DataMin, DataMax
  <2>4. 0 \in stamped =>
          \A k \in PageSlots + 1 .. SectorSlots : OfBoot(buffer'[k], settings'.start[0])
    BY <2>1, <2>2, SectorRead
  <2> QED
    BY <2>1, <2>3, <2>4 DEF StampsInPlace
<1>4. CASE BeginFails
  BY <1>1, <1>4 DEF BeginFails, RingOrdered, StampsInPlace, DataOfBoot, DataMin, DataMax
<1>5. CASE FlashStep
  <2>1. /\ pc \notin {"off", "halted"} /\ pc' \notin {"off", "halted"}
        /\ mem' \in {mem, Outcome} /\ settings' = settings /\ section' = section
        /\ boots' = boots /\ after' = after
        /\ stamped' = stamped \/ (EraseDone /\ stamped' = stamped \cup {section})
    BY <1>5 DEF FlashStep, CommitErase, CommitHead, CommitTailBegin, CommitTailLaunch,
       ClearErase, ClearRestore, EraseBlock, EraseDone, Dump, Flush
  <2>2. Launching' \/ Logging' => Launching \/ Logging
    BY <1>5 DEF FlashStep, CommitErase, CommitHead, CommitTailBegin, CommitTailLaunch,
       ClearErase, ClearRestore, EraseBlock, EraseDone, Dump, Flush
  <2>3. Committing' => Committing /\ buffer' = buffer /\ stamped' = stamped
    BY <1>5 DEF FlashStep, CommitErase, CommitHead, CommitTailBegin, CommitTailLaunch,
       ClearErase, ClearRestore, EraseBlock, EraseDone, Dump, Flush
  <2>4. Launching' => Launching /\ ~EraseDone
    BY <1>5 DEF FlashStep, CommitErase, CommitHead, CommitTailBegin, CommitTailLaunch,
       ClearErase, ClearRestore, EraseBlock, EraseDone, Dump, Flush
  <2>5. ASSUME NEW f \in stamped, ~(f = section /\ pc \in {"dump", "flush"})
        PROVE  DataOfBoot(f, settings.start[f])'
    <3>1. f \in Sections /\ DataOfBoot(f, settings.start[f])
      BY <1>1, <1>2, <2>1 DEF StampsInPlace
    <3>2. pc = "commit_tail" /\ f = 0 =>
            \A k \in PageSlots + 1 .. SectorSlots : OfBoot(buffer[k], settings.start[f])
      BY <1>1, <2>1 DEF StampsInPlace
    <3>3. \A a \in DataMin(f) .. DataMax(f) - 1 : OfBoot(mem'[a], settings.start[f])
      BY <1>1, <2>1, <2>5, <3>1, <3>2, DataKept
    <3> QED
      BY <2>1, <3>3 DEF DataOfBoot, DataMin, DataMax
  <2>6. Logging' => DataOfBoot(section, settings.start[section])'
    <3> SUFFICES ASSUME Logging' PROVE DataOfBoot(section, settings.start[section])'
      OBVIOUS
    <3>1. TypeInv' /\ TargetsErased' /\ FlightWritten'
      BY TypeStep, TargetsStep, WrittenStep DEF IInv
    <3>2. (TypeInv /\ TargetsErased /\ FlightWritten /\ Logging
             => DataOfBoot(section, boots))'
      BY OwnFlight, PTL
    <3>3. DataOfBoot(section, boots)'
      BY <3>1, <3>2
    <3>4. settings'.start[section'] = boots'
      BY <1>1, <2>1, <2>2 DEF StampsInPlace
    <3> QED
      BY <3>3, <3>4 DEF DataOfBoot
  <2>7. EraseDone \/ pc \in {"dump", "flush"} => Logging'
    BY <1>1, <1>5 DEF FlashStep, CommitErase, CommitHead, CommitTailBegin, CommitTailLaunch,
       ClearErase, ClearRestore, EraseBlock, EraseDone, Dump, Flush
  <2>8. ASSUME NEW f \in stamped'
        PROVE  DataOfBoot(f, settings.start[f])'
    <3>1. CASE f = section /\ Logging'
      BY <2>1, <2>6, <3>1 DEF DataOfBoot, DataMin, DataMax
    <3>2. CASE ~(f = section /\ Logging')
      BY <2>1, <2>5, <2>7, <2>8, <3>2
    <3> QED
      BY <3>1, <3>2
  <2>9. Launching' \/ Logging' => settings'.start[section'] = boots'
    BY <1>1, <2>1, <2>2 DEF StampsInPlace
  <2>10. Launching' => section' \notin stamped'
    BY <1>1, <2>1, <2>4 DEF StampsInPlace
  <2>11. Committing' /\ 0 \in stamped' =>
           \A k \in PageSlots + 1 .. SectorSlots : OfBoot(buffer'[k], settings'.start[0])
    BY <1>1, <2>1, <2>3 DEF StampsInPlace
  <2> QED
    BY <2>1, <2>8, <2>9, <2>10, <2>11 DEF StampsInPlace
<1>6. CASE WriteAfterLanding \/ WriteBeforeLaunch \/ WriteWhenFull \/ WriteInFlight \/ Land
  <2>1. /\ pc = "run" /\ pc' \in {"run", "flush"} /\ (pc' = "flush" => state # 0)
        /\ settings' = settings /\ section' = section /\ state' = state
        /\ mem' = mem /\ boots' = boots /\ stamped' = stamped
    BY <1>6 DEF WriteAfterLanding, WriteBeforeLaunch, WriteWhenFull, WriteInFlight, Offer,
       Land
  <2> QED
    BY <1>1, <2>1 DEF StampsInPlace, DataOfBoot, DataMin, DataMax
<1>7. CASE Launch
  <2>1. /\ pc = "run" /\ state = 0 /\ state' = 0 /\ pc' = "commit_erase"
        /\ after' = "launch" /\ mem' = mem /\ section' = section /\ boots' = boots
        /\ stamped' = stamped \ {section} /\ buffer' = Read(mem, 0, SectorSlots)
        /\ settings' = [settings EXCEPT !.start[section] = boots]
    BY <1>7 DEF Launch, Stamped
  <2>2. settings'.start[section] = boots
    BY <1>1, <2>1 DEF Settings
  <2>3. ASSUME NEW f \in stamped'
        PROVE  /\ f \in stamped /\ settings'.start[f] = settings.start[f]
               /\ DataOfBoot(f, settings.start[f])
    <3>1. f \in stamped /\ f # section /\ f \in Sections
      BY <1>2, <2>1, <2>3
    <3> QED
      BY <1>1, <2>1, <3>1 DEF Settings, StampsInPlace
  <2>4. ASSUME NEW f \in stamped'
        PROVE  DataOfBoot(f, settings.start[f])'
    BY <2>1, <2>3, <2>4 DEF DataOfBoot, DataMin, DataMax
  <2>5. 0 \in stamped' =>
          \A k \in PageSlots + 1 .. SectorSlots : OfBoot(buffer'[k], settings'.start[0])
    BY <2>1, <2>3, SectorRead
  <2> QED
    BY <2>1, <2>2, <2>4, <2>5 DEF StampsInPlace
<1>8. CASE PowerLoss
  <2>1. pc # "off" /\ pc' = "off" /\ state' = 0
    BY <1>8 DEF PowerLoss
  <2> SUFFICES ASSUME NEW f \in stamped'
               PROVE  mem'[0] \in Settings /\ DataOfBoot(f, mem[0].start[f])'
    BY <2>1 DEF StampsInPlace
  <2>2. (PageWhole \/ pc = "halted") /\ f \in stamped /\ f \in Sections
    BY <1>2, <1>8 DEF PowerLoss
  <2>3. mem'[0] = mem[0] /\ \A s \in Slots : mem'[s] \in {mem[s], Garbled}
    BY <1>1, <1>8, <2>2, WholeLoss
  <2>4. mem[0] \in Settings /\ DataOfBoot(f, mem[0].start[f])
    <3>1. CASE pc = "halted"
      BY <1>1, <2>2, <3>1 DEF StampsInPlace
    <3>2. CASE pc # "halted"
      <4>1. mem[0] = settings
        BY <1>1, <2>2, <3>2 DEF SettingsInPlace, SettingsRestored
      <4> QED
        BY <1>1, <2>1, <2>2, <3>2, <4>1 DEF StampsInPlace
    <3> QED
      BY <3>1, <3>2
  <2>5. ASSUME NEW a \in DataMin(f) .. DataMax(f) - 1
        PROVE  OfBoot(mem'[a], mem[0].start[f])
    <3>1. a \in Slots
      BY <2>2, SectionSize, Geometry DEF Slots
    <3>2. mem'[a] \in {mem[a], Garbled} /\ Garbled \notin Packets
      BY <2>3, <3>1, SentinelAssumption
    <3> QED
      BY <2>4, <3>2 DEF DataOfBoot, OfBoot
  <2> QED
    BY <2>3, <2>4, <2>5 DEF DataOfBoot, DataMin, DataMax
<1>9. CASE UNCHANGED vars
  BY <1>1, <1>9 DEF vars, StampsInPlace, DataOfBoot, DataMin, DataMax
<1> QED
  BY <1>3, <1>4, <1>5, <1>6, <1>7, <1>8, <1>9 DEF Next, CallStep

-----------------------------------------------------------------------------
LEMMA InitInv == Init => IInv
<1> SUFFICES ASSUME Init PROVE IInv
  OBVIOUS
<1> USE DEF Init
<1>1. TypeInv
  BY TypeInit
<1>2. pc = "off" /\ state = 0
  OBVIOUS
<1>3. BufLen \in Nat \ {0}
  BY Constants
<1>4. RingOrdered
  <2>1. ASSUME NEW k \in 0 .. BufLen - 1
        PROVE  packet_array[(buf_idx + k) % BufLen] = Recent(k)
    <3>1. (0 + k) % BufLen \in 0 .. BufLen - 1
      <4>1. 0 + k \in Int
        OBVIOUS
      <4> QED
        BY <1>3, <4>1, ModDef
    <3>2. Recent(k) = ZeroPacket
      BY <1>3 DEF Recent
    <3> QED
      BY <3>1, <3>2 DEF ZeroRing
  <2> QED
    BY <2>1 DEF RingOrdered, Launching, Committing, Clearing
<1>5. EraseInPlace /\ AddrInPlace /\ SettingsInPlace
  BY <1>2 DEF EraseInPlace, AddrInPlace, SettingsInPlace, SettingsRestored, PageWhole,
     Launching, Committing, Clearing
<1>6. TargetsErased /\ Counted /\ FlightWritten
  BY <1>2 DEF TargetsErased, Counted, FlightWritten, Logging
<1>7. ASSUME mem[0] = Formatted
      PROVE  TurnInPlace /\ StampsInPlace
  <2>1. \A a \in Slots : a = 0 \/ mem[a] = Blank
    BY <1>7, CellsHold, Geometry DEF Slots
  <2>2. \A f \in Sections : \A a \in DataMin(f) .. DataMax(f) - 1 : a \in Slots /\ a # 0
    BY SectionSize, Geometry DEF Slots
  <2>3. \A f \in Sections : DataOfBoot(f, mem[0].start[f])
    BY <2>1, <2>2, SentinelAssumption DEF DataOfBoot, OfBoot
  <2>4. stamped = Sections /\ latest = -1 /\ mem[0].last = 0 /\ mem[0] \in Settings
    BY <1>7, CellsHold DEF Formatted
  <2>5. ~Launching /\ ~Logging /\ ~Committing
    BY <1>2 DEF Launching, Logging, Committing, Clearing
  <2>6. TurnInPlace
    BY <1>2, <2>4 DEF TurnInPlace, Sections
  <2>7. StampsInPlace
    <3> HIDE DEF Init
    <3> QED
      BY <1>2, <2>3, <2>4, <2>5 DEF StampsInPlace
  <2> QED
    BY <2>6, <2>7
<1>8. ASSUME mem[0] # Formatted
      PROVE  TurnInPlace /\ StampsInPlace
  <2>1. sound = 0 /\ stamped = {}
    BY <1>8
  <2>2. ~Launching /\ ~Logging /\ ~Committing
    BY <1>2 DEF Launching, Logging, Committing, Clearing
  <2>3. TurnInPlace
    BY <1>2, <2>1 DEF TurnInPlace, InTurn
  <2>4. StampsInPlace
    <3> HIDE DEF Init
    <3> QED
      BY <1>2, <2>1, <2>2 DEF StampsInPlace
  <2> QED
    BY <2>3, <2>4
<1> QED
  BY <1>1, <1>4, <1>5, <1>6, <1>7, <1>8 DEF IInv

LEMMA InvStep == IInv /\ [Next]_vars => IInv'
<1> SUFFICES ASSUME IInv, [Next]_vars PROVE IInv'
  OBVIOUS
<1>1. /\ TypeInv /\ EraseInPlace /\ AddrInPlace /\ SettingsInPlace
      /\ TargetsErased /\ RingOrdered /\ Counted /\ FlightWritten /\ TurnInPlace
  BY DEF IInv
<1>2. TypeInv'
  BY <1>1, TypeStep
<1>3. EraseInPlace'
  BY <1>1, EraseStep
<1>4. AddrInPlace'
  BY <1>1, AddrStep
<1>5. SettingsInPlace'
  BY <1>1, SettingsStep
<1>6. TargetsErased'
  BY <1>1, TargetsStep
<1>7. RingOrdered'
  BY <1>1, RingStep
<1>8. Counted'
  BY <1>1, CountedStep
<1>9. FlightWritten'
  BY <1>1, WrittenStep
<1>10. TurnInPlace'
  BY <1>1, TurnStep
<1>11. StampsInPlace'
  BY StampsStep
<1> QED
  BY <1>2, <1>3, <1>4, <1>5, <1>6, <1>7, <1>8, <1>9, <1>10, <1>11 DEF IInv

(* The invariant of LoggerInv holds at every flash command of every call,  *)
(* whatever power losses came before.                                      *)
THEOREM Invariance == Spec => []IInv
  BY InitInv, InvStep, PTL DEF Spec

-----------------------------------------------------------------------------
LEMMA InBounds == IInv => AddrInBounds
<1> SUFFICES ASSUME IInv PROVE AddrInBounds
  OBVIOUS
<1>1. TypeInv /\ AddrInPlace
  BY DEF IInv
<1> USE DEF TypeInv, TypeOK, Shape, Phases
<1>2. /\ DataMin(section) \in Nat /\ DataMax(section) \in Nat
      /\ BufLen \in Nat \ {0}
  BY <1>1, SectionSize, Constants
<1>3. CASE pc \in {"dump", "flush"}
  <2>1. addr \in DataMin(section) .. DataMax(section) - 1
    BY <1>1, <1>3, TargetSlot
  <2> QED
    BY <1>2, <2>1 DEF AddrInBounds
<1>4. CASE pc \notin {"dump", "flush"}
  <2>1. state = 1 => DataMin(section) + BufLen <= addr /\ addr <= DataMax(section)
    BY <1>1, <1>4 DEF AddrInPlace, GroupStart
  <2> QED
    BY <1>1, <1>2, <1>4, <2>1 DEF AddrInBounds, Logging
<1> QED
  BY <1>3, <1>4

(* change_state() and write() never program outside the section the boot   *)
(* chose, though they test addr before a whole ring or not at all.         *)
THEOREM AddrStaysInSection == Spec => []AddrInBounds
  BY Invariance, InBounds, PTL

(* Whenever commit_settings() or clear_first_sector() is done, the settings *)
(* page holds settings_ again, although both erase it.                     *)
THEOREM SettingsSurvive == Spec => []SettingsRestored
<1>1. IInv => SettingsRestored
  BY DEF IInv, SettingsInPlace
<1> QED
  BY <1>1, Invariance, PTL

(* Between two calls in flight, all the packets offered to write() since   *)
(* the launch are in the flash but for the buf_idx in RAM.                 *)
THEOREM PacketsCounted == Spec => []NothingDropped
<1>1. IInv => NothingDropped
  BY DEF IInv, TypeInv, TypeOK, Counted, GroupStart, Pending, NothingDropped
<1> QED
  BY <1>1, Invariance, PTL

LEMMA ReadsBack == IInv => FlightReadsBack
<1> SUFFICES ASSUME IInv, Logging
             PROVE  /\ Printed(section) = DataMin(section) .. addr - 1
                    /\ \A a \in Printed(section) : mem[a] = Due(a - DataMin(section))
  BY DEF FlightReadsBack
<1>1. /\ DataMin(section) \in Nat /\ DataMax(section) \in Nat /\ addr \in Nat
      /\ DataMin(section) <= addr /\ addr <= DataMax(section)
  BY InBounds, SectionSize DEF AddrInBounds, IInv, TypeInv, TypeOK
<1>2. \A a \in DataMin(section) .. addr - 1 :
        mem[a] \in Packets /\ mem[a] = Due(a - DataMin(section))
  BY DEF IInv, FlightWritten
<1>3. \A a \in addr .. DataMax(section) - 1 : mem[a] = Blank
  BY DEF IInv, TargetsErased, Erased
<1>4. Blank \notin Packets
  BY SentinelAssumption
<1>5. ASSUME NEW a \in DataMin(section) .. addr - 1
      PROVE  a \in Printed(section)
  BY <1>1, <1>2, <1>4, <1>5 DEF Printed
<1>6. ASSUME NEW a \in Printed(section)
      PROVE  a \in DataMin(section) .. addr - 1
  <2>1. a \in DataMin(section) .. DataMax(section) - 1 /\ mem[a] # Blank
    BY <1>1, <1>6 DEF Printed
  <2> QED
    BY <1>1, <1>3, <2>1
<1> QED
  BY <1>2, <1>5, <1>6

(* The slots R0 or R1 would print are exactly those of this flight's       *)
(* packets written so far, each the one due there.                         *)
THEOREM RecordedFlight == Spec => []FlightReadsBack
  BY Invariance, ReadsBack, PTL

LEMMA TurnIsKept == IInv => LatestFlightKept
  BY DEF IInv, TurnInPlace, LatestFlightKept

(* Whatever the flash held, whatever boots flew or not and wherever the    *)
(* power went: after three boots in a row that did not lose the settings'  *)
(* page, and from then on, a boot takes the section that does not hold the *)
(* flight of the boot before, and keeps to it until the next is launched.  *)
THEOREM LatestFlightSurvives == Spec => []LatestFlightKept
  BY TurnIsKept, Invariance, PTL

(* Whatever boots and power losses came between: what PRINT_CSV prints of  *)
(* a section is of the boot whose clock the settings keep for it, if the   *)
(* last launch to store one there got to the end of its erase and the      *)
(* settings' page was not lost since.                                      *)
THEOREM StartTimesBelong == Spec => []StartTimeMatches
<1>1. IInv => StartTimeMatches
  <2> SUFFICES ASSUME IInv, pc = "run",
                      NEW f \in stamped, NEW a \in Printed(f),
                      mem[a] \in Packets, mem[a].boot > 0
               PROVE  mem[a].boot = mem[0].start[f]
    BY DEF StartTimeMatches
  <2>1. a \in DataMin(f) .. DataMax(f) - 1
    BY DEF Printed
  <2>2. mem[0] = settings
    BY DEF IInv, SettingsInPlace, SettingsRestored, PageWhole
  <2>3. DataOfBoot(f, settings.start[f])
    BY DEF IInv, StampsInPlace
  <2> QED
    BY <2>1, <2>2, <2>3 DEF DataOfBoot, OfBoot
<1> QED
  BY <1>1, Invariance, PTL

-----------------------------------------------------------------------------
(* Only these steps touch the chip, and what they leave is the command's   *)
(* outcome, or a content torn between the two.                             *)
LEMMA MemChange ==
  ASSUME TypeInv, [Next]_vars
  PROVE  /\ mem' = mem \/ mem' = Outcome \/ (mem' = Torn /\ pc' = "off")
         /\ pc = "off" => mem' = mem
<1>1. CASE FlashStep
  BY <1>1 DEF FlashStep, CommitErase, CommitHead, CommitTailBegin, CommitTailLaunch,
     ClearErase, ClearRestore, EraseBlock, EraseDone, Dump, Flush
<1>2. CASE CallStep
  BY <1>2 DEF CallStep, Begin, BeginFails, Offer, WriteAfterLanding,
     WriteBeforeLaunch, WriteWhenFull, WriteInFlight, Launch, Land, flashVars
<1>3. CASE PowerLoss
  BY <1>3 DEF PowerLoss
<1>4. CASE UNCHANGED vars
  BY <1>4 DEF vars, flashVars
<1> QED
  BY <1>1, <1>2, <1>3, <1>4 DEF Next

LEMMA TornSlot ==
  ASSUME NEW s \in Slots, Outcome[s] = mem[s]
  PROVE  Torn[s] = mem[s]
  BY DEF Torn

(* Every command keeps to the settings' sector or the section of the boot. *)
LEMMA OutcomeOutside ==
  ASSUME TypeInv, EraseInPlace, AddrInPlace, NEW s \in Slots, s >= SectorSlots,
         s \in DataMin(1 - section) .. DataMax(1 - section) - 1
  PROVE  Outcome[s] = mem[s]
<1> USE DEF TypeInv, TypeOK, Shape, Clearing, Phases
<1>1. /\ PageSlots \in Nat \ {0} /\ SectorSlots \in Nat \ {0}
      /\ BlockSlots \in Nat \ {0} /\ FlightSlots \in Nat \ {0}
      /\ PageSlots <= SectorSlots
      /\ SectorSlots <= BlockSlots /\ BlockSlots <= FlightSlots
  BY Geometry
<1>2. s \in Nat /\ section \in Sections
  BY DEF Slots
<1>3. /\ section = 0 => s >= FlightSlots
      /\ section = 1 => s < FlightSlots
  BY <1>1, <1>2 DEF DataMin, DataMax
<1>4. CASE pc \in {"commit_erase", "commit_head", "commit_tail"}
  BY <1>1, <1>2, <1>4, Effects
<1>5. CASE pc \in {"clear_erase", "clear_restore"}
  BY <1>1, <1>2, <1>3, <1>5, Effects
<1>6. CASE pc = "erase"
  <2>1. CASE i < EraseTo(section)
    <3>1. /\ i % BlockSlots = 0 /\ EraseFrom(section) <= i
          /\ EraseTo(section) = DataMax(section) /\ i \in Nat
      BY <1>2, <1>6, SectionSize DEF EraseInPlace
    <3>2. section = 0 => i + BlockSlots <= FlightSlots
      <4> SUFFICES ASSUME section = 0 PROVE i + BlockSlots <= FlightSlots
        OBVIOUS
      <4>1. FlightSlots % BlockSlots = 0 /\ i < FlightSlots
        BY <2>1, <3>1, FlightMultiple, SectionSize
      <4>2. i \in Int /\ FlightSlots \in Int /\ BlockSlots \in Nat \ {0}
        BY <1>1, <3>1
      <4>3. (FlightSlots - i) % BlockSlots = 0
        BY <3>1, <4>1, <4>2, MultipleDiff
      <4>4. BlockSlots <= FlightSlots - i
        BY <4>1, <4>2, <4>3, MultiplePositive
      <4> QED
        BY <4>2, <4>4
    <3>3. section = 1 => FlightSlots <= i
      BY <1>2, <3>1, SectionSize
    <3>4. s \notin i .. i + BlockSlots - 1
      BY <1>1, <1>2, <1>3, <3>1, <3>2, <3>3 DEF Sections
    <3> QED
      BY <1>6, <2>1, <3>1, <3>4, Effects
  <2>2. CASE ~(i < EraseTo(section))
    BY <1>6, <2>2, Effects
  <2> QED
    BY <2>1, <2>2
<1>7. CASE pc \in {"dump", "flush"}
  <2>1. addr \in Slots /\ addr \in DataMin(section) .. DataMax(section) - 1
    BY <1>7, TargetSlot
  <2>2. s # addr
    BY <1>1, <1>2, <1>3, <2>1 DEF Sections, DataMin, DataMax
  <2> QED
    BY <1>7, <2>1, <2>2, Effects
<1>8. CASE pc \in {"off", "halted", "run"}
  BY <1>8, Effects
<1> QED
  BY <1>4, <1>5, <1>6, <1>7, <1>8

(* Every command of begin() keeps to the settings' sector.                 *)
LEMMA OutcomeBefore ==
  ASSUME TypeInv, BeforeLaunch, after = "begin", NEW s \in Slots, s >= SectorSlots
  PROVE  Outcome[s] = mem[s]
<1>1. pc \in {"commit_erase", "commit_head", "commit_tail", "off", "halted", "run"}
  BY DEF BeforeLaunch, Clearing, TypeInv, TypeOK, Phases
<1>2. /\ PageSlots \in Nat \ {0} /\ SectorSlots \in Nat \ {0}
      /\ PageSlots <= SectorSlots /\ s \in Nat
  BY Geometry DEF Slots
<1>3. CASE pc \in {"commit_erase", "commit_head", "commit_tail"}
  BY <1>2, <1>3, Effects
<1>4. CASE pc \in {"off", "halted", "run"}
  BY <1>4, Effects
<1> QED
  BY <1>1, <1>3, <1>4

LEMMA BeforeLaunchStep ==
  ASSUME TypeInv, BeforeLaunch, [Next]_vars
  PROVE  BeforeLaunch'
<1> USE DEF TypeInv, TypeOK, Shape, BeforeLaunch, Clearing
<1>1. CASE FlashStep
  BY <1>1 DEF FlashStep, CommitErase, CommitHead, CommitTailBegin, CommitTailLaunch,
     ClearErase, ClearRestore, EraseBlock, EraseDone, Dump, Flush, ramVars
<1>2. CASE CallStep
  BY <1>2 DEF CallStep, Begin, BeginFails, Offer, WriteAfterLanding, WriteBeforeLaunch,
     WriteWhenFull, WriteInFlight, Launch, Land, flashVars, ramVars
<1>3. CASE PowerLoss
  BY <1>3 DEF PowerLoss
<1>4. CASE UNCHANGED vars
  BY <1>4 DEF vars, flashVars, ramVars
<1> QED
  BY <1>1, <1>2, <1>3, <1>4 DEF Next

(* A boot leaves the flight it did not choose as it found it, and both up  *)
(* to its launch, whatever it does and wherever the power goes, but for    *)
(* the settings' own sector.                                               *)
THEOREM OtherFlightKept == Spec => OtherFlightUntouched
<1>1. ASSUME IInv, BeforeLaunch, [Next]_vars
      PROVE  [pc # "off" =>
                \A s \in Slots :
                  /\ s >= SectorSlots
                  /\ s \in DataMin(1 - section) .. DataMax(1 - section) - 1 \/ after = "begin"
                  => mem'[s] = mem[s]]_vars
  <2> SUFFICES ASSUME NEW s \in Slots, s >= SectorSlots,
                      \/ s \in DataMin(1 - section) .. DataMax(1 - section) - 1
                      \/ after = "begin"
               PROVE  mem'[s] = mem[s]
    OBVIOUS
  <2>1. TypeInv /\ EraseInPlace /\ AddrInPlace
    BY <1>1 DEF IInv
  <2>2. Outcome[s] = mem[s]
    BY <1>1, <2>1, OutcomeOutside, OutcomeBefore
  <2> QED
    BY <1>1, <2>1, <2>2, MemChange, TornSlot
<1>2. Init => BeforeLaunch
  BY DEF Init, BeforeLaunch, Clearing
<1>3. IInv /\ BeforeLaunch /\ [Next]_vars => BeforeLaunch'
  BY BeforeLaunchStep DEF IInv
<1> QED
  BY <1>1, <1>2, <1>3, Invariance, PTL DEF Spec, OtherFlightUntouched

(* Every slot a command changes was erased before, or is erased by it.     *)
LEMMA OutcomeClean ==
  ASSUME TypeInv, EraseInPlace, AddrInPlace, TargetsErased, NEW s \in Slots
  PROVE  Outcome[s] = mem[s] \/ mem[s] = Blank \/ Outcome[s] = Blank
<1> USE DEF TypeInv, TypeOK, Shape, Clearing, Phases
<1>1. /\ PageSlots \in Nat \ {0} /\ SectorSlots \in Nat \ {0}
      /\ BlockSlots \in Nat \ {0} /\ PageSlots <= SectorSlots
      /\ SectorSlots <= BlockSlots
  BY Geometry
<1>2. s \in Nat
  BY DEF Slots
<1>3. CASE pc = "commit_erase"
  BY <1>3, Effects
<1>4. CASE pc = "commit_head"
  <2>1. s = 0 => mem[s] = Blank
    BY <1>1, <1>4 DEF TargetsErased, Erased
  <2> QED
    BY <1>4, <2>1, Effects
<1>5. CASE pc = "commit_tail"
  <2>1. s \in PageSlots .. SectorSlots - 1 => mem[s] = Blank
    BY <1>5 DEF TargetsErased, Erased
  <2> QED
    BY <1>5, <2>1, Effects
<1>6. CASE pc = "clear_erase"
  BY <1>6, Effects
<1>7. CASE pc = "clear_restore"
  <2>1. ~(s >= PageSlots) => mem[s] = Blank
    BY <1>1, <1>2, <1>7 DEF TargetsErased, Erased
  <2> QED
    BY <1>7, <2>1, Effects
<1>8. CASE pc = "erase"
  <2>1. i % BlockSlots = 0
    BY <1>8 DEF EraseInPlace
  <2> QED
    BY <1>8, <2>1, Effects
<1>9. CASE pc \in {"dump", "flush"}
  <2>1. addr \in Slots /\ addr \in DataMin(section) .. DataMax(section) - 1
    BY <1>9, TargetSlot
  <2>2. mem[addr] = Blank
    <3>1. state = 1 \/ pc = "dump"
      BY <1>9
    <3>2. addr \in addr .. DataMax(section) - 1
      BY <2>1, SectionSize
    <3> QED
      BY <3>1, <3>2 DEF TargetsErased, Erased, Logging
  <2> QED
    BY <1>9, <2>1, <2>2, Effects
<1>10. CASE pc \in {"off", "halted", "run"}
  BY <1>10, Effects
<1> QED
  BY <1>3, <1>4, <1>5, <1>6, <1>7, <1>8, <1>9, <1>10

(* The logger never programs a slot that is not erased, across the erases  *)
(* of the settings, the erase of the flight and the appends.               *)
THEOREM ErasedBeforeProgram == Spec => ProgramsErasedOnly
<1>1. ASSUME IInv, [Next]_vars
      PROVE  [pc' # "off" =>
                \A s \in Slots :
                  mem'[s] # mem[s] => mem[s] = Blank \/ mem'[s] = Blank]_vars
  <2> SUFFICES ASSUME pc' # "off", NEW s \in Slots
               PROVE  mem'[s] # mem[s] => mem[s] = Blank \/ mem'[s] = Blank
    OBVIOUS
  <2>1. TypeInv /\ EraseInPlace /\ AddrInPlace /\ TargetsErased
    BY <1>1 DEF IInv
  <2>2. mem' = mem \/ mem' = Outcome
    BY <1>1, <2>1, MemChange
  <2>3. Outcome[s] = mem[s] \/ mem[s] = Blank \/ Outcome[s] = Blank
    BY <2>1, OutcomeClean
  <2> QED
    BY <2>2, <2>3
<1> QED
  BY <1>1, Invariance, PTL DEF Spec, ProgramsErasedOnly
=============================================================================
