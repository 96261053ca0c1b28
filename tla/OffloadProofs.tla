---------------------------- MODULE OffloadProofs ---------------------------
(***************************************************************************)
(* The board and the offload tool at one flash: what the commands of the   *)
(* tool leave, for every geometry of the chip and any number of flights,   *)
(* power losses and commands cut short between them.                       *)
(***************************************************************************)
EXTENDS OffloadInv, LoggerProofs

(* While the tool is in a command its state is one of the logger.          *)
LEMMA ToolIsTyped ==
  ASSUME ToolType, ToolPhase, command \in {"none", "delete", "reset"}, pc # "tool"
  PROVE  /\ TypeInv
         /\ pc \in {"halted", "clear_erase", "clear_restore", "erase",
                    "commit_erase", "commit_head", "commit_tail"}
<1>1. pc \in {"halted", "clear_erase", "clear_restore", "erase",
              "commit_erase", "commit_head", "commit_tail"}
  BY DEF ToolPhase
<1>2. TypeOK
  <2>1. seq \in 0 .. MaxWrites /\ launchSeq \in 0 .. seq /\ buf_idx \in Nat
        /\ state \in {0, 1}
    BY Constants DEF ToolType
  <2> QED
    BY <1>1, <2>1 DEF ToolType, TypeOK, Phases
<1>3. Shape
  BY <1>1 DEF Shape, ToolType
<1> QED
  BY <1>1, <1>2, <1>3 DEF TypeInv

(* The memory the tool leaves when it is unplugged.                        *)
LEMMA TornType ==
  ASSUME ToolType, ToolPhase, command \in {"none", "delete", "reset"}
  PROVE  /\ Torn \in [Slots -> Cells]
         /\ pc \in {"tool", "halted"} => Torn = mem
<1>1. CASE pc \in {"tool", "halted"}
  <2>1. Outcome = mem
    BY <1>1, Zenon DEF Outcome
  <2>2. mem \in [Slots -> Cells]
    BY DEF ToolType
  <2>3. Torn = mem
    BY <2>1, <2>2 DEF Torn
  <2> QED
    BY <2>2, <2>3
<1>2. CASE pc \notin {"tool", "halted"}
  BY <1>2, ToolIsTyped, OutcomeType
<1> QED
  BY <1>1, <1>2

(* clear_first_sector writes the whole page it read back to its place.     *)
LEMMA PageRestored ==
  ASSUME pc = "clear_restore", NEW s \in Slots, s < PageSlots
  PROVE  Outcome[s] = Program(mem[s], buffer[s + 1])
<1>1. s \in Nat /\ PageSlots \in Nat \ {0} /\ PageSlots - 1 - s \in 0 .. PageSlots - 1
  BY Geometry DEF Slots
<1>2. (PageSlots - 1 - s) % PageSlots = PageSlots - 1 - s
  <2>1. (PageSlots * 0 + (PageSlots - 1 - s)) % PageSlots = PageSlots - 1 - s
    BY <1>1, ModUnique
  <2> QED
    BY <1>1, <2>1
<1>3. Latched(0, PageSlots, s) = s
  <2>1. 0 + PageSlots - 1 - s = PageSlots - 1 - s
    BY <1>1
  <2> QED
    BY <1>1, <1>2, <2>1 DEF Latched
<1>4. s \in Aligned(0, PageSlots) /\ s >= 0 /\ s - 0 + 1 = s + 1
  BY <1>1, AlignedFirst
<1>5. Write(mem, 0, buffer, PageSlots)[s] = Program(mem[s], buffer[s + 1])
  BY <1>3, <1>4 DEF Write
<1> QED
  BY <1>5, Commands

(* Past the settings' sector, no command but the appends programs a slot.  *)
LEMMA PastSector ==
  ASSUME TypeInv, EraseInPlace, pc \notin {"dump", "flush"},
         NEW s \in Slots, s >= SectorSlots
  PROVE  Outcome[s] \in {mem[s], Blank}
<1> USE DEF TypeInv, TypeOK, Phases
<1>1. /\ PageSlots \in Nat \ {0} /\ SectorSlots \in Nat \ {0} /\ PageSlots <= SectorSlots
      /\ s \in Nat
  BY Geometry DEF Slots
<1>2. CASE pc \in {"commit_erase", "commit_head", "commit_tail"}
  BY <1>1, <1>2, Effects
<1>3. CASE pc \in {"clear_erase", "clear_restore"}
  BY <1>1, <1>3, Effects
<1>4. CASE pc = "erase"
  BY <1>4, Effects DEF EraseInPlace
<1>5. CASE pc \in {"off", "halted", "run"}
  BY <1>5, Effects
<1> QED
  BY <1>2, <1>3, <1>4, <1>5

-----------------------------------------------------------------------------
(* The rows of a flight                                                    *)
LEMMA DataSlots ==
  ASSUME NEW f \in Sections, NEW a \in DataMin(f) .. DataMax(f) - 1
  PROVE  a \in Slots /\ a \in Nat /\ a # 0 /\ a >= PageSlots
<1>1. /\ DataMin(f) \in Nat /\ DataMax(f) \in Nat /\ PageSlots <= DataMin(f)
      /\ DataMax(f) <= 2 * FlightSlots
  BY SectionSize
<1>2. PageSlots \in Nat \ {0} /\ FlightSlots \in Nat
  BY Geometry
<1> QED
  BY <1>1, <1>2 DEF Slots

LEMMA NotFlown == ~Flown(Blank) /\ ~Flown(Garbled)
  BY SentinelAssumption DEF Flown

(* Rows only lost stay rows.                                               *)
LEMMA RowsLost ==
  ASSUME RowsKept, NEW f \in Sections,
         \A a \in DataMin(f) .. DataMax(f) - 1 :
           a >= SectorSlots => mem'[a] \in {mem[a], Blank, Garbled}
  PROVE  \A a, b \in DataMin(f) .. DataMax(f) - 1 :
           a >= SectorSlots /\ b >= SectorSlots => InRow(mem'[a], a, mem'[b], b)
<1> SUFFICES ASSUME NEW a \in DataMin(f) .. DataMax(f) - 1,
                    NEW b \in DataMin(f) .. DataMax(f) - 1,
                    a >= SectorSlots, b >= SectorSlots,
                    Flown(mem'[a]), Flown(mem'[b])
             PROVE  /\ mem'[a].boot = mem'[b].boot
                    /\ mem'[b].seq - mem'[a].seq = b - a
  BY DEF InRow
<1>1. mem'[a] = mem[a] /\ mem'[b] = mem[b]
  BY NotFlown
<1>2. InRow(mem[a], a, mem[b], b)
  BY DEF RowsKept
<1> QED
  BY <1>1, <1>2 DEF InRow

(* The flight being recorded is a row.                                     *)
LEMMA RowLogged ==
  TypeInv /\ TargetsErased /\ FlightWritten /\ Logging =>
    \A a, b \in DataMin(section) .. DataMax(section) - 1 : InRow(mem[a], a, mem[b], b)
<1> SUFFICES ASSUME TypeInv, TargetsErased, FlightWritten, Logging,
                    NEW a \in DataMin(section) .. DataMax(section) - 1,
                    NEW b \in DataMin(section) .. DataMax(section) - 1,
                    Flown(mem[a]), Flown(mem[b])
             PROVE  mem[a].boot = mem[b].boot /\ mem[b].seq - mem[a].seq = b - a
  BY DEF InRow
<1>1. section \in Sections /\ addr \in Nat /\ launchSeq \in Int
  BY DEF TypeInv, TypeOK
<1>2. DataMin(section) \in Nat /\ DataMax(section) \in Nat /\ BufLen \in Nat
  BY <1>1, SectionSize, Constants
<1>3. ASSUME NEW s \in DataMin(section) .. DataMax(section) - 1, Flown(mem[s])
      PROVE  /\ mem[s].boot = boots
             /\ mem[s].seq = launchSeq - BufLen + 1 + (s - DataMin(section))
  <2>1. s < addr
    <3> SUFFICES ASSUME ~(s < addr) PROVE FALSE
      OBVIOUS
    <3>1. s \in addr .. DataMax(section) - 1
      BY <1>1, <1>2
    <3>2. mem[s] = Blank
      BY <3>1 DEF TargetsErased, Erased
    <3> QED
      BY <1>3, <3>2, NotFlown
  <2>2. s \in DataMin(section) .. addr - 1
    BY <1>1, <1>2, <2>1
  <2>3. mem[s] = Due(s - DataMin(section))
    BY <2>2 DEF FlightWritten
  <2> DEFINE n == launchSeq - BufLen + 1 + (s - DataMin(section))
  <2>4. mem[s] = IF n <= 0 THEN ZeroPacket ELSE Packet(boots, n)
    BY <2>3 DEF Due
  <2>5. ~(n <= 0)
    BY <1>3, <2>4 DEF Flown, ZeroPacket, Packet
  <2> QED
    BY <2>4, <2>5 DEF Packet
<1>4. /\ mem[a].boot = boots /\ mem[b].boot = boots
      /\ mem[a].seq = launchSeq - BufLen + 1 + (a - DataMin(section))
      /\ mem[b].seq = launchSeq - BufLen + 1 + (b - DataMin(section))
  BY <1>3
<1> QED
  BY <1>1, <1>2, <1>4

(* The board keeps the rows: it writes none but those of its own flight.   *)
LEMMA RowsFlown ==
  ASSUME IInv, [Next]_vars, RowsKept
  PROVE  RowsKept'
<1>1. /\ TypeInv /\ EraseInPlace /\ AddrInPlace /\ TypeInv' /\ TargetsErased'
      /\ FlightWritten'
  <2>1. IInv'
    BY InvStep
  <2> QED
    BY <2>1 DEF IInv
<1>2. section \in Sections
  BY <1>1 DEF TypeInv, TypeOK
<1> SUFFICES ASSUME NEW f \in Sections
             PROVE  \A a, b \in DataMin(f) .. DataMax(f) - 1 :
                      a >= SectorSlots /\ b >= SectorSlots =>
                        InRow(mem'[a], a, mem'[b], b)
  BY DEF RowsKept, InRow, Flown
<1>3. mem' = mem \/ mem' = Outcome \/ (mem' = Torn /\ pc' = "off")
  BY <1>1, MemChange
<1>4. \A a \in Slots : Torn[a] \in {mem[a], Garbled}
  BY DEF Torn
<1>5. CASE f # section
  <2>1. f = 1 - section
    BY <1>2, <1>5 DEF Sections
  <2>2. ASSUME NEW a \in DataMin(f) .. DataMax(f) - 1, a >= SectorSlots
        PROVE  mem'[a] \in {mem[a], Blank, Garbled}
    <3>1. a \in Slots
      BY DataSlots
    <3>2. Outcome[a] = mem[a]
      BY <1>1, <2>1, <2>2, <3>1, OutcomeOutside
    <3> QED
      BY <1>3, <1>4, <3>1, <3>2
  <2> QED
    BY <2>2, RowsLost
<1>6. CASE pc \notin {"dump", "flush"}
  <2>1. ASSUME NEW a \in DataMin(f) .. DataMax(f) - 1, a >= SectorSlots
        PROVE  mem'[a] \in {mem[a], Blank, Garbled}
    <3>1. a \in Slots
      BY DataSlots
    <3>2. Outcome[a] \in {mem[a], Blank}
      BY <1>1, <1>6, <2>1, <3>1, PastSector
    <3> QED
      BY <1>3, <1>4, <3>1, <3>2
  <2> QED
    BY <2>1, RowsLost
<1>7. CASE f = section /\ pc \in {"dump", "flush"}
  <2>1. CASE mem' = mem \/ mem' = Torn
    <3>1. ASSUME NEW a \in DataMin(f) .. DataMax(f) - 1
          PROVE  mem'[a] \in {mem[a], Blank, Garbled}
      BY <1>4, <2>1, DataSlots
    <3> QED
      BY <3>1, RowsLost
  <2>2. CASE Dump \/ Flush
    <3>1. section' = section /\ Logging'
      BY <1>1, <2>2 DEF Dump, Flush, Logging, TypeInv, Shape
    <3>2. (\A a, b \in DataMin(section) .. DataMax(section) - 1 :
             InRow(mem[a], a, mem[b], b))'
      <4>1. (TypeInv /\ TargetsErased /\ FlightWritten /\ Logging =>
               \A a, b \in DataMin(section) .. DataMax(section) - 1 :
                 InRow(mem[a], a, mem[b], b))'
        BY RowLogged, PTL
      <4> QED
        BY <1>1, <3>1, <4>1
    <3> QED
      BY <1>7, <3>1, <3>2 DEF DataMin, DataMax, InRow, Flown
  <2>3. Dump \/ Flush \/ mem' = mem \/ mem' = Torn
    BY <1>7 DEF Next, FlashStep, CommitErase, CommitHead, CommitTailBegin,
       CommitTailLaunch, ClearErase, ClearRestore, EraseBlock, EraseDone, CallStep,
       Begin, BeginFails, Offer, WriteAfterLanding, WriteBeforeLaunch, WriteWhenFull,
       WriteInFlight, Launch, Land, PowerLoss, vars, flashVars
  <2> QED
    BY <2>1, <2>2, <2>3
<1> QED
  BY <1>5, <1>6, <1>7

(* So does the tool: it programs nothing behind the settings' sector.      *)
LEMMA RowsOfTool ==
  ASSUME RowsKept, ToolType, ToolPhase, command \in {"none", "delete", "reset"},
         mem' \in {mem, Torn} \/ (pc # "tool" /\ mem' = Outcome)
  PROVE  RowsKept'
<1> SUFFICES ASSUME NEW f \in Sections
             PROVE  \A a, b \in DataMin(f) .. DataMax(f) - 1 :
                      a >= SectorSlots /\ b >= SectorSlots =>
                        InRow(mem'[a], a, mem'[b], b)
  BY DEF RowsKept, InRow, Flown
<1>1. ASSUME NEW a \in DataMin(f) .. DataMax(f) - 1, a >= SectorSlots
      PROVE  mem'[a] \in {mem[a], Blank, Garbled}
  <2>1. a \in Slots
    BY DataSlots
  <2>2. CASE mem' \in {mem, Torn}
    BY <2>1, <2>2 DEF Torn
  <2>3. CASE pc # "tool" /\ mem' = Outcome
    <3>1. TypeInv /\ EraseInPlace /\ pc \notin {"dump", "flush"}
      BY <2>3, ToolIsTyped DEF ToolPhase
    <3> QED
      BY <1>1, <2>1, <2>3, <3>1, PastSector
  <2> QED
    BY <2>2, <2>3
<1> QED
  BY <1>1, RowsLost

-----------------------------------------------------------------------------
(* The steps of the tool                                                   *)
LEMMA OffloadInitInv == OffloadInit => OffloadIInv
<1> SUFFICES ASSUME OffloadInit PROVE OffloadIInv
  OBVIOUS
<1>1. IInv /\ command = "flight" /\ before = mem
  BY InitInv DEF OffloadInit
<1>2. mem \in [Slots -> Cells]
  BY <1>1 DEF IInv, TypeInv, TypeOK
<1>3. ASSUME NEW f \in Sections, NEW a \in DataMin(f) .. DataMax(f) - 1
      PROVE  mem[a] = Blank
  <2>1. a \in Slots /\ a # 0
    BY DataSlots
  <2> QED
    BY <2>1 DEF OffloadInit, Init
<1>4. RowsKept
  BY <1>3, NotFlown DEF RowsKept, InRow
<1> QED
  BY <1>1, <1>2, <1>4 DEF OffloadIInv

LEMMA SetupStep ==
  ASSUME OffloadIInv, ToolSetup
  PROVE  ToolInv'
<1> USE DEF ToolSetup, ramVars, history
<1>1. command = "flight"
  BY DEF OffloadIInv, ToolInv, ToolPhase
<1>2. IInv
  BY <1>1 DEF OffloadIInv
<1>3. /\ pc = "off" /\ pc' \in {"tool", "halted"} /\ command' = "none"
      /\ mem' = mem /\ latest' = latest /\ sound' = sound /\ stamped' = stamped
  OBVIOUS
<1>4. seq = 0 /\ state = 0 /\ buf_idx = 0 /\ launchSeq = 0 /\ allow_write = TRUE
  BY <1>2 DEF IInv, RingOrdered, TypeInv, TypeOK, Shape
<1>5. RingOrdered'
  BY <1>2, <1>4 DEF IInv, RingOrdered, Recent, Launching, Committing, Clearing
<1>6. ToolType'
  BY <1>2, <1>4, <1>5 DEF IInv, TypeInv, TypeOK, ToolType, Committing, Clearing
<1>7. ToolPhase'
  BY DEF ToolPhase, EraseInPlace, Clearing
<1>8. DeleteProgress' /\ ResetProgress'
  BY DEF DeleteProgress, ResetProgress
<1>9. HistoryKept'
  <2>1. Resting(mem)
    BY <1>2, <1>3 DEF IInv, TurnInPlace, StampsInPlace, DataOfBoot, Resting
  <2> QED
    BY <1>3, <2>1 DEF HistoryKept, Resting, OfBoot
<1> QED
  BY <1>6, <1>7, <1>8, <1>9 DEF ToolInv

(* What stays of the types when a command of the tool begins an erase.     *)
LEMMA ResetType ==
  ASSUME ToolType, NEW f \in Sections, ResetFlight(f)
  PROVE  /\ ToolType' /\ EraseInPlace'
         /\ pc' \in {"clear_erase", "erase"}
<1> USE DEF ResetFlight, history
<1>1. /\ (f = 0 /\ pc' = "clear_erase" /\ buffer' = Read(mem, 0, PageSlots))
         \/ (f = 1 /\ pc' = "erase" /\ buffer' = <<>>)
      /\ section' = f /\ i' = EraseFrom(f)
      /\ mem' = mem /\ after' = after
  BY DEF Sections
<1>2. EraseFrom(f) \in Nat /\ EraseFrom(f) % BlockSlots = 0 /\ EraseFrom(f) <= EraseTo(f)
  BY SectionSize
<1>3. buffer' \in [1 .. 0 -> Cells] \/ buffer' \in [1 .. PageSlots -> Cells]
  <2>1. <<>> \in [1 .. 0 -> Cells]
    OBVIOUS
  <2> QED
    BY <1>1, <2>1, ReadCells DEF ToolType
<1>4. Clearing' => buffer' \in [1 .. PageSlots -> Cells] /\ section' = 0
  BY <1>1, ReadCells DEF ToolType, Clearing
<1>5. RingOrdered'
  BY DEF ToolType, RingOrdered, Recent
<1>6. ToolType'
  BY <1>1, <1>2, <1>3, <1>4, <1>5 DEF ToolType, Committing
<1>7. EraseInPlace'
  BY <1>1, <1>2 DEF EraseInPlace, Clearing, EraseFrom, EraseTo, DataMax
<1> QED
  BY <1>1, <1>6, <1>7

LEMMA DeleteStep ==
  ASSUME OffloadIInv, NEW f \in Sections, Delete(f)
  PROVE  ToolInv'
<1>1. ToolInv /\ pc = "tool" /\ command' = "delete" /\ before' = mem /\ mem' = mem
      /\ section' = f /\ i' = EraseFrom(f) /\ latest' = latest
      /\ sound' = sound /\ stamped' = stamped
  BY DEF OffloadIInv, IInv, TypeInv, TypeOK, Phases, ToolInv, Delete, ResetFlight, history
<1>2. ToolType' /\ EraseInPlace' /\ pc' \in {"clear_erase", "erase"}
  BY <1>1, ResetType DEF ToolInv, Delete
<1>3. ToolPhase'
  BY <1>1, <1>2 DEF ToolPhase
<1>4. DeleteProgress'
  <2>1. Clearing' => \A k \in 1 .. PageSlots : buffer'[k] = mem[k - 1]
    <3>1. Clearing' => buffer' = Read(mem, 0, PageSlots)
      BY <1>2 DEF Delete, ResetFlight, Clearing, Sections
    <3>2. \A k \in 1 .. PageSlots : 0 + k - 1 = k - 1
      BY Geometry
    <3> QED
      BY <3>1, <3>2 DEF Read
  <2>2. pc' = "erase" => f = 1
    BY DEF Delete, ResetFlight, Sections
  <2>3. f = 1 => DataMin(f) = FlightSlots /\ EraseFrom(f) = FlightSlots
    BY SectionSize
  <2>4. pc' = "erase" =>
          \A s \in Slots :
            mem[s] = IF s \in DataMin(f) .. EraseFrom(f) - 1 THEN Blank ELSE mem[s]
    BY <2>2, <2>3, Geometry
  <2>5. pc' = "erase" =>
          \A s \in Slots :
            mem'[s] = IF s \in DataMin(section') .. i' - 1 THEN Blank ELSE before'[s]
    BY <1>1, <2>4
  <2> QED
    BY <1>1, <1>2, <2>1, <2>5 DEF DeleteProgress, DeletesExactly, DataMin
<1>5. ResetProgress'
  BY <1>1 DEF ResetProgress
<1>6. HistoryKept'
  BY <1>1, <1>2 DEF ToolInv, HistoryKept, Resting, OfBoot
<1> QED
  BY <1>2, <1>3, <1>4, <1>5, <1>6 DEF ToolInv

LEMMA MemResetStep ==
  ASSUME OffloadIInv, MemReset
  PROVE  ToolInv'
<1>1. ToolInv /\ pc = "tool" /\ command' = "reset" /\ pc' = "clear_erase"
  BY DEF OffloadIInv, IInv, TypeInv, TypeOK, Phases, ToolInv, MemReset, ResetFlight
<1>2. ToolType' /\ EraseInPlace'
  BY <1>1, ResetType DEF ToolInv, MemReset, Sections
<1>3. ToolPhase'
  BY <1>1, <1>2 DEF ToolPhase
<1>4. DeleteProgress' /\ ResetProgress' /\ HistoryKept'
  BY <1>1 DEF DeleteProgress, ResetProgress, ResetFormats, HistoryKept, Committing
<1> QED
  BY <1>2, <1>3, <1>4 DEF ToolInv

(* A flash command of the tool: the step of the logger keeps what it says  *)
(* of types and places.                                                    *)
LEMMA FlashStepType ==
  ASSUME ToolInv, ToolFlashStep
  PROVE  /\ ToolType' /\ ToolPhase'
         /\ TypeInv /\ EraseInPlace /\ pc # "tool" /\ pc' # "tool"
         /\ mem' = Outcome /\ mem' \in [Slots -> Cells]
<1> USE DEF ToolInv, ToolFlashStep, toolVars, ramVars, history
<1>1. /\ pc \in {"clear_erase", "clear_restore", "erase", "commit_erase", "commit_head"}
      /\ pc = "clear_erase" => pc' = "clear_restore"
      /\ pc = "clear_restore" => pc' = "erase"
      /\ pc = "erase" => pc' = "erase"
      /\ pc = "commit_erase" => pc' = "commit_head"
      /\ pc = "commit_head" => pc' = "commit_tail"
      /\ pc' \in {"clear_restore", "commit_head", "commit_tail"} => buffer' = buffer
      /\ mem' = Outcome
  BY DEF ClearErase, ClearRestore, EraseBlock, CommitErase, CommitHead
<1>2. /\ after' = after /\ settings' = settings /\ section' = section
      /\ addr' = addr /\ packet_array' = packet_array /\ buf_idx' = buf_idx
      /\ state' = state /\ allow_write' = allow_write /\ boots' = boots /\ seq' = seq
      /\ launchSeq' = launchSeq /\ latest' = latest
      /\ sound' = sound /\ stamped' = stamped
      /\ command' = command /\ command \in {"delete", "reset"}
  BY DEF ClearErase, ClearRestore, EraseBlock, CommitErase, CommitHead
<1>3. TypeInv /\ EraseInPlace
  BY <1>1, <1>2, ToolIsTyped DEF ToolPhase
<1>4. [Next]_vars
  BY DEF Next, FlashStep
<1>5. TypeInv' /\ EraseInPlace'
  BY <1>3, <1>4, TypeStep, EraseStep
<1>6. RingOrdered'
  BY <1>2 DEF ToolType, RingOrdered, Recent
<1>7. ToolType'
  BY <1>2, <1>5, <1>6 DEF TypeInv, TypeOK, Shape, ToolType
<1>8. ToolPhase'
  BY <1>1, <1>2, <1>5 DEF ToolPhase
<1> QED
  BY <1>1, <1>3, <1>5, <1>7, <1>8 DEF TypeInv, TypeOK

LEMMA FlashProgress ==
  ASSUME ToolInv, before \in [Slots -> Cells], ToolFlashStep
  PROVE  DeleteProgress' /\ ResetProgress' /\ HistoryKept'
<1>1. /\ ToolType /\ ToolPhase /\ ToolType' /\ ToolPhase'
      /\ TypeInv /\ EraseInPlace /\ pc # "tool" /\ pc' # "tool"
      /\ mem' = Outcome /\ mem' \in [Slots -> Cells]
      /\ section \in Sections
  BY FlashStepType DEF ToolInv, ToolType
<1>2. /\ command' = command /\ before' = before /\ section' = section
      /\ settings' = settings /\ latest' = latest
      /\ sound' = sound /\ stamped' = stamped
  BY DEF ToolFlashStep, toolVars, ramVars, history, ClearErase, ClearRestore, EraseBlock,
     CommitErase, CommitHead
<1>3. /\ PageSlots \in Nat \ {0} /\ SectorSlots \in Nat \ {0}
      /\ BlockSlots \in Nat \ {0} /\ FlightSlots \in Nat \ {0}
      /\ PageSlots <= SectorSlots /\ SectorSlots <= BlockSlots
      /\ 0 \in Slots /\ \A s \in Slots : s \in Nat
  BY Geometry DEF Slots
<1>4. /\ DataMin(section)' = DataMin(section) /\ DataMin(section) \in Nat
      /\ EraseFrom(section) \in Nat /\ EraseTo(section) \in Nat
      /\ DataMin(section) <= EraseFrom(section) /\ PageSlots <= EraseFrom(section)
  <2>1. CASE section = 0
    BY <1>2, <1>3, <2>1, SectionSize, Geometry DEF Sections, DataMin
  <2>2. CASE section = 1
    BY <1>2, <1>3, <2>2, SectionSize, Geometry DEF Sections, DataMin
  <2> QED
    BY <1>1, <1>2, <2>1, <2>2, SectionSize DEF Sections, DataMin
<1>5. HistoryKept'
  BY <1>1, <1>2 DEF ToolInv, ToolPhase, HistoryKept, Resting, OfBoot, ToolFlashStep,
     ClearErase, ClearRestore, EraseBlock, CommitErase, CommitHead
<1>6. CASE ClearErase
  <2>1. /\ pc = "clear_erase" /\ pc' = "clear_restore" /\ buffer' = buffer
    BY <1>6 DEF ClearErase
  <2>2. \A s \in Slots : mem'[s] = IF s < BlockSlots THEN Blank ELSE mem[s]
    BY <1>1, <2>1, Effects
  <2>3. DeleteProgress'
    BY <1>2, <2>1, <2>2 DEF ToolInv, DeleteProgress, DeletesExactly, Clearing
  <2>4. ResetProgress'
    BY <2>1, <2>2 DEF ResetProgress, ResetFormats, Committing
  <2> QED
    BY <1>5, <2>3, <2>4
<1>7. CASE ClearRestore
  <2>1. pc = "clear_restore" /\ pc' = "erase" /\ i' = i /\ i = BlockSlots /\ section = 0
    BY <1>1, <1>7, SectionSize
       DEF ClearRestore, EraseInPlace, Clearing, ToolType
  <2>2. \A s \in Slots : s < BlockSlots => mem[s] = Blank
    BY <1>7, <2>1 DEF ToolFlashStep, ToolInv, DeleteProgress, ResetProgress
  <2>3. \A s \in Slots : s >= PageSlots => mem'[s] = mem[s]
    BY <1>1, <2>1, Effects
  <2>4. \A s \in Slots : s < PageSlots => mem'[s] = buffer[s + 1]
    <3> SUFFICES ASSUME NEW s \in Slots, s < PageSlots PROVE mem'[s] = buffer[s + 1]
      OBVIOUS
    <3>1. mem[s] = Blank
      BY <1>3, <2>2
    <3>2. Outcome[s] = Program(mem[s], buffer[s + 1])
      BY <2>1, PageRestored
    <3> QED
      BY <1>1, <3>1, <3>2, ProgramErased
  <2>5. DeleteProgress'
    <3> SUFFICES ASSUME command = "delete", NEW s \in Slots
                 PROVE  mem'[s] = IF s \in PageSlots .. BlockSlots - 1 THEN Blank
                                  ELSE before[s]
      BY <1>1, <1>2, <2>1 DEF DeleteProgress, DeletesExactly, Clearing, DataMin
    <3>1. CASE s < PageSlots
      <4>1. s + 1 \in 1 .. PageSlots /\ s + 1 - 1 = s
        BY <1>3, <3>1
      <4>2. \A k \in 1 .. PageSlots : buffer[k] = before[k - 1]
        BY <2>1 DEF ToolInv, DeleteProgress, Clearing
      <4>3. buffer[s + 1] = before[s]
        <5>1. PICK k \in 1 .. PageSlots : k = s + 1
          BY <4>1
        <5>2. k - 1 = s
          BY <1>3, <5>1
        <5> QED
          BY <4>2, <5>1, <5>2
      <4> QED
        BY <1>3, <2>4, <3>1, <4>3
    <3>2. CASE s >= PageSlots
      <4>1. mem[s] = IF s < BlockSlots THEN Blank ELSE before[s]
        BY <2>1 DEF ToolInv, DeleteProgress
      <4> QED
        BY <1>3, <2>3, <3>2, <4>1
    <3> QED
      BY <1>3, <3>1, <3>2
  <2>6. ResetProgress'
    <3>1. \A s \in Slots : PageSlots <= s /\ s < i' => mem'[s] = Blank
      BY <1>3, <2>1, <2>2, <2>3
    <3> QED
      BY <2>1, <3>1 DEF ResetProgress, ResetFormats, Committing
  <2> QED
    BY <1>5, <2>5, <2>6
<1>8. CASE EraseBlock
  <2>1. /\ pc = "erase" /\ pc' = "erase" /\ i < EraseTo(section) /\ i' = i + BlockSlots
        /\ i % BlockSlots = 0 /\ EraseFrom(section) <= i /\ i \in Nat
    BY <1>1, <1>8 DEF EraseBlock, EraseNext, EraseInPlace, ToolType
  <2>2. \A s \in Slots :
          mem'[s] = IF s \in i .. i + BlockSlots - 1 THEN Blank ELSE mem[s]
    BY <1>1, <2>1, Effects
  <2>3. DeleteProgress'
    <3> SUFFICES ASSUME command = "delete", NEW s \in Slots
                 PROVE  mem'[s] = IF s \in DataMin(section) .. i + BlockSlots - 1
                                  THEN Blank ELSE before[s]
      <4>1. i' - 1 = i + BlockSlots - 1
        BY <1>3, <2>1
      <4> QED
        BY <1>1, <1>2, <1>4, <2>1, <4>1 DEF DeleteProgress, DeletesExactly, Clearing
    <3>1. mem[s] = IF s \in DataMin(section) .. i - 1 THEN Blank ELSE before[s]
      BY <2>1 DEF ToolInv, DeleteProgress
    <3> QED
      BY <1>3, <1>4, <2>1, <2>2, <3>1
  <2>4. ResetProgress'
    <3>1. command = "reset" => \A s \in Slots : PageSlots <= s /\ s < i => mem[s] = Blank
      BY <2>1 DEF ToolInv, ResetProgress
    <3>2. command = "reset" => \A s \in Slots : PageSlots <= s /\ s < i' => mem'[s] = Blank
      BY <1>3, <2>1, <2>2, <3>1
    <3> QED
      BY <1>2, <2>1, <3>2 DEF ResetProgress, ResetFormats, Committing
  <2> QED
    BY <1>5, <2>3, <2>4
<1>9. ASSUME CommitErase \/ CommitHead
      PROVE  command = "reset" /\ DeleteProgress'
  <2>1. command = "reset"
    BY <1>1, <1>9 DEF ToolFlashStep, ToolPhase, CommitErase, CommitHead
  <2> QED
    BY <1>2, <2>1 DEF DeleteProgress
<1>10. CASE CommitErase
  <2>1. pc = "commit_erase" /\ pc' = "commit_head" /\ buffer' = buffer
    BY <1>10 DEF CommitErase
  <2>2. /\ settings = Formatted
        /\ \A k \in PageSlots + 1 .. SectorSlots : buffer[k] = Blank
        /\ \A s \in Slots : PageSlots <= s => mem[s] = Blank
    BY <1>9, <1>10, <2>1 DEF ToolInv, ResetProgress, Committing
  <2>3. \A s \in Slots : mem'[s] = IF s < SectorSlots THEN Blank ELSE mem[s]
    BY <1>1, <2>1, Effects
  <2>4. \A s \in Slots : mem'[s] = Blank
    BY <1>3, <2>2, <2>3
  <2>5. ResetProgress'
    BY <1>2, <2>1, <2>2, <2>4 DEF ResetProgress, ResetFormats, Committing
  <2> QED
    BY <1>5, <1>9, <1>10, <2>5
<1>11. CASE CommitHead
  <2>1. pc = "commit_head" /\ pc' = "commit_tail" /\ buffer' = buffer
    BY <1>11 DEF CommitHead
  <2>2. /\ settings = Formatted
        /\ \A k \in PageSlots + 1 .. SectorSlots : buffer[k] = Blank
        /\ \A s \in Slots : mem[s] = Blank
    BY <1>9, <1>11, <2>1 DEF ToolInv, ResetProgress, Committing
  <2>3. \A s \in Slots :
          mem'[s] = IF s = 0 THEN Program(mem[0], settings) ELSE mem[s]
    BY <1>1, <2>1, Effects
  <2>4. \A s \in Slots : mem'[s] = IF s = 0 THEN Formatted ELSE Blank
    BY <1>3, <2>2, <2>3, ProgramErased
  <2>5. mem' = [s \in Slots |-> IF s = 0 THEN Formatted ELSE Blank]
    BY <1>1, <2>4
  <2>6. ResetProgress'
    BY <1>2, <2>1, <2>2, <2>5 DEF ResetProgress, ResetFormats, Committing
  <2> QED
    BY <1>5, <1>9, <1>11, <2>6
<1> QED
  BY <1>6, <1>7, <1>8, <1>10, <1>11 DEF ToolFlashStep

LEMMA DeletedStep ==
  ASSUME ToolInv, before \in [Slots -> Cells], Deleted
  PROVE  ToolInv'
<1> USE DEF Deleted, SectionErased, ramVars, history, toolVars
<1>1. /\ ToolType /\ section \in Sections /\ mem \in [Slots -> Cells]
      /\ pc = "erase" /\ command = "delete" /\ pc' = "tool" /\ command' = "delete"
      /\ mem' = mem /\ before' = before /\ section' = section
      /\ latest' = latest /\ sound' = sound /\ stamped' = stamped
  BY DEF ToolInv, ToolType
<1>2. i = DataMax(section)
  <2>1. i >= EraseTo(section) /\ i <= EraseTo(section) /\ i \in Nat
    BY <1>1 DEF ToolInv, ToolPhase, EraseInPlace, ToolType
  <2> QED
    BY <1>1, <2>1, SectionSize
<1>3. ToolType'
  BY <1>1 DEF ToolType, RingOrdered, Recent, Committing, Clearing
<1>4. ToolPhase'
  BY <1>1 DEF ToolPhase, EraseInPlace, Clearing
<1>5. \A s \in Slots :
        mem[s] = IF s \in DataMin(section) .. DataMax(section) - 1 THEN Blank ELSE before[s]
  BY <1>1, <1>2 DEF ToolInv, DeleteProgress
<1>6. DeleteProgress' /\ ResetProgress'
  <2>1. mem = [s \in Slots |->
                 IF s \in DataMin(section) .. DataMax(section) - 1 THEN Blank
                 ELSE before[s]]
    BY <1>1, <1>5
  <2> QED
    BY <1>1, <2>1
       DEF DeleteProgress, ResetProgress, DeletesExactly, Clearing, DataMin, DataMax
<1>7. HistoryKept'
  <2> SUFFICES Resting(mem)
    BY <1>1 DEF HistoryKept, Resting, OfBoot
  <2>1. Resting(before)
    BY <1>1 DEF ToolInv, HistoryKept
  <2>2. mem[0] = before[0]
    <3>1. 0 \in Slots /\ 0 \notin DataMin(section) .. DataMax(section) - 1
      BY <1>1, DataSlots, Geometry DEF Slots
    <3> QED
      BY <1>5, <3>1
  <2>3. ASSUME NEW f \in stamped, NEW a \in DataMin(f) .. DataMax(f) - 1
        PROVE  OfBoot(mem[a], mem[0].start[f])
    <3>1. f \in Sections /\ mem[a] \in {Blank, before[a]}
      BY <1>1, <1>5, DataSlots DEF ToolType
    <3>2. OfBoot(before[a], before[0].start[f])
      BY <2>1 DEF Resting
    <3> QED
      BY <2>2, <3>1, <3>2, SentinelAssumption DEF OfBoot
  <2> QED
    BY <2>1, <2>2, <2>3 DEF Resting
<1> QED
  BY <1>3, <1>4, <1>6, <1>7 DEF ToolInv

LEMMA ResetOtherStep ==
  ASSUME ToolInv, ResetOther
  PROVE  ToolInv'
<1>1. /\ pc = "erase" /\ command = "reset" /\ command' = "reset" /\ section = 0
      /\ pc' = "erase" /\ section' = 1 /\ i' = FlightSlots /\ mem' = mem
  BY SectionSize DEF ResetOther, SectionErased, ResetFlight, toolVars, Sections
<1>2. ToolType' /\ EraseInPlace'
  BY ResetType DEF ToolInv, ResetOther, Sections
<1>3. ToolPhase'
  BY <1>1, <1>2 DEF ToolPhase
<1>4. i >= FlightSlots /\ i \in Nat
  BY <1>1, SectionSize DEF ResetOther, SectionErased, Sections, ToolInv, ToolType
<1>5. \A s \in Slots : PageSlots <= s /\ s < FlightSlots => mem[s] = Blank
  BY <1>1, <1>4, Geometry DEF ToolInv, ResetProgress, Slots
<1>6. DeleteProgress' /\ HistoryKept'
  BY <1>1 DEF DeleteProgress, HistoryKept
<1>7. ResetProgress'
  BY <1>1, <1>5 DEF ResetProgress, ResetFormats, Committing
<1> QED
  BY <1>2, <1>3, <1>6, <1>7 DEF ToolInv

LEMMA FormatStep ==
  ASSUME ToolInv, CommitFormat
  PROVE  ToolInv'
<1> USE DEF CommitFormat, Format, SectionErased, history, toolVars
<1>1. /\ pc = "erase" /\ command = "reset" /\ command' = "reset" /\ section = 1
      /\ pc' = "commit_erase" /\ buffer' = Read(mem, 0, SectorSlots) /\ mem' = mem
      /\ settings' = Formatted /\ mem \in [Slots -> Cells]
  BY DEF ToolInv, ToolType
<1>2. ToolType'
  <2>1. buffer' \in [1 .. SectorSlots -> Cells]
    BY <1>1, ReadCells
  <2> QED
    BY <1>1, <2>1, CellsHold DEF ToolInv, ToolType, RingOrdered, Recent, Clearing
<1>3. ToolPhase'
  BY <1>1 DEF ToolPhase, EraseInPlace, Clearing
<1>4. i >= 2 * FlightSlots /\ i \in Nat
  BY <1>1, SectionSize, Geometry DEF Sections, ToolInv, ToolType
<1>5. \A s \in Slots : PageSlots <= s => mem[s] = Blank
  BY <1>1, <1>4, Geometry DEF ToolInv, ResetProgress, Slots
<1>6. \A k \in PageSlots + 1 .. SectorSlots : buffer'[k] = Blank
  <2> SUFFICES ASSUME NEW k \in PageSlots + 1 .. SectorSlots PROVE buffer'[k] = Blank
    OBVIOUS
  <2>1. k \in 1 .. SectorSlots /\ 0 + k - 1 \in Slots /\ PageSlots <= 0 + k - 1
    BY Geometry DEF Slots
  <2>2. buffer'[k] = mem[0 + k - 1]
    BY <1>1, <2>1 DEF Read
  <2> QED
    BY <1>5, <2>1, <2>2
<1>7. DeleteProgress' /\ HistoryKept'
  BY <1>1 DEF DeleteProgress, HistoryKept
<1>8. ResetProgress'
  BY <1>1, <1>5, <1>6 DEF ResetProgress, ResetFormats, Committing
<1> QED
  BY <1>2, <1>3, <1>7, <1>8 DEF ToolInv

(* The write that ends commit_settings sends blanks to erased slots.       *)
LEMMA ResetDoneStep ==
  ASSUME ToolInv, ResetDone
  PROVE  ToolInv' /\ mem' = mem
<1> USE DEF ResetDone, ramVars, toolVars
<1>1. /\ ToolType /\ ToolPhase /\ mem \in [Slots -> Cells]
      /\ pc = "commit_tail" /\ pc' = "tool" /\ command = "reset" /\ command' = "reset"
      /\ mem' = Outcome /\ latest' = -1 /\ sound' = InTurn /\ stamped' = Sections
  BY DEF ToolInv, ToolType
<1>2. TypeInv
  BY <1>1, ToolIsTyped
<1>3. /\ mem = [s \in Slots |-> IF s = 0 THEN Formatted ELSE Blank]
      /\ \A k \in PageSlots + 1 .. SectorSlots : buffer[k] = Blank
  BY <1>1 DEF ToolInv, ResetProgress, Committing
<1>4. mem' = mem
  <2>1. ASSUME NEW s \in Slots PROVE Outcome[s] = mem[s]
    <3>1. Program(mem[s], Blank) = mem[s]
      BY Zenon DEF Program
    <3> QED
      BY <1>1, <1>2, <1>3, <3>1, TailSlot
  <2>2. Outcome \in [Slots -> Cells]
    BY <1>2, OutcomeType
  <2> QED
    BY <1>1, <2>1, <2>2
<1>5. ToolType'
  <2>1. buffer' \in [1 .. 0 -> Cells]
    OBVIOUS
  <2> QED
    BY <1>1, <1>4, <2>1 DEF ToolType, RingOrdered, Recent, Committing, Clearing, InTurn
<1>6. ToolPhase'
  BY <1>1 DEF ToolPhase, EraseInPlace, Clearing
<1>7. DeleteProgress' /\ ResetProgress'
  BY <1>1, <1>3, <1>4 DEF DeleteProgress, ResetProgress, ResetFormats, Committing
<1>8. HistoryKept'
  <2>1. mem[0] = Formatted /\ Formatted.last = 0 /\ Formatted \in Settings
    BY <1>3, CellsHold, Geometry DEF Slots, Formatted
  <2>2. ASSUME NEW f \in Sections, NEW a \in DataMin(f) .. DataMax(f) - 1
        PROVE  OfBoot(mem[a], mem[0].start[f])
    <3>1. mem[a] = Blank
      BY <1>3, DataSlots
    <3> QED
      BY <3>1, SentinelAssumption DEF OfBoot
  <2> QED
    BY <1>1, <1>4, <2>1, <2>2 DEF HistoryKept, Resting, OfBoot, Sections
<1> QED
  BY <1>4, <1>5, <1>6, <1>7, <1>8 DEF ToolInv

(* The board finds the flash as a power loss would have left it.           *)
LEMMA UnplugStep ==
  ASSUME ToolInv, command \in {"flight", "none", "delete", "reset"}, Unplug
  PROVE  IInv'
<1> USE DEF Unplug
<1>1. /\ ToolType /\ ToolPhase /\ command \in {"none", "delete", "reset"}
      /\ pc' = "off" /\ mem' \in {mem, Torn} /\ mem \in [Slots -> Cells]
      /\ state' = 0 /\ buf_idx' = 0 /\ seq' = 0 /\ launchSeq' = 0
  BY DEF ToolInv, ToolType
<1>2. Torn \in [Slots -> Cells] /\ (pc \in {"tool", "halted"} => Torn = mem)
  BY <1>1, TornType
<1>3. TypeInv'
  <2>1. buffer' \in [1 .. 0 -> Cells]
    OBVIOUS
  <2>2. sound' \in 0 .. InTurn /\ stamped' \subseteq Sections
    BY <1>1 DEF ToolType, InTurn
  <2>3. /\ after' = "begin" /\ i' = 0 /\ settings' = Formatted /\ section' = 0
        /\ addr' = addr /\ packet_array' = packet_array /\ allow_write' = allow_write
        /\ boots' = boots /\ latest' = latest
    OBVIOUS
  <2>4. TypeOK'
    BY <1>1, <1>2, <2>1, <2>2, <2>3, CellsHold, Constants
       DEF TypeOK, Phases, Sections, ToolType
  <2> QED
    BY <1>1, <2>3, <2>4 DEF TypeInv, Shape, Committing, Clearing, ToolType
<1>4. EraseInPlace' /\ AddrInPlace' /\ SettingsInPlace' /\ TargetsErased' /\ Counted'
      /\ FlightWritten'
  BY <1>1 DEF EraseInPlace, AddrInPlace, SettingsInPlace, SettingsRestored, PageWhole,
     TargetsErased, Counted, FlightWritten, Launching, Committing, Clearing, Logging
<1>5. RingOrdered'
  BY <1>1 DEF ToolType, RingOrdered, Recent, Launching, Committing, Clearing
<1>6. TurnInPlace' /\ StampsInPlace'
  <2>1. latest' = latest /\ ~Launching' /\ ~Logging' /\ ~Committing'
    BY <1>1 DEF Launching, Committing, Clearing, Logging
  <2>2. CASE pc \in {"tool", "halted"}
    <3>1. Resting(mem) /\ mem' = mem /\ sound' = sound /\ stamped' = stamped
      BY <1>1, <1>2, <2>2 DEF ToolInv, HistoryKept
    <3> QED
      BY <1>1, <2>1, <3>1 DEF Resting, TurnInPlace, StampsInPlace, DataOfBoot, OfBoot,
         DataMin, DataMax
  <2>3. CASE pc \notin {"tool", "halted"}
    <3>1. sound' = 0 /\ stamped' = {}
      BY <2>3
    <3> QED
      BY <1>1, <2>1, <3>1 DEF TurnInPlace, StampsInPlace, InTurn
  <2> QED
    BY <2>2, <2>3
<1> QED
  BY <1>3, <1>4, <1>5, <1>6 DEF IInv

-----------------------------------------------------------------------------
LEMMA ToolStep ==
  ASSUME OffloadIInv, Tool
  PROVE  /\ (ToolInv' /\ command' \in {"none", "delete", "reset"})
              \/ (IInv' /\ command' = "flight")
         /\ before' \in [Slots -> Cells]
         /\ RowsKept'
<1>1. /\ before \in [Slots -> Cells] /\ mem \in [Slots -> Cells] /\ RowsKept
      /\ command \in {"flight", "none", "delete", "reset"}
      /\ command # "flight" => ToolInv
      /\ command = "flight" => pc # "tool" /\ IInv
  BY DEF OffloadIInv, IInv, TypeInv, TypeOK, Phases, ToolInv, ToolType
<1>2. ASSUME mem' = mem
      PROVE  RowsKept'
  BY <1>1, <1>2 DEF RowsKept, InRow, Flown
<1>3. CASE ToolSetup
  BY <1>1, <1>2, <1>3, SetupStep DEF ToolSetup
<1>4. CASE \E f \in Sections : Delete(f)
  <2>1. PICK f \in Sections : Delete(f)
    BY <1>4
  <2> QED
    BY <1>1, <1>2, <2>1, DeleteStep DEF Delete, ResetFlight
<1>5. CASE MemReset
  BY <1>1, <1>2, <1>5, MemResetStep DEF MemReset, ResetFlight
<1>6. CASE ToolFlashStep
  <2>1. ToolInv /\ command' = command /\ before' = before
        /\ command \in {"delete", "reset"}
    BY <1>1, <1>6 DEF ToolFlashStep, toolVars
  <2>2. /\ ToolType' /\ ToolPhase' /\ ToolType /\ ToolPhase
        /\ pc # "tool" /\ mem' = Outcome
    BY <1>6, <2>1, FlashStepType DEF ToolInv
  <2>3. RowsKept'
    BY <1>1, <2>1, <2>2, RowsOfTool
  <2>4. DeleteProgress' /\ ResetProgress' /\ HistoryKept'
    BY <1>1, <1>6, <2>1, FlashProgress
  <2> QED
    BY <1>1, <2>1, <2>2, <2>3, <2>4 DEF ToolInv
<1>7. CASE Deleted
  BY <1>1, <1>2, <1>7, DeletedStep DEF Deleted, toolVars
<1>8. CASE ResetOther
  BY <1>1, <1>2, <1>8, ResetOtherStep DEF ResetOther, ResetFlight, toolVars
<1>9. CASE CommitFormat
  BY <1>1, <1>2, <1>9, FormatStep DEF CommitFormat, toolVars
<1>10. CASE ResetDone
  BY <1>1, <1>2, <1>10, ResetDoneStep DEF ResetDone, toolVars
<1>11. CASE Unplug
  <2>1. IInv'
    BY <1>1, <1>11, UnplugStep DEF Unplug
  <2>2. RowsKept'
    BY <1>1, <1>11, RowsOfTool DEF Unplug, ToolInv
  <2> QED
    BY <1>1, <1>11, <2>1, <2>2 DEF Unplug
<1> QED
  BY <1>3, <1>4, <1>5, <1>6, <1>7, <1>8, <1>9, <1>10, <1>11 DEF Tool

LEMMA OffloadInvStep == OffloadIInv /\ [OffloadNext]_offloadVars => OffloadIInv'
<1> SUFFICES ASSUME OffloadIInv, [OffloadNext]_offloadVars PROVE OffloadIInv'
  OBVIOUS
<1>1. CASE Tool
  BY <1>1, ToolStep DEF OffloadIInv, ToolInv
<1>2. CASE Fly
  <2>1. IInv /\ [Next]_vars /\ RowsKept /\ command' = "flight" /\ before' = before
    BY <1>2 DEF Fly, OffloadIInv, toolVars
  <2>2. IInv' /\ RowsKept'
    BY <2>1, InvStep, RowsFlown
  <2> QED
    BY <2>1, <2>2 DEF OffloadIInv
<1>3. CASE UNCHANGED offloadVars
  <2>1. /\ command' = command /\ before' = before /\ [Next]_vars
        /\ mem' = mem /\ pc' = pc /\ after' = after /\ i' = i /\ buffer' = buffer
        /\ settings' = settings /\ section' = section /\ addr' = addr
        /\ packet_array' = packet_array /\ buf_idx' = buf_idx /\ state' = state
        /\ allow_write' = allow_write /\ boots' = boots /\ seq' = seq
        /\ launchSeq' = launchSeq /\ latest' = latest
        /\ sound' = sound /\ stamped' = stamped
    BY <1>3 DEF offloadVars, toolVars, vars, flashVars, ramVars, history
  <2>2. command = "flight" => IInv'
    BY <2>1, InvStep DEF OffloadIInv
  <2>3. RowsKept'
    BY <2>1 DEF OffloadIInv, RowsKept, InRow, Flown
  <2>4. command # "flight" => ToolType' /\ ToolPhase'
    BY <2>1 DEF OffloadIInv, ToolInv, ToolType, ToolPhase, RingOrdered, Recent, Launching,
       Committing, Clearing, EraseInPlace, EraseFrom, EraseTo, DataMax
  <2>5. command # "flight" => DeleteProgress' /\ ResetProgress'
    BY <2>1 DEF OffloadIInv, ToolInv, DeleteProgress, ResetProgress, DeletesExactly,
       ResetFormats, Committing, Clearing, DataMin, DataMax
  <2>6. command # "flight" => HistoryKept'
    BY <2>1 DEF OffloadIInv, ToolInv, HistoryKept, Resting, OfBoot
  <2> QED
    BY <2>1, <2>2, <2>3, <2>4, <2>5, <2>6 DEF OffloadIInv, ToolInv
<1> QED
  BY <1>1, <1>2, <1>3 DEF OffloadNext

(* The invariant of OffloadInv holds at every flash command of the board   *)
(* and of the tool, in whatever order they take turns and lose power.      *)
THEOREM OffloadInvariance == OffloadSpec => []OffloadIInv
  BY OffloadInitInv, OffloadInvStep, PTL DEF OffloadSpec

(* D0 and D1 leave the flight's data erased and every other slot, the      *)
(* settings page with them, as the command found it.                       *)
THEOREM DeletionsExact == OffloadSpec => []DeletesExactly
<1>1. OffloadIInv => DeletesExactly
  BY DEF OffloadIInv, ToolInv, DeleteProgress, DeletesExactly
<1> QED
  BY <1>1, OffloadInvariance, PTL

(* MEMRST leaves the formatted chip, whatever was on it.                   *)
THEOREM FormatExact == OffloadSpec => []ResetFormats
<1>1. OffloadIInv => ResetFormats
  BY DEF OffloadIInv, ToolInv, ResetProgress, ResetFormats
<1> QED
  BY <1>1, OffloadInvariance, PTL

(* Whatever commands the tool was given between the boots: a boot does not *)
(* take the section of the flight before it, from the third whole boot on  *)
(* after a command that was cut short, and at once otherwise.              *)
THEOREM TurnSurvivesTool == OffloadSpec => []TurnKept
<1>1. OffloadIInv => TurnKept
  BY TurnIsKept DEF OffloadIInv, TurnKept
<1> QED
  BY <1>1, OffloadInvariance, PTL

(* R0 and R1 print rows of one flight, each in the place of its packet,    *)
(* but for what was cut short and what lies in the settings' sector.       *)
THEOREM RowsAreOneFlight == OffloadSpec => []RowsOfOneFlight
<1>1. OffloadIInv => RowsOfOneFlight
  <2> SUFFICES ASSUME OffloadIInv, NEW f \in Sections,
                      NEW a \in Printed(f) \ (0 .. SectorSlots - 1),
                      NEW b \in Printed(f) \ (0 .. SectorSlots - 1),
                      Flown(mem[a]), Flown(mem[b])
               PROVE  mem[a].boot = mem[b].boot /\ mem[b].seq - mem[a].seq = b - a
    BY DEF RowsOfOneFlight
  <2>1. a \in DataMin(f) .. DataMax(f) - 1 /\ b \in DataMin(f) .. DataMax(f) - 1
    BY DEF Printed
  <2>2. a >= SectorSlots /\ b >= SectorSlots
    BY <2>1, DataSlots, Geometry
  <2> QED
    BY <2>1, <2>2 DEF OffloadIInv, RowsKept, InRow
<1> QED
  BY <1>1, OffloadInvariance, PTL
=============================================================================
