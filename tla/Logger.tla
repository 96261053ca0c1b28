------------------------------ MODULE Logger -------------------------------
(***************************************************************************)
(* The flight logger (src/logger.h, src/logger.cpp): it keeps the last few *)
(* packets before launch in a ring, erases one of the two flight sections  *)
(* of the flash when the launch is reported, and then appends a page of    *)
(* packets at a time until the section is full or the landing is reported. *)
(*                                                                         *)
(* The firmware is one thread, so the calls into the logger never overlap. *)
(* What can come between two flash commands of one call is a power loss:   *)
(* a step of this module is therefore one flash command, with the control  *)
(* of the call held in pc, and a power loss may hit before a command, or   *)
(* in the middle of one, leaving the slots it was changing garbled.        *)
(*                                                                         *)
(* Abstractions: a packet is the boot it was taken in and its position     *)
(* among the packets of that boot (the timestamp of the code orders them   *)
(* the same way); the other fields are payload. A start time is the boot   *)
(* whose clock it was read from. telem_channel is never changed and left   *)
(* out. section is oldest_written_section, from which data_addr_min and    *)
(* data_addr_max follow; last_written_section lives only inside begin().   *)
(***************************************************************************)
EXTENDS FlashChip

CONSTANTS
  BufLen,      \* length of packet_array: 8 on the board
  MaxBoots,    \* bound: power-ups explored
  MaxWrites    \* bound: packets offered in one boot

ASSUME BufferAssumption ==
  /\ BufLen \in Nat \ {0}
  /\ \E q \in 1 .. PageSlots : PageSlots = q * BufLen
  /\ MaxBoots \in Nat
  /\ MaxWrites \in Nat

VARIABLES
  mem,            \* the flash, the only state that survives a power loss
  pc,             \* the flash command about to be sent, or "run" between calls
  after,          \* the call that commit_settings returns to
  i,              \* the loop variable of the running loop
  buffer,         \* the stack buffer of commit_settings or clear_first_sector
  settings,       \* settings_
  section,        \* oldest_written_section
  addr,           \* addr
  packet_array,   \* packet_array
  buf_idx,        \* buf_idx
  state,          \* state: 0 before launch, 1 after
  allow_write     \* allow_write_to_flash

(* History variables: they record what happened and guard nothing.         *)
VARIABLES
  boots,          \* power-ups so far; also the clock of the current boot
  seq,            \* packets offered to write() in this boot
  launchSeq,      \* the value of seq when the launch was reported
  latest,         \* section of the flight this boot has logged, or the one
                  \* before; -1 if that did not fly
  sound,          \* boots in a row that left the settings' page whole, up to
                  \* InTurn; as many for a chip that is formatted
  stamped         \* sections whose start time was stored by the last launch to
                  \* get to their erase, and not lost since

flashVars == <<mem, pc, after, i, buffer>>
ramVars   == <<settings, section, addr, packet_array, buf_idx, state, allow_write>>
history   == <<boots, seq, launchSeq, latest, sound, stamped>>
vars      == <<flashVars, ramVars, history>>

-----------------------------------------------------------------------------
(***************************************************************************)
(* Values and the memory map                                               *)
(***************************************************************************)
Sections == {0, 1}

(* LOGGER_DATA_LIMITS: flight 0 gives up its first page to the settings.   *)
DataMin(f) == IF f = 0 THEN PageSlots ELSE FlightSlots
DataMax(f) == IF f = 0 THEN FlightSlots ELSE 2 * FlightSlots

Packet(b, n) == [boot |-> b, seq |-> n]
Packets      == [boot : 0 .. MaxBoots, seq : 0 .. MaxWrites]

(* The Logger is a static object, so the unset entries of the ring are     *)
(* all zero bytes.                                                         *)
ZeroPacket == Packet(0, 0)

(* An erased word read back as an int, and a start time nobody set.        *)
AllOnes == -1

Settings == [last : Int, start : [Sections -> AllOnes .. MaxBoots]]

Cells == {Blank, Garbled} \cup Packets \cup Settings

(* No packet and no settings record is all ones: the low bits of aux_data  *)
(* are zero, and telem_channel is a printable character.                   *)
ASSUME SentinelAssumption ==
  /\ Blank \notin Packets \cup Settings \cup {Garbled}
  /\ Garbled \notin Packets \cup Settings

Formatted == [last |-> 0, start |-> [f \in Sections |-> 0]]

(* What an int holds after an interrupted write: one value of each kind    *)
(* that begin() can tell apart.                                            *)
TornInts == -2 .. 2

(* The bytes of slot 0 taken as a FlashSettings.                           *)
SettingsIn(c) ==
  IF c \in Settings THEN {c}
  ELSE [last : IF c = Blank THEN {AllOnes} ELSE TornInts,
        start : {[f \in Sections |-> AllOnes]}]

(* The remainder of C: it takes the sign of the dividend.                  *)
CRem2(n) == IF n >= 0 THEN n % 2 ELSE -((-n) % 2)

-----------------------------------------------------------------------------
(***************************************************************************)
(* The pieces of the handlers                                              *)
(***************************************************************************)
(* Beside some of them stands a mutated form, NameMutant: the slip that a  *)
(* property below is there to catch. No action uses one.                   *)

(* begin(): write over flight 0 if the settings name section 1 as the last *)
(* one written, and over flight 1 for any other value.                     *)
ChooseSection(last) == IF last = 1 THEN 0 ELSE 1

(* mutated: the turn of the sections is not recorded                       *)
NextLastMutant(last) == last
NextLast(last)       == CRem2(last + 1)

(* change_state(): the clock goes to the start time of the section.        *)
(* mutated: to the start time of the other one                             *)
StampedMutant(f) == [settings EXCEPT !.start[1 - f] = boots]
Stamped(f)       == [settings EXCEPT !.start[f] = boots]

(* commit_settings(): what it sends after the settings, in one write.      *)
RestOfSector == [k \in 1 .. (SectorSlots - PageSlots) |-> buffer[PageSlots + k]]

(* reset_flight(): flight 0 starts past the block that clear_first_sector  *)
(* erases. Mutated: flight 0 starts at that block; flight 1 starts past    *)
(* its first block; the end is the end of the chip; the loop stands still. *)
EraseFromMutant(f) == IF f = 0 THEN 0 ELSE FlightSlots
EraseSkipMutant(f) == BlockSlots + IF f = 0 THEN 0 ELSE FlightSlots
EraseFrom(f)       == IF f = 0 THEN BlockSlots ELSE FlightSlots

EraseToMutant(f) == 2 * FlightSlots
EraseTo(f)       == DataMax(f)

EraseNextMutant(a) == a
EraseNext(a)       == a + BlockSlots

(* change_state(): the ring is written out from its oldest entry.          *)
(* Mutated: from the first entry of the array; each entry off by one.      *)
DumpStartMutant(n) == 0
DumpStart(n)       == n
DumpIndexMutant(k) == (k + 1) % BufLen
DumpIndex(k)       == k % BufLen

(* write(): mutated, the tests are off by one, or leave the last page.     *)
BufferFullMutant(n) == n > BufLen
BufferFull(n)       == n >= BufLen

SectionFullMutant(a)  == a > DataMax(section)
SectionEarlyMutant(a) == a >= DataMax(section) - BufLen
SectionFull(a)        == a >= DataMax(section)

(***************************************************************************)
(* For the history: the boots after which the turn of the sections is      *)
(* right. begin() stores -1, 0 or 1 whatever int it finds, the boot after  *)
(* 0 or 1, and the third the section it takes.                             *)
(***************************************************************************)
InTurn == 3

(* The section is erased, and the flight goes into it.                     *)
Logging == pc = "dump" \/ state = 1

(* The settings' page is not erased, nor about to be.                      *)
PageWhole == pc \in {"commit_tail", "erase", "dump", "run", "flush"}

-----------------------------------------------------------------------------
(***************************************************************************)
(* The flash command each step sends, as the memory it is to leave behind. *)
(***************************************************************************)
Outcome ==
  CASE pc = "commit_erase"  -> EraseSector(mem, 0)
    [] pc = "commit_head"   -> Write(mem, 0, <<settings>>, 1)
    [] pc = "commit_tail"   ->
         Write(mem, PageSlots, RestOfSector, SectorSlots - PageSlots)
    [] pc = "clear_erase"   -> EraseSector64(mem, 0)
    [] pc = "clear_restore" -> Write(mem, 0, buffer, PageSlots)
    [] pc = "erase" /\ i < EraseTo(section) -> EraseSector64(mem, i)
    [] pc = "dump"  -> Write(mem, addr, <<packet_array[DumpIndex(i)]>>, 1)
    [] pc = "flush" -> Write(mem, addr, <<packet_array[i]>>, 1)
    [] OTHER        -> mem

Torn == [s \in Slots |-> IF Outcome[s] = mem[s] THEN mem[s] ELSE Garbled]

ZeroRing == [k \in 0 .. BufLen - 1 |-> ZeroPacket]

Init ==
  /\ mem \in {[s \in Slots |-> Blank],
              [s \in Slots |-> IF s = 0 THEN Formatted ELSE Blank]}
  /\ pc = "off" /\ after = "begin" /\ i = 0 /\ buffer = <<>>
  /\ settings = Formatted /\ section = 0 /\ addr = 0
  /\ packet_array = ZeroRing /\ buf_idx = 0
  /\ state = 0 /\ allow_write = TRUE
  /\ boots = 0 /\ seq = 0 /\ launchSeq = 0 /\ latest = -1
  /\ IF mem[0] = Formatted THEN sound = InTurn /\ stamped = Sections
                            ELSE sound = 0 /\ stamped = {}

-----------------------------------------------------------------------------
(***************************************************************************)
(* begin(), called once from setup()                                       *)
(***************************************************************************)
Begin ==
  /\ pc = "off" /\ boots < MaxBoots
  /\ boots' = boots + 1
  /\ \E s \in SettingsIn(mem[0]) :
       /\ section'  = ChooseSection(s.last)
       /\ settings' = [s EXCEPT !.last = NextLast(s.last)]
  /\ buffer' = Read(mem, 0, SectorSlots)
  /\ after' = "begin" /\ pc' = "commit_erase"
  /\ UNCHANGED <<mem, i, addr, packet_array, buf_idx, state, allow_write,
                 seq, launchSeq, latest, sound, stamped>>

(* flash.begin() did not find the chip: setup() stays in its error loop.   *)
BeginFails ==
  /\ pc = "off" /\ boots < MaxBoots
  /\ boots' = boots + 1
  /\ pc' = "halted"
  /\ UNCHANGED <<mem, after, i, buffer, ramVars, seq, launchSeq, latest, sound, stamped>>

(***************************************************************************)
(* commit_settings()                                                       *)
(***************************************************************************)
CommitErase ==
  /\ pc = "commit_erase" /\ pc' = "commit_head"
  /\ mem' = Outcome
  /\ UNCHANGED <<after, i, buffer, ramVars, history>>

CommitHead ==
  /\ pc = "commit_head" /\ pc' = "commit_tail"
  /\ mem' = Outcome
  /\ UNCHANGED <<after, i, buffer, ramVars, history>>

(* The last command of commit_settings, and the return to begin().         *)
CommitTailBegin ==
  /\ pc = "commit_tail" /\ after = "begin" /\ pc' = "run"
  /\ mem' = Outcome
  /\ addr' = DataMin(section)
  /\ buffer' = <<>>
  /\ UNCHANGED <<after, i, settings, section, packet_array, buf_idx, state,
                 allow_write, history>>

(* ... and the return to change_state(), which goes on to reset_flight():  *)
(* for flight 0, clear_first_sector() first reads the settings page.       *)
CommitTailLaunch ==
  /\ pc = "commit_tail" /\ after = "launch"
  /\ mem' = Outcome
  /\ IF section = 0
     THEN pc' = "clear_erase" /\ buffer' = Read(Outcome, 0, PageSlots)
     ELSE pc' = "erase" /\ buffer' = <<>>
  /\ i' = EraseFrom(section)
  /\ UNCHANGED <<after, ramVars, history>>

(***************************************************************************)
(* reset_flight(), with clear_first_sector(true) for flight 0              *)
(***************************************************************************)
ClearErase ==
  /\ pc = "clear_erase" /\ pc' = "clear_restore"
  /\ mem' = Outcome
  /\ UNCHANGED <<after, i, buffer, ramVars, history>>

ClearRestore ==
  /\ pc = "clear_restore" /\ pc' = "erase"
  /\ mem' = Outcome
  /\ buffer' = <<>>
  /\ UNCHANGED <<after, i, ramVars, history>>

EraseBlock ==
  /\ pc = "erase" /\ i < EraseTo(section)
  /\ mem' = Outcome
  /\ i' = EraseNext(i)
  /\ UNCHANGED <<pc, after, buffer, ramVars, history>>

EraseDone ==
  /\ pc = "erase" /\ i >= EraseTo(section) /\ pc' = "dump"
  /\ i' = DumpStart(buf_idx)
  /\ latest' = section /\ stamped' = stamped \cup {section}
  /\ UNCHANGED <<mem, after, buffer, ramVars, boots, seq, launchSeq, sound>>

(***************************************************************************)
(* write_packet() in the loop of change_state() ...                        *)
(***************************************************************************)
Dump ==
  /\ pc = "dump"
  /\ mem' = Outcome
  /\ addr' = addr + 1
  /\ IF i + 1 < DumpStart(buf_idx) + BufLen
     THEN i' = i + 1 /\ UNCHANGED <<pc, state, buf_idx>>
     ELSE pc' = "run" /\ i' = 0 /\ state' = 1 /\ buf_idx' = 0
  /\ UNCHANGED <<after, buffer, settings, section, packet_array, allow_write,
                 history>>

(* ... and in the loop of write().                                         *)
Flush ==
  /\ pc = "flush"
  /\ mem' = Outcome
  /\ addr' = addr + 1
  /\ IF i + 1 < BufLen
     THEN i' = i + 1 /\ UNCHANGED <<pc, buf_idx>>
     ELSE pc' = "run" /\ i' = 0 /\ buf_idx' = 0
  /\ UNCHANGED <<after, buffer, settings, section, packet_array, state,
                 allow_write, history>>

-----------------------------------------------------------------------------
(***************************************************************************)
(* write(data): a new packet is offered                                    *)
(***************************************************************************)
Offer ==
  /\ pc = "run" /\ seq < MaxWrites
  /\ seq' = seq + 1
  /\ UNCHANGED <<mem, after, buffer, settings, section, addr, state, allow_write,
                 boots, launchSeq, latest, sound, stamped>>

WriteAfterLanding ==
  /\ Offer /\ ~allow_write
  /\ UNCHANGED <<pc, i, packet_array, buf_idx>>

WriteBeforeLaunch ==
  /\ Offer /\ allow_write /\ state = 0
  /\ packet_array' = [packet_array EXCEPT ![buf_idx % BufLen] = Packet(boots, seq')]
  /\ buf_idx' = buf_idx + 1
  /\ UNCHANGED <<pc, i>>

WriteWhenFull ==
  /\ Offer /\ allow_write /\ state # 0 /\ SectionFull(addr)
  /\ UNCHANGED <<pc, i, packet_array, buf_idx>>

WriteInFlight ==
  /\ Offer /\ allow_write /\ state # 0 /\ ~SectionFull(addr)
  /\ packet_array' = [packet_array EXCEPT ![buf_idx] = Packet(boots, seq')]
  /\ buf_idx' = buf_idx + 1
  /\ IF BufferFull(buf_idx + 1)
     THEN pc' = "flush" /\ i' = 0
     ELSE UNCHANGED <<pc, i>>

(***************************************************************************)
(* change_state(s): loop() calls it with 1 once, and later with 2          *)
(***************************************************************************)
Launch ==
  /\ pc = "run" /\ state = 0
  /\ settings' = Stamped(section)
  /\ buffer' = Read(mem, 0, SectorSlots)
  /\ after' = "launch" /\ pc' = "commit_erase"
  /\ launchSeq' = seq /\ stamped' = stamped \ {section}
  /\ UNCHANGED <<mem, i, section, addr, packet_array, buf_idx, state, allow_write,
                 boots, seq, latest, sound>>

Land ==
  /\ pc = "run" /\ state = 1 /\ allow_write
  /\ allow_write' = FALSE
  /\ UNCHANGED <<flashVars, settings, section, addr, packet_array, buf_idx, state,
                 history>>

(***************************************************************************)
(* The power goes, before or during the command pc names. RAM comes back   *)
(* as the loader leaves it.                                                *)
(***************************************************************************)
PowerLoss ==
  /\ pc # "off" /\ pc' = "off"
  /\ mem' \in {mem, Torn}
  /\ after' = "begin" /\ i' = 0 /\ buffer' = <<>>
  /\ settings' = Formatted /\ section' = 0 /\ addr' = 0
  /\ packet_array' = ZeroRing /\ buf_idx' = 0
  /\ state' = 0 /\ allow_write' = TRUE
  /\ seq' = 0 /\ launchSeq' = 0
  /\ IF pc = "halted"
     THEN UNCHANGED <<latest, sound, stamped>>
     ELSE /\ latest' = IF Logging THEN latest ELSE -1
          /\ sound' = IF ~PageWhole THEN 0
                      ELSE IF sound < InTurn THEN sound + 1 ELSE sound
          /\ stamped' = IF PageWhole THEN stamped ELSE {}
  /\ UNCHANGED boots

FlashStep ==
  \/ CommitErase \/ CommitHead \/ CommitTailBegin \/ CommitTailLaunch
  \/ ClearErase \/ ClearRestore \/ EraseBlock \/ EraseDone
  \/ Dump \/ Flush

CallStep ==
  \/ Begin \/ BeginFails
  \/ WriteAfterLanding \/ WriteBeforeLaunch \/ WriteWhenFull \/ WriteInFlight
  \/ Launch \/ Land

Next == FlashStep \/ CallStep \/ PowerLoss

(* A flash command once begun is carried on: nothing else runs on the      *)
(* processor until the call returns.                                       *)
Spec == Init /\ [][Next]_vars /\ WF_vars(FlashStep)

-----------------------------------------------------------------------------
(***************************************************************************)
(* Type and array bounds: packet_array has BufLen entries, and in flight   *)
(* write() stores at packet_array[buf_idx] without reducing the index.     *)
(***************************************************************************)
Phases == {"off", "halted", "run", "commit_erase", "commit_head", "commit_tail",
           "clear_erase", "clear_restore", "erase", "dump", "flush"}

TypeOK ==
  /\ mem \in [Slots -> Cells]
  /\ pc \in Phases
  /\ after \in {"begin", "launch"}
  /\ i \in Nat
  /\ \E n \in {0, PageSlots, SectorSlots} : buffer \in [1 .. n -> Cells]
  /\ settings \in Settings
  /\ section \in Sections
  /\ addr \in Nat
  /\ packet_array \in [0 .. BufLen - 1 -> Packets]
  /\ buf_idx \in Nat
  /\ state \in {0, 1}
  /\ state = 1 /\ pc = "run" => buf_idx < BufLen
  /\ allow_write \in BOOLEAN
  /\ boots \in 0 .. MaxBoots /\ seq \in 0 .. MaxWrites
  /\ launchSeq \in 0 .. seq
  /\ latest \in {-1} \cup Sections
  /\ sound \in 0 .. InTurn /\ stamped \subseteq Sections

-----------------------------------------------------------------------------
(***************************************************************************)
(* What the recorded flight holds                                          *)
(***************************************************************************)

(* R0 and R1 of the offload tool print the slots of the section from the   *)
(* first one to the first erased one or the end.                           *)
Printed(f) ==
  {a \in DataMin(f) .. DataMax(f) - 1 : \A b \in DataMin(f) .. a : mem[b] # Blank}

(* The packet due at offset k of a flight: first the last BufLen packets   *)
(* before the launch, oldest first (zeros, if there were fewer), and then  *)
(* every packet after it, in order.                                        *)
Due(k) ==
  LET n == launchSeq - BufLen + 1 + k
  IN  IF n <= 0 THEN ZeroPacket ELSE Packet(boots, n)

(* From the moment the flight's section is erased, the offload tool would  *)
(* read back exactly the packets written so far, in order, without a gap,  *)
(* a repeat, or a packet of an older flight behind them.                   *)
FlightReadsBack ==
  Logging =>
    /\ Printed(section) = DataMin(section) .. addr - 1
    /\ \A a \in Printed(section) : mem[a] = Due(a - DataMin(section))

(* Until the section is full or the landing is reported, the packets a     *)
(* power loss can take away are the ones in RAM, fewer than BufLen: all    *)
(* the others taken since the launch are in the flash.                     *)
NothingDropped ==
  pc = "run" /\ state = 1 /\ allow_write /\ addr < DataMax(section) =>
    /\ buf_idx < BufLen
    /\ seq - launchSeq = (addr - DataMin(section)) - BufLen + buf_idx

(* write() looks at addr once for a whole ring, and change_state() does    *)
(* not look at it: still no packet is programmed outside the section.      *)
AddrInBounds ==
  /\ Logging => addr \in DataMin(section) .. DataMax(section)
  /\ pc \in {"dump", "flush"} => addr < DataMax(section)

-----------------------------------------------------------------------------
(***************************************************************************)
(* The settings page and the turn of the sections                          *)
(***************************************************************************)

(* The settings page shares its sector, and its block, with flight 0 and   *)
(* is erased with them: whenever a call is done with it, the page holds    *)
(* what RAM holds.                                                         *)
SettingsRestored == PageWhole => mem[0] = settings

(* A boot never prepares to write over the flight that the boot before has *)
(* recorded, whatever the settings' page once held: a blank chip, a power  *)
(* loss while the page was erased, boots that did not fly. begin() gets    *)
(* the turn of the sections right again within InTurn boots, if the power  *)
(* does not go at a moment when the page is erased.                        *)
LatestFlightKept ==
  sound >= InTurn /\ pc \notin {"off", "halted"} /\ ~Logging => section # latest

(* The start time in the settings of a flight is of the boot whose packets *)
(* are in the flight, as PRINT_CSV subtracts them; unless the power went   *)
(* between the store of a start time and the erase of the older flight, or *)
(* took the settings' page with it since.                                  *)
StartTimeMatches ==
  pc = "run" =>
    \A f \in stamped : \A a \in Printed(f) :
      mem[a] \in Packets /\ mem[a].boot > 0 => mem[a].boot = mem[0].start[f]

-----------------------------------------------------------------------------
(***************************************************************************)
(* What a flash command may do                                             *)
(***************************************************************************)

(* No command, not even one cut short by a power loss, touches the data of *)
(* the flight that is not being written over, nor that of the other before *)
(* the launch is reported: a boot that does not fly costs no flight, also  *)
(* when it takes the wrong section's turn. What lies in the settings'      *)
(* sector is left out here, see CommitPreservesFlightData.                 *)
OtherFlightUntouched ==
  [][pc # "off" =>
       \A s \in Slots :
         /\ s >= SectorSlots
         /\ s \in DataMin(1 - section) .. DataMax(1 - section) - 1 \/ after = "begin"
         => mem'[s] = mem[s]]_vars

(* A slot is programmed only when it is erased: each program command comes *)
(* after the erase of its own target, across the calls and the boots.      *)
ProgramsErasedOnly ==
  [][pc' # "off" =>
       \A s \in Slots : mem'[s] # mem[s] => mem[s] = Blank \/ mem'[s] = Blank]_vars

(* Once the launch is reported, the section is erased, the ring is dumped  *)
(* and the logger enters its in-flight state, unless the power goes.       *)
LaunchRecorded ==
  (pc = "commit_erase" /\ after = "launch") ~> (state = 1 \/ pc = "off")

-----------------------------------------------------------------------------
(***************************************************************************)
(* What a comment says of the code, and it does not do                     *)
(***************************************************************************)

(* logger.cpp:109, "the rest of the pages in the sector store flight data  *)
(* which should be preserved": the write that ends commit_settings leaves  *)
(* the rest of the sector as it was read before the erase.                 *)
CommitPreservesFlightData ==
  [][pc = "commit_tail" /\ pc' # "off" =>
       \A s \in PageSlots .. SectorSlots - 1 : mem'[s] = buffer[s + 1]]_vars
=============================================================================
