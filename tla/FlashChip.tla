----------------------------- MODULE FlashChip -----------------------------
(***************************************************************************)
(* The contents of the SST26VF040A serial flash and what the driver's      *)
(* read, write and erase calls do to them (lib/SST26VF040A).               *)
(*                                                                         *)
(* The unit of address is the slot: 32 bytes, the size of a LoggerStruct.  *)
(* A 256-byte page is PageSlots = 8 slots on the board, a 4 KB sector is   *)
(* PageSlots * SectorPages, a 64 KB block is SectorSlots * BlockSectors.   *)
(* The 16 bytes of FlashSettings lie in slot 0.                            *)
(*                                                                         *)
(* The driver sends one command and waits for the busy bit to clear; how   *)
(* the chip carries the command out is external to the repository.         *)
(***************************************************************************)
EXTENDS Integers

CONSTANTS
  PageSlots,     \* slots in a page, the unit of programming
  SectorPages,   \* pages in a sector, the small unit of erasing
  BlockSectors,  \* sectors in a block, the large unit of erasing
  FlightBlocks,  \* blocks given to each of the two flights
  Blank,         \* an erased slot: every byte is 0xFF
  Garbled        \* a slot whose bytes no write call asked for

ASSUME GeometryAssumption ==
  /\ PageSlots \in Nat \ {0}
  /\ SectorPages \in Nat \ {0, 1}
  /\ BlockSectors \in Nat \ {0}
  /\ FlightBlocks \in Nat \ {0}

SectorSlots == PageSlots * SectorPages
BlockSlots  == SectorSlots * BlockSectors
FlightSlots == BlockSlots * FlightBlocks

(* The flights split the whole chip between them. *)
Slots == 0 .. (2 * FlightSlots - 1)

(* The aligned unit of the given size that holds address a.                *)
Aligned(a, size) == (a - (a % size)) .. (a - (a % size) + size - 1)

(***************************************************************************)
(* Reading n slots from address a: a sequence.                             *)
(***************************************************************************)
Read(m, a, n) == [k \in 1 .. n |-> m[a + k - 1]]

(* Programming can only clear bits: it takes on an erased slot, and mixes  *)
(* the two values anywhere else.                                           *)
Program(old, new) ==
  CASE old = Blank \/ old = new -> new
    [] new = Blank              -> old
    [] OTHER                    -> Garbled

(* Slots are sent to consecutive addresses a, a+1, ..., but the address    *)
(* wraps inside the page. Of the n slots sent, the one that stays latched  *)
(* for slot s is the one with the largest address congruent to s.          *)
Latched(a, n, s) == (a + n - 1) - ((a + n - 1 - s) % PageSlots)

(***************************************************************************)
(* SST26VF040A::write: one PAGE_PROGRAM command for the whole of data,     *)
(* whatever its length.                                                    *)
(***************************************************************************)
Write(m, a, data, n) ==
  [s \in Slots |->
     IF s \in Aligned(a, PageSlots) /\ Latched(a, n, s) >= a
     THEN Program(m[s], data[Latched(a, n, s) - a + 1])
     ELSE m[s]]

(***************************************************************************)
(* The erase commands: the chip erases the aligned unit holding address a. *)
(***************************************************************************)
Erase(m, a, size) ==
  [s \in Slots |-> IF s \in Aligned(a, size) THEN Blank ELSE m[s]]

EraseSector(m, a)   == Erase(m, a, SectorSlots)
EraseSector64(m, a) == Erase(m, a, BlockSlots)
=============================================================================
