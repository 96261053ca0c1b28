----------------------------- MODULE OffloadInv -----------------------------
(***************************************************************************)
(* The inductive invariant of the board and the offload tool at one flash: *)
(* while the board flies, the one of the logger; while the tool runs, how  *)
(* far its command has come.                                               *)
(***************************************************************************)
EXTENDS Offload, LoggerInv

(* The RAM of the tool: that of a board that has just been started.        *)
ToolType ==
  /\ mem \in [Slots -> Cells]
  /\ after \in {"begin", "launch"}
  /\ i \in Nat
  /\ \E n \in {0, PageSlots, SectorSlots} : buffer \in [1 .. n -> Cells]
  /\ Committing => buffer \in [1 .. SectorSlots -> Cells]
  /\ Clearing => buffer \in [1 .. PageSlots -> Cells] /\ section = 0
  /\ settings \in Settings
  /\ section \in Sections
  /\ addr \in Nat
  /\ packet_array \in [0 .. BufLen - 1 -> Packets]
  /\ buf_idx = 0 /\ state = 0 /\ allow_write = TRUE
  /\ boots \in 0 .. MaxBoots /\ seq = 0 /\ launchSeq = 0
  /\ latest \in {-1} \cup Sections
  /\ sound \in 0 .. InTurn /\ stamped \subseteq Sections
  /\ RingOrdered

(* Where a command can be.                                                 *)
ToolPhase ==
  /\ command = "none" => pc \in {"tool", "halted"}
  /\ command = "delete" => pc \in {"tool", "clear_erase", "clear_restore", "erase"}
  /\ command = "reset" =>
       pc \in {"tool", "clear_erase", "clear_restore", "erase",
               "commit_erase", "commit_head", "commit_tail"}
  /\ EraseInPlace

(* D0 or D1: the flash is the one before, but for what is erased so far.   *)
DeleteProgress ==
  command = "delete" =>
    /\ pc = "clear_erase" => mem = before
    /\ Clearing => \A k \in 1 .. PageSlots : buffer[k] = before[k - 1]
    /\ pc = "clear_restore" =>
         \A s \in Slots : mem[s] = IF s < BlockSlots THEN Blank ELSE before[s]
    /\ pc = "erase" =>
         \A s \in Slots :
           mem[s] = IF s \in DataMin(section) .. i - 1 THEN Blank ELSE before[s]
    /\ DeletesExactly

(* MEMRST: the flash is erased past the settings' page up to i, and then   *)
(* formatted.                                                              *)
ResetProgress ==
  command = "reset" =>
    /\ pc = "clear_restore" => \A s \in Slots : s < BlockSlots => mem[s] = Blank
    /\ pc = "erase" => \A s \in Slots : PageSlots <= s /\ s < i => mem[s] = Blank
    /\ pc = "commit_erase" => \A s \in Slots : PageSlots <= s => mem[s] = Blank
    /\ Committing =>
         /\ settings = Formatted
         /\ \A k \in PageSlots + 1 .. SectorSlots : buffer[k] = Blank
    /\ pc = "commit_head" => \A s \in Slots : mem[s] = Blank
    /\ pc = "commit_tail" => mem = [s \in Slots |-> IF s = 0 THEN Formatted ELSE Blank]
    /\ ResetFormats

(* The flash m is one that a boot can go on from, as the history tells     *)
(* (compare TurnInPlace and StampsInPlace).                                *)
Resting(m) ==
  /\ sound >= 1 => m[0] \in Settings /\ m[0].last \in -1 .. 1
  /\ sound >= 2 => m[0].last \in Sections
  /\ sound >= InTurn => latest \in {-1, m[0].last}
  /\ \A f \in stamped :
       /\ m[0] \in Settings
       /\ \A a \in DataMin(f) .. DataMax(f) - 1 : OfBoot(m[a], m[0].start[f])

HistoryKept ==
  /\ pc \in {"tool", "halted"} => Resting(mem)
  /\ command = "delete" /\ pc # "tool" => Resting(before)

(* The packets a section holds behind the settings' sector are of one      *)
(* flight, printed or not.                                                 *)
InRow(c, a, d, b) ==
  Flown(c) /\ Flown(d) => c.boot = d.boot /\ d.seq - c.seq = b - a

RowsKept ==
  \A f \in Sections : \A a, b \in DataMin(f) .. DataMax(f) - 1 :
    a >= SectorSlots /\ b >= SectorSlots => InRow(mem[a], a, mem[b], b)

ToolInv == ToolType /\ ToolPhase /\ DeleteProgress /\ ResetProgress /\ HistoryKept

OffloadIInv ==
  /\ command \in {"flight", "none", "delete", "reset"}
  /\ before \in [Slots -> Cells]
  /\ command = "flight" => IInv
  /\ command # "flight" => ToolInv
  /\ RowsKept
=============================================================================
