------------------------------- MODULE Offload ------------------------------
(***************************************************************************)
(* The offload tool (src/mem_offload/mem_offload.h) and the flight board,  *)
(* taking turns at one flash: between two flights the board may be started *)
(* with the tool's firmware, which reads the flights (R0, R1), deletes one *)
(* (D0, D1) or formats the memory (MEMRST) by the same calls of Logger.    *)
(*                                                                         *)
(* A step is a flash command, as in Logger, and the power can go between   *)
(* two or in one. The tool's Logger is begun by begin_readonly(), which    *)
(* leaves settings_ as the loader made them; `section' holds the argument  *)
(* of reset_flight(), and `settings' the record that MEMRST commits: it    *)
(* sets each field to its default. R0, R1, SET and DUMP change nothing:    *)
(* what R0 and R1 print is a function of the flash, Printed of Logger.     *)
(***************************************************************************)
EXTENDS Logger

CONSTANT MaxSessions  \* bound: starts of the tool

ASSUME OffloadAssumption == MaxSessions \in Nat

VARIABLES
  command,   \* "flight": the board flies; else the tool's command, or "none"
  sessions,  \* starts of the tool
  before     \* history: the flash when the command began

toolVars    == <<command, sessions, before>>
offloadVars == <<vars, toolVars>>

OffloadInit == Init /\ command = "flight" /\ sessions = 0 /\ before = mem

-----------------------------------------------------------------------------
(* YIPPEE_MEM_OFFLOAD_SETUP: the chip answers, or the tool stops.          *)
ToolSetup ==
  /\ pc = "off" /\ sessions < MaxSessions
  /\ sessions' = sessions + 1
  /\ command' = "none" /\ pc' \in {"tool", "halted"}
  /\ UNCHANGED <<mem, after, i, buffer, ramVars, history, before>>

(* reset_flight(f), up to its first flash command.                         *)
ResetFlight(f) ==
  /\ section' = f
  /\ i' = EraseFrom(f)
  /\ IF f = 0 THEN pc' = "clear_erase" /\ buffer' = Read(mem, 0, PageSlots)
              ELSE pc' = "erase" /\ buffer' = <<>>
  /\ UNCHANGED <<mem, after, settings, addr, packet_array, buf_idx, state,
                 allow_write, history>>

Delete(f) ==
  /\ pc = "tool" /\ command' = "delete"
  /\ ResetFlight(f)
  /\ before' = mem
  /\ UNCHANGED sessions

MemReset ==
  /\ pc = "tool" /\ command' = "reset"
  /\ ResetFlight(0)
  /\ before' = mem
  /\ UNCHANGED sessions

(* The commands of clear_first_sector(), reset_flight() and                *)
(* commit_settings(), of Logger, sent by the tool.                         *)
ToolFlashStep ==
  /\ command \in {"delete", "reset"}
  /\ ClearErase \/ ClearRestore \/ EraseBlock \/ CommitErase \/ CommitHead
  /\ UNCHANGED toolVars

SectionErased == pc = "erase" /\ i >= EraseTo(section)

Deleted ==
  /\ command = "delete" /\ SectionErased /\ pc' = "tool"
  /\ UNCHANGED <<mem, after, i, buffer, ramVars, history, toolVars>>

ResetOther ==
  /\ command = "reset" /\ SectionErased /\ section = 0
  /\ ResetFlight(1)
  /\ UNCHANGED toolVars

(* MEMRST fills in the settings and commits them. Mutated: it does not.    *)
FormatMutant == pc' = "tool" /\ buffer' = <<>>
Format       == pc' = "commit_erase" /\ buffer' = Read(mem, 0, SectorSlots)

CommitFormat ==
  /\ command = "reset" /\ SectionErased /\ section = 1
  /\ Format
  /\ settings' = Formatted
  /\ UNCHANGED <<mem, after, i, section, addr, packet_array, buf_idx, state,
                 allow_write, history, toolVars>>

(* Nothing is left of any flight: the history begins again.                *)
ResetDone ==
  /\ command = "reset" /\ pc = "commit_tail" /\ pc' = "tool"
  /\ mem' = Outcome
  /\ buffer' = <<>>
  /\ latest' = -1 /\ sound' = InTurn /\ stamped' = Sections
  /\ UNCHANGED <<after, i, ramVars, boots, seq, launchSeq, toolVars>>

(* The board is unplugged; a command cut short may take the settings' page *)
(* with it.                                                                *)
Unplug ==
  /\ command # "flight" /\ command' = "flight" /\ pc' = "off"
  /\ mem' \in {mem, Torn}
  /\ after' = "begin" /\ i' = 0 /\ buffer' = <<>>
  /\ settings' = Formatted /\ section' = 0
  /\ IF pc \in {"tool", "halted"} THEN UNCHANGED <<sound, stamped>>
                                   ELSE sound' = 0 /\ stamped' = {}
  /\ UNCHANGED <<addr, packet_array, buf_idx, state, allow_write, boots, seq,
                 launchSeq, latest, sessions, before>>

Tool ==
  \/ ToolSetup
  \/ \E f \in Sections : Delete(f)
  \/ MemReset \/ ToolFlashStep
  \/ Deleted \/ ResetOther \/ CommitFormat \/ ResetDone \/ Unplug

Fly == command = "flight" /\ Next /\ UNCHANGED toolVars

OffloadNext == Tool \/ Fly
OffloadSpec == OffloadInit /\ [][OffloadNext]_offloadVars

-----------------------------------------------------------------------------
(* D0 and D1 delete the packets of the flight, all of them, and not one    *)
(* other slot, although each erase of flight 0 takes the settings with it. *)
DeletesExactly ==
  pc = "tool" /\ command = "delete" =>
    mem = [s \in Slots |->
             IF s \in DataMin(section) .. DataMax(section) - 1 THEN Blank
             ELSE before[s]]

(* MEMRST leaves a formatted chip, whatever it found.                      *)
ResetFormats ==
  pc = "tool" /\ command = "reset" =>
    mem = [s \in Slots |-> IF s = 0 THEN Formatted ELSE Blank]

(* Whatever the tool has done between the boots, cut short or not, a boot  *)
(* does not prepare to write over the flight that the one before recorded: *)
(* at once after deletions and a MEMRST that were finished, InTurn boots   *)
(* after one that was not.                                                 *)
TurnKept == command = "flight" => LatestFlightKept

(* What R0 and R1 print behind the settings' sector is of one flight, and  *)
(* a row's place is the place of its packet in that flight: whatever boots,*)
(* power losses and deletions came since, only slots they cut short are    *)
(* something else.                                                         *)
Flown(c) == c \in Packets /\ c.seq > 0

RowsOfOneFlight ==
  pc = "tool" =>
    \A f \in Sections : \A a, b \in Printed(f) \ (0 .. SectorSlots - 1) :
      Flown(mem[a]) /\ Flown(mem[b]) =>
        mem[a].boot = mem[b].boot /\ mem[b].seq - mem[a].seq = b - a
=============================================================================
