----------------------------- MODULE LoggerInv ------------------------------
(***************************************************************************)
(* The inductive invariant of the logger: what holds at each flash         *)
(* command of each call, and why the next command is then right.           *)
(***************************************************************************)
EXTENDS Logger

Committing == pc \in {"commit_erase", "commit_head", "commit_tail"}
Clearing   == pc \in {"clear_erase", "clear_restore"}

(* change_state(1), up to the end of the erase.                            *)
Launching == (Committing /\ after = "launch") \/ Clearing \/ pc = "erase"

(* What pc says about the other control variables.                         *)
Shape ==
  /\ Committing => buffer \in [1 .. SectorSlots -> Cells]
  /\ Clearing => buffer \in [1 .. PageSlots -> Cells] /\ section = 0
  /\ pc = "flush" => i \in 0 .. BufLen - 1
  /\ state = 1 => pc \in {"run", "flush"}
  /\ pc = "flush" => state = 1 /\ allow_write
  /\ state = 0 => allow_write

(* The erase loop stands at the start of a block of its section.           *)
EraseInPlace ==
  /\ Clearing => i = EraseFrom(section)
  /\ pc = "erase" =>
       i % BlockSlots = 0 /\ EraseFrom(section) <= i /\ i <= EraseTo(section)

(* addr waits at the start of the section, follows the loop of the dump,   *)
(* and then moves by whole rings; a ring is only flushed if it fits.       *)
GroupStart == IF pc = "flush" THEN addr - i ELSE addr

AddrInPlace ==
  /\ Launching \/ (pc = "run" /\ state = 0) => addr = DataMin(section)
  /\ pc = "dump" => /\ i \in buf_idx .. buf_idx + BufLen - 1
                    /\ addr = DataMin(section) + (i - buf_idx)
  /\ state = 1 => /\ DataMin(section) + BufLen <= GroupStart
                  /\ GroupStart <= DataMax(section)
                  /\ (DataMax(section) - GroupStart) % BufLen = 0
  /\ pc = "flush" => GroupStart < DataMax(section)

(* Where the settings are while their page is erased.                      *)
SettingsInPlace ==
  /\ SettingsRestored
  /\ pc = "clear_erase" => mem[0] = settings
  /\ Clearing => buffer[1] = settings

(* Whatever is going to be programmed is erased.                           *)
Erased(from, to) == \A s \in from .. to : mem[s] = Blank

TargetsErased ==
  /\ pc = "commit_head" => Erased(0, SectorSlots - 1)
  /\ pc = "commit_tail" => Erased(PageSlots, SectorSlots - 1)
  /\ pc = "clear_restore" => Erased(0, BlockSlots - 1)
  /\ pc = "erase" => Erased(DataMin(section), i - 1)
  /\ Logging => Erased(addr, DataMax(section) - 1)

(* The last packets before the launch, in their order in the ring.         *)
Recent(k) ==
  LET n == seq - BufLen + 1 + k
  IN  IF n <= 0 THEN ZeroPacket ELSE Packet(boots, n)

RingOrdered ==
  /\ pc = "off" \/ (Committing /\ after = "begin") => seq = 0 /\ state = 0
  /\ state = 0 =>
       /\ buf_idx = seq
       /\ \A k \in 0 .. BufLen - 1 : packet_array[(buf_idx + k) % BufLen] = Recent(k)
  /\ Launching \/ pc = "dump" => launchSeq = seq

(* In flight the ring holds the packets that follow those in the flash.    *)
Pending == IF pc = "flush" THEN BufLen ELSE buf_idx

Counted ==
  state = 1 /\ allow_write /\ GroupStart < DataMax(section) =>
    /\ seq - launchSeq = (GroupStart - DataMin(section)) - BufLen + Pending
    /\ \A k \in 0 .. Pending - 1 : packet_array[k] = Packet(boots, seq - Pending + 1 + k)

(* What has been written is what was due.                                  *)
FlightWritten ==
  Logging =>
    \A a \in DataMin(section) .. addr - 1 :
      mem[a] \in Packets /\ mem[a] = Due(a - DataMin(section))

(* The turn of the sections comes right in three boots: one leaves -1, 0   *)
(* or 1 in the page, two leave a section there, and from the third on the  *)
(* page names the section of the latest boot, whether it flew or not. In a *)
(* boot the settings in RAM are one ahead of the page it found.            *)
TurnInPlace ==
  /\ pc \in {"off", "halted"} =>
       /\ sound >= 1 => mem[0] \in Settings /\ mem[0].last \in -1 .. 1
       /\ sound >= 2 => mem[0].last \in Sections
       /\ sound >= InTurn => latest \in {-1, mem[0].last}
  /\ pc \notin {"off", "halted"} =>
       /\ settings.last \in -1 .. 1
       /\ sound >= 1 => settings.last \in Sections
       /\ sound >= 2 => settings.last = section
       /\ Logging => latest = section
       /\ LatestFlightKept

(* A launch stamps its section with the boot. What the data of a stamped   *)
(* section holds is of the boot that stamped it; while a launch is being   *)
(* prepared its section is not one: it is stamped anew, then erased, and   *)
(* counts again from the end of the erase on.                              *)
OfBoot(c, b) == c \in Packets /\ c.boot > 0 => c.boot = b

DataOfBoot(f, b) == \A a \in DataMin(f) .. DataMax(f) - 1 : OfBoot(mem[a], b)

StampsInPlace ==
  /\ Launching \/ Logging => settings.start[section] = boots
  /\ pc \in {"off", "halted"} =>
       \A f \in stamped : mem[0] \in Settings /\ DataOfBoot(f, mem[0].start[f])
  /\ pc \notin {"off", "halted"} =>
       /\ \A f \in stamped : DataOfBoot(f, settings.start[f])
       /\ Launching => section \notin stamped
       /\ Committing /\ 0 \in stamped =>
            \A k \in PageSlots + 1 .. SectorSlots : OfBoot(buffer[k], settings.start[0])

(* Up to the launch no command of a launch or of a flight is sent.         *)
BeforeLaunch ==
  after = "begin" => state = 0 /\ ~Clearing /\ pc \notin {"erase", "dump", "flush"}

TypeInv == TypeOK /\ Shape
IInv    == /\ TypeInv /\ EraseInPlace /\ AddrInPlace /\ SettingsInPlace
           /\ TargetsErased /\ RingOrdered /\ Counted /\ FlightWritten
           /\ TurnInPlace /\ StampsInPlace
=============================================================================
