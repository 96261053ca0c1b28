-------------------------- MODULE LoggerRefinement --------------------------
(***************************************************************************)
(* The logger implements FlightRecorder: the steps of begin(), of the      *)
(* commits and of the erasing are invisible, each packet programmed is a   *)
(* Save, and the recorder's log is read off the flash.                     *)
(***************************************************************************)
EXTENDS LoggerInv

statusBar ==
  CASE pc \in {"off", "halted"} -> "off"
    [] pc \in {"commit_erase", "commit_head", "commit_tail"} /\ after = "begin" -> "off"
    [] pc = "run" /\ state = 0       -> "ready"
    [] pc = "run" /\ ~allow_write    -> "landed"
    [] pc = "run" /\ state = 1 /\ allow_write -> "flight"
    [] OTHER                         -> "saving"

(* The packets of the ring still in RAM, the next to be saved first: from  *)
(* the entry the running loop is at, all of them before the loop starts,   *)
(* none of them when it is over.                                           *)
FlushRing  == [k \in 1 .. BufLen - i |-> packet_array[i + k - 1]]
DumpRing   == [k \in 1 .. BufLen + buf_idx - i |-> packet_array[(i + k - 1) % BufLen]]
FlightRing == [k \in 1 .. buf_idx |-> packet_array[k - 1]]
WaitRing   == [k \in 1 .. BufLen |-> packet_array[(buf_idx + k - 1) % BufLen]]

ringBar ==
  CASE statusBar = "off" -> <<>>
    [] pc = "flush"      -> FlushRing
    [] pc = "dump"       -> DumpRing
    [] pc = "run" /\ state = 1 -> FlightRing
    [] OTHER             -> WaitRing

SavedLog == [k \in 1 .. addr - DataMin(section) |-> mem[DataMin(section) + k - 1]]
logBar   == IF Logging THEN SavedLog ELSE <<>>

SectionRoom(f) == DataMax(f) - DataMin(f)
roomBar == IF statusBar = "off" THEN 0 ELSE SectionRoom(section)

R == INSTANCE FlightRecorder
  WITH Zero <- ZeroPacket, Rooms <- {SectionRoom(f) : f \in Sections},
       status <- statusBar, ring <- ringBar, log <- logBar, room <- roomBar

(* The logger is a flight recorder: across its flash commands, every packet*)
(* goes the way from the ring to the log in order, nothing else gets into  *)
(* the log, and what is due to be saved is saved unless the power goes.    *)
IsFlightRecorder == R!Spec
=============================================================================
