--------------------------- MODULE FlightComputer ---------------------------
(***************************************************************************)
(* The flight computer: the detection of launch and landing (FlightFSM)    *)
(* and the flight logger (FlightRecorder) as loop() runs them together, on *)
(* their two timers, with the world moving underneath.                     *)
(*                                                                         *)
(* One pass of loop() first offers a packet, if one is due, and then takes *)
(* a barometer reading, if one is due: the packet shows the state that the *)
(* reading before it left. Between two readings MinGap to MaxGap ticks go  *)
(* by, which is the 50 ms of NEXT_BAROMETER_READ and whatever else delays  *)
(* the loop; a packet is due LogPeriod ticks after the last one. Calls     *)
(* into the logger block the loop until they return. A packet is where the *)
(* board is and what it says of itself; the rest is payload.               *)
(***************************************************************************)
EXTENDS FlightFSM, Sequences

CONSTANTS
  BufLen,         \* packets the logger remembers: 8
  Room,           \* packets a section holds: 7984 and 8000
  LogPeriod,      \* ticks of LOG_FREQUENCY: 500 ms
  MinGap,         \* ticks between two readings at least ...
  MaxGap          \* ... and at most

ASSUME ComputerAssumption ==
  /\ BufLen \in Nat \ {0} /\ Room \in Nat /\ LogPeriod \in Nat \ {0}
  /\ MinGap \in Nat \ {0} /\ MaxGap \in Nat
  /\ LandReads > 1

VARIABLES
  status, ring, log, room,   \* of FlightRecorder
  wait                       \* ticks until NEXT_LOGGER_COMMIT has passed

Phases  == {"pad", "up", "down", "ground"}
Packets == [phase : Phases, state : 0 .. 2]
Zero    == [phase |-> "pad", state |-> 0]

Recorder == INSTANCE FlightRecorder WITH Rooms <- {Room}

recorderVars == <<status, ring, log, room>>
computerVars == <<vars, recorderVars, wait>>

(* A packet of the zeros of RAM looks like one taken on the pad: what      *)
(* matters below is that neither was taken in the air.                     *)
make_logger_packet == [phase |-> phase, state |-> FSM_state]

-----------------------------------------------------------------------------
ComputerInit == Init /\ Recorder!Init /\ wait = 0

(* setup(), and the deadline it sets.                                      *)
SetUp ==
  /\ Recorder!Start /\ wait' = 0
  /\ UNCHANGED vars

(* Time goes by until the next reading.                                    *)
Fly ==
  /\ World
  /\ \E gap \in MinGap .. MaxGap : wait' = IF wait > gap THEN wait - gap ELSE 0
  /\ UNCHANGED recorderVars

(* mutated: packets are offered twice as often, or half as often           *)
NextLogSoonMutant == LogPeriod \div 2
NextLogLateMutant == 2 * LogPeriod
NextLog           == LogPeriod

Log ==
  /\ status \in {"ready", "flight", "landed"} /\ wait = 0
  /\ Recorder!Offer(make_logger_packet)
  /\ wait' = NextLog
  /\ UNCHANGED vars

(* What a reading says to the logger. Mutated: nothing.                    *)
ReportLaunchMutant  == FSM_state = 0 /\ FSM_state' # 0 /\ UNCHANGED recorderVars
ReportLaunch        == FSM_state = 0 /\ FSM_state' # 0 /\ Recorder!Launch

ReportLandingMutant == FSM_state = 1 /\ FSM_state' = 2 /\ UNCHANGED recorderVars
ReportLanding       == FSM_state = 1 /\ FSM_state' = 2 /\ Recorder!Land

ReportNothing == FSM_state' = FSM_state /\ UNCHANGED recorderVars

Sample ==
  /\ status \in {"ready", "flight", "landed"} /\ wait # 0
  /\ Reading
  /\ ReportLaunch \/ ReportLanding \/ ReportNothing
  /\ UNCHANGED wait

(* The rest of a call into the logger.                                     *)
Save == Recorder!Save /\ UNCHANGED <<vars, wait>>

Outage ==
  /\ PowerLoss /\ Recorder!PowerOff
  /\ wait' = 0

Loop         == Log \/ Sample \/ Save
ComputerNext == SetUp \/ Fly \/ Loop \/ Outage

(* Once up, the loop goes on; nobody need switch the board on again.       *)
ComputerSpec ==
  /\ ComputerInit /\ [][ComputerNext]_computerVars
  /\ WF_computerVars(Loop) /\ WF_computerVars(Rest /\ Fly)

-----------------------------------------------------------------------------
(* The detection and the logger agree on the state of the flight at every  *)
(* turn of the loop: the logger is told of each change, once.              *)
Agreement ==
  CASE status \in {"off", "ready"}     -> FSM_state = 0
    [] status \in {"saving", "flight"} -> FSM_state = 1
    [] OTHER                           -> FSM_state = 2

(* The readings from the lift-off to the launch, at most, take less time    *)
(* than the ring spans, at least.                                          *)
ReadsBelow    == SlowMoves + (LaunchAlt * Unit + Noise - 1) \div MinSpeed
ReadsToLaunch == ReadsBelow + LaunchReads

RingSpansLaunch == (ReadsToLaunch - 1) * MaxGap < (BufLen - 1) * LogPeriod

(* The readings of a landing on the ground, at least, are enough to fill   *)
(* the ring, at most: three half bands may be passed through in the air,   *)
(* and the slow moves made there, and a packet is offered in the first     *)
(* pass after it is due.                                                   *)
ReadsInAir     == SlowMoves + (3 * (LandDelta * Unit - 1)) \div MinSpeed
ReadsPerPacket == (LogPeriod + MinGap - 1) \div MinGap

LandingOutlastsRing == LandReads - ReadsInAir >= BufLen * ReadsPerPacket

(* The packets of a flight show state 0 up to the launch and 1 after it:   *)
(* a launch is told to the logger before a packet is made that shows it,   *)
(* and no packet shows a landing.                                          *)
StatesInOrder ==
  \A k \in DOMAIN log : log[k].state = IF k > BufLen THEN 1 ELSE 0

(* If the ring spans the launch, the baseline was taken on the pad and no  *)
(* reading has failed, the log of a flight that is in the air when its     *)
(* launch is detected starts on the pad.                                   *)
LiftoffRecorded ==
  [][/\ RingSpansLaunch
     /\ status = "ready" /\ status' = "saving"
     /\ baseline = "pad" /\ errors = 0 /\ phase \in {"up", "down"}
     => Head(ring).phase = "pad"]_computerVars

(* The packets in RAM at the landing are never saved. If the landing takes *)
(* long enough, one taken on the ground has been saved before, unless the  *)
(* section was full.                                                       *)
TouchdownRecorded ==
  /\ LandingOutlastsRing /\ MaxErrors < LandReads
  /\ status = "landed" /\ baseline # "failed" /\ Len(log) < room
  => \E k \in DOMAIN log : log[k].phase = "ground"

(* The log of a flight that has come down is closed, or the power goes.    *)
FlightIsClosed ==
  (status = "flight" /\ phase = "ground") ~> (status \in {"landed", "off"})
=============================================================================
