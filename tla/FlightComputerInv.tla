-------------------------- MODULE FlightComputerInv --------------------------
(***************************************************************************)
(* The inductive invariants of the detection and the logger in one loop.   *)
(***************************************************************************)
EXTENDS FlightComputer, FlightFSMInv

(* What is in the log, and behind it what is still to be saved.            *)
Whole == log \o ring

Typed == log \in Seq(Packets) /\ ring \in Seq(Packets)

Statuses == status \in {"off", "ready", "saving", "flight", "landed"}

(* Before the launch the ring is full of packets that show state 0. From   *)
(* the launch on, they come first, and all behind them show state 1.       *)
Remembered ==
  status = "ready" =>
    log = <<>> /\ Len(ring) = BufLen /\ \A k \in 1 .. BufLen : ring[k].state = 0

InOrder ==
  status \in {"saving", "flight", "landed"} =>
    /\ Len(log) + Len(ring) >= BufLen
    /\ status = "saving" => ring # <<>>
    /\ status # "saving" => Len(log) >= BufLen
    /\ \A k \in 1 .. Len(log) + Len(ring) :
         Whole[k].state = IF k > BufLen THEN 1 ELSE 0

Nothing == status = "off" => log = <<>> /\ ring = <<>>

ComputerInv ==
  /\ TypeOK /\ Counters /\ Agreement
  /\ Typed /\ Statuses /\ Remembered /\ InOrder /\ Nothing

-----------------------------------------------------------------------------
(* What follows is about time. A packet waits no longer than LogPeriod,    *)
(* and is offered before the next reading is taken.                        *)
Waiting ==
  /\ wait \in 0 .. LogPeriod
  /\ status \in {"saving", "flight"} /\ ~due => wait # 0

RingFits ==
  /\ room \in {0, Room}
  /\ status = "flight" => Len(ring) < BufLen
  /\ status = "saving" => Len(ring) <= BufLen

(* The first reading is taken after setup().                               *)
NothingRead == status = "off" => initial = 0

OnThePad ==
  status = "ready" /\ phase = "pad" => \A k \in 1 .. BufLen : ring[k].phase = "pad"

(* The board has moved r times since the lift-off, and a packets have been *)
(* offered since; what the ring holds before them is of the pad. It has    *)
(* climbed all the while, or is past the top; the readings from the        *)
(* threshold on are counted, unless the board fell back below it.          *)
Ascent(a, r) ==
  /\ r >= 1
  /\ \A k \in 1 .. BufLen - a : ring[k].phase = "pad"
  /\ a * LogPeriod - wait <= (r - 1) * MaxGap
  /\ phase = "up" => r * MinSpeed <= slow * MinSpeed + alt - site
  /\ \/ r <= ReadsBelow + launch_reads + (IF due THEN 1 ELSE 0)
     \/ phase = "down" /\ launch_reads = 0 /\ alt - initial * Unit < LaunchAlt * Unit

AscentTimed ==
  status = "ready" /\ baseline = "pad" /\ errors = 0 /\ InAir =>
    \E a, r \in Nat : Ascent(a, r)

(* The readings that go to a packet take at least this long.               *)
PacketTime == ReadsPerPacket * MinGap

(* Of the readings near the landing's reference x were taken in the air    *)
(* and y on the ground, while p packets were offered: they are the last of *)
(* the ring.                                                               *)
Descent(p, x, y) ==
  /\ land_reads = x + y /\ x <= ReadsInAir
  /\ p <= Len(ring)
  /\ \A k \in Len(ring) - p + 1 .. Len(ring) : ring[k].phase = "ground"
  /\ wait + (IF due THEN y + 1 ELSE y) * MinGap <= (p + 1) * PacketTime

GroundInLog == \E k \in DOMAIN log : log[k].phase = "ground"

(* Until a packet of the ground is saved, they are counted so, or the      *)
(* reference is a failed reading.                                          *)
DescentTimed ==
  /\ status \in {"saving", "flight"} /\ phase = "ground" /\ GoodBaseline
  /\ Len(log) < room /\ ~GroundInLog
  => \/ land_alt = ErrorReading /\ land_reads < errors
     \/ \E p, x, y \in Nat : Descent(p, x, y)

TimedInv ==
  /\ Waiting /\ RingFits /\ NothingRead /\ OnThePad
  /\ AscentTimed /\ DescentTimed /\ TouchdownRecorded
=============================================================================
