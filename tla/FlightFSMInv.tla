---------------------------- MODULE FlightFSMInv ----------------------------
(***************************************************************************)
(* The inductive invariant of the launch and landing detection.            *)
(***************************************************************************)
EXTENDS FlightFSM

(* The flights the board is made for: from a pad above sea level, with     *)
(* less noise at rest than the threshold, few enough failed readings, and  *)
(* fast enough not to stay LandReads readings inside the landing's band,   *)
(* not even at the top: up through its upper half, and down through both,  *)
(* with all the slow moves in it.                                          *)
OrdinaryFlight ==
  /\ Sites \subseteq Nat
  /\ \A s \in Sites : s + MaxHeight + Noise < 65536 * Unit
  /\ Noise <= (LaunchAlt - 1) * Unit
  /\ LandDelta <= LaunchAlt /\ LandDelta <= 999
  /\ LandReads * MinSpeed > SlowMoves * MinSpeed + 3 * (LandDelta * Unit - 1)
  /\ MaxErrors <= LandReads

InAir == phase \in {"up", "down"}
GoodBaseline == baseline \in {"pad", "later"}

(* Where the board can be.                                                 *)
Altitudes ==
  /\ site <= level /\ level <= site + MaxHeight
  /\ site <= alt
  /\ InAir => alt <= site + MaxHeight
  /\ ~InAir => alt <= level + Noise
  /\ phase = "pad" => level = site
  /\ alt > site + (LaunchAlt - 1) * Unit => flown

(* A baseline is the altitude it was taken at, to a metre.                 *)
BaselineRight ==
  /\ baseline = "none" <=> initial = 0
  /\ GoodBaseline => initial >= 1 /\ initial * Unit > site - Unit
  /\ baseline = "pad" => initial * Unit <= site + Noise

(* The counters before their thresholds.                                   *)
Counters ==
  /\ FSM_state = 0 => launch_reads < LaunchReads /\ land_reads = 0 /\ land_alt = 0
  /\ FSM_state = 1 => land_reads < LandReads

(* A baseline from the pad hides no reading above the threshold.           *)
HighCounted == baseline = "pad" => high <= launch_reads

(* The first good reading is taken on the pad, and a pad at a metre or     *)
(* more gives a baseline.                                                  *)
FirstOnPad ==
  errors = 0 /\ boots = 0 /\ site >= Unit =>
    IF baseline = "none" THEN due /\ phase = "pad" /\ high = 0 ELSE baseline = "pad"

(* The pad has been left before a flight is seen.                          *)
Left == phase = "pad" => ~flown

(* Half the width of the landing's band, in steps, and the readings since  *)
(* its reference was taken, with the one that is due.                      *)
Band  == LandDelta * Unit - 1
Since == IF due THEN land_reads + 1 ELSE land_reads

(* The reference is a failed reading, or the board has moved off it by     *)
(* MinSpeed at each reading since, but for the slow moves, turning round   *)
(* once at most.                                                           *)
Passing ==
  FSM_state = 1 /\ GoodBaseline /\ InAir =>
    \/ land_alt = ErrorReading /\ land_reads < errors
    \/ /\ land_alt >= 0
       /\ ~due => land_alt - Band <= alt /\ alt <= land_alt + Band
       /\ phase = "up" => Since * MinSpeed <= slow * MinSpeed + alt - land_alt
       /\ phase = "down" => Since * MinSpeed <= slow * MinSpeed + 2 * Band + land_alt - alt

IInv == /\ TypeOK /\ Altitudes /\ BaselineRight /\ Counters /\ HighCounted
        /\ Left /\ Passing
        /\ LaunchIsReal /\ LandingIsReal
=============================================================================
