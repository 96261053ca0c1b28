----------------------------- MODULE FlightFSM -----------------------------
(***************************************************************************)
(* Launch and landing detection: what loop() does with each barometer      *)
(* reading (main.cpp 410-458), against the flight the board is really on.  *)
(*                                                                         *)
(* The world and the firmware take turns: the board moves, then its        *)
(* altitude is read. Altitudes are in steps of 1/Unit m above sea level,   *)
(* Unit = 16 on the board. The world is external to the repository: a      *)
(* board rests on the pad within Noise, then climbs and falls, from one    *)
(* reading to the next by at least MinSpeed but for SlowMoves times, as at *)
(* the top, and rests where it comes down.                                 *)
(*                                                                         *)
(* The count of high readings is only compared with its threshold, and is  *)
(* kept at it once there. The temperature and the pressure are read after  *)
(* the altitude and only logged, and are left out. What change_state does  *)
(* to the log at a launch and a landing is Launch and Land of Logger.      *)
(***************************************************************************)
EXTENDS Integers

CONSTANTS
  Unit,         \* steps in a metre
  LaunchAlt,    \* LAUNCH_THRESHOLD_ALT, metres: 20
  LaunchReads,  \* CONSECUTIVE_LAUNCH_THRESHOLD: 5
  LandDelta,    \* LANDING_DELTA_THRESHOLD, metres: 5
  LandReads,    \* CONSECUTIVE_LANDING_THRESHOLD: 60
  Sites,        \* altitudes the pad may have
  Noise,        \* steps a reading at rest may be too high
  MinSpeed,     \* steps it moves, in the air, between two readings ...
  SlowMoves,    \* ... at least, except so many times
  Speed,        \* bound: steps it moves at most
  MaxHeight,    \* bound: steps it climbs above the pad
  MaxErrors,    \* bound: readings that fail
  MaxBoots      \* bound: power losses

ASSUME FSMAssumption ==
  /\ Unit \in Nat \ {0} /\ MinSpeed \in Nat \ {0} /\ SlowMoves \in Nat /\ Speed \in Nat
  /\ LaunchAlt \in Nat \ {0} /\ LaunchReads \in Nat \ {0}
  /\ LandDelta \in Nat \ {0} /\ LandReads \in Nat \ {0}
  /\ Sites \subseteq Int
  /\ Noise \in Nat /\ MaxHeight \in Nat /\ MaxErrors \in Nat /\ MaxBoots \in Nat

VARIABLES
  FSM_state,      \* 0 preflight, 1 flight, 2 landed
  initial,        \* initial_baro_altitude, in whole metres
  launch_reads,   \* CONSECUTIVE_BAROMETER_READS
  land_reads,     \* CONSECUTIVE_LANDING_READS
  land_alt        \* LANDING_STATE_ALTITUDE

(* The world.                                                              *)
VARIABLES
  phase,          \* "pad", "up", "down", "ground"
  site,           \* altitude of the pad
  level,          \* altitude of the surface it rested on last
  alt,            \* altitude of the board
  slow,           \* moves in the air by less than MinSpeed, so far
  due             \* the board has moved since the last reading

(* History variables, and the counters of the bounds.                      *)
VARIABLES
  baseline,       \* what initial was taken from
  flown,          \* the board has been at the threshold, to a metre
  high,           \* readings in a row that showed the threshold reached
  errors,         \* readings that failed
  boots           \* power losses

fsmVars   == <<FSM_state, initial, launch_reads, land_reads, land_alt>>
worldVars == <<phase, site, level, alt, slow>>
vars      == <<fsmVars, worldVars, due, baseline, flown, high, errors, boots>>

-----------------------------------------------------------------------------
(* readAltitude() when the sensor does not answer, in time or at all.      *)
ErrorReading == -(999 * Unit)

(* readAltitude() takes the 16 bits of the signed register as unsigned.    *)
Decode(a) == a % (65536 * Unit)

(* A float assigned to an int32_t.                                         *)
Trunc(a) == IF a >= 0 THEN a \div Unit ELSE -((-a) \div Unit)

Magnitude(a) == IF a >= 0 THEN a ELSE -a

Baselines == {"none", "failed", "pad", "later"}

Init ==
  /\ FSM_state = 0 /\ initial = 0
  /\ launch_reads = 0 /\ land_reads = 0 /\ land_alt = 0
  /\ phase = "pad" /\ site \in Sites /\ level = site /\ alt = site /\ slow = 0 /\ due = TRUE
  /\ baseline = "none" /\ flown = FALSE /\ high = 0 /\ errors = 0 /\ boots = 0

-----------------------------------------------------------------------------
(***************************************************************************)
(* The world                                                               *)
(***************************************************************************)
(* The threshold is a whole number of metres above a baseline cut to a     *)
(* whole number of metres, so it may be met almost a metre too low.        *)
Moved ==
  /\ ~due /\ due' = TRUE
  /\ flown' = (flown \/ alt' > site + (LaunchAlt - 1) * Unit)
  /\ UNCHANGED <<fsmVars, site, baseline, high, errors, boots>>

Rest ==
  /\ phase \in {"pad", "ground"}
  /\ alt' \in level .. level + Noise
  /\ Moved /\ UNCHANGED <<phase, level, slow>>

Paced(steps) ==
  /\ slow' = IF steps < MinSpeed THEN slow + 1 ELSE slow
  /\ slow' <= SlowMoves

Climb ==
  /\ phase \in {"pad", "up"} /\ phase' = "up"
  /\ alt' \in alt .. alt + Speed /\ Paced(alt' - alt)
  /\ alt' <= site + MaxHeight
  /\ Moved /\ UNCHANGED level

Fall ==
  /\ phase \in {"up", "down"} /\ phase' = "down"
  /\ alt' \in alt - Speed .. alt /\ Paced(alt - alt')
  /\ alt' >= site
  /\ Moved /\ UNCHANGED level

TouchDown ==
  /\ phase = "down" /\ phase' = "ground"
  /\ level' = alt /\ alt' = alt
  /\ Moved /\ UNCHANGED slow

World == Rest \/ Climb \/ Fall \/ TouchDown

-----------------------------------------------------------------------------
(***************************************************************************)
(* loop(), at each reading                                                 *)
(***************************************************************************)
(* Beside some operators stands a mutated form, NameMutant: the slip that  *)
(* a property below is there to catch. No action uses one.                 *)

(* mutated: the test is off by a metre                                     *)
AboveMutant(r) == Trunc(r - initial * Unit) >= LaunchAlt - 1
Above(r)       == Trunc(r - initial * Unit) >= LaunchAlt

ReadsAbove(r) ==
  IF ~Above(r) THEN 0
  ELSE IF launch_reads < LaunchReads THEN launch_reads + 1 ELSE LaunchReads

(* mutated: one reading too many is asked for                              *)
LaunchedMutant(r) == FSM_state = 0 /\ ReadsAbove(r) > LaunchReads
Launched(r)       == FSM_state = 0 /\ ReadsAbove(r) >= LaunchReads

(* The landing is looked for from the reading of the launch on.            *)
InFlight(r) == FSM_state = 1 \/ Launched(r)

(* mutated: a reading as far off as the limit counts; the reference stays  *)
NearMutant(r) == Magnitude(r - land_alt) <= LandDelta * Unit
Near(r)       == Magnitude(r - land_alt) < LandDelta * Unit

ReferenceMutant(r) == land_alt
Reference(r)       == r

(* mutated: one reading too many is asked for                              *)
LandedMutant(n) == n > LandReads
Landed(n)       == n >= LandReads

(* The first reading, and every one until a baseline is not 0.             *)
TakeBaseline(r) ==
  /\ initial = 0
  /\ initial' = Trunc(r)
  /\ UNCHANGED <<FSM_state, launch_reads, land_reads, land_alt>>

NotInFlight(r) ==
  /\ initial # 0 /\ ~InFlight(r)
  /\ launch_reads' = ReadsAbove(r)
  /\ UNCHANGED <<FSM_state, initial, land_reads, land_alt>>

Moving(r) ==
  /\ initial # 0 /\ InFlight(r) /\ ~Near(r)
  /\ launch_reads' = ReadsAbove(r)
  /\ land_reads' = 0 /\ land_alt' = Reference(r)
  /\ FSM_state' = 1
  /\ UNCHANGED initial

Still(r) ==
  /\ initial # 0 /\ InFlight(r) /\ Near(r)
  /\ launch_reads' = ReadsAbove(r)
  /\ land_reads' = land_reads + 1
  /\ FSM_state' = IF Landed(land_reads') THEN 2 ELSE 1
  /\ UNCHANGED <<initial, land_alt>>

Judge(r) == TakeBaseline(r) \/ NotInFlight(r) \/ Moving(r) \/ Still(r)

GoodReading ==
  /\ due /\ due' = FALSE
  /\ Judge(Decode(alt))
  /\ baseline' = IF initial # 0 \/ initial' = 0 THEN baseline
                 ELSE IF phase = "pad" THEN "pad" ELSE "later"
  /\ high' = IF phase \in {"up", "down"} /\ alt >= site + Noise + LaunchAlt * Unit
             THEN IF high < LaunchReads THEN high + 1 ELSE high
             ELSE 0
  /\ UNCHANGED <<worldVars, flown, errors, boots>>

(* Every failed exchange gives ErrorReading here. On the bus a failed poll  *)
(* of the status may also end the wait early, with the altitude of an      *)
(* earlier conversion: Barometer has that, and bounds its age.             *)
FailedReading ==
  /\ due /\ due' = FALSE /\ errors < MaxErrors
  /\ Judge(ErrorReading)
  /\ baseline' = IF initial # 0 THEN baseline ELSE "failed"
  /\ high' = 0 /\ errors' = errors + 1
  /\ UNCHANGED <<worldVars, flown, boots>>

(* The state of the detection is in RAM only.                              *)
PowerLoss ==
  /\ boots < MaxBoots /\ boots' = boots + 1
  /\ FSM_state' = 0 /\ initial' = 0
  /\ launch_reads' = 0 /\ land_reads' = 0 /\ land_alt' = 0
  /\ baseline' = "none" /\ high' = 0
  /\ UNCHANGED <<worldVars, due, flown, errors>>

Reading == GoodReading \/ FailedReading

Next == World \/ Reading \/ PowerLoss

(* Readings go on, also where the board lies still.                        *)
Spec == Init /\ [][Next]_vars /\ WF_vars(Reading) /\ WF_vars(Rest)

-----------------------------------------------------------------------------
(* Types: the counters and the state, and a reference that was read.       *)
TypeOK ==
  /\ FSM_state \in 0 .. 2
  /\ initial \in Int /\ land_alt \in Int
  /\ site \in Sites /\ level \in Int /\ alt \in Int /\ slow \in 0 .. SlowMoves
  /\ launch_reads \in 0 .. LaunchReads /\ land_reads \in 0 .. LandReads
  /\ phase \in {"pad", "up", "down", "ground"} /\ due \in BOOLEAN
  /\ baseline \in Baselines /\ flown \in BOOLEAN
  /\ high \in 0 .. LaunchReads /\ errors \in 0 .. MaxErrors /\ boots \in 0 .. MaxBoots
  /\ FSM_state # 0 => initial # 0

(* Unless the baseline was itself a failed reading, no failed reading, no  *)
(* noise, no restart in the air and no cut of a baseline to whole metres   *)
(* makes the board see a launch that did not reach the threshold: a false  *)
(* launch erases a flight.                                                 *)
LaunchIsReal == FSM_state # 0 /\ baseline # "failed" => flown

(* Enough readings in a row that show the board above the threshold are a  *)
(* launch, if the baseline was taken on the pad; and it was, or the first  *)
(* reading failed, the power went, or the pad is so low that its altitude  *)
(* is cut to 0, which stands for no baseline yet.                          *)
LaunchDetected ==
  /\ high >= LaunchReads
  /\ baseline = "pad" \/ (errors = 0 /\ boots = 0 /\ site >= Unit)
  => FSM_state # 0

(* A landing, which ends the log, is not declared in the air, be it at the *)
(* top of the flight where the readings hardly differ, or because readings *)
(* failed.                                                                 *)
LandingIsReal == FSM_state = 2 /\ baseline # "failed" => phase = "ground"

(* A flight that lies on the ground is declared landed, wherever it came   *)
(* down, or else the log would run on to the end of its section.           *)
LandingDetected ==
  (FSM_state = 1 /\ phase = "ground") ~> (FSM_state # 1)

=============================================================================
