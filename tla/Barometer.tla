----------------------------- MODULE Barometer ------------------------------
(***************************************************************************)
(* The barometer driver (lib/MPL3115A2) as loop() uses it: readAltitude(), *)
(* readTemp() and readPressure(), one after the other, again and again, on *)
(* a sensor that converts at its own pace.                                 *)
(*                                                                         *)
(* A step is an exchange on the I2C bus, or the four of toggleOneShot().   *)
(* The sensor is external to the repository: a one-shot conversion takes a *)
(* while, sets the flags TDR and PDR when it is done, and reading the      *)
(* temperature or the pressure registers clears the one or the other; a    *)
(* toggle during a conversion is ignored or starts it anew. It takes less  *)
(* than the 600 polls of a wait, so a wait runs out only when there is     *)
(* nothing to wait for. A value is seen as its age: how many times         *)
(* readAltitude() has been called since its conversion began.              *)
(*                                                                         *)
(* An exchange may fail. A register then reads as 0xff, which passes a     *)
(* wait and is written back, its reset bit set, by toggleOneShot() and by  *)
(* the calls of setup(); a result asked for is given as -999.              *)
(***************************************************************************)
EXTENDS Naturals

CONSTANTS
  MaxAge,       \* bound: ages are told apart up to this one
  MaxFaults     \* bound: failures of the bus

ASSUME BarometerAssumption == MaxAge \in Nat \ 0 .. 2 /\ MaxFaults \in Nat

VARIABLES
  pc,           \* the exchange the driver is about to make
  result        \* of readAltitude(): "new", "old", "again", "wrong", "error"

(* The sensor.                                                             *)
VARIABLES
  configured,   \* altimeter mode and event flags are on
  converting,   \* a conversion is under way
  began,        \* its age
  tdr, pdr,     \* STATUS: new temperature, new pressure or altitude
  data,         \* age of the registers
  taken         \* readAltitude() has returned them

(* History variables.                                                      *)
VARIABLES
  faults,       \* failures so far
  clean         \* passes ended since the last one; 3 stands for more

sensorVars == <<configured, converting, began, tdr, pdr, data, taken>>
vars       == <<pc, result, sensorVars, faults, clean>>

Waits   == {"alt_wait", "temp_wait"}
Reads   == {"alt_read", "temp_read", "pres_read"}
Toggles == {"alt_toggle", "temp_toggle", "pres_toggle"}

Init ==
  /\ pc = "setup" /\ result = "error"
  /\ configured = FALSE /\ converting = FALSE /\ began = 0
  /\ tdr = FALSE /\ pdr = FALSE /\ data = 0 /\ taken = TRUE
  /\ faults = 0 /\ clean = 3

-----------------------------------------------------------------------------
(* Beside some operators stands a mutated form, NameMutant: the slip that  *)
(* a property below is there to catch. No action uses one.                 *)

(* mutated: the flag the comments name; a wait that is always over, as the *)
(* one of readPressure() is                                                *)
ReadyPressureMutant == pdr
ReadyAlwaysMutant   == TRUE
Ready               == tdr

(* The exchanges of a pass.                                                *)
AfterRead ==
  CASE pc = "alt_read"  -> "temp_wait"
    [] pc = "temp_read" -> "temp_toggle"
    [] OTHER            -> "pres_toggle"

AfterToggle ==
  CASE pc = "alt_toggle"  -> "alt_wait"
    [] pc = "temp_toggle" -> "pres_read"
    [] OTHER              -> "alt_toggle"

(* A call that gives up: on to the next one.                               *)
AfterCall ==
  CASE pc \in {"alt_wait", "alt_read"}   -> "temp_wait"
    [] pc \in {"temp_wait", "temp_read"} -> "pres_read"
    [] OTHER                             -> "alt_toggle"

(* Only the first exchange of readAltitude() makes values older.           *)
Aged(age) == IF pc = "alt_toggle" /\ age < MaxAge THEN age + 1 ELSE age

PassEnds == clean' = IF pc' = "alt_toggle" /\ clean < 3 THEN clean + 1 ELSE clean

Setup ==
  /\ pc = "setup" /\ pc' = "alt_toggle"
  /\ configured' = TRUE
  /\ UNCHANGED <<result, converting, began, tdr, pdr, data, taken, faults, clean>>

toggleOneShot ==
  /\ pc \in Toggles /\ pc' = AfterToggle
  /\ converting' = TRUE
  /\ began' \in {0} \cup (IF converting THEN {Aged(began)} ELSE {})
  /\ data' = Aged(data)
  /\ PassEnds
  /\ UNCHANGED <<result, configured, tdr, pdr, taken, faults>>

WaitOver ==
  /\ pc \in Waits /\ Ready
  /\ pc' = IF pc = "alt_wait" THEN "alt_read" ELSE "temp_read"
  /\ UNCHANGED <<result, sensorVars, faults, clean>>

TimeOut ==
  /\ pc \in Waits /\ ~Ready /\ ~(converting /\ configured)
  /\ pc' = AfterCall
  /\ result' = IF pc = "alt_wait" THEN "error" ELSE result
  /\ UNCHANGED <<sensorVars, faults, clean>>

(* readAltitude() and readPressure() read the same registers.              *)
ReadAltitude ==
  /\ pc = "alt_read" /\ pc' = AfterRead
  /\ result' = CASE ~configured           -> "wrong"
                 [] configured /\ taken    -> "again"
                 [] configured /\ ~taken /\ data > 2 -> "old"
                 [] OTHER                 -> "new"
  /\ taken' = TRUE /\ pdr' = FALSE
  /\ UNCHANGED <<configured, converting, began, tdr, data, faults, clean>>

ReadTemp ==
  /\ pc = "temp_read" /\ pc' = AfterRead
  /\ tdr' = FALSE
  /\ UNCHANGED <<result, configured, converting, began, pdr, data, taken, faults, clean>>

ReadPressure ==
  /\ pc = "pres_read" /\ pc' = AfterRead
  /\ pdr' = FALSE
  /\ UNCHANGED <<result, configured, converting, began, tdr, data, taken, faults, clean>>

-----------------------------------------------------------------------------
(* The sensor: a conversion is done.                                       *)
Convert ==
  /\ converting /\ converting' = FALSE
  /\ tdr' = configured /\ pdr' = configured
  /\ data' = began /\ taken' = FALSE
  /\ UNCHANGED <<pc, result, configured, began, faults, clean>>

Fault == faults < MaxFaults /\ faults' = faults + 1 /\ clean' = 0

(* Bits written to the wrong place: the sensor is back as it was made.     *)
Reset ==
  /\ configured' = FALSE /\ converting' = FALSE
  /\ tdr' = FALSE /\ pdr' = FALSE /\ taken' = FALSE
  /\ UNCHANGED <<began, data>>

SetupFails == Fault /\ pc = "setup" /\ pc' = "alt_toggle" /\ Reset /\ UNCHANGED result

(* The toggle is lost, or resets the sensor.                               *)
ToggleFails ==
  /\ Fault /\ pc \in Toggles /\ pc' = AfterToggle
  /\ \/ Reset
     \/ data' = Aged(data) /\ began' = Aged(began)
        /\ UNCHANGED <<configured, converting, tdr, pdr, taken>>
  /\ UNCHANGED result

PollFails ==
  /\ Fault /\ pc \in Waits
  /\ pc' = IF pc = "alt_wait" THEN "alt_read" ELSE "temp_read"
  /\ UNCHANGED <<result, sensorVars>>

ReadFails ==
  /\ Fault /\ pc \in Reads /\ pc' = AfterCall
  /\ result' = IF pc = "alt_read" THEN "error" ELSE result
  /\ UNCHANGED sensorVars

Driver ==
  \/ Setup \/ toggleOneShot \/ WaitOver \/ TimeOut
  \/ ReadAltitude \/ ReadTemp \/ ReadPressure

BusFault == SetupFails \/ ToggleFails \/ PollFails \/ ReadFails

Next == Driver \/ Convert \/ BusFault

(* The loop goes on, and a conversion ends.                                *)
Spec == Init /\ [][Next]_vars /\ WF_vars(Driver) /\ WF_vars(Convert)

-----------------------------------------------------------------------------
TypeOK ==
  /\ pc \in {"setup"} \cup Waits \cup Reads \cup Toggles
  /\ result \in {"new", "old", "again", "wrong", "error"}
  /\ configured \in BOOLEAN /\ converting \in BOOLEAN
  /\ tdr \in BOOLEAN /\ pdr \in BOOLEAN /\ taken \in BOOLEAN
  /\ began \in 0 .. MaxAge /\ data \in 0 .. MaxAge
  /\ faults \in 0 .. MaxFaults /\ clean \in 0 .. 3

(* Although readAltitude() waits for the wrong flag, no two calls return   *)
(* the same conversion, and none returns one that began more than two      *)
(* calls ago: the detections count readings that were made. A failure of   *)
(* the bus is forgotten after two whole passes.                            *)
AltitudesAreNew ==
  [][pc = "alt_read" /\ configured /\ clean = 3 /\ faults' = faults
       => result' = "new"]_<<pc, result>>

(* A wait is for something: the flag is up or a conversion will raise it.  *)
(* So it is not for the order of the calls that an altitude is ever -999.  *)
NoVainWait ==
  pc \in Waits /\ configured /\ clean = 3 => Ready \/ converting

(* The altitude comes back after failures, unless they reset the sensor.   *)
AltitudeComesBack == <>[]configured => <>[](result = "new")
=============================================================================
