--------------------------- MODULE BarometerProofs --------------------------
(***************************************************************************)
(* Proofs about the barometer driver: whatever the sensor's pace, and      *)
(* however many exchanges fail, two whole passes after the last failure no *)
(* wait is in vain and each altitude is a new one.                         *)
(***************************************************************************)
EXTENDS Barometer, TLAPS

(* The part of a pass behind the temperature, and the one before it.       *)
Behind == {"temp_toggle", "pres_read", "pres_toggle"}
Ahead  == {"alt_toggle", "alt_wait", "alt_read"}

(* The flag the driver has seen is up until the temperature is read.       *)
FlagUp ==
  clean >= 1 /\ pc \in {"alt_read", "temp_wait", "temp_read"} => tdr

(* The first toggle leaves a conversion under way, or one just done.       *)
SomethingComes == clean >= 1 /\ pc = "alt_wait" => tdr \/ converting

(* The temperature has been read, or its flag was down, since the last     *)
(* failure ...                                                             *)
FlagCleared == (clean >= 2 /\ pc \in Ahead) \/ (clean >= 1 /\ pc \in Behind)

(* ... so the flag, if it is up, is of registers not returned yet, and a   *)
(* conversion under way began after the one that raised it.                *)
FlagIsNews == FlagCleared /\ tdr => ~taken

Restarted ==
  FlagCleared /\ tdr /\ converting =>
    /\ pc # "temp_toggle"
    /\ pc \in {"alt_wait", "alt_read"} \/ began = 0
    /\ began <= 1

(* A pass after that, ages are bounded.                                    *)
RestartedBefore ==
  clean >= 2 /\ pc \in {"temp_wait", "temp_read"} /\ converting => began <= 1

Young ==
  (clean >= 2 /\ pc \in Behind) \/ (clean >= 3 /\ pc = "alt_toggle") =>
    (converting => began <= 1) /\ (tdr => data <= 1)

StillYoung ==
  clean >= 3 /\ pc \in {"alt_wait", "alt_read"} =>
    (converting => began <= 2) /\ (tdr => data <= 2)

(* Before the set-up the sensor is at rest.                                *)
AtRest == pc = "setup" => ~converting /\ ~tdr

Tracked ==
  /\ FlagUp /\ SomethingComes /\ FlagIsNews /\ Restarted /\ RestartedBefore
  /\ Young /\ StillYoung

(* The inductive invariant. Nothing is known of a sensor that has lost its *)
(* configuration, and nothing need be.                                     *)
IInv == TypeOK /\ AtRest /\ (configured => Tracked)
-----------------------------------------------------------------------------
USE DEF Waits, Reads, Toggles, Behind, Ahead

LEMMA AgeBound == MaxAge \in Nat /\ MaxAge >= 3 /\ MaxFaults \in Nat
  BY BarometerAssumption

(* Every variable keeps its type.                                          *)
LEMMA InitTyped == Init => TypeOK
  <1> SUFFICES ASSUME Init PROVE TypeOK
    OBVIOUS
  <1>1. configured \in BOOLEAN /\ converting \in BOOLEAN
    BY DEF Init
  <1>2. tdr \in BOOLEAN /\ pdr \in BOOLEAN /\ taken \in BOOLEAN
    BY DEF Init
  <1> QED
    BY <1>1, <1>2, AgeBound DEF Init, TypeOK

LEMMA StepTyped == TypeOK /\ [Next]_vars => TypeOK'
  <1> SUFFICES ASSUME TypeOK, [Next]_vars PROVE TypeOK'
    OBVIOUS
  <1> USE AgeBound DEF TypeOK, sensorVars
  <1>1. CASE Setup
    BY <1>1 DEF Setup
  <1>2. CASE toggleOneShot
    BY <1>2 DEF toggleOneShot, AfterToggle, Aged, PassEnds
  <1>3. CASE WaitOver
    BY <1>3 DEF WaitOver, Ready
  <1>4. CASE TimeOut
    BY <1>4 DEF TimeOut, Ready, AfterCall
  <1>5. CASE ReadAltitude
    BY <1>5 DEF ReadAltitude, AfterRead
  <1>6. CASE ReadTemp
    BY <1>6 DEF ReadTemp, AfterRead
  <1>7. CASE ReadPressure
    BY <1>7 DEF ReadPressure, AfterRead
  <1>8. CASE Convert
    BY <1>8 DEF Convert
  <1>9. CASE SetupFails
    <2>1. configured' \in BOOLEAN /\ converting' \in BOOLEAN
      BY <1>9 DEF SetupFails, Reset
    <2>2. tdr' \in BOOLEAN /\ pdr' \in BOOLEAN /\ taken' \in BOOLEAN
      BY <1>9 DEF SetupFails, Reset
    <2> QED
      BY <1>9, <2>1, <2>2 DEF SetupFails, Fault, Reset
  <1>10. CASE ToggleFails
    <2>1. configured' \in BOOLEAN /\ converting' \in BOOLEAN
      BY <1>10 DEF ToggleFails, Reset
    <2>2. tdr' \in BOOLEAN /\ pdr' \in BOOLEAN /\ taken' \in BOOLEAN
      BY <1>10 DEF ToggleFails, Reset
    <2> QED
      BY <1>10, <2>1, <2>2 DEF ToggleFails, Fault, Reset, AfterToggle, Aged
  <1>11. CASE PollFails
    BY <1>11 DEF PollFails, Fault
  <1>12. CASE ReadFails
    BY <1>12 DEF ReadFails, Fault, AfterCall
  <1>13. CASE UNCHANGED vars
    BY <1>13 DEF vars
  <1> QED
    BY <1>1, <1>2, <1>3, <1>4, <1>5, <1>6, <1>7, <1>8, <1>9, <1>10, <1>11,
       <1>12, <1>13
    DEF Next, Driver, BusFault

(* A failure leaves nothing to be kept: every fact is about the passes    *)
(* after it.                                                               *)
LEMMA FailureForgotten ==
  ASSUME TypeOK, BusFault PROVE Tracked'
  <1>1. clean' = 0
    BY DEF BusFault, SetupFails, ToggleFails, PollFails, ReadFails, Fault
  <1> QED
    BY <1>1
    DEF Tracked, FlagUp, SomethingComes, FlagIsNews, Restarted,
        RestartedBefore,
            FlagCleared, Young, StillYoung

(* The sensor is configured in set-up, and never after it.                 *)
LEMMA StepTracked ==
  ASSUME IInv, [Next]_vars, configured', TypeOK'
  PROVE  Tracked'
  <1> USE DEF IInv, TypeOK, sensorVars
  <1>1. CASE BusFault
    BY <1>1, FailureForgotten
  <1>2. CASE Setup
    BY <1>2
    DEF Setup, AtRest, Tracked, FlagUp, SomethingComes, FlagIsNews, Restarted,
            RestartedBefore, FlagCleared, Young, StillYoung
  <1>3. CASE UNCHANGED vars
    BY <1>3 DEF vars, Tracked, FlagUp, SomethingComes, FlagIsNews, Restarted,
            RestartedBefore, FlagCleared, Young, StillYoung
  <1>4. CASE toggleOneShot
    <2>1. configured /\ Tracked
      BY <1>4 DEF toggleOneShot
    <2>2. FlagUp'
      BY <1>4, <2>1, AgeBound
      DEF toggleOneShot, AfterToggle, Aged, PassEnds, Tracked, FlagUp
    <2>3. SomethingComes'
      BY <1>4, <2>1, AgeBound
      DEF toggleOneShot, AfterToggle, Aged, PassEnds, Tracked, SomethingComes
    <2>4. FlagIsNews'
      BY <1>4, <2>1, AgeBound
      DEF toggleOneShot, AfterToggle, Aged, PassEnds, Tracked, FlagIsNews,
          FlagCleared, FlagUp
    <2>5. Restarted'
      BY <1>4, <2>1, AgeBound
      DEF toggleOneShot, AfterToggle, Aged, PassEnds, Tracked, Restarted,
          FlagCleared, RestartedBefore, FlagUp
    <2>6. RestartedBefore'
      BY <1>4, <2>1, AgeBound
      DEF toggleOneShot, AfterToggle, Aged, PassEnds, Tracked,
          RestartedBefore, Restarted, FlagCleared, FlagUp
    <2>7. Young'
      BY <1>4, <2>1, AgeBound
      DEF toggleOneShot, AfterToggle, Aged, PassEnds, Tracked, Young,
          RestartedBefore, Restarted, FlagCleared
    <2>8. StillYoung'
      BY <1>4, <2>1, AgeBound
      DEF toggleOneShot, AfterToggle, Aged, PassEnds, Tracked, StillYoung,
          Young, Restarted, FlagCleared
    <2> QED
      BY <2>2, <2>3, <2>4, <2>5, <2>6, <2>7, <2>8 DEF Tracked
  <1>5. CASE WaitOver
    <2>1. configured /\ Tracked
      BY <1>5 DEF WaitOver
    <2>2. FlagUp'
      BY <1>5, <2>1, AgeBound
      DEF WaitOver, Ready, Tracked, FlagUp
    <2>3. SomethingComes'
      BY <1>5, <2>1, AgeBound
      DEF WaitOver, Ready, Tracked, SomethingComes
    <2>4. FlagIsNews'
      BY <1>5, <2>1, AgeBound
      DEF WaitOver, Ready, Tracked, FlagIsNews, FlagCleared, FlagUp
    <2>5. Restarted'
      BY <1>5, <2>1, AgeBound
      DEF WaitOver, Ready, Tracked, Restarted, FlagCleared, RestartedBefore,
          FlagUp
    <2>6. RestartedBefore'
      BY <1>5, <2>1, AgeBound
      DEF WaitOver, Ready, Tracked, RestartedBefore, Restarted, FlagCleared,
          FlagUp
    <2>7. Young'
      BY <1>5, <2>1, AgeBound
      DEF WaitOver, Ready, Tracked, Young, RestartedBefore, Restarted,
          FlagCleared
    <2>8. StillYoung'
      BY <1>5, <2>1, AgeBound
      DEF WaitOver, Ready, Tracked, StillYoung, Young, Restarted, FlagCleared
    <2> QED
      BY <2>2, <2>3, <2>4, <2>5, <2>6, <2>7, <2>8 DEF Tracked
  <1>6. CASE TimeOut
    <2>1. configured /\ Tracked
      BY <1>6 DEF TimeOut
    <2>2. FlagUp'
      BY <1>6, <2>1, AgeBound
      DEF TimeOut, Ready, AfterCall, Tracked, FlagUp, SomethingComes
    <2>3. SomethingComes'
      BY <1>6, <2>1, AgeBound
      DEF TimeOut, Ready, AfterCall, Tracked, SomethingComes
    <2>4. FlagIsNews'
      BY <1>6, <2>1, AgeBound
      DEF TimeOut, Ready, AfterCall, Tracked, FlagIsNews, FlagCleared, FlagUp
    <2>5. Restarted'
      BY <1>6, <2>1, AgeBound
      DEF TimeOut, Ready, AfterCall, Tracked, Restarted, FlagCleared,
          RestartedBefore, FlagUp
    <2>6. RestartedBefore'
      BY <1>6, <2>1, AgeBound
      DEF TimeOut, Ready, AfterCall, Tracked, RestartedBefore, Restarted,
          FlagCleared, FlagUp
    <2>7. Young'
      BY <1>6, <2>1, AgeBound
      DEF TimeOut, Ready, AfterCall, Tracked, Young, RestartedBefore,
          Restarted, FlagCleared
    <2>8. StillYoung'
      BY <1>6, <2>1, AgeBound
      DEF TimeOut, Ready, AfterCall, Tracked, StillYoung, Young, Restarted,
          FlagCleared
    <2> QED
      BY <2>2, <2>3, <2>4, <2>5, <2>6, <2>7, <2>8 DEF Tracked
  <1>7. CASE ReadAltitude
    <2>1. configured /\ Tracked
      BY <1>7 DEF ReadAltitude
    <2>2. FlagUp'
      BY <1>7, <2>1, AgeBound
      DEF ReadAltitude, AfterRead, Tracked, FlagUp
    <2>3. SomethingComes'
      BY <1>7, <2>1, AgeBound
      DEF ReadAltitude, AfterRead, Tracked, SomethingComes
    <2>4. FlagIsNews'
      BY <1>7, <2>1, AgeBound
      DEF ReadAltitude, AfterRead, Tracked, FlagIsNews, FlagCleared, FlagUp
    <2>5. Restarted'
      BY <1>7, <2>1, AgeBound
      DEF ReadAltitude, AfterRead, Tracked, Restarted, FlagCleared,
          RestartedBefore, FlagUp
    <2>6. RestartedBefore'
      BY <1>7, <2>1, AgeBound
      DEF ReadAltitude, AfterRead, Tracked, RestartedBefore, Restarted,
          FlagCleared, FlagUp
    <2>7. Young'
      BY <1>7, <2>1, AgeBound
      DEF ReadAltitude, AfterRead, Tracked, Young, RestartedBefore, Restarted,
          FlagCleared
    <2>8. StillYoung'
      BY <1>7, <2>1, AgeBound
      DEF ReadAltitude, AfterRead, Tracked, StillYoung, Young, Restarted,
          FlagCleared
    <2> QED
      BY <2>2, <2>3, <2>4, <2>5, <2>6, <2>7, <2>8 DEF Tracked
  <1>8. CASE ReadTemp
    <2>1. configured /\ Tracked
      BY <1>8 DEF ReadTemp
    <2>2. FlagUp'
      BY <1>8, <2>1, AgeBound
      DEF ReadTemp, AfterRead, Tracked, FlagUp
    <2>3. SomethingComes'
      BY <1>8, <2>1, AgeBound
      DEF ReadTemp, AfterRead, Tracked, SomethingComes
    <2>4. FlagIsNews'
      BY <1>8, <2>1, AgeBound
      DEF ReadTemp, AfterRead, Tracked, FlagIsNews, FlagCleared, FlagUp
    <2>5. Restarted'
      BY <1>8, <2>1, AgeBound
      DEF ReadTemp, AfterRead, Tracked, Restarted, FlagCleared,
          RestartedBefore, FlagUp
    <2>6. RestartedBefore'
      BY <1>8, <2>1, AgeBound
      DEF ReadTemp, AfterRead, Tracked, RestartedBefore, Restarted,
          FlagCleared, FlagUp
    <2>7. Young'
      BY <1>8, <2>1, AgeBound
      DEF ReadTemp, AfterRead, Tracked, Young, RestartedBefore, Restarted,
          FlagCleared
    <2>8. StillYoung'
      BY <1>8, <2>1, AgeBound
      DEF ReadTemp, AfterRead, Tracked, StillYoung, Young, Restarted,
          FlagCleared
    <2> QED
      BY <2>2, <2>3, <2>4, <2>5, <2>6, <2>7, <2>8 DEF Tracked
  <1>9. CASE ReadPressure
    <2>1. configured /\ Tracked
      BY <1>9 DEF ReadPressure
    <2>2. FlagUp'
      BY <1>9, <2>1, AgeBound
      DEF ReadPressure, AfterRead, Tracked, FlagUp
    <2>3. SomethingComes'
      BY <1>9, <2>1, AgeBound
      DEF ReadPressure, AfterRead, Tracked, SomethingComes
    <2>4. FlagIsNews'
      BY <1>9, <2>1, AgeBound
      DEF ReadPressure, AfterRead, Tracked, FlagIsNews, FlagCleared, FlagUp
    <2>5. Restarted'
      BY <1>9, <2>1, AgeBound
      DEF ReadPressure, AfterRead, Tracked, Restarted, FlagCleared,
          RestartedBefore, FlagUp
    <2>6. RestartedBefore'
      BY <1>9, <2>1, AgeBound
      DEF ReadPressure, AfterRead, Tracked, RestartedBefore, Restarted,
          FlagCleared, FlagUp
    <2>7. Young'
      BY <1>9, <2>1, AgeBound
      DEF ReadPressure, AfterRead, Tracked, Young, RestartedBefore, Restarted,
          FlagCleared
    <2>8. StillYoung'
      BY <1>9, <2>1, AgeBound
      DEF ReadPressure, AfterRead, Tracked, StillYoung, Young, Restarted,
          FlagCleared
    <2> QED
      BY <2>2, <2>3, <2>4, <2>5, <2>6, <2>7, <2>8 DEF Tracked
  <1>10. CASE Convert
    <2>1. configured /\ Tracked
      BY <1>10 DEF Convert
    <2>2. FlagUp'
      BY <1>10, <2>1, AgeBound
      DEF Convert, Tracked, FlagUp
    <2>3. SomethingComes'
      BY <1>10, <2>1, AgeBound
      DEF Convert, Tracked, SomethingComes
    <2>4. FlagIsNews'
      BY <1>10, <2>1, AgeBound
      DEF Convert, Tracked, FlagIsNews, FlagCleared, FlagUp
    <2>5. Restarted'
      BY <1>10, <2>1, AgeBound
      DEF Convert, Tracked, Restarted, FlagCleared, RestartedBefore, FlagUp
    <2>6. RestartedBefore'
      BY <1>10, <2>1, AgeBound
      DEF Convert, Tracked, RestartedBefore, Restarted, FlagCleared, FlagUp
    <2>7. Young'
      BY <1>10, <2>1, AgeBound
      DEF Convert, Tracked, Young, RestartedBefore, Restarted, FlagCleared
    <2>8. StillYoung'
      BY <1>10, <2>1, AgeBound
      DEF Convert, Tracked, StillYoung, Young, Restarted, FlagCleared
    <2> QED
      BY <2>2, <2>3, <2>4, <2>5, <2>6, <2>7, <2>8 DEF Tracked
  <1> QED
    BY <1>1, <1>2, <1>3, <1>4, <1>5, <1>6, <1>7, <1>8, <1>9, <1>10
    DEF Next, Driver

-----------------------------------------------------------------------------
LEMMA StepAtRest == AtRest /\ [Next]_vars => AtRest'
  <1> SUFFICES ASSUME AtRest, [Next]_vars, pc' = "setup" PROVE UNCHANGED vars
    BY DEF AtRest, vars, sensorVars
  <1>1. pc = "setup"
    BY
    DEF Next, Driver, BusFault, Setup, toggleOneShot, AfterToggle, WaitOver,
        TimeOut,
           AfterCall, ReadAltitude, ReadTemp, ReadPressure, AfterRead, Convert, SetupFails,
           ToggleFails, PollFails, ReadFails, vars
  <1>2. ~Convert
    BY <1>1 DEF AtRest, Convert
  <1> QED
    BY <1>1, <1>2
    DEF Next, Driver, BusFault, Setup, toggleOneShot, WaitOver, TimeOut,
        ReadAltitude,
        ReadTemp, ReadPressure, SetupFails, ToggleFails, PollFails, ReadFails

LEMMA InitInvariant == Init => IInv
  BY InitTyped DEF Init, IInv, AtRest

LEMMA StepInvariant == IInv /\ [Next]_vars => IInv'
  BY StepTyped, StepAtRest, StepTracked DEF IInv

(* Every reachable state, in whatever order conversions end and exchanges  *)
(* fail, is one of those described above.                                  *)
THEOREM Invariance == Spec => []IInv
  BY InitInvariant, StepInvariant, PTL DEF Spec

(* Types and bounds of the driver's and the sensor's state.                *)
THEOREM TypeCorrect == Spec => []TypeOK
  <1>1. IInv => TypeOK
    BY DEF IInv
  <1> QED
    BY Invariance, <1>1, PTL

(* No call of readAltitude() or readTemp() waits in vain, although each of *)
(* them clears flags another waits for.                                    *)
THEOREM WaitsEnd == Spec => []NoVainWait
  <1>1. IInv => NoVainWait
    BY DEF IInv, NoVainWait, Tracked, FlagUp, SomethingComes, Ready
  <1> QED
    BY Invariance, <1>1, PTL

(* readAltitude() returns each conversion once, and at most two calls late,*)
(* although it waits for the flag of the temperature.                      *)
THEOREM EachAltitudeIsNew == Spec => AltitudesAreNew
  <1>1. ASSUME IInv, [Next]_vars
        PROVE  [pc = "alt_read" /\ configured /\ clean = 3 /\ faults' = faults
                  => result' = "new"]_<<pc, result>>
    <2> SUFFICES ASSUME pc = "alt_read", configured, clean = 3, faults' = faults,
                        ~UNCHANGED <<pc, result>>
                 PROVE  result' = "new"
      OBVIOUS
    <2>1. ~BusFault
      BY <1>1
      DEF BusFault, SetupFails, ToggleFails, PollFails, ReadFails, Fault,
          IInv, TypeOK
    <2>2. ReadAltitude
      BY <1>1, <2>1
      DEF Next, Driver, Setup, toggleOneShot, WaitOver, TimeOut, ReadTemp,
                        ReadPressure, Convert, vars
    <2>3. ~taken /\ data <= 2
      BY <1>1
      DEF IInv, TypeOK, Tracked, FlagUp, FlagIsNews, FlagCleared, StillYoung
    <2> QED
      BY <1>1, <2>2, <2>3 DEF ReadAltitude, IInv, TypeOK
  <1> QED
    BY Invariance, <1>1, PTL DEF Spec, AltitudesAreNew
=============================================================================
