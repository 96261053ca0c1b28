------------------------ MODULE FlightComputerProofs ------------------------
(***************************************************************************)
(* Proofs about the detection by itself, Spec of FlightFSM, and then about *)
(* the detection and the logger in one loop, ComputerSpec: the launch and  *)
(* the landing are real, for every pad, threshold, number of readings and  *)
(* flight that OrdinaryFlight allows, and the log is in order for any      *)
(* timing of the loop and any flight, ordinary or not.                     *)
(***************************************************************************)
EXTENDS FlightComputerInv, TLAPS

(* Division with remainder, and multiples.                                 *)
LEMMA ModDef ==
  ASSUME NEW a \in Int, NEW n \in Nat \ {0}
  PROVE  /\ a % n \in 0 .. n - 1
         /\ a \div n \in Int
         /\ a = n * (a \div n) + (a % n)
  OBVIOUS

LEMMA MultiplesApart ==
  ASSUME NEW n \in Nat \ {0}, NEW q \in Int, NEW r \in Int, q < r
  PROVE  n * q + n <= n * r
  OBVIOUS

LEMMA ModSmall ==
  ASSUME NEW n \in Nat \ {0}, NEW a \in 0 .. n - 1
  PROVE  a % n = a
<1>1. /\ a % n \in 0 .. n - 1 /\ a \div n \in Int
      /\ a = n * (a \div n) + (a % n)
  BY ModDef
<1>2. ~(0 < a \div n)
  <2>1. 0 < a \div n => n * 0 + n <= n * (a \div n)
    BY <1>1, MultiplesApart
  <2> QED
    BY <1>1, <2>1
<1>3. ~(a \div n < 0)
  <2>1. a \div n < 0 => n * (a \div n) + n <= n * 0
    BY <1>1, MultiplesApart
  <2> QED
    BY <1>1, <2>1
<1>4. a \div n = 0
  BY <1>1, <1>2, <1>3
<1> QED
  BY <1>1, <1>4

LEMMA Constants ==
  /\ Unit \in Nat \ {0} /\ MinSpeed \in Nat \ {0} /\ SlowMoves \in Nat /\ Speed \in Nat
  /\ LaunchAlt \in Nat \ {0} /\ LaunchReads \in Nat \ {0}
  /\ LandDelta \in Nat \ {0} /\ LandReads \in Nat \ {0}
  /\ Sites \subseteq Int
  /\ Noise \in Nat /\ MaxHeight \in Nat /\ MaxErrors \in Nat /\ MaxBoots \in Nat
  BY FSMAssumption

-----------------------------------------------------------------------------
(* A reading in whole metres.                                              *)
LEMMA TruncType ==
  ASSUME NEW a \in Int
  PROVE  Trunc(a) \in Int
<1>1. Unit \in Nat \ {0} /\ -a \in Int
  BY Constants
<1>2. a \div Unit \in Int /\ (-a) \div Unit \in Int
  BY <1>1, ModDef
<1> QED
  BY <1>2 DEF Trunc

(* Cutting off leaves less than a metre, and does not go up past 0.        *)
LEMMA TruncNat ==
  ASSUME NEW a \in Nat
  PROVE  /\ Trunc(a) \in Nat
         /\ Trunc(a) * Unit <= a /\ a < Trunc(a) * Unit + Unit
<1>1. Unit \in Nat \ {0} /\ a \in Int
  BY Constants
<1>2. /\ a % Unit \in 0 .. Unit - 1 /\ a \div Unit \in Int
      /\ a = Unit * (a \div Unit) + (a % Unit)
  BY <1>1, ModDef
<1>3. Trunc(a) = a \div Unit
  BY DEF Trunc
<1>4. a \div Unit >= 0
  <2>1. ~(a \div Unit < 0)
    <3> SUFFICES ASSUME a \div Unit < 0 PROVE FALSE
      OBVIOUS
    <3>1. Unit * (a \div Unit) + Unit <= Unit * 0
      BY <1>1, <1>2, MultiplesApart
    <3> QED
      BY <1>1, <1>2, <3>1
  <2> QED
    BY <1>2, <2>1
<1>5. Unit * (a \div Unit) = (a \div Unit) * Unit
  BY <1>1, <1>2
<1> QED
  BY <1>1, <1>2, <1>3, <1>4, <1>5

LEMMA TruncNegative ==
  ASSUME NEW a \in Int, a < 0
  PROVE  Trunc(a) <= 0
<1>1. -a \in Nat /\ Unit \in Nat \ {0}
  BY Constants
<1>2. Trunc(-a) \in Nat
  BY <1>1, TruncNat
<1>3. Trunc(-a) = (-a) \div Unit /\ Trunc(a) = -((-a) \div Unit)
  BY <1>1 DEF Trunc
<1> QED
  BY <1>2, <1>3

(* The whole metres reach n exactly when the altitude does.                *)
LEMMA TruncReaches ==
  ASSUME NEW a \in Int, NEW n \in Nat \ {0}
  PROVE  Trunc(a) >= n <=> a >= n * Unit
<1>1. Unit \in Nat \ {0}
  BY Constants
<1>2. n * Unit > 0
  <2>1. Unit * 0 + Unit <= Unit * n
    BY <1>1, MultiplesApart
  <2> QED
    BY <1>1, <2>1
<1>3. CASE a < 0
  <2>1. Trunc(a) <= 0
    BY <1>3, TruncNegative
  <2>2. Trunc(a) \in Int
    BY TruncType
  <2>3. ~(Trunc(a) >= n)
    BY <2>1, <2>2
  <2>4. n * Unit \in Int
    BY <1>1
  <2>5. ~(a >= n * Unit)
    BY <1>2, <1>3, <2>4
  <2> QED
    BY <2>3, <2>5
<1>4. CASE a >= 0
  <2> DEFINE t == Trunc(a)
  <2>1. t \in Nat /\ t * Unit <= a /\ a < t * Unit + Unit
    BY <1>4, TruncNat
  <2> HIDE DEF t
  <2>2. t >= n => n * Unit <= t * Unit
    <3>1. t > n => Unit * n + Unit <= Unit * t
      BY <1>1, <2>1, MultiplesApart
    <3> QED
      BY <1>1, <2>1, <3>1
  <2>3. t < n => t * Unit + Unit <= n * Unit
    <3>1. t < n => Unit * t + Unit <= Unit * n
      BY <1>1, <2>1, MultiplesApart
    <3> QED
      BY <1>1, <2>1, <3>1
  <2>4. n * Unit \in Int /\ t * Unit \in Int
    BY <1>1, <2>1
  <2>5. t >= n <=> a >= n * Unit
    BY <1>1, <2>1, <2>2, <2>3, <2>4
  <2> QED
    BY <2>5 DEF t
<1> QED
  BY <1>3, <1>4

LEMMA ErrorReadingType == ErrorReading \in Int /\ ErrorReading < 0
  BY Constants DEF ErrorReading

LEMMA DecodeType ==
  ASSUME NEW a \in Int
  PROVE  Decode(a) \in Nat
<1> DEFINE w == 65536 * Unit
<1>1. w \in Nat \ {0}
  BY Constants
<1> HIDE DEF w
<1>2. a % w \in 0 .. w - 1
  BY <1>1, ModDef
<1>3. a % w \in Nat
  BY <1>1, <1>2
<1> QED
  BY <1>3 DEF Decode, w

(* Above sea level the register is read as it is meant.                    *)
LEMMA DecodeExact ==
  ASSUME NEW a \in Nat, a < 65536 * Unit
  PROVE  Decode(a) = a
<1> DEFINE w == 65536 * Unit
<1>1. w \in Nat \ {0}
  BY Constants
<1>2. a \in 0 .. w - 1
  BY <1>1
<1> HIDE DEF w
<1>3. a % w = a
  BY <1>1, <1>2, ModSmall
<1> QED
  BY <1>3 DEF Decode, w

-----------------------------------------------------------------------------
LEMMA TypeInit == Init => TypeOK /\ Counters
<1> SUFFICES ASSUME Init PROVE TypeOK /\ Counters
  OBVIOUS
<1>1. 0 \in 0 .. LaunchReads /\ 0 \in 0 .. LandReads /\ 0 < LaunchReads
      /\ 0 \in 0 .. MaxErrors /\ 0 \in 0 .. MaxBoots /\ 0 \in 0 .. SlowMoves
  BY Constants
<1>2. site \in Int
  BY Constants DEF Init
<1>3. TypeOK
  <2>1. /\ FSM_state \in 0 .. 2 /\ initial \in Int /\ land_alt \in Int
        /\ level \in Int /\ alt \in Int /\ (FSM_state # 0 => initial # 0)
    BY <1>2 DEF Init
  <2>2. /\ launch_reads \in 0 .. LaunchReads /\ land_reads \in 0 .. LandReads
        /\ high \in 0 .. LaunchReads
        /\ errors \in 0 .. MaxErrors /\ boots \in 0 .. MaxBoots
        /\ slow \in 0 .. SlowMoves
    BY <1>1 DEF Init
  <2>3. site \in Sites /\ due \in BOOLEAN /\ flown \in BOOLEAN
    BY DEF Init
  <2>4. phase \in {"pad", "up", "down", "ground"} /\ baseline \in Baselines
    BY DEF Init, Baselines
  <2> QED
    BY <2>1, <2>2, <2>3, <2>4 DEF TypeOK
<1>4. Counters
  BY <1>1 DEF Init, Counters
<1> QED
  BY <1>3, <1>4

LEMMA ReadsAboveType ==
  ASSUME TypeOK, NEW r \in Int
  PROVE  ReadsAbove(r) \in 0 .. LaunchReads
  BY Constants DEF TypeOK, ReadsAbove

(* Judging a reading keeps the types, and the counters below thresholds.   *)
LEMMA JudgeType ==
  ASSUME TypeOK, Counters, NEW r \in Int, Judge(r)
  PROVE  /\ FSM_state' \in 0 .. 2
         /\ initial' \in Int /\ land_alt' \in Int
         /\ launch_reads' \in 0 .. LaunchReads /\ land_reads' \in 0 .. LandReads
         /\ FSM_state' # 0 => initial' # 0
         /\ Counters'
<1>1. CASE TakeBaseline(r)
  <2>1. Trunc(r) \in Int
    BY TruncType
  <2>2. FSM_state = 0
    BY <1>1 DEF TakeBaseline, TypeOK
  <2> QED
    BY <1>1, <2>1, <2>2 DEF TakeBaseline, TypeOK, Counters
<1>2. CASE NotInFlight(r)
  <2>1. ReadsAbove(r) \in 0 .. LaunchReads
    BY ReadsAboveType
  <2>2. FSM_state = 0 => ReadsAbove(r) < LaunchReads
    BY <1>2, <2>1, Constants DEF NotInFlight, InFlight, Launched
  <2> QED
    BY <1>2, <2>1, <2>2 DEF NotInFlight, TypeOK, Counters
<1>3. CASE Moving(r)
  <2>1. ReadsAbove(r) \in 0 .. LaunchReads
    BY ReadsAboveType
  <2> QED
    BY <1>3, <2>1, Constants DEF Moving, Reference, TypeOK, Counters
<1>4. CASE Still(r)
  <2>1. ReadsAbove(r) \in 0 .. LaunchReads
    BY ReadsAboveType
  <2>2. FSM_state \in {0, 1}
    BY <1>4 DEF Still, InFlight, Launched
  <2>3. land_reads < LandReads
    BY <2>2, Constants DEF Counters
  <2>4. land_reads' = land_reads + 1 /\ land_reads' \in 0 .. LandReads
    BY <1>4, <2>3, Constants DEF Still, TypeOK
  <2>5. FSM_state' = (IF Landed(land_reads') THEN 2 ELSE 1)
    BY <1>4 DEF Still
  <2>6. FSM_state' \in {1, 2} /\ (FSM_state' = 1 => land_reads' < LandReads)
    BY <2>4, <2>5, Constants DEF Landed
  <2> QED
    BY <1>4, <2>1, <2>4, <2>6 DEF Still, TypeOK, Counters
<1> QED
  BY <1>1, <1>2, <1>3, <1>4 DEF Judge

LEMMA PacedType ==
  ASSUME TypeOK, NEW d \in Int, Paced(d)
  PROVE  slow' \in 0 .. SlowMoves
  BY Constants DEF Paced, TypeOK

LEMMA TypeStep ==
  ASSUME TypeOK, Counters, [Next]_vars
  PROVE  TypeOK' /\ Counters'
<1>0. Sites \subseteq Int /\ site \in Int
  BY Constants DEF TypeOK
<1>1. ASSUME World PROVE TypeOK' /\ Counters'
  <2>1. alt' \in Int /\ level' \in Int /\ slow' \in 0 .. SlowMoves
    <3>1. CASE Rest
      BY <3>1, Constants DEF Rest, TypeOK
    <3>2. CASE Climb
      <4>1. alt' \in Int /\ alt' - alt \in Int /\ level' \in Int
        BY <3>2, Constants DEF Climb, TypeOK
      <4> QED
        BY <3>2, <4>1, PacedType DEF Climb
    <3>3. CASE Fall
      <4>1. alt' \in Int /\ alt - alt' \in Int /\ level' \in Int
        BY <3>3, Constants DEF Fall, TypeOK
      <4> QED
        BY <3>3, <4>1, PacedType DEF Fall
    <3>4. CASE TouchDown
      BY <3>4 DEF TouchDown, TypeOK
    <3> QED
      BY <1>1, <3>1, <3>2, <3>3, <3>4 DEF World
  <2>2. Moved /\ phase' \in {"pad", "up", "down", "ground"}
    BY <1>1 DEF World, Rest, Climb, Fall, TouchDown
  <2>3. flown' \in BOOLEAN /\ due' \in BOOLEAN
    BY <2>2 DEF Moved
  <2>4. TypeOK'
    BY <2>1, <2>2, <2>3 DEF Moved, fsmVars, TypeOK
  <2>5. Counters'
    BY <2>2 DEF Moved, fsmVars, Counters
  <2> QED
    BY <2>4, <2>5
<1>2. ASSUME GoodReading PROVE TypeOK' /\ Counters'
  <2>1. Decode(alt) \in Int /\ Judge(Decode(alt))
    BY <1>2, DecodeType DEF GoodReading, TypeOK
  <2>2. baseline' \in Baselines
    BY <1>2 DEF GoodReading, TypeOK, Baselines
  <2>3. high' \in 0 .. LaunchReads
    BY <1>2, Constants DEF GoodReading, TypeOK
  <2>4. UNCHANGED <<worldVars, flown, errors, boots>> /\ due' = FALSE
    BY <1>2 DEF GoodReading
  <2> QED
    BY <2>1, <2>2, <2>3, <2>4, JudgeType DEF TypeOK, worldVars
<1>3. ASSUME FailedReading PROVE TypeOK' /\ Counters'
  <2>1. ErrorReading \in Int /\ Judge(ErrorReading)
    BY <1>3, ErrorReadingType DEF FailedReading
  <2>2. baseline' \in Baselines
    BY <1>3 DEF FailedReading, TypeOK, Baselines
  <2>3. high' \in 0 .. LaunchReads /\ errors' \in 0 .. MaxErrors
    BY <1>3, Constants DEF FailedReading, TypeOK
  <2>4. UNCHANGED <<worldVars, flown, boots>> /\ due' = FALSE
    BY <1>3 DEF FailedReading
  <2> QED
    BY <2>1, <2>2, <2>3, <2>4, JudgeType DEF TypeOK, worldVars
<1>4. ASSUME PowerLoss PROVE TypeOK' /\ Counters'
  <2>1. TypeOK'
    BY <1>4, Constants DEF PowerLoss, TypeOK, Baselines, worldVars
  <2>2. Counters'
    BY <1>4, Constants DEF PowerLoss, Counters
  <2> QED
    BY <2>1, <2>2
<1>5. ASSUME UNCHANGED vars PROVE TypeOK' /\ Counters'
  BY <1>5 DEF vars, fsmVars, worldVars, TypeOK, Counters
<1> QED
  BY <1>1, <1>2, <1>3, <1>4, <1>5 DEF Next, Reading

(* The types, for every value of the constants and every flight.           *)
THEOREM TypeCorrect == Spec => []TypeOK
<1>1. Init => TypeOK /\ Counters
  BY TypeInit
<1>2. (TypeOK /\ Counters) /\ [Next]_vars => (TypeOK /\ Counters)'
  BY TypeStep
<1> QED
  BY <1>1, <1>2, PTL DEF Spec
-----------------------------------------------------------------------------
(* What an ordinary flight says of the constants, product by product.      *)
LEMMA Ordinary ==
  ASSUME OrdinaryFlight
  PROVE  /\ (LaunchAlt - 1) * Unit \in Nat /\ Noise <= (LaunchAlt - 1) * Unit
         /\ LaunchAlt * Unit = (LaunchAlt - 1) * Unit + Unit
         /\ LandDelta * Unit \in Nat /\ Band \in Nat /\ Band + 1 = LandDelta * Unit
         /\ Band < LaunchAlt * Unit /\ Band < 999 * Unit
         /\ SlowMoves * MinSpeed + 3 * Band < LandReads * MinSpeed
         /\ LandReads * MinSpeed \in Nat /\ SlowMoves * MinSpeed \in Nat
<1>1. /\ Unit \in Nat \ {0} /\ LaunchAlt \in Nat \ {0} /\ LandDelta \in Nat \ {0}
      /\ LandReads \in Nat \ {0} /\ MinSpeed \in Nat \ {0} /\ Noise \in Nat
      /\ SlowMoves \in Nat
  BY Constants
<1>2. LandDelta <= LaunchAlt /\ LandDelta <= 999
  BY DEF OrdinaryFlight
<1>3. (LaunchAlt - 1) * Unit \in Nat
  BY <1>1
<1>4. LaunchAlt * Unit = (LaunchAlt - 1) * Unit + Unit
  BY <1>1
<1>5. LandDelta * Unit \in Nat /\ LandDelta * Unit >= 1
  <2>1. Unit * 0 + Unit <= Unit * LandDelta
    BY <1>1, MultiplesApart
  <2> QED
    BY <1>1, <2>1
<1>6. LandDelta * Unit <= LaunchAlt * Unit
  <2>1. LandDelta < LaunchAlt => Unit * LandDelta + Unit <= Unit * LaunchAlt
    BY <1>1, MultiplesApart
  <2> QED
    BY <1>1, <1>2, <2>1
<1>7. LandDelta * Unit <= 999 * Unit
  <2>1. LandDelta < 999 => Unit * LandDelta + Unit <= Unit * 999
    BY <1>1, MultiplesApart
  <2> QED
    BY <1>1, <1>2, <2>1
<1>8. Band \in Nat /\ Band + 1 = LandDelta * Unit
  BY <1>5 DEF Band
<1>9. LaunchAlt * Unit \in Int /\ 999 * Unit \in Int
  BY <1>1
<1>10. /\ SlowMoves * MinSpeed + 3 * Band < LandReads * MinSpeed
       /\ LandReads * MinSpeed \in Nat /\ SlowMoves * MinSpeed \in Nat
  BY <1>1, <1>5 DEF OrdinaryFlight, Band
<1>11. Noise <= (LaunchAlt - 1) * Unit
  BY DEF OrdinaryFlight
<1> QED
  BY <1>3, <1>4, <1>5, <1>6, <1>7, <1>8, <1>9, <1>10, <1>11

(* One more reading is one more MinSpeed.                                  *)
LEMMA OneMore ==
  ASSUME NEW n \in Nat
  PROVE  /\ n * MinSpeed \in Nat
         /\ (n + 1) * MinSpeed = n * MinSpeed + MinSpeed
  BY Constants

(* A move is of MinSpeed, or one of the slow ones.                         *)
LEMMA PacedMove ==
  ASSUME TypeOK, NEW d \in Nat, Paced(d)
  PROVE  /\ slow * MinSpeed \in Nat /\ slow' * MinSpeed \in Nat
         /\ slow * MinSpeed + MinSpeed <= slow' * MinSpeed + d
<1>1. slow \in Nat /\ MinSpeed \in Nat
  BY Constants DEF TypeOK
<1> DEFINE p == slow * MinSpeed
<1>2. p \in Nat /\ (slow + 1) * MinSpeed = p + MinSpeed
  BY <1>1, OneMore
<1>3. CASE d < MinSpeed
  <2>1. slow' * MinSpeed = p + MinSpeed
    BY <1>2, <1>3 DEF Paced
  <2> HIDE DEF p
  <2>2. p + MinSpeed \in Nat /\ p + MinSpeed <= p + MinSpeed + d
    BY <1>1, <1>2
  <2> QED
    BY <1>2, <2>1, <2>2 DEF p
<1>4. CASE ~(d < MinSpeed)
  <2>1. slow' * MinSpeed = p
    BY <1>4 DEF Paced
  <2> HIDE DEF p
  <2>2. p + MinSpeed <= p + d
    BY <1>1, <1>2, <1>4
  <2> QED
    BY <1>2, <2>1, <2>2 DEF p
<1> QED
  BY <1>3, <1>4

LEMMA SlowBound ==
  ASSUME TypeOK
  PROVE  /\ slow * MinSpeed \in Nat /\ SlowMoves * MinSpeed \in Nat
         /\ slow * MinSpeed <= SlowMoves * MinSpeed
<1>1. slow \in Nat /\ SlowMoves \in Nat /\ slow <= SlowMoves /\ MinSpeed \in Nat \ {0}
  BY Constants DEF TypeOK
<1>2. slow * MinSpeed \in Nat /\ SlowMoves * MinSpeed \in Nat
  BY <1>1, OneMore
<1>3. slow < SlowMoves => MinSpeed * slow + MinSpeed <= MinSpeed * SlowMoves
  BY <1>1, MultiplesApart
<1> QED
  BY <1>1, <1>2, <1>3

(* The board stays in the register's range, so it is read right.           *)
LEMMA InRange ==
  ASSUME OrdinaryFlight, TypeOK, Altitudes
  PROVE  site \in Nat /\ alt \in Nat /\ Decode(alt) = alt
<1>1. site \in Nat /\ site + MaxHeight + Noise < 65536 * Unit
  BY DEF OrdinaryFlight, TypeOK
<1>2. alt \in Nat /\ alt <= site + MaxHeight + Noise
  BY <1>1, Constants DEF Altitudes, InAir, TypeOK
<1>3. alt < 65536 * Unit
  BY <1>1, <1>2, Constants
<1> QED
  BY <1>1, <1>2, <1>3, DecodeExact

LEMMA NearIs ==
  ASSUME OrdinaryFlight, TypeOK, NEW r \in Int
  PROVE  Near(r) <=> land_alt - Band <= r /\ r <= land_alt + Band
<1>1. Band \in Nat /\ Band + 1 = LandDelta * Unit /\ LandDelta * Unit \in Nat
  BY Ordinary
<1>2. land_alt \in Int
  BY DEF TypeOK
<1> QED
  BY <1>1, <1>2 DEF Near, Magnitude

LEMMA AboveIs ==
  ASSUME TypeOK, NEW r \in Int
  PROVE  Above(r) <=> r - initial * Unit >= LaunchAlt * Unit
<1> DEFINE a == r - initial * Unit
<1>1. a \in Int
  BY Constants DEF TypeOK
<1> HIDE DEF a
<1>2. Trunc(a) >= LaunchAlt <=> a >= LaunchAlt * Unit
  BY <1>1, Constants, TruncReaches
<1> QED
  BY <1>2 DEF a, Above

(* A launch is seen only where the reading is above the threshold.         *)
LEMMA LaunchedAbove ==
  ASSUME TypeOK, NEW r \in Int, Launched(r)
  PROVE  FSM_state = 0 /\ r - initial * Unit >= LaunchAlt * Unit
<1>1. FSM_state = 0 /\ ReadsAbove(r) >= LaunchReads
  BY DEF Launched
<1>2. Above(r)
  BY <1>1, Constants DEF ReadsAbove
<1> QED
  BY <1>1, <1>2, AboveIs

-----------------------------------------------------------------------------
LEMMA InvInit ==
  ASSUME OrdinaryFlight, Init
  PROVE  IInv
<1>1. TypeOK /\ Counters
  BY TypeInit
<1>2. site \in Nat /\ level = site /\ alt = site /\ phase = "pad"
  BY <1>1 DEF Init, OrdinaryFlight, TypeOK
<1>3. Altitudes
  <2>1. (LaunchAlt - 1) * Unit \in Nat
    BY Ordinary
  <2> QED
    BY <1>2, <2>1, Constants DEF Altitudes, InAir
<1>4. /\ FSM_state = 0 /\ initial = 0 /\ baseline = "none" /\ flown = FALSE /\ high = 0
  BY DEF Init
<1>5. BaselineRight /\ HighCounted
  BY <1>4 DEF BaselineRight, GoodBaseline, HighCounted
<1>6. Left /\ Passing /\ LaunchIsReal /\ LandingIsReal
  BY <1>4 DEF Left, Passing, LaunchIsReal, LandingIsReal
<1> QED
  BY <1>1, <1>3, <1>5, <1>6 DEF IInv

(* What a step of the world leaves alone.                                  *)
LEMMA MovedKeeps ==
  ASSUME IInv, Moved
  PROVE  BaselineRight' /\ HighCounted' /\ LaunchIsReal'
<1>1. UNCHANGED <<FSM_state, initial, launch_reads, baseline, high, site>>
      /\ (flown => flown')
  BY DEF Moved, fsmVars
<1>2. BaselineRight'
  BY <1>1 DEF IInv, BaselineRight, GoodBaseline
<1>3. HighCounted'
  BY <1>1 DEF IInv, HighCounted
<1>4. LaunchIsReal'
  BY <1>1 DEF IInv, LaunchIsReal
<1> QED
  BY <1>2, <1>3, <1>4

(* A flight that is seen, from a good baseline, has left the pad.          *)
LEMMA SeenHasLeft ==
  ASSUME IInv, FSM_state # 0, GoodBaseline
  PROVE  flown /\ phase # "pad"
<1>1. flown
  BY DEF IInv, LaunchIsReal, GoodBaseline
<1> QED
  BY <1>1 DEF IInv, Left
LEMMA InvRest ==
  ASSUME OrdinaryFlight, IInv, Rest
  PROVE  Altitudes' /\ Left' /\ Passing' /\ LandingIsReal'
<1>0. TypeOK /\ Altitudes /\ Left /\ LandingIsReal
  BY DEF IInv
<1>1. /\ phase \in {"pad", "ground"} /\ alt' \in level .. level + Noise
      /\ UNCHANGED <<phase, level, site, baseline, FSM_state>>
      /\ flown' = (flown \/ alt' > site + (LaunchAlt - 1) * Unit)
  BY DEF Rest, Moved, fsmVars
<1>2. site \in Nat /\ level \in Int /\ alt' \in Int
  BY <1>0, <1>1, InRange, Constants DEF TypeOK
<1>3. (LaunchAlt - 1) * Unit \in Nat /\ Noise <= (LaunchAlt - 1) * Unit
  BY Ordinary
<1>4. Altitudes'
  <2>1. alt' > site' + (LaunchAlt - 1) * Unit => flown'
    BY <1>0, <1>1, Zenon DEF Altitudes
  <2>2. /\ site' <= level' /\ level' <= site' + MaxHeight /\ site' <= alt'
        /\ InAir' => alt' <= site' + MaxHeight
        /\ ~InAir' => alt' <= level' + Noise
        /\ phase' = "pad" => level' = site'
    BY <1>0, <1>1, <1>2, Constants DEF Altitudes, InAir
  <2> QED
    BY <2>1, <2>2 DEF Altitudes
<1>5. Left'
  <2>1. phase = "pad" => ~(alt' > site + (LaunchAlt - 1) * Unit)
    BY <1>0, <1>1, <1>2, <1>3, Constants DEF Altitudes
  <2> QED
    BY <1>0, <1>1, <2>1 DEF Left
<1>6. Passing' /\ LandingIsReal'
  BY <1>0, <1>1 DEF Passing, InAir, LandingIsReal
<1> QED
  BY <1>4, <1>5, <1>6

LEMMA InvClimb ==
  ASSUME OrdinaryFlight, IInv, Climb
  PROVE  Altitudes' /\ Left' /\ Passing' /\ LandingIsReal'
<1>0. TypeOK /\ Altitudes /\ Passing /\ LandingIsReal
  BY DEF IInv
<1>1. /\ phase \in {"pad", "up"} /\ phase' = "up"
      /\ alt' \in alt .. alt + Speed /\ alt' <= site + MaxHeight
      /\ Paced(alt' - alt)
      /\ ~due /\ due' = TRUE
      /\ UNCHANGED <<level, site, baseline, FSM_state, land_reads, land_alt, errors>>
      /\ flown' = (flown \/ alt' > site + (LaunchAlt - 1) * Unit)
  BY DEF Climb, Moved, fsmVars
<1>2. /\ site \in Nat /\ level \in Int /\ alt \in Nat
      /\ alt' \in Int /\ alt' >= alt /\ MinSpeed \in Nat
  BY <1>0, <1>1, InRange, Constants DEF TypeOK
<1>3. /\ slow * MinSpeed \in Nat /\ slow' * MinSpeed \in Nat
      /\ slow * MinSpeed + MinSpeed <= slow' * MinSpeed + (alt' - alt)
  <2>1. alt' - alt \in Nat
    <3> DEFINE b == alt'
    <3>1. b \in Int /\ b >= alt
      BY <1>2
    <3> HIDE DEF b
    <3>2. b - alt \in Nat
      BY <1>2, <3>1
    <3> QED
      BY <3>2 DEF b
  <2> QED
    BY <1>0, <1>1, <2>1, PacedMove
<1>4. Altitudes'
  <2>1. alt' > site' + (LaunchAlt - 1) * Unit => flown'
    BY <1>0, <1>1, Zenon DEF Altitudes
  <2>2. /\ site' <= level' /\ level' <= site' + MaxHeight /\ site' <= alt'
        /\ InAir' => alt' <= site' + MaxHeight
        /\ ~InAir' => alt' <= level' + Noise
        /\ phase' = "pad" => level' = site'
    BY <1>0, <1>1, <1>2, Constants DEF Altitudes, InAir
  <2> QED
    BY <2>1, <2>2 DEF Altitudes
<1>5. Left' /\ LandingIsReal'
  BY <1>0, <1>1 DEF Left, LandingIsReal
<1>6. Passing'
  <2> SUFFICES ASSUME FSM_state = 1, GoodBaseline
               PROVE  \/ land_alt = ErrorReading /\ land_reads < errors
                      \/ /\ land_alt >= 0
                         /\ (land_reads + 1) * MinSpeed <= slow' * MinSpeed + alt' - land_alt
    BY <1>1 DEF Passing, InAir, GoodBaseline, Since, ErrorReading, Band
  <2>1. phase = "up"
    BY <1>1, SeenHasLeft
  <2>2. CASE land_alt = ErrorReading /\ land_reads < errors
    BY <2>2
  <2>3. CASE land_alt >= 0 /\ land_reads * MinSpeed <= slow * MinSpeed + alt - land_alt
    <3>1. land_reads \in Nat /\ land_alt \in Int
      BY <1>0, Constants DEF TypeOK
    <3>2. /\ land_reads * MinSpeed \in Nat
          /\ (land_reads + 1) * MinSpeed = land_reads * MinSpeed + MinSpeed
      BY <3>1, OneMore
    <3> DEFINE p == land_reads * MinSpeed
               s == slow * MinSpeed
               t == slow' * MinSpeed
               b == alt'
    <3>3. p \in Nat /\ p <= s + alt - land_alt
      BY <2>3, <3>2
    <3>4. /\ b \in Int /\ alt \in Int /\ MinSpeed \in Int /\ land_alt \in Int
          /\ s \in Nat /\ t \in Nat /\ s + MinSpeed <= t + (b - alt)
      BY <1>2, <1>3, <3>1
    <3> HIDE DEF p, s, t, b
    <3>5. p + MinSpeed <= t + b - land_alt
      BY <3>3, <3>4
    <3> QED
      BY <2>3, <3>2, <3>5 DEF p, t, b
  <2> QED
    BY <1>0, <1>1, <2>1, <2>2, <2>3 DEF Passing, InAir, Since
<1> QED
  BY <1>4, <1>5, <1>6

LEMMA InvFall ==
  ASSUME OrdinaryFlight, IInv, Fall
  PROVE  Altitudes' /\ Left' /\ Passing' /\ LandingIsReal'
<1>0. TypeOK /\ Altitudes /\ Passing /\ LandingIsReal
  BY DEF IInv
<1>1. /\ phase \in {"up", "down"} /\ phase' = "down"
      /\ alt' \in alt - Speed .. alt /\ alt' >= site
      /\ Paced(alt - alt')
      /\ ~due /\ due' = TRUE
      /\ UNCHANGED <<level, site, baseline, FSM_state, land_reads, land_alt, errors>>
      /\ flown' = (flown \/ alt' > site + (LaunchAlt - 1) * Unit)
  BY DEF Fall, Moved, fsmVars
<1>2. /\ site \in Nat /\ level \in Int /\ alt \in Nat
      /\ alt' \in Int /\ alt' <= alt /\ MinSpeed \in Nat
  BY <1>0, <1>1, InRange, Constants DEF TypeOK
<1>3. /\ slow * MinSpeed \in Nat /\ slow' * MinSpeed \in Nat
      /\ slow * MinSpeed + MinSpeed <= slow' * MinSpeed + (alt - alt')
  <2>1. alt - alt' \in Nat
    <3> DEFINE b == alt'
    <3>1. b \in Int /\ b <= alt
      BY <1>2
    <3> HIDE DEF b
    <3>2. alt - b \in Nat
      BY <1>2, <3>1
    <3> QED
      BY <3>2 DEF b
  <2> QED
    BY <1>0, <1>1, <2>1, PacedMove
<1>4. Altitudes'
  <2>1. alt' > site' + (LaunchAlt - 1) * Unit => flown'
    BY <1>0, <1>1, Zenon DEF Altitudes
  <2>2. /\ site' <= level' /\ level' <= site' + MaxHeight /\ site' <= alt'
        /\ InAir' => alt' <= site' + MaxHeight
        /\ ~InAir' => alt' <= level' + Noise
        /\ phase' = "pad" => level' = site'
    BY <1>0, <1>1, <1>2, Constants DEF Altitudes, InAir
  <2> QED
    BY <2>1, <2>2 DEF Altitudes
<1>5. Left' /\ LandingIsReal'
  BY <1>0, <1>1 DEF Left, LandingIsReal
<1>6. Passing'
  <2> SUFFICES ASSUME FSM_state = 1, GoodBaseline
               PROVE  \/ land_alt = ErrorReading /\ land_reads < errors
                      \/ /\ land_alt >= 0
                         /\ (land_reads + 1) * MinSpeed
                              <= slow' * MinSpeed + 2 * Band + land_alt - alt'
    BY <1>1 DEF Passing, InAir, GoodBaseline, Since, ErrorReading, Band
  <2>2. CASE land_alt = ErrorReading /\ land_reads < errors
    BY <2>2
  <2>3. CASE /\ land_alt >= 0
             /\ alt <= land_alt + Band
             /\ \/ land_reads * MinSpeed <= slow * MinSpeed + alt - land_alt
                \/ land_reads * MinSpeed <= slow * MinSpeed + 2 * Band + land_alt - alt
    <3>1. land_reads \in Nat /\ land_alt \in Int /\ Band \in Nat
      BY <1>0, Constants, Ordinary DEF TypeOK
    <3>2. /\ land_reads * MinSpeed \in Nat
          /\ (land_reads + 1) * MinSpeed = land_reads * MinSpeed + MinSpeed
      BY <3>1, OneMore
    <3> DEFINE p == land_reads * MinSpeed
               s == slow * MinSpeed
               t == slow' * MinSpeed
               b == alt'
    <3>3. /\ p \in Nat /\ alt <= land_alt + Band
          /\ p <= s + alt - land_alt \/ p <= s + 2 * Band + land_alt - alt
      BY <2>3, <3>2
    <3>4. /\ b \in Int /\ alt \in Int /\ MinSpeed \in Int /\ land_alt \in Int
          /\ Band \in Int /\ s \in Nat /\ t \in Nat /\ s + MinSpeed <= t + (alt - b)
      BY <1>2, <1>3, <3>1
    <3> HIDE DEF p, s, t, b
    <3>5. p + MinSpeed <= t + 2 * Band + land_alt - b
      BY <3>3, <3>4
    <3> QED
      BY <2>3, <3>2, <3>5 DEF p, t, b
  <2> QED
    BY <1>0, <1>1, <2>2, <2>3 DEF Passing, InAir, Since
<1> QED
  BY <1>4, <1>5, <1>6

LEMMA InvTouchDown ==
  ASSUME OrdinaryFlight, IInv, TouchDown
  PROVE  Altitudes' /\ Left' /\ Passing' /\ LandingIsReal'
<1>0. TypeOK /\ Altitudes
  BY DEF IInv
<1>1. /\ phase = "down" /\ phase' = "ground" /\ level' = alt /\ alt' = alt
      /\ UNCHANGED site
      /\ flown' = (flown \/ alt' > site + (LaunchAlt - 1) * Unit)
  BY DEF TouchDown, Moved
<1>2. site \in Nat /\ alt \in Nat
  BY <1>0, InRange
<1>3. Altitudes'
  <2>1. alt' > site' + (LaunchAlt - 1) * Unit => flown'
    BY <1>0, <1>1, Zenon DEF Altitudes
  <2>2. /\ site' <= level' /\ level' <= site' + MaxHeight /\ site' <= alt'
        /\ InAir' => alt' <= site' + MaxHeight
        /\ ~InAir' => alt' <= level' + Noise
        /\ phase' = "pad" => level' = site'
    BY <1>0, <1>1, <1>2, Constants DEF Altitudes, InAir
  <2> QED
    BY <2>1, <2>2 DEF Altitudes
<1>4. Left' /\ Passing' /\ LandingIsReal'
  BY <1>1 DEF Left, Passing, InAir, LandingIsReal
<1> QED
  BY <1>3, <1>4

LEMMA InvWorld ==
  ASSUME OrdinaryFlight, IInv, World
  PROVE  IInv'
<1>1. Moved
  BY DEF World, Rest, Climb, Fall, TouchDown
<1>2. TypeOK' /\ Counters'
  BY TypeStep DEF IInv, Next
<1>3. Altitudes' /\ Left' /\ Passing' /\ LandingIsReal'
  BY InvRest, InvClimb, InvFall, InvTouchDown DEF World
<1> QED
  BY <1>1, <1>2, <1>3, MovedKeeps DEF IInv
-----------------------------------------------------------------------------
(* A good baseline is set.                                                 *)
LEMMA BaselineSet ==
  ASSUME OrdinaryFlight, IInv, GoodBaseline
  PROVE  /\ initial \in Nat /\ initial >= 1 /\ initial * Unit \in Nat
         /\ initial * Unit >= Unit /\ initial * Unit > site - Unit
<1>1. initial \in Int /\ initial >= 1 /\ initial * Unit > site - Unit
  BY DEF IInv, TypeOK, BaselineRight
<1>2. Unit \in Nat \ {0}
  BY Constants
<1>3. Unit * 0 + Unit <= Unit * initial
  BY <1>1, <1>2, MultiplesApart
<1> QED
  BY <1>1, <1>2, <1>3

(* A launch seen in a good reading is real, and is no landing yet.         *)
LEMMA LaunchSeen ==
  ASSUME OrdinaryFlight, IInv, GoodBaseline, Launched(alt)
  PROVE  flown /\ ~Near(alt)
<1>0. TypeOK /\ Altitudes /\ Counters
  BY DEF IInv
<1>1. site \in Nat /\ alt \in Nat
  BY <1>0, InRange
<1> DEFINE p == initial * Unit
           h == LaunchAlt * Unit
           t == (LaunchAlt - 1) * Unit
<1>2. FSM_state = 0 /\ alt - p >= h
  BY <1>0, <1>1, LaunchedAbove
<1>3. /\ p \in Nat /\ p >= Unit /\ p > site - Unit
  BY BaselineSet
<1>4. /\ t \in Nat /\ h = t + Unit /\ Band \in Nat /\ Band < h /\ Unit \in Nat
  BY Ordinary, Constants
<1>5. alt > site + t => flown
  BY <1>0 DEF Altitudes
<1>6. land_alt = 0
  BY <1>0, <1>2 DEF Counters
<1> HIDE DEF p, h, t
<1>7. alt > site + t /\ alt > Band
  BY <1>1, <1>2, <1>3, <1>4
<1>8. ~(alt <= land_alt + Band)
  BY <1>1, <1>4, <1>6, <1>7
<1>9. ~Near(alt)
  BY <1>0, <1>1, <1>8, NearIs
<1> QED
  BY <1>5, <1>7, <1>9

(* A failed reading is below every good baseline.                          *)
LEMMA FailedNotAbove ==
  ASSUME OrdinaryFlight, IInv, GoodBaseline
  PROVE  ~Launched(ErrorReading)
<1> SUFFICES ASSUME Launched(ErrorReading) PROVE FALSE
  OBVIOUS
<1> DEFINE p == initial * Unit
           h == LaunchAlt * Unit
<1>1. ErrorReading \in Int /\ ErrorReading < 0
  BY ErrorReadingType
<1>2. ErrorReading - p >= h
  BY <1>1, LaunchedAbove DEF IInv
<1>3. p \in Nat /\ h \in Int /\ h > 0
  BY BaselineSet, Ordinary, Constants
<1> HIDE DEF p, h
<1> QED
  BY <1>1, <1>2, <1>3

(* What the reading leaves of the altitudes of the world.                  *)
LEMMA WorldKept ==
  ASSUME IInv, UNCHANGED <<worldVars, flown>>
  PROVE  Altitudes' /\ Left'
  BY DEF IInv, worldVars, Altitudes, InAir, Left

(* The first reading.                                                      *)
LEMMA InvTakeGood ==
  ASSUME OrdinaryFlight, IInv, GoodReading, TakeBaseline(alt)
  PROVE  BaselineRight' /\ HighCounted' /\ Passing' /\ LaunchIsReal' /\ LandingIsReal'
<1>0. TypeOK /\ Altitudes /\ BaselineRight
  BY DEF IInv
<1>1. initial = 0 /\ initial' = Trunc(alt) /\ UNCHANGED <<FSM_state, launch_reads, site>>
  BY DEF TakeBaseline, GoodReading, worldVars
<1>2. FSM_state = 0 /\ baseline = "none"
  BY <1>0, <1>1 DEF TypeOK, BaselineRight
<1>3. baseline' = IF initial' = 0 THEN "none" ELSE IF phase = "pad" THEN "pad" ELSE "later"
  BY <1>1, <1>2 DEF GoodReading
<1>4. alt \in Nat /\ site \in Nat /\ site <= alt /\ (phase = "pad" => alt <= site + Noise)
  BY <1>0, InRange DEF Altitudes, InAir
<1>5. initial' \in Nat /\ initial' * Unit <= alt /\ alt < initial' * Unit + Unit
  BY <1>1, <1>4, TruncNat
<1>6. BaselineRight'
  <2>1. baseline' = "none" <=> initial' = 0
    BY <1>3
  <2>2. GoodBaseline' => initial' >= 1
    BY <1>3, <1>5 DEF GoodBaseline
  <2> DEFINE q == initial' * Unit
  <2>3. q <= alt /\ alt < q + Unit /\ q \in Int /\ Unit \in Nat
    BY <1>5, Constants
  <2> HIDE DEF q
  <2>4. q > site - Unit /\ (phase = "pad" => q <= site + Noise)
    BY <1>4, <2>3, Constants
  <2>5. site' = site /\ (baseline' = "pad" => phase = "pad")
    BY <1>1, <1>3
  <2> QED
    BY <2>1, <2>2, <2>4, <2>5 DEF BaselineRight, q
<1>7. HighCounted'
  <2>1. baseline' = "pad" => high' = 0
    BY <1>3 DEF GoodReading
  <2>2. launch_reads' >= 0
    BY <1>0, <1>1, Constants DEF TypeOK
  <2> QED
    BY <2>1, <2>2 DEF HighCounted
<1>8. Passing' /\ LaunchIsReal' /\ LandingIsReal'
  BY <1>1, <1>2 DEF Passing, LaunchIsReal, LandingIsReal
<1> QED
  BY <1>6, <1>7, <1>8

(* A reading that shows the threshold reached is above it for the board.   *)
LEMMA HighIsCounted ==
  ASSUME OrdinaryFlight, IInv, GoodReading, baseline' = baseline,
         launch_reads' = ReadsAbove(alt)
  PROVE  HighCounted'
<1>0. TypeOK /\ Altitudes /\ BaselineRight /\ HighCounted
  BY DEF IInv
<1> SUFFICES ASSUME baseline = "pad" PROVE high' <= launch_reads'
  BY DEF HighCounted
<1>1. launch_reads \in Nat /\ high \in Nat /\ high <= launch_reads /\ high <= LaunchReads
      /\ LaunchReads \in Nat
  BY <1>0, Constants DEF TypeOK, HighCounted
<1>2. CASE alt >= site + Noise + LaunchAlt * Unit
  <2> DEFINE p == initial * Unit
             h == LaunchAlt * Unit
  <2>1. p <= site + Noise /\ p \in Int /\ h \in Int
    BY <1>0, Constants DEF BaselineRight, TypeOK
  <2>2. alt \in Nat /\ site \in Nat /\ alt >= site + Noise + h
    BY <1>0, <1>2, InRange
  <2>3. Above(alt) <=> alt - p >= h
    BY <1>0, <2>2, AboveIs
  <2> HIDE DEF p, h
  <2>4. Above(alt)
    BY <2>1, <2>2, <2>3, Constants
  <2>5. launch_reads' = IF launch_reads < LaunchReads THEN launch_reads + 1 ELSE LaunchReads
    BY <2>4 DEF ReadsAbove
  <2>6. high' \in {0, IF high < LaunchReads THEN high + 1 ELSE high}
    BY DEF GoodReading
  <2> QED
    BY <1>1, <2>5, <2>6
<1>3. CASE ~(alt >= site + Noise + LaunchAlt * Unit)
  <2>1. high' = 0
    BY <1>3 DEF GoodReading
  <2>2. ReadsAbove(alt) \in Nat
    BY <1>0, InRange, ReadsAboveType, Constants
  <2> QED
    BY <2>1, <2>2
<1> QED
  BY <1>2, <1>3
(* Near its reference the board in flight cannot stay until it "lands".    *)
LEMMA PassesOn ==
  ASSUME OrdinaryFlight, IInv, due, FSM_state = 1, GoodBaseline, InAir, Near(alt)
  PROVE  /\ land_alt >= 0 /\ land_alt - Band <= alt /\ alt <= land_alt + Band
         /\ phase = "up" => (land_reads + 1) * MinSpeed <= slow * MinSpeed + alt - land_alt
         /\ phase = "down" => (land_reads + 1) * MinSpeed
                                <= slow * MinSpeed + 2 * Band + land_alt - alt
         /\ land_reads + 1 < LandReads
<1>0. TypeOK /\ Altitudes /\ Passing
  BY DEF IInv
<1>1. alt \in Nat /\ land_alt \in Int /\ land_reads \in Nat
      /\ phase \in {"up", "down"} /\ Since = land_reads + 1
  BY <1>0, InRange, Constants DEF TypeOK, InAir, Since
<1>2. land_alt - Band <= alt /\ alt <= land_alt + Band
  BY <1>0, <1>1, NearIs
<1>3. land_alt # ErrorReading
  <2> SUFFICES ASSUME land_alt = ErrorReading PROVE FALSE
    OBVIOUS
  <2> DEFINE e == 999 * Unit
  <2>1. e \in Nat /\ Band < e /\ land_alt = -e /\ Band \in Nat
    BY Ordinary, Constants DEF ErrorReading
  <2> HIDE DEF e
  <2> QED
    BY <1>1, <1>2, <2>1
<1>4. /\ land_alt >= 0
      /\ phase = "up" => (land_reads + 1) * MinSpeed <= slow * MinSpeed + alt - land_alt
      /\ phase = "down" => (land_reads + 1) * MinSpeed
                             <= slow * MinSpeed + 2 * Band + land_alt - alt
  BY <1>0, <1>1, <1>3 DEF Passing
<1>5. land_reads + 1 < LandReads
  <2> DEFINE n == land_reads + 1
             p == n * MinSpeed
             l == LandReads * MinSpeed
             s == slow * MinSpeed
             m == SlowMoves * MinSpeed
  <2>1. /\ n \in Nat /\ p \in Nat /\ l \in Nat /\ Band \in Nat
        /\ s \in Nat /\ m \in Nat /\ s <= m /\ m + 3 * Band < l
    BY <1>0, <1>1, OneMore, Ordinary, SlowBound
  <2>2. p <= s + alt - land_alt \/ p <= s + 2 * Band + land_alt - alt
    BY <1>1, <1>4
  <2>3. LandReads < n => MinSpeed * LandReads + MinSpeed <= MinSpeed * n
    BY <2>1, Constants, MultiplesApart
  <2>4. LandReads < n => l + MinSpeed <= p
    BY <2>1, <2>3, Constants
  <2>5. LandReads = n => l = p
    OBVIOUS
  <2>6. n \in Nat /\ LandReads \in Nat /\ MinSpeed \in Nat
    BY <2>1, Constants
  <2> HIDE DEF n, p, l, s, m
  <2>7. p <= m + 3 * Band
    BY <1>1, <1>2, <2>1, <2>2
  <2>8. n < LandReads
    BY <2>1, <2>4, <2>5, <2>6, <2>7
  <2> QED
    BY <2>8 DEF n
<1> QED
  BY <1>2, <1>4, <1>5

LEMMA InvMovingGood ==
  ASSUME OrdinaryFlight, IInv, GoodReading, Moving(alt)
  PROVE  Passing' /\ LaunchIsReal' /\ LandingIsReal'
<1>0. TypeOK /\ Altitudes
  BY DEF IInv
<1>1. /\ FSM_state' = 1 /\ land_reads' = 0 /\ land_alt' = alt /\ initial # 0
      /\ due' = FALSE /\ UNCHANGED <<phase, alt, slow, flown>> /\ baseline' = baseline
  BY DEF Moving, Reference, GoodReading, worldVars
<1>2. Passing'
  <2>1. alt \in Nat /\ Band \in Nat
    BY <1>0, InRange, Ordinary
  <2>2. Since' = 0 /\ 0 * MinSpeed = 0
    BY <1>1, Constants DEF Since
  <2>3. /\ alt - Band <= alt /\ alt <= alt + Band /\ alt >= 0
        /\ 0 <= slow * MinSpeed + alt - alt
        /\ 0 <= slow * MinSpeed + 2 * Band + alt - alt
    <3> DEFINE t == slow * MinSpeed
    <3>1. t \in Nat
      BY <1>0, SlowBound
    <3> HIDE DEF t
    <3>2. 0 <= t + alt - alt /\ 0 <= t + 2 * Band + alt - alt
      BY <2>1, <3>1
    <3> QED
      BY <2>1, <3>2 DEF t
  <2>4. /\ land_alt' >= 0
        /\ land_alt' - Band <= alt' /\ alt' <= land_alt' + Band
        /\ Since' * MinSpeed <= slow' * MinSpeed + alt' - land_alt'
        /\ Since' * MinSpeed <= slow' * MinSpeed + 2 * Band + land_alt' - alt'
    BY <1>1, <2>2, <2>3
  <2> QED
    BY <2>4 DEF Passing, Band
<1>3. LaunchIsReal'
  <2> SUFFICES ASSUME baseline # "failed" PROVE flown
    BY <1>1 DEF LaunchIsReal
  <2>1. GoodBaseline
    BY <1>0, <1>1 DEF IInv, TypeOK, Baselines, BaselineRight, GoodBaseline
  <2> QED
    BY <2>1, LaunchSeen, SeenHasLeft DEF Moving, InFlight
<1>4. LandingIsReal'
  BY <1>1 DEF LandingIsReal
<1> QED
  BY <1>2, <1>3, <1>4

LEMMA InvStillGood ==
  ASSUME OrdinaryFlight, IInv, GoodReading, Still(alt)
  PROVE  Passing' /\ LaunchIsReal' /\ LandingIsReal'
<1>0. TypeOK
  BY DEF IInv
<1>1. /\ land_reads' = land_reads + 1 /\ land_alt' = land_alt /\ initial # 0
      /\ due /\ due' = FALSE /\ UNCHANGED <<phase, alt, slow, flown>>
      /\ baseline' = baseline
      /\ Near(alt) /\ (FSM_state = 1 \/ Launched(alt))
      /\ FSM_state' = IF Landed(land_reads') THEN 2 ELSE 1
  BY DEF Still, InFlight, GoodReading, worldVars
<1>2. CASE baseline = "failed"
  BY <1>1, <1>2 DEF Passing, GoodBaseline, LaunchIsReal, LandingIsReal
<1>3. CASE baseline # "failed"
  <2>1. GoodBaseline
    BY <1>0, <1>1, <1>3 DEF IInv, TypeOK, Baselines, BaselineRight, GoodBaseline
  <2>2. FSM_state = 1
    BY <1>1, <2>1, LaunchSeen
  <2>3. flown /\ phase # "pad"
    BY <2>1, <2>2, SeenHasLeft
  <2>4. LaunchIsReal'
    BY <1>1, <2>3 DEF LaunchIsReal
  <2>5. CASE InAir
    <3>1. /\ land_alt >= 0 /\ land_alt - Band <= alt /\ alt <= land_alt + Band
          /\ phase = "up" => (land_reads + 1) * MinSpeed <= slow * MinSpeed + alt - land_alt
          /\ phase = "down" => (land_reads + 1) * MinSpeed
                                 <= slow * MinSpeed + 2 * Band + land_alt - alt
          /\ land_reads + 1 < LandReads
      BY <1>1, <2>1, <2>2, <2>5, PassesOn
    <3>2. Since' = land_reads + 1
      BY <1>1 DEF Since
    <3>3. Passing'
      BY <1>1, <3>1, <3>2 DEF Passing, Band
    <3>4. land_reads + 1 \in Nat /\ LandReads \in Nat
      BY <1>0, Constants DEF TypeOK
    <3>5. ~Landed(land_reads')
      BY <1>1, <3>1, <3>4 DEF Landed
    <3> QED
      BY <1>1, <2>4, <3>3, <3>5 DEF LandingIsReal
  <2>6. CASE ~InAir
    <3>1. phase = "ground"
      BY <1>0, <2>3, <2>6 DEF TypeOK, InAir
    <3> QED
      BY <1>1, <2>4, <3>1 DEF Passing, InAir, LandingIsReal
  <2> QED
    BY <2>5, <2>6
<1> QED
  BY <1>2, <1>3

LEMMA InvGoodReading ==
  ASSUME OrdinaryFlight, IInv, GoodReading
  PROVE  IInv'
<1>1. TypeOK' /\ Counters'
  BY TypeStep DEF IInv, Next, Reading
<1>2. Altitudes' /\ Left'
  BY WorldKept DEF GoodReading
<1>3. Judge(alt)
  BY InRange DEF GoodReading, IInv
<1>4. CASE TakeBaseline(alt)
  BY <1>1, <1>2, <1>4, InvTakeGood DEF IInv
<1>5. CASE ~TakeBaseline(alt)
  <2>1. NotInFlight(alt) \/ Moving(alt) \/ Still(alt)
    BY <1>3, <1>5 DEF Judge
  <2>2. /\ initial # 0 /\ initial' = initial /\ baseline' = baseline
        /\ launch_reads' = ReadsAbove(alt) /\ UNCHANGED <<worldVars, flown>>
    BY <2>1 DEF NotInFlight, Moving, Still, GoodReading
  <2>3. BaselineRight'
    BY <2>2 DEF IInv, BaselineRight, GoodBaseline, worldVars
  <2>4. HighCounted'
    BY <2>2, HighIsCounted
  <2>5. CASE NotInFlight(alt)
    <3>1. FSM_state' = FSM_state /\ FSM_state # 1
      BY <2>5 DEF NotInFlight, InFlight
    <3>2. Passing' /\ LaunchIsReal' /\ LandingIsReal'
      BY <2>2, <3>1 DEF IInv, Passing, LaunchIsReal, LandingIsReal, worldVars
    <3> QED
      BY <1>1, <1>2, <2>3, <2>4, <3>2 DEF IInv
  <2>6. CASE Moving(alt)
    BY <1>1, <1>2, <2>3, <2>4, <2>6, InvMovingGood DEF IInv
  <2>7. CASE Still(alt)
    BY <1>1, <1>2, <2>3, <2>4, <2>7, InvStillGood DEF IInv
  <2> QED
    BY <2>1, <2>5, <2>6, <2>7
<1> QED
  BY <1>4, <1>5
(* A failed reading taken as the baseline.                                 *)
LEMMA InvTakeFailed ==
  ASSUME OrdinaryFlight, IInv, FailedReading, TakeBaseline(ErrorReading)
  PROVE  BaselineRight' /\ HighCounted' /\ Passing' /\ LaunchIsReal' /\ LandingIsReal'
<1>1. initial = 0 /\ initial' = Trunc(ErrorReading) /\ FSM_state' = FSM_state
      /\ baseline' = "failed"
  BY DEF TakeBaseline, FailedReading
<1>2. Trunc(ErrorReading) # 0
  <2> DEFINE e == 999 * Unit
  <2>1. e \in Nat /\ e > 0 /\ ErrorReading = -e
    BY Constants DEF ErrorReading
  <2>2. Trunc(e) >= 999
    BY Constants, TruncReaches
  <2> HIDE DEF e
  <2>3. Trunc(e) = e \div Unit /\ Trunc(-e) = -(e \div Unit) /\ e \div Unit \in Int
    BY <2>1, Constants, ModDef DEF Trunc
  <2> QED
    BY <2>1, <2>2, <2>3
<1>3. BaselineRight' /\ HighCounted'
  BY <1>1, <1>2 DEF BaselineRight, GoodBaseline, HighCounted
<1>4. Passing' /\ LaunchIsReal' /\ LandingIsReal'
  BY <1>1 DEF Passing, GoodBaseline, LaunchIsReal, LandingIsReal
<1> QED
  BY <1>3, <1>4

LEMMA InvMovingFailed ==
  ASSUME OrdinaryFlight, IInv, FailedReading, Moving(ErrorReading)
  PROVE  Passing' /\ LaunchIsReal' /\ LandingIsReal'
<1>0. TypeOK
  BY DEF IInv
<1>1. /\ FSM_state' = 1 /\ land_reads' = 0 /\ land_alt' = ErrorReading /\ initial # 0
      /\ UNCHANGED <<phase, flown>> /\ baseline' = baseline /\ errors' = errors + 1
      /\ (FSM_state = 1 \/ Launched(ErrorReading))
  BY DEF Moving, InFlight, Reference, FailedReading, worldVars
<1>2. Passing'
  <2>1. errors' > 0
    BY <1>0, <1>1, Constants DEF TypeOK
  <2> QED
    BY <1>1, <2>1 DEF Passing, ErrorReading
<1>3. LaunchIsReal'
  <2> SUFFICES ASSUME baseline # "failed" PROVE flown
    BY <1>1 DEF LaunchIsReal
  <2>1. GoodBaseline
    BY <1>0, <1>1 DEF IInv, TypeOK, Baselines, BaselineRight, GoodBaseline
  <2> QED
    BY <1>1, <2>1, FailedNotAbove, SeenHasLeft
<1>4. LandingIsReal'
  BY <1>1 DEF LandingIsReal
<1> QED
  BY <1>2, <1>3, <1>4

LEMMA InvStillFailed ==
  ASSUME OrdinaryFlight, IInv, FailedReading, Still(ErrorReading)
  PROVE  Passing' /\ LaunchIsReal' /\ LandingIsReal'
<1>0. TypeOK /\ Passing
  BY DEF IInv
<1>1. /\ land_reads' = land_reads + 1 /\ land_alt' = land_alt /\ initial # 0
      /\ UNCHANGED <<phase, flown>> /\ baseline' = baseline /\ errors' = errors + 1
      /\ errors < MaxErrors
      /\ Near(ErrorReading) /\ (FSM_state = 1 \/ Launched(ErrorReading))
      /\ FSM_state' = IF Landed(land_reads') THEN 2 ELSE 1
  BY DEF Still, InFlight, FailedReading, worldVars
<1>2. CASE baseline = "failed"
  BY <1>1, <1>2 DEF Passing, GoodBaseline, LaunchIsReal, LandingIsReal
<1>3. CASE baseline # "failed"
  <2>1. GoodBaseline
    BY <1>0, <1>1, <1>3 DEF IInv, TypeOK, Baselines, BaselineRight, GoodBaseline
  <2>2. FSM_state = 1
    BY <1>1, <2>1, FailedNotAbove
  <2>3. flown /\ phase # "pad"
    BY <2>1, <2>2, SeenHasLeft
  <2>4. LaunchIsReal'
    BY <1>1, <2>3 DEF LaunchIsReal
  <2>5. CASE InAir
    <3>1. ~(land_alt >= 0)
      <4> DEFINE e == 999 * Unit
      <4>1. /\ e \in Nat /\ Band < e /\ ErrorReading = -e /\ Band \in Nat
            /\ ErrorReading \in Int /\ land_alt \in Int
        BY <1>0, Ordinary, Constants DEF ErrorReading, TypeOK
      <4>2. land_alt - Band <= ErrorReading
        BY <1>0, <1>1, <4>1, NearIs
      <4> HIDE DEF e
      <4> QED
        BY <4>1, <4>2
    <3>2. land_alt = ErrorReading /\ land_reads < errors
      BY <1>0, <2>1, <2>2, <2>5, <3>1 DEF Passing
    <3>3. land_reads \in Nat /\ errors \in Nat /\ MaxErrors \in Nat /\ LandReads \in Nat
          /\ MaxErrors <= LandReads
      BY <1>0, Constants DEF TypeOK, OrdinaryFlight
    <3>4. land_reads' < errors' /\ land_reads' < LandReads /\ land_reads' \in Nat
      BY <1>1, <3>2, <3>3
    <3>5. Passing'
      BY <1>1, <3>2, <3>4 DEF Passing, ErrorReading
    <3>6. ~Landed(land_reads')
      BY <3>3, <3>4 DEF Landed
    <3> QED
      BY <1>1, <2>4, <3>5, <3>6 DEF LandingIsReal
  <2>6. CASE ~InAir
    <3>1. phase = "ground"
      BY <1>0, <2>3, <2>6 DEF TypeOK, InAir
    <3> QED
      BY <1>1, <2>4, <3>1 DEF Passing, InAir, LandingIsReal
  <2> QED
    BY <2>5, <2>6
<1> QED
  BY <1>2, <1>3

LEMMA InvFailedReading ==
  ASSUME OrdinaryFlight, IInv, FailedReading
  PROVE  IInv'
<1>1. TypeOK' /\ Counters'
  BY TypeStep DEF IInv, Next, Reading
<1>2. Altitudes' /\ Left'
  BY WorldKept DEF FailedReading
<1>3. Judge(ErrorReading)
  BY DEF FailedReading
<1>4. CASE TakeBaseline(ErrorReading)
  BY <1>1, <1>2, <1>4, InvTakeFailed DEF IInv
<1>5. CASE ~TakeBaseline(ErrorReading)
  <2>1. NotInFlight(ErrorReading) \/ Moving(ErrorReading) \/ Still(ErrorReading)
    BY <1>3, <1>5 DEF Judge
  <2>2. /\ initial # 0 /\ initial' = initial /\ baseline' = baseline
        /\ launch_reads' = ReadsAbove(ErrorReading) /\ UNCHANGED <<worldVars, flown>>
        /\ high' = 0
    BY <2>1 DEF NotInFlight, Moving, Still, FailedReading
  <2>3. BaselineRight'
    BY <2>2 DEF IInv, BaselineRight, GoodBaseline, worldVars
  <2>4. HighCounted'
    BY <1>1, <2>2, Constants DEF TypeOK, HighCounted
  <2>5. CASE NotInFlight(ErrorReading)
    <3>1. FSM_state' = FSM_state /\ FSM_state # 1
      BY <2>5 DEF NotInFlight, InFlight
    <3>2. Passing' /\ LaunchIsReal' /\ LandingIsReal'
      BY <2>2, <3>1 DEF IInv, Passing, LaunchIsReal, LandingIsReal, worldVars
    <3> QED
      BY <1>1, <1>2, <2>3, <2>4, <3>2 DEF IInv
  <2>6. CASE Moving(ErrorReading)
    BY <1>1, <1>2, <2>3, <2>4, <2>6, InvMovingFailed DEF IInv
  <2>7. CASE Still(ErrorReading)
    BY <1>1, <1>2, <2>3, <2>4, <2>7, InvStillFailed DEF IInv
  <2> QED
    BY <2>1, <2>5, <2>6, <2>7
<1> QED
  BY <1>4, <1>5

LEMMA InvPowerLoss ==
  ASSUME OrdinaryFlight, IInv, PowerLoss
  PROVE  IInv'
<1>1. TypeOK' /\ Counters'
  BY TypeStep DEF IInv, Next
<1>2. Altitudes' /\ Left'
  BY WorldKept DEF PowerLoss
<1>3. FSM_state' = 0 /\ initial' = 0 /\ baseline' = "none"
  BY DEF PowerLoss
<1>4. /\ BaselineRight' /\ HighCounted' /\ Passing' /\ LaunchIsReal' /\ LandingIsReal'
  BY <1>3 DEF BaselineRight, GoodBaseline, HighCounted, Passing, LaunchIsReal, LandingIsReal
<1> QED
  BY <1>1, <1>2, <1>4 DEF IInv

LEMMA InvStep ==
  ASSUME OrdinaryFlight, IInv, [Next]_vars
  PROVE  IInv'
<1>1. CASE World
  BY <1>1, InvWorld
<1>2. CASE GoodReading
  BY <1>2, InvGoodReading
<1>3. CASE FailedReading
  BY <1>3, InvFailedReading
<1>4. CASE PowerLoss
  BY <1>4, InvPowerLoss
<1>5. CASE UNCHANGED vars
  BY <1>5 DEF vars, fsmVars, worldVars, IInv, TypeOK, Altitudes, InAir, BaselineRight,
     GoodBaseline, Counters, HighCounted, Left, Passing, Since, Band, ErrorReading,
     LaunchIsReal, LandingIsReal
<1> QED
  BY <1>1, <1>2, <1>3, <1>4, <1>5 DEF Next, Reading

-----------------------------------------------------------------------------
(* The strengthened invariant, of every ordinary flight.                   *)
THEOREM Invariance == ASSUME OrdinaryFlight PROVE Spec => []IInv
<1>1. Init => IInv
  BY InvInit
<1>2. IInv /\ [Next]_vars => IInv'
  BY InvStep
<1> QED
  BY <1>1, <1>2, PTL DEF Spec

(* A launch the board sees has reached the threshold, whatever readings    *)
(* fail and wherever it restarts (main.cpp 424-437).                       *)
THEOREM LaunchSeenIsReal == ASSUME OrdinaryFlight PROVE Spec => []LaunchIsReal
<1>1. IInv => LaunchIsReal
  BY DEF IInv
<1> QED
  BY <1>1, Invariance, PTL

LEMMA FirstOnPadStep ==
  ASSUME OrdinaryFlight, IInv, FirstOnPad, [Next]_vars
  PROVE  FirstOnPad'
<1>0. TypeOK /\ Altitudes /\ BaselineRight /\ errors \in Nat /\ boots \in Nat
  BY Constants DEF IInv, TypeOK
<1>1. CASE World
  BY <1>1 DEF World, Rest, Climb, Fall, TouchDown, Moved, FirstOnPad
<1>2. CASE GoodReading
  <2>1. UNCHANGED <<errors, boots, site, phase>> /\ Judge(alt)
    BY <1>0, <1>2, InRange DEF GoodReading, worldVars
  <2> SUFFICES ASSUME errors = 0, boots = 0, site >= Unit PROVE baseline' = "pad"
    BY <2>1 DEF FirstOnPad
  <2>2. CASE baseline = "none"
    <3>1. initial = 0 /\ phase = "pad"
      BY <1>0, <2>2 DEF BaselineRight, FirstOnPad
    <3>2. initial' = Trunc(alt)
      BY <2>1, <3>1 DEF Judge, TakeBaseline, NotInFlight, Moving, Still
    <3>3. alt \in Nat /\ site \in Nat /\ alt >= site
      BY <1>0, InRange DEF Altitudes
    <3>4. Trunc(alt) # 0
      <4> DEFINE n == Trunc(alt)
      <4>1. n \in Nat /\ alt < n * Unit + Unit /\ Unit \in Nat \ {0}
        BY <3>3, TruncNat, Constants
      <4> HIDE DEF n
      <4>2. n = 0 => alt < Unit
        BY <4>1
      <4> QED
        BY <3>3, <4>1, <4>2 DEF n
    <3> QED
      BY <1>2, <3>1, <3>2, <3>4 DEF GoodReading
  <2>3. CASE baseline # "none"
    BY <1>0, <1>2, <2>3 DEF BaselineRight, FirstOnPad, GoodReading
  <2> QED
    BY <2>2, <2>3
<1>3. CASE FailedReading
  <2>1. errors' # 0
    BY <1>0, <1>3 DEF FailedReading
  <2> QED
    BY <2>1 DEF FirstOnPad
<1>4. CASE PowerLoss
  <2>1. boots' # 0
    BY <1>0, <1>4 DEF PowerLoss
  <2> QED
    BY <2>1 DEF FirstOnPad
<1>5. CASE UNCHANGED vars
  BY <1>5 DEF vars, worldVars, FirstOnPad
<1> QED
  BY <1>1, <1>2, <1>3, <1>4, <1>5 DEF Next, Reading

(* A board above the threshold for long enough sees its launch, if its     *)
(* baseline is of the pad, or if nothing failed and the pad is no lower    *)
(* than a metre.                                                           *)
THEOREM LaunchIsSeen == ASSUME OrdinaryFlight PROVE Spec => []LaunchDetected
<1>1. ASSUME IInv, FirstOnPad PROVE LaunchDetected
  <2> SUFFICES ASSUME high >= LaunchReads, FSM_state = 0,
                      baseline = "pad" \/ (errors = 0 /\ boots = 0 /\ site >= Unit)
               PROVE  FALSE
    BY DEF LaunchDetected
  <2>1. LaunchReads \in Nat \ {0} /\ high \in Nat /\ launch_reads \in Nat
    BY <1>1, Constants DEF IInv, TypeOK
  <2>2. baseline = "pad"
    BY <1>1, <2>1 DEF FirstOnPad
  <2>3. high <= launch_reads /\ launch_reads < LaunchReads
    BY <1>1, <2>2 DEF IInv, HighCounted, Counters
  <2> QED
    BY <2>1, <2>3
<1>2. Init => FirstOnPad
  BY DEF Init, FirstOnPad
<1>3. IInv /\ FirstOnPad /\ [Next]_vars => FirstOnPad'
  BY FirstOnPadStep
<1> QED
  BY <1>1, <1>2, <1>3, Invariance, PTL DEF Spec

(* A landing the board sees is on the ground: neither the top of the       *)
(* flight nor failed readings end the log (main.cpp 442-456).              *)
THEOREM LandingSeenIsReal == ASSUME OrdinaryFlight PROVE Spec => []LandingIsReal
<1>1. IInv => LandingIsReal
  BY DEF IInv
<1> QED
  BY <1>1, Invariance, PTL

-----------------------------------------------------------------------------
(* The detection and the logger in one loop                                *)

LEMMA Sizes ==
  /\ BufLen \in Nat /\ BufLen > 0 /\ Room \in Nat /\ LandReads \in Nat /\ LandReads > 1
  BY ComputerAssumption, Constants

(* The detection goes through the states one by one.                       *)
LEMMA ReadingStates ==
  ASSUME TypeOK, Counters, Reading
  PROVE  \/ FSM_state' = FSM_state
         \/ FSM_state = 0 /\ FSM_state' = 1
         \/ FSM_state = 1 /\ FSM_state' = 2
  <1>1. PICK r : Judge(r)
    BY DEF Reading, GoodReading, FailedReading
  <1>2. CASE TakeBaseline(r) \/ NotInFlight(r)
    BY <1>2 DEF TakeBaseline, NotInFlight
  <1>3. CASE Moving(r)
    BY <1>3 DEF Moving, InFlight, Launched
  <1>4. CASE Still(r)
    <2>1. FSM_state = 0 => ~Landed(land_reads')
      BY <1>4, Sizes DEF Still, Counters, Landed
    <2> QED
      BY <1>4, <2>1 DEF Still, InFlight, Launched
  <1> QED
    BY <1>1, <1>2, <1>3, <1>4 DEF Judge

(* In the loop the detection is the one of FlightFSM, and the logger is    *)
(* asked for nothing that FlightRecorder does not offer.                   *)
LEMMA DetectionSteps == [ComputerNext]_computerVars => [Next]_vars
  BY DEF ComputerNext, SetUp, Fly, Loop, Log, Sample, Save, Outage, Next, computerVars

RecorderStep ==
  \/ Recorder!Start \/ Recorder!Launch \/ Recorder!Save \/ Recorder!Land
  \/ Recorder!PowerOff
  \/ Recorder!Remember(make_logger_packet) \/ Recorder!Record(make_logger_packet)
  \/ UNCHANGED recorderVars

LEMMA RecorderSteps == [ComputerNext]_computerVars => RecorderStep
  BY DEF ComputerNext, SetUp, Fly, Loop, Log, Sample, Save, Outage, computerVars,
         recorderVars, Recorder!recorderVars, RecorderStep, Recorder!Offer,
         Recorder!Ignore, ReportLaunch, ReportLanding, ReportNothing

-----------------------------------------------------------------------------
LEMMA StepAgrees ==
  ASSUME ComputerInv, [ComputerNext]_computerVars
  PROVE  Agreement'
  <1> USE DEF ComputerInv
  <1>1. CASE SetUp
    BY <1>1 DEF SetUp, vars, fsmVars, Recorder!Start, Agreement
  <1>2. CASE Fly
    BY <1>2 DEF Fly, World, Rest, Climb, Fall, TouchDown, Moved, fsmVars, recorderVars,
                Agreement
  <1>3. CASE Log
    BY <1>3 DEF Log, vars, fsmVars, Agreement, Recorder!Offer, Recorder!Remember,
                Recorder!Record, Recorder!Ignore, Recorder!recorderVars
  <1>4. CASE Sample
    BY <1>4, ReadingStates DEF Sample, ReportLaunch, ReportLanding, ReportNothing,
                Agreement, Recorder!Launch, Recorder!Land, recorderVars, Statuses
  <1>5. CASE Save
    BY <1>5 DEF Save, vars, fsmVars, Recorder!Save, Agreement
  <1>6. CASE Outage
    BY <1>6 DEF Outage, PowerLoss, Recorder!PowerOff, Agreement
  <1>7. CASE UNCHANGED computerVars
    BY <1>7 DEF computerVars, vars, fsmVars, recorderVars, Agreement
  <1> QED
    BY <1>1, <1>2, <1>3, <1>4, <1>5, <1>6, <1>7 DEF ComputerNext, Loop

-----------------------------------------------------------------------------
(* A packet that comes in is the last of the whole.                        *)
LEMMA AppendBehind ==
  ASSUME NEW S, NEW a \in Seq(S), NEW b \in Seq(S), NEW x \in S,
         NEW k \in 1 .. Len(a) + Len(b) + 1
  PROVE  /\ k <= Len(a) + Len(b) => (a \o Append(b, x))[k] = (a \o b)[k]
         /\ k = Len(a) + Len(b) + 1 => (a \o Append(b, x))[k] = x
  <1>1. Append(b, x) \in Seq(S) /\ Len(Append(b, x)) = Len(b) + 1
    OBVIOUS
  <1>2. CASE k <= Len(a)
    BY <1>1, <1>2
  <1>3. CASE k > Len(a)
    <2>1. k - Len(a) \in 1 .. Len(b) + 1
      BY <1>3
    <2>2. (a \o Append(b, x))[k] = Append(b, x)[k - Len(a)]
      BY <1>1, <1>3, <2>1
    <2>3. CASE k - Len(a) <= Len(b)
      <3>1. Append(b, x)[k - Len(a)] = b[k - Len(a)]
        BY <2>1, <2>3
      <3>2. (a \o b)[k] = b[k - Len(a)]
        BY <1>3, <2>3
      <3> QED
        BY <2>2, <2>3, <3>1, <3>2
    <2>4. CASE k - Len(a) = Len(b) + 1
      <3>1. Append(b, x)[k - Len(a)] = x
        BY <2>4
      <3> QED
        BY <2>2, <2>4, <3>1
    <2> QED
      BY <2>1, <2>3, <2>4
  <1> QED
    BY <1>2, <1>3

LEMMA PacketTyped == TypeOK => make_logger_packet \in Packets
  BY DEF TypeOK, make_logger_packet, Packets, Phases

LEMMA StepRecords ==
  ASSUME ComputerInv, [ComputerNext]_computerVars
  PROVE  Typed' /\ Statuses' /\ Remembered' /\ InOrder' /\ Nothing'
  <1> DEFINE p == make_logger_packet
             Kept == Typed /\ Statuses /\ Remembered /\ InOrder /\ Nothing
  <1>0. Kept /\ p \in Packets /\ p.state = FSM_state /\ Agreement
    BY PacketTyped DEF ComputerInv, make_logger_packet
  <1> HIDE DEF p
  <1> USE DEF Typed, Statuses, Remembered, InOrder, Nothing, Whole
  <1>1. CASE Recorder!Start
    <2>1. ring' = [k \in 1 .. BufLen |-> Zero] /\ log' = <<>> /\ status' = "ready"
      BY <1>1 DEF Recorder!Start
    <2>2. Zero \in Packets /\ Zero.state = 0
      BY DEF Zero, Packets, Phases
    <2>3. ring' \in Seq(Packets) /\ Len(ring') = BufLen
      BY <2>1, <2>2, Sizes
    <2> QED
      BY <2>1, <2>2, <2>3, Sizes
  <1>2. CASE Recorder!Launch
    <2>1. status = "ready" /\ status' = "saving" /\ log' = <<>> /\ ring' = ring
      BY <1>2 DEF Recorder!Launch
    <2>2. \A k \in 1 .. Len(ring) : (<<>> \o ring)[k] = ring[k]
      BY <1>0
    <2> QED
      BY <1>0, <2>1, <2>2, Sizes
  <1>3. CASE Recorder!Save
    <2>1. /\ status = "saving" /\ ring # <<>>
          /\ log' = Append(log, Head(ring)) /\ ring' = Tail(ring)
          /\ status' \in {"flight", "saving"}
          /\ status' = "flight" <=> ring' = <<>>
      BY <1>0, <1>3 DEF Recorder!Save
    <2>2. log' \in Seq(Packets) /\ ring' \in Seq(Packets)
      BY <1>0, <2>1
    <2>3. Len(log') = Len(log) + 1 /\ Len(ring') = Len(ring) - 1
      BY <1>0, <2>1
    <2>4. \A k \in 1 .. Len(log) + Len(ring) : (log' \o ring')[k] = Whole[k]
      BY <1>0, <2>1, <2>2, <2>3
    <2>5. Len(log') + Len(ring') = Len(log) + Len(ring)
      BY <1>0, <2>3
    <2>6. ring' = <<>> => Len(log') >= BufLen
      BY <1>0, <2>1, <2>2, <2>5, Sizes
    <2>7. InOrder'
      BY <1>0, <2>1, <2>4, <2>5, <2>6
    <2> QED
      BY <2>1, <2>2, <2>7
  <1>4. CASE Recorder!Land
    BY <1>0, <1>4 DEF Recorder!Land
  <1>5. CASE Recorder!PowerOff
    BY <1>5 DEF Recorder!PowerOff
  <1>6. CASE Recorder!Remember(p)
    <2>1. status = "ready" /\ UNCHANGED <<status, log>> /\ ring' = Append(Tail(ring), p)
      BY <1>6 DEF Recorder!Remember
    <2>2. p.state = 0
      BY <1>0, <2>1 DEF Agreement
    <2>3. ring' \in Seq(Packets) /\ Len(ring') = BufLen
      BY <1>0, <2>1, Sizes
    <2>4. \A k \in 1 .. BufLen : ring'[k] = IF k < BufLen THEN ring[k + 1] ELSE p
      BY <1>0, <2>1, Sizes
    <2> QED
      BY <1>0, <2>1, <2>2, <2>3, <2>4, Sizes
  <1>7. CASE Recorder!Record(p)
    <2>1. /\ status = "flight" /\ log' = log /\ ring' = Append(ring, p)
          /\ status' \in {"flight", "saving"}
      BY <1>7 DEF Recorder!Record
    <2>0. /\ log \in Seq(Packets) /\ ring \in Seq(Packets) /\ p \in Packets
          /\ Len(log) \in Nat /\ Len(ring) \in Nat
      BY <1>0
    <2>2. p.state = 1
      BY <1>0, <2>1 DEF Agreement
    <2>3. ring' \in Seq(Packets) /\ Len(ring') = Len(ring) + 1
      BY <1>0, <2>1
    <2>4. ASSUME NEW k \in 1 .. Len(log) + Len(ring) + 1
          PROVE  /\ k <= Len(log) + Len(ring) => (log \o Append(ring, p))[k] = Whole[k]
                 /\ k = Len(log) + Len(ring) + 1 => (log \o Append(ring, p))[k] = p
      BY <2>0, AppendBehind, SMTT(60)
    <2>5. Len(log) + Len(ring) >= BufLen /\ Len(log') >= BufLen /\ ring' # <<>>
      BY <1>0, <2>1, <2>3
    <2>6. \A k \in 1 .. Len(log) + Len(ring) + 1 :
            (log \o Append(ring, p))[k].state = IF k > BufLen THEN 1 ELSE 0
      <3> SUFFICES ASSUME NEW k \in 1 .. Len(log) + Len(ring) + 1
                   PROVE  (log \o Append(ring, p))[k].state
                            = IF k > BufLen THEN 1 ELSE 0
        OBVIOUS
      <3>1. CASE k <= Len(log) + Len(ring)
        BY <1>0, <2>1, <2>4, <3>1
      <3>2. CASE k = Len(log) + Len(ring) + 1
        BY <1>0, <2>1, <2>2, <2>4, <2>5, <3>2, Sizes
      <3> QED
        BY <2>0, <3>1, <3>2
    <2>7. InOrder'
      <3>1. Len(log') + Len(ring') = Len(log) + Len(ring) + 1
        BY <1>0, <2>1, <2>3
      <3>2. \A k \in 1 .. Len(log') + Len(ring') :
              Whole'[k].state = IF k > BufLen THEN 1 ELSE 0
        BY <2>1, <2>6, <3>1
      <3>3. Len(log') + Len(ring') >= BufLen
        BY <2>0, <2>5, <3>1, Sizes
      <3> QED
        BY <2>1, <2>5, <3>2, <3>3
    <2> QED
      BY <1>0, <2>1, <2>3, <2>7
  <1>8. CASE UNCHANGED recorderVars
    BY <1>0, <1>8 DEF recorderVars
  <1> QED
    BY <1>1, <1>2, <1>3, <1>4, <1>5, <1>6, <1>7, <1>8, RecorderSteps DEF RecorderStep, p

-----------------------------------------------------------------------------
LEMMA ComputerInvInit == ComputerInit => ComputerInv
  <1> SUFFICES ASSUME ComputerInit PROVE ComputerInv
    OBVIOUS
  <1>1. TypeOK /\ Counters
    BY TypeInit DEF ComputerInit
  <1>2. status = "off" /\ ring = <<>> /\ log = <<>> /\ FSM_state = 0
    BY DEF ComputerInit, Recorder!Init, Init
  <1> QED
    BY <1>1, <1>2 DEF ComputerInv, Agreement, Typed, Statuses, Remembered, InOrder,
                      Nothing

LEMMA ComputerInvStep == ComputerInv /\ [ComputerNext]_computerVars => ComputerInv'
  <1> SUFFICES ASSUME ComputerInv, [ComputerNext]_computerVars PROVE ComputerInv'
    OBVIOUS
  <1>1. TypeOK' /\ Counters'
    BY DetectionSteps, TypeStep DEF ComputerInv
  <1> QED
    BY <1>1, StepAgrees, StepRecords DEF ComputerInv

(* The inductive invariant of the two in one loop.                         *)
THEOREM ComputerInvariance == ComputerSpec => []ComputerInv
  BY ComputerInvInit, ComputerInvStep, PTL DEF ComputerSpec

(* The logger is told of each change of state once, and in time            *)
(* (main.cpp 434-456).                                                     *)
THEOREM StatesAgree == ComputerSpec => []Agreement
  <1>1. ComputerInv => Agreement
    BY DEF ComputerInv
  <1> QED
    BY ComputerInvariance, <1>1, PTL

(* In the log of a flight the packets of the pad come first, BufLen of     *)
(* them, and then those of the flight, whatever the timers do.             *)
THEOREM LogIsInOrder == ComputerSpec => []StatesInOrder
  <1>1. ASSUME ComputerInv PROVE StatesInOrder
    <2>1. CASE status \in {"off", "ready"}
      BY <1>1, <2>1 DEF ComputerInv, Remembered, Nothing, StatesInOrder
    <2>2. CASE status \in {"saving", "flight", "landed"}
      <3> SUFFICES ASSUME NEW k \in DOMAIN log
                   PROVE  log[k].state = IF k > BufLen THEN 1 ELSE 0
        BY DEF StatesInOrder
      <3>1. k \in 1 .. Len(log) /\ Len(ring) \in Nat /\ Whole[k] = log[k]
        BY <1>1 DEF ComputerInv, Typed, Whole
      <3>2. k \in 1 .. Len(log) + Len(ring)
        BY <1>1, <3>1 DEF ComputerInv, Typed
      <3> QED
        BY <1>1, <2>2, <3>1, <3>2 DEF ComputerInv, InOrder
    <2> QED
      BY <1>1, <2>1, <2>2 DEF ComputerInv, Statuses
  <1> QED
    BY ComputerInvariance, <1>1, PTL

(* What is proved of the detection alone holds of it in the loop.          *)
LEMMA DetectionKept ==
  ASSUME OrdinaryFlight PROVE ComputerSpec => []IInv
  <1>1. ComputerInit => IInv
    BY InvInit DEF ComputerInit
  <1>2. IInv /\ [ComputerNext]_computerVars => IInv'
    BY DetectionSteps, InvStep
  <1> QED
    BY <1>1, <1>2, PTL DEF ComputerSpec

(* The logger prepares a flight's section, which destroys what was in it,  *)
(* only for a flight that reached the threshold, and closes the log only   *)
(* on the ground.                                                          *)
LogIsOfAFlight ==
  baseline # "failed" =>
    /\ status \in {"saving", "flight"} => flown
    /\ status = "landed" => flown /\ phase = "ground"

THEOREM LogsAreOfFlights ==
  ASSUME OrdinaryFlight PROVE ComputerSpec => []LogIsOfAFlight
  <1>1. IInv /\ ComputerInv => LogIsOfAFlight
    BY DEF IInv, LaunchIsReal, LandingIsReal, ComputerInv, Agreement, Statuses,
           LogIsOfAFlight
  <1> QED
    BY DetectionKept, ComputerInvariance, <1>1, PTL

-----------------------------------------------------------------------------
(* The two in time                                                         *)

(* How often n goes into t, at most.                                       *)
LEMMA DivBound ==
  ASSUME NEW n \in Nat \ {0}, NEW t \in Nat, NEW r \in Nat, r * n <= t
  PROVE  r <= t \div n
<1> DEFINE q == t \div n
<1>1. /\ t % n \in 0 .. n - 1 /\ q \in Int
      /\ t = n * q + (t % n)
  BY ModDef
<1>2. q < r => n * q + n <= n * r
  BY <1>1, MultiplesApart
<1> DEFINE m == n * q
           u == n * r
<1>3. m \in Int /\ u \in Int /\ u <= t /\ t = m + (t % n)
  BY <1>1
<1>4. q < r => m + n <= u
  BY <1>2
<1> HIDE DEF q, m, u
<1>5. ~(q < r)
  BY <1>1, <1>3, <1>4
<1> QED
  BY <1>1, <1>5 DEF q

LEMMA DivNat ==
  ASSUME NEW n \in Nat \ {0}, NEW t \in Nat
  PROVE  t \div n \in Nat
<1> DEFINE q == t \div n
<1>1. /\ t % n \in 0 .. n - 1 /\ q \in Int
      /\ t = n * q + (t % n)
  BY ModDef
<1>2. q < 0 => n * q + n <= n * 0
  BY <1>1, MultiplesApart
<1> DEFINE m == n * q
<1>3. m \in Int /\ t = m + (t % n) /\ n * 0 = 0
  BY <1>1
<1>4. q < 0 => m + n <= 0
  BY <1>2, <1>3
<1> HIDE DEF q, m
<1>5. q \in Nat
  BY <1>1, <1>3, <1>4
<1> QED
  BY <1>5 DEF q

(* The readings that go to a packet take as long as it waits.              *)
LEMMA Times ==
  /\ BufLen \in Nat /\ BufLen > 0
  /\ LogPeriod \in Nat \ {0} /\ MinGap \in Nat \ {0} /\ MaxGap \in Nat
  /\ ReadsPerPacket \in Nat /\ ReadsPerPacket * MinGap \in Nat
  /\ LogPeriod <= ReadsPerPacket * MinGap
<1>1. /\ BufLen \in Nat /\ BufLen > 0
      /\ LogPeriod \in Nat \ {0} /\ MinGap \in Nat \ {0} /\ MaxGap \in Nat
  BY ComputerAssumption
<1> DEFINE t == LogPeriod + MinGap - 1
           q == t \div MinGap
<1>2. t \in Nat
  BY <1>1
<1>3. /\ t % MinGap \in 0 .. MinGap - 1 /\ q \in Nat
      /\ t = MinGap * q + (t % MinGap)
  <2>1. t \in Int
    BY <1>2
  <2> HIDE DEF t
  <2> QED
    BY <1>1, <1>2, <2>1, ModDef, DivNat
<1> DEFINE m == MinGap * q
<1>4. m \in Nat /\ t = m + (t % MinGap) /\ q * MinGap = m
  BY <1>1, <1>3
<1>5. t = LogPeriod + MinGap - 1
  OBVIOUS
<1>6. q = ReadsPerPacket
  BY DEF ReadsPerPacket
<1> HIDE DEF t, q, m
<1>7. LogPeriod <= m
  BY <1>1, <1>2, <1>3, <1>4, <1>5
<1> QED
  BY <1>1, <1>3, <1>4, <1>6, <1>7

(* The moves that fit into a height, with all the slow ones.               *)
LEMMA SlowAndDiv ==
  ASSUME NEW b \in Nat, NEW n \in Nat, n * MinSpeed <= SlowMoves * MinSpeed + b
  PROVE  n <= SlowMoves + b \div MinSpeed
<1>1. SlowMoves \in Nat /\ MinSpeed \in Nat \ {0}
  BY Constants
<1>2. b \div MinSpeed \in Nat
  BY <1>1, DivNat
<1>3. CASE n < SlowMoves
  BY <1>1, <1>2, <1>3
<1>4. CASE ~(n < SlowMoves)
  <2> DEFINE k == n - SlowMoves
  <2>1. k \in Nat /\ n = SlowMoves + k
    BY <1>1, <1>4
  <2> HIDE DEF k
  <2> DEFINE p == n * MinSpeed
             m == SlowMoves * MinSpeed
             q == k * MinSpeed
  <2>2. p = m + q /\ p \in Int /\ m \in Int /\ q \in Int /\ p <= m + b
    BY <1>1, <2>1
  <2> HIDE DEF p, m, q
  <2>3. q <= b
    BY <2>2
  <2>4. k <= b \div MinSpeed
    BY <1>1, <2>1, <2>3, DivBound DEF q
  <2> QED
    BY <1>1, <1>2, <2>1, <2>4
<1> QED
  BY <1>3, <1>4

LEMMA TimesInAir ==
  ASSUME OrdinaryFlight
  PROVE  /\ ReadsInAir \in Nat /\ ReadsBelow \in Nat
         /\ \A n \in Nat :
              n * MinSpeed <= SlowMoves * MinSpeed + 3 * Band => n <= ReadsInAir
         /\ \A n \in Nat :
              n * MinSpeed < SlowMoves * MinSpeed + LaunchAlt * Unit + Noise => n <= ReadsBelow
<1>1. Band \in Nat /\ MinSpeed \in Nat \ {0}
  BY Ordinary, Constants
<1>2. ReadsInAir = SlowMoves + (3 * Band) \div MinSpeed
  BY DEF ReadsInAir, Band
<1> DEFINE b == 3 * Band
           t == LaunchAlt * Unit + Noise - 1
<1>3. b \in Nat
  BY <1>1
<1>4. t \in Nat
  <2>1. (LaunchAlt - 1) * Unit \in Nat /\ LaunchAlt * Unit = (LaunchAlt - 1) * Unit + Unit
    BY Ordinary
  <2> DEFINE v == (LaunchAlt - 1) * Unit
  <2>2. v \in Nat /\ t = v + Unit + Noise - 1
    BY <2>1
  <2> HIDE DEF v, t
  <2> QED
    BY <2>2, Constants
<1>5. /\ ReadsInAir = SlowMoves + b \div MinSpeed
      /\ ReadsBelow = SlowMoves + t \div MinSpeed
  BY <1>2 DEF ReadsBelow
<1>6. /\ LaunchAlt * Unit + Noise \in Int /\ t = (LaunchAlt * Unit + Noise) - 1
      /\ SlowMoves * MinSpeed + LaunchAlt * Unit + Noise = SlowMoves * MinSpeed + t + 1
  <2> DEFINE h == LaunchAlt * Unit
             m == SlowMoves * MinSpeed
  <2>1. h \in Int /\ m \in Int /\ Noise \in Int /\ t = (h + Noise) - 1
    BY Constants
  <2> HIDE DEF h, m, t
  <2>2. h + Noise \in Int /\ t = (h + Noise) - 1 /\ m + h + Noise = m + t + 1
    BY <2>1
  <2> QED
    BY <2>2 DEF h, m
<1> HIDE DEF b, t
<1>7. ASSUME NEW n \in Nat, n * MinSpeed < SlowMoves * MinSpeed + LaunchAlt * Unit + Noise
      PROVE  n * MinSpeed <= SlowMoves * MinSpeed + t
  <2> DEFINE p == n * MinSpeed
             m == SlowMoves * MinSpeed
  <2>1. p \in Int /\ m \in Int /\ p < m + t + 1
    BY <1>1, <1>6, <1>7, Constants
  <2> HIDE DEF p, m
  <2>2. p <= m + t
    BY <1>4, <2>1
  <2> QED
    BY <2>2 DEF p, m
<1>8. b \div MinSpeed \in Nat /\ t \div MinSpeed \in Nat
  BY <1>1, <1>3, <1>4, DivNat
<1>9. \A n \in Nat : n * MinSpeed <= SlowMoves * MinSpeed + b => n <= SlowMoves + b \div MinSpeed
  BY <1>3, SlowAndDiv
<1>10. \A n \in Nat : n * MinSpeed <= SlowMoves * MinSpeed + t => n <= SlowMoves + t \div MinSpeed
  BY <1>4, SlowAndDiv
<1>11. ReadsInAir \in Nat /\ ReadsBelow \in Nat
  BY <1>5, <1>8, Constants
<1> QED
  BY <1>5, <1>7, <1>9, <1>10, <1>11 DEF b

-----------------------------------------------------------------------------
LEMMA WaitingStep ==
  ASSUME Waiting, [ComputerNext]_computerVars
  PROVE  Waiting'
<1> USE Times DEF Waiting
<1>1. CASE SetUp
  BY <1>1 DEF SetUp, Recorder!Start
<1>2. CASE Fly
  <2>1. due' = TRUE
    BY <1>2 DEF Fly, World, Rest, Climb, Fall, TouchDown, Moved
  <2>2. PICK gap \in MinGap .. MaxGap : wait' = IF wait > gap THEN wait - gap ELSE 0
    BY <1>2 DEF Fly
  <2> QED
    BY <2>1, <2>2
<1>3. CASE Log
  BY <1>3 DEF Log, NextLog
<1>4. CASE Sample
  BY <1>4 DEF Sample
<1>5. CASE Save
  BY <1>5 DEF Save, Recorder!Save, vars
<1>6. CASE Outage
  BY <1>6 DEF Outage, Recorder!PowerOff
<1>7. CASE UNCHANGED computerVars
  BY <1>7 DEF computerVars, vars, recorderVars
<1> QED
  BY <1>1, <1>2, <1>3, <1>4, <1>5, <1>6, <1>7 DEF ComputerNext, Loop

LEMMA RingFitsStep ==
  ASSUME ComputerInv, RingFits, [ComputerNext]_computerVars
  PROVE  RingFits'
<1> DEFINE p == make_logger_packet
<1>0. /\ ring \in Seq(Packets) /\ Len(ring) \in Nat /\ p \in Packets
      /\ Statuses /\ Remembered
      /\ status = "saving" => ring # <<>>
      /\ BufLen \in Nat /\ BufLen > 0
  BY PacketTyped, Times DEF ComputerInv, Typed, InOrder
<1> HIDE DEF p
<1> USE DEF RingFits
<1>1. CASE Recorder!Start
  BY <1>1 DEF Recorder!Start
<1>2. CASE Recorder!Launch
  BY <1>0, <1>2 DEF Recorder!Launch, Remembered
<1>3. CASE Recorder!Save
  <2>1. /\ status = "saving" /\ ring' = Tail(ring) /\ room' = room
        /\ status' = IF ring' = <<>> THEN "flight" ELSE "saving"
    BY <1>3 DEF Recorder!Save
  <2>2. Len(ring') = Len(ring) - 1 /\ Len(ring) <= BufLen
    BY <1>0, <2>1
  <2> QED
    BY <1>0, <2>1, <2>2
<1>4. CASE Recorder!Land
  BY <1>4 DEF Recorder!Land
<1>5. CASE Recorder!PowerOff
  BY <1>5 DEF Recorder!PowerOff
<1>6. CASE Recorder!Remember(p)
  BY <1>6 DEF Recorder!Remember
<1>7. CASE Recorder!Record(p)
  <2>1. /\ status = "flight" /\ ring' = Append(ring, p) /\ room' = room
        /\ status' = IF Len(ring') = BufLen THEN "saving" ELSE "flight"
    BY <1>7 DEF Recorder!Record
  <2>2. Len(ring') = Len(ring) + 1
    BY <1>0, <2>1
  <2> QED
    BY <1>0, <2>1, <2>2
<1>8. CASE UNCHANGED recorderVars
  BY <1>8 DEF recorderVars
<1> QED
  BY <1>1, <1>2, <1>3, <1>4, <1>5, <1>6, <1>7, <1>8, RecorderSteps DEF RecorderStep, p

(* A reading is taken only by a board that is on.                          *)
LEMMA NothingReadStep ==
  ASSUME NothingRead, [ComputerNext]_computerVars
  PROVE  NothingRead'
<1> USE DEF NothingRead
<1>1. CASE SetUp
  BY <1>1 DEF SetUp, Recorder!Start
<1>2. CASE Fly
  BY <1>2 DEF Fly, World, Rest, Climb, Fall, TouchDown, Moved, fsmVars, recorderVars
<1>3. CASE Log
  BY <1>3 DEF Log, Recorder!Offer, Recorder!Remember, Recorder!Record, Recorder!Ignore,
              Recorder!recorderVars
<1>4. CASE Sample
  BY <1>4 DEF Sample, ReportLaunch, ReportLanding, ReportNothing, Recorder!Launch,
              Recorder!Land, recorderVars
<1>5. CASE Save
  BY <1>5 DEF Save, Recorder!Save
<1>6. CASE Outage
  BY <1>6 DEF Outage, PowerLoss
<1>7. CASE UNCHANGED computerVars
  BY <1>7 DEF computerVars, vars, fsmVars, recorderVars
<1> QED
  BY <1>1, <1>2, <1>3, <1>4, <1>5, <1>6, <1>7 DEF ComputerNext, Loop

-----------------------------------------------------------------------------
(* The packets before the launch                                           *)

(* A packet that is remembered takes the place of the oldest.              *)
LEMMA RememberShifts ==
  ASSUME ComputerInv, Recorder!Remember(make_logger_packet)
  PROVE  /\ status = "ready" /\ status' = "ready"
         /\ \A k \in 1 .. BufLen :
              ring'[k] = IF k < BufLen THEN ring[k + 1] ELSE make_logger_packet
<1> DEFINE p == make_logger_packet
<1>1. status = "ready" /\ status' = "ready" /\ ring' = Append(Tail(ring), p)
  BY DEF Recorder!Remember
<1>2. p \in Packets /\ ring \in Seq(Packets) /\ Len(ring) = BufLen
  BY <1>1, PacketTyped DEF ComputerInv, Typed, Remembered
<1> HIDE DEF p
<1>3. \A k \in 1 .. BufLen : ring'[k] = IF k < BufLen THEN ring[k + 1] ELSE p
  BY <1>1, <1>2, Sizes
<1> QED
  BY <1>1, <1>3 DEF p

(* What a pass that leaves the logger ready has done.                      *)
LEMMA ReadySteps ==
  ASSUME [ComputerNext]_computerVars, status' = "ready"
  PROVE  \/ SetUp
         \/ Fly /\ status = "ready" /\ ring' = ring
         \/ /\ Recorder!Remember(make_logger_packet)
            /\ wait = 0 /\ wait' = LogPeriod /\ UNCHANGED vars
         \/ /\ Sample /\ FSM_state' = FSM_state
            /\ status = "ready" /\ ring' = ring
         \/ UNCHANGED computerVars
<1>1. CASE Fly
  BY <1>1 DEF Fly, recorderVars
<1>2. CASE Log
  <2>1. ~Recorder!Record(make_logger_packet)
    BY DEF Recorder!Record
  <2>2. ~Recorder!Ignore(make_logger_packet)
    BY DEF Recorder!Ignore, Recorder!recorderVars
  <2> QED
    BY <1>2, <2>1, <2>2 DEF Log, NextLog, Recorder!Offer
<1>3. CASE Sample
  BY <1>3 DEF Sample, ReportLaunch, ReportLanding, ReportNothing, Recorder!Launch,
              Recorder!Land, recorderVars
<1>4. CASE Save
  BY <1>4 DEF Save, Recorder!Save
<1>5. CASE Outage
  BY <1>5 DEF Outage, Recorder!PowerOff
<1> QED
  BY <1>1, <1>2, <1>3, <1>4, <1>5 DEF ComputerNext, Loop

LEMMA SampleKeeps ==
  ASSUME Sample
  PROVE  /\ UNCHANGED <<phase, site, level, alt, slow, flown, wait>> /\ wait # 0
         /\ due /\ due' = FALSE
         /\ GoodReading \/ FailedReading
  BY DEF Sample, Reading, GoodReading, FailedReading, worldVars

LEMMA OnThePadStep ==
  ASSUME ComputerInv, OnThePad, [ComputerNext]_computerVars
  PROVE  OnThePad'
<1> SUFFICES ASSUME status' = "ready", phase' = "pad"
             PROVE  \A k \in 1 .. BufLen : ring'[k].phase = "pad"
  BY DEF OnThePad
<1>1. CASE SetUp
  BY <1>1 DEF SetUp, Recorder!Start, Zero
<1>2. CASE Fly /\ status = "ready" /\ ring' = ring
  <2>1. phase = "pad"
    BY <1>2 DEF Fly, World, Rest, Climb, Fall, TouchDown
  <2> QED
    BY <1>2, <2>1 DEF OnThePad
<1>3. CASE Recorder!Remember(make_logger_packet) /\ UNCHANGED vars
  <2>1. phase = "pad" /\ make_logger_packet.phase = "pad"
    BY <1>3 DEF vars, worldVars, make_logger_packet
  <2>2. /\ status = "ready"
        /\ \A k \in 1 .. BufLen :
             ring'[k] = IF k < BufLen THEN ring[k + 1] ELSE make_logger_packet
    BY <1>3, RememberShifts
  <2>3. \A k \in 1 .. BufLen : k < BufLen => ring[k + 1].phase = "pad"
    BY <2>1, <2>2, Sizes DEF OnThePad
  <2> QED
    BY <2>1, <2>2, <2>3
<1>4. CASE Sample /\ status = "ready" /\ ring' = ring
  BY <1>4, SampleKeeps DEF OnThePad
<1>5. CASE UNCHANGED computerVars
  BY <1>5 DEF computerVars, vars, worldVars, recorderVars, OnThePad
<1> QED
  BY <1>1, <1>2, <1>3, <1>4, <1>5, ReadySteps

(* One more gap, at most.                                                  *)
LEMMA OneMoreGap ==
  ASSUME NEW r \in Nat, r >= 1
  PROVE  /\ (r - 1) * MaxGap \in Nat
         /\ ((r + 1) - 1) * MaxGap = (r - 1) * MaxGap + MaxGap
  BY Times

LEMMA OneMorePacket ==
  ASSUME NEW a \in Nat
  PROVE  /\ a * LogPeriod \in Nat
         /\ (a + 1) * LogPeriod = a * LogPeriod + LogPeriod
  BY Times

(* The board goes on climbing or falling.                                  *)
LEMMA AscentMoves ==
  ASSUME OrdinaryFlight, IInv, Waiting, NEW a \in Nat, NEW r \in Nat, Ascent(a, r),
         InAir, Fly, Climb \/ Fall, ring' = ring
  PROVE  Ascent(a, r + 1)'
<1>1. PICK gap \in MinGap .. MaxGap : wait' = IF wait > gap THEN wait - gap ELSE 0
  BY DEF Fly
<1>2. /\ ~due /\ due' = TRUE
      /\ UNCHANGED <<launch_reads, initial, site>>
  BY DEF Climb, Fall, Moved, fsmVars
<1>3. /\ TypeOK /\ r >= 1 /\ a * LogPeriod - wait <= (r - 1) * MaxGap
      /\ \A k \in 1 .. BufLen - a : ring[k].phase = "pad"
  BY DEF IInv, Ascent
<1>4. a * LogPeriod - wait' <= ((r + 1) - 1) * MaxGap
  <2> DEFINE u == a * LogPeriod
             v == (r - 1) * MaxGap
             w == ((r + 1) - 1) * MaxGap
             later == wait'
  <2>1. u \in Nat /\ v \in Nat /\ w = v + MaxGap /\ u - wait <= v
    BY <1>3, OneMoreGap, OneMorePacket
  <2>2. wait \in Nat /\ later \in Int /\ later >= wait - MaxGap /\ MaxGap \in Nat
    BY <1>1, Times DEF Waiting
  <2> HIDE DEF u, v, w, later
  <2>3. u - later <= w
    BY <2>1, <2>2
  <2> QED
    BY <2>3 DEF u, w, later
<1>5. alt \in Nat /\ site \in Nat /\ MinSpeed \in Nat \ {0} /\ alt' \in Int
  BY InRange, Constants DEF IInv, Climb, Fall
<1>6. phase' = "up" => (r + 1) * MinSpeed <= slow' * MinSpeed + alt' - site'
  <2> SUFFICES ASSUME phase' = "up"
               PROVE  (r + 1) * MinSpeed <= slow' * MinSpeed + alt' - site
    BY <1>2
  <2>1. phase = "up" /\ alt' >= alt /\ Paced(alt' - alt)
    BY <1>5 DEF Climb, Fall, InAir
  <2> DEFINE u == r * MinSpeed
             v == (r + 1) * MinSpeed
             s == slow * MinSpeed
             t == slow' * MinSpeed
             b == alt'
  <2>2. u <= s + alt - site /\ u \in Nat /\ v = u + MinSpeed
    BY <2>1, OneMore DEF Ascent
  <2>3. b \in Int /\ s \in Nat /\ t \in Nat /\ s + MinSpeed <= t + (b - alt)
    <3>1. alt' - alt \in Nat
      <4> DEFINE e == alt'
      <4>1. e \in Int /\ e >= alt
        BY <1>5, <2>1
      <4> HIDE DEF e
      <4>2. e - alt \in Nat
        BY <1>5, <4>1
      <4> QED
        BY <4>2 DEF e
    <3> QED
      BY <1>3, <1>5, <2>1, <3>1, PacedMove
  <2> HIDE DEF u, v, s, t, b
  <2>4. v <= t + b - site
    BY <1>5, <2>2, <2>3
  <2> QED
    BY <2>4 DEF v, t, b
<1>7. \/ r + 1 <= ReadsBelow + launch_reads' + (IF due' THEN 1 ELSE 0)
      \/ /\ phase' = "down" /\ launch_reads' = 0
         /\ alt' - initial' * Unit < LaunchAlt * Unit
  <2>1. CASE r <= ReadsBelow + launch_reads
    <3>1. ReadsBelow \in Nat /\ launch_reads \in Nat
      BY <1>3, TimesInAir, Constants DEF TypeOK
    <3> QED
      BY <1>2, <2>1, <3>1
  <2>2. CASE /\ phase = "down" /\ launch_reads = 0
             /\ alt - initial * Unit < LaunchAlt * Unit
    <3>1. phase' = "down" /\ alt' <= alt
      BY <1>5, <2>2 DEF Climb, Fall
    <3> DEFINE p == initial * Unit
               h == LaunchAlt * Unit
    <3>2. p \in Int /\ h \in Int /\ alt - p < h
      BY <1>3, <2>2, Constants DEF TypeOK
    <3> DEFINE b == alt'
    <3>3. b \in Int /\ b <= alt
      BY <1>5, <3>1
    <3> HIDE DEF p, h, b
    <3>4. b - p < h
      BY <1>5, <3>2, <3>3
    <3> QED
      BY <1>2, <2>2, <3>1, <3>4 DEF p, h, b
  <2>3. r <= ReadsBelow + launch_reads \/ ~(r <= ReadsBelow + launch_reads + 0)
    BY <1>3, TimesInAir, Constants DEF TypeOK
  <2> QED
    BY <1>2, <2>1, <2>2, <2>3 DEF Ascent
<1> QED
  BY <1>2, <1>3, <1>4, <1>6, <1>7 DEF Ascent

(* The lift-off.                                                           *)
LEMMA AscentBegins ==
  ASSUME OrdinaryFlight, IInv, Waiting, OnThePad, status = "ready", phase = "pad",
         Fly, Climb, ring' = ring
  PROVE  Ascent(0, 1)'
<1>1. /\ TypeOK /\ Altitudes
      /\ due' = TRUE /\ phase' = "up" /\ UNCHANGED <<launch_reads, site>>
  BY DEF IInv, Climb, Moved, fsmVars
<1>2. \A k \in 1 .. BufLen - 0 : ring'[k].phase = "pad"
  BY Times DEF OnThePad
<1>3. 0 * LogPeriod - wait' <= (1 - 1) * MaxGap
  <2>1. wait' \in Nat
    BY Times DEF Fly, Waiting
  <2>2. 0 * LogPeriod = 0 /\ (1 - 1) * MaxGap = 0
    BY Times
  <2> QED
    BY <2>1, <2>2
<1>4. 1 * MinSpeed <= slow' * MinSpeed + alt' - site'
  <2>1. /\ alt \in Nat /\ site \in Nat /\ MinSpeed \in Nat /\ alt >= site
        /\ alt' \in Int /\ alt' - alt \in Nat /\ Paced(alt' - alt)
    BY <1>1, InRange, Constants DEF Climb, Altitudes
  <2>2. 1 * MinSpeed = MinSpeed
    BY <2>1
  <2> DEFINE s == slow * MinSpeed
             t == slow' * MinSpeed
             b == alt'
  <2>3. b \in Int /\ s \in Nat /\ t \in Nat /\ s + MinSpeed <= t + (b - alt)
    BY <1>1, <2>1, PacedMove
  <2> HIDE DEF s, t, b
  <2>4. MinSpeed <= t + b - site
    BY <2>1, <2>3
  <2> QED
    BY <1>1, <2>2, <2>4 DEF t, b
<1>5. 1 <= ReadsBelow + launch_reads + 1
  BY <1>1, TimesInAir, Constants DEF TypeOK
<1> QED
  BY <1>1, <1>2, <1>3, <1>4, <1>5 DEF Ascent

(* A packet is offered.                                                    *)
LEMMA AscentOffers ==
  ASSUME ComputerInv, NEW a \in Nat, NEW r \in Nat, Ascent(a, r),
         Recorder!Remember(make_logger_packet), wait = 0, wait' = LogPeriod,
         UNCHANGED vars
  PROVE  Ascent(a + 1, r)'
<1>1. UNCHANGED <<phase, alt, slow, site, launch_reads, due, initial>>
  BY DEF vars, fsmVars, worldVars
<1>2. \A k \in 1 .. BufLen - (a + 1) : ring'[k].phase = "pad"
  <2> SUFFICES ASSUME NEW k \in 1 .. BufLen - (a + 1) PROVE ring'[k].phase = "pad"
    OBVIOUS
  <2>1. k \in 1 .. BufLen /\ k < BufLen /\ k + 1 \in 1 .. BufLen - a
    BY Times
  <2>2. ring'[k] = ring[k + 1]
    BY <2>1, RememberShifts
  <2> QED
    BY <2>1, <2>2 DEF Ascent
<1>3. (a + 1) * LogPeriod - wait' <= (r - 1) * MaxGap
  <2> DEFINE u == a * LogPeriod
             v == (a + 1) * LogPeriod
             w == (r - 1) * MaxGap
  <2>1. u \in Nat /\ v = u + LogPeriod /\ w \in Nat /\ u - 0 <= w /\ LogPeriod \in Nat
    BY OneMorePacket, OneMoreGap, Times DEF Ascent
  <2> HIDE DEF u, v, w
  <2>2. v - LogPeriod <= w
    BY <2>1
  <2> QED
    BY <2>2 DEF v, w
<1> QED
  BY <1>1, <1>2, <1>3 DEF Ascent

(* A reading that shows no launch.                                         *)
LEMMA AscentReads ==
  ASSUME OrdinaryFlight, IInv, NEW a \in Nat, NEW r \in Nat, Ascent(a, r), InAir,
         baseline = "pad", FSM_state = 0, Sample, NotInFlight(alt), ring' = ring
  PROVE  Ascent(a, r)'
<1>1. /\ UNCHANGED <<phase, site, alt, slow, wait, initial>> /\ due /\ due' = FALSE
      /\ launch_reads' = ReadsAbove(alt)
  BY SampleKeeps DEF NotInFlight
<1>2. /\ TypeOK /\ Altitudes /\ BaselineRight /\ alt \in Nat /\ site \in Nat
      /\ launch_reads \in Nat
  BY InRange, Constants DEF IInv, TypeOK
<1> DEFINE i == initial * Unit
           h == LaunchAlt * Unit
<1>3. Above(alt) <=> alt - i >= h
  BY <1>2, AboveIs
<1>4. i \in Int /\ h \in Int /\ i <= site + Noise /\ Noise \in Nat
  BY <1>2, Constants DEF BaselineRight, TypeOK
<1>5. \/ r <= ReadsBelow + launch_reads' + 0
      \/ phase = "down" /\ launch_reads' = 0 /\ alt - i < h
  <2>1. CASE Above(alt)
    <3>1. launch_reads < LaunchReads /\ launch_reads' = launch_reads + 1
      BY <1>1, <2>1 DEF IInv, Counters, ReadsAbove
    <3>2. r <= ReadsBelow + launch_reads + 1
      BY <1>1, <1>2, <1>3, <1>4, <2>1 DEF Ascent
    <3> QED
      BY <1>2, <3>1, <3>2, TimesInAir
  <2>2. CASE ~Above(alt) /\ phase = "up"
    <3> DEFINE u == r * MinSpeed
               s == slow * MinSpeed
               m == SlowMoves * MinSpeed
    <3>1. /\ u \in Nat /\ s \in Nat /\ m \in Nat
          /\ u <= s + alt - site /\ s <= m
      BY <1>2, <2>2, OneMore, SlowBound DEF Ascent
    <3>2. alt - i < h
      BY <1>2, <1>3, <1>4, <2>2
    <3> HIDE DEF u, s, m, i, h
    <3>3. u < m + h + Noise
      BY <1>2, <1>4, <3>1, <3>2
    <3>4. r <= ReadsBelow
      BY <3>3, TimesInAir DEF u, m, h
    <3>5. launch_reads' = 0
      BY <1>1, <2>2 DEF ReadsAbove
    <3> QED
      BY <3>4, <3>5, TimesInAir
  <2>3. CASE ~Above(alt) /\ phase = "down"
    <3>1. alt - i < h
      BY <1>2, <1>3, <1>4, <2>3
    <3>2. launch_reads' = 0
      BY <1>1, <2>3 DEF ReadsAbove
    <3> QED
      BY <2>3, <3>1, <3>2
  <2> QED
    BY <2>1, <2>2, <2>3 DEF InAir
<1> QED
  BY <1>1, <1>5 DEF Ascent

LEMMA AscentStep ==
  ASSUME OrdinaryFlight, IInv, ComputerInv, Waiting, NothingRead, OnThePad, AscentTimed,
         [ComputerNext]_computerVars
  PROVE  AscentTimed'
<1> SUFFICES ASSUME status' = "ready", baseline' = "pad", errors' = 0, InAir'
             PROVE  (\E a, r \in Nat : Ascent(a, r))'
  BY DEF AscentTimed
<1>0. TypeOK /\ errors \in Nat
  BY Constants DEF IInv, TypeOK
<1>1. CASE SetUp
  <2>1. status = "off" /\ baseline = "pad"
    BY <1>1 DEF SetUp, Recorder!Start, vars
  <2> QED
    BY <2>1 DEF NothingRead, IInv, BaselineRight
<1>2. CASE Fly /\ status = "ready" /\ ring' = ring
  <2>1. /\ baseline = "pad" /\ errors = 0
    BY <1>2 DEF Fly, World, Rest, Climb, Fall, TouchDown, Moved
  <2>2. Climb \/ Fall
    BY <1>2 DEF Fly, World, Rest, TouchDown, InAir
  <2>3. CASE phase = "pad"
    <3>1. Climb
      BY <2>2, <2>3 DEF Fall
    <3>2. Ascent(0, 1)'
      BY <1>2, <2>3, <3>1, AscentBegins
    <3> QED
      BY <3>2
  <2>4. CASE phase # "pad"
    <3>1. InAir
      BY <2>2, <2>4 DEF Climb, Fall, InAir
    <3>2. PICK a, r \in Nat : Ascent(a, r)
      BY <1>2, <2>1, <3>1 DEF AscentTimed
    <3>3. Ascent(a, r + 1)' /\ r + 1 \in Nat
      BY <1>2, <2>2, <3>1, <3>2, AscentMoves
    <3> QED
      BY <3>3
  <2> QED
    BY <2>3, <2>4
<1>3. CASE /\ Recorder!Remember(make_logger_packet)
           /\ wait = 0 /\ wait' = LogPeriod /\ UNCHANGED vars
  <2>1. baseline = "pad" /\ errors = 0 /\ InAir /\ status = "ready"
    BY <1>3, RememberShifts DEF vars, worldVars, InAir
  <2>2. PICK a, r \in Nat : Ascent(a, r)
    BY <2>1 DEF AscentTimed
  <2>3. Ascent(a + 1, r)' /\ a + 1 \in Nat
    BY <1>3, <2>2, AscentOffers
  <2> QED
    BY <2>3
<1>4. CASE Sample /\ FSM_state' = FSM_state /\ status = "ready" /\ ring' = ring
  <2>1. InAir /\ FSM_state = 0
    BY <1>4, SampleKeeps DEF InAir, ComputerInv, Agreement
  <2>2. GoodReading
    BY <1>0, <1>4, SampleKeeps DEF FailedReading
  <2>3. errors = 0 /\ baseline = "pad" /\ initial # 0
    BY <2>1, <2>2 DEF GoodReading, InAir, IInv, BaselineRight
  <2>4. Judge(alt)
    BY <2>2, InRange DEF GoodReading, IInv
  <2>5. NotInFlight(alt)
    BY <1>4, <2>1, <2>3, <2>4 DEF Judge, TakeBaseline, Moving, Still
  <2>6. PICK a, r \in Nat : Ascent(a, r)
    BY <1>4, <2>1, <2>3 DEF AscentTimed
  <2>7. Ascent(a, r)'
    BY <1>4, <2>1, <2>3, <2>5, <2>6, AscentReads
  <2> QED
    BY <2>7
<1>5. CASE UNCHANGED computerVars
  BY <1>5 DEF computerVars, vars, fsmVars, worldVars, recorderVars, AscentTimed, Ascent,
              InAir
<1> QED
  BY <1>1, <1>2, <1>3, <1>4, <1>5, ReadySteps

(* If the ring spans the time from the lift-off to the launch, its oldest  *)
(* packet is of the pad.                                                   *)
LEMMA LaunchRemembers ==
  ASSUME OrdinaryFlight, IInv, ComputerInv, Waiting, AscentTimed,
         [ComputerNext]_computerVars, RingSpansLaunch,
         status = "ready", status' = "saving",
         baseline = "pad", errors = 0, InAir
  PROVE  Head(ring).phase = "pad"
<1>1. Sample /\ FSM_state = 0 /\ FSM_state' # 0
  <2>1. ~SetUp /\ ~Fly /\ ~Save /\ ~Outage /\ ~UNCHANGED computerVars
    BY DEF SetUp, Fly, Save, Outage, Recorder!Start, Recorder!Save, Recorder!PowerOff,
           recorderVars, computerVars
  <2>2. ~Log
    BY DEF Log, Recorder!Offer, Recorder!Remember, Recorder!Record, Recorder!Ignore,
           Recorder!recorderVars
  <2>3. Sample
    BY <2>1, <2>2 DEF ComputerNext, Loop
  <2> QED
    BY <2>3 DEF Sample, ReportLaunch, ReportLanding, ReportNothing, Recorder!Land,
                recorderVars
<1>2. /\ TypeOK /\ due /\ alt \in Nat /\ wait \in 0 .. LogPeriod /\ initial # 0
      /\ launch_reads < LaunchReads /\ launch_reads \in Nat /\ LaunchReads \in Nat
  BY <1>1, InRange, SampleKeeps, Constants
     DEF IInv, TypeOK, Counters, Waiting, BaselineRight
<1>3. Launched(alt)
  <2>1. ASSUME NEW q, Judge(q) PROVE Launched(q)
    BY <1>1, <1>2, <2>1 DEF Judge, TakeBaseline, NotInFlight, Moving, Still, InFlight
  <2>2. Judge(alt) \/ Judge(ErrorReading)
    BY <1>1, InRange, SampleKeeps DEF GoodReading, FailedReading, IInv
  <2>3. ~Launched(ErrorReading)
    BY FailedNotAbove DEF GoodBaseline
  <2> QED
    BY <2>1, <2>2, <2>3
<1>4. PICK a, r \in Nat : Ascent(a, r)
  BY DEF AscentTimed
<1>5. r <= ReadsToLaunch /\ r >= 1
  <2>1. alt - initial * Unit >= LaunchAlt * Unit
    BY <1>2, <1>3, LaunchedAbove
  <2>2. r <= ReadsBelow + launch_reads + 1 /\ r >= 1
    <3> DEFINE i == initial * Unit
               h == LaunchAlt * Unit
    <3>1. i \in Int /\ h \in Int
      BY <1>2, Constants DEF TypeOK
    <3>2. ~(alt - i < h)
      <4> HIDE DEF i, h
      <4> QED
        BY <1>2, <2>1, <3>1 DEF i, h
    <3> QED
      BY <1>2, <1>4, <3>2 DEF Ascent
  <2> QED
    BY <1>2, <2>2, TimesInAir DEF ReadsToLaunch
<1>6. a < BufLen
  <2> DEFINE u == a * LogPeriod
             v == (r - 1) * MaxGap
             w == (ReadsToLaunch - 1) * MaxGap
             z == (BufLen - 1) * LogPeriod
  <2>1. ReadsToLaunch \in Nat
    BY <1>2, TimesInAir DEF ReadsToLaunch
  <2>2. v <= w /\ v \in Int /\ w \in Int
    <3> DEFINE q == r - 1
               n == ReadsToLaunch - 1
    <3>1. q \in Nat /\ n \in Nat /\ q <= n
      BY <1>5, <2>1
    <3> HIDE DEF q, n
    <3>2. q * MaxGap <= n * MaxGap /\ q * MaxGap \in Int /\ n * MaxGap \in Int
      <4>1. q < n /\ MaxGap # 0 => MaxGap * q + MaxGap <= MaxGap * n
        BY <3>1, Times, MultiplesApart
      <4> QED
        BY <3>1, <4>1, Times
    <3> QED
      BY <3>2 DEF q, n
  <2>3. u - wait <= v /\ w < z /\ u \in Nat /\ z \in Int
    BY <1>4, OneMorePacket, Times DEF Ascent, RingSpansLaunch
  <2>4. z + LogPeriod = LogPeriod * BufLen
    BY Times
  <2>5. BufLen < a => LogPeriod * BufLen + LogPeriod <= LogPeriod * a
    BY Times, MultiplesApart
  <2>6. u = LogPeriod * a /\ LogPeriod * BufLen \in Int
    BY Times
  <2>7. a = BufLen => u = LogPeriod * BufLen
    BY <2>6
  <2> DEFINE y == LogPeriod * BufLen
  <2>8. /\ z + LogPeriod = y /\ y \in Int /\ LogPeriod \in Nat \ {0}
        /\ BufLen < a => y + LogPeriod <= u
        /\ a = BufLen => u = y
    BY <2>4, <2>5, <2>6, <2>7, Times
  <2> HIDE DEF u, v, w, z, y
  <2>9. u < y
    BY <1>2, <2>2, <2>3, <2>8
  <2> QED
    BY <2>3, <2>8, <2>9, Times
<1>7. ring \in Seq(Packets) /\ Len(ring) = BufLen
  BY DEF ComputerInv, Typed, Remembered
<1>8. 1 \in 1 .. BufLen - a
  BY <1>6, Times
<1>9. ring[1].phase = "pad"
  BY <1>4, <1>8 DEF Ascent
<1>10. Head(ring) = ring[1]
  BY <1>7, Times
<1> QED
  BY <1>9, <1>10

-----------------------------------------------------------------------------
(* The packets of the landing                                              *)

(* One more reading, and one more packet.                                  *)
LEMMA OneMoreReading ==
  ASSUME NEW y \in Nat
  PROVE  y * MinGap \in Nat /\ (y + 1) * MinGap = y * MinGap + MinGap
  BY Times

LEMMA PacketTimes ==
  ASSUME NEW p \in Nat
  PROVE  /\ PacketTime \in Nat /\ LogPeriod <= PacketTime
         /\ (p + 1) * PacketTime \in Nat
         /\ ((p + 1) + 1) * PacketTime = (p + 1) * PacketTime + PacketTime
<1>1. PacketTime \in Nat /\ LogPeriod <= PacketTime
  BY Times DEF PacketTime
<1> QED
  BY <1>1

(* On the ground no packet and no reading is counted yet.                  *)
LEMMA DescentAnew ==
  ASSUME Waiting', land_reads' = 0, ring' \in Seq(Packets), due' = FALSE, OrdinaryFlight
  PROVE  Descent(0, 0, 0)'
<1>1. ReadsInAir \in Nat /\ Len(ring') \in Nat
  BY TimesInAir
<1>2. wait' + 0 * MinGap <= (0 + 1) * PacketTime
  <2>1. wait' \in Nat /\ wait' <= LogPeriod
    BY Times DEF Waiting
  <2>2. 0 * MinGap = 0 /\ (0 + 1) * PacketTime = PacketTime
    BY Times, PacketTimes
  <2> QED
    BY <2>1, <2>2, Times, PacketTimes
<1>3. \A k \in Len(ring') - 0 + 1 .. Len(ring') : ring'[k].phase = "ground"
  BY <1>1
<1> QED
  BY <1>1, <1>2, <1>3 DEF Descent

(* Touching down within the band of the reference, the board has passed    *)
(* through it in the air in no more readings than ReadsInAir.              *)
LEMMA DescentBegins ==
  ASSUME OrdinaryFlight, IInv, ComputerInv, Waiting, Fly, TouchDown,
         status \in {"saving", "flight"}, GoodBaseline, ring' = ring
  PROVE  \/ land_alt' = ErrorReading /\ land_reads' < errors'
         \/ Descent(0, land_reads, 0)'
<1>1. /\ phase = "down" /\ ~due /\ due' = TRUE
      /\ UNCHANGED <<land_reads, land_alt, errors>>
  BY DEF TouchDown, Moved, fsmVars
<1>2. FSM_state = 1 /\ TypeOK /\ Altitudes /\ InAir /\ Passing /\ ring \in Seq(Packets)
  BY <1>1 DEF ComputerInv, Agreement, IInv, InAir, Typed
<1>3. CASE land_alt = ErrorReading /\ land_reads < errors
  BY <1>1, <1>3
<1>4. CASE ~(land_alt = ErrorReading /\ land_reads < errors)
  <2>1. /\ land_alt - Band <= alt
        /\ land_reads * MinSpeed <= slow * MinSpeed + 2 * Band + land_alt - alt
    BY <1>1, <1>2, <1>4 DEF Passing, Since
  <2>2. /\ alt \in Nat /\ land_alt \in Int /\ Band \in Nat /\ land_reads \in Nat
        /\ land_reads * MinSpeed \in Nat
    BY <1>2, InRange, Ordinary, Constants, OneMore DEF TypeOK
  <2>3. land_reads * MinSpeed <= SlowMoves * MinSpeed + 3 * Band
    <3> DEFINE p == land_reads * MinSpeed
               s == slow * MinSpeed
               m == SlowMoves * MinSpeed
    <3>1. /\ p \in Nat /\ s \in Nat /\ m \in Nat /\ s <= m
          /\ p <= s + 2 * Band + land_alt - alt
      BY <1>2, <2>1, <2>2, SlowBound
    <3> HIDE DEF p, s, m
    <3>2. p <= m + 3 * Band
      BY <2>1, <2>2, <3>1
    <3> QED
      BY <3>2 DEF p, m
  <2>4. land_reads <= ReadsInAir
    BY <2>2, <2>3, TimesInAir
  <2>5. wait' + (0 + 1) * MinGap <= (0 + 1) * PacketTime
    <3>1. PICK gap \in MinGap .. MaxGap : wait' = IF wait > gap THEN wait - gap ELSE 0
      BY DEF Fly
    <3>2. wait \in Nat /\ wait <= LogPeriod
      BY Times DEF Waiting
    <3>3. (0 + 1) * MinGap = MinGap /\ (0 + 1) * PacketTime = PacketTime
      BY Times, PacketTimes
    <3>4. MinGap <= PacketTime
      <4>1. ReadsPerPacket # 0
        <5>1. ReadsPerPacket = 0 => ReadsPerPacket * MinGap = 0
          BY Times
        <5> QED
          BY <5>1, Times
      <4>2. 0 < ReadsPerPacket => MinGap * 0 + MinGap <= MinGap * ReadsPerPacket
        BY Times, MultiplesApart
      <4> QED
        BY <4>1, <4>2, Times DEF PacketTime
    <3> DEFINE b == wait'
    <3>5. b = IF wait > gap THEN wait - gap ELSE 0
      BY <3>1
    <3> HIDE DEF b
    <3>6. b + MinGap <= PacketTime
      BY <3>1, <3>2, <3>4, <3>5, Times, PacketTimes
    <3> QED
      BY <3>3, <3>6 DEF b
  <2>6. land_reads' = land_reads + 0 /\ 0 <= Len(ring')
    BY <1>1, <1>2, <2>2
  <2>7. \A k \in Len(ring') - 0 + 1 .. Len(ring') : ring'[k].phase = "ground"
    BY <1>2
  <2> QED
    BY <1>1, <2>4, <2>5, <2>6, <2>7 DEF Descent
<1> QED
  BY <1>3, <1>4

(* The board lies still until the next reading.                            *)
LEMMA DescentRests ==
  ASSUME Waiting, NEW p \in Nat, NEW x \in Nat, NEW y \in Nat, Descent(p, x, y),
         Fly, Rest, status \in {"saving", "flight"}, ring' = ring
  PROVE  Descent(p, x, y)'
<1>1. ~due /\ due' = TRUE /\ land_reads' = land_reads
  BY DEF Rest, Moved, fsmVars
<1>2. wait' + (y + 1) * MinGap <= (p + 1) * PacketTime
  <2>1. PICK gap \in MinGap .. MaxGap : wait' = IF wait > gap THEN wait - gap ELSE 0
    BY DEF Fly
  <2> DEFINE u == y * MinGap
             v == (y + 1) * MinGap
             t == (p + 1) * PacketTime
             b == wait'
  <2>2. u \in Nat /\ v = u + MinGap /\ t \in Nat /\ wait + u <= t
    BY <1>1, OneMoreReading, PacketTimes DEF Descent
  <2>3. wait \in Nat /\ wait # 0
    BY <1>1, Times DEF Waiting
  <2>4. u < t => v <= t
    <3> DEFINE n == (p + 1) * ReadsPerPacket
    <3>1. n \in Nat /\ t = MinGap * n /\ u = MinGap * y
      BY Times DEF PacketTime
    <3>2. y < n => MinGap * y + MinGap <= MinGap * n
      BY <3>1, Times, MultiplesApart
    <3>3. n < y => MinGap * n + MinGap <= MinGap * y
      BY <3>1, Times, MultiplesApart
    <3>4. n = y => MinGap * n = MinGap * y
      OBVIOUS
    <3>5. /\ y < n => u + MinGap <= t
          /\ n < y => t + MinGap <= u
          /\ n = y => t = u
      BY <3>1, <3>2, <3>3, <3>4
    <3> HIDE DEF n, u, v, t
    <3> QED
      BY <2>2, <3>1, <3>5, Times
  <2>5. b = IF wait > gap THEN wait - gap ELSE 0
    BY <2>1
  <2> HIDE DEF u, v, t, b
  <2>6. b + v <= t
    BY <2>1, <2>2, <2>3, <2>4, <2>5, Times
  <2> QED
    BY <2>6 DEF b, v, t
<1> QED
  BY <1>1, <1>2 DEF Descent

(* A packet of the ground is offered.                                      *)
LEMMA DescentOffers ==
  ASSUME ComputerInv, NEW p \in Nat, NEW x \in Nat, NEW y \in Nat, Descent(p, x, y),
         Recorder!Record(make_logger_packet), phase = "ground",
         wait = 0, wait' = LogPeriod, UNCHANGED vars
  PROVE  Descent(p + 1, x, y)'
<1> DEFINE q == make_logger_packet
<1>1. /\ ring \in Seq(Packets) /\ q \in Packets /\ q.phase = "ground"
      /\ ring' = Append(ring, q) /\ UNCHANGED <<land_reads, due>>
  BY PacketTyped
     DEF ComputerInv, Typed, Recorder!Record, make_logger_packet, vars, fsmVars
<1> HIDE DEF q
<1>2. Len(ring') = Len(ring) + 1 /\ Len(ring) \in Nat
  BY <1>1
<1>3. \A k \in Len(ring') - (p + 1) + 1 .. Len(ring') : ring'[k].phase = "ground"
  <2> SUFFICES ASSUME NEW k \in Len(ring') - (p + 1) + 1 .. Len(ring')
               PROVE  ring'[k].phase = "ground"
    OBVIOUS
  <2>1. k \in Int /\ k >= Len(ring) - p + 1 /\ k <= Len(ring) + 1 /\ p <= Len(ring)
    BY <1>2 DEF Descent
  <2>2. CASE k = Len(ring) + 1
    BY <1>1, <1>2, <2>2
  <2>3. CASE k <= Len(ring)
    <3>1. k \in Len(ring) - p + 1 .. Len(ring) /\ k \in 1 .. Len(ring)
      BY <1>2, <2>1, <2>3
    <3>2. ring'[k] = ring[k]
      BY <1>1, <3>1
    <3> QED
      BY <3>1, <3>2 DEF Descent
  <2> QED
    BY <1>2, <2>1, <2>2, <2>3
<1>4. wait' + (IF due THEN y + 1 ELSE y) * MinGap <= ((p + 1) + 1) * PacketTime
  <2> DEFINE u == (IF due THEN y + 1 ELSE y) * MinGap
             t == (p + 1) * PacketTime
             v == ((p + 1) + 1) * PacketTime
  <2>1. 0 + u <= t /\ t \in Nat /\ v = t + PacketTime /\ LogPeriod <= PacketTime
    BY PacketTimes DEF Descent
  <2>2. u \in Nat
    BY OneMoreReading, Times
  <2> HIDE DEF u, t, v
  <2>3. LogPeriod + u <= v
    BY <2>1, <2>2, PacketTimes, Times
  <2> QED
    BY <2>3 DEF u, v
<1>5. p + 1 <= Len(ring')
  BY <1>2 DEF Descent
<1> QED
  BY <1>1, <1>3, <1>4, <1>5 DEF Descent

(* The oldest packet of RAM is saved, and is not of the ground.            *)
LEMMA DescentSaves ==
  ASSUME ComputerInv, NEW p \in Nat, NEW x \in Nat, NEW y \in Nat, Descent(p, x, y),
         Recorder!Save, ~GroundInLog', UNCHANGED <<vars, wait>>
  PROVE  Descent(p, x, y)'
<1>1. /\ ring \in Seq(Packets) /\ log \in Seq(Packets) /\ ring # <<>>
      /\ ring' = Tail(ring) /\ log' = Append(log, Head(ring))
      /\ UNCHANGED <<land_reads, due, wait>>
  BY DEF ComputerInv, Typed, InOrder, Recorder!Save, vars, fsmVars
<1>2. /\ Len(ring) \in Nat /\ Len(ring) > 0 /\ Len(ring') = Len(ring) - 1
      /\ Head(ring) = ring[1]
      /\ \A k \in 1 .. Len(ring') : ring'[k] = ring[k + 1]
  BY <1>1
<1>3. ring[1].phase # "ground"
  <2>1. Len(log') \in DOMAIN log' /\ log'[Len(log')] = Head(ring)
    BY <1>1
  <2> QED
    BY <1>2, <2>1 DEF GroundInLog
<1>4. p # Len(ring)
  BY <1>2, <1>3 DEF Descent
<1>5. p <= Len(ring')
  BY <1>2, <1>4 DEF Descent
<1>6. \A k \in Len(ring') - p + 1 .. Len(ring') : ring'[k].phase = "ground"
  <2> SUFFICES ASSUME NEW k \in Len(ring') - p + 1 .. Len(ring')
               PROVE  ring'[k].phase = "ground"
    OBVIOUS
  <2>1. k \in 1 .. Len(ring') /\ k + 1 \in Len(ring) - p + 1 .. Len(ring)
    BY <1>2, <1>5
  <2> QED
    BY <1>2, <2>1 DEF Descent
<1> QED
  BY <1>1, <1>5, <1>6 DEF Descent

(* One reading more near the reference.                                    *)
LEMMA DescentReads ==
  ASSUME TypeOK, NEW p \in Nat, NEW x \in Nat, NEW y \in Nat, Descent(p, x, y),
         due, due' = FALSE, land_reads' = land_reads + 1, wait' = wait, ring' = ring
  PROVE  Descent(p, x, y + 1)'
<1>1. land_reads' = x + (y + 1)
  BY DEF Descent
<1>2. wait + (y + 1) * MinGap <= (p + 1) * PacketTime
  BY DEF Descent
<1> QED
  BY <1>1, <1>2 DEF Descent

(* A failed reading as the reference: only failed readings are near it.    *)
LEMMA FailuresRead ==
  ASSUME OrdinaryFlight, IInv, Reading, land_alt = ErrorReading, land_reads < errors,
         NEW q, Still(q), q = alt \/ FailedReading
  PROVE  land_alt' = ErrorReading' /\ land_reads' < errors'
<1>1. /\ TypeOK /\ Altitudes /\ land_alt' = land_alt /\ land_reads' = land_reads + 1
      /\ Near(q) /\ land_reads \in Nat /\ errors \in Nat
  BY Constants DEF Still, IInv, TypeOK
<1>2. q # alt
  <2> SUFFICES ASSUME q = alt PROVE FALSE
    OBVIOUS
  <2> DEFINE e == 999 * Unit
  <2>1. e \in Nat /\ Band \in Nat /\ Band < e /\ land_alt = -e /\ alt \in Nat
    BY <1>1, Ordinary, Constants, InRange DEF ErrorReading
  <2>2. alt <= land_alt + Band
    BY <1>1, <2>1, NearIs
  <2> HIDE DEF e
  <2> QED
    BY <2>1, <2>2
<1>3. errors' = errors + 1
  BY <1>2 DEF FailedReading
<1> QED
  BY <1>1, <1>3 DEF ErrorReading

(* What a reading in flight, or one that shows the launch, says.           *)
LEMMA FlightReading ==
  ASSUME OrdinaryFlight, IInv, ComputerInv, Sample, FSM_state' # 0, FSM_state # 2
  PROVE  \E q : /\ q = alt \/ (q = ErrorReading /\ FailedReading)
                /\ InFlight(q)
                /\ Moving(q) \/ Still(q)
                /\ initial # 0 /\ baseline' = baseline
<1>1. PICK q : /\ Judge(q)
               /\ \/ q = alt /\ GoodReading
                  \/ q = ErrorReading /\ FailedReading
  BY SampleKeeps, InRange DEF GoodReading, FailedReading, IInv
<1>2. /\ initial # 0 /\ baseline' = baseline
      /\ Moving(q) \/ Still(q)
  <2>1. FSM_state \in {0, 1}
    BY DEF IInv, TypeOK
  <2>2. ~TakeBaseline(q)
    BY DEF TakeBaseline, IInv, TypeOK
  <2>3. ~NotInFlight(q)
    BY <2>1 DEF NotInFlight, InFlight
  <2>4. Moving(q) \/ Still(q)
    BY <1>1, <2>2, <2>3 DEF Judge
  <2> QED
    BY <1>1, <2>4 DEF Moving, Still, GoodReading, FailedReading
<1>3. InFlight(q)
  BY <1>2 DEF Moving, Still
<1>4. q = alt \/ (q = ErrorReading /\ FailedReading)
  BY <1>1
<1> QED
  BY <1>2, <1>3, <1>4

LEMMA DescentSamples ==
  ASSUME OrdinaryFlight, IInv, ComputerInv, Waiting', DescentTimed, Sample,
         status' \in {"saving", "flight"}, phase' = "ground", GoodBaseline',
         Len(log') < room', ~GroundInLog'
  PROVE  \/ land_alt' = ErrorReading' /\ land_reads' < errors'
         \/ (\E p, x, y \in Nat : Descent(p, x, y))'
<1>1. /\ phase = "ground" /\ due /\ due' = FALSE /\ wait' = wait /\ Reading
      /\ ring' = ring /\ ring' \in Seq(Packets) /\ TypeOK
      /\ \/ status = "ready" /\ FSM_state = 0 /\ FSM_state' # 0
         \/ /\ status = "flight" /\ FSM_state = 1 /\ FSM_state' = 1
            /\ UNCHANGED <<log, room>>
  BY SampleKeeps DEF Sample, ReportLaunch, ReportLanding, ReportNothing, Recorder!Launch,
     Recorder!Land, recorderVars, ComputerInv, Typed, Agreement
<1>2. PICK q : /\ q = alt \/ (q = ErrorReading /\ FailedReading)
               /\ InFlight(q)
               /\ Moving(q) \/ Still(q)
               /\ initial # 0 /\ baseline' = baseline
  BY <1>1, FlightReading
<1>3. GoodBaseline
  BY <1>2 DEF GoodBaseline
<1>4. CASE Moving(q)
  <2>1. Descent(0, 0, 0)'
    BY <1>1, <1>4, DescentAnew DEF Moving
  <2> QED
    BY <2>1
<1>5. CASE Still(q)
  <2>1. status = "flight" /\ FSM_state = 1 /\ UNCHANGED <<log, room>>
    <3>1. FSM_state # 0
      BY <1>2, <1>3, <1>5, LaunchSeen, FailedNotAbove DEF Still, InFlight
    <3> QED
      BY <1>1, <3>1
  <2>2. \/ land_alt = ErrorReading /\ land_reads < errors
        \/ \E p, x, y \in Nat : Descent(p, x, y)
    BY <1>1, <1>3, <2>1 DEF DescentTimed, GroundInLog
  <2>3. CASE land_alt = ErrorReading /\ land_reads < errors
    BY <1>1, <1>2, <1>5, <2>3, FailuresRead
  <2>4. CASE \E p, x, y \in Nat : Descent(p, x, y)
    <3>1. PICK p, x, y \in Nat : Descent(p, x, y)
      BY <2>4
    <3>2. land_reads' = land_reads + 1 /\ y + 1 \in Nat
      BY <1>5 DEF Still
    <3>3. Descent(p, x, y + 1)'
      BY <1>1, <3>1, <3>2, DescentReads
    <3> QED
      BY <3>2, <3>3
  <2> QED
    BY <2>2, <2>3, <2>4
<1> QED
  BY <1>2, <1>4, <1>5

LEMMA DescentStep ==
  ASSUME OrdinaryFlight, IInv, ComputerInv, Waiting, RingFits, DescentTimed,
         [ComputerNext]_computerVars
  PROVE  DescentTimed'
<1> DEFINE Counted == \E p, x, y \in Nat : Descent(p, x, y)
           Failures == land_alt = ErrorReading /\ land_reads < errors
<1> SUFFICES ASSUME status' \in {"saving", "flight"}, phase' = "ground", GoodBaseline',
                    Len(log') < room', ~GroundInLog'
             PROVE  Failures' \/ Counted'
  BY DEF DescentTimed
<1>1. Waiting'
  BY WaitingStep
<1>2. ASSUME status \in {"saving", "flight"}, phase = "ground", GoodBaseline,
             Len(log) < room, ~GroundInLog
      PROVE  Failures \/ Counted
  BY <1>2 DEF DescentTimed
<1>3. CASE SetUp
  BY <1>3 DEF SetUp, Recorder!Start
<1>4. CASE Fly
  <2>1. UNCHANGED <<status, ring, log, room, baseline, land_alt, land_reads, errors>>
    BY <1>4 DEF Fly, recorderVars, World, Rest, Climb, Fall, TouchDown, Moved, fsmVars
  <2>2. GoodBaseline /\ ~GroundInLog /\ Len(log) < room /\ status \in {"saving", "flight"}
    BY <2>1 DEF GoodBaseline, GroundInLog
  <2>3. CASE Rest
    <3>1. Failures \/ Counted
      BY <1>2, <2>2, <2>3 DEF Rest
    <3>2. CASE Failures
      BY <2>1, <3>2 DEF ErrorReading
    <3>3. CASE Counted
      <4>1. PICK p, x, y \in Nat : Descent(p, x, y)
        BY <3>3
      <4>2. Descent(p, x, y)'
        BY <1>4, <2>1, <2>2, <2>3, <4>1, DescentRests
      <4> QED
        BY <4>2
    <3> QED
      BY <3>1, <3>2, <3>3
  <2>4. CASE TouchDown
    <3>1. land_reads \in Nat /\ 0 \in Nat
      BY Constants DEF IInv, TypeOK
    <3>2. \/ land_alt' = ErrorReading /\ land_reads' < errors'
          \/ Descent(0, land_reads, 0)'
      BY <1>4, <2>1, <2>2, <2>4, DescentBegins
    <3>3. CASE Descent(0, land_reads, 0)'
      <4>1. PICK x \in Nat : x = land_reads /\ x = land_reads'
        BY <2>1, <3>1
      <4>2. Descent(0, x, 0)'
        BY <3>3, <4>1 DEF Descent
      <4> QED
        BY <3>1, <4>2
    <3> QED
      BY <3>2, <3>3 DEF ErrorReading
  <2> QED
    BY <1>4, <2>3, <2>4 DEF Fly, World, Climb, Fall
<1>5. CASE Log
  <2>1. /\ wait = 0 /\ wait' = LogPeriod /\ UNCHANGED vars
        /\ Recorder!Record(make_logger_packet)
    <3>1. ~Recorder!Ignore(make_logger_packet)
      <4> SUFFICES ASSUME Recorder!Ignore(make_logger_packet) PROVE FALSE
        OBVIOUS
      <4>1. status = "flight" /\ Len(log) >= room /\ UNCHANGED <<log, room>>
        BY DEF Recorder!Ignore, Recorder!recorderVars
      <4>2. room \in Int /\ Len(log) \in Int
        BY Sizes DEF RingFits, ComputerInv, Typed
      <4>3. ~(Len(log) < room)
        BY <4>1, <4>2
      <4> QED
        BY <4>1, <4>3
    <3> QED
      BY <1>5, <3>1 DEF Log, NextLog, Recorder!Offer, Recorder!Remember
  <2>2. /\ status = "flight" /\ Len(log) < room /\ log' = log /\ phase = "ground"
        /\ GoodBaseline /\ ~GroundInLog
    BY <2>1 DEF Recorder!Record, vars, worldVars, GoodBaseline, GroundInLog
  <2>3. CASE Failures
    BY <2>1, <2>3 DEF vars, fsmVars, ErrorReading
  <2>4. CASE Counted
    <3>1. PICK p, x, y \in Nat : Descent(p, x, y)
      BY <2>4
    <3>2. Descent(p + 1, x, y)' /\ p + 1 \in Nat
      BY <2>1, <2>2, <3>1, DescentOffers
    <3> QED
      BY <3>2
  <2> QED
    BY <1>2, <2>2, <2>3, <2>4
<1>6. CASE Sample
  BY <1>1, <1>6, DescentSamples DEF ErrorReading
<1>7. CASE Save
  <2>1. Recorder!Save /\ UNCHANGED <<vars, wait>>
    BY <1>7 DEF Save
  <2>2. /\ status = "saving" /\ phase = "ground" /\ GoodBaseline
        /\ log \in Seq(Packets) /\ ring \in Seq(Packets) /\ ring # <<>>
        /\ log' = Append(log, Head(ring)) /\ room' = room
    BY <2>1 DEF Recorder!Save, vars, worldVars, GoodBaseline, ComputerInv, Typed, InOrder
  <2>3. Len(log') = Len(log) + 1 /\ \A k \in DOMAIN log : k \in DOMAIN log' /\ log'[k] = log[k]
    BY <2>2
  <2>4. ~GroundInLog
    BY <2>3 DEF GroundInLog
  <2>5. Len(log) < room
    <3>1. room \in Int /\ Len(log) \in Int
      BY <2>2, Sizes DEF RingFits
    <3> QED
      BY <2>2, <2>3, <3>1
  <2>6. CASE Failures
    BY <2>1, <2>6 DEF vars, fsmVars, ErrorReading
  <2>7. CASE Counted
    <3>1. PICK p, x, y \in Nat : Descent(p, x, y)
      BY <2>7
    <3>2. Descent(p, x, y)'
      BY <2>1, <3>1, DescentSaves
    <3> QED
      BY <3>2
  <2> QED
    BY <1>2, <2>2, <2>4, <2>5, <2>6, <2>7
<1>8. CASE Outage
  BY <1>8 DEF Outage, Recorder!PowerOff
<1>9. CASE UNCHANGED computerVars
  BY <1>9 DEF computerVars, vars, fsmVars, worldVars, recorderVars, DescentTimed, Descent,
              GoodBaseline, GroundInLog, ErrorReading
<1> QED
  BY <1>3, <1>4, <1>5, <1>6, <1>7, <1>8, <1>9 DEF ComputerNext, Loop

-----------------------------------------------------------------------------
(* At the landing the packets of the ground have not all fitted in RAM.    *)
LEMMA LandingIsLogged ==
  ASSUME OrdinaryFlight, IInv, IInv', ComputerInv, Waiting, RingFits, DescentTimed,
         LandingOutlastsRing, MaxErrors < LandReads,
         Sample, status = "flight", FSM_state = 1, FSM_state' = 2, baseline' # "failed",
         Len(log) < room
  PROVE  GroundInLog
<1> SUFFICES ASSUME ~GroundInLog PROVE FALSE
  OBVIOUS
<1>1. /\ phase = "ground" /\ due /\ Reading /\ wait \in Nat /\ wait # 0 /\ TypeOK
      /\ Len(ring) < BufLen
  <2>1. phase' = "ground" /\ Len(ring) < BufLen /\ TypeOK /\ wait \in 0 .. LogPeriod
    BY DEF IInv, LandingIsReal, RingFits, Waiting
  <2>2. phase' = phase /\ due /\ wait # 0 /\ Reading
    BY SampleKeeps DEF Sample
  <2> QED
    BY <2>1, <2>2, Times
<1>2. PICK q : /\ q = alt \/ (q = ErrorReading /\ FailedReading)
               /\ InFlight(q)
               /\ Moving(q) \/ Still(q)
               /\ initial # 0 /\ baseline' = baseline
  BY FlightReading
<1>3. Still(q) /\ GoodBaseline
  BY <1>1, <1>2 DEF Moving, GoodBaseline, IInv, TypeOK, Baselines, BaselineRight
<1>4. /\ land_reads' = land_reads + 1 /\ land_reads + 1 >= LandReads
      /\ land_reads \in Nat /\ LandReads \in Nat
  BY <1>1, <1>3, Constants DEF Still, Landed, TypeOK
<1>5. ~(land_alt = ErrorReading /\ land_reads < errors)
  <2> SUFFICES ASSUME land_alt = ErrorReading, land_reads < errors PROVE FALSE
    OBVIOUS
  <2>1. land_reads' < errors'
    BY <1>1, <1>2, <1>3, FailuresRead
  <2>2. errors' \in 0 .. MaxErrors /\ MaxErrors \in Nat
    BY Constants DEF IInv, TypeOK
  <2> QED
    BY <1>4, <2>1, <2>2
<1>6. PICK p, x, y \in Nat : Descent(p, x, y)
  BY <1>1, <1>3, <1>5 DEF DescentTimed
<1>7. y + 1 >= BufLen * ReadsPerPacket
  <2>1. land_reads = x + y /\ x <= ReadsInAir
    BY <1>6 DEF Descent
  <2>2. LandReads - ReadsInAir >= BufLen * ReadsPerPacket /\ BufLen * ReadsPerPacket \in Nat
    BY Times DEF LandingOutlastsRing
  <2> DEFINE n == BufLen * ReadsPerPacket
  <2>3. LandReads - ReadsInAir >= n /\ n \in Nat
    BY <2>2
  <2> HIDE DEF n
  <2>4. y + 1 >= n
    BY <1>4, <2>1, <2>3, TimesInAir
  <2> QED
    BY <2>4 DEF n
<1>8. wait + (y + 1) * MinGap <= (p + 1) * PacketTime /\ p < BufLen /\ Len(ring) \in Nat
  BY <1>1, <1>6, Times DEF Descent, ComputerInv, Typed
<1> DEFINE n == BufLen * ReadsPerPacket
           m == (p + 1) * ReadsPerPacket
<1>9. /\ n \in Nat /\ m \in Nat /\ n <= y + 1
      /\ (p + 1) * PacketTime = MinGap * m /\ (y + 1) * MinGap = MinGap * (y + 1)
  BY <1>7, Times DEF PacketTime
<1>10. m <= n
  <2>1. p + 1 \in Nat /\ p + 1 <= BufLen
    BY <1>8, Times
  <2>2. p + 1 < BufLen /\ ReadsPerPacket # 0 =>
          ReadsPerPacket * (p + 1) + ReadsPerPacket <= ReadsPerPacket * BufLen
    BY <2>1, Times, MultiplesApart
  <2>3. m = ReadsPerPacket * (p + 1) /\ n = ReadsPerPacket * BufLen
    BY <2>1, Times
  <2>4. p + 1 = BufLen => m = n
    OBVIOUS
  <2>5. ReadsPerPacket = 0 => m = 0 /\ n = 0
    BY <2>1, Times
  <2>6. p + 1 < BufLen /\ ReadsPerPacket # 0 => m + ReadsPerPacket <= n
    BY <2>2, <2>3
  <2> HIDE DEF m, n
  <2> QED
    BY <1>9, <2>1, <2>4, <2>5, <2>6, Times
<1>11. MinGap * m <= MinGap * (y + 1)
  <2>1. m < y + 1 => MinGap * m + MinGap <= MinGap * (y + 1)
    BY <1>9, Times, MultiplesApart
  <2> HIDE DEF m, n
  <2>2. m <= y + 1
    BY <1>9, <1>10
  <2>3. m = y + 1 => MinGap * m = MinGap * (y + 1)
    OBVIOUS
  <2> DEFINE u == MinGap * m
             v == MinGap * (y + 1)
  <2>4. u \in Int /\ v \in Int
    BY <1>9, Times
  <2>5. (m < y + 1 => u + MinGap <= v) /\ (m = y + 1 => u = v)
    BY <2>1, <2>3
  <2> HIDE DEF u, v
  <2>6. u <= v
    BY <1>9, <2>2, <2>4, <2>5, Times
  <2> QED
    BY <2>6 DEF u, v
<1> DEFINE u == MinGap * m
           v == MinGap * (y + 1)
<1>12. u \in Int /\ v \in Int /\ u <= v /\ wait + v <= u
  BY <1>8, <1>9, <1>11, Times
<1> HIDE DEF u, v
<1> QED
  BY <1>1, <1>12

LEMMA TouchdownStep ==
  ASSUME OrdinaryFlight, IInv, IInv', ComputerInv, ComputerInv', Waiting, RingFits,
         DescentTimed, TouchdownRecorded, [ComputerNext]_computerVars
  PROVE  TouchdownRecorded'
<1> SUFFICES ASSUME LandingOutlastsRing, MaxErrors < LandReads, status' = "landed",
                    baseline' # "failed", Len(log') < room'
             PROVE  GroundInLog'
  BY DEF TouchdownRecorded, LandingOutlastsRing, GroundInLog, ReadsInAir, ReadsPerPacket
<1>1. \/ status = "landed" /\ UNCHANGED <<log, room>>
      \/ /\ Sample /\ status = "flight" /\ FSM_state = 1 /\ FSM_state' = 2
         /\ UNCHANGED <<log, room>>
  <2>1. CASE SetUp
    BY <2>1 DEF SetUp, Recorder!Start
  <2>2. CASE Fly
    BY <2>2 DEF Fly, recorderVars
  <2>3. CASE Log
    BY <2>3 DEF Log, Recorder!Offer, Recorder!Remember, Recorder!Record, Recorder!Ignore,
                Recorder!recorderVars
  <2>4. CASE Sample
    BY <2>4 DEF Sample, ReportLaunch, ReportLanding, ReportNothing, Recorder!Launch,
                Recorder!Land, recorderVars
  <2>5. CASE Save
    BY <2>5 DEF Save, Recorder!Save
  <2>6. CASE Outage
    BY <2>6 DEF Outage, Recorder!PowerOff
  <2>7. CASE UNCHANGED computerVars
    BY <2>7 DEF computerVars, recorderVars
  <2> QED
    BY <2>1, <2>2, <2>3, <2>4, <2>5, <2>6, <2>7 DEF ComputerNext, Loop
<1>2. CASE status = "landed" /\ UNCHANGED <<log, room>>
  <2>1. initial # 0
    BY <1>2 DEF ComputerInv, Agreement, IInv, TypeOK
  <2>2. baseline # "failed"
    <3>1. [Next]_vars
      BY DetectionSteps
    <3>2. CASE PowerLoss
      <4>1. FSM_state' = 0
        BY <3>2 DEF PowerLoss
      <4> QED
        BY <4>1 DEF ComputerInv, Agreement
    <3>3. CASE World \/ Reading \/ UNCHANGED vars
      BY <2>1, <3>3 DEF World, Rest, Climb, Fall, TouchDown, Moved, Reading, GoodReading,
                        FailedReading, vars
    <3> QED
      BY <3>1, <3>2, <3>3 DEF Next
  <2> QED
    BY <1>2, <2>2 DEF TouchdownRecorded, GroundInLog
<1>3. CASE /\ Sample /\ status = "flight" /\ FSM_state = 1 /\ FSM_state' = 2
           /\ UNCHANGED <<log, room>>
  BY <1>3, LandingIsLogged DEF GroundInLog
<1> QED
  BY <1>1, <1>2, <1>3

-----------------------------------------------------------------------------
LEMMA TimedInit == ComputerInit => TimedInv
<1> SUFFICES ASSUME ComputerInit PROVE TimedInv
  OBVIOUS
<1>1. /\ status = "off" /\ wait = 0 /\ initial = 0 /\ room = 0
  BY DEF ComputerInit, Recorder!Init, Init
<1>2. Waiting /\ RingFits /\ NothingRead
  BY <1>1, Times DEF Waiting, RingFits, NothingRead
<1>3. OnThePad /\ AscentTimed /\ DescentTimed /\ TouchdownRecorded
  BY <1>1 DEF OnThePad, AscentTimed, DescentTimed, TouchdownRecorded
<1> QED
  BY <1>2, <1>3 DEF TimedInv

LEMMA TimedStep ==
  ASSUME OrdinaryFlight, IInv, IInv', ComputerInv, ComputerInv', TimedInv,
         [ComputerNext]_computerVars
  PROVE  TimedInv'
<1>1. Waiting' /\ RingFits' /\ NothingRead' /\ OnThePad'
  BY WaitingStep, RingFitsStep, NothingReadStep, OnThePadStep DEF TimedInv
<1>2. AscentTimed' /\ DescentTimed' /\ TouchdownRecorded'
  BY AscentStep, DescentStep, TouchdownStep DEF TimedInv
<1> QED
  BY <1>1, <1>2 DEF TimedInv

(* The inductive invariant of the loop in time: how long the board has     *)
(* been climbing or lying still, against what is in RAM.                   *)
THEOREM TimedInvariance ==
  ASSUME OrdinaryFlight
  PROVE  ComputerSpec => [](IInv /\ ComputerInv /\ TimedInv)
<1> DEFINE Everything == IInv /\ ComputerInv /\ TimedInv
<1>1. ComputerInit => Everything
  BY InvInit, ComputerInvInit, TimedInit DEF ComputerInit
<1>2. Everything /\ [ComputerNext]_computerVars => Everything'
  <2> SUFFICES ASSUME Everything, [ComputerNext]_computerVars PROVE Everything'
    OBVIOUS
  <2>1. IInv'
    BY DetectionSteps, InvStep
  <2>2. ComputerInv'
    BY ComputerInvStep
  <2>3. TimedInv'
    BY <2>1, <2>2, TimedStep
  <2> QED
    BY <2>1, <2>2, <2>3
<1> QED
  BY <1>1, <1>2, PTL DEF ComputerSpec

(* The log of an ordinary flight that is in the air when it is detected    *)
(* starts on the pad, if the ring spans the time that detection takes      *)
(* (data_logger.h 10, main.cpp 424-434).                                   *)
THEOREM LiftoffIsRecorded ==
  ASSUME OrdinaryFlight PROVE ComputerSpec => LiftoffRecorded
<1>1. ASSUME IInv, ComputerInv, TimedInv, [ComputerNext]_computerVars
      PROVE  [/\ RingSpansLaunch
              /\ status = "ready" /\ status' = "saving"
              /\ baseline = "pad" /\ errors = 0 /\ phase \in {"up", "down"}
              => Head(ring).phase = "pad"]_computerVars
  BY <1>1, LaunchRemembers DEF TimedInv, InAir
<1> QED
  BY <1>1, TimedInvariance, PTL DEF ComputerSpec, LiftoffRecorded

(* The log of an ordinary flight ends on the ground, if the landing takes  *)
(* longer than the packets that fit in RAM, which are never saved          *)
(* (main.cpp 442-456).                                                     *)
THEOREM TouchdownIsRecorded ==
  ASSUME OrdinaryFlight PROVE ComputerSpec => []TouchdownRecorded
<1>1. TimedInv => TouchdownRecorded
  BY DEF TimedInv
<1> QED
  BY <1>1, TimedInvariance, PTL
=============================================================================
