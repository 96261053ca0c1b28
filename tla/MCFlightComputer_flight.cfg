CONSTANTS
  Unit = 1
  LaunchAlt = 2
  LaunchReads = 2
  LandDelta = 2
  LandReads = 16
  Sites = {3}
  Noise = 0
  MinSpeed = 1
  SlowMoves = 1
  Speed = 2
  MaxHeight = 4
  MaxErrors = 1
  MaxBoots = 1
  BufLen = 3
  Room = 9
  LogPeriod = 4
  MinGap = 1
  MaxGap = 2
SPECIFICATION ComputerSpec
INVARIANTS Agreement StatesInOrder TouchdownRecorded
PROPERTIES LiftoffRecorded FlightIsClosed
