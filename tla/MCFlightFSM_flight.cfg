CONSTANTS
  Unit = 2
  LaunchAlt = 3
  LaunchReads = 3
  LandDelta = 1
  LandReads = 5
  Sites = {0, 1, 5}
  Noise = 1
  MinSpeed = 1
  SlowMoves = 1
  Speed = 4
  MaxHeight = 13
  MaxErrors = 5
  MaxBoots = 1
SPECIFICATION Spec
INVARIANTS IInv TypeOK LaunchIsReal LaunchDetected LandingIsReal
PROPERTIES LandingDetected
