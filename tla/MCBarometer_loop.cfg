CONSTANTS
  MaxAge = 4
  MaxFaults = 3
SPECIFICATION Spec
INVARIANTS NoVainWait
PROPERTIES AltitudesAreNew AltitudeComesBack
