CONSTANTS
  None = None
  SivValues = {31, 33}
  MaxPackets = 2
  MaxStray = 2
SPECIFICATION Spec
INVARIANTS LinesAreThePackets LinesAreTrue
PROPERTIES ListensAgain
