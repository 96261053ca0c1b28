CONSTANTS
  None = None
  SivValues = {5}
  MaxPackets = 2
  MaxStray = 0
SPECIFICATION Spec
INVARIANTS StatusShowsFlight
