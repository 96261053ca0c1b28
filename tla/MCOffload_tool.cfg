CONSTANTS
  Blank = Blank
  Garbled = Garbled
  PageSlots = 2
  SectorPages = 2
  BlockSectors = 2
  FlightBlocks = 2
  BufLen = 2
  MaxBoots = 4
  MaxWrites = 2
  MaxSessions = 1
SPECIFICATION OffloadSpec
INVARIANTS DeletesExactly ResetFormats RowsOfOneFlight TurnKept StartTimeMatches
CHECK_DEADLOCK FALSE
