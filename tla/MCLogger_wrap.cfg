CONSTANTS
  Blank = Blank
  Garbled = Garbled
  PageSlots = 2
  SectorPages = 3
  BlockSectors = 1
  FlightBlocks = 2
  BufLen = 2
  MaxBoots = 3
  MaxWrites = 2
SPECIFICATION OrdinarySpec
PROPERTIES CommitPreservesFlightData
CHECK_DEADLOCK FALSE
