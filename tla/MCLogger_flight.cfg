CONSTANTS
  Blank = Blank
  Garbled = Garbled
  PageSlots = 2
  SectorPages = 2
  BlockSectors = 2
  FlightBlocks = 2
  BufLen = 2
  MaxBoots = 2
  MaxWrites = 18
  
SPECIFICATION Spec
INVARIANTS IInv TypeOK FlightReadsBack NothingDropped AddrInBounds SettingsRestored
PROPERTIES OtherFlightUntouched ProgramsErasedOnly LaunchRecorded IsFlightRecorder
CHECK_DEADLOCK FALSE
