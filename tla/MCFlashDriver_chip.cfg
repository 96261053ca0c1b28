CONSTANTS
  PageSlots = 2
  SectorPages = 2
  BlockSectors = 2
  FlightBlocks = 1
  Blank = Blank
  Garbled = Garbled
  Value = Value
  Contents <- SomeContents
  Requests <- SomeRequests
  Buses = {"chip", "zeros", "ones"}
SPECIFICATION Spec
INVARIANTS IInv TypeOK CommandsTaken
PROPERTIES CallsAtomic CallsReturn
