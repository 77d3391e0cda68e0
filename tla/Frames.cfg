SPECIFICATION FairSpec
CONSTANTS
  Null = Null
  ByteBits = 2
  Schemas <- SomeSchemas
  Values <- SomeValues
  MaxRows = 4
  MaxCells = 6
  ThreadRows = 1
  MaxThreads = 3
  Rowers = {"sum", "count", "set", "projects", "uuids", "names", "print"}
  Lookups <- SomeLookups
INVARIANTS TypeOK RoundTrip EachRowOnce MergedAsMapped
PROPERTIES ImplementsTable MapReturns
CHECK_DEADLOCK FALSE
