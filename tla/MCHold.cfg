SPECIFICATION Spec
CONSTANTS
  Words <- GivenWords
  Value <- GivenValue
  Rank <- GivenRank
  MaxTables = 2
  MaxCols = 2
  FirstCap = 1
  CellBytes = 1
  SpareBytes = 2
  Headers <- GivenHeaders
  Stowed <- GivenStowed
  Sought <- GivenSought
  MaxRows = 3
  MaxCalls = 5
  MaxMishaps = 1
INVARIANTS TypeOK KeepFilters RoundTrip
PROPERTY OrderSorts
CHECK_DEADLOCK FALSE
