SPECIFICATION LoggerFairSpec
CONSTANTS
  HoursPerDay = 2
  MonthDays = 2
  StopDay = 2
  LongRange = 2
  ParquetRetention = 0
  EventRetention = 1
  Threshold = 3
  Capacity = 3
  SyncEvery = 2
  FirstHour = 1
  MaxHours = 4
  MaxRecords = 3
  MaxOther = 1
  MaxMishaps = 1
INVARIANTS LoggerTypeOK
PROPERTIES EventsAreKept EventsOutliveTelemetry PressureEnds QueriesAreWhole
