SPECIFICATION Spec
CONSTANTS
  Day = 4
  Interval = 2
  Configs <- MCConfigs
  Torn = Torn
  MaxWrites = 0
  MaxMishaps = 1
INVARIANT ChargeWindowsCharge
