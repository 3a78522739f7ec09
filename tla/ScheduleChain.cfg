SPECIFICATION FairSpec
CONSTANTS
  Day = 4
  Interval = 2
  Configs <- MCConfigs
  Torn = Torn
  MaxWrites = 2
  MaxMishaps = 1
INVARIANTS TypeOK FirstWindowThatIsOn ScheduleIsObeyed
PROPERTIES ReloadArrives
