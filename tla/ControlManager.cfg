SPECIFICATION FairSpec
CONSTANTS
  none = none
  Setpoints <- MCBothWays
  NoOrder <- none
  StartupTimeout = 2
  RampHold = 2
  FaultRetryCount = 1
  ChargeRamp = 2
  DischargeRamp = 4
  Cooldown = 1
INVARIANT ProtectionStopsDispatch
PROPERTIES NoDirectReversal EmergencyWins CutoffStopsDispatch SequencesEnd FaultRecovers
