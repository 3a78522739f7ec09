SPECIFICATION FairSpec
CONSTANTS
  Inputs <- MCInputs
  MaxPending = 1
  MaxRestarts = 1
INVARIANT LatchesDriveThePins
PROPERTIES OkMeansReleased EStopStopsThePcs ResetsEventuallyRelease
