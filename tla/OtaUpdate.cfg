SPECIFICATION FairSpec
CONSTANTS
  Tasks = {t1, t2}
  Versions <- MCVersions
  Factory = "v1"
  Quality <- MCQuality
  Bare = {"bare"}
  MaxRequests = 2
  MaxMishaps = 2
INVARIANTS OnePipeline UpdateSelectsComplete
PROPERTIES NeverBricked UnhealthyIsLeft
