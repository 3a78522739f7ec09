SPECIFICATION FairSpec
CONSTANTS
  w1 = w1
  py = py
  c = c
  Words = {"setpoint", "command"}
  Writers = {w1}
  Owns <- WholeSection
  Readers = {py, c}
  Spinning = {c}
  MaxRetries = 2
  MaxWrites = 2
  MaxCrashes = 1
PROPERTIES AtomicUntilACrash ReadsReturn
