CONSTANTS
  MaxCtime = 3
  MaxOutages = 2
  MaxConfigs = 3
SPECIFICATION Spec
CHECK_DEADLOCK FALSE
INVARIANT SameMeansUnchanged
