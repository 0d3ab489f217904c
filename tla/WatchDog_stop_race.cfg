CONSTANTS
  Children <- MCChildren
  PipeCap = 1
CHECK_DEADLOCK FALSE
SPECIFICATION Spec
PROPERTY StopTerminates
