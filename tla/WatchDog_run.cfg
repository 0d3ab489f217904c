CONSTANTS
  Children <- MCChildren
  PipeCap = 1
CHECK_DEADLOCK FALSE
SPECIFICATION SpecTimeout
INVARIANT NoZombieWhileIdle
PROPERTY StopTerminates
