CONSTANTS
  Modules = {1, 2}
  Profile <- MCProfile
  MaxInputs = 2
INIT MCInit
NEXT Next
CHECK_DEADLOCK FALSE
INVARIANT LineReachesItsSensor
