CONSTANTS
  Modules = {1}
  Profile <- MCProfile
  MaxInputs = 2
INIT MCInit
NEXT Next
CHECK_DEADLOCK FALSE
INVARIANT SentInSession
