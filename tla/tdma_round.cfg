SPECIFICATION Spec
CONSTANTS
    Follower = {1, 2, 3, 4, 5}
    TickMod = 256
    SyncMod = 83
    AbsencePeriods = 5
    MaxChanges = 2
INVARIANT HeardInTime
