SPECIFICATION Spec
CHECK_DEADLOCK FALSE
CONSTANTS
  Streams = {"TELEMETRY"}
  Kinds = {"DTC", "MARK", "CONFIG"}
  Scopes = {"SENSOR", "NETWORK"}
  Trigger <- MCTrigger
  Concerns <- MCConcerns
  Covers <- MCCovers
  Ages <- MCLate
  Pre = 1
  Post = 3
  Span = 5
  QueueMax = 2
  PendingMax = 2
  MaxActive = 1
  ChunkRows = 2
  ChunkTime = 3
  MaxEvents = 2
  MaxRows = 2
  MaxInputs = 3
  MaxFails = 0
  LastSeen = 4
  Horizon = 8
INVARIANT
  MarkIsCovered
