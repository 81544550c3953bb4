SPECIFICATION FairSpec
CONSTANTS
  Channels = {1, 2}
  Threads = {1, 2}
  MaxRetry = 2
  MaxUsed = 1
  Faults = {"open", "create", "start", "read", "unplug"}
INVARIANT SingleEngine
INVARIANT ReadsOpenPcm
INVARIANT QuietWhenStopped
PROPERTY StopAnswered
CHECK_DEADLOCK FALSE
