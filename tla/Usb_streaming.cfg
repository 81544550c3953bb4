SPECIFICATION FairSpec
CONSTANTS
  Users <- Backends
  Threads = {1, 2}
  MaxRemoveCb = 5
  Serial = TRUE
  NumTransfers <- TwoAndOne
  Restarted = {"video"}
  Faults = {"init", "unplug", "events", "release"}
INVARIANT CountExact
INVARIANT StoppedIsQuiet
INVARIANT ThreadServes
INVARIANT ContextLives
CHECK_DEADLOCK FALSE
PROPERTY CallsReturn
PROPERTY UnplugNoticed
