SPECIFICATION FairSpec
CONSTANTS
  Workers = {1, 2}
  Faults = {"init", "control", "create", "unplug"}
  Client = {}
  Slow = FALSE
  Tunings <- TypicalTuning
  MaxRefs = 3
INVARIANT SingleWorker
INVARIANT HandleHeld
INVARIANT AlarmsServed
PROPERTY AlarmDelivered
PROPERTY AlertReturns
CHECK_DEADLOCK FALSE
