SPECIFICATION Spec
CONSTANTS
  MaxSize = 4
  Prefill = 2
  MaxPackets = 9
INVARIANT PoppedIntact
PROPERTY ImplementsPromise
CHECK_DEADLOCK FALSE
