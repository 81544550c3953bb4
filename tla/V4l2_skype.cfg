SPECIFICATION FairSpec
CONSTANTS
  b1 = b1
  b2 = b2
  l1 = l1
  l2 = l2
  IpcamMode = FALSE
  MuxCount = 1
  NumChannels = 2
  Buffers = {b1}
  Loops <- LoopIds
  BoxIds <- AllBoxes
  ClientKeeps = TRUE
  Used = {0, 1}
  MaxStarts = 1
  Restarts = TRUE
  Faults = {"unplug", "create"}
INVARIANT SingleLoop
PROPERTY FrameServed
PROPERTY UnplugEndsLoop
CHECK_DEADLOCK FALSE
