SPECIFICATION FairSpec
CONSTANTS
  b1 = b1
  b2 = b2
  l1 = l1
  l2 = l2
  IpcamMode = TRUE
  MuxCount = 2
  NumChannels = 3
  Buffers <- BufferIds
  Loops <- LoopIds
  BoxIds <- AllBoxes
  ClientKeeps = TRUE
  Used = {0, 1}
  MaxStarts = 1
  Restarts = FALSE
  Faults = {}
PROPERTY LoopEnds
PROPERTY CallsReturn
CHECK_DEADLOCK FALSE
PROPERTY FrameServed
