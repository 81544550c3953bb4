SPECIFICATION FairSpec
CONSTANTS
  b1 = b1
  b2 = b2
  l1 = l1
  l2 = l2
  IpcamMode = TRUE
  MuxCount = 1
  NumChannels = 2
  Buffers <- BufferIds
  Loops <- LoopIds
  BoxIds <- VideoBoxes
  ClientKeeps = FALSE
  Used = {0, 1}
  MaxStarts = 1
  Restarts = FALSE
  Faults = {}
PROPERTY FrameServed
CHECK_DEADLOCK FALSE
