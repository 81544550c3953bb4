SPECIFICATION CaptureFairSpec
CONSTANTS
  b1 = b1
  b2 = b2
  l1 = l1
  l2 = l2
  IpcamMode = TRUE
  MuxCount = 1
  NumChannels = 2
  Buffers <- BufferIds
  Loops <- LoopIds
  BoxIds = {0, 2}
  ClientKeeps = TRUE
  Used = {0}
  MaxStarts = 1
  Restarts = FALSE
  Faults = {"unplug", "create"}
  FifoSize = 3
INVARIANT CaptureTypeOK
INVARIANT NoLeak
INVARIANT PipeExclusive
PROPERTY ClientContract
PROPERTY CaptureEnds
CHECK_DEADLOCK FALSE
