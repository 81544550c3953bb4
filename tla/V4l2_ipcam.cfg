SPECIFICATION Spec
CONSTANTS
  b1 = b1
  b2 = b2
  l1 = l1
  l2 = l2
  IpcamMode = TRUE
  MuxCount = 2
  NumChannels = 3
  Buffers <- BufferIds
  Loops <- LoopIds
  BoxIds <- AllBoxes
  ClientKeeps = TRUE
  Used = {0, 1, 2}
  MaxStarts = 1
  Restarts = FALSE
  Faults = {}
SYMMETRY Symmetric
INVARIANT TypeOK
INVARIANT RefCountExact
INVARIANT ExclusiveBuffers
INVARIANT NoSpuriousStop
INVARIANT AllReleased
CHECK_DEADLOCK FALSE
