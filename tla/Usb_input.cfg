SPECIFICATION Spec
CONSTANTS
  Devices <- MCDevices
  Players <- MCPlayers
  NumVidChannel = 2
  MaxAudFmts = 3
  MaxIntervals = 5
  MaxAlts = 2
  Rates = {16, 24}
  MaxInits = 3
  MaxFrames = 3
  Payloads = 3
  Parts = 4
  CcModulus = 8
  MaxFrameSize = 16
  MaxStarts = 2
INVARIANT ParsedAsDescribed
INVARIANT DeliveredWhole
INVARIANT NoFalseDrop
CHECK_DEADLOCK FALSE
