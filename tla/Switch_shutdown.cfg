\* Two ports, the operator stops the switch while frames are in flight and the
\* table is aged.
CONSTANTS
  a = a  b = b
  Macs <- Hosts
  NumPorts = 2
  MaxLifetimeSec = 1
  TicksPerSec = 1
  Frames <- SelfFrames
  IsActive = TRUE
  MaxFrames = 2
  MaxTime = 1
  MaxEnters = 2
SPECIFICATION FairSpec
INVARIANTS ResourcesOutliveThreads
PROPERTIES CapturedIsFinished OutlivedIsDropped StopCompletesUnlessCapturing
CHECK_DEADLOCK TRUE
