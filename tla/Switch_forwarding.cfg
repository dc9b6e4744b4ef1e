\* Three ports, frames between two hosts that may appear anywhere; no ageing.
CONSTANTS
  a = a  b = b
  Macs <- Hosts
  NumPorts = 3
  MaxLifetimeSec = 2
  TicksPerSec = 1
  Frames <- TalkFrames
  IsActive = TRUE
  MaxFrames = 3
  MaxTime = 0
  MaxEnters = 0
SPECIFICATION Spec
INVARIANTS TypeOK ForwardedWhereDue
PROPERTY ImplementsPlane
CHECK_DEADLOCK TRUE
