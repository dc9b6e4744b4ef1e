\* Two ports, a lifetime of one second in half-second ticks, hosts that move
\* between ports, refresh and answer each other while the table is aged.
CONSTANTS
  a = a  b = b
  Macs <- Hosts
  NumPorts = 2
  MaxLifetimeSec = 1
  TicksPerSec = 2
  Frames <- MoveFrames
  IsActive = FALSE
  MaxFrames = 3
  MaxTime = 3
  MaxEnters = 0
SPECIFICATION Spec
INVARIANTS MovedHostRelearned SurvivorsFresh
PROPERTIES NoPrematureEviction LastSeenNeverRewinds
CHECK_DEADLOCK TRUE
