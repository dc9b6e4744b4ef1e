\* Three connections, of which one inherits a descriptor.
CONSTANTS
  c1 = c1  c2 = c2  c3 = c3
  NoConn = NoConn
  Conns <- ThreeConns
  NumFds = 2
  MaxSent <- OneEach
  MaxHangUps = 1
  Stallers = {}
  StopBelow = 0
SPECIFICATION Spec
INVARIANT BroadcastReachesAll
CHECK_DEADLOCK FALSE
