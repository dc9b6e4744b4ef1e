\* Two clients that come and go.
CONSTANTS
  c1 = c1  c2 = c2  c3 = c3
  NoConn = NoConn
  Conns <- TwoConns
  NumFds = 2
  MaxSent <- OneEach
  MaxHangUps = 1
  Stallers = {}
  StopBelow = 0
SPECIFICATION Spec
INVARIANT ClientsRaceFree
CHECK_DEADLOCK FALSE
