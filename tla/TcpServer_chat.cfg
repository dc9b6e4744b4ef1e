\* Two descriptors for three connections, so that one is used again; two of the
\* clients write, one of them twice.
CONSTANTS
  c1 = c1  c2 = c2  c3 = c3
  NoConn = NoConn
  Conns <- ThreeConns
  NumFds = 2
  MaxSent <- ThreeFromTwo
  MaxHangUps = 1
  Stallers = {}
  StopBelow = 0
SPECIFICATION Spec
INVARIANTS TypeOK EntriesHaveHandlers BroadcastReachesFresh
PROPERTY ImplementsChatRoom
CHECK_DEADLOCK FALSE
