\* Three connections over two descriptors, of which at most two have been made
\* when the server is stopped; one client may stop reading for a time.
CONSTANTS
  c1 = c1  c2 = c2  c3 = c3
  NoConn = NoConn
  Conns <- ThreeConns
  NumFds = 2
  MaxSent <- OneFromFirst
  MaxHangUps = 1
  Stallers = {c2}
  StopBelow = 3
SPECIFICATION FairSpec
INVARIANTS HandlerOwnsDescriptor
PROPERTIES HungUpIsForgotten MessageIsHandled BacklogIsServed StopReturnsUnlessAccepting
CHECK_DEADLOCK FALSE
