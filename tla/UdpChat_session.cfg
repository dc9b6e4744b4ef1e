\* A line, empty or not, and a copy of it that the network makes, among a
\* datagram of somebody else to the server and a stray one to the client.
SPECIFICATION ChatSpec
CONSTANTS
  Addrs = {me, other}
  Me = me
  BufferSize = 2
  QueueSize = 1
  MaxReceived = 3
  Sizes = {0, 2}
  SendSpace = 2
  MaxLines = 1
  MaxRepeated = 1
  OtherSizes = {3}
  MaxOthers = 1
  MaxStrays = 1
INVARIANTS
  TypeOK
  EachIsAcknowledged
  ToldOfHandledOnly
PROPERTIES
  ComponentsAsModelled
  ToldInTheEnd
  StopReturnsUnlessReceiving
CHECK_DEADLOCK FALSE
