SPECIFICATION Spec
CONSTANTS
  ByteBase = 4
  SizeBase = 64
  IsActive = TRUE
  NoPacket = NoPacket
  Datagrams <- SomeDatagrams
INVARIANTS
  AcceptedUnlessCarriesTwice
  DataIntact
  ShownAsWritten
PROPERTY ImplementsSubstitution
