SPECIFICATION Spec
CONSTANTS
  Lines <- SomeLines
  MaxLines = 3
  PortBase = 8
  IntLimit = 16
  Names = {"e1", "e2", "lo"}
  NoName = NoName
  Addresses <- SomeAddresses
  Lifetimes <- SomeLifetimes
  Selections <- SomeSelections
  Devices <- SomeDevices
INVARIANTS
  StartsAsFileSays
  SwitchStartsAsTyped
  MonitorReleasesAll
  MonitorOpensChoice
