SPECIFICATION Spec
CONSTANTS
  Sizes = {1, 2}
  SendSpace = 2
  PeerTexts = {"text"}
  MaxLines = 2
  MaxArrived = 1
INVARIANT SentWhole
