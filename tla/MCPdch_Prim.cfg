SPECIFICATION Spec
CONSTANTS
  None = None
  Blks = 1
  Groups = 1
  HyperFrame = 25
  Advance = 0
  MaxLoss = 5
  MaxDelay = 3
  GrantCap = 1
  QueueCap = 2
INVARIANT PrimIsConfirmedFirst

CHECK_DEADLOCK FALSE
