SPECIFICATION Spec
CONSTANTS
  Tns = {0, 1}
  UlRef = {1}
  DlRef = {1}
  Tfi = {7, 8}
  Now = Now
  HyperFrame = 12
  Horizon = 2
  MaxGap = 3
  PendingCap = 2
INVARIANT OwnBlocksDelivered
CHECK_DEADLOCK FALSE
