SPECIFICATION Spec
CONSTANTS
  Tns = {0, 1}
  UlRef = {1}
  DlRef = {1}
  Tfi = {7}
  Now = Now
  HyperFrame = 12
  Horizon = 2
  MaxGap = 3
  PendingCap = 2
INVARIANTS TypeOK CountsAgree EnabledAgrees
PROPERTIES PendingTakesEffect
CHECK_DEADLOCK FALSE
