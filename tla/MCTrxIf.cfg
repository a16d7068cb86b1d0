SPECIFICATION Spec
CONSTANTS
  Arfcn <- Convertible
  BadArfcn <- Undefined
  Slot = {}
  TA <- Advances
  Request <- Requests
  QueueCap = 3
  NetCap = 2
  Linger = FALSE
INVARIANTS TypeOK WaitingMeansTimed ActiveMeansPowered PoweredUpMeansRunning
PROPERTIES ImplementsCtrl
CHECK_DEADLOCK FALSE
