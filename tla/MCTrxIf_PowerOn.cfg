SPECIFICATION Safety
CONSTANTS
  Arfcn <- Convertible
  BadArfcn <- Undefined
  Slot = {}
  TA <- Advances
  Request <- Requests
  QueueCap = 3
  NetCap = 2
  Linger = FALSE
PROPERTY PowerOnIsIdempotent
CHECK_DEADLOCK FALSE
