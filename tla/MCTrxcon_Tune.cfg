SPECIFICATION Safety
CONSTANTS
  NULL = NULL
  Tn = 1
  Dch = {"TCH_F", "PDCH"}
  ArfcnNr = {1, 2}
  BadNr = {}
  Serving = {1, 2}
  TaNr = {0, 1}
  Scan = {}
  QueueCap = 5
  NetCap = 1
INVARIANT TunedToRequired
CHECK_DEADLOCK FALSE
