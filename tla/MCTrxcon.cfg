SPECIFICATION Spec
CONSTANTS
  NULL = NULL
  Tn = 2
  Dch = {"TCH_F", "PDCH"}
  ArfcnNr = {1, 2, 3, 4}
  BadNr = {2}
  Serving = {1, 2, 3}
  TaNr = {0}
  Scan <- Scans
  QueueCap = 5
  NetCap = 1
INVARIANTS TypeOK StateOwnsItsData ScanIsServed SlotsAgree ArfcnAgrees
PROPERTIES AnswerIsOwn ScanEnds
CONSTRAINT FewOnceLate
CHECK_DEADLOCK FALSE
