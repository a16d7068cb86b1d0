CONSTANTS
  Tries = 3
  Retries = 3
  AfcRetries = 2
  Gap = 2
  Ahead = 6
  Slots = 8
  Cycle = 8
  Hyper = 16
  Trigger <- MCTrigger
  ResetIn = {"idle", "sync", "dedic", "wait"}
  Untimely = FALSE
  Preempts = 1
SPECIFICATION Spec
INVARIANTS TypeOK ReadsOwnPage OneBlock
PROPERTIES FbsbAnswered
CHECK_DEADLOCK FALSE
