SPECIFICATION Spec
CONSTANTS
  Accesses = 4
  Breaks = {"pend", "dedic", "release"}
  UpCap = 0
INVARIANTS TypeOK TimersAreOwn
PROPERTIES ImplementsLink AssignmentIsOwn AccessEnds ReleaseEnds
