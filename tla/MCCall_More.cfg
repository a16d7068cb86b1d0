SPECIFICATION Spec
CONSTANTS
  o1 = o1
  t1 = t1
  MoRefs = {o1}
  MtRefs = {t1}
  Burst = 1
  AirCap = 1
INVARIANTS AnotherOnExistingRr
