SPECIFICATION Spec
CONSTANTS
  a = a
  b = b
  Products = {a, b}
  Gone = gone
  Calls = {c1, c2, c3, c4}
  Jobs <- MCJobs
  Earlier <- MCEarlier
  Faults = {"store"}
INVARIANTS
  TypeOK
  SequentialIsExact
  BrokenByEmptying
  OrderedOnce
SYMMETRY Symmetries
CHECK_DEADLOCK FALSE
