SPECIFICATION Spec
CONSTANTS
  s1 = s1
  s2 = s2
  Sales = {s1, s2}
  Invoiced = {s1}
  Neto <- MCNeto
  Iva <- MCIva
  Shipping <- MCShipping
  Lines <- MCLines
  Calls = {c1, c2}
  Requests <- MCRequests
  Deletions = {s1, s2}
  MaxAttempts = 2
  MaxStalls = 1
  Faults = {"refuse", "lost", "timeout", "store", "crash"}
  MaxMishaps = 1
  MaxRefusals = 1
  NoRun = NoRun
INVARIANTS
  TypeOK
  CreditBounded
  ReturnedOnce
  NoteIsExact
  StatusIsExact
  PendingInProgress
SYMMETRY CallSymmetry
