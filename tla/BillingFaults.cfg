SPECIFICATION Spec
CONSTANTS
  Sales = {s1, s2}
  Fiscal = {s1}
  Deletions = {s1}
  Calls = {c1, c2, c3}
  MaxAttempts = 2
  MaxStalls = 1
  Scheduler = TRUE
  Faults = {"refuse", "lost", "timeout", "store", "stall", "crash"}
  MaxMishaps = 2
  NoRun = NoRun
INVARIANTS
  TypeOK
  VoucherIsOurs
  PendingInProgress
  JobInvoicesOnce
  OneCallIsExact
SYMMETRY CallSymmetry
