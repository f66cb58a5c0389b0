SPECIFICATION Spec
CONSTANTS
  Sales = {s1}
  Fiscal = {s1}
  Deletions = {}
  Calls = {c1, c2}
  MaxAttempts = 3
  MaxStalls = 1
  Scheduler = FALSE
  Faults = {}
  MaxMishaps = 2
  NoRun = NoRun
INVARIANTS
  InvoicedOnce
SYMMETRY CallSymmetry
