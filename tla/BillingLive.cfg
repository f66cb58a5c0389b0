SPECIFICATION FairSpec
CONSTANTS
  Sales = {s1}
  Fiscal = {s1}
  Deletions = {}
  Calls = {c1, c2}
  MaxAttempts = 2
  MaxStalls = 1
  Scheduler = TRUE
  Faults = {"refuse", "lost", "timeout", "stall"}
  MaxMishaps = 8
  NoRun = NoRun
PROPERTIES
  PendingEnds
