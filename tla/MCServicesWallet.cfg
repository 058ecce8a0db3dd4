\* A wallet of its own, every answer in time.
CONSTANTS
  Worlds = {"bridge"}
  Threads = {p}
  MaxCalls = 3
  Patient = TRUE
  Clients = {c1, c2}
  MaxHeight = 2
  MaxLookups = 1
  MaxBudget = 2
  MaxPayouts = 2
  MaxEdits = 2
  MaxCrashes = 1
  MaxReorgs = 1
  Procs = {p1, p2, p3}
  Dirs = {d1}
  Dbs = {db1, db2}
  NoLocking = {}
  MaxLaunches = 5
SPECIFICATION WorldSpec
INVARIANT SendsInARowAreAccepted
CHECK_DEADLOCK FALSE
