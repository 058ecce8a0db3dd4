\* Two threads with two sends each; two clients with a lookup each, two
\* blocks and a reorganisation to a longer branch; two payouts with every
\* kind of trouble; launches from one directory, with any database.
CONSTANTS
  Worlds = {"bridge", "lookups", "rewarder", "launches"}
  Threads = {p, r}
  MaxCalls = 2
  Patient = FALSE
  Clients = {c1, c2}
  MaxHeight = 2
  MaxLookups = 1
  MaxBudget = 2
  MaxPayouts = 2
  MaxEdits = 2
  MaxCrashes = 1
  MaxReorgs = 1
  Procs = {p1, p2, p3}
  Dirs = {d1}
  Dbs = {db1, db2}
  NoLocking = {}
  MaxLaunches = 5
SPECIFICATION WorldSpec
INVARIANTS ToldTheTruth AcceptedInOrder ConfirmedStaysConfirmed BooksBalance SoleWriter
PROPERTIES PayoutsAreSettled
\* Calls, lookups, payouts and launches are bounded.
CHECK_DEADLOCK FALSE
