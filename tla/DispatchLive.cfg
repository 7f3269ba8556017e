SPECIFICATION FairSpec
CONSTANTS
  a1 = a1
  p1 = p1
  r1 = r1
  r2 = r2
  r3 = r3
  Agents = {a1}
  Providers = {p1}
  Requests = {r1, r2, r3}
  Route <- OneProvider
  Models = {}
  Inherent = {r2}
  Deadlines = {r1}
  Revisable = {}
  Cancellable = {}
  Mixed = {}
  Policies <- RefuseOne
  Batch = 1
  MaxWorkers = 1
  Traps = FALSE
  MaxNotes = 0
  MaxObservations = 1
  MaxCrashes = 1
PROPERTY EveryRequestAnswered
CHECK_DEADLOCK FALSE
