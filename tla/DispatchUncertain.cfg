SPECIFICATION Spec
CONSTANTS
  a1 = a1
  p1 = p1
  r1 = r1
  r2 = r2
  r3 = r3
  Agents = {a1}
  Providers = {p1}
  Requests = {r1}
  Route <- OneProvider
  Models = {}
  Inherent = {}
  Deadlines = {r1}
  Revisable = {}
  Cancellable = {}
  Mixed = {}
  Policies <- AllowAll
  Batch = 1
  MaxWorkers = 1
  Traps = FALSE
  MaxNotes = 0
  MaxObservations = 0
  MaxCrashes = 1
INVARIANT UncertainIsNotClean
CHECK_DEADLOCK FALSE
