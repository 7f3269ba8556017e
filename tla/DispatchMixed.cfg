SPECIFICATION Spec
CONSTANTS
  a1 = a1
  p1 = p1
  r1 = r1
  r2 = r2
  r3 = r3
  Agents = {a1}
  Providers = {p1}
  Requests = {r1}
  Route <- OneProvider
  Models = {}
  Inherent = {}
  Deadlines = {}
  Revisable = {}
  Cancellable = {}
  Mixed = {p1}
  Policies <- AllowAll
  Batch = 1
  MaxWorkers = 1
  Traps = FALSE
  MaxNotes = 1
  MaxObservations = 0
  MaxCrashes = 0
INVARIANT NothingPassedOver
CHECK_DEADLOCK FALSE
