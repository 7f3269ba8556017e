SPECIFICATION Spec
CONSTANTS
  a1 = a1
  p1 = p1
  r1 = r1
  r2 = r2
  r3 = r3
  Agents = {a1}
  Providers = {p1}
  Requests = {r1, r3}
  Route <- OneProvider
  Models = {}
  Inherent = {}
  Deadlines = {r1}
  Revisable = {r1}
  Cancellable = {r1}
  Mixed = {}
  Policies <- RefuseEither
  Batch = 1
  MaxWorkers = 1
  Traps = TRUE
  MaxNotes = 1
  MaxObservations = 2
  MaxCrashes = 2
INVARIANTS AtMostOnce OneTerminal NothingPassedOver
PROPERTY NoRunAfterAnswer
CHECK_DEADLOCK FALSE
