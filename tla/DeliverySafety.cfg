SPECIFICATION Spec
CONSTANTS
  i1 = i1
  out = out
  Instances = {i1}
  Outside = out
  MaxLog = 3
  MaxBatch = 2
  MaxFaults = 1
  OwnKeys = {1}
  LateCommits = TRUE
INVARIANTS ResultsMatchCursor NothingSwallowed NoSelfConflict ReplyIsHonest
PROPERTY Promise
CHECK_DEADLOCK FALSE
