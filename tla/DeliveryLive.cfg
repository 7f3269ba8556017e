SPECIFICATION FairSpec
CONSTANTS
  i1 = i1
  out = out
  Instances = {i1}
  Outside = out
  MaxLog = 3
  MaxBatch = 2
  MaxFaults = 3
  OwnKeys = {1}
  LateCommits = FALSE
PROPERTY EverythingConsumed
CHECK_DEADLOCK FALSE
