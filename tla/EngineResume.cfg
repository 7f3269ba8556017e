SPECIFICATION Spec
CONSTANTS
    None = None
    o1 = o1
    o2 = o2
    o3 = o3
    Obs = {o1, o2, o3}
    MaxCalls = 3
    MaxRetries = 1
    MaxErrors = 2
    MaxResource = 1
    MaxYields = 1
    MaxDepth = 1
    MaxChildren = 2
    MaxBatch = 2
    MaxRev = 2
    MaxSteps = 2
    Profiles <- OperatorOnly
PROPERTIES
    ResumeContinues
CHECK_DEADLOCK FALSE
