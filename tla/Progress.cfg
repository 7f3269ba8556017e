SPECIFICATION FairSpec
CONSTANTS
    NoAnswer = NoAnswer
    Commands = {"c1", "c2"}
    Nobody = "nobody"
    MaxCalls = 2
    Ids = {1, 2}
    MaxPolls = 2
    MaxSwaps = 2
    MaxFailures = 1
    MaxRefreshes = 1
    LastEvent = 4
    Poison = {2}
    Heavy = {3}
    BatchLimit = 2
    Tries = 3
    MaxCrashes = 1
    MaxErrors = 1
    MaxHealth = 12
    FetchLimit = 2
    MaxUid = 3
    MaxDrops = 1
    MaxRenumbers = 1
    MaxExpunged = 1
INVARIANTS
    NoneGivenUpEarly
    Contained
    
PROPERTIES
    EveryEventPassed
    StopHalts
    EveryCommandAnswered
    InboxDrained
    TimerFires
    UpdateObserved
    
    NewestWins
    LoginEnds
    TokenObtained
CHECK_DEADLOCK FALSE
