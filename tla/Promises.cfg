SPECIFICATION PromisesSpec
CONSTANTS
    Conversations = {"k", "l"}
    OriginClaims <- TwoPeople
    Ingress <- TwoConnectors
    StandingGrants <- StandingFor
    Bound = {"message"}
    ProvidersOf <- CapabilityProviders
    Anyone = "any"
    MaxChain = 4
    MaxEvents = 4
    Agents = {"agent"}
    Providers = {"p1", "p2"}
    Requests = {"r1", "r2", "r3"}
    Route <- TwoProviders
    Models = {"r3"}
    Inherent = {"r2"}
    Deadlines = {}
    Revisable = {}
    Cancellable = {}
    Mixed = {}
    Policies <- AllowAll
    Batch = 1
    MaxWorkers = 1
    Traps = FALSE
    MaxNotes = 0
    MaxObservations = 0
    MaxCrashes = 0
    Deliveries <- Webhooks
    Installations = {1}
    EventBatch = 2
    MaxInbox = 2
    MaxRequests = 2
    MaxEnrolled = 1
    MaxFaults = 2
    Uploads = {"x", "y", "z"}
    Instances = {"i", "j"}
    Owner <- UploadOwner
    Plan <- UploadPlan
    Expected <- UploadSize
    Limit = 2
    Damage <- Damaged
    MaxCancels = 2
    MaxStoreCrashes = 1
    Origins <- AnyOrigin
    HttpGrants <- AnyGrant
    HardLimit = 2
    MaxChunks = 2
    Messages <- Bodies
    Recipients = 2
    MaxMessages = 2
    MaxTyped = 3
    MaxPolls = 2
    MaxSessions = 2
    MaxBreaks = 1
    Timers = {"t1"}
    Schedules = {"s1"}
    Calendar = {2, 4, 6}
    Delays = {1}
    Page = 2
    MaxTime = 4
    MaxOps = 3
    MaxWipes = 1
    MemoryRequests <- Writes
    ForeignOps = {"a"}
    Forgotten = "none"
    MaxRecords = 2
    MemoryBatch = 2
    MaxAsks = 3
    MaxForeign = 1
    MaxStops = 1
    ServerReplies <- ModelReplies
    Tools <- ModelTools
    MaxName = 8
    MaxFrames = 2
    MaxBytes = 18
    MaxRestarts = 1
INVARIANTS
    AnswersAreHonest
    Ceiling
    ProjectionIsReplay
    RequestKeepsOrigin
    ProjectionSurvives
    BlobIsContent
    
    HopsConfined
    
    
    InputInOrder
CHECK_DEADLOCK FALSE
