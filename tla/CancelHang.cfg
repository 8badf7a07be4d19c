SPECIFICATION FairSpec
CONSTANTS
    MappingCount = 2
    Endpoints <- AllEndpoints
    Backends <- AllBackends
    Resources <- AllResources
    Source <- PairSource
    Target <- PairTarget
    BackendOf <- OnBackend
    ResourceOf <- OnResource
    BackendCap <- Unlimited
    PoolLimit = 1
    Requests <- Sequential
    Togglable = {}
    Cancels = {"future"}
    Losable = {}
    Conflicts = {}
    HasControllers = FALSE
    MaxSyncPasses = 3
    MaxResolutionPasses = 2
PROPERTIES
    CancelTerminates
\* A worker that abandons its walk leaves the run open for ever.
CHECK_DEADLOCK FALSE
