SPECIFICATION SettledSpec
CONSTANTS
    MappingCount = 3
    Endpoints <- AllEndpoints
    Backends <- AllBackends
    Resources <- AllResources
    Source <- ChainSource
    Target <- ChainTarget
    BackendOf <- OnBackend
    ResourceOf <- OnResource
    BackendCap <- DavOneByOne
    PoolLimit = 2
    Requests <- MonitoredOrNot
    Togglable = {2}
    Cancels = {}
    Losable = {}
    Conflicts = {2}
    HasControllers = TRUE
    MaxSyncPasses = 3
    MaxResolutionPasses = 2
PROPERTIES
    Converges
    RunTerminates
