SPECIFICATION Spec
CONSTANTS
    MappingCount = 3
    Endpoints <- AllEndpoints
    Backends <- AllBackends
    Resources <- AllResources
    Source <- MixedSource
    Target <- MixedTarget
    BackendOf <- OnBackend
    ResourceOf <- OnResource
    BackendCap <- DavOneByOne
    PoolLimit = 2
    Requests <- AllKinds
    Togglable = {}
    Cancels = {"future", "reason"}
    Losable = {"server"}
    Conflicts = {1, 3}
    HasControllers = TRUE
    MaxSyncPasses = 3
    MaxResolutionPasses = 2
INVARIANTS
    EndpointExclusion
    ClaimsExact
    LeasesSound
    OneAnswerPerLease
    ResumeReachesAsker
    SkipVerdictFresh
    IInv
PROPERTIES
    NothingDropped
\* A worker that abandons its walk leaves the run open for ever.
CHECK_DEADLOCK FALSE
