SPECIFICATION FairSpec
CONSTANTS
    dav = dav
    palm = palm
    device = device
    Hub = hub
    NoResource = NoResource
    All = All
    Providers = {dav, palm}
    Resources = {device}
    ResourceOf <- Bindings
    Disabled = {}
    Topologies <- Submitted
    Selections <- Chosen
    HostsAddWhileApplying = FALSE
INVARIANTS
    IInv
    LeaseProtocol
    AccountsAgree
PROPERTIES
    SuccessIsEarned
    FailedApplyIsUndone
    Returns
\* Nothing happens after the destructor.
CHECK_DEADLOCK FALSE
