CONSTANTS
    a1 = a1
    a2 = a2
    a3 = a3
    Addrs <- MCAddrs
    IDs = {1, 2, 3}
    Claims <- MCOwnIDs
    TGs = {1, 2}
    DefaultTG = 446
    Kinds = {"ok"}
    HostCloses = TRUE
    MaxPeers = 3
\* Once Close has been called and the listener has returned, the endpoint
\* only takes the host's Link and Unlink calls, which the bound on peer
\* objects ends.
CHECK_DEADLOCK FALSE
SPECIFICATION Spec
INVARIANT TypeOK
INVARIANT RelayToSubscribers
PROPERTY RegistryRefinement
