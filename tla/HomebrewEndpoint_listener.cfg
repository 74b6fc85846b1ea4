CONSTANTS
    a1 = a1
    a2 = a2
    a3 = a3
    Addrs <- MCAddrs
    IDs = {1, 2, 3}
    Claims <- MCOwnIDs
    TGs = {1, 2}
    DefaultTG = 446
    Kinds = {"ok", "bad"}
    HostCloses = TRUE
    MaxPeers = 2
\* After Close, the listener's return or its panic, the endpoint only takes the
\* host's bounded Link and Unlink calls.
CHECK_DEADLOCK FALSE
SPECIFICATION Spec
INVARIANT ListenerEndsCleanly
