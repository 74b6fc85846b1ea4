CONSTANTS
    a1 = a1
    a2 = a2
    a3 = a3
    Addrs <- MCAddrs
    IDs = {1, 2, 3}
    Claims <- MCRebound
    TGs = {1, 2}
    DefaultTG = 446
    Kinds = {"ok"}
    HostCloses = FALSE
    MaxPeers = 2
\* A panic of the listener goroutine (an Unlink during an implicit login)
\* ends the process.
CHECK_DEADLOCK FALSE
SPECIFICATION Spec
INVARIANT RegistryBijection
