\* Lossy, reordering network, matching keys: the repeater is never AuthDone
\* unless the master has authenticated it.
CONSTANTS
    n1 = n1
    n2 = n2
    n3 = n3
    k1 = k1
    k2 = k2
    Nonces <- MCNonces
    RID = RID
    MID = MID
    NoValue = NoValue
    RKey = k1
    MKey = k1
    AuthTimeout = 3
    PingInterval = 1
    PingTimeout = 3
    UnlinkOnAuthFailure = TRUE
    RandCanFail = TRUE
    MaxLosses = 2
    Duplicating = FALSE
    Timely = FALSE
SPECIFICATION Spec
INVARIANTS TypeOK RepeaterDoneImpliesMasterDone
PROPERTY TokenNeverRejected
