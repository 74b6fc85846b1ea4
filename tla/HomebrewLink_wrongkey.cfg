\* The repeater holds another key than the master: the master never
\* authenticates it, through retries, losses and nonce failures.
CONSTANTS
    n1 = n1
    n2 = n2
    n3 = n3
    k1 = k1
    k2 = k2
    Nonces <- MCNonces
    RID = RID
    MID = MID
    NoValue = NoValue
    RKey = k1
    MKey = k2
    AuthTimeout = 3
    PingInterval = 1
    PingTimeout = 3
    UnlinkOnAuthFailure = TRUE
    RandCanFail = TRUE
    MaxLosses = 1
    Duplicating = FALSE
    Timely = FALSE
SPECIFICATION Spec
INVARIANT MasterAuthRequiresKey
