\* A network that loses nothing and delivers within the second: the login
\* completes and the keepalive keeps the link up for good.
CONSTANTS
    n1 = n1
    n2 = n2
    n3 = n3
    k1 = k1
    k2 = k2
    Nonces <- MCNonces3
    RID = RID
    MID = MID
    NoValue = NoValue
    RKey = k1
    MKey = k1
    AuthTimeout = 3
    PingInterval = 1
    PingTimeout = 3
    UnlinkOnAuthFailure = TRUE
    RandCanFail = FALSE
    MaxLosses = 0
    Duplicating = FALSE
    Timely = TRUE
SPECIFICATION FairSpec
PROPERTY LinkStaysUp
