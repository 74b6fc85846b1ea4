\* A network that delivers within the second but loses one datagram: the
\* master peer is left in a state that ignores the repeater's retries.
CONSTANTS
    n1 = n1
    n2 = n2
    n3 = n3
    k1 = k1
    k2 = k2
    Nonces <- MCNonces
    RID = RID
    MID = MID
    NoValue = NoValue
    RKey = k1
    MKey = k1
    AuthTimeout = 3
    PingInterval = 1
    PingTimeout = 3
    UnlinkOnAuthFailure = FALSE
    RandCanFail = FALSE
    MaxLosses = 1
    Duplicating = FALSE
    Timely = TRUE
SPECIFICATION FairSpec
PROPERTY LinkRecovers
