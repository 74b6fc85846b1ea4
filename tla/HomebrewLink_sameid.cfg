\* The master answers with the ID the repeater checks for (MID = RID), so
\* the AuthDone ACK, NAK and PONG cases all run: still never AuthDone alone.
CONSTANTS
    n1 = n1
    n2 = n2
    n3 = n3
    k1 = k1
    k2 = k2
    Nonces <- MCNonces
    RID = RID
    MID = RID
    NoValue = NoValue
    RKey = k1
    MKey = k1
    AuthTimeout = 3
    PingInterval = 1
    PingTimeout = 3
    UnlinkOnAuthFailure = TRUE
    RandCanFail = TRUE
    MaxLosses = 1
    Duplicating = FALSE
    Timely = FALSE
SPECIFICATION Spec
INVARIANT RepeaterDoneImpliesMasterDone
