\* Keys that do not match, lossless reordering network: a retried RPTL
\* gives the repeater a second nonce RPTACK, which it takes as acceptance.
CONSTANTS
    n1 = n1
    n2 = n2
    n3 = n3
    k1 = k1
    k2 = k2
    Nonces <- MCNonces
    RID = RID
    MID = MID
    NoValue = NoValue
    RKey = k1
    MKey = k2
    AuthTimeout = 3
    PingInterval = 1
    PingTimeout = 3
    UnlinkOnAuthFailure = TRUE
    RandCanFail = FALSE
    MaxLosses = 0
    Duplicating = FALSE
    Timely = FALSE
SPECIFICATION Spec
INVARIANT RepeaterDoneImpliesMasterDone
