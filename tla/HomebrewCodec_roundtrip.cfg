CONSTANTS
    VoiceBurstA <- MCVoiceBurstA
    DataTypes <- MCSentTypes
    RepeaterID = 2147483647
    SrcIDs <- MCSrcIDs
    Payloads = {p1}
SPECIFICATION Spec
INVARIANT RoundTrip
