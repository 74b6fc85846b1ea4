--------------------------- MODULE MCHomebrewCodec ---------------------------
(* Instances of HomebrewCodec: the data types of the dmr package, with     *)
(* VoiceBurstA = 10 as that package numbers them.                          *)
EXTENDS HomebrewCodec

MCVoiceBurstA == 10
(* The data types 0..9 and the voice bursts A..F. *)
MCSentTypes == 0..15
(* The same, with IPSCSync (16) and UnknownSlotType (17) added. *)
MCAllTypes == 0..17
MCSrcIDs == {1, 2^24 - 1}
=============================================================================
