---------------------------- MODULE HomebrewCodec ----------------------------
(***************************************************************************)
(* The DMRD frame codec of src/homebrew/homebrew.go: buildData turns a     *)
(* dmr.Packet into the 55-byte Homebrew frame that Send, SendTG and        *)
(* WritePacketToPeer write, and parseData, called by handle on every DMRD  *)
(* frame of an authenticated peer, turns it back.                          *)
(*                                                                         *)
(* A byte is a natural in 0..255; a frame is a function from the byte      *)
(* offsets of its fixed fields to bytes, plus the 33-byte payload, which   *)
(* both functions copy unchanged and which is kept as an opaque value.    *)
(* The data-type enumeration belongs to the external dmr package: its      *)
(* values are constants (VoiceBurstA and the set of data types).          *)
(***************************************************************************)
EXTENDS Integers, Bitwise

CONSTANTS
    VoiceBurstA,   \* dmr.VoiceBurstA; VoiceBurstB..F follow it
    DataTypes,     \* the values of dmr.Packet.DataType that are sent
    RepeaterID,    \* h.Config.ID, the repeater ID buildData writes
    SrcIDs,        \* source IDs tried (24-bit DMR IDs)
    Payloads       \* opaque 33-byte payloads

ASSUME CodecAssumption ==
    /\ VoiceBurstA \in 0..250 /\ DataTypes \subseteq 0..255
    /\ RepeaterID \in Nat /\ SrcIDs \subseteq 0..16777215

VARIABLES
    pkt,     \* the packet the sender passes to buildData
    frame,   \* the frame buildData returned, or NoFrame
    parsed   \* what parseData returned: a packet, ParseError, or NoPacket

vars == <<pkt, frame, parsed>>

NoFrame == [payload |-> "none"]
NoPacket == [DataType |-> -1]
ParseError == [DataType |-> -2]

-----------------------------------------------------------------------------
(* dmr.VoiceBurstB .. dmr.VoiceBurstF *)
VoiceBurstBF == VoiceBurstA + 1 .. VoiceBurstA + 5

(* uint8(x >> n): byte n \div 8 of a big-endian integer. *)
ByteOf(x, n) == shiftR(x, n) % 256

(* buildData, homebrew.go:740-778: the fixed fields, then the packed byte  *)
(* 15 (timeslot, call type, frame kind, data type), into which the data    *)
(* type is ORed without a mask.                                            *)
buildData(p, repeaterID) ==
    LET b15 == ((p.Timeslot & 1) * 128) | ((p.CallType & 1) * 64)
        packed ==
            CASE p.DataType \in VoiceBurstBF ->
                     (b15 | 0) | ((p.DataType - VoiceBurstA) % 256)
              [] p.DataType = VoiceBurstA -> b15 | 16
              [] OTHER -> (b15 | 32) | p.DataType
    IN  [len |-> 55,
         bytes |-> [k \in 4..19 \cup {53, 54} |->
                      CASE k = 4 -> p.Sequence
                        [] k \in 5..7 -> ByteOf(p.SrcID, 8 * (7 - k))
                        [] k \in 8..10 -> ByteOf(p.DstID, 8 * (10 - k))
                        [] k \in 11..14 -> ByteOf(repeaterID, 8 * (14 - k))
                        [] k = 15 -> packed
                        [] k \in 16..19 -> ByteOf(p.StreamID, 8 * (19 - k))
                        [] k = 53 -> p.BER
                        [] k = 54 -> p.RSSI],
         payload |-> p.Data]

(* Mutant of parseData: the data-type nibble taken with mask 0x3f, so    *)
(* that the frame-kind bits leak into the data type.                       *)
parseDataWideMask(data) ==
    LET d == data.bytes
        kind == shiftR(d[15], 4) & 3
        nibble == d[15] & 63
        dataType == IF kind \in {0, 1} THEN (VoiceBurstA + nibble) % 256 ELSE nibble
    IN  IF data.len # 55 \/ kind = 3
        THEN ParseError
        ELSE [Sequence |-> d[4],
              SrcID |-> d[5] * 2^16 + d[6] * 2^8 + d[7],
              DstID |-> d[8] * 2^16 + d[9] * 2^8 + d[10],
              RepeaterID |-> d[11] * 2^24 + d[12] * 2^16 + d[13] * 2^8 + d[14],
              Timeslot |-> shiftR(d[15], 7) & 1,
              CallType |-> shiftR(d[15], 6) & 1,
              StreamID |-> d[16] * 2^24 + d[17] * 2^16 + d[18] * 2^8 + d[19],
              DataType |-> dataType,
              BER |-> d[53], RSSI |-> d[54],
              Data |-> data.payload]

(* parseData, homebrew.go:781-817: the frame kind in bits 5..4 of byte 15 *)
(* selects voice (VoiceBurstA plus the low nibble), data sync (the low     *)
(* nibble) or, for 0b11, an error.                                         *)
parseData(data) ==
    LET d == data.bytes
        kind == shiftR(d[15], 4) & 3
        nibble == d[15] & 15
        dataType == IF kind \in {0, 1} THEN (VoiceBurstA + nibble) % 256 ELSE nibble
    IN  IF data.len # 55 \/ kind = 3
        THEN ParseError
        ELSE [Sequence |-> d[4],
              SrcID |-> d[5] * 2^16 + d[6] * 2^8 + d[7],
              DstID |-> d[8] * 2^16 + d[9] * 2^8 + d[10],
              RepeaterID |-> d[11] * 2^24 + d[12] * 2^16 + d[13] * 2^8 + d[14],
              Timeslot |-> shiftR(d[15], 7) & 1,
              CallType |-> shiftR(d[15], 6) & 1,
              StreamID |-> d[16] * 2^24 + d[17] * 2^16 + d[18] * 2^8 + d[19],
              DataType |-> dataType,
              BER |-> d[53], RSSI |-> d[54],
              Data |-> data.payload]

-----------------------------------------------------------------------------
Packets ==
    [Sequence : {255}, SrcID : SrcIDs, DstID : {1}, RepeaterID : {0},
     Timeslot : {0, 1}, CallType : {0, 1}, StreamID : {2147483393},
     DataType : DataTypes, BER : {0}, RSSI : {0}, Data : Payloads]

Init ==
    /\ pkt \in Packets
    /\ frame = NoFrame
    /\ parsed = NoPacket

(* The sender marshals the packet (Send, SendTG, WritePacketToPeer). *)
Build ==
    /\ frame = NoFrame
    /\ frame' = buildData(pkt, RepeaterID)
    /\ UNCHANGED <<pkt, parsed>>

(* The receiving handle parses the DMRD frame. *)
Parse ==
    /\ frame # NoFrame /\ parsed = NoPacket
    /\ parsed' = parseData(frame)
    /\ UNCHANGED <<pkt, frame>>

(* The next packet. *)
NextPacket ==
    /\ parsed # NoPacket
    /\ pkt' \in Packets
    /\ frame' = NoFrame
    /\ parsed' = NoPacket

Next == Build \/ Parse \/ NextPacket

Spec == Init /\ [][Next]_vars

-----------------------------------------------------------------------------
(* Round trip of the DMR frame: the receiver's parseData gives back the    *)
(* packet the sender passed to buildData, with RepeaterID set to the       *)
(* sender's ID, for every data type the sender may send.  A parse error    *)
(* here also ends the receiver's ListenAndServe.                           *)
RoundTrip ==
    parsed # NoPacket => parsed = [pkt EXCEPT !.RepeaterID = RepeaterID]

=============================================================================
