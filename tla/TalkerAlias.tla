---------------------------- MODULE TalkerAlias ----------------------------
(***************************************************************************)
(* The Talker Alias header codec of src/lc/talkeralias.go.                 *)
(*                                                                         *)
(* A byte is a natural in 0..255 and a []byte a function from 0..n-1 to    *)
(* bytes, so that indices are those of the Go code.  A host parses a       *)
(* 7-byte header PDU (ParseTalkerAliasHeaderPDU) and encodes it back       *)
(* (TalkerAliasHeaderPDU.Bytes); an index out of range is a panic.         *)
(*                                                                         *)
(* The reference packing is the one the data model states: for the 7-bit  *)
(* format, 7 characters fill the 49 bits that start at bit offset 7 of the *)
(* header, most significant bit first.                                     *)
(***************************************************************************)
EXTENDS Naturals

(* The constants are subsets of 0..127, 0..31 and 0..3. *)
CONSTANTS
    Chars,     \* the 7-bit characters an alias is made of (a small set)
    Lengths,   \* the values of the 5-bit length field that are tried
    Formats    \* the data formats that are tried

VARIABLES
    alias,   \* the alias the header carries: format, length, 7 characters
    stage,   \* "parse", "encode" or "done"
    i,       \* the loop counter of the bit loop that is running
    buf,     \* the out buffer of that loop
    pdu,     \* the TalkerAliasHeaderPDU parsed from the header, or NoPDU
    wire     \* what Bytes returned: the 7 bytes, Panic, or NoWire

vars == <<alias, stage, i, buf, pdu, wire>>

(* A panic is the empty buffer; no PDU and no wire yet are values of the  *)
(* same types that the code cannot produce (format 4, a 1-byte header).    *)
Panic == <<>>
NoWire == <<0>>
NoPDU == [DataFormat |-> 4, Length |-> 0, Data |-> Panic]

-----------------------------------------------------------------------------
(* Data Format, talkeralias.go:11-16 *)
Format7Bit == 0

Bit(x, b) == (x \div 2^b) % 2

(* The stream bit i of a header: bit 7 - i % 8 of byte i \div 8. *)
StreamBit(data, n) == Bit(data[n \div 8], 7 - (n % 8))

(* The 7-byte header of an alias (the reference packing). *)
Header(a) ==
    LET byte0 == a.format * 64 + a.length * 2
        \* for 7-bit, the stream bit i >= 7 is bit 6 - (i - 7) % 7 of char (i - 7) \div 7
        sbit(n) == Bit(a.chars[(n - 7) \div 7], 6 - ((n - 7) % 7))
        packed(k) == \* byte k >= 1 of the 7-bit stream, most significant bit first
            LET b(j) == sbit(8 * k + j)
            IN  b(0) * 128 + b(1) * 64 + b(2) * 32 + b(3) * 16
                  + b(4) * 8 + b(5) * 4 + b(6) * 2 + b(7)
    IN  IF a.format = Format7Bit
        THEN [k \in 0..6 |-> IF k = 0 THEN byte0 + sbit(7) ELSE packed(k)]
        ELSE [k \in 0..6 |-> IF k = 0 THEN byte0 ELSE a.chars[k - 1]]

(* movebit: copy bit srcBit of src[srcByte] to bit dstBit of dst[dstByte]. *)
(* A 1 is ORed in; a 0 is written as dst[dstByte] &= 0 << dstBit, which   *)
(* clears the whole byte.  An index outside dst panics.                   *)
movebit(src, srcByte, srcBit, dst, dstByte, dstBit) ==
    IF dst = Panic \/ dstByte \notin DOMAIN dst \/ srcByte \notin DOMAIN src
    THEN Panic
    ELSE [dst EXCEPT ![dstByte] =
              IF Bit(src[srcByte], srcBit) >= 1
              THEN IF Bit(@, dstBit) = 1 THEN @ ELSE @ + 2^dstBit
              ELSE 0]

Zeros(n) == [k \in 0..n - 1 |-> 0]

(* One iteration of the loop of ParseTalkerAliasHeaderPDU. *)
ParseBit(data, o, k) ==
    movebit(data, k \div 8, 7 - (k % 8), o, (k - 7) \div 7, 6 - (k % 7))

(* One iteration of the loop of TalkerAliasHeaderPDU.Bytes. *)
BytesBit(t, o, k) ==
    movebit(t.Data, (k - 7) \div 7, 6 - (k % 7), o, (k \div 8) - 1, 7 - (k % 8))

Aliases == [format : Formats, length : Lengths, chars : [0..6 -> Chars]]

Init ==
    /\ alias \in Aliases
    /\ stage = "parse"
    /\ i = 7
    /\ buf = Zeros(7)
    /\ pdu = NoPDU
    /\ wire = NoWire

(* ParseTalkerAliasHeaderPDU, talkeralias.go:48-73, on the header of the  *)
(* alias (7 bytes: the length check passes).  For the 7-bit format, one    *)
(* step per iteration of the bit loop into out = make([]byte, 7).          *)
ParseLoop ==
    /\ stage = "parse" /\ Header(alias)[0] \div 64 = Format7Bit /\ i < 56
    /\ buf' = ParseBit(Header(alias), buf, i)
    /\ i' = i + 1
    /\ UNCHANGED <<alias, stage, pdu, wire>>

ParseReturn ==
    LET data == Header(alias)
        dataFormat == data[0] \div 64
    IN  /\ stage = "parse" /\ (dataFormat = Format7Bit => i = 56)
        /\ pdu' = [DataFormat |-> dataFormat, Length |-> (data[0] \div 2) % 32,
                   Data |-> IF dataFormat = Format7Bit THEN buf
                            ELSE [k \in 0..4 |-> data[k + 1]]]
        /\ stage' = "encode" /\ i' = 7 /\ buf' = Zeros(6)
        /\ UNCHANGED <<alias, wire>>

(* TalkerAliasHeaderPDU.Bytes, talkeralias.go:76-99: for the 7-bit format *)
(* one step per iteration into out = make([]byte, 6); bit49 is never set.  *)
(* out[0..5] of a shorter buffer, or a move to out[-1], panics.            *)
BytesLoop ==
    /\ stage = "encode" /\ pdu.DataFormat = Format7Bit /\ i < 56 /\ buf # Panic
    /\ buf' = BytesBit(pdu, buf, i)
    /\ i' = i + 1
    /\ UNCHANGED <<alias, stage, pdu, wire>>

BytesReturn ==
    LET out == IF pdu.DataFormat = Format7Bit THEN buf ELSE pdu.Data
    IN  /\ stage = "encode" /\ (pdu.DataFormat = Format7Bit => i = 56 \/ buf = Panic)
        /\ wire' = IF ~(0..5 \subseteq DOMAIN out) THEN Panic
                   ELSE [k \in 0..6 |-> IF k = 0
                                        THEN pdu.DataFormat * 64 + (pdu.Length % 32) * 2
                                        ELSE out[k - 1]]
        /\ stage' = "done"
        /\ UNCHANGED <<alias, i, buf, pdu>>

(* Another alias is sent. *)
NextAlias ==
    /\ stage = "done"
    /\ alias' \in Aliases
    /\ stage' = "parse" /\ i' = 7 /\ buf' = Zeros(7)
    /\ pdu' = NoPDU /\ wire' = NoWire

Next == ParseLoop \/ ParseReturn \/ BytesLoop \/ BytesReturn \/ NextAlias

Spec == Init /\ [][Next]_vars

-----------------------------------------------------------------------------
(* Decoding a 7-bit header yields its 7 characters, one in the low 7 bits *)
(* of each byte of Data (data model, 7-bit alias format): what movebit's   *)
(* bit-by-bit copy in ParseTalkerAliasHeaderPDU must achieve.              *)
AliasDecoded ==
    pdu # NoPDU /\ alias.format = Format7Bit =>
        \A k \in 0..6 : pdu.Data[k] % 128 = alias.chars[k]

(* Encoding a parsed header gives the header back (round trip of the      *)
(* talker alias header): Bytes inverts ParseTalkerAliasHeaderPDU.          *)
HeaderRoundTrip ==
    wire # NoWire => wire = Header(alias)

=============================================================================
