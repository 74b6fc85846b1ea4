\* Talker alias header codec: 7-bit aliases of the characters 0x00, 0x40
\* and 0x7F, and 8-bit headers.
CONSTANTS
    Chars = {0, 64, 127}
    Lengths = {7}
    Formats = {0, 1}
SPECIFICATION Spec
INVARIANT AliasDecoded
