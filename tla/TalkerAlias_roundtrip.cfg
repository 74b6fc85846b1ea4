\* Talker alias header codec: aliases of the characters 0x00, 0x40 and 0x7F
\* in the 7-bit and the ISO 8-bit formats.
CONSTANTS
    Chars = {0, 64, 127}
    Lengths = {7}
    Formats = {0, 1}
SPECIFICATION Spec
INVARIANT HeaderRoundTrip
