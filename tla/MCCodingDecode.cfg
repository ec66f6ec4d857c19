\* Scaled widths: 4-bit bytes carrying 3 payload bits, 8-bit "uint32" and
\* 16-bit "uint64" values, so a varint32 has up to 3 bytes and its last byte
\* has spare bits, as the fifth byte of a real varint32 has.  The values are
\* the boundaries of each encoded length (0, 127, 128, 16383, 16384 and the
\* maximum, scaled); payloads are empty or two bytes; the buffer sits near
\* the top of the address space.
CONSTANTS
    G = 3
    W32 = 8
    W64 = 16
    Values32 = {0, 7, 8, 63, 64, 255}
    Values64 = {0, 511, 65535}
    Payloads <- MCPayloads
    MaxItems = 3
    Bases = {200}
    MaxRaw = 3
SPECIFICATION SpecRaw
\* A reader stops at the end of the buffer or at its first failure.
CHECK_DEADLOCK FALSE
INVARIANT AcceptedReadsExact
