\* Coding: scaled widths, 4-bit bytes carrying 3 payload bits, 8-bit
\* "uint32" and 16-bit "uint64" values, so a varint32 has up to 3 bytes and
\* its last byte has spare bits, as the fifth byte of a real varint32 has.
\* The values are the boundaries of each encoded length (0, 127, 128, 16383,
\* 16384 and the maximum, scaled); payloads are empty or two bytes; the
\* buffer sits near the top of the address space.
\* Comparator: bytes 0..3 with 3 standing for 0xff, so that a differing byte
\* can be one or two below the limit's byte or be 0xff itself; keys of up to
\* 3 bytes.
\* Scanner: a 6-bit accumulator (kMax = 63, kMax/10 = 6, kMax%10 = 3), so two
\* or three digits reach, meet and pass the bound; characters are the ten
\* digits and 10 standing for any other character.
\* Status: two characters and messages of up to one, so that msg and msg2
\* can differ and either can be empty.
\* Logger: a header of 2, a stack buffer of 4 and a heap buffer of 7, so that
\* messages of up to 6 fit the stack buffer (0, 1), need the heap buffer
\* (2..4), fill it exactly or are cut (5, 6); C99 snprintf semantics.
CONSTANTS
    G = 3
    W32 = 8
    W64 = 16
    Values32 = {0, 7, 8, 63, 64, 255}
    Values64 = {0, 511, 65535}
    Payloads <- MCPayloads
    MaxItems = 3
    Bases = {200}
    MaxRaw = 3
    CmpByteMax = 3
    CmpMaxLen = 3
    LogW = 6
    LogChars = {0, 1, 2, 3, 4, 5, 6, 7, 8, 9, 10}
    LogMaxLen = 3
    StChars = {a, b}
    StMaxMsg = 1
    Colon = Colon
    Space = Space
    Null = Null
    HeaderLen = 2
    SmallBuf = 4
    LargeBuf = 7
    LgMaxMsg = 6
    C99 = TRUE
SPECIFICATION Spec
\* The coding reader stops once it has read every item written and a
\* deleted logger takes no more calls: those phases end by design.
CHECK_DEADLOCK FALSE
INVARIANTS
    CodTypeOK
    RoundTrip
    CmpTypeOK
    SeparatorBetween
    SuccessorAbove
    NumberExact
    StatusRoundTrip
    LogLineWhole
