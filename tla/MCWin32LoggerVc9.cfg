\* The vc9 build: snprintf is _snprintf and vsnprintf returns -1 when the
\* output does not fit.  A header of 2, a stack buffer of 4 and a heap
\* buffer of 7; messages of up to 6.
CONSTANTS
    HeaderLen = 2
    SmallBuf = 4
    LargeBuf = 7
    MaxMsg = 6
    C99 = FALSE
SPECIFICATION LoggerSpec
\* A deleted logger takes no more calls.
CHECK_DEADLOCK FALSE
INVARIANT LogLineWhole
