\* Reliable flushes, failing mappings: what Sync and Close guarantee.
CONSTANTS
    PageSize = 2
    InitialMap = 2
    MapCap = 4
    AppendSizes = {1, 2, 3}
    MaxAppended = 10
    MapCanFail = TRUE
    FlushCanFail = FALSE
    SeekCanFail = TRUE
SPECIFICATION Spec
\* A closed file accepts no further call.
CHECK_DEADLOCK FALSE
INVARIANTS
    TypeOK
    SyncedDurable
    NoDataTruncated
PROPERTIES
    WritableFileSpec
