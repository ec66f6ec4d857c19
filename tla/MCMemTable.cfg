\* Two user keys of lengths 1 and 2, three records, nodes of height 1 or 2,
\* one reader; a 32-bit build (4-byte pointers) and a 48-byte block.
CONSTANTS
    r1 = r1
    head = head
    nil = nil
    uninit = uninit
    Readers <- MCReaders
    HeadNode <- head
    Nil <- nil
    Uninit <- uninit
    UserKeys = {1, 2}
    KeyLen <- MCKeyLen
    ValueLen = 6
    MaxSeq = 3
    MaxHeight = 2
    PtrSize = 4
    Keys <- MCRecords
    LessK <- InternalLess
    BlockSize = 48
    Align = 4
    Sizes <- MCSizes
    MaxBlocks = 6
SPECIFICATION MemSpec
\* The writer stops after MaxSeq records and every reader after one Get.
CHECK_DEADLOCK FALSE
INVARIANTS
    MemTableTypeOK
    AllocationsValid
    AlignedResults
    TailWasteBounded
    LevelsNested
PROPERTIES
    MemTableRefinesContract
    GetsReturn
    TableFreed
