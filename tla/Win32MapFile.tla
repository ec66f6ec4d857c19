---------------------------- MODULE Win32MapFile ----------------------------
(***************************************************************************)
(* win32_impl_src/env_win32.cc: Win32MapFile, the WritableFile returned by *)
(* Win32Env::NewWritableFile (log, manifest and table files).  Appends go  *)
(* through a mapped view of the file that is replaced by a view twice as   *)
(* large each time it fills up (capped); Sync flushes the pages written    *)
(* since the last Sync, and FlushFileBuffers for regions that were         *)
(* unmapped before they were synced; Close trims the unused tail of the    *)
(* last view.  A WritableFile is used by one thread at a time, so every    *)
(* call is one step.                                                       *)
(*                                                                         *)
(* Sizes are in abstract units: PageSize stands for g_PageSize, InitialMap *)
(* for the 65536 of the constructor and MapCap for the 1<<20 cap.  Bytes   *)
(* are file positions; the disk keeps the physical file length and, per    *)
(* position, whether its content is dirty in the current view, dirty in    *)
(* the system cache after its view was unmapped, or durable.  Pointers are *)
(* offsets from _base, and NULL pointers are 0, as their differences are.  *)
(***************************************************************************)
EXTENDS Naturals, FiniteSets

CONSTANTS
    PageSize,       \* Win32::g_PageSize (a power of two)
    InitialMap,     \* the 65536 the first view is rounded up from
    MapCap,         \* the view size stops doubling at this size (1<<20)
    AppendSizes,    \* sizes of the slices passed to Append
    MaxAppended,    \* bound on the bytes appended in a behaviour
    MapCanFail,     \* CreateFileMapping / MapViewOfFile may fail
    FlushCanFail,   \* FlushFileBuffers / FlushViewOfFile may fail
    SeekCanFail     \* SetFilePointerEx in Close may fail

ASSUME \E k \in 0..10 : PageSize = 2^k

VARIABLES
    mf,         \* the Win32MapFile members
    disk,       \* the file as the system sees it
    appended,   \* history: bytes copied into views by Append
    synced,     \* history: value of appended when a Sync last returned OK
    status,     \* history: the Status the last call returned, "ok" or "error"
    lastCall    \* history: the last call, its size, and a tick that alternates

vars == <<mf, disk, appended, synced, status, lastCall>>

(* Record a call of op with argument n.                                    *)
Record(op, n) == lastCall' = [op |-> op, n |-> n, tick |-> 1 - lastCall.tick]

Positions == 0..(MaxAppended + 2 * MapCap)

(* Win32MapFile::_Roundup and _TruncateToPageBoundary.                     *)
Roundup(x, y) == ((x + y - 1) \div y) * y
TruncateToPageBoundary(s) == s - (s % PageSize)

MapFileRec == [hFile : {"valid", "invalid"}, base : BOOLEAN,
               dst : 0..MapCap, limit : 0..MapCap, lastSync : 0..MapCap,
               fileOffset : Nat, mapSize : 1..MapCap, pendingSync : BOOLEAN]
DiskRec == [len : Nat, viewDirty : SUBSET Positions,
            cacheDirty : SUBSET Positions, durable : SUBSET Positions]

TypeOK ==
    /\ mf \in MapFileRec
    /\ disk \in DiskRec
    /\ appended \in 0..MaxAppended
    /\ synced \in 0..MaxAppended
    /\ status \in {"ok", "error"}
    /\ lastCall \in [op : {"none", "append", "sync", "close"}, n : 0..MaxAppended, tick : {0, 1}]

(* The constructor on a new file: handle open, nothing mapped.             *)
Init ==
    /\ mf = [hFile |-> "valid", base |-> FALSE, dst |-> 0, limit |-> 0,
             lastSync |-> 0, fileOffset |-> 0,
             mapSize |-> Roundup(InitialMap, PageSize), pendingSync |-> FALSE]
    /\ disk = [len |-> 0, viewDirty |-> {}, cacheDirty |-> {}, durable |-> {}]
    /\ appended = 0
    /\ synced = 0
    /\ status = "ok"
    /\ lastCall = [op |-> "none", n |-> 0, tick |-> 0]

OkOutcomes(canFail) == IF canFail THEN BOOLEAN ELSE {TRUE}

(* Mutant: the view size doubles while it is at most the cap.             *)
UnmapCapOffByOne(r) ==
    LET f == r.f IN
    IF ~f.base THEN r
    ELSE [f |-> [f EXCEPT !.pendingSync = IF f.lastSync < f.limit THEN TRUE ELSE @,
                          !.fileOffset = @ + f.limit,
                          !.base = FALSE, !.limit = 0, !.lastSync = 0, !.dst = 0,
                          !.mapSize = IF @ <= MapCap THEN 2 * @ ELSE @],
          d |-> [r.d EXCEPT !.cacheDirty = @ \cup r.d.viewDirty, !.viewDirty = {}]]

(* Mutant: an unsynced view is unmapped without setting pending_sync.      *)
UnmapNoPending(r) ==
    LET f == r.f IN
    IF ~f.base THEN r
    ELSE [f |-> [f EXCEPT !.fileOffset = @ + f.limit,
                          !.base = FALSE, !.limit = 0, !.lastSync = 0, !.dst = 0,
                          !.mapSize = IF @ < MapCap THEN 2 * @ ELSE @],
          d |-> [r.d EXCEPT !.cacheDirty = @ \cup r.d.viewDirty, !.viewDirty = {}]]

(* _UnmapCurrentRegion: a view not synced to its limit leaves pending_sync *)
(* for the next Sync; the dirty pages of the view stay in the system       *)
(* cache; the file offset moves past the view, and the next view doubles.  *)
(* It always returns true.  r is [f |-> members, d |-> disk].              *)
UnmapCurrentRegion(r) ==
    LET f == r.f IN
    IF ~f.base THEN r
    ELSE [f |-> [f EXCEPT !.pendingSync = IF f.lastSync < f.limit THEN TRUE ELSE @,
                          !.fileOffset = @ + f.limit,
                          !.base = FALSE, !.limit = 0, !.lastSync = 0, !.dst = 0,
                          !.mapSize = IF @ < MapCap THEN 2 * @ ELSE @],
          d |-> [r.d EXCEPT !.cacheDirty = @ \cup r.d.viewDirty, !.viewDirty = {}]]

(* _MapNewRegion: the file is extended to the end of the new view (the     *)
(* results of SetFilePointerEx/SetEndOfFile are not checked), then the     *)
(* mapping and the view are created; the set of outcomes, ok or not.       *)
MapNewRegion(r) ==
    LET f == r.f
        d == [r.d EXCEPT !.len = f.fileOffset + f.mapSize]
    IN  {[f |-> [f EXCEPT !.base = TRUE, !.limit = f.mapSize, !.dst = 0, !.lastSync = 0],
          d |-> d, ok |-> TRUE]}
        \cup (IF MapCanFail THEN {[f |-> f, d |-> d, ok |-> FALSE]} ELSE {})

(* The memcpy of n bytes at _dst.                                          *)
Copy(r, n) ==
    [f |-> [r.f EXCEPT !.dst = @ + n],
     d |-> [r.d EXCEPT !.viewDirty = @ \cup {r.f.fileOffset + r.f.dst + i : i \in 0..(n - 1)}]]

RECURSIVE AppendLoop(_, _)
(* Mutant: the loop returns OK once it has mapped a new view, leaving the *)
(* rest of the data uncopied.                                              *)
AppendLoopStopAtRemap(r, left) ==
    IF left = 0 THEN {[f |-> r.f, d |-> r.d, ok |-> TRUE]}
    ELSE LET avail == r.f.limit - r.f.dst
             n     == IF left <= avail THEN left ELSE avail
         IN  IF avail = 0
             THEN MapNewRegion(UnmapCurrentRegion(r))
             ELSE AppendLoop(Copy(r, n), left - n)

(* The loop of Win32MapFile::Append over the bytes left, as the set of its *)
(* outcomes.  avail is read before a full view is replaced and is not      *)
(* re-read after, so the iteration that remaps copies nothing.             *)
AppendLoop(r, left) ==
    IF left = 0 THEN {[f |-> r.f, d |-> r.d, ok |-> TRUE]}
    ELSE LET avail == r.f.limit - r.f.dst
             n     == IF left <= avail THEN left ELSE avail
         IN  IF avail = 0
             THEN UNION {IF m.ok THEN AppendLoop(Copy(m, n), left - n)
                         ELSE {[f |-> m.f, d |-> m.d, ok |-> FALSE]}
                         : m \in MapNewRegion(UnmapCurrentRegion(r))}
             ELSE AppendLoop(Copy(r, n), left - n)

Appended(f) == f.fileOffset + f.dst

(* Win32MapFile::Append(data): an IOError leaves what was copied before it. *)
Append(size) ==
    /\ mf.hFile = "valid"
    /\ appended + size <= MaxAppended
    /\ \E o \in AppendLoop([f |-> mf, d |-> disk], size) :
          /\ mf' = o.f
          /\ disk' = o.d
          /\ appended' = Appended(o.f)
          /\ status' = IF o.ok THEN "ok" ELSE "error"
    /\ Record("append", size)
    /\ UNCHANGED synced

(* Win32MapFile::Sync.  pending_sync is cleared and _last_sync advanced    *)
(* before the flushes, whose results only decide the status.               *)
Sync ==
    /\ mf.hFile = "valid"
    /\ \E okBuffers \in OkOutcomes(FlushCanFail), okView \in OkOutcomes(FlushCanFail) :
        LET f       == mf
            flushB  == f.pendingSync
            flushV  == f.dst > f.lastSync
            p1      == TruncateToPageBoundary(f.lastSync)
            p2      == TruncateToPageBoundary(f.dst - 1)
            pages   == {f.fileOffset + i : i \in p1..(p2 + PageSize - 1)}
            fromB   == IF flushB /\ okBuffers THEN disk.cacheDirty ELSE {}
            fromV   == IF flushV /\ okView THEN disk.viewDirty \cap pages ELSE {}
            ok      == (flushB => okBuffers) /\ (flushV => okView)
        IN  /\ mf' = [f EXCEPT !.pendingSync = FALSE,
                               !.lastSync = IF flushV THEN f.dst ELSE @]
            /\ disk' = [disk EXCEPT !.cacheDirty = @ \ fromB,
                                    !.viewDirty = @ \ fromV,
                                    !.durable = @ \cup fromB \cup fromV]
            /\ synced' = IF ok THEN appended ELSE synced
            /\ status' = IF ok THEN "ok" ELSE "error"
    /\ Record("sync", 0)
    /\ UNCHANGED appended

(* Mutant: the trim is computed from the file offset before the unmap.    *)
CloseTrimBeforeUnmap ==
    /\ mf.hFile = "valid"
    /\ \E okSeek \in OkOutcomes(SeekCanFail) :
        LET unused == mf.limit - mf.dst
            u      == UnmapCurrentRegion([f |-> mf, d |-> disk])
            trim   == unused > 0 /\ okSeek
        IN  /\ mf' = [u.f EXCEPT !.hFile = "invalid", !.base = FALSE, !.limit = 0]
            /\ disk' = [u.d EXCEPT !.len = IF trim THEN mf.fileOffset - unused ELSE @]
            /\ status' = IF unused > 0 /\ ~okSeek THEN "error" ELSE "ok"
    /\ Record("close", 0)
    /\ UNCHANGED <<appended, synced>>

(* Win32MapFile::Close: unmap, trim the unused tail of the view, close the *)
(* handle.  The handle becomes INVALID_HANDLE_VALUE whatever the status.   *)
Close ==
    /\ mf.hFile = "valid"
    /\ \E okSeek \in OkOutcomes(SeekCanFail) :
        LET unused == mf.limit - mf.dst
            u      == UnmapCurrentRegion([f |-> mf, d |-> disk])
            trim   == unused > 0 /\ okSeek
        IN  /\ mf' = [u.f EXCEPT !.hFile = "invalid", !.base = FALSE, !.limit = 0]
            /\ disk' = [u.d EXCEPT !.len = IF trim THEN u.f.fileOffset - unused ELSE @]
            /\ status' = IF unused > 0 /\ ~okSeek THEN "error" ELSE "ok"
    /\ Record("close", 0)
    /\ UNCHANGED <<appended, synced>>

Next ==
    \/ \E size \in AppendSizes : Append(size)
    \/ Sync
    \/ Close

Spec == Init /\ [][Next]_vars
-----------------------------------------------------------------------------
(* Once Sync has returned OK, every byte appended before it is durable:    *)
(* the pages of the current view written since the last Sync were flushed *)
(* by FlushViewOfFile, and views unmapped before they were synced were     *)
(* flushed by FlushFileBuffers through pending_sync.                       *)
SyncedDurable == \A p \in 0..(synced - 1) : p \in disk.durable

(* No appended byte is ever cut off the file: neither the view extension  *)
(* of _MapNewRegion nor the trim of Close shortens the file below the     *)
(* bytes Append has copied.                                                *)
NoDataTruncated == disk.len >= appended
-----------------------------------------------------------------------------
(* The length of the durable prefix of the appended bytes.                 *)
DurablePrefix ==
    CHOOSE k \in 0..appended :
        /\ \A p \in 0..(k - 1) : p \in disk.durable
        /\ k = appended \/ k \notin disk.durable

(* Win32MapFile as a WritableFile: the bytes are those Append copied, the  *)
(* durable bytes are the durable prefix of the file, a closed file is one  *)
(* whose handle is INVALID_HANDLE_VALUE, and each call is the same call    *)
(* with the same argument.                                                 *)
AbstractFile == INSTANCE WritableFile
    WITH data <- appended, durable <- DurablePrefix,
         closed <- (mf.hFile = "invalid"), status <- status, call <- lastCall,
         Sizes <- AppendSizes

(* Every behaviour of Win32MapFile is one the WritableFile contract allows, *)
(* call by call: an Append of n bytes reporting OK has copied exactly n    *)
(* bytes, an Append reporting an error a prefix of them, a Sync reporting  *)
(* OK has made every appended byte durable (through FlushViewOfFile of the *)
(* current view and FlushFileBuffers of the views unmapped since), and no  *)
(* step makes a durable byte volatile again.                               *)
WritableFileSpec == AbstractFile!Spec
=============================================================================
