# TLA+ models of ZLevelDbWin

This directory holds TLA+ models of the parts of this LevelDB port for Windows
that can be checked with TLC, with the configurations that check them. The
repository contains only part of LevelDB. It has the Windows `Env`
(`src/win32_impl_src/env_win32.cc`), the table cache, the arena, the encoding
helpers, the bytewise comparator, `Status`, the logging helpers, the header of
the memtable, and the interface of the cache. The bodies of the LRU cache, the
skip list and the memtable are not in the repository. Where a model needs them,
they are modelled from `spec.md` and marked `spec_modelled` in `PROJECT.json`.

## 1. Inventory

### Components, their state and their operations

| Component | Source | State | Operations |
|---|---|---|---|
| Table cache | `db/table_cache.cc` | an LRU cache of `TableAndFile` (open `RandomAccessFile` + `Table`) keyed by file number | `NewIterator` (lookup, open file and table on a miss, insert, iterator cleanup `UnrefEntry`), `Evict`, deleter `DeleteEntry` |
| LRU cache | `include/leveldb/cache.h` (interface only) | hash table, LRU list, per-entry reference count and charge, usage | `Insert` (replace, evict), `Lookup`, `Release`, `Erase`, `Value`, `NewId` |
| Win32MapFile | `env_win32.cc` 269-544 | file handle, mapped view (`_base`, `_dst`, `_limit`, `_last_sync`), `_file_offset`, `_map_size`, `_pending_sync` | constructor/`_Init`, `Append`, `_UnmapCurrentRegion`, `_MapNewRegion`, `Sync`, `Flush`, `Close`, destructor |
| Win32 file-system operations | `env_win32.cc` 673-915 | the directory tree and the open handles of the OS | `FileExists`, `GetChildren`, `DeleteFile`, `GetFileSize`, `RenameFile`, `LockFile`/`UnlockFile`, `CreateDir`/`DeleteDir`, `New*File`, `NewLogger` |
| Sequential / random-access files | `env_win32.cc` 146-267 | a read handle (and a file pointer for sequential reads) | `Read`, `Skip`, `_Init`, `isEnable` |
| File lock | `env_win32.cc` 546-580 | an exclusive handle on the LOCK file | `_Init`, `_CleanUp` |
| Win32 logger | `env_win32.cc` 582-671 | a `WritableFile` | `Logv` (two buffer attempts, truncation, newline) |
| Scheduling | `env_win32.cc` 107-121, 791-801 | heap-allocated work items | `Schedule`, `StartThread` |
| Clock | `env_win32.cc` 710-713, 814-820 | none (reads `GetTickCount`) | `NowMicros`, `SleepForMicroseconds` |
| Env helpers | `util/env.cc` | none of their own | `WriteStringToFile`, `ReadFileToString`, `Log` |
| Arena | `util/arena.h`, `util/arena.cc` | block list, bump pointer, bytes left, bytes allocated | `Allocate`, `AllocateAligned`, `AllocateFallback`, `AllocateNewBlock`, `MemoryUsage` |
| Encoding | `util/coding.cc` | none (pure functions) | fixed and varint encoders and decoders, length-prefixed slices |
| Bytewise comparator | `util/comparator.cc` | none | `Compare`, `FindShortestSeparator`, `FindShortSuccessor` |
| Logging helpers | `util/logging.cc` | none | `AppendNumberTo`, `AppendEscapedStringTo`, `ConsumeChar`, `ConsumeDecimalNumber` |
| Status | `util/status.cc` | the packed `state_` array | constructor, `CopyState`, `ToString` |
| Win32 logger | `env_win32.cc` 582-671, 884-899 | the logger's `Win32MapFile` | `NewLogger`, `Logv`, the destructor |
| MemTable | `db/memtable.h` (body absent) | reference count, arena, skip list | `Ref`, `Unref`, `Add`, `Get`, `NewIterator`, `ApproximateMemoryUsage` |
| Skip list | not in the repository | nodes with towers of links, max height | `Insert`, `Contains`, iterator `Seek`/`Next`/`Prev` |
| Histogram | `util/histogram.h` | buckets | unused by the rest of the code |

### How the components interact

* **Table cache and LRU cache.** The table cache owns one LRU cache. It locks
  the cache only inside `Lookup` and `Insert`. The cache runs `DeleteEntry` as
  a callback when an entry's last reference goes. That callback deletes the
  table and closes the file. Each iterator that `NewIterator` returns holds a
  cache handle. The iterator's cleanup callback `UnrefEntry` releases that
  handle.
* **Table cache and Env.** On a miss, the table cache calls
  `Env::NewRandomAccessFile` (`Win32RandomAccessFile`) and `Table::Open`.
  Errors are not cached.
* **Env and files.** `NewWritableFile` and `NewLogger` return a
  `Win32MapFile`. `WriteStringToFile` (`util/env.cc`) runs `Append` and then
  `Close`, and deletes the file on failure. The DB (not in this repository)
  makes `CURRENT` by `WriteStringToFile` on a temporary file followed by
  `RenameFile`.
* **MemTable, Arena and skip list.** A memtable owns an arena and a skip list
  whose keys live in the arena. One writer adds entries while readers run
  `Get` and iterate.

### What is hard

* **Concurrency.** `NewIterator` is not atomic. Two readers can miss on the
  same file, open it twice and insert twice. An `Evict`, or an eviction caused
  by another reader's `Insert`, can remove an entry that an iterator still
  reads. Reference counts must stay exact across all of this. The skip list
  has one writer and lock-free readers. `MemTable::Ref`/`Unref` change a plain
  `int`.
* **Failure.** `Table::Open` can fail after the file was opened. A mapping can
  fail after `_MapNewRegion` already extended the file. A flush can fail after
  `Sync` already cleared its bookkeeping. `MoveFile` can fail in ways that
  `RenameFile` ignores.
* **Crash.** `RenameFile` onto an existing file is a delete followed by a move.
  Data is durable only through `Sync`.
* **Numeric edges.** Examples are the page range flushed by `Sync`, the `avail`
  that `Append` does not re-read after a remap, the map-size cap, the 32-bit
  `GetTickCount()*1000`, the varint overflow, the decimal-overflow test, and
  the alignment slop in the arena.

### Properties that make each component correct

* **Table cache / LRU cache**
  * Reference counts equal residency plus outstanding handles.
  * No table is freed while a handle is held.
  * The deleter runs at most once.
  * No file handle leaks, including on the error paths.
  * Every file whose entry left the cache is eventually closed.
  * The specification also claims that the capacity bounds the number of open
    files.
* **Win32MapFile**
  * After an OK `Sync`, everything appended before it is durable.
  * No appended byte is cut off the file.
  * A closed file is exactly as long as its data.
* **Win32 Env**
  * `RenameFile` replaces the target atomically, even with a crash between its
    steps.
  * An error is reported when the OS call fails.
  * `LockFile` excludes a second holder (it does not when `LOCK` is new: run `env_lock`).
  * The `New*File` calls report failure when the file did not open.
* **Arena**
  * Allocations are disjoint, lie inside their block, and honour alignment.
  * `MemoryUsage` accounts for every block.
* **Encoding, comparator, decimal parsing**
  * Each agrees with a reference definition: decode inverts encode; the
    separator lies between start and limit; the successor is at least the key;
    overflow is rejected exactly.
* **Status and the info log**
  * A `Status` and its copies print the kind and messages they were made of.
  * `Logv` writes every message, cut only at the heap buffer's end.
* **Background scheduling**
  * Work the system accepted runs exactly once, and its wrapper is freed.
* **MemTable / skip list**
  * `Get` returns the newest entry at or below the snapshot.
  * The list stays sorted.
  * Readers see only fully linked nodes.
  * A memtable is deleted only on the last `Unref`.

The hazards, each at its line, are listed under `hazards` in `PROJECT.json`.

## 2. Plan

The modules are listed in the order of their importance to the system:

1. **LRUCache** (spec_modelled) and **TableCache**, which composes it by
   `INSTANCE`. These are the concurrent read path. *Done.*
2. **Win32MapFile**. This is the writable file under the log, the manifest and
   the tables: durability and file length. *Done.*
3. **Win32Env**. It models `RenameFile` in its two steps, `DeleteFile`,
   `GetFileSize`, `LockFile`/`UnlockFile`, the opens of the `New*File` calls
   with their access and share modes and `isEnable` checks, and
   `WriteStringToFile`/`ReadFileToString`, among concurrent threads and
   crashes. *Done:* four violation runs and one passing run, below.
4. **Arena**. *Done:* disjointness, containment, alignment and the tail waste
   of the fallback policy.
5. **Coding**, **Comparator** and **Logging**. *Done:* round trips of every
   encoder and decoder, two violation runs of the decoders, the separator and
   successor postconditions, and `ConsumeDecimalNumber` against the exact
   bound, at reduced widths.
6. **TableCache on Win32Env**. *Done:* the table cache's file opens get the
   share-mode semantics of `Win32RandomAccessFile` (run `table_cache_win32`).
7. **WritableFile** (abstract). *Done:* `WritableFile.tla` states the
   contract of `env.h`'s `WritableFile` over lengths. Win32MapFile implements
   it under the mapping given in its section (`WritableFileSpec` in run
   `map_file`). When flushes fail, the run `map_file_sync_retry` shows the same
   bug that breaks the contract.
8. **SkipList** and **MemTable** (spec_modelled, except `Ref`/`Unref`, the
   `Add`/`Get` contracts of `memtable.h` and `VarintLength`). *Done:* one
   writer and a lock-free reader over a skip list whose records and nodes come
   from the arena. The run `memtable` checks that the composition implements the
   atomic contract `MemTableSpec`. The standalone arena run is folded into it.
9. **Win32Clock**: not done. `NowMicros` wraps every 2^32 microseconds
   (about 71.6 minutes) without `USE_VISTA_API`. But nothing in the repository
   or the specification states what it promises, and nothing here calls it, so
   a run would have no claim to check (see the hazard at `env_win32.cc:819`).
10. **Status** and **Win32Logger**. *Done:* run `primitives` (which now
    also holds the comparator and scanner checks) and the violation run
    `logger_vc9`.
11. **Win32Schedule**. *Done:* `Schedule`, `StartThread` and the pool's
    `WorkItemWrapperProc`, as the second phase of run `env`
    (`MCWin32EnvSchedule`), with liveness under the fairness of the system's
    threads.

## 3. Modules and runs

### LRUCache (`LRUCache.tla`)

The LRU cache's body is not in the repository. The interface contract of
`include/leveldb/cache.h` (`Insert`, `Lookup`, `Release`, `Erase`) is what the
actions translate, and the LRU policy and reference counts come from the
specification.


The cache state is:

* `table`: key to resident entry;
* `lru`: the LRU list, least recently used first;
* `refs`: the reference counts;
* `deleted`: how many times the deleter ran on each entry.

Each operation is one atomic step, because the cache has one mutex. `Insert`
gives the new entry two references, one for the table and one for the handle.
It drops the table's reference of a replaced entry. It then evicts from the LRU
end while usage exceeds capacity. `LookupHit` takes a reference and moves the
entry to the MRU end. `Release` drops a reference. `Erase` unlinks the entry and
drops the table's reference. The deleter runs whenever a count reaches zero.
Every entry has charge 1, the only charge the table cache uses.

### TableCache (`TableCache.tla`, `MCTableCache.tla`)

The module composes LRUCache with `Keys <- Files` and `Entries <- Obj`. Each
reader thread has a `pc`, following `NewIterator` between its locked calls:

* `Idle`: `Lookup` hits and goes to `Iterating`, or misses and goes to
  `Opening`.
* `Opening`: `OpenFileFails` or `TableOpenFails` returns an error iterator.
  `OpenTable` goes to `Inserting`.
* `Inserting`: `InsertTable` goes to `Iterating`.
* `Iterating`: `UnrefEntry` (the iterator is destroyed) goes back to `Idle`.

`Evict(f)` can happen at any time. `openFiles` holds the `TableAndFile` objects
whose file is open, and `objFile` the file each one opened. `DeleteEntry`
closes the file of every entry whose deleter ran in the step. `result` records
what each reader's last `NewIterator` returned.

Two constants describe the Env:

* `EnvFaults`: opening a file or a table may fail.
* `ExclusiveOpen`: `NewRandomAccessFile` fails while a random-access file of
  the same file is open (`SharedOpenFails`). Win32Env behaves this way,
  because `Win32RandomAccessFile::_Init` opens with share mode 0
  (`env_win32.cc:247`).

`table_cache.cc` runs on any Env. The passing run uses an Env that shares
reads and can fail. With that Env, two readers can miss on one file, both open
it, and the second insert replaces the first.

* **Run `table_cache`** (pass). The model has 2 readers, 2 files, capacity 1
  and 4 opens. It checks:
  * `RefsAccount`: the count equals residency plus handles;
  * `NoUseAfterFree`;
  * `DeleterAtMostOnce`;
  * `NoFileLeak`: every open file is resident, held, or about to be inserted;
  * `OpenFilesBounded`: at most `Capacity` plus one per reader table files
    are open. Section 4.7 of the specification calls the capacity a hard
    ceiling, but it bounds only the resident entries. With capacity 1, TLC
    reaches three open files: one resident, and two that readers opened on a
    miss and have not inserted yet. An evicted entry that an iterator still
    holds also stays open. This property checks the ceiling the code does
    keep;
  * `LeftCacheClosed`: a file that left the cache is eventually closed, a
    liveness property.

  The bounds allow two misses on one file at once, a replacing insert, the
  eviction of a held entry, and `Evict` during an iteration. The run finds
  132,465 distinct states.
* **Run `table_cache_win32`** (violation). It uses Win32Env's opens
  (`ExclusiveOpen = TRUE`) and a disk that never fails (`EnvFaults = FALSE`),
  and checks `HealthyReadsSucceed`: no reader's `NewIterator` returns an
  error. TLC finds two readers that miss on one table. The first opens it,
  and the second's `NewRandomAccessFile` fails, so that reader gets an error
  iterator with no I/O fault. A reader that misses on a table whose evicted
  entry an iterator still holds fails the same way.
* The specification's claim (4.7) that the capacity bounds the open files is
  not a run. An evicted entry pinned by an iterator keeps its file open beyond
  the capacity. On Win32Env a second open of that file fails instead, as
  above.

Fairness: each reader eventually inserts what it opened (`InsertTable`) and
eventually destroys its iterator (`UnrefEntry`). The first is code that runs
without waiting. The second is the obligation that `cache.h` puts on every
holder of a handle. Lookups, opens and `Evict` have no fairness, because
callers need not make them.

### Win32MapFile (`Win32MapFile.tla`, `MCWin32MapFile.tla`, `WritableFile.tla`)

`WritableFile` is the abstract specification of a writable file. It has
`Append`, `Sync` and `Close` over the number of bytes appended and the length
of the durable prefix. An `Append` that fails may leave any prefix of its data.
A `Sync` that fails may make any longer prefix durable. No call follows
`Close`. `env.h` is not part of this repository, so the module states the
contract that leveldb's log and table writers rely on.

The variable `mf` mirrors the members of `Win32MapFile`. Pointers are offsets
from `_base`, and `NULL` is 0. `disk` holds the physical length and, for each
file position, whether its content is dirty in the current view, dirty in the
system cache after an unmap, or durable. `appended` and `synced` are history
variables.

* `Append` is the whole loop of `Append`, written as the set of outcomes of the
  recursive operator `AppendLoop`. It includes the stale `avail` after a remap,
  `_UnmapCurrentRegion`, and `_MapNewRegion`, which may fail after extending
  the file.
* `Sync` clears `_pending_sync` and advances `_last_sync` before its flushes.
  A flush may fail.
* `Close` unmaps, trims `unused` when `SetFilePointerEx` succeeds, and
  invalidates the handle.

The units are scaled: a page is 2 units, the first view is 2 units, and the cap
is 4 units (64K, 64K and 1M in the code). Appends are 1, 2 or 3 units, up to
10 in total. With these bounds, an append fits in a view, fills one exactly, or
spans a remap. The view doubles once and then stays at the cap. Deadlock is not
checked, because a closed file accepts no further call.

* **Run `map_file`** (pass). Mappings and seeks can fail; flushes succeed. It
  checks:
  * `SyncedDurable`: after an OK `Sync`, every byte appended before it is
    durable;
  * `NoDataTruncated`: the file is never shorter than the appended data.
  * `WritableFileSpec`: Win32MapFile implements `WritableFile`. The mapping is
    as follows. The abstract `data` is `appended`. `durable` is the longest
    prefix of the appended bytes that is durable. `closed` means the handle is
    invalid. `status` is the history variable holding the `Status` the last
    call returned. An `Append` reports OK only when all of its bytes were
    copied. A `Sync` that reports OK has made every appended byte durable. No
    step takes durability back. Both modules keep a record of the call each
    step is (`call` in `WritableFile`, `lastCall` in `Win32MapFile`: the
    operation, its size, and a bit that flips on every call), and the mapping
    sends one to the other. So the check goes call by call. An `Append(n)`
    that reports OK must be an abstract `Append(n)` that copied all `n`
    bytes. An OK call that copied less, or an OK `Sync` that synced nothing,
    cannot pass as a smaller call or as a stutter. Its mutant
    (`AppendLoopStopAtRemap`) returns OK once it has mapped a new view, with
    the rest of the data uncopied.
* **Run `map_file_sync_retry`** (violation). Flushes can fail. TLC finds this
  sequence: append, a `Sync` whose `FlushViewOfFile` fails, and a second `Sync`
  that returns OK with nothing durable. This is the code bug at
  `env_win32.cc:480/495`.
* An `Append` whose new view cannot be mapped has already extended the file,
  so `Close` sees `unused = 0` and leaves the unwritten tail, against the
  comment "Trim the extra space at the end of the file". This is listed as a
  hazard; no run states the trim.

`FlushViewOfFile` is treated as making the flushed pages durable, and
`FlushFileBuffers` as making the file's cached pages durable. The OS's lazy
write-back is left out: it can only make more data durable, so it cannot break
the durability properties.

### Win32Env (`Win32Env.tla`, `MCWin32Env.tla`, `MCWin32EnvSchedule.tla`)

`fs` maps each name to its content: a model value of `Data`, `Empty`, or
`Absent`. `h` holds each thread's file object as a record of kind, name,
validity, and the access rights and share mode it was opened with. `op` holds
each thread's call in progress. `last` records what the last returned call
reported (`ok`) and what it did (`effect`).

The sharing check of `CreateFileW` is `Conflicts`. A new open fails when it asks
for a right that an open handle does not share, or when an open handle holds a
right the new open does not share. An open that asks for none of read, write
and delete access is neither checked nor counted by Windows' share check
(`IoCheckShareAccess`), so its share mode excludes nothing (`Holders`). Each
object's `_Init` is an operator
(`SequentialFileInit`, `RandomAccessFileInit`, `FileLockInit`;
`NewWritableFile` for `Win32MapFile`) that gives the handle record, with
`valid` for what `isEnable` will say. `SequentialRead` is
`Win32SequentialFile::Read`, which fails on an invalid handle. The access and
share modes are:

| Object | Access | Share |
|---|---|---|
| sequential | read | read |
| random-access | read | none |
| `Win32MapFile` | read and write | read, write and delete |
| `Win32FileLock` | none, plus write when `CREATE_ALWAYS` overwrites | none |

`DeleteFileW` and `MoveFileW` open for delete and share everything. A deleted
file that is still open by handles sharing deletion is unlinked at once, and its
handles become orphans. A moved file's handles follow it.

The actions are:

* `RenameFile` is its first `MoveFile`. An error other than 0xb7 keeps OK.
  On 0xb7 it deletes the target. `RenameRetry` is the second `MoveFileW`, a
  step of its own.
* `StartWriteStringToFile` covers `NewWritableFile`; its OK status hides an
  invalid handle. `FinishWriteStringToFile` is `Append` and `Close` (one step;
  their detail is Win32MapFile), or the failed `Append` followed by
  `DeleteFile(fname)`.
* `StartReadFileToString` is the same split for reads;
  `FinishReadFileToString` is the read loop and the delete of the file object.
* `NewRandomAccessFile` and `CloseRandomAccessFile` are the table cache's open
  and close. The other actions are `GetFileSize`, `LockFile`, `UnlockFile`
  and `DeleteFile`.
* `Crash` closes every handle and keeps the directory.

Two threads, two names (`cur`, `tmp`) and two contents are enough. Each
conflict is between two handles. A rename needs a source and a target. Two
contents tell a rewrite from a kept file. Threads and contents are symmetric
in the violation runs. The state space is finite without a bound.

The passing run composes the file operations with the background work of the
same Env (`Win32Schedule`, below). `MCWin32EnvSchedule` picks one of the two
in the initial state (`phase`), as `MCPrimitives` does, and the other keeps an
initial state. It checks liveness, so it uses no symmetry. Deadlock is not
checked there: the scheduler ends once every call has been made and run. The
file operations never stop, because a `Crash` is always possible.

* **Run `env`** (pass, 16,791 distinct states, `MCWin32EnvSchedule.cfg`). It
  checks:
  * `LockedFileIntact`, an action property: while a thread holds a lock whose
    handle has access, no step of another thread deletes, renames, replaces or
    rewrites the locked file. A lock has access when `LOCK` existed, so that
    `CREATE_ALWAYS` opened it for writing, as it does when a database is
    reopened. Its mutant opens the lock sharing deletion.
  * `AcceptedRunsOnce`, in the scheduler's phase (see Win32Schedule).
* **Run `env_lock`** (violation). It checks `LockExclusive`: two threads never
  hold locks on one file at once, which is what `LockFile`'s share mode 0 is
  for and its "Could not lock file." error says. `Win32FileLock::_Init`
  (`env_win32.cc:561`) opens with access 0. On a `LOCK` file that does not
  exist yet, that open is invisible to the share check. TLC's trace: thread 1
  locks the fresh `tmp`, and thread 2's `LockFile(tmp)` then succeeds. A
  `DeleteFile` of the locked file succeeds in the same way.
* **Run `env_rename`** (violation, with `Protected = {cur}`, a name the
  callers never delete or rename away). It checks `RenameContract`: `cur` is
  never missing, and `RenameFile` returns OK only when it renamed.
  `RenameFile(tmp, cur)` deletes `cur` before it moves `tmp`, so `cur` is
  missing after one step, and a `Crash` there makes the loss permanent. The
  contract also fails in another way: `RenameFile` of a missing source, or of
  one held by a reader, returns OK and moves nothing.
* **Run `env_failed_write`** (violation). `FailedWriteKeepsFiles`: thread 1
  reads `cur`. Thread 2's `WriteStringToFile(cur)` cannot open it, yet
  `NewWritableFile` returns OK, because `isEnable` takes
  `INVALID_HANDLE_VALUE` for an open file. Thread 1 closes. Thread 2's
  `Append` fails, and its `DeleteFile` now removes `cur`, a file the call
  never wrote.
* The share mode 0 of `NewRandomAccessFile` is checked where it matters, on
  the table cache's readers (`table_cache_win32`).

### Arena (`Arena.tla`)

`arena` mirrors `alloc_ptr_`, `alloc_bytes_remaining_`, `blocks_` (the sizes of
the blocks) and `blocks_memory_`. An address is a (block, offset) pair, and
`NULL` is (0, 0). `allocs` records every result handed out, and `live` is false
once the arena is destroyed. `Allocate`, `AllocateAligned`, `AllocateFallback`
and `AllocateNewBlock` are operators returning the new state and the result.
The arena has no caller of its own in the repository other than the memtable,
so its calls are made by `MemTable!Add`, and `~Arena` runs inside the deleting
`MemTable::Unref`. Its invariants are checked in the run `memtable`:

* `AllocationsValid`: the results are inside their blocks and pairwise
  disjoint;
* `AlignedResults`: the assert of `AllocateAligned`;
* `TailWasteBounded`: a block other than the current one is abandoned with
  less than a quarter block plus the slop unused.

The block size (48) and the node sizes (whole pointers) are multiples of the
alignment. The bytes left minus the slop is then a multiple of the alignment
too, so a node that fits without the slop also fits with it. A bug that compares
only the size, not size plus slop, with the bytes left therefore cannot show in
the memtable's use of the arena. The same holds in the real code, with
4096-byte blocks and nodes of whole pointers.

### SkipList (`SkipList.tla`, spec_modelled)

`skiplist.h` is not in the repository, so the module follows the
specification (section 4.4). `next[n][i]` is the successor of node `n` at
level `i`. The value `Uninit` is a link that `NewNode` allocated but no store
has set. `height` is the height of each inserted node and `maxHeight` is
`max_height_`. `w` is the writer's `Insert` in progress, and `sk[t]` is reader
`t`'s `Seek`.

* `InsertBegin` is the search for the predecessors, the random height (any
  level) and `NewNode`, taken as one step. The writer is the only mutator, so
  its own reads are stable.
* `LinkLevel` is one iteration of the level loop, bottom up: the node's link
  is stored, then the predecessor's link is published.
* `InsertEnd` raises `max_height_`.
* `SeekBegin` loads the height cursor, and `SeekStep` is one link load of
  `FindGreaterOrEqual`: move right, go down, or stop at level 1. Loading a link
  that was never stored is the fault `pc = "fault"`.

`LevelsNested`: the bottom list is sorted, every level is a subsequence of the
one below, and a node appears only on levels within its height. It must hold
between the level stores of an insert too.

### MemTable (`MemTable.tla`, `MemTableSpec.tla`, `MCMemTable.tla`)

`MemTable` extends `Arena` and `SkipList`. A record is (user key, sequence,
type), and the skip list is ordered by `InternalLess`: user key ascending, then
the tag `seq << 8 | type` descending. `refs` is `refs_`. `lastSeq` is the DB's
last sequence, set after `Insert` returns. `owned` is the DB's own reference,
`rd[t]` is reader `t`'s `Get`, and `got[t]` is its answer.

* `Add(u, type, h)`: the encoded record from `arena_.Allocate`, whose length
  comes from `VarintLength` and the key and value lengths. Then the node from
  `AllocateAligned`, and `InsertBegin`.
* `Link` and `AddEnd` finish the insert. `AddEnd` publishes the sequence.
* `GetBegin` takes a snapshot of at most the last sequence and runs `Ref`,
  under the DB mutex, and then the seek starts without it.
* `GetStep` is a step of the seek.
* `GetEnd` applies the user-key check of `MemTable::Get` (`memtable.h:65-69`)
  and runs `Unref`.
* `Release` is the DB's own `Unref` once the table is compacted.
* `Unref` destroys the table (and its arena) at `refs_ <= 0`.

`MemTableSpec` is the contract: a growing set of records added in sequence
order, a `Get` that answers atomically from the newest record of its user key at
or below its snapshot, and a count that is never dropped below zero. The
mapping gives the contract's `recs` as the records on the bottom list.

* **Run `memtable`** (pass, 134,036 distinct states). The bounds are:
  * user keys {1, 2} of lengths 1 and 2, value length 6, three adds (sequences
    1..3), `MaxHeight` 2 and one reader;
  * an arena with 48-byte blocks, alignment 4, pointer size 4 and at most 6
    blocks.

  Records of 11 to 18 bytes and nodes of 8 or 12 bytes reach the fallback
  path, the large-block path and the aligned slop within three adds. Two
  heights let a reader's seek interleave with a two-level link. The run checks:
  * `MemTableTypeOK` and the three arena invariants;
  * `LevelsNested`;
  * `MemTableRefinesContract`: the composition implements `MemTableSpec`.
    This holds although the reader walks links the writer is still setting,
    from a height cursor that may be stale;
  * `GetsReturn`: every started `Get` returns;
  * `TableFreed`: once the DB has released the table, it is eventually
    destroyed.

  The fairness is weak fairness on the writer's `Link` and `AddEnd` and on
  each reader's `GetStep` and `GetEnd`. Readers never block (section 5), and
  `Insert` has no waits. `Add`, `GetBegin` and `Release` are not fair, since the
  DB may stop writing or reading. Deadlock is not checked: the run ends when
  the adds are used up and the table is freed. A second reader or a fourth
  add takes the state space past a million states.

### The primitives (`MCPrimitives.tla`)

The encoders and decoders, the comparator, the decimal scanner, `Status` and
the info logger share no state. `MCPrimitives` takes each as a named
`INSTANCE` and checks them in one
run, `primitives`. The variable `phase` picks in the initial state which of
them a behaviour exercises. The others stay in one of their initial states, so
the states add up rather than multiply. Deadlock is not checked, because a
deleted logger takes no more calls, and the coding reader stops once it has
read every item written. No fairness is assumed.

* **Run `primitives`** (pass, 1,473,940 distinct states, about 25 s). It
  checks the eight properties listed under the five modules below.

#### Coding (`Coding.tla`, `MCCoding.tla`)

The widths are scaled down:

| Code | Model |
|---|---|
| 7 payload bits per varint byte | `G = 3` |
| 8-bit bytes | `G + 1 = 4` bits |
| `uint32_t` | 8 bits |
| `uint64_t` | 16 bits |

Every shift and `|` is computed modulo `2^w`, as the C integer would, so a
byte's bits above the width are lost exactly as in the code. The encoders are
operators. `EncodeVarint64` is `RECURSIVE` over its loop. `DecodeLoop` is the
shared loop of `GetVarint32PtrFallback` and `GetVarint64Ptr`.

The state is a buffer built by `Put` actions (each `Put*` function) and a read
position advanced by `Get` actions (each `Get*` function). `base` is the
address of the buffer in a 32-bit address space, scaled to 8 bits. The pointer
form of `GetLengthPrefixedSlice` computes `p + len` modulo that. `SpecRaw`
starts from arbitrary byte strings instead, to check the decoders on input no
encoder wrote.

* In run `primitives`, `RoundTrip`: every value written by `Put` is read
  back by the matching `Get`, and the reads end exactly at the end of the
  buffer. `CodTypeOK` is its type invariant. The run has no liveness
  property: TLC's liveness checker compares whole states, and the items'
  `val` fields (integers in some, byte strings in others) cannot be
  compared.
* **Run `coding_decode`** (violation). It checks `AcceptedReadsExact`, the
  specification's contract (3.1, 5): a successful read denotes exactly the
  bytes it consumed, inside the buffer. With the buffer near the top of the
  address space, `p + len > limit` wraps (`coding.cc:187`), and a slice
  running past the buffer is accepted. With `Bases = {0}` the same property
  fails on a varint32 of the greatest length (five bytes in the code, three
  here) whose last byte has bits beyond the width: it is accepted with those
  bits dropped (`coding.cc:133`).

#### Comparator (`Comparator.tla`)

Bytes are 0..3, where 3 stands for 0xff, and strings have at most 3 bytes.
`Less` is the lexicographic order, a `RECURSIVE` reference definition.
`FindShortestSeparator` and `FindShortSuccessor` rewrite `start` and `key` in
place, and may be applied again to their own results. `start0` and `key0` are
history variables. The run checks:

* `SeparatorBetween`: `start0 <= start < limit`, and `start` is never longer
  than `start0`;
* `SuccessorAbove`: `key0 <= key`, and `key` is never longer than `key0`.

#### Logging (`Logging.tla`)

`in` is the unconsumed input: digits 0..9 and one non-digit. `ConsumeChar` and
`ConsumeDecimalNumber` consume from its front. The accumulator has `W = 6`
bits, and inputs are up to 3 characters, so values around `2^6 - 1 = 63`
(digits "63", "64", "639") reach the overflow test on both sides.

`NumberExact`: the call succeeds exactly when a non-empty digit run with a
value of at most `2^W - 1` is at the front. It then returns that value and
consumes exactly the run.

#### Status (`Status.tla`)

`NewState` is the constructor. It builds the `state_` array: the size
`len1 + (len2 ? 2 + len2 : 0)` as four little-endian bytes (`Fixed32`), the
code, `msg`, and `": "` and `msg2` when `msg2` is not empty. `CopyState` reads
the size back (`Decoded32`) and copies `size + 5` bytes. `ToString` is the
code's prefix, one token here, followed by the length-delimited message.

`status.h` is not in the repository, so the state machine around these
functions is spec_modelled. A factory makes a status (`MakeStatus`, any error
code and messages of up to one character from {a, b}). `MakeOk` resets it to
`NULL`. `CopyStatus` copies it as the copy constructor and assignment do.

`StatusRoundTrip`: a status and its copy print as the kind and messages they
were made of (section 7), so the size written, the bytes laid out, the size
`CopyState` reads and the bytes `ToString` takes agree. The `uint32_t` sizes
are naturals in the model. They wrap only for messages of 4 GiB, past TLC's
integers (hazard at `status.cc:33`).

#### Win32Logger (`Win32Logger.tla`, `MCWin32LoggerVc9.cfg`)

`NewLogger` always makes the logger: `isEnable` is true even for
`INVALID_HANDLE_VALUE`, and then the file's Appends write nothing (`valid`).
`Logv` is one step, and `LogvLine` is its loop:

* `Format(iter, msg)` is one iteration over a buffer, a function from offsets
  to bytes that starts as `Garbage`. It writes the header with `snprintf`,
  then the message with `vsnprintf` if the header left room. On an overflow it
  retries on iteration 0, and on iteration 1 it truncates to `limit - 1`. It
  adds a newline unless the line already ends in one.
* `Stored` and `Returned` are what the C runtime's `snprintf` stores and
  returns. With `C99` it stores at most `avail - 1` bytes and a NUL and returns
  the length needed. The Visual C++ 2008 runtime of the vc9 build (`snprintf`
  is `_snprintf` there) returns -1 when the output is longer than `avail`.
* `lines` holds the last line Appended, and `DeleteLogger` is the destructor.

The bounds are a header of 2, a stack buffer of 4, a heap buffer of 7 and
messages of up to 6, ending in a newline or not. Messages of length 0 to 1 fit
the stack buffer, 2 to 4 need the heap buffer, and 5 to 6 fill it exactly or
are cut.

`LogLineWhole`: the line is the header, the message cut only where the heap
buffer ends (its last byte kept for the newline), and one newline, as the
comments of `Logv` describe. It holds with C99 `snprintf`.

* **Run `logger_vc9`** (violation). It uses the vc9 runtime. TLC finds a
  message of 3 bytes written as the header's first byte and a newline:
  `vsnprintf` returned -1, `p` moved back into the header and stayed below
  `limit`, so the heap buffer was never tried. In the real program, every
  message longer than the rest of the 500-byte stack buffer is lost this way.

### Win32Schedule (`Win32Schedule.tla`, run `env`)

Each element of `Items` is one call of `Schedule` or `StartThread`, that is,
one (function, arg) pair. The run has three calls and two pool threads, so
two items can run at once while a third waits.

* `Schedule(i)` allocates the `WorkItemWrapper` and calls `QueueUserWorkItem`.
  The system accepts the item (into `queue`) or refuses it. The code ignores
  the result, so a refused item's wrapper stays `"live"` for ever.
* `StartThread(i)` is `_beginthread`: the thread starts (`started`) or fails,
  and the failure is ignored too. `ThreadRun(i)` is that thread calling the
  function.
* The pool gives a queued item to any idle thread (`Dispatch`), in any order.
  `WorkItemWrapperProc` is then three steps. `TakeItem` copies the function
  and argument and deletes the wrapper. `CallProc` calls the copy, and
  `ProcReturn` returns to the pool. A read of a freed wrapper is undefined
  (`ProcRead`): it may give the old function or `Garbage`.
* Fairness: each pool thread, and each started thread, is weakly fair. The
  system schedules its threads, so none stops for ever while it can run.
  Callers are not fair: they need not call at all.

`AcceptedRunsOnce` (temporal): no function is ever called twice. Every item
the system accepted, on the pool or on a thread of its own, is eventually
called, and a pool item's wrapper is freed. Its mutant deletes the wrapper
before copying out of it (`TakeItemFreeFirst`): the call may go to garbage,
and the item never runs. Refused work is the one way work is lost (hazard at
`env_win32.cc:793`). No statement in the repository says `Schedule` must not
lose work (`env.h` is not here), so no violation run checks it.

## 4. Not modelled, and why

* Path and error-text helpers, `GetPageSize`, `GetTestDirectory`, the wording
  of `Status::ToString`'s prefixes, the date and time fields of `Logv`'s header
  (which print the minute where the second belongs), and `AppendNumberTo` /
  `AppendEscapedStringTo`: these are string formatting, which no property is
  about.
* Two threads in `Logv` at once: they race on the unlocked `Win32MapFile`,
  a data race whose outcomes are not a small set (hazard at
  `env_win32.cc:662`).
* What the scheduled functions do: serializing background work is up to
  `DBImpl`, which is not in the repository. `Win32Schedule` shows only that
  items may run concurrently and in any order.
* `Histogram`: `histogram.h` declares the class only. Its bodies are not in
  the repository, and nothing here uses it.
* `NewId` and `Value` of the cache: `NewId` is unused by the table cache, and
  `Value` is a read.
* `Flush` of `Win32MapFile` returns OK and changes nothing.
* The existing-file case of `Win32MapFile` (`OPEN_EXISTING`): Win32MapFile
  starts from a new, empty file. In Win32Env, opening an existing file and
  writing it whole is one step, since `Close` trims to the written length.
* `FileExists` and `GetChildren` change nothing. `CreateDir` and `DeleteDir`
  act on directories, which no property is about.
* In `Win32MapFile::_Init`, `PathFileExistsW` followed by `CreateFileW` is one
  step in Win32Env (hazard at `env_win32.cc:524`).
* `MemoryUsage` of the arena and `ApproximateMemoryUsage` of the memtable are
  reads. `NewIterator` of the memtable is the same seek as `Get`. `Compare` is modelled only through the
  order it defines.
