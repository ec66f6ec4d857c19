----------------------------- MODULE TableCache -----------------------------
(***************************************************************************)
(* db/table_cache.cc: TableCache::NewIterator and TableCache::Evict over   *)
(* the LRU cache of module LRUCache, called concurrently by reader threads *)
(* and by the thread that deletes obsolete files.                          *)
(*                                                                         *)
(* NewIterator is not atomic: the cache is locked only inside Lookup and   *)
(* Insert, and the file open and Table::Open in between run unlocked.  A   *)
(* reader is therefore split at those points:                              *)
(*   Idle --Lookup hit--> Iterating                                        *)
(*   Idle --Lookup miss--> Opening --open fails--> Idle (error iterator)   *)
(*                        Opening --open ok--> Inserting --Insert--> Iterating *)
(*   Iterating --iterator destroyed (UnrefEntry)--> Idle                   *)
(* Every successful open creates a new TableAndFile, numbered 1, 2, ...   *)
(* in the order of creation; these numbers are the cache's entries.  The  *)
(* RandomAccessFile of a TableAndFile stays open until DeleteEntry runs.   *)
(***************************************************************************)
EXTENDS Naturals, Sequences, SequencesExt, FiniteSets

CONSTANTS
    Threads,    \* reader threads calling NewIterator
    Files,      \* table file numbers
    Capacity,   \* the cache's capacity (options->max_open_files - 10)
    MaxOpens,   \* bound on the number of files opened in a behaviour
    NoEntry,    \* model value: NULL handle
    ExclusiveOpen, \* TRUE for Win32Env: a random-access file shares nothing
    EnvFaults   \* TRUE when opening a file or a table may fail

ASSUME /\ MaxOpens \in Nat \ {0}
       /\ ExclusiveOpen \in BOOLEAN /\ EnvFaults \in BOOLEAN

Obj == 1..MaxOpens   \* TableAndFile objects (RandomAccessFile + Table)

VARIABLES
    pc,         \* where each reader is in NewIterator / its iterator's life
    target,     \* the file number each reader asked for
    handle,     \* the TableAndFile a reader is inserting or whose handle it holds
    opened,     \* TableAndFile objects created so far
    openFiles,  \* objects whose RandomAccessFile is open
    objFile,    \* the file number each object opened
    result,     \* history: what each reader's last NewIterator returned
    table, lru, refs, deleted

Cache == INSTANCE LRUCache WITH Keys <- Files, Entries <- Obj

vars == <<pc, target, handle, opened, openFiles, objFile, result, table, lru, refs, deleted>>

TypeOK ==
    /\ pc \in [Threads -> {"Idle", "Opening", "Inserting", "Iterating"}]
    /\ target \in [Threads -> Files]
    /\ handle \in [Threads -> Obj \cup {NoEntry}]
    /\ opened \in 0..MaxOpens
    /\ openFiles \subseteq 1..opened
    /\ objFile \in [1..opened -> Files]
    /\ result \in [Threads -> {"none", "ok", "error"}]
    /\ Cache!CacheTypeOK

Init ==
    /\ pc = [t \in Threads |-> "Idle"]
    /\ target = [t \in Threads |-> CHOOSE f \in Files : TRUE]
    /\ handle = [t \in Threads |-> NoEntry]
    /\ opened = 0
    /\ openFiles = {}
    /\ objFile = <<>>
    /\ result = [t \in Threads |-> "none"]
    /\ Cache!CacheInit

(* DeleteEntry: the deleter deletes the table and closes the file of       *)
(* every entry whose last reference was dropped in this step.              *)
DeleteEntry ==
    openFiles' = openFiles \ {o \in Obj : deleted'[o] > deleted[o]}

(* NewIterator, up to the cache lookup: encode the file number as the key  *)
(* and Lookup; a hit takes the table from the handle, builds the iterator  *)
(* and registers UnrefEntry as its cleanup.                                *)
Lookup(t, f) ==
    /\ pc[t] = "Idle"
    /\ target' = [target EXCEPT ![t] = f]
    /\ \/ /\ Cache!LookupHit(f)
          /\ pc' = [pc EXCEPT ![t] = "Iterating"]
          /\ handle' = [handle EXCEPT ![t] = table[f]]
          /\ result' = [result EXCEPT ![t] = "ok"]
       \/ /\ table[f] = NoEntry
          /\ pc' = [pc EXCEPT ![t] = "Opening"]
          /\ UNCHANGED <<handle, result, table, lru, refs, deleted>>
    /\ UNCHANGED <<opened, openFiles, objFile>>

(* Win32RandomAccessFile::_Init opens with share mode 0: NewRandomAccessFile *)
(* fails while a RandomAccessFile of the same file is open.                *)
SharedOpenFails(t) ==
    ExclusiveOpen /\ \E o \in openFiles : objFile[o] = target[t]

(* Miss path, unlocked: NewRandomAccessFile fails, so no file is open and  *)
(* an error iterator is returned; nothing is cached.                       *)
OpenFileFails(t) ==
    /\ pc[t] = "Opening"
    /\ EnvFaults \/ SharedOpenFails(t)
    /\ pc' = [pc EXCEPT ![t] = "Idle"]
    /\ result' = [result EXCEPT ![t] = "error"]
    /\ UNCHANGED <<target, handle, opened, openFiles, objFile, table, lru, refs, deleted>>

(* Mutant: the error path returns without deleting the opened file.       *)
TableOpenFailsLeaks(t) ==
    /\ pc[t] = "Opening"
    /\ EnvFaults /\ ~SharedOpenFails(t)
    /\ opened < MaxOpens
    /\ opened' = opened + 1
    /\ openFiles' = openFiles \cup {opened + 1}
    /\ objFile' = Append(objFile, target[t])
    /\ pc' = [pc EXCEPT ![t] = "Idle"]
    /\ result' = [result EXCEPT ![t] = "error"]
    /\ UNCHANGED <<target, handle, table, lru, refs, deleted>>

(* Miss path, unlocked: the file opens but Table::Open fails; the file is  *)
(* deleted and an error iterator is returned; nothing is cached.           *)
TableOpenFails(t) ==
    /\ pc[t] = "Opening"
    /\ EnvFaults /\ ~SharedOpenFails(t)
    /\ opened < MaxOpens
    /\ opened' = opened + 1
    /\ openFiles' = openFiles
    /\ objFile' = Append(objFile, target[t])
    /\ pc' = [pc EXCEPT ![t] = "Idle"]
    /\ result' = [result EXCEPT ![t] = "error"]
    /\ UNCHANGED <<target, handle, table, lru, refs, deleted>>

(* Miss path, unlocked: file and table open; a new TableAndFile holds them. *)
OpenTable(t) ==
    /\ pc[t] = "Opening"
    /\ ~SharedOpenFails(t)
    /\ opened < MaxOpens
    /\ opened' = opened + 1
    /\ openFiles' = openFiles \cup {opened + 1}
    /\ objFile' = Append(objFile, target[t])
    /\ handle' = [handle EXCEPT ![t] = opened + 1]
    /\ pc' = [pc EXCEPT ![t] = "Inserting"]
    /\ UNCHANGED <<target, result, table, lru, refs, deleted>>

(* Miss path: Insert(key, tf, 1, &DeleteEntry), then the iterator is built *)
(* on the returned handle with UnrefEntry registered as its cleanup.       *)
InsertTable(t) ==
    /\ pc[t] = "Inserting"
    /\ Cache!Insert(target[t], handle[t])
    /\ DeleteEntry
    /\ pc' = [pc EXCEPT ![t] = "Iterating"]
    /\ result' = [result EXCEPT ![t] = "ok"]
    /\ UNCHANGED <<target, handle, opened, objFile>>

(* The iterator is destroyed: its cleanup UnrefEntry calls Release.        *)
UnrefEntry(t) ==
    /\ pc[t] = "Iterating"
    /\ Cache!Release(handle[t])
    /\ DeleteEntry
    /\ pc' = [pc EXCEPT ![t] = "Idle"]
    /\ handle' = [handle EXCEPT ![t] = NoEntry]
    /\ UNCHANGED <<target, opened, objFile, result>>

(* TableCache::Evict(file_number): Erase the file's key from the cache.   *)
Evict(f) ==
    /\ Cache!Erase(f)
    /\ DeleteEntry
    /\ UNCHANGED <<pc, target, handle, opened, objFile, result>>

Next ==
    \/ \E t \in Threads :
          \/ \E f \in Files : Lookup(t, f)
          \/ OpenFileFails(t) \/ TableOpenFails(t) \/ OpenTable(t)
          \/ InsertTable(t) \/ UnrefEntry(t)
    \/ \E f \in Files : Evict(f)

(* Each reader eventually finishes the NewIterator it started and          *)
(* eventually destroys the iterator it holds (the caller's obligation      *)
(* under the Cache contract: every handle is released).                    *)
Fairness ==
    \A t \in Threads : WF_vars(InsertTable(t)) /\ WF_vars(UnrefEntry(t))

Spec == Init /\ [][Next]_vars /\ Fairness
-----------------------------------------------------------------------------
Holders(o) == {t \in Threads : pc[t] = "Iterating" /\ handle[t] = o}

(* Reference accounting of cache.h: the count of every live TableAndFile   *)
(* is one for the hash table while it is resident plus one per iterator    *)
(* holding its handle.  A lost or doubled reference in Lookup, Insert,     *)
(* Release or Erase breaks it.                                             *)
RefsAccount ==
    \A o \in 1..opened :
        deleted[o] = 0 =>
            refs[o] = (IF o \in Cache!Resident THEN 1 ELSE 0) + Cardinality(Holders(o))

(* No use after free: DeleteEntry never deletes the Table of an entry that *)
(* an iterator still reads through its handle, whatever Evict, eviction by *)
(* Insert or a replacing Insert did to the entry meanwhile.                *)
NoUseAfterFree ==
    \A t \in Threads : pc[t] = "Iterating" => deleted[handle[t]] = 0

(* DeleteEntry runs at most once per TableAndFile (no double delete).      *)
DeleterAtMostOnce == \A o \in Obj : deleted[o] <= 1

(* No file handle leaks: every open RandomAccessFile belongs to a          *)
(* TableAndFile that is resident, held by an iterator, or about to be      *)
(* inserted; in particular the error paths of NewIterator close what they  *)
(* opened and a replaced or evicted entry is closed by its last release.   *)
NoFileLeak ==
    \A o \in openFiles :
        \/ o \in Cache!Resident
        \/ \E t \in Threads : pc[t] \in {"Inserting", "Iterating"} /\ handle[t] = o

(* Every open table file whose entry has left the cache (replaced by a     *)
(* concurrent Insert, evicted, or erased by Evict) is eventually closed:   *)
(* the releases matching its handles run DeleteEntry.                      *)
LeftCache(o) ==
    /\ o \in openFiles
    /\ o \notin Cache!Resident
    /\ \A t \in Threads : pc[t] = "Inserting" => handle[t] # o

LeftCacheClosed == \A o \in Obj : LeftCache(o) ~> o \notin openFiles

(* The ceiling on open table files (hazard at table_cache.cc:97): the      *)
(* cache's capacity bounds the resident entries only; an entry evicted     *)
(* while an iterator holds it, and a file a reader opened on a miss but    *)
(* has not inserted yet, stay open beside them.  So the code keeps at most *)
(* Capacity + one file per reader open, not the Capacity of section 4.7.   *)
OpenFilesBounded == Cardinality(openFiles) <= Capacity + Cardinality(Threads)

(* Section 4.7 of the specification: an error iterator reports a failure  *)
(* to open the file or the table, and readers run in parallel (section 5). *)
(* With an Env that does not fail, no reader's NewIterator returns an      *)
(* error, whatever the other readers and Evict do meanwhile.               *)
HealthyReadsSucceed == ~EnvFaults => \A t \in Threads : result[t] # "error"
=============================================================================
