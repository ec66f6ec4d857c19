------------------------------ MODULE LRUCache ------------------------------
(***************************************************************************)
(* The sharable LRU cache behind leveldb::Cache (include/leveldb/cache.h). *)
(* The body of the cache (util/cache.cc) is not part of this repository,   *)
(* so the operations are modelled from the contract in cache.h and the     *)
(* design in the specification (section 4.6): one mutex per cache, so     *)
(* every operation is one atomic step.                                     *)
(*                                                                         *)
(* An entry carries a reference count: one reference while it is resident *)
(* in the hash table, plus one per outstanding handle.  The deleter runs   *)
(* when the count falls to zero.  Every entry has charge 1 (the only       *)
(* charge the table cache uses), so usage is the number of resident        *)
(* entries and the LRU list holds exactly the resident entries, least      *)
(* recently used first.                                                    *)
(***************************************************************************)
EXTENDS Naturals, Sequences, SequencesExt, FiniteSets

CONSTANTS
    Keys,       \* cache keys (EncodeFixed64 of a file number in the table cache)
    Entries,    \* identities of the entries (the value pointers) a client may insert
    Capacity,   \* NewLRUCache(capacity)
    NoEntry     \* model value: "no mapping" / a NULL handle

ASSUME Capacity \in Nat /\ NoEntry \notin Entries

VARIABLES
    table,      \* the hash table: key -> resident entry, or NoEntry
    lru,        \* the LRU list, least recently used first
    refs,       \* reference count of every entry
    deleted     \* how many times the deleter has run on every entry

cacheVars == <<table, lru, refs, deleted>>

Resident == {table[k] : k \in {x \in Keys : table[x] # NoEntry}}

CacheTypeOK ==
    /\ table \in [Keys -> Entries \cup {NoEntry}]
    /\ lru \in Seq(Entries)
    /\ refs \in [Entries -> Nat]
    /\ deleted \in [Entries -> Nat]

CacheInit ==
    /\ table = [k \in Keys |-> NoEntry]
    /\ lru = <<>>
    /\ refs = [e \in Entries |-> 0]
    /\ deleted = [e \in Entries |-> 0]

(* Drop one reference from every entry of S, after giving the entry born   *)
(* the count base (a new entry; NoEntry when there is none); the deleter   *)
(* runs on each entry of S whose count reaches zero.                       *)
Unref(S, born, base) ==
    LET r == [e \in Entries |-> (IF e = born THEN base ELSE refs[e])
                                 - (IF e \in S THEN 1 ELSE 0)]
    IN  /\ refs' = r
        /\ deleted' = [e \in Entries |->
                         IF e \in S /\ r[e] = 0 THEN deleted[e] + 1 ELSE deleted[e]]

(* Insert(key, value, 1, deleter): the new entry gets one reference for    *)
(* the table and one for the returned handle and goes to the MRU end; an   *)
(* entry already mapped by key leaves the table and the list and loses the *)
(* table's reference; then entries leave from the LRU end while usage      *)
(* exceeds the capacity.                                                   *)
Insert(k, e) ==
    LET old     == table[k]
        lru1    == Append(Remove(lru, old), e)
        over    == IF Len(lru1) > Capacity THEN Len(lru1) - Capacity ELSE 0
        victims == ToSet(SubSeq(lru1, 1, over))
        dropped == victims \cup (IF old = NoEntry THEN {} ELSE {old})
    IN  /\ table' = [x \in Keys |-> LET v == IF x = k THEN e ELSE table[x]
                                     IN  IF v \in victims THEN NoEntry ELSE v]
        /\ lru' = SubSeq(lru1, over + 1, Len(lru1))
        /\ Unref(dropped, e, 2)

(* Mutant: a hit hands out the entry without taking a reference.          *)
LookupHitNoRef(k) ==
    LET e == table[k]
    IN  /\ e # NoEntry
        /\ lru' = Append(Remove(lru, e), e)
        /\ UNCHANGED <<table, refs, deleted>>

(* Lookup(key) that finds key: one more reference, moved to the MRU end.   *)
LookupHit(k) ==
    LET e == table[k]
    IN  /\ e # NoEntry
        /\ refs' = [refs EXCEPT ![e] = @ + 1]
        /\ lru' = Append(Remove(lru, e), e)
        /\ UNCHANGED <<table, deleted>>

(* Mutant: Release drops the reference but never calls the deleter.       *)
ReleaseNoDeleter(e) ==
    /\ refs' = [refs EXCEPT ![e] = @ - 1]
    /\ UNCHANGED <<table, lru, deleted>>

(* Release(handle): drop the handle's reference.                           *)
Release(e) == Unref({e}, NoEntry, 0) /\ UNCHANGED <<table, lru>>

(* Mutant: Erase destroys the entry at once, outstanding handles or not.   *)
EraseDeletesNow(k) ==
    LET e == table[k]
    IN  IF e = NoEntry
        THEN UNCHANGED cacheVars
        ELSE /\ table' = [table EXCEPT ![k] = NoEntry]
             /\ lru' = Remove(lru, e)
             /\ refs' = [refs EXCEPT ![e] = 0]
             /\ deleted' = [deleted EXCEPT ![e] = @ + 1]

(* Mutant: Erase unlinks the entry from the LRU list and drops the table's *)
(* reference but leaves it in the hash table.                              *)
EraseKeepsMapping(k) ==
    LET e == table[k]
    IN  IF e = NoEntry
        THEN UNCHANGED cacheVars
        ELSE /\ lru' = Remove(lru, e)
             /\ Unref({e}, NoEntry, 0)
             /\ UNCHANGED table

(* Erase(key): the entry leaves the table and the list and loses the       *)
(* table's reference; it is destroyed once the last handle is released.    *)
Erase(k) ==
    LET e == table[k]
    IN  IF e = NoEntry
        THEN UNCHANGED cacheVars
        ELSE /\ table' = [table EXCEPT ![k] = NoEntry]
             /\ lru' = Remove(lru, e)
             /\ Unref({e}, NoEntry, 0)
=============================================================================
