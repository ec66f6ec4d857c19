---------------------------- MODULE MCTableCache ----------------------------
(* Model-checking instance of TableCache: two readers, two table files,   *)
(* a cache that holds one table, and four opens per behaviour: enough for *)
(* two concurrent misses on one file, a replacing Insert, an eviction of  *)
(* an entry still held by an iterator and an Evict racing a reader.        *)
EXTENDS TableCache

CONSTANTS t1, t2, f1, f2

MCThreads == {t1, t2}
MCFiles == {f1, f2}
=============================================================================
