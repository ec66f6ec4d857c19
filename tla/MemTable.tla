------------------------------ MODULE MemTable ------------------------------
(***************************************************************************)
(* db/memtable.h: a MemTable is a SkipList of encoded records whose bytes  *)
(* and nodes come from the table's own Arena, with a reference count.     *)
(* Ref and Unref are inline in memtable.h; Add and Get (memtable.cc, not  *)
(* part of this repository) follow the specification (section 4.5).       *)
(*                                                                         *)
(* Actors: the DB's single writer, which adds records with increasing     *)
(* sequences and then publishes the last sequence; readers, each running *)
(* one DBImpl::Get that Refs the table, seeks it without a lock and       *)
(* Unrefs it; and the DB, which drops its own reference when the table   *)
(* has been compacted.  Ref and Unref run under the DB mutex, so each is  *)
(* part of one step.                                                       *)
(***************************************************************************)
EXTENDS Arena, SkipList

CONSTANTS
    UserKeys,   \* user keys, ordered by <
    KeyLen,     \* the length of every user key
    ValueLen,   \* the length of the value of a kTypeValue record
    MaxSeq,     \* the last sequence the writer assigns
    PtrSize     \* sizeof(void*), the size of a link and of a key pointer

TypeDeletion == 0
TypeValue == 1

VARIABLES
    refs,       \* refs_
    lastSeq,    \* versions_->LastSequence(): set after the insert returns
    owned,      \* the DB still holds the reference it took at creation
    rd,         \* every reader's Get: [pc, u, snap]
    got         \* history: the answer of every reader's Get

memVars == <<arena, live, allocs, next, height, maxHeight, w, sk, refs, lastSeq, owned, rd, got>>

Miss == [kind |-> "miss", seq |-> 0]

(* InternalKeyComparator: user keys ascending, then the tag                 *)
(* (sequence << 8 | type) descending.                                      *)
Tag(r) == r.seq * 256 + r.type
InternalLess(a, b) == a.u < b.u \/ (a.u = b.u /\ Tag(a) > Tag(b))

(* MemTable::Add: varint32(internal key length), internal key (user key   *)
(* and 8-byte tag), varint32(value length), value.                          *)
RECURSIVE VarintLength(_)
VarintLength(v) == IF v < 128 THEN 1 ELSE 1 + VarintLength(v \div 128)
EncodedLen(r) ==
    LET vlen == IF r.type = TypeValue THEN ValueLen ELSE 0
    IN  VarintLength(KeyLen[r.u] + 8) + KeyLen[r.u] + 8 + VarintLength(vlen) + vlen

(* SkipList::NewNode: the key pointer and next_[1], plus height - 1 links. *)
NodeSize(h) == PtrSize + PtrSize * h

MemTableTypeOK ==
    /\ TypeOK
    /\ SkTypeOK
    /\ refs \in Nat
    /\ lastSeq \in 0..MaxSeq
    /\ owned \in BOOLEAN
    /\ \A t \in Readers : rd[t].pc \in {"idle", "get", "gone"}

(* MemTable::MemTable: refs_ = 0, an empty arena and skip list; the DB     *)
(* Refs the new table at once.                                             *)
MemTableInit ==
    /\ Init
    /\ SkInit
    /\ refs = 1
    /\ lastSeq = 0
    /\ owned = TRUE
    /\ rd = [t \in Readers |-> [pc |-> "idle", u |-> CHOOSE k \in UserKeys : TRUE, snap |-> 0]]
    /\ got = [t \in Readers |-> Miss]

(* Ref: ++refs_.                                                            *)
Ref == refs' = refs + 1

(* Mutant: the table is deleted only below zero.                           *)
UnrefLate ==
    /\ refs' = refs - 1
    /\ live' = (live /\ refs - 1 >= 0)

(* Unref: --refs_, and delete this (~MemTable, whose ~Arena frees every   *)
(* block) when refs_ <= 0.                                                 *)
Unref ==
    /\ refs' = refs - 1
    /\ live' = (live /\ refs - 1 > 0)

(* MemTable::Add(seq, type, key, value), first step: arena_.Allocate of    *)
(* the encoded record, then Insert's search, RandomHeight and NewNode,    *)
(* whose AllocateAligned follows in the same arena.                        *)
Add(u, type, h) ==
    LET r  == [u |-> u, seq |-> lastSeq + 1, type |-> type]
        o1 == Allocate(arena, EncodedLen(r))
        o2 == AllocateAligned(o1.a, NodeSize(h))
    IN  /\ live /\ owned
        /\ lastSeq < MaxSeq
        /\ InsertBegin(r, h)
        /\ arena' = o2.a
        /\ allocs' = allocs \cup
                     {[blk |-> o1.res.blk, off |-> o1.res.off, size |-> EncodedLen(r), aligned |-> FALSE],
                      [blk |-> o2.res.blk, off |-> o2.res.off, size |-> NodeSize(h), aligned |-> TRUE]}
        /\ UNCHANGED <<live, refs, lastSeq, owned, rd, got>>

Link ==
    /\ LinkLevel
    /\ UNCHANGED <<arena, live, allocs, refs, lastSeq, owned, rd, got>>

(* Insert returns; DBImpl::Write then sets the last sequence.              *)
AddEnd ==
    /\ w.pc = "raise"
    /\ lastSeq' = w.key.seq
    /\ InsertEnd
    /\ UNCHANGED <<arena, live, allocs, refs, owned, rd, got>>

(* DBImpl::Get under the mutex: the snapshot (at most the last sequence)  *)
(* and mem_->Ref(); then MemTable::Get seeks the LookupKey (user key,     *)
(* snapshot, kValueTypeForSeek) without the mutex.                         *)
GetBegin(t, u, s) ==
    /\ live /\ owned
    /\ rd[t].pc = "idle"
    /\ s <= lastSeq
    /\ Ref
    /\ rd' = [rd EXCEPT ![t] = [pc |-> "get", u |-> u, snap |-> s]]
    /\ SeekBegin(t, [u |-> u, seq |-> s, type |-> TypeValue])
    /\ UNCHANGED <<arena, live, allocs, lastSeq, owned, got>>

GetStep(t) ==
    /\ rd[t].pc = "get"
    /\ SeekStep(t)
    /\ UNCHANGED <<arena, live, allocs, refs, lastSeq, owned, rd, got>>

(* Mutant: the entry's user key is not compared with the lookup's.       *)
GetEndAnyKey(t) ==
    /\ rd[t].pc = "get" /\ sk[t].pc = "done"
    /\ LET e == sk[t].res
       IN  got' = [got EXCEPT ![t] =
                    IF e # Nil
                    THEN [kind |-> IF e.type = TypeValue THEN "value" ELSE "deleted",
                          seq |-> e.seq]
                    ELSE Miss]
    /\ rd' = [rd EXCEPT ![t].pc = "gone"]
    /\ Unref
    /\ UNCHANGED <<allocs, arena, next, height, maxHeight, w, sk, lastSeq, owned>>

(* MemTable::Get's answer from the entry the seek stopped at: a record of  *)
(* the same user key answers with its value, or NotFound for a deletion;  *)
(* any other entry, or none, is a miss.  Then mem_->Unref() under the     *)
(* mutex.                                                                  *)
GetEnd(t) ==
    /\ rd[t].pc = "get" /\ sk[t].pc = "done"
    /\ LET e == sk[t].res
       IN  got' = [got EXCEPT ![t] =
                    IF e # Nil /\ e.u = rd[t].u
                    THEN [kind |-> IF e.type = TypeValue THEN "value" ELSE "deleted",
                          seq |-> e.seq]
                    ELSE Miss]
    /\ rd' = [rd EXCEPT ![t].pc = "gone"]
    /\ Unref
    /\ UNCHANGED <<allocs, arena, next, height, maxHeight, w, sk, lastSeq, owned>>

(* The DB drops its reference once the table is compacted (imm_->Unref()),*)
(* never while the writer is inside Add.                                   *)
Release ==
    /\ owned /\ w.pc = "idle"
    /\ owned' = FALSE
    /\ Unref
    /\ UNCHANGED <<arena, allocs, next, height, maxHeight, w, sk, lastSeq, rd, got>>

MemTableNext ==
    \/ \E u \in UserKeys, type \in {TypeDeletion, TypeValue}, h \in Levels : Add(u, type, h)
    \/ Link
    \/ AddEnd
    \/ \E t \in Readers, u \in UserKeys, s \in 0..MaxSeq : GetBegin(t, u, s)
    \/ \E t \in Readers : GetStep(t) \/ GetEnd(t)
    \/ Release

(* Readers never block (section 5), so a running Get keeps being scheduled;*)
(* the writer finishes an Add it began.                                    *)
MemSpec ==
    /\ MemTableInit /\ [][MemTableNext]_memVars
    /\ WF_memVars(Link) /\ WF_memVars(AddEnd)
    /\ \A t \in Readers : WF_memVars(GetStep(t)) /\ WF_memVars(GetEnd(t))
-----------------------------------------------------------------------------
(* The table as the contract sees it: the records on the bottom list.      *)
Linked == {List(1)[j] : j \in 1..Len(List(1))}

Contract == INSTANCE MemTableSpec WITH recs <- Linked

(* The MemTable implements its contract (sections 4.5 and 8, properties 4 *)
(* and 5): although a Get walks the skip list while the writer links new  *)
(* nodes level by level, every Get answers with the newest record of its  *)
(* user key at or below its snapshot, the records appear in sequence      *)
(* order, and Ref/Unref never drop a reference that is not held.          *)
MemTableRefinesContract == Contract!Spec

(* Every Get returns: a reader's seek ends however the writer's links     *)
(* interleave with its loads (a load of a link not yet stored would stop  *)
(* it for good).                                                           *)
GetsReturn == \A t \in Readers : rd[t].pc = "get" ~> rd[t].pc = "gone"

(* Once the DB has dropped its reference, the table and its arena are     *)
(* eventually destroyed: the last Unref, by the DB or by a reader, deletes *)
(* it.                                                                     *)
TableFreed == ~owned ~> ~live
=============================================================================
