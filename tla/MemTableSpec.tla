---------------------------- MODULE MemTableSpec ----------------------------
(***************************************************************************)
(* What a MemTable promises (specification sections 4.5 and 8): a set of  *)
(* records (user key, sequence, type) that only grows, written by one     *)
(* writer in increasing sequence order; a Get at snapshot s answers from  *)
(* the record of its user key with the largest sequence <= s, as one      *)
(* atomic step; and a reference count with which the table is destroyed  *)
(* exactly when the last reference is dropped.  The DB holds a reference  *)
(* from creation (owned) and every Get holds one while it runs.           *)
(***************************************************************************)
EXTENDS Naturals, FiniteSets

CONSTANTS UserKeys, MaxSeq, Readers

TypeDeletion == 0
TypeValue == 1

Records == [u : UserKeys, seq : 1..MaxSeq, type : {TypeDeletion, TypeValue}]

VARIABLES
    recs,       \* the records added
    lastSeq,    \* the DB's last sequence: every record up to it is added
    refs,       \* refs_
    live,       \* the table is not yet destroyed
    owned,      \* the DB still holds its reference
    rd,         \* every reader's Get: [pc, u, snap]
    got         \* the answer of every reader's last Get

specVars == <<recs, lastSeq, refs, live, owned, rd, got>>

Miss == [kind |-> "miss", seq |-> 0]

(* The answer the contract prescribes for user key u at snapshot s.        *)
Answer(R, u, s) ==
    LET m == {r \in R : r.u = u /\ r.seq <= s}
    IN  IF m = {} THEN Miss
        ELSE LET r == CHOOSE x \in m : \A y \in m : y.seq <= x.seq
             IN  [kind |-> IF r.type = TypeValue THEN "value" ELSE "deleted",
                  seq |-> r.seq]

Init ==
    /\ recs = {}
    /\ lastSeq = 0
    /\ refs = 1
    /\ live = TRUE
    /\ owned = TRUE
    /\ rd = [t \in Readers |-> [pc |-> "idle", u |-> CHOOSE k \in UserKeys : TRUE, snap |-> 0]]
    /\ got = [t \in Readers |-> Miss]

(* Drop one reference; destroy at zero.  A reference is never dropped     *)
(* that is not held.                                                       *)
DropRef ==
    /\ refs > 0
    /\ refs' = refs - 1
    /\ live' = (refs > 1)

Add(r) ==
    /\ live /\ owned
    /\ r.seq = lastSeq + 1
    /\ \A x \in recs : x.seq < r.seq
    /\ recs' = recs \cup {r}
    /\ UNCHANGED <<lastSeq, refs, live, owned, rd, got>>

Commit ==
    /\ \E r \in recs : r.seq = lastSeq + 1
    /\ lastSeq' = lastSeq + 1
    /\ UNCHANGED <<recs, refs, live, owned, rd, got>>

GetBegin(t, u, s) ==
    /\ live /\ owned
    /\ rd[t].pc = "idle"
    /\ s <= lastSeq
    /\ refs' = refs + 1
    /\ rd' = [rd EXCEPT ![t] = [pc |-> "get", u |-> u, snap |-> s]]
    /\ UNCHANGED <<recs, lastSeq, live, owned, got>>

GetEnd(t) ==
    /\ rd[t].pc = "get"
    /\ got' = [got EXCEPT ![t] = Answer(recs, rd[t].u, rd[t].snap)]
    /\ rd' = [rd EXCEPT ![t].pc = "gone"]
    /\ DropRef
    /\ UNCHANGED <<recs, lastSeq, owned>>

Release ==
    /\ owned
    /\ owned' = FALSE
    /\ DropRef
    /\ UNCHANGED <<recs, lastSeq, rd, got>>

Next ==
    \/ \E r \in Records : Add(r)
    \/ Commit
    \/ \E t \in Readers, u \in UserKeys, s \in 0..MaxSeq : GetBegin(t, u, s)
    \/ \E t \in Readers : GetEnd(t)
    \/ Release

Spec == Init /\ [][Next]_specVars
=============================================================================
