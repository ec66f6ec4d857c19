------------------------------ MODULE SkipList ------------------------------
(***************************************************************************)
(* db/skiplist.h, the ordered set under a MemTable.  The header is not     *)
(* part of this repository: the structure and its concurrency contract    *)
(* are those of the specification (section 4.4).                           *)
(*                                                                         *)
(* One writer inserts; any number of readers seek concurrently without a  *)
(* lock.  Every successor link is published with a release store and     *)
(* read with an acquire load, so a reader that loads a pointer to a node  *)
(* sees the node initialised: a link store is one step, a link load is    *)
(* one step.  The writer's own reads of the structure are stable (it is   *)
(* the only mutator), so its search for the predecessors is one step.     *)
(* Levels are 1..MaxHeight, level 1 being the bottom list.                 *)
(***************************************************************************)
EXTENDS Naturals, Sequences, FiniteSets

CONSTANTS
    Keys,           \* the keys the writer may insert
    LessK(_, _),    \* the comparator's strict order, on keys and seek targets
    MaxHeight,      \* kMaxHeight (12)
    Readers,        \* the reader threads
    HeadNode,       \* model value: the head node
    Nil,            \* model value: NULL
    Uninit          \* model value: a link the writer has not stored yet

ASSUME MaxHeight \in Nat \ {0}

Nodes == Keys \cup {HeadNode}
Levels == 1..MaxHeight

VARIABLES
    next,       \* next[n][i]: the successor of node n at level i
    height,     \* the height of every allocated node; 0 for a key not inserted
    maxHeight,  \* max_height_, the height cursor readers start from
    w,          \* the writer's Insert in progress
    sk          \* every reader's seek in progress

skVars == <<next, height, maxHeight, w, sk>>

WIdle == [pc |-> "idle", key |-> HeadNode, h |-> 0, lvl |-> 0,
          prev |-> [i \in Levels |-> HeadNode]]
SkIdle == [pc |-> "idle", target |-> HeadNode, x |-> HeadNode, lvl |-> 0, res |-> Nil]

SkTypeOK ==
    /\ next \in [Nodes -> [Levels -> Keys \cup {Nil, Uninit}]]
    /\ height \in [Keys -> 0..MaxHeight]
    /\ maxHeight \in Levels
    /\ w.pc \in {"idle", "link", "raise"} /\ w.lvl \in 0..(MaxHeight + 1)
    /\ \A t \in Readers : sk[t].pc \in {"idle", "seek", "done", "fault"}

(* SkipList(cmp, arena): the head at full height with NULL links, height 1. *)
SkInit ==
    /\ next = [n \in Nodes |-> [i \in Levels |-> IF n = HeadNode THEN Nil ELSE Uninit]]
    /\ height = [k \in Keys |-> 0]
    /\ maxHeight = 1
    /\ w = WIdle
    /\ sk = [t \in Readers |-> SkIdle]

(* The nodes after n at level i, in list order.                             *)
RECURSIVE Walk(_, _, _)
Walk(n, i, fuel) ==
    IF fuel = 0 \/ next[n][i] \in {Nil, Uninit} THEN <<>>
    ELSE <<next[n][i]>> \o Walk(next[n][i], i, fuel - 1)

List(i) == Walk(HeadNode, i, Cardinality(Keys))

(* FindGreaterOrEqual(key, prev): at every level, the last node before key. *)
(* Levels above the height cursor have NULL head links, so their          *)
(* predecessor is the head, as Insert sets it.                             *)
Prev(k, i) ==
    LET before == <<HeadNode>> \o SelectSeq(List(i), LAMBDA n : LessK(n, k))
    IN  before[Len(before)]

(* Insert(key), first step: the predecessors, RandomHeight() (any height,  *)
(* the draw being random) and NewNode, whose links are not yet stored.    *)
InsertBegin(k, h) ==
    /\ w.pc = "idle"
    /\ height[k] = 0
    /\ height' = [height EXCEPT ![k] = h]
    /\ w' = [pc |-> "link", key |-> k, h |-> h, lvl |-> 1,
             prev |-> [i \in Levels |-> Prev(k, i)]]
    /\ UNCHANGED <<next, maxHeight, sk>>

(* Mutant: the predecessor is linked to the node before the node's own     *)
(* link at that level is stored.                                           *)
LinkUninit ==
    /\ w.pc = "link"
    /\ LET x == w.key  i == w.lvl  p == w.prev[w.lvl]
       IN  next' = [next EXCEPT ![p][i] = x]
    /\ w' = [w EXCEPT !.lvl = @ + 1, !.pc = IF w.lvl = w.h THEN "raise" ELSE "link"]
    /\ UNCHANGED <<height, maxHeight, sk>>

(* Mutant: the levels are linked from the top down.                        *)
LinkTopDown ==
    /\ w.pc = "link"
    /\ LET x == w.key  i == w.h - w.lvl + 1  p == w.prev[i]
       IN  next' = [next EXCEPT ![x][i] = next[p][i], ![p][i] = x]
    /\ w' = [w EXCEPT !.lvl = @ + 1, !.pc = IF w.lvl = w.h THEN "raise" ELSE "link"]
    /\ UNCHANGED <<height, maxHeight, sk>>

(* The loop of Insert over the levels, bottom up: the node's link at level *)
(* i is stored (NoBarrier_SetNext), then the predecessor's link is        *)
(* published with a release store (SetNext).                               *)
LinkLevel ==
    /\ w.pc = "link"
    /\ LET x == w.key  i == w.lvl  p == w.prev[w.lvl]
       IN  next' = [next EXCEPT ![x][i] = next[p][i], ![p][i] = x]
    /\ w' = [w EXCEPT !.lvl = @ + 1, !.pc = IF w.lvl = w.h THEN "raise" ELSE "link"]
    /\ UNCHANGED <<height, maxHeight, sk>>

(* Mutant: the cursor is raised to one past the new node's top level.   *)
InsertEndOffByOne ==
    /\ w.pc = "raise"
    /\ maxHeight' = IF w.h >= maxHeight THEN w.h + 1 ELSE maxHeight
    /\ w' = WIdle
    /\ UNCHANGED <<next, height, sk>>

(* The height cursor is raised with a release store once every level of  *)
(* the new node is wired; Insert returns.                                  *)
InsertEnd ==
    /\ w.pc = "raise"
    /\ maxHeight' = IF w.h > maxHeight THEN w.h ELSE maxHeight
    /\ w' = WIdle
    /\ UNCHANGED <<next, height, sk>>

(* FindGreaterOrEqual(target, NULL) of Iterator::Seek: start at the head   *)
(* on the level of the height cursor (acquire load).                        *)
SeekBegin(t, target) ==
    /\ sk[t].pc = "idle"
    /\ sk' = [sk EXCEPT ![t] = [pc |-> "seek", target |-> target, x |-> HeadNode,
                                lvl |-> maxHeight, res |-> Nil]]
    /\ UNCHANGED <<next, height, maxHeight, w>>

(* One iteration of the search: load the successor (acquire); move right  *)
(* while it is before the target, else go down; at level 1 the successor  *)
(* is the result.  A load of a link never stored is a fault.               *)
SeekStep(t) ==
    /\ sk[t].pc = "seek"
    /\ LET s == sk[t]
           n == next[s.x][s.lvl]
       IN  sk' = [sk EXCEPT ![t] =
                   CASE n = Uninit -> [s EXCEPT !.pc = "fault"]
                     [] n # Nil /\ LessK(n, s.target) -> [s EXCEPT !.x = n]
                     [] s.lvl = 1 -> [s EXCEPT !.pc = "done", !.res = n]
                     [] OTHER -> [s EXCEPT !.lvl = @ - 1]]
    /\ UNCHANGED <<next, height, maxHeight, w>>

-----------------------------------------------------------------------------
IsSubSeq(s, t) == \E f \in [1..Len(s) -> 1..Len(t)] :
                      /\ \A j \in 1..Len(s) : s[j] = t[f[j]]
                      /\ \A j \in 1..(Len(s) - 1) : f[j] < f[j + 1]

(* The skip-list invariant at every step, between the level stores of an  *)
(* insert too: the bottom list is in ascending key order, every level is   *)
(* a subsequence of the one below, and a node is only on levels within its *)
(* height.                                                                 *)
LevelsNested ==
    /\ \A j \in 1..(Len(List(1)) - 1) : LessK(List(1)[j], List(1)[j + 1])
    /\ \A i \in 2..MaxHeight : IsSubSeq(List(i), List(i - 1))
    /\ \A i \in Levels : \A j \in 1..Len(List(i)) : height[List(i)[j]] >= i
=============================================================================
