---------------------------- MODULE WritableFile ----------------------------
(***************************************************************************)
(* The promise of a leveldb WritableFile (include/leveldb/env.h) to the    *)
(* log and table writers, stated over lengths: the bytes are those the     *)
(* caller handed over, in order, so only how many there are matters.       *)
(*   - Append(data) adds the data at the end; an OK status means all of    *)
(*     it, an error may leave any prefix of it behind;                     *)
(*   - Sync() returning OK makes everything appended so far durable; a     *)
(*     failed Sync may have made any longer prefix durable, or none;       *)
(*   - durability is never taken back, and nothing is called after Close.  *)
(* Statuses are "ok" and "error"; status is the one the last call returned.*)
(* call is the last call and its argument; its tick alternates, so that   *)
(* every call is a step, even one that changes nothing else.              *)
(***************************************************************************)
EXTENDS Naturals

CONSTANT Sizes      \* the sizes of the data Append is given

VARIABLES
    data,       \* bytes appended so far
    durable,    \* length of the prefix that survives a system crash
    closed,     \* Close has been called
    status,     \* the status of the last call
    call        \* the last call: [op, n, tick]

vars == <<data, durable, closed, status, call>>

Called(o, n) == call' = [op |-> o, n |-> n, tick |-> 1 - call.tick]

Init ==
    /\ data = 0
    /\ durable = 0
    /\ closed = FALSE
    /\ status = "ok"
    /\ call = [op |-> "none", n |-> 0, tick |-> 0]

Append(n) ==
    /\ ~closed
    /\ \/ data' = data + n /\ status' = "ok"
       \/ data' \in data..(data + n) /\ status' = "error"
    /\ Called("append", n)
    /\ UNCHANGED <<durable, closed>>

Sync ==
    /\ ~closed
    /\ \/ durable' = data /\ status' = "ok"
       \/ durable' \in durable..data /\ status' = "error"
    /\ Called("sync", 0)
    /\ UNCHANGED <<data, closed>>

Close ==
    /\ ~closed
    /\ closed' = TRUE
    /\ status' \in {"ok", "error"}
    /\ Called("close", 0)
    /\ UNCHANGED <<data, durable>>

Next ==
    \/ \E n \in Sizes : Append(n)
    \/ Sync
    \/ Close

Spec == Init /\ [][Next]_vars
=============================================================================
