---------------------------- MODULE Win32Schedule ----------------------------
(***************************************************************************)
(* win32_impl_src/env_win32.cc: Win32Env::Schedule and StartThread, the    *)
(* background work of the Env.  Schedule wraps function and arg in a heap *)
(* WorkItemWrapper and hands it to the system thread pool with            *)
(* QueueUserWorkItem; a pool thread runs WorkItemWrapperProc, which copies *)
(* the function and argument out of the wrapper, deletes it and calls the *)
(* function.  StartThread starts a thread of its own with _beginthread.    *)
(* Neither looks at what the system call returns.                          *)
(*                                                                         *)
(* Each element of Items is one call of Schedule or StartThread, its       *)
(* (function, arg) pair; the pool runs queued items on any of its threads *)
(* in any order.                                                           *)
(***************************************************************************)
EXTENDS Naturals

CONSTANTS
    Items,      \* the (function, arg) pairs handed to Schedule or StartThread
    Workers,    \* threads of the system pool
    NoItem,     \* model value: a pool thread without a work item
    Garbage     \* model value: a function pointer read from freed memory

VARIABLES
    call,       \* how each item was handed over, and what the system said
    queue,      \* items the pool accepted and has not yet given to a thread
    wrapper,    \* each item's WorkItemWrapper: "none", "live" or "freed"
    wk,         \* each pool thread: [pc, item, proc]
    started,    \* items whose _beginthread thread has not yet run them
    ran         \* how often each item's function has been called

schVars == <<call, queue, wrapper, wk, started, ran>>

Calls == {"none", "queued", "rejected", "thread", "nothread"}
Idle == [pc |-> "idle", item |-> NoItem, proc |-> NoItem]

SchTypeOK ==
    /\ call \in [Items -> Calls]
    /\ queue \subseteq Items /\ started \subseteq Items
    /\ wrapper \in [Items -> {"none", "live", "freed"}]
    /\ wk \in [Workers -> [pc : {"idle", "entered", "deleted", "calling"},
                           item : Items \cup {NoItem},
                           proc : Items \cup {NoItem, Garbage}]]
    /\ ran \in [Items -> Nat]

SchInit ==
    /\ call = [i \in Items |-> "none"]
    /\ queue = {}
    /\ wrapper = [i \in Items |-> "none"]
    /\ wk = [w \in Workers |-> Idle]
    /\ started = {}
    /\ ran = [i \in Items |-> 0]

(* Schedule: new WorkItemWrapper(function, arg), then QueueUserWorkItem;   *)
(* when it returns FALSE the wrapper is neither run nor freed.             *)
Schedule(i) ==
    /\ call[i] = "none"
    /\ wrapper' = [wrapper EXCEPT ![i] = "live"]
    /\ \/ call' = [call EXCEPT ![i] = "queued"] /\ queue' = queue \cup {i}
       \/ call' = [call EXCEPT ![i] = "rejected"] /\ UNCHANGED queue
    /\ UNCHANGED <<wk, started, ran>>

(* StartThread: _beginthread(function, 0, arg); a failure (-1) is dropped. *)
StartThread(i) ==
    /\ call[i] = "none"
    /\ \/ call' = [call EXCEPT ![i] = "thread"] /\ started' = started \cup {i}
       \/ call' = [call EXCEPT ![i] = "nothread"] /\ UNCHANGED started
    /\ UNCHANGED <<queue, wrapper, wk, ran>>

(* The new thread runs function(arg) and ends when it returns.             *)
ThreadRun(i) ==
    /\ i \in started
    /\ started' = started \ {i}
    /\ ran' = [ran EXCEPT ![i] = @ + 1]
    /\ UNCHANGED <<call, queue, wrapper, wk>>

(* The pool gives an idle thread a queued item: WorkItemWrapperProc starts *)
(* with the wrapper as its argument.                                       *)
Dispatch(w, i) ==
    /\ wk[w].pc = "idle"
    /\ i \in queue
    /\ queue' = queue \ {i}
    /\ wk' = [wk EXCEPT ![w] = [pc |-> "entered", item |-> i, proc |-> NoItem]]
    /\ UNCHANGED <<call, wrapper, started, ran>>

(* What a read of item->proc gives: the function while the wrapper lives; *)
(* after delete it is undefined, the old bytes or anything else.           *)
ProcRead(wr, i) == IF wr[i] = "live" THEN {i} ELSE {i, Garbage}

(* Mutant: the wrapper is deleted before its fields are copied out.        *)
TakeItemFreeFirst(w) ==
    LET i == wk[w].item
        freed == [wrapper EXCEPT ![i] = "freed"]
    IN  /\ wk[w].pc = "entered"
        /\ wrapper' = freed
        /\ \E p \in ProcRead(freed, i) :
              wk' = [wk EXCEPT ![w] = [@ EXCEPT !.pc = "deleted", !.proc = p]]
        /\ UNCHANGED <<call, queue, started, ran>>

(* WorkItemWrapperProc: TempProc = item->proc and arg = item->pContent,    *)
(* then delete item.                                                       *)
TakeItem(w) ==
    LET i == wk[w].item
    IN  /\ wk[w].pc = "entered"
        /\ \E p \in ProcRead(wrapper, i) :
              wk' = [wk EXCEPT ![w] = [@ EXCEPT !.pc = "deleted", !.proc = p]]
        /\ wrapper' = [wrapper EXCEPT ![i] = "freed"]
        /\ UNCHANGED <<call, queue, started, ran>>

(* TempProc(arg): the copied function is called; a garbage pointer calls *)
(* none of the scheduled functions.                                        *)
CallProc(w) ==
    LET p == wk[w].proc
    IN  /\ wk[w].pc = "deleted"
        /\ ran' = IF p \in Items THEN [ran EXCEPT ![p] = @ + 1] ELSE ran
        /\ wk' = [wk EXCEPT ![w].pc = "calling"]
        /\ UNCHANGED <<call, queue, wrapper, started>>

(* The function returns, and WorkItemWrapperProc returns 0 to the pool.    *)
ProcReturn(w) ==
    /\ wk[w].pc = "calling"
    /\ wk' = [wk EXCEPT ![w] = Idle]
    /\ UNCHANGED <<call, queue, wrapper, started, ran>>

(* The steps the system owes once it has accepted the work.                *)
PoolStep(w) ==
    \/ \E i \in Items : Dispatch(w, i)
    \/ TakeItem(w)
    \/ CallProc(w)
    \/ ProcReturn(w)

SchNext ==
    \/ \E i \in Items : Schedule(i) \/ StartThread(i) \/ ThreadRun(i)
    \/ \E w \in Workers : PoolStep(w)

(* Pool threads and started threads are scheduled by the system: none of  *)
(* them stops for ever while it can run.  Callers need not call at all.    *)
SchFairness ==
    /\ \A w \in Workers : WF_schVars(PoolStep(w))
    /\ \A i \in Items : WF_schVars(ThreadRun(i))

SchSpec == SchInit /\ [][SchNext]_schVars /\ SchFairness
-----------------------------------------------------------------------------
(* Work the system accepted, on the pool or on a thread of its own, has   *)
(* its function called exactly once, and a pool item's wrapper is freed:  *)
(* WorkItemWrapperProc copies the function out before it deletes the      *)
(* wrapper, and nothing hands an item to the pool twice.  Work the system *)
(* rejected is lost, since Schedule and StartThread drop the result.      *)
AcceptedRunsOnce ==
    /\ [](\A i \in Items : ran[i] <= 1)
    /\ \A i \in Items :
          call[i] \in {"queued", "thread"} ~> (ran[i] = 1 /\ wrapper[i] # "live")
=============================================================================
