\* Files: two threads, the names CURRENT and its temporary, two contents.
\* Scheduler: three calls and two pool threads, so that the pool runs two
\* items at once while a third waits, and a call can meet each outcome.
CONSTANTS
    t1 = t1
    t2 = t2
    cur = cur
    tmp = tmp
    d1 = d1
    d2 = d2
    Threads <- MCThreads
    Names <- MCNames
    Data <- MCData
    Protected = {}
    SchItems = {i1, i2, i3}
    SchWorkers = {w1, w2}
    NoItem = NoItem
    SchGarbage = SchGarbage
SPECIFICATION EnvSchSpec
\* Background work ends when every call has been made and run; the file
\* operations never stop, since a crash is always possible.
CHECK_DEADLOCK FALSE
INVARIANTS TypeOK
PROPERTIES LockedFileIntact AcceptedRunsOnce
