----------------------------- MODULE Comparator -----------------------------
(***************************************************************************)
(* util/comparator.cc: BytewiseComparatorImpl, the default comparator.     *)
(* The table builder shortens index keys with FindShortestSeparator        *)
(* (between the last key of a block and the first of the next) and        *)
(* FindShortSuccessor (after the last key); each call rewrites its string *)
(* in place, and a caller may shorten a string it already shortened.       *)
(* Strings are sequences of bytes 0..ByteMax, ByteMax standing for 0xff;  *)
(* a byte stored back into the string is reduced modulo ByteMax + 1 as a  *)
(* char is.                                                                *)
(***************************************************************************)
EXTENDS Naturals, Sequences, SequencesExt

CONSTANTS
    ByteMax,    \* 0xff
    MaxLen      \* length bound of the keys

Bytes == 0..ByteMax
Strings == UNION {[1..n -> Bytes] : n \in 0..MaxLen}

(* Slice::compare: memcmp over the common length, then the shorter first;  *)
(* the lexicographic order of byte strings.                                *)
RECURSIVE Less(_, _)
Less(a, b) ==
    IF b = <<>> THEN FALSE
    ELSE IF a = <<>> THEN TRUE
    ELSE IF Head(a) # Head(b) THEN Head(a) < Head(b)
    ELSE Less(Tail(a), Tail(b))

LessEq(a, b) == a = b \/ Less(a, b)

VARIABLES
    start,      \* the string FindShortestSeparator rewrites
    limit,      \* its limit argument
    key,        \* the string FindShortSuccessor rewrites
    start0,     \* history: start before the first call
    key0        \* history: key before the first call

vars == <<start, limit, key, start0, key0>>

TypeOK ==
    /\ {start, limit, key, start0, key0} \subseteq Strings

(* The caller's precondition of FindShortestSeparator: start < limit.       *)
Init ==
    /\ start \in Strings
    /\ limit \in {l \in Strings : Less(start, l)}
    /\ key \in Strings
    /\ start0 = start
    /\ key0 = key

(* The common prefix loop: the first index where a and b differ, or the   *)
(* length of the shorter one.                                              *)
DiffIndex(a, b) ==
    LET min_length == IF Len(a) < Len(b) THEN Len(a) ELSE Len(b)
    IN  CHOOSE d \in 0..min_length :
            /\ \A i \in 1..d : a[i] = b[i]
            /\ d = min_length \/ a[d + 1] # b[d + 1]

Increment(s, i) == [SubSeq(s, 1, i) EXCEPT ![i] = (@ + 1) % (ByteMax + 1)]

(* std::string::resize(n): truncate, or pad with zero bytes.               *)
Resize(s, n) == [i \in 1..n |-> IF i <= Len(s) THEN s[i] ELSE 0]

(* Mutant: start is resized to one byte past the incremented one.          *)
SeparatorResizeOffByOne(s, l) ==
    LET d == DiffIndex(s, l)
    IN  IF d >= Len(s) \/ d >= Len(l) THEN s
        ELSE IF s[d + 1] < ByteMax /\ s[d + 1] + 1 < l[d + 1]
             THEN [Resize(s, d + 2) EXCEPT ![d + 1] = @ + 1]
             ELSE s

(* Mutant: the byte is incremented when it then equals the limit's byte.   *)
SeparatorOffByOne(s, l) ==
    LET d == DiffIndex(s, l)
    IN  IF d >= Len(s) \/ d >= Len(l) THEN s
        ELSE IF s[d + 1] < ByteMax /\ s[d + 1] + 1 <= l[d + 1]
             THEN Increment(s, d + 1)
             ELSE s

(* FindShortestSeparator(start, limit): unchanged when one string is a     *)
(* prefix of the other; else the differing byte is incremented and start   *)
(* truncated after it when the byte is below 0xff and one more than it is  *)
(* still below the limit's byte.                                           *)
FindShortestSeparator(s, l) ==
    LET d == DiffIndex(s, l)
    IN  IF d >= Len(s) \/ d >= Len(l) THEN s
        ELSE IF s[d + 1] < ByteMax /\ s[d + 1] + 1 < l[d + 1]
             THEN Increment(s, d + 1)
             ELSE s

(* Mutant: the first byte is incremented whatever its value.               *)
SuccessorNoSkip(k) ==
    IF Len(k) = 0 THEN k ELSE Increment(k, 1)

(* FindShortSuccessor(key): the first byte that is not 0xff is incremented *)
(* and the key truncated after it; a run of 0xff is left alone.            *)
FindShortSuccessor(k) ==
    LET i == SelectInSeq(k, LAMBDA b : b # ByteMax)
    IN  IF i = 0 THEN k ELSE Increment(k, i)

Separate ==
    /\ start' = FindShortestSeparator(start, limit)
    /\ UNCHANGED <<limit, key, start0, key0>>

Successor ==
    /\ key' = FindShortSuccessor(key)
    /\ UNCHANGED <<start, limit, start0, key0>>

Next == Separate \/ Successor

Spec == Init /\ [][Next]_vars
-----------------------------------------------------------------------------
(* The separator stays between its bounds and never grows, however often   *)
(* it is shortened: start0 <= start < limit and start is no longer than    *)
(* start0 (the assert of FindShortestSeparator and the contract of S5).    *)
SeparatorBetween ==
    /\ LessEq(start0, start)
    /\ Less(start, limit)
    /\ Len(start) <= Len(start0)

(* A short successor is at or above the key it replaces, and no longer.    *)
SuccessorAbove ==
    /\ LessEq(key0, key)
    /\ Len(key) <= Len(key0)
=============================================================================
