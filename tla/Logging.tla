------------------------------ MODULE Logging ------------------------------
(***************************************************************************)
(* util/logging.cc: ConsumeChar and ConsumeDecimalNumber, the scanners     *)
(* with which file names such as "000123.log" are parsed: a Slice is       *)
(* consumed from the front, one scanner call at a time.  The value is      *)
(* accumulated in a W-bit unsigned integer (64 bits in the code), whose    *)
(* multiplication and addition wrap modulo 2^W.                            *)
(***************************************************************************)
EXTENDS Naturals, Sequences, SequencesExt

CONSTANTS
    W,          \* width of uint64_t
    Chars,      \* the characters of the inputs: digits 0..9 and other marks
    MaxLen      \* length bound of the inputs

Digits == 0..9
KMax == 2^W - 1                         \* kMaxUint64 = ~uint64_t(0)

ASSUME Digits \subseteq Chars

VARIABLES
    in,         \* the unconsumed part of the Slice
    last        \* history: the input, result and value of the last scanner call

vars == <<in, last>>

Inputs == UNION {[1..n -> Chars] : n \in 0..MaxLen}

Init ==
    /\ in \in Inputs
    /\ last = [before |-> in, ok |-> TRUE, val |-> 0, number |-> FALSE]

(* ConsumeChar(in, c): remove c from the front if it is there.             *)
ConsumeChar(c) ==
    /\ in' = IF in # <<>> /\ Head(in) = c THEN Tail(in) ELSE in
    /\ last' = [before |-> in, ok |-> in # <<>> /\ Head(in) = c,
                val |-> last.val, number |-> FALSE]

RECURSIVE Scan(_, _, _)

(* Mutant: a last digit equal to kMaxUint64 % 10 is taken for overflow.   *)
ScanOffByOne(s, v, digits) ==
    IF s = <<>> \/ Head(s) \notin Digits
    THEN [rest |-> s, ok |-> digits > 0, val |-> v, overflow |-> FALSE]
    ELSE IF v > KMax \div 10 \/ (v = KMax \div 10 /\ Head(s) >= KMax % 10)
         THEN [rest |-> s, ok |-> FALSE, val |-> v, overflow |-> TRUE]
         ELSE Scan(Tail(s), (v * 10 + Head(s)) % 2^W, digits + 1)

(* The loop of ConsumeDecimalNumber over the front of s, with the value v  *)
(* and the digit count so far: a non-digit or the end stops it; a digit    *)
(* that would overflow returns false with the digits before it consumed.   *)
Scan(s, v, digits) ==
    IF s = <<>> \/ Head(s) \notin Digits
    THEN [rest |-> s, ok |-> digits > 0, val |-> v, overflow |-> FALSE]
    ELSE IF v > KMax \div 10 \/ (v = KMax \div 10 /\ Head(s) > KMax % 10)
         THEN [rest |-> s, ok |-> FALSE, val |-> v, overflow |-> TRUE]
         ELSE Scan(Tail(s), (v * 10 + Head(s)) % 2^W, digits + 1)

(* ConsumeDecimalNumber(in, val): *val is written only when the loop ends   *)
(* without overflow; last.val keeps the caller's variable.                 *)
ConsumeDecimalNumber ==
    LET r == Scan(in, 0, 0)
    IN  /\ in' = r.rest
        /\ last' = [before |-> in, ok |-> r.ok,
                    val |-> IF r.overflow THEN last.val ELSE r.val, number |-> TRUE]

Next ==
    \/ ConsumeDecimalNumber
    \/ \E c \in Chars : ConsumeChar(c)

Spec == Init /\ [][Next]_vars
-----------------------------------------------------------------------------
(* The digit run at the front of s and its value as a natural number.      *)
DigitRun(s) == SubSeq(s, 1, LET i == SelectInSeq(s, LAMBDA c : c \notin Digits)
                            IN  IF i = 0 THEN Len(s) ELSE i - 1)
Value(s) == FoldLeft(LAMBDA acc, d : acc * 10 + d, 0, s)

(* ConsumeDecimalNumber accepts exactly a non-empty digit run whose value  *)
(* fits in W bits, then returns that value and consumes exactly the run;   *)
(* it returns false for no digit or a value above 2^W - 1 (the test        *)
(* v > kMax/10 || (v == kMax/10 && delta > kMax%10) is exact).            *)
NumberExact ==
    last.number =>
        LET run == DigitRun(last.before)
        IN  /\ last.ok <=> (run # <<>> /\ Value(run) <= KMax)
            /\ last.ok => /\ last.val = Value(run)
                          /\ in = SubSeq(last.before, Len(run) + 1, Len(last.before))
=============================================================================
