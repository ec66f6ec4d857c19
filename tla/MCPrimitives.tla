---------------------------- MODULE MCPrimitives ----------------------------
(***************************************************************************)
(* The parts that share no state, checked in one run: the encoders and    *)
(* decoders of coding.cc, the bytewise comparator, the decimal scanner of  *)
(* logging.cc, Status and the Win32 info logger.  They do not interact,    *)
(* so a behaviour exercises one of them, chosen in the initial state by    *)
(* phase, while the others keep one of their initial states: the state     *)
(* space is the sum of theirs, not the product.                            *)
(***************************************************************************)
EXTENDS Naturals

CONSTANTS
    G, W32, W64, Values32, Values64, Payloads,     \* Coding
    MaxItems, Bases, MaxRaw,
    CmpByteMax, CmpMaxLen,                          \* Comparator
    LogW, LogChars, LogMaxLen,                      \* Logging
    StChars, StMaxMsg, Colon, Space, Null,          \* Status
    HeaderLen, SmallBuf, LargeBuf, LgMaxMsg, C99    \* Win32Logger

VARIABLES
    phase,
    buf, base, written, pos, read, status,
    start, limit, key, start0, key0,
    in, last,
    st, made, cp, cpMade,
    logger, valid, lines, lastMsg

Cod == INSTANCE Coding
Cmp == INSTANCE Comparator WITH ByteMax <- CmpByteMax, MaxLen <- CmpMaxLen
Log == INSTANCE Logging WITH W <- LogW, Chars <- LogChars, MaxLen <- LogMaxLen
St  == INSTANCE Status WITH Chars <- StChars, MaxMsg <- StMaxMsg
Lg  == INSTANCE Win32Logger WITH MaxMsg <- LgMaxMsg

codVars == <<buf, base, written, pos, read, status>>
cmpVars == <<start, limit, key, start0, key0>>
logVars == <<in, last>>
stVars == <<st, made, cp, cpMade>>
lgVars == <<logger, valid, lines, lastMsg>>
allVars == <<phase, codVars, cmpVars, logVars, stVars, lgVars>>

(* The slices given to PutLengthPrefixedSlice: an empty one and a two-byte *)
(* one holding the smallest and largest scaled byte.                       *)
MCPayloads == {<<>>, <<1, 15>>}

Phases == {"coding", "comparator", "scanner", "status", "logger"}

(* The initial state a component keeps while another one runs.            *)
CodAtRest == buf = <<>> /\ base \in Bases /\ written = <<>> /\ pos = 0 /\ read = <<>> /\ status = "ok"
CmpAtRest == start = <<>> /\ limit = <<0>> /\ key = <<>> /\ start0 = <<>> /\ key0 = <<>>
LogAtRest == in = <<>> /\ last = [before |-> <<>>, ok |-> TRUE, val |-> 0, number |-> FALSE]

Init ==
    /\ phase \in Phases
    /\ \/ phase = "coding" /\ Cod!Init
       \/ phase # "coding" /\ CodAtRest
    /\ \/ phase = "comparator" /\ Cmp!Init
       \/ phase # "comparator" /\ CmpAtRest
    /\ \/ phase = "scanner" /\ Log!Init
       \/ phase # "scanner" /\ LogAtRest
    /\ St!StatusInit
    /\ Lg!LoggerInit

Next ==
    \/ phase = "coding" /\ Cod!Next /\ UNCHANGED <<phase, cmpVars, logVars, stVars, lgVars>>
    \/ phase = "comparator" /\ Cmp!Next /\ UNCHANGED <<phase, codVars, logVars, stVars, lgVars>>
    \/ phase = "scanner" /\ Log!Next /\ UNCHANGED <<phase, codVars, cmpVars, stVars, lgVars>>
    \/ phase = "status" /\ St!StatusNext /\ UNCHANGED <<phase, codVars, cmpVars, logVars, lgVars>>
    \/ phase = "logger" /\ Lg!LoggerNext /\ UNCHANGED <<phase, codVars, cmpVars, logVars, stVars>>

Spec == Init /\ [][Next]_allVars
-----------------------------------------------------------------------------
(* The writer's buffer and the reader's position stay well formed.         *)
CodTypeOK == Cod!TypeOK

(* Everything the Put functions write is parsed back, in order, with its   *)
(* value and exactly the encoded size.                                     *)
RoundTrip == Cod!RoundTrip

(* The comparator's strings stay within their bounds.                      *)
CmpTypeOK == Cmp!TypeOK

(* FindShortestSeparator keeps start in [start0, limit) and never longer, *)
(* however often it is applied.                                            *)
SeparatorBetween == Cmp!SeparatorBetween

(* FindShortSuccessor keeps the key at or above the original, no longer.   *)
SuccessorAbove == Cmp!SuccessorAbove

(* ConsumeDecimalNumber accepts exactly a digit run whose value fits, and  *)
(* returns it.                                                             *)
NumberExact == Log!NumberExact

(* A Status and its copy print as the kind and messages they were made of. *)
StatusRoundTrip == St!StatusRoundTrip

(* Win32Logger::Logv writes the header and the whole message, up to the    *)
(* heap buffer, with one final newline.                                    *)
LogLineWhole == Lg!LogLineWhole
=============================================================================
