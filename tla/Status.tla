------------------------------- MODULE Status -------------------------------
(***************************************************************************)
(* util/status.cc: the packed representation of a non-OK Status.  state_  *)
(* is NULL for OK, otherwise a new[] array holding the message length in  *)
(* bytes 0..3 (a uint32_t stored by memcpy, little-endian on Win32), the  *)
(* code in byte 4 and the message from byte 5 on.  A Status is built by   *)
(* one of the factories of status.h (NotFound, IOError, ...), copied with *)
(* CopyState, and printed with ToString.  Message characters are model    *)
(* values; Colon and Space are ':' and ' '.  The uint32_t sizes cannot    *)
(* wrap for messages shorter than 2^31 bytes, the integers TLC has, so    *)
(* they are plain naturals here.                                           *)
(***************************************************************************)
EXTENDS Naturals, Sequences

CONSTANTS
    Chars,      \* the characters of the messages
    MaxMsg,     \* length bound of msg and msg2
    Colon,      \* ':'
    Space,      \* ' '
    Null        \* model value: state_ == NULL

(* Status::Code; the factories never make kOk (assert(code != kOk)).       *)
kOk == 0
kNotFound == 1
kCorruption == 2
kNotSupported == 3
kInvalidArgument == 4
kIOError == 5
ErrorCodes == kNotFound..kIOError

Msgs == UNION {[1..n -> Chars] : n \in 0..MaxMsg}

(* memcpy of a uint32_t into 4 bytes and back, least significant first.   *)
Fixed32(v) == [i \in 1..4 |-> (v \div 256^(i - 1)) % 256]
Decoded32(b) == b[1] + 256 * b[2] + 256^2 * b[3] + 256^3 * b[4]

(* Mutant: the size leaves out the 2 bytes of ": ".                        *)
NewStateNoSeparator(code, msg, msg2) ==
    LET len1 == Len(msg)
        len2 == Len(msg2)
        size == len1 + len2
    IN  Fixed32(size) \o <<code>> \o msg
            \o (IF len2 # 0 THEN <<Colon, Space>> \o msg2 ELSE <<>>)

(* Status::Status(code, msg, msg2): size = len1 + (len2 ? 2 + len2 : 0)    *)
(* in uint32_t; the array holds the size, the code, msg and, when msg2 is  *)
(* not empty, ": " and msg2.                                               *)
NewState(code, msg, msg2) ==
    LET len1 == Len(msg)
        len2 == Len(msg2)
        size == len1 + IF len2 # 0 THEN 2 + len2 ELSE 0
    IN  Fixed32(size) \o <<code>> \o msg
            \o (IF len2 # 0 THEN <<Colon, Space>> \o msg2 ELSE <<>>)

(* CopyState: read the size and copy size + 5 bytes.                       *)
CopyState(state) == SubSeq(state, 1, Decoded32(SubSeq(state, 1, 4)) + 5)

(* ToString: "OK" for NULL, else the prefix of the code (a token here)     *)
(* followed by the length-delimited message.                               *)
ToString(state) ==
    IF state = Null THEN <<"OK">>
    ELSE LET code == state[5]
             type == CASE code = kOk -> "OK"
                       [] code = kNotFound -> "NotFound: "
                       [] code = kCorruption -> "Corruption: "
                       [] code = kNotSupported -> "Not implemented: "
                       [] code = kInvalidArgument -> "Invalid argument: "
                       [] code = kIOError -> "IO error: "
                       [] OTHER -> "Unknown code: "
         IN  <<type>> \o SubSeq(state, 6, 5 + Decoded32(SubSeq(state, 1, 4)))

VARIABLES
    st,         \* a Status's state_
    made,       \* history: the arguments st was built from, or Null
    cp,         \* a second Status, copied from st
    cpMade      \* history: the arguments of the Status cp was copied from

statusVars == <<st, made, cp, cpMade>>

StatusInit ==
    /\ st = Null /\ made = Null
    /\ cp = Null /\ cpMade = Null

(* A factory, Status::IOError(msg, msg2) and the like.                     *)
MakeStatus(code, msg, msg2) ==
    /\ st' = NewState(code, msg, msg2)
    /\ made' = [code |-> code, msg |-> msg, msg2 |-> msg2]
    /\ UNCHANGED <<cp, cpMade>>

(* Status() and Status::OK(): state_ = NULL.                               *)
MakeOk ==
    /\ st' = Null /\ made' = Null
    /\ UNCHANGED <<cp, cpMade>>

(* The copy constructor and assignment of status.h: NULL stays NULL, else  *)
(* CopyState.                                                              *)
CopyStatus ==
    /\ cp' = IF st = Null THEN Null ELSE CopyState(st)
    /\ cpMade' = made
    /\ UNCHANGED <<st, made>>

StatusNext ==
    \/ \E code \in ErrorCodes, msg, msg2 \in Msgs : MakeStatus(code, msg, msg2)
    \/ MakeOk
    \/ CopyStatus

StatusSpec == StatusInit /\ [][StatusNext]_statusVars
-----------------------------------------------------------------------------
(* What a Status reads as (specification section 7): OK, or the kind of   *)
(* the error and its message, with the second message joined by ": ".     *)
Expected(m) ==
    IF m = Null THEN <<"OK">>
    ELSE ToString(Fixed32(0) \o <<m.code>>)
             \o m.msg \o (IF m.msg2 # <<>> THEN <<Colon, Space>> \o m.msg2 ELSE <<>>)

(* Every Status, and every copy of one, prints as the kind and messages it *)
(* was made from: the size written by the constructor, the bytes laid out *)
(* after it, the size CopyState reads back and the bytes ToString takes    *)
(* agree.                                                                  *)
StatusRoundTrip ==
    /\ ToString(st) = Expected(made)
    /\ ToString(cp) = Expected(cpMade)
=============================================================================
