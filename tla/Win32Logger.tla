---------------------------- MODULE Win32Logger ----------------------------
(***************************************************************************)
(* win32_impl_src/env_win32.cc: Win32Env::NewLogger and Win32Logger, the   *)
(* info log.  Logv formats the line into a 500-byte stack buffer, and     *)
(* once more into a 30000-byte heap buffer when it did not fit, then      *)
(* Appends it to its Win32MapFile and Flushes.                            *)
(*                                                                         *)
(* Buffers are functions from offsets to bytes.  The header (date, time    *)
(* and thread id) is HeaderLen tokens, the formatted message a sequence of *)
(* message tokens that may end in a newline.  What snprintf and vsnprintf *)
(* return when the output does not fit depends on the C runtime: C99 gives *)
(* the length the output needed, the runtime of Visual C++ 2008 (the      *)
(* vc9 build, where snprintf is _snprintf) gives -1.                       *)
(***************************************************************************)
EXTENDS Integers, Sequences

CONSTANTS
    HeaderLen,  \* the length of "yyyy/mm/dd-hh:mm:ss.uuuuuu tid "
    SmallBuf,   \* sizeof(buffer), 500
    LargeBuf,   \* the heap buffer, 30000
    MaxMsg,     \* length bound of a formatted message
    C99         \* the C runtime's snprintf returns the needed length

ASSUME HeaderLen + 1 < SmallBuf /\ SmallBuf < LargeBuf

NL == [k |-> "nl", i |-> 0]
NUL == [k |-> "nul", i |-> 0]
Garbage == [k |-> "garbage", i |-> 0]
Header == [j \in 1..HeaderLen |-> [k |-> "hdr", i |-> j]]

(* A formatted message of n characters, ending in a newline or not.       *)
Message(n, nl) == [j \in 1..n |-> IF nl /\ j = n THEN NL ELSE [k |-> "msg", i |-> j]]
Messages == {Message(n, nl) : n \in 0..MaxMsg, nl \in BOOLEAN}

(* snprintf(p, avail, ...) of output out: what it stores from p on and    *)
(* what it returns.  C99 stores at most avail - 1 bytes and a NUL, and    *)
(* returns Len(out).  _snprintf stores the output and a NUL when it fits, *)
(* exactly avail bytes and no NUL when Len(out) = avail, and otherwise    *)
(* avail bytes and returns -1.                                             *)
Stored(avail, out) ==
    IF Len(out) < avail THEN out \o <<NUL>>
    ELSE IF C99 THEN SubSeq(out, 1, avail - 1) \o <<NUL>>
    ELSE SubSeq(out, 1, avail)
Returned(avail, out) == IF C99 \/ Len(out) <= avail THEN Len(out) ELSE -1

Put(buf, p, s) == [o \in DOMAIN buf |-> IF o >= p /\ o < p + Len(s) THEN s[o - p + 1] ELSE buf[o]]

(* Mutant: the stack buffer's overflow is truncated at once, never retried *)
(* with the heap buffer.                                                    *)
FormatNoRetry(iter, msg) ==
    LET bufsize == IF iter = 0 THEN SmallBuf ELSE LargeBuf
        b0 == [o \in 0..(bufsize - 1) |-> Garbage]
        p1 == Returned(bufsize, Header)
        b1 == Put(b0, 0, Stored(bufsize, Header))
        p2 == IF p1 < bufsize THEN p1 + Returned(bufsize - p1, msg) ELSE p1
        b2 == IF p1 < bufsize THEN Put(b1, p1, Stored(bufsize - p1, msg)) ELSE b1
        p3 == IF p2 >= bufsize THEN bufsize - 1 ELSE p2
        b3 == IF p3 = 0 \/ b2[p3 - 1] # NL THEN [b2 EXCEPT ![p3] = NL] ELSE b2
        p4 == IF p3 = 0 \/ b2[p3 - 1] # NL THEN p3 + 1 ELSE p3
    IN  [retry |-> FALSE, line |-> [j \in 1..p4 |-> b3[j - 1]]]

(* One iteration of the loop of Logv with its buffer: the header, the     *)
(* message if the header left room, the retry or the truncation to        *)
(* limit - 1, and the newline when the line does not end in one; the line *)
(* is base..p.                                                             *)
Format(iter, msg) ==
    LET bufsize == IF iter = 0 THEN SmallBuf ELSE LargeBuf
        b0 == [o \in 0..(bufsize - 1) |-> Garbage]
        p1 == Returned(bufsize, Header)
        b1 == Put(b0, 0, Stored(bufsize, Header))
        p2 == IF p1 < bufsize THEN p1 + Returned(bufsize - p1, msg) ELSE p1
        b2 == IF p1 < bufsize THEN Put(b1, p1, Stored(bufsize - p1, msg)) ELSE b1
        p3 == IF p2 >= bufsize /\ iter = 1 THEN bufsize - 1 ELSE p2
        b3 == IF p3 = 0 \/ b2[p3 - 1] # NL THEN [b2 EXCEPT ![p3] = NL] ELSE b2
        p4 == IF p3 = 0 \/ b2[p3 - 1] # NL THEN p3 + 1 ELSE p3
    IN  IF p2 >= bufsize /\ iter = 0 THEN [retry |-> TRUE, line |-> <<>>]
        ELSE [retry |-> FALSE, line |-> [j \in 1..p4 |-> b3[j - 1]]]

(* Logv: the first iteration, and the second when the first asks for it.  *)
LogvLine(msg) ==
    LET first == Format(0, msg)
    IN  IF first.retry THEN Format(1, msg).line ELSE first.line

VARIABLES
    logger,     \* "none", "open" (the Win32Logger exists) or "deleted"
    valid,      \* the Win32MapFile's CreateFileW succeeded
    lines,      \* the lines Appended to the file, the last one only
    lastMsg     \* history: the message of the last Logv

loggerVars == <<logger, valid, lines, lastMsg>>

LoggerInit ==
    /\ logger = "none" /\ valid = FALSE
    /\ lines = <<>> /\ lastMsg = <<>>

(* NewLogger: a Win32MapFile whose isEnable is TRUE even for an           *)
(* INVALID_HANDLE_VALUE, so the Win32Logger is always made.                *)
NewLogger ==
    /\ logger = "none"
    /\ logger' = "open"
    /\ valid' \in BOOLEAN
    /\ UNCHANGED <<lines, lastMsg>>

(* Logv(format, ap), then Append and Flush; their statuses are ignored,   *)
(* and an Append to an invalid handle writes nothing.                      *)
Logv(msg) ==
    /\ logger = "open"
    /\ lines' = IF valid THEN <<LogvLine(msg)>> ELSE lines
    /\ lastMsg' = msg
    /\ UNCHANGED <<logger, valid>>

(* ~Win32Logger deletes the file, whose destructor Closes it.              *)
DeleteLogger ==
    /\ logger = "open"
    /\ logger' = "deleted"
    /\ UNCHANGED <<valid, lines, lastMsg>>

LoggerNext ==
    \/ NewLogger
    \/ \E msg \in Messages : Logv(msg)
    \/ DeleteLogger

LoggerSpec == LoggerInit /\ [][LoggerNext]_loggerVars
-----------------------------------------------------------------------------
(* The line the comments of Logv describe: the header and the message,    *)
(* the message cut only where the 30000-byte buffer ends (its last byte   *)
(* kept for the newline), and one newline at the end.                      *)
Whole(msg) ==
    LET keep == IF Len(msg) < LargeBuf - 1 - HeaderLen THEN Len(msg) ELSE LargeBuf - 1 - HeaderLen
        body == Header \o SubSeq(msg, 1, keep)
    IN  IF keep > 0 /\ body[Len(body)] = NL THEN body ELSE body \o <<NL>>

(* Every line Logv writes holds the header and the whole message, up to    *)
(* the heap buffer's size, and a single final newline: a message too long *)
(* for the stack buffer is formatted again in the heap buffer, never lost. *)
LogLineWhole == lines # <<>> => lines[1] = Whole(lastMsg)
=============================================================================
