------------------------------- MODULE Coding -------------------------------
(***************************************************************************)
(* util/coding.cc: the fixed-width and varint encoders and decoders and    *)
(* the length-prefixed slices of LevelDB's record formats (write batches,  *)
(* memtable records, block contents).  A writer appends items to a string  *)
(* with the Put* functions; a reader that knows the format parses them     *)
(* back from a Slice with the Get* functions (or the pointer decoders).    *)
(*                                                                         *)
(* Widths are scaled so that TLC's integers hold them: a byte has G+1 bits *)
(* (8 in the code), a varint byte carries G payload bits (7), a "32-bit"   *)
(* value has W32 bits and a "64-bit" one W64 bits.  The loops keep the     *)
(* code's shape: a varint32 has Groups(W32) bytes at most (5), the decode  *)
(* loops run while shift <= G * ((W - 1) \div G) (28 and 63), and every    *)
(* shift is computed in the width of its variable.                         *)
(***************************************************************************)
EXTENDS Naturals, Sequences, SequencesExt

CONSTANTS
    G,          \* payload bits of a varint byte (7)
    W32, W64,   \* widths of uint32_t and uint64_t
    Values32,   \* values passed to PutVarint32 / PutFixed32
    Values64,   \* values passed to PutVarint64 / PutFixed64
    Payloads,   \* slices passed to PutLengthPrefixedSlice
    MaxItems,   \* bound on the items a writer appends
    Bases,      \* addresses the buffer may start at (pointer decoders)
    MaxRaw      \* length bound of the arbitrary buffers of SpecRaw

ByteBits == G + 1
Bytes    == 0..(2^ByteBits - 1)
B        == 2^G                             \* the continuation bit, 128
Groups(w) == (w + G - 1) \div G
MaxShift(w) == G * ((w - 1) \div G)

ASSUME /\ W32 % ByteBits = 0 /\ W64 % ByteBits = 0
       /\ Values32 \subseteq 0..(2^W32 - 1) /\ Values64 \subseteq 0..(2^W64 - 1)
       /\ \A s \in Payloads : s \in Seq(Bytes)

Kinds == {"v32", "v64", "f32", "f64", "slice"}

VARIABLES
    buf,        \* the std::string the writer appends to / the reader parses
    base,       \* the address of buf's first byte
    written,    \* history: the items put, in order
    pos,        \* the reader's Slice: bytes of buf consumed so far
    read,       \* history: the items the reader decoded, with their extent
    status      \* "ok" until a decoder reports failure

vars == <<buf, base, written, pos, read, status>>

Shr(v, n) == v \div 2^n

(* EncodeFixed32 / EncodeFixed64: little-endian bytes of v.                *)
EncodeFixed(w, v) == [i \in 1..(w \div ByteBits) |-> Shr(v, ByteBits * (i - 1)) % 2^ByteBits]

(* DecodeFixed32 / DecodeFixed64 (coding.h): the inverse.                  *)
DecodeFixed(s) == FoldLeft(LAMBDA acc, b : acc * 2^ByteBits + b, 0, Reverse(s))

(* Mutant: the one-byte case also takes v = 1<<7.                          *)
EncodeVarint32OffByOne(v) ==
    LET n == CHOOSE k \in 1..Groups(W32) : (v <= 2^(G * k) \/ k = Groups(W32))
                                          /\ \A j \in 1..(k - 1) : v > 2^(G * j)
    IN  [i \in 1..n |-> IF i < n THEN (Shr(v, G * (i - 1)) % B) + B
                                 ELSE Shr(v, G * (i - 1)) % 2^ByteBits]

(* EncodeVarint32: the unrolled branches v < 1<<7, 1<<14, 1<<21, 1<<28,   *)
(* else; every byte but the last is (v >> 7i) | B stored in an unsigned   *)
(* char, the last is v >> 7(n-1) stored in an unsigned char.              *)
EncodeVarint32(v) ==
    LET n == CHOOSE k \in 1..Groups(W32) : (v < 2^(G * k) \/ k = Groups(W32))
                                          /\ \A j \in 1..(k - 1) : v >= 2^(G * j)
    IN  [i \in 1..n |-> IF i < n THEN (Shr(v, G * (i - 1)) % B) + B
                                 ELSE Shr(v, G * (i - 1)) % 2^ByteBits]

RECURSIVE EncodeVarint64(_)

(* Mutant: the low bits are not masked before the continuation bit.       *)
EncodeVarint64NoMask(v) ==
    IF v >= B THEN <<(v % 2^ByteBits) + B>> \o EncodeVarint64(Shr(v, G)) ELSE <<v>>

(* EncodeVarint64: while (v >= B) emit (v & (B-1)) | B and shift.          *)
EncodeVarint64(v) ==
    IF v >= B THEN <<(v % B) + B>> \o EncodeVarint64(Shr(v, G)) ELSE <<v>>

(* VarintLength(v).                                                        *)
RECURSIVE VarintLength(_)
VarintLength(v) == IF v >= B THEN 1 + VarintLength(Shr(v, G)) ELSE 1

(* GetVarint32PtrFallback / GetVarint64Ptr from byte q of s (q bytes      *)
(* consumed), limit the end: the loop over shift, with result and the      *)
(* shifted byte in w bits.  Returns [ok, p, val]; ok = FALSE is NULL.      *)
RECURSIVE DecodeLoop(_, _, _, _, _, _)
DecodeLoop(w, s, q, limit, shift, result) ==
    IF shift <= MaxShift(w) /\ q < limit
    THEN LET byte == s[q + 1]
         IN  IF byte >= B
             THEN DecodeLoop(w, s, q + 1, limit, shift + G,
                             result + (((byte % B) * 2^shift) % 2^w))
             ELSE [ok |-> TRUE, p |-> q + 1, val |-> result + ((byte * 2^shift) % 2^w)]
    ELSE [ok |-> FALSE, p |-> q, val |-> 0]

GetVarint32PtrFallback(s, q, limit) == DecodeLoop(W32, s, q, limit, 0, 0)
GetVarint64Ptr(s, q, limit) == DecodeLoop(W64, s, q, limit, 0, 0)

(* The encoding the writer appends for an item.                            *)
Encode(item) ==
    CASE item.kind = "v32"   -> EncodeVarint32(item.val)
      [] item.kind = "v64"   -> EncodeVarint64(item.val)
      [] item.kind = "f32"   -> EncodeFixed(W32, item.val)
      [] item.kind = "f64"   -> EncodeFixed(W64, item.val)
      [] item.kind = "slice" -> EncodeVarint32(Len(item.val)) \o item.val

Items ==
    [kind : {"v32", "f32"}, val : Values32] \cup [kind : {"v64", "f64"}, val : Values64]
    \cup [kind : {"slice"}, val : Payloads]

IsItem(it) ==
    \/ it.kind \in {"v32", "f32"} /\ it.val \in Values32
    \/ it.kind \in {"v64", "f64"} /\ it.val \in Values64
    \/ it.kind = "slice" /\ it.val \in Payloads

TypeOK ==
    /\ buf \in Seq(Bytes)
    /\ base \in Bases
    /\ \A i \in DOMAIN written : IsItem(written[i])
    /\ pos \in 0..Len(buf)
    /\ \A i \in DOMAIN read : /\ read[i].kind \in Kinds
                              /\ read[i].from <= read[i].to
    /\ status \in {"ok", "failed"}

Init ==
    /\ buf = <<>>
    /\ base \in Bases
    /\ written = <<>>
    /\ pos = 0
    /\ read = <<>>
    /\ status = "ok"

(* PutVarint32, PutVarint64, PutFixed32, PutFixed64 and                    *)
(* PutLengthPrefixedSlice: dst->append of the encoding.                    *)
Put(item) ==
    /\ Len(written) < MaxItems
    /\ buf' = buf \o Encode(item)
    /\ written' = Append(written, item)
    /\ UNCHANGED <<base, pos, read, status>>

(* The reader decodes the next item as a kind of the format.  The Slice    *)
(* API (GetVarint32, GetVarint64, GetLengthPrefixedSlice on a Slice) and the  *)
(* pointer API (GetLengthPrefixedSlice(p, limit)) work on the unconsumed   *)
(* part of buf; a fixed-width field is taken with DecodeFixed32/64 after   *)
(* the caller's size check.  A failure stops the reader.                   *)
Accept(item, q) ==
    /\ read' = Append(read, [item EXCEPT !.from = pos, !.to = q])
    /\ pos' = q
    /\ UNCHANGED status

Fail == status' = "failed" /\ UNCHANGED <<pos, read>>

Decoded(kind, val) == [kind |-> kind, val |-> val, from |-> 0, to |-> 0]

(* GetVarint32 / GetVarint64 on a Slice:     input advances past q.        *)
GetVarint(kind) ==
    LET r == IF kind = "v32" THEN GetVarint32PtrFallback(buf, pos, Len(buf))
                             ELSE GetVarint64Ptr(buf, pos, Len(buf))
    IN  IF r.ok THEN Accept(Decoded(kind, r.val), r.p) ELSE Fail

(* A fixed32/fixed64 field: the caller checks that the bytes are there.    *)
GetFixed(kind) ==
    LET n == (IF kind = "f32" THEN W32 ELSE W64) \div ByteBits
    IN  IF pos + n <= Len(buf)
        THEN Accept(Decoded(kind, DecodeFixed(SubSeq(buf, pos + 1, pos + n))), pos + n)
        ELSE Fail

Content(from, to) == IF to <= Len(buf) THEN SubSeq(buf, from + 1, to) ELSE <<>>

(* Mutant: a payload that ends exactly at the end of input is refused.     *)
GetLengthPrefixedSliceStrict ==
    LET r == GetVarint32PtrFallback(buf, pos, Len(buf))
    IN  IF r.ok /\ Len(buf) - r.p > r.val
        THEN Accept(Decoded("slice", Content(r.p, r.p + r.val)), r.p + r.val)
        ELSE Fail

(* GetLengthPrefixedSlice(Slice* input, Slice* result): GetVarint32 and    *)
(* input->size() >= len.                                                   *)
GetLengthPrefixedSlice ==
    LET r == GetVarint32PtrFallback(buf, pos, Len(buf))
    IN  IF r.ok /\ Len(buf) - r.p >= r.val
        THEN Accept(Decoded("slice", Content(r.p, r.p + r.val)), r.p + r.val)
        ELSE Fail

(* GetLengthPrefixedSlice(p, limit, result): the bound is checked as       *)
(* p + len > limit on addresses; the 32-bit build computes p + len modulo  *)
(* 2^32 (pointer overflow is undefined, and wraps on this target).         *)
GetLengthPrefixedSlicePtr ==
    LET r     == GetVarint32PtrFallback(buf, pos, Len(buf))
        p     == base + r.p
        limit == base + Len(buf)
    IN  IF r.ok /\ ~((p + r.val) % 2^W32 > limit)
        THEN Accept(Decoded("slice", Content(r.p, r.p + r.val)), r.p + r.val)
        ELSE Fail

Get(kind) ==
    /\ status = "ok"
    /\ CASE kind \in {"v32", "v64"}  -> GetVarint(kind)
         [] kind \in {"f32", "f64"}  -> GetFixed(kind)
         [] kind = "slice"           -> GetLengthPrefixedSlice \/ GetLengthPrefixedSlicePtr
    /\ UNCHANGED <<buf, base, written>>

(* The reader of the format parses the next item the writer appended.      *)
Next ==
    \/ \E item \in Items : Put(item)
    \/ /\ Len(read) < Len(written)
       /\ Get(written[Len(read) + 1].kind)

Spec == Init /\ [][Next]_vars

(* A buffer of arbitrary bytes (a corrupted or foreign file) parsed by a   *)
(* reader that expects any kind of item.                                   *)
InitRaw ==
    /\ buf \in UNION {[1..n -> Bytes] : n \in 1..MaxRaw}
    /\ base \in Bases
    /\ written = <<>>
    /\ pos = 0
    /\ read = <<>>
    /\ status = "ok"

SpecRaw == InitRaw /\ [][\E kind \in Kinds : Get(kind)]_vars
-----------------------------------------------------------------------------
EncodedSize(item) ==
    CASE item.kind \in {"v32", "v64"} -> VarintLength(item.val)
      [] item.kind = "f32"            -> W32 \div ByteBits
      [] item.kind = "f64"            -> W64 \div ByteBits
      [] item.kind = "slice"          -> VarintLength(Len(item.val)) + Len(item.val)

(* Round trip of the record formats: parsing what the Put functions wrote  *)
(* never fails, yields the items in the order written with their values,   *)
(* and consumes exactly the bytes VarintLength and the fixed widths        *)
(* account for (the sizes MemTable::Add allocates before encoding).        *)
RoundTrip ==
    /\ status = "ok"
    /\ \A i \in 1..Len(read) : read[i].kind = written[i].kind /\ read[i].val = written[i].val
    /\ pos = FoldLeft(LAMBDA acc, it : acc + EncodedSize(it), 0, SubSeq(written, 1, Len(read)))

(* Section 3.1 of the specification: a varint decoder fails on overflow,   *)
(* so every varint32 it accepts denotes the value it returns (an overlong   *)
(* encoding of a small value is accepted); GetVarint32PtrFallback shifts a *)
(* fifth byte by 28 in 32 bits and drops the payload bits above bit 31.    *)
Denotes(s) == FoldLeft(LAMBDA acc, b : acc * B + (b % B), 0, Reverse(s))

AcceptedVarintExact ==
    \A i \in 1..Len(read) :
        read[i].kind = "v32" => Denotes(SubSeq(buf, read[i].from + 1, read[i].to)) = read[i].val

(* Section 3.1: the length-prefixed decoder fails if the payload would run *)
(* past the buffer end; GetLengthPrefixedSlice(p, limit) tests p + len.    *)
AcceptedSliceInBuffer == \A i \in 1..Len(read) : read[i].to <= Len(buf)

(* The decoders' contract in the specification (3.1, 5): a read that      *)
(* succeeds denotes exactly the bytes it consumed, and those bytes lie in  *)
(* the buffer; a varint that overflows or a slice that runs past the end   *)
(* fails instead.                                                          *)
AcceptedReadsExact == AcceptedVarintExact /\ AcceptedSliceInBuffer
=============================================================================
