------------------------------- MODULE Arena -------------------------------
(***************************************************************************)
(* util/arena.h, util/arena.cc: the bump allocator behind a MemTable's     *)
(* skip list.  Small requests are cut from the current standard block;     *)
(* a request that does not fit either gets a block of its own (more than   *)
(* a quarter of a block) or abandons the rest of the current block for a  *)
(* new standard one.  An arena is used by one thread (the memtable writer) *)
(* so every call is one step.  The calls are operators returning the new  *)
(* state and the result; MemTable makes them, and its Unref runs ~Arena.  *)
(*                                                                         *)
(* Addresses are (block, offset) pairs: block i is the i-th block of       *)
(* blocks_, whose base new[] aligns for any object, so an address is       *)
(* aligned exactly when its offset is; NULL is block 0, offset 0.          *)
(***************************************************************************)
EXTENDS Naturals, Sequences, FiniteSets, FiniteSetsExt

CONSTANTS
    BlockSize,  \* kBlockSize (4096)
    Align,      \* sizeof(void*): the alignment of AllocateAligned
    Sizes,      \* request sizes passed to Allocate / AllocateAligned
    MaxBlocks   \* bound on the number of blocks allocated in a behaviour

ASSUME /\ \E k \in 0..6 : Align = 2^k
       /\ Sizes \subseteq 1..BlockSize      \* assert(bytes > 0) of Allocate

VARIABLES
    arena,      \* the members alloc_ptr_, alloc_bytes_remaining_, blocks_, blocks_memory_
    live,       \* FALSE once ~Arena has freed the blocks (the MemTable is deleted)
    allocs      \* history: the results handed out, [blk, off, size, aligned]

Null == [blk |-> 0, off |-> 0]

Addr == [blk : 0..MaxBlocks, off : 0..BlockSize]

TypeOK ==
    /\ arena \in [alloc_ptr : Addr, alloc_bytes_remaining : 0..BlockSize,
                  blocks_ : Seq(Sizes \cup {BlockSize}), blocks_memory_ : Nat]
    /\ live \in BOOLEAN
    /\ allocs \subseteq [blk : 1..MaxBlocks, off : 0..BlockSize,
                         size : Sizes, aligned : BOOLEAN]

(* Arena::Arena.                                                           *)
Init ==
    /\ arena = [alloc_ptr |-> Null, alloc_bytes_remaining |-> 0,
                blocks_ |-> <<>>, blocks_memory_ |-> 0]
    /\ live = TRUE
    /\ allocs = {}

(* AllocateNewBlock(block_bytes): the new block is pushed on blocks_.      *)
AllocateNewBlock(a, n) ==
    [a EXCEPT !.blocks_ = Append(@, n), !.blocks_memory_ = @ + n]

(* Mutant: every request that does not fit takes a standard block.       *)
FallbackNoLargeBlocks(a, bytes) ==
    LET b == AllocateNewBlock(a, BlockSize)
        new == [blk |-> Len(b.blocks_), off |-> 0]
    IN  [a |-> [b EXCEPT !.alloc_ptr = [new EXCEPT !.off = bytes],
                         !.alloc_bytes_remaining = BlockSize - bytes],
         res |-> new]

(* AllocateFallback(bytes): a request of more than a quarter block gets a  *)
(* block of its own and the current block is kept; otherwise the rest of  *)
(* the current block is abandoned for a new standard block.  Returns the   *)
(* new state and the result.                                               *)
AllocateFallback(a, bytes) ==
    IF bytes > BlockSize \div 4
    THEN LET b == AllocateNewBlock(a, bytes)
         IN  [a |-> b, res |-> [blk |-> Len(b.blocks_), off |-> 0]]
    ELSE LET b == AllocateNewBlock(a, BlockSize)
             new == [blk |-> Len(b.blocks_), off |-> 0]
         IN  [a |-> [b EXCEPT !.alloc_ptr = [new EXCEPT !.off = bytes],
                              !.alloc_bytes_remaining = BlockSize - bytes],
              res |-> new]

(* Mutant: the pointer is not advanced past the bytes handed out.         *)
AllocateKeepsPtr(a, bytes) ==
    IF bytes <= a.alloc_bytes_remaining
    THEN [a |-> [a EXCEPT !.alloc_bytes_remaining = @ - bytes], res |-> a.alloc_ptr]
    ELSE AllocateFallback(a, bytes)

(* Arena::Allocate(bytes) (inline, arena.h).                               *)
Allocate(a, bytes) ==
    IF bytes <= a.alloc_bytes_remaining
    THEN [a |-> [a EXCEPT !.alloc_ptr.off = @ + bytes,
                          !.alloc_bytes_remaining = @ - bytes],
          res |-> a.alloc_ptr]
    ELSE AllocateFallback(a, bytes)

(* Mutant: the slop is taken to be the misalignment itself.               *)
AlignedSlopWrong(a, bytes) ==
    LET slop   == a.alloc_ptr.off % Align
        needed == bytes + slop
    IN  IF needed <= a.alloc_bytes_remaining
        THEN [a |-> [a EXCEPT !.alloc_ptr.off = @ + needed,
                              !.alloc_bytes_remaining = @ - needed],
              res |-> [a.alloc_ptr EXCEPT !.off = @ + slop]]
        ELSE AllocateFallback(a, bytes)

(* Arena::AllocateAligned(bytes): skip the slop that aligns alloc_ptr_.    *)
AllocateAligned(a, bytes) ==
    LET current_mod == a.alloc_ptr.off % Align
        slop   == IF current_mod = 0 THEN 0 ELSE Align - current_mod
        needed == bytes + slop
    IN  IF needed <= a.alloc_bytes_remaining
        THEN [a |-> [a EXCEPT !.alloc_ptr.off = @ + needed,
                              !.alloc_bytes_remaining = @ - needed],
              res |-> [a.alloc_ptr EXCEPT !.off = @ + slop]]
        ELSE AllocateFallback(a, bytes)

-----------------------------------------------------------------------------
Overlap(x, y) ==
    /\ x.blk = y.blk
    /\ x.off < y.off + y.size
    /\ y.off < x.off + x.size

(* Every result of Allocate and AllocateAligned lies inside a block of     *)
(* blocks_ and no two results share a byte, across the bump path, the     *)
(* aligned slop and both fallback paths in any order of calls.             *)
AllocationsValid ==
    /\ \A x \in allocs : x.blk \in 1..Len(arena.blocks_)
                         /\ x.off + x.size <= arena.blocks_[x.blk]
    /\ \A x, y \in allocs : x # y => ~Overlap(x, y)

(* The assert of AllocateAligned: its result is aligned to the pointer size,  *)
(* also after unaligned Allocate calls moved alloc_ptr_ ("AllocateFallback *)
(* always returned aligned memory").                                       *)
AlignedResults == \A x \in allocs : x.aligned => x.off % Align = 0

(* The policy of AllocateFallback: a block is abandoned only with less     *)
(* unused tail than a quarter block plus the alignment slop, since larger  *)
(* requests get blocks of their own ("to avoid wasting too much space in   *)
(* leftover bytes").                                                       *)
TailWaste(b) ==
    arena.blocks_[b] - Max({0} \cup {x.off + x.size : x \in {y \in allocs : y.blk = b}})

TailWasteBounded ==
    \A b \in 1..Len(arena.blocks_) :
        b # arena.alloc_ptr.blk => TailWaste(b) < BlockSize \div 4 + Align - 1
=============================================================================
