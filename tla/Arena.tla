------------------------------- MODULE Arena -------------------------------
(***************************************************************************)
(* The bump allocator of src/extra/arena.cpp.  It hands out pieces of      *)
(* blocks it gets from new[]; nothing is ever given back, and only the     *)
(* block got last for small requests is still handed out from.  An address *)
(* is a block and an offset in it.  One thread uses an arena.              *)
(***************************************************************************)
EXTENDS Naturals, SequencesExt

CONSTANTS
  BlockSize, \* kBlockSize: 4096 in the code
  PtrSize,   \* sizeof(char*), the alignment as well: 8 in the code
  Requests,  \* sizes asked for
  MaxBlocks  \* bound on the blocks

VARIABLES
  blocks,    \* blocks_: the sizes of the blocks
  alloc,     \* alloc_ptr_: [block, offset]; block 0 is the null pointer
  remaining, \* alloc_bytes_remaining_
  usage,     \* memory_usage_
  given      \* the pieces handed out, in order: [block, first, bytes, aligned]

vars == <<blocks, alloc, remaining, usage, given>>

Init ==
  /\ blocks = << >>
  /\ alloc = [block |-> 0, offset |-> 0] /\ remaining = 0
  /\ usage = 0
  /\ given = << >>

Piece(b, first, bytes, aligned) ==
  [block |-> b, first |-> first, bytes |-> bytes, aligned |-> aligned]

\* Both ways to allocate take the front of what remains when it is enough
\* (variant: the bytes skipped for the alignment are not counted).
BumpUnaligned(slop, bytes, aligned) ==
  /\ bytes <= remaining
  /\ alloc' = [alloc EXCEPT !.offset = @ + slop + bytes]
  /\ remaining' = remaining - bytes
  /\ given' = Append(given,
       Piece(alloc.block, alloc.offset + slop, bytes, aligned))
  /\ UNCHANGED <<blocks, usage>>
Bump(slop, bytes, aligned) ==
  /\ slop + bytes <= remaining
  /\ alloc' = [alloc EXCEPT !.offset = @ + slop + bytes]
  /\ remaining' = remaining - (slop + bytes)
  /\ given' = Append(given,
       Piece(alloc.block, alloc.offset + slop, bytes, aligned))
  /\ UNCHANGED <<blocks, usage>>

\* AllocateNewBlock; new[] aligns the block.
NewBlock(bytes) ==
  /\ Len(blocks) < MaxBlocks
  /\ blocks' = Append(blocks, bytes)
  /\ usage' = usage + bytes + PtrSize

\* More than a quarter of a block gets a block of its own, and what remains of
\* the current one stays in use; otherwise that is wasted.
Fallback(bytes, aligned) ==
  \/ /\ bytes > BlockSize \div 4
     /\ NewBlock(bytes)
     /\ given' = Append(given, Piece(Len(blocks'), 0, bytes, aligned))
     /\ UNCHANGED <<alloc, remaining>>
  \/ /\ bytes <= BlockSize \div 4
     /\ NewBlock(BlockSize)
     /\ alloc' = [block |-> Len(blocks'), offset |-> bytes]
     /\ remaining' = BlockSize - bytes
     /\ given' = Append(given, Piece(Len(blocks'), 0, bytes, aligned))

Allocate(bytes) ==
  \/ Bump(0, bytes, FALSE)
  \/ bytes > remaining /\ Fallback(bytes, FALSE)

\* The bytes to the next multiple of the alignment
Slop(offset) == (PtrSize - (offset % PtrSize)) % PtrSize

AllocateAligned(bytes) ==
  \/ Bump(Slop(alloc.offset), bytes, TRUE)
  \/ Slop(alloc.offset) + bytes > remaining /\ Fallback(bytes, TRUE)

Next ==
  \E bytes \in Requests : Allocate(bytes) \/ AllocateAligned(bytes)

Spec == Init /\ [][Next]_vars
-----------------------------------------------------------------------------

\* Pieces handed out lie in their block and share no byte, and those of
\* AllocateAligned are aligned, in whatever order the two functions are called.
Apart(p, q) ==
  p.block # q.block \/ p.first + p.bytes <= q.first
                    \/ q.first + q.bytes <= p.first
InsideBlock(p) ==
  p.block \in 1..Len(blocks) /\ p.first + p.bytes <= blocks[p.block]
PiecesInside == \A i \in DOMAIN given : InsideBlock(given[i])
PiecesDisjoint ==
  \A i, j \in DOMAIN given : i = j \/ Apart(given[i], given[j])
PiecesAligned ==
  \A i \in DOMAIN given : given[i].aligned => given[i].first % PtrSize = 0
PiecesApart == PiecesInside /\ PiecesDisjoint /\ PiecesAligned

\* Small requests waste at the end of a block less than a request that goes
\* into a block can be: a quarter of a block and the bytes that align it.
Used(b) == {p.first + p.bytes : p \in {q \in ToSet(given) : q.block = b}}
WasteIsBounded ==
  \A b \in 1..Len(blocks) : b # alloc.block =>
    \E u \in Used(b) : blocks[b] - u < BlockSize \div 4 + PtrSize

\* The bytes of the blocks, and of the vector's pointers to them, one by one
Bytes == UNION {{b} \X (1..blocks[b] + PtrSize) : b \in 1..Len(blocks)}

\* MemoryUsage is what the blocks and the vector's pointers to them take.
UsageCounts == usage = Cardinality(Bytes)
=============================================================================
