------------------------ MODULE JITMemoryInvariant ------------------------
(***************************************************************************)
(* The inductive invariant of JITMemoryManager. CheckInvariants walks the  *)
(* slabs and the free list; the invariant says the same of every block and *)
(* every link by itself, so that a step needs to be looked at only where   *)
(* it writes.                                                              *)
(*                                                                         *)
(* m is the memory, B the addresses of the blocks, E the end blocks of the *)
(* slabs (the only blocks nothing follows).                                *)
(***************************************************************************)
EXTENDS JITMemoryManager

Free(m, B) == {b \in B : ~ThisAllocated(m, b)}

\* Blocks do not overlap, and after every block but the last of a slab there
\* is another one.
Tiled(m, B, E) ==
  /\ \A b \in B :
       /\ BlockSize(m, b) >= HeaderWords
       /\ b + BlockSize(m, b) <= MemWords
       /\ ~ThisAllocated(m, b) => BlockSize(m, b) >= MinBlockSize
  /\ \A b \in B \ E : getBlockAfter(m, b) \in B
  /\ \A e \in E : e \in B /\ ThisAllocated(m, e) /\ BlockSize(m, e) = HeaderWords
  /\ \A b, c \in B : b < c => getBlockAfter(m, b) <= c

\* A block says of its predecessor what the predecessor says of itself.
FlagsAgree(m, B, E) ==
  /\ \A b \in B \ E : PrevAllocated(m, getBlockAfter(m, b)) <=> ThisAllocated(m, b)
  /\ \A c \in B : ~PrevAllocated(m, c) => \E b \in Free(m, B) : getBlockAfter(m, b) = c

\* Two free blocks are never neighbours.
Coalesced(m, B) == \A b \in Free(m, B) : ThisAllocated(m, getBlockAfter(m, b))

BlocksOK(m, B, E) ==
  /\ m \in [Addr -> Word]
  /\ B \in SUBSET Addr
  /\ Tiled(m, B, E)
  /\ FlagsAgree(m, B, E)
  /\ Coalesced(m, B)

\* The blocks F end in their size.
Marked(m, F) == \A b \in F : m[getBlockAfter(m, b) - 1].val = BlockSize(m, b)

\* The links of the blocks F run both ways...
Linked(m, F) ==
  \A b \in F :
    /\ NextFree(m, b) \in F /\ PrevFree(m, NextFree(m, b)) = b
    /\ PrevFree(m, b) \in F /\ NextFree(m, PrevFree(m, b)) = b

\* ... and form one ring: a part of the list that Next does not lead out of
\* is the whole list.
OneRing(m, F) ==
  \A S \in SUBSET F :
    S # {} /\ (\A b \in S : NextFree(m, b) \in S) => S = F

HeapOK(m, B, E) ==
  /\ BlocksOK(m, B, E)
  /\ Marked(m, Free(m, B))
  /\ Linked(m, Free(m, B))
  /\ OneRing(m, Free(m, B))

\* Every block begins in one of the slabs S.
InSlabs(B, S) == \A b \in B : \E s \in S : s.base <= b /\ b < s.base + s.size

\* A slab begins with a block, and has no part in another slab.
SlabsOK ==
  /\ CodeSlabs # <<>>
  /\ \A s \in Slabs :
       /\ s.size >= DefaultCodeSlabSize
       /\ s.base + s.size <= MemWords
       /\ s.base \in blocks
  /\ \A s, t \in Slabs :
       s # t => ~Overlap(s.base, s.base + s.size, t.base, t.base + t.size)
  /\ InSlabs(blocks, Slabs)

TombstoneOK ==
  /\ Tombstone \in Free(mem, blocks)
  /\ BlockSize(mem, Tombstone) = MinBlockSize
  /\ Mem1(CodeSlabs[1]) \in blocks
  /\ ThisAllocated(mem, Mem1(CodeSlabs[1]))
  /\ getBlockAfter(mem, Mem1(CodeSlabs[1])) = Tombstone

ListOK ==
  /\ FreeMemoryList \in Free(mem, blocks)
  /\ pc = "searching" =>
       search.iter \in Free(mem, blocks) /\ search.candidate \in Free(mem, blocks)

\* The search has seen a part of the list that only leads on to where it is,
\* and no block in it that is larger than its candidate.
SearchOK ==
  pc = "searching" =>
    \E V \in SUBSET Free(mem, blocks) :
      /\ FreeMemoryList \in V
      /\ \A b \in V : /\ NextFree(mem, b) \in V \cup {search.iter}
                      /\ BlockSize(mem, b) <= BlockSize(mem, search.candidate)

IsOwned(b) ==
  /\ b \in blocks /\ ThisAllocated(mem, b) /\ b \notin Fences
  /\ BlockSize(mem, b) >= MinBlockSize

OpenedOK ==
  /\ pc \in {"emitting", "emitted"} =>
       /\ IsOwned(CurBlock)
       /\ CurBlock \notin LiveBlocks
       /\ ThisAllocated(mem, getBlockAfter(mem, CurBlock))
  /\ emitted # 0 <=> pc = "emitted"
  /\ pc = "emitted" =>
       /\ BufferBegin + emitted <= BufferEnd
       /\ \A a \in BufferBegin .. BufferBegin + emitted - 1 : mem[a] = Code

\* Every word a client owns holds what was emitted there: no header, link or
\* marker is ever written into a body, and no body into another.
LiveOK ==
  /\ \A x \in live :
       /\ IsOwned(x.block)
       /\ x.block < x.start /\ x.start < x.end
       /\ x.end <= getBlockAfter(mem, x.block)
       /\ \A a \in x.start .. x.end - 1 : mem[a] = Code
  /\ \A x, y \in live : x.block = y.block => x = y

\* What is allocated has an owner.
NothingLeaks ==
  \A b \in blocks : ThisAllocated(mem, b) => b \in Fences \cup LiveBlocks \cup Opened

IInv ==
  /\ TypeOK
  /\ HeapOK(mem, blocks, EndBlocks)
  /\ SlabsOK
  /\ TombstoneOK
  /\ ListOK
  /\ SearchOK
  /\ OpenedOK
  /\ LiveOK
  /\ NothingLeaks
=============================================================================
