------------------------- MODULE JITMemoryManager -------------------------
(***************************************************************************)
(* DefaultJITMemoryManager of lib/ExecutionEngine/JIT/JITMemoryManager.cpp *)
(* the heap that function bodies, exception tables and globals emitted by  *)
(* the JIT live in.                                                        *)
(*                                                                         *)
(* Memory is an array of machine words, and the block headers, free-list   *)
(* links and end markers are stored IN it, next to the code, exactly where *)
(* the C++ structures put them:                                            *)
(*                                                                         *)
(*   allocated block   [ header | payload ............................. ]  *)
(*   free block        [ header | Prev | Next | ............ | size     ]  *)
(*                                                                         *)
(* so a wrong size or a stale link overwrites code or another header.      *)
(* The unit of size and address is one word (sizeof(intptr_t)).            *)
(***************************************************************************)
EXTENDS Integers, Sequences

CONSTANTS
  MemWords,             \* bound: words of address space
  PageWords,            \* words of a page: what AllocateRWX rounds to
  DefaultCodeSlabSize,  \* words asked for when a slab is mapped
  PoisonMemory,         \* fill freed memory with garbage (debug builds)
  RequestSizes,         \* sizes asked of startFunctionBody
  EmitSizes,            \* lengths of emitted bodies
  SpaceSizes,           \* sizes asked of allocateSpace
  Alignments            \* alignments asked of allocateSpace

HeaderWords == 1                   \* sizeof(MemoryRangeHeader)
FreeHeaderWords == 3               \* sizeof(FreeRangeHeader)
MinBlockSize == FreeHeaderWords + 1

ASSUME SizeAssumption ==
  /\ MemWords \in Nat
  /\ PageWords \in Nat \ {0}
  /\ DefaultCodeSlabSize \in Nat
  /\ DefaultCodeSlabSize >= 2 * MinBlockSize + 2 * HeaderWords
  /\ PoisonMemory \in BOOLEAN
  /\ RequestSizes \subseteq Nat
  /\ EmitSizes \subseteq Nat \ {0}
  /\ SpaceSizes \subseteq Nat \ {0}
  /\ Alignments \subseteq Nat \ {0}

Addr == 0 .. MemWords - 1

Header(this, prev, size) ==
  [kind |-> "header", this |-> this, prev |-> prev, val |-> size]
Number(n) == [kind |-> "number", this |-> 0, prev |-> 0, val |-> n]
Code      == [kind |-> "code", this |-> 0, prev |-> 0, val |-> 0]
Garbage   == [kind |-> "garbage", this |-> 0, prev |-> 0, val |-> 0]

Word == [kind : {"header", "number", "code", "garbage"},
         this : {0, 1}, prev : {0, 1}, val : Nat]

VARIABLES
  mem,             \* the words of memory
  CodeSlabs,       \* the slabs mapped so far, in order: records [base, size]
  FreeMemoryList,  \* the free block the circular free list is entered at
  CurBlock,        \* the block a body is being emitted into; dead between
                   \* calls, and NoBlock then
  pc,              \* where the client is: see TypeOK
  search,          \* the locals of startFunctionBody's loop
  emitted,         \* words emitted into CurBlock so far
  live,            \* what clients own: records [block, start, end, global]
  blocks           \* auxiliary: the addresses that hold a block's header now

vars == <<mem, CodeSlabs, FreeMemoryList, CurBlock, pc, search, emitted,
          live, blocks>>

-----------------------------------------------------------------------------
(* Memory blocks: reading and writing the words of a block of memory m.    *)

ThisAllocated(m, b) == m[b].this = 1
PrevAllocated(m, b) == m[b].prev = 1
BlockSize(m, b)     == m[b].val
PrevFree(m, b) == m[b + 1].val
NextFree(m, b) == m[b + 2].val

getBlockAfter(m, b)      == b + BlockSize(m, b)
getFreeBlockBefore(m, b) == b - m[b - 1].val

SetThisAllocated(m, b, bit) == [m EXCEPT ![b] = Header(bit, m[b].prev, m[b].val)]
SetPrevAllocated(m, b, bit) == [m EXCEPT ![b] = Header(m[b].this, bit, m[b].val)]
SetBlockSize(m, b, size)    == [m EXCEPT ![b] = Header(m[b].this, m[b].prev, size)]

SetEndOfBlockSizeMarker(m, b) ==
  [m EXCEPT ![getBlockAfter(m, b) - 1] = Number(BlockSize(m, b))]

\* Mutant: Next->Prev is not updated.
RemoveOneWay(m, b) == [m EXCEPT ![PrevFree(m, b) + 2] = Number(NextFree(m, b))]

RemoveFromFreeList(m, b) ==
  [m EXCEPT ![NextFree(m, b) + 1] = Number(PrevFree(m, b)),
            ![PrevFree(m, b) + 2] = Number(NextFree(m, b))]

\* Mutant: Prev->Next is not updated.
AddOneWay(m, b, freeList) ==
  [m EXCEPT ![b + 2] = Number(freeList),
            ![b + 1] = Number(PrevFree(m, freeList)),
            ![freeList + 1] = Number(b)]

AddToFreeList(m, b, freeList) ==
  [m EXCEPT ![b + 2] = Number(freeList),
            ![b + 1] = Number(PrevFree(m, freeList)),
            ![PrevFree(m, freeList) + 2] = Number(b),
            ![freeList + 1] = Number(b)]

Fill(m, from, to, word) ==
  [a \in DOMAIN m |-> IF from <= a /\ a < to THEN word ELSE m[a]]

\* Marks the whole free block b allocated. The list is then entered at
\* NextFree(m, b).
AllocateBlock(m, b) ==
  RemoveFromFreeList(
    SetPrevAllocated(SetThisAllocated(m, b, 1), getBlockAfter(m, b), 1),
    b)

GrowBlock(m, b, newSize) ==
  LET grown == SetEndOfBlockSizeMarker(SetBlockSize(m, b, newSize), b)
  IN  SetPrevAllocated(grown, getBlockAfter(grown, b), 0)

\* First half of FreeBlock: the free block after b becomes part of b, whose
\* own state is still "allocated".
Absorb(m, b) ==
  LET following == getBlockAfter(m, b)
      after     == getBlockAfter(m, following)
  IN  SetPrevAllocated(
        SetBlockSize(RemoveFromFreeList(m, following), b,
                     BlockSize(m, b) + BlockSize(m, following)),
        after, 1)

\* Last part of FreeBlock: b joins the free list before freeList.
MarkFree(m, b, freeList) ==
  LET flags == SetThisAllocated(SetPrevAllocated(m, getBlockAfter(m, b), 0),
                                b, 0)
  IN  SetEndOfBlockSizeMarker(AddToFreeList(flags, b, freeList), b)

-----------------------------------------------------------------------------
(* FreeBlock and TrimAllocationToSize: the new memory, the new entry of    *)
(* the free list, and the new set of block addresses.                      *)

\* Mutant: the free block after b is left to itself.
FreeWithoutLookingAhead(m, bs, freeList, b) ==
  LET before == getFreeBlockBefore(m, b)
  IN  IF PrevAllocated(m, b)
      THEN [mem |-> MarkFree(m, b, freeList), blocks |-> bs, list |-> freeList]
      ELSE [mem |-> GrowBlock(m, before, BlockSize(m, before) + BlockSize(m, b)),
            blocks |-> bs \ {b}, list |-> freeList]

FreeBlock(m, bs, freeList, b) ==
  LET following == getBlockAfter(m, b)
      coalesce  == ~ThisAllocated(m, following)
      headLost  == coalesce /\ following = freeList
      list      == IF headLost THEN NextFree(m, following) ELSE freeList
      m1        == IF coalesce THEN Absorb(m, b) ELSE m
      bs1       == IF coalesce THEN bs \ {following} ELSE bs
      before    == getFreeBlockBefore(m1, b)
  IN  IF PrevAllocated(m1, b)
      THEN [mem |-> MarkFree(m1, b, list), blocks |-> bs1,
            list |-> IF headLost THEN b ELSE freeList]
      ELSE [mem |-> GrowBlock(m1, before, BlockSize(m1, before) + BlockSize(m1, b)),
            blocks |-> bs1 \ {b},
            list |-> IF headLost THEN before ELSE freeList]

\* Mutant: std::min for std::max.
AtMostMin(n) == IF n < MinBlockSize THEN n ELSE MinBlockSize

AtLeastMin(n) == IF n < MinBlockSize THEN MinBlockSize ELSE n

\* Mutant: the block after the tail is not told that the tail is free.
SplitQuietly(m, b, newSize, freeList) ==
  LET new == b + newSize
      cut == [SetBlockSize(m, b, newSize) EXCEPT
                ![new] = Header(0, 1, getBlockAfter(m, b) - new)]
  IN  AddToFreeList(SetEndOfBlockSizeMarker(cut, new), new, freeList)

\* Cuts the tail of the allocated block b off at newSize words.
Split(m, b, newSize, freeList) ==
  LET former == getBlockAfter(m, b)
      new    == b + newSize
      cut    == [SetBlockSize(m, b, newSize) EXCEPT
                   ![new] = Header(0, 1, former - new)]
  IN  AddToFreeList(SetPrevAllocated(SetEndOfBlockSizeMarker(cut, new),
                                     former, 0),
                    new, freeList)

TrimAllocationToSize(m, bs, freeList, b, size) ==
  LET newSize == AtLeastMin(size)
  IN  IF BlockSize(m, b) <= newSize + MinBlockSize
      THEN [mem |-> m, blocks |-> bs, list |-> freeList]
      ELSE [mem |-> Split(m, b, newSize, freeList), blocks |-> bs \cup {b + newSize},
            list |-> b + newSize]

-----------------------------------------------------------------------------
(* Slabs. AllocateRWX maps whole pages wherever the system likes.          *)

Slabs == {CodeSlabs[i] : i \in 1 .. Len(CodeSlabs)}

Overlap(from1, to1, from2, to2) == from1 < to2 /\ from2 < to1

AllocateRWX(size, slabs) ==
  {s \in [base : Addr, size : size .. size + PageWords - 1] :
     /\ s.base % PageWords = 0
     /\ s.size % PageWords = 0
     /\ s.base + s.size <= MemWords
     /\ \A t \in slabs : ~Overlap(s.base, s.base + s.size, t.base, t.base + t.size)}

EndBlock(s) == s.base + s.size - HeaderWords

PaddedMin(minSize) == minSize + 2 * HeaderWords
SlabSize(minSize) ==
  IF PaddedMin(minSize) > DefaultCodeSlabSize
  THEN PaddedMin(minSize) ELSE DefaultCodeSlabSize

\* The memory after slab s has been laid out as one free block and an end
\* block, and the free block put in the list.
allocateNewCodeSlab(m, s, freeList) ==
  LET laid == [m EXCEPT ![EndBlock(s)] = Header(1, 0, HeaderWords),
                        ![s.base] = Header(0, 1, s.size - HeaderWords)]
  IN  AddToFreeList(SetEndOfBlockSizeMarker(laid, s.base), s.base, freeList)

\* The four regions of the first slab.
Mem3(s) == EndBlock(s)
Mem2(s) == Mem3(s) - MinBlockSize
Mem1(s) == Mem2(s) - HeaderWords
Mem0(s) == s.base

InitialMemory(s) ==
  LET m3 == [[a \in Addr |-> Garbage] EXCEPT
               ![Mem3(s)] = Header(1, 0, HeaderWords)]
      m2 == SetEndOfBlockSizeMarker(
              [m3 EXCEPT ![Mem2(s)] = Header(0, 1, MinBlockSize),
                         ![Mem2(s) + 1] = Number(Mem2(s)),
                         ![Mem2(s) + 2] = Number(Mem2(s))], Mem2(s))
      m1 == [m2 EXCEPT ![Mem1(s)] = Header(1, 0, HeaderWords)]
      m0 == SetEndOfBlockSizeMarker(
              [m1 EXCEPT ![Mem0(s)] = Header(0, 1, Mem1(s) - Mem0(s))], Mem0(s))
  IN  AddToFreeList(m0, Mem0(s), Mem2(s))

NoBlock == 0
NoSearch == [iter |-> 0, candidate |-> 0, size |-> 0]

Init ==
  \E s \in AllocateRWX(DefaultCodeSlabSize, {}) :
    /\ CodeSlabs = <<s>>
    /\ mem = InitialMemory(s)
    /\ FreeMemoryList = Mem0(s)
    /\ blocks = {Mem0(s), Mem1(s), Mem2(s), Mem3(s)}
    /\ CurBlock = NoBlock
    /\ pc = "idle"
    /\ search = NoSearch
    /\ emitted = 0
    /\ live = {}

-----------------------------------------------------------------------------
(* The entry points. A call is atomic, except that startFunctionBody's     *)
(* search of the free list is one step per iteration.                      *)

\* startFunctionBody and startExceptionTable: the caller asks for at least
\* size words. The search starts at the head of the free list.
startFunctionBody(size) ==
  /\ pc = "idle"
  /\ pc' = "searching"
  /\ search' = [iter |-> NextFree(mem, FreeMemoryList),
                candidate |-> FreeMemoryList, size |-> size]
  /\ UNCHANGED <<mem, CodeSlabs, FreeMemoryList, CurBlock, emitted, live, blocks>>

\* Mutant: the first block of the list is taken.
SearchFirst ==
  /\ pc = "searching"
  /\ search.iter # FreeMemoryList
  /\ search' = [search EXCEPT !.iter = FreeMemoryList]
  /\ UNCHANGED <<mem, CodeSlabs, FreeMemoryList, CurBlock, pc, emitted, live, blocks>>

\* One iteration of the loop that looks for the largest free block.
SearchFreeList ==
  /\ pc = "searching"
  /\ search.iter # FreeMemoryList
  /\ search' = [search EXCEPT
       !.iter = NextFree(mem, search.iter),
       !.candidate = IF BlockSize(mem, search.iter) > BlockSize(mem, search.candidate)
                     THEN search.iter ELSE search.candidate]
  /\ UNCHANGED <<mem, CodeSlabs, FreeMemoryList, CurBlock, pc, emitted, live, blocks>>

SearchDone == pc = "searching" /\ search.iter = FreeMemoryList

\* Mutant: the block's header is counted as room.
TooSmallWithHeader ==
  LET largest == BlockSize(mem, search.candidate)
  IN  largest < search.size \/ largest - HeaderWords <= MinBlockSize

TooSmall ==
  LET largest == BlockSize(mem, search.candidate) - HeaderWords
  IN  largest < search.size \/ largest <= MinBlockSize

\* The block b of memory m becomes the current block.
OpenBlock(m, b) ==
  /\ mem' = AllocateBlock(m, b)
  /\ FreeMemoryList' = NextFree(m, b)
  /\ CurBlock' = b
  /\ pc' = "emitting"
  /\ search' = NoSearch
  /\ UNCHANGED <<emitted, live>>

UseFreeBlock ==
  /\ SearchDone
  /\ ~TooSmall
  /\ OpenBlock(mem, search.candidate)
  /\ UNCHANGED <<CodeSlabs, blocks>>

UseNewSlab ==
  /\ SearchDone
  /\ TooSmall
  /\ \E s \in AllocateRWX(SlabSize(search.size), Slabs) :
       /\ OpenBlock(allocateNewCodeSlab(mem, s, FreeMemoryList), s.base)
       /\ CodeSlabs' = Append(CodeSlabs, s)
       /\ blocks' = blocks \cup {s.base, EndBlock(s)}

\* allocateNewSlab: the system has no more memory, report_fatal_error.
AllocationFails ==
  /\ SearchDone
  /\ TooSmall
  /\ AllocateRWX(SlabSize(search.size), Slabs) = {}
  /\ pc' = "fatal"
  /\ search' = NoSearch
  /\ UNCHANGED <<mem, CodeSlabs, FreeMemoryList, CurBlock, emitted, live, blocks>>

\* What startFunctionBody returned: the buffer [BufferBegin, BufferEnd).
BufferBegin == CurBlock + HeaderWords
BufferEnd   == getBlockAfter(mem, CurBlock)

\* The emitter writes a body of n words, all the buffer if it does not fit.
EmitCode(n) ==
  /\ pc = "emitting"
  /\ LET len == IF n < BufferEnd - BufferBegin THEN n ELSE BufferEnd - BufferBegin
     IN  /\ mem' = Fill(mem, BufferBegin, BufferBegin + len, Code)
         /\ emitted' = len
  /\ pc' = "emitted"
  /\ UNCHANGED <<CodeSlabs, FreeMemoryList, CurBlock, search, live, blocks>>

\* endFunctionBody and endExceptionTable.
endFunctionBody ==
  /\ pc = "emitted"
  /\ LET r == TrimAllocationToSize(mem, blocks, FreeMemoryList, CurBlock,
                                   HeaderWords + emitted)
     IN  /\ mem' = r.mem
         /\ blocks' = r.blocks
         /\ FreeMemoryList' = r.list
  /\ live' = live \cup {[block |-> CurBlock, start |-> BufferBegin,
                         end |-> BufferBegin + emitted, global |-> FALSE]}
  /\ pc' = "idle"
  /\ emitted' = 0
  /\ CurBlock' = NoBlock
  /\ UNCHANGED <<CodeSlabs, search>>

deallocateBlock(b) ==
  LET m == IF PoisonMemory
           THEN Fill(mem, b + HeaderWords, getBlockAfter(mem, b), Garbage) ELSE mem
      r == FreeBlock(m, blocks, FreeMemoryList, b)
  IN  /\ mem' = r.mem
      /\ blocks' = r.blocks
      /\ FreeMemoryList' = r.list

\* deallocateFunctionBody, deallocateExceptionTable: "never called when the
\* JIT is currently emitting a function".
deallocateFunctionBody(x) ==
  /\ pc = "idle"
  /\ x \in live
  /\ ~x.global
  /\ deallocateBlock(x.block)
  /\ live' = live \ {x}
  /\ UNCHANGED <<CodeSlabs, CurBlock, pc, search, emitted>>

\* The emitter ran out of buffer (CurBufferPtr == BufferEnd): it gives the
\* untrimmed block back and will ask for a larger one.
retryWithMoreMemory ==
  /\ pc = "emitted"
  /\ BufferBegin + emitted = BufferEnd
  /\ deallocateBlock(CurBlock)
  /\ pc' = "idle"
  /\ emitted' = 0
  /\ CurBlock' = NoBlock
  /\ UNCHANGED <<CodeSlabs, search, live>>

\* allocateSpace: the head of the free list, whatever its size; result is
\* the first aligned address of the payload. The last conjunct is the
\* assertion of TrimAllocationToSize, which stops the program.
allocateSpace(size, alignment) ==
  LET b     == FreeMemoryList
      first == b + HeaderWords
  IN  /\ pc = "idle"
      /\ \E result \in first .. first + alignment - 1 :
           /\ result % alignment = 0
           /\ AtLeastMin(result + size - b) <= BlockSize(mem, b)
           /\ LET r == TrimAllocationToSize(AllocateBlock(mem, b), blocks,
                                            NextFree(mem, b), b, result + size - b)
              IN  /\ mem' = Fill(r.mem, result, result + size, Code)
                  /\ blocks' = r.blocks
                  /\ FreeMemoryList' = r.list
           /\ live' = live \cup {[block |-> b, start |-> result,
                                  end |-> result + size, global |-> TRUE]}
      /\ UNCHANGED <<CodeSlabs, CurBlock, pc, search, emitted>>

Step ==
  \/ \E size \in RequestSizes : startFunctionBody(size)
  \/ SearchFreeList
  \/ UseFreeBlock
  \/ UseNewSlab
  \/ AllocationFails
  \/ \E n \in EmitSizes : EmitCode(n)
  \/ endFunctionBody
  \/ \E x \in live : deallocateFunctionBody(x)
  \/ retryWithMoreMemory

\* The tiny free block of the first slab, #2 of the constructor's comment.
Tombstone == Mem2(CodeSlabs[1])

\* allocateSpace has no check of its own that the head of the list is fit to
\* be used. RoomAtHead is what its callers must see to: the head is not the
\* block that must stay in the list for the list to have an entry.
RoomAtHead == FreeMemoryList # Tombstone

Next ==
  \/ Step
  \/ \E size \in SpaceSizes, alignment \in Alignments :
       RoomAtHead /\ allocateSpace(size, alignment)

\* The loop of startFunctionBody is straight-line code of the running thread.
Fairness == WF_vars(SearchFreeList \/ UseFreeBlock \/ UseNewSlab \/ AllocationFails)

Spec == Init /\ [][Next]_vars /\ Fairness

-----------------------------------------------------------------------------
(* Properties                                                              *)

FreeBlocks == {b \in blocks : ~ThisAllocated(mem, b)}
EndBlocks  == {EndBlock(s) : s \in Slabs}
Fences     == EndBlocks \cup {Mem1(CodeSlabs[1])}
Opened     == IF pc \in {"emitting", "emitted"} THEN {CurBlock} ELSE {}
LiveBlocks == {x.block : x \in live}

Owned == [block : Addr, start : Addr, end : 0 .. MemWords, global : BOOLEAN]

TypeOK ==
  /\ mem \in [Addr -> Word]
  /\ CodeSlabs \in Seq([base : Addr, size : Nat])
  /\ FreeMemoryList \in Addr
  /\ CurBlock \in Addr
  /\ pc \in {"idle", "searching", "emitting", "emitted", "fatal"}
  /\ search \in [iter : Addr, candidate : Addr, size : RequestSizes \cup {0}]
  /\ emitted \in Nat
  /\ live \in SUBSET Owned
  /\ blocks \in SUBSET Addr

\* CheckInvariants, the self-check the unit tests call: first the walk round
\* the free list, then the walk over the blocks of every slab. A walk is a
\* function of the number of steps taken.
RingNode[n \in 0 .. MemWords] ==
  IF n = 0 THEN FreeMemoryList ELSE NextFree(mem, RingNode[n - 1])
FreeHdrSet == {RingNode[n] : n \in 0 .. MemWords \div MinBlockSize}

Walk(s) ==
  LET end == s.base + s.size
      hdr[n \in 0 .. s.size] ==
        IF n = 0 THEN s.base
        ELSE LET last == hdr[n - 1]
             IN  IF last < end THEN getBlockAfter(mem, last) ELSE last
  IN  {hdr[n] : n \in 0 .. s.size}
HeadersOf(s) == {h \in Walk(s) : h < s.base + s.size}

\* The free list is a ring inside the slabs, every free block is in it and
\* ends in its size, and the two flags about a block agree.
CheckInvariants ==
  /\ \A f \in FreeHdrSet :
       /\ \E s \in Slabs : s.base <= f /\ f < s.base + s.size
       /\ PrevFree(mem, NextFree(mem, f)) = f
  /\ \A s \in Slabs : \A h \in HeadersOf(s) :
       LET next == getBlockAfter(mem, h) IN
       /\ ~ThisAllocated(mem, h) =>
            /\ h \in FreeHdrSet
            /\ next <= s.base + s.size
            /\ mem[next - 1].val = BlockSize(mem, h)
       /\ h = s.base => PrevAllocated(mem, h)
       /\ next < s.base + s.size => PrevAllocated(mem, next) = ThisAllocated(mem, h)

\* Nothing is lost to fragmentation: when clients own nothing, every slab is
\* one free block again, and so is the part of the first slab before its
\* fence.
AllFreeAgain ==
  live = {} /\ pc = "idle" =>
    \A s \in Slabs :
      HeadersOf(s) = IF s = CodeSlabs[1] THEN {Mem0(s), Mem1(s), Mem2(s), Mem3(s)}
                                         ELSE {s.base, EndBlock(s)}

\* A slab is mapped only when no free block, wherever it is in the list,
\* could have held the body.
MapsOnlyWhenFull ==
  [][Len(CodeSlabs') > Len(CodeSlabs) =>
       \A b \in FreeBlocks : \/ BlockSize(mem, b) - HeaderWords < search.size
                             \/ BlockSize(mem, b) - HeaderWords <= MinBlockSize]_CodeSlabs

\* The buffer startFunctionBody returns has at least the size asked for, and
\* is the largest there is.
GrantsWhatIsAsked ==
  [][pc = "searching" /\ pc' = "emitting" =>
       LET granted == BlockSize(mem', CurBlock') - HeaderWords
       IN  /\ granted >= search.size
           /\ \A b \in FreeBlocks : BlockSize(mem, b) - HeaderWords <= granted]_vars

\* The search of the free list comes to an end.
SearchTerminates == pc = "searching" ~> pc \in {"emitting", "fatal"}

\* What clients see of the heap.
Heap == INSTANCE CodeHeap WITH
  open  <- IF Opened = {} THEN {} ELSE {[start |-> BufferBegin, end |-> BufferEnd]},
  owned <- {[start |-> x.start, end |-> x.end] : x \in live}

\* The manager implements the abstract heap.
HeapSpec == Heap!Spec
=============================================================================
