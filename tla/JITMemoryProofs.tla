-------------------------- MODULE JITMemoryProofs --------------------------
(***************************************************************************)
(* What is proved of JITMemoryManager, for every size of memory, page and  *)
(* slab and for all sizes asked for: the inductive invariant, the self-    *)
(* check of the code, what a search finds, that slabs coalesce, and that   *)
(* clients see the heap of CodeHeap.                                       *)
(***************************************************************************)
EXTENDS JITMemoryInvariant, WellFoundedInduction, FiniteSetTheorems, TLAPS

-----------------------------------------------------------------------------
(* Facts about the blocks of a heap.                                       *)

\* A word belongs to one block.
LEMMA OneBlock ==
  ASSUME NEW m, NEW B, NEW E, BlocksOK(m, B, E),
         NEW b \in B, NEW c \in B, NEW a \in Int,
         b <= a, a < getBlockAfter(m, b), c <= a, a < getBlockAfter(m, c)
  PROVE  b = c
<1>1. b \in Int /\ c \in Int /\ BlockSize(m, b) \in Int /\ BlockSize(m, c) \in Int
  BY SizeAssumption DEF BlocksOK, Addr, Word, BlockSize
<1>2. (b < c => getBlockAfter(m, b) <= c) /\ (c < b => getBlockAfter(m, c) <= b)
  BY DEF BlocksOK, Tiled
<1>3. QED
  BY <1>1, <1>2 DEF getBlockAfter

\* A block lies in memory; a free one has room for its links and its end
\* marker and is followed by another block.
LEMMA BlockFacts ==
  ASSUME NEW m, NEW B, NEW E, BlocksOK(m, B, E), NEW b \in B
  PROVE  /\ b \in Nat /\ BlockSize(m, b) \in Nat
         /\ getBlockAfter(m, b) = b + BlockSize(m, b)
         /\ BlockSize(m, b) >= 1 /\ b + BlockSize(m, b) <= MemWords
         /\ m[b] \in Word
         /\ b \notin E => getBlockAfter(m, b) \in B
         /\ ~ThisAllocated(m, b) =>
              /\ BlockSize(m, b) >= 4
              /\ b \notin E
              /\ b + 1 \in Addr /\ b + 2 \in Addr
              /\ getBlockAfter(m, b) - 1 \in Addr
              /\ getBlockAfter(m, b) \in Addr
<1>1. b \in Addr /\ m[b] \in Word /\ MemWords \in Nat
  BY SizeAssumption DEF BlocksOK
<1>2. b \in Nat /\ BlockSize(m, b) \in Nat
  BY <1>1 DEF Addr, Word, BlockSize
<1>3. BlockSize(m, b) >= 1 /\ b + BlockSize(m, b) <= MemWords
  BY DEF BlocksOK, Tiled, HeaderWords
<1>4. b \notin E => getBlockAfter(m, b) \in B
  BY DEF BlocksOK, Tiled
<1>5. ASSUME ~ThisAllocated(m, b)
      PROVE  BlockSize(m, b) >= 4 /\ b \notin E
  BY <1>5 DEF BlocksOK, Tiled, MinBlockSize, FreeHeaderWords
<1>6. ASSUME ~ThisAllocated(m, b)
      PROVE  getBlockAfter(m, b) \in Addr
  BY <1>4, <1>5, <1>6 DEF BlocksOK
<1>7. QED
  BY <1>1, <1>2, <1>3, <1>4, <1>5, <1>6 DEF Addr, getBlockAfter

\* The words inside a block are no headers.
LEMMA Inside ==
  ASSUME NEW m, NEW B, NEW E, BlocksOK(m, B, E), NEW b \in B, NEW a \in Int,
         b < a, a < getBlockAfter(m, b)
  PROVE  a \notin B
<1>1. SUFFICES ASSUME a \in B PROVE FALSE
  OBVIOUS
<1>2. a <= a /\ a < getBlockAfter(m, a) /\ b <= a
  BY <1>1, BlockFacts
<1>3. a = b
  BY <1>1, <1>2, OneBlock
<1>4. QED
  BY <1>3

\* Two blocks are not followed by the same block.
LEMMA AfterIsOfOne ==
  ASSUME NEW m, NEW B, NEW E, BlocksOK(m, B, E), NEW b \in B, NEW c \in B,
         getBlockAfter(m, b) = getBlockAfter(m, c)
  PROVE  b = c
<1>1. b \in Nat /\ c \in Nat /\ b < getBlockAfter(m, b) /\ c < getBlockAfter(m, c)
  BY BlockFacts
<1>2. getBlockAfter(m, b) \in Nat
  BY BlockFacts
<1>3. b <= getBlockAfter(m, b) - 1 /\ c <= getBlockAfter(m, b) - 1
  BY <1>1, <1>2
<1>4. QED
  BY <1>1, <1>2, <1>3, OneBlock

\* The links of a free block are those of free blocks.
LEMMA LinkFacts ==
  ASSUME NEW m, NEW B, NEW E, HeapOK(m, B, E), NEW b \in Free(m, B)
  PROVE  /\ b \in B /\ ~ThisAllocated(m, b)
         /\ NextFree(m, b) \in Free(m, B) /\ PrevFree(m, b) \in Free(m, B)
         /\ NextFree(m, b) \in B /\ PrevFree(m, b) \in B
         /\ PrevFree(m, NextFree(m, b)) = b /\ NextFree(m, PrevFree(m, b)) = b
         /\ getBlockAfter(m, b) \in B
         /\ ThisAllocated(m, getBlockAfter(m, b))
<1>1. BlocksOK(m, B, E) /\ b \in B /\ ~ThisAllocated(m, b)
  BY DEF HeapOK, Free
<1>2. QED
  BY <1>1, BlockFacts DEF HeapOK, BlocksOK, Linked, Coalesced, Free

-----------------------------------------------------------------------------
(* Memory words                                                            *)

\* A link or a marker is a word, wherever it is written.
LEMMA NumberIsWord ==
  ASSUME NEW m \in [Addr -> Word], NEW a, NEW k \in Nat
  PROVE  [m EXCEPT ![a] = Number(k)] \in [Addr -> Word]
<1>1. Number(k) \in Word
  BY DEF Word, Number
<1>2. QED
  BY <1>1

\* Writing a bit or the size of a header leaves the memory a function from
\* addresses to words.
LEMMA WritesAreWords ==
  ASSUME NEW m \in [Addr -> Word], NEW b, NEW k \in Nat, NEW bit \in {0, 1}, b \in Addr
  PROVE  /\ SetThisAllocated(m, b, bit) \in [Addr -> Word]
         /\ SetPrevAllocated(m, b, bit) \in [Addr -> Word]
         /\ SetBlockSize(m, b, k) \in [Addr -> Word]
<1>1. Header(bit, m[b].prev, m[b].val) \in Word /\ Header(m[b].this, bit, m[b].val) \in Word
      /\ Header(m[b].this, m[b].prev, k) \in Word 
  BY DEF Word, Header
<1>2. QED
  BY <1>1 DEF SetThisAllocated, SetPrevAllocated, SetBlockSize

-----------------------------------------------------------------------------
(* AllocateBlock                                                           *)

\* What AllocateBlock writes: the two flags, and the links of the free
\* blocks on either side in the list.
LEMMA AllocateBlockWrites ==
  ASSUME NEW m, NEW B, NEW E, HeapOK(m, B, E), NEW x \in Free(m, B), NEW n,
         n = AllocateBlock(m, x)
  PROVE  /\ n \in [Addr -> Word]
         /\ \A a \in Addr :
              n[a] = IF a = PrevFree(m, x) + 2 THEN Number(NextFree(m, x))
                     ELSE IF a = NextFree(m, x) + 1 THEN Number(PrevFree(m, x))
                     ELSE IF a = getBlockAfter(m, x) THEN Header(m[a].this, 1, m[a].val)
                     ELSE IF a = x THEN Header(1, m[a].prev, m[a].val)
                     ELSE m[a]
<1> BlocksOK(m, B, E)
  BY DEF HeapOK
<1> DEFINE y == getBlockAfter(m, x)
           m1 == SetThisAllocated(m, x, 1)
           m2 == SetPrevAllocated(m1, y, 1)
           m3 == [m2 EXCEPT ![NextFree(m, x) + 1] = Number(PrevFree(m, x))]
<1>1. x \in B /\ x \in Addr /\ y \in B /\ y \in Addr /\ x + 2 < y
  BY LinkFacts, BlockFacts DEF HeapOK, BlocksOK
<1>2. x \in Nat /\ y \in Nat /\ x + 1 \in Addr /\ x + 2 \in Addr
  BY <1>1, SizeAssumption, LinkFacts, BlockFacts DEF Addr
<1>3. m \in [Addr -> Word] /\ m1 \in [Addr -> Word] /\ m2 \in [Addr -> Word]
  BY <1>1, WritesAreWords DEF HeapOK, BlocksOK
<1>4. getBlockAfter(m1, x) = y
  BY <1>1, <1>3 DEF getBlockAfter, BlockSize, SetThisAllocated, Header
<1>5. \A a \in Addr : m2[a] = IF a = y THEN Header(m[a].this, 1, m[a].val)
                              ELSE IF a = x THEN Header(1, m[a].prev, m[a].val) ELSE m[a]
  BY <1>1, <1>2, <1>3 DEF SetThisAllocated, SetPrevAllocated
<1>6. PrevFree(m2, x) = PrevFree(m, x) /\ NextFree(m2, x) = NextFree(m, x)
  BY <1>1, <1>2, <1>5 DEF PrevFree, NextFree
<1>7. n = [m3 EXCEPT ![PrevFree(m, x) + 2] = Number(NextFree(m, x))]
  BY <1>4, <1>6 DEF AllocateBlock, RemoveFromFreeList
<1>8. PrevFree(m, x) \in Nat /\ NextFree(m, x) \in Nat
  BY <1>2, <1>3 DEF PrevFree, NextFree, Word
<1>9. n \in [Addr -> Word]
  <2>1. m3 \in [Addr -> Word]
    BY <1>3, <1>8, NumberIsWord
  <2>2. QED
    BY <1>7, <1>8, <2>1, NumberIsWord
<1>10. QED
  BY <1>3, <1>5, <1>7, <1>9

\* Allocating a free block keeps the heap well formed, takes the block out of
\* the list and writes to no other block's payload.
LEMMA AllocateBlockOK ==
  ASSUME NEW m, NEW B, NEW E, HeapOK(m, B, E), NEW x \in Free(m, B), NEW n,
         n = AllocateBlock(m, x)
  PROVE  /\ HeapOK(n, B, E)
         /\ Free(n, B) = Free(m, B) \ {x}
         /\ \A b \in B : BlockSize(n, b) = BlockSize(m, b)
         /\ \A b \in B : ThisAllocated(n, b) <=> (ThisAllocated(m, b) \/ b = x)
         /\ \A b \in B : ThisAllocated(m, b) =>
              \A a \in Int : b < a /\ a < getBlockAfter(m, b) => n[a] = m[a]
<1> BlocksOK(m, B, E)
  BY DEF HeapOK
<1> DEFINE y == getBlockAfter(m, x)
           nx == NextFree(m, x)
           px == PrevFree(m, x)
           F  == Free(m, B)
<1>1. /\ x \in B /\ y \in B /\ nx \in F /\ px \in F /\ nx \in B /\ px \in B
      /\ ThisAllocated(m, y) /\ ~ThisAllocated(m, x)
      /\ ~ThisAllocated(m, nx) /\ ~ThisAllocated(m, px)
      /\ PrevFree(m, nx) = x /\ NextFree(m, px) = x
  BY LinkFacts DEF Free
<1>2. /\ n \in [Addr -> Word]
      /\ \A a \in Addr :
              n[a] = IF a = px + 2 THEN Number(nx)
                     ELSE IF a = nx + 1 THEN Number(px)
                     ELSE IF a = y THEN Header(m[a].this, 1, m[a].val)
                     ELSE IF a = x THEN Header(1, m[a].prev, m[a].val)
                     ELSE m[a]
  BY AllocateBlockWrites
<1>3. m \in [Addr -> Word] /\ B \subseteq Addr
  BY DEF HeapOK, BlocksOK
<1>4. \A b \in B : b \in Nat /\ b \in Addr
  BY <1>3, BlockFacts
<1>5. \A b \in B : b # px + 2 /\ b # nx + 1
  BY <1>1, <1>4, Inside, BlockFacts
<1>7. \A b \in B : BlockSize(n, b) = BlockSize(m, b)
  BY <1>2, <1>3, <1>4, <1>5 DEF BlockSize, Header
<1>8. \A b \in B : ThisAllocated(n, b) <=> (ThisAllocated(m, b) \/ b = x)
  BY <1>1, <1>2, <1>3, <1>4, <1>5 DEF ThisAllocated, Header
<1>9. \A b \in B : PrevAllocated(n, b) <=> (PrevAllocated(m, b) \/ b = y)
  BY <1>1, <1>2, <1>3, <1>4, <1>5 DEF PrevAllocated, Header
<1>10. Free(n, B) = F \ {x}
  BY <1>1, <1>8 DEF Free
<1>11. \A b \in B : getBlockAfter(n, b) = getBlockAfter(m, b)
  BY <1>7 DEF getBlockAfter
<1>12. Tiled(n, B, E)
  BY <1>1, <1>7, <1>8, <1>11 DEF Tiled, HeapOK, BlocksOK
<1>13. FlagsAgree(n, B, E)
  <2>1. \A b \in B \ E : PrevAllocated(n, getBlockAfter(n, b)) <=> ThisAllocated(n, b)
    <3> SUFFICES ASSUME NEW b \in B \ E
                 PROVE  PrevAllocated(n, getBlockAfter(m, b)) <=> ThisAllocated(n, b)
      BY <1>11
    <3>1. getBlockAfter(m, b) \in B
      BY BlockFacts
    <3>2. getBlockAfter(m, b) = y => b = x
      BY <1>1, AfterIsOfOne, BlockFacts
    <3>3. PrevAllocated(m, getBlockAfter(m, b)) <=> ThisAllocated(m, b)
      BY DEF HeapOK, BlocksOK, FlagsAgree
    <3>4. QED
      BY <1>8, <1>9, <3>1, <3>2, <3>3
  <2>2. \A c \in B : ~PrevAllocated(n, c) => \E b \in Free(n, B) : getBlockAfter(n, b) = c
    <3> SUFFICES ASSUME NEW c \in B, ~PrevAllocated(n, c)
                 PROVE  \E b \in Free(n, B) : getBlockAfter(n, b) = c
      OBVIOUS
    <3>1. ~PrevAllocated(m, c) /\ c # y
      BY <1>9
    <3>2. PICK b \in F : getBlockAfter(m, b) = c
      BY <3>1 DEF HeapOK, BlocksOK, FlagsAgree
    <3>3. b # x /\ b \in B
      BY <3>1, <3>2 DEF Free
    <3>4. QED
      BY <1>10, <1>11, <3>2, <3>3
  <2>3. QED
    BY <2>1, <2>2 DEF FlagsAgree
<1>20. Marked(n, Free(n, B))
  <2> SUFFICES ASSUME NEW b \in F, b # x
               PROVE  n[getBlockAfter(m, b) - 1].val = BlockSize(m, b)
    BY <1>1, <1>7, <1>10, <1>11 DEF Free, Marked
  <2> DEFINE e == getBlockAfter(m, b) - 1
  <2>1. b \in B /\ b \in Nat /\ e \in Nat /\ e \in Addr /\ b + 3 <= e /\ e < getBlockAfter(m, b)
    BY LinkFacts, BlockFacts, <1>4
  <2>2. e \notin B
    BY <2>1, Inside
  <2>3. e # px + 2 /\ e # nx + 1
    <3>1. px \in Nat /\ nx \in Nat /\ px + 2 < getBlockAfter(m, px) /\ nx + 1 < getBlockAfter(m, nx)
      BY <1>1, <1>4, BlockFacts
    <3>2. e = px + 2 => b = px
      BY <1>1, <2>1, <3>1, OneBlock
    <3>3. e = nx + 1 => b = nx
      BY <1>1, <2>1, <3>1, OneBlock
    <3>4. QED
      BY <2>1, <3>1, <3>2, <3>3
  <2>4. n[e] = m[e]
    BY <1>1, <1>2, <2>1, <2>2, <2>3
  <2>5. QED
    BY <2>4 DEF HeapOK, Marked
<1>14. Coalesced(n, B)
  BY <1>1, <1>8, <1>10, <1>11, LinkFacts DEF Coalesced
<1>15. \A b \in F : b # x =>
         /\ NextFree(n, b) = IF b = px THEN nx ELSE NextFree(m, b)
         /\ PrevFree(n, b) = IF b = nx THEN px ELSE PrevFree(m, b)
  <2> SUFFICES ASSUME NEW b \in F, b # x
               PROVE /\ NextFree(n, b) = IF b = px THEN nx ELSE NextFree(m, b)
                     /\ PrevFree(n, b) = IF b = nx THEN px ELSE PrevFree(m, b)
    OBVIOUS
  <2>1. /\ b \in B /\ b \in Nat /\ b + 1 \in Addr /\ b + 2 \in Addr
        /\ b + 3 < getBlockAfter(m, b) /\ getBlockAfter(m, b) \in Nat
    BY LinkFacts, BlockFacts, <1>4
  <2>2. b + 1 \notin B /\ b + 2 \notin B
    <3>1. /\ b + 1 \in Int /\ b < b + 1 /\ b + 1 < getBlockAfter(m, b)
          /\ b + 2 \in Int /\ b < b + 2 /\ b + 2 < getBlockAfter(m, b)
      BY <2>1
    <3>2. QED
      BY <2>1, <3>1, Inside
  <2>3. px \in Nat /\ nx \in Nat /\ px + 3 < getBlockAfter(m, px) /\ nx + 3 < getBlockAfter(m, nx)
        /\ getBlockAfter(m, px) \in Nat /\ getBlockAfter(m, nx) \in Nat
    BY <1>1, <1>4, BlockFacts
  <2>4. b + 2 # nx + 1 /\ b + 1 # px + 2
    <3>1. ASSUME b + 2 = nx + 1 PROVE b = nx
      <4>1. /\ b + 2 \in Int /\ b <= b + 2 /\ b + 2 < getBlockAfter(m, b)
            /\ nx <= b + 2 /\ b + 2 < getBlockAfter(m, nx)
        BY <2>1, <2>3, <3>1
      <4>2. QED
        BY <1>1, <2>1, <4>1, OneBlock
    <3>2. ASSUME b + 1 = px + 2 PROVE b = px
      <4>1. /\ b + 1 \in Int /\ b <= b + 1 /\ b + 1 < getBlockAfter(m, b)
            /\ px <= b + 1 /\ b + 1 < getBlockAfter(m, px)
        BY <2>1, <2>3, <3>2
      <4>2. QED
        BY <1>1, <2>1, <4>1, OneBlock
    <3>3. QED
      BY <2>1, <2>3, <3>1, <3>2
  <2>5. n[b + 2] = IF b = px THEN Number(nx) ELSE m[b + 2]
    BY <1>1, <1>2, <2>1, <2>2, <2>3, <2>4
  <2>6. n[b + 1] = IF b = nx THEN Number(px) ELSE m[b + 1]
    BY <1>1, <1>2, <2>1, <2>2, <2>3, <2>4
  <2>7. QED
    BY <2>5, <2>6 DEF NextFree, PrevFree, Number
<1>16. Linked(n, F \ {x})
  BY <1>1, <1>15, LinkFacts DEF Linked
<1>17. OneRing(n, F \ {x})
  <2> SUFFICES ASSUME NEW S \in SUBSET (F \ {x}), S # {},
                      \A b \in S : NextFree(n, b) \in S
               PROVE  S = F \ {x}
    BY DEF OneRing
  <2>1. \A R \in SUBSET F : R # {} /\ (\A b \in R : NextFree(m, b) \in R) => R = F
    BY DEF HeapOK, OneRing
  <2>2. CASE px \in S
    <3>1. \A b \in S \cup {x} : NextFree(m, b) \in S \cup {x}
      BY <1>1, <1>15, <2>2
    <3>2. S \cup {x} = F
      <4>1. S \cup {x} \in SUBSET F /\ S \cup {x} # {}
        BY <1>1
      <4>2. QED
        BY <2>1, <3>1, <4>1
    <3>3. QED
      BY <3>2
  <2>3. CASE px \notin S
    <3>1. \A b \in S : NextFree(m, b) \in S
      BY <1>15, <2>3
    <3>2. S = F
      BY <2>1, <3>1
    <3>3. QED
      BY <3>2
  <2>4. QED
    BY <2>2, <2>3
<1>18. \A b \in B : ThisAllocated(m, b) =>
         \A a \in Int : b < a /\ a < getBlockAfter(m, b) => n[a] = m[a]
  <2> SUFFICES ASSUME NEW b \in B, ThisAllocated(m, b), NEW a \in Int,
                      b < a, a < getBlockAfter(m, b)
               PROVE  n[a] = m[a]
    OBVIOUS
  <2>1. a \notin B /\ a \in Addr /\ b <= a
    BY Inside, BlockFacts, SizeAssumption DEF Addr
  <2>2. a # px + 2 /\ a # nx + 1
    <3>1. px + 2 < getBlockAfter(m, px) /\ nx + 1 < getBlockAfter(m, nx)
          /\ px \in Nat /\ nx \in Nat
      BY <1>1, <1>4, BlockFacts
    <3>2. ASSUME a = px + 2 PROVE FALSE
      BY <1>1, <2>1, <3>1, <3>2, OneBlock
    <3>3. ASSUME a = nx + 1 PROVE FALSE
      BY <1>1, <2>1, <3>1, <3>3, OneBlock
    <3>4. QED
      BY <3>2, <3>3
  <2>3. QED
    BY <1>1, <1>2, <2>1, <2>2
<1>19. QED
  BY <1>2, <1>3, <1>7, <1>8, <1>10, <1>12, <1>13, <1>14, <1>16, <1>17, <1>18, <1>20
     DEF HeapOK, BlocksOK

-----------------------------------------------------------------------------
(* AddToFreeList and the end marker                                        *)

\* Blocks are a matter of the headers alone.
LEMMA SameHeaders ==
  ASSUME NEW m, NEW B, NEW E, BlocksOK(m, B, E), NEW n \in [Addr -> Word],
         \A b \in B : n[b] = m[b]
  PROVE  /\ BlocksOK(n, B, E)
         /\ Free(n, B) = Free(m, B)
         /\ \A b \in B : /\ BlockSize(n, b) = BlockSize(m, b)
                         /\ getBlockAfter(n, b) = getBlockAfter(m, b)
                         /\ ThisAllocated(n, b) <=> ThisAllocated(m, b)
                         /\ PrevAllocated(n, b) <=> PrevAllocated(m, b)
<1>1. \A b \in B : /\ BlockSize(n, b) = BlockSize(m, b)
                   /\ getBlockAfter(n, b) = getBlockAfter(m, b)
                   /\ ThisAllocated(n, b) <=> ThisAllocated(m, b)
                   /\ PrevAllocated(n, b) <=> PrevAllocated(m, b)
  BY DEF BlockSize, getBlockAfter, ThisAllocated, PrevAllocated
<1>2. Free(n, B) = Free(m, B)
  BY <1>1 DEF Free
<1>3. Tiled(n, B, E)
  BY <1>1 DEF BlocksOK, Tiled
<1>4. FlagsAgree(n, B, E)
  <2>1. \A b \in B \ E : PrevAllocated(n, getBlockAfter(n, b)) <=> ThisAllocated(n, b)
    BY <1>1, BlockFacts DEF BlocksOK, FlagsAgree
  <2>2. \A c \in B : ~PrevAllocated(n, c) => \E b \in Free(n, B) : getBlockAfter(n, b) = c
    BY <1>1, <1>2 DEF BlocksOK, FlagsAgree, Free
  <2>3. QED
    BY <2>1, <2>2 DEF FlagsAgree
<1>5. Coalesced(n, B)
  <2>1. \A b \in Free(m, B) : b \in B /\ getBlockAfter(m, b) \in B
    BY BlockFacts DEF Free
  <2>2. QED
    BY <1>1, <1>2, <2>1 DEF BlocksOK, Coalesced
<1>6. QED
  BY <1>1, <1>2, <1>3, <1>4, <1>5 DEF BlocksOK

\* The list is a matter of the links alone.
LEMMA SameLinks ==
  ASSUME NEW m, NEW n, NEW F, Linked(m, F), OneRing(m, F),
         \A b \in F : NextFree(n, b) = NextFree(m, b) /\ PrevFree(n, b) = PrevFree(m, b)
  PROVE  Linked(n, F) /\ OneRing(n, F)
<1>1. Linked(n, F)
  BY DEF Linked
<1>2. OneRing(n, F)
  BY DEF OneRing
<1>3. QED
  BY <1>1, <1>2

-----------------------------------------------------------------------------
(* The list                                                                *)

\* The links of different blocks are different words.
Spaced(F) ==
  /\ \A c \in F : c \in Nat /\ c + 1 \in Addr /\ c + 2 \in Addr
  /\ \A c, d \in F : c + 1 # d + 2

\* Taking x out of a list leaves a list of the others.
LEMMA ListWithout ==
  ASSUME NEW m, NEW n, NEW F, Linked(m, F), OneRing(m, F), NEW x \in F,
         \A b \in F : b # x =>
           /\ NextFree(n, b) = IF b = PrevFree(m, x) THEN NextFree(m, x) ELSE NextFree(m, b)
           /\ PrevFree(n, b) = IF b = NextFree(m, x) THEN PrevFree(m, x) ELSE PrevFree(m, b)
  PROVE  Linked(n, F \ {x}) /\ OneRing(n, F \ {x})
<1> DEFINE px == PrevFree(m, x)
           nx == NextFree(m, x)
<1>1. /\ nx \in F /\ px \in F /\ PrevFree(m, nx) = x /\ NextFree(m, px) = x
      /\ \A b \in F : /\ NextFree(m, b) \in F /\ PrevFree(m, NextFree(m, b)) = b
                      /\ PrevFree(m, b) \in F /\ NextFree(m, PrevFree(m, b)) = b
  BY DEF Linked
<1>2. Linked(n, F \ {x})
  BY <1>1 DEF Linked
<1>3. ASSUME NEW S \in SUBSET (F \ {x}), S # {}, \A b \in S : NextFree(n, b) \in S
      PROVE  S = F \ {x}
  <2>1. \A R \in SUBSET F : R # {} /\ (\A b \in R : NextFree(m, b) \in R) => R = F
    BY DEF OneRing
  <2>2. CASE px \in S
    <3>1. \A b \in S \cup {x} : NextFree(m, b) \in S \cup {x}
      BY <1>1, <1>3, <2>2
    <3>2. S \cup {x} \in SUBSET F /\ S \cup {x} # {}
      OBVIOUS
    <3>3. S \cup {x} = F
      BY <2>1, <3>1, <3>2
    <3> QED BY <3>3
  <2>3. CASE px \notin S
    <3>1. \A b \in S : NextFree(m, b) \in S
      BY <1>3, <2>3
    <3>2. S = F
      BY <1>3, <2>1, <3>1
    <3> QED BY <3>2
  <2> QED BY <2>2, <2>3
<1> QED BY <1>2, <1>3 DEF OneRing

\* Putting x before h into a list makes a list with x.
LEMMA ListWith ==
  ASSUME NEW m, NEW n, NEW F, Linked(m, F), OneRing(m, F), NEW h \in F, NEW x, x \notin F,
         NextFree(n, x) = h, PrevFree(n, x) = PrevFree(m, h),
         \A b \in F :
           /\ NextFree(n, b) = IF b = PrevFree(m, h) THEN x ELSE NextFree(m, b)
           /\ PrevFree(n, b) = IF b = h THEN x ELSE PrevFree(m, b)
  PROVE  Linked(n, F \cup {x}) /\ OneRing(n, F \cup {x})
<1> DEFINE p == PrevFree(m, h)
<1>1. /\ p \in F /\ NextFree(m, p) = h
      /\ \A b \in F : /\ NextFree(m, b) \in F /\ PrevFree(m, NextFree(m, b)) = b
                      /\ PrevFree(m, b) \in F /\ NextFree(m, PrevFree(m, b)) = b
  BY DEF Linked
<1>2. Linked(n, F \cup {x})
  BY <1>1 DEF Linked
<1>3. ASSUME NEW S \in SUBSET (F \cup {x}), S # {}, \A b \in S : NextFree(n, b) \in S
      PROVE  S = F \cup {x}
  <2>1. \A R \in SUBSET F : R # {} /\ (\A b \in R : NextFree(m, b) \in R) => R = F
    BY DEF OneRing
  <2>2. \A b \in S \ {x} : NextFree(m, b) \in S \ {x}
    BY <1>1, <1>3
  <2>3. S \ {x} # {}
    BY <1>3
  <2>4. S \ {x} = F
    BY <2>1, <2>2, <2>3
  <2>5. p \in S /\ NextFree(n, p) = x
    BY <1>1, <2>4
  <2> QED BY <1>3, <2>4, <2>5
<1> QED BY <1>2, <1>3 DEF OneRing

\* RemoveFromFreeList writes links of blocks of the list only.
LEMMA Removed ==
  ASSUME NEW m \in [Addr -> Word], NEW F, Spaced(F), Linked(m, F), OneRing(m, F), NEW x \in F,
         NEW n, n = RemoveFromFreeList(m, x)
  PROVE  /\ n \in [Addr -> Word]
         /\ Linked(n, F \ {x}) /\ OneRing(n, F \ {x})
         /\ \A a \in Addr : (\A c \in F : a # c + 1 /\ a # c + 2) => n[a] = m[a]
<1> DEFINE px == PrevFree(m, x)
           nx == NextFree(m, x)
           m1 == [m EXCEPT ![nx + 1] = Number(px)]
<1>1. /\ nx \in F /\ px \in F
      /\ nx \in Nat /\ px \in Nat /\ nx + 1 \in Addr /\ px + 2 \in Addr
      /\ nx + 1 # px + 2
  BY DEF Linked, Spaced
<1>2. n = [m1 EXCEPT ![px + 2] = Number(nx)]
  BY DEF RemoveFromFreeList
<1>3. m1 \in [Addr -> Word]
  BY <1>1, NumberIsWord
<1>4. n \in [Addr -> Word]
  BY <1>1, <1>2, <1>3, NumberIsWord
<1>5. \A a \in Addr : n[a] = IF a = px + 2 THEN Number(nx)
                             ELSE IF a = nx + 1 THEN Number(px) ELSE m[a]
  BY <1>1, <1>2, <1>3
<1>6. \A b \in F : /\ NextFree(n, b) = IF b = px THEN nx ELSE NextFree(m, b)
                   /\ PrevFree(n, b) = IF b = nx THEN px ELSE PrevFree(m, b)
  <2> SUFFICES ASSUME NEW b \in F
               PROVE /\ NextFree(n, b) = IF b = px THEN nx ELSE NextFree(m, b)
                     /\ PrevFree(n, b) = IF b = nx THEN px ELSE PrevFree(m, b)
    OBVIOUS
  <2>1. /\ b \in Nat /\ b + 1 \in Addr /\ b + 2 \in Addr
        /\ b + 2 # nx + 1 /\ b + 1 # px + 2
    BY <1>1 DEF Spaced
  <2>2. n[b + 2] = IF b = px THEN Number(nx) ELSE m[b + 2]
    BY <1>1, <1>5, <2>1
  <2>3. n[b + 1] = IF b = nx THEN Number(px) ELSE m[b + 1]
    BY <1>1, <1>5, <2>1
  <2> QED BY <2>2, <2>3 DEF NextFree, PrevFree, Number
<1>7. Linked(n, F \ {x}) /\ OneRing(n, F \ {x})
  BY <1>6, ListWithout
<1> QED BY <1>1, <1>4, <1>5, <1>7

\* So does AddToFreeList.
LEMMA Added ==
  ASSUME NEW m \in [Addr -> Word], NEW F, NEW x, x \notin F, NEW G, G = F \cup {x}, Spaced(G),
         Linked(m, F), OneRing(m, F), NEW h \in F, NEW n, n = AddToFreeList(m, x, h)
  PROVE  /\ n \in [Addr -> Word]
         /\ Linked(n, G) /\ OneRing(n, G)
         /\ \A a \in Addr : (\A c \in G : a # c + 1 /\ a # c + 2) => n[a] = m[a]
<1> DEFINE p  == PrevFree(m, h)
           m1 == [m EXCEPT ![x + 2] = Number(h)]
           m2 == [m1 EXCEPT ![x + 1] = Number(p)]
           m3 == [m2 EXCEPT ![p + 2] = Number(x)]
<1>1. /\ p \in F /\ p \in Nat /\ h \in Nat /\ x \in Nat
      /\ h + 1 \in Addr /\ p + 2 \in Addr /\ x + 1 \in Addr /\ x + 2 \in Addr
      /\ h + 1 # p + 2 /\ h # x /\ p # x /\ h + 1 # x + 2 /\ p + 2 # x + 1
  BY DEF Linked, Spaced
<1>2. n = [m3 EXCEPT ![h + 1] = Number(x)]
  BY DEF AddToFreeList
<1>3. m1 \in [Addr -> Word]
  BY <1>1, NumberIsWord
<1>4. m2 \in [Addr -> Word]
  BY <1>1, <1>3, NumberIsWord
<1>5. m3 \in [Addr -> Word]
  BY <1>1, <1>4, NumberIsWord
<1>6. n \in [Addr -> Word]
  BY <1>1, <1>2, <1>5, NumberIsWord
<1>7. \A a \in Addr : n[a] = IF a = h + 1 \/ a = p + 2 THEN Number(x)
                             ELSE IF a = x + 1 THEN Number(p)
                             ELSE IF a = x + 2 THEN Number(h) ELSE m[a]
  BY <1>1, <1>2, <1>3, <1>4, <1>5
<1>8. NextFree(n, x) = h /\ PrevFree(n, x) = p
  <2>1. x + 2 # h + 1 /\ x + 2 # p + 2 /\ x + 2 # x + 1 /\ x + 1 # h + 1 /\ x + 1 # p + 2
    BY <1>1
  <2>2. n[x + 2] = Number(h) /\ n[x + 1] = Number(p)
    BY <1>1, <1>7, <2>1
  <2> QED BY <2>2 DEF NextFree, PrevFree, Number
<1>9. \A b \in F : /\ NextFree(n, b) = IF b = p THEN x ELSE NextFree(m, b)
                   /\ PrevFree(n, b) = IF b = h THEN x ELSE PrevFree(m, b)
  <2> SUFFICES ASSUME NEW b \in F
               PROVE /\ NextFree(n, b) = IF b = p THEN x ELSE NextFree(m, b)
                     /\ PrevFree(n, b) = IF b = h THEN x ELSE PrevFree(m, b)
    OBVIOUS
  <2>1. /\ b \in Nat /\ b + 1 \in Addr /\ b + 2 \in Addr /\ b # x
        /\ b + 2 # h + 1 /\ b + 1 # p + 2 /\ b + 1 # x + 2 /\ b + 2 # x + 1
    BY <1>1 DEF Spaced
  <2>2. n[b + 2] = IF b = p THEN Number(x) ELSE m[b + 2]
    BY <1>1, <1>7, <2>1
  <2>3. n[b + 1] = IF b = h THEN Number(x) ELSE m[b + 1]
    BY <1>1, <1>7, <2>1
  <2> QED BY <2>2, <2>3 DEF NextFree, PrevFree, Number
<1>10. Linked(n, F \cup {x}) /\ OneRing(n, F \cup {x})
  BY <1>8, <1>9, ListWith
<1> QED BY <1>1, <1>6, <1>7, <1>10
-----------------------------------------------------------------------------
(* The words of blocks                                                     *)

\* What is written in the free blocks X is written in words of their own.
Roomy(m, B, X) ==
  /\ \A c \in X : /\ c \in Nat /\ c + 1 \in Addr /\ c + 2 \in Addr
                  /\ getBlockAfter(m, c) - 1 \in Addr
                  /\ c + 1 \notin B /\ c + 2 \notin B /\ getBlockAfter(m, c) - 1 \notin B
  /\ \A c, d \in X : /\ c + 1 # d + 2
                     /\ getBlockAfter(m, c) - 1 # d + 1 /\ getBlockAfter(m, c) - 1 # d + 2
                     /\ c # d => getBlockAfter(m, c) - 1 # getBlockAfter(m, d) - 1
  /\ \A c \in X, d \in B : c # d =>
       \A a \in Int : d < a /\ a < getBlockAfter(m, d) =>
         a # c + 1 /\ a # c + 2 /\ a # getBlockAfter(m, c) - 1

\* The first three words and the last one of such a block are inside it, apart from all
\* headers, and apart from those of another such block.
LEMMA Room ==
  ASSUME NEW m, NEW B, NEW E, BlocksOK(m, B, E), NEW X \in SUBSET B,
         \A c \in X : BlockSize(m, c) >= 4
  PROVE  Roomy(m, B, X) /\ Spaced(X)
<1>1. \A c \in X : /\ c \in Nat /\ BlockSize(m, c) \in Nat
                   /\ getBlockAfter(m, c) = c + BlockSize(m, c)
                   /\ c + BlockSize(m, c) <= MemWords /\ BlockSize(m, c) >= 4
  BY BlockFacts
<1>2. \A c \in X : /\ c + 1 \in Addr /\ c + 2 \in Addr /\ getBlockAfter(m, c) - 1 \in Addr
                   /\ c + 1 \in Int /\ c + 2 \in Int /\ getBlockAfter(m, c) - 1 \in Int
                   /\ c + 3 <= getBlockAfter(m, c) - 1
  BY <1>1, SizeAssumption DEF Addr
<1>3. \A c \in X : \A a \in Int :
        a = c + 1 \/ a = c + 2 \/ a = getBlockAfter(m, c) - 1 =>
          /\ c < a /\ c <= a /\ a < getBlockAfter(m, c)
          /\ a \notin B
  BY <1>1, <1>2, Inside
<1>4. ASSUME NEW c \in X, NEW d \in B, c # d, NEW a \in Int, d <= a, a < getBlockAfter(m, d)
      PROVE  a # c + 1 /\ a # c + 2 /\ a # getBlockAfter(m, c) - 1
  BY <1>3, <1>4, OneBlock
<1>5. \A c, d \in X : /\ c + 1 # d + 2
                      /\ getBlockAfter(m, c) - 1 # d + 1 /\ getBlockAfter(m, c) - 1 # d + 2
                      /\ c # d => getBlockAfter(m, c) - 1 # getBlockAfter(m, d) - 1
  <2> SUFFICES ASSUME NEW c \in X, NEW d \in X
               PROVE  /\ c + 1 # d + 2
                      /\ getBlockAfter(m, c) - 1 # d + 1 /\ getBlockAfter(m, c) - 1 # d + 2
                      /\ c # d => getBlockAfter(m, c) - 1 # getBlockAfter(m, d) - 1
    OBVIOUS
  <2>1. CASE c = d
    BY <1>1, <1>2, <2>1
  <2>2. CASE c # d
    <3>1. /\ d + 1 \in Int /\ d <= d + 1 /\ d + 1 < getBlockAfter(m, d)
          /\ d + 2 \in Int /\ d <= d + 2 /\ d + 2 < getBlockAfter(m, d)
          /\ getBlockAfter(m, d) - 1 \in Int /\ d <= getBlockAfter(m, d) - 1
          /\ getBlockAfter(m, d) - 1 < getBlockAfter(m, d)
      BY <1>2, <1>3
    <3> QED BY <1>4, <2>2, <3>1
  <2> QED BY <2>1, <2>2
<1>6. \A c \in X : c + 1 \notin B /\ c + 2 \notin B /\ getBlockAfter(m, c) - 1 \notin B
  BY <1>2, <1>3
<1>7. \A c \in X, d \in B : c # d =>
       \A a \in Int : d < a /\ a < getBlockAfter(m, d) =>
         a # c + 1 /\ a # c + 2 /\ a # getBlockAfter(m, c) - 1
  <2> SUFFICES ASSUME NEW c \in X, NEW d \in B, c # d, NEW a \in Int, d < a, a < getBlockAfter(m, d)
               PROVE  a # c + 1 /\ a # c + 2 /\ a # getBlockAfter(m, c) - 1
    OBVIOUS
  <2>1. d <= a
    BY BlockFacts
  <2> QED BY <1>4, <2>1
<1> QED BY <1>1, <1>2, <1>5, <1>6, <1>7 DEF Roomy, Spaced

\* Free blocks are such blocks.
LEMMA RoomOfFree ==
  ASSUME NEW m, NEW B, NEW E, BlocksOK(m, B, E)
  PROVE  Roomy(m, B, Free(m, B)) /\ Spaced(Free(m, B)) /\ Free(m, B) \in SUBSET B
<1>1. Free(m, B) \in SUBSET B /\ \A c \in Free(m, B) : BlockSize(m, c) >= 4
  BY BlockFacts DEF Free
<1> QED BY <1>1, Room

-----------------------------------------------------------------------------
(* Changes of headers that keep the blocks in order                        *)

\* A block is freed whose neighbours are allocated.
LEMMA FreedBlocks ==
  ASSUME NEW m, NEW B, NEW E, BlocksOK(m, B, E), NEW n \in [Addr -> Word],
         NEW b \in B \ E, NEW y, y = getBlockAfter(m, b),
         ThisAllocated(m, b), PrevAllocated(m, b), ThisAllocated(m, y), BlockSize(m, b) >= 4,
         \A c \in B : /\ BlockSize(n, c) = BlockSize(m, c)
                      /\ ThisAllocated(n, c) <=> ThisAllocated(m, c) /\ c # b
                      /\ PrevAllocated(n, c) <=> PrevAllocated(m, c) /\ c # y
  PROVE  BlocksOK(n, B, E) /\ Free(n, B) = Free(m, B) \cup {b}
<1>1. \A c \in B : getBlockAfter(n, c) = getBlockAfter(m, c)
  BY DEF getBlockAfter
<1>2. Free(n, B) = Free(m, B) \cup {b}
  BY DEF Free
<1>3. y \in B /\ y # b
  BY BlockFacts
<1>4. Tiled(n, B, E)
  BY <1>1 DEF BlocksOK, Tiled, MinBlockSize, FreeHeaderWords
<1>5. FlagsAgree(n, B, E)
  <2>1. ASSUME NEW c \in B \ E
        PROVE  PrevAllocated(n, getBlockAfter(n, c)) <=> ThisAllocated(n, c)
    <3>1. getBlockAfter(m, c) \in B /\ (getBlockAfter(m, c) = y => c = b)
      BY BlockFacts, AfterIsOfOne
    <3>2. PrevAllocated(m, getBlockAfter(m, c)) <=> ThisAllocated(m, c)
      BY DEF BlocksOK, FlagsAgree
    <3> QED BY <1>1, <3>1, <3>2
  <2>2. ASSUME NEW c \in B, ~PrevAllocated(n, c)
        PROVE  \E d \in Free(n, B) : getBlockAfter(n, d) = c
    <3>1. CASE c = y
      BY <1>1, <1>2, <3>1
    <3>2. CASE c # y
      <4>1. PICK d \in Free(m, B) : getBlockAfter(m, d) = c
        BY <2>2, <3>2 DEF BlocksOK, FlagsAgree
      <4> QED BY <1>1, <1>2, <4>1 DEF Free
    <3> QED BY <3>1, <3>2
  <2> QED BY <2>1, <2>2 DEF FlagsAgree
<1>6. Coalesced(n, B)
  <2> SUFFICES ASSUME NEW c \in Free(n, B)
               PROVE  ThisAllocated(n, getBlockAfter(n, c))
    BY DEF Coalesced
  <2>1. CASE c = b
    BY <1>1, <1>3, <2>1
  <2>2. CASE c # b
    <3>1. c \in Free(m, B) /\ c \in B \ E /\ ~ThisAllocated(m, c)
      BY <1>2, <2>2, BlockFacts DEF Free
    <3>2. ThisAllocated(m, getBlockAfter(m, c)) /\ getBlockAfter(m, c) \in B
      BY <3>1, BlockFacts DEF BlocksOK, Coalesced
    <3>3. ~PrevAllocated(m, getBlockAfter(m, c))
      BY <3>1 DEF BlocksOK, FlagsAgree
    <3> QED BY <1>1, <3>1, <3>2, <3>3
  <2> QED BY <2>1, <2>2
<1> QED BY <1>2, <1>4, <1>5, <1>6 DEF BlocksOK

\* An allocated block takes in the free block after it.
LEMMA AbsorbedBlocks ==
  ASSUME NEW m, NEW B, NEW E, BlocksOK(m, B, E), NEW n \in [Addr -> Word],
         NEW b \in B \ E, NEW f, f = getBlockAfter(m, b), NEW z, z = getBlockAfter(m, f),
         ThisAllocated(m, b), ~ThisAllocated(m, f),
         \A c \in B \ {f} :
           /\ BlockSize(n, c) = IF c = b THEN BlockSize(m, b) + BlockSize(m, f) ELSE BlockSize(m, c)
           /\ ThisAllocated(n, c) <=> ThisAllocated(m, c)
           /\ PrevAllocated(n, c) <=> PrevAllocated(m, c) \/ c = z
  PROVE  /\ BlocksOK(n, B \ {f}, E) /\ Free(n, B \ {f}) = Free(m, B) \ {f}
         /\ getBlockAfter(n, b) = z /\ ThisAllocated(n, z)
<1>1. /\ f \in B /\ f # b /\ f \notin E /\ b \in Nat /\ f = b + BlockSize(m, b)
      /\ z \in B /\ z # f /\ f < z /\ b < f /\ f \in Nat /\ z = f + BlockSize(m, f)
      /\ BlockSize(m, b) \in Nat /\ BlockSize(m, f) \in Nat
      /\ f + BlockSize(m, f) <= MemWords /\ f \in Free(m, B) /\ z # b
      /\ BlockSize(m, f) >= 4 /\ BlockSize(m, b) >= 1
  BY BlockFacts DEF Free
<1>2. getBlockAfter(n, b) = z /\ \A c \in B \ {f} : c # b => getBlockAfter(n, c) = getBlockAfter(m, c)
  BY <1>1 DEF getBlockAfter
<1>3. ThisAllocated(m, z)
  BY <1>1 DEF BlocksOK, Coalesced
<1>4. \A e \in E : e \in B /\ e # f /\ e # b
  BY <1>1 DEF BlocksOK, Tiled
<1>5. \A c \in B \ E : c # b => getBlockAfter(m, c) \in B \ {f}
  BY <1>1, BlockFacts, AfterIsOfOne
<1>6. Tiled(n, B \ {f}, E)
  <2>1. \A c \in B \ {f} :
          /\ BlockSize(n, c) >= HeaderWords
          /\ c + BlockSize(n, c) <= MemWords
          /\ ~ThisAllocated(n, c) => BlockSize(n, c) >= MinBlockSize
    BY <1>1 DEF BlocksOK, Tiled, HeaderWords
  <2>2. \A c \in (B \ {f}) \ E : getBlockAfter(n, c) \in B \ {f}
    BY <1>1, <1>2, <1>5
  <2>3. \A e \in E : e \in B \ {f} /\ ThisAllocated(n, e) /\ BlockSize(n, e) = HeaderWords
    BY <1>4 DEF BlocksOK, Tiled
  <2>4. ASSUME NEW c \in B \ {f}, NEW d \in B \ {f}, c < d
        PROVE  getBlockAfter(n, c) <= d
    <3>1. CASE c = b
      <4>1. f <= d
        BY <2>4, <3>1 DEF BlocksOK, Tiled
      <4>2. d \in Nat
        BY BlockFacts
      <4>3. f < d
        BY <1>1, <4>1, <4>2
      <4>4. z <= d
        BY <1>1, <4>3 DEF BlocksOK, Tiled
      <4> QED BY <1>2, <3>1, <4>4
    <3>2. CASE c # b
      BY <1>2, <2>4, <3>2 DEF BlocksOK, Tiled
    <3> QED BY <3>1, <3>2
  <2> QED BY <2>1, <2>2, <2>3, <2>4 DEF Tiled
<1>7. Free(n, B \ {f}) = Free(m, B) \ {f}
  BY DEF Free
<1>8. FlagsAgree(n, B \ {f}, E)
  <2>1. ASSUME NEW c \in (B \ {f}) \ E
        PROVE  PrevAllocated(n, getBlockAfter(n, c)) <=> ThisAllocated(n, c)
    <3>1. CASE c = b
      BY <1>1, <1>2, <3>1
    <3>2. CASE c # b
      <4>1. getBlockAfter(m, c) \in B \ {f} /\ getBlockAfter(m, c) # z
        BY <1>1, <1>5, <3>2, AfterIsOfOne
      <4>2. PrevAllocated(m, getBlockAfter(m, c)) <=> ThisAllocated(m, c)
        BY DEF BlocksOK, FlagsAgree
      <4> QED BY <1>2, <3>2, <4>1, <4>2
    <3> QED BY <3>1, <3>2
  <2>2. ASSUME NEW c \in B \ {f}, ~PrevAllocated(n, c)
        PROVE  \E d \in Free(n, B \ {f}) : getBlockAfter(n, d) = c
    <3>1. ~PrevAllocated(m, c) /\ c # z
      BY <2>2
    <3>2. PICK d \in Free(m, B) : getBlockAfter(m, d) = c
      BY <3>1 DEF BlocksOK, FlagsAgree
    <3>3. d # f /\ d # b /\ d \in B
      BY <3>1, <3>2 DEF Free
    <3> QED BY <1>2, <1>7, <3>2, <3>3
  <2> QED BY <2>1, <2>2 DEF FlagsAgree
<1>9. Coalesced(n, B \ {f})
  <2> SUFFICES ASSUME NEW c \in Free(m, B), c # f
               PROVE  ThisAllocated(n, getBlockAfter(n, c))
    BY <1>7 DEF Coalesced
  <2>1. c \in B \ E /\ c # b /\ getBlockAfter(m, c) \in B \ {f}
    BY <1>5, BlockFacts DEF Free
  <2>2. ThisAllocated(m, getBlockAfter(m, c))
    BY DEF BlocksOK, Coalesced
  <2> QED BY <1>2, <2>1, <2>2
<1>10. ThisAllocated(n, z)
  BY <1>1, <1>3
<1> QED BY <1>2, <1>6, <1>7, <1>8, <1>9, <1>10 DEF BlocksOK

\* A free block takes in the allocated block after it.
LEMMA GrownBlocks ==
  ASSUME NEW m, NEW B, NEW E, BlocksOK(m, B, E), NEW n \in [Addr -> Word],
         NEW p \in Free(m, B), NEW b, b = getBlockAfter(m, p), b \notin E,
         NEW y, y = getBlockAfter(m, b), ThisAllocated(m, y),
         \A c \in B \ {b} :
           /\ BlockSize(n, c) = IF c = p THEN BlockSize(m, p) + BlockSize(m, b) ELSE BlockSize(m, c)
           /\ ThisAllocated(n, c) <=> ThisAllocated(m, c)
           /\ PrevAllocated(n, c) <=> PrevAllocated(m, c) /\ c # y
  PROVE  /\ BlocksOK(n, B \ {b}, E) /\ Free(n, B \ {b}) = Free(m, B)
         /\ getBlockAfter(n, p) = y
<1>1. /\ p \in B \ E /\ ~ThisAllocated(m, p) /\ b \in B /\ p \in Nat /\ b = p + BlockSize(m, p)
      /\ ThisAllocated(m, b)
  BY BlockFacts DEF Free, BlocksOK, Coalesced
<1>2. /\ y \in B /\ y # b /\ b < y /\ p < b /\ b \in Nat /\ y = b + BlockSize(m, b)
      /\ BlockSize(m, p) \in Nat /\ BlockSize(m, b) \in Nat
      /\ b + BlockSize(m, b) <= MemWords /\ y # p
      /\ BlockSize(m, p) >= 4 /\ BlockSize(m, b) >= 1
  BY <1>1, BlockFacts
<1>3. getBlockAfter(n, p) = y /\ \A c \in B \ {b} : c # p => getBlockAfter(n, c) = getBlockAfter(m, c)
  BY <1>1, <1>2 DEF getBlockAfter
<1>4. \A e \in E : e \in B /\ e # b /\ e # p
  BY <1>1 DEF BlocksOK, Tiled
<1>5. \A c \in B \ E : c # p => getBlockAfter(m, c) \in B \ {b}
  BY <1>1, BlockFacts, AfterIsOfOne
<1>6. Tiled(n, B \ {b}, E)
  <2>1. \A c \in B \ {b} :
          /\ BlockSize(n, c) >= HeaderWords
          /\ c + BlockSize(n, c) <= MemWords
          /\ ~ThisAllocated(n, c) => BlockSize(n, c) >= MinBlockSize
    BY <1>1, <1>2 DEF BlocksOK, Tiled, HeaderWords, MinBlockSize, FreeHeaderWords
  <2>2. \A c \in (B \ {b}) \ E : getBlockAfter(n, c) \in B \ {b}
    BY <1>2, <1>3, <1>5
  <2>3. \A e \in E : e \in B \ {b} /\ ThisAllocated(n, e) /\ BlockSize(n, e) = HeaderWords
    BY <1>4 DEF BlocksOK, Tiled
  <2>4. ASSUME NEW c \in B \ {b}, NEW d \in B \ {b}, c < d
        PROVE  getBlockAfter(n, c) <= d
    <3>1. CASE c = p
      <4>1. b <= d
        BY <1>1, <2>4, <3>1 DEF BlocksOK, Tiled
      <4>2. d \in Nat
        BY BlockFacts
      <4>3. b < d
        BY <1>2, <4>1, <4>2
      <4>4. y <= d
        BY <1>1, <4>3 DEF BlocksOK, Tiled
      <4> QED BY <1>3, <3>1, <4>4
    <3>2. CASE c # p
      BY <1>3, <2>4, <3>2 DEF BlocksOK, Tiled
    <3> QED BY <3>1, <3>2
  <2> QED BY <2>1, <2>2, <2>3, <2>4 DEF Tiled
<1>7. Free(n, B \ {b}) = Free(m, B)
  BY <1>1 DEF Free
<1>8. FlagsAgree(n, B \ {b}, E)
  <2>1. ASSUME NEW c \in (B \ {b}) \ E
        PROVE  PrevAllocated(n, getBlockAfter(n, c)) <=> ThisAllocated(n, c)
    <3>1. CASE c = p
      BY <1>1, <1>2, <1>3, <3>1
    <3>2. CASE c # p
      <4>1. getBlockAfter(m, c) \in B \ {b} /\ getBlockAfter(m, c) # y
        BY <1>1, <1>5, <3>2, AfterIsOfOne
      <4>2. PrevAllocated(m, getBlockAfter(m, c)) <=> ThisAllocated(m, c)
        BY DEF BlocksOK, FlagsAgree
      <4> QED BY <1>3, <3>2, <4>1, <4>2
    <3> QED BY <3>1, <3>2
  <2>2. ASSUME NEW c \in B \ {b}, ~PrevAllocated(n, c)
        PROVE  \E d \in Free(n, B \ {b}) : getBlockAfter(n, d) = c
    <3>1. CASE c = y
      BY <1>3, <1>7, <3>1
    <3>2. CASE c # y
      <4>1. PICK d \in Free(m, B) : getBlockAfter(m, d) = c
        BY <2>2, <3>2 DEF BlocksOK, FlagsAgree
      <4>2. d # p /\ d \in B /\ d # b
        BY <1>1, <4>1 DEF Free
      <4> QED BY <1>3, <1>7, <4>1, <4>2
    <3> QED BY <3>1, <3>2
  <2> QED BY <2>1, <2>2 DEF FlagsAgree
<1>9. Coalesced(n, B \ {b})
  <2> SUFFICES ASSUME NEW c \in Free(m, B)
               PROVE  ThisAllocated(n, getBlockAfter(n, c))
    BY <1>7 DEF Coalesced
  <2>1. CASE c = p
    BY <1>2, <1>3, <2>1
  <2>2. CASE c # p
    <3>1. c \in B \ E /\ c \in B \ {b} /\ getBlockAfter(m, c) \in B \ {b}
      BY <1>1, <1>5, <2>2, BlockFacts DEF Free
    <3>2. ThisAllocated(m, getBlockAfter(m, c))
      BY DEF BlocksOK, Coalesced
    <3> QED BY <1>3, <2>2, <3>1, <3>2
  <2> QED BY <2>1, <2>2
<1> QED BY <1>3, <1>6, <1>7, <1>8, <1>9 DEF BlocksOK

\* The tail of an allocated block becomes a free block.
LEMMA CutBlocks ==
  ASSUME NEW m, NEW B, NEW E, BlocksOK(m, B, E), NEW n \in [Addr -> Word],
         NEW b \in B \ E, NEW k \in Nat, k >= 4, BlockSize(m, b) > k + 4,
         NEW y, y = getBlockAfter(m, b), NEW x, x = b + k,
         ThisAllocated(m, b), ThisAllocated(m, y),
         \A c \in B : /\ BlockSize(n, c) = IF c = b THEN k ELSE BlockSize(m, c)
                      /\ ThisAllocated(n, c) <=> ThisAllocated(m, c)
                      /\ PrevAllocated(n, c) <=> PrevAllocated(m, c) /\ c # y,
         BlockSize(n, x) = y - x, ~ThisAllocated(n, x), PrevAllocated(n, x)
  PROVE  /\ BlocksOK(n, B \cup {x}, E) /\ Free(n, B \cup {x}) = Free(m, B) \cup {x}
         /\ x \notin B /\ getBlockAfter(n, x) = y
<1>1. /\ y \in B /\ b < y /\ b \in Nat /\ y = b + BlockSize(m, b) /\ y \in Nat
      /\ BlockSize(m, b) \in Nat /\ b + BlockSize(m, b) <= MemWords
      /\ b < x /\ x < y /\ x \in Nat /\ y - x > 4
  BY BlockFacts
<1>2. x \notin B /\ x \in Addr
  <2>1. x \in Int /\ b < x /\ x < getBlockAfter(m, b)
    BY <1>1
  <2>2. x \notin B
    BY <2>1, Inside
  <2>3. x \in Addr
    BY <1>1, SizeAssumption DEF Addr
  <2> QED BY <2>2, <2>3
<1>3. /\ getBlockAfter(n, x) = y /\ getBlockAfter(n, b) = x
      /\ \A c \in B : c # b => getBlockAfter(n, c) = getBlockAfter(m, c)
  BY <1>1 DEF getBlockAfter
<1>4. \A e \in E : e \in B /\ e # b /\ e # x
  BY <1>2 DEF BlocksOK, Tiled
<1>6. Tiled(n, B \cup {x}, E)
  <2>1. \A c \in B \cup {x} :
          /\ BlockSize(n, c) >= HeaderWords
          /\ c + BlockSize(n, c) <= MemWords
          /\ ~ThisAllocated(n, c) => BlockSize(n, c) >= MinBlockSize
    <3>1. \A c \in B : c # b =>
          /\ BlockSize(n, c) >= HeaderWords
          /\ c + BlockSize(n, c) <= MemWords
          /\ ~ThisAllocated(n, c) => BlockSize(n, c) >= MinBlockSize
      BY DEF BlocksOK, Tiled
    <3>2. MemWords \in Nat
      BY SizeAssumption
    <3> QED BY <1>1, <3>1, <3>2 DEF HeaderWords, MinBlockSize, FreeHeaderWords
  <2>2. \A c \in (B \cup {x}) \ E : getBlockAfter(n, c) \in B \cup {x}
    BY <1>1, <1>3, BlockFacts
  <2>3. \A e \in E : e \in B \cup {x} /\ ThisAllocated(n, e) /\ BlockSize(n, e) = HeaderWords
    BY <1>4 DEF BlocksOK, Tiled
  <2>4. ASSUME NEW c \in B \cup {x}, NEW d \in B \cup {x}, c < d
        PROVE  getBlockAfter(n, c) <= d
    <3>1. c \in Nat /\ d \in Nat
      BY <1>1, BlockFacts
    <3>2. \A u, v \in B : u < v => getBlockAfter(m, u) <= v
      BY DEF BlocksOK, Tiled
    <3>3. CASE c = x
      <4>1. d \in B /\ b < d
        BY <1>1, <2>4, <3>1, <3>3
      <4> QED BY <1>3, <3>2, <3>3, <4>1
    <3>4. CASE c # x /\ d = x
      <4>1. CASE c = b
        BY <1>1, <1>3, <3>4, <4>1
      <4>2. CASE c # b
        <5>1. c < b
          <6>1. ASSUME b < c PROVE FALSE
            <7>1. y <= c
              BY <3>2, <3>4, <6>1
            <7> QED BY <1>1, <2>4, <3>1, <3>4, <7>1
          <6> QED BY <1>1, <3>1, <4>2, <6>1
        <5>2. getBlockAfter(m, c) <= b
          BY <3>2, <3>4, <5>1
        <5>3. getBlockAfter(m, c) \in Nat
          BY <3>4, BlockFacts
        <5> QED BY <1>1, <1>3, <3>4, <4>2, <5>2, <5>3
      <4> QED BY <4>1, <4>2
    <3>5. CASE c # x /\ d # x
      <4>1. getBlockAfter(m, c) <= d
        BY <2>4, <3>2, <3>5
      <4>2. CASE c = b
        <5>0. y <= d
          BY <4>1, <4>2
        <5>1. x <= d
          BY <1>1, <3>1, <5>0
        <5> QED BY <1>3, <4>2, <5>1
      <4>3. CASE c # b
        BY <1>3, <3>5, <4>1, <4>3
      <4> QED BY <4>2, <4>3
    <3> QED BY <3>3, <3>4, <3>5
  <2> QED BY <2>1, <2>2, <2>3, <2>4 DEF Tiled
<1>7. Free(n, B \cup {x}) = Free(m, B) \cup {x}
  BY <1>2 DEF Free
<1>8. FlagsAgree(n, B \cup {x}, E)
  <2>1. ASSUME NEW c \in (B \cup {x}) \ E
        PROVE  PrevAllocated(n, getBlockAfter(n, c)) <=> ThisAllocated(n, c)
    <3>1. CASE c = b \/ c = x
      BY <1>1, <1>3, <3>1
    <3>2. CASE c # b /\ c # x
      <4>1. c \in B \ E /\ getBlockAfter(m, c) \in B /\ getBlockAfter(m, c) # y
        BY <2>1, <3>2, BlockFacts, AfterIsOfOne
      <4>2. PrevAllocated(m, getBlockAfter(m, c)) <=> ThisAllocated(m, c)
        BY <4>1 DEF BlocksOK, FlagsAgree
      <4> QED BY <1>3, <3>2, <4>1, <4>2
    <3> QED BY <3>1, <3>2
  <2>2. ASSUME NEW c \in B \cup {x}, ~PrevAllocated(n, c)
        PROVE  \E d \in Free(n, B \cup {x}) : getBlockAfter(n, d) = c
    <3>1. CASE c = y
      BY <1>3, <1>7, <3>1
    <3>2. CASE c # y
      <4>1. PICK d \in Free(m, B) : getBlockAfter(m, d) = c
        BY <2>2, <3>2 DEF BlocksOK, FlagsAgree
      <4>2. d # b /\ d \in B
        BY <4>1 DEF Free
      <4> QED BY <1>3, <1>7, <4>1, <4>2
    <3> QED BY <3>1, <3>2
  <2> QED BY <2>1, <2>2 DEF FlagsAgree
<1>9. Coalesced(n, B \cup {x})
  <2> SUFFICES ASSUME NEW c \in Free(m, B) \cup {x}
               PROVE  ThisAllocated(n, getBlockAfter(n, c))
    BY <1>7 DEF Coalesced
  <2>1. CASE c = x
    BY <1>1, <1>3, <2>1
  <2>2. CASE c # x
    <3>1. c \in B /\ c # b /\ getBlockAfter(m, c) \in B
      BY <2>2, BlockFacts DEF Free
    <3>2. ThisAllocated(m, getBlockAfter(m, c))
      BY <2>2 DEF BlocksOK, Coalesced
    <3> QED BY <1>3, <3>1, <3>2
  <2> QED BY <2>1, <2>2
<1>10. B \cup {x} \in SUBSET Addr
  BY <1>2 DEF BlocksOK
<1> QED BY <1>2, <1>3, <1>6, <1>7, <1>8, <1>9, <1>10 DEF BlocksOK
\* A free block and the end block after it are laid out where there is no block.
LEMMA LaidBlocks ==
  ASSUME NEW m, NEW B, NEW E, BlocksOK(m, B, E), NEW n \in [Addr -> Word],
         NEW x \in Nat, NEW e \in Nat, x + 4 <= e, e + 1 <= MemWords,
         \A b \in B : getBlockAfter(m, b) <= x \/ e < b,
         \A c \in B : n[c] = m[c],
         n[x] = Header(0, 1, e - x), n[e] = Header(1, 0, HeaderWords)
  PROVE  /\ BlocksOK(n, B \cup {x, e}, E \cup {e})
         /\ Free(n, B \cup {x, e}) = Free(m, B) \cup {x}
         /\ x \notin B /\ e \notin B /\ getBlockAfter(n, x) = e /\ getBlockAfter(n, e) = e + 1
<1> DEFINE C == B \cup {x, e}
           D == E \cup {e}
<1>1. \A b \in B : /\ b \in Nat /\ getBlockAfter(m, b) \in Nat /\ b < getBlockAfter(m, b)
                   /\ b # x /\ b # e
                   /\ b < x => getBlockAfter(m, b) <= x
                   /\ x < b => e < b
  <2> SUFFICES ASSUME NEW b \in B
               PROVE  /\ b \in Nat /\ getBlockAfter(m, b) \in Nat /\ b < getBlockAfter(m, b)
                      /\ b # x /\ b # e
                      /\ b < x => getBlockAfter(m, b) <= x
                      /\ x < b => e < b
    OBVIOUS
  <2>1. b \in Nat /\ getBlockAfter(m, b) \in Nat /\ b < getBlockAfter(m, b)
    BY BlockFacts
  <2>2. getBlockAfter(m, b) <= x \/ e < b
    OBVIOUS
  <2> QED BY <2>1, <2>2
<1>2. \A c \in B : /\ BlockSize(n, c) = BlockSize(m, c)
                   /\ getBlockAfter(n, c) = getBlockAfter(m, c)
                   /\ ThisAllocated(n, c) <=> ThisAllocated(m, c)
                   /\ PrevAllocated(n, c) <=> PrevAllocated(m, c)
  BY DEF BlockSize, getBlockAfter, ThisAllocated, PrevAllocated
<1>3. /\ BlockSize(n, x) = e - x /\ ~ThisAllocated(n, x) /\ PrevAllocated(n, x)
      /\ BlockSize(n, e) = 1 /\ ThisAllocated(n, e) /\ ~PrevAllocated(n, e)
      /\ getBlockAfter(n, x) = e /\ getBlockAfter(n, e) = e + 1
  BY DEF BlockSize, getBlockAfter, ThisAllocated, PrevAllocated, Header, HeaderWords
<1>4. E \subseteq B
  BY DEF BlocksOK, Tiled
<1>5. Free(n, C) = Free(m, B) \cup {x}
  BY <1>1, <1>2, <1>3 DEF Free
<1>6. Tiled(n, C, D)
  <2>1. \A c \in C :
          /\ BlockSize(n, c) >= HeaderWords
          /\ c + BlockSize(n, c) <= MemWords
          /\ ~ThisAllocated(n, c) => BlockSize(n, c) >= MinBlockSize
    <3>1. \A c \in B :
            /\ BlockSize(n, c) >= HeaderWords
            /\ c + BlockSize(n, c) <= MemWords
            /\ ~ThisAllocated(n, c) => BlockSize(n, c) >= MinBlockSize
      BY <1>2 DEF BlocksOK, Tiled
    <3>2. MemWords \in Nat
      BY SizeAssumption
    <3> QED BY <1>3, <3>1, <3>2 DEF HeaderWords, MinBlockSize, FreeHeaderWords
  <2>2. \A c \in C \ D : getBlockAfter(n, c) \in C
    BY <1>2, <1>3, BlockFacts
  <2>3. \A d \in D : d \in C /\ ThisAllocated(n, d) /\ BlockSize(n, d) = HeaderWords
    BY <1>2, <1>3, <1>4 DEF BlocksOK, Tiled, HeaderWords
  <2>4. ASSUME NEW c \in C, NEW d \in C, c < d
        PROVE  getBlockAfter(n, c) <= d
    <3>1. CASE c \in B /\ d \in B
      BY <1>2, <2>4, <3>1 DEF BlocksOK, Tiled
    <3>2. CASE c \in B /\ d = x
      BY <1>1, <1>2, <2>4, <3>2
    <3>3. CASE c \in B /\ d = e
      <4>1. c \in Nat /\ c < e /\ (getBlockAfter(m, c) <= x \/ e < c) /\ getBlockAfter(m, c) \in Nat
        BY <1>1, <2>4, <3>3
      <4>2. getBlockAfter(m, c) <= e
        BY <4>1
      <4> QED BY <1>2, <3>3, <4>2
    <3>4. CASE c = x /\ d = e
      BY <1>3, <3>4
    <3>5. CASE c = x /\ d \in B
      BY <1>1, <1>3, <2>4, <3>5
    <3>6. CASE c = e /\ d \in B
      BY <1>1, <1>3, <2>4, <3>6
    <3>7. ~(c = e /\ d = x) /\ ~(c = d)
      BY <1>1, <2>4
    <3> QED BY <3>1, <3>2, <3>3, <3>4, <3>5, <3>6, <3>7
  <2> QED BY <2>1, <2>2, <2>3, <2>4 DEF Tiled
<1>7. FlagsAgree(n, C, D)
  <2>1. ASSUME NEW c \in C \ D
        PROVE  PrevAllocated(n, getBlockAfter(n, c)) <=> ThisAllocated(n, c)
    <3>1. CASE c = x
      BY <1>3, <3>1
    <3>2. CASE c # x
      <4>1. c \in B \ E /\ getBlockAfter(m, c) \in B
        BY <2>1, <3>2, BlockFacts
      <4>2. PrevAllocated(m, getBlockAfter(m, c)) <=> ThisAllocated(m, c)
        BY <4>1 DEF BlocksOK, FlagsAgree
      <4> QED BY <1>2, <4>1, <4>2
    <3> QED BY <3>1, <3>2
  <2>2. ASSUME NEW c \in C, ~PrevAllocated(n, c)
        PROVE  \E d \in Free(n, C) : getBlockAfter(n, d) = c
    <3>1. CASE c = e
      BY <1>3, <1>5, <3>1
    <3>2. CASE c # e
      <4>1. c \in B /\ ~PrevAllocated(m, c)
        BY <1>2, <1>3, <2>2, <3>2
      <4>2. PICK d \in Free(m, B) : getBlockAfter(m, d) = c
        BY <4>1 DEF BlocksOK, FlagsAgree
      <4> QED BY <1>2, <1>5, <4>2 DEF Free
    <3> QED BY <3>1, <3>2
  <2> QED BY <2>1, <2>2 DEF FlagsAgree
<1>8. Coalesced(n, C)
  <2> SUFFICES ASSUME NEW c \in Free(m, B) \cup {x}
               PROVE  ThisAllocated(n, getBlockAfter(n, c))
    BY <1>5 DEF Coalesced
  <2>1. CASE c = x
    BY <1>3, <2>1
  <2>2. CASE c # x
    <3>1. c \in B /\ getBlockAfter(m, c) \in B
      BY <2>2, BlockFacts DEF Free
    <3>2. ThisAllocated(m, getBlockAfter(m, c))
      BY <2>2 DEF BlocksOK, Coalesced
    <3> QED BY <1>2, <3>1, <3>2
  <2> QED BY <2>1, <2>2
<1>9. C \in SUBSET Addr
  <2>1. x \in Addr /\ e \in Addr
    BY SizeAssumption DEF Addr
  <2> QED BY <2>1 DEF BlocksOK
<1> QED BY <1>1, <1>3, <1>5, <1>6, <1>7, <1>8, <1>9 DEF BlocksOK

-----------------------------------------------------------------------------
(* The operations                                                          *)

\* Nothing is written into the allocated blocks B.
Undisturbed(m, n, B) ==
  \A c \in B : ThisAllocated(m, c) =>
    \A a \in Int : c < a /\ a < getBlockAfter(m, c) => n[a] = m[a]

\* The end marker of a free block is no other word that matters.
LEMMA MarkerWritten ==
  ASSUME NEW m \in [Addr -> Word], NEW B, NEW X, Roomy(m, B, X), NEW x \in X,
         BlockSize(m, x) \in Nat, NEW n, n = SetEndOfBlockSizeMarker(m, x)
  PROVE  /\ n \in [Addr -> Word]
         /\ n[getBlockAfter(m, x) - 1].val = BlockSize(m, x)
         /\ \A a \in Addr : a # getBlockAfter(m, x) - 1 => n[a] = m[a]
<1> DEFINE e == getBlockAfter(m, x) - 1
<1>1. e \in Addr
  BY DEF Roomy
<1>2. n = [m EXCEPT ![e] = Number(BlockSize(m, x))]
  BY DEF SetEndOfBlockSizeMarker
<1>3. n \in [Addr -> Word]
  BY <1>2, NumberIsWord
<1> QED BY <1>1, <1>2, <1>3 DEF Number
\* A free block that is not in the list yet joins it.
LEMMA JoinsList ==
  ASSUME NEW m, NEW B, NEW E, BlocksOK(m, B, E), NEW F, NEW x, x \notin F,
         Free(m, B) = F \cup {x}, Linked(m, F), OneRing(m, F),
         NEW h \in F, NEW n, n = AddToFreeList(m, x, h)
  PROVE  /\ n \in [Addr -> Word] /\ BlocksOK(n, B, E) /\ Free(n, B) = Free(m, B)
         /\ \A c \in B : n[c] = m[c]
         /\ Linked(n, Free(m, B)) /\ OneRing(n, Free(m, B))
         /\ \A c \in Free(m, B) : n[getBlockAfter(m, c) - 1] = m[getBlockAfter(m, c) - 1]
         /\ Undisturbed(m, n, B)
<1>1. Roomy(m, B, Free(m, B)) /\ Spaced(Free(m, B)) /\ Free(m, B) \in SUBSET B
  BY RoomOfFree
<1>2. m \in [Addr -> Word]
  BY DEF BlocksOK
<1>3. /\ n \in [Addr -> Word] /\ Linked(n, Free(m, B)) /\ OneRing(n, Free(m, B))
      /\ \A a \in Addr : (\A c \in Free(m, B) : a # c + 1 /\ a # c + 2) => n[a] = m[a]
  BY <1>1, <1>2, Added
<1>4. \A c \in B : n[c] = m[c]
  BY <1>1, <1>3 DEF Roomy, BlocksOK
<1>5. /\ BlocksOK(n, B, E) /\ Free(n, B) = Free(m, B)
      /\ \A b \in B : BlockSize(n, b) = BlockSize(m, b) /\ getBlockAfter(n, b) = getBlockAfter(m, b)
  BY <1>3, <1>4, SameHeaders
<1>6. \A c \in Free(m, B) : n[getBlockAfter(m, c) - 1] = m[getBlockAfter(m, c) - 1]
  BY <1>1, <1>3 DEF Roomy
<1>7. Undisturbed(m, n, B)
  <2> SUFFICES ASSUME NEW c \in B, ThisAllocated(m, c), NEW a \in Int, c < a, a < getBlockAfter(m, c)
               PROVE  n[a] = m[a]
    BY DEF Undisturbed
  <2>1. a \in Addr
    BY BlockFacts, SizeAssumption DEF Addr
  <2>2. \A d \in Free(m, B) : a # d + 1 /\ a # d + 2
    <3> SUFFICES ASSUME NEW d \in Free(m, B) PROVE a # d + 1 /\ a # d + 2
      OBVIOUS
    <3>1. d # c
      BY DEF Free
    <3> QED BY <1>1, <3>1 DEF Roomy
  <2> QED BY <1>3, <2>1, <2>2
<1> QED BY <1>3, <1>4, <1>5, <1>6, <1>7

\* The last free block without an end marker gets one.
LEMMA GetsMarker ==
  ASSUME NEW m, NEW B, NEW E, BlocksOK(m, B, E), NEW x \in Free(m, B),
         Linked(m, Free(m, B)), OneRing(m, Free(m, B)), Marked(m, Free(m, B) \ {x}),
         NEW n, n = SetEndOfBlockSizeMarker(m, x)
  PROVE  /\ HeapOK(n, B, E) /\ Free(n, B) = Free(m, B) /\ \A c \in B : n[c] = m[c]
         /\ Undisturbed(m, n, B)
<1> DEFINE e == getBlockAfter(m, x) - 1
<1>1. Roomy(m, B, Free(m, B)) /\ Free(m, B) \in SUBSET B
  BY RoomOfFree
<1>2. m \in [Addr -> Word] /\ BlockSize(m, x) \in Nat
  BY <1>1, BlockFacts DEF BlocksOK
<1>3. /\ n \in [Addr -> Word] /\ n[e].val = BlockSize(m, x) /\ e \in Addr
      /\ \A a \in Addr : a # e => n[a] = m[a]
  BY <1>1, <1>2, MarkerWritten DEF Roomy
<1>4. \A c \in B : n[c] = m[c]
  BY <1>1, <1>3 DEF Roomy, BlocksOK
<1>5. /\ BlocksOK(n, B, E) /\ Free(n, B) = Free(m, B)
      /\ \A b \in B : BlockSize(n, b) = BlockSize(m, b) /\ getBlockAfter(n, b) = getBlockAfter(m, b)
  BY <1>3, <1>4, SameHeaders
<1>6. Linked(n, Free(m, B)) /\ OneRing(n, Free(m, B))
  <2>1. \A b \in Free(m, B) : NextFree(n, b) = NextFree(m, b) /\ PrevFree(n, b) = PrevFree(m, b)
    BY <1>1, <1>3 DEF Roomy, NextFree, PrevFree
  <2> QED BY <2>1, SameLinks
<1>7. Marked(n, Free(m, B))
  <2> SUFFICES ASSUME NEW c \in Free(m, B)
               PROVE  n[getBlockAfter(n, c) - 1].val = BlockSize(n, c)
    BY DEF Marked
  <2>1. c \in B /\ getBlockAfter(m, c) - 1 \in Addr /\ (c # x => getBlockAfter(m, c) - 1 # e)
    BY <1>1 DEF Roomy
  <2>2. n[getBlockAfter(m, c) - 1].val = BlockSize(m, c)
    BY <1>3, <2>1 DEF Marked
  <2> QED BY <1>5, <2>1, <2>2
<1>8. Undisturbed(m, n, B)
  <2> SUFFICES ASSUME NEW c \in B, ThisAllocated(m, c), NEW a \in Int, c < a, a < getBlockAfter(m, c)
               PROVE  n[a] = m[a]
    BY DEF Undisturbed
  <2>1. a \in Addr
    BY BlockFacts, SizeAssumption DEF Addr
  <2>2. a # e
    <3>1. x # c
      BY DEF Free
    <3> QED BY <1>1, <3>1 DEF Roomy
  <2> QED BY <1>3, <2>1, <2>2
<1> QED BY <1>4, <1>5, <1>6, <1>7, <1>8 DEF HeapOK

\* Writing headers disturbs no links, markers and contents.
LEMMA HeadersWritten ==
  ASSUME NEW m, NEW B, NEW E, BlocksOK(m, B, E), NEW n \in [Addr -> Word],
         \A a \in Addr : a \notin B => n[a] = m[a]
  PROVE  /\ \A F \in SUBSET Free(m, B) : Linked(m, F) => Linked(n, F)
         /\ \A F \in SUBSET Free(m, B) : Linked(m, F) /\ OneRing(m, F) => OneRing(n, F)
         /\ \A b \in Free(m, B) : NextFree(n, b) = NextFree(m, b) /\ PrevFree(n, b) = PrevFree(m, b)
         /\ \A b \in Free(m, B) : n[getBlockAfter(m, b) - 1] = m[getBlockAfter(m, b) - 1]
         /\ Undisturbed(m, n, B)
<1>1. Roomy(m, B, Free(m, B)) /\ Free(m, B) \in SUBSET B
  BY RoomOfFree
<1>2. \A b \in Free(m, B) : NextFree(n, b) = NextFree(m, b) /\ PrevFree(n, b) = PrevFree(m, b)
  BY <1>1 DEF Roomy, NextFree, PrevFree
<1>3. \A F \in SUBSET Free(m, B) : Linked(m, F) => Linked(n, F)
  BY <1>2 DEF Linked
<1>4. \A F \in SUBSET Free(m, B) : Linked(m, F) /\ OneRing(m, F) => OneRing(n, F)
  BY <1>2, SameLinks
<1>5. \A b \in Free(m, B) : n[getBlockAfter(m, b) - 1] = m[getBlockAfter(m, b) - 1]
  BY <1>1 DEF Roomy
<1>6. Undisturbed(m, n, B)
  <2> SUFFICES ASSUME NEW c \in B, ThisAllocated(m, c), NEW a \in Int, c < a, a < getBlockAfter(m, c)
               PROVE  n[a] = m[a]
    BY DEF Undisturbed
  <2>1. a \in Addr /\ a \notin B
    BY BlockFacts, Inside, SizeAssumption DEF Addr
  <2> QED BY <2>1
<1> QED BY <1>2, <1>3, <1>4, <1>5, <1>6
\* What an operation that leaves the memory n does to the allocated blocks of
\* m, except for those in X: it keeps them, their sizes and their contents.
Spares(m, B, n, C, X) ==
  \A c \in B \ X : ThisAllocated(m, c) =>
    /\ c \in C /\ ThisAllocated(n, c) /\ BlockSize(n, c) = BlockSize(m, c)
    /\ \A a \in Int : c < a /\ a < getBlockAfter(m, c) => n[a] = m[a]

\* A heap whose free blocks are F.
HeapWith(m, B, E, F) == HeapOK(m, B, E) /\ Free(m, B) = F

\* What MarkFree leaves.
AfterMarkFree(m, B, E, b, n) ==
  /\ HeapWith(n, B, E, Free(m, B) \cup {b})
  /\ \A c \in B : BlockSize(n, c) = BlockSize(m, c)
  /\ Spares(m, B, n, B, {b})

\* MarkFree: an allocated block between allocated ones joins the list.
LEMMA MarkFreeOK ==
  ASSUME NEW m, NEW B, NEW E, HeapOK(m, B, E), NEW b \in B \ E, NEW h \in Free(m, B),
         ThisAllocated(m, b), PrevAllocated(m, b), ThisAllocated(m, getBlockAfter(m, b)),
         BlockSize(m, b) >= 4, NEW n, n = MarkFree(m, b, h)
  PROVE  AfterMarkFree(m, B, E, b, n)
<1> DEFINE y  == getBlockAfter(m, b)
           m1 == SetPrevAllocated(m, y, 0)
           hd == SetThisAllocated(m1, b, 0)
           m2 == AddToFreeList(hd, b, h)
           F  == Free(m, B)
<1>1. /\ BlocksOK(m, B, E) /\ Marked(m, F) /\ Linked(m, F) /\ OneRing(m, F)
      /\ m \in [Addr -> Word] /\ B \in SUBSET Addr
  BY DEF HeapOK, BlocksOK
<1>2. y \in B /\ y # b /\ y \in Addr /\ b \in Addr /\ b \notin F
  BY <1>1, BlockFacts DEF Free
<1>3. /\ hd \in [Addr -> Word]
      /\ \A a \in Addr : hd[a] = IF a = b THEN Header(0, m[b].prev, m[b].val)
                                 ELSE IF a = y THEN Header(m[y].this, 0, m[y].val) ELSE m[a]
  <2>1. m1 \in [Addr -> Word]
    BY <1>1, <1>2, WritesAreWords
  <2>2. hd \in [Addr -> Word]
    BY <1>2, <2>1, WritesAreWords
  <2>3. \A a \in Addr : m1[a] = IF a = y THEN Header(m[y].this, 0, m[y].val) ELSE m[a]
    BY <1>1, <1>2 DEF SetPrevAllocated
  <2> QED BY <1>2, <2>1, <2>2, <2>3 DEF SetThisAllocated
<1>4. \A c \in B : /\ BlockSize(hd, c) = BlockSize(m, c)
                   /\ ThisAllocated(hd, c) <=> ThisAllocated(m, c) /\ c # b
                   /\ PrevAllocated(hd, c) <=> PrevAllocated(m, c) /\ c # y
  BY <1>1, <1>2, <1>3 DEF BlockSize, ThisAllocated, PrevAllocated, Header
<1>5. BlocksOK(hd, B, E) /\ Free(hd, B) = F \cup {b}
  <2> HIDE DEF hd, F
  <2> QED BY <1>1, <1>3, <1>4, FreedBlocks DEF F
<1>6. /\ Linked(hd, F) /\ OneRing(hd, F)
      /\ \A c \in F : hd[getBlockAfter(m, c) - 1] = m[getBlockAfter(m, c) - 1]
      /\ Undisturbed(m, hd, B)
  <2> HIDE DEF hd
  <2>1. \A a \in Addr : a \notin B => hd[a] = m[a]
    BY <1>2, <1>3
  <2> QED BY <1>1, <1>3, <2>1, HeadersWritten
<1>7. \A c \in B : getBlockAfter(hd, c) = getBlockAfter(m, c)
  BY <1>4 DEF getBlockAfter
<1>8. Marked(hd, F)
  BY <1>1, <1>4, <1>6, <1>7 DEF Marked, Free
<1>9. /\ m2 \in [Addr -> Word] /\ BlocksOK(m2, B, E) /\ Free(m2, B) = F \cup {b}
      /\ \A c \in B : m2[c] = hd[c]
      /\ Linked(m2, F \cup {b}) /\ OneRing(m2, F \cup {b}) /\ Marked(m2, F)
      /\ Undisturbed(hd, m2, B)
  <2> HIDE DEF hd, m2, F
  <2>1. m2 = AddToFreeList(hd, b, h)
    BY DEF m2
  <2>2. h \in F
    BY DEF F
  <2>4. /\ m2 \in [Addr -> Word] /\ BlocksOK(m2, B, E) /\ Free(m2, B) = Free(hd, B)
        /\ \A c \in B : m2[c] = hd[c]
        /\ Linked(m2, Free(hd, B)) /\ OneRing(m2, Free(hd, B))
        /\ \A c \in Free(hd, B) : m2[getBlockAfter(hd, c) - 1] = hd[getBlockAfter(hd, c) - 1]
        /\ Undisturbed(hd, m2, B)
    <3>1. /\ BlocksOK(hd, B, E) /\ b \notin F /\ Free(hd, B) = F \cup {b} /\ Linked(hd, F)
          /\ OneRing(hd, F) /\ h \in F
          /\ m2 = AddToFreeList(hd, b, h)
      BY <1>2, <1>5, <1>6, <2>1, <2>2
    <3>2. m2 \in [Addr -> Word] /\ BlocksOK(m2, B, E) /\ Free(m2, B) = Free(hd, B)
      BY ONLY <3>1, JoinsList
    <3>3. \A c \in B : m2[c] = hd[c]
      BY ONLY <3>1, JoinsList
    <3>4. Linked(m2, Free(hd, B)) /\ OneRing(m2, Free(hd, B))
      BY ONLY <3>1, JoinsList
    <3>5. \A c \in Free(hd, B) : m2[getBlockAfter(hd, c) - 1] = hd[getBlockAfter(hd, c) - 1]
      BY ONLY <3>1, JoinsList
    <3>6. Undisturbed(hd, m2, B)
      BY ONLY <3>1, JoinsList
    <3> QED BY <3>2, <3>3, <3>4, <3>5, <3>6
  <2>5. \A c \in B : BlockSize(m2, c) = BlockSize(hd, c) /\ getBlockAfter(m2, c) = getBlockAfter(hd, c)
    BY <2>4 DEF BlockSize, getBlockAfter
  <2>6. Marked(m2, F)
    <3>1. F \subseteq B
      BY DEF F, Free
    <3> QED BY <1>5, <1>8, <2>4, <2>5, <3>1 DEF Marked
  <2> QED BY <1>5, <2>4, <2>6
<1>10. /\ HeapOK(n, B, E) /\ Free(n, B) = F \cup {b} /\ \A c \in B : n[c] = m2[c]
       /\ Undisturbed(m2, n, B)
  <2>1. n = SetEndOfBlockSizeMarker(m2, b)
    BY DEF MarkFree
  <2> HIDE DEF hd, m2, F
  <2>2. (F \cup {b}) \ {b} = F
    BY <1>2
  <2>3. b \in Free(m2, B) /\ Marked(m2, Free(m2, B) \ {b})
    BY <1>9, <2>2
  <2>4. /\ BlocksOK(m2, B, E) /\ b \in Free(m2, B) /\ Free(m2, B) = F \cup {b}
        /\ Linked(m2, Free(m2, B)) /\ OneRing(m2, Free(m2, B)) /\ Marked(m2, Free(m2, B) \ {b})
        /\ n = SetEndOfBlockSizeMarker(m2, b)
    BY <1>9, <2>1, <2>3
  <2>5. /\ HeapOK(n, B, E) /\ Free(n, B) = Free(m2, B) /\ \A c \in B : n[c] = m2[c]
        /\ Undisturbed(m2, n, B)
    BY ONLY <2>4, GetsMarker
  <2> QED BY <2>4, <2>5
<1>11. \A c \in B : n[c] = hd[c]
  BY <1>9, <1>10
<1>12. \A c \in B : /\ BlockSize(n, c) = BlockSize(m, c)
                    /\ ThisAllocated(n, c) <=> ThisAllocated(m, c) /\ c # b
  <2> HIDE DEF hd
  <2> QED BY <1>4, <1>11 DEF BlockSize, ThisAllocated
<1>13. Spares(m, B, n, B, {b})
  <2> HIDE DEF hd, m2
  <2> SUFFICES ASSUME NEW c \in B, c # b, ThisAllocated(m, c), NEW a \in Int,
                      c < a, a < getBlockAfter(m, c)
               PROVE  n[a] = m[a]
    BY <1>12 DEF Spares
  <2>1. ThisAllocated(hd, c) /\ ThisAllocated(m2, c)
    BY <1>4, <1>9 DEF ThisAllocated
  <2>2. getBlockAfter(hd, c) = getBlockAfter(m, c) /\ getBlockAfter(m2, c) = getBlockAfter(m, c)
    BY <1>7, <1>9 DEF getBlockAfter, BlockSize
  <2>3. hd[a] = m[a] /\ m2[a] = hd[a] /\ n[a] = m2[a]
    BY <1>6, <1>9, <1>10, <2>1, <2>2 DEF Undisturbed
  <2> QED BY <2>3
<1> QED BY <1>10, <1>12, <1>13 DEF HeapWith, AfterMarkFree

\* What Absorb leaves.
AfterAbsorb(m, B, E, b, f, n) ==
  /\ HeapWith(n, B \ {f}, E, Free(m, B) \ {f}) /\ f \in Free(m, B)
  /\ ThisAllocated(n, b) /\ ThisAllocated(n, getBlockAfter(n, b))
  /\ BlockSize(n, b) = BlockSize(m, b) + BlockSize(m, f)
  /\ PrevAllocated(n, b) <=> PrevAllocated(m, b)
  /\ \A c \in B \ {f} : c # b => BlockSize(n, c) = BlockSize(m, c)
  /\ Spares(m, B, n, B \ {f}, {b})

\* Absorb: the free block after b leaves the list and becomes part of b.
LEMMA AbsorbOK ==
  ASSUME NEW m, NEW B, NEW E, HeapOK(m, B, E), NEW b \in B \ E, NEW f, f = getBlockAfter(m, b),
         ThisAllocated(m, b), ~ThisAllocated(m, f), NEW n, n = Absorb(m, b)
  PROVE  AfterAbsorb(m, B, E, b, f, n)
<1> DEFINE z  == getBlockAfter(m, f)
           m1 == RemoveFromFreeList(m, f)
           k  == BlockSize(m, b) + BlockSize(m, f)
           m2 == SetBlockSize(m1, b, k)
           F  == Free(m, B)
           C  == B \ {f}
<1>1. /\ BlocksOK(m, B, E) /\ Marked(m, F) /\ Linked(m, F) /\ OneRing(m, F)
      /\ m \in [Addr -> Word] /\ B \in SUBSET Addr
  BY DEF HeapOK, BlocksOK
<1>2. /\ f \in B /\ f \in F /\ f # b /\ f \in Nat /\ z \in B /\ z # f /\ z # b
      /\ b \in Addr /\ z \in Addr /\ k \in Nat /\ b \in Nat
  <2>1. f \in B /\ f \in F /\ b \in Nat /\ f \in Nat /\ b < f
    BY <1>1, BlockFacts DEF Free
  <2>2. z \in B /\ z \in Nat /\ f < z
    BY <1>1, <2>1, BlockFacts DEF Free
  <2> QED BY <1>1, <2>1, <2>2, BlockFacts
<1>3. Roomy(m, B, F) /\ Spaced(F) /\ F \in SUBSET B
  BY <1>1, RoomOfFree
<1>4. /\ m1 \in [Addr -> Word] /\ Linked(m1, F \ {f}) /\ OneRing(m1, F \ {f})
      /\ \A a \in Addr : (\A c \in F : a # c + 1 /\ a # c + 2) => m1[a] = m[a]
  <2> HIDE DEF F, m1
  <2>1. m1 = RemoveFromFreeList(m, f)
    BY DEF m1
  <2>2. m \in [Addr -> Word] /\ Spaced(F) /\ Linked(m, F) /\ OneRing(m, F) /\ f \in F
    BY <1>1, <1>2, <1>3
  <2> QED BY ONLY <2>1, <2>2, Removed
<1>5. \A c \in B : m1[c] = m[c]
  BY <1>1, <1>3, <1>4 DEF Roomy
<1>6. n = SetPrevAllocated(m2, z, 1)
  BY DEF Absorb
<1>7. /\ n \in [Addr -> Word]
      /\ \A a \in Addr : n[a] = IF a = z THEN Header(m[z].this, 1, m[z].val)
                                ELSE IF a = b THEN Header(m[b].this, m[b].prev, k) ELSE m1[a]
  <2>0. m1[b] = m[b] /\ m1[z] = m[z]
    BY <1>2, <1>5
  <2> HIDE DEF m1, k, z
  <2>1. m2 \in [Addr -> Word]
    BY <1>2, <1>4, WritesAreWords
  <2>2. n \in [Addr -> Word]
    BY <1>2, <1>6, <2>1, WritesAreWords
  <2>3. \A a \in Addr : m2[a] = IF a = b THEN Header(m[b].this, m[b].prev, k) ELSE m1[a]
    BY <1>2, <1>4, <2>0 DEF SetBlockSize
  <2> HIDE DEF m2
  <2> QED BY <1>2, <1>6, <2>0, <2>1, <2>2, <2>3 DEF SetPrevAllocated
<1>8. \A c \in C : /\ BlockSize(n, c) = IF c = b THEN k ELSE BlockSize(m, c)
                   /\ ThisAllocated(n, c) <=> ThisAllocated(m, c)
                   /\ PrevAllocated(n, c) <=> PrevAllocated(m, c) \/ c = z
  <2> SUFFICES ASSUME NEW c \in C
               PROVE /\ BlockSize(n, c) = IF c = b THEN k ELSE BlockSize(m, c)
                     /\ ThisAllocated(n, c) <=> ThisAllocated(m, c)
                     /\ PrevAllocated(n, c) <=> PrevAllocated(m, c) \/ c = z
    OBVIOUS
  <2>1. c \in Addr /\ m1[c] = m[c]
    BY <1>1, <1>5
  <2> HIDE DEF m1, k, z
  <2> QED BY <1>2, <1>7, <2>1 DEF BlockSize, ThisAllocated, PrevAllocated, Header
<1>9. /\ BlocksOK(n, C, E) /\ Free(n, C) = F \ {f}
      /\ getBlockAfter(n, b) = z /\ ThisAllocated(n, z)
  <2> HIDE DEF F, z, C
  <2>1. z = getBlockAfter(m, f)
    BY DEF z
  <2> QED BY <1>1, <1>7, <1>8, <2>1, AbsorbedBlocks DEF F, C
<1>10. \A a \in Addr : a \notin B => n[a] = m1[a]
  BY <1>2, <1>7
<1>11. Linked(n, F \ {f}) /\ OneRing(n, F \ {f})
  <2>1. \A c \in F \ {f} : NextFree(n, c) = NextFree(m1, c) /\ PrevFree(n, c) = PrevFree(m1, c)
    BY <1>3, <1>10 DEF Roomy, NextFree, PrevFree
  <2> HIDE DEF F, m1
  <2> QED BY <1>4, <2>1, SameLinks
<1>12. \A c \in C : c # b => BlockSize(n, c) = BlockSize(m, c) /\ getBlockAfter(n, c) = getBlockAfter(m, c)
  BY <1>8 DEF getBlockAfter
<1>13. Marked(n, F \ {f})
  <2> SUFFICES ASSUME NEW c \in F, c # f
               PROVE  n[getBlockAfter(n, c) - 1].val = BlockSize(n, c)
    BY DEF Marked
  <2>1. c \in C /\ c # b
    BY <1>3 DEF Free
  <2> DEFINE e == getBlockAfter(m, c) - 1
  <2>2. e \in Addr /\ e \notin B /\ \A d \in F : e # d + 1 /\ e # d + 2
    BY <1>3 DEF Roomy
  <2>3. n[e] = m[e]
    BY <1>4, <1>10, <2>2
  <2>4. m[e].val = BlockSize(m, c)
    BY <1>1 DEF Marked
  <2> QED BY <1>12, <2>1, <2>3, <2>4
<1>14. Spares(m, B, n, C, {b})
  <2> SUFFICES ASSUME NEW c \in B, c # b, ThisAllocated(m, c)
               PROVE  /\ c \in C /\ ThisAllocated(n, c) /\ BlockSize(n, c) = BlockSize(m, c)
                      /\ \A a \in Int : c < a /\ a < getBlockAfter(m, c) => n[a] = m[a]
    BY DEF Spares
  <2>1. c \in C
    BY <1>2
  <2>2. ASSUME NEW a \in Int, c < a, a < getBlockAfter(m, c) PROVE n[a] = m[a]
    <3>1. a \in Addr
      <4>1. c \in Nat /\ getBlockAfter(m, c) \in Nat /\ getBlockAfter(m, c) <= MemWords
        BY <1>1, BlockFacts
      <4> QED BY <2>2, <4>1, SizeAssumption DEF Addr
    <3>2. a \notin B
      BY <1>1, <2>2, Inside
    <3>3. \A d \in F : a # d + 1 /\ a # d + 2
      <4> SUFFICES ASSUME NEW d \in F PROVE a # d + 1 /\ a # d + 2
        OBVIOUS
      <4>1. d # c
        BY DEF Free
      <4> QED BY <1>3, <2>2, <4>1 DEF Roomy
    <3> QED BY <1>4, <1>10, <3>1, <3>2, <3>3
  <2> QED BY <1>8, <2>1, <2>2
<1>15. /\ ThisAllocated(n, b) /\ ThisAllocated(n, getBlockAfter(n, b))
       /\ BlockSize(n, b) = k /\ (PrevAllocated(n, b) <=> PrevAllocated(m, b))
  BY <1>2, <1>8, <1>9
<1> QED BY <1>2, <1>9, <1>11, <1>12, <1>13, <1>14, <1>15 DEF HeapOK, HeapWith, AfterAbsorb
\* Writing the flag about the block before leaves words.
LEMMA FlagIsWord ==
  ASSUME NEW m \in [Addr -> Word], NEW b \in Addr
  PROVE  SetPrevAllocated(m, b, 0) \in [Addr -> Word]
<1>1. m[b] \in Word
  OBVIOUS
<1>2. Header(m[b].this, 0, m[b].val) \in Word
  BY <1>1 DEF Header, Word
<1> QED BY <1>2 DEF SetPrevAllocated

\* What GrowBlock leaves.
AfterGrowBlock(m, B, E, p, b, n) ==
  /\ HeapWith(n, B \ {b}, E, Free(m, B))
  /\ \A c \in B \ {b} : c # p => BlockSize(n, c) = BlockSize(m, c)
  /\ Spares(m, B, n, B \ {b}, {b})

\* GrowBlock: a free block takes in the allocated block b after it.
LEMMA GrowBlockOK ==
  ASSUME NEW m, NEW B, NEW E, HeapOK(m, B, E), NEW p \in Free(m, B),
         NEW b, b = getBlockAfter(m, p), b \notin E, ThisAllocated(m, getBlockAfter(m, b)),
         NEW n, n = GrowBlock(m, p, BlockSize(m, p) + BlockSize(m, b))
  PROVE  AfterGrowBlock(m, B, E, p, b, n)
<1> DEFINE y == getBlockAfter(m, b)
           k == BlockSize(m, p) + BlockSize(m, b)
           m1 == SetBlockSize(m, p, k)
           m2 == SetEndOfBlockSizeMarker(m1, p)
           F == Free(m, B)
           C == B \ {b}
<1>1. /\ BlocksOK(m, B, E) /\ Marked(m, F) /\ Linked(m, F) /\ OneRing(m, F)
      /\ m \in [Addr -> Word] /\ B \in SUBSET Addr
  BY DEF HeapOK, BlocksOK
<1>2. /\ p \in B /\ b \in B /\ b # p /\ ThisAllocated(m, b) /\ ~ThisAllocated(m, p)
      /\ p \in Nat /\ b \in Nat /\ b = p + BlockSize(m, p)
  BY <1>1, BlockFacts DEF Free, BlocksOK, Coalesced
<1>3. /\ y \in B /\ y # b /\ y # p /\ y \in Nat /\ b <= y - 1 /\ p < b /\ y = p + k /\ k \in Nat
      /\ y \in Addr /\ y - 1 \in Addr /\ y - 1 \in Int /\ p \in Addr
      /\ y - 1 # p
  <2>1. /\ y \in B /\ y \in Nat /\ y = b + BlockSize(m, b) /\ BlockSize(m, b) \in Nat
        /\ BlockSize(m, p) \in Nat /\ BlockSize(m, b) >= 1 /\ BlockSize(m, p) >= 1
    BY <1>1, <1>2, BlockFacts
  <2> QED BY <1>1, <1>2, <2>1, SizeAssumption DEF Addr
<1>4. /\ n \in [Addr -> Word]
      /\ \A a \in Addr : n[a] = IF a = y THEN Header(m[y].this, 0, m[y].val)
                                ELSE IF a = y - 1 THEN Number(k)
                                ELSE IF a = p THEN Header(m[p].this, m[p].prev, k) ELSE m[a]
  <2> HIDE DEF y, k
  <2>1. /\ m1 \in [Addr -> Word]
        /\ \A a \in Addr : m1[a] = IF a = p THEN Header(m[p].this, m[p].prev, k) ELSE m[a]
    BY <1>1, <1>3, WritesAreWords DEF SetBlockSize
  <2>2. getBlockAfter(m1, p) = y /\ BlockSize(m1, p) = k
    BY <1>3, <2>1 DEF getBlockAfter, BlockSize, Header
  <2> HIDE DEF m1
  <2>3. m2 = [m1 EXCEPT ![y - 1] = Number(k)]
    BY <2>2 DEF SetEndOfBlockSizeMarker
  <2>4. m2 \in [Addr -> Word]
    BY <1>3, <2>1, <2>3, NumberIsWord
  <2>5. \A a \in Addr : m2[a] = IF a = y - 1 THEN Number(k) ELSE m1[a]
    BY <1>3, <2>1, <2>3
  <2> HIDE DEF m2
  <2>6. getBlockAfter(m2, p) = y
    BY <1>3, <2>2, <2>5 DEF getBlockAfter, BlockSize
  <2>7. n = SetPrevAllocated(m2, y, 0)
    BY <2>6 DEF GrowBlock, k, m1, m2
  <2>8. n \in [Addr -> Word]
    BY <1>3, <2>4, <2>7, FlagIsWord
  <2>9. m2[y] = m[y]
    BY <1>3, <2>1, <2>5
  <2>10. \A a \in Addr : n[a] = IF a = y THEN Header(m[y].this, 0, m[y].val) ELSE m2[a]
    BY <1>3, <2>4, <2>7, <2>9 DEF SetPrevAllocated
  <2> QED BY <2>1, <2>5, <2>8, <2>10
<1>5. Roomy(m, B, F) /\ F \in SUBSET B /\ b \notin F
  BY <1>1, <1>2, RoomOfFree DEF Free
<1>6. \A c \in B : c # b => \A a \in Int : c <= a /\ a < getBlockAfter(m, c) => a # y - 1
  <2> SUFFICES ASSUME NEW c \in B, c # b, NEW a \in Int, c <= a, a < getBlockAfter(m, c), a = y - 1
               PROVE  FALSE
    OBVIOUS
  <2>1. b <= a /\ a < getBlockAfter(m, b)
    BY <1>3
  <2> QED BY <1>1, <1>2, <2>1, OneBlock
<1>7. \A c \in C : c # y - 1 /\ c \in Addr
  <2> SUFFICES ASSUME NEW c \in C PROVE c # y - 1 /\ c \in Addr
    OBVIOUS
  <2>1. c \in Int /\ c <= c /\ c < getBlockAfter(m, c)
    BY <1>1, BlockFacts
  <2> QED BY <1>1, <1>6, <2>1
<1>8. \A c \in C : /\ BlockSize(n, c) = IF c = p THEN k ELSE BlockSize(m, c)
                   /\ ThisAllocated(n, c) <=> ThisAllocated(m, c)
                   /\ PrevAllocated(n, c) <=> PrevAllocated(m, c) /\ c # y
  <2> SUFFICES ASSUME NEW c \in C
               PROVE /\ BlockSize(n, c) = IF c = p THEN k ELSE BlockSize(m, c)
                     /\ ThisAllocated(n, c) <=> ThisAllocated(m, c)
                     /\ PrevAllocated(n, c) <=> PrevAllocated(m, c) /\ c # y
    OBVIOUS
  <2>1. n[c] = IF c = y THEN Header(m[y].this, 0, m[y].val)
               ELSE IF c = p THEN Header(m[p].this, m[p].prev, k) ELSE m[c]
    BY <1>4, <1>7
  <2> HIDE DEF y, k
  <2> QED BY <1>3, <2>1 DEF BlockSize, ThisAllocated, PrevAllocated, Header
<1>9. BlocksOK(n, C, E) /\ Free(n, C) = F /\ getBlockAfter(n, p) = y
  <2> HIDE DEF y, C, F
  <2>1. y = getBlockAfter(m, b) /\ p \in Free(m, B) /\ ThisAllocated(m, y)
    BY DEF y
  <2> QED BY <1>1, <1>4, <1>8, <2>1, GrownBlocks DEF C, F
<1>10. \A a \in Addr : a \notin B /\ a # y - 1 => n[a] = m[a]
  BY <1>2, <1>3, <1>4
<1>11. \A c \in F : /\ c \in C /\ c \in B
                    /\ c + 1 \in Addr /\ c + 2 \in Addr /\ getBlockAfter(m, c) - 1 \in Addr
                    /\ c + 1 \notin B /\ c + 2 \notin B /\ getBlockAfter(m, c) - 1 \notin B
                    /\ c + 1 # y - 1 /\ c + 2 # y - 1 /\ getBlockAfter(m, c) - 1 # y - 1
  <2> SUFFICES ASSUME NEW c \in F
               PROVE  /\ c \in C /\ c \in B
                      /\ c + 1 \in Addr /\ c + 2 \in Addr /\ getBlockAfter(m, c) - 1 \in Addr
                      /\ c + 1 \notin B /\ c + 2 \notin B /\ getBlockAfter(m, c) - 1 \notin B
                      /\ c + 1 # y - 1 /\ c + 2 # y - 1 /\ getBlockAfter(m, c) - 1 # y - 1
    OBVIOUS
  <2>1. c \in C /\ c \in B /\ c # b /\ ~ThisAllocated(m, c)
    BY <1>5 DEF Free
  <2>2. /\ c + 1 \in Int /\ c <= c + 1 /\ c + 1 < getBlockAfter(m, c)
        /\ c + 2 \in Int /\ c <= c + 2 /\ c + 2 < getBlockAfter(m, c)
        /\ getBlockAfter(m, c) - 1 \in Int /\ c <= getBlockAfter(m, c) - 1
        /\ getBlockAfter(m, c) - 1 < getBlockAfter(m, c)
    BY <1>1, <2>1, BlockFacts
  <2>3. c + 1 # y - 1 /\ c + 2 # y - 1 /\ getBlockAfter(m, c) - 1 # y - 1
    BY <1>6, <2>1, <2>2
  <2> QED BY <1>5, <2>1, <2>3 DEF Roomy
<1>12. Linked(n, F) /\ OneRing(n, F)
  <2>1. \A c \in F : NextFree(n, c) = NextFree(m, c) /\ PrevFree(n, c) = PrevFree(m, c)
    BY <1>10, <1>11 DEF NextFree, PrevFree
  <2> QED BY <1>1, <2>1, SameLinks
<1>13. Marked(n, F)
  <2> SUFFICES ASSUME NEW c \in F
               PROVE  n[getBlockAfter(n, c) - 1].val = BlockSize(n, c)
    BY DEF Marked
  <2>1. CASE c = p
    <3>1. n[y - 1] = Number(k)
      BY <1>3, <1>4
    <3>2. p \in C
      BY <1>2
    <3> QED BY <1>8, <1>9, <2>1, <3>1, <3>2 DEF Number
  <2>2. CASE c # p
    <3>1. BlockSize(n, c) = BlockSize(m, c) /\ getBlockAfter(n, c) = getBlockAfter(m, c)
      BY <1>8, <1>11, <2>2 DEF getBlockAfter
    <3>2. n[getBlockAfter(m, c) - 1] = m[getBlockAfter(m, c) - 1]
      BY <1>10, <1>11
    <3> QED BY <1>1, <3>1, <3>2 DEF Marked
  <2> QED BY <2>1, <2>2
<1>14. \A c \in C : c # p => BlockSize(n, c) = BlockSize(m, c)
  BY <1>8
<1>15. Spares(m, B, n, C, {b})
  <2> SUFFICES ASSUME NEW c \in B, c # b, ThisAllocated(m, c)
               PROVE  /\ c \in C /\ ThisAllocated(n, c) /\ BlockSize(n, c) = BlockSize(m, c)
                      /\ \A a \in Int : c < a /\ a < getBlockAfter(m, c) => n[a] = m[a]
    BY DEF Spares
  <2>1. c # p
    BY <1>2
  <2>2. ASSUME NEW a \in Int, c < a, a < getBlockAfter(m, c) PROVE n[a] = m[a]
    <3>1. /\ a \in Addr /\ c <= a
      <4>1. c \in Nat /\ getBlockAfter(m, c) \in Nat /\ getBlockAfter(m, c) <= MemWords
        BY <1>1, BlockFacts
      <4> QED BY <2>2, <4>1, SizeAssumption DEF Addr
    <3>2. a \notin B
      BY <1>1, <2>2, Inside
    <3>3. a # y - 1
      BY <1>6, <2>2, <3>1
    <3> QED BY <1>10, <3>1, <3>2, <3>3
  <2> QED BY <1>8, <2>1, <2>2
<1> QED BY <1>9, <1>12, <1>13, <1>14, <1>15 DEF HeapOK, HeapWith, AfterGrowBlock

\* What Split leaves.
AfterSplit(m, B, E, b, k, x, n) ==
  /\ HeapWith(n, B \cup {x}, E, Free(m, B) \cup {x})
  /\ x \notin B /\ b < x /\ x < getBlockAfter(m, b)
  /\ \A c \in B : BlockSize(n, c) = IF c = b THEN k ELSE BlockSize(m, c)
  /\ ThisAllocated(n, b) /\ getBlockAfter(n, b) = x
  /\ Spares(m, B, n, B \cup {x}, {b})
  /\ \A a \in Int : b < a /\ a < x => n[a] = m[a]

\* Split: the tail of an allocated block, k words into it, becomes a free block.
LEMMA SplitOK ==
  ASSUME NEW m, NEW B, NEW E, HeapOK(m, B, E), NEW b \in B \ E, NEW h \in Free(m, B),
         NEW k \in Nat, k >= 4, BlockSize(m, b) > k + 4,
         ThisAllocated(m, b), ThisAllocated(m, getBlockAfter(m, b)), NEW x, x = b + k,
         NEW n, n = Split(m, b, k, h)
  PROVE  AfterSplit(m, B, E, b, k, x, n)
<1> DEFINE y == getBlockAfter(m, b)
           m0 == SetBlockSize(m, b, k)
           cut == [m0 EXCEPT ![x] = Header(0, 1, y - x)]
           m1 == SetEndOfBlockSizeMarker(cut, x)
           m2 == SetPrevAllocated(m1, y, 0)
           F == Free(m, B)
           C == B \cup {x}
<1>1. /\ BlocksOK(m, B, E) /\ Marked(m, F) /\ Linked(m, F) /\ OneRing(m, F)
      /\ m \in [Addr -> Word] /\ B \in SUBSET Addr
  BY DEF HeapOK, BlocksOK
<1>2. /\ y \in B /\ y \in Nat /\ b \in Nat /\ b < x /\ x \in Nat /\ y - x > 4 /\ x < y
      /\ y = b + BlockSize(m, b) /\ y - x \in Nat
      /\ x \in Addr /\ y \in Addr /\ b \in Addr /\ y - 1 \in Addr /\ y - 1 \in Int /\ x \in Int
      /\ b <= x /\ b <= y - 1 /\ y - 1 < y
  <2>1. y \in B /\ y \in Nat /\ b \in Nat /\ y = b + BlockSize(m, b) /\ BlockSize(m, b) \in Nat
    BY <1>1, BlockFacts
  <2> QED BY <1>1, <2>1, SizeAssumption DEF Addr
<1>3. /\ m2 \in [Addr -> Word]
      /\ \A a \in Addr : m2[a] = IF a = y THEN Header(m[y].this, 0, m[y].val)
                                 ELSE IF a = y - 1 THEN Number(y - x)
                                 ELSE IF a = x THEN Header(0, 1, y - x)
                                 ELSE IF a = b THEN Header(m[b].this, m[b].prev, k) ELSE m[a]
  <2> HIDE DEF y
  <2>1. /\ m0 \in [Addr -> Word]
        /\ \A a \in Addr : m0[a] = IF a = b THEN Header(m[b].this, m[b].prev, k) ELSE m[a]
    BY <1>1, <1>2, WritesAreWords DEF SetBlockSize
  <2> HIDE DEF m0
  <2>2. Header(0, 1, y - x) \in Word
    BY <1>2 DEF Header, Word
  <2>3. /\ cut \in [Addr -> Word]
        /\ \A a \in Addr : cut[a] = IF a = x THEN Header(0, 1, y - x) ELSE m0[a]
    BY <1>2, <2>1, <2>2
  <2> HIDE DEF cut
  <2>4. getBlockAfter(cut, x) = y /\ BlockSize(cut, x) = y - x
    BY <1>2, <2>3 DEF getBlockAfter, BlockSize, Header
  <2>5. m1 = [cut EXCEPT ![y - 1] = Number(y - x)]
    BY <2>4 DEF SetEndOfBlockSizeMarker
  <2>6. m1 \in [Addr -> Word]
    <3>1. y - x \in Nat /\ cut \in [Addr -> Word]
      BY <1>2, <2>3
    <3>2. \A j \in Nat : [cut EXCEPT ![y - 1] = Number(j)] \in [Addr -> Word]
      BY <3>1, NumberIsWord
    <3> QED BY <2>5, <3>1, <3>2
  <2>7. \A a \in Addr : m1[a] = IF a = y - 1 THEN Number(y - x) ELSE cut[a]
    BY <1>2, <2>3, <2>5
  <2>8. m1[y] = m[y]
    BY <1>2, <2>1, <2>3, <2>7
  <2> HIDE DEF m1
  <2>9. m2 \in [Addr -> Word]
    BY <1>2, <2>6, FlagIsWord
  <2>10. \A a \in Addr : m2[a] = IF a = y THEN Header(m[y].this, 0, m[y].val) ELSE m1[a]
    BY <1>2, <2>6, <2>8 DEF SetPrevAllocated
  <2> HIDE DEF m2
  <2> QED BY <2>1, <2>3, <2>7, <2>9, <2>10
<1>4. n = AddToFreeList(m2, x, h)
  BY DEF Split
<1> HIDE DEF m0, cut, m1, m2
<1>5. Roomy(m, B, F) /\ F \in SUBSET B /\ b \notin F
  BY <1>1, RoomOfFree DEF Free
<1>6. \A c \in B : c # b => \A a \in Int : c <= a /\ a < getBlockAfter(m, c) => a # y - 1 /\ a # x
  <2> SUFFICES ASSUME NEW c \in B, c # b, NEW a \in Int, c <= a, a < getBlockAfter(m, c),
                      a = y - 1 \/ a = x
               PROVE  FALSE
    OBVIOUS
  <2>1. b <= a /\ a < getBlockAfter(m, b)
    BY <1>2
  <2> QED BY <1>1, <2>1, OneBlock
<1>7. \A c \in B : c # y - 1 /\ c # x /\ c \in Addr
  <2> SUFFICES ASSUME NEW c \in B PROVE c # y - 1 /\ c # x /\ c \in Addr
    OBVIOUS
  <2>1. c \in Int /\ c <= c /\ c < getBlockAfter(m, c)
    BY <1>1, BlockFacts
  <2>2. b # y - 1 /\ b # x
    BY <1>2
  <2> QED BY <1>1, <1>6, <2>1, <2>2
<1>8. /\ \A c \in B : /\ BlockSize(m2, c) = IF c = b THEN k ELSE BlockSize(m, c)
                      /\ ThisAllocated(m2, c) <=> ThisAllocated(m, c)
                      /\ PrevAllocated(m2, c) <=> PrevAllocated(m, c) /\ c # y
      /\ BlockSize(m2, x) = y - x /\ ~ThisAllocated(m2, x) /\ PrevAllocated(m2, x)
  <2>1. \A c \in B : m2[c] = IF c = y THEN Header(m[y].this, 0, m[y].val)
                             ELSE IF c = b THEN Header(m[b].this, m[b].prev, k) ELSE m[c]
    BY <1>3, <1>7
  <2>2. m2[x] = Header(0, 1, y - x)
    BY <1>2, <1>3
  <2> HIDE DEF y
  <2> QED BY <1>2, <2>1, <2>2 DEF BlockSize, ThisAllocated, PrevAllocated, Header
<1>9. BlocksOK(m2, C, E) /\ Free(m2, C) = F \cup {x} /\ x \notin B /\ getBlockAfter(m2, x) = y
  <2>1. /\ BlocksOK(m, B, E) /\ m2 \in [Addr -> Word] /\ b \in B \ E /\ k \in Nat /\ k >= 4
        /\ BlockSize(m, b) > k + 4 /\ y = getBlockAfter(m, b) /\ x = b + k
        /\ ThisAllocated(m, b) /\ ThisAllocated(m, y)
    BY <1>1, <1>3
  <2>2. \A c \in B : /\ BlockSize(m2, c) = IF c = b THEN k ELSE BlockSize(m, c)
                     /\ ThisAllocated(m2, c) <=> ThisAllocated(m, c)
                     /\ PrevAllocated(m2, c) <=> PrevAllocated(m, c) /\ c # y
    BY <1>8
  <2>3. BlockSize(m2, x) = y - x /\ ~ThisAllocated(m2, x) /\ PrevAllocated(m2, x)
    BY <1>8
  <2> HIDE DEF y
  <2>4. BlocksOK(m2, B \cup {x}, E) /\ Free(m2, B \cup {x}) = Free(m, B) \cup {x}
    BY ONLY <2>1, <2>2, <2>3, CutBlocks
  <2>5. x \notin B /\ getBlockAfter(m2, x) = y
    BY <1>2, <1>7, <2>3 DEF getBlockAfter
  <2> QED BY <2>4, <2>5
<1>10. \A a \in Addr : a \notin B /\ a # y - 1 /\ a # x => m2[a] = m[a]
  BY <1>2, <1>3
<1>11. \A c \in F : /\ c \in B /\ c # b
                    /\ m2[c + 1] = m[c + 1] /\ m2[c + 2] = m[c + 2]
                    /\ m2[getBlockAfter(m, c) - 1] = m[getBlockAfter(m, c) - 1]
  <2> SUFFICES ASSUME NEW c \in F
               PROVE  /\ c \in B /\ c # b
                      /\ m2[c + 1] = m[c + 1] /\ m2[c + 2] = m[c + 2]
                      /\ m2[getBlockAfter(m, c) - 1] = m[getBlockAfter(m, c) - 1]
    OBVIOUS
  <2>1. c \in B /\ c # b /\ ~ThisAllocated(m, c)
    BY <1>5 DEF Free
  <2>2. /\ c + 1 \in Int /\ c <= c + 1 /\ c + 1 < getBlockAfter(m, c)
        /\ c + 2 \in Int /\ c <= c + 2 /\ c + 2 < getBlockAfter(m, c)
        /\ getBlockAfter(m, c) - 1 \in Int /\ c <= getBlockAfter(m, c) - 1
        /\ getBlockAfter(m, c) - 1 < getBlockAfter(m, c)
    BY <1>1, <2>1, BlockFacts
  <2>3. /\ c + 1 # y - 1 /\ c + 2 # y - 1 /\ getBlockAfter(m, c) - 1 # y - 1
        /\ c + 1 # x /\ c + 2 # x /\ getBlockAfter(m, c) - 1 # x
    BY <1>6, <2>1, <2>2
  <2>4. /\ c + 1 \in Addr /\ c + 2 \in Addr /\ getBlockAfter(m, c) - 1 \in Addr
        /\ c + 1 \notin B /\ c + 2 \notin B /\ getBlockAfter(m, c) - 1 \notin B
    BY <1>5 DEF Roomy
  <2> QED BY <1>10, <2>1, <2>3, <2>4
<1>12. Linked(m2, F) /\ OneRing(m2, F)
  <2>1. \A c \in F : NextFree(m2, c) = NextFree(m, c) /\ PrevFree(m2, c) = PrevFree(m, c)
    BY <1>11 DEF NextFree, PrevFree
  <2> QED BY <1>1, <2>1, SameLinks
<1>13. /\ n \in [Addr -> Word] /\ BlocksOK(n, C, E) /\ Free(n, C) = F \cup {x}
       /\ \A c \in C : n[c] = m2[c]
       /\ Linked(n, F \cup {x}) /\ OneRing(n, F \cup {x})
       /\ \A c \in F \cup {x} : n[getBlockAfter(m2, c) - 1] = m2[getBlockAfter(m2, c) - 1]
       /\ Undisturbed(m2, n, C)
  <2>1. h \in F /\ x \notin F
    BY <1>5, <1>9
  <2> HIDE DEF y, C, F
  <2>2. /\ BlocksOK(m2, C, E) /\ x \notin F /\ Free(m2, C) = F \cup {x} /\ Linked(m2, F)
        /\ OneRing(m2, F) /\ h \in F /\ n = AddToFreeList(m2, x, h)
    BY <1>4, <1>9, <1>12, <2>1
  <2>3. n \in [Addr -> Word] /\ BlocksOK(n, C, E) /\ Free(n, C) = Free(m2, C)
    BY ONLY <2>2, JoinsList
  <2>4. \A c \in C : n[c] = m2[c]
    BY ONLY <2>2, JoinsList
  <2>5. Linked(n, Free(m2, C)) /\ OneRing(n, Free(m2, C))
    BY ONLY <2>2, JoinsList
  <2>6. \A c \in Free(m2, C) : n[getBlockAfter(m2, c) - 1] = m2[getBlockAfter(m2, c) - 1]
    BY ONLY <2>2, JoinsList
  <2>7. Undisturbed(m2, n, C)
    BY ONLY <2>2, JoinsList
  <2> QED BY <2>2, <2>3, <2>4, <2>5, <2>6, <2>7
<1>14. /\ \A c \in B : /\ BlockSize(n, c) = IF c = b THEN k ELSE BlockSize(m, c)
                       /\ ThisAllocated(n, c) <=> ThisAllocated(m, c)
       /\ BlockSize(n, x) = y - x /\ getBlockAfter(n, x) = y
  <2>1. \A c \in B : /\ BlockSize(n, c) = BlockSize(m2, c)
                     /\ ThisAllocated(n, c) <=> ThisAllocated(m2, c)
    BY <1>13 DEF BlockSize, ThisAllocated
  <2>2. BlockSize(n, x) = BlockSize(m2, x) /\ getBlockAfter(n, x) = getBlockAfter(m2, x)
    BY <1>13 DEF BlockSize, getBlockAfter
  <2> QED BY <1>8, <1>9, <2>1, <2>2
<1>15. Marked(n, F \cup {x})
  <2> SUFFICES ASSUME NEW c \in F \cup {x}
               PROVE  n[getBlockAfter(n, c) - 1].val = BlockSize(n, c)
    BY DEF Marked
  <2>1. CASE c = x
    <3>1. m2[y - 1] = Number(y - x)
      BY <1>2, <1>3
    <3>2. getBlockAfter(n, x) = y /\ BlockSize(n, x) = y - x /\ getBlockAfter(m2, x) = y
      BY <1>9, <1>14
    <3>3. x \in F \cup {x} /\ \A d \in F \cup {x} :
            n[getBlockAfter(m2, d) - 1] = m2[getBlockAfter(m2, d) - 1]
      BY <1>13
    <3> HIDE DEF y
    <3>4. n[y - 1] = m2[y - 1]
      BY <3>2, <3>3
    <3> QED BY <2>1, <3>1, <3>2, <3>4 DEF Number
  <2>2. CASE c # x
    <3>1. BlockSize(n, c) = BlockSize(m, c) /\ getBlockAfter(n, c) = getBlockAfter(m, c)
          /\ getBlockAfter(m2, c) = getBlockAfter(m, c)
      BY <1>8, <1>11, <1>14, <2>2 DEF getBlockAfter
    <3>2. n[getBlockAfter(m, c) - 1] = m[getBlockAfter(m, c) - 1]
      BY <1>11, <1>13, <2>2, <3>1
    <3>3. m[getBlockAfter(m, c) - 1].val = BlockSize(m, c)
      BY <1>1, <2>2 DEF Marked
    <3> QED BY <3>1, <3>2, <3>3
  <2> QED BY <2>1, <2>2
<1>16. \A c \in B : ThisAllocated(m, c) => \A a \in Int :
         c < a /\ a < (IF c = b THEN x ELSE getBlockAfter(m, c)) => n[a] = m[a]
  <2> SUFFICES ASSUME NEW c \in B, ThisAllocated(m, c), NEW a \in Int,
                      c < a, a < (IF c = b THEN x ELSE getBlockAfter(m, c))
               PROVE  n[a] = m[a]
    OBVIOUS
  <2>1. c \in Nat /\ getBlockAfter(m, c) \in Nat /\ getBlockAfter(m, c) <= MemWords
    BY <1>1, BlockFacts
  <2>2. a < getBlockAfter(m, c) /\ a \in Addr /\ c <= a
    BY <1>2, <2>1, SizeAssumption DEF Addr
  <2>3. a \notin B
    BY <1>1, <2>2, Inside
  <2>4. a # x /\ a # y - 1
    <3>1. CASE c = b
      BY <1>2, <3>1
    <3>2. CASE c # b
      BY <1>6, <2>2, <3>2
    <3> QED BY <3>1, <3>2
  <2>5. m2[a] = m[a]
    BY <1>10, <2>2, <2>3, <2>4
  <2>6. ThisAllocated(m2, c) /\ c \in C
    BY <1>8
  <2>7. a < getBlockAfter(m2, c)
    BY <1>2, <1>8 DEF getBlockAfter
  <2>8. n[a] = m2[a]
    BY <1>13, <2>6, <2>7 DEF Undisturbed
  <2> QED BY <2>5, <2>8
<1>17. Spares(m, B, n, C, {b})
  BY <1>14, <1>16 DEF Spares
<1>18. \A a \in Int : b < a /\ a < x => n[a] = m[a]
  BY <1>16
<1>19. ThisAllocated(n, b) /\ getBlockAfter(n, b) = x
  BY <1>14 DEF getBlockAfter
<1>20. HeapOK(n, C, E) /\ Free(n, C) = F \cup {x}
  BY <1>13, <1>15 DEF HeapOK
<1>21. \A c \in B : BlockSize(n, c) = IF c = b THEN k ELSE BlockSize(m, c)
  BY <1>14
<1> QED BY <1>2, <1>9, <1>17, <1>18, <1>19, <1>20, <1>21 DEF HeapWith, AfterSplit

\* What filling words of a block leaves.
AfterFill(m, B, E, b, from, to, w, n) ==
  /\ HeapOK(n, B, E) /\ Free(n, B) = Free(m, B)
  /\ \A c \in B : n[c] = m[c]
  /\ Spares(m, B, n, B, {b})
  /\ \A a \in Addr : n[a] = IF from <= a /\ a < to THEN w ELSE m[a]

\* Filling words of an allocated block with code or garbage disturbs nothing
\* outside them.
LEMMA FillOK ==
  ASSUME NEW m, NEW B, NEW E, HeapOK(m, B, E), NEW b \in B, ThisAllocated(m, b),
         NEW from \in Int, NEW to \in Int, b < from, to <= getBlockAfter(m, b),
         NEW w \in Word, NEW n, n = Fill(m, from, to, w)
  PROVE  AfterFill(m, B, E, b, from, to, w, n)
<1> DEFINE F == Free(m, B)
<1>1. /\ BlocksOK(m, B, E) /\ Marked(m, F) /\ Linked(m, F) /\ OneRing(m, F)
      /\ m \in [Addr -> Word] /\ B \in SUBSET Addr
  BY DEF HeapOK, BlocksOK
<1>2. /\ n \in [Addr -> Word]
      /\ \A a \in Addr : n[a] = IF from <= a /\ a < to THEN w ELSE m[a]
  BY <1>1 DEF Fill
<1>3. ASSUME NEW a \in Addr, ~(b < a /\ a < getBlockAfter(m, b)) PROVE n[a] = m[a]
  <2>1. ~(from <= a /\ a < to)
    <3>1. b \in Int /\ getBlockAfter(m, b) \in Int /\ a \in Int
      BY <1>1, BlockFacts DEF Addr
    <3> QED BY <1>3, <3>1
  <2> QED BY <1>2, <2>1
<1>4. \A c \in B : n[c] = m[c]
  <2> SUFFICES ASSUME NEW c \in B PROVE n[c] = m[c]
    OBVIOUS
  <2>1. c \in Addr /\ c \in Int /\ ~(b < c /\ c < getBlockAfter(m, b))
    BY <1>1, Inside DEF Addr
  <2> QED BY <1>3, <2>1
<1>5. /\ BlocksOK(n, B, E) /\ Free(n, B) = F
      /\ \A c \in B : /\ BlockSize(n, c) = BlockSize(m, c)
                      /\ getBlockAfter(n, c) = getBlockAfter(m, c)
                      /\ ThisAllocated(n, c) <=> ThisAllocated(m, c)
  BY <1>1, <1>2, <1>4, SameHeaders
<1>6. ASSUME NEW c \in F
      PROVE  /\ n[c + 1] = m[c + 1] /\ n[c + 2] = m[c + 2]
             /\ n[getBlockAfter(m, c) - 1] = m[getBlockAfter(m, c) - 1]
             /\ c \in B
  <2>1. Roomy(m, B, F) /\ c # b /\ c \in B
    BY <1>1, RoomOfFree DEF Free
  <2>2. /\ c + 1 \in Addr /\ c + 2 \in Addr /\ getBlockAfter(m, c) - 1 \in Addr
        /\ \A a \in Int : b < a /\ a < getBlockAfter(m, b) =>
             a # c + 1 /\ a # c + 2 /\ a # getBlockAfter(m, c) - 1
    BY <2>1 DEF Roomy
  <2>3. \A a \in Addr : a \in Int
    BY DEF Addr
  <2> QED BY <1>3, <2>1, <2>2, <2>3
<1>7. Linked(n, F) /\ OneRing(n, F)
  <2>1. \A c \in F : NextFree(n, c) = NextFree(m, c) /\ PrevFree(n, c) = PrevFree(m, c)
    BY <1>6 DEF NextFree, PrevFree
  <2> QED BY <1>1, <2>1, SameLinks
<1>8. Marked(n, F)
  BY <1>1, <1>5, <1>6 DEF Marked
<1>9. Spares(m, B, n, B, {b})
  <2> SUFFICES ASSUME NEW c \in B, c # b, ThisAllocated(m, c), NEW a \in Int, c < a, a < getBlockAfter(m, c)
               PROVE  n[a] = m[a]
    BY <1>5 DEF Spares
  <2>1. c \in Nat /\ getBlockAfter(m, c) \in Nat /\ getBlockAfter(m, c) <= MemWords
    BY <1>1, BlockFacts
  <2>2. a \in Addr /\ c <= a
    BY <2>1, SizeAssumption DEF Addr
  <2>3. b \in Int
    BY <1>1, BlockFacts
  <2>4. ~(b < a /\ a < getBlockAfter(m, b))
    <3>1. b < a /\ a < getBlockAfter(m, b) => b <= a
      BY <2>3
    <3> QED BY <1>1, <2>2, <3>1, OneBlock
  <2> QED BY <1>3, <2>2, <2>4
<1> QED BY <1>2, <1>4, <1>5, <1>7, <1>8, <1>9 DEF HeapOK, AfterFill

\* What allocateNewCodeSlab leaves.
AfterNewSlab(m, B, E, x, e, n) ==
  /\ HeapWith(n, B \cup {x, e}, E \cup {e}, Free(m, B) \cup {x})
  /\ x \notin B /\ e \notin B
  /\ \A c \in B : n[c] = m[c]
  /\ n[x] = Header(0, 1, e - x) /\ n[e] = Header(1, 0, HeaderWords)
  /\ Spares(m, B, n, B \cup {x, e}, {})

\* A new slab from x to the end block e joins the heap.
LEMMA NewSlabOK ==
  ASSUME NEW m, NEW B, NEW E, HeapOK(m, B, E), NEW h \in Free(m, B),
         NEW x \in Nat, NEW e \in Nat, x + 4 <= e, e + 1 <= MemWords,
         \A b \in B : getBlockAfter(m, b) <= x \/ e < b,
         NEW s, s.base = x, s.size \in Nat, EndBlock(s) = e,
         NEW n, n = allocateNewCodeSlab(m, s, h)
  PROVE  AfterNewSlab(m, B, E, x, e, n)
<1> DEFINE F == Free(m, B)
           C == B \cup {x, e}
           D == E \cup {e}
           laid == [m EXCEPT ![e] = Header(1, 0, HeaderWords), ![x] = Header(0, 1, e - x)]
           m1 == SetEndOfBlockSizeMarker(laid, x)
<1>1. /\ BlocksOK(m, B, E) /\ Marked(m, F) /\ Linked(m, F) /\ OneRing(m, F)
      /\ m \in [Addr -> Word] /\ B \in SUBSET Addr
  BY DEF HeapOK, BlocksOK
<1>2. n = AddToFreeList(m1, x, h)
  <2>1. s.size - HeaderWords = e - x
    BY DEF EndBlock, HeaderWords
  <2> QED BY <2>1 DEF allocateNewCodeSlab
<1>3. /\ x \in Addr /\ e \in Addr /\ x # e /\ e - x \in Nat
  BY SizeAssumption DEF Addr
<1>4. /\ laid \in [Addr -> Word]
      /\ laid[x] = Header(0, 1, e - x) /\ laid[e] = Header(1, 0, HeaderWords)
      /\ \A a \in Addr : a # x /\ a # e => laid[a] = m[a]
  <2>1. Header(0, 1, e - x) \in Word /\ Header(1, 0, HeaderWords) \in Word
    BY <1>3 DEF Header, Word, HeaderWords
  <2> QED BY <1>1, <1>3, <2>1
<1> HIDE DEF laid
<1>5. \A c \in B : \A a \in Int : c <= a /\ a < getBlockAfter(m, c) => a # x /\ a # e
  <2> SUFFICES ASSUME NEW c \in B, NEW a \in Int, c <= a, a < getBlockAfter(m, c)
               PROVE  a # x /\ a # e
    OBVIOUS
  <2>1. c \in Nat /\ getBlockAfter(m, c) \in Nat
    BY <1>1, BlockFacts
  <2>2. getBlockAfter(m, c) <= x \/ e < c
    OBVIOUS
  <2> QED BY <2>1, <2>2
<1>6. \A c \in B : laid[c] = m[c] /\ c # x /\ c # e
  <2> SUFFICES ASSUME NEW c \in B PROVE laid[c] = m[c] /\ c # x /\ c # e
    OBVIOUS
  <2>1. c \in Int /\ c <= c /\ c < getBlockAfter(m, c) /\ c \in Addr
    BY <1>1, BlockFacts
  <2> QED BY <1>4, <1>5, <2>1
<1>7. BlocksOK(laid, C, D) /\ Free(laid, C) = F \cup {x} /\ x \notin B
  <2>1. /\ BlocksOK(m, B, E) /\ laid \in [Addr -> Word]
        /\ x \in Nat /\ e \in Nat /\ x + 4 <= e /\ e + 1 <= MemWords
        /\ laid[x] = Header(0, 1, e - x) /\ laid[e] = Header(1, 0, HeaderWords)
    BY <1>1, <1>4
  <2>2. \A b \in B : getBlockAfter(m, b) <= x \/ e < b
    OBVIOUS
  <2>3. \A c \in B : laid[c] = m[c]
    BY <1>6
  <2>4. /\ BlocksOK(laid, B \cup {x, e}, E \cup {e})
        /\ Free(laid, B \cup {x, e}) = Free(m, B) \cup {x}
    BY ONLY <2>1, <2>2, <2>3, LaidBlocks
  <2> QED BY <1>6, <2>4
<1>8. ASSUME NEW c \in F
      PROVE  /\ laid[c + 1] = m[c + 1] /\ laid[c + 2] = m[c + 2]
             /\ laid[getBlockAfter(m, c) - 1] = m[getBlockAfter(m, c) - 1]
             /\ c \in B /\ c # x
             /\ BlockSize(laid, c) = BlockSize(m, c) /\ getBlockAfter(laid, c) = getBlockAfter(m, c)
  <2>1. c \in B /\ ~ThisAllocated(m, c)
    BY DEF Free
  <2>2. /\ c + 1 \in Int /\ c <= c + 1 /\ c + 1 < getBlockAfter(m, c)
        /\ c + 2 \in Int /\ c <= c + 2 /\ c + 2 < getBlockAfter(m, c)
        /\ getBlockAfter(m, c) - 1 \in Int /\ c <= getBlockAfter(m, c) - 1
        /\ getBlockAfter(m, c) - 1 < getBlockAfter(m, c)
    BY <1>1, <2>1, BlockFacts
  <2>3. c + 1 \in Addr /\ c + 2 \in Addr /\ getBlockAfter(m, c) - 1 \in Addr
    BY <1>1, <2>1, BlockFacts
  <2>4. /\ c + 1 # x /\ c + 2 # x /\ getBlockAfter(m, c) - 1 # x
        /\ c + 1 # e /\ c + 2 # e /\ getBlockAfter(m, c) - 1 # e
    BY <1>5, <2>1, <2>2
  <2> QED BY <1>4, <1>6, <2>1, <2>3, <2>4 DEF BlockSize, getBlockAfter
<1>9. Roomy(laid, C, F \cup {x})
  <2> HIDE DEF C, D, F
  <2>1. Roomy(laid, C, Free(laid, C))
    BY <1>7, RoomOfFree
  <2> QED BY <1>7, <2>1
<1>10. BlockSize(laid, x) \in Nat
  <2>1. x \in C
    OBVIOUS
  <2> QED BY <1>7, <2>1, BlockFacts
<1>11. /\ m1 \in [Addr -> Word]
       /\ m1[getBlockAfter(laid, x) - 1].val = BlockSize(laid, x)
       /\ \A a \in Addr : a # getBlockAfter(laid, x) - 1 => m1[a] = laid[a]
  BY <1>4, <1>9, <1>10, MarkerWritten
<1> HIDE DEF m1
<1>12. \A c \in C : m1[c] = laid[c]
  BY <1>9, <1>7, <1>11 DEF Roomy, BlocksOK
<1>13. /\ BlocksOK(m1, C, D) /\ Free(m1, C) = F \cup {x}
       /\ \A b \in C : BlockSize(m1, b) = BlockSize(laid, b) /\ getBlockAfter(m1, b) = getBlockAfter(laid, b)
  <2> HIDE DEF C, D
  <2> QED BY <1>7, <1>11, <1>12, SameHeaders
<1>14. Linked(m1, F) /\ OneRing(m1, F)
  <2>1. \A c \in F : NextFree(m1, c) = NextFree(m, c) /\ PrevFree(m1, c) = PrevFree(m, c)
    <3> SUFFICES ASSUME NEW c \in F
                 PROVE NextFree(m1, c) = NextFree(m, c) /\ PrevFree(m1, c) = PrevFree(m, c)
      OBVIOUS
    <3>1. m1[c + 1] = laid[c + 1] /\ m1[c + 2] = laid[c + 2]
      BY <1>9, <1>11 DEF Roomy
    <3> QED BY <1>8, <3>1 DEF NextFree, PrevFree
  <2> QED BY <1>1, <2>1, SameLinks
<1>15. Marked(m1, F \cup {x})
  <2> SUFFICES ASSUME NEW c \in F \cup {x}
               PROVE  m1[getBlockAfter(m1, c) - 1].val = BlockSize(m1, c)
    BY DEF Marked
  <2>1. c \in C
    BY <1>8
  <2>2. BlockSize(m1, c) = BlockSize(laid, c) /\ getBlockAfter(m1, c) = getBlockAfter(laid, c)
    BY <1>13, <2>1
  <2>3. CASE c = x
    BY <1>11, <2>2, <2>3
  <2>4. CASE c # x
    <3>1. c \in F
      BY <2>4
    <3>2. m1[getBlockAfter(laid, c) - 1] = laid[getBlockAfter(laid, c) - 1]
      BY <1>9, <1>11, <2>4 DEF Roomy
    <3>3. m[getBlockAfter(m, c) - 1].val = BlockSize(m, c)
      BY <1>1, <3>1 DEF Marked
    <3> QED BY <1>8, <2>2, <3>1, <3>2, <3>3
  <2> QED BY <2>3, <2>4
<1>16. x \notin F /\ h \in F
  BY <1>7 DEF Free
<1>17. /\ BlocksOK(m1, C, D) /\ x \notin F /\ Free(m1, C) = F \cup {x} /\ Linked(m1, F)
       /\ OneRing(m1, F) /\ h \in F /\ n = AddToFreeList(m1, x, h)
  BY <1>2, <1>13, <1>14, <1>16
<1> HIDE DEF C, D, F
<1>18. n \in [Addr -> Word] /\ BlocksOK(n, C, D) /\ Free(n, C) = Free(m1, C)
  BY ONLY <1>17, JoinsList
<1>19. \A c \in C : n[c] = m1[c]
  BY ONLY <1>17, JoinsList
<1>20. Linked(n, Free(m1, C)) /\ OneRing(n, Free(m1, C))
  BY ONLY <1>17, JoinsList
<1>21. \A c \in Free(m1, C) : n[getBlockAfter(m1, c) - 1] = m1[getBlockAfter(m1, c) - 1]
  BY ONLY <1>17, JoinsList
<1>22. Undisturbed(m1, n, C)
  BY ONLY <1>17, JoinsList
<1>23. Marked(n, F \cup {x})
  <2> SUFFICES ASSUME NEW c \in F \cup {x}
               PROVE  n[getBlockAfter(n, c) - 1].val = BlockSize(n, c)
    BY DEF Marked
  <2>1. c \in C
    BY <1>17 DEF Free
  <2>2. BlockSize(n, c) = BlockSize(m1, c) /\ getBlockAfter(n, c) = getBlockAfter(m1, c)
    BY <1>19, <2>1 DEF BlockSize, getBlockAfter
  <2>3. m1[getBlockAfter(m1, c) - 1].val = BlockSize(m1, c)
    BY <1>15 DEF Marked
  <2> QED BY <1>17, <1>21, <2>2, <2>3
<1>24. HeapOK(n, C, D) /\ Free(n, C) = F \cup {x}
  BY <1>17, <1>18, <1>20, <1>23 DEF HeapOK
<1>25. \A c \in B : n[c] = m[c]
  BY <1>6, <1>12, <1>19 DEF C
<1>26. n[x] = Header(0, 1, e - x) /\ n[e] = Header(1, 0, HeaderWords)
  BY <1>4, <1>12, <1>19 DEF C
<1>27. Spares(m, B, n, C, {})
  <2> SUFFICES ASSUME NEW c \in B, ThisAllocated(m, c)
               PROVE  /\ c \in C /\ ThisAllocated(n, c) /\ BlockSize(n, c) = BlockSize(m, c)
                      /\ \A a \in Int : c < a /\ a < getBlockAfter(m, c) => n[a] = m[a]
    BY DEF Spares
  <2>1. c \in C /\ ThisAllocated(n, c) /\ BlockSize(n, c) = BlockSize(m, c)
    BY <1>25 DEF C, ThisAllocated, BlockSize
  <2>2. ASSUME NEW a \in Int, c < a, a < getBlockAfter(m, c) PROVE n[a] = m[a]
    <3>1. c \in Nat /\ getBlockAfter(m, c) \in Nat /\ getBlockAfter(m, c) <= MemWords
      BY <1>1, BlockFacts
    <3>2. a \in Addr /\ c <= a
      BY <2>2, <3>1, SizeAssumption DEF Addr
    <3>3. laid[a] = m[a]
      BY <1>4, <1>5, <2>2, <3>2
    <3>4. ThisAllocated(laid, c) /\ getBlockAfter(laid, c) = getBlockAfter(m, c)
      BY <1>6 DEF ThisAllocated, getBlockAfter, BlockSize
    <3>5. m1[a] = laid[a]
      <4>1. c # x /\ x \in F \cup {x} /\ c \in C
        BY <1>6, <2>1
      <4>2. a # getBlockAfter(laid, x) - 1
        BY <1>9, <2>2, <3>4, <4>1 DEF Roomy
      <4> QED BY <1>11, <3>2, <4>2
    <3>6. ThisAllocated(m1, c) /\ getBlockAfter(m1, c) = getBlockAfter(m, c)
      BY <1>12, <2>1, <3>4 DEF ThisAllocated, getBlockAfter, BlockSize
    <3>7. n[a] = m1[a]
      BY <1>22, <2>1, <2>2, <3>6 DEF Undisturbed
    <3> QED BY <3>3, <3>5, <3>7
  <2> QED BY <2>1, <2>2
<1> QED BY <1>6, <1>24, <1>25, <1>26, <1>27 DEF C, D, F, HeapWith, AfterNewSlab

-----------------------------------------------------------------------------
(* What the entry points do to the heap                                    *)

\* What FreeBlock leaves.
AfterFreeBlock(m, B, E, b, t, r) ==
  /\ HeapOK(r.mem, r.blocks, E) /\ r.blocks \in SUBSET B
  /\ r.list \in Free(r.mem, r.blocks)
  /\ Spares(m, B, r.mem, r.blocks, {b})
  /\ \A c \in B \ r.blocks : \E p \in B \ E : getBlockAfter(m, p) = c
  /\ \A c \in r.blocks : ThisAllocated(r.mem, c) => ThisAllocated(m, c) /\ c # b
  /\ t \in Free(r.mem, r.blocks) /\ BlockSize(r.mem, t) = BlockSize(m, t)

\* A block that is freed becomes part of a free block; no other block that is
\* allocated is touched, and a free block is only when it is a neighbour. The
\* list keeps an entry as long as it has a block t that is none.
LEMMA FreeBlockOK ==
  ASSUME NEW m, NEW B, NEW E, HeapOK(m, B, E), NEW h \in Free(m, B), NEW b \in B \ E,
         ThisAllocated(m, b), BlockSize(m, b) >= 4,
         NEW t \in Free(m, B), t # getBlockAfter(m, b), b # getBlockAfter(m, t),
         NEW r, r = FreeBlock(m, B, h, b)
  PROVE  AfterFreeBlock(m, B, E, b, t, r)
<1> DEFINE f == getBlockAfter(m, b)
           coalesce == ~ThisAllocated(m, f)
           headLost == coalesce /\ f = h
           list == IF headLost THEN NextFree(m, f) ELSE h
           m1 == IF coalesce THEN Absorb(m, b) ELSE m
           B1 == IF coalesce THEN B \ {f} ELSE B
           before == getFreeBlockBefore(m1, b)
<1>1. /\ r.mem = IF PrevAllocated(m1, b) THEN MarkFree(m1, b, list)
                 ELSE GrowBlock(m1, before, BlockSize(m1, before) + BlockSize(m1, b))
      /\ r.blocks = IF PrevAllocated(m1, b) THEN B1 ELSE B1 \ {b}
      /\ r.list = IF headLost THEN IF PrevAllocated(m1, b) THEN b ELSE before ELSE h
  BY DEF FreeBlock
<1>2. BlocksOK(m, B, E) /\ b \in B /\ b \notin E /\ b \in Nat /\ f \in B /\ f # b /\ B \in SUBSET Addr
  <2>1. BlocksOK(m, B, E)
    BY DEF HeapOK
  <2> QED BY <2>1, BlockFacts DEF BlocksOK
<1>3. /\ HeapOK(m1, B1, E) /\ B1 \in SUBSET B /\ b \in B1
      /\ Free(m1, B1) = IF coalesce THEN Free(m, B) \ {f} ELSE Free(m, B)
      /\ ThisAllocated(m1, b) /\ ThisAllocated(m1, getBlockAfter(m1, b))
      /\ BlockSize(m1, b) >= 4
      /\ \A c \in B1 : c # b => BlockSize(m1, c) = BlockSize(m, c)
      /\ Spares(m, B, m1, B1, {b})
      /\ PrevAllocated(m1, b) <=> PrevAllocated(m, b)
  <2>1. CASE coalesce
    <3>1. ThisAllocated(m, b) /\ f = getBlockAfter(m, b) /\ b \in B \ E
      OBVIOUS
    <3>2. m1 = Absorb(m, b) /\ B1 = B \ {f}
      BY <2>1
    <3> HIDE DEF m1, B1, f
    <3>3. ~ThisAllocated(m, f)
      BY <2>1
    <3>4. AfterAbsorb(m, B, E, b, f, m1)
      BY <3>1, <3>2, <3>3, AbsorbOK
    <3>5. BlockSize(m1, b) = BlockSize(m, b) + BlockSize(m, f)
      BY <3>4 DEF AfterAbsorb
    <3>7. BlockSize(m, b) \in Nat /\ BlockSize(m, f) \in Nat
      BY <1>2, BlockFacts
    <3>8. BlockSize(m1, b) >= 4
      BY <3>5, <3>7
    <3> QED BY <1>2, <2>1, <3>2, <3>4, <3>8 DEF AfterAbsorb, HeapWith
  <2>2. CASE ~coalesce
    BY <1>2, <2>2 DEF Spares
  <2> QED BY <2>1, <2>2
<1>4. list \in Free(m1, B1)
  <2>1. CASE headLost
    <3>1. Linked(m, Free(m, B)) /\ OneRing(m, Free(m, B)) /\ f \in Free(m, B)
      BY <1>2, <2>1 DEF HeapOK, Free
    <3>2. NextFree(m, f) \in Free(m, B)
      BY <3>1 DEF Linked
    <3>3. NextFree(m, f) # f
      <4> SUFFICES ASSUME NextFree(m, f) = f PROVE FALSE
        OBVIOUS
      <4>1. {f} \in SUBSET Free(m, B) /\ {f} # {} /\ \A c \in {f} : NextFree(m, c) \in {f}
        BY <3>1
      <4>2. {f} = Free(m, B)
        BY <3>1, <4>1 DEF OneRing
      <4> QED BY <4>2
    <3>4. list = NextFree(m, f)
      BY <2>1
    <3> HIDE DEF f, m1, B1, list
    <3> QED BY <1>3, <2>1, <3>2, <3>3, <3>4
  <2>2. CASE ~headLost
    <3>1. h \in IF coalesce THEN Free(m, B) \ {f} ELSE Free(m, B)
      BY <2>2
    <3>2. list = h
      BY <2>2
    <3> QED BY <1>3, <3>1, <3>2
  <2> QED BY <2>1, <2>2
<1>5. t \in Free(m1, B1) /\ t \in B1 /\ t # b /\ BlockSize(m1, t) = BlockSize(m, t)
  <2>1. t \in Free(m1, B1)
    BY <1>3
  <2>2. t \in B1 /\ t # b
    BY <2>1, <1>3 DEF Free
  <2> QED BY <1>3, <2>1, <2>2
<1>6. \A c \in B \ B1 : c = f
  BY <1>3
<1>7. \A c \in B1 : ThisAllocated(m1, c) => ThisAllocated(m, c)
  <2> SUFFICES ASSUME NEW c \in B1, ~ThisAllocated(m, c) PROVE ~ThisAllocated(m1, c)
    OBVIOUS
  <2>1. c \in Free(m, B) /\ (coalesce => c # f)
    BY <1>3 DEF Free
  <2>2. c \in Free(m1, B1)
    <3> HIDE DEF f, m1, B1
    <3> QED BY <1>3, <2>1
  <2> QED BY <2>2 DEF Free
<1> HIDE DEF m1, B1, list, headLost, coalesce
<1>8. CASE PrevAllocated(m1, b)
  <2>1. r.mem = MarkFree(m1, b, list) /\ r.blocks = B1
    BY <1>1, <1>8
  <2>2. HeapOK(m1, B1, E) /\ b \in B1 \ E /\ list \in Free(m1, B1) /\ ThisAllocated(m1, b)
        /\ PrevAllocated(m1, b) /\ ThisAllocated(m1, getBlockAfter(m1, b)) /\ BlockSize(m1, b) >= 4
    BY <1>2, <1>3, <1>4, <1>8
  <2>10. AfterMarkFree(m1, B1, E, b, r.mem)
    BY ONLY <2>1, <2>2, MarkFreeOK
  <2>3. HeapOK(r.mem, B1, E) /\ Free(r.mem, B1) = Free(m1, B1) \cup {b}
    BY <2>10 DEF AfterMarkFree, HeapWith
  <2>4. /\ \A c \in B1 : BlockSize(r.mem, c) = BlockSize(m1, c)
        /\ Spares(m1, B1, r.mem, B1, {b})
    BY <2>10 DEF AfterMarkFree
  <2>5. r.list \in Free(r.mem, B1)
    <3>1. CASE headLost
      BY <1>1, <1>8, <2>3, <3>1
    <3>2. CASE ~headLost
      BY <1>1, <1>4, <2>3, <3>2 DEF list
    <3> QED BY <3>1, <3>2
  <2>6. Spares(m, B, r.mem, B1, {b})
    <3> SUFFICES ASSUME NEW c \in B, c # b, ThisAllocated(m, c)
                 PROVE  /\ c \in B1 /\ ThisAllocated(r.mem, c) /\ BlockSize(r.mem, c) = BlockSize(m, c)
                        /\ \A a \in Int : c < a /\ a < getBlockAfter(m, c) => r.mem[a] = m[a]
      BY DEF Spares
    <3>1. /\ c \in B1 /\ ThisAllocated(m1, c) /\ BlockSize(m1, c) = BlockSize(m, c)
          /\ \A a \in Int : c < a /\ a < getBlockAfter(m, c) => m1[a] = m[a]
      BY <1>3 DEF Spares
    <3>2. getBlockAfter(m1, c) = getBlockAfter(m, c)
      BY <3>1 DEF getBlockAfter
    <3>3. /\ ThisAllocated(r.mem, c) /\ BlockSize(r.mem, c) = BlockSize(m1, c)
          /\ \A a \in Int : c < a /\ a < getBlockAfter(m1, c) => r.mem[a] = m1[a]
      BY <2>4, <3>1 DEF Spares
    <3> QED BY <3>1, <3>2, <3>3
  <2>7. \A c \in B \ B1 : \E p \in B \ E : getBlockAfter(m, p) = c
    BY <1>2, <1>6
  <2>8. \A c \in B1 : ThisAllocated(r.mem, c) => ThisAllocated(m, c) /\ c # b
    <3> SUFFICES ASSUME NEW c \in B1, ThisAllocated(r.mem, c) PROVE ThisAllocated(m, c) /\ c # b
      OBVIOUS
    <3>1. c \notin Free(r.mem, B1)
      BY DEF Free
    <3>2. c # b /\ c \notin Free(m1, B1)
      BY <2>3, <3>1
    <3> QED BY <1>7, <3>2 DEF Free
  <2>9. t \in Free(r.mem, B1) /\ BlockSize(r.mem, t) = BlockSize(m, t)
    BY <1>5, <2>3, <2>4
  <2> QED BY <1>3, <2>1, <2>3, <2>5, <2>6, <2>7, <2>8, <2>9 DEF AfterFreeBlock
<1>9. CASE ~PrevAllocated(m1, b)
  <2>1. BlocksOK(m1, B1, E) /\ Marked(m1, Free(m1, B1))
    BY <1>3 DEF HeapOK
  <2>2. PICK p \in Free(m1, B1) : getBlockAfter(m1, p) = b
    BY <1>3, <1>9, <2>1 DEF BlocksOK, FlagsAgree
  <2>3. p \in B1 /\ p \in Nat /\ BlockSize(m1, p) \in Nat /\ b = p + BlockSize(m1, p)
        /\ ~ThisAllocated(m1, p)
    <3>1. p \in B1 /\ ~ThisAllocated(m1, p)
      BY DEF Free
    <3> QED BY <2>1, <2>2, <3>1, BlockFacts
  <2>4. before = p
    <3>1. m1[b - 1].val = BlockSize(m1, p)
      BY <2>1, <2>2 DEF Marked
    <3> QED BY <2>3, <3>1 DEF getFreeBlockBefore
  <2>5. r.mem = GrowBlock(m1, p, BlockSize(m1, p) + BlockSize(m1, b)) /\ r.blocks = B1 \ {b}
    BY <1>1, <1>9, <2>4
  <2> HIDE DEF before
  <2>6. HeapOK(m1, B1, E) /\ p \in Free(m1, B1) /\ b = getBlockAfter(m1, p) /\ b \notin E
        /\ ThisAllocated(m1, getBlockAfter(m1, b))
    BY <1>2, <1>3, <2>2
  <2>15. AfterGrowBlock(m1, B1, E, p, b, r.mem)
    BY ONLY <2>5, <2>6, GrowBlockOK
  <2>7. HeapOK(r.mem, B1 \ {b}, E) /\ Free(r.mem, B1 \ {b}) = Free(m1, B1)
    BY <2>15 DEF AfterGrowBlock, HeapWith
  <2>8. /\ \A c \in B1 \ {b} : c # p => BlockSize(r.mem, c) = BlockSize(m1, c)
        /\ Spares(m1, B1, r.mem, B1 \ {b}, {b})
    BY <2>15 DEF AfterGrowBlock
  <2>9. r.list \in Free(r.mem, B1 \ {b})
    <3>1. CASE headLost
      BY <1>1, <1>9, <2>4, <2>7, <3>1
    <3>2. CASE ~headLost
      BY <1>1, <1>4, <2>7, <3>2 DEF list
    <3> QED BY <3>1, <3>2
  <2>10. Spares(m, B, r.mem, B1 \ {b}, {b})
    <3> SUFFICES ASSUME NEW c \in B, c # b, ThisAllocated(m, c)
                 PROVE  /\ c \in B1 \ {b} /\ ThisAllocated(r.mem, c) /\ BlockSize(r.mem, c) = BlockSize(m, c)
                        /\ \A a \in Int : c < a /\ a < getBlockAfter(m, c) => r.mem[a] = m[a]
      BY DEF Spares
    <3>1. /\ c \in B1 /\ ThisAllocated(m1, c) /\ BlockSize(m1, c) = BlockSize(m, c)
          /\ \A a \in Int : c < a /\ a < getBlockAfter(m, c) => m1[a] = m[a]
      BY <1>3 DEF Spares
    <3>2. getBlockAfter(m1, c) = getBlockAfter(m, c)
      BY <3>1 DEF getBlockAfter
    <3>3. /\ ThisAllocated(r.mem, c) /\ BlockSize(r.mem, c) = BlockSize(m1, c)
          /\ \A a \in Int : c < a /\ a < getBlockAfter(m1, c) => r.mem[a] = m1[a]
      BY <2>8, <3>1 DEF Spares
    <3> QED BY <3>1, <3>2, <3>3
  <2>11. p \in B \ E /\ getBlockAfter(m, p) = b /\ ~ThisAllocated(m, p)
    <3>1. p \in Free(m, B)
      BY <1>3, <2>2
    <3>2. p \in B /\ ~ThisAllocated(m, p) /\ p # b
      BY <3>1 DEF Free
    <3>3. BlockSize(m1, p) = BlockSize(m, p)
      BY <1>3, <2>3, <3>2
    <3> QED BY <1>2, <2>2, <3>2, <3>3, BlockFacts DEF getBlockAfter
  <2>12. \A c \in B \ (B1 \ {b}) : \E q \in B \ E : getBlockAfter(m, q) = c
    <3> SUFFICES ASSUME NEW c \in B \ (B1 \ {b}) PROVE \E q \in B \ E : getBlockAfter(m, q) = c
      OBVIOUS
    <3>1. c = b \/ c = f
      BY <1>6
    <3> QED BY <1>2, <2>11, <3>1
  <2>13. \A c \in B1 \ {b} : ThisAllocated(r.mem, c) => ThisAllocated(m, c) /\ c # b
    <3> SUFFICES ASSUME NEW c \in B1 \ {b}, ThisAllocated(r.mem, c) PROVE ThisAllocated(m, c)
      OBVIOUS
    <3>1. c \notin Free(r.mem, B1 \ {b})
      BY DEF Free
    <3>2. c \notin Free(m1, B1)
      BY <2>7, <3>1
    <3> QED BY <1>7, <3>2 DEF Free
  <2>14. t \in Free(r.mem, B1 \ {b}) /\ BlockSize(r.mem, t) = BlockSize(m, t)
    <3>1. t # p
      BY <2>11
    <3> QED BY <1>5, <2>7, <2>8, <3>1
  <2> QED BY <1>3, <2>5, <2>7, <2>9, <2>10, <2>12, <2>13, <2>14 DEF AfterFreeBlock
<1> QED BY <1>8, <1>9

\* What TrimAllocationToSize leaves.
AfterTrim(m, B, E, b, size, r) ==
  /\ HeapOK(r.mem, r.blocks, E) /\ B \in SUBSET r.blocks
  /\ r.list \in Free(r.mem, r.blocks)
  /\ Spares(m, B, r.mem, r.blocks, {b})
  /\ \A c \in r.blocks \ B : b < c /\ c < getBlockAfter(m, b)
  /\ \A c \in r.blocks : ThisAllocated(r.mem, c) => c \in B /\ ThisAllocated(m, c)
  /\ \A c \in Free(m, B) : c \in Free(r.mem, r.blocks) /\ BlockSize(r.mem, c) = BlockSize(m, c)
  /\ ThisAllocated(r.mem, b) /\ BlockSize(r.mem, b) >= AtLeastMin(size)
  /\ getBlockAfter(r.mem, b) <= getBlockAfter(m, b)
  /\ \A a \in Int : b < a /\ a < b + AtLeastMin(size) => r.mem[a] = m[a]

\* An allocated block keeps its first words when it is trimmed, and no other
\* block is touched.
LEMMA TrimOK ==
  ASSUME NEW m, NEW B, NEW E, HeapOK(m, B, E), NEW h \in Free(m, B), NEW b \in B \ E,
         ThisAllocated(m, b), ThisAllocated(m, getBlockAfter(m, b)),
         NEW size \in Nat, AtLeastMin(size) <= BlockSize(m, b),
         NEW r, r = TrimAllocationToSize(m, B, h, b, size)
  PROVE  AfterTrim(m, B, E, b, size, r)
<1> DEFINE k == AtLeastMin(size)
<1>1. k \in Nat /\ k >= 4 /\ MinBlockSize = 4
  BY DEF AtLeastMin, MinBlockSize, FreeHeaderWords
<1>2. /\ BlocksOK(m, B, E) /\ b \in Nat /\ BlockSize(m, b) \in Nat /\ b \notin Free(m, B)
      /\ getBlockAfter(m, b) = b + BlockSize(m, b)
  <2>1. BlocksOK(m, B, E)
    BY DEF HeapOK
  <2> QED BY <2>1, BlockFacts DEF Free
<1>3. CASE BlockSize(m, b) <= k + MinBlockSize
  <2>1. r = [mem |-> m, blocks |-> B, list |-> h]
    BY <1>3 DEF TrimAllocationToSize
  <2> QED BY <1>1, <1>2, <2>1 DEF Spares, AfterTrim
<1>4. CASE ~(BlockSize(m, b) <= k + MinBlockSize)
  <2> DEFINE x == b + k
             n == Split(m, b, k, h)
  <2>1. r = [mem |-> n, blocks |-> B \cup {x}, list |-> x]
    BY <1>4 DEF TrimAllocationToSize
  <2>2. BlockSize(m, b) > k + 4
    BY <1>1, <1>2, <1>4
  <2> HIDE DEF k
  <2>3. n = Split(m, b, k, h) /\ x = b + k
    OBVIOUS
  <2> HIDE DEF n, x
  <2>4. HeapOK(m, B, E) /\ b \in B \ E /\ h \in Free(m, B) /\ k \in Nat /\ k >= 4
        /\ ThisAllocated(m, b) /\ ThisAllocated(m, getBlockAfter(m, b))
    BY <1>1
  <2>14. AfterSplit(m, B, E, b, k, x, n)
    BY ONLY <2>2, <2>3, <2>4, SplitOK
  <2>5. HeapOK(n, B \cup {x}, E) /\ Free(n, B \cup {x}) = Free(m, B) \cup {x}
    BY <2>14 DEF AfterSplit, HeapWith
  <2>6. /\ x \notin B /\ b < x /\ x < getBlockAfter(m, b)
        /\ \A c \in B : BlockSize(n, c) = IF c = b THEN k ELSE BlockSize(m, c)
        /\ ThisAllocated(n, b) /\ getBlockAfter(n, b) = x
    BY <2>14 DEF AfterSplit
  <2>7. /\ Spares(m, B, n, B \cup {x}, {b})
        /\ \A a \in Int : b < a /\ a < x => n[a] = m[a]
    BY <2>14 DEF AfterSplit
  <2>8. \A c \in Free(m, B) : c \in Free(n, B \cup {x}) /\ BlockSize(n, c) = BlockSize(m, c)
    <3> SUFFICES ASSUME NEW c \in Free(m, B)
                 PROVE  c \in Free(n, B \cup {x}) /\ BlockSize(n, c) = BlockSize(m, c)
      OBVIOUS
    <3>1. c \in B /\ c # b
      BY <1>2 DEF Free
    <3> QED BY <2>5, <2>6, <3>1
  <2>9. \A c \in B \cup {x} : ThisAllocated(n, c) => c \in B /\ ThisAllocated(m, c)
    <3> SUFFICES ASSUME NEW c \in B \cup {x}, ThisAllocated(n, c)
                 PROVE  c \in B /\ ThisAllocated(m, c)
      OBVIOUS
    <3>1. c \notin Free(n, B \cup {x})
      BY DEF Free
    <3>2. c # x /\ c \notin Free(m, B) /\ c \in B
      BY <2>5, <3>1
    <3> QED BY <3>2 DEF Free
  <2>10. BlockSize(n, b) = k /\ getBlockAfter(n, b) <= getBlockAfter(m, b)
    <3>1. BlockSize(n, b) = k
      BY <2>6
    <3>2. x \in Nat /\ getBlockAfter(m, b) \in Nat
      BY <1>1, <1>2, <2>3
    <3> QED BY <2>6, <3>1, <3>2
  <2>11. /\ HeapOK(r.mem, r.blocks, E) /\ B \in SUBSET r.blocks
         /\ r.list \in Free(r.mem, r.blocks)
    BY <2>1, <2>5
  <2>12. /\ Spares(m, B, r.mem, r.blocks, {b})
         /\ \A c \in r.blocks \ B : b < c /\ c < getBlockAfter(m, b)
         /\ \A c \in r.blocks : ThisAllocated(r.mem, c) => c \in B /\ ThisAllocated(m, c)
    BY <2>1, <2>6, <2>7, <2>9
  <2>13. /\ \A c \in Free(m, B) : c \in Free(r.mem, r.blocks) /\ BlockSize(r.mem, c) = BlockSize(m, c)
         /\ ThisAllocated(r.mem, b) /\ BlockSize(r.mem, b) >= k
         /\ getBlockAfter(r.mem, b) <= getBlockAfter(m, b)
         /\ \A a \in Int : b < a /\ a < b + k => r.mem[a] = m[a]
    BY <1>1, <2>1, <2>3, <2>6, <2>7, <2>8, <2>10
  <2> QED BY <2>11, <2>12, <2>13 DEF k, AfterTrim
<1> QED BY <1>3, <1>4

\* What AllocateBlock leaves.
AfterAllocate(m, B, E, x, n) ==
  /\ HeapOK(n, B, E) /\ Free(n, B) = Free(m, B) \ {x}
  /\ \A b \in B : BlockSize(n, b) = BlockSize(m, b)
  /\ \A b \in B : ThisAllocated(n, b) <=> (ThisAllocated(m, b) \/ b = x)
  /\ Spares(m, B, n, B, {x})

\* Taking a free block out of the list leaves a heap.
LEMMA AllocateOK ==
  ASSUME NEW m, NEW B, NEW E, HeapOK(m, B, E), NEW x \in Free(m, B), NEW n,
         n = AllocateBlock(m, x)
  PROVE  AfterAllocate(m, B, E, x, n)
<1>1. HeapOK(n, B, E) /\ Free(n, B) = Free(m, B) \ {x}
  BY AllocateBlockOK
<1>2. \A b \in B : BlockSize(n, b) = BlockSize(m, b)
  BY AllocateBlockOK
<1>3. \A b \in B : ThisAllocated(n, b) <=> (ThisAllocated(m, b) \/ b = x)
  BY AllocateBlockOK
<1>4. \A b \in B : ThisAllocated(m, b) =>
        \A a \in Int : b < a /\ a < getBlockAfter(m, b) => n[a] = m[a]
  BY AllocateBlockOK
<1> QED BY <1>1, <1>2, <1>3, <1>4 DEF AfterAllocate, Spares

\* In a list of two blocks none is its own neighbour.
LEMMA NextIsOther ==
  ASSUME NEW m, NEW B, NEW E, HeapOK(m, B, E), NEW x \in Free(m, B), NEW t \in Free(m, B), x # t
  PROVE  NextFree(m, x) \in Free(m, B) \ {x}
<1>1. Linked(m, Free(m, B)) /\ OneRing(m, Free(m, B))
  BY DEF HeapOK
<1>2. NextFree(m, x) \in Free(m, B)
  BY <1>1 DEF Linked
<1>3. NextFree(m, x) # x
  <2> SUFFICES ASSUME NextFree(m, x) = x PROVE FALSE
    OBVIOUS
  <2>1. {x} \in SUBSET Free(m, B) /\ {x} # {} /\ \A c \in {x} : NextFree(m, c) \in {x}
    OBVIOUS
  <2>2. {x} = Free(m, B)
    BY <1>1, <2>1 DEF OneRing
  <2> QED BY <2>2
<1> QED BY <1>2, <1>3

\* The smallest heap: the tiny free block at u and an end block.
LEMMA SmallestHeap ==
  ASSUME NEW u \in Nat, u + 5 <= MemWords, NEW n \in [Addr -> Word],
         n[u] = Header(0, 1, 4), n[u + 1] = Number(u), n[u + 2] = Number(u),
         n[u + 3] = Number(4), NEW e, e = u + 4, n[e] = Header(1, 0, 1)
  PROVE  HeapWith(n, {u, e}, {e}, {u})
<1>1. /\ u \in Addr /\ e \in Addr /\ u # e
  BY SizeAssumption DEF Addr
<1>2. /\ BlockSize(n, u) = 4 /\ BlockSize(n, e) = 1
      /\ ~ThisAllocated(n, u) /\ ThisAllocated(n, e)
      /\ PrevAllocated(n, u) /\ ~PrevAllocated(n, e)
  BY DEF BlockSize, ThisAllocated, PrevAllocated, Header
<1>3. getBlockAfter(n, u) = e /\ getBlockAfter(n, e) = u + 5
  BY <1>2 DEF getBlockAfter
<1>4. NextFree(n, u) = u /\ PrevFree(n, u) = u /\ n[getBlockAfter(n, u) - 1].val = BlockSize(n, u)
  <2>1. getBlockAfter(n, u) - 1 = u + 3
    BY <1>3
  <2> QED BY <1>2, <2>1 DEF NextFree, PrevFree, Number
<1>5. Free(n, {u, e}) = {u}
  BY <1>1, <1>2 DEF Free
<1>6. Tiled(n, {u, e}, {e})
  <2>1. \A b \in {u, e} : /\ BlockSize(n, b) >= HeaderWords
                          /\ b + BlockSize(n, b) <= MemWords
                          /\ ~ThisAllocated(n, b) => BlockSize(n, b) >= MinBlockSize
    <3>1. u + 4 <= MemWords /\ e + 1 <= MemWords
      BY SizeAssumption
    <3> QED BY <1>2, <3>1 DEF HeaderWords, MinBlockSize, FreeHeaderWords
  <2>2. \A b \in {u, e} \ {e} : getBlockAfter(n, b) \in {u, e}
    BY <1>3
  <2>3. \A b, c \in {u, e} : b < c => getBlockAfter(n, b) <= c
    <3> SUFFICES ASSUME NEW b \in {u, e}, NEW c \in {u, e}, b < c PROVE getBlockAfter(n, b) <= c
      OBVIOUS
    <3>1. b = u /\ c = e
      OBVIOUS
    <3> QED BY <1>3, <3>1
  <2> QED BY <1>2, <2>1, <2>2, <2>3 DEF Tiled, HeaderWords
<1>7. FlagsAgree(n, {u, e}, {e}) /\ Coalesced(n, {u, e})
  BY <1>1, <1>2, <1>3, <1>5 DEF FlagsAgree, Coalesced
<1>8. BlocksOK(n, {u, e}, {e})
  BY <1>1, <1>6, <1>7 DEF BlocksOK
<1>9. Marked(n, {u}) /\ Linked(n, {u}) /\ OneRing(n, {u})
  BY <1>4 DEF Marked, Linked, OneRing
<1> QED BY <1>5, <1>8, <1>9 DEF HeapOK, HeapWith

\* An end block that is followed by a block is a fence inside a slab.
LEMMA FenceIsNoEnd ==
  ASSUME NEW m, NEW B, NEW E, NEW e \in E, NEW D, D = E \ {e}, HeapOK(m, B, E),
         getBlockAfter(m, e) \in B, PrevAllocated(m, getBlockAfter(m, e))
  PROVE  HeapOK(m, B, D)
<1>1. Tiled(m, B, E) /\ FlagsAgree(m, B, E)
  BY DEF HeapOK, BlocksOK
<1>2. ThisAllocated(m, e)
  BY <1>1 DEF Tiled
<1>3. \A b \in B \ D : b \in B \ E \/ b = e
  OBVIOUS
<1>4. Tiled(m, B, D)
  BY <1>1, <1>3 DEF Tiled
<1>5. FlagsAgree(m, B, D)
  BY <1>1, <1>2, <1>3 DEF FlagsAgree
<1> QED BY <1>4, <1>5 DEF HeapOK, BlocksOK

\* The heap of the first slab.
LEMMA InitialHeap ==
  ASSUME NEW s \in [base : Addr, size : Nat], s.size >= DefaultCodeSlabSize,
         s.base + s.size <= MemWords, NEW n, n = InitialMemory(s)
  PROVE  /\ HeapWith(n, {Mem0(s), Mem1(s), Mem2(s), Mem3(s)}, {Mem3(s)}, {Mem0(s), Mem2(s)})
         /\ n[Mem1(s)] = Header(1, 0, 1) /\ n[Mem2(s)] = Header(0, 1, 4)
         /\ n[Mem3(s)] = Header(1, 0, 1)
<1> DEFINE u == Mem2(s)
           e == Mem3(s)
           f == Mem1(s)
           x == s.base
           g == [a \in Addr |-> Garbage]
           a3 == [g EXCEPT ![e] = Header(1, 0, 1)]
           b2 == [a3 EXCEPT ![u] = Header(0, 1, 4), ![u + 1] = Number(u), ![u + 2] = Number(u)]
           m2 == [b2 EXCEPT ![u + 3] = Number(4)]
           t == [base |-> x, size |-> f - x + 1]
<1>1. /\ x \in Nat /\ e = u + 4 /\ u = f + 1 /\ f >= x + 4 /\ e + 1 <= MemWords
      /\ u \in Nat /\ f \in Nat /\ e \in Nat /\ f - x + 1 \in Nat
  BY SizeAssumption DEF Mem0, Mem1, Mem2, Mem3, EndBlock, HeaderWords, MinBlockSize, FreeHeaderWords, Addr
<1> HIDE DEF u, e, f, x
<1>2. /\ u \in Addr /\ u + 1 \in Addr /\ u + 2 \in Addr /\ u + 3 \in Addr /\ e \in Addr
      /\ u # u + 1 /\ u # u + 2 /\ u # u + 3 /\ u # e /\ u + 1 # u + 2 /\ u + 1 # u + 3
      /\ u + 1 # e /\ u + 2 # u + 3 /\ u + 2 # e /\ u + 3 # e
  BY <1>1, SizeAssumption DEF Addr
<1>3. /\ Header(1, 0, 1) \in Word /\ Header(0, 1, 4) \in Word /\ Number(u) \in Word
      /\ Number(4) \in Word /\ Garbage \in Word
  BY <1>1 DEF Header, Number, Garbage, Word
<1>4. a3 \in [Addr -> Word] /\ a3[e] = Header(1, 0, 1)
  BY <1>2, <1>3
<1> HIDE DEF a3
<1>5. /\ b2 \in [Addr -> Word] /\ b2[u] = Header(0, 1, 4) /\ b2[u + 1] = Number(u)
      /\ b2[u + 2] = Number(u) /\ b2[e] = Header(1, 0, 1)
  BY <1>2, <1>3, <1>4
<1> HIDE DEF b2
<1>6. /\ m2 \in [Addr -> Word] /\ m2[u] = Header(0, 1, 4) /\ m2[u + 1] = Number(u)
      /\ m2[u + 2] = Number(u) /\ m2[e] = Header(1, 0, 1) /\ m2[u + 3] = Number(4)
  BY <1>2, <1>3, <1>5
<1>7. m2 = SetEndOfBlockSizeMarker(b2, u)
  <2>1. BlockSize(b2, u) = 4 /\ getBlockAfter(b2, u) - 1 = u + 3
    BY <1>1, <1>5 DEF BlockSize, getBlockAfter, Header
  <2> QED BY <2>1 DEF SetEndOfBlockSizeMarker
<1>8. n = allocateNewCodeSlab(m2, t, u)
  <2>1. EndBlock(t) = f /\ t.size - HeaderWords = f - x /\ t.base = x
    BY <1>1 DEF EndBlock, HeaderWords
  <2> HIDE DEF t, m2
  <2>2. n = AddToFreeList(SetEndOfBlockSizeMarker([[m2 EXCEPT ![f] = Header(1, 0, 1)]
                 EXCEPT ![x] = Header(0, 1, f - x)], x), x, u)
    BY <1>7 DEF InitialMemory, Mem0, u, e, f, x, a3, b2, HeaderWords, MinBlockSize, FreeHeaderWords
  <2>3. [[m2 EXCEPT ![f] = Header(1, 0, 1)] EXCEPT ![x] = Header(0, 1, f - x)]
        = [m2 EXCEPT ![f] = Header(1, 0, 1), ![x] = Header(0, 1, f - x)]
    OBVIOUS
  <2> QED BY <2>1, <2>2, <2>3 DEF allocateNewCodeSlab, HeaderWords
<1> HIDE DEF m2
<1>9. HeapWith(m2, {u, e}, {e}, {u})
  BY <1>1, <1>6, SmallestHeap
<1>10. AfterNewSlab(m2, {u, e}, {e}, x, f, n)
  <2>1. HeapOK(m2, {u, e}, {e}) /\ u \in Free(m2, {u, e})
    BY <1>9 DEF HeapWith
  <2>2. x \in Nat /\ f \in Nat /\ x + 4 <= f /\ f + 1 <= MemWords
    BY <1>1, SizeAssumption
  <2>3. \A b \in {u, e} : getBlockAfter(m2, b) <= x \/ f < b
    BY <1>1
  <2>4. t.base = x /\ t.size \in Nat /\ EndBlock(t) = f
    BY <1>1 DEF EndBlock, HeaderWords
  <2> HIDE DEF t
  <2> QED BY ONLY <1>8, <2>1, <2>2, <2>3, <2>4, NewSlabOK
<1>11. /\ n[f] = Header(1, 0, 1) /\ n[u] = Header(0, 1, 4) /\ n[e] = Header(1, 0, 1)
  BY <1>6, <1>10 DEF AfterNewSlab, HeaderWords
<1>12. /\ HeapOK(n, {u, e} \cup {x, f}, {e} \cup {f})
       /\ Free(n, {u, e} \cup {x, f}) = {u} \cup {x}
  BY <1>9, <1>10 DEF AfterNewSlab, HeapWith
<1>13. HeapOK(n, {u, e} \cup {x, f}, {e})
  <2>1. getBlockAfter(n, f) = u /\ PrevAllocated(n, u)
    BY <1>1, <1>11 DEF getBlockAfter, BlockSize, PrevAllocated, Header
  <2>2. {e} = ({e} \cup {f}) \ {f}
    BY <1>1
  <2> QED BY <1>12, <2>1, <2>2, FenceIsNoEnd
<1>14. {u, e} \cup {x, f} = {x, f, u, e} /\ {u} \cup {x} = {x, u}
  OBVIOUS
<1> QED BY <1>11, <1>12, <1>13, <1>14 DEF u, e, f, x, Mem0, HeapWith

-----------------------------------------------------------------------------
(* What the invariant says of the slabs, the fences and the tombstone      *)

\* What the invariant says of the heap.
LEMMA HeapFacts ==
  ASSUME IInv
  PROVE  /\ HeapOK(mem, blocks, EndBlocks) /\ BlocksOK(mem, blocks, EndBlocks)
         /\ blocks \in SUBSET Addr /\ mem \in [Addr -> Word]
         /\ \A e \in EndBlocks : e \in blocks /\ ThisAllocated(mem, e) /\ BlockSize(mem, e) = 1
<1>1. HeapOK(mem, blocks, EndBlocks)
  BY DEF IInv
<1>2. BlocksOK(mem, blocks, EndBlocks)
  BY <1>1 DEF HeapOK
<1> QED BY <1>1, <1>2 DEF BlocksOK, Tiled, HeaderWords

\* What the invariant says of the slabs.
LEMMA SlabFacts ==
  ASSUME IInv
  PROVE  /\ \A s \in Slabs : /\ s \in [base : Addr, size : Nat]
                             /\ s.base \in Nat /\ s.size \in Nat /\ s.size >= 10
                             /\ EndBlock(s) = s.base + s.size - 1 /\ EndBlock(s) \in EndBlocks
         /\ CodeSlabs[1] \in Slabs /\ Len(CodeSlabs) \in Nat /\ Len(CodeSlabs) >= 1
<1>1. CodeSlabs \in Seq([base : Addr, size : Nat]) /\ CodeSlabs # <<>>
  BY DEF IInv, TypeOK, SlabsOK
<1>2. \A s \in Slabs : s \in [base : Addr, size : Nat] /\ s.size >= DefaultCodeSlabSize
  <2> SUFFICES ASSUME NEW s \in Slabs
               PROVE  s \in [base : Addr, size : Nat] /\ s.size >= DefaultCodeSlabSize
    OBVIOUS
  <2>1. PICK i \in 1 .. Len(CodeSlabs) : s = CodeSlabs[i]
    BY DEF Slabs
  <2>2. s.size >= DefaultCodeSlabSize
    BY DEF IInv, SlabsOK
  <2>3. s \in [base : Addr, size : Nat]
    <3> DEFINE T == [base : Addr, size : Nat]
    <3>1. CodeSlabs \in Seq(T)
      BY <1>1
    <3> HIDE DEF T
    <3>2. CodeSlabs[i] \in T
      BY <3>1
    <3> QED BY <2>1, <3>2 DEF T
  <2> QED BY <2>2, <2>3
<1>3. \A s \in Slabs : s.base \in Nat /\ s.size \in Nat /\ s.size >= 10
  BY <1>2, SizeAssumption DEF Addr, MinBlockSize, FreeHeaderWords, HeaderWords
<1>4. \A s \in Slabs : EndBlock(s) = s.base + s.size - 1 /\ EndBlock(s) \in EndBlocks
  BY <1>3 DEF EndBlock, EndBlocks, HeaderWords
<1>5. CodeSlabs[1] \in Slabs /\ Len(CodeSlabs) \in Nat /\ Len(CodeSlabs) >= 1
  BY <1>1 DEF Slabs
<1> QED BY <1>2, <1>3, <1>4, <1>5

\* The tombstone lies between two fences, and its neighbours stay allocated.
LEMMA TombstoneFacts ==
  ASSUME IInv
  PROVE  /\ Tombstone \in Free(mem, blocks) /\ BlockSize(mem, Tombstone) = 4
         /\ getBlockAfter(mem, Tombstone) \in EndBlocks
         /\ Fences \in SUBSET blocks /\ \A e \in Fences : ThisAllocated(mem, e)
         /\ \A b \in blocks \ Fences : getBlockAfter(mem, b) # Tombstone
                                       /\ b # getBlockAfter(mem, Tombstone)
         /\ EndBlocks \in SUBSET Fences /\ Mem1(CodeSlabs[1]) \in Fences
<1>1. /\ Tombstone \in Free(mem, blocks) /\ BlockSize(mem, Tombstone) = 4
      /\ Mem1(CodeSlabs[1]) \in blocks /\ ThisAllocated(mem, Mem1(CodeSlabs[1]))
      /\ getBlockAfter(mem, Mem1(CodeSlabs[1])) = Tombstone
  BY DEF IInv, TombstoneOK, MinBlockSize, FreeHeaderWords
<1>2. EndBlock(CodeSlabs[1]) \in EndBlocks /\ EndBlock(CodeSlabs[1]) \in Int
  BY SlabFacts
<1>3. getBlockAfter(mem, Tombstone) = EndBlock(CodeSlabs[1])
  BY <1>1, <1>2 DEF getBlockAfter, Tombstone, Mem2, Mem3, MinBlockSize, FreeHeaderWords
<1>4. Fences \in SUBSET blocks /\ \A e \in Fences : ThisAllocated(mem, e)
  BY <1>1, HeapFacts DEF Fences
<1>5. EndBlocks \in SUBSET Fences /\ Mem1(CodeSlabs[1]) \in Fences
  BY DEF Fences
<1>6. ASSUME NEW b \in blocks \ Fences
      PROVE  getBlockAfter(mem, b) # Tombstone /\ b # getBlockAfter(mem, Tombstone)
  <2>1. b # Mem1(CodeSlabs[1]) /\ b \notin EndBlocks
    BY <1>5
  <2>2. getBlockAfter(mem, b) # Tombstone
    BY <1>1, <2>1, HeapFacts, AfterIsOfOne
  <2> QED BY <1>2, <1>3, <2>1, <2>2
<1> QED BY <1>1, <1>2, <1>3, <1>4, <1>5, <1>6

\* A block that clients own lies well inside its slab.
LEMMA InsideItsSlab ==
  ASSUME IInv, NEW b \in blocks \ EndBlocks
  PROVE  \E s \in Slabs : /\ s.base <= b /\ b < s.base + s.size
                          /\ getBlockAfter(mem, b) < s.base + s.size
<1>1. PICK s \in Slabs : s.base <= b /\ b < s.base + s.size
  BY DEF IInv, SlabsOK, InSlabs
<1>2. EndBlock(s) \in blocks /\ EndBlock(s) = s.base + s.size - 1 /\ EndBlock(s) # b
      /\ s.base \in Nat /\ s.size \in Nat
  BY SlabFacts, HeapFacts
<1>3. b \in Nat /\ getBlockAfter(mem, b) \in Nat
  BY HeapFacts, BlockFacts
<1>4. b < EndBlock(s)
  <2>1. b # s.base + s.size - 1
    BY <1>2
  <2>2. ASSUME NEW x \in Nat, NEW y \in Nat, NEW c \in Nat, c < x + y, c # x + y - 1
        PROVE  c < x + y - 1
    BY <2>2
  <2>3. b < s.base + s.size - 1
    BY <1>1, <1>2, <1>3, <2>1, <2>2
  <2> QED BY <1>2, <2>3
<1>5. getBlockAfter(mem, b) <= EndBlock(s)
  BY <1>2, <1>4, HeapFacts DEF BlocksOK, Tiled
<1>6. getBlockAfter(mem, b) < s.base + s.size
  BY <1>2, <1>3, <1>5
<1> QED BY <1>1, <1>6

\* Slabs begin with a block, whichever block the heap C has lost or got.
BlocksOfSlabs(C) == (\A s \in Slabs : s.base \in C) /\ InSlabs(C, Slabs)

\* Merging blocks leaves the slabs their first blocks.
LEMMA SlabsOfFewer ==
  ASSUME IInv, NEW C \in SUBSET blocks,
         \A c \in blocks \ C : \E p \in blocks \ EndBlocks : getBlockAfter(mem, p) = c
  PROVE  BlocksOfSlabs(C)
<1>1. InSlabs(C, Slabs)
  BY DEF IInv, SlabsOK, InSlabs
<1>2. ASSUME NEW s \in Slabs PROVE s.base \in C
  <2> SUFFICES ASSUME s.base \notin C PROVE FALSE
    OBVIOUS
  <2>1. s.base \in blocks
    BY DEF IInv, SlabsOK
  <2>2. PICK p \in blocks \ EndBlocks : getBlockAfter(mem, p) = s.base
    BY <2>1
  <2>3. PICK t \in Slabs : /\ t.base <= p /\ p < t.base + t.size
                           /\ s.base < t.base + t.size
    BY <2>2, InsideItsSlab
  <2>4. p \in Nat /\ p < s.base
    BY <2>2, HeapFacts, BlockFacts
  <2>5. s.base \in Nat /\ s.size \in Nat /\ s.size >= 10 /\ t.base \in Nat
    BY SlabFacts
  <2>6. t # s
    BY <2>3, <2>4, <2>5
  <2>7. Overlap(s.base, s.base + s.size, t.base, t.base + t.size)
    BY <2>3, <2>4, <2>5 DEF Overlap
  <2>8. ~Overlap(s.base, s.base + s.size, t.base, t.base + t.size)
    BY <2>6 DEF IInv, SlabsOK
  <2> QED BY <2>7, <2>8
<1> QED BY <1>1, <1>2 DEF BlocksOfSlabs

\* A block that is cut off another one is in the same slab.
LEMMA SlabsOfMore ==
  ASSUME IInv, NEW C, blocks \in SUBSET C, NEW b \in blocks \ EndBlocks,
         \A c \in C : c \in Int,
         \A c \in C \ blocks : b < c /\ c < getBlockAfter(mem, b)
  PROVE  BlocksOfSlabs(C)
<1>1. \A s \in Slabs : s.base \in C
  BY DEF IInv, SlabsOK
<1>2. ASSUME NEW c \in C PROVE \E s \in Slabs : s.base <= c /\ c < s.base + s.size
  <2>1. CASE c \in blocks
    BY <2>1 DEF IInv, SlabsOK, InSlabs
  <2>2. CASE c \notin blocks
    <3>1. PICK s \in Slabs : /\ s.base <= b /\ getBlockAfter(mem, b) < s.base + s.size
      BY InsideItsSlab
    <3>2. b < c /\ c < getBlockAfter(mem, b) /\ c \in Int
      BY <2>2
    <3>3. s.base \in Nat /\ s.size \in Nat /\ b \in Nat /\ getBlockAfter(mem, b) \in Nat
      BY SlabFacts, HeapFacts, BlockFacts
    <3> QED BY <3>1, <3>2, <3>3
  <2> QED BY <2>1, <2>2
<1> QED BY <1>1, <1>2 DEF BlocksOfSlabs, InSlabs

\* What a client owns, as far as the memory m with the blocks B shows it.
OwnedIn(m, B, x) ==
  /\ x.block \in B /\ ThisAllocated(m, x.block) /\ BlockSize(m, x.block) >= 4
  /\ x.block < x.start /\ x.start < x.end /\ x.end <= getBlockAfter(m, x.block)
  /\ \A a \in x.start .. x.end - 1 : m[a] = Code

\* What the invariant says of something a client owns.
LEMMA OwnedFacts ==
  ASSUME IInv, NEW x \in live
  PROVE  /\ OwnedIn(mem, blocks, x) /\ x.block \notin Fences /\ x \in Owned
         /\ x.block \in LiveBlocks /\ x.block \in blocks /\ ThisAllocated(mem, x.block)
         /\ x.block \in Nat /\ x.start \in Nat /\ x.end \in Nat
<1>1. x \in Owned
  BY DEF IInv, TypeOK
<1>2. x.block \in Nat /\ x.start \in Nat /\ x.end \in Nat
  BY <1>1, SizeAssumption DEF Owned, Addr
<1>3. /\ IsOwned(x.block)
      /\ x.block < x.start /\ x.start < x.end /\ x.end <= getBlockAfter(mem, x.block)
      /\ \A a \in x.start .. x.end - 1 : mem[a] = Code
  BY DEF IInv, LiveOK
<1> QED BY <1>1, <1>2, <1>3 DEF OwnedIn, IsOwned, LiveBlocks, MinBlockSize, FreeHeaderWords

\* What an operation spares is still owned afterwards.
LEMMA OwnedStays ==
  ASSUME IInv, NEW n, NEW C, NEW X, Spares(mem, blocks, n, C, X), NEW x \in live, x.block \notin X
  PROVE  OwnedIn(n, C, x)
<1>1. /\ OwnedIn(mem, blocks, x) /\ x.block \in Nat /\ x.start \in Nat /\ x.end \in Nat
  BY OwnedFacts
<1>2. /\ x.block \in C /\ ThisAllocated(n, x.block) /\ BlockSize(n, x.block) = BlockSize(mem, x.block)
      /\ \A a \in Int : x.block < a /\ a < getBlockAfter(mem, x.block) => n[a] = mem[a]
  BY <1>1 DEF Spares, OwnedIn
<1>3. getBlockAfter(n, x.block) = getBlockAfter(mem, x.block) /\ getBlockAfter(mem, x.block) \in Nat
  BY <1>1, <1>2, HeapFacts, BlockFacts DEF getBlockAfter, OwnedIn
<1>4. ASSUME NEW a \in x.start .. x.end - 1 PROVE n[a] = Code
  <2>1. a \in Int /\ x.block < a /\ a < getBlockAfter(mem, x.block)
    BY <1>1, <1>3 DEF OwnedIn
  <2> QED BY <1>1, <1>2, <2>1 DEF OwnedIn
<1> QED BY <1>1, <1>2, <1>3, <1>4 DEF OwnedIn

\* So is the fence before the tombstone, when it is spared.
LEMMA TombstoneStays ==
  ASSUME IInv, NEW n, NEW C, NEW X, Spares(mem, blocks, n, C, X), X \cap Fences = {},
         Tombstone \in Free(n, C), BlockSize(n, Tombstone) = 4
  PROVE  /\ Mem1(CodeSlabs[1]) \in C /\ ThisAllocated(n, Mem1(CodeSlabs[1]))
         /\ getBlockAfter(n, Mem1(CodeSlabs[1])) = Tombstone
<1>1. /\ Mem1(CodeSlabs[1]) \in blocks /\ ThisAllocated(mem, Mem1(CodeSlabs[1]))
      /\ getBlockAfter(mem, Mem1(CodeSlabs[1])) = Tombstone /\ Mem1(CodeSlabs[1]) \notin X
  BY TombstoneFacts DEF IInv, TombstoneOK
<1> QED BY <1>1 DEF Spares, getBlockAfter

-----------------------------------------------------------------------------
(* The invariant holds at first                                            *)

\* The constructor makes a heap.
LEMMA InitOK == Init => IInv
<1> SUFFICES ASSUME Init PROVE IInv
  OBVIOUS
<1>1. PICK s \in AllocateRWX(DefaultCodeSlabSize, {}) :
        /\ CodeSlabs = <<s>>
        /\ mem = InitialMemory(s)
        /\ FreeMemoryList = Mem0(s)
        /\ blocks = {Mem0(s), Mem1(s), Mem2(s), Mem3(s)}
  BY DEF Init
<1>2. CurBlock = NoBlock /\ pc = "idle" /\ search = NoSearch /\ emitted = 0 /\ live = {}
  BY DEF Init
<1>3. /\ s \in [base : Addr, size : Nat] /\ s.base \in Nat /\ s.base \in Addr
      /\ s.size \in Nat /\ s.size >= 10
      /\ s.size >= DefaultCodeSlabSize /\ s.base + s.size <= MemWords
  <2>1. /\ s \in [base : Addr, size : DefaultCodeSlabSize .. DefaultCodeSlabSize + PageWords - 1]
        /\ s.base + s.size <= MemWords
    BY DEF AllocateRWX
  <2>2. s.base \in Addr /\ s.size \in Int /\ s.size >= DefaultCodeSlabSize
    BY <2>1, SizeAssumption
  <2>3. s = [base |-> s.base, size |-> s.size]
    BY <2>1
  <2>4. DefaultCodeSlabSize \in Nat /\ DefaultCodeSlabSize >= 10
    BY SizeAssumption DEF MinBlockSize, FreeHeaderWords, HeaderWords
  <2>5. s.size \in Nat /\ s.size >= 10
    BY <2>2, <2>4
  <2> QED BY <2>1, <2>2, <2>3, <2>5, SizeAssumption DEF Addr
<1>4. Slabs = {s} /\ CodeSlabs[1] = s
  BY <1>1 DEF Slabs
<1>5. /\ HeapWith(mem, blocks, {Mem3(s)}, {Mem0(s), Mem2(s)})
      /\ mem[Mem1(s)] = Header(1, 0, 1) /\ mem[Mem2(s)] = Header(0, 1, 4)
      /\ mem[Mem3(s)] = Header(1, 0, 1)
  BY <1>1, <1>3, InitialHeap
<1>6. /\ Mem0(s) = s.base /\ Mem1(s) = s.base + s.size - 6
      /\ Mem2(s) = s.base + s.size - 5 /\ Mem3(s) = s.base + s.size - 1
  BY <1>3 DEF Mem0, Mem1, Mem2, Mem3, EndBlock, HeaderWords, MinBlockSize, FreeHeaderWords
<1>7. EndBlocks = {Mem3(s)} /\ Fences = {Mem3(s), Mem1(s)} /\ Tombstone = Mem2(s)
  BY <1>4 DEF EndBlocks, Mem3, Fences, Tombstone
<1>8. HeapOK(mem, blocks, EndBlocks) /\ Free(mem, blocks) = {Mem0(s), Mem2(s)}
  BY <1>5, <1>7 DEF HeapWith
<1>9. blocks \in SUBSET Addr /\ mem \in [Addr -> Word]
  BY <1>8 DEF HeapOK, BlocksOK
<1>10. TypeOK
  <2>1. 0 \in Addr
    BY <1>3, SizeAssumption DEF Addr
  <2>2. CodeSlabs \in Seq([base : Addr, size : Nat])
    <3> DEFINE T == [base : Addr, size : Nat]
    <3>1. s \in T
      BY <1>3
    <3> HIDE DEF T
    <3>2. <<s>> \in Seq(T)
      BY <3>1
    <3> QED BY <1>1, <3>2 DEF T
  <2>3. FreeMemoryList \in Addr
    BY <1>1, <1>3, <1>6
  <2> QED BY <1>2, <1>9, <2>1, <2>2, <2>3 DEF TypeOK, NoBlock, NoSearch
<1>11. SlabsOK
  <2>1. InSlabs(blocks, Slabs)
    <3> SUFFICES ASSUME NEW b \in blocks PROVE s.base <= b /\ b < s.base + s.size
      BY <1>4 DEF InSlabs
    <3> QED BY <1>1, <1>3, <1>6
  <2>2. CodeSlabs # <<>>
    BY <1>1
  <2> QED BY <1>1, <1>3, <1>4, <1>6, <2>1, <2>2 DEF SlabsOK
<1>12. TombstoneOK
  <2>1. BlockSize(mem, Mem2(s)) = 4 /\ ThisAllocated(mem, Mem1(s)) /\ BlockSize(mem, Mem1(s)) = 1
    BY <1>5 DEF BlockSize, ThisAllocated, Header
  <2>2. getBlockAfter(mem, Mem1(s)) = Mem2(s)
    BY <1>3, <1>6, <2>1 DEF getBlockAfter
  <2> QED BY <1>1, <1>4, <1>7, <1>8, <2>1, <2>2 DEF TombstoneOK, MinBlockSize, FreeHeaderWords
<1>13. ListOK /\ SearchOK
  BY <1>1, <1>2, <1>8 DEF ListOK, SearchOK
<1>14. OpenedOK /\ LiveOK
  BY <1>2 DEF OpenedOK, LiveOK
<1>15. NothingLeaks
  <2> SUFFICES ASSUME NEW b \in blocks, ThisAllocated(mem, b) PROVE b \in Fences
    BY DEF NothingLeaks
  <2>1. b \notin Free(mem, blocks)
    BY DEF Free
  <2> QED BY <1>1, <1>7, <1>8, <2>1
<1> QED BY <1>8, <1>10, <1>11, <1>12, <1>13, <1>14, <1>15 DEF IInv

-----------------------------------------------------------------------------
(* Looking for a free block                                                *)

\* What the invariant says of the free list and the search of it.
LEMMA ListFacts ==
  ASSUME IInv
  PROVE  /\ FreeMemoryList \in Free(mem, blocks)
         /\ \A b \in Free(mem, blocks) : /\ NextFree(mem, b) \in Free(mem, blocks)
                                         /\ b \in blocks /\ b \in Addr /\ BlockSize(mem, b) \in Nat
         /\ pc = "searching" => /\ search.iter \in Free(mem, blocks)
                                /\ search.candidate \in Free(mem, blocks)
                                /\ search \in [iter : Addr, candidate : Addr, size : RequestSizes \cup {0}]
<1>1. \A b \in Free(mem, blocks) : NextFree(mem, b) \in Free(mem, blocks) /\ b \in blocks
  BY HeapFacts, LinkFacts
<1> QED BY <1>1, HeapFacts, BlockFacts DEF IInv, ListOK, TypeOK

\* A search begins with the head of the list, seen.
LEMMA StartStep ==
  ASSUME IInv, NEW size \in RequestSizes, startFunctionBody(size)
  PROVE  IInv'
<1>1. /\ pc = "idle" /\ pc' = "searching"
      /\ search' = [iter |-> NextFree(mem, FreeMemoryList), candidate |-> FreeMemoryList, size |-> size]
      /\ mem' = mem /\ CodeSlabs' = CodeSlabs /\ FreeMemoryList' = FreeMemoryList
      /\ CurBlock' = CurBlock /\ emitted' = emitted /\ live' = live /\ blocks' = blocks
  BY DEF startFunctionBody
<1>2. /\ Slabs' = Slabs /\ EndBlocks' = EndBlocks /\ Fences' = Fences /\ Tombstone' = Tombstone
      /\ LiveBlocks' = LiveBlocks
  BY <1>1 DEF Slabs, EndBlocks, Fences, Tombstone, LiveBlocks
<1>3. TypeOK'
  BY <1>1, ListFacts DEF IInv, TypeOK
<1>4. HeapOK(mem, blocks, EndBlocks)'
  BY <1>1, <1>2, HeapFacts
<1>5. SlabsOK' /\ TombstoneOK'
  BY <1>1, <1>2 DEF IInv, SlabsOK, TombstoneOK
<1>6. ListOK'
  BY <1>1, ListFacts DEF ListOK
<1>7. SearchOK'
  <2> DEFINE V == {FreeMemoryList}
  <2>1. V \in SUBSET Free(mem, blocks) /\ FreeMemoryList \in V
    BY ListFacts
  <2>2. search'.iter = NextFree(mem, FreeMemoryList) /\ search'.candidate = FreeMemoryList
    BY <1>1
  <2>3. \A b \in V : /\ NextFree(mem, b) \in V \cup {search'.iter}
                     /\ BlockSize(mem, b) <= BlockSize(mem, search'.candidate)
    BY <2>1, <2>2, ListFacts
  <2> QED BY <1>1, <2>1, <2>3 DEF SearchOK
<1>8. OpenedOK' /\ LiveOK'
  BY <1>1, <1>2 DEF IInv, OpenedOK, LiveOK, IsOwned, BufferBegin, BufferEnd
<1>9. NothingLeaks'
  BY <1>1, <1>2 DEF IInv, NothingLeaks, Opened
<1> QED BY <1>3, <1>4, <1>5, <1>6, <1>7, <1>8, <1>9 DEF IInv

\* A search sees one more block, and keeps the larger one.
LEMMA SearchStep == IInv /\ SearchFreeList => IInv'
<1> SUFFICES ASSUME IInv, SearchFreeList PROVE IInv'
  OBVIOUS
<1> DEFINE best == IF BlockSize(mem, search.iter) > BlockSize(mem, search.candidate)
                   THEN search.iter ELSE search.candidate
<1>1. /\ pc = "searching" /\ search.iter # FreeMemoryList
      /\ search' = [search EXCEPT !.iter = NextFree(mem, search.iter), !.candidate = best]
      /\ mem' = mem /\ CodeSlabs' = CodeSlabs /\ FreeMemoryList' = FreeMemoryList /\ pc' = pc
      /\ CurBlock' = CurBlock /\ emitted' = emitted /\ live' = live /\ blocks' = blocks
  BY DEF SearchFreeList
<1>2. /\ Slabs' = Slabs /\ EndBlocks' = EndBlocks /\ Fences' = Fences /\ Tombstone' = Tombstone
      /\ LiveBlocks' = LiveBlocks
  BY <1>1 DEF Slabs, EndBlocks, Fences, Tombstone, LiveBlocks
<1>3. /\ search.iter \in Free(mem, blocks) /\ search.candidate \in Free(mem, blocks)
      /\ best \in Free(mem, blocks) /\ NextFree(mem, search.iter) \in Free(mem, blocks)
      /\ BlockSize(mem, search.iter) <= BlockSize(mem, best)
      /\ BlockSize(mem, search.candidate) <= BlockSize(mem, best)
      /\ BlockSize(mem, search.candidate) \in Nat /\ BlockSize(mem, best) \in Nat
  BY <1>1, ListFacts
<1> HIDE DEF best
<1>4. search'.iter = NextFree(mem, search.iter) /\ search'.candidate = best /\ search'.size = search.size
  BY <1>1, ListFacts
<1>5. TypeOK'
  <2>1. search' \in [iter : Addr, candidate : Addr, size : RequestSizes \cup {0}]
    BY <1>1, <1>3, ListFacts
  <2> QED BY <1>1, <2>1 DEF IInv, TypeOK
<1>6. HeapOK(mem, blocks, EndBlocks)'
  BY <1>1, <1>2, HeapFacts
<1>7. SlabsOK' /\ TombstoneOK'
  BY <1>1, <1>2 DEF IInv, SlabsOK, TombstoneOK
<1>8. ListOK'
  BY <1>1, <1>3, <1>4, ListFacts DEF ListOK
<1>9. SearchOK'
  <2>1. PICK V \in SUBSET Free(mem, blocks) :
          /\ FreeMemoryList \in V
          /\ \A b \in V : /\ NextFree(mem, b) \in V \cup {search.iter}
                          /\ BlockSize(mem, b) <= BlockSize(mem, search.candidate)
    BY <1>1 DEF IInv, SearchOK
  <2> DEFINE W == V \cup {search.iter}
  <2>2. W \in SUBSET Free(mem, blocks) /\ FreeMemoryList \in W
    BY <1>3, <2>1
  <2>3. ASSUME NEW b \in W
        PROVE  /\ NextFree(mem, b) \in W \cup {search'.iter}
               /\ BlockSize(mem, b) <= BlockSize(mem, search'.candidate)
    <3>1. CASE b = search.iter
      BY <1>3, <1>4, <3>1
    <3>2. CASE b \in V
      <4>1. BlockSize(mem, b) \in Nat /\ BlockSize(mem, b) <= BlockSize(mem, search.candidate)
            /\ NextFree(mem, b) \in W
        BY <2>1, <3>2, ListFacts
      <4> QED BY <1>3, <1>4, <4>1
    <3> QED BY <3>1, <3>2
  <2> QED BY <1>1, <2>2, <2>3 DEF SearchOK
<1>10. OpenedOK' /\ LiveOK'
  BY <1>1, <1>2 DEF IInv, OpenedOK, LiveOK, IsOwned, BufferBegin, BufferEnd
<1>11. NothingLeaks'
  BY <1>1, <1>2 DEF IInv, NothingLeaks, Opened
<1> QED BY <1>5, <1>6, <1>7, <1>8, <1>9, <1>10, <1>11 DEF IInv

\* A failed call changes nothing.
LEMMA FailStep == IInv /\ AllocationFails => IInv'
<1> SUFFICES ASSUME IInv, AllocationFails PROVE IInv'
  OBVIOUS
<1>1. /\ pc = "searching" /\ pc' = "fatal" /\ search' = NoSearch
      /\ mem' = mem /\ CodeSlabs' = CodeSlabs /\ FreeMemoryList' = FreeMemoryList
      /\ CurBlock' = CurBlock /\ emitted' = emitted /\ live' = live /\ blocks' = blocks
  BY DEF AllocationFails, SearchDone
<1>2. /\ Slabs' = Slabs /\ EndBlocks' = EndBlocks /\ Fences' = Fences /\ Tombstone' = Tombstone
      /\ LiveBlocks' = LiveBlocks
  BY <1>1 DEF Slabs, EndBlocks, Fences, Tombstone, LiveBlocks
<1>3. TypeOK'
  <2>1. 0 \in Addr
    BY ListFacts, SizeAssumption DEF Addr
  <2>2. search' \in [iter : Addr, candidate : Addr, size : RequestSizes \cup {0}]
    BY <1>1, <2>1 DEF NoSearch
  <2> QED BY <1>1, <2>2 DEF IInv, TypeOK
<1>4. HeapOK(mem, blocks, EndBlocks)'
  BY <1>1, <1>2, HeapFacts
<1>5. SlabsOK' /\ TombstoneOK'
  BY <1>1, <1>2 DEF IInv, SlabsOK, TombstoneOK
<1>6. ListOK' /\ SearchOK'
  BY <1>1, ListFacts DEF ListOK, SearchOK
<1>7. OpenedOK' /\ LiveOK'
  BY <1>1, <1>2 DEF IInv, OpenedOK, LiveOK, IsOwned, BufferBegin, BufferEnd
<1>8. NothingLeaks'
  BY <1>1, <1>2 DEF IInv, NothingLeaks, Opened
<1> QED BY <1>3, <1>4, <1>5, <1>6, <1>7, <1>8 DEF IInv

-----------------------------------------------------------------------------
(* Opening a block                                                         *)

\* The candidate becomes the current block.
LEMMA UseStep == IInv /\ UseFreeBlock => IInv'
<1> SUFFICES ASSUME IInv, UseFreeBlock PROVE IInv'
  OBVIOUS
<1> DEFINE c == search.candidate
<1>1. /\ pc = "searching" /\ ~TooSmall /\ mem' = AllocateBlock(mem, c)
      /\ FreeMemoryList' = NextFree(mem, c) /\ CurBlock' = c /\ pc' = "emitting"
      /\ search' = NoSearch /\ emitted' = emitted /\ live' = live
      /\ CodeSlabs' = CodeSlabs /\ blocks' = blocks
  BY DEF UseFreeBlock, SearchDone, OpenBlock
<1>2. /\ Slabs' = Slabs /\ EndBlocks' = EndBlocks /\ Fences' = Fences /\ Tombstone' = Tombstone
      /\ LiveBlocks' = LiveBlocks
  BY <1>1 DEF Slabs, EndBlocks, Fences, Tombstone, LiveBlocks
<1>3. /\ c \in Free(mem, blocks) /\ c \in blocks /\ c \in Addr /\ ~ThisAllocated(mem, c)
      /\ BlockSize(mem, c) \in Nat /\ BlockSize(mem, c) - 1 > 4
      /\ ThisAllocated(mem, getBlockAfter(mem, c)) /\ getBlockAfter(mem, c) \in blocks
  <2>1. c \in Free(mem, blocks) /\ c \in blocks /\ c \in Addr /\ BlockSize(mem, c) \in Nat
    BY <1>1, ListFacts
  <2>2. ~ThisAllocated(mem, c) /\ ThisAllocated(mem, getBlockAfter(mem, c))
        /\ getBlockAfter(mem, c) \in blocks
    BY <2>1, HeapFacts, LinkFacts
  <2>3. BlockSize(mem, c) - 1 > 4
    BY <1>1, <2>1 DEF TooSmall, HeaderWords, MinBlockSize, FreeHeaderWords
  <2> QED BY <2>1, <2>2, <2>3
<1> HIDE DEF c
<1>4. AfterAllocate(mem, blocks, EndBlocks, c, mem')
  <2>1. PICK n : n = mem'
    OBVIOUS
  <2>2. AfterAllocate(mem, blocks, EndBlocks, c, n)
    BY <1>1, <1>3, <2>1, HeapFacts, AllocateOK
  <2> QED BY <2>1, <2>2
<1>5. /\ HeapOK(mem', blocks, EndBlocks) /\ Free(mem', blocks) = Free(mem, blocks) \ {c}
      /\ \A b \in blocks : BlockSize(mem', b) = BlockSize(mem, b)
      /\ \A b \in blocks : ThisAllocated(mem', b) <=> (ThisAllocated(mem, b) \/ b = c)
      /\ Spares(mem, blocks, mem', blocks, {c})
  BY <1>4 DEF AfterAllocate
<1>6. Tombstone \in Free(mem', blocks) /\ Tombstone # c /\ BlockSize(mem', Tombstone) = 4
  <2>1. Tombstone # c /\ Tombstone \in blocks
    BY <1>3, TombstoneFacts DEF Free
  <2> QED BY <1>5, <2>1, TombstoneFacts
<1>7. HeapOK(mem, blocks, EndBlocks)'
  BY <1>1, <1>2, <1>5
<1>8. FreeMemoryList' \in Free(mem', blocks)
  <2>1. NextFree(mem, c) \in Free(mem, blocks) \ {c}
    BY <1>3, <1>6, HeapFacts, TombstoneFacts, NextIsOther
  <2> QED BY <1>1, <1>5, <2>1
<1>9. ListOK' /\ SearchOK'
  BY <1>1, <1>8 DEF ListOK, SearchOK
<1>10. TypeOK'
  <2>1. 0 \in Addr
    BY <1>3, SizeAssumption DEF Addr
  <2>2. search' \in [iter : Addr, candidate : Addr, size : RequestSizes \cup {0}]
    BY <1>1, <2>1 DEF NoSearch
  <2>3. mem' \in [Addr -> Word] /\ blocks \in SUBSET Addr
    BY <1>5 DEF HeapOK, BlocksOK
  <2>4. FreeMemoryList' \in Addr
    BY <1>8, <2>3 DEF Free
  <2> QED BY <1>1, <1>3, <2>2, <2>3, <2>4 DEF IInv, TypeOK
<1>11. SlabsOK'
  BY <1>1, <1>2 DEF IInv, SlabsOK
<1>12. TombstoneOK'
  <2>1. {c} \cap Fences = {}
    BY <1>3, TombstoneFacts
  <2>2. PICK n : n = mem'
    OBVIOUS
  <2>3. /\ Mem1(CodeSlabs[1]) \in blocks /\ ThisAllocated(n, Mem1(CodeSlabs[1]))
        /\ getBlockAfter(n, Mem1(CodeSlabs[1])) = Tombstone
    BY <1>5, <1>6, <2>1, <2>2, TombstoneStays
  <2> QED BY <1>1, <1>2, <1>6, <2>2, <2>3 DEF TombstoneOK, MinBlockSize, FreeHeaderWords
<1>13. LiveOK'
  <2>1. ASSUME NEW x \in live PROVE OwnedIn(mem', blocks, x) /\ x.block \notin Fences
    <3>1. x.block # c
      BY <1>3, OwnedFacts
    <3>2. PICK n : n = mem'
      OBVIOUS
    <3>3. OwnedIn(n, blocks, x)
      BY <1>5, <3>1, <3>2, OwnedStays
    <3> QED BY <3>2, <3>3, OwnedFacts
  <2>2. \A x, y \in live : x.block = y.block => x = y
    BY DEF IInv, LiveOK
  <2> QED BY <1>1, <1>2, <2>1, <2>2
        DEF LiveOK, IsOwned, OwnedIn, MinBlockSize, FreeHeaderWords
<1>14. OpenedOK'
  <2>1. c \notin Fences /\ c \notin LiveBlocks
    <3>1. c \notin Fences
      BY <1>3, TombstoneFacts
    <3>2. ASSUME NEW x \in live PROVE x.block # c
      BY <1>3, OwnedFacts
    <3> QED BY <3>1, <3>2 DEF LiveBlocks
  <2>2. ThisAllocated(mem', c) /\ BlockSize(mem', c) = BlockSize(mem, c)
    BY <1>3, <1>5
  <2>3. getBlockAfter(mem', c) = getBlockAfter(mem, c)
    BY <2>2 DEF getBlockAfter
  <2>4. ThisAllocated(mem', getBlockAfter(mem', c))
    BY <1>3, <1>5, <2>3
  <2>5. BlockSize(mem', c) >= 4
    BY <1>3, <2>2
  <2>6. emitted' = 0
    BY <1>1 DEF IInv, OpenedOK
  <2> QED BY <1>1, <1>2, <1>3, <2>1, <2>2, <2>4, <2>5, <2>6
        DEF OpenedOK, IsOwned, MinBlockSize, FreeHeaderWords
<1>15. NothingLeaks'
  <2> SUFFICES ASSUME NEW b \in blocks, ThisAllocated(mem', b)
               PROVE  b \in Fences \/ b \in LiveBlocks \/ b = c
    BY <1>1, <1>2 DEF NothingLeaks, Opened
  <2>1. CASE ThisAllocated(mem, b)
    BY <1>1, <2>1 DEF IInv, NothingLeaks, Opened
  <2> QED BY <1>5, <2>1
<1> QED BY <1>7, <1>9, <1>10, <1>11, <1>12, <1>13, <1>14, <1>15 DEF IInv

\* What the system gives for a slab.
LEMMA NewSlabFacts ==
  ASSUME NEW z \in Nat, z >= DefaultCodeSlabSize, NEW S, NEW s \in AllocateRWX(z, S)
  PROVE  /\ s \in [base : Addr, size : Nat] /\ s.base \in Nat /\ s.base \in Addr
         /\ s.size \in Nat /\ s.size >= 10 /\ s.size >= z
         /\ s.size >= DefaultCodeSlabSize /\ s.base + s.size <= MemWords
         /\ EndBlock(s) = s.base + s.size - 1 /\ EndBlock(s) \in Nat
         /\ \A t \in S : ~Overlap(s.base, s.base + s.size, t.base, t.base + t.size)
<1>1. /\ s \in [base : Addr, size : z .. z + PageWords - 1]
      /\ s.base + s.size <= MemWords
      /\ \A t \in S : ~Overlap(s.base, s.base + s.size, t.base, t.base + t.size)
  BY DEF AllocateRWX
<1>2. s.base \in Addr /\ s.size \in Int /\ s.size >= z
  BY <1>1, SizeAssumption
<1>3. s = [base |-> s.base, size |-> s.size]
  BY <1>1
<1>4. DefaultCodeSlabSize \in Nat /\ DefaultCodeSlabSize >= 10
  BY SizeAssumption DEF MinBlockSize, FreeHeaderWords, HeaderWords
<1>5. s.size \in Nat /\ s.size >= 10 /\ s.size >= DefaultCodeSlabSize
  BY <1>2, <1>4
<1>6. s.base \in Nat
  BY <1>2, SizeAssumption DEF Addr
<1>7. EndBlock(s) = s.base + s.size - 1 /\ EndBlock(s) \in Nat
  BY <1>5, <1>6 DEF EndBlock, HeaderWords
<1> QED BY <1>1, <1>2, <1>3, <1>5, <1>6, <1>7

\* A new slab has no part in the blocks there are.
LEMMA NewSlabIsApart ==
  ASSUME IInv, NEW z \in Nat, z >= DefaultCodeSlabSize, NEW s \in AllocateRWX(z, Slabs)
  PROVE  /\ AfterNewSlab(mem, blocks, EndBlocks, s.base, EndBlock(s),
                         allocateNewCodeSlab(mem, s, FreeMemoryList))
         /\ s.base \in Addr /\ s.base # EndBlock(s)
<1>1. /\ s.base \in Nat /\ s.base \in Addr /\ s.size \in Nat /\ s.size >= 10
      /\ s.base + s.size <= MemWords /\ EndBlock(s) = s.base + s.size - 1 /\ EndBlock(s) \in Nat
  BY NewSlabFacts
<1>2. ASSUME NEW b \in blocks PROVE getBlockAfter(mem, b) <= s.base \/ EndBlock(s) < b
  <2>1. PICK t \in Slabs : t.base <= b /\ b < t.base + t.size /\ getBlockAfter(mem, b) <= t.base + t.size
    <3>1. b \in Nat /\ getBlockAfter(mem, b) \in Nat /\ getBlockAfter(mem, b) = b + BlockSize(mem, b)
      BY HeapFacts, BlockFacts
    <3>2. \A t \in Slabs : t.base \in Nat /\ t.size \in Nat
      BY SlabFacts
    <3>3. CASE b \in EndBlocks
      <4>1. BlockSize(mem, b) = 1
        BY <3>3, HeapFacts
      <4>2. PICK t \in Slabs : t.base <= b /\ b < t.base + t.size
        BY DEF IInv, SlabsOK, InSlabs
      <4> QED BY <3>1, <3>2, <4>1, <4>2
    <3>4. CASE b \notin EndBlocks
      <4>1. PICK t \in Slabs : t.base <= b /\ b < t.base + t.size /\ getBlockAfter(mem, b) < t.base + t.size
        BY <3>4, InsideItsSlab
      <4> QED BY <3>1, <3>2, <4>1
    <3> QED BY <3>3, <3>4
  <2>2. ~(s.base < t.base + t.size /\ t.base < s.base + s.size)
    BY NewSlabFacts DEF Overlap
  <2>3. t.base \in Nat /\ t.size \in Nat
    BY SlabFacts
  <2>4. b \in Nat /\ getBlockAfter(mem, b) \in Nat
    BY HeapFacts, BlockFacts
  <2> QED BY <1>1, <2>1, <2>2, <2>3, <2>4
<1>3. /\ HeapOK(mem, blocks, EndBlocks) /\ FreeMemoryList \in Free(mem, blocks)
      /\ s.base \in Nat /\ EndBlock(s) \in Nat /\ s.base + 4 <= EndBlock(s) /\ EndBlock(s) + 1 <= MemWords
      /\ s.size \in Nat
  BY <1>1, HeapFacts, ListFacts
<1>4. s.base # EndBlock(s)
  BY <1>3
<1>5. AfterNewSlab(mem, blocks, EndBlocks, s.base, EndBlock(s),
                   allocateNewCodeSlab(mem, s, FreeMemoryList))
  <2>1. PICK x, e, n : x = s.base /\ e = EndBlock(s) /\ n = allocateNewCodeSlab(mem, s, FreeMemoryList)
    OBVIOUS
  <2>2. /\ HeapOK(mem, blocks, EndBlocks) /\ FreeMemoryList \in Free(mem, blocks)
        /\ x \in Nat /\ e \in Nat /\ x + 4 <= e /\ e + 1 <= MemWords
        /\ s.base = x /\ s.size \in Nat /\ EndBlock(s) = e
        /\ n = allocateNewCodeSlab(mem, s, FreeMemoryList)
    BY <1>3, <2>1
  <2>3. \A b \in blocks : getBlockAfter(mem, b) <= x \/ e < b
    BY <1>2, <2>1
  <2>4. AfterNewSlab(mem, blocks, EndBlocks, x, e, n)
    BY ONLY <2>2, <2>3, NewSlabOK
  <2> QED BY <2>1, <2>4
<1> QED BY <1>1, <1>4, <1>5

\* The slabs with one more slab, that is apart from them.
LEMMA SlabsWith ==
  ASSUME IInv, NEW s \in [base : Addr, size : Nat], CodeSlabs' = Append(CodeSlabs, s)
  PROVE  /\ Slabs' = Slabs \cup {s} /\ EndBlocks' = EndBlocks \cup {EndBlock(s)}
         /\ CodeSlabs'[1] = CodeSlabs[1] /\ CodeSlabs' \in Seq([base : Addr, size : Nat])
         /\ CodeSlabs' # <<>> /\ Tombstone' = Tombstone
         /\ Fences' = Fences \cup {EndBlock(s)}
<1> DEFINE T == [base : Addr, size : Nat]
<1>1. CodeSlabs \in Seq(T) /\ CodeSlabs # <<>> /\ s \in T
  BY DEF IInv, TypeOK, SlabsOK
<1> HIDE DEF T
<1>2. /\ CodeSlabs' \in Seq(T) /\ Len(CodeSlabs') = Len(CodeSlabs) + 1
      /\ \A i \in 1 .. Len(CodeSlabs) : CodeSlabs'[i] = CodeSlabs[i]
      /\ CodeSlabs'[Len(CodeSlabs) + 1] = s
      /\ Len(CodeSlabs) \in Nat /\ Len(CodeSlabs) >= 1
  BY <1>1
<1>3. Slabs' = Slabs \cup {s}
  <2>1. ASSUME NEW t \in Slabs' PROVE t \in Slabs \cup {s}
    <3>1. PICK i \in 1 .. Len(CodeSlabs') : t = CodeSlabs'[i]
      BY DEF Slabs
    <3>2. i \in 1 .. Len(CodeSlabs) \/ i = Len(CodeSlabs) + 1
      BY <1>2, <3>1
    <3> QED BY <1>2, <3>1, <3>2 DEF Slabs
  <2>2. ASSUME NEW t \in Slabs PROVE t \in Slabs'
    <3>1. PICK i \in 1 .. Len(CodeSlabs) : t = CodeSlabs[i]
      BY DEF Slabs
    <3>2. i \in 1 .. Len(CodeSlabs')
      BY <1>2, <3>1
    <3>3. t = CodeSlabs'[i]
      BY <1>2, <3>1
    <3> QED BY <3>2, <3>3 DEF Slabs
  <2>3. s \in Slabs'
    <3>1. Len(CodeSlabs) + 1 \in 1 .. Len(CodeSlabs')
      BY <1>2
    <3>2. s = CodeSlabs'[Len(CodeSlabs) + 1]
      BY <1>2
    <3> QED BY <3>1, <3>2 DEF Slabs
  <2> QED BY <2>1, <2>2, <2>3
<1>4. EndBlocks' = EndBlocks \cup {EndBlock(s)}
  BY <1>3 DEF EndBlocks
<1>5. CodeSlabs'[1] = CodeSlabs[1]
  BY <1>2
<1>6. CodeSlabs' # <<>>
  BY <1>2
<1>7. Tombstone' = Tombstone
  BY <1>5 DEF Tombstone
<1>8. Fences' = Fences \cup {EndBlock(s)}
  BY <1>4, <1>5 DEF Fences
<1> QED BY <1>2, <1>3, <1>4, <1>5, <1>6, <1>7, <1>8 DEF T

\* A slab is mapped with room for its two headers, the request and a default slab.
LEMMA SlabSizeIsEnough ==
  ASSUME IInv, pc = "searching"
  PROVE  /\ SlabSize(search.size) \in Nat /\ SlabSize(search.size) >= DefaultCodeSlabSize
         /\ search.size \in Nat /\ SlabSize(search.size) - 2 >= search.size
<1>1. search.size \in Nat
  <2>1. search.size \in RequestSizes \cup {0}
    BY ListFacts
  <2>2. RequestSizes \subseteq Nat
    BY SizeAssumption
  <2>3. search.size \in RequestSizes \/ search.size = 0
    BY <2>1
  <2>4. CASE search.size \in RequestSizes
    BY ONLY <2>2, <2>4
  <2>5. CASE search.size = 0
    BY <2>5
  <2> QED BY <2>3, <2>4, <2>5
<1> QED BY <1>1, SizeAssumption DEF SlabSize, PaddedMin, HeaderWords

\* A new slab becomes a free block and an end block, and the block the current one; it
\* is as large as asked.
LEMMA NewSlabStep ==
  ASSUME IInv, UseNewSlab
  PROVE  /\ IInv' /\ CurBlock' \notin blocks
         /\ BlockSize(mem', CurBlock') - HeaderWords >= search.size
         /\ BlockSize(mem', CurBlock') >= DefaultCodeSlabSize - 1
<1>1. PICK s \in AllocateRWX(SlabSize(search.size), Slabs) :
        /\ OpenBlock(allocateNewCodeSlab(mem, s, FreeMemoryList), s.base)
        /\ CodeSlabs' = Append(CodeSlabs, s)
        /\ blocks' = blocks \cup {s.base, EndBlock(s)}
  BY DEF UseNewSlab
<1> DEFINE x == s.base
           e == EndBlock(s)
           m1 == allocateNewCodeSlab(mem, s, FreeMemoryList)
           C == blocks \cup {x, e}
           D == EndBlocks \cup {e}
<1>2. pc = "searching"
  BY DEF UseNewSlab, SearchDone
<1>3. /\ mem' = AllocateBlock(m1, x) /\ FreeMemoryList' = NextFree(m1, x)
      /\ CurBlock' = x /\ pc' = "emitting"
      /\ search' = NoSearch /\ emitted' = emitted /\ live' = live /\ blocks' = C
  BY <1>1 DEF OpenBlock
<1>4. /\ s \in [base : Addr, size : Nat] /\ x \in Nat /\ x \in Addr
      /\ s.size \in Nat /\ s.size >= 10 /\ s.size >= SlabSize(search.size)
      /\ s.size >= DefaultCodeSlabSize /\ x + s.size <= MemWords
      /\ e = x + s.size - 1 /\ e \in Nat
      /\ \A t \in Slabs : ~Overlap(x, x + s.size, t.base, t.base + t.size)
  BY <1>2, SlabSizeIsEnough, NewSlabFacts
<1>5. AfterNewSlab(mem, blocks, EndBlocks, x, e, m1) /\ x # e
  BY <1>2, SlabSizeIsEnough, NewSlabIsApart
<1>6. /\ Slabs' = Slabs \cup {s} /\ EndBlocks' = D
      /\ CodeSlabs'[1] = CodeSlabs[1] /\ CodeSlabs' \in Seq([base : Addr, size : Nat])
      /\ CodeSlabs' # <<>> /\ Tombstone' = Tombstone
      /\ Fences' = Fences \cup {e} /\ LiveBlocks' = LiveBlocks
  BY <1>1, <1>3, <1>4, SlabsWith DEF LiveBlocks
<1> HIDE DEF m1
<1>7. /\ HeapOK(m1, C, D) /\ Free(m1, C) = Free(mem, blocks) \cup {x}
      /\ x \notin blocks /\ e \notin blocks
      /\ \A c \in blocks : m1[c] = mem[c]
      /\ m1[x] = Header(0, 1, e - x) /\ m1[e] = Header(1, 0, HeaderWords)
      /\ Spares(mem, blocks, m1, C, {})
  BY <1>5 DEF AfterNewSlab, HeapWith
<1>8. /\ x \in Free(m1, C) /\ x \in C /\ BlockSize(m1, x) = e - x /\ getBlockAfter(m1, x) = e
      /\ ThisAllocated(m1, e) /\ e \in C /\ BlockSize(m1, e) = 1
  <2>1. BlockSize(m1, x) = e - x /\ ThisAllocated(m1, e) /\ BlockSize(m1, e) = 1
    BY <1>7 DEF BlockSize, ThisAllocated, Header, HeaderWords
  <2>2. getBlockAfter(m1, x) = e
    BY <1>4, <2>1 DEF getBlockAfter
  <2> QED BY <1>7, <2>1, <2>2
<1>9. /\ Tombstone \in Free(m1, C) /\ Tombstone # x /\ BlockSize(m1, Tombstone) = 4
  <2>1. Tombstone \in blocks /\ Tombstone \in Free(mem, blocks)
    BY TombstoneFacts DEF Free
  <2> QED BY <1>7, <2>1, TombstoneFacts DEF BlockSize
<1> HIDE DEF C, D
<1>10. AfterAllocate(m1, C, D, x, mem')
  <2>1. PICK n : n = mem'
    OBVIOUS
  <2>2. AfterAllocate(m1, C, D, x, n)
    BY <1>3, <1>7, <1>8, <2>1, AllocateOK
  <2> QED BY <2>1, <2>2
<1>11. /\ HeapOK(mem', C, D) /\ Free(mem', C) = Free(m1, C) \ {x}
       /\ \A b \in C : BlockSize(mem', b) = BlockSize(m1, b)
       /\ \A b \in C : ThisAllocated(mem', b) <=> (ThisAllocated(m1, b) \/ b = x)
       /\ Spares(m1, C, mem', C, {x})
  BY <1>10 DEF AfterAllocate
<1>12. Spares(mem, blocks, mem', C, {})
  <2> SUFFICES ASSUME NEW c \in blocks, ThisAllocated(mem, c)
               PROVE  /\ c \in C /\ ThisAllocated(mem', c) /\ BlockSize(mem', c) = BlockSize(mem, c)
                      /\ \A a \in Int : c < a /\ a < getBlockAfter(mem, c) => mem'[a] = mem[a]
    BY DEF Spares
  <2>1. /\ c \in C /\ ThisAllocated(m1, c) /\ BlockSize(m1, c) = BlockSize(mem, c) /\ c # x
        /\ \A a \in Int : c < a /\ a < getBlockAfter(mem, c) => m1[a] = mem[a]
    BY <1>7 DEF Spares
  <2>2. getBlockAfter(m1, c) = getBlockAfter(mem, c)
    BY <2>1 DEF getBlockAfter
  <2>3. /\ ThisAllocated(mem', c) /\ BlockSize(mem', c) = BlockSize(m1, c)
        /\ \A a \in Int : c < a /\ a < getBlockAfter(m1, c) => mem'[a] = m1[a]
    BY <1>11, <2>1 DEF Spares
  <2> QED BY <2>1, <2>2, <2>3
<1>13. /\ Tombstone \in Free(mem', C) /\ BlockSize(mem', Tombstone) = 4
  <2>1. Tombstone \in C
    BY <1>9 DEF Free
  <2> QED BY <1>9, <1>11, <2>1
<1>14. HeapOK(mem, blocks, EndBlocks)'
  BY <1>3, <1>6, <1>11 DEF C
<1>15. FreeMemoryList' \in Free(mem', C)
  <2>1. NextFree(m1, x) \in Free(m1, C) \ {x}
    BY <1>7, <1>8, <1>9, NextIsOther
  <2> QED BY <1>3, <1>11, <2>1
<1>16. ListOK' /\ SearchOK'
  BY <1>3, <1>15 DEF ListOK, SearchOK, C
<1>17. TypeOK'
  <2>1. 0 \in Addr
    BY <1>4, SizeAssumption DEF Addr
  <2>2. search' \in [iter : Addr, candidate : Addr, size : RequestSizes \cup {0}]
    BY <1>3, <2>1 DEF NoSearch
  <2>3. mem' \in [Addr -> Word] /\ C \in SUBSET Addr
    BY <1>11 DEF HeapOK, BlocksOK
  <2>4. FreeMemoryList' \in Addr
    BY <1>15, <2>3 DEF Free
  <2>5. blocks' = C
    BY <1>3
  <2>6. emitted \in Nat /\ live \in SUBSET Owned
    BY DEF IInv, TypeOK
  <2> QED BY <1>3, <1>4, <1>6, <2>2, <2>3, <2>4, <2>5, <2>6 DEF TypeOK
<1>18. SlabsOK'
  <2>1. \A t \in Slabs : t.size >= DefaultCodeSlabSize /\ t.base + t.size <= MemWords /\ t.base \in blocks
    BY DEF IInv, SlabsOK
  <2>2. \A t \in Slabs' : t.size >= DefaultCodeSlabSize /\ t.base + t.size <= MemWords /\ t.base \in blocks'
    BY <1>3, <1>4, <1>6, <2>1 DEF C
  <2>3. ASSUME NEW t \in Slabs', NEW u \in Slabs', t # u
        PROVE  ~Overlap(t.base, t.base + t.size, u.base, u.base + u.size)
    <3>1. CASE t \in Slabs /\ u \in Slabs
      BY <2>3, <3>1 DEF IInv, SlabsOK
    <3>2. CASE t = s /\ u \in Slabs
      BY <1>4, <3>2
    <3>3. CASE t \in Slabs /\ u = s
      <4>1. ~Overlap(x, x + s.size, t.base, t.base + t.size)
        BY <1>4, <3>3
      <4> QED BY <3>3, <4>1 DEF Overlap
    <3> QED BY <1>6, <2>3, <3>1, <3>2, <3>3
  <2>4. ASSUME NEW c \in C PROVE \E t \in Slabs' : t.base <= c /\ c < t.base + t.size
    <3>1. CASE c \in blocks
      BY <1>6, <3>1 DEF IInv, SlabsOK, InSlabs
    <3>2. CASE c = x \/ c = e
      <4>1. s.base <= c /\ c < s.base + s.size
        BY <1>4, <3>2
      <4> QED BY <1>6, <4>1
    <3> QED BY <3>1, <3>2 DEF C
  <2>5. InSlabs(blocks', Slabs')
    BY <1>3, <2>4 DEF InSlabs, C
  <2> QED BY <1>6, <2>2, <2>3, <2>5 DEF SlabsOK
<1>19. TombstoneOK'
  <2>1. {} \cap Fences = {}
    OBVIOUS
  <2>2. PICK n : n = mem'
    OBVIOUS
  <2>3. /\ Mem1(CodeSlabs[1]) \in C /\ ThisAllocated(n, Mem1(CodeSlabs[1]))
        /\ getBlockAfter(n, Mem1(CodeSlabs[1])) = Tombstone
    BY <1>12, <1>13, <2>1, <2>2, TombstoneStays
  <2>4. blocks' = C
    BY <1>3
  <2> QED BY <1>6, <1>13, <2>2, <2>3, <2>4 DEF TombstoneOK, MinBlockSize, FreeHeaderWords
<1>20. LiveOK'
  <2>1. ASSUME NEW y \in live PROVE OwnedIn(mem', C, y) /\ y.block \notin Fences'
    <3>1. y.block \notin {} /\ y.block # e
      BY <1>7, OwnedFacts
    <3>2. PICK n : n = mem'
      OBVIOUS
    <3>3. OwnedIn(n, C, y)
      BY <1>12, <3>1, <3>2, OwnedStays
    <3> QED BY <1>6, <3>1, <3>2, <3>3, OwnedFacts
  <2>2. \A y, z \in live : y.block = z.block => y = z
    BY DEF IInv, LiveOK
  <2>3. blocks' = C /\ live' = live
    BY <1>3
  <2> QED BY <2>1, <2>2, <2>3 DEF LiveOK, IsOwned, OwnedIn, MinBlockSize, FreeHeaderWords
<1>21. /\ x \notin Fences' /\ x \notin LiveBlocks' /\ ThisAllocated(mem', x) /\ BlockSize(mem', x) = e - x
       /\ ThisAllocated(mem', getBlockAfter(mem', x)) /\ x \in C
  <2>1. x \notin Fences'
    BY <1>5, <1>6, <1>7, TombstoneFacts
  <2>2. x \notin LiveBlocks
    <3>1. ASSUME NEW y \in live PROVE y.block # x
      BY <1>7, OwnedFacts
    <3> QED BY <3>1 DEF LiveBlocks
  <2>3. x \in C /\ e \in C
    BY DEF C
  <2>4. ThisAllocated(mem', x) /\ BlockSize(mem', x) = BlockSize(m1, x)
    BY <1>11, <2>3
  <2>5. getBlockAfter(mem', x) = e
    BY <1>8, <2>4 DEF getBlockAfter
  <2>6. ThisAllocated(mem', e)
    BY <1>8, <1>11, <2>3
  <2> QED BY <1>6, <1>8, <2>1, <2>2, <2>3, <2>4, <2>5, <2>6
<1>22. e - x \in Nat /\ e - x >= 9 /\ e - x - 1 >= search.size /\ e - x >= DefaultCodeSlabSize - 1
  <2>1. SlabSize(search.size) \in Nat /\ SlabSize(search.size) - 2 >= search.size /\ search.size \in Nat
    BY <1>2, SlabSizeIsEnough
  <2>2. DefaultCodeSlabSize \in Nat
    BY SizeAssumption
  <2>3. e - x = s.size - 1
    BY <1>4
  <2> HIDE DEF x, e
  <2> QED BY <1>4, <2>1, <2>2, <2>3
<1>23. OpenedOK'
  <2>1. emitted' = 0
    BY <1>2, <1>3 DEF IInv, OpenedOK
  <2>2. BlockSize(mem', x) >= 4
    BY <1>21, <1>22
  <2>3. blocks' = C /\ CurBlock' = x /\ pc' = "emitting"
    BY <1>3
  <2> HIDE DEF x
  <2> QED BY <1>21, <2>1, <2>2, <2>3 DEF OpenedOK, IsOwned, MinBlockSize, FreeHeaderWords
<1>24. NothingLeaks'
  <2> SUFFICES ASSUME NEW b \in C, ThisAllocated(mem', b)
               PROVE  b \in Fences' \/ b \in LiveBlocks \/ b = x
    BY <1>3, <1>6 DEF NothingLeaks, Opened, C
  <2>1. CASE b \in blocks
    <3>1. ThisAllocated(mem, b)
      <4>1. ThisAllocated(m1, b)
        BY <1>7, <1>11, <2>1
      <4> QED BY <1>7, <2>1, <4>1 DEF ThisAllocated
    <3> QED BY <1>2, <1>6, <2>1, <3>1 DEF IInv, NothingLeaks, Opened
  <2>2. CASE b = x \/ b = e
    BY <1>6, <2>2
  <2> QED BY <2>1, <2>2 DEF C
<1>25. IInv'
  BY <1>14, <1>16, <1>17, <1>18, <1>19, <1>20, <1>23, <1>24 DEF IInv
<1>26. CurBlock' = x /\ BlockSize(mem', CurBlock') = e - x
  BY <1>3, <1>21
<1> QED BY <1>7, <1>22, <1>25, <1>26 DEF HeaderWords

-----------------------------------------------------------------------------
(* Emitting into the open block, and calls that deal with one block        *)

\* What the invariant says of the block that is being emitted into.
LEMMA OpenedFacts ==
  ASSUME IInv, pc \in {"emitting", "emitted"}
  PROVE  /\ CurBlock \in blocks /\ ThisAllocated(mem, CurBlock) /\ CurBlock \notin Fences
         /\ CurBlock \notin EndBlocks /\ CurBlock \notin LiveBlocks
         /\ BlockSize(mem, CurBlock) \in Nat /\ BlockSize(mem, CurBlock) >= 4
         /\ ThisAllocated(mem, getBlockAfter(mem, CurBlock))
         /\ CurBlock \in Nat /\ CurBlock \in Addr
         /\ BufferBegin = CurBlock + 1 /\ BufferEnd = CurBlock + BlockSize(mem, CurBlock)
         /\ BufferEnd <= MemWords /\ BufferBegin \in Nat /\ BufferEnd \in Nat
<1>1. /\ IsOwned(CurBlock) /\ CurBlock \notin LiveBlocks
      /\ ThisAllocated(mem, getBlockAfter(mem, CurBlock))
  BY DEF IInv, OpenedOK
<1>2. /\ CurBlock \in blocks /\ ThisAllocated(mem, CurBlock) /\ CurBlock \notin Fences
      /\ BlockSize(mem, CurBlock) >= 4
  BY <1>1 DEF IsOwned, MinBlockSize, FreeHeaderWords
<1>3. CurBlock \notin EndBlocks
  BY <1>2 DEF Fences
<1>4. /\ BlockSize(mem, CurBlock) \in Nat /\ CurBlock \in Nat /\ CurBlock \in Addr
      /\ CurBlock + BlockSize(mem, CurBlock) <= MemWords
  BY <1>2, HeapFacts, BlockFacts
<1>5. BufferBegin = CurBlock + 1 /\ BufferEnd = CurBlock + BlockSize(mem, CurBlock)
  BY DEF BufferBegin, BufferEnd, HeaderWords, getBlockAfter
<1> QED BY <1>1, <1>2, <1>3, <1>4, <1>5

\* Emission stays inside the current block.
LEMMA EmitStep ==
  ASSUME IInv, NEW n \in EmitSizes, EmitCode(n)
  PROVE  IInv'
<1> DEFINE room == BufferEnd - BufferBegin
           len == IF n < room THEN n ELSE room
           b == CurBlock
<1>1. /\ pc = "emitting" /\ pc' = "emitted" /\ emitted' = len
      /\ mem' = Fill(mem, BufferBegin, BufferBegin + len, Code)
      /\ CodeSlabs' = CodeSlabs /\ FreeMemoryList' = FreeMemoryList /\ CurBlock' = CurBlock
      /\ search' = search /\ live' = live /\ blocks' = blocks
  BY DEF EmitCode
<1>2. /\ Slabs' = Slabs /\ EndBlocks' = EndBlocks /\ Fences' = Fences /\ Tombstone' = Tombstone
      /\ LiveBlocks' = LiveBlocks
  BY <1>1 DEF Slabs, EndBlocks, Fences, Tombstone, LiveBlocks
<1>3. n \in Nat /\ n >= 1
  <2>1. EmitSizes \subseteq Nat \ {0}
    BY SizeAssumption
  <2>2. n \in Nat \ {0}
    BY ONLY <2>1, n \in EmitSizes
  <2> QED BY <2>2
<1>4. /\ b \in blocks /\ ThisAllocated(mem, b) /\ b \notin LiveBlocks
      /\ BlockSize(mem, b) \in Nat /\ BlockSize(mem, b) >= 4 /\ b \notin Fences
      /\ ThisAllocated(mem, getBlockAfter(mem, b)) /\ getBlockAfter(mem, b) \in blocks
      /\ b \in Nat /\ BufferBegin = b + 1 /\ BufferEnd = b + BlockSize(mem, b)
      /\ BufferEnd = getBlockAfter(mem, b) /\ BufferEnd <= MemWords
      /\ BufferBegin \in Nat /\ BufferEnd \in Nat
  <2>1. getBlockAfter(mem, b) \in blocks
    BY <1>1, OpenedFacts, HeapFacts, BlockFacts
  <2> QED BY <1>1, <2>1, OpenedFacts DEF BufferEnd
<1>5. len \in Nat /\ len # 0 /\ BufferBegin + len <= BufferEnd
  <2>1. room \in Nat /\ room >= 1
    BY <1>4
  <2> HIDE DEF room
  <2>2. len \in Nat /\ len # 0 /\ len <= room
    BY <1>3, <2>1
  <2> HIDE DEF len
  <2> QED BY <1>4, <2>2 DEF room
<1> HIDE DEF len, b
<1>6. AfterFill(mem, blocks, EndBlocks, b, BufferBegin, BufferBegin + len, Code, mem')
  <2>1. PICK from, to, k : from = BufferBegin /\ to = BufferBegin + len /\ k = mem'
    OBVIOUS
  <2>2. /\ HeapOK(mem, blocks, EndBlocks) /\ b \in blocks /\ ThisAllocated(mem, b)
        /\ from \in Int /\ to \in Int /\ b < from /\ to <= getBlockAfter(mem, b)
        /\ Code \in Word /\ k = Fill(mem, from, to, Code)
    BY <1>1, <1>4, <1>5, <2>1, HeapFacts DEF Code, Word
  <2>3. AfterFill(mem, blocks, EndBlocks, b, from, to, Code, k)
    BY ONLY <2>2, FillOK
  <2> QED BY <2>1, <2>3
<1>7. /\ HeapOK(mem', blocks, EndBlocks) /\ Free(mem', blocks) = Free(mem, blocks)
      /\ \A c \in blocks : mem'[c] = mem[c]
      /\ Spares(mem, blocks, mem', blocks, {b})
      /\ \A a \in Addr : BufferBegin <= a /\ a < BufferBegin + len => mem'[a] = Code
  BY <1>6 DEF AfterFill
<1>8. \A c \in blocks : /\ BlockSize(mem', c) = BlockSize(mem, c)
                        /\ ThisAllocated(mem', c) <=> ThisAllocated(mem, c)
                        /\ getBlockAfter(mem', c) = getBlockAfter(mem, c)
  BY <1>7 DEF BlockSize, ThisAllocated, getBlockAfter
<1>9. HeapOK(mem, blocks, EndBlocks)'
  BY <1>1, <1>2, <1>7
<1>10. ListOK' /\ SearchOK'
  BY <1>1, <1>7, ListFacts DEF ListOK, SearchOK
<1>11. TypeOK'
  <2>1. mem' \in [Addr -> Word]
    BY <1>7 DEF HeapOK, BlocksOK
  <2> QED BY <1>1, <1>5, <2>1 DEF IInv, TypeOK
<1>12. SlabsOK'
  BY <1>1, <1>2 DEF IInv, SlabsOK
<1>13. TombstoneOK'
  <2>1. Tombstone \in Free(mem', blocks) /\ Tombstone \in blocks
    BY <1>7, TombstoneFacts DEF Free
  <2>2. Mem1(CodeSlabs[1]) \in blocks
    BY TombstoneFacts
  <2> QED BY <1>1, <1>2, <1>8, <2>1, <2>2 DEF IInv, TombstoneOK
<1>14. LiveOK'
  <2>1. ASSUME NEW x \in live PROVE OwnedIn(mem', blocks, x) /\ x.block \notin Fences
    <3>1. x.block # b
      BY <1>4, OwnedFacts
    <3>2. PICK k : k = mem'
      OBVIOUS
    <3>3. OwnedIn(k, blocks, x)
      BY <1>7, <3>1, <3>2, OwnedStays
    <3> QED BY <3>2, <3>3, OwnedFacts
  <2>2. \A x, y \in live : x.block = y.block => x = y
    BY DEF IInv, LiveOK
  <2> QED BY <1>1, <1>2, <2>1, <2>2
        DEF LiveOK, IsOwned, OwnedIn, MinBlockSize, FreeHeaderWords
<1>15. OpenedOK'
  <2>1. BufferBegin' = BufferBegin /\ BufferEnd' = BufferEnd
    BY <1>1, <1>4, <1>8 DEF BufferBegin, BufferEnd, b
  <2>2. ASSUME NEW a \in BufferBegin .. BufferBegin + len - 1 PROVE mem'[a] = Code
    <3>1. a \in Addr /\ BufferBegin <= a /\ a < BufferBegin + len
      BY <1>4, <1>5, SizeAssumption DEF Addr
    <3> QED BY <1>7, <3>1
  <2>3. CurBlock' = b
    BY <1>1 DEF b
  <2>4. IsOwned(CurBlock)' /\ CurBlock' \notin LiveBlocks' /\ ThisAllocated(mem', getBlockAfter(mem', CurBlock'))
    BY <1>1, <1>2, <1>4, <1>8, <2>3 DEF IsOwned, MinBlockSize, FreeHeaderWords
  <2> QED BY <1>1, <1>5, <2>1, <2>2, <2>4 DEF OpenedOK
<1>16. NothingLeaks'
  BY <1>1, <1>2, <1>8 DEF IInv, NothingLeaks, Opened
<1> QED BY <1>9, <1>10, <1>11, <1>12, <1>13, <1>14, <1>15, <1>16 DEF IInv

\* The heap n with the blocks C and the entry f of the list is what a call that
\* deals with the block b leaves.
Leaves(b, n, C, f) ==
  /\ HeapOK(n, C, EndBlocks) /\ f \in Free(n, C)
  /\ Spares(mem, blocks, n, C, {b})
  /\ BlocksOfSlabs(C)
  /\ Tombstone \in Free(n, C) /\ BlockSize(n, Tombstone) = 4

\* The invariant after a call that concerned block b alone, and that ends the emission if
\* there was one.
LEMMA IdleAgain ==
  ASSUME IInv, NEW b \in blocks \ Fences, Leaves(b, mem', blocks', FreeMemoryList'),
         CodeSlabs' = CodeSlabs, pc' = "idle", emitted' = 0, CurBlock' \in Addr, search' = search,
         \A y \in live' : \/ y \in live /\ y.block # b
                          \/ y \in Owned /\ y.block = b /\ OwnedIn(mem', blocks', y),
         \A y, z \in live' : y.block = z.block => y = z,
         \A c \in blocks' : ThisAllocated(mem', c) => c \in Fences \cup LiveBlocks'
  PROVE  IInv'
<1>1. /\ HeapOK(mem', blocks', EndBlocks) /\ FreeMemoryList' \in Free(mem', blocks')
      /\ Spares(mem, blocks, mem', blocks', {b}) /\ BlocksOfSlabs(blocks')
      /\ Tombstone \in Free(mem', blocks') /\ BlockSize(mem', Tombstone) = 4
  BY DEF Leaves
<1>2. /\ Slabs' = Slabs /\ EndBlocks' = EndBlocks /\ Fences' = Fences /\ Tombstone' = Tombstone
  BY DEF Slabs, EndBlocks, Fences, Tombstone
<1>3. HeapOK(mem, blocks, EndBlocks)'
  BY <1>1, <1>2
<1>4. ListOK' /\ SearchOK'
  BY <1>1 DEF ListOK, SearchOK
<1>5. ASSUME NEW y \in live' PROVE OwnedIn(mem', blocks', y) /\ y.block \notin Fences /\ y \in Owned
  <2>1. CASE y \in live /\ y.block # b
    <3>1. PICK k, C : k = mem' /\ C = blocks'
      OBVIOUS
    <3>2. OwnedIn(k, C, y)
      BY <1>1, <2>1, <3>1, OwnedStays
    <3> QED BY <2>1, <3>1, <3>2, OwnedFacts
  <2>2. CASE ~(y \in live /\ y.block # b)
    BY <2>2
  <2> QED BY <2>1, <2>2
<1>6. LiveOK'
  BY <1>2, <1>5 DEF LiveOK, IsOwned, OwnedIn, MinBlockSize, FreeHeaderWords
<1>7. TypeOK'
  <2>1. mem' \in [Addr -> Word] /\ blocks' \in SUBSET Addr
    BY <1>1 DEF HeapOK, BlocksOK
  <2>2. FreeMemoryList' \in Addr
    BY <1>1, <2>1 DEF Free
  <2>3. live' \in SUBSET Owned
    BY <1>5
  <2> QED BY <2>1, <2>2, <2>3 DEF IInv, TypeOK
<1>8. SlabsOK'
  BY <1>1, <1>2 DEF IInv, SlabsOK, BlocksOfSlabs
<1>9. TombstoneOK'
  <2>1. {b} \cap Fences = {}
    OBVIOUS
  <2>2. PICK k, C : k = mem' /\ C = blocks'
    OBVIOUS
  <2>3. /\ Mem1(CodeSlabs[1]) \in C /\ ThisAllocated(k, Mem1(CodeSlabs[1]))
        /\ getBlockAfter(k, Mem1(CodeSlabs[1])) = Tombstone
    BY <1>1, <2>1, <2>2, TombstoneStays
  <2> QED BY <1>1, <1>2, <2>2, <2>3 DEF TombstoneOK, MinBlockSize, FreeHeaderWords
<1>10. OpenedOK'
  BY DEF OpenedOK
<1>11. NothingLeaks'
  BY <1>2 DEF NothingLeaks
<1> QED BY <1>3, <1>4, <1>6, <1>7, <1>8, <1>9, <1>10, <1>11 DEF IInv

\* The client keeps the trimmed block, with all it emitted in it.
LEMMA EndStep == IInv /\ endFunctionBody => IInv'
<1> SUFFICES ASSUME IInv, endFunctionBody PROVE IInv'
  OBVIOUS
<1> DEFINE b == CurBlock
           size == HeaderWords + emitted
           y == [block |-> b, start |-> BufferBegin, end |-> BufferBegin + emitted, global |-> FALSE]
<1>1. PICK r : r = TrimAllocationToSize(mem, blocks, FreeMemoryList, b, size)
  OBVIOUS
<1>2. /\ pc = "emitted" /\ mem' = r.mem /\ blocks' = r.blocks /\ FreeMemoryList' = r.list
      /\ live' = live \cup {y} /\ pc' = "idle" /\ emitted' = 0 /\ CurBlock' = NoBlock
      /\ CodeSlabs' = CodeSlabs /\ search' = search
  BY <1>1 DEF endFunctionBody
<1>3. /\ b \in blocks /\ ThisAllocated(mem, b) /\ b \notin LiveBlocks /\ b \notin EndBlocks
      /\ BlockSize(mem, b) \in Nat /\ BlockSize(mem, b) >= 4 /\ b \notin Fences
      /\ ThisAllocated(mem, getBlockAfter(mem, b))
      /\ b \in Nat /\ b \in Addr /\ BufferBegin = b + 1 /\ BufferEnd = b + BlockSize(mem, b)
      /\ BufferEnd <= MemWords
  BY <1>2, OpenedFacts
<1>4. /\ emitted \in Nat /\ emitted # 0 /\ BufferBegin + emitted <= BufferEnd
      /\ \A a \in BufferBegin .. BufferBegin + emitted - 1 : mem[a] = Code
  BY <1>2 DEF IInv, TypeOK, OpenedOK
<1>5. size \in Nat /\ AtLeastMin(size) <= BlockSize(mem, b) /\ AtLeastMin(size) >= 1 + emitted
      /\ AtLeastMin(size) \in Nat
  BY <1>3, <1>4 DEF AtLeastMin, MinBlockSize, FreeHeaderWords, HeaderWords
<1> HIDE DEF size, b
<1>6. AfterTrim(mem, blocks, EndBlocks, b, size, r)
  BY <1>1, <1>3, <1>5, HeapFacts, ListFacts, TrimOK
<1>7. /\ HeapOK(r.mem, r.blocks, EndBlocks) /\ blocks \in SUBSET r.blocks
      /\ r.list \in Free(r.mem, r.blocks)
      /\ Spares(mem, blocks, r.mem, r.blocks, {b})
      /\ \A c \in r.blocks \ blocks : b < c /\ c < getBlockAfter(mem, b)
      /\ \A c \in r.blocks : ThisAllocated(r.mem, c) => c \in blocks /\ ThisAllocated(mem, c)
      /\ \A c \in Free(mem, blocks) : c \in Free(r.mem, r.blocks) /\ BlockSize(r.mem, c) = BlockSize(mem, c)
      /\ ThisAllocated(r.mem, b) /\ BlockSize(r.mem, b) >= AtLeastMin(size)
      /\ \A a \in Int : b < a /\ a < b + AtLeastMin(size) => r.mem[a] = mem[a]
  BY <1>6 DEF AfterTrim
<1>8. r.blocks \in SUBSET Addr /\ \A c \in r.blocks : c \in Int
  BY <1>7, SizeAssumption DEF HeapOK, BlocksOK, Addr
<1>9. Leaves(b, r.mem, r.blocks, r.list)
  <2>1. BlocksOfSlabs(r.blocks)
    BY <1>3, <1>7, <1>8, SlabsOfMore
  <2>2. Tombstone \in Free(r.mem, r.blocks) /\ BlockSize(r.mem, Tombstone) = 4
    BY <1>7, TombstoneFacts
  <2> QED BY <1>7, <2>1, <2>2 DEF Leaves
<1>10. y \in Owned /\ y.block = b /\ OwnedIn(r.mem, r.blocks, y)
  <2>1. y.block = b /\ y.start = b + 1 /\ y.end = b + 1 + emitted /\ y.global = FALSE
    BY <1>3 DEF b
  <2>2. b + 1 \in Addr /\ b + 1 + emitted \in 0 .. MemWords
    BY <1>3, <1>4, SizeAssumption DEF Addr
  <2>3. y \in Owned
    BY <1>3, <2>1, <2>2 DEF Owned, b
  <2>4. /\ b \in r.blocks /\ BlockSize(r.mem, b) \in Nat
        /\ getBlockAfter(r.mem, b) = b + BlockSize(r.mem, b)
    <3>1. b \in r.blocks /\ BlocksOK(r.mem, r.blocks, EndBlocks)
      BY <1>3, <1>7 DEF HeapOK
    <3> QED BY <3>1, BlockFacts
  <2>5. BlockSize(r.mem, b) >= 4 /\ b + 1 + emitted <= getBlockAfter(r.mem, b)
    <3>1. AtLeastMin(size) >= 4
      BY <1>5 DEF AtLeastMin, MinBlockSize, FreeHeaderWords
    <3> QED BY <1>3, <1>4, <1>5, <1>7, <2>4, <3>1
  <2>6. ASSUME NEW a \in b + 1 .. b + 1 + emitted - 1 PROVE r.mem[a] = Code
    <3>1. a \in Int /\ b < a /\ a < b + AtLeastMin(size)
      BY <1>3, <1>4, <1>5
    <3>2. mem[a] = Code
      BY <1>3, <1>4, <2>6
    <3> QED BY <1>7, <3>1, <3>2
  <2>7. b < b + 1 /\ b + 1 < b + 1 + emitted
    BY <1>3, <1>4
  <2> HIDE DEF y
  <2>8. \A a \in y.start .. y.end - 1 : r.mem[a] = Code
    <3>1. y.start = b + 1 /\ y.end - 1 = b + 1 + emitted - 1
      BY <1>3, <1>4, <2>1
    <3> QED BY <2>6, <3>1
  <2>9. y.block < y.start /\ y.start < y.end /\ y.end <= getBlockAfter(r.mem, y.block)
    BY <2>1, <2>5, <2>7
  <2>10. y.block \in r.blocks /\ ThisAllocated(r.mem, y.block) /\ BlockSize(r.mem, y.block) >= 4
    BY <1>7, <2>1, <2>4, <2>5
  <2> QED BY <2>1, <2>3, <2>8, <2>9, <2>10 DEF OwnedIn
<1> HIDE DEF y
<1>11. \A x \in live : x.block # b /\ x.block \in LiveBlocks
  BY <1>3, OwnedFacts
<1>12. CurBlock' \in Addr
  BY <1>2, <1>3, SizeAssumption DEF NoBlock, Addr
<1>13. \A c \in blocks' : ThisAllocated(mem', c) => c \in Fences \cup LiveBlocks'
  <2> SUFFICES ASSUME NEW c \in blocks', ThisAllocated(mem', c) PROVE c \in Fences \cup LiveBlocks'
    OBVIOUS
  <2>1. c \in blocks /\ ThisAllocated(mem, c)
    BY <1>2, <1>7
  <2>2. c \in Fences \/ c \in LiveBlocks \/ c = b
    BY <1>2, <2>1 DEF IInv, NothingLeaks, Opened, b
  <2>3. LiveBlocks' = LiveBlocks \cup {b}
    BY <1>2, <1>10 DEF LiveBlocks
  <2> QED BY <2>2, <2>3
<1>14. \A x \in live' : \/ x \in live /\ x.block # b
                        \/ x \in Owned /\ x.block = b /\ OwnedIn(mem', blocks', x)
  BY <1>2, <1>10, <1>11
<1>15. \A x, z \in live' : x.block = z.block => x = z
  <2>1. \A x, z \in live : x.block = z.block => x = z
    BY DEF IInv, LiveOK
  <2> QED BY <1>2, <1>10, <1>11, <2>1
<1>16. Leaves(b, mem', blocks', FreeMemoryList')
  BY <1>2, <1>9
<1> QED BY <1>2, <1>3, <1>12, <1>13, <1>14, <1>15, <1>16, IdleAgain

\* deallocateBlock gives a block back to the heap and touches nothing else.
LEMMA GivesBack ==
  ASSUME IInv, NEW b \in blocks \ Fences, ThisAllocated(mem, b), BlockSize(mem, b) >= 4,
         deallocateBlock(b)
  PROVE  /\ Leaves(b, mem', blocks', FreeMemoryList')
         /\ \A c \in blocks' : ThisAllocated(mem', c) =>
              c \in blocks /\ ThisAllocated(mem, c) /\ c # b
<1>1. PICK m : m = IF PoisonMemory
                   THEN Fill(mem, b + HeaderWords, getBlockAfter(mem, b), Garbage) ELSE mem
  OBVIOUS
<1>2. PICK r : r = FreeBlock(m, blocks, FreeMemoryList, b)
  OBVIOUS
<1>3. mem' = r.mem /\ blocks' = r.blocks /\ FreeMemoryList' = r.list
  BY <1>1, <1>2 DEF deallocateBlock
<1>4. b \notin EndBlocks /\ b \in Nat /\ getBlockAfter(mem, b) \in Nat
  BY TombstoneFacts, HeapFacts, BlockFacts
<1>5. /\ HeapOK(m, blocks, EndBlocks) /\ Free(m, blocks) = Free(mem, blocks)
      /\ \A c \in blocks : m[c] = mem[c]
      /\ Spares(mem, blocks, m, blocks, {b})
  <2>1. CASE PoisonMemory
    <3>1. PICK from, to : from = b + 1 /\ to = getBlockAfter(mem, b)
      OBVIOUS
    <3>2. /\ HeapOK(mem, blocks, EndBlocks) /\ b \in blocks /\ ThisAllocated(mem, b)
          /\ from \in Int /\ to \in Int /\ b < from /\ to <= getBlockAfter(mem, b)
          /\ Garbage \in Word /\ m = Fill(mem, from, to, Garbage)
      BY <1>1, <1>4, <2>1, <3>1, HeapFacts DEF Garbage, Word, HeaderWords
    <3>3. AfterFill(mem, blocks, EndBlocks, b, from, to, Garbage, m)
      BY ONLY <3>2, FillOK
    <3> QED BY <3>3 DEF AfterFill
  <2>2. CASE ~PoisonMemory
    <3>1. m = mem
      BY <1>1, <2>2
    <3> QED BY <3>1, HeapFacts DEF Spares
  <2> QED BY <2>1, <2>2
<1>6. \A c \in blocks : /\ BlockSize(m, c) = BlockSize(mem, c)
                        /\ getBlockAfter(m, c) = getBlockAfter(mem, c)
                        /\ ThisAllocated(m, c) <=> ThisAllocated(mem, c)
  BY <1>5 DEF BlockSize, getBlockAfter, ThisAllocated
<1>7. PICK t : t = Tombstone
  OBVIOUS
<1>8. /\ t \in Free(m, blocks) /\ t \in blocks /\ BlockSize(mem, t) = 4
      /\ t # getBlockAfter(m, b) /\ b # getBlockAfter(m, t)
  <2>1. t \in Free(mem, blocks) /\ BlockSize(mem, t) = 4
        /\ getBlockAfter(mem, b) # t /\ b # getBlockAfter(mem, t)
    BY <1>7, TombstoneFacts
  <2>2. t \in blocks
    BY <2>1 DEF Free
  <2> QED BY <1>5, <1>6, <2>1, <2>2
<1>9. AfterFreeBlock(m, blocks, EndBlocks, b, t, r)
  BY <1>2, <1>4, <1>5, <1>6, <1>8, ListFacts, FreeBlockOK
<1>10. /\ HeapOK(r.mem, r.blocks, EndBlocks) /\ r.blocks \in SUBSET blocks
       /\ r.list \in Free(r.mem, r.blocks)
       /\ Spares(m, blocks, r.mem, r.blocks, {b})
       /\ \A c \in blocks \ r.blocks : \E p \in blocks \ EndBlocks : getBlockAfter(m, p) = c
       /\ \A c \in r.blocks : ThisAllocated(r.mem, c) => ThisAllocated(m, c) /\ c # b
       /\ t \in Free(r.mem, r.blocks) /\ BlockSize(r.mem, t) = BlockSize(m, t)
  BY <1>9 DEF AfterFreeBlock
<1>11. BlocksOfSlabs(r.blocks)
  <2>1. \A c \in blocks \ r.blocks : \E p \in blocks \ EndBlocks : getBlockAfter(mem, p) = c
    BY <1>6, <1>10
  <2> QED BY <1>10, <2>1, SlabsOfFewer
<1>12. Spares(mem, blocks, r.mem, r.blocks, {b})
  <2> SUFFICES ASSUME NEW c \in blocks, c # b, ThisAllocated(mem, c)
               PROVE  /\ c \in r.blocks /\ ThisAllocated(r.mem, c) /\ BlockSize(r.mem, c) = BlockSize(mem, c)
                      /\ \A a \in Int : c < a /\ a < getBlockAfter(mem, c) => r.mem[a] = mem[a]
    BY DEF Spares
  <2>1. \A a \in Int : c < a /\ a < getBlockAfter(mem, c) => m[a] = mem[a]
    BY <1>5 DEF Spares
  <2>2. /\ c \in r.blocks /\ ThisAllocated(r.mem, c) /\ BlockSize(r.mem, c) = BlockSize(m, c)
        /\ \A a \in Int : c < a /\ a < getBlockAfter(m, c) => r.mem[a] = m[a]
    BY <1>6, <1>10 DEF Spares
  <2> QED BY <1>6, <2>1, <2>2
<1>13. Leaves(b, r.mem, r.blocks, r.list)
  BY <1>6, <1>7, <1>8, <1>10, <1>11, <1>12 DEF Leaves
<1>14. \A c \in r.blocks : ThisAllocated(r.mem, c) => c \in blocks /\ ThisAllocated(mem, c) /\ c # b
  BY <1>6, <1>10
<1> QED BY <1>3, <1>13, <1>14

\* What a client gives back, and nothing else, is free.
LEMMA DeallocateStep ==
  ASSUME IInv, NEW x \in live, deallocateFunctionBody(x)
  PROVE  IInv'
<1> DEFINE b == x.block
<1>1. /\ pc = "idle" /\ deallocateBlock(b) /\ live' = live \ {x} /\ CodeSlabs' = CodeSlabs
      /\ CurBlock' = CurBlock /\ pc' = pc /\ search' = search /\ emitted' = emitted
  BY DEF deallocateFunctionBody
<1>2. b \in blocks \ Fences /\ ThisAllocated(mem, b) /\ BlockSize(mem, b) >= 4
  BY OwnedFacts DEF OwnedIn
<1>3. /\ Leaves(b, mem', blocks', FreeMemoryList')
      /\ \A c \in blocks' : ThisAllocated(mem', c) => c \in blocks /\ ThisAllocated(mem, c) /\ c # b
  BY <1>1, <1>2, GivesBack
<1>4. \A y, z \in live : y.block = z.block => y = z
  BY DEF IInv, LiveOK
<1>5. \A y \in live' : y \in live /\ y.block # b
  BY <1>1, <1>4
<1>6. \A c \in blocks' : ThisAllocated(mem', c) => c \in Fences \cup LiveBlocks'
  <2> SUFFICES ASSUME NEW c \in blocks', ThisAllocated(mem', c), c \notin Fences
               PROVE  c \in LiveBlocks'
    OBVIOUS
  <2>1. c \in blocks /\ ThisAllocated(mem, c) /\ c # b
    BY <1>3
  <2>2. c \in LiveBlocks
    BY <1>1, <2>1 DEF IInv, NothingLeaks, Opened
  <2>3. PICK y \in live : y.block = c
    BY <2>2 DEF LiveBlocks
  <2>4. y \in live'
    BY <1>1, <2>1, <2>3
  <2> QED BY <2>3, <2>4 DEF LiveBlocks
<1>7. emitted = 0 /\ CurBlock \in Addr
  BY <1>1 DEF IInv, OpenedOK, TypeOK
<1>8. \A y, z \in live' : y.block = z.block => y = z
  BY <1>1, <1>4
<1> QED BY <1>1, <1>2, <1>3, <1>5, <1>6, <1>7, <1>8, IdleAgain

\* So is a buffer that turned out too small.
LEMMA RetryStep == IInv /\ retryWithMoreMemory => IInv'
<1> SUFFICES ASSUME IInv, retryWithMoreMemory PROVE IInv'
  OBVIOUS
<1> DEFINE b == CurBlock
<1>1. /\ pc = "emitted" /\ deallocateBlock(b) /\ live' = live /\ CodeSlabs' = CodeSlabs
      /\ CurBlock' = NoBlock /\ pc' = "idle" /\ search' = search /\ emitted' = 0
  BY DEF retryWithMoreMemory
<1>2. /\ b \in blocks \ Fences /\ ThisAllocated(mem, b) /\ BlockSize(mem, b) >= 4
      /\ b \notin LiveBlocks /\ b \in Addr /\ b \in Nat
  BY <1>1, OpenedFacts
<1> HIDE DEF b
<1>3. /\ Leaves(b, mem', blocks', FreeMemoryList')
      /\ \A c \in blocks' : ThisAllocated(mem', c) => c \in blocks /\ ThisAllocated(mem, c) /\ c # b
  BY <1>1, <1>2, GivesBack
<1>4. \A y, z \in live : y.block = z.block => y = z
  BY DEF IInv, LiveOK
<1>5. \A y \in live : y.block # b
  BY <1>2, OwnedFacts
<1>6. \A c \in blocks' : ThisAllocated(mem', c) => c \in Fences \cup LiveBlocks'
  <2> SUFFICES ASSUME NEW c \in blocks', ThisAllocated(mem', c) PROVE c \in Fences \cup LiveBlocks'
    OBVIOUS
  <2>1. c \in blocks /\ ThisAllocated(mem, c) /\ c # b
    BY <1>3
  <2>2. c \in Fences \cup LiveBlocks
    BY <1>1, <2>1 DEF IInv, NothingLeaks, Opened, b
  <2>3. LiveBlocks' = LiveBlocks
    BY <1>1 DEF LiveBlocks
  <2> QED BY <2>2, <2>3
<1>7. CurBlock' \in Addr
  BY <1>1, <1>2, SizeAssumption DEF NoBlock, Addr
<1> QED BY <1>1, <1>2, <1>3, <1>4, <1>5, <1>6, <1>7, IdleAgain

\* A global gets the first words of a free block, and the rest is cut off.
LEMMA SpaceStep ==
  ASSUME IInv, RoomAtHead, NEW size \in SpaceSizes, NEW alignment \in Alignments,
         allocateSpace(size, alignment)
  PROVE  IInv'
<1> DEFINE b == FreeMemoryList
           m1 == AllocateBlock(mem, b)
           h1 == NextFree(mem, b)
<1>1. /\ pc = "idle" /\ CodeSlabs' = CodeSlabs /\ CurBlock' = CurBlock /\ pc' = pc
      /\ search' = search /\ emitted' = emitted
  BY DEF allocateSpace
<1>2. PICK result \in b + HeaderWords .. b + HeaderWords + alignment - 1 :
        /\ AtLeastMin(result + size - b) <= BlockSize(mem, b)
        /\ LET r == TrimAllocationToSize(m1, blocks, h1, b, result + size - b)
           IN  /\ mem' = Fill(r.mem, result, result + size, Code)
               /\ blocks' = r.blocks
               /\ FreeMemoryList' = r.list
        /\ live' = live \cup {[block |-> b, start |-> result,
                               end |-> result + size, global |-> TRUE]}
  BY DEF allocateSpace
<1>3. PICK r : r = TrimAllocationToSize(m1, blocks, h1, b, result + size - b)
  OBVIOUS
<1> DEFINE y == [block |-> b, start |-> result, end |-> result + size, global |-> TRUE]
<1>4. /\ mem' = Fill(r.mem, result, result + size, Code)
      /\ blocks' = r.blocks /\ FreeMemoryList' = r.list
      /\ live' = live \cup {y}
  BY <1>2, <1>3
<1>5. /\ b \in Free(mem, blocks) /\ b \in blocks /\ b \in Addr /\ b \in Nat /\ ~ThisAllocated(mem, b)
      /\ BlockSize(mem, b) \in Nat /\ b + BlockSize(mem, b) <= MemWords
      /\ ThisAllocated(mem, getBlockAfter(mem, b)) /\ getBlockAfter(mem, b) \in blocks
      /\ b # Tombstone
  <2>1. b \in Free(mem, blocks) /\ b \in blocks /\ b \in Addr
    BY ListFacts
  <2>2. ~ThisAllocated(mem, b) /\ ThisAllocated(mem, getBlockAfter(mem, b))
        /\ getBlockAfter(mem, b) \in blocks
    BY <2>1, HeapFacts, LinkFacts
  <2>3. b \in Nat /\ BlockSize(mem, b) \in Nat /\ b + BlockSize(mem, b) <= MemWords
    BY <2>1, HeapFacts, BlockFacts
  <2> QED BY <2>1, <2>2, <2>3 DEF RoomAtHead
<1>6. size \in Nat /\ size >= 1
  <2>1. SpaceSizes \subseteq Nat \ {0}
    BY SizeAssumption
  <2>2. size \in Nat \ {0}
    BY ONLY <2>1, size \in SpaceSizes
  <2> QED BY <2>2
<1>7. result \in Int /\ b < result
  <2>1. b + HeaderWords \in Int /\ b < b + HeaderWords
    BY <1>5 DEF HeaderWords
  <2>2. alignment \in Nat
    <3>1. Alignments \subseteq Nat \ {0}
      BY SizeAssumption
    <3> QED BY ONLY <3>1, alignment \in Alignments
  <2> QED BY <1>2, <1>5, <2>1, <2>2
<1> HIDE DEF b
<1>8. PICK need : need = result + size - b
  OBVIOUS
<1>9. need \in Nat /\ AtLeastMin(need) \in Nat /\ AtLeastMin(need) >= need /\ AtLeastMin(need) >= 4
      /\ AtLeastMin(need) <= BlockSize(mem, b) /\ result + size = b + need
  <2>1. need \in Nat /\ result + size = b + need
    BY <1>5, <1>6, <1>7, <1>8
  <2> QED BY <1>2, <1>8, <2>1 DEF AtLeastMin, MinBlockSize, FreeHeaderWords
<1>10. b \notin EndBlocks /\ b \notin Fences /\ b \notin LiveBlocks
  <2>1. b \notin Fences /\ EndBlocks \in SUBSET Fences
    BY <1>5, TombstoneFacts
  <2>2. \A x \in live : x.block # b
    BY <1>5, OwnedFacts
  <2> QED BY <2>1, <2>2 DEF LiveBlocks
<1> HIDE DEF m1
<1>11. AfterAllocate(mem, blocks, EndBlocks, b, m1)
  BY <1>5, HeapFacts, AllocateOK DEF m1
<1>12. /\ HeapOK(m1, blocks, EndBlocks) /\ Free(m1, blocks) = Free(mem, blocks) \ {b}
       /\ \A c \in blocks : BlockSize(m1, c) = BlockSize(mem, c)
       /\ \A c \in blocks : ThisAllocated(m1, c) <=> (ThisAllocated(mem, c) \/ c = b)
       /\ Spares(mem, blocks, m1, blocks, {b})
  BY <1>11 DEF AfterAllocate
<1>13. h1 \in Free(m1, blocks)
  <2>1. NextFree(mem, b) \in Free(mem, blocks) \ {b}
    BY <1>5, HeapFacts, TombstoneFacts, NextIsOther
  <2> QED BY <1>12, <2>1
<1>14. /\ b \in blocks \ EndBlocks /\ ThisAllocated(m1, b) /\ ThisAllocated(m1, getBlockAfter(m1, b))
       /\ BlockSize(m1, b) = BlockSize(mem, b) /\ getBlockAfter(m1, b) = getBlockAfter(mem, b)
  <2>1. BlockSize(m1, b) = BlockSize(mem, b) /\ ThisAllocated(m1, b)
    BY <1>5, <1>12
  <2>2. getBlockAfter(m1, b) = getBlockAfter(mem, b)
    BY <2>1 DEF getBlockAfter
  <2> QED BY <1>5, <1>10, <1>12, <2>1, <2>2
<1> HIDE DEF h1
<1>15. AfterTrim(m1, blocks, EndBlocks, b, need, r)
  <2>1. /\ HeapOK(m1, blocks, EndBlocks) /\ h1 \in Free(m1, blocks) /\ b \in blocks \ EndBlocks
        /\ ThisAllocated(m1, b) /\ ThisAllocated(m1, getBlockAfter(m1, b)) /\ need \in Nat
        /\ AtLeastMin(need) <= BlockSize(m1, b)
        /\ r = TrimAllocationToSize(m1, blocks, h1, b, need)
    BY <1>3, <1>8, <1>9, <1>12, <1>13, <1>14
  <2> QED BY ONLY <2>1, TrimOK
<1>16. /\ HeapOK(r.mem, r.blocks, EndBlocks) /\ blocks \in SUBSET r.blocks
       /\ r.list \in Free(r.mem, r.blocks)
       /\ Spares(m1, blocks, r.mem, r.blocks, {b})
       /\ \A c \in r.blocks \ blocks : b < c /\ c < getBlockAfter(mem, b)
       /\ \A c \in r.blocks : ThisAllocated(r.mem, c) => c \in blocks /\ ThisAllocated(m1, c)
       /\ \A c \in Free(m1, blocks) : c \in Free(r.mem, r.blocks) /\ BlockSize(r.mem, c) = BlockSize(m1, c)
       /\ ThisAllocated(r.mem, b) /\ BlockSize(r.mem, b) >= AtLeastMin(need)
  BY <1>14, <1>15 DEF AfterTrim
<1>17. /\ b \in r.blocks /\ BlockSize(r.mem, b) \in Nat /\ r.blocks \in SUBSET Addr
       /\ getBlockAfter(r.mem, b) = b + BlockSize(r.mem, b)
       /\ result + size <= getBlockAfter(r.mem, b)
       /\ BlockSize(r.mem, b) >= 4
  <2>1. b \in r.blocks /\ BlocksOK(r.mem, r.blocks, EndBlocks)
    BY <1>5, <1>16 DEF HeapOK
  <2>2. BlockSize(r.mem, b) \in Nat /\ getBlockAfter(r.mem, b) = b + BlockSize(r.mem, b)
    BY <2>1, BlockFacts
  <2>3. BlockSize(r.mem, b) >= AtLeastMin(need)
    BY <1>16
  <2>4. result + size <= getBlockAfter(r.mem, b) /\ BlockSize(r.mem, b) >= 4
    BY <1>5, <1>9, <2>2, <2>3
  <2> QED BY <2>1, <2>2, <2>4 DEF BlocksOK
<1>18. PICK n : n = mem'
  OBVIOUS
<1>19. PICK to : to = result + size
  OBVIOUS
<1>20. AfterFill(r.mem, r.blocks, EndBlocks, b, result, to, Code, n)
  <2>1. PICK m2, C : m2 = r.mem /\ C = r.blocks
    OBVIOUS
  <2>2. /\ HeapOK(m2, C, EndBlocks) /\ b \in C /\ ThisAllocated(m2, b)
        /\ result \in Int /\ to \in Int /\ b < result /\ to <= getBlockAfter(m2, b)
        /\ Code \in Word /\ n = Fill(m2, result, to, Code)
    BY <1>4, <1>6, <1>7, <1>16, <1>17, <1>18, <1>19, <2>1 DEF Code, Word
  <2>3. AfterFill(m2, C, EndBlocks, b, result, to, Code, n)
    BY ONLY <2>2, FillOK
  <2> QED BY <2>1, <2>3
<1>21. /\ HeapOK(n, r.blocks, EndBlocks) /\ Free(n, r.blocks) = Free(r.mem, r.blocks)
       /\ \A c \in r.blocks : n[c] = r.mem[c]
       /\ Spares(r.mem, r.blocks, n, r.blocks, {b})
       /\ \A a \in Addr : result <= a /\ a < to => n[a] = Code
  BY <1>20 DEF AfterFill
<1>22. \A c \in r.blocks : /\ BlockSize(n, c) = BlockSize(r.mem, c)
                           /\ ThisAllocated(n, c) <=> ThisAllocated(r.mem, c)
                           /\ getBlockAfter(n, c) = getBlockAfter(r.mem, c)
  BY <1>21 DEF BlockSize, ThisAllocated, getBlockAfter
<1>23. Spares(mem, blocks, n, r.blocks, {b})
  <2> SUFFICES ASSUME NEW c \in blocks, c # b, ThisAllocated(mem, c)
               PROVE  /\ c \in r.blocks /\ ThisAllocated(n, c) /\ BlockSize(n, c) = BlockSize(mem, c)
                      /\ \A a \in Int : c < a /\ a < getBlockAfter(mem, c) => n[a] = mem[a]
    BY DEF Spares
  <2>1. /\ ThisAllocated(m1, c) /\ BlockSize(m1, c) = BlockSize(mem, c)
        /\ \A a \in Int : c < a /\ a < getBlockAfter(mem, c) => m1[a] = mem[a]
    BY <1>12 DEF Spares
  <2>2. getBlockAfter(m1, c) = getBlockAfter(mem, c)
    BY <2>1 DEF getBlockAfter
  <2>3. /\ c \in r.blocks /\ ThisAllocated(r.mem, c) /\ BlockSize(r.mem, c) = BlockSize(m1, c)
        /\ \A a \in Int : c < a /\ a < getBlockAfter(m1, c) => r.mem[a] = m1[a]
    BY <1>16, <2>1 DEF Spares
  <2>4. getBlockAfter(r.mem, c) = getBlockAfter(m1, c)
    BY <2>3 DEF getBlockAfter
  <2>5. /\ ThisAllocated(n, c) /\ BlockSize(n, c) = BlockSize(r.mem, c)
        /\ \A a \in Int : c < a /\ a < getBlockAfter(r.mem, c) => n[a] = r.mem[a]
    BY <1>21, <2>3 DEF Spares
  <2> QED BY <2>1, <2>2, <2>3, <2>4, <2>5
<1>24. Leaves(b, n, r.blocks, r.list)
  <2>1. \A c \in r.blocks : c \in Int
    BY <1>17, SizeAssumption DEF Addr
  <2>2. BlocksOfSlabs(r.blocks)
    BY <1>14, <1>16, <2>1, SlabsOfMore
  <2>3. Tombstone \in Free(m1, blocks) /\ Tombstone \in blocks
    BY <1>5, <1>12, TombstoneFacts DEF Free
  <2>4. Tombstone \in Free(r.mem, r.blocks) /\ BlockSize(r.mem, Tombstone) = 4
    <3>1. BlockSize(m1, Tombstone) = 4
      BY <1>12, <2>3, TombstoneFacts
    <3> QED BY <1>16, <2>3, <3>1
  <2>5. Tombstone \in Free(n, r.blocks) /\ BlockSize(n, Tombstone) = 4
    BY <1>16, <1>21, <1>22, <2>3, <2>4
  <2> QED BY <1>16, <1>21, <1>23, <2>2, <2>5 DEF Leaves
<1>25. y \in Owned /\ y.block = b /\ OwnedIn(n, r.blocks, y)
  <2>1. y.block = b /\ y.start = result /\ y.end = to /\ y.global = TRUE
    BY <1>19 DEF b
  <2>2. result \in Addr /\ to \in 0 .. MemWords
    BY <1>5, <1>6, <1>7, <1>9, <1>19, SizeAssumption DEF Addr
  <2>3. y \in Owned
    BY <1>5, <1>19, <2>2 DEF Owned, b
  <2> HIDE DEF y
  <2>4. \A a \in y.start .. y.end - 1 : n[a] = Code
    <3> SUFFICES ASSUME NEW a \in result .. to - 1 PROVE n[a] = Code
      BY <2>1
    <3>1. a \in Addr /\ result <= a /\ a < to
      BY <2>2, SizeAssumption DEF Addr
    <3> QED BY <1>21, <3>1
  <2>5. b < result /\ result < to /\ to <= getBlockAfter(n, b)
    <3>1. getBlockAfter(n, b) = getBlockAfter(r.mem, b)
      BY <1>17, <1>22
    <3> QED BY <1>6, <1>7, <1>17, <1>19, <3>1
  <2>6. b \in r.blocks /\ ThisAllocated(n, b) /\ BlockSize(n, b) >= 4
    BY <1>16, <1>17, <1>22
  <2> QED BY <2>1, <2>3, <2>4, <2>5, <2>6 DEF OwnedIn
<1> HIDE DEF y
<1>26. \A x \in live : x.block # b
  BY <1>5, OwnedFacts
<1>27. Leaves(b, mem', blocks', FreeMemoryList')
  BY <1>4, <1>18, <1>24
<1>28. \A x \in live' : \/ x \in live /\ x.block # b
                        \/ x \in Owned /\ x.block = b /\ OwnedIn(mem', blocks', x)
  BY <1>4, <1>18, <1>25, <1>26
<1>29. \A x, z \in live' : x.block = z.block => x = z
  <2>1. \A x, z \in live : x.block = z.block => x = z
    BY DEF IInv, LiveOK
  <2> QED BY <1>4, <1>25, <1>26, <2>1
<1>30. \A c \in blocks' : ThisAllocated(mem', c) => c \in Fences \cup LiveBlocks'
  <2> SUFFICES ASSUME NEW c \in blocks', ThisAllocated(mem', c) PROVE c \in Fences \cup LiveBlocks'
    OBVIOUS
  <2>1. c \in blocks /\ ThisAllocated(m1, c)
    BY <1>4, <1>16, <1>18, <1>22
  <2>2. c = b \/ ThisAllocated(mem, c)
    BY <1>12, <2>1
  <2>3. c = b \/ c \in Fences \/ c \in LiveBlocks
    BY <1>1, <2>1, <2>2 DEF IInv, NothingLeaks, Opened
  <2>4. LiveBlocks' = LiveBlocks \cup {b}
    BY <1>4, <1>25 DEF LiveBlocks
  <2> QED BY <2>3, <2>4
<1>31. emitted = 0 /\ CurBlock \in Addr
  BY <1>1 DEF IInv, OpenedOK, TypeOK
<1>32. b \in blocks \ Fences
  BY <1>5, <1>10
<1> QED BY <1>1, <1>27, <1>28, <1>29, <1>30, <1>31, <1>32, IdleAgain

-----------------------------------------------------------------------------
(* The invariant                                                           *)

\* A step that changes nothing.
LEMMA StutterStep == IInv /\ UNCHANGED vars => IInv'
<1> SUFFICES ASSUME IInv, UNCHANGED vars PROVE IInv'
  OBVIOUS
<1>1. /\ mem' = mem /\ CodeSlabs' = CodeSlabs /\ FreeMemoryList' = FreeMemoryList
      /\ CurBlock' = CurBlock /\ pc' = pc /\ search' = search /\ emitted' = emitted
      /\ live' = live /\ blocks' = blocks
  BY DEF vars
<1>2. /\ Slabs' = Slabs /\ EndBlocks' = EndBlocks /\ Fences' = Fences /\ Tombstone' = Tombstone
      /\ LiveBlocks' = LiveBlocks /\ Opened' = Opened
  BY <1>1 DEF Slabs, EndBlocks, Fences, Tombstone, LiveBlocks, Opened
<1>3. TypeOK' /\ HeapOK(mem, blocks, EndBlocks)' /\ SlabsOK' /\ TombstoneOK'
  BY <1>1, <1>2 DEF IInv, TypeOK, SlabsOK, TombstoneOK
<1>4. ListOK' /\ SearchOK' /\ NothingLeaks'
  BY <1>1, <1>2 DEF IInv, ListOK, SearchOK, NothingLeaks
<1>5. OpenedOK' /\ LiveOK'
  BY <1>1, <1>2 DEF IInv, OpenedOK, LiveOK, IsOwned, BufferBegin, BufferEnd
<1> QED BY <1>3, <1>4, <1>5 DEF IInv

\* The invariant is inductive.
LEMMA NextOK == IInv /\ [Next]_vars => IInv'
<1> SUFFICES ASSUME IInv, [Next]_vars PROVE IInv'
  OBVIOUS
<1>1. ASSUME NEW size \in RequestSizes, startFunctionBody(size) PROVE IInv'
  BY <1>1, StartStep
<1>2. ASSUME NEW n \in EmitSizes, EmitCode(n) PROVE IInv'
  BY <1>2, EmitStep
<1>3. ASSUME NEW x \in live, deallocateFunctionBody(x) PROVE IInv'
  BY <1>3, DeallocateStep
<1>4. ASSUME NEW size \in SpaceSizes, NEW alignment \in Alignments,
             RoomAtHead, allocateSpace(size, alignment)
      PROVE  IInv'
  BY <1>4, SpaceStep
<1>5. CASE UseNewSlab
  BY <1>5, NewSlabStep
<1>6. CASE UNCHANGED vars
  BY <1>6, StutterStep
<1> QED BY <1>1, <1>2, <1>3, <1>4, <1>5, <1>6, SearchStep, UseStep, FailStep, EndStep, RetryStep
        DEF Next, Step

\* The invariant holds for every size of memory, page, slab and request.
THEOREM HeapInvariant == Spec => []IInv
<1>1. Init => IInv
  BY InitOK
<1>2. IInv /\ [Next]_vars => IInv'
  BY NextOK
<1> QED BY <1>1, <1>2, PTL DEF Spec
\* The part of the list a search has seen when it ends is the whole list, so its
\* candidate is the largest free block there is.
LEMMA LargestFound ==
  ASSUME IInv, SearchDone
  PROVE  /\ search.candidate \in Free(mem, blocks)
         /\ BlockSize(mem, search.candidate) \in Nat /\ search.size \in Nat
         /\ \A b \in Free(mem, blocks) :
              BlockSize(mem, b) \in Nat /\ BlockSize(mem, b) <= BlockSize(mem, search.candidate)
<1>1. pc = "searching" /\ search.iter = FreeMemoryList
  BY DEF SearchDone
<1>2. PICK V \in SUBSET Free(mem, blocks) :
        /\ FreeMemoryList \in V
        /\ \A b \in V : /\ NextFree(mem, b) \in V \cup {search.iter}
                        /\ BlockSize(mem, b) <= BlockSize(mem, search.candidate)
  BY <1>1 DEF IInv, SearchOK
<1>3. V # {} /\ \A b \in V : NextFree(mem, b) \in V
  BY <1>1, <1>2
<1>4. V = Free(mem, blocks)
  BY <1>2, <1>3 DEF IInv, HeapOK, OneRing
<1>5. /\ search.candidate \in Free(mem, blocks) /\ search.size \in RequestSizes \cup {0}
      /\ \A b \in Free(mem, blocks) : BlockSize(mem, b) \in Nat
  BY <1>1, ListFacts
<1>6. search.size \in Nat
  <2>1. \A n \in RequestSizes : n \in Nat
    BY SizeAssumption
  <2> QED BY ONLY <1>5, <2>1
<1> QED BY ONLY <1>2, <1>4, <1>5, <1>6

\* A slab is mapped at the end of a search only, and then the largest free block is
\* too small.
THEOREM MapsOnlyAtNeed == Spec => MapsOnlyWhenFull
<1> DEFINE Full == \A b \in FreeBlocks : \/ BlockSize(mem, b) - HeaderWords < search.size
                                         \/ BlockSize(mem, b) - HeaderWords <= MinBlockSize
<1>1. ASSUME IInv, UseNewSlab PROVE Full
  <2>1. SearchDone /\ TooSmall
    BY <1>1 DEF UseNewSlab
  <2>2. /\ search.size \in Nat /\ BlockSize(mem, search.candidate) \in Nat
        /\ \A b \in Free(mem, blocks) :
             BlockSize(mem, b) \in Nat /\ BlockSize(mem, b) <= BlockSize(mem, search.candidate)
    BY <1>1, <2>1, LargestFound
  <2>3. \/ BlockSize(mem, search.candidate) - 1 < search.size
        \/ BlockSize(mem, search.candidate) - 1 <= 4
    BY <2>1 DEF TooSmall, HeaderWords, MinBlockSize, FreeHeaderWords
  <2>4. FreeBlocks = Free(mem, blocks)
    BY DEF FreeBlocks, Free
  <2>5. \A b \in FreeBlocks : BlockSize(mem, b) - 1 < search.size \/ BlockSize(mem, b) - 1 <= 4
    <3>1. SUFFICES ASSUME NEW b \in Free(mem, blocks)
                   PROVE BlockSize(mem, b) - 1 < search.size \/ BlockSize(mem, b) - 1 <= 4
      BY <2>4
    <3>2. BlockSize(mem, b) \in Nat /\ BlockSize(mem, b) <= BlockSize(mem, search.candidate)
      BY <2>2
    <3> QED BY ONLY <2>2, <2>3, <3>2
  <2> QED BY <2>5 DEF HeaderWords, MinBlockSize, FreeHeaderWords
<1>2. ASSUME IInv, [Next]_vars, ~UNCHANGED CodeSlabs PROVE UseNewSlab
  <2>1. ASSUME NEW x, deallocateFunctionBody(x) PROVE FALSE
    BY <1>2, <2>1 DEF deallocateFunctionBody
  <2>2. ASSUME NEW size, NEW alignment, allocateSpace(size, alignment) PROVE FALSE
    BY <1>2, <2>2 DEF allocateSpace
  <2> QED BY <1>2, <2>1, <2>2
          DEF Next, Step, vars, startFunctionBody, SearchFreeList, UseFreeBlock, AllocationFails,
              EmitCode, endFunctionBody, retryWithMoreMemory
<1>3. IInv /\ [Next]_vars => [Len(CodeSlabs') > Len(CodeSlabs) => Full]_CodeSlabs
  BY <1>1, <1>2
<1> QED BY <1>3, HeapInvariant, PTL DEF Spec, MapsOnlyWhenFull

\* The memory types are as the declarations say.
THEOREM MemoryIsTyped == Spec => []TypeOK
<1>1. IInv => TypeOK
  BY DEF IInv
<1> QED BY <1>1, HeapInvariant, PTL
\* The block that is opened is at least as large as what was asked for, and as every
\* block that was free.
LEMMA GrantsStep ==
  ASSUME IInv, [Next]_vars, pc = "searching", pc' = "emitting"
  PROVE  LET granted == BlockSize(mem', CurBlock') - HeaderWords
         IN  /\ granted >= search.size
             /\ \A b \in FreeBlocks : BlockSize(mem, b) - HeaderWords <= granted
<1> DEFINE granted == BlockSize(mem', CurBlock') - 1
<1>1. FreeBlocks = Free(mem, blocks)
  BY DEF FreeBlocks, Free
<1>2. ASSUME SearchDone
      PROVE  /\ search.candidate \in Free(mem, blocks)
             /\ BlockSize(mem, search.candidate) \in Nat /\ search.size \in Nat
             /\ \A b \in Free(mem, blocks) : /\ BlockSize(mem, b) \in Nat
                                             /\ BlockSize(mem, b) <= BlockSize(mem, search.candidate)
  BY <1>2, LargestFound
<1>3. CASE UseFreeBlock
  <2>1. SearchDone /\ ~TooSmall /\ mem' = AllocateBlock(mem, search.candidate)
        /\ CurBlock' = search.candidate
    BY <1>3 DEF UseFreeBlock, OpenBlock
  <2>2. /\ search.candidate \in Free(mem, blocks)
        /\ BlockSize(mem, search.candidate) \in Nat /\ search.size \in Nat
        /\ \A b \in Free(mem, blocks) : /\ BlockSize(mem, b) \in Nat
                                        /\ BlockSize(mem, b) <= BlockSize(mem, search.candidate)
    BY <2>1, <1>2
  <2>3. BlockSize(mem, search.candidate) - 1 >= search.size
    BY <2>1, <2>2 DEF TooSmall, HeaderWords
  <2>4. BlockSize(mem', search.candidate) = BlockSize(mem, search.candidate)
    <3>1. PICK n : n = mem'
      OBVIOUS
    <3>2. AfterAllocate(mem, blocks, EndBlocks, search.candidate, n)
      BY <2>1, <2>2, <3>1, HeapFacts, AllocateOK
    <3>3. search.candidate \in blocks
      BY <2>2 DEF Free
    <3> QED BY <3>1, <3>2, <3>3 DEF AfterAllocate
  <2>5. granted = BlockSize(mem, search.candidate) - 1
    BY <2>1, <2>4
  <2>6. granted >= search.size /\ \A b \in Free(mem, blocks) : BlockSize(mem, b) - 1 <= granted
    <3> HIDE DEF granted
    <3>1. SUFFICES ASSUME NEW b \in Free(mem, blocks)
                   PROVE granted >= search.size /\ BlockSize(mem, b) - 1 <= granted
      BY <2>2, <2>3, <2>5
    <3>2. BlockSize(mem, b) \in Nat /\ BlockSize(mem, b) <= BlockSize(mem, search.candidate)
      BY <2>2
    <3> QED BY ONLY <2>2, <2>3, <2>5, <3>2
  <2> QED BY <2>6, <1>1 DEF HeaderWords
<1>4. CASE UseNewSlab
  <2>1. SearchDone /\ TooSmall
    BY <1>4 DEF UseNewSlab
  <2>2. /\ BlockSize(mem, search.candidate) \in Nat /\ search.size \in Nat
        /\ \A b \in Free(mem, blocks) : /\ BlockSize(mem, b) \in Nat
                                        /\ BlockSize(mem, b) <= BlockSize(mem, search.candidate)
    BY <2>1, <1>2
  <2>3. \/ BlockSize(mem, search.candidate) - 1 < search.size
        \/ BlockSize(mem, search.candidate) - 1 <= 4
    BY <2>1 DEF TooSmall, HeaderWords, MinBlockSize, FreeHeaderWords
  <2>4. granted >= search.size /\ BlockSize(mem', CurBlock') >= DefaultCodeSlabSize - 1
    BY <1>4, NewSlabStep DEF HeaderWords
  <2>5. BlockSize(mem', CurBlock') \in Int
    <3>1. IInv' /\ pc' = "emitting"
      BY <1>4, NewSlabStep
    <3>2. (pc \in {"emitting", "emitted"} /\ IInv => BlockSize(mem, CurBlock) \in Nat)'
      BY OpenedFacts, PTL
    <3> QED BY <3>1, <3>2
  <2>6. DefaultCodeSlabSize \in Nat /\ DefaultCodeSlabSize >= 10
    BY SizeAssumption DEF MinBlockSize, FreeHeaderWords, HeaderWords
  <2>7. SUFFICES \A b \in Free(mem, blocks) : BlockSize(mem, b) - 1 <= granted
    BY <2>4, <1>1 DEF HeaderWords
  <2>8. TAKE b \in Free(mem, blocks)
  <2>9. BlockSize(mem, b) \in Nat /\ BlockSize(mem, b) <= BlockSize(mem, search.candidate)
    BY <2>2
  <2> QED BY ONLY <2>2, <2>3, <2>4, <2>5, <2>6, <2>9
<1>5. UseFreeBlock \/ UseNewSlab
  <2>1. ASSUME NEW x, deallocateFunctionBody(x) PROVE FALSE
    BY <2>1 DEF deallocateFunctionBody
  <2>2. ASSUME NEW size, NEW alignment, allocateSpace(size, alignment) PROVE FALSE
    BY <2>2 DEF allocateSpace
  <2>3. ASSUME NEW size, startFunctionBody(size) PROVE FALSE
    BY <2>3 DEF startFunctionBody
  <2>4. ASSUME NEW n, EmitCode(n) PROVE FALSE
    BY <2>4 DEF EmitCode
  <2> QED BY <2>1, <2>2, <2>3, <2>4
          DEF Next, Step, vars, SearchFreeList, AllocationFails, endFunctionBody, retryWithMoreMemory
<1> QED BY <1>3, <1>4, <1>5

\* A buffer is at least as long as was asked, and the longest that was to be had.
THEOREM GrantsTheLargest == Spec => GrantsWhatIsAsked
<1> DEFINE granted == BlockSize(mem', CurBlock') - HeaderWords
           Largest == /\ granted >= search.size
                      /\ \A b \in FreeBlocks : BlockSize(mem, b) - HeaderWords <= granted
<1>1. IInv /\ [Next]_vars => [pc = "searching" /\ pc' = "emitting" => Largest]_vars
  BY GrantsStep
<1> QED BY <1>1, HeapInvariant, PTL DEF Spec, GrantsWhatIsAsked
-----------------------------------------------------------------------------
(* The manager implements CodeHeap.                                        *)

ExtentOf(x) == [start |-> x.start, end |-> x.end]
OwnedExtents == {ExtentOf(x) : x \in live}
Buffer == [start |-> BufferBegin, end |-> BufferEnd]
OpenExtents == IF Opened = {} THEN {} ELSE {Buffer}

\* What two clients own is apart, and so is what a client owns from the buffer: the
\* extents lie in different blocks.
LEMMA ExtentsApart ==
  ASSUME IInv
  PROVE  /\ \A x \in live : ExtentOf(x) \in Heap!Extent
         /\ \A x, y \in live : x # y => Heap!Disjoint(ExtentOf(x), ExtentOf(y))
         /\ \A x, y \in live : x # y => ExtentOf(x) # ExtentOf(y)
         /\ pc \in {"emitting", "emitted"} =>
              /\ Buffer \in Heap!Extent
              /\ \A x \in live : Heap!Disjoint(Buffer, ExtentOf(x))
<1>1. \A x \in live : /\ x \in Owned /\ x.block \in blocks /\ x.block \in Nat
                      /\ x.start \in Nat /\ x.end \in Nat /\ x.block \in LiveBlocks
                      /\ x.block < x.start /\ x.start < x.end
                      /\ x.end <= getBlockAfter(mem, x.block)
  BY OwnedFacts DEF OwnedIn
<1>2. \A x \in live : /\ ExtentOf(x).start = x.start /\ ExtentOf(x).end = x.end
                      /\ ExtentOf(x) \in Heap!Extent
  <2>1. \A x \in live : x.start \in 0 .. MemWords /\ x.end \in 0 .. MemWords /\ x.start < x.end
    <3> TAKE x \in live
    <3>1. x \in Owned /\ x.start \in Nat /\ x.end \in Nat /\ x.start < x.end
      BY <1>1
    <3>2. x.end \in 0 .. MemWords
      BY <3>1 DEF Owned
    <3> QED BY <3>1, <3>2, SizeAssumption
  <2> QED BY <2>1 DEF ExtentOf, Heap!Extent
<1>3. \A b, c \in blocks : b < c => getBlockAfter(mem, b) <= c
  BY HeapFacts DEF BlocksOK, Tiled
<1>4. \A b \in blocks : b \in Nat /\ getBlockAfter(mem, b) \in Nat
  BY HeapFacts, BlockFacts
<1>5. \A x, y \in live : x # y => x.end <= y.start \/ y.end <= x.start
  <2> SUFFICES ASSUME NEW x \in live, NEW y \in live, x # y
               PROVE  x.end <= y.start \/ y.end <= x.start
    OBVIOUS
  <2>1. x.block # y.block
    BY DEF IInv, LiveOK
  <2>2. \/ getBlockAfter(mem, x.block) <= y.block
        \/ getBlockAfter(mem, y.block) <= x.block
    BY <1>1, <1>3, <2>1
  <2>3. /\ getBlockAfter(mem, x.block) \in Nat /\ getBlockAfter(mem, y.block) \in Nat
        /\ x.block \in Nat /\ y.block \in Nat /\ x.end \in Nat /\ y.end \in Nat
        /\ x.start \in Nat /\ y.start \in Nat /\ x.block < x.start /\ y.block < y.start
        /\ x.end <= getBlockAfter(mem, x.block) /\ y.end <= getBlockAfter(mem, y.block)
    BY <1>1, <1>4
  <2> QED BY ONLY <2>2, <2>3
<1>6. ASSUME pc \in {"emitting", "emitted"}
      PROVE  /\ Buffer \in Heap!Extent
             /\ \A x \in live : BufferEnd <= x.start \/ x.end <= BufferBegin
  <2>1. /\ CurBlock \in blocks /\ CurBlock \notin LiveBlocks /\ CurBlock \in Nat
        /\ BlockSize(mem, CurBlock) \in Nat /\ BlockSize(mem, CurBlock) >= 4
        /\ BufferBegin = CurBlock + 1 /\ BufferEnd = CurBlock + BlockSize(mem, CurBlock)
        /\ BufferEnd <= MemWords /\ BufferBegin \in Nat /\ BufferEnd \in Nat
        /\ BufferEnd = getBlockAfter(mem, CurBlock)
    BY <1>6, OpenedFacts DEF BufferEnd
  <2>2. ASSUME NEW x \in live PROVE BufferEnd <= x.start \/ x.end <= BufferBegin
    <3>1. x.block # CurBlock
      BY <1>1, <2>1
    <3>2. BufferEnd <= x.block \/ getBlockAfter(mem, x.block) <= CurBlock
      BY <1>1, <1>3, <2>1, <3>1
    <3>3. /\ getBlockAfter(mem, x.block) \in Nat /\ x.block \in Nat /\ x.end \in Nat
          /\ x.start \in Nat /\ x.block < x.start /\ x.end <= getBlockAfter(mem, x.block)
      BY <1>1, <1>4
    <3> QED BY ONLY <2>1, <3>2, <3>3
  <2>3. BufferBegin \in 0 .. MemWords /\ BufferEnd \in 0 .. MemWords /\ BufferBegin < BufferEnd
    BY <2>1, SizeAssumption
  <2> QED BY <2>2, <2>3 DEF Buffer, Heap!Extent
<1>7. Buffer.start = BufferBegin /\ Buffer.end = BufferEnd
  BY DEF Buffer
<1>8. \A x, y \in live : x # y => ExtentOf(x) # ExtentOf(y)
  <2> SUFFICES ASSUME NEW x \in live, NEW y \in live, x # y, ExtentOf(x) = ExtentOf(y)
               PROVE  FALSE
    OBVIOUS
  <2>1. x.start = y.start /\ x.end = y.end
    BY <1>2
  <2>2. x.end <= y.start \/ y.end <= x.start
    BY <1>5
  <2>3. x.start \in Nat /\ x.end \in Nat /\ x.start < x.end
    BY <1>1
  <2> QED BY ONLY <2>1, <2>2, <2>3
<1> QED BY <1>2, <1>5, <1>6, <1>7, <1>8 DEF Heap!Disjoint

\* A buffer that is opened is apart from everything that is owned.
LEMMA OpensBuffer ==
  ASSUME IInv, IInv', pc = "searching", pc' = "emitting", live' = live
  PROVE  /\ OpenExtents = {} /\ OpenExtents' = {Buffer'} /\ Buffer' \in Heap!Extent
         /\ OwnedExtents' = OwnedExtents
         /\ \A f \in OwnedExtents : Heap!Disjoint(Buffer', f)
<1>1. OpenExtents = {} /\ OpenExtents' = {Buffer'} /\ OwnedExtents' = OwnedExtents
  BY DEF OpenExtents, Opened, OwnedExtents
<1>2. (IInv /\ pc \in {"emitting", "emitted"} =>
         /\ Buffer \in Heap!Extent
         /\ \A x \in live : Heap!Disjoint(Buffer, ExtentOf(x)))'
  BY ExtentsApart, PTL
<1>3. /\ Buffer' \in Heap!Extent
      /\ \A x \in live' : Heap!Disjoint(Buffer', ExtentOf(x))
  BY <1>2 DEF Heap!Extent
<1> QED BY <1>1, <1>3 DEF OwnedExtents

AllApart ==
  /\ \A x \in live : ExtentOf(x) \in Heap!Extent
  /\ \A x, y \in live : x # y => Heap!Disjoint(ExtentOf(x), ExtentOf(y))

\* The part of this about what clients own.
LEMMA OwnersApart == IInv => AllApart
BY ExtentsApart DEF AllApart

\* What is taken is apart from what was owned before.
LEMMA TakesExtent ==
  ASSUME IInv, IInv', NEW n, live' = live \cup {n}, \A x \in live : x.block # n.block
  PROVE  /\ ExtentOf(n) \in Heap!Extent /\ OwnedExtents' = OwnedExtents \cup {ExtentOf(n)}
         /\ \A f \in OwnedExtents : Heap!Disjoint(ExtentOf(n), f)
<1>1. AllApart'
  BY OwnersApart, PTL
<1>2. /\ \A x \in live' : ExtentOf(x) \in Heap!Extent
      /\ \A x, y \in live' : x # y => Heap!Disjoint(ExtentOf(x), ExtentOf(y))
  BY <1>1 DEF AllApart, Heap!Extent
<1>3. n \in live' /\ \A x \in live : x \in live' /\ n # x
  OBVIOUS
<1>4. OwnedExtents' = OwnedExtents \cup {ExtentOf(n)}
  BY DEF OwnedExtents
<1>5. \A f \in OwnedExtents : Heap!Disjoint(ExtentOf(n), f)
  BY <1>2, <1>3 DEF OwnedExtents
<1> QED BY <1>2, <1>3, <1>4, <1>5
\* The steps of CodeHeap, in terms of these extents.
Opens(e) ==
  /\ OpenExtents = {} /\ OpenExtents' = {e} /\ OwnedExtents' = OwnedExtents
  /\ \A f \in OwnedExtents : Heap!Disjoint(e, f)

Closes(e, kept) ==
  /\ e \in OpenExtents /\ kept.start = e.start /\ kept.end <= e.end
  /\ OpenExtents' = {} /\ OwnedExtents' = OwnedExtents \cup {kept}

Abandons == OpenExtents # {} /\ OpenExtents' = {} /\ OwnedExtents' = OwnedExtents

Reserves(e) ==
  /\ OpenExtents = {} /\ OpenExtents' = {} /\ OwnedExtents' = OwnedExtents \cup {e}
  /\ \A f \in OwnedExtents : Heap!Disjoint(e, f)

Releases(e) ==
  /\ e \in OwnedExtents /\ OwnedExtents' = OwnedExtents \ {e}
  /\ OpenExtents' = OpenExtents

Rests == OpenExtents' = OpenExtents /\ OwnedExtents' = OwnedExtents

\* They are its steps.
LEMMA HeapMoves ==
  ASSUME \/ \E e \in Heap!Extent : Opens(e) \/ Reserves(e)
         \/ \E e \in OpenExtents, kept \in Heap!Extent : Closes(e, kept)
         \/ Abandons
         \/ \E e \in OwnedExtents : Releases(e)
         \/ Rests
  PROVE  [Heap!Next]_(Heap!vars)
<1>1. ASSUME NEW e \in Heap!Extent, Opens(e) PROVE Heap!Open(e)
  BY <1>1 DEF Opens, Heap!Open, OpenExtents, OwnedExtents, ExtentOf, Buffer
<1>2. ASSUME NEW e \in Heap!Extent, Reserves(e) PROVE Heap!Reserve(e)
  BY <1>2 DEF Reserves, Heap!Reserve, OpenExtents, OwnedExtents, ExtentOf, Buffer
<1>3. ASSUME NEW e \in OpenExtents, NEW kept \in Heap!Extent, Closes(e, kept)
      PROVE  Heap!Close(e, kept)
  BY <1>3 DEF Closes, Heap!Close, OpenExtents, OwnedExtents, ExtentOf, Buffer
<1>4. ASSUME Abandons PROVE Heap!Abandon
  BY <1>4 DEF Abandons, Heap!Abandon, OpenExtents, OwnedExtents, ExtentOf, Buffer
<1>5. ASSUME NEW e \in OwnedExtents, Releases(e) PROVE Heap!Release(e)
  BY <1>5 DEF Releases, Heap!Release, OpenExtents, OwnedExtents, ExtentOf, Buffer
<1>6. ASSUME Rests PROVE UNCHANGED Heap!vars
  BY <1>6 DEF Rests, Heap!vars, OpenExtents, OwnedExtents, ExtentOf, Buffer
<1>7. /\ \A e \in OpenExtents : e \in IF Opened = {} THEN {} ELSE {[start |-> BufferBegin, end |-> BufferEnd]}
      /\ \A e \in OwnedExtents : e \in {[start |-> x.start, end |-> x.end] : x \in live}
  BY DEF OpenExtents, OwnedExtents, ExtentOf, Buffer
<1>8. CASE \E e \in Heap!Extent : Opens(e) \/ Reserves(e)
  BY <1>1, <1>2, <1>8 DEF Heap!Next
<1>9. CASE \E e \in OpenExtents, kept \in Heap!Extent : Closes(e, kept)
  BY <1>3, <1>7, <1>9 DEF Heap!Next
<1>10. CASE Abandons
  BY <1>4, <1>10 DEF Heap!Next
<1>11. CASE \E e \in OwnedExtents : Releases(e)
  BY <1>5, <1>7, <1>11 DEF Heap!Next
<1>12. CASE Rests
  BY <1>6, <1>12
<1> QED BY <1>8, <1>9, <1>10, <1>11, <1>12

\* The search is invisible to clients.
LEMMA RestSteps ==
  ASSUME \/ \E size \in RequestSizes : startFunctionBody(size)
         \/ SearchFreeList \/ AllocationFails \/ UNCHANGED vars
  PROVE  Rests
<1>1. CASE UNCHANGED vars
  <2>1. /\ mem' = mem /\ CurBlock' = CurBlock /\ pc' = pc /\ live' = live
    BY <1>1 DEF vars
  <2> QED BY <2>1 DEF Rests, OpenExtents, OwnedExtents, Opened, Buffer, BufferBegin, BufferEnd,
                      getBlockAfter, BlockSize
<1>2. ASSUME pc \in {"idle", "searching"}, pc' \in {"searching", "fatal"}, live' = live
      PROVE  Rests
  <2>1. Opened = {} /\ Opened' = {}
    BY <1>2 DEF Opened
  <2> QED BY <1>2, <2>1 DEF Rests, OpenExtents, OwnedExtents
<1>3. CASE \E size \in RequestSizes : startFunctionBody(size)
  BY <1>2, <1>3 DEF startFunctionBody
<1>4. CASE SearchFreeList \/ AllocationFails
  <2>1. pc = "searching" /\ pc' \in {"searching", "fatal"} /\ live' = live
    BY <1>4 DEF SearchFreeList, AllocationFails, SearchDone
  <2> QED BY <1>2, <2>1
<1> QED BY <1>1, <1>3, <1>4

\* What startFunctionBody returns is a buffer in nobody's hands.
LEMMA OpenSteps ==
  ASSUME IInv, IInv', UseFreeBlock \/ UseNewSlab
  PROVE  \E e \in Heap!Extent : Opens(e)
<1>1. pc = "searching" /\ pc' = "emitting" /\ live' = live
  BY DEF UseFreeBlock, UseNewSlab, OpenBlock, SearchDone
<1>2. /\ OpenExtents = {} /\ OpenExtents' = {Buffer'} /\ Buffer' \in Heap!Extent
      /\ OwnedExtents' = OwnedExtents
      /\ \A f \in OwnedExtents : Heap!Disjoint(Buffer', f)
  BY <1>1, OpensBuffer
<1> QED BY <1>2 DEF Opens

\* What is emitted goes into the buffer, which stays where it is.
LEMMA EmitRests ==
  ASSUME IInv, NEW k \in EmitSizes, EmitCode(k)
  PROVE  Rests
<1> DEFINE len == IF k < BufferEnd - BufferBegin THEN k ELSE BufferEnd - BufferBegin
<1>1. /\ pc = "emitting" /\ pc' = "emitted" /\ live' = live /\ CurBlock' = CurBlock
      /\ mem' = Fill(mem, BufferBegin, BufferBegin + len, Code)
  BY DEF EmitCode
<1>2. CurBlock \in Nat /\ CurBlock \in Addr /\ BufferBegin = CurBlock + 1 /\ mem \in [Addr -> Word]
  BY <1>1, OpenedFacts, HeapFacts
<1> HIDE DEF len
<1>3. mem'[CurBlock] = mem[CurBlock]
  <2>1. CurBlock \in DOMAIN mem /\ ~(BufferBegin <= CurBlock)
    BY <1>2
  <2> QED BY <1>1, <2>1 DEF Fill
<1>4. BufferBegin' = BufferBegin /\ BufferEnd' = BufferEnd
  BY <1>1, <1>3 DEF BufferBegin, BufferEnd, getBlockAfter, BlockSize
<1> QED BY <1>1, <1>4 DEF Rests, OpenExtents, OwnedExtents, Opened, Buffer

\* endFunctionBody leaves the client the words that were emitted.
LEMMA EndCloses ==
  ASSUME IInv, IInv', endFunctionBody
  PROVE  \E e \in OpenExtents, kept \in Heap!Extent : Closes(e, kept)
<1> DEFINE y == [block |-> CurBlock, start |-> BufferBegin,
                 end |-> BufferBegin + emitted, global |-> FALSE]
<1>1. pc = "emitted" /\ pc' = "idle" /\ live' = live \cup {y}
  BY DEF endFunctionBody
<1>2. \A x \in live : x.block # CurBlock
  BY <1>1, OpenedFacts DEF LiveBlocks
<1>3. y.block = CurBlock /\ ExtentOf(y).start = BufferBegin /\ ExtentOf(y).end = BufferBegin + emitted
  BY DEF ExtentOf
<1> HIDE DEF y
<1>4. ExtentOf(y) \in Heap!Extent /\ OwnedExtents' = OwnedExtents \cup {ExtentOf(y)}
  BY <1>1, <1>2, <1>3, TakesExtent
<1>5. BufferBegin + emitted <= BufferEnd
  BY <1>1 DEF IInv, OpenedOK
<1>6. /\ Buffer \in OpenExtents /\ Buffer.start = BufferBegin /\ Buffer.end = BufferEnd
      /\ OpenExtents' = {}
  BY <1>1 DEF OpenExtents, Opened, Buffer
<1> QED BY <1>3, <1>4, <1>5, <1>6 DEF Closes

\* A buffer that ran full is given up.
LEMMA RetryAbandons ==
  ASSUME retryWithMoreMemory
  PROVE  Abandons
<1>1. pc = "emitted" /\ pc' = "idle" /\ live' = live
  BY DEF retryWithMoreMemory
<1> QED BY <1>1 DEF Abandons, OpenExtents, OwnedExtents, Opened

\* A client gives back one extent.
LEMMA DeallocateReleases ==
  ASSUME IInv, NEW x \in live, deallocateFunctionBody(x)
  PROVE  Releases(ExtentOf(x))
<1>1. pc = "idle" /\ pc' = "idle" /\ live' = live \ {x}
  BY DEF deallocateFunctionBody
<1>2. \A y \in live : y # x => ExtentOf(y) # ExtentOf(x)
  BY ExtentsApart
<1>3. OwnedExtents' = OwnedExtents \ {ExtentOf(x)} /\ ExtentOf(x) \in OwnedExtents
  BY <1>1, <1>2 DEF OwnedExtents
<1>4. OpenExtents' = OpenExtents
  BY <1>1 DEF OpenExtents, Opened
<1> QED BY <1>3, <1>4 DEF Releases

\* allocateSpace hands out an extent nobody has.
LEMMA SpaceReserves ==
  ASSUME IInv, IInv', NEW size, NEW alignment, allocateSpace(size, alignment)
  PROVE  \E e \in Heap!Extent : Reserves(e)
<1>1. PICK result :
        live' = live \cup {[block |-> FreeMemoryList, start |-> result,
                            end |-> result + size, global |-> TRUE]}
  BY DEF allocateSpace
<1> DEFINE y == [block |-> FreeMemoryList, start |-> result, end |-> result + size, global |-> TRUE]
<1>2. pc = "idle" /\ pc' = "idle" /\ live' = live \cup {y} /\ y.block = FreeMemoryList
  BY <1>1 DEF allocateSpace
<1> HIDE DEF y
<1>3. \A x \in live : x.block # y.block
  BY <1>2, OwnedFacts, ListFacts DEF Free
<1>4. /\ ExtentOf(y) \in Heap!Extent /\ OwnedExtents' = OwnedExtents \cup {ExtentOf(y)}
      /\ \A f \in OwnedExtents : Heap!Disjoint(ExtentOf(y), f)
  BY <1>2, <1>3, TakesExtent
<1>5. OpenExtents = {} /\ OpenExtents' = {}
  BY <1>2 DEF OpenExtents, Opened
<1> QED BY <1>4, <1>5 DEF Reserves

\* Every step is one of them.
LEMMA StepOfHeap ==
  ASSUME IInv, IInv', [Next]_vars
  PROVE  [Heap!Next]_(Heap!vars)
<1>1. CASE \/ \E size \in RequestSizes : startFunctionBody(size)
           \/ SearchFreeList \/ AllocationFails \/ UNCHANGED vars
  BY <1>1, RestSteps, HeapMoves
<1>2. CASE UseFreeBlock \/ UseNewSlab
  BY <1>2, OpenSteps, HeapMoves
<1>3. CASE \E k \in EmitSizes : EmitCode(k)
  BY <1>3, EmitRests, HeapMoves
<1>4. CASE endFunctionBody
  BY <1>4, EndCloses, HeapMoves
<1>5. CASE \E x \in live : deallocateFunctionBody(x)
  <2>1. \E e \in OwnedExtents : Releases(e)
    BY <1>5, DeallocateReleases DEF OwnedExtents
  <2> QED BY <2>1, HeapMoves
<1>6. CASE retryWithMoreMemory
  BY <1>6, RetryAbandons, HeapMoves
<1>7. CASE \E size \in SpaceSizes, alignment \in Alignments : allocateSpace(size, alignment)
  BY <1>7, SpaceReserves, HeapMoves
<1> QED BY <1>1, <1>2, <1>3, <1>4, <1>5, <1>6, <1>7 DEF Next, Step

\* The memory manager implements the abstract heap: whatever is split, merged, poisoned
\* and mapped, clients see a heap that hands out extents no two of which share a word.
THEOREM ImplementsHeap == Spec => HeapSpec
<1>1. Init => Heap!Init
  <2> SUFFICES ASSUME Init PROVE Heap!Init
    OBVIOUS
  <2>1. pc = "idle" /\ live = {}
    BY DEF Init
  <2> QED BY <2>1 DEF Heap!Init, Opened
<1>2. IInv /\ [Next]_vars => [Heap!Next]_(Heap!vars)
  <2>1. IInv /\ [Next]_vars => IInv'
    BY NextOK
  <2> QED BY <2>1, StepOfHeap
<1> QED BY <1>1, <1>2, HeapInvariant, PTL DEF Spec, HeapSpec, Heap!Spec
-----------------------------------------------------------------------------
(* Walks: what a function that is defined step by step reaches.            *)

\* A set of numbers has a least one.
LEMMA LeastOf ==
  ASSUME NEW R, IsWellFoundedOn(R, Nat), NEW S \in SUBSET Nat, S # {},
         \A x, y \in Nat : y < x => <<y, x>> \in R
  PROVE  \E n \in S : \A m \in S : n <= m
<1>1. PICK x \in S : \A y \in S : ~(<<y, x>> \in R)
  BY WFMin
<1>2. ASSUME NEW m \in S PROVE x <= m
  <2>1. x \in Nat /\ m \in Nat
    OBVIOUS
  <2>2. ~(m < x)
    BY <1>1, <2>1
  <2> QED BY <2>1, <2>2
<1> QED BY <1>2

\* The same, for the order of numbers.
LEMMA Least ==
  ASSUME NEW S \in SUBSET Nat, S # {}
  PROVE  \E n \in S : \A m \in S : n <= m
<1> DEFINE R == OpToRel(<, Nat)
<1>1. \A x, y \in Nat : y < x => <<y, x>> \in R
  BY DEF OpToRel
<1>2. IsWellFoundedOn(R, Nat)
  BY NatLessThanWellFounded
<1> HIDE DEF R
<1> QED BY <1>1, <1>2, LeastOf

\* Induction over the members of a set of numbers.
LEMMA FirstSteps ==
  ASSUME NEW N \in Nat, NEW P, 0 \in P,
         \A n \in Nat : n < N /\ n \in P => n + 1 \in P
  PROVE  \A n \in 0 .. N : n \in P
<1> SUFFICES ASSUME NEW n \in 0 .. N, n \notin P PROVE FALSE
  OBVIOUS
<1> DEFINE S == {k \in Nat : k <= N /\ k \notin P}
<1>1. n \in S
  OBVIOUS
<1>2. PICK m \in S : \A k \in S : m <= k
  BY <1>1, Least
<1>3. m \in Nat /\ m <= N /\ m \notin P /\ m # 0
  BY <1>2
<1>4. m - 1 \in Nat /\ m - 1 < N /\ m - 1 \in P
  BY <1>2, <1>3
<1>5. (m - 1) + 1 = m
  BY <1>3
<1> QED BY <1>3, <1>4, <1>5

\* N repetitions of g, from a.
Repeats(S, a, g, N) ==
  \E f \in [0 .. N -> S] : f[0] = a /\ \A i \in 1 .. N : f[i] = g[f[i - 1]]

\* There is a function that repeats g.
LEMMA StepsExist ==
  ASSUME NEW S, NEW a \in S, NEW g \in [S -> S], NEW N \in Nat
  PROVE  Repeats(S, a, g, N)
<1> DEFINE Goes(f, n) == f[0] = a /\ \A i \in 1 .. n : f[i] = g[f[i - 1]]
           P == {n \in Nat : \E f \in [0 .. n -> S] : Goes(f, n)}
<1>1. 0 \in P
  <2>1. [i \in 0 .. 0 |-> a] \in [0 .. 0 -> S] /\ Goes([i \in 0 .. 0 |-> a], 0)
    OBVIOUS
  <2> QED BY <2>1
<1>2. ASSUME NEW n \in Nat, n \in P PROVE n + 1 \in P
  <2>1. PICK f \in [0 .. n -> S] : Goes(f, n)
    BY <1>2
  <2> DEFINE h == [i \in 0 .. n + 1 |-> IF i = n + 1 THEN g[f[n]] ELSE f[i]]
  <2>2. h \in [0 .. n + 1 -> S]
    <3>1. f[n] \in S
      OBVIOUS
    <3>2. \A i \in 0 .. n + 1 : i # n + 1 => i \in 0 .. n
      OBVIOUS
    <3> QED BY <3>1, <3>2
  <2>3. h[0] = a
    BY <2>1
  <2>4. ASSUME NEW i \in 1 .. n + 1 PROVE h[i] = g[h[i - 1]]
    <3>1. CASE i = n + 1
      <4>1. h[i] = g[f[n]] /\ i - 1 = n /\ h[n] = f[n]
        BY <3>1
      <4> QED BY <4>1
    <3>2. CASE i # n + 1
      <4>1. i \in 1 .. n /\ i - 1 \in 0 .. n + 1 /\ i - 1 # n + 1 /\ i \in 0 .. n + 1
        BY <3>2
      <4>2. h[i] = f[i] /\ h[i - 1] = f[i - 1]
        BY <4>1
      <4> QED BY <2>1, <4>1, <4>2
    <3> QED BY <3>1, <3>2
  <2> HIDE DEF h
  <2>5. Goes(h, n + 1)
    BY <2>3, <2>4
  <2> QED BY <2>2, <2>5
<1> HIDE DEF P
<1>3. N \in P
  BY <1>1, <1>2, FirstSteps
<1> QED BY <1>3 DEF P, Repeats

\* A function with such an equation stays in S.
LEMMA StepsStay ==
  ASSUME NEW S, NEW N \in Nat, NEW f, f[0] \in S,
         \A n \in 1 .. N : f[n - 1] \in S => f[n] \in S
  PROVE  \A n \in 0 .. N : f[n] \in S
<1> DEFINE P == {n \in Nat : f[n] \in S}
<1>1. 0 \in P
  OBVIOUS
<1>2. ASSUME NEW n \in Nat, n < N, n \in P PROVE n + 1 \in P
  <2>1. n + 1 \in 1 .. N /\ (n + 1) - 1 = n
    BY <1>2
  <2> QED BY <1>2, <2>1
<1> HIDE DEF P
<1>3. \A n \in 0 .. N : n \in P
  BY <1>1, <1>2, FirstSteps
<1> QED BY <1>3 DEF P
\* The walk of CheckInvariants round the free list is one: its defining equation has a
\* solution, and so holds.
LEMMA RingDefined ==
  ASSUME IInv
  PROVE  RingNode = [n \in 0 .. MemWords |-> IF n = 0 THEN FreeMemoryList
                                             ELSE NextFree(mem, RingNode[n - 1])]
<1> DEFINE S == Free(mem, blocks)
           g == [b \in S |-> NextFree(mem, b)]
           IsRing(f) == f = [n \in 0 .. MemWords |-> IF n = 0 THEN FreeMemoryList
                                                     ELSE NextFree(mem, f[n - 1])]
<1>1. FreeMemoryList \in S /\ g \in [S -> S] /\ MemWords \in Nat
  BY ListFacts, SizeAssumption
<1>7. \A b \in S : g[b] = NextFree(mem, b)
  OBVIOUS
<1> HIDE DEF S, g
<1>2. PICK f \in [0 .. MemWords -> S] : f[0] = FreeMemoryList /\ \A i \in 1 .. MemWords : f[i] = g[f[i - 1]]
  <2>1. Repeats(S, FreeMemoryList, g, MemWords)
    BY <1>1, StepsExist
  <2> QED BY <2>1 DEF Repeats
<1>3. ASSUME NEW n \in 0 .. MemWords
      PROVE  f[n] = IF n = 0 THEN FreeMemoryList ELSE NextFree(mem, f[n - 1])
  <2>1. CASE n = 0
    BY <1>2, <2>1
  <2>2. CASE n # 0
    <3>1. n \in 1 .. MemWords /\ n - 1 \in 0 .. MemWords
      BY <1>1, <2>2
    <3>2. f[n - 1] \in S
      BY <3>1
    <3> QED BY <1>2, <1>7, <2>2, <3>1, <3>2
  <2> QED BY <2>1, <2>2
<1>4. IsRing(f)
  BY <1>3
<1>5. RingNode = CHOOSE h : IsRing(h)
  BY DEF RingNode
<1> HIDE DEF IsRing
<1>6. IsRing(RingNode)
  BY <1>4, <1>5
<1> QED BY <1>6 DEF IsRing
\* Blocks of four words and more, one behind the other, begin in different quarters.
LEMMA Quarters ==
  ASSUME NEW b \in Nat, NEW c \in Nat, NEW M \in Nat, b + 4 <= M, c + 4 <= M,
         b < c => b + 4 <= c, c < b => c + 4 <= b
  PROVE  /\ b \div 4 \in 0 .. (M \div 4) - 1
         /\ b \div 4 = c \div 4 => b = c
<1>1. M \div 4 \in Nat /\ 4 * (M \div 4) <= M /\ M < 4 * (M \div 4) + 4
  OBVIOUS
<1>2. b \div 4 \in Nat /\ 4 * (b \div 4) <= b /\ b < 4 * (b \div 4) + 4
  OBVIOUS
<1>3. c \div 4 \in Nat /\ 4 * (c \div 4) <= c /\ c < 4 * (c \div 4) + 4
  OBVIOUS
<1> QED BY <1>1, <1>2, <1>3

\* Each node of the ring is the free block its predecessor links to.
LEMMA RingSteps ==
  ASSUME IInv
  PROVE  /\ \A n \in 0 .. MemWords : RingNode[n] \in Free(mem, blocks)
         /\ \A n \in Nat : n < MemWords => RingNode[n + 1] = NextFree(mem, RingNode[n])
<1>1. MemWords \in Nat
  BY SizeAssumption
<1>2. \A n \in 0 .. MemWords : RingNode[n] = IF n = 0 THEN FreeMemoryList
                                             ELSE NextFree(mem, RingNode[n - 1])
  BY RingDefined
<1>3. /\ FreeMemoryList \in Free(mem, blocks)
      /\ \A b \in Free(mem, blocks) : NextFree(mem, b) \in Free(mem, blocks)
  BY ListFacts
<1>4. RingNode[0] \in Free(mem, blocks)
  <2>1. 0 \in 0 .. MemWords
    BY <1>1
  <2>2. RingNode[0] = FreeMemoryList
    BY <1>2, <2>1
  <2> QED BY <1>3, <2>2
<1>5. ASSUME NEW n \in 1 .. MemWords, RingNode[n - 1] \in Free(mem, blocks)
      PROVE  RingNode[n] \in Free(mem, blocks)
  <2>1. n \in 0 .. MemWords /\ n # 0
    OBVIOUS
  <2>2. RingNode[n] = NextFree(mem, RingNode[n - 1])
    BY <1>2, <2>1
  <2> QED BY <1>3, <1>5, <2>2
<1>6. \A n \in 0 .. MemWords : RingNode[n] \in Free(mem, blocks)
  BY <1>1, <1>4, <1>5, StepsStay
<1>7. ASSUME NEW n \in Nat, n < MemWords PROVE RingNode[n + 1] = NextFree(mem, RingNode[n])
  <2>1. n + 1 \in 0 .. MemWords /\ n + 1 # 0 /\ (n + 1) - 1 = n
    BY <1>1, <1>7
  <2> QED BY <1>2, <2>1
<1> QED BY <1>6, <1>7

\* A walk round the free list comes by every free block in the number of steps that
\* CheckInvariants takes: there are no more blocks than that, so the walk is back at a
\* node it has seen, and what it has seen by then is a ring.
LEMMA RingIsTheList ==
  ASSUME IInv
  PROVE  FreeHdrSet = Free(mem, blocks)
<1> DEFINE K == MemWords \div 4
           F == Free(mem, blocks)
<1>1. MemWords \in Nat /\ K \in Nat /\ K <= MemWords
  BY SizeAssumption
<1>2. /\ \A n \in 0 .. MemWords : RingNode[n] \in F
      /\ \A n \in Nat : n < MemWords => RingNode[n + 1] = NextFree(mem, RingNode[n])
  BY RingSteps
<1>3. \A b \in F : b \in Nat /\ b + 4 <= MemWords /\ \A c \in F : b < c => b + 4 <= c
  <2>1. \A b \in F : /\ b \in blocks /\ b \in Nat /\ BlockSize(mem, b) \in Nat
                     /\ BlockSize(mem, b) >= 4 /\ b + BlockSize(mem, b) <= MemWords
                     /\ getBlockAfter(mem, b) = b + BlockSize(mem, b)
    BY HeapFacts, BlockFacts DEF BlocksOK, Tiled, Free, MinBlockSize, FreeHeaderWords, getBlockAfter
  <2>2. \A b, c \in blocks : b < c => getBlockAfter(mem, b) <= c
    BY HeapFacts DEF BlocksOK, Tiled
  <2> HIDE DEF F
  <2>3. ASSUME NEW b \in F, NEW c \in F, b < c PROVE b + 4 <= c
    <3>1. b + BlockSize(mem, b) <= c
      BY <2>1, <2>2, <2>3
    <3> QED BY <1>1, <2>1, <3>1
  <2>4. ASSUME NEW b \in F PROVE b \in Nat /\ b + 4 <= MemWords
    <3>1. b \in Nat /\ BlockSize(mem, b) \in Nat /\ BlockSize(mem, b) >= 4
          /\ b + BlockSize(mem, b) <= MemWords
      BY <2>1
    <3> QED BY ONLY <1>1, <3>1
  <2> QED BY <2>3, <2>4
<1> HIDE DEF F
<1>4. \A b, c \in F : /\ b \div 4 \in 0 .. K - 1
                      /\ b \div 4 = c \div 4 => b = c
  BY <1>1, <1>3, Quarters
<1> DEFINE q == [n \in 0 .. K |-> RingNode[n] \div 4]
<1>5. q \in [0 .. K -> 0 .. K - 1]
  <2>1. \A n \in 0 .. K : RingNode[n] \in F
    BY <1>1, <1>2
  <2>2. \A n \in 0 .. K : RingNode[n] \div 4 \in 0 .. K - 1
    BY <1>4, <2>1
  <2> QED BY <2>2
<1>6. PICK i, j \in 0 .. K : i < j /\ RingNode[i] = RingNode[j]
  <2>1. /\ IsFiniteSet(0 .. K) /\ Cardinality(0 .. K) = K + 1
        /\ IsFiniteSet(0 .. K - 1) /\ Cardinality(0 .. K - 1) = K
    <3>1. 0 \in Int /\ K \in Int /\ K - 1 \in Int
      BY <1>1
    <3> HIDE DEF K
    <3>2. /\ IsFiniteSet(0 .. K) /\ Cardinality(0 .. K) = IF 0 > K THEN 0 ELSE K - 0 + 1
          /\ IsFiniteSet(0 .. K - 1)
          /\ Cardinality(0 .. K - 1) = IF 0 > K - 1 THEN 0 ELSE (K - 1) - 0 + 1
      BY <3>1, FS_Interval
    <3> QED BY <1>1, <3>2
  <2>2. Cardinality(0 .. K - 1) < Cardinality(0 .. K)
    BY <1>1, <2>1
  <2> HIDE DEF K, q
  <2>3. PICK i, j \in 0 .. K : i # j /\ q[i] = q[j]
    BY <1>5, <2>1, <2>2, FS_PigeonHole
  <2>4. RingNode[i] = RingNode[j]
    <3>1. RingNode[i] \in F /\ RingNode[j] \in F
      BY <1>1, <1>2
    <3>2. q[i] = RingNode[i] \div 4 /\ q[j] = RingNode[j] \div 4
      BY DEF q
    <3> QED BY <1>4, <2>3, <3>1, <3>2
  <2>5. i < j \/ j < i
    BY <1>1, <2>3
  <2> QED BY <2>3, <2>4, <2>5
<1> HIDE DEF q
<1> DEFINE V == {RingNode[n] : n \in 0 .. j - 1}
<1>7. i \in Nat /\ j \in Nat /\ i < j /\ j <= K
  BY <1>1, <1>6
<1> HIDE DEF K
<1>8. V \in SUBSET F
  BY <1>1, <1>2, <1>7
<1>9. \A b \in V : NextFree(mem, b) \in V
  <2> SUFFICES ASSUME NEW n \in 0 .. j - 1 PROVE NextFree(mem, RingNode[n]) \in V
    OBVIOUS
  <2>1. NextFree(mem, RingNode[n]) = RingNode[n + 1]
    BY <1>1, <1>2, <1>7
  <2>2. CASE n + 1 = j
    <3>1. NextFree(mem, RingNode[n]) = RingNode[i] /\ i \in 0 .. j - 1
      BY <1>6, <1>7, <2>1, <2>2
    <3> QED BY <3>1
  <2>3. CASE n + 1 # j
    <3>1. n + 1 \in 0 .. j - 1
      BY <1>7, <2>3
    <3> QED BY <2>1, <3>1
  <2> QED BY <2>2, <2>3
<1>10. V # {}
  <2>1. 0 \in 0 .. j - 1
    BY <1>7
  <2> QED BY <2>1
<1>11. V = F
  <2> HIDE DEF V
  <2> QED BY <1>8, <1>9, <1>10, HeapFacts DEF HeapOK, OneRing, F
<1>12. FreeHdrSet = {RingNode[n] : n \in 0 .. K}
  BY DEF FreeHdrSet, MinBlockSize, FreeHeaderWords, K
<1>13. FreeHdrSet \in SUBSET F /\ V \in SUBSET FreeHdrSet
  BY <1>1, <1>2, <1>7, <1>12
<1> QED BY <1>11, <1>13 DEF F
\* An address is in one slab.
LEMMA OneSlab ==
  ASSUME IInv, NEW s \in Slabs, NEW t \in Slabs, NEW a \in Int,
         s.base <= a, a < s.base + s.size, t.base <= a, a < t.base + t.size
  PROVE  s = t
<1>1. /\ s.base \in Nat /\ s.size \in Nat /\ t.base \in Nat /\ t.size \in Nat
  BY SlabFacts
<1>2. s # t => ~(s.base < t.base + t.size /\ t.base < s.base + s.size)
  BY DEF IInv, SlabsOK, Overlap
<1> QED BY <1>1, <1>2

\* The blocks of a slab, and its end.
Stops(s) ==
  {b \in blocks : s.base <= b /\ b < s.base + s.size} \cup {s.base + s.size}

Onward(s, x) == IF x < s.base + s.size THEN getBlockAfter(mem, x) ELSE x

\* A walk over the blocks of a slab does not leave it before its end.
LEMMA StaysInSlab ==
  ASSUME IInv, NEW s \in Slabs
  PROVE  /\ s.base \in Stops(s)
         /\ \A x \in Stops(s) : Onward(s, x) \in Stops(s)
<1>1. s.base \in Nat /\ s.size \in Nat /\ s.size >= 10 /\ s.base \in blocks
  BY SlabFacts DEF IInv, SlabsOK
<1>2. s.base \in Stops(s)
  BY <1>1 DEF Stops
<1>3. ASSUME NEW x \in Stops(s), x < s.base + s.size PROVE getBlockAfter(mem, x) \in Stops(s)
  <2>1. x \in blocks /\ s.base <= x /\ x \in Nat
    <3>1. x \in blocks /\ s.base <= x
      BY <1>1, <1>3 DEF Stops
    <3> QED BY <3>1, HeapFacts, BlockFacts
  <2>2. CASE x \in EndBlocks
    <3>1. PICK t \in Slabs : x = EndBlock(t)
      BY <2>2 DEF EndBlocks
    <3>2. x = t.base + t.size - 1 /\ t.base \in Nat /\ t.size \in Nat /\ t.size >= 10
      BY <3>1, SlabFacts
    <3>3. t = s
      BY <1>1, <1>3, <2>1, <3>2, OneSlab
    <3>4. getBlockAfter(mem, x) = x + 1
      BY <2>2, HeapFacts DEF getBlockAfter
    <3>5. getBlockAfter(mem, x) = s.base + s.size
      BY <1>1, <3>2, <3>3, <3>4
    <3> QED BY <3>5 DEF Stops
  <2>3. CASE x \notin EndBlocks
    <3>1. PICK t \in Slabs : /\ t.base <= x /\ x < t.base + t.size
                             /\ getBlockAfter(mem, x) < t.base + t.size
      BY <2>1, <2>3, InsideItsSlab
    <3>2. t = s
      BY <1>1, <1>3, <2>1, <3>1, OneSlab
    <3>3. getBlockAfter(mem, x) \in blocks
      BY <2>1, <2>3, HeapFacts DEF BlocksOK, Tiled
    <3>4. getBlockAfter(mem, x) \in Nat /\ x < getBlockAfter(mem, x)
      <4>1. BlockSize(mem, x) \in Nat /\ BlockSize(mem, x) >= 1
            /\ getBlockAfter(mem, x) = x + BlockSize(mem, x)
        BY <2>1, HeapFacts, BlockFacts DEF BlocksOK, Tiled, HeaderWords, getBlockAfter
      <4> QED BY ONLY <2>1, <4>1
    <3>5. s.base <= getBlockAfter(mem, x) /\ getBlockAfter(mem, x) < s.base + s.size
      BY <1>1, <2>1, <3>1, <3>2, <3>4
    <3> QED BY <3>3, <3>5 DEF Stops
  <2> QED BY <2>2, <2>3
<1> QED BY <1>2, <1>3 DEF Onward

\* The walk of CheckInvariants over a slab.
IsWalk(s, f) == f = [n \in 0 .. s.size |-> IF n = 0 THEN s.base ELSE Onward(s, f[n - 1])]

\* The walk of CheckInvariants over a slab goes from block to block.
LEMMA WalkDefined ==
  ASSUME IInv, NEW s \in Slabs
  PROVE  \E f \in [0 .. s.size -> Stops(s)] :
           IsWalk(s, f) /\ Walk(s) = {f[n] : n \in 0 .. s.size}
<1> DEFINE S == Stops(s)
           g == [b \in S |-> Onward(s, b)]
<1>1. s.base \in S /\ g \in [S -> S] /\ s.size \in Nat
  BY StaysInSlab, SlabFacts
<1>2. \A b \in S : g[b] = Onward(s, b)
  OBVIOUS
<1> HIDE DEF S, g
<1>3. PICK f \in [0 .. s.size -> S] : f[0] = s.base /\ \A i \in 1 .. s.size : f[i] = g[f[i - 1]]
  <2>1. Repeats(S, s.base, g, s.size)
    BY <1>1, StepsExist
  <2> QED BY <2>1 DEF Repeats
<1>4. ASSUME NEW n \in 0 .. s.size
      PROVE  f[n] = IF n = 0 THEN s.base ELSE Onward(s, f[n - 1])
  <2>1. CASE n = 0
    BY <1>3, <2>1
  <2>2. CASE n # 0
    <3>1. n \in 1 .. s.size /\ n - 1 \in 0 .. s.size
      BY <1>1, <2>2
    <3>2. f[n - 1] \in S
      BY <3>1
    <3> QED BY <1>2, <1>3, <2>2, <3>1, <3>2
  <2> QED BY <2>1, <2>2
<1>5. IsWalk(s, f)
  BY <1>4 DEF IsWalk
<1> DEFINE w == CHOOSE h : IsWalk(s, h)
<1>6. IsWalk(s, w)
  BY <1>5
<1>7. Walk(s) = {w[n] : n \in 0 .. s.size}
  BY DEF Walk, IsWalk, Onward
<1> HIDE DEF w
<1>8. \A n \in 0 .. s.size : w[n] = IF n = 0 THEN s.base ELSE Onward(s, w[n - 1])
  BY <1>6 DEF IsWalk
<1>9. \A n \in 0 .. s.size : w[n] \in S
  <2>1. w[0] \in S
    <3>1. 0 \in 0 .. s.size
      BY <1>1
    <3> QED BY <1>1, <1>8, <3>1
  <2>2. ASSUME NEW n \in 1 .. s.size, w[n - 1] \in S PROVE w[n] \in S
    <3>1. n \in 0 .. s.size /\ n # 0
      BY <1>1
    <3>2. w[n] = Onward(s, w[n - 1])
      BY <1>8, <3>1
    <3> QED BY <2>2, <3>2, StaysInSlab DEF S
  <2> QED BY <1>1, <2>1, <2>2, StepsStay
<1>10. w \in [0 .. s.size -> S]
  <2>1. w = [n \in 0 .. s.size |-> IF n = 0 THEN s.base ELSE Onward(s, w[n - 1])]
    BY <1>6 DEF IsWalk
  <2>2. w = [n \in 0 .. s.size |-> w[n]]
    BY <1>8, <2>1
  <2> QED BY <1>9, <2>2
<1> QED BY <1>6, <1>7, <1>10 DEF S
\* The headers that the walk over a slab meets are blocks of the slab.
LEMMA HeadersAreBlocks ==
  ASSUME IInv, NEW s \in Slabs, NEW h \in HeadersOf(s)
  PROVE  /\ h \in blocks /\ h \in Nat /\ s.base <= h /\ h < s.base + s.size
         /\ h \in EndBlocks => getBlockAfter(mem, h) = s.base + s.size
<1>1. PICK f \in [0 .. s.size -> Stops(s)] : Walk(s) = {f[n] : n \in 0 .. s.size}
  BY WalkDefined
<1>2. s.base \in Nat /\ s.size \in Nat
  BY SlabFacts
<1>3. h \in Stops(s) /\ h < s.base + s.size
  BY <1>1 DEF HeadersOf
<1>4. h \in blocks /\ s.base <= h
  BY <1>2, <1>3 DEF Stops
<1>5. h \in Nat
  BY <1>4, HeapFacts, BlockFacts
<1>6. ASSUME h \in EndBlocks PROVE getBlockAfter(mem, h) = s.base + s.size
  <2>1. PICK t \in Slabs : h = EndBlock(t)
    BY <1>6 DEF EndBlocks
  <2>2. h = t.base + t.size - 1 /\ t.base \in Nat /\ t.size \in Nat /\ t.size >= 10
    BY <2>1, SlabFacts
  <2>3. t = s
    BY <1>2, <1>3, <1>4, <1>5, <2>2, OneSlab
  <2>4. getBlockAfter(mem, h) = h + 1
    BY <1>6, HeapFacts DEF getBlockAfter
  <2> QED BY <1>2, <2>2, <2>3, <2>4
<1> QED BY <1>3, <1>4, <1>5, <1>6

\* The self-check follows from the invariant.
LEMMA SelfCheck ==
  ASSUME IInv
  PROVE  CheckInvariants
<1> DEFINE F == Free(mem, blocks)
<1>1. FreeHdrSet = F
  BY RingIsTheList
<1>2. ASSUME NEW f \in FreeHdrSet
      PROVE  /\ \E s \in Slabs : s.base <= f /\ f < s.base + s.size
             /\ PrevFree(mem, NextFree(mem, f)) = f
  <2>1. f \in F /\ f \in blocks
    BY <1>1, <1>2 DEF Free
  <2>2. \E s \in Slabs : s.base <= f /\ f < s.base + s.size
    BY <2>1 DEF IInv, SlabsOK, InSlabs
  <2>3. PrevFree(mem, NextFree(mem, f)) = f
    BY <2>1, HeapFacts DEF HeapOK, Linked
  <2> QED BY <2>2, <2>3
<1>3. ASSUME NEW s \in Slabs, NEW h \in HeadersOf(s)
      PROVE  LET next == getBlockAfter(mem, h) IN
             /\ ~ThisAllocated(mem, h) =>
                  /\ h \in FreeHdrSet
                  /\ next <= s.base + s.size
                  /\ mem[next - 1].val = BlockSize(mem, h)
             /\ h = s.base => PrevAllocated(mem, h)
             /\ next < s.base + s.size => PrevAllocated(mem, next) = ThisAllocated(mem, h)
  <2> DEFINE next == getBlockAfter(mem, h)
  <2>1. /\ h \in blocks /\ h \in Nat /\ s.base <= h /\ h < s.base + s.size
        /\ h \in EndBlocks => next = s.base + s.size
    BY <1>3, HeadersAreBlocks
  <2>2. s.base \in Nat /\ s.size \in Nat
    BY SlabFacts
  <2>3. h \notin EndBlocks => next < s.base + s.size
    <3>1. SUFFICES ASSUME h \notin EndBlocks PROVE next < s.base + s.size
      OBVIOUS
    <3>2. PICK t \in Slabs : t.base <= h /\ h < t.base + t.size /\ next < t.base + t.size
      BY <2>1, <3>1, InsideItsSlab
    <3>3. t = s
      BY <2>1, <3>2, OneSlab
    <3> QED BY <3>2, <3>3
  <2>4. ASSUME ~ThisAllocated(mem, h)
        PROVE  h \in FreeHdrSet /\ next <= s.base + s.size /\ mem[next - 1].val = BlockSize(mem, h)
    <3>1. h \in F
      BY <2>1, <2>4 DEF Free
    <3>2. h \notin EndBlocks
      BY <2>4, HeapFacts
    <3>3. next \in Nat
      BY <2>1, HeapFacts, BlockFacts
    <3>4. next <= s.base + s.size
      BY <2>2, <2>3, <3>2, <3>3
    <3>5. mem[next - 1].val = BlockSize(mem, h)
      BY <3>1, HeapFacts DEF HeapOK, Marked
    <3> QED BY <1>1, <3>1, <3>4, <3>5
  <2>5. ASSUME h = s.base PROVE PrevAllocated(mem, h)
    <3>1. SUFFICES ASSUME ~PrevAllocated(mem, h) PROVE FALSE
      OBVIOUS
    <3>2. PICK b \in Free(mem, blocks) : getBlockAfter(mem, b) = h
      BY <2>1, <3>1, HeapFacts DEF BlocksOK, FlagsAgree
    <3>3. b \in blocks /\ b \in Nat /\ b \notin EndBlocks /\ b < h
      <4>1. b \in blocks /\ ~ThisAllocated(mem, b)
        BY <3>2 DEF Free
      <4>2. b \in Nat /\ BlockSize(mem, b) \in Nat /\ BlockSize(mem, b) >= 1
            /\ h = b + BlockSize(mem, b)
        BY <3>2, <4>1, HeapFacts, BlockFacts DEF BlocksOK, Tiled, HeaderWords, getBlockAfter
      <4>3. b < h
        BY ONLY <4>2
      <4> QED BY <4>1, <4>2, <4>3, HeapFacts
    <3>4. PICK t \in Slabs : t.base <= b /\ b < t.base + t.size /\ h < t.base + t.size
      BY <3>2, <3>3, InsideItsSlab
    <3>5. t.base \in Nat /\ t.size \in Nat
      BY SlabFacts
    <3>6. t = s
      BY <2>1, <3>3, <3>4, <3>5, OneSlab
    <3> QED BY <2>2, <2>5, <3>3, <3>4, <3>6
  <2>6. ASSUME next < s.base + s.size PROVE PrevAllocated(mem, next) = ThisAllocated(mem, h)
    <3>1. next \in Nat
      BY <2>1, HeapFacts, BlockFacts
    <3>2. h \notin EndBlocks
      BY <2>1, <2>2, <2>6, <3>1
    <3>3. PrevAllocated(mem, next) <=> ThisAllocated(mem, h)
      BY <2>1, <3>2, HeapFacts DEF BlocksOK, FlagsAgree
    <3> QED BY <3>3 DEF PrevAllocated, ThisAllocated
  <2> QED BY <2>4, <2>5, <2>6
<1> QED BY <1>2, <1>3 DEF CheckInvariants

\* What the manager's self-check, which the unit tests call, looks for holds at all
\* times: its two walks come by every block and every link, and find them in order.
THEOREM SelfCheckSucceeds == Spec => []CheckInvariants
<1>1. IInv => CheckInvariants
  BY SelfCheck
<1> QED BY <1>1, HeapInvariant, PTL
\* A walk over a slab meets its base, and after a block the block behind it.
LEMMA WalkSteps ==
  ASSUME IInv, NEW s \in Slabs
  PROVE  \E f : /\ Walk(s) = {f[n] : n \in 0 .. s.size} /\ f[0] = s.base
                /\ \A n \in Nat : n < s.size => f[n + 1] = Onward(s, f[n])
<1>1. PICK f \in [0 .. s.size -> Stops(s)] : IsWalk(s, f) /\ Walk(s) = {f[n] : n \in 0 .. s.size}
  BY WalkDefined
<1>2. s.size \in Nat
  BY SlabFacts
<1>3. \A n \in 0 .. s.size : f[n] = IF n = 0 THEN s.base ELSE Onward(s, f[n - 1])
  BY <1>1 DEF IsWalk
<1>4. f[0] = s.base
  <2>1. 0 \in 0 .. s.size
    BY <1>2
  <2> QED BY <1>3, <2>1
<1>5. ASSUME NEW n \in Nat, n < s.size PROVE f[n + 1] = Onward(s, f[n])
  <2>1. n + 1 \in 0 .. s.size /\ n + 1 # 0 /\ (n + 1) - 1 = n
    BY <1>2, <1>5
  <2> QED BY <1>3, <2>1
<1> QED BY <1>1, <1>4, <1>5

\* A walk meets nothing outside a set that it cannot leave.
LEMMA WalkWithin ==
  ASSUME IInv, NEW s \in Slabs, NEW C, s.base \in C,
         \A x \in C : Onward(s, x) \in C \cup {s.base + s.size}
  PROVE  HeadersOf(s) \in SUBSET C
<1>1. PICK f : /\ Walk(s) = {f[n] : n \in 0 .. s.size} /\ f[0] = s.base
               /\ \A n \in Nat : n < s.size => f[n + 1] = Onward(s, f[n])
  BY WalkSteps
<1>2. s.base \in Nat /\ s.size \in Nat
  BY SlabFacts
<1> DEFINE S == C \cup {s.base + s.size}
<1>3. f[0] \in S
  BY <1>1
<1>4. ASSUME NEW n \in 1 .. s.size, f[n - 1] \in S PROVE f[n] \in S
  <2>1. n - 1 \in Nat /\ n - 1 < s.size /\ (n - 1) + 1 = n
    BY <1>2
  <2>2. f[n] = Onward(s, f[n - 1])
    BY <1>1, <2>1
  <2>3. Onward(s, s.base + s.size) = s.base + s.size
    BY <1>2 DEF Onward
  <2> QED BY <1>4, <2>2, <2>3
<1> HIDE DEF S
<1>5. \A n \in 0 .. s.size : f[n] \in S
  BY <1>2, <1>3, <1>4, StepsStay
<1>6. ASSUME NEW h \in HeadersOf(s) PROVE h \in C
  <2>1. h \in S /\ h < s.base + s.size
    BY <1>1, <1>5 DEF HeadersOf
  <2> QED BY <1>2, <2>1 DEF S
<1> QED BY <1>6

\* Where the free blocks of a slab lead when clients own nothing.
LEMMA NothingBetween ==
  ASSUME IInv, live = {}, pc = "idle", NEW s \in Slabs
  PROVE  /\ s.base \in Free(mem, blocks)
         /\ \/ getBlockAfter(mem, s.base) = EndBlock(s)
            \/ s = CodeSlabs[1] /\ getBlockAfter(mem, s.base) = Mem1(s)
<1> DEFINE first == CodeSlabs[1]
<1>1. \A b \in blocks : ThisAllocated(mem, b) => b \in EndBlocks \/ b = Mem1(first)
  BY DEF IInv, NothingLeaks, LiveBlocks, Opened, Fences
<1>2. /\ s.base \in Nat /\ s.size \in Nat /\ s.size >= 10 /\ EndBlock(s) = s.base + s.size - 1
      /\ first \in Slabs /\ first.base \in Nat /\ first.size \in Nat /\ first.size >= 10
      /\ s.base \in blocks
  BY SlabFacts DEF IInv, SlabsOK
<1>3. Mem1(first) = first.base + first.size - 6
  BY <1>2 DEF Mem1, Mem2, Mem3, EndBlock, MinBlockSize, FreeHeaderWords, HeaderWords
<1>4. ASSUME NEW b \in blocks, ThisAllocated(mem, b), s.base <= b, b < s.base + s.size
      PROVE  b = EndBlock(s) \/ (s = first /\ b = Mem1(s))
  <2>1. b \in Nat
    BY HeapFacts, BlockFacts
  <2>2. CASE b \in EndBlocks
    <3>1. PICK t \in Slabs : b = EndBlock(t)
      BY <2>2 DEF EndBlocks
    <3>2. b = t.base + t.size - 1 /\ t.base \in Nat /\ t.size \in Nat /\ t.size >= 10
      BY <3>1, SlabFacts
    <3>3. t = s
      BY <1>2, <1>4, <2>1, <3>2, OneSlab
    <3> QED BY <3>1, <3>3
  <2>3. CASE b = Mem1(first)
    <3>1. first.base <= b /\ b < first.base + first.size
      BY <1>2, <1>3, <2>3
    <3>2. first = s
      BY <1>2, <1>4, <2>1, <3>1, OneSlab
    <3> QED BY <2>3, <3>2
  <2> QED BY <1>1, <1>4, <2>2, <2>3
<1> HIDE DEF first
<1>5. ~ThisAllocated(mem, s.base)
  <2>1. SUFFICES ASSUME ThisAllocated(mem, s.base) PROVE FALSE
    OBVIOUS
  <2>2. s.base = EndBlock(s) \/ (s = first /\ s.base = Mem1(s))
    BY <1>2, <1>4, <2>1
  <2> QED BY <1>2, <1>3, <2>2
<1>6. s.base \in Free(mem, blocks) /\ s.base \notin EndBlocks
  BY <1>2, <1>5, HeapFacts DEF Free
<1> DEFINE a == getBlockAfter(mem, s.base)
<1>7. a \in blocks /\ ThisAllocated(mem, a)
  BY <1>2, <1>6, HeapFacts DEF BlocksOK, Tiled, Coalesced
<1>8. s.base <= a /\ a < s.base + s.size
  <2>1. PICK t \in Slabs : t.base <= s.base /\ s.base < t.base + t.size /\ a < t.base + t.size
    BY <1>2, <1>6, InsideItsSlab
  <2>2. t = s
    BY <1>2, <2>1, OneSlab
  <2>3. BlockSize(mem, s.base) \in Nat /\ a = s.base + BlockSize(mem, s.base)
    BY <1>2, HeapFacts, BlockFacts DEF getBlockAfter
  <2> HIDE DEF a
  <2> QED BY <1>2, <2>1, <2>2, <2>3
<1>9. a = EndBlock(s) \/ (s = first /\ a = Mem1(s))
  <2> HIDE DEF a
  <2> QED BY <1>4, <1>7, <1>8
<1> QED BY <1>6, <1>9 DEF first

\* A slab of a heap in nobody's hands is one block between its fences.
LEMMA Coalesces ==
  ASSUME IInv, live = {}, pc = "idle", NEW s \in Slabs
  PROVE  HeadersOf(s) = IF s = CodeSlabs[1] THEN {Mem0(s), Mem1(s), Mem2(s), Mem3(s)}
                                            ELSE {s.base, EndBlock(s)}
<1> DEFINE end == s.base + s.size
<1>1. /\ s.base \in Nat /\ s.size \in Nat /\ s.size >= 10 /\ EndBlock(s) = end - 1
      /\ EndBlock(s) \in EndBlocks /\ CodeSlabs[1] \in Slabs
  BY SlabFacts
<1>2. /\ s.base \in Free(mem, blocks)
      /\ \/ getBlockAfter(mem, s.base) = EndBlock(s)
         \/ s = CodeSlabs[1] /\ getBlockAfter(mem, s.base) = Mem1(s)
  BY NothingBetween
<1>3. getBlockAfter(mem, EndBlock(s)) = end
  BY <1>1, HeapFacts DEF getBlockAfter
<1>4. PICK f : /\ Walk(s) = {f[n] : n \in 0 .. s.size} /\ f[0] = s.base
               /\ \A n \in Nat : n < s.size => f[n + 1] = Onward(s, f[n])
  BY WalkSteps
<1>5. Onward(s, s.base) = getBlockAfter(mem, s.base) /\ Onward(s, EndBlock(s)) = end
  BY <1>1, <1>3 DEF Onward
<1>6. f[1] = getBlockAfter(mem, s.base)
  <2>1. f[0 + 1] = Onward(s, f[0])
    BY <1>1, <1>4
  <2> QED BY <1>4, <1>5, <2>1
<1>7. ASSUME NEW n \in 0 .. 3, f[n] < end PROVE f[n] \in HeadersOf(s)
  <2>1. n \in 0 .. s.size
    BY <1>1
  <2> QED BY <1>4, <1>7, <2>1 DEF HeadersOf
<1>8. CASE s # CodeSlabs[1]
  <2>1. getBlockAfter(mem, s.base) = EndBlock(s)
    BY <1>2, <1>8
  <2> DEFINE C == {s.base, EndBlock(s)}
  <2>2. \A x \in C : Onward(s, x) \in C \cup {end}
    BY <1>5, <2>1
  <2>3. HeadersOf(s) \in SUBSET C
    <3>1. s.base \in C
      OBVIOUS
    <3> HIDE DEF C
    <3> QED BY <2>2, <3>1, WalkWithin
  <2>4. s.base \in HeadersOf(s) /\ EndBlock(s) \in HeadersOf(s)
    <3>1. f[0] = s.base /\ f[1] = EndBlock(s) /\ f[0] < end /\ f[1] < end
      BY <1>1, <1>4, <1>6, <2>1
    <3>2. f[0] \in HeadersOf(s) /\ f[1] \in HeadersOf(s)
      BY <1>7, <3>1
    <3> QED BY <3>1, <3>2
  <2> QED BY <1>8, <2>3, <2>4
<1>9. CASE s = CodeSlabs[1]
  <2>1. /\ Mem0(s) = s.base /\ Mem3(s) = EndBlock(s) /\ Mem2(s) = end - 5 /\ Mem1(s) = end - 6
        /\ Mem3(s) = end - 1
    BY <1>1 DEF Mem0, Mem1, Mem2, Mem3, MinBlockSize, FreeHeaderWords, HeaderWords
  <2>2. /\ Mem1(s) \in blocks /\ getBlockAfter(mem, Mem1(s)) = Mem2(s)
        /\ BlockSize(mem, Mem2(s)) = 4
    BY <1>9 DEF IInv, TombstoneOK, Tombstone, MinBlockSize, FreeHeaderWords
  <2>3. getBlockAfter(mem, Mem2(s)) = Mem3(s)
    BY <1>1, <2>1, <2>2 DEF getBlockAfter
  <2>4. getBlockAfter(mem, s.base) = Mem1(s)
    <3>1. s.base \in blocks /\ s.base < Mem1(s)
      BY <1>1, <1>2, <2>1 DEF Free
    <3>2. getBlockAfter(mem, s.base) <= Mem1(s)
      BY <2>2, <3>1, HeapFacts DEF BlocksOK, Tiled
    <3> QED BY <1>1, <1>2, <2>1, <3>2
  <2>5. /\ Onward(s, Mem0(s)) = Mem1(s) /\ Onward(s, Mem1(s)) = Mem2(s)
        /\ Onward(s, Mem2(s)) = Mem3(s) /\ Onward(s, Mem3(s)) = end
    BY <1>1, <1>5, <2>1, <2>2, <2>3, <2>4 DEF Onward
  <2> DEFINE C == {Mem0(s), Mem1(s), Mem2(s), Mem3(s)}
  <2>6. HeadersOf(s) \in SUBSET C
    <3>1. s.base \in C /\ \A x \in C : Onward(s, x) \in C \cup {end}
      BY <2>1, <2>5
    <3> HIDE DEF C
    <3> QED BY <3>1, WalkWithin
  <2>7. C \in SUBSET HeadersOf(s)
    <3>1. f[0 + 1] = Onward(s, f[0]) /\ f[1 + 1] = Onward(s, f[1]) /\ f[2 + 1] = Onward(s, f[2])
      BY <1>1, <1>4
    <3>2. f[0] = Mem0(s) /\ f[1] = Mem1(s) /\ f[2] = Mem2(s) /\ f[3] = Mem3(s)
      BY <1>4, <2>1, <2>5, <3>1
    <3>3. Mem0(s) < end /\ Mem1(s) < end /\ Mem2(s) < end /\ Mem3(s) < end
      BY <1>1, <2>1
    <3>4. f[0] \in HeadersOf(s) /\ f[1] \in HeadersOf(s) /\ f[2] \in HeadersOf(s) /\ f[3] \in HeadersOf(s)
      BY <1>7, <3>2, <3>3
    <3> QED BY <3>2, <3>4
  <2> QED BY <1>9, <2>6, <2>7
<1> QED BY <1>8, <1>9

\* However bodies came and went, the heap falls together again: with nothing in the
\* hands of clients a slab is one free block, but for the fences the manager keeps.
THEOREM EverythingCoalesces == Spec => []AllFreeAgain
<1>1. IInv => AllFreeAgain
  BY Coalesces DEF AllFreeAgain
<1> QED BY <1>1, HeapInvariant, PTL
=============================================================================
