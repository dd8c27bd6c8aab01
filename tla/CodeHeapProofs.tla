--------------------------- MODULE CodeHeapProofs ---------------------------
(***************************************************************************)
(* The promise of CodeHeap, for every size of address space.               *)
(***************************************************************************)
EXTENDS CodeHeap, TLAPS

\* TypeOK is inductive: every extent that is opened, kept or reserved is an
\* extent of the address space.
THEOREM HeapTypeCorrect == Spec => []TypeOK
<1>1. Init => TypeOK
  BY DEF Init, TypeOK
<1>2. TypeOK /\ [Next]_vars => TypeOK'
  <2> SUFFICES ASSUME TypeOK, [Next]_vars PROVE TypeOK'
    OBVIOUS
  <2>1. ASSUME NEW e \in Extent, Open(e) PROVE TypeOK'
    BY <2>1 DEF Open, TypeOK
  <2>2. ASSUME NEW e \in Extent, Reserve(e) PROVE TypeOK'
    BY <2>2 DEF Reserve, TypeOK
  <2>3. ASSUME NEW e \in open, NEW kept \in Extent, Close(e, kept) PROVE TypeOK'
    BY <2>3 DEF Close, TypeOK
  <2>4. ASSUME Abandon PROVE TypeOK'
    BY <2>4 DEF Abandon, TypeOK
  <2>5. ASSUME NEW e \in owned, Release(e) PROVE TypeOK'
    BY <2>5 DEF Release, TypeOK
  <2>6. CASE UNCHANGED vars
    BY <2>6 DEF vars, TypeOK
  <2>7. QED
    BY <2>1, <2>2, <2>3, <2>4, <2>5, <2>6 DEF Next
<1>3. QED
  BY <1>1, <1>2, PTL DEF Spec

\* Two extents that are handed out never share a word: what is opened or
\* reserved is disjoint from everything owned, and closing a buffer keeps a
\* part of it.
THEOREM NothingIsShared == Spec => []NothingShared
<1>1. Init => NothingShared
  BY DEF Init, NothingShared
<1>2. TypeOK /\ NothingShared /\ [Next]_vars => NothingShared'
  <2> SUFFICES ASSUME TypeOK, NothingShared, [Next]_vars PROVE NothingShared'
    OBVIOUS
  <2> USE DEF NothingShared
  <2>1. ASSUME NEW e \in Extent, Open(e) PROVE NothingShared'
    <3>1. \A f \in owned : f # e /\ Disjoint(e, f) /\ Disjoint(f, e)
      BY <2>1 DEF Open, Disjoint, TypeOK, Extent
    <3>2. QED
      BY <2>1, <3>1 DEF Open
  <2>2. ASSUME NEW e \in Extent, Reserve(e) PROVE NothingShared'
    <3>1. \A f \in owned : Disjoint(e, f) /\ Disjoint(f, e)
      BY <2>2 DEF Reserve, Disjoint
    <3>2. QED
      BY <2>2, <3>1 DEF Reserve
  <2>3. ASSUME NEW e \in open, NEW kept \in Extent, Close(e, kept)
        PROVE NothingShared'
    <3>1. \A f \in owned : Disjoint(kept, f) /\ Disjoint(f, kept)
      <4> SUFFICES ASSUME NEW f \in owned
                   PROVE Disjoint(kept, f) /\ Disjoint(f, kept)
        OBVIOUS
      <4>1. Disjoint(e, f)
        BY DEF TypeOK
      <4>2. e \in Extent /\ kept \in Extent /\ f \in Extent
        BY DEF TypeOK
      <4>3. kept.start = e.start /\ kept.end <= e.end
        BY <2>3 DEF Close
      <4>4. QED
        BY <4>1, <4>2, <4>3 DEF Disjoint, Extent
    <3>2. owned' = owned \cup {kept} /\ open' = {}
      BY <2>3 DEF Close
    <3>3. QED
      BY <3>1, <3>2
  <2>4. ASSUME Abandon PROVE NothingShared'
    BY <2>4 DEF Abandon
  <2>5. ASSUME NEW e \in owned, Release(e) PROVE NothingShared'
    BY <2>5 DEF Release
  <2>6. CASE UNCHANGED vars
    BY <2>6 DEF vars
  <2>7. QED
    BY <2>1, <2>2, <2>3, <2>4, <2>5, <2>6 DEF Next
<1>3. QED
  BY <1>1, <1>2, HeapTypeCorrect, PTL DEF Spec
=============================================================================
