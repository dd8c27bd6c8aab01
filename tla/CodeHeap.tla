------------------------------ MODULE CodeHeap ------------------------------
(***************************************************************************)
(* What the JIT relies on its memory manager for, whatever the data        *)
(* structure: at most one buffer is open for emission, closing it keeps a  *)
(* prefix of it, and no two things handed out ever share a word.           *)
(***************************************************************************)
EXTENDS Integers

CONSTANT MemWords  \* words of address space

VARIABLES
  open,   \* the buffer being filled: {} or one extent
  owned   \* the extents in the hands of clients

vars == <<open, owned>>

Extent == {e \in [start : 0 .. MemWords, end : 0 .. MemWords] : e.start < e.end}

Disjoint(e, f) == e.end <= f.start \/ f.end <= e.start

Init == open = {} /\ owned = {}

Open(e) ==
  /\ open = {}
  /\ \A f \in owned : Disjoint(e, f)
  /\ open' = {e}
  /\ UNCHANGED owned

\* The client keeps the first words of the buffer e.
Close(e, kept) ==
  /\ e \in open
  /\ kept.start = e.start /\ kept.end <= e.end
  /\ open' = {}
  /\ owned' = owned \cup {kept}

Abandon ==
  /\ open # {}
  /\ open' = {}
  /\ UNCHANGED owned

Reserve(e) ==
  /\ open = {}
  /\ \A f \in owned : Disjoint(e, f)
  /\ owned' = owned \cup {e}
  /\ UNCHANGED open

Release(e) ==
  /\ e \in owned
  /\ owned' = owned \ {e}
  /\ UNCHANGED open

Next ==
  \/ \E e \in Extent : Open(e) \/ Reserve(e)
  \/ \E e \in open, kept \in Extent : Close(e, kept)
  \/ Abandon
  \/ \E e \in owned : Release(e)

Spec == Init /\ [][Next]_vars

TypeOK ==
  /\ open \in SUBSET Extent
  /\ owned \in SUBSET Extent

\* No two extents handed out overlap, and there is one open buffer at most.
NothingShared ==
  /\ \A e, f \in owned \cup open : e # f => Disjoint(e, f)
  /\ \A e \in open : e \notin owned
  /\ \A e, f \in open : e = f
=============================================================================
