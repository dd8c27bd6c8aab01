-------------------------- MODULE ValueHandlesProofs --------------------------
(***************************************************************************)
(* The lists of handles are in order, for every number of handles, values  *)
(* and nested iterations: HandleInv is inductive. A list operation takes   *)
(* one node out of the lists or puts one in; the lemmas are about lists    *)
(* that are in order but for one node.                                     *)
(***************************************************************************)
EXTENDS ValueHandles, SequenceTheorems, FiniteSetTheorems, TLAPS

Mem == [VP : [Node -> Value \cup {None, Tombstone, Unborn}],
        Next : [Node -> Node \cup {None}], Prev : [Node -> Node \cup Bucket \cup {None}],
        ValueHandles : [Value -> Node \cup {None}], HasValueHandle : SUBSET Value]

\* The node is where its address says it is.
Placed(S, n) ==
  \/ S.Prev[n] \in Node /\ S.VP[S.Prev[n]] = S.VP[n] /\ S.Next[S.Prev[n]] = n
  \/ S.Prev[n] = BucketOf(S.VP[n]) /\ S.ValueHandles[S.VP[n]] = n

\* Listed nodes are placed; out is in no list, although it may have a value.
NodesPlaced(S, out) ==
  \A n \in Node : IF S.VP[n] \in Value /\ n # out THEN Placed(S, n)
                  ELSE S.Prev[n] = None /\ S.Next[n] = None

NextBack(S) ==
  \A n \in Node : S.Next[n] # None => S.VP[S.Next[n]] = S.VP[n] /\ S.Prev[S.Next[n]] = n

HeadsBack(S) ==
  \A v \in Value : S.ValueHandles[v] # None =>
    S.VP[S.ValueHandles[v]] = v /\ S.Prev[S.ValueHandles[v]] = BucketOf(v)

Flags(S) == \A v \in Value : v \in S.HasValueHandle <=> S.ValueHandles[v] # None

Founded(S, out) ==
  \A C \in SUBSET Node :
    C # {} /\ (\A n \in C : S.VP[n] \in Value /\ n # out) => \E n \in C : S.Prev[n] \notin C

Lists(S, out) ==
  /\ S \in Mem
  /\ NodesPlaced(S, out) /\ NextBack(S) /\ HeadsBack(S) /\ Founded(S, out)

InOrder(S, out) == Lists(S, out) /\ Flags(S)

------------------------------------------------------------------------------
\* A bucket of the present table is told apart from nodes and from null.
LEMMA Buckets ==
  ASSUME NEW v \in Value
  PROVE  /\ BucketOf(v) \in Bucket /\ BucketOf(v) \notin Node /\ BucketOf(v) # None
         /\ BucketOf(v).value = v /\ isPointerIntoBucketsArray(BucketOf(v))
<1>1. BucketOf(v) \in Bucket
  BY DEF BucketOf, Bucket
<1>2. BucketOf(v).value = v /\ BucketOf(v).freed = FALSE
  BY DEF BucketOf
<1>3. BucketOf(v) \notin Node /\ BucketOf(v) # None
  BY <1>1, ValueHandlesAssumption
<1> QED BY <1>1, <1>2, <1>3 DEF isPointerIntoBucketsArray

LEMMA Values ==
  ASSUME NEW x \in Value \cup {None, Tombstone, Unborn}
  PROVE  isValid(x) <=> x \in Value
  BY ValueHandlesAssumption DEF isValid

LEMMA NodesAreNotNone == None \notin Node /\ None \notin Value /\ None \notin Bucket
  BY ValueHandlesAssumption

\* Memory stays memory.
LEMMA Stores ==
  ASSUME NEW S \in Mem
  PROVE  /\ \A n \in Node, x \in Node \cup {None} : [S EXCEPT !.Next[n] = x] \in Mem
         /\ \A n \in Node, x \in Node \cup Bucket \cup {None} : [S EXCEPT !.Prev[n] = x] \in Mem
         /\ \A n \in Node, x \in Value \cup {None, Tombstone, Unborn} : [S EXCEPT !.VP[n] = x] \in Mem
         /\ \A v \in Value, x \in Node \cup {None} : [S EXCEPT !.ValueHandles[v] = x] \in Mem
         /\ \A f \in SUBSET Value : [S EXCEPT !.HasValueHandle = f] \in Mem
<1>1. ASSUME NEW n \in Node, NEW x \in Node \cup {None} PROVE [S EXCEPT !.Next[n] = x] \in Mem
  BY DEF Mem
<1>2. ASSUME NEW n \in Node, NEW x \in Node \cup Bucket \cup {None} PROVE [S EXCEPT !.Prev[n] = x] \in Mem
  BY DEF Mem
<1>3. ASSUME NEW n \in Node, NEW x \in Value \cup {None, Tombstone, Unborn} PROVE [S EXCEPT !.VP[n] = x] \in Mem
  BY DEF Mem
<1>4. ASSUME NEW v \in Value, NEW x \in Node \cup {None} PROVE [S EXCEPT !.ValueHandles[v] = x] \in Mem
  BY DEF Mem
<1>5. ASSUME NEW f \in SUBSET Value PROVE [S EXCEPT !.HasValueHandle = f] \in Mem
  BY DEF Mem
<1> QED BY <1>1, <1>2, <1>3, <1>4, <1>5

\* What is found at an address, and what a store there changes.
LEMMA AtNode ==
  ASSUME NEW S \in Mem, NEW p \in Node, NEW x \in Node \cup {None}
  PROVE  /\ Deref(S, p) = S.Next[p]
         /\ Store(S, p, x) = [S EXCEPT !.Next[p] = x]
  BY DEF Deref, Store

LEMMA AtBucket ==
  ASSUME NEW S \in Mem, NEW v \in Value, NEW x \in Node \cup {None}
  PROVE  /\ Deref(S, BucketOf(v)) = S.ValueHandles[v]
         /\ Store(S, BucketOf(v), x) = [S EXCEPT !.ValueHandles[v] = x]
  BY Buckets DEF Deref, Store

------------------------------------------------------------------------------
\* R is S without n in the lists, field by field.
Removal(S, n, R) ==
  /\ R \in Mem /\ R.VP = S.VP
  /\ S.Prev[n] # n /\ S.Next[n] # n
  /\ \A m \in Node : R.Next[m] = IF m = n THEN None
                                 ELSE IF m = S.Prev[n] THEN S.Next[n] ELSE S.Next[m]
  /\ \A m \in Node : R.Prev[m] = IF m = n THEN None
                                 ELSE IF m = S.Next[n] THEN S.Prev[n] ELSE S.Prev[m]
  /\ \A w \in Value : R.ValueHandles[w] = IF w = S.VP[n] /\ S.Prev[n] \notin Node THEN S.Next[n]
                                          ELSE S.ValueHandles[w]
  /\ R.HasValueHandle = IF S.Prev[n] \in Node \/ S.Next[n] # None THEN S.HasValueHandle
                        ELSE S.HasValueHandle \ {S.VP[n]}

LEMMA RemoveFields ==
  ASSUME NEW S, NEW n \in Node, InOrder(S, None), S.VP[n] \in Value
  PROVE  Removal(S, n, RemoveFromUseList(S, n))
<1> DEFINE R == RemoveFromUseList(S, n)
           prev == S.Prev[n]
           next == S.Next[n]
           v == S.VP[n]
<1>1. S \in Mem /\ Placed(S, n)
  BY NodesAreNotNone DEF InOrder, Lists, NodesPlaced
<1>2. next \in Node \cup {None} /\ prev \in Node \cup Bucket \cup {None}
  BY <1>1 DEF Mem
<1>3. prev # n
  <2> SUFFICES ASSUME prev = n PROVE FALSE
    OBVIOUS
  <2>1. {n} \in SUBSET Node /\ {n} # {} /\ (\A m \in {n} : S.VP[m] \in Value /\ m # None)
    BY NodesAreNotNone
  <2>2. \E m \in {n} : S.Prev[m] \notin {n}
    BY <2>1 DEF InOrder, Lists, Founded
  <2> QED BY <2>2
<1>4. next # n
  BY <1>3, NodesAreNotNone DEF InOrder, Lists, NextBack
<1> DEFINE A1 == Store(S, prev, next)
           A2 == [A1 EXCEPT !.Next[n] = None]
           A3 == [A2 EXCEPT !.Prev[n] = None]
           A4 == IF next = None THEN A3 ELSE [A3 EXCEPT !.Prev[next] = prev]
           A5 == [[A4 EXCEPT !.ValueHandles[v] = None] EXCEPT !.HasValueHandle = @ \ {v}]
<1>5. R = IF next = None /\ isPointerIntoBucketsArray(prev) THEN A5 ELSE A4
  BY DEF RemoveFromUseList, setPrevPtr
<1> HIDE DEF R
<1>6. v \in Value
  OBVIOUS
<1>7. ASSUME A1 \in Mem PROVE A2 \in Mem /\ A3 \in Mem /\ A4 \in Mem
  <2>1. A2 \in Mem
    BY <1>7, Stores
  <2>2. A3 \in Mem
    BY <2>1, Stores
  <2> HIDE DEF A3
  <2>3. A4 \in Mem
    BY <1>2, <2>2, Stores
  <2> QED BY <2>1, <2>2, <2>3
<1>8. CASE prev \in Node
  <2>1. A1 = [S EXCEPT !.Next[prev] = next]
    BY <1>1, <1>2, <1>8, AtNode
  <2>2. A1 \in Mem
    BY <1>1, <1>2, <1>8, <2>1, Stores
  <2>3. R = A4
    BY <1>5, <1>8 DEF isPointerIntoBucketsArray
  <2> HIDE DEF prev, next, v, A1
  <2>4. R.VP = S.VP /\ R.ValueHandles = S.ValueHandles /\ R.HasValueHandle = S.HasValueHandle
    BY <1>1, <2>1, <2>3 DEF Mem
  <2>5. R.Next = [S.Next EXCEPT ![prev] = next, ![n] = None]
    BY <1>1, <2>1, <2>3 DEF Mem
  <2>6. R.Prev = IF next = None THEN [S.Prev EXCEPT ![n] = None] ELSE [S.Prev EXCEPT ![n] = None, ![next] = prev]
    BY <1>1, <2>1, <2>3 DEF Mem
  <2>7. R \in Mem
    BY <1>7, <2>2, <2>3
  <2> HIDE DEF A4
  <2>8. \A m \in Node : R.Next[m] = IF m = n THEN None ELSE IF m = prev THEN next ELSE S.Next[m]
    BY <1>1, <1>3, <2>5 DEF Mem
  <2>9. \A m \in Node : R.Prev[m] = IF m = n THEN None ELSE IF m = next THEN prev ELSE S.Prev[m]
    BY <1>1, <1>2, <1>4, <2>6, NodesAreNotNone DEF Mem
  <2> QED BY <1>3, <1>4, <1>8, <2>4, <2>7, <2>8, <2>9 DEF Removal, R, prev, next, v
<1>9. CASE prev \notin Node
  <2>0. prev = BucketOf(v)
    BY <1>1, <1>9 DEF Placed
  <2>1. A1 = [S EXCEPT !.ValueHandles[v] = next]
    BY <1>1, <1>2, <2>0, AtBucket
  <2>2. A1 \in Mem
    BY <1>1, <1>2, <1>6, <2>1, Stores
  <2>3. R = IF next = None THEN A5 ELSE A4
    BY <1>5, <2>0, Buckets
  <2> HIDE DEF prev, next, v, A1
  <2>4. R.VP = S.VP
    BY <1>1, <2>1, <2>3 DEF Mem
  <2>5. R.Next = [S.Next EXCEPT ![n] = None]
    BY <1>1, <2>1, <2>3 DEF Mem
  <2>6. R.Prev = IF next = None THEN [S.Prev EXCEPT ![n] = None] ELSE [S.Prev EXCEPT ![n] = None, ![next] = prev]
    BY <1>1, <2>1, <2>3 DEF Mem
  <2>7. R.ValueHandles = [S.ValueHandles EXCEPT ![v] = next]
    BY <1>1, <1>6, <2>1, <2>3 DEF Mem
  <2>8. R.HasValueHandle = IF next # None THEN S.HasValueHandle ELSE S.HasValueHandle \ {v}
    BY <1>1, <2>1, <2>3 DEF Mem
  <2>9. R \in Mem
    <3>1. A4 \in Mem
      BY <1>7, <2>2
    <3> HIDE DEF A4
    <3>2. [A4 EXCEPT !.ValueHandles[v] = None] \in Mem
      BY <3>1, <1>6, Stores
    <3>3. A4.HasValueHandle \ {v} \in SUBSET Value
      BY <3>1 DEF Mem
    <3>4. A5 = [[A4 EXCEPT !.ValueHandles[v] = None] EXCEPT !.HasValueHandle = A4.HasValueHandle \ {v}]
      BY <3>1 DEF Mem
    <3>5. A5 \in Mem
      BY <3>2, <3>3, <3>4, Stores
    <3> QED BY <2>3, <3>1, <3>5
  <2> HIDE DEF A4, A5
  <2>10. \A m \in Node : R.Next[m] = IF m = n THEN None ELSE IF m = prev THEN next ELSE S.Next[m]
    BY <1>1, <1>9, <2>5 DEF Mem
  <2>11. \A m \in Node : R.Prev[m] = IF m = n THEN None ELSE IF m = next THEN prev ELSE S.Prev[m]
    BY <1>1, <1>2, <1>4, <2>6, NodesAreNotNone DEF Mem
  <2>12. \A w \in Value : R.ValueHandles[w] = IF w = v THEN next ELSE S.ValueHandles[w]
    BY <1>1, <2>7 DEF Mem
  <2> QED BY <1>3, <1>4, <1>9, <2>4, <2>8, <2>9, <2>10, <2>11, <2>12 DEF Removal, R, prev, next, v
<1> QED BY <1>8, <1>9 DEF R
\* A removed node is in no list any more, and the lists are in order without it.
LEMMA Unlinked ==
  ASSUME NEW S, NEW n \in Node, InOrder(S, None), S.VP[n] \in Value
  PROVE  InOrder(RemoveFromUseList(S, n), n) /\ RemoveFromUseList(S, n).VP = S.VP
<1> DEFINE R == RemoveFromUseList(S, n)
           prev == S.Prev[n]
           next == S.Next[n]
           v == S.VP[n]
<1>a. Removal(S, n, R)
  BY RemoveFields
<1> HIDE DEF R
<1>0. R \in Mem /\ R.VP = S.VP /\ prev # n /\ next # n
  BY <1>a DEF Removal
<1>1. \A m \in Node : R.Next[m] = IF m = n THEN None ELSE IF m = prev THEN next ELSE S.Next[m]
  BY <1>a DEF Removal
<1>2. \A m \in Node : R.Prev[m] = IF m = n THEN None ELSE IF m = next THEN prev ELSE S.Prev[m]
  BY <1>a DEF Removal
<1>3. \A w \in Value : R.ValueHandles[w] = IF w = v /\ prev \notin Node THEN next ELSE S.ValueHandles[w]
  BY <1>a DEF Removal
<1>4. R.HasValueHandle = IF prev \in Node \/ next # None THEN S.HasValueHandle ELSE S.HasValueHandle \ {v}
  BY <1>a DEF Removal
<1>5. /\ S.VP \in [Node -> Value \cup {None, Tombstone, Unborn}]
      /\ S.Next \in [Node -> Node \cup {None}]
      /\ S.Prev \in [Node -> Node \cup Bucket \cup {None}]
      /\ S.ValueHandles \in [Value -> Node \cup {None}]
      /\ v \in Value
  BY DEF InOrder, Lists, Mem
<1>6. NodesPlaced(S, None) /\ NextBack(S) /\ HeadsBack(S) /\ Flags(S) /\ Founded(S, None)
  BY DEF InOrder, Lists
<1>7. \/ prev \in Node /\ S.VP[prev] = v /\ S.Next[prev] = n
      \/ prev = BucketOf(v) /\ prev \notin Node /\ S.ValueHandles[v] = n
  BY <1>5, <1>6, NodesAreNotNone, Buckets DEF NodesPlaced, Placed
<1>8. next # None => next \in Node /\ S.VP[next] = v /\ S.Prev[next] = n
  BY <1>5, <1>6 DEF NextBack
<1> HIDE DEF prev, next, v
<1>9. NodesPlaced(R, n)
  <2> SUFFICES ASSUME NEW m \in Node
               PROVE  IF S.VP[m] \in Value /\ m # n THEN Placed(R, m) ELSE R.Prev[m] = None /\ R.Next[m] = None
    BY <1>0 DEF NodesPlaced
  <2>1. CASE m = n
    BY <1>0, <1>1, <1>2, <1>5, <1>8, <2>1 DEF next
  <2>2. CASE m # n /\ S.VP[m] \notin Value
    <3>1. S.Prev[m] = None /\ S.Next[m] = None
      BY <1>6, <2>2 DEF NodesPlaced
    <3>2. m # next /\ m # prev
      BY <1>5, <1>7, <1>8, <2>2, NodesAreNotNone
    <3> QED BY <1>1, <1>2, <1>5, <2>2, <3>1, <3>2
  <2>3. CASE m # n /\ S.VP[m] \in Value /\ m = next
    <3>1. R.Prev[m] = prev
      BY <1>2, <1>5, <2>3, NodesAreNotNone
    <3>2. S.VP[m] = v
      BY <1>8, <2>3, NodesAreNotNone
    <3>3. CASE prev \in Node
      <4>1. R.Next[prev] = next
        BY <1>0, <1>1, <1>5, <3>3 DEF next
      <4> QED BY <1>0, <1>7, <2>3, <3>1, <3>2, <3>3, <4>1 DEF Placed
    <3>4. CASE prev \notin Node
      <4>1. R.ValueHandles[v] = next
        BY <1>3, <1>5, <3>4
      <4> QED BY <1>0, <1>7, <2>3, <3>1, <3>2, <3>4, <4>1 DEF Placed
    <3> QED BY <2>3, <3>3, <3>4
  <2>4. CASE m # n /\ S.VP[m] \in Value /\ m # next
    <3>1. R.Prev[m] = S.Prev[m]
      BY <1>2, <1>5, <1>8, <2>4
    <3>2. Placed(S, m)
      BY <1>6, <2>4, NodesAreNotNone DEF NodesPlaced
    <3>3. CASE S.Prev[m] \in Node /\ S.VP[S.Prev[m]] = S.VP[m] /\ S.Next[S.Prev[m]] = m
      <4>1. S.Prev[m] # n /\ S.Prev[m] # prev
        BY <1>7, <2>4, <3>3 DEF next
      <4>2. R.Next[S.Prev[m]] = m
        BY <1>1, <1>5, <3>3, <4>1
      <4> QED BY <1>0, <2>4, <3>1, <3>3, <4>2 DEF Placed
    <3>4. CASE S.Prev[m] = BucketOf(S.VP[m]) /\ S.ValueHandles[S.VP[m]] = m
      <4>1. R.ValueHandles[S.VP[m]] = m
        BY <1>3, <1>5, <1>7, <2>4, <3>4
      <4> QED BY <1>0, <2>4, <3>1, <3>4, <4>1 DEF Placed
    <3> QED BY <2>4, <3>2, <3>3, <3>4 DEF Placed
  <2> QED BY <2>1, <2>2, <2>3, <2>4
<1>10. NextBack(R)
  <2> SUFFICES ASSUME NEW m \in Node, R.Next[m] # None
               PROVE  S.VP[R.Next[m]] = S.VP[m] /\ R.Prev[R.Next[m]] = m
    BY <1>0 DEF NextBack
  <2>1. m # n
    BY <1>1, <1>5
  <2>2. CASE m = prev
    <3>1. R.Next[m] = next /\ next # None
      BY <1>1, <1>5, <2>1, <2>2
    <3>2. R.Prev[next] = prev
      BY <1>0, <1>2, <1>5, <1>8, <3>1 DEF next
    <3> QED BY <1>7, <1>8, <2>2, <3>1, <3>2, Buckets, <1>5
  <2>3. CASE m # prev
    <3>1. R.Next[m] = S.Next[m]
      BY <1>1, <1>5, <2>1, <2>3
    <3>2. S.VP[S.Next[m]] = S.VP[m] /\ S.Prev[S.Next[m]] = m /\ S.Next[m] \in Node
      BY <1>5, <1>6, <3>1 DEF NextBack
    <3>3. S.Next[m] # n /\ S.Next[m] # next
      BY <1>8, <2>1, <2>3, <3>2, NodesAreNotNone DEF prev
    <3> QED BY <1>2, <1>5, <3>1, <3>2, <3>3
  <2> QED BY <2>2, <2>3
<1>11. HeadsBack(R)
  <2> SUFFICES ASSUME NEW w \in Value, R.ValueHandles[w] # None
               PROVE  S.VP[R.ValueHandles[w]] = w /\ R.Prev[R.ValueHandles[w]] = BucketOf(w)
    BY <1>0 DEF HeadsBack
  <2>1. CASE prev \notin Node /\ w = v
    <3>1. R.ValueHandles[w] = next
      BY <1>3, <1>5, <2>1
    <3>2. next # n
      BY <1>0 DEF next
    <3> QED BY <1>2, <1>5, <1>7, <1>8, <2>1, <3>1, <3>2
  <2>2. CASE prev \in Node \/ w # v
    <3>1. R.ValueHandles[w] = S.ValueHandles[w] /\ S.ValueHandles[w] \in Node
      BY <1>3, <1>5, <2>2
    <3>2. S.VP[S.ValueHandles[w]] = w /\ S.Prev[S.ValueHandles[w]] = BucketOf(w)
      BY <1>6, <3>1, NodesAreNotNone DEF HeadsBack
    <3>3. S.ValueHandles[w] # n
      BY <2>2, <3>2, Buckets DEF prev, v
    <3>4. S.ValueHandles[w] # next
      BY <1>8, <3>1, <3>2, Buckets, NodesAreNotNone
    <3> QED BY <1>2, <1>5, <3>1, <3>2, <3>3, <3>4
  <2> QED BY <2>1, <2>2
<1>12. Flags(R)
  BY <1>3, <1>4, <1>5, <1>6, <1>7, NodesAreNotNone DEF Flags
<1>13. Founded(R, n)
  <2> SUFFICES ASSUME NEW C \in SUBSET Node, C # {}, \A m \in C : S.VP[m] \in Value /\ m # n
               PROVE  \E m \in C : R.Prev[m] \notin C
    BY <1>0 DEF Founded
  <2>0. n \notin C
    OBVIOUS
  <2>1. CASE next \in C /\ prev \in C
    <3> DEFINE D == C \cup {n}
    <3>1. D \in SUBSET Node /\ D # {} /\ \A m \in D : S.VP[m] \in Value /\ m # None
      BY <1>5, NodesAreNotNone DEF v
    <3>2. PICK m \in D : S.Prev[m] \notin D
      BY <1>6, <3>1 DEF Founded
    <3>3. m # n /\ m # next /\ m \in C
      BY <1>8, <2>1, <3>2, NodesAreNotNone DEF prev
    <3>4. R.Prev[m] = S.Prev[m]
      BY <1>2, <1>5, <1>8, <3>3
    <3> QED BY <3>2, <3>3, <3>4
  <2>2. CASE next \in C /\ prev \notin C
    BY <1>2, <1>5, <2>2, NodesAreNotNone
  <2>3. CASE next \notin C
    <3>1. PICK m \in C : S.Prev[m] \notin C
      BY <1>6, NodesAreNotNone DEF Founded
    <3>2. R.Prev[m] = S.Prev[m]
      BY <1>2, <1>5, <1>8, <2>3
    <3> QED BY <3>1, <3>2
  <2> QED BY <2>1, <2>2, <2>3
<1> QED BY <1>0, <1>9, <1>10, <1>11, <1>12, <1>13 DEF InOrder, Lists, R
------------------------------------------------------------------------------
\* R is S with n at the address p, field by field.
Addition(S, n, p, R) ==
  /\ R \in Mem /\ R.VP = S.VP /\ R.HasValueHandle = S.HasValueHandle
  /\ \A m \in Node : R.Next[m] = IF m = n THEN Deref(S, p) ELSE IF m = p THEN n ELSE S.Next[m]
  /\ \A m \in Node : R.Prev[m] = IF m = Deref(S, p) THEN n ELSE IF m = n THEN p ELSE S.Prev[m]
  /\ \A w \in Value : R.ValueHandles[w] = IF p = BucketOf(w) THEN n ELSE S.ValueHandles[w]

LEMMA AddFields ==
  ASSUME NEW S \in Mem, NEW n \in Node, NEW v \in Value, NEW p, p \in Node \ {n} \/ p = BucketOf(v)
  PROVE  Addition(S, n, p, AddToExistingUseList(S, n, p))
<1> DEFINE R == AddToExistingUseList(S, n, p)
           next == Deref(S, p)
           A1 == [S EXCEPT !.Next[n] = next]
           A2 == [A1 EXCEPT !.Prev[n] = p]
           A3 == Store(A2, p, n)
           A4 == IF next = None THEN A3 ELSE [A3 EXCEPT !.Prev[next] = n]
<1>1. R = A4
  BY DEF AddToExistingUseList, setPrevPtr
<1>2. next = (IF p \in Node THEN S.Next[p] ELSE S.ValueHandles[v]) /\ next \in Node \cup {None}
  <2>1. next = IF p \in Node THEN S.Next[p] ELSE S.ValueHandles[v]
    BY AtNode, AtBucket, NodesAreNotNone
  <2> QED BY <2>1 DEF Mem
<1>3. p \in Node \cup Bucket
  BY Buckets
<1> HIDE DEF R, next
<1>4. A1 \in Mem
  BY <1>2, Stores
<1> HIDE DEF A1
<1>5. A2 \in Mem
  BY <1>3, <1>4, Stores
<1> HIDE DEF A2
<1>6. A3 = IF p \in Node THEN [A2 EXCEPT !.Next[p] = n] ELSE [A2 EXCEPT !.ValueHandles[v] = n]
  BY <1>5, AtNode, AtBucket
<1>7. A3 \in Mem
  <2>1. p \in Node => [A2 EXCEPT !.Next[p] = n] \in Mem
    BY <1>5, Stores
  <2>2. [A2 EXCEPT !.ValueHandles[v] = n] \in Mem
    BY <1>5, Stores
  <2> QED BY <1>6, <2>1, <2>2
<1> HIDE DEF A3
<1>8. R \in Mem
  <2>1. next # None => [A3 EXCEPT !.Prev[next] = n] \in Mem
    BY <1>2, <1>7, Stores
  <2> QED BY <1>1, <1>7, <2>1
<1>9. R.VP = S.VP /\ R.HasValueHandle = S.HasValueHandle
  <2>1. A1.VP = S.VP /\ A1.HasValueHandle = S.HasValueHandle
    BY DEF A1, Mem
  <2>2. A2.VP = S.VP /\ A2.HasValueHandle = S.HasValueHandle
    BY <1>4, <2>1 DEF A2, Mem
  <2>3. A3.VP = S.VP /\ A3.HasValueHandle = S.HasValueHandle
    BY <1>5, <1>6, <2>2 DEF Mem
  <2> QED BY <1>1, <1>7, <2>3 DEF Mem
<1>10. \A m \in Node : R.Next[m] = IF m = n THEN next ELSE IF m = p THEN n ELSE S.Next[m]
  <2>1. A1.Next = [S.Next EXCEPT ![n] = next]
    BY DEF A1, Mem
  <2>2. A2.Next = A1.Next
    BY <1>4 DEF A2, Mem
  <2>3. A3.Next = IF p \in Node THEN [A2.Next EXCEPT ![p] = n] ELSE A2.Next
    BY <1>5, <1>6 DEF Mem
  <2>4. R.Next = A3.Next
    BY <1>1, <1>7 DEF Mem
  <2>5. S.Next \in [Node -> Node \cup {None}] /\ A1.Next \in [Node -> Node \cup {None}]
    BY <1>4 DEF Mem
  <2> QED BY <2>1, <2>2, <2>3, <2>4, <2>5, Buckets
<1>11. \A m \in Node : R.Prev[m] = IF m = next THEN n ELSE IF m = n THEN p ELSE S.Prev[m]
  <2>1. A1.Prev = S.Prev
    BY DEF A1, Mem
  <2>2. A2.Prev = [S.Prev EXCEPT ![n] = p]
    BY <1>4, <2>1 DEF A2, Mem
  <2>3. A3.Prev = A2.Prev
    BY <1>5, <1>6 DEF Mem
  <2>4. R.Prev = IF next = None THEN A3.Prev ELSE [A3.Prev EXCEPT ![next] = n]
    BY <1>1, <1>7 DEF Mem
  <2>5. S.Prev \in [Node -> Node \cup Bucket \cup {None}] /\ A2.Prev \in [Node -> Node \cup Bucket \cup {None}]
    BY <1>5 DEF Mem
  <2> QED BY <1>2, <2>2, <2>3, <2>4, <2>5, NodesAreNotNone
<1>12. \A w \in Value : R.ValueHandles[w] = IF p = BucketOf(w) THEN n ELSE S.ValueHandles[w]
  <2>1. A2.ValueHandles = S.ValueHandles
    BY <1>4 DEF A1, A2, Mem
  <2>2. A3.ValueHandles = IF p \in Node THEN S.ValueHandles ELSE [S.ValueHandles EXCEPT ![v] = n]
    BY <1>5, <1>6, <2>1 DEF Mem
  <2>3. R.ValueHandles = A3.ValueHandles
    BY <1>1, <1>7 DEF Mem
  <2>4. S.ValueHandles \in [Value -> Node \cup {None}]
    BY DEF Mem
  <2>5. \A w \in Value : p = BucketOf(w) <=> p \notin Node /\ w = v
    BY Buckets
  <2> QED BY <2>2, <2>3, <2>4, <2>5
<1> QED BY <1>8, <1>9, <1>10, <1>11, <1>12 DEF Addition, R, next
\* Where n may be put: behind a node of its value, or at the head of the list.
PlaceFor(S, n, p) ==
  \/ p \in Node \ {n} /\ S.VP[p] = S.VP[n]
  \/ p = BucketOf(S.VP[n])

\* The lists are in order again when the node that was missing is put into its list.
LEMMA Listed ==
  ASSUME NEW S, NEW n \in Node, Lists(S, n), S.VP[n] \in Value, NEW p, PlaceFor(S, n, p)
  PROVE  /\ Lists(AddToExistingUseList(S, n, p), None)
         /\ Addition(S, n, p, AddToExistingUseList(S, n, p))
<1> DEFINE R == AddToExistingUseList(S, n, p)
           next == Deref(S, p)
           v == S.VP[n]
<1>1. S \in Mem /\ v \in Value
  BY DEF Lists
<1>2. (p \in Node \ {n} /\ S.VP[p] = v) \/ (p = BucketOf(v) /\ p \notin Node)
  <2>1. BucketOf(v) \notin Node
    BY <1>1, Buckets
  <2> QED BY <2>1 DEF PlaceFor
<1>a. Addition(S, n, p, R)
  BY <1>1, <1>2, AddFields
<1>3. next = (IF p \in Node THEN S.Next[p] ELSE S.ValueHandles[v]) /\ next \in Node \cup {None}
  <2>1. next = IF p \in Node THEN S.Next[p] ELSE S.ValueHandles[v]
    BY <1>1, <1>2, AtNode, AtBucket, NodesAreNotNone
  <2> QED BY <1>1, <1>2, <2>1 DEF Mem
<1> HIDE DEF R, next, v
<1>4. R \in Mem /\ R.VP = S.VP
  BY <1>a DEF Addition
<1>5. \A m \in Node : R.Next[m] = IF m = n THEN next ELSE IF m = p THEN n ELSE S.Next[m]
  BY <1>a DEF Addition, next
<1>6. \A m \in Node : R.Prev[m] = IF m = next THEN n ELSE IF m = n THEN p ELSE S.Prev[m]
  BY <1>a DEF Addition, next
<1>7. \A w \in Value : R.ValueHandles[w] = IF p = BucketOf(w) THEN n ELSE S.ValueHandles[w]
  BY <1>a DEF Addition
<1>8. /\ S.VP \in [Node -> Value \cup {None, Tombstone, Unborn}]
      /\ S.Next \in [Node -> Node \cup {None}]
      /\ S.Prev \in [Node -> Node \cup Bucket \cup {None}]
      /\ S.ValueHandles \in [Value -> Node \cup {None}]
  BY <1>1 DEF Mem
<1>9. NodesPlaced(S, n) /\ NextBack(S) /\ HeadsBack(S) /\ Founded(S, n)
  BY DEF Lists
<1>10. S.Prev[n] = None /\ S.Next[n] = None
  BY <1>9 DEF NodesPlaced
<1>11. next # None => S.VP[next] = v /\ next # n /\ S.Prev[next] = p
  <2>1. CASE p \in Node
    BY <1>2, <1>3, <1>9, <1>10, <2>1, NodesAreNotNone DEF NextBack
  <2>2. CASE p \notin Node
    BY <1>1, <1>2, <1>3, <1>9, <1>10, <2>2, Buckets DEF HeadsBack
  <2> QED BY <2>1, <2>2
<1>12. \A m \in Node : S.Prev[m] # n
  <2> SUFFICES ASSUME NEW m \in Node, S.Prev[m] = n PROVE FALSE
    OBVIOUS
  <2>1. S.VP[m] \in Value /\ m # n
    BY <1>9, NodesAreNotNone DEF NodesPlaced
  <2>2. Placed(S, m)
    BY <1>9, <2>1 DEF NodesPlaced
  <2> QED BY <1>10, <2>1, <2>2, NodesAreNotNone, Buckets DEF Placed
<1>13. NodesPlaced(R, None)
  <2> SUFFICES ASSUME NEW m \in Node
               PROVE  IF S.VP[m] \in Value THEN Placed(R, m) ELSE R.Prev[m] = None /\ R.Next[m] = None
    BY <1>4, NodesAreNotNone DEF NodesPlaced
  <2>1. CASE S.VP[m] \notin Value
    <3>1. S.Prev[m] = None /\ S.Next[m] = None
      BY <1>9, <2>1 DEF NodesPlaced
    <3>2. m # n /\ m # p /\ m # next
      BY <1>1, <1>2, <1>11, <2>1, NodesAreNotNone DEF v
    <3> QED BY <1>5, <1>6, <2>1, <3>1, <3>2
  <2>2. CASE m = n
    <3>1. R.Prev[n] = p
      BY <1>6, <1>11, NodesAreNotNone
    <3>2. CASE p \in Node
      BY <1>2, <1>4, <1>5, <2>2, <3>1, <3>2 DEF Placed, v
    <3>3. CASE p = BucketOf(v)
      BY <1>1, <1>4, <1>7, <2>2, <3>1, <3>3 DEF Placed, v
    <3> QED BY <1>2, <3>2, <3>3
  <2>3. CASE m = next /\ m # n
    BY <1>4, <1>5, <1>6, <1>11, <2>3, NodesAreNotNone DEF Placed, v
  <2>4. CASE S.VP[m] \in Value /\ m # n /\ m # next
    <3>1. R.Prev[m] = S.Prev[m]
      BY <1>6, <2>4
    <3>2. CASE S.Prev[m] \in Node /\ S.VP[S.Prev[m]] = S.VP[m] /\ S.Next[S.Prev[m]] = m
      <4>1. S.Prev[m] # n /\ S.Prev[m] # p
        BY <1>3, <1>12, <2>4, <3>2
      <4> QED BY <1>4, <1>5, <2>4, <3>1, <3>2, <4>1 DEF Placed
    <3>3. CASE S.Prev[m] = BucketOf(S.VP[m]) /\ S.ValueHandles[S.VP[m]] = m
      <4>1. p # BucketOf(S.VP[m])
        BY <1>1, <1>2, <1>3, <2>4, <3>3, Buckets
      <4> QED BY <1>4, <1>7, <2>4, <3>1, <3>3, <4>1 DEF Placed
    <3>4. Placed(S, m)
      BY <1>9, <2>4 DEF NodesPlaced
    <3> QED BY <3>2, <3>3, <3>4 DEF Placed
  <2> QED BY <2>1, <2>2, <2>3, <2>4
<1>14. NextBack(R)
  <2> SUFFICES ASSUME NEW m \in Node, R.Next[m] # None
               PROVE  S.VP[R.Next[m]] = S.VP[m] /\ R.Prev[R.Next[m]] = m
    BY <1>4 DEF NextBack
  <2>1. CASE m = n
    <3>1. R.Next[m] = next /\ next \in Node
      BY <1>3, <1>5, <2>1
    <3>2. R.Prev[next] = n /\ S.VP[next] = v
      BY <1>6, <1>11, <3>1, NodesAreNotNone
    <3> QED BY <2>1, <3>1, <3>2 DEF v
  <2>2. CASE m # n /\ m = p
    <3>1. R.Next[m] = n
      BY <1>5, <2>2
    <3>2. R.Prev[n] = p
      BY <1>6, <1>11, NodesAreNotNone
    <3> QED BY <1>2, <2>2, <3>1, <3>2 DEF v
  <2>3. CASE m # n /\ m # p
    <3>1. R.Next[m] = S.Next[m] /\ S.Next[m] \in Node
      BY <1>5, <1>8, <2>3
    <3>2. S.VP[S.Next[m]] = S.VP[m] /\ S.Prev[S.Next[m]] = m
      BY <1>9, <3>1, NodesAreNotNone DEF NextBack
    <3>3. S.Next[m] # n /\ S.Next[m] # next
      BY <1>10, <1>11, <2>3, <3>1, <3>2, NodesAreNotNone
    <3> QED BY <1>6, <3>1, <3>2, <3>3
  <2> QED BY <2>1, <2>2, <2>3
<1>15. HeadsBack(R)
  <2> SUFFICES ASSUME NEW w \in Value, R.ValueHandles[w] # None
               PROVE  S.VP[R.ValueHandles[w]] = w /\ R.Prev[R.ValueHandles[w]] = BucketOf(w)
    BY <1>4 DEF HeadsBack
  <2>1. CASE p = BucketOf(w)
    <3>1. w = v
      BY <1>1, <1>2, <2>1, Buckets
    <3>2. R.ValueHandles[w] = n
      BY <1>7, <2>1
    <3>3. R.Prev[n] = p
      BY <1>6, <1>11, NodesAreNotNone
    <3> QED BY <2>1, <3>1, <3>2, <3>3 DEF v
  <2>2. CASE p # BucketOf(w)
    <3>1. R.ValueHandles[w] = S.ValueHandles[w] /\ S.ValueHandles[w] \in Node
      BY <1>7, <1>8, <2>2
    <3>2. S.VP[S.ValueHandles[w]] = w /\ S.Prev[S.ValueHandles[w]] = BucketOf(w)
      BY <1>9, <3>1, NodesAreNotNone DEF HeadsBack
    <3>3. S.ValueHandles[w] # n /\ S.ValueHandles[w] # next
      BY <1>10, <1>11, <2>2, <3>1, <3>2, Buckets, NodesAreNotNone
    <3> QED BY <1>6, <3>1, <3>2, <3>3
  <2> QED BY <2>1, <2>2
<1>16. Founded(R, None)
  <2> SUFFICES ASSUME NEW C \in SUBSET Node, C # {}, \A m \in C : S.VP[m] \in Value
               PROVE  \E m \in C : R.Prev[m] \notin C
    BY <1>4 DEF Founded
  <2> DEFINE D == C \ {n}
  <2>1. CASE D = {}
    <3>1. C = {n}
      BY <2>1
    <3>2. R.Prev[n] = p
      BY <1>6, <1>11, NodesAreNotNone
    <3> QED BY <1>2, <3>1, <3>2
  <2>2. CASE D # {}
    <3>1. PICK m \in D : S.Prev[m] \notin D
      <4>1. D \in SUBSET Node /\ \A k \in D : S.VP[k] \in Value /\ k # n
        OBVIOUS
      <4> QED BY <1>9, <2>2, <4>1 DEF Founded
    <3>2. m \in C /\ m # n /\ S.Prev[m] \notin C
      BY <1>12, <3>1
    <3>3. CASE m # next
      <4>1. R.Prev[m] = S.Prev[m]
        BY <1>6, <3>2, <3>3
      <4> QED BY <3>2, <4>1
    <3>4. CASE m = next /\ n \notin C
      <4>1. R.Prev[m] = n
        BY <1>6, <3>2, <3>4
      <4> QED BY <3>2, <3>4, <4>1
    <3>5. CASE m = next /\ n \in C
      <4>1. p \notin C
        BY <1>11, <3>2, <3>5, NodesAreNotNone
      <4>2. R.Prev[n] = p
        BY <1>6, <1>11, NodesAreNotNone
      <4> QED BY <3>5, <4>1, <4>2
    <3> QED BY <3>3, <3>4, <3>5
  <2> QED BY <2>1, <2>2
<1> QED BY <1>4, <1>13, <1>14, <1>15, <1>16, <1>a DEF Lists, R
------------------------------------------------------------------------------
LEMMA SameMem ==
  ASSUME NEW S \in Mem, NEW R \in Mem, S.VP = R.VP, S.Next = R.Next, S.Prev = R.Prev,
         S.ValueHandles = R.ValueHandles, S.HasValueHandle = R.HasValueHandle
  PROVE  S = R
  BY DEF Mem

\* A node whose address is a bucket is the head of the list of its value.
LEMMA BucketIsHead ==
  ASSUME NEW S, NEW n \in Node, Lists(S, n), NEW m \in Node
  PROVE  /\ S.Prev[m] \in Bucket => S.VP[m] \in Value /\ S.ValueHandles[S.VP[m]] = m /\ m # n
         /\ S.VP[m] \in Value /\ S.ValueHandles[S.VP[m]] = m => S.Prev[m] = BucketOf(S.VP[m])
<1>1. NodesPlaced(S, n) /\ HeadsBack(S)
  BY DEF Lists
<1>2. ASSUME S.Prev[m] \in Bucket
      PROVE  S.VP[m] \in Value /\ S.ValueHandles[S.VP[m]] = m /\ m # n
  <2>1. S.VP[m] \in Value /\ m # n
    BY <1>1, <1>2, NodesAreNotNone DEF NodesPlaced
  <2>2. Placed(S, m)
    BY <1>1, <2>1 DEF NodesPlaced
  <2> QED BY <1>2, <2>1, <2>2, ValueHandlesAssumption DEF Placed
<1>3. ASSUME S.VP[m] \in Value, S.ValueHandles[S.VP[m]] = m
      PROVE  S.Prev[m] = BucketOf(S.VP[m])
  BY <1>1, <1>3, NodesAreNotNone DEF HeadsBack
<1> QED BY <1>2, <1>3

\* The table that grew: all the same but for the addresses of buckets.
LEMMA GrowFields ==
  ASSUME NEW S \in Mem
  PROVE  /\ grow(S) \in Mem
         /\ grow(S).VP = S.VP /\ grow(S).Next = S.Next
         /\ grow(S).ValueHandles = S.ValueHandles /\ grow(S).HasValueHandle = S.HasValueHandle
         /\ \A m \in Node : S.Prev[m] \notin Bucket => grow(S).Prev[m] = S.Prev[m]
<1> DEFINE f == [n \in Node |-> IF S.Prev[n] \in Bucket THEN [S.Prev[n] EXCEPT !.freed = TRUE] ELSE S.Prev[n]]
<1>1. grow(S) = [S EXCEPT !.Prev = f]
  BY DEF grow, Mem
<1>2. f \in [Node -> Node \cup Bucket \cup {None}]
  <2> SUFFICES ASSUME NEW n \in Node PROVE f[n] \in Node \cup Bucket \cup {None}
    OBVIOUS
  <2>1. CASE S.Prev[n] \in Bucket
    <3>1. f[n] = [S.Prev[n] EXCEPT !.freed = TRUE]
      BY <2>1
    <3>2. [S.Prev[n] EXCEPT !.freed = TRUE] \in Bucket
      BY <2>1 DEF Bucket
    <3> QED BY <3>1, <3>2
  <2>2. CASE S.Prev[n] \notin Bucket
    BY <2>2 DEF Mem
  <2> QED BY <2>1, <2>2
<1>3. \A m \in Node : S.Prev[m] \notin Bucket => f[m] = S.Prev[m]
  OBVIOUS
<1> HIDE DEF f
<1>4. [S EXCEPT !.Prev = f] \in Mem
  BY <1>2 DEF Mem
<1>5. [S EXCEPT !.Prev = f].Prev = f
  BY DEF Mem
<1> QED BY <1>1, <1>3, <1>4, <1>5 DEF Mem

\* The first handle of a value, in a table with room.
LEMMA InsertedInOrder ==
  ASSUME NEW S, NEW n \in Node, InOrder(S, n), S.VP[n] \in Value, S.VP[n] \notin S.HasValueHandle
  PROVE  InOrder(Inserted(S, n, FALSE), None) /\ Inserted(S, n, FALSE).VP = S.VP
<1> DEFINE v == S.VP[n]
           X == AddToExistingUseList(S, n, BucketOf(v))
           R == Inserted(S, n, FALSE)
<1>1. Lists(X, None) /\ Addition(S, n, BucketOf(v), X)
  BY Listed DEF InOrder, PlaceFor
<1>2. R = [X EXCEPT !.HasValueHandle = @ \cup {v}]
  BY DEF Inserted
<1> HIDE DEF R, X
<1>3. X \in Mem
  BY <1>1 DEF Lists
<1>4. /\ R.VP = X.VP /\ R.Next = X.Next /\ R.Prev = X.Prev /\ R.ValueHandles = X.ValueHandles
      /\ R.HasValueHandle = X.HasValueHandle \cup {v}
  BY <1>2, <1>3 DEF Mem
<1>5. R \in Mem
  <2>1. R = [X EXCEPT !.HasValueHandle = X.HasValueHandle \cup {v}]
    BY <1>2, <1>3 DEF Mem
  <2>2. X.HasValueHandle \cup {v} \in SUBSET Value
    BY <1>3 DEF Mem
  <2> QED BY <1>3, <2>1, <2>2, Stores
<1>6. Lists(R, None)
  BY <1>1, <1>4, <1>5 DEF Lists, NodesPlaced, Placed, NextBack, HeadsBack, Founded
<1>7. Flags(R)
  <2> SUFFICES ASSUME NEW w \in Value PROVE w \in R.HasValueHandle <=> R.ValueHandles[w] # None
    BY DEF Flags
  <2>1. Flags(S)
    BY DEF InOrder
  <2>2. R.HasValueHandle = S.HasValueHandle \cup {v}
    BY <1>1, <1>4 DEF Addition
  <2>3. R.ValueHandles[w] = IF BucketOf(v) = BucketOf(w) THEN n ELSE S.ValueHandles[w]
    BY <1>1, <1>4 DEF Addition
  <2>4. BucketOf(v) = BucketOf(w) <=> v = w
    BY Buckets
  <2> HIDE DEF v
  <2> QED BY <2>1, <2>2, <2>3, <2>4, NodesAreNotNone DEF Flags
<1> QED BY <1>1, <1>4, <1>6, <1>7 DEF InOrder, R, Addition

\* A move of the table leaves no trace: AddToUseList repairs all the addresses, and is
\* right not to when the list that was added to is the only one.
LEMMA MoveOfTable ==
  ASSUME NEW S, NEW n \in Node, InOrder(S, n), S.VP[n] \in Value, NEW grows \in BOOLEAN,
         S.VP[n] \notin S.HasValueHandle
  PROVE  AddToUseList(S, n, grows) = Inserted(S, n, FALSE)
<1> DEFINE v == S.VP[n]
           b == BucketOf(v)
           G == grow(S)
           X == AddToExistingUseList(G, n, b)
           Y == AddToExistingUseList(S, n, b)
           first == \A w \in Value \ {v} : S.ValueHandles[w] = None
<1>1. Lists(S, n) /\ S \in Mem /\ S.ValueHandles[v] = None
  BY DEF InOrder, Lists, Flags
<1>2. CASE ~grows
  BY <1>2 DEF AddToUseList, Inserted
<1>3. CASE grows /\ first
  <2>1. \A m \in Node : S.Prev[m] \notin Bucket
    <3> SUFFICES ASSUME NEW m \in Node, S.Prev[m] \in Bucket PROVE FALSE
      OBVIOUS
    <3>1. S.VP[m] \in Value /\ S.ValueHandles[S.VP[m]] = m
      BY <1>1, BucketIsHead
    <3> QED BY <1>1, <1>3, <3>1, NodesAreNotNone
  <2>2. G \in Mem /\ \A m \in Node : G.Prev[m] = S.Prev[m]
    BY <1>1, <2>1, GrowFields
  <2>3. G.Prev = S.Prev
    BY <1>1, <2>2 DEF Mem
  <2>4. G = S
    BY <1>1, <2>2, <2>3, GrowFields, SameMem
  <2> QED BY <1>3, <2>4 DEF AddToUseList, Inserted
<1>4. CASE grows /\ ~first
  <2> DEFINE I == [X EXCEPT !.HasValueHandle = @ \cup {v}]
             J == [Y EXCEPT !.HasValueHandle = @ \cup {v}]
             f == [m \in Node |-> IF I.VP[m] \in Value /\ I.ValueHandles[I.VP[m]] = m
                                  THEN BucketOf(I.VP[m]) ELSE I.Prev[m]]
  <2>1. G \in Mem /\ G.VP = S.VP
    BY <1>1, GrowFields
  <2>2. I = Inserted(S, n, TRUE) /\ J = Inserted(S, n, FALSE)
    BY <2>1 DEF Inserted
  <2>3. AddToUseList(S, n, grows) = FixPrevPtrs(I)
    BY <1>4, <2>2 DEF AddToUseList
  <2>4. Addition(G, n, b, X) /\ Addition(S, n, b, Y)
    BY <1>1, <2>1, AddFields
  <2>5. Deref(S, b) = None /\ Deref(G, b) = None
    BY <1>1, <2>1, GrowFields, AtBucket, NodesAreNotNone
  <2> HIDE DEF G, X, Y
  <2>6. X \in Mem /\ Y \in Mem
    BY <2>4 DEF Addition
  <2>7. X.VP = Y.VP /\ Y.VP = S.VP /\ X.HasValueHandle = Y.HasValueHandle
    BY <1>1, <2>1, <2>4, GrowFields DEF Addition, G
  <2>8. \A m \in Node : X.Next[m] = Y.Next[m]
    BY <1>1, <2>4, <2>5, GrowFields DEF Addition, G
  <2>9. \A w \in Value : X.ValueHandles[w] = Y.ValueHandles[w]
    <3>1. G.ValueHandles = S.ValueHandles
      BY <1>1, GrowFields DEF G
    <3> HIDE DEF b
    <3>2. \A w \in Value : X.ValueHandles[w] = IF b = BucketOf(w) THEN n ELSE G.ValueHandles[w]
      BY <2>4 DEF Addition
    <3>3. \A w \in Value : Y.ValueHandles[w] = IF b = BucketOf(w) THEN n ELSE S.ValueHandles[w]
      BY <2>4 DEF Addition
    <3> QED BY <3>1, <3>2, <3>3
  <2>10. X.Next = Y.Next /\ X.ValueHandles = Y.ValueHandles
    BY <2>6, <2>8, <2>9 DEF Mem
  <2>11. I \in Mem /\ J \in Mem
    <3>1. ASSUME NEW Z \in Mem PROVE [Z EXCEPT !.HasValueHandle = @ \cup {v}] \in Mem
      <4>1. [Z EXCEPT !.HasValueHandle = @ \cup {v}] = [Z EXCEPT !.HasValueHandle = Z.HasValueHandle \cup {v}]
        BY DEF Mem
      <4>2. Z.HasValueHandle \cup {v} \in SUBSET Value
        BY DEF Mem
      <4> QED BY <4>1, <4>2, Stores
    <3> QED BY <2>6, <3>1
  <2>12. I.VP = S.VP /\ I.Next = J.Next /\ I.ValueHandles = Y.ValueHandles /\ I.Prev = X.Prev
    BY <2>6, <2>7, <2>10 DEF Mem
  <2>13. J.VP = S.VP /\ J.ValueHandles = Y.ValueHandles /\ J.Prev = Y.Prev /\ I.HasValueHandle = J.HasValueHandle
    BY <2>6, <2>7 DEF Mem
  <2>14. FixPrevPtrs(I) = [I EXCEPT !.Prev = f]
    BY <2>11 DEF FixPrevPtrs, Mem
  <2> HIDE DEF I, J
  <2>15. ASSUME NEW m \in Node PROVE f[m] = Y.Prev[m]
    <3>1. f[m] = IF S.VP[m] \in Value /\ Y.ValueHandles[S.VP[m]] = m THEN BucketOf(S.VP[m]) ELSE X.Prev[m]
      BY <2>12
    <3>2. X.Prev[m] = (IF m = n THEN b ELSE G.Prev[m]) /\ Y.Prev[m] = IF m = n THEN b ELSE S.Prev[m]
      BY <2>4, <2>5, NodesAreNotNone DEF Addition
    <3>3. \A w \in Value : Y.ValueHandles[w] = IF w = v THEN n ELSE S.ValueHandles[w]
      <4>1. \A w \in Value : b = BucketOf(w) <=> w = v
        BY Buckets
      <4> HIDE DEF b
      <4> QED BY <2>4, <4>1 DEF Addition
    <3>4. CASE m = n
      BY <3>1, <3>2, <3>3, <3>4
    <3>5. CASE m # n /\ S.VP[m] \in Value /\ S.ValueHandles[S.VP[m]] = m
      <4>1. S.VP[m] # v /\ S.Prev[m] = BucketOf(S.VP[m])
        BY <1>1, <3>5, BucketIsHead, NodesAreNotNone
      <4> QED BY <3>1, <3>2, <3>3, <3>5, <4>1
    <3>6. CASE m # n /\ ~(S.VP[m] \in Value /\ S.ValueHandles[S.VP[m]] = m)
      <4>1. S.Prev[m] \notin Bucket
        BY <1>1, <3>6, BucketIsHead
      <4>2. G.Prev[m] = S.Prev[m]
        BY <1>1, <4>1, GrowFields DEF G
      <4> HIDE DEF f, v
      <4> QED BY <3>1, <3>2, <3>3, <3>6, <4>2
    <3> QED BY <3>4, <3>5, <3>6
  <2>16. f = Y.Prev
    BY <2>6, <2>15 DEF Mem
  <2> HIDE DEF f
  <2>17. [I EXCEPT !.Prev = f] \in Mem
    BY <2>6, <2>11, <2>16 DEF Mem
  <2>18. [I EXCEPT !.Prev = f] = J
    <3> DEFINE K == [I EXCEPT !.Prev = f]
    <3>1. K.Prev = J.Prev
      BY <2>11, <2>13, <2>16 DEF Mem
    <3>2. K.VP = J.VP /\ K.Next = J.Next /\ K.ValueHandles = J.ValueHandles /\ K.HasValueHandle = J.HasValueHandle
      BY <2>11, <2>12, <2>13 DEF Mem
    <3> HIDE DEF K
    <3> QED BY <2>11, <2>17, <3>1, <3>2, SameMem DEF K
  <2> QED BY <2>2, <2>3, <2>14, <2>18
<1> QED BY <1>2, <1>3, <1>4
------------------------------------------------------------------------------
\* R is S in order with n pointing to x, the other nodes as before.
Pointed(S, n, x, R) ==
  InOrder(R, None) /\ \A m \in Node : R.VP[m] = IF m = n THEN x ELSE S.VP[m]

LEMMA DroppedInOrder ==
  ASSUME NEW S, NEW n \in Node, InOrder(S, None)
  PROVE  InOrder(Dropped(S, n), n) /\ Dropped(S, n).VP = S.VP
<1>1. S.VP[n] \in Value \cup {None, Tombstone, Unborn}
  BY DEF InOrder, Lists, Mem
<1>2. CASE S.VP[n] \in Value
  BY <1>1, <1>2, Values, Unlinked DEF Dropped
<1>3. CASE S.VP[n] \notin Value
  <2>1. Dropped(S, n) = S
    BY <1>1, <1>3, Values DEF Dropped
  <2>2. NodesPlaced(S, n)
    BY <1>3, NodesAreNotNone DEF InOrder, Lists, NodesPlaced
  <2>3. Founded(S, n)
    BY NodesAreNotNone DEF InOrder, Lists, Founded
  <2> QED BY <2>1, <2>2, <2>3 DEF InOrder, Lists
<1> QED BY <1>2, <1>3

\* R is S with x in n, which is in no list yet.
Revalued(S, n, x, R) ==
  /\ InOrder(R, n)
  /\ x \notin Value => InOrder(R, None)
  /\ \A m \in Node : R.VP[m] = IF m = n THEN x ELSE S.VP[m]

\* Nobody sees the value of a node that is in no list.
LEMMA RevaluedInOrder ==
  ASSUME NEW S, NEW n \in Node, InOrder(S, n), NEW x \in Value \cup {None, Tombstone, Unborn}
  PROVE  Revalued(S, n, x, [S EXCEPT !.VP[n] = x])
<1> DEFINE R == [S EXCEPT !.VP[n] = x]
<1>1. /\ S \in Mem /\ NodesPlaced(S, n) /\ NextBack(S) /\ HeadsBack(S) /\ Founded(S, n) /\ Flags(S)
  BY DEF InOrder, Lists
<1>2. R \in Mem
  BY <1>1, Stores
<1>3. /\ R.Next = S.Next /\ R.Prev = S.Prev /\ R.ValueHandles = S.ValueHandles
      /\ R.HasValueHandle = S.HasValueHandle
  BY <1>1 DEF Mem
<1>4. \A m \in Node : R.VP[m] = IF m = n THEN x ELSE S.VP[m]
  BY <1>1 DEF Mem
<1> HIDE DEF R
<1>5. S.Prev[n] = None /\ S.Next[n] = None
  BY <1>1 DEF NodesPlaced
<1>6. /\ S.Next \in [Node -> Node \cup {None}]
      /\ S.ValueHandles \in [Value -> Node \cup {None}]
  BY <1>1 DEF Mem
<1>7. NodesPlaced(R, n)
  <2> SUFFICES ASSUME NEW m \in Node
               PROVE  IF R.VP[m] \in Value /\ m # n THEN Placed(R, m) ELSE R.Prev[m] = None /\ R.Next[m] = None
    BY DEF NodesPlaced
  <2>1. CASE m # n /\ S.VP[m] \in Value
    <3>1. Placed(S, m)
      BY <1>1, <2>1 DEF NodesPlaced
    <3>2. S.Prev[m] # n \/ S.Prev[m] = BucketOf(S.VP[m])
      BY <1>5, <3>1, NodesAreNotNone DEF Placed
    <3>3. BucketOf(S.VP[m]) \notin Node
      BY <2>1, Buckets
    <3>4. Placed(R, m)
      BY <1>3, <1>4, <2>1, <3>1, <3>2, <3>3 DEF Placed
    <3> QED BY <1>4, <2>1, <3>4
  <2>2. CASE m = n
    BY <1>3, <1>5, <2>2
  <2>3. CASE m # n /\ S.VP[m] \notin Value
    BY <1>1, <1>3, <1>4, <2>3 DEF NodesPlaced
  <2> QED BY <2>1, <2>2, <2>3
<1>8. NextBack(R)
  <2> SUFFICES ASSUME NEW m \in Node, S.Next[m] # None
               PROVE  R.VP[S.Next[m]] = R.VP[m] /\ S.Prev[S.Next[m]] = m
    BY <1>3 DEF NextBack
  <2>1. S.VP[S.Next[m]] = S.VP[m] /\ S.Prev[S.Next[m]] = m /\ S.Next[m] \in Node
    BY <1>1, <1>6 DEF NextBack
  <2>2. m # n /\ S.Next[m] # n
    BY <1>5, <2>1, NodesAreNotNone
  <2> QED BY <1>4, <2>1, <2>2
<1>9. HeadsBack(R)
  <2> SUFFICES ASSUME NEW w \in Value, S.ValueHandles[w] # None
               PROVE  R.VP[S.ValueHandles[w]] = w /\ S.Prev[S.ValueHandles[w]] = BucketOf(w)
    BY <1>3 DEF HeadsBack
  <2>1. S.VP[S.ValueHandles[w]] = w /\ S.Prev[S.ValueHandles[w]] = BucketOf(w) /\ S.ValueHandles[w] \in Node
    BY <1>1, <1>6 DEF HeadsBack
  <2>2. S.ValueHandles[w] # n
    BY <1>5, <2>1, Buckets
  <2> QED BY <1>4, <2>1, <2>2
<1>10. Founded(R, n)
  BY <1>1, <1>3, <1>4 DEF Founded
<1>11. Flags(R)
  BY <1>1, <1>3 DEF Flags
<1>12. ASSUME x \notin Value PROVE NodesPlaced(R, None) /\ Founded(R, None)
  <2>1. R.VP[n] \notin Value
    BY <1>4, <1>12
  <2>2. NodesPlaced(R, None)
    BY <1>7, <2>1, NodesAreNotNone DEF NodesPlaced
  <2>3. Founded(R, None)
    <3> SUFFICES ASSUME NEW C \in SUBSET Node, C # {}, \A m \in C : R.VP[m] \in Value
                 PROVE  \E m \in C : R.Prev[m] \notin C
      BY DEF Founded
    <3>1. \A m \in C : R.VP[m] \in Value /\ m # n
      BY <2>1
    <3> QED BY <1>10, <3>1 DEF Founded
  <2> QED BY <2>2, <2>3
<1>13. InOrder(R, n)
  BY <1>2, <1>7, <1>8, <1>9, <1>10, <1>11 DEF InOrder, Lists
<1>14. x \notin Value => InOrder(R, None)
  BY <1>2, <1>8, <1>9, <1>11, <1>12 DEF InOrder, Lists
<1> QED BY <1>4, <1>13, <1>14 DEF Revalued, R

LEMMA AddedInOrder ==
  ASSUME NEW S, NEW n \in Node, InOrder(S, n), S.VP[n] \in Value, NEW grows \in BOOLEAN
  PROVE  InOrder(AddToUseList(S, n, grows), None) /\ AddToUseList(S, n, grows).VP = S.VP
<1>1. CASE S.VP[n] \in S.HasValueHandle
  <2> DEFINE v == S.VP[n]
             X == AddToExistingUseList(S, n, BucketOf(v))
  <2>1. AddToUseList(S, n, grows) = X
    BY <1>1 DEF AddToUseList
  <2>2. Lists(X, None) /\ Addition(S, n, BucketOf(v), X)
    BY Listed DEF InOrder, PlaceFor
  <2> HIDE DEF X
  <2>3. \A w \in Value : X.ValueHandles[w] = IF BucketOf(v) = BucketOf(w) THEN n ELSE S.ValueHandles[w]
    BY <2>2 DEF Addition
  <2>4. \A w \in Value : BucketOf(v) = BucketOf(w) <=> v = w
    BY Buckets
  <2>5. X.HasValueHandle = S.HasValueHandle /\ X.VP = S.VP
    BY <2>2 DEF Addition
  <2> HIDE DEF v
  <2>6. Flags(S) /\ v \in S.HasValueHandle
    BY <1>1 DEF InOrder, v
  <2>7. Flags(X)
    BY <2>3, <2>4, <2>5, <2>6, NodesAreNotNone DEF Flags
  <2> QED BY <2>1, <2>2, <2>5, <2>7 DEF InOrder
<1>2. CASE S.VP[n] \notin S.HasValueHandle
  BY <1>2, MoveOfTable, InsertedInOrder
<1> QED BY <1>1, <1>2

\* Construction and assignment from a value.
LEMMA AssignInOrder ==
  ASSUME NEW S, NEW n \in Node, InOrder(S, None), NEW x \in Value \cup {None, Tombstone},
         NEW grows \in BOOLEAN
  PROVE  Pointed(S, n, x, Assign(S, n, x, grows))
<1> DEFINE D == Dropped(S, n)
           set == [D EXCEPT !.VP[n] = x]
           R == Assign(S, n, x, grows)
<1>1. InOrder(D, n) /\ D.VP = S.VP
  BY DroppedInOrder
<1>2. /\ InOrder(set, n) /\ (x \notin Value => InOrder(set, None))
      /\ \A m \in Node : set.VP[m] = IF m = n THEN x ELSE D.VP[m]
  BY <1>1, RevaluedInOrder DEF Revalued
<1>3. R = IF S.VP[n] = x THEN S ELSE IF isValid(x) THEN AddToUseList(set, n, grows) ELSE set
  BY DEF Assign
<1>4. isValid(x) <=> x \in Value
  BY Values
<1> HIDE DEF set, D
<1>5. CASE S.VP[n] = x
  BY <1>3, <1>5 DEF Pointed
<1>6. CASE S.VP[n] # x /\ x \in Value
  <2>1. InOrder(AddToUseList(set, n, grows), None) /\ AddToUseList(set, n, grows).VP = set.VP
    BY <1>2, <1>6, AddedInOrder
  <2> QED BY <1>1, <1>2, <1>3, <1>4, <1>6, <2>1 DEF Pointed
<1>7. CASE S.VP[n] # x /\ x \notin Value
  BY <1>1, <1>2, <1>3, <1>4, <1>7 DEF Pointed
<1> QED BY <1>5, <1>6, <1>7

\* Construction and assignment from another handle: what was made room for before g.
LEMMA AssignHandleInOrder ==
  ASSUME NEW S, NEW n \in Node, NEW g \in Node, InOrder(S, None)
  PROVE  Pointed(S, n, S.VP[g], AssignHandle(S, n, g))
<1> DEFINE D == Dropped(S, n)
           x == S.VP[g]
           set == [D EXCEPT !.VP[n] = x]
           R == AssignHandle(S, n, g)
<1>0. x \in Value \cup {None, Tombstone, Unborn}
  BY DEF InOrder, Lists, Mem
<1>1. InOrder(D, n) /\ D.VP = S.VP
  BY DroppedInOrder
<1>2. /\ InOrder(set, n) /\ (x \notin Value => InOrder(set, None))
      /\ \A m \in Node : set.VP[m] = IF m = n THEN x ELSE D.VP[m]
  BY <1>0, <1>1, RevaluedInOrder DEF Revalued
<1>3. R = IF S.VP[n] = x THEN S ELSE IF isValid(x) THEN AddToExistingUseList(set, n, set.Prev[g]) ELSE set
  BY DEF AssignHandle
<1>4. isValid(x) <=> x \in Value
  BY <1>0, Values
<1> HIDE DEF set, D
<1>5. CASE S.VP[n] = x
  BY <1>3, <1>5 DEF Pointed
<1>6. CASE S.VP[n] # x /\ x \in Value
  <2> DEFINE p == set.Prev[g]
             X == AddToExistingUseList(set, n, p)
  <2>1. set.VP[g] = x /\ set.VP[n] = x /\ g # n
    BY <1>1, <1>2, <1>6
  <2>2. Lists(set, n) /\ Flags(set)
    BY <1>2 DEF InOrder
  <2>3. Placed(set, g)
    BY <1>6, <2>1, <2>2 DEF Lists, NodesPlaced
  <2>4. set.Next[n] = None
    BY <2>2 DEF Lists, NodesPlaced
  <2>5. PlaceFor(set, n, p)
    BY <2>1, <2>3, <2>4, NodesAreNotNone DEF Placed, PlaceFor
  <2>6. Lists(X, None) /\ Addition(set, n, p, X)
    BY <1>6, <2>1, <2>2, <2>5, Listed
  <2>7. Flags(X)
    <3> SUFFICES ASSUME NEW w \in Value PROVE w \in X.HasValueHandle <=> X.ValueHandles[w] # None
      BY DEF Flags
    <3>1. X.HasValueHandle = set.HasValueHandle
      BY <2>6 DEF Addition
    <3>2. X.ValueHandles[w] = IF p = BucketOf(w) THEN n ELSE set.ValueHandles[w]
      BY <2>6 DEF Addition
    <3>3. p = BucketOf(w) => w = x /\ set.ValueHandles[w] = g
      BY <1>6, <2>1, <2>3, Buckets DEF Placed
    <3> QED BY <2>2, <3>1, <3>2, <3>3, NodesAreNotNone DEF Flags
  <2>8. X.VP = set.VP
    BY <2>6 DEF Addition
  <2> HIDE DEF X, p
  <2> QED BY <1>1, <1>2, <1>3, <1>4, <1>6, <2>6, <2>7, <2>8 DEF Pointed, InOrder, X, p
<1>7. CASE S.VP[n] # x /\ x \notin Value
  BY <1>1, <1>2, <1>3, <1>4, <1>7 DEF Pointed
<1> QED BY <1>5, <1>6, <1>7

LEMMA DestroyInOrder ==
  ASSUME NEW S, NEW n \in Node, InOrder(S, None)
  PROVE  Pointed(S, n, Unborn, Destroy(S, n))
<1> DEFINE D == Dropped(S, n)
<1>1. InOrder(D, n) /\ D.VP = S.VP
  BY DroppedInOrder
<1>2. Unborn \notin Value
  BY ValueHandlesAssumption
<1>3. Destroy(S, n) = [D EXCEPT !.VP[n] = Unborn]
  BY DEF Destroy
<1> HIDE DEF D
<1> QED BY <1>1, <1>2, <1>3, RevaluedInOrder DEF Pointed, Revalued
------------------------------------------------------------------------------
\* The invariant of the runs says the same as InOrder.
LEMMA OrderIsLinked ==
  ASSUME NEW S \in Mem
  PROVE  Linked(S) /\ NoCycle(S) <=> InOrder(S, None)
<1>1. \A n \in Node : isValid(S.VP[n]) <=> S.VP[n] \in Value
  BY Values DEF Mem
<1>2. ASSUME NEW n \in Node, S.VP[n] \in Value
      PROVE  Placed(S, n) <=> /\ S.Prev[n] # None
                              /\ S.Prev[n] \in Node => S.VP[S.Prev[n]] = S.VP[n]
                              /\ S.Prev[n] \notin Node => S.Prev[n] = BucketOf(S.VP[n])
                              /\ Deref(S, S.Prev[n]) = n
  <2>1. CASE S.Prev[n] \in Node
    BY <1>2, <2>1, AtNode, Buckets, NodesAreNotNone DEF Placed
  <2>2. CASE S.Prev[n] = BucketOf(S.VP[n])
    <3>1. Deref(S, S.Prev[n]) = S.ValueHandles[S.VP[n]] /\ S.Prev[n] \notin Node /\ S.Prev[n] # None
      BY <1>2, <2>2, AtBucket, Buckets
    <3> QED BY <2>2, <3>1 DEF Placed
  <2>3. CASE S.Prev[n] \notin Node /\ S.Prev[n] # BucketOf(S.VP[n])
    BY <2>3 DEF Placed
  <2> QED BY <2>1, <2>2, <2>3
<1>3. NodesPlaced(S, None) <=>
        \A n \in Node :
          IF isValid(S.VP[n])
            THEN /\ S.Prev[n] # None
                 /\ S.Prev[n] \in Node => S.VP[S.Prev[n]] = S.VP[n]
                 /\ S.Prev[n] \notin Node => S.Prev[n] = BucketOf(S.VP[n])
                 /\ Deref(S, S.Prev[n]) = n
            ELSE S.Prev[n] = None /\ S.Next[n] = None
  BY <1>1, <1>2, NodesAreNotNone DEF NodesPlaced
<1>4. NoCycle(S) <=> Founded(S, None)
  <2>1. ASSUME NoCycle(S), NEW C \in SUBSET Node, C # {}, \A n \in C : S.VP[n] \in Value
        PROVE  \E n \in C : S.Prev[n] \notin C
    <3>1. C \in SUBSET {n \in Node : isValid(S.VP[n])}
      BY <1>1, <2>1
    <3> QED BY <2>1, <3>1 DEF NoCycle
  <2>2. ASSUME Founded(S, None), NEW C \in SUBSET {n \in Node : isValid(S.VP[n])}, C # {}
        PROVE  \E n \in C : S.Prev[n] \notin C
    <3>1. C \in SUBSET Node /\ \A n \in C : S.VP[n] \in Value /\ n # None
      BY <1>1, NodesAreNotNone
    <3> QED BY <2>2, <3>1 DEF Founded
  <2> QED BY <2>1, <2>2 DEF NoCycle, Founded
<1> HIDE DEF Mem
<1> QED BY <1>3, <1>4 DEF Linked, InOrder, Lists, NextBack, HeadsBack, Flags

\* A value without a list has no nodes: their list would have to begin somewhere.
LEMMA NoListNoNodes ==
  ASSUME NEW S, InOrder(S, None), NEW v \in Value, v \notin S.HasValueHandle, NEW n \in Node
  PROVE  S.VP[n] # v
<1> SUFFICES ASSUME S.VP[n] = v PROVE FALSE
  OBVIOUS
<1> DEFINE C == {m \in Node : S.VP[m] = v}
<1>1. C \in SUBSET Node /\ C # {} /\ \A m \in C : S.VP[m] \in Value /\ m # None
  BY NodesAreNotNone
<1>2. PICK m \in C : S.Prev[m] \notin C
  BY <1>1 DEF InOrder, Lists, Founded
<1>3. Placed(S, m)
  BY <1>1 DEF InOrder, Lists, NodesPlaced
<1>4. S.ValueHandles[v] = m
  BY <1>2, <1>3 DEF Placed
<1> QED BY <1>1, <1>4, NodesAreNotNone DEF InOrder, Flags

Frames == [value : Value, new : Value \cup {None}, calling : Handle \cup {None}, late : SUBSET Handle]

\* The invariant, in the words of the lemmas.
LEMMA HandleInvIs ==
  HandleInv <=>
    /\ InOrder(mem, None) /\ NothingDangles
    /\ alive \subseteq Value /\ ops \in Nat /\ stopped \in BOOLEAN /\ stack \in Seq(Frames)
  BY OrderIsLinked DEF HandleInv, TypeOK, Mem, Frames, InOrder, Lists

LEMMA Noting ==
  ASSUME NEW frames \in Seq(Frames), NEW S
  PROVE  /\ Noted(frames, S) \in Seq(Frames) /\ Len(Noted(frames, S)) = Len(frames)
         /\ \A d \in DOMAIN frames : /\ Noted(frames, S)[d].value = frames[d].value
                                     /\ Noted(frames, S)[d].new = frames[d].new
<1> DEFINE late(i) == {h \in Handle : /\ S.VP[h] = frames[i].value
                                      /\ h \in frames[i].late \/ mem.VP[h] # frames[i].value}
           N == [i \in DOMAIN frames |-> [frames[i] EXCEPT !.late = late(i)]]
<1>1. Noted(frames, S) = N
  BY DEF Noted, Frames
<1>2. \A i \in DOMAIN frames : frames[i] \in Frames
  OBVIOUS
<1>3. \A i \in DOMAIN frames : late(i) \in SUBSET Handle
  OBVIOUS
<1> HIDE DEF late
<1>4. ASSUME NEW i \in DOMAIN frames
      PROVE  N[i] \in Frames /\ N[i].value = frames[i].value /\ N[i].new = frames[i].new
  BY <1>2, <1>3 DEF Frames
<1>5. DOMAIN N = 1..Len(frames) /\ DOMAIN frames = 1..Len(frames)
  OBVIOUS
<1> HIDE DEF N
<1>6. N \in Seq(Frames) /\ Len(N) = Len(frames)
  <2>1. N \in [1..Len(frames) -> Frames] /\ Len(frames) \in Nat
    BY <1>4, <1>5 DEF N
  <2>2. N \in Seq(Frames)
    BY <2>1, SeqDef
  <2>3. DOMAIN N = 1..Len(N) /\ Len(N) \in Nat
    BY <2>2, LenProperties
  <2> QED BY <1>5, <2>1, <2>2, <2>3
<1> QED BY <1>1, <1>4, <1>6
------------------------------------------------------------------------------
\* The iterations under way stay what they are, and handles move to values that live.
LEMMA HandlesMove ==
  ASSUME HandleInv, InOrder(mem', None), UNCHANGED <<alive, stopped>>, ops' \in Nat,
         \A n \in Node : \/ mem'.VP[n] = mem.VP[n]
                         \/ n \in Handle /\ mem'.VP[n] \in alive \cup {None, Tombstone, Unborn},
         NEW frames \in Seq(Frames), Len(frames) = Len(stack), stack' = Noted(frames, mem'),
         \A d \in DOMAIN stack : frames[d].value = stack[d].value /\ frames[d].new = stack[d].new
  PROVE  HandleInv'
<1>1. /\ NothingDangles /\ alive \subseteq Value /\ stopped \in BOOLEAN /\ stack \in Seq(Frames)
  BY HandleInvIs
<1>2. stack' \in Seq(Frames) /\ Len(stack') = Len(stack) /\ Len(stack) \in Nat
  BY <1>1, Noting
<1>3. DOMAIN stack' = DOMAIN stack /\ DOMAIN stack = 1..Len(stack)
  BY <1>1, <1>2
<1>4. \A d \in DOMAIN stack : stack'[d].value = stack[d].value /\ stack'[d].new = stack[d].new
  BY <1>1, <1>3, Noting
<1>5. \A d \in 1..MaxDepth : Iterator[d] \in Node /\ Iterator[d] \notin Handle
  BY ValueHandlesAssumption DEF Node, Iterators, MaxDepth
<1>6. None \notin Value /\ Tombstone \notin Value /\ Unborn \notin Value
  BY ValueHandlesAssumption
<1>7. NothingDangles'
  <2>1. \A n \in Node : mem'.VP[n] \in Value => mem'.VP[n] \in alive'
    BY <1>1, <1>6 DEF NothingDangles
  <2>2. Len(stack') <= MaxDepth
    BY <1>1, <1>2 DEF NothingDangles
  <2>3. ~stopped' => \A d \in 1..MaxDepth :
          mem'.VP[Iterator[d]] = IF d <= Len(stack') THEN stack'[d].value ELSE Unborn
    <3> SUFFICES ASSUME ~stopped, NEW d \in 1..MaxDepth
                 PROVE  mem'.VP[Iterator[d]] = IF d <= Len(stack') THEN stack'[d].value ELSE Unborn
      OBVIOUS
    <3>1. mem'.VP[Iterator[d]] = mem.VP[Iterator[d]]
      BY <1>5
    <3>2. mem.VP[Iterator[d]] = IF d <= Len(stack) THEN stack[d].value ELSE Unborn
      BY <1>1 DEF NothingDangles
    <3>3. d <= Len(stack) => d \in DOMAIN stack
      BY <1>2, <1>3 DEF MaxDepth
    <3> QED BY <1>2, <1>4, <3>1, <3>2, <3>3
  <2>4. \A d \in DOMAIN stack' :
          /\ stack'[d].new \in alive' \cup {None}
          /\ IsDeletion(stack'[d]) =>
               \A c \in 1..(d - 1) : stack'[d].value \notin {stack'[c].value, stack'[c].new}
    <3> SUFFICES ASSUME NEW d \in DOMAIN stack
                 PROVE  /\ stack'[d].new \in alive \cup {None}
                        /\ stack'[d].new = None =>
                             \A c \in 1..(d - 1) : stack'[d].value \notin {stack'[c].value, stack'[c].new}
      BY <1>3 DEF IsDeletion
    <3>1. \A c \in 1..(d - 1) : c \in DOMAIN stack
      BY <1>2, <1>3
    <3>2. /\ stack[d].new \in alive \cup {None}
          /\ stack[d].new = None => \A c \in 1..(d - 1) : stack[d].value \notin {stack[c].value, stack[c].new}
      BY <1>1 DEF NothingDangles, IsDeletion
    <3> QED BY <1>4, <3>1, <3>2
  <2> QED BY <2>1, <2>2, <2>3, <2>4 DEF NothingDangles
<1>8. Linked(mem') /\ NoCycle(mem') /\ mem' \in Mem
  BY OrderIsLinked DEF InOrder, Lists
<1> QED BY <1>1, <1>2, <1>7, <1>8 DEF HandleInv, TypeOK, Mem, Frames

\* What a client does to one handle.
LEMMA HandleMoves ==
  ASSUME HandleInv, NEW h \in Handle, NEW x \in alive \cup {None, Tombstone, Unborn}, NEW S,
         Pointed(mem, h, x, S), Becomes(S), ops' \in Nat
  PROVE  HandleInv'
<1>1. stack \in Seq(Frames)
  BY HandleInvIs
<1>2. mem' = S /\ stack' = Noted(stack, mem') /\ UNCHANGED <<alive, stopped>>
  BY DEF Becomes
<1>3. InOrder(mem', None) /\ \A n \in Node : mem'.VP[n] = IF n = h THEN x ELSE mem.VP[n]
  BY <1>2 DEF Pointed
<1> QED BY <1>1, <1>2, <1>3, HandlesMove

\* An iteration begins.
LEMMA IterationBegins ==
  ASSUME HandleInv, NEW v \in alive, NEW new \in alive \cup {None}, v \in mem.HasValueHandle,
         new = None => v \notin Busy, ~stopped, Iterate(v, new), UNCHANGED <<alive, stopped>>, ops' \in Nat
  PROVE  HandleInv'
<1>1. /\ InOrder(mem, None) /\ NothingDangles /\ alive \subseteq Value /\ stopped \in BOOLEAN
      /\ stack \in Seq(Frames)
  BY HandleInvIs
<1> DEFINE it == Iterator[Top + 1]
           frame == [value |-> v, new |-> new, calling |-> None, late |-> {}]
<1>2. Top \in Nat /\ Top < MaxDepth /\ MaxDepth \in Nat /\ DOMAIN stack = 1..Top
  BY <1>1, ValueHandlesAssumption DEF Iterate, Top, MaxDepth
<1>3. \A d \in 1..MaxDepth : Iterator[d] \in Node /\ (Iterator[d] = it => d = Top + 1)
  BY <1>2, ValueHandlesAssumption DEF Node, Iterators, MaxDepth
<1>4. it \in Node
  BY <1>2, <1>3
<1>5. mem.ValueHandles[v] \in Node /\ mem.VP[mem.ValueHandles[v]] = v
  BY <1>1 DEF InOrder, Flags, Lists, HeadsBack, Mem
<1>6. Pointed(mem, it, v, mem')
  BY <1>1, <1>4, <1>5, AssignHandleInOrder DEF Iterate
<1>7. stack' = Append(stack, frame) /\ frame \in Frames
  BY <1>1 DEF Iterate, Frames
<1>8. /\ stack' \in Seq(Frames) /\ Len(stack') = Top + 1 /\ DOMAIN stack' = 1..(Top + 1)
      /\ stack'[Top + 1] = frame /\ \A d \in 1..Top : stack'[d] = stack[d]
  <2> HIDE DEF frame
  <2> QED BY <1>1, <1>7 DEF Top
<1> HIDE DEF it
<1>9. NothingDangles'
  <2>1. \A n \in Node : mem'.VP[n] \in Value => mem'.VP[n] \in alive'
    BY <1>1, <1>6 DEF NothingDangles, Pointed
  <2>2. Len(stack') <= MaxDepth
    BY <1>2, <1>8
  <2>3. ASSUME NEW d \in 1..MaxDepth
        PROVE  mem'.VP[Iterator[d]] = IF d <= Len(stack') THEN stack'[d].value ELSE Unborn
    <3>1. mem.VP[Iterator[d]] = IF d <= Top THEN stack[d].value ELSE Unborn
      BY <1>1 DEF NothingDangles, Top
    <3>2. mem'.VP[Iterator[d]] = IF Iterator[d] = it THEN v ELSE mem.VP[Iterator[d]]
      BY <1>3, <1>6 DEF Pointed
    <3>3. CASE d = Top + 1
      BY <1>8, <3>2, <3>3 DEF it
    <3>4. CASE d # Top + 1
      BY <1>2, <1>3, <1>8, <3>1, <3>2, <3>4
    <3> QED BY <3>3, <3>4
  <2>4. ASSUME NEW d \in DOMAIN stack'
        PROVE  /\ stack'[d].new \in alive' \cup {None}
               /\ IsDeletion(stack'[d]) =>
                    \A c \in 1..(d - 1) : stack'[d].value \notin {stack'[c].value, stack'[c].new}
    <3>1. CASE d = Top + 1
      <4>1. \A c \in 1..Top : v # None /\ (new = None => v \notin {stack[c].value, stack[c].new})
        BY <1>1, <1>2, NodesAreNotNone DEF Busy
      <4>2. \A c \in 1..(d - 1) : c \in 1..Top
        BY <1>2, <3>1
      <4> QED BY <1>8, <3>1, <4>1, <4>2 DEF IsDeletion
    <3>2. CASE d # Top + 1
      <4>1. d \in DOMAIN stack /\ \A c \in 1..(d - 1) : c \in 1..Top
        BY <1>2, <1>8, <3>2
      <4> QED BY <1>1, <1>2, <1>8, <4>1 DEF NothingDangles, IsDeletion
    <3> QED BY <3>1, <3>2
  <2> QED BY <2>1, <2>2, <2>3, <2>4 DEF NothingDangles
<1>10. Linked(mem') /\ NoCycle(mem') /\ mem' \in Mem
  BY <1>6, OrderIsLinked DEF InOrder, Lists, Pointed
<1> QED BY <1>1, <1>8, <1>9, <1>10 DEF HandleInv, TypeOK, Mem, Frames
------------------------------------------------------------------------------
LEMMA ClientsCount ==
  ASSUME HandleInv, ClientActs
  PROVE  ops' \in Nat /\ ~stopped
  BY HandleInvIs DEF ClientActs

LEMMA HandlesLead ==
  ASSUME HandleInv, NEW g \in Handle
  PROVE  g \in Node /\ mem.VP[g] \in alive \cup {None, Tombstone, Unborn}
  BY HandleInvIs DEF InOrder, Lists, Mem, NothingDangles, Node

LEMMA ClientKeeps ==
  ASSUME HandleInv, Construct \/ CopyConstruct \/ SetValue \/ SetHandle \/ DestroyHandle
  PROVE  HandleInv'
<1>1. InOrder(mem, None) /\ alive \subseteq Value /\ ClientActs
  BY HandleInvIs DEF Construct, CopyConstruct, SetValue, SetHandle, DestroyHandle
<1>2. ops' \in Nat
  BY <1>1, ClientsCount
<1>3. ASSUME NEW h \in Handle, NEW v \in alive \cup {None}, NEW grows \in BOOLEAN,
             Becomes(Assign(mem, h, v, grows))
      PROVE  HandleInv'
  <2>1. Pointed(mem, h, v, Assign(mem, h, v, grows))
    BY <1>1, AssignInOrder, HandlesLead
  <2> QED BY <1>2, <1>3, <2>1, HandleMoves
<1>4. ASSUME NEW h \in Handle, NEW g \in Handle, Becomes(AssignHandle(mem, h, g))
      PROVE  HandleInv'
  <2>1. Pointed(mem, h, mem.VP[g], AssignHandle(mem, h, g))
    BY <1>1, AssignHandleInOrder, HandlesLead
  <2>2. mem.VP[g] \in alive \cup {None, Tombstone, Unborn}
    BY HandlesLead
  <2> QED BY <1>2, <1>4, <2>1, <2>2, HandleMoves
<1>5. ASSUME NEW h \in Handle, Becomes(Destroy(mem, h))
      PROVE  HandleInv'
  <2>1. Pointed(mem, h, Unborn, Destroy(mem, h))
    BY <1>1, DestroyInOrder, HandlesLead
  <2> QED BY <1>2, <1>5, <2>1, HandleMoves
<1>6. CASE Construct
  BY <1>3, <1>6 DEF Construct
<1>7. CASE CopyConstruct
  BY <1>4, <1>7 DEF CopyConstruct
<1>8. CASE SetValue
  BY <1>3, <1>8 DEF SetValue
<1>9. CASE SetHandle
  BY <1>4, <1>9 DEF SetHandle
<1>10. CASE DestroyHandle
  BY <1>5, <1>10 DEF DestroyHandle
<1> QED BY <1>6, <1>7, <1>8, <1>9, <1>10

LEMMA CreateValueKeeps ==
  ASSUME HandleInv, CreateValue
  PROVE  HandleInv'
<1>1. /\ InOrder(mem, None) /\ NothingDangles /\ alive \subseteq Value /\ ~stopped
      /\ stack \in Seq(Frames) /\ ops' \in Nat
  BY HandleInvIs, ClientsCount DEF CreateValue
<1>2. PICK v \in Value \ alive :
         alive' = alive \cup {v} /\ mem' = [mem EXCEPT !.HasValueHandle = @ \ {v}]
  BY DEF CreateValue
<1>3. mem \in Mem
  BY <1>1 DEF InOrder, Lists
<1>4. v \notin mem.HasValueHandle
  <2> SUFFICES ASSUME v \in mem.HasValueHandle PROVE FALSE
    OBVIOUS
  <2>1. mem.ValueHandles[v] \in Node /\ mem.VP[mem.ValueHandles[v]] = v
    BY <1>1, <1>3 DEF InOrder, Flags, Lists, HeadsBack, Mem
  <2> QED BY <1>1, <1>2, <2>1 DEF NothingDangles
<1>5. mem' = mem
  <2>1. mem' = [mem EXCEPT !.HasValueHandle = mem.HasValueHandle \ {v}]
    BY <1>2, <1>3 DEF Mem
  <2>2. mem.HasValueHandle \ {v} = mem.HasValueHandle
    BY <1>4
  <2> QED BY <1>3, <2>1, <2>2 DEF Mem
<1>6. UNCHANGED <<stack, stopped>>
  BY DEF CreateValue
<1>7. NothingDangles'
  BY <1>1, <1>2, <1>5, <1>6 DEF NothingDangles, IsDeletion
<1>8. Linked(mem) /\ NoCycle(mem)
  BY <1>1, <1>3, OrderIsLinked
<1> QED BY <1>1, <1>2, <1>3, <1>5, <1>6, <1>7, <1>8 DEF HandleInv, TypeOK, Mem, Frames

LEMMA DeleteValueKeeps ==
  ASSUME HandleInv, DeleteValue
  PROVE  HandleInv'
<1>1. /\ InOrder(mem, None) /\ NothingDangles /\ alive \subseteq Value /\ ~stopped
      /\ stack \in Seq(Frames) /\ ops' \in Nat
  BY HandleInvIs, ClientsCount DEF DeleteValue
<1>2. PICK v \in alive \ Busy : IF v \in mem.HasValueHandle
                                THEN Iterate(v, None) /\ UNCHANGED alive
                                ELSE alive' = alive \ {v} /\ UNCHANGED <<mem, stack>>
  BY DEF DeleteValue
<1>3. stopped' = stopped
  BY DEF DeleteValue
<1>4. CASE v \in mem.HasValueHandle
  BY <1>1, <1>2, <1>3, <1>4, IterationBegins
<1>5. CASE v \notin mem.HasValueHandle
  <2>1. alive' = alive \ {v} /\ mem' = mem /\ stack' = stack
    BY <1>2, <1>5
  <2>2. \A n \in Node : mem.VP[n] # v
    BY <1>1, <1>5, NoListNoNodes
  <2>3. \A d \in DOMAIN stack : stack[d].new # v
    BY <1>2 DEF Busy
  <2>4. NothingDangles'
    BY <1>1, <1>3, <2>1, <2>2, <2>3 DEF NothingDangles, IsDeletion
  <2>5. Linked(mem) /\ NoCycle(mem) /\ mem \in Mem
    BY <1>1, OrderIsLinked DEF InOrder, Lists
  <2> QED BY <1>1, <1>3, <2>1, <2>4, <2>5 DEF HandleInv, TypeOK, Mem, Frames
<1> QED BY <1>4, <1>5

LEMMA ReplaceAllUsesKeeps ==
  ASSUME HandleInv, ReplaceAllUses
  PROVE  HandleInv'
<1>1. alive \subseteq Value /\ ~stopped /\ ops' \in Nat
  BY HandleInvIs, ClientsCount DEF ReplaceAllUses
<1>2. PICK old \in alive, new \in alive : old \in mem.HasValueHandle /\ Iterate(old, new)
  BY DEF ReplaceAllUses
<1>3. UNCHANGED <<alive, stopped>> /\ new # None
  BY <1>1, NodesAreNotNone DEF ReplaceAllUses
<1> QED BY <1>1, <1>2, <1>3, IterationBegins

\* Where the innermost iteration is.
LEMMA IteratorIsListed ==
  ASSUME HandleInv, ~stopped, stack # <<>>
  PROVE  /\ Top \in 1..MaxDepth /\ Top = Len(stack) /\ Frame \in Frames /\ Top \in DOMAIN stack
         /\ Current \in Node /\ mem.VP[Current] = Frame.value /\ Frame.value \in alive
         /\ Frame.new \in alive \cup {None}
<1>1. InOrder(mem, None) /\ NothingDangles /\ stack \in Seq(Frames)
  BY HandleInvIs
<1>2. Len(stack) \in Nat \ {0} /\ DOMAIN stack = 1..Len(stack) /\ MaxDepth \in Nat
  BY <1>1, EmptySeq, LenProperties, ValueHandlesAssumption DEF MaxDepth
<1>3. Top \in 1..MaxDepth /\ Top = Len(stack) /\ Top \in DOMAIN stack
  BY <1>1, <1>2 DEF Top, NothingDangles
<1>4. Frame \in Frames
  BY <1>1, <1>3 DEF Frame
<1>5. Current \in Node
  BY <1>3 DEF Current, Node, Iterators
<1>6. mem.VP[Current] = Frame.value
  BY <1>1, <1>3 DEF NothingDangles, Current, Frame
<1>7. Frame.value \in alive
  <2>1. Frame.value \in Value
    BY <1>4 DEF Frames
  <2> QED BY <1>1, <1>5, <1>6, <2>1 DEF NothingDangles
<1>8. Frame.new \in alive \cup {None}
  BY <1>1, <1>3 DEF NothingDangles, Frame
<1> QED BY <1>3, <1>4, <1>5, <1>6, <1>7, <1>8

\* The iterator goes to behind the node it was before.
LEMMA IteratorMoves ==
  ASSUME NEW S, NEW it \in Node, InOrder(S, None), S.VP[it] \in Value, S.Next[it] # None
  PROVE  LET moved == AddToExistingUseListAfter(RemoveFromUseList(S, it), it, S.Next[it])
         IN InOrder(moved, None) /\ moved.VP = S.VP
<1> DEFINE entry == S.Next[it]
           R == RemoveFromUseList(S, it)
           X == AddToExistingUseList(R, it, entry)
<1>1. InOrder(R, it) /\ R.VP = S.VP
  BY Unlinked
<1>2. entry # it
  BY RemoveFields DEF Removal
<1>3. entry \in Node /\ S.VP[entry] = S.VP[it]
  BY DEF InOrder, Lists, NextBack, Mem
<1> HIDE DEF R, entry
<1>4. PlaceFor(R, it, entry)
  BY <1>1, <1>2, <1>3 DEF PlaceFor
<1>5. Lists(X, None) /\ Addition(R, it, entry, X)
  BY <1>1, <1>4, Listed DEF InOrder
<1> HIDE DEF X
<1>6. X.VP = R.VP /\ X.HasValueHandle = R.HasValueHandle
  BY <1>5 DEF Addition
<1>7. \A w \in Value : X.ValueHandles[w] = R.ValueHandles[w]
  <2>1. \A w \in Value : entry # BucketOf(w)
    BY <1>3, Buckets
  <2> QED BY <1>5, <2>1 DEF Addition
<1>8. Flags(X)
  BY <1>1, <1>6, <1>7 DEF InOrder, Flags
<1> QED BY <1>1, <1>5, <1>6, <1>8 DEF InOrder, AddToExistingUseListAfter, X, R, entry

LEMMA VisitKeeps ==
  ASSUME HandleInv, Visit
  PROVE  HandleInv'
<1>1. /\ InOrder(mem, None) /\ alive \subseteq Value /\ ops \in Nat /\ stack \in Seq(Frames)
      /\ ~stopped /\ stack # <<>> /\ mem.Next[Current] # None
      /\ UNCHANGED <<alive, ops, stopped>>
  BY HandleInvIs DEF Visit, InLoop
<1>2. /\ Top \in DOMAIN stack /\ Frame \in Frames /\ Current \in Node
      /\ mem.VP[Current] \in Value /\ Frame.new \in alive \cup {None}
  BY <1>1, IteratorIsListed
<1> DEFINE entry == mem.Next[Current]
           moved == AddToExistingUseListAfter(RemoveFromUseList(mem, Current), Current, entry)
           called == [stack EXCEPT ![Top].calling = IF Kind(entry) = "Callback" THEN entry ELSE None]
<1>3. InOrder(moved, None) /\ moved.VP = mem.VP
  BY <1>1, <1>2, IteratorMoves
<1>4. entry \in Node
  BY <1>1, <1>2 DEF InOrder, Lists, Mem
<1> HIDE DEF moved, entry
<1>5. PICK grows \in BOOLEAN : mem' = ToldHandle(moved, entry, grows) /\ stack' = Noted(called, mem')
  BY DEF Visit, moved, entry
<1>6. ASSUME Kind(entry) \in {"Weak", "Tracking", "Callback"} PROVE entry \in Handle
  BY <1>6 DEF Kind
<1>7. \/ mem' = moved
      \/ entry \in Handle /\ \E x \in alive \cup {None, Tombstone} : Pointed(moved, entry, x, mem')
  <2>1. CASE Kind(entry) = "Weak"
    <3>1. mem' = Assign(moved, entry, Frame.new, grows)
      BY <1>5, <2>1 DEF ToldHandle
    <3>2. Pointed(moved, entry, Frame.new, mem')
      BY <1>1, <1>2, <1>3, <1>4, <3>1, AssignInOrder
    <3> QED BY <1>2, <1>6, <2>1, <3>2
  <2>2. CASE Kind(entry) = "Tracking"
    <3> DEFINE x == IF IsDeletion(Frame) THEN Tombstone ELSE Frame.new
    <3>1. mem' = Assign(moved, entry, x, grows)
      BY <1>5, <2>2 DEF ToldHandle
    <3>2. x \in alive \cup {None, Tombstone}
      BY <1>2
    <3> HIDE DEF x
    <3>3. Pointed(moved, entry, x, mem')
      BY <1>1, <1>3, <1>4, <3>1, <3>2, AssignInOrder
    <3> QED BY <1>6, <2>2, <3>2, <3>3
  <2>3. CASE Kind(entry) \notin {"Weak", "Tracking"}
    BY <1>5, <2>3 DEF ToldHandle
  <2> QED BY <2>1, <2>2, <2>3
<1>8. InOrder(mem', None)
  BY <1>3, <1>7 DEF Pointed
<1>9. \A n \in Node : \/ mem'.VP[n] = mem.VP[n]
                      \/ n \in Handle /\ mem'.VP[n] \in alive \cup {None, Tombstone, Unborn}
  BY <1>3, <1>7 DEF Pointed
<1>10. /\ called \in Seq(Frames) /\ Len(called) = Len(stack)
       /\ \A d \in DOMAIN stack : called[d].value = stack[d].value /\ called[d].new = stack[d].new
  <2> DEFINE c == IF Kind(entry) = "Callback" THEN entry ELSE None
             f == [stack[Top] EXCEPT !.calling = c]
  <2>1. c \in Handle \cup {None}
    BY <1>6
  <2>2. called = [stack EXCEPT ![Top] = f]
    OBVIOUS
  <2> HIDE DEF c
  <2>3. f \in Frames /\ f.value = stack[Top].value /\ f.new = stack[Top].new
    BY <1>2, <2>1 DEF Frames, Frame
  <2> HIDE DEF f, called
  <2>4. DOMAIN stack = 1..Len(stack)
    BY <1>1
  <2>5. /\ called \in Seq(Frames) /\ Len(called) = Len(stack)
        /\ \A d \in 1..Len(stack) : called[d] = IF d = Top THEN f ELSE stack[d]
    BY <1>1, <1>2, <2>2, <2>3, <2>4, ExceptSeq
  <2> QED BY <2>3, <2>4, <2>5
<1> HIDE DEF called
<1> QED BY <1>1, <1>5, <1>8, <1>9, <1>10, HandlesMove

LEMMA CallbackReturnsKeeps ==
  ASSUME HandleInv, CallbackReturns
  PROVE  HandleInv'
<1>1. /\ InOrder(mem, None) /\ alive \subseteq Value /\ ops \in Nat /\ stack \in Seq(Frames)
      /\ ~stopped /\ stack # <<>> /\ Frame.calling # None /\ UNCHANGED <<alive, ops, stopped>>
  BY HandleInvIs DEF CallbackReturns
<1>2. Top \in DOMAIN stack /\ Frame \in Frames
  BY <1>1, IteratorIsListed
<1> DEFINE h == Frame.calling
           back == [stack EXCEPT ![Top].calling = None]
<1>3. h \in Handle /\ h \in Node
  BY <1>1, <1>2 DEF Frames, Node
<1>4. mem' = mem \/ mem' = Assign(mem, h, None, FALSE)
  BY DEF CallbackReturns
<1>5. stack' = Noted(back, mem')
  BY DEF CallbackReturns
<1> HIDE DEF h
<1>6. mem' = mem \/ Pointed(mem, h, None, mem')
  BY <1>1, <1>3, <1>4, AssignInOrder
<1>7. InOrder(mem', None)
  BY <1>1, <1>6 DEF Pointed
<1>8. \A n \in Node : \/ mem'.VP[n] = mem.VP[n]
                      \/ n \in Handle /\ mem'.VP[n] \in alive \cup {None, Tombstone, Unborn}
  BY <1>3, <1>6 DEF Pointed
<1>9. /\ back \in Seq(Frames) /\ Len(back) = Len(stack)
      /\ \A d \in DOMAIN stack : back[d].value = stack[d].value /\ back[d].new = stack[d].new
  <2> DEFINE f == [stack[Top] EXCEPT !.calling = None]
  <2>1. back = [stack EXCEPT ![Top] = f]
    OBVIOUS
  <2>2. f \in Frames /\ f.value = stack[Top].value /\ f.new = stack[Top].new
    BY <1>2 DEF Frames, Frame
  <2> HIDE DEF f, back
  <2>3. DOMAIN stack = 1..Len(stack)
    BY <1>1
  <2>4. /\ back \in Seq(Frames) /\ Len(back) = Len(stack)
        /\ \A d \in 1..Len(stack) : back[d] = IF d = Top THEN f ELSE stack[d]
    BY <1>1, <1>2, <2>1, <2>2, <2>3, ExceptSeq
  <2> QED BY <2>2, <2>3, <2>4
<1> HIDE DEF back
<1> QED BY <1>1, <1>5, <1>7, <1>8, <1>9, HandlesMove
LEMMA LoopEndsKeeps ==
  ASSUME HandleInv, LoopEnds
  PROVE  HandleInv'
<1>1. /\ InOrder(mem, None) /\ NothingDangles /\ alive \subseteq Value /\ ops \in Nat
      /\ stack \in Seq(Frames) /\ ~stopped /\ stack # <<>>
  BY HandleInvIs DEF LoopEnds, InLoop
<1>2. /\ Top \in 1..MaxDepth /\ Top = Len(stack) /\ Top \in DOMAIN stack /\ Current \in Node
      /\ Frame \in Frames /\ Frame.value \in alive
  BY <1>1, IteratorIsListed
<1>3. Pointed(mem, Current, Unborn, mem')
  BY <1>1, <1>2, DestroyInOrder DEF LoopEnds
<1>4. InOrder(mem', None) /\ \A n \in Node : mem'.VP[n] = IF n = Current THEN Unborn ELSE mem.VP[n]
  BY <1>3 DEF Pointed
<1>5. stopped' \in BOOLEAN /\ (IsDeletion(Frame) => (stopped' <=> Frame.value \in mem'.HasValueHandle))
  <2> DEFINE left == \E n \in {m \in Node : mem'.VP[m] = Frame.value} : Kind(n) \in {"Tracking", "Weak"}
             keep == Frame.value \in mem'.HasValueHandle /\ (IsDeletion(Frame) \/ left)
  <2>1. stopped' = keep
    BY Zenon DEF LoopEnds
  <2>2. keep \in BOOLEAN
    BY Zenon
  <2>3. keep => Frame.value \in mem'.HasValueHandle
    OBVIOUS
  <2>4. IsDeletion(Frame) /\ Frame.value \in mem'.HasValueHandle => keep
    OBVIOUS
  <2> HIDE DEF keep
  <2> QED BY <2>1, <2>2, <2>3, <2>4
<1>6. stack' = IF stopped' THEN stack ELSE SubSeq(stack, 1, Top - 1)
  BY DEF LoopEnds
<1>7. alive' = IF IsDeletion(Frame) /\ ~stopped' THEN alive \ {Frame.value} ELSE alive
  BY DEF LoopEnds
<1>8. ops' \in Nat
  BY <1>1 DEF LoopEnds
<1>9. Top \in Nat /\ DOMAIN stack = 1..Top /\ MaxDepth \in Nat
  BY <1>1, <1>2, ValueHandlesAssumption DEF MaxDepth
<1>10. \A d \in 1..MaxDepth : Iterator[d] \in Node /\ (Iterator[d] = Current <=> d = Top)
  <2>1. \A c, d \in 1..MaxDepth : Iterator[c] = Iterator[d] => c = d
    <3>1. DOMAIN Iterator = 1..MaxDepth
      BY ValueHandlesAssumption DEF MaxDepth
    <3> QED BY <3>1, ValueHandlesAssumption
  <2>2. \A d \in 1..MaxDepth : Iterator[d] \in Node
    BY DEF Node, Iterators
  <2> QED BY <1>2, <2>1, <2>2 DEF Current
<1>11. /\ stack' \in Seq(Frames) /\ Len(stack') = (IF stopped' THEN Top ELSE Top - 1)
       /\ DOMAIN stack' = 1..Len(stack')
       /\ \A d \in DOMAIN stack' : d \in DOMAIN stack /\ stack'[d] = stack[d]
  <2>1. CASE stopped'
    <3>1. stack' = stack
      BY <1>6, <2>1
    <3>2. Len(stack) = Top /\ DOMAIN stack = 1..Len(stack)
      BY <1>2, <1>9
    <3> QED BY <1>1, <2>1, <3>1, <3>2
  <2>2. CASE ~stopped'
    <3>1. \A d \in 1..(Top - 1) : stack[d] \in Frames
      BY <1>1, <1>9
    <3>2. Top - 1 \in Nat /\ Top - 1 \in Int /\ 1 \in Int
      BY <1>2, <1>9
    <3>3. /\ SubSeq(stack, 1, Top - 1) \in Seq(Frames)
          /\ Len(SubSeq(stack, 1, Top - 1)) = Top - 1
          /\ \A d \in 1..(Top - 1) : SubSeq(stack, 1, Top - 1)[d] = stack[d]
      BY <1>1, <1>2, <1>9, <3>1, <3>2
    <3> QED BY <1>6, <1>9, <2>2, <3>2, <3>3
  <2> QED BY <2>1, <2>2
<1>12. NothingDangles'
  <2>1. ASSUME NEW n \in Node, mem'.VP[n] \in Value PROVE mem'.VP[n] \in alive'
    <3>1. mem'.VP[n] \in alive
      BY <1>1, <1>4, <2>1, ValueHandlesAssumption DEF NothingDangles
    <3>2. CASE IsDeletion(Frame) /\ ~stopped'
      <4>1. Frame.value \notin mem'.HasValueHandle
        BY <1>5, <3>2
      <4>2. mem'.VP[n] # Frame.value
        BY <1>1, <1>2, <1>4, <4>1, NoListNoNodes
      <4> QED BY <1>7, <3>1, <3>2, <4>2
    <3>3. CASE ~(IsDeletion(Frame) /\ ~stopped')
      BY <1>7, <3>1, <3>3
    <3> QED BY <3>2, <3>3
  <2>2. Len(stack') <= MaxDepth
    BY <1>2, <1>5, <1>9, <1>11
  <2>3. ASSUME ~stopped', NEW d \in 1..MaxDepth
        PROVE  mem'.VP[Iterator[d]] = IF d <= Len(stack') THEN stack'[d].value ELSE Unborn
    <3>1. mem.VP[Iterator[d]] = IF d <= Top THEN stack[d].value ELSE Unborn
      BY <1>1, <1>2 DEF NothingDangles
    <3>2. mem'.VP[Iterator[d]] = IF d = Top THEN Unborn ELSE mem.VP[Iterator[d]]
      BY <1>4, <1>10
    <3> QED BY <1>9, <1>11, <2>3, <3>1, <3>2
  <2>4. ASSUME NEW d \in DOMAIN stack'
        PROVE  /\ stack'[d].new \in alive' \cup {None}
               /\ IsDeletion(stack'[d]) =>
                    \A c \in 1..(d - 1) : stack'[d].value \notin {stack'[c].value, stack'[c].new}
    <3>1. d \in DOMAIN stack /\ stack'[d] = stack[d]
      BY <1>11
    <3>2. \A c \in 1..(d - 1) : c \in DOMAIN stack' /\ stack'[c] = stack[c]
      BY <1>5, <1>9, <1>11
    <3>3. /\ stack[d].new \in alive \cup {None}
          /\ IsDeletion(stack[d]) => \A c \in 1..(d - 1) : stack[d].value \notin {stack[c].value, stack[c].new}
      BY <1>1, <3>1 DEF NothingDangles
    <3>4. CASE IsDeletion(Frame) /\ ~stopped'
      <4>1. d \in 1..(Top - 1)
        BY <1>9, <1>11, <3>4
      <4>2. Frame.value # stack[d].new
        BY <1>1, <1>2, <3>4, <4>1 DEF NothingDangles, Frame
      <4> QED BY <1>7, <3>1, <3>2, <3>3, <3>4, <4>2
    <3>5. CASE ~(IsDeletion(Frame) /\ ~stopped')
      BY <1>7, <3>1, <3>2, <3>3, <3>5
    <3> QED BY <3>4, <3>5
  <2> QED BY <2>1, <2>2, <2>3, <2>4 DEF NothingDangles
<1>13. Linked(mem') /\ NoCycle(mem') /\ mem' \in Mem /\ alive' \subseteq Value
  BY <1>1, <1>4, <1>7, OrderIsLinked DEF InOrder, Lists
<1> QED BY <1>5, <1>8, <1>11, <1>12, <1>13 DEF HandleInv, TypeOK, Mem, Frames

LEMMA InitIsInOrder ==
  ASSUME Init
  PROVE  HandleInv
<1>1. Unborn \notin Value /\ \A d \in 1..MaxDepth : Iterator[d] \in Node
  BY ValueHandlesAssumption DEF MaxDepth, Node, Iterators
<1>2. /\ mem.VP = [n \in Node |-> Unborn] /\ mem.Next = [n \in Node |-> None]
      /\ mem.Prev = [n \in Node |-> None] /\ mem.ValueHandles = [v \in Value |-> None]
      /\ mem.HasValueHandle = {} /\ mem \in Mem
  BY DEF Init, Mem
<1>3. InOrder(mem, None)
  <2>1. NodesPlaced(mem, None)
    BY <1>1, <1>2 DEF NodesPlaced
  <2>2. NextBack(mem) /\ HeadsBack(mem) /\ Flags(mem)
    BY <1>2 DEF NextBack, HeadsBack, Flags
  <2>3. Founded(mem, None)
    BY <1>1, <1>2 DEF Founded
  <2> QED BY <1>2, <2>1, <2>2, <2>3 DEF InOrder, Lists
<1>4. stack = <<>> /\ stack \in Seq(Frames) /\ Len(stack) = 0 /\ DOMAIN stack = {}
  BY EmptySeq DEF Init
<1>5. NothingDangles
  <2>1. MaxDepth \in Nat
    BY ValueHandlesAssumption DEF MaxDepth
  <2>2. \A d \in 1..MaxDepth : ~(d <= 0)
    BY <2>1
  <2> QED BY <1>1, <1>2, <1>4, <2>1, <2>2 DEF NothingDangles
<1> QED BY <1>3, <1>4, <1>5, HandleInvIs DEF Init

\* The lists of handles are in order, for every number of handles of every kind, values,
\* nested iterations and moves of the table: the assertions "List invariant broken" and
\* "Added to wrong list?" of Value.cpp hold, no handle points to a value that is gone or
\* has an address in an array that was freed, and what a loop goes through is the list of
\* its value.
THEOREM ListsInOrder == Spec => []HandleInv
<1>1. Init => HandleInv
  BY InitIsInOrder
<1>2. ASSUME HandleInv, [Next]_vars PROVE HandleInv'
  <2>1. CASE ClientStep
    BY <1>2, <2>1, ClientKeeps, CreateValueKeeps, DeleteValueKeeps, ReplaceAllUsesKeeps DEF ClientStep
  <2>2. CASE LoopStep
    BY <1>2, <2>2, VisitKeeps, CallbackReturnsKeeps, LoopEndsKeeps DEF LoopStep
  <2>3. CASE UNCHANGED vars
    BY <1>2, <2>3 DEF vars, HandleInv, TypeOK, NothingDangles, IsDeletion
  <2> QED BY <1>2, <2>1, <2>2, <2>3 DEF Next
<1> QED BY <1>1, <1>2, PTL DEF Spec

------------------------------------------------------------------------------
(* Who was told                                                            *)

\* B is what it has passed: the list of v from its head up to it.
Passed(S, B, it, v) ==
  /\ B \in SUBSET Node /\ it \notin B /\ S.ValueHandles[v] \in B \cup {it}
  /\ \A m \in B : S.VP[m] = v /\ S.Next[m] \in B \cup {it}
  /\ \A m \in Node : S.Next[m] \in B => m \in B

\* A node goes.
LEMMA PassedRemoval ==
  ASSUME NEW S, NEW n \in Node, InOrder(S, None), S.VP[n] \in Value, NEW v \in Value,
         NEW it \in Node \ {n}, NEW B, Passed(S, B, it, v)
  PROVE  Passed(RemoveFromUseList(S, n), B \ {n}, it, v)
<1> DEFINE R == RemoveFromUseList(S, n)
           prev == S.Prev[n]
           next == S.Next[n]
<1>1. Removal(S, n, R)
  BY RemoveFields
<1>2. Placed(S, n) /\ S \in Mem
  BY NodesAreNotNone DEF InOrder, Lists, NodesPlaced
<1> HIDE DEF R
<1>3. n \in B => next \in B \cup {it} /\ next # n /\ S.VP[n] = v
  BY <1>1 DEF Passed, Removal
<1>4. next \in B => n \in B
  BY DEF Passed
<1>5. R.ValueHandles[v] \in (B \ {n}) \cup {it}
  <2>1. CASE v = S.VP[n] /\ prev \notin Node
    <3>1. S.ValueHandles[v] = n
      BY <1>2, <2>1 DEF Placed
    <3>2. n \in B
      BY <3>1 DEF Passed
    <3>3. R.ValueHandles[v] = next
      BY <1>1, <2>1 DEF Removal
    <3> QED BY <1>3, <3>2, <3>3
  <2>2. CASE ~(v = S.VP[n] /\ prev \notin Node)
    <3>1. R.ValueHandles[v] = S.ValueHandles[v]
      BY <1>1, <2>2 DEF Removal
    <3>2. S.ValueHandles[v] # n
      <4> SUFFICES ASSUME S.ValueHandles[v] = n PROVE FALSE
        OBVIOUS
      <4>1. S.VP[n] = v /\ S.Prev[n] = BucketOf(v)
        BY NodesAreNotNone DEF InOrder, Lists, HeadsBack
      <4> QED BY <2>2, <4>1, Buckets
    <3> QED BY <3>1, <3>2 DEF Passed
  <2> QED BY <2>1, <2>2
<1>6. ASSUME NEW m \in B \ {n} PROVE R.VP[m] = v /\ R.Next[m] \in (B \ {n}) \cup {it}
  <2>1. m \in Node /\ S.VP[m] = v /\ S.Next[m] \in B \cup {it}
    BY DEF Passed
  <2>2. CASE m = prev
    <3>1. S.Next[m] = n
      BY <1>2, <2>1, <2>2, Buckets DEF Placed
    <3>2. n \in B
      BY <2>1, <3>1
    <3> QED BY <1>1, <1>3, <2>1, <2>2, <3>2 DEF Removal
  <2>3. CASE m # prev
    <3>1. R.Next[m] = S.Next[m]
      BY <1>1, <2>1, <2>3 DEF Removal
    <3>2. S.Next[m] # n
      <4> SUFFICES ASSUME S.Next[m] = n PROVE FALSE
        OBVIOUS
      <4>1. S.Prev[n] = m
        BY <2>1, NodesAreNotNone DEF InOrder, Lists, NextBack
      <4> QED BY <2>3, <4>1
    <3> QED BY <1>1, <2>1, <3>1, <3>2 DEF Removal
  <2> QED BY <2>2, <2>3
<1>7. ASSUME NEW m \in Node, R.Next[m] \in B \ {n} PROVE m \in B \ {n}
  <2>0. None \notin B
    BY NodesAreNotNone DEF Passed
  <2>1. m # n
    BY <1>1, <1>7, <2>0 DEF Removal
  <2>2. CASE m = prev
    <3>1. S.Next[m] = n
      BY <1>2, <2>2, Buckets DEF Placed
    <3>2. next \in B
      BY <1>1, <1>7, <2>1, <2>2 DEF Removal
    <3> QED BY <1>4, <2>1, <3>1, <3>2 DEF Passed
  <2>3. CASE m # prev
    <3>1. R.Next[m] = S.Next[m]
      BY <1>1, <2>1, <2>3 DEF Removal
    <3> QED BY <1>7, <2>1, <3>1 DEF Passed
  <2> QED BY <2>2, <2>3
<1> QED BY <1>5, <1>6, <1>7 DEF Passed, R

\* A node comes: behind a node that was passed, or at the head, it was passed.
LEMMA PassedAddition ==
  ASSUME NEW S, NEW n \in Node, Lists(S, n), S.VP[n] \in Value, NEW v \in Value, NEW p, PlaceFor(S, n, p),
         NEW it \in Node \ {n}, NEW B, n \notin B, Passed(S, B, it, v), NEW R, Addition(S, n, p, R)
  PROVE  IF p \in B \/ p = BucketOf(v) THEN Passed(R, B \cup {n}, it, v) ELSE Passed(R, B, it, v)
<1>1. /\ S \in Mem /\ R.VP = S.VP
      /\ \A m \in Node : R.Next[m] = IF m = n THEN Deref(S, p) ELSE IF m = p THEN n ELSE S.Next[m]
      /\ \A w \in Value : R.ValueHandles[w] = IF p = BucketOf(w) THEN n ELSE S.ValueHandles[w]
  BY DEF Addition, Lists
<1>2. \A m \in Node : S.Next[m] # n
  <2> SUFFICES ASSUME NEW m \in Node, S.Next[m] = n PROVE FALSE
    OBVIOUS
  <2>1. S.Prev[n] = m
    BY NodesAreNotNone DEF Lists, NextBack
  <2> QED BY <2>1, NodesAreNotNone DEF Lists, NodesPlaced
<1>3. \A w \in Value : S.ValueHandles[w] # n
  <2> SUFFICES ASSUME NEW w \in Value, S.ValueHandles[w] = n PROVE FALSE
    OBVIOUS
  <2>1. S.Prev[n] = BucketOf(w)
    BY NodesAreNotNone DEF Lists, HeadsBack
  <2> QED BY <2>1, Buckets DEF Lists, NodesPlaced
<1>4. \A w \in Value : BucketOf(w) \notin Node /\ (BucketOf(v) = BucketOf(w) => v = w)
  BY Buckets
<1>5. CASE p \in Node
  <2>1. Deref(S, p) = S.Next[p] /\ S.VP[p] = S.VP[n]
    BY <1>4, <1>5 DEF Deref, PlaceFor
  <2>2. p # n
    BY <1>4, <1>5 DEF PlaceFor
  <2>3. R.ValueHandles[v] = S.ValueHandles[v]
    BY <1>1, <1>4, <1>5
  <2>4. CASE p \in B
    <3>1. Passed(R, B \cup {n}, it, v)
      BY <1>1, <1>2, <1>5, <2>1, <2>2, <2>3, <2>4 DEF Passed
    <3> QED BY <1>4, <1>5, <2>4, <3>1
  <2>5. CASE p \notin B
    <3>1. Passed(R, B, it, v)
      BY <1>1, <1>2, <1>5, <2>1, <2>2, <2>3, <2>5 DEF Passed
    <3> QED BY <1>4, <1>5, <2>5, <3>1
  <2> QED BY <2>4, <2>5
<1>6. CASE p \notin Node
  <2> DEFINE w == S.VP[n]
  <2>1. p = BucketOf(w) /\ Deref(S, p) = S.ValueHandles[w]
    BY <1>6, Buckets DEF PlaceFor, Deref
  <2>2. CASE w = v
    <3>1. R.ValueHandles[v] = n
      BY <1>1, <2>1, <2>2
    <3>2. Passed(R, B \cup {n}, it, v)
      BY <1>1, <1>2, <1>6, <2>1, <2>2, <3>1 DEF Passed
    <3> QED BY <2>1, <2>2, <3>2
  <2>3. CASE w # v
    <3>1. R.ValueHandles[v] = S.ValueHandles[v]
      BY <1>1, <1>4, <2>1, <2>3
    <3>2. S.ValueHandles[w] \notin B
      <4> SUFFICES ASSUME S.ValueHandles[w] \in B PROVE FALSE
        OBVIOUS
      <4>1. S.VP[S.ValueHandles[w]] = w
        BY NodesAreNotNone DEF Lists, HeadsBack, Passed
      <4> QED BY <2>3, <4>1 DEF Passed
    <3>3. Passed(R, B, it, v)
      BY <1>1, <1>2, <1>6, <2>1, <3>1, <3>2 DEF Passed
    <3> QED BY <1>4, <1>6, <2>1, <2>3, <3>3 DEF Passed
  <2> QED BY <2>2, <2>3
<1> QED BY <1>5, <1>6

\* The node before it, if there is one, is passed.
LEMMA BeforeIt ==
  ASSUME NEW S, NEW out, Lists(S, out), NEW v \in Value, NEW it \in Node, it # out, S.VP[it] = v,
         NEW B, out \notin B, Passed(S, B, it, v), S.Prev[it] \in Node, out \in Node /\ S.VP[out] = v => S.Next[out] = None
  PROVE  S.Prev[it] \in B
<1> DEFINE prev == S.Prev[it]
           Z == {m \in Node : S.VP[m] = v /\ m \notin B /\ m # out}
<1> SUFFICES ASSUME prev \notin B PROVE FALSE
  OBVIOUS
<1>1. Placed(S, it)
  BY DEF Lists, NodesPlaced
<1>2. S.Next[prev] = it /\ S.VP[prev] = v
  BY <1>1, Buckets DEF Placed
<1>3. prev \in Z /\ it \in Z
  BY <1>2, NodesAreNotNone DEF Passed
<1>4. Z \in SUBSET Node /\ Z # {} /\ \A m \in Z : S.VP[m] \in Value /\ m # out
  BY <1>3
<1>5. PICK m \in Z : S.Prev[m] \notin Z
  BY <1>4 DEF Lists, Founded
<1>6. Placed(S, m)
  BY <1>4 DEF Lists, NodesPlaced
<1>7. CASE S.Prev[m] \in Node
  <2>1. S.VP[S.Prev[m]] = v /\ S.Next[S.Prev[m]] = m
    BY <1>6, <1>7, Buckets DEF Placed
  <2>2. S.Prev[m] # out
    <3>1. m # None
      BY NodesAreNotNone
    <3> QED BY <1>7, <2>1, <3>1
  <2>3. S.Prev[m] \in B
    BY <1>5, <1>7, <2>1, <2>2
  <2>4. m = it
    BY <2>1, <2>3 DEF Passed
  <2> QED BY <1>3, <1>5, <2>4
<1>8. CASE S.Prev[m] \notin Node
  <2>1. S.ValueHandles[v] = m
    BY <1>6, <1>8 DEF Placed
  <2>2. m = it
    BY <2>1 DEF Passed
  <2> QED BY <1>8, <2>2
<1> QED BY <1>7, <1>8

\* R is S but for what n points to. Of what is passed, n alone may come or go: with g it
\* is passed, or waits to be; without g it is passed.
Moved(S, n, g, R) ==
  \A v \in Value, it \in Node \ {n}, B \in SUBSET Node : Passed(S, B, it, v) =>
    \E C \in SUBSET Node :
      /\ Passed(R, C, it, v) /\ C \ {n} = B \ {n}
      /\ n \in C <=> /\ R.VP[n] = v
                     /\ IF S.VP[n] = v THEN n \in B ELSE g = None \/ g \in B \cup {it}

LEMMA DroppedKeeps ==
  ASSUME NEW S, NEW n \in Node, InOrder(S, None), NEW v \in Value,
         NEW it \in Node \ {n}, NEW B, Passed(S, B, it, v)
  PROVE  Passed(Dropped(S, n), B \ {n}, it, v)
<1>1. S.VP[n] \in Value \cup {None, Tombstone, Unborn}
  BY DEF InOrder, Lists, Mem
<1>2. CASE S.VP[n] \in Value
  BY <1>1, <1>2, Values, PassedRemoval DEF Dropped
<1>3. CASE S.VP[n] \notin Value
  <2>1. Dropped(S, n) = S
    BY <1>1, <1>3, Values DEF Dropped
  <2>2. B \ {n} = B
    BY <1>3 DEF Passed
  <2> QED BY <2>1, <2>2
<1> QED BY <1>2, <1>3

\* n is taken out, and put in again with the value x, if that is one.
LEMMA MovedKeeps ==
  ASSUME NEW S, NEW n \in Node, InOrder(S, None), NEW x \in Value \cup {None, Tombstone, Unborn},
         NEW g, g \in Node \ {n} \/ g = None,
         S.VP[n] # x, NEW set, set = [Dropped(S, n) EXCEPT !.VP[n] = x], NEW R,
         \/ x \notin Value /\ R = set
         \/ x \in Value /\ \E p, X : /\ Addition(set, n, p, X)
                                     /\ IF g = None THEN p = BucketOf(x) ELSE set.VP[g] = x /\ p = set.Prev[g]
                                     /\ R.VP = X.VP /\ R.Next = X.Next /\ R.ValueHandles = X.ValueHandles
  PROVE  Moved(S, n, g, R)
<1> SUFFICES ASSUME NEW v \in Value, NEW it \in Node \ {n}, NEW B \in SUBSET Node, Passed(S, B, it, v)
             PROVE  \E C \in SUBSET Node :
                      /\ Passed(R, C, it, v) /\ C \ {n} = B \ {n}
                      /\ n \in C <=> /\ R.VP[n] = v
                                     /\ IF S.VP[n] = v THEN n \in B ELSE g = None \/ g \in B \cup {it}
  BY DEF Moved
<1> DEFINE D == Dropped(S, n)
           C == B \ {n}
<1>1. InOrder(D, n) /\ D.VP = S.VP
  BY DroppedInOrder
<1>2. Passed(D, C, it, v)
  BY DroppedKeeps
<1>3. /\ InOrder(set, n) /\ \A m \in Node : set.VP[m] = IF m = n THEN x ELSE D.VP[m]
  BY <1>1, RevaluedInOrder DEF Revalued
<1>4. D \in Mem
  BY <1>1 DEF InOrder, Lists
<1>5. set.Next = D.Next /\ set.ValueHandles = D.ValueHandles
  BY <1>4 DEF Mem
<1> HIDE DEF D
<1>6. n \notin C /\ C \subseteq B /\ C \in SUBSET Node /\ C \ {n} = B \ {n} /\ \A m \in B : m # n => m \in C
  OBVIOUS
<1> HIDE DEF C
<1>9. Passed(set, C, it, v)
  <2>1. \A m \in Node : m # n => set.VP[m] = D.VP[m]
    BY <1>3
  <2> QED BY <1>2, <1>5, <1>6, <2>1 DEF Passed
<1>7. CASE x \notin Value
  <2>1. R.VP[n] # v
    BY <1>3, <1>7
  <2> QED BY <1>6, <1>7, <1>9, <2>1
<1>8. CASE x \in Value
  <2>1. PICK p, X : /\ Addition(set, n, p, X)
                    /\ IF g = None THEN p = BucketOf(x) ELSE set.VP[g] = x /\ p = set.Prev[g]
                    /\ R.VP = X.VP /\ R.Next = X.Next /\ R.ValueHandles = X.ValueHandles
    BY <1>8
  <2>2. Lists(set, n) /\ set.VP[n] = x /\ set.Next[n] = None /\ set.Prev[n] = None
    BY <1>3 DEF InOrder, Lists, NodesPlaced
  <2>3. g # None => g \in Node \ {n} /\ Placed(set, g)
    BY <1>8, <2>1, <2>2 DEF Lists, NodesPlaced
  <2>4. PlaceFor(set, n, p)
    <3>1. CASE g = None
      BY <2>1, <2>2, <3>1 DEF PlaceFor
    <3>2. CASE g # None
      BY <2>1, <2>2, <2>3, <3>2, NodesAreNotNone DEF PlaceFor, Placed
    <3> QED BY <3>1, <3>2
  <2>5. IF p \in C \/ p = BucketOf(v) THEN Passed(X, C \cup {n}, it, v) ELSE Passed(X, C, it, v)
    <3>1. set.VP[n] \in Value
      BY <1>8, <2>2
    <3>2. /\ n \in Node /\ v \in Value /\ it \in Node \ {n} /\ n \notin C
          /\ PlaceFor(set, n, p) /\ Addition(set, n, p, X) /\ Lists(set, n)
      BY <1>6, <2>1, <2>2, <2>4
    <3> QED BY ONLY <1>9, <3>1, <3>2, PassedAddition
  <2>6. \A Q : Passed(X, Q, it, v) => Passed(R, Q, it, v)
    BY <2>1 DEF Passed
  <2>7. R.VP[n] = x
    BY <2>1, <2>2 DEF Addition
  <2>8. p = BucketOf(v) => v = x
    BY <1>8, <2>2, <2>4, Buckets DEF PlaceFor
  <2>9. p \in C => v = x
    BY <1>8, <1>9, <2>2, <2>4, Buckets DEF PlaceFor, Passed
  <2>10. v = x => ((p \in C \/ p = BucketOf(v)) <=> (g = None \/ g \in B \cup {it}))
    <3> SUFFICES ASSUME v = x PROVE (p \in C \/ p = BucketOf(v)) <=> (g = None \/ g \in B \cup {it})
      OBVIOUS
    <3>1. CASE g = None
      BY <2>1, <3>1
    <3>2. CASE g # None
      <4>1. p = set.Prev[g] /\ set.VP[g] = x /\ g \in Node \ {n} /\ Placed(set, g)
        BY <2>1, <2>3, <3>2
      <4>2. ASSUME p = BucketOf(v) PROVE g \in B \cup {it}
        <5>1. set.ValueHandles[v] = g
          BY <4>1, <4>2, Buckets DEF Placed
        <5> QED BY <1>6, <1>9, <5>1 DEF Passed
      <4>3. ASSUME p \in C PROVE g \in B \cup {it}
        <5>1. p \in Node /\ set.Next[p] = g
          BY <1>6, <4>1, <4>3, Buckets DEF Placed
        <5> QED BY <1>6, <1>9, <4>3, <5>1 DEF Passed
      <4>4. ASSUME g \in B \cup {it}, p # BucketOf(v) PROVE p \in C
        <5>1. p \in Node /\ set.Next[p] = g
          BY <4>1, <4>4 DEF Placed
        <5>2. CASE g \in C
          BY <1>9, <5>1, <5>2 DEF Passed
        <5>3. CASE g = it
          <6>1. v \in Value /\ it \in Node /\ it # n /\ set.VP[it] = v /\ n \notin C /\ set.Prev[it] \in Node
            BY <1>6, <4>1, <5>1, <5>3
          <6>2. set.VP[n] = v => set.Next[n] = None
            BY <2>2, NodesAreNotNone DEF Lists, NodesPlaced
          <6>3. Lists(set, n) /\ Passed(set, C, it, v)
            BY <1>9, <2>2
          <6>4. set.Prev[it] \in C
            BY ONLY <6>1, <6>2, <6>3, BeforeIt
          <6> QED BY <4>1, <5>3, <6>4
        <5> QED BY <1>6, <4>1, <4>4, <5>2, <5>3
      <4> QED BY <3>2, <4>2, <4>3, <4>4
    <3> QED BY <3>1, <3>2
  <2>11. CASE p \in C \/ p = BucketOf(v)
    <3>1. Passed(R, C \cup {n}, it, v) /\ C \cup {n} \in SUBSET Node /\ (C \cup {n}) \ {n} = B \ {n}
      BY <1>6, <2>5, <2>6, <2>11
    <3>2. v = x /\ (g = None \/ g \in B \cup {it}) /\ S.VP[n] # v
      BY <2>8, <2>9, <2>10, <2>11
    <3>3. n \in C \cup {n}
      OBVIOUS
    <3> QED BY <2>7, <3>1, <3>2, <3>3
  <2>12. CASE ~(p \in C \/ p = BucketOf(v))
    <3>1. Passed(R, C, it, v)
      BY <2>5, <2>6, <2>12
    <3>2. R.VP[n] = v => ~(g = None \/ g \in B \cup {it}) /\ S.VP[n] # v
      BY <2>7, <2>10, <2>12
    <3> QED BY <1>6, <3>1, <3>2
  <2> QED BY <2>11, <2>12
<1> QED BY <1>7, <1>8

LEMMA MovedSame ==
  ASSUME NEW S, NEW n, NEW g
  PROVE  Moved(S, n, g, S)
<1> SUFFICES ASSUME NEW v \in Value, NEW it \in Node \ {n}, NEW B \in SUBSET Node, Passed(S, B, it, v)
             PROVE  \E C \in SUBSET Node :
                      /\ Passed(S, C, it, v) /\ C \ {n} = B \ {n}
                      /\ n \in C <=> /\ S.VP[n] = v
                                     /\ IF S.VP[n] = v THEN n \in B ELSE g = None \/ g \in B \cup {it}
  BY DEF Moved
<1>1. n \in B => S.VP[n] = v
  BY DEF Passed
<1> QED BY <1>1

LEMMA AssignMoves ==
  ASSUME NEW S, NEW n \in Node, InOrder(S, None), NEW x \in Value \cup {None, Tombstone},
         NEW grows \in BOOLEAN
  PROVE  Moved(S, n, None, Assign(S, n, x, grows))
<1> DEFINE D == Dropped(S, n)
           set == [D EXCEPT !.VP[n] = x]
           R == Assign(S, n, x, grows)
<1>1. InOrder(D, n) /\ D.VP = S.VP
  BY DroppedInOrder
<1>2. InOrder(set, n) /\ set.VP[n] = x
  BY <1>1, RevaluedInOrder DEF Revalued
<1>3. R = IF S.VP[n] = x THEN S ELSE IF isValid(x) THEN AddToUseList(set, n, grows) ELSE set
  BY DEF Assign
<1>4. isValid(x) <=> x \in Value
  BY Values
<1>5. set = [Dropped(S, n) EXCEPT !.VP[n] = x]
  OBVIOUS
<1> HIDE DEF set, D, R
<1>6. CASE S.VP[n] = x
  BY <1>3, <1>6, MovedSame DEF R
<1>7. CASE S.VP[n] # x /\ x \in Value
  <2> DEFINE p == BucketOf(x)
             X == AddToExistingUseList(set, n, p)
  <2>1. PlaceFor(set, n, p) /\ Lists(set, n)
    BY <1>2 DEF PlaceFor, InOrder
  <2>2. Addition(set, n, p, X)
    BY <1>2, <1>7, <2>1, Listed
  <2>3. R.VP = X.VP /\ R.Next = X.Next /\ R.ValueHandles = X.ValueHandles
    <3>1. CASE x \in set.HasValueHandle
      BY <1>2, <1>3, <1>4, <1>7, <3>1 DEF AddToUseList
    <3>2. CASE x \notin set.HasValueHandle
      <4>1. R = Inserted(set, n, FALSE)
        BY <1>2, <1>3, <1>4, <1>7, <3>2, MoveOfTable
      <4>2. Inserted(set, n, FALSE) = [X EXCEPT !.HasValueHandle = @ \cup {x}]
        BY <1>2 DEF Inserted
      <4>3. X \in Mem
        BY <2>2 DEF Addition
      <4> HIDE DEF X
      <4> QED BY <4>1, <4>2, <4>3 DEF Mem
    <3> QED BY <3>1, <3>2
  <2>4. \E q, Y : /\ Addition(set, n, q, Y) /\ q = BucketOf(x)
                  /\ R.VP = Y.VP /\ R.Next = Y.Next /\ R.ValueHandles = Y.ValueHandles
    <3> HIDE DEF X
    <3> QED BY <2>2, <2>3
  <2>5. x \in Value \cup {None, Tombstone, Unborn}
    OBVIOUS
  <2> QED BY <1>5, <1>7, <2>4, <2>5, MovedKeeps DEF R
<1>8. CASE S.VP[n] # x /\ x \notin Value
  <2>1. R = set
    BY <1>3, <1>4, <1>8
  <2> QED BY <1>5, <1>8, <2>1, MovedKeeps DEF R
<1> QED BY <1>6, <1>7, <1>8 DEF R

LEMMA AssignHandleMoves ==
  ASSUME NEW S, NEW n \in Node, NEW g \in Node, InOrder(S, None)
  PROVE  Moved(S, n, g, AssignHandle(S, n, g))
<1> DEFINE D == Dropped(S, n)
           x == S.VP[g]
           set == [D EXCEPT !.VP[n] = x]
           R == AssignHandle(S, n, g)
<1>0. x \in Value \cup {None, Tombstone, Unborn}
  BY DEF InOrder, Lists, Mem
<1>1. InOrder(D, n) /\ D.VP = S.VP
  BY DroppedInOrder
<1>2. InOrder(set, n) /\ \A m \in Node : set.VP[m] = IF m = n THEN x ELSE D.VP[m]
  BY <1>0, <1>1, RevaluedInOrder DEF Revalued
<1>3. R = IF S.VP[n] = x THEN S ELSE IF isValid(x) THEN AddToExistingUseList(set, n, set.Prev[g]) ELSE set
  BY DEF AssignHandle
<1>4. isValid(x) <=> x \in Value
  BY <1>0, Values
<1>5. set = [Dropped(S, n) EXCEPT !.VP[n] = x]
  OBVIOUS
<1> HIDE DEF set, D, R
<1>6. CASE S.VP[n] = x
  BY <1>3, <1>6, MovedSame DEF R
<1>7. CASE S.VP[n] # x /\ x \in Value
  <2> DEFINE p == set.Prev[g]
             X == AddToExistingUseList(set, n, p)
  <2>1. set.VP[g] = x /\ set.VP[n] = x /\ g # n
    BY <1>1, <1>2, <1>7
  <2>2. Lists(set, n)
    BY <1>2 DEF InOrder
  <2>3. Placed(set, g)
    BY <1>7, <2>1, <2>2 DEF Lists, NodesPlaced
  <2>4. set.Next[n] = None
    BY <2>2 DEF Lists, NodesPlaced
  <2>5. PlaceFor(set, n, p)
    BY <2>1, <2>3, <2>4, NodesAreNotNone DEF Placed, PlaceFor
  <2>6. Addition(set, n, p, X) /\ R = X
    BY <1>3, <1>4, <1>7, <2>1, <2>2, <2>5, Listed
  <2> HIDE DEF X
  <2>7. \E q, Y : /\ Addition(set, n, q, Y) /\ set.VP[g] = x /\ q = set.Prev[g]
                  /\ R.VP = Y.VP /\ R.Next = Y.Next /\ R.ValueHandles = Y.ValueHandles
    BY <2>1, <2>6
  <2>8. g \in Node \ {n} /\ g # None
    BY <2>1, NodesAreNotNone
  <2>9. \E q, Y : /\ Addition(set, n, q, Y)
                  /\ IF g = None THEN q = BucketOf(x) ELSE set.VP[g] = x /\ q = set.Prev[g]
                  /\ R.VP = Y.VP /\ R.Next = Y.Next /\ R.ValueHandles = Y.ValueHandles
    BY <2>7, <2>8
  <2> QED BY <1>0, <1>5, <1>7, <2>8, <2>9, MovedKeeps DEF R
<1>8. CASE S.VP[n] # x /\ x \notin Value
  <2>1. R = set /\ g \in Node \ {n}
    BY <1>3, <1>4, <1>8
  <2> QED BY <1>0, <1>5, <1>8, <2>1, MovedKeeps DEF R
<1> QED BY <1>6, <1>7, <1>8 DEF R

LEMMA DestroyMoves ==
  ASSUME NEW S, NEW n \in Node, InOrder(S, None), S.VP[n] # Unborn
  PROVE  Moved(S, n, None, Destroy(S, n))
<1>1. Unborn \notin Value
  BY ValueHandlesAssumption
<1> QED BY <1>1, MovedKeeps DEF Destroy

\* What is passed stays so, but for n, which may be new in it.
Kept(S, n, R) ==
  \A v \in Value, it \in Node \ {n}, B \in SUBSET Node : Passed(S, B, it, v) =>
    \E C \in SUBSET Node :
      Passed(R, C, it, v) /\ (C \subseteq B \/ (S.VP[n] # v /\ C \subseteq B \cup {n}))

LEMMA MovedKept ==
  ASSUME NEW S, NEW n, NEW g, NEW R, Moved(S, n, g, R)
  PROVE  Kept(S, n, R)
<1> SUFFICES ASSUME NEW v \in Value, NEW it \in Node \ {n}, NEW B \in SUBSET Node, Passed(S, B, it, v)
             PROVE  \E C \in SUBSET Node :
                      Passed(R, C, it, v) /\ (C \subseteq B \/ (S.VP[n] # v /\ C \subseteq B \cup {n}))
  BY DEF Kept
<1>1. PICK C \in SUBSET Node :
        /\ Passed(R, C, it, v) /\ C \ {n} = B \ {n}
        /\ n \in C <=> /\ R.VP[n] = v
                       /\ IF S.VP[n] = v THEN n \in B ELSE g = None \/ g \in B \cup {it}
  BY DEF Moved
<1>2. C \subseteq B \/ (S.VP[n] # v /\ C \subseteq B \cup {n})
  BY <1>1
<1> QED BY <1>1, <1>2

LEMMA AssignKept ==
  ASSUME NEW S, NEW n \in Node, InOrder(S, None), NEW x \in Value \cup {None, Tombstone},
         NEW grows \in BOOLEAN
  PROVE  Kept(S, n, Assign(S, n, x, grows))
  BY AssignMoves, MovedKept

LEMMA AssignHandleKept ==
  ASSUME NEW S, NEW n \in Node, NEW g \in Node, InOrder(S, None)
  PROVE  Kept(S, n, AssignHandle(S, n, g))
  BY AssignHandleMoves, MovedKept

LEMMA DestroyKept ==
  ASSUME NEW S, NEW n \in Node, InOrder(S, None), S.VP[n] # Unborn
  PROVE  Kept(S, n, Destroy(S, n))
  BY DestroyMoves, MovedKept

\* The iterator goes on: what it was before is passed.
LEMMA IteratorPasses ==
  ASSUME NEW S, NEW it \in Node, InOrder(S, None), S.VP[it] \in Value, S.Next[it] # None,
         NEW B, Passed(S, B, it, S.VP[it])
  PROVE  LET moved == AddToExistingUseListAfter(RemoveFromUseList(S, it), it, S.Next[it])
         IN /\ Passed(moved, B \cup {S.Next[it]}, it, S.VP[it])
            /\ \A w \in Value, other \in Node \ {it}, C \in SUBSET Node : Passed(S, C, other, w) =>
                 \E C2 \in SUBSET Node : Passed(moved, C2, other, w) /\ C2 \ {it} = C \ {it}
<1> DEFINE entry == S.Next[it]
           v == S.VP[it]
           prev == S.Prev[it]
           R == RemoveFromUseList(S, it)
           X == AddToExistingUseList(R, it, entry)
<1>1. InOrder(R, it) /\ R.VP = S.VP /\ Removal(S, it, R)
  BY Unlinked, RemoveFields
<1>2. entry # it /\ entry \notin B
  BY <1>1 DEF Removal, Passed
<1>3. entry \in Node /\ S.VP[entry] = v
  BY DEF InOrder, Lists, NextBack, Mem
<1>4. Placed(S, it) /\ S \in Mem
  BY NodesAreNotNone DEF InOrder, Lists, NodesPlaced
<1> HIDE DEF R, entry
<1>5. PlaceFor(R, it, entry)
  BY <1>1, <1>2, <1>3 DEF PlaceFor
<1>6. Addition(R, it, entry, X)
  BY <1>1, <1>5, Listed DEF InOrder
<1> HIDE DEF X
<1>7. /\ X.VP = S.VP /\ X.ValueHandles = R.ValueHandles
      /\ \A m \in Node : X.Next[m] = IF m = it THEN R.Next[entry] ELSE IF m = entry THEN it ELSE R.Next[m]
  <2>1. /\ X.VP = S.VP /\ \A w \in Value : X.ValueHandles[w] = IF entry = BucketOf(w) THEN it ELSE R.ValueHandles[w]
    BY <1>1, <1>6 DEF Addition
  <2>2. \A w \in Value : entry # BucketOf(w)
    BY <1>3, Buckets
  <2>3. X.ValueHandles = R.ValueHandles
    BY <1>1, <1>6, <2>1, <2>2 DEF Addition, Removal, Mem
  <2>4. Deref(R, entry) = R.Next[entry]
    BY <1>3 DEF Deref
  <2> QED BY <1>6, <2>1, <2>3, <2>4 DEF Addition
<1>8. /\ \A m \in Node : R.Next[m] = IF m = it THEN None ELSE IF m = prev THEN entry ELSE S.Next[m]
      /\ \A w \in Value : R.ValueHandles[w] = IF w = v /\ prev \notin Node THEN entry ELSE S.ValueHandles[w]
  BY <1>1 DEF Removal, entry
<1>9. prev \in Node => S.Next[prev] = it /\ prev # it /\ prev # entry
  <2>1. SUFFICES ASSUME prev \in Node PROVE S.Next[prev] = it /\ prev # it /\ prev # entry
    OBVIOUS
  <2>2. S.Next[prev] = it /\ prev # it
    BY <1>1, <1>4, <2>1, Buckets DEF Placed, Removal
  <2>3. prev # entry
    <3> SUFFICES ASSUME prev = entry PROVE FALSE
      OBVIOUS
    <3> DEFINE C == {it, entry}
    <3>1. C \in SUBSET Node /\ C # {} /\ \A m \in C : S.VP[m] \in Value /\ m # None
      BY <1>3, NodesAreNotNone
    <3>2. PICK m \in C : S.Prev[m] \notin C
      BY <3>1 DEF InOrder, Lists, Founded
    <3>3. S.Prev[entry] = it
      BY NodesAreNotNone DEF InOrder, Lists, NextBack, entry
    <3> QED BY <3>2, <3>3
  <2> QED BY <2>2, <2>3
<1>10. \A m \in Node : S.Next[m] = entry => m = it
  <2> SUFFICES ASSUME NEW m \in Node, S.Next[m] = entry PROVE m = it
    OBVIOUS
  <2>1. S.Prev[entry] = m /\ S.Prev[entry] = it
    BY <1>3, NodesAreNotNone DEF InOrder, Lists, NextBack, entry
  <2> QED BY <2>1
<1>11. \A m \in Node : S.Next[m] = it => m = prev
  BY NodesAreNotNone DEF InOrder, Lists, NextBack
<1>12. S.ValueHandles[v] = it <=> prev \notin Node
  <2>1. S.ValueHandles[v] = it => prev \notin Node
    <3> SUFFICES ASSUME S.ValueHandles[v] = it PROVE prev \notin Node
      OBVIOUS
    <3>1. prev = BucketOf(v)
      BY NodesAreNotNone DEF InOrder, Lists, HeadsBack
    <3> QED BY <3>1, Buckets
  <2> QED BY <1>4, <2>1 DEF Placed
<1>13. ASSUME NEW C, Passed(S, C, it, v)
       PROVE  Passed(X, C \cup {entry}, it, v)
  <2>1. entry \notin C
    BY <1>13 DEF Passed, entry
  <2>2. X.ValueHandles[v] \in C \cup {entry} \cup {it}
    BY <1>7, <1>8, <1>13 DEF Passed
  <2>3. ASSUME NEW m \in C PROVE X.VP[m] = v /\ X.Next[m] \in C \cup {entry} \cup {it}
    BY <1>7, <1>8, <1>13, <2>1 DEF Passed
  <2>4. X.VP[entry] = v /\ X.Next[entry] = it
    BY <1>2, <1>3, <1>7
  <2>5. ASSUME NEW m \in Node, X.Next[m] \in C \cup {entry} PROVE m \in C \cup {entry}
    <3>1. CASE m = it
      <4>1. X.Next[m] = R.Next[entry] /\ R.Next[entry] = S.Next[entry]
        BY <1>2, <1>3, <1>7, <1>8, <1>9, <3>1
      <4>2. S.Next[entry] # entry
        BY <1>2, <1>3, <1>10
      <4>3. S.Next[entry] \in C
        BY <2>5, <4>1, <4>2
      <4> QED BY <1>3, <1>13, <2>1, <4>3 DEF Passed
    <3>2. CASE m # it /\ m # entry
      <4>1. X.Next[m] = R.Next[m]
        BY <1>7, <3>2
      <4>2. CASE m = prev
        <5> SUFFICES ASSUME m \notin C PROVE FALSE
          OBVIOUS
        <5> DEFINE Z == {n \in Node : S.VP[n] = v /\ n \notin C}
        <5>1. S.Next[m] = it /\ S.VP[m] = v /\ m # it
          BY <1>9, <4>2, NodesAreNotNone DEF InOrder, Lists, NextBack
        <5>2. Z \in SUBSET Node /\ m \in Z /\ \A n \in Z : S.VP[n] \in Value /\ n # None
          BY <5>1, NodesAreNotNone
        <5>3. PICK n \in Z : S.Prev[n] \notin Z
          BY <5>2 DEF InOrder, Lists, Founded
        <5>4. Placed(S, n)
          BY <5>2 DEF InOrder, Lists, NodesPlaced
        <5>5. CASE S.Prev[n] \in Node
          <6>1. S.VP[S.Prev[n]] = v /\ S.Next[S.Prev[n]] = n
            BY <5>4, <5>5, Buckets DEF Placed
          <6>2. S.Prev[n] \in C
            BY <5>3, <5>5, <6>1
          <6>3. n = it
            BY <1>13, <6>1, <6>2 DEF Passed
          <6> QED BY <4>2, <5>3, <5>2, <6>3
        <5>6. CASE S.Prev[n] \notin Node
          <6>1. S.ValueHandles[v] = n
            BY <5>4, <5>6 DEF Placed
          <6>2. n = it
            BY <1>13, <6>1 DEF Passed
          <6> QED BY <1>12, <4>2, <6>1, <6>2
        <5> QED BY <5>5, <5>6
      <4>3. CASE m # prev
        <5>1. X.Next[m] = S.Next[m]
          BY <1>8, <3>2, <4>1, <4>3
        <5>2. S.Next[m] # entry
          BY <1>10, <3>2
        <5> QED BY <1>13, <2>5, <5>1, <5>2 DEF Passed
      <4> QED BY <4>2, <4>3
    <3> QED BY <3>1, <3>2
  <2> QED BY <1>2, <1>3, <1>13, <2>2, <2>3, <2>4, <2>5 DEF Passed
<1>14. ASSUME NEW w \in Value, NEW other \in Node \ {it}, NEW C \in SUBSET Node, Passed(S, C, other, w)
       PROVE  \E C2 \in SUBSET Node : Passed(X, C2, other, w) /\ C2 \ {it} = C \ {it}
  <2> DEFINE C1 == C \ {it}
  <2>1. Passed(R, C1, other, w)
    BY <1>14, PassedRemoval DEF R
  <2>2. it \notin C1 /\ Lists(R, it) /\ R.VP[it] \in Value
    BY <1>1 DEF InOrder
  <2> HIDE DEF C1
  <2>3. Passed(X, C1 \cup {it}, other, w) \/ Passed(X, C1, other, w)
    BY <1>5, <1>6, <2>1, <2>2, PassedAddition
  <2>4. /\ C1 \in SUBSET Node /\ C1 \cup {it} \in SUBSET Node
        /\ C1 \ {it} = C \ {it} /\ (C1 \cup {it}) \ {it} = C \ {it}
    BY DEF C1
  <2> QED BY <2>3, <2>4
<1>15. X = AddToExistingUseListAfter(RemoveFromUseList(S, it), it, S.Next[it])
  BY DEF X, R, entry, AddToExistingUseListAfter
<1> QED BY <1>13, <1>14, <1>15 DEF entry

\* Why a handle that was passed may point to the value still: it came since, its
\* callback runs, or it is one that is not moved.
Excused(f, h) ==
  \/ h \in f.late \/ h = f.calling \/ KindOf[h] = "Assert"
  \/ f.new # None /\ KindOf[h] = "Callback"

FramesOK ==
  \A d \in DOMAIN stack :
    /\ stack[d].new # stack[d].value
    /\ stack[d].calling # None => KindOf[stack[d].calling] = "Callback"

\* Everyone whom an iteration has passed was told.
ToldBefore ==
  \A d \in DOMAIN stack : \E B \in SUBSET Node :
    /\ Passed(mem, B, Iterator[d], stack[d].value)
    /\ \A h \in B \cap Handle : Excused(stack[d], h)

ToldInv == HandleInv /\ FramesOK /\ (~stopped => ToldBefore) /\ StoppedForAReason

LEMMA NotingIs ==
  ASSUME NEW frames \in Seq(Frames), NEW S, NEW d \in DOMAIN frames
  PROVE  /\ Noted(frames, S)[d].value = frames[d].value
         /\ Noted(frames, S)[d].new = frames[d].new
         /\ Noted(frames, S)[d].calling = frames[d].calling
         /\ Noted(frames, S)[d].late =
              {h \in Handle : /\ S.VP[h] = frames[d].value
                              /\ h \in frames[d].late \/ mem.VP[h] # frames[d].value}
<1> DEFINE late == {h \in Handle : /\ S.VP[h] = frames[d].value
                                   /\ h \in frames[d].late \/ mem.VP[h] # frames[d].value}
<1>1. Noted(frames, S)[d] = [frames[d] EXCEPT !.late = late]
  <2>1. frames[d] \in Frames
    OBVIOUS
  <2> QED BY <2>1 DEF Noted, Frames
<1>2. frames[d] \in Frames
  OBVIOUS
<1> HIDE DEF late
<1>3. /\ [frames[d] EXCEPT !.late = late].value = frames[d].value
      /\ [frames[d] EXCEPT !.late = late].new = frames[d].new
      /\ [frames[d] EXCEPT !.late = late].calling = frames[d].calling
      /\ [frames[d] EXCEPT !.late = late].late = late
  BY <1>2 DEF Frames
<1> QED BY <1>1, <1>3 DEF late

\* Handles move, the iterations stay where they are.
LEMMA ToldMoves ==
  ASSUME ToldInv, ~stopped, stopped' = stopped, HandleInv',
         NEW frames, frames \in Seq(Frames), Len(frames) = Len(stack), stack' = Noted(frames, mem'),
         \A d \in DOMAIN stack :
           /\ frames[d].value = stack[d].value /\ frames[d].new = stack[d].new
           /\ frames[d].calling # None => KindOf[frames[d].calling] = "Callback",
         \A d \in DOMAIN stack : \E C \in SUBSET Node :
           /\ Passed(mem', C, Iterator[d], stack[d].value)
           /\ \A h \in C \cap Handle : mem.VP[h] # stack[d].value \/ Excused(frames[d], h)
  PROVE  ToldInv'
<1>1. stack \in Seq(Frames) /\ DOMAIN stack = DOMAIN frames
  BY HandleInvIs DEF ToldInv
<1>2. \A d \in DOMAIN frames :
        /\ stack'[d].value = frames[d].value /\ stack'[d].new = frames[d].new
        /\ stack'[d].calling = frames[d].calling
        /\ stack'[d].late = {h \in Handle : /\ mem'.VP[h] = frames[d].value
                                            /\ h \in frames[d].late \/ mem.VP[h] # frames[d].value}
  BY NotingIs
<1>3. DOMAIN stack' = DOMAIN frames
  BY DEF Noted
<1>4. FramesOK'
  BY <1>1, <1>2, <1>3 DEF FramesOK, ToldInv
<1>5. ToldBefore'
  <2> SUFFICES ASSUME NEW d \in DOMAIN frames
               PROVE  \E B \in SUBSET Node :
                        /\ Passed(mem', B, Iterator[d], stack'[d].value)
                        /\ \A h \in B \cap Handle : Excused(stack'[d], h)
    BY <1>3 DEF ToldBefore, Passed, Excused
  <2>1. PICK C \in SUBSET Node :
           /\ Passed(mem', C, Iterator[d], stack[d].value)
           /\ \A h \in C \cap Handle : mem.VP[h] # stack[d].value \/ Excused(frames[d], h)
    BY <1>1
  <2>2. frames[d].value = stack[d].value
    BY <1>1
  <2>3. ASSUME NEW h \in C \cap Handle PROVE Excused(stack'[d], h)
    <3>1. mem'.VP[h] = frames[d].value
      BY <2>1, <2>2 DEF Passed
    <3> QED BY <1>2, <2>1, <2>2, <3>1 DEF Excused
  <2> QED BY <1>2, <2>1, <2>2, <2>3
<1> QED BY <1>4, <1>5 DEF ToldInv, StoppedForAReason

LEMMA IteratorsAre ==
  ASSUME HandleInv
  PROVE  /\ stack \in Seq(Frames) /\ DOMAIN stack = 1..Top /\ Top \in Nat /\ Top <= MaxDepth
         /\ MaxDepth \in Nat /\ InOrder(mem, None)
         /\ \A d \in 1..MaxDepth : Iterator[d] \in Node /\ Iterator[d] \notin Handle
         /\ \A c, d \in 1..MaxDepth : Iterator[c] = Iterator[d] => c = d
         /\ \A d \in DOMAIN stack : /\ d \in 1..MaxDepth /\ stack[d] \in Frames
                                    /\ ~stopped => mem.VP[Iterator[d]] = stack[d].value
<1>1. stack \in Seq(Frames) /\ NothingDangles /\ InOrder(mem, None)
  BY HandleInvIs
<1>2. DOMAIN stack = 1..Top /\ Top \in Nat /\ Top <= MaxDepth /\ MaxDepth \in Nat
  BY <1>1, ValueHandlesAssumption DEF Top, NothingDangles, MaxDepth
<1>3. \A d \in 1..MaxDepth : Iterator[d] \in Node /\ Iterator[d] \notin Handle
  BY ValueHandlesAssumption DEF Node, Iterators, MaxDepth
<1>4. \A c, d \in 1..MaxDepth : Iterator[c] = Iterator[d] => c = d
  BY ValueHandlesAssumption DEF MaxDepth
<1>5. \A d \in DOMAIN stack : d \in 1..MaxDepth /\ stack[d] \in Frames
  BY <1>1, <1>2
<1>6. \A d \in DOMAIN stack : ~stopped => mem.VP[Iterator[d]] = stack[d].value
  BY <1>1, <1>2, <1>5 DEF NothingDangles, Top
<1> QED BY <1>1, <1>2, <1>3, <1>4, <1>5, <1>6

LEMMA HandleTold ==
  ASSUME ToldInv, NEW h \in Handle, NEW S, Kept(mem, h, S), Becomes(S), ~stopped, HandleInv'
  PROVE  ToldInv'
<1>1. /\ stack \in Seq(Frames) /\ \A d \in DOMAIN stack : stack[d] \in Frames
      /\ \A d \in DOMAIN stack : Iterator[d] \in Node \ {h}
  BY IteratorsAre DEF ToldInv
<1>2. mem' = S /\ stack' = Noted(stack, mem') /\ stopped' = stopped
  BY DEF Becomes
<1>3. ASSUME NEW d \in DOMAIN stack
      PROVE  \E C \in SUBSET Node :
               /\ Passed(mem', C, Iterator[d], stack[d].value)
               /\ \A g \in C \cap Handle : mem.VP[g] # stack[d].value \/ Excused(stack[d], g)
  <2>1. PICK B \in SUBSET Node : /\ Passed(mem, B, Iterator[d], stack[d].value)
                                 /\ \A g \in B \cap Handle : Excused(stack[d], g)
    BY DEF ToldInv, ToldBefore
  <2>2. stack[d].value \in Value
    BY <1>1 DEF Frames
  <2>3. PICK C \in SUBSET Node :
          /\ Passed(S, C, Iterator[d], stack[d].value)
          /\ C \subseteq B \/ (mem.VP[h] # stack[d].value /\ C \subseteq B \cup {h})
    BY <1>1, <2>1, <2>2 DEF Kept
  <2> QED BY <1>2, <2>1, <2>3
<1>4. \A d \in DOMAIN stack : stack[d].calling # None => KindOf[stack[d].calling] = "Callback"
  BY DEF ToldInv, FramesOK
<1> QED BY <1>1, <1>2, <1>3, <1>4, ToldMoves

LEMMA ClientTold ==
  ASSUME ToldInv, Construct \/ CopyConstruct \/ SetValue \/ SetHandle \/ DestroyHandle
  PROVE  ToldInv'
<1>1. /\ HandleInv /\ InOrder(mem, None) /\ alive \subseteq Value /\ ClientActs /\ ~stopped /\ HandleInv'
  BY HandleInvIs, ClientKeeps
     DEF Construct, CopyConstruct, SetValue, SetHandle, DestroyHandle, ToldInv, ClientActs
<1>2. Handle \subseteq Node
  BY DEF Node
<1>3. ASSUME NEW h \in Handle, NEW v \in alive \cup {None}, NEW grows \in BOOLEAN,
             Becomes(Assign(mem, h, v, grows))
      PROVE  ToldInv'
  <2>1. Kept(mem, h, Assign(mem, h, v, grows))
    BY <1>1, <1>2, AssignKept
  <2> QED BY <1>1, <1>3, <2>1, HandleTold
<1>4. ASSUME NEW h \in Handle, NEW g \in Handle, Becomes(AssignHandle(mem, h, g))
      PROVE  ToldInv'
  <2>1. Kept(mem, h, AssignHandle(mem, h, g))
    BY <1>1, <1>2, AssignHandleKept
  <2> QED BY <1>1, <1>4, <2>1, HandleTold
<1>5. ASSUME NEW h \in Handle, Exists(h), Becomes(Destroy(mem, h))
      PROVE  ToldInv'
  <2>1. Kept(mem, h, Destroy(mem, h))
    BY <1>1, <1>2, <1>5, DestroyKept DEF Exists
  <2> QED BY <1>1, <1>5, <2>1, HandleTold
<1>6. CASE Construct
  BY <1>3, <1>6 DEF Construct
<1>7. CASE CopyConstruct
  BY <1>4, <1>7 DEF CopyConstruct
<1>8. CASE SetValue
  BY <1>3, <1>8 DEF SetValue
<1>9. CASE SetHandle
  BY <1>4, <1>9 DEF SetHandle
<1>10. CASE DestroyHandle
  BY <1>5, <1>10 DEF DestroyHandle
<1> QED BY <1>6, <1>7, <1>8, <1>9, <1>10

\* Nothing that matters to an iteration changes.
LEMMA SameTold ==
  ASSUME ToldInv, HandleInv', UNCHANGED <<stack, stopped>>, ~stopped,
         mem'.VP = mem.VP, mem'.Next = mem.Next, mem'.ValueHandles = mem.ValueHandles
  PROVE  ToldInv'
  BY DEF ToldInv, FramesOK, ToldBefore, Passed, Excused, StoppedForAReason

LEMMA CreateValueTold ==
  ASSUME ToldInv, CreateValue
  PROVE  ToldInv'
<1>1. HandleInv /\ HandleInv' /\ ~stopped /\ UNCHANGED <<stack, stopped>>
  BY CreateValueKeeps DEF ToldInv, CreateValue, ClientActs
<1>2. PICK v \in Value \ alive : mem' = [mem EXCEPT !.HasValueHandle = @ \ {v}]
  BY DEF CreateValue
<1>3. mem \in Mem
  BY <1>1, HandleInvIs DEF InOrder, Lists
<1>4. mem'.VP = mem.VP /\ mem'.Next = mem.Next /\ mem'.ValueHandles = mem.ValueHandles
  BY <1>2, <1>3 DEF Mem
<1> QED BY <1>1, <1>4, SameTold

\* The iterator is put before the first node: nobody was passed.
LEMMA IteratorBegins ==
  ASSUME NEW S, InOrder(S, None), NEW it \in Node, NEW v \in Value, S.ValueHandles[v] # None,
         S.VP[it] = Unborn
  PROVE  Passed(AssignHandle(S, it, S.ValueHandles[v]), {}, it, v)
<1> DEFINE g == S.ValueHandles[v]
           D == Dropped(S, it)
           set == [D EXCEPT !.VP[it] = v]
           p == BucketOf(v)
           X == AddToExistingUseList(set, it, p)
<1>0. Unborn \notin Value
  BY ValueHandlesAssumption
<1>1. g \in Node /\ S.VP[g] = v /\ S.Prev[g] = p
  BY DEF InOrder, Lists, HeadsBack, Mem
<1>2. D = S
  BY <1>0, Values DEF Dropped
<1>3. InOrder(S, it)
  <2>1. InOrder(D, it)
    BY DroppedInOrder
  <2> QED BY <1>2, <2>1
<1>4. S \in Mem
  BY <1>3 DEF InOrder, Lists
<1>5. InOrder(set, it) /\ set.VP[it] = v
  BY <1>2, <1>3, RevaluedInOrder DEF Revalued
<1>6. set.Prev = S.Prev
  BY <1>2, <1>4 DEF Mem
<1>7. AssignHandle(S, it, g) = X
  <2>1. S.VP[it] # S.VP[g] /\ isValid(S.VP[g])
    BY <1>0, <1>1, Values
  <2> QED BY <1>1, <1>6, <2>1 DEF AssignHandle
<1> HIDE DEF set, X, g
<1>8. Addition(set, it, p, X)
  BY <1>5, Listed DEF X, PlaceFor, InOrder
<1>9. X.ValueHandles[v] = it
  BY <1>8 DEF Addition
<1> QED BY <1>7, <1>9 DEF Passed, g

LEMMA IterationTold ==
  ASSUME ToldInv, NEW v \in Value, NEW new \in Value \cup {None}, v # new, v \in mem.HasValueHandle,
         Iterate(v, new), UNCHANGED stopped, ~stopped, HandleInv'
  PROVE  ToldInv'
<1> DEFINE it == Iterator[Top + 1]
           g == mem.ValueHandles[v]
           frame == [value |-> v, new |-> new, calling |-> None, late |-> {}]
<1>1. /\ stack \in Seq(Frames) /\ DOMAIN stack = 1..Top /\ Top \in Nat /\ InOrder(mem, None)
      /\ Top < MaxDepth /\ MaxDepth \in Nat
      /\ \A d \in DOMAIN stack : stack[d] \in Frames /\ Iterator[d] \in Node /\ d \in 1..MaxDepth
  BY IteratorsAre DEF ToldInv, Iterate
<1>2. Top + 1 \in 1..MaxDepth
  BY <1>1
<1>3. it \in Node /\ it \notin Handle /\ \A d \in DOMAIN stack : Iterator[d] # it
  <2>1. \A d \in DOMAIN stack : d # Top + 1
    BY <1>1
  <2> QED BY <1>1, <1>2, <2>1, IteratorsAre DEF ToldInv
<1>4. g \in Node /\ g # None
  BY <1>1, NodesAreNotNone DEF InOrder, Lists, Flags, Mem
<1>5. mem' = AssignHandle(mem, it, g) /\ stack' = Append(stack, frame)
  BY DEF Iterate
<1>6. mem.VP[it] = Unborn
  <2>1. ~(Top + 1 <= Len(stack))
    BY <1>1 DEF Top
  <2> QED BY <1>2, <2>1 DEF ToldInv, HandleInv, NothingDangles
<1> HIDE DEF it, frame
<1>7. Passed(mem', {}, it, v)
  BY <1>1, <1>3, <1>4, <1>5, <1>6, IteratorBegins
<1>8. Kept(mem, it, mem')
  BY <1>1, <1>3, <1>4, <1>5, AssignHandleKept
<1>9. frame \in Frames /\ frame.value = v /\ frame.new = new /\ frame.calling = None
  BY DEF frame, Frames
<1>10. /\ DOMAIN stack' = 1..(Top + 1)
       /\ stack'[Top + 1] = frame /\ \A d \in 1..Top : stack'[d] = stack[d]
  BY <1>1, <1>5, <1>9 DEF Top
<1>11. ASSUME NEW d \in 1..(Top + 1), d # Top + 1 PROVE d \in DOMAIN stack /\ stack'[d] = stack[d]
  BY <1>1, <1>10, <1>11
<1>12. FramesOK'
  <2> SUFFICES ASSUME NEW d \in 1..(Top + 1)
               PROVE  /\ stack'[d].new # stack'[d].value
                      /\ stack'[d].calling # None => KindOf[stack'[d].calling] = "Callback"
    BY <1>10 DEF FramesOK
  <2>1. CASE d = Top + 1
    BY <1>9, <1>10, <2>1
  <2>2. CASE d # Top + 1
    BY <1>11, <2>2 DEF ToldInv, FramesOK
  <2> QED BY <2>1, <2>2
<1>13. ToldBefore'
  <2> SUFFICES ASSUME NEW d \in 1..(Top + 1)
               PROVE  \E B \in SUBSET Node :
                        /\ Passed(mem', B, Iterator[d], stack'[d].value)
                        /\ \A h \in B \cap Handle : Excused(stack'[d], h)
    BY <1>10 DEF ToldBefore, Passed, Excused
  <2>1. CASE d = Top + 1
    <3>1. {} \in SUBSET Node /\ stack'[d].value = v /\ Iterator[d] = it
      BY <1>9, <1>10, <2>1 DEF it
    <3> QED BY <1>7, <3>1
  <2>2. CASE d # Top + 1
    <3>1. d \in DOMAIN stack /\ stack'[d] = stack[d] /\ stack[d] \in Frames /\ Iterator[d] \in Node \ {it}
      BY <1>1, <1>3, <1>11, <2>2
    <3>2. PICK B \in SUBSET Node : /\ Passed(mem, B, Iterator[d], stack[d].value)
                                   /\ \A h \in B \cap Handle : Excused(stack[d], h)
      BY <3>1 DEF ToldInv, ToldBefore
    <3>3. stack[d].value \in Value
      BY <3>1 DEF Frames
    <3>4. PICK C \in SUBSET Node : Passed(mem', C, Iterator[d], stack[d].value) /\ C \subseteq B \cup {it}
      BY <1>8, <3>1, <3>2, <3>3 DEF Kept
    <3> QED BY <1>3, <3>1, <3>2, <3>4
  <2> QED BY <2>1, <2>2
<1> QED BY <1>12, <1>13 DEF ToldInv, StoppedForAReason

LEMMA DeleteValueTold ==
  ASSUME ToldInv, DeleteValue
  PROVE  ToldInv'
<1>1. /\ HandleInv /\ HandleInv' /\ ~stopped /\ stopped' = stopped /\ alive \subseteq Value
  BY DeleteValueKeeps, HandleInvIs DEF ToldInv, DeleteValue, ClientActs
<1>2. PICK v \in alive : IF v \in mem.HasValueHandle
                         THEN Iterate(v, None) /\ UNCHANGED alive
                         ELSE alive' = alive \ {v} /\ UNCHANGED <<mem, stack>>
  BY DEF DeleteValue
<1>3. v \in Value /\ v # None
  BY <1>1, NodesAreNotNone
<1> QED BY <1>1, <1>2, <1>3, IterationTold, SameTold

LEMMA ReplaceAllUsesTold ==
  ASSUME ToldInv, ReplaceAllUses
  PROVE  ToldInv'
<1>1. /\ HandleInv /\ HandleInv' /\ ~stopped /\ stopped' = stopped /\ alive \subseteq Value
  BY ReplaceAllUsesKeeps, HandleInvIs DEF ToldInv, ReplaceAllUses, ClientActs
<1>2. PICK old \in alive, new \in alive : old # new /\ old \in mem.HasValueHandle /\ Iterate(old, new)
  BY DEF ReplaceAllUses
<1> QED BY <1>1, <1>2, IterationTold

LEMMA VisitTold ==
  ASSUME ToldInv, Visit
  PROVE  ToldInv'
<1>1. /\ HandleInv /\ HandleInv' /\ InOrder(mem, None) /\ stack \in Seq(Frames) /\ alive \subseteq Value
      /\ ~stopped /\ stack # <<>> /\ mem.Next[Current] # None /\ stopped' = stopped
      /\ Frame.calling = None
  BY HandleInvIs, VisitKeeps DEF Visit, InLoop, ToldInv
<1>2. /\ Top \in DOMAIN stack /\ Frame \in Frames /\ Current \in Node
      /\ mem.VP[Current] = Frame.value /\ Frame.value \in Value /\ Frame.new \in Value \cup {None}
  BY <1>1, IteratorIsListed
<1> DEFINE entry == mem.Next[Current]
           moved == AddToExistingUseListAfter(RemoveFromUseList(mem, Current), Current, entry)
           called == [stack EXCEPT ![Top].calling = IF Kind(entry) = "Callback" THEN entry ELSE None]
           x == IF Kind(entry) = "Tracking" /\ IsDeletion(Frame) THEN Tombstone ELSE Frame.new
           Moves == Kind(entry) \in {"Weak", "Tracking"}
<1>3. InOrder(moved, None) /\ moved.VP = mem.VP
  BY <1>1, <1>2, IteratorMoves
<1>4. entry \in Node /\ mem.VP[entry] = Frame.value /\ entry # Current
  <2>1. entry # Current
    BY <1>1, <1>2, RemoveFields DEF Removal
  <2> QED BY <1>1, <1>2, <2>1 DEF InOrder, Lists, Mem, NextBack
<1>5. /\ \A B : Passed(mem, B, Current, Frame.value) => Passed(moved, B \cup {entry}, Current, Frame.value)
      /\ \A w \in Value, other \in Node \ {Current}, C \in SUBSET Node : Passed(mem, C, other, w) =>
           \E C2 \in SUBSET Node : Passed(moved, C2, other, w) /\ C2 \ {Current} = C \ {Current}
  <2>1. ASSUME NEW B, Passed(mem, B, Current, Frame.value)
        PROVE  /\ Passed(moved, B \cup {entry}, Current, Frame.value)
               /\ \A w \in Value, other \in Node \ {Current}, C \in SUBSET Node : Passed(mem, C, other, w) =>
                    \E C2 \in SUBSET Node : Passed(moved, C2, other, w) /\ C2 \ {Current} = C \ {Current}
    <3> DEFINE it == Current
    <3>1. it \in Node /\ mem.VP[it] \in Value /\ Passed(mem, B, it, mem.VP[it])
          /\ InOrder(mem, None) /\ mem.Next[it] # None /\ mem.VP[it] = Frame.value
      BY <1>1, <1>2, <2>1
    <3> HIDE DEF it
    <3>2. LET m == AddToExistingUseListAfter(RemoveFromUseList(mem, it), it, mem.Next[it])
          IN /\ Passed(m, B \cup {mem.Next[it]}, it, mem.VP[it])
             /\ \A w \in Value, other \in Node \ {it}, C \in SUBSET Node : Passed(mem, C, other, w) =>
                  \E C2 \in SUBSET Node : Passed(m, C2, other, w) /\ C2 \ {it} = C \ {it}
      <4> DEFINE Q == \A S, c, D : /\ c \in Node /\ InOrder(S, None) /\ S.VP[c] \in Value /\ S.Next[c] # None
                                  /\ Passed(S, D, c, S.VP[c])
             => LET m == AddToExistingUseListAfter(RemoveFromUseList(S, c), c, S.Next[c])
                IN /\ Passed(m, D \cup {S.Next[c]}, c, S.VP[c])
                   /\ \A w \in Value, other \in Node \ {c}, C \in SUBSET Node : Passed(S, C, other, w) =>
                        \E C2 \in SUBSET Node : Passed(m, C2, other, w) /\ C2 \ {c} = C \ {c}
      <4>1. Q
        BY ONLY IteratorPasses
      <4> QED BY ONLY <3>1, <4>1
    <3>3. mem.VP[it] = Frame.value
      BY <3>1
    <3> QED BY ONLY <3>2, <3>3 DEF it
  <2>2. \E B : Passed(mem, B, Current, Frame.value)
    BY <1>1, <1>2 DEF ToldInv, ToldBefore, Current, Frame
  <2> HIDE DEF moved, entry
  <2> QED BY <2>1, <2>2
<1> HIDE DEF moved, entry
<1>6. PICK grows \in BOOLEAN : mem' = ToldHandle(moved, entry, grows) /\ stack' = Noted(called, mem')
  BY DEF Visit, moved, entry
<1>7. /\ entry \in Handle => Kind(entry) = KindOf[entry]
      /\ Kind(entry) \in {"Weak", "Tracking", "Callback"} => entry \in Handle
      /\ Kind(entry) \in {"Assert", "Callback", "Tracking", "Weak"}
  BY ValueHandlesAssumption DEF Kind
<1>8. Frame.new # Frame.value /\ Frame.value # Tombstone
  BY <1>2, ValueHandlesAssumption DEF ToldInv, FramesOK, Frame
<1>9. x \in Value \cup {None, Tombstone} /\ x # Frame.value
  BY <1>2, <1>8
<1>10. /\ ~Moves => mem' = moved
       /\ Moves => mem' = Assign(moved, entry, x, grows)
  <2>1. CASE Kind(entry) = "Weak"
    BY <1>6, <2>1 DEF ToldHandle
  <2>2. CASE Kind(entry) = "Tracking"
    BY <1>6, <2>2 DEF ToldHandle
  <2>3. CASE Kind(entry) \notin {"Weak", "Tracking"}
    BY <1>6, <2>3 DEF ToldHandle
  <2> QED BY <2>1, <2>2, <2>3
<1> HIDE DEF x
<1>11. Moves => Kept(moved, entry, mem') /\ mem'.VP[entry] = x
  BY <1>3, <1>4, <1>9, <1>10, AssignKept, AssignInOrder DEF Pointed
<1>12. Iterator[Top] = Current /\ stack[Top] = Frame
  BY DEF Current, Frame
<1>13. /\ called \in Seq(Frames) /\ Len(called) = Len(stack)
       /\ \A d \in DOMAIN stack :
            /\ called[d].value = stack[d].value /\ called[d].new = stack[d].new
            /\ called[d].late = stack[d].late
            /\ called[d].calling = IF d # Top THEN stack[d].calling
                                   ELSE IF Kind(entry) = "Callback" THEN entry ELSE None
  <2> DEFINE c == IF Kind(entry) = "Callback" THEN entry ELSE None
             f == [stack[Top] EXCEPT !.calling = c]
  <2>1. c \in Handle \cup {None}
    BY <1>7
  <2>2. called = [stack EXCEPT ![Top] = f]
    OBVIOUS
  <2> HIDE DEF c
  <2>3. /\ f \in Frames /\ f.value = stack[Top].value /\ f.new = stack[Top].new
        /\ f.late = stack[Top].late /\ f.calling = c
    BY <1>2, <2>1 DEF Frames, Frame
  <2> HIDE DEF f, called
  <2>4. DOMAIN stack = 1..Len(stack)
    BY <1>1
  <2>5. /\ called \in Seq(Frames) /\ Len(called) = Len(stack)
        /\ \A d \in 1..Len(stack) : called[d] = IF d = Top THEN f ELSE stack[d]
    BY <1>1, <1>2, <2>2, <2>3, <2>4, ExceptSeq
  <2> QED BY <2>3, <2>4, <2>5 DEF c
<1> HIDE DEF called
<1>14. \A d \in DOMAIN stack : called[d].calling # None => KindOf[called[d].calling] = "Callback"
  BY <1>7, <1>13 DEF ToldInv, FramesOK
<1>15. ASSUME NEW d \in DOMAIN stack
       PROVE  \E C \in SUBSET Node :
                /\ Passed(mem', C, Iterator[d], stack[d].value)
                /\ \A g \in C \cap Handle : mem.VP[g] # stack[d].value \/ Excused(called[d], g)
  <2>1. PICK B \in SUBSET Node : /\ Passed(mem, B, Iterator[d], stack[d].value)
                                 /\ \A g \in B \cap Handle : Excused(stack[d], g)
    BY <1>1 DEF ToldInv, ToldBefore
  <2>2. \A g \in Handle : Excused(stack[d], g) => Excused(called[d], g)
    BY <1>1, <1>12, <1>13, NodesAreNotNone DEF Excused, Node
  <2>3. stack[d].value \in Value /\ Iterator[d] \in Node
    BY <1>1, IteratorsAre DEF Frames
  <2>4. CASE d = Top
    <3>1. Passed(moved, B \cup {entry}, Current, Frame.value)
      BY <1>5, <1>12, <2>1, <2>4
    <3>2. CASE Moves
      <4>1. PICK C \in SUBSET Node : Passed(mem', C, Current, Frame.value) /\ C \subseteq B \cup {entry}
        BY <1>2, <1>3, <1>4, <1>11, <3>1, <3>2 DEF Kept
      <4>2. entry \notin C
        BY <1>9, <1>11, <3>2, <4>1 DEF Passed
      <4> QED BY <1>12, <2>1, <2>2, <2>4, <4>1, <4>2
    <3>3. CASE ~Moves
      <4>1. entry \in Handle => Excused(called[d], entry)
        BY <1>7, <1>13, <2>4, <3>3 DEF Excused
      <4> DEFINE C == B \cup {entry}
      <4>2. C \in SUBSET Node /\ Passed(mem', C, Iterator[d], stack[d].value)
        BY <1>4, <1>10, <1>12, <2>4, <3>1, <3>3
      <4>3. \A g \in C \cap Handle : Excused(called[d], g)
        BY <2>1, <2>2, <4>1
      <4> QED BY <4>2, <4>3
    <3> QED BY <3>2, <3>3
  <2>5. CASE d # Top
    <3>1. Iterator[d] # Current /\ Current \notin Handle
      BY <1>1, <1>2, <2>5, IteratorsAre DEF Current
    <3>2. PICK C \in SUBSET Node :
            Passed(moved, C, Iterator[d], stack[d].value) /\ C \ {Current} = B \ {Current}
      BY <1>5, <2>1, <2>3, <3>1
    <3>3. C \in SUBSET (B \cup {Current})
      BY <3>2
    <3>4. CASE ~Moves
      BY <1>10, <2>1, <2>2, <3>1, <3>2, <3>3, <3>4
    <3>5. CASE Moves
      <4>1. entry \in Handle /\ Iterator[d] # entry
        BY <1>1, <1>7, <3>5, IteratorsAre
      <4>2. PICK C2 \in SUBSET Node :
              /\ Passed(mem', C2, Iterator[d], stack[d].value)
              /\ C2 \subseteq C \/ (moved.VP[entry] # stack[d].value /\ C2 \subseteq C \cup {entry})
        BY <1>11, <2>3, <3>2, <3>3, <3>5, <4>1 DEF Kept
      <4> QED BY <1>3, <2>1, <2>2, <3>1, <3>3, <4>1, <4>2
    <3> QED BY <3>4, <3>5
  <2> QED BY <2>4, <2>5
<1>16. \A d \in DOMAIN stack :
         /\ called[d].value = stack[d].value /\ called[d].new = stack[d].new
         /\ called[d].calling # None => KindOf[called[d].calling] = "Callback"
  BY <1>13, <1>14
<1> QED BY <1>1, <1>6, <1>13, <1>15, <1>16, ToldMoves

LEMMA CallbackReturnsTold ==
  ASSUME ToldInv, CallbackReturns
  PROVE  ToldInv'
<1>1. /\ HandleInv /\ HandleInv' /\ InOrder(mem, None) /\ stack \in Seq(Frames)
      /\ ~stopped /\ stack # <<>> /\ stopped' = stopped /\ Frame.calling # None
  BY HandleInvIs, CallbackReturnsKeeps DEF CallbackReturns, ToldInv
<1>2. Top \in DOMAIN stack /\ Frame \in Frames /\ Iterator[Top] = Current /\ stack[Top] = Frame
  BY <1>1, IteratorIsListed DEF Current, Frame
<1> DEFINE h == Frame.calling
           back == [stack EXCEPT ![Top].calling = None]
           here == IsDeletion(Frame) /\ mem.VP[h] = Frame.value
<1>3. h \in Handle /\ h \in Node /\ KindOf[h] = "Callback"
  BY <1>1, <1>2 DEF Frames, Node, ToldInv, FramesOK
<1>4. mem' = (IF here THEN Assign(mem, h, None, FALSE) ELSE mem) /\ stack' = Noted(back, mem')
  BY DEF CallbackReturns
<1>5. here => Kept(mem, h, mem') /\ mem'.VP[h] = None
  <2>1. Kept(mem, h, Assign(mem, h, None, FALSE))
    BY <1>1, <1>3, AssignKept
  <2>2. Pointed(mem, h, None, Assign(mem, h, None, FALSE))
    BY <1>1, <1>3, AssignInOrder
  <2> QED BY <1>3, <1>4, <2>1, <2>2 DEF Pointed
<1>6. /\ back \in Seq(Frames) /\ Len(back) = Len(stack)
      /\ \A d \in DOMAIN stack :
           /\ back[d].value = stack[d].value /\ back[d].new = stack[d].new
           /\ back[d].late = stack[d].late
           /\ back[d].calling = IF d = Top THEN None ELSE stack[d].calling
  <2> DEFINE f == [stack[Top] EXCEPT !.calling = None]
  <2>1. back = [stack EXCEPT ![Top] = f]
    OBVIOUS
  <2>2. /\ f \in Frames /\ f.value = stack[Top].value /\ f.new = stack[Top].new
        /\ f.late = stack[Top].late /\ f.calling = None
    BY <1>2 DEF Frames, Frame
  <2> HIDE DEF f, back
  <2>3. DOMAIN stack = 1..Len(stack)
    BY <1>1
  <2>4. /\ back \in Seq(Frames) /\ Len(back) = Len(stack)
        /\ \A d \in 1..Len(stack) : back[d] = IF d = Top THEN f ELSE stack[d]
    BY <1>1, <1>2, <2>1, <2>2, <2>3, ExceptSeq
  <2> QED BY <2>2, <2>3, <2>4
<1> HIDE DEF back
<1>7. \A d \in DOMAIN stack :
         /\ back[d].value = stack[d].value /\ back[d].new = stack[d].new
         /\ back[d].calling # None => KindOf[back[d].calling] = "Callback"
  BY <1>6 DEF ToldInv, FramesOK
<1>8. ASSUME NEW d \in DOMAIN stack
      PROVE  \E C \in SUBSET Node :
               /\ Passed(mem', C, Iterator[d], stack[d].value)
               /\ \A g \in C \cap Handle : mem.VP[g] # stack[d].value \/ Excused(back[d], g)
  <2>1. PICK B \in SUBSET Node : /\ Passed(mem, B, Iterator[d], stack[d].value)
                                 /\ \A g \in B \cap Handle : Excused(stack[d], g)
    BY <1>1 DEF ToldInv, ToldBefore
  <2>2. \A g \in Handle : Excused(stack[d], g) => Excused(back[d], g) \/ (d = Top /\ g = h)
    BY <1>2, <1>6 DEF Excused
  <2>3. stack[d].value \in Value /\ Iterator[d] \in Node \ {h}
    BY <1>1, <1>3, IteratorsAre DEF Frames
  <2>4. CASE here
    <3>1. PICK C \in SUBSET Node :
            /\ Passed(mem', C, Iterator[d], stack[d].value)
            /\ C \subseteq B \/ (mem.VP[h] # stack[d].value /\ C \subseteq B \cup {h})
      BY <1>5, <2>1, <2>3, <2>4 DEF Kept
    <3>2. h \notin C
      BY <1>5, <2>3, <2>4, <3>1, NodesAreNotNone DEF Passed
    <3> QED BY <2>1, <2>2, <3>1, <3>2
  <2>5. CASE ~here
    <3>1. mem' = mem
      BY <1>4, <2>5
    <3>2. ASSUME d = Top, h \in B PROVE Excused(back[d], h)
      <4>1. mem.VP[h] = Frame.value
        BY <1>2, <2>1, <3>2 DEF Passed
      <4>2. back[d].new # None
        BY <1>2, <1>6, <2>5, <3>2, <4>1 DEF IsDeletion
      <4> QED BY <1>3, <4>2 DEF Excused
    <3> QED BY <2>1, <2>2, <3>1, <3>2
  <2> QED BY <2>4, <2>5
<1> QED BY <1>1, <1>4, <1>6, <1>7, <1>8, ToldMoves

\* At the end of the list every other node of the value was passed.
LEMMA AllPassed ==
  ASSUME NEW S, InOrder(S, None), NEW it \in Node, NEW v \in Value, S.Next[it] = None,
         NEW B, Passed(S, B, it, v), NEW n \in Node, S.VP[n] = v, n # it
  PROVE  n \in B
<1> SUFFICES ASSUME n \notin B PROVE FALSE
  OBVIOUS
<1> DEFINE C == {m \in Node : S.VP[m] = v /\ m \notin B /\ m # it}
<1>1. C \in SUBSET Node /\ C # {} /\ \A m \in C : S.VP[m] \in Value /\ m # None
  BY NodesAreNotNone
<1>2. PICK m \in C : S.Prev[m] \notin C
  BY <1>1 DEF InOrder, Lists, Founded
<1>3. Placed(S, m)
  BY <1>1 DEF InOrder, Lists, NodesPlaced
<1>4. CASE S.Prev[m] \in Node
  <2>1. S.VP[S.Prev[m]] = v /\ S.Next[S.Prev[m]] = m
    BY <1>3, <1>4, Buckets DEF Placed
  <2>2. S.Prev[m] \in B
    BY <1>1, <1>2, <1>4, <2>1
  <2> QED BY <2>1, <2>2 DEF Passed
<1>5. CASE S.Prev[m] \notin Node
  <2>1. S.ValueHandles[v] = m
    BY <1>3, <1>5 DEF Placed
  <2> QED BY <2>1 DEF Passed
<1> QED BY <1>4, <1>5

LEMMA LoopEndsTold ==
  ASSUME ToldInv, LoopEnds
  PROVE  ToldInv'
<1>1. /\ HandleInv /\ HandleInv' /\ InOrder(mem, None) /\ NothingDangles /\ stack \in Seq(Frames)
      /\ ~stopped /\ stack # <<>> /\ Frame.calling = None /\ mem.Next[Current] = None
  BY HandleInvIs, LoopEndsKeeps DEF LoopEnds, InLoop, ToldInv
<1>2. /\ Top \in 1..MaxDepth /\ Top \in DOMAIN stack /\ Current \in Node /\ Frame \in Frames
      /\ Frame.value \in Value /\ mem.VP[Current] = Frame.value
      /\ Iterator[Top] = Current /\ stack[Top] = Frame
  BY <1>1, IteratorIsListed DEF Current, Frame, Frames
<1>3. Top \in Nat /\ DOMAIN stack = 1..Top
  BY <1>1, IteratorsAre
<1>4. Unborn \notin Value
  BY ValueHandlesAssumption
<1>5. mem' = Destroy(mem, Current)
  BY DEF LoopEnds
<1>6. Pointed(mem, Current, Unborn, mem') /\ Kept(mem, Current, mem')
  BY <1>1, <1>2, <1>4, <1>5, DestroyInOrder, DestroyKept
<1>7. stack' = IF stopped' THEN stack ELSE SubSeq(stack, 1, Top - 1)
  BY DEF LoopEnds
<1>8. CASE stopped'
  <2>1. /\ Frame.value \in mem'.HasValueHandle
        /\ IsDeletion(Frame) \/ \E n \in Node : mem'.VP[n] = Frame.value /\ Kind(n) \in {"Tracking", "Weak"}
    BY <1>8, Zenon DEF LoopEnds
  <2>2. PICK B \in SUBSET Node : /\ Passed(mem, B, Current, Frame.value)
                                 /\ \A g \in B \cap Handle : Excused(Frame, g)
    BY <1>1, <1>2 DEF ToldInv, ToldBefore
  <2>3. \A n \in Node : mem'.VP[n] = Frame.value => n # Current /\ mem.VP[n] = Frame.value
    BY <1>2, <1>4, <1>6 DEF Pointed
  <2>4. ASSUME NEW n \in Handle, mem'.VP[n] = Frame.value, IsDeletion(Frame) \/ KindOf[n] \in {"Tracking", "Weak"}
        PROVE  StoppedForAReason'
    <3>1. n \in Node
      BY DEF Node
    <3>2. n \in B
      BY <1>1, <1>2, <2>2, <2>3, <2>4, <3>1, AllPassed
    <3>3. Excused(Frame, n)
      BY <2>2, <3>2
    <3>4. n \in Frame.late \/ (IsDeletion(Frame) /\ KindOf[n] = "Assert")
      BY <1>1, <2>4, <3>1, <3>3, NodesAreNotNone DEF Excused, IsDeletion
    <3>5. stack' = stack
      BY <1>7, <1>8
    <3> QED BY <2>4, <3>4, <3>5 DEF StoppedForAReason, Frame, Top, IsDeletion
  <2>5. ASSUME IsDeletion(Frame) PROVE StoppedForAReason'
    <3>1. InOrder(mem', None)
      BY <1>6 DEF Pointed
    <3>2. mem'.ValueHandles[Frame.value] \in Node
      BY <1>2, <2>1, <3>1 DEF InOrder, Lists, Flags, Mem
    <3> DEFINE n == mem'.ValueHandles[Frame.value]
    <3>3. mem'.VP[n] = Frame.value
      BY <1>2, <3>1, <3>2, NodesAreNotNone DEF InOrder, Lists, HeadsBack
    <3>4. n \in Handle
      <4> SUFFICES ASSUME n \notin Handle PROVE FALSE
        OBVIOUS
      <4>1. PICK c \in 1..MaxDepth : n = Iterator[c]
        BY <3>2 DEF Node, Iterators
      <4>2. mem.VP[Iterator[c]] = Frame.value /\ c # Top
        BY <1>2, <2>3, <3>2, <3>3, <4>1
      <4>3. mem.VP[Iterator[c]] = IF c <= Top THEN stack[c].value ELSE Unborn
        BY <1>1 DEF NothingDangles, Top
      <4>4. c \in 1..(Top - 1) /\ stack[c].value = stack[Top].value
        BY <1>2, <1>3, <1>4, <4>2, <4>3
      <4> QED BY <1>1, <1>2, <2>5, <4>4 DEF NothingDangles
    <3> HIDE DEF n
    <3> QED BY <2>4, <2>5, <3>3, <3>4
  <2>6. ASSUME ~IsDeletion(Frame) PROVE StoppedForAReason'
    <3>1. PICK n \in Node : mem'.VP[n] = Frame.value /\ Kind(n) \in {"Tracking", "Weak"}
      BY <2>1, <2>6
    <3>2. n \in Handle /\ KindOf[n] \in {"Tracking", "Weak"}
      BY <3>1 DEF Kind
    <3> QED BY <2>4, <3>1, <3>2
  <2>7. FramesOK'
    BY <1>7, <1>8 DEF ToldInv, FramesOK
  <2> QED BY <1>1, <1>8, <2>5, <2>6, <2>7 DEF ToldInv
<1>9. CASE ~stopped'
  <2>1. stack' = SubSeq(stack, 1, Top - 1)
    BY <1>7, <1>9
  <2>2. DOMAIN stack' = 1..(Top - 1) /\ \A d \in 1..(Top - 1) : stack'[d] = stack[d] /\ d \in DOMAIN stack
    <3>1. Top - 1 \in Nat /\ \A d \in 1..(Top - 1) : d \in 1..Top /\ stack[d] \in Frames
      BY <1>1, <1>2, <1>3
    <3>2. /\ SubSeq(stack, 1, Top - 1) \in Seq(Frames)
          /\ Len(SubSeq(stack, 1, Top - 1)) = Top - 1
          /\ \A d \in 1..(Top - 1) : SubSeq(stack, 1, Top - 1)[d] = stack[d]
      BY <3>1
    <3> QED BY <1>3, <2>1, <3>1, <3>2, LenProperties
  <2>3. FramesOK'
    BY <2>2 DEF ToldInv, FramesOK
  <2>4. ToldBefore'
    <3> SUFFICES ASSUME NEW d \in 1..(Top - 1)
                 PROVE  \E B \in SUBSET Node :
                          /\ Passed(mem', B, Iterator[d], stack'[d].value)
                          /\ \A h \in B \cap Handle : Excused(stack'[d], h)
      BY <2>2 DEF ToldBefore, Passed, Excused
    <3>1. d \in DOMAIN stack /\ stack'[d] = stack[d] /\ stack[d].value \in Value /\ d # Top
      BY <1>1, <1>3, <2>2, IteratorsAre DEF Frames
    <3>2. Iterator[d] \in Node \ {Current} /\ Current \notin Handle
      BY <1>1, <1>2, <3>1, IteratorsAre
    <3>3. PICK B \in SUBSET Node : /\ Passed(mem, B, Iterator[d], stack[d].value)
                                   /\ \A g \in B \cap Handle : Excused(stack[d], g)
      BY <1>1, <3>1 DEF ToldInv, ToldBefore
    <3>4. PICK C \in SUBSET Node : Passed(mem', C, Iterator[d], stack[d].value) /\ C \subseteq B \cup {Current}
      BY <1>6, <3>1, <3>2, <3>3 DEF Kept
    <3> QED BY <3>1, <3>2, <3>3, <3>4
  <2> QED BY <1>1, <1>9, <2>3, <2>4 DEF ToldInv, StoppedForAReason
<1> QED BY <1>8, <1>9

LEMMA ToldInductive ==
  /\ Init => ToldInv
  /\ ToldInv /\ [Next]_vars => ToldInv'
<1>1. ASSUME Init PROVE ToldInv
  <2>1. HandleInv /\ ~stopped /\ DOMAIN stack = {}
    <3>1. HandleInv
      BY <1>1, InitIsInOrder
    <3>2. stack = <<>> /\ Len(stack) = 0 /\ DOMAIN stack = {}
      BY <1>1, EmptySeq DEF Init
    <3>3. ~stopped
      BY <1>1 DEF Init
    <3> QED BY <3>1, <3>2, <3>3
  <2> QED BY <2>1 DEF ToldInv, FramesOK, ToldBefore, StoppedForAReason
<1>2. ASSUME ToldInv, [Next]_vars PROVE ToldInv'
  <2>1. CASE ClientStep
    BY <1>2, <2>1, ClientTold, CreateValueTold, DeleteValueTold, ReplaceAllUsesTold DEF ClientStep
  <2>2. CASE LoopStep
    BY <1>2, <2>2, VisitTold, CallbackReturnsTold, LoopEndsTold DEF LoopStep
  <2>3. CASE UNCHANGED vars
    <3>1. UNCHANGED <<mem, alive, stack, ops, stopped>>
      BY <2>3 DEF vars
    <3>2. HandleInv'
      BY <1>2, <3>1 DEF HandleInv, TypeOK, NothingDangles, IsDeletion, ToldInv
    <3>3. FramesOK' /\ (~stopped' => ToldBefore')
      BY <1>2, <3>1 DEF ToldInv, FramesOK, ToldBefore, Passed, Excused
    <3>4. StoppedForAReason'
      BY <1>2, <3>1 DEF ToldInv, StoppedForAReason, Frame, Top, IsDeletion
    <3> QED BY <3>2, <3>3, <3>4 DEF ToldInv
  <2> QED BY <1>2, <2>1, <2>2, <2>3 DEF Next
<1> QED BY <1>1, <1>2

\* An llvm_unreachable at the end of ValueIsDeleted and ValueIsRAUWd is never the list's
\* fault: a handle that is left when the iterator is through is one that asserts, or came
\* to the value after the iteration began; whatever callbacks did, nobody was skipped.
THEOREM NobodyIsSkipped == Spec => []StoppedForAReason
<1>1. ToldInv => StoppedForAReason
  BY DEF ToldInv
<1> QED BY <1>1, ToldInductive, PTL DEF Spec
------------------------------------------------------------------------------
(* Who is still to be told                                                 *)

\* The nodes that every set has that has next[n] and is closed under next.
Reached(next, n) ==
  IF next[n] = None THEN {}
  ELSE {m \in Node : \A C \in SUBSET Node :
          next[n] \in C /\ (\A k \in C : next[k] # None => next[k] \in C) => m \in C}

LEMMA ReachedIs ==
  ASSUME NEW next \in [Node -> Node \cup {None}], NEW n \in Node, next[n] # None
  PROVE  /\ Reached(next, n) = {next[n]} \cup Reached(next, next[n])
         /\ next[n] \in Reached(next, n)
         /\ Reached(next, n) \in SUBSET Node
         /\ \A k \in Reached(next, n) : next[k] # None => next[k] \in Reached(next, n)
         /\ \A C \in SUBSET Node :
              next[n] \in C /\ (\A k \in C : next[k] # None => next[k] \in C) => Reached(next, n) \subseteq C
<1> DEFINE a == next[n]
           R == Reached(next, n)
           Q == Reached(next, a)
           Closed(C) == \A k \in C : next[k] # None => next[k] \in C
<1>1. a \in Node
  OBVIOUS
<1>2. R = {m \in Node : \A C \in SUBSET Node : a \in C /\ Closed(C) => m \in C}
  BY DEF Reached
<1>3. Q = IF next[a] = None THEN {}
          ELSE {m \in Node : \A C \in SUBSET Node : next[a] \in C /\ Closed(C) => m \in C}
  BY DEF Reached
<1>4. Closed(Q)
  BY <1>3
<1>5. R \in SUBSET Node /\ Q \in SUBSET Node /\ a \in R /\ Closed(R)
  BY <1>1, <1>2, <1>3
<1>6. \A C \in SUBSET Node : a \in C /\ Closed(C) => R \subseteq C
  BY <1>2
<1>7. Closed({a} \cup Q)
  <2> SUFFICES ASSUME NEW k \in {a} \cup Q, next[k] # None PROVE next[k] \in {a} \cup Q
    OBVIOUS
  <2>1. CASE k = a
    BY <1>1, <1>3, <2>1
  <2>2. CASE k \in Q
    BY <1>4, <2>2
  <2> QED BY <2>1, <2>2
<1> HIDE DEF R, Q
<1>8. R \subseteq {a} \cup Q
  BY <1>1, <1>5, <1>6, <1>7
<1>9. Q \subseteq R
  <2>1. CASE next[a] = None
    BY <1>3, <2>1
  <2>2. CASE next[a] # None
    <3>1. next[a] \in R
      BY <1>5, <2>2
    <3> QED BY <1>3, <1>5, <2>2, <3>1
  <2> QED BY <2>1, <2>2
<1>10. R = {a} \cup Q
  BY <1>5, <1>8, <1>9
<1> QED BY <1>5, <1>6, <1>10 DEF R, Q

\* The equation of After has this solution.
LEMMA AfterSolves ==
  ASSUME NEW next \in [Node -> Node \cup {None}]
  PROVE  \E f : /\ f = [n \in Node |-> IF next[n] = None THEN {} ELSE {next[n]} \cup f[next[n]]]
                /\ \A n \in Node : After(next, n) = f[n]
<1> DEFINE Eq(f) == f = [n \in Node |-> IF next[n] = None THEN {} ELSE {next[n]} \cup f[next[n]]]
           F == [n \in Node |-> Reached(next, n)]
           from == CHOOSE f : Eq(f)
<1>1. Eq(F)
  <2> SUFFICES ASSUME NEW n \in Node
               PROVE  F[n] = IF next[n] = None THEN {} ELSE {next[n]} \cup F[next[n]]
    OBVIOUS
  <2>1. CASE next[n] = None
    BY <2>1 DEF Reached
  <2>2. CASE next[n] # None
    BY <2>2, ReachedIs
  <2> QED BY <2>1, <2>2
<1> HIDE DEF Eq, F
<1>2. Eq(from)
  BY <1>1
<1>3. \A n : After(next, n) = from[n]
  BY DEF After, Eq
<1> HIDE DEF from
<1> QED BY <1>2, <1>3 DEF Eq

\* On lists that are in order it is the only one: where two differ they differ after it
\* too, and there are finitely many nodes.
LEMMA AfterIsReached ==
  ASSUME NEW S, InOrder(S, None), NEW it \in Node
  PROVE  After(S.Next, it) = Reached(S.Next, it)
<1>1. /\ S.Next \in [Node -> Node \cup {None}]
      /\ Lists(S, None)
  BY DEF InOrder, Lists, Mem
<1>2. PICK f : /\ f = [n \in Node |-> IF S.Next[n] = None THEN {} ELSE {S.Next[n]} \cup f[S.Next[n]]]
               /\ \A n \in Node : After(S.Next, n) = f[n]
  BY <1>1, AfterSolves
<1>3. \A n \in Node : f[n] = IF S.Next[n] = None THEN {} ELSE {S.Next[n]} \cup f[S.Next[n]]
  BY <1>2
<1> DEFINE Z == {n \in Node : f[n] # Reached(S.Next, n)}
           g == [n \in Z |-> S.Next[n]]
<1>4. \A n \in Z : S.Next[n] \in Z
  <2> SUFFICES ASSUME NEW n \in Z PROVE S.Next[n] \in Z
    OBVIOUS
  <2>1. S.Next[n] # None
    BY <1>3 DEF Reached
  <2>2. S.Next[n] \in Node
    BY <1>1, <2>1
  <2>3. Reached(S.Next, n) = {S.Next[n]} \cup Reached(S.Next, S.Next[n])
    BY <1>1, <2>1, ReachedIs
  <2>4. f[n] = {S.Next[n]} \cup f[S.Next[n]]
    BY <1>3, <2>1
  <2> QED BY <2>2, <2>3, <2>4
<1>5. \A n \in Z : S.VP[n] \in Value /\ S.Prev[S.Next[n]] = n
  <2> SUFFICES ASSUME NEW n \in Z PROVE S.VP[n] \in Value /\ S.Prev[S.Next[n]] = n
    OBVIOUS
  <2>1. n \in Node /\ S.Next[n] \in Node /\ S.Next[n] # None
    BY <1>4, NodesAreNotNone
  <2> HIDE DEF Z
  <2> QED BY <1>1, <2>1 DEF Lists, NodesPlaced, NextBack
<1>6. IsFiniteSet(Z)
  <2>1. IsFiniteSet(1..Len(Iterator))
    BY FS_Interval, ValueHandlesAssumption
  <2>2. IsFiniteSet({Iterator[d] : d \in 1..Len(Iterator)})
    <3>1. Iterator \in Surjection(1..Len(Iterator), {Iterator[d] : d \in 1..Len(Iterator)})
      BY ValueHandlesAssumption DEF Surjection
    <3> QED BY <2>1, <3>1, FS_Surjection
  <2>3. IsFiniteSet(Node)
    BY <2>2, FS_Union, ValueHandlesAssumption DEF Node, Iterators, MaxDepth
  <2> QED BY <2>3, FS_Subset
<1>7. Z \in SUBSET Node
  OBVIOUS
<1> HIDE DEF Z
<1>8. g \in Injection(Z, Z)
  BY <1>4, <1>5 DEF Injection, IsInjective
<1>9. g \in Surjection(Z, Z)
  BY <1>6, <1>8, FS_Injection
<1>10. \A n \in Z : \E m \in Z : S.Next[m] = n
  BY <1>9 DEF Surjection
<1>11. \A n \in Z : S.Prev[n] \in Z
  BY <1>5, <1>10
<1>12. Z = {}
  <2>1. Z # {} => \E n \in Z : S.Prev[n] \notin Z
    BY <1>1, <1>5, <1>7, NodesAreNotNone DEF Lists, Founded
  <2> QED BY <1>11, <2>1
<1> QED BY <1>2, <1>12 DEF Z

\* Who follows an iterator is whoever it has not passed.
LEMMA FollowersAre ==
  ASSUME NEW S, InOrder(S, None), NEW it \in Node, NEW v \in Value, S.VP[it] = v,
         NEW B, Passed(S, B, it, v)
  PROVE  After(S.Next, it) = {n \in Node : S.VP[n] = v} \ (B \cup {it})
<1>1. After(S.Next, it) = Reached(S.Next, it)
  BY AfterIsReached
<1>2. /\ S.Next \in [Node -> Node \cup {None}] /\ Lists(S, None)
      /\ NodesPlaced(S, None) /\ NextBack(S) /\ HeadsBack(S) /\ Founded(S, None)
  BY DEF InOrder, Lists, Mem
<1> DEFINE R == Reached(S.Next, it)
           T == {n \in Node : S.VP[n] = v} \ (B \cup {it})
<1>3. S.Prev[it] \in Node => S.Prev[it] \in B
  <2> SUFFICES ASSUME S.Prev[it] \in Node PROVE S.Prev[it] \in B
    OBVIOUS
  <2>1. Lists(S, None) /\ it # None /\ None \notin B /\ None \notin Node
    BY NodesAreNotNone DEF Passed, InOrder
  <2> QED BY <1>2, <2>1, BeforeIt
<1>4. \A m \in T : S.Next[m] # None => S.Next[m] \in T
  <2> SUFFICES ASSUME NEW m \in T, S.Next[m] # None PROVE S.Next[m] \in T
    OBVIOUS
  <2>1. S.Next[m] \in Node /\ S.VP[S.Next[m]] = v /\ S.Prev[S.Next[m]] = m
    BY <1>2 DEF NextBack
  <2>2. S.Next[m] \notin B
    BY DEF Passed
  <2>3. S.Next[m] # it
    BY <1>3, <2>1
  <2> QED BY <2>1, <2>2, <2>3
<1>5. R \subseteq T
  <2>1. CASE S.Next[it] = None
    BY <2>1 DEF Reached
  <2>2. CASE S.Next[it] # None
    <3>1. S.Next[it] \in Node /\ S.VP[S.Next[it]] = v /\ S.Prev[S.Next[it]] = it
      BY <1>2, <2>2 DEF NextBack
    <3>2. S.Next[it] \notin B
      BY DEF Passed
    <3>3. S.Next[it] # it
      BY <1>3, <3>1 DEF Passed
    <3>4. S.Next[it] \in T
      BY <3>1, <3>2, <3>3
    <3>5. T \in SUBSET Node
      OBVIOUS
    <3> HIDE DEF T
    <3> QED BY <1>2, <1>4, <2>2, <3>4, <3>5, ReachedIs
  <2> QED BY <2>1, <2>2
<1>6. T \subseteq R
  <2> DEFINE Y == T \ R
  <2> SUFFICES ASSUME Y # {} PROVE FALSE
    OBVIOUS
  <2>1. Y \in SUBSET Node /\ \A n \in Y : S.VP[n] \in Value /\ n # None
    BY NodesAreNotNone
  <2>2. PICK n \in Y : S.Prev[n] \notin Y
    <3> HIDE DEF Y
    <3> QED BY <1>2, <2>1 DEF Founded
  <2>3. n \in Node /\ S.VP[n] = v /\ n \notin B /\ n # it /\ n \notin R /\ Placed(S, n)
    BY <1>2, <2>1 DEF NodesPlaced
  <2>4. CASE S.Prev[n] \in Node /\ S.VP[S.Prev[n]] = v /\ S.Next[S.Prev[n]] = n
    <3>1. S.Prev[n] # it
      BY <1>2, <2>3, <2>4, NodesAreNotNone, ReachedIs
    <3>2. S.Prev[n] \notin B
      BY <2>3, <2>4 DEF Passed
    <3>3. S.Prev[n] \in R
      BY <2>2, <2>4, <3>1, <3>2
    <3>4. S.Next[it] # None
      BY <3>3 DEF Reached
    <3>5. n \in R
      BY <1>2, <2>3, <2>4, <3>3, <3>4, NodesAreNotNone, ReachedIs
    <3> QED BY <2>3, <3>5
  <2>5. CASE S.ValueHandles[v] = n
    BY <2>3, <2>5 DEF Passed
  <2> QED BY <2>3, <2>4, <2>5 DEF Placed
<1> QED BY <1>1, <1>5, <1>6
------------------------------------------------------------------------------
(* The promise                                                             *)

\* A node comes to a list, or goes. Who waited waits, unless it went; what comes with a
\* node that waits, waits with it, and what comes alone does not.
LEMMA WaitingMoves ==
  ASSUME NEW S, NEW R, InOrder(S, None), InOrder(R, None), NEW n \in Node, NEW g, Moved(S, n, g, R),
         \A m \in Node : m # n => R.VP[m] = S.VP[m],
         g # None => g \in Handle /\ (R.VP[n] # S.VP[n] => R.VP[n] = S.VP[g]),
         NEW it \in Node \ {n}, it \notin Handle, NEW v \in Value, S.VP[it] = v,
         NEW B \in SUBSET Node, Passed(S, B, it, v)
  PROVE  \A h \in Handle :
           h \in After(R.Next, it) <=>
             /\ R.VP[h] = v
             /\ \/ h \in After(S.Next, it)
                \/ h = n /\ S.VP[n] # v /\ g # None /\ g \in After(S.Next, it)
<1>1. PICK C \in SUBSET Node :
        /\ Passed(R, C, it, v) /\ C \ {n} = B \ {n}
        /\ n \in C <=> /\ R.VP[n] = v
                       /\ IF S.VP[n] = v THEN n \in B ELSE g = None \/ g \in B \cup {it}
  BY DEF Moved
<1>2. After(S.Next, it) = {m \in Node : S.VP[m] = v} \ (B \cup {it})
  BY FollowersAre
<1>3. After(R.Next, it) = {m \in Node : R.VP[m] = v} \ (C \cup {it})
  BY <1>1, FollowersAre
<1> SUFFICES ASSUME NEW h \in Handle
             PROVE  h \in After(R.Next, it) <=>
                      /\ R.VP[h] = v
                      /\ \/ h \in After(S.Next, it)
                         \/ h = n /\ S.VP[n] # v /\ g # None /\ g \in After(S.Next, it)
  OBVIOUS
<1>4. h \in Node /\ h # it
  BY DEF Node
<1>5. CASE h # n
  <2>1. h \in C <=> h \in B
    BY <1>1, <1>5
  <2>2. R.VP[h] = S.VP[h]
    BY <1>4, <1>5
  <2> QED BY <1>2, <1>3, <1>4, <1>5, <2>1, <2>2
<1>6. CASE h = n /\ R.VP[n] # v
  BY <1>3, <1>6
<1>7. CASE h = n /\ R.VP[n] = v /\ S.VP[n] = v
  BY <1>1, <1>2, <1>3, <1>4, <1>7
<1>8. CASE h = n /\ R.VP[n] = v /\ S.VP[n] # v /\ g = None
  <2>1. h \in C
    BY <1>1, <1>8
  <2> QED BY <1>2, <1>3, <1>8, <2>1
<1>9. CASE h = n /\ R.VP[n] = v /\ S.VP[n] # v /\ g # None
  <2>1. g \in Node /\ g # it /\ S.VP[g] = v
    BY <1>9 DEF Node
  <2>2. h \in C <=> g \in B
    BY <1>1, <1>9, <2>1
  <2> QED BY <1>2, <1>3, <1>4, <1>9, <2>1, <2>2
<1> QED BY <1>5, <1>6, <1>7, <1>8, <1>9

LEMMA LoopsShape ==
  ASSUME HandleInv
  PROVE  /\ DOMAIN Loops = DOMAIN stack /\ DOMAIN stack = 1..Top /\ Top \in Nat
         /\ Len(Loops) = Top /\ Promise!Top = Top
         /\ \A d \in DOMAIN stack : Loops[d] = LoopOf(stack[d], Following(d))
         /\ Loops = <<>> <=> stack = <<>>
<1>1. stack \in Seq(Frames) /\ DOMAIN stack = 1..Top /\ Top \in Nat
  BY IteratorsAre
<1>2. DOMAIN Loops = 1..Top /\ \A d \in 1..Top : Loops[d] = LoopOf(stack[d], Following(d))
  BY <1>1 DEF Loops
<1> DEFINE X == {LoopOf(stack[d], Following(d)) : d \in 1..Top}
<1>3. Loops \in [1..Top -> X]
  BY <1>1 DEF Loops
<1> HIDE DEF X
<1>4. Loops \in Seq(X)
  BY <1>1, <1>3, SeqDef
<1>5. Len(Loops) = Top
  BY <1>1, <1>2, <1>4, LenProperties
<1>6. Loops = <<>> <=> stack = <<>>
  BY <1>1, <1>2, <1>4, <1>5, EmptySeq DEF Top
<1> QED BY <1>1, <1>2, <1>5, <1>6 DEF Promise!Top

\* The sets of the copies and of those who came, of each loop.
LEMMA LoopsAre ==
  ASSUME HandleInv, HandleInv', NEW frames \in Seq(Frames), Len(frames) = Len(stack),
         stack' = Noted(frames, mem'), NEW waiting, NEW W,
         \A d \in DOMAIN stack :
           /\ frames[d].value = stack[d].value
           /\ \A h \in Handle :
                h \in Following(d)' <=> /\ mem'.VP[h] = frames[d].value
                                        /\ h \in waiting[d] \/ (h \in DOMAIN W /\ W[h] \in waiting[d])
  PROVE  Loops' = Promise!Changed([d \in DOMAIN stack |-> LoopOf(frames[d], waiting[d])], Points', W)
<1> DEFINE ls == [d \in DOMAIN stack |-> LoopOf(frames[d], waiting[d])]
           X == Promise!Changed(ls, Points', W)
<1>1. DOMAIN frames = DOMAIN stack /\ DOMAIN stack' = DOMAIN stack
  <2>1. stack \in Seq(Frames)
    BY IteratorsAre
  <2>2. stack' \in Seq(Frames) /\ Len(stack') = Len(frames)
    BY Noting
  <2> QED BY <2>1, <2>2, LenProperties
<1>2. Loops' = [d \in DOMAIN stack |-> LoopOf(stack'[d], Following(d)')]
  BY <1>1 DEF Loops, LoopOf
<1>3. X = [i \in DOMAIN stack |->
             LET here == {h \in Handle : Points'[h] = ls[i].value}
                 copies == {h \in DOMAIN W : W[h] \in ls[i].waiting}
             IN [ls[i] EXCEPT
                   !.waiting = here \cap (@ \cup copies),
                   !.late = here \cap (@ \cup {h \in Handle : Points[h] # ls[i].value})]]
  BY DEF Promise!Changed
<1>4. ASSUME NEW d \in DOMAIN stack
      PROVE  LoopOf(stack'[d], Following(d)') = X[d]
  <2> DEFINE f == frames[d]
             here == {h \in Handle : mem'.VP[h] = f.value}
             w == here \cap (waiting[d] \cup {h \in DOMAIN W : W[h] \in waiting[d]})
             l == here \cap (f.late \cup {h \in Handle : mem.VP[h] # f.value})
  <2>1. ls[d] = LoopOf(f, waiting[d])
    OBVIOUS
  <2>2. /\ ls[d].value = f.value /\ ls[d].waiting = waiting[d] /\ ls[d].late = f.late
        /\ ls[d] = [value |-> f.value, new |-> f.new, calling |-> f.calling,
                    waiting |-> waiting[d], late |-> f.late]
    BY <2>1 DEF LoopOf
  <2>3. here = {h \in Handle : Points'[h] = f.value}
        /\ {h \in Handle : mem.VP[h] # f.value} = {h \in Handle : Points[h] # f.value}
    BY DEF Points
  <2> DEFINE y == LET here0 == {h \in Handle : Points'[h] = ls[d].value}
                      copies == {h \in DOMAIN W : W[h] \in ls[d].waiting}
                  IN [ls[d] EXCEPT
                        !.waiting = here0 \cap (@ \cup copies),
                        !.late = here0 \cap (@ \cup {h \in Handle : Points[h] # ls[d].value})]
  <2> HIDE DEF ls, f
  <2>4. X[d] = y
    <3> HIDE DEF X
    <3> QED BY ONLY <1>3, d \in DOMAIN stack
  <2>5. y = [ls[d] EXCEPT !.waiting = w, !.late = l]
    BY <2>2, <2>3
  <2> HIDE DEF w, l, X, y
  <2>6. X[d] = [value |-> f.value, new |-> f.new, calling |-> f.calling, waiting |-> w, late |-> l]
    <3> DEFINE k == [value |-> f.value, new |-> f.new, calling |-> f.calling,
                     waiting |-> waiting[d], late |-> f.late]
               z == [value |-> f.value, new |-> f.new, calling |-> f.calling, waiting |-> w, late |-> l]
               m == [value |-> f.value, new |-> f.new, calling |-> f.calling,
                     waiting |-> w, late |-> f.late]
    <3>1. [k EXCEPT !.waiting = w] = m
      OBVIOUS
    <3>2. [m EXCEPT !.late = l] = z
      OBVIOUS
    <3>3. ls[d] = k
      BY <2>2
    <3> HIDE DEF k, m, z
    <3>4. X[d] = [[k EXCEPT !.waiting = w] EXCEPT !.late = l]
      BY ONLY <2>4, <2>5, <3>3
    <3>5. X[d] = z
      BY ONLY <3>1, <3>2, <3>4
    <3> QED BY <3>5 DEF z
  <2>7. /\ stack'[d].value = f.value /\ stack'[d].new = f.new /\ stack'[d].calling = f.calling
        /\ stack'[d].late = {h \in Handle : /\ mem'.VP[h] = f.value
                                            /\ h \in f.late \/ mem.VP[h] # f.value}
    BY <1>1, NotingIs DEF f
  <2>8. stack'[d].late = l
    <3>1. frames[d] \in Frames
      BY <1>1
    <3>2. f.late \in SUBSET Handle
      BY <3>1 DEF f, Frames
    <3> QED BY <2>7, <3>2 DEF l
  <2>9. Following(d)' = w
    <3>1. Following(d)' \in SUBSET Handle
      BY DEF Following
    <3> QED BY <3>1 DEF w, f
  <2> QED BY <2>6, <2>7, <2>8, <2>9 DEF LoopOf
<1>5. DOMAIN X = DOMAIN stack /\ X = [d \in DOMAIN stack |-> X[d]]
  BY <1>3
<1> HIDE DEF X
<1>6. Loops' = [d \in DOMAIN stack |-> X[d]]
  BY <1>2, <1>4
<1> QED BY <1>5, <1>6 DEF X

LEMMA FollowingMoves ==
  ASSUME ToldInv, ~stopped, InOrder(mem', None), NEW n \in Node, NEW g, Moved(mem, n, g, mem'),
         \A m \in Node : m # n => mem'.VP[m] = mem.VP[m],
         g # None => g \in Handle /\ (mem'.VP[n] # mem.VP[n] => mem'.VP[n] = mem.VP[g]),
         NEW d \in DOMAIN stack, Iterator[d] # n
  PROVE  \A h \in Handle :
           h \in Following(d)' <=>
             /\ mem'.VP[h] = stack[d].value
             /\ \/ h \in Following(d)
                \/ h = n /\ mem.VP[n] # stack[d].value /\ g # None /\ g \in Following(d)
<1>1. /\ InOrder(mem, None) /\ Iterator[d] \in Node \ {n} /\ Iterator[d] \notin Handle
      /\ stack[d].value \in Value /\ mem.VP[Iterator[d]] = stack[d].value
  BY IteratorsAre DEF ToldInv, Frames
<1>2. PICK B \in SUBSET Node : Passed(mem, B, Iterator[d], stack[d].value)
  BY DEF ToldInv, ToldBefore
<1>3. Following(d)' = After(mem'.Next, Iterator[d]) \cap Handle
  BY DEF Following, After
<1>4. Following(d) = After(mem.Next, Iterator[d]) \cap Handle
  BY DEF Following
<1>5. \A h \in Handle :
        h \in After(mem'.Next, Iterator[d]) <=>
          /\ mem'.VP[h] = stack[d].value
          /\ \/ h \in After(mem.Next, Iterator[d])
             \/ h = n /\ mem.VP[n] # stack[d].value /\ g # None /\ g \in After(mem.Next, Iterator[d])
  <2> DEFINE it == Iterator[d]
             v == stack[d].value
  <2>1. it \in Node \ {n} /\ it \notin Handle /\ v \in Value /\ mem.VP[it] = v
        /\ B \in SUBSET Node /\ Passed(mem, B, it, v) /\ n \in Node /\ InOrder(mem, None) /\ InOrder(mem', None)
    BY <1>1, <1>2
  <2>2. /\ Moved(mem, n, g, mem') /\ \A m \in Node : m # n => mem'.VP[m] = mem.VP[m]
        /\ g # None => g \in Handle /\ (mem'.VP[n] # mem.VP[n] => mem'.VP[n] = mem.VP[g])
    OBVIOUS
  <2> HIDE DEF it, v
  <2>3. \A h \in Handle :
          h \in After(mem'.Next, it) <=>
            /\ mem'.VP[h] = v
            /\ \/ h \in After(mem.Next, it)
               \/ h = n /\ mem.VP[n] # v /\ g # None /\ g \in After(mem.Next, it)
    BY ONLY <2>1, <2>2, WaitingMoves
  <2> QED BY ONLY <2>3 DEF it, v
<1>6. \A h \in Handle : h \in Following(d)' <=> h \in After(mem'.Next, Iterator[d])
  BY <1>3
<1>7. \A h \in Handle : h \in Following(d) <=> h \in After(mem.Next, Iterator[d])
  BY <1>4
<1> HIDE DEF Following
<1> QED BY <1>5, <1>6, <1>7

\* A handle is pointed somewhere.
LEMMA PointsMove ==
  ASSUME NEW h \in Handle, NEW x, Pointed(mem, h, x, mem')
  PROVE  Points' = [Points EXCEPT ![h] = x]
<1>1. \A n \in Handle : mem'.VP[n] = IF n = h THEN x ELSE mem.VP[n]
  BY DEF Pointed, Node
<1> QED BY <1>1 DEF Points

LEMMA SetRefines ==
  ASSUME ToldInv, HandleInv', ClientActs, NEW h \in Handle, NEW S, Becomes(S), NEW x,
         Pointed(mem, h, x, S), Moved(mem, h, None, S)
  PROVE  Promise!Set(h, x)
<1>1. /\ mem' = S /\ stack' = Noted(stack, mem') /\ UNCHANGED <<alive, stopped>>
      /\ ~stopped /\ HandleInv /\ h \in Node
  BY DEF Becomes, ClientActs, ToldInv, Node
<1>2. Points' = [Points EXCEPT ![h] = x]
  BY <1>1, PointsMove
<1>3. /\ stack \in Seq(Frames) /\ InOrder(mem', None) /\ \A m \in Node : m # h => mem'.VP[m] = mem.VP[m]
      /\ \A d \in DOMAIN stack : Iterator[d] # h
  BY <1>1, IteratorsAre DEF Pointed
<1> DEFINE waiting == [d \in DOMAIN stack |-> Following(d)]
<1>4. ASSUME NEW d \in DOMAIN stack, NEW k \in Handle
      PROVE  k \in Following(d)' <=>
               /\ mem'.VP[k] = stack[d].value
               /\ k \in waiting[d] \/ (k \in DOMAIN <<>> /\ <<>>[k] \in waiting[d])
  <2>1. k \in Following(d)' <=> mem'.VP[k] = stack[d].value /\ k \in Following(d)
    BY <1>1, <1>3, FollowingMoves
  <2>2. waiting[d] = Following(d) /\ k \notin DOMAIN <<>>
    OBVIOUS
  <2> HIDE DEF waiting
  <2> QED BY <2>1, <2>2
<1>5. Loops' = Promise!Changed([d \in DOMAIN stack |-> LoopOf(stack[d], waiting[d])], Points', <<>>)
  <2> HIDE DEF waiting
  <2>1. /\ HandleInv /\ HandleInv' /\ stack \in Seq(Frames) /\ Len(stack) = Len(stack)
        /\ stack' = Noted(stack, mem')
    BY <1>1, <1>3
  <2>2. \A d \in DOMAIN stack :
          /\ stack[d].value = stack[d].value
          /\ \A k \in Handle :
               k \in Following(d)' <=> /\ mem'.VP[k] = stack[d].value
                                       /\ k \in waiting[d] \/ (k \in DOMAIN <<>> /\ <<>>[k] \in waiting[d])
    BY <1>4
  <2> QED BY ONLY <2>1, <2>2, LoopsAre
<1>6. Loops = [d \in DOMAIN stack |-> LoopOf(stack[d], waiting[d])]
  BY DEF Loops
<1> QED BY <1>1, <1>2, <1>5, <1>6 DEF Promise!Set

LEMMA SetAsRefines ==
  ASSUME ToldInv, HandleInv', ClientActs, NEW h \in Handle, NEW g \in Handle, NEW S, Becomes(S),
         Pointed(mem, h, mem.VP[g], S), Moved(mem, h, g, S), mem.VP[h] # mem.VP[g]
  PROVE  Promise!SetAs(h, g)
<1>1. /\ mem' = S /\ stack' = Noted(stack, mem') /\ UNCHANGED <<alive, stopped>>
      /\ ~stopped /\ HandleInv /\ h \in Node /\ g \in Node /\ g # None
  BY NodesAreNotNone DEF Becomes, ClientActs, ToldInv, Node
<1>2. Points' = [Points EXCEPT ![h] = Points[g]] /\ Points[h] # Points[g]
  <2>1. Points[g] = mem.VP[g] /\ Points[h] = mem.VP[h]
    BY DEF Points
  <2> QED BY <1>1, <2>1, PointsMove
<1>3. /\ stack \in Seq(Frames) /\ InOrder(mem', None) /\ \A m \in Node : m # h => mem'.VP[m] = mem.VP[m]
      /\ \A d \in DOMAIN stack : Iterator[d] # h
      /\ mem'.VP[h] = mem.VP[g]
  BY <1>1, IteratorsAre DEF Pointed
<1> DEFINE waiting == [d \in DOMAIN stack |-> Following(d)]
           W == [k \in {h} |-> g]
<1>4. ASSUME NEW d \in DOMAIN stack, NEW k \in Handle
      PROVE  k \in Following(d)' <=>
               /\ mem'.VP[k] = stack[d].value
               /\ k \in waiting[d] \/ (k \in DOMAIN W /\ W[k] \in waiting[d])
  <2>1. k \in Following(d)' <=>
          /\ mem'.VP[k] = stack[d].value
          /\ \/ k \in Following(d)
             \/ k = h /\ mem.VP[h] # stack[d].value /\ g # None /\ g \in Following(d)
    BY <1>1, <1>3, FollowingMoves
  <2>2. waiting[d] = Following(d) /\ (k \in DOMAIN W <=> k = h) /\ (k = h => W[k] = g)
    OBVIOUS
  <2>3. k = h /\ mem'.VP[k] = stack[d].value => mem.VP[h] # stack[d].value
    BY <1>3
  <2> HIDE DEF waiting, W
  <2> QED BY <1>1, <2>1, <2>2, <2>3
<1>5. Loops' = Promise!Changed([d \in DOMAIN stack |-> LoopOf(stack[d], waiting[d])], Points', W)
  <2> HIDE DEF waiting, W
  <2>1. /\ HandleInv /\ HandleInv' /\ stack \in Seq(Frames) /\ Len(stack) = Len(stack)
        /\ stack' = Noted(stack, mem')
    BY <1>1, <1>3
  <2>2. \A d \in DOMAIN stack :
          /\ stack[d].value = stack[d].value
          /\ \A k \in Handle :
               k \in Following(d)' <=> /\ mem'.VP[k] = stack[d].value
                                       /\ k \in waiting[d] \/ (k \in DOMAIN W /\ W[k] \in waiting[d])
    BY <1>4
  <2> QED BY ONLY <2>1, <2>2, LoopsAre
<1>6. Loops = [d \in DOMAIN stack |-> LoopOf(stack[d], waiting[d])]
  BY DEF Loops
<1> QED BY <1>1, <1>2, <1>5, <1>6 DEF Promise!SetAs

\* The loop that tells is the innermost iteration.
LEMMA ToldIs ==
  ASSUME HandleInv, stack # <<>>, ~stopped
  PROVE  /\ Top \in DOMAIN stack /\ Promise!Top = Top /\ Promise!Told = LoopOf(Frame, Following(Top))
         /\ Promise!Told.value = Frame.value /\ Promise!Told.new = Frame.new
         /\ Promise!Told.calling = Frame.calling /\ Promise!Told.waiting = Following(Top)
         /\ Promise!Told.late = Frame.late
<1>1. Top \in DOMAIN stack
  BY IteratorIsListed
<1>2. Promise!Told = LoopOf(Frame, Following(Top)) /\ Promise!Top = Top
  BY <1>1, LoopsShape DEF Promise!Told, Frame
<1> QED BY <1>1, <1>2 DEF LoopOf

LEMMA ClientIsClient ==
  ASSUME HandleInv, ClientActs
  PROVE  Promise!InClient
<1>1. CASE stack = <<>>
  BY <1>1, LoopsShape DEF ClientActs, Promise!InClient
<1>2. CASE stack # <<>>
  BY <1>2, ToldIs DEF ClientActs, InCallback, Promise!InClient
<1> QED BY <1>1, <1>2

LEMMA ClientRefines ==
  ASSUME ToldInv, Construct \/ CopyConstruct \/ SetValue \/ SetHandle \/ DestroyHandle
  PROVE  Promise!Next
<1>1. /\ HandleInv /\ InOrder(mem, None) /\ alive \subseteq Value /\ ClientActs /\ HandleInv'
      /\ Promise!InClient
  BY HandleInvIs, ClientKeeps, ClientIsClient
     DEF Construct, CopyConstruct, SetValue, SetHandle, DestroyHandle, ToldInv
<1>2. Handle \subseteq Node
  BY DEF Node
<1>3. ASSUME NEW h \in Handle, NEW x \in alive \cup {None, Unborn}, NEW S, Becomes(S),
             Pointed(mem, h, x, S), Moved(mem, h, None, S)
      PROVE  Promise!Change
  <2>1. Promise!Set(h, x)
    BY <1>1, <1>3, SetRefines
  <2> QED BY <1>1, <2>1 DEF Promise!Change
<1>4. ASSUME NEW h \in Handle, NEW v \in alive \cup {None}, NEW grows \in BOOLEAN,
             Becomes(Assign(mem, h, v, grows))
      PROVE  Promise!Change
  <2>1. Pointed(mem, h, v, Assign(mem, h, v, grows)) /\ Moved(mem, h, None, Assign(mem, h, v, grows))
    BY <1>1, <1>2, AssignInOrder, AssignMoves
  <2> QED BY <1>3, <1>4, <2>1
<1>5. ASSUME NEW h \in Handle, NEW g \in Handle, Usable(g), Becomes(AssignHandle(mem, h, g))
      PROVE  Promise!Change
  <2>1. Pointed(mem, h, mem.VP[g], AssignHandle(mem, h, g)) /\ Moved(mem, h, g, AssignHandle(mem, h, g))
    BY <1>1, <1>2, AssignHandleInOrder, AssignHandleMoves
  <2>2. CASE mem.VP[h] = mem.VP[g]
    <3>1. AssignHandle(mem, h, g) = mem
      BY <2>2 DEF AssignHandle
    <3>2. mem.VP[g] \in alive \cup {None, Unborn}
      BY <1>1, <1>5, HandlesLead DEF Usable
    <3>3. Moved(mem, h, None, mem)
      BY MovedSame
    <3> QED BY <1>3, <1>5, <2>1, <3>1, <3>2, <3>3
  <2>3. CASE mem.VP[h] # mem.VP[g]
    <3>1. Promise!SetAs(h, g)
      BY <1>1, <1>5, <2>1, <2>3, SetAsRefines
    <3> QED BY <1>1, <3>1 DEF Promise!Change
  <2> QED BY <2>2, <2>3
<1>6. ASSUME NEW h \in Handle, Exists(h), Becomes(Destroy(mem, h))
      PROVE  Promise!Change
  <2>1. Pointed(mem, h, Unborn, Destroy(mem, h)) /\ Moved(mem, h, None, Destroy(mem, h))
    BY <1>1, <1>2, <1>6, DestroyInOrder, DestroyMoves DEF Exists
  <2> QED BY <1>3, <1>6, <2>1
<1>7. CASE Construct
  BY <1>4, <1>7 DEF Construct, Promise!Next
<1>8. CASE CopyConstruct
  BY <1>5, <1>8 DEF CopyConstruct, Promise!Next
<1>9. CASE SetValue
  BY <1>4, <1>9 DEF SetValue, Promise!Next
<1>10. CASE SetHandle
  BY <1>5, <1>10 DEF SetHandle, Promise!Next
<1>11. CASE DestroyHandle
  BY <1>6, <1>11 DEF DestroyHandle, Promise!Next
<1> QED BY <1>7, <1>8, <1>9, <1>10, <1>11

LEMMA CreateValueRefines ==
  ASSUME ToldInv, CreateValue
  PROVE  Promise!Next
<1>1. PICK v \in Value \ alive : /\ alive' = alive \cup {v}
                                 /\ mem' = [mem EXCEPT !.HasValueHandle = @ \ {v}]
  BY DEF CreateValue
<1>2. HandleInv /\ ClientActs /\ UNCHANGED <<stack, stopped>> /\ Promise!InClient
  BY ClientIsClient DEF CreateValue, ToldInv
<1>3. mem'.VP = mem.VP /\ mem'.Next = mem.Next
  BY <1>1, <1>2 DEF HandleInv, TypeOK
<1>4. \A d : Following(d)' = Following(d)
  BY <1>3 DEF Following, After
<1>5. Points' = Points
  BY <1>3 DEF Points
<1>6. Loops' = Loops
  BY <1>2, <1>4 DEF Loops, LoopOf
<1>7. Promise!Create
  BY <1>1, <1>2, <1>5, <1>6 DEF Promise!Create
<1> QED BY <1>7 DEF Promise!Next

\* An iteration begins: everyone in the list waits for it.
LEMMA IterationRefines ==
  ASSUME ToldInv, NEW v \in Value, NEW new \in Value \cup {None}, v \in mem.HasValueHandle,
         Iterate(v, new), ~stopped, HandleInv'
  PROVE  Points' = Points /\ Loops' = Append(Loops, Promise!Loop(v, new))
<1> DEFINE it == Iterator[Top + 1]
           g == mem.ValueHandles[v]
           frame == [value |-> v, new |-> new, calling |-> None, late |-> {}]
<1>1. /\ stack \in Seq(Frames) /\ DOMAIN stack = 1..Top /\ Top \in Nat /\ InOrder(mem, None)
      /\ Top < MaxDepth /\ MaxDepth \in Nat
      /\ \A d \in DOMAIN stack : stack[d] \in Frames /\ Iterator[d] \in Node /\ d \in 1..MaxDepth
  BY IteratorsAre DEF ToldInv, Iterate
<1>2. Top + 1 \in 1..MaxDepth
  BY <1>1
<1>3. it \in Node /\ it \notin Handle /\ \A d \in DOMAIN stack : Iterator[d] # it
  <2>1. \A d \in DOMAIN stack : d # Top + 1
    BY <1>1
  <2> QED BY <1>1, <1>2, <2>1, IteratorsAre DEF ToldInv
<1>4. g \in Node /\ g # None
  BY <1>1, NodesAreNotNone DEF InOrder, Lists, Flags, Mem
<1>5. mem' = AssignHandle(mem, it, g) /\ stack' = Append(stack, frame)
  BY DEF Iterate
<1>6. mem.VP[it] = Unborn
  <2>1. ~(Top + 1 <= Len(stack))
    BY <1>1 DEF Top
  <2> QED BY <1>2, <2>1 DEF ToldInv, HandleInv, NothingDangles
<1> HIDE DEF it, frame
<1>7. Passed(mem', {}, it, v)
  BY <1>1, <1>3, <1>4, <1>5, <1>6, IteratorBegins
<1>8. mem.VP[g] = v
  BY <1>1, <1>4 DEF InOrder, Lists, HeadsBack
<1>9. Pointed(mem, it, v, mem')
  BY <1>1, <1>3, <1>4, <1>5, <1>8, AssignHandleInOrder
<1>10. \A h \in Handle : mem'.VP[h] = mem.VP[h]
  BY <1>3, <1>9 DEF Pointed, Node
<1>11. Points' = Points
  BY <1>10 DEF Points
<1>12. frame \in Frames
  BY DEF frame, Frames
<1>13. /\ DOMAIN stack' = 1..(Top + 1)
       /\ stack'[Top + 1] = frame /\ \A d \in 1..Top : stack'[d] = stack[d]
  BY <1>1, <1>5, <1>12 DEF Top
<1>14. PICK t \in Nat : t = Top + 1
  BY <1>1
<1>15. Following(t)' = {h \in Handle : Points[h] = v}
  <2>1. it = Iterator[t]
    BY <1>14 DEF it
  <2>2. After(mem'.Next, it) = {m \in Node : mem'.VP[m] = v} \ ({} \cup {it})
    <3>1. InOrder(mem', None) /\ mem'.VP[it] = v
      BY <1>3, <1>9 DEF Pointed
    <3> QED BY <1>3, <1>7, <3>1, FollowersAre
  <2>3. {h \in Handle : Points[h] = v} = {h \in Handle : mem.VP[h] = v}
    BY DEF Points
  <2>4. Following(t)' = After(mem'.Next, Iterator[t]) \cap Handle
    BY DEF Following, After
  <2> QED BY <1>3, <1>10, <2>1, <2>2, <2>3, <2>4 DEF Node
<1>16. ASSUME NEW d \in 1..Top PROVE Following(d)' = Following(d)
  <2>1. Moved(mem, it, g, mem')
    BY <1>1, <1>3, <1>4, <1>5, AssignHandleMoves
  <2>2. /\ InOrder(mem', None) /\ d \in DOMAIN stack /\ Iterator[d] \in Node \ {it}
        /\ Iterator[d] \notin Handle /\ stack[d].value \in Value /\ mem.VP[Iterator[d]] = stack[d].value
    BY <1>1, <1>3, <1>9, IteratorsAre DEF Pointed, ToldInv, Frames
  <2>3. PICK B \in SUBSET Node : Passed(mem, B, Iterator[d], stack[d].value)
    BY <2>2 DEF ToldInv, ToldBefore
  <2>4. PICK C \in SUBSET Node : /\ Passed(mem', C, Iterator[d], stack[d].value)
                                 /\ C \ {it} = B \ {it}
    BY <2>1, <2>2, <2>3 DEF Moved
  <2>5. mem'.VP[Iterator[d]] = stack[d].value
    BY <1>9, <2>2 DEF Pointed
  <2>6. After(mem.Next, Iterator[d]) = {m \in Node : mem.VP[m] = stack[d].value} \ (B \cup {Iterator[d]})
    BY <1>1, <2>2, <2>3, FollowersAre
  <2>7. After(mem'.Next, Iterator[d]) = {m \in Node : mem'.VP[m] = stack[d].value} \ (C \cup {Iterator[d]})
    BY <2>2, <2>4, <2>5, FollowersAre
  <2>8. Following(d)' = After(mem'.Next, Iterator[d]) \cap Handle
    BY DEF Following, After
  <2>9. Following(d) = After(mem.Next, Iterator[d]) \cap Handle
    BY DEF Following
  <2> QED BY <1>3, <1>10, <2>2, <2>4, <2>6, <2>7, <2>8, <2>9 DEF Node
<1> DEFINE L == Promise!Loop(v, new)
           X == {LoopOf(stack[d], Following(d)) : d \in 1..Top} \cup {L}
<1>17. L = LoopOf(frame, {h \in Handle : Points[h] = v})
  BY DEF Promise!Loop, LoopOf, frame
<1>18. Loops \in [1..Top -> X] /\ \A d \in 1..Top : Loops[d] = LoopOf(stack[d], Following(d))
  BY <1>1 DEF Loops
<1>19. L \in X
  OBVIOUS
<1>20. Loops' = [d \in 1..t |-> LoopOf(stack'[d], Following(d)')]
  BY <1>13, <1>14 DEF Loops, LoopOf
<1> HIDE DEF L, X
<1>21. Loops \in Seq(X) /\ Len(Loops) = Top
  <2>1. Loops \in Seq(X)
    BY <1>1, <1>18, SeqDef
  <2> QED BY <1>1, <1>18, <2>1, LenProperties
<1>22. Append(Loops, L) = [d \in 1..t |-> IF d = t THEN L ELSE Loops[d]]
  <2> DEFINE A == Append(Loops, L)
  <2>1. A \in Seq(X) /\ Len(A) = t /\ A[t] = L /\ \A i \in 1..Top : A[i] = Loops[i]
    BY <1>14, <1>19, <1>21, AppendProperties
  <2> HIDE DEF A
  <2>2. A \in [1..t -> X]
    BY <2>1, LenProperties
  <2>3. \A d \in 1..t : d # t => d \in 1..Top
    BY <1>1, <1>14
  <2>4. A = [d \in 1..t |-> A[d]]
    BY <2>2
  <2>5. A = [d \in 1..t |-> IF d = t THEN L ELSE Loops[d]]
    BY <2>1, <2>3, <2>4
  <2> QED BY <2>5 DEF A
<1>23. ASSUME NEW d \in 1..t
       PROVE  LoopOf(stack'[d], Following(d)') = IF d = t THEN L ELSE Loops[d]
  <2>1. CASE d = t
    BY <1>13, <1>14, <1>15, <1>17, <2>1
  <2>2. CASE d # t
    <3>1. d \in 1..Top
      BY <1>1, <1>14, <2>2
    <3> QED BY <1>13, <1>16, <1>18, <2>2, <3>1
  <2> QED BY <2>1, <2>2
<1>24. Loops' = Append(Loops, L)
  BY <1>20, <1>22, <1>23
<1> QED BY <1>11, <1>24 DEF L

LEMMA DeleteValueRefines ==
  ASSUME ToldInv, DeleteValue
  PROVE  Promise!Next
<1>1. /\ HandleInv /\ HandleInv' /\ ~stopped /\ stopped' = stopped /\ alive \subseteq Value
      /\ InOrder(mem, None) /\ NothingDangles /\ Promise!InClient
  BY DeleteValueKeeps, HandleInvIs, ClientIsClient DEF ToldInv, DeleteValue, ClientActs
<1>2. PICK v \in alive \ Busy : IF v \in mem.HasValueHandle
                                THEN Iterate(v, None) /\ UNCHANGED alive
                                ELSE alive' = alive \ {v} /\ UNCHANGED <<mem, stack>>
  BY DEF DeleteValue
<1>3. v \in Value
  BY <1>1
<1>4. CASE v \in mem.HasValueHandle
  <2> DEFINE g == mem.ValueHandles[v]
  <2>1. g \in Node /\ mem.VP[g] = v
    BY <1>1, <1>3, <1>4, NodesAreNotNone DEF InOrder, Lists, Flags, HeadsBack, Mem
  <2> HIDE DEF g
  <2>2. g \in Handle
    <3> SUFFICES ASSUME g \notin Handle PROVE FALSE
      OBVIOUS
    <3>1. PICK d \in 1..MaxDepth : g = Iterator[d]
      BY <2>1 DEF Node, Iterators
    <3>2. mem.VP[g] = IF d <= Len(stack) THEN stack[d].value ELSE Unborn
      BY <1>1, <3>1 DEF NothingDangles
    <3>3. v # Unborn
      BY <1>3, ValueHandlesAssumption
    <3>4. d \in DOMAIN stack /\ stack[d].value = v
      BY <1>1, <2>1, <3>2, <3>3, IteratorsAre DEF Top
    <3> QED BY <1>2, <3>4 DEF Busy
  <2>3. \E h \in Handle : Points[h] = v
    BY <2>1, <2>2 DEF Points
  <2>4. Iterate(v, None) /\ alive' = alive
    BY <1>2, <1>4
  <2>5. Points' = Points /\ Loops' = Append(Loops, Promise!Loop(v, None))
    BY <1>1, <1>3, <1>4, <2>4, IterationRefines
  <2>6. Promise!Delete
    BY <1>1, <1>2, <2>3, <2>4, <2>5 DEF Promise!Delete
  <2> QED BY <2>6 DEF Promise!Next
<1>5. CASE v \notin mem.HasValueHandle
  <2>1. ~\E h \in Handle : Points[h] = v
    BY <1>1, <1>3, <1>5, NoListNoNodes DEF Points, Node
  <2>2. alive' = alive \ {v} /\ UNCHANGED <<mem, stack>>
    BY <1>2, <1>5
  <2>3. Points' = Points /\ Loops' = Loops
    BY <2>2 DEF Points, Loops, LoopOf, Following, After
  <2>4. Promise!Delete
    BY <1>1, <1>2, <2>1, <2>2, <2>3 DEF Promise!Delete
  <2> QED BY <2>4 DEF Promise!Next
<1> QED BY <1>4, <1>5

LEMMA ReplaceAllUsesRefines ==
  ASSUME ToldInv, ReplaceAllUses
  PROVE  Promise!Next
<1>1. /\ HandleInv /\ HandleInv' /\ ~stopped /\ UNCHANGED <<alive, stopped>> /\ alive \subseteq Value
      /\ Promise!InClient
  BY ReplaceAllUsesKeeps, HandleInvIs, ClientIsClient DEF ToldInv, ReplaceAllUses, ClientActs
<1>2. PICK old \in alive, new \in alive : old # new /\ old \in mem.HasValueHandle /\ Iterate(old, new)
  BY DEF ReplaceAllUses
<1>3. Points' = Points /\ Loops' = Append(Loops, Promise!Loop(old, new))
  BY <1>1, <1>2, IterationRefines
<1>4. Promise!ReplaceAllUses
  BY <1>1, <1>2, <1>3 DEF Promise!ReplaceAllUses
<1> QED BY <1>4 DEF Promise!Next

LEMMA CallbackReturnsRefines ==
  ASSUME ToldInv, CallbackReturns
  PROVE  Promise!Next
<1>1. /\ HandleInv /\ HandleInv' /\ InOrder(mem, None) /\ stack \in Seq(Frames)
      /\ ~stopped /\ stack # <<>> /\ UNCHANGED <<alive, stopped>> /\ Frame.calling # None
  BY HandleInvIs, CallbackReturnsKeeps DEF CallbackReturns, ToldInv
<1>2. /\ Top \in DOMAIN stack /\ Frame \in Frames /\ stack[Top] = Frame
      /\ DOMAIN stack = 1..Top /\ Top \in Nat
  BY <1>1, IteratorIsListed, IteratorsAre DEF Frame
<1> DEFINE h == Frame.calling
           back == [stack EXCEPT ![Top].calling = None]
           here == IsDeletion(Frame) /\ mem.VP[h] = Frame.value
<1>3. h \in Handle /\ h \in Node
  BY <1>1, <1>2 DEF Frames, Node
<1>4. mem' = (IF here THEN Assign(mem, h, None, FALSE) ELSE mem) /\ stack' = Noted(back, mem')
  BY DEF CallbackReturns
<1> DEFINE x == IF here THEN None ELSE mem.VP[h]
<1>5. Pointed(mem, h, x, mem') /\ Moved(mem, h, None, mem')
  <2>1. CASE here
    <3>1. Pointed(mem, h, None, Assign(mem, h, None, FALSE)) /\ Moved(mem, h, None, Assign(mem, h, None, FALSE))
      BY <1>1, <1>3, AssignInOrder, AssignMoves
    <3> QED BY <1>4, <2>1, <3>1
  <2>2. CASE ~here
    <3>1. Moved(mem, h, None, mem) /\ Pointed(mem, h, mem.VP[h], mem)
      BY <1>1, <1>3, MovedSame DEF Pointed
    <3> QED BY <1>4, <2>2, <3>1
  <2> QED BY <2>1, <2>2
<1>6. back \in Seq(Frames) /\ Len(back) = Len(stack)
      /\ \A d \in DOMAIN stack : back[d] = IF d = Top THEN [Frame EXCEPT !.calling = None] ELSE stack[d]
  <2> DEFINE f == [stack[Top] EXCEPT !.calling = None]
  <2>1. back = [stack EXCEPT ![Top] = f]
    OBVIOUS
  <2>2. f \in Frames /\ f = [Frame EXCEPT !.calling = None]
    BY <1>2 DEF Frames, Frame
  <2> HIDE DEF f, back
  <2>3. DOMAIN stack = 1..Len(stack)
    BY <1>1
  <2>4. /\ back \in Seq(Frames) /\ Len(back) = Len(stack)
        /\ \A d \in 1..Len(stack) : back[d] = IF d = Top THEN f ELSE stack[d]
    BY <1>1, <1>2, <2>1, <2>2, <2>3, ExceptSeq
  <2> QED BY <2>2, <2>3, <2>4
<1>7. \A d \in DOMAIN stack :
        /\ back[d].value = stack[d].value /\ back[d].new = stack[d].new /\ back[d].late = stack[d].late
        /\ back[d].calling = IF d = Top THEN None ELSE stack[d].calling
  <2> SUFFICES ASSUME NEW d \in DOMAIN stack
               PROVE  /\ back[d].value = stack[d].value /\ back[d].new = stack[d].new /\ back[d].late = stack[d].late
                      /\ back[d].calling = IF d = Top THEN None ELSE stack[d].calling
    OBVIOUS
  <2>1. stack[d] \in Frames
    BY <1>1
  <2> HIDE DEF back
  <2> QED BY <1>2, <1>6, <2>1 DEF Frames
<1> HIDE DEF back
<1> DEFINE waiting == [d \in DOMAIN stack |-> Following(d)]
           ls == [d \in DOMAIN stack |-> LoopOf(back[d], waiting[d])]
<1>8. Loops' = Promise!Changed(ls, Points', <<>>)
  <2>1. ASSUME NEW d \in DOMAIN stack, NEW k \in Handle
        PROVE  k \in Following(d)' <=>
                 /\ mem'.VP[k] = back[d].value
                 /\ k \in waiting[d] \/ (k \in DOMAIN <<>> /\ <<>>[k] \in waiting[d])
    <3>1. /\ InOrder(mem', None) /\ \A m \in Node : m # h => mem'.VP[m] = mem.VP[m]
          /\ Iterator[d] # h
      BY <1>1, <1>3, <1>5, IteratorsAre DEF Pointed
    <3>2. k \in Following(d)' <=> mem'.VP[k] = stack[d].value /\ k \in Following(d)
      <4> HIDE DEF h
      <4> QED BY <1>1, <1>3, <1>5, <3>1, FollowingMoves
    <3>3. waiting[d] = Following(d) /\ k \notin DOMAIN <<>> /\ back[d].value = stack[d].value
      BY <1>7
    <3> HIDE DEF waiting
    <3> QED BY <3>2, <3>3
  <2>2. \A d \in DOMAIN stack : back[d].value = stack[d].value
    BY <1>7
  <2>3. /\ HandleInv /\ HandleInv' /\ back \in Seq(Frames) /\ Len(back) = Len(stack)
        /\ stack' = Noted(back, mem')
    BY <1>1, <1>4, <1>6
  <2> HIDE DEF waiting
  <2> QED BY ONLY <2>1, <2>2, <2>3, LoopsAre
<1>9. ls = [Loops EXCEPT ![Top].calling = None]
  <2> DEFINE l == [Loops[Top] EXCEPT !.calling = None]
  <2>1. DOMAIN Loops = DOMAIN stack /\ \A d \in DOMAIN stack : Loops[d] = LoopOf(stack[d], Following(d))
    BY <1>1, LoopsShape
  <2>2. [Loops EXCEPT ![Top].calling = None] = [d \in DOMAIN stack |-> IF d = Top THEN l ELSE Loops[d]]
    BY <1>2, <2>1 DEF Loops
  <2>3. l = LoopOf(back[Top], Following(Top))
    BY <1>2, <1>7, <2>1 DEF LoopOf
  <2>4. ASSUME NEW d \in DOMAIN stack, d # Top PROVE Loops[d] = LoopOf(back[d], Following(d))
    BY <1>6, <2>1, <2>4
  <2> HIDE DEF l
  <2> QED BY <2>2, <2>3, <2>4
<1>10. Points' = IF IsDeletion(Frame) /\ Points[h] = Frame.value THEN [Points EXCEPT ![h] = None] ELSE Points
  <2>1. Points[h] = mem.VP[h]
    BY <1>3 DEF Points
  <2>2. Points' = [Points EXCEPT ![h] = x]
    <3> HIDE DEF h, x
    <3> QED BY <1>3, <1>5, PointsMove
  <2>3. x = Points[h] => [Points EXCEPT ![h] = x] = Points
    BY <1>3 DEF Points
  <2> QED BY <2>1, <2>2, <2>3
<1>11. Promise!CallbackReturns
  <2>1. /\ Promise!Top = Top /\ Promise!Told.calling = h /\ Promise!Told.value = Frame.value
        /\ Promise!IsDeletion(Promise!Told) <=> IsDeletion(Frame)
    BY <1>1, ToldIs DEF Promise!IsDeletion, IsDeletion
  <2>2. Loops # <<>>
    BY <1>1, LoopsShape
  <2> HIDE DEF ls, here
  <2> QED BY <1>1, <1>8, <1>9, <1>10, <2>1, <2>2 DEF Promise!CallbackReturns
<1> QED BY <1>11 DEF Promise!Next

LEMMA FollowingPoint ==
  ASSUME ToldInv, ~stopped, NEW d \in DOMAIN stack, NEW h \in Following(d)
  PROVE  h \in Handle /\ mem.VP[h] = stack[d].value
<1>1. /\ InOrder(mem, None) /\ Iterator[d] \in Node
      /\ stack[d].value \in Value /\ mem.VP[Iterator[d]] = stack[d].value
  BY IteratorsAre DEF ToldInv, Frames
<1>2. PICK B \in SUBSET Node : Passed(mem, B, Iterator[d], stack[d].value)
  BY DEF ToldInv, ToldBefore
<1>3. After(mem.Next, Iterator[d]) = {m \in Node : mem.VP[m] = stack[d].value} \ (B \cup {Iterator[d]})
  BY <1>1, <1>2, FollowersAre
<1> QED BY <1>3 DEF Following

LEMMA NothingAfter ==
  ASSUME NEW S, InOrder(S, None), NEW it \in Node, S.Next[it] = None
  PROVE  After(S.Next, it) = {}
  BY AfterIsReached DEF Reached

LEMMA LoopEndsRefines ==
  ASSUME ToldInv, LoopEnds
  PROVE  Promise!Next
<1>1. /\ HandleInv /\ HandleInv' /\ InOrder(mem, None) /\ NothingDangles /\ stack \in Seq(Frames)
      /\ ~stopped /\ stack # <<>> /\ Frame.calling = None /\ mem.Next[Current] = None
  BY HandleInvIs, LoopEndsKeeps DEF LoopEnds, InLoop, ToldInv
<1>2. /\ Top \in 1..MaxDepth /\ Top \in DOMAIN stack /\ Current \in Node /\ Frame \in Frames
      /\ Frame.value \in Value /\ mem.VP[Current] = Frame.value
      /\ Iterator[Top] = Current /\ stack[Top] = Frame
  BY <1>1, IteratorIsListed DEF Current, Frame, Frames
<1>3. Top \in Nat /\ DOMAIN stack = 1..Top
  BY <1>1, IteratorsAre
<1>4. Unborn \notin Value
  BY ValueHandlesAssumption
<1>5. mem' = Destroy(mem, Current)
  BY DEF LoopEnds
<1>6. /\ Pointed(mem, Current, Unborn, mem') /\ Moved(mem, Current, None, mem')
      /\ InOrder(mem', None)
  <2>1. mem.VP[Current] # Unborn
    BY <1>2, <1>4
  <2> QED BY <1>1, <1>2, <1>5, <2>1, DestroyInOrder, DestroyMoves DEF Pointed
<1>7. Current \notin Handle
  BY <1>1, <1>2, IteratorsAre
<1>8. \A h \in Handle : mem'.VP[h] = mem.VP[h]
  BY <1>6, <1>7 DEF Pointed, Node
<1>9. Points' = Points
  BY <1>8 DEF Points
<1>10. Following(Top) = {}
  BY <1>1, <1>2, NothingAfter DEF Following
<1>11. ASSUME NEW d \in DOMAIN stack PROVE Following(d)' = Following(d)
  <2>1. CASE d = Top
    <3>1. mem'.Next[Current] = None
      BY <1>2, <1>4, <1>6, NodesAreNotNone DEF Pointed, InOrder, Lists, NodesPlaced
    <3>2. After(mem'.Next, Current) = {}
      BY <1>2, <1>6, <3>1, NothingAfter
    <3>3. Following(d)' = After(mem'.Next, Iterator[d]) \cap Handle
      BY DEF Following, After
    <3> QED BY <1>2, <1>10, <2>1, <3>2, <3>3
  <2>2. CASE d # Top
    <3>1. Iterator[d] # Current /\ \A m \in Node : m # Current => mem'.VP[m] = mem.VP[m]
      BY <1>1, <1>2, <1>6, <2>2, IteratorsAre DEF Pointed
    <3>2. \A h \in Handle : h \in Following(d)' <=> mem'.VP[h] = stack[d].value /\ h \in Following(d)
      BY <1>1, <1>2, <1>6, <3>1, FollowingMoves
    <3>3. Following(d) \in SUBSET Handle /\ Following(d)' \in SUBSET Handle
      BY DEF Following
    <3>4. \A h \in Following(d) : mem.VP[h] = stack[d].value
      BY <1>1, FollowingPoint
    <3> QED BY <1>8, <3>2, <3>3, <3>4
  <2> QED BY <2>1, <2>2
<1>12. stopped' <=> /\ Frame.value \in mem'.HasValueHandle
                    /\ IsDeletion(Frame) \/ \E n \in Node : mem'.VP[n] = Frame.value /\ Kind(n) \in {"Tracking", "Weak"}
  BY Zenon DEF LoopEnds
<1>13. stopped' <=> Promise!Left(Promise!Told) # {}
  <2>1. \A h : h \in Promise!Left(Promise!Told) <=>
                 /\ h \in Handle /\ mem.VP[h] = Frame.value
                 /\ IsDeletion(Frame) \/ KindOf[h] \in {"Tracking", "Weak"}
    BY <1>1, ToldIs DEF Promise!Left, Promise!IsDeletion, IsDeletion, Points
  <2>2. ASSUME NEW h \in Promise!Left(Promise!Told) PROVE stopped'
    <3>1. h \in Handle /\ h \in Node /\ mem'.VP[h] = Frame.value
          /\ (IsDeletion(Frame) \/ Kind(h) \in {"Tracking", "Weak"})
      BY <1>8, <2>1, <2>2 DEF Node, Kind
    <3>2. Frame.value \in mem'.HasValueHandle
      BY <1>2, <1>6, <3>1, NoListNoNodes
    <3> QED BY <1>12, <3>1, <3>2
  <2>3. ASSUME stopped', ~IsDeletion(Frame) PROVE Promise!Left(Promise!Told) # {}
    <3>1. PICK n \in Node : mem'.VP[n] = Frame.value /\ Kind(n) \in {"Tracking", "Weak"}
      BY <1>12, <2>3
    <3>2. n \in Handle /\ KindOf[n] \in {"Tracking", "Weak"}
      BY <3>1 DEF Kind
    <3> QED BY <1>8, <2>1, <3>1, <3>2
  <2>4. ASSUME stopped', IsDeletion(Frame) PROVE Promise!Left(Promise!Told) # {}
    <3>1. mem'.ValueHandles[Frame.value] \in Node
      BY <1>2, <1>6, <1>12, <2>4 DEF InOrder, Lists, Flags, Mem
    <3> DEFINE n == mem'.ValueHandles[Frame.value]
    <3>2. mem'.VP[n] = Frame.value
      BY <1>2, <1>6, <3>1, NodesAreNotNone DEF InOrder, Lists, HeadsBack
    <3>3. n # Current /\ mem.VP[n] = Frame.value
      BY <1>2, <1>4, <1>6, <3>1, <3>2 DEF Pointed
    <3>4. n \in Handle
      <4> SUFFICES ASSUME n \notin Handle PROVE FALSE
        OBVIOUS
      <4>1. PICK c \in 1..MaxDepth : n = Iterator[c]
        BY <3>1 DEF Node, Iterators
      <4>2. mem.VP[Iterator[c]] = Frame.value /\ c # Top
        BY <1>2, <3>3, <4>1
      <4>3. mem.VP[Iterator[c]] = IF c <= Top THEN stack[c].value ELSE Unborn
        BY <1>1 DEF NothingDangles, Top
      <4>4. c \in 1..(Top - 1) /\ stack[c].value = stack[Top].value
        BY <1>2, <1>3, <1>4, <4>2, <4>3
      <4> QED BY <1>1, <1>2, <2>4, <4>4 DEF NothingDangles
    <3> HIDE DEF n
    <3> QED BY <2>1, <2>4, <3>3, <3>4
  <2> QED BY <2>2, <2>3, <2>4
<1>14. stack' = (IF stopped' THEN stack ELSE SubSeq(stack, 1, Top - 1))
       /\ alive' = (IF IsDeletion(Frame) /\ ~stopped' THEN alive \ {Frame.value} ELSE alive)
       /\ stopped' \in BOOLEAN
  BY <1>1 DEF LoopEnds, HandleInv, TypeOK
<1>15. Loops' = IF stopped' THEN Loops ELSE SubSeq(Loops, 1, Top - 1)
  <2>1. CASE stopped'
    <3>1. stack' = stack
      BY <1>14, <2>1
    <3> QED BY <1>11, <2>1, <3>1 DEF Loops, LoopOf
  <2>2. CASE ~stopped'
    <3>1. stack' = SubSeq(stack, 1, Top - 1)
      BY <1>14, <2>2
    <3>2. Top - 1 \in Nat /\ \A d \in 1..(Top - 1) : d \in 1..Top /\ stack[d] \in Frames
      BY <1>1, <1>2, <1>3
    <3>3. DOMAIN stack' = 1..(Top - 1) /\ \A d \in 1..(Top - 1) : stack'[d] = stack[d]
      <4>1. /\ SubSeq(stack, 1, Top - 1) \in Seq(Frames)
            /\ Len(SubSeq(stack, 1, Top - 1)) = Top - 1
            /\ \A d \in 1..(Top - 1) : SubSeq(stack, 1, Top - 1)[d] = stack[d]
        BY <3>2
      <4> QED BY <1>3, <3>1, <3>2, <4>1, LenProperties
    <3>4. SubSeq(Loops, 1, Top - 1) = [d \in 1..(Top - 1) |-> Loops[d]]
      <4> DEFINE X == {Loops[d] : d \in 1..Top}
                 A == SubSeq(Loops, 1, Top - 1)
      <4>1. \A d \in 1..(Top - 1) : Loops[d] \in X
        BY <3>2
      <4> HIDE DEF Loops, X
      <4>2. /\ A \in Seq(X) /\ Len(A) = Top - 1
            /\ \A d \in 1..(Top - 1) : A[d] = Loops[d]
        BY <3>2, <4>1
      <4> HIDE DEF A
      <4>3. A \in [1..(Top - 1) -> X]
        BY <4>2, LenProperties
      <4>4. A = [d \in 1..(Top - 1) |-> Loops[d]]
        BY <4>2, <4>3
      <4> QED BY <4>4 DEF A
    <3>5. Loops' = [d \in 1..(Top - 1) |-> LoopOf(stack'[d], Following(d)')]
      BY <3>3 DEF Loops, LoopOf
    <3>6. ASSUME NEW d \in 1..(Top - 1) PROVE LoopOf(stack'[d], Following(d)') = Loops[d]
      <4>1. d \in DOMAIN stack
        BY <1>3, <3>2
      <4> QED BY <1>11, <3>3, <4>1 DEF Loops
    <3> QED BY <2>2, <3>4, <3>5, <3>6
  <2> QED BY <2>1, <2>2
<1>16. Promise!Done
  <2>1. /\ Promise!Top = Top /\ Promise!Told.calling = None /\ Promise!Told.value = Frame.value
        /\ Promise!Told.waiting = {}
        /\ Promise!IsDeletion(Promise!Told) <=> IsDeletion(Frame)
    BY <1>1, <1>10, ToldIs DEF Promise!IsDeletion, IsDeletion
  <2>2. Loops # <<>>
    BY <1>1, LoopsShape
  <2>3. Promise!Telling
    BY <1>1, <2>1, <2>2 DEF Promise!Telling
  <2>4. stopped' = (Promise!Left(Promise!Told) # {})
    BY <1>13, <1>14
  <2>5. Loops' = IF stopped' THEN Loops ELSE SubSeq(Loops, 1, Promise!Top - 1)
    BY <1>15, <2>1
  <2>6. alive' = IF Promise!IsDeletion(Promise!Told) /\ ~stopped' THEN alive \ {Promise!Told.value} ELSE alive
    BY <1>14, <2>1
  <2> QED BY ONLY <1>9, <2>1, <2>3, <2>4, <2>5, <2>6 DEF Promise!Done
<1> QED BY <1>16 DEF Promise!Next

\* Who came late to an iteration is there.
LateAreHere ==
  \A d \in DOMAIN stack : \A h \in stack[d].late : mem.VP[h] = stack[d].value

\* The iterator moves past the entry, and this may be told. The entry no longer waits.
LEMMA VisitPasses ==
  ASSUME ToldInv, Visit, NEW entry, entry = mem.Next[Current]
  PROVE  /\ entry \in Node /\ (entry \in Handle => entry \in Following(Top))
         /\ \E x \in Value \cup {None, Tombstone}, moves \in BOOLEAN :
              /\ moves <=> entry \in Handle /\ KindOf[entry] \in {"Weak", "Tracking"}
              /\ moves => x = IF KindOf[entry] = "Tracking" /\ IsDeletion(Frame) THEN Tombstone ELSE Frame.new
              /\ \A h \in Handle : mem'.VP[h] = IF moves /\ h = entry THEN x ELSE mem.VP[h]
         /\ \A d \in DOMAIN stack, h \in Handle :
              h \in Following(d)' <=>
                /\ mem'.VP[h] = stack[d].value
                /\ h \in Following(d) /\ ~(d = Top /\ h = entry)
<1>1. /\ HandleInv /\ InOrder(mem, None) /\ stack \in Seq(Frames) /\ alive \subseteq Value
      /\ ~stopped /\ stack # <<>> /\ entry # None
  BY HandleInvIs DEF Visit, InLoop, ToldInv
<1>2. /\ Top \in DOMAIN stack /\ Frame \in Frames /\ Current \in Node
      /\ mem.VP[Current] = Frame.value /\ Frame.value \in Value /\ Frame.new \in Value \cup {None}
      /\ Iterator[Top] = Current /\ stack[Top] = Frame
  BY <1>1, IteratorIsListed DEF Current, Frame
<1>3. Current \notin Handle /\ \A d \in DOMAIN stack : d # Top => Iterator[d] # Current
  BY <1>1, <1>2, IteratorsAre
<1> SUFFICES ASSUME NEW it, it = Current, NEW v, v = Frame.value,
                    NEW moved, moved = AddToExistingUseListAfter(RemoveFromUseList(mem, it), it, entry)
             PROVE  /\ entry \in Node /\ (entry \in Handle => entry \in Following(Top))
                    /\ \E x \in Value \cup {None, Tombstone}, moves \in BOOLEAN :
                         /\ moves <=> entry \in Handle /\ KindOf[entry] \in {"Weak", "Tracking"}
                         /\ moves => x = IF KindOf[entry] = "Tracking" /\ IsDeletion(Frame) THEN Tombstone ELSE Frame.new
                         /\ \A h \in Handle : mem'.VP[h] = IF moves /\ h = entry THEN x ELSE mem.VP[h]
                    /\ \A d \in DOMAIN stack, h \in Handle :
                         h \in Following(d)' <=>
                           /\ mem'.VP[h] = stack[d].value
                           /\ h \in Following(d) /\ ~(d = Top /\ h = entry)
  OBVIOUS
<1>4. it \in Node /\ mem.VP[it] = v /\ v \in Value /\ mem.Next[it] = entry
  BY <1>2
<1>5. InOrder(moved, None) /\ moved.VP = mem.VP
  BY <1>1, <1>4, IteratorMoves
<1>6. PICK B \in SUBSET Node : Passed(mem, B, it, v)
  BY <1>1, <1>2 DEF ToldInv, ToldBefore
<1>7. /\ Passed(moved, B \cup {entry}, it, v)
      /\ \A w \in Value, other \in Node \ {it}, C \in SUBSET Node : Passed(mem, C, other, w) =>
           \E C2 \in SUBSET Node : Passed(moved, C2, other, w) /\ C2 \ {it} = C \ {it}
  <2>1. /\ it \in Node /\ InOrder(mem, None) /\ mem.VP[it] \in Value /\ mem.Next[it] # None
        /\ Passed(mem, B, it, mem.VP[it])
    BY <1>1, <1>4, <1>6
  <2> DEFINE Q == \A S, c, D :
                    /\ c \in Node /\ InOrder(S, None) /\ S.VP[c] \in Value /\ S.Next[c] # None
                    /\ Passed(S, D, c, S.VP[c])
                    => LET m == AddToExistingUseListAfter(RemoveFromUseList(S, c), c, S.Next[c])
                       IN /\ Passed(m, D \cup {S.Next[c]}, c, S.VP[c])
                          /\ \A w \in Value, other \in Node \ {c}, C \in SUBSET Node : Passed(S, C, other, w) =>
                               \E C2 \in SUBSET Node : Passed(m, C2, other, w) /\ C2 \ {c} = C \ {c}
  <2>2. Q
    BY ONLY IteratorPasses
  <2>3. moved = AddToExistingUseListAfter(RemoveFromUseList(mem, it), it, mem.Next[it])
        /\ mem.Next[it] = entry /\ mem.VP[it] = v
    BY <1>4
  <2> QED BY ONLY <2>1, <2>2, <2>3
<1>8. entry \in Node /\ mem.VP[entry] = v /\ entry # it
  <2>1. entry # it
    BY <1>4, <1>5, <1>7 DEF Passed
  <2> QED BY <1>1, <1>4, <2>1 DEF InOrder, Lists, Mem, NextBack
<1>9. entry \notin B
  BY <1>4, <1>6 DEF Passed
<1>10. After(mem.Next, it) = {m \in Node : mem.VP[m] = v} \ (B \cup {it})
  BY <1>1, <1>4, <1>6, FollowersAre
<1>11. entry \in Handle => entry \in Following(Top)
  BY <1>2, <1>8, <1>9, <1>10 DEF Following
\* The iterator has moved.
<1>12. ASSUME NEW d \in DOMAIN stack
       PROVE  \E C \in SUBSET Node :
                /\ Passed(moved, C, Iterator[d], stack[d].value)
                /\ \A h \in Handle : h \in After(moved.Next, Iterator[d]) <=>
                                       h \in Following(d) /\ ~(d = Top /\ h = entry)
  <2>1. /\ Iterator[d] \in Node /\ Iterator[d] \notin Handle /\ stack[d].value \in Value
        /\ mem.VP[Iterator[d]] = stack[d].value
    BY <1>1, IteratorsAre DEF Frames
  <2>2. CASE d = Top
    <3>1. Passed(moved, B \cup {entry}, Iterator[d], stack[d].value) /\ B \cup {entry} \in SUBSET Node
      BY <1>2, <1>7, <1>8, <2>2
    <3>2. After(moved.Next, it) = {m \in Node : moved.VP[m] = v} \ ((B \cup {entry}) \cup {it})
      BY <1>4, <1>5, <1>7, FollowersAre
    <3>3. Following(d) = After(mem.Next, it) \cap Handle
      BY <1>2, <2>2 DEF Following
    <3>4. \A h \in Handle : h \in After(moved.Next, Iterator[d]) <=>
                              h \in Following(d) /\ ~(d = Top /\ h = entry)
      BY <1>2, <1>5, <1>10, <2>2, <3>2, <3>3
    <3> QED BY <3>1, <3>4
  <2>3. CASE d # Top
    <3>1. Iterator[d] # it
      BY <1>3, <2>3
    <3>2. PICK D \in SUBSET Node : Passed(mem, D, Iterator[d], stack[d].value)
      BY <1>1 DEF ToldInv, ToldBefore
    <3>3. PICK C \in SUBSET Node : Passed(moved, C, Iterator[d], stack[d].value) /\ C \ {it} = D \ {it}
      BY <1>7, <2>1, <3>1, <3>2
    <3>4. After(mem.Next, Iterator[d]) = {m \in Node : mem.VP[m] = stack[d].value} \ (D \cup {Iterator[d]})
      BY <1>1, <2>1, <3>2, FollowersAre
    <3>5. moved.VP[Iterator[d]] = stack[d].value
      BY <1>5, <2>1
    <3>6. After(moved.Next, Iterator[d]) = {m \in Node : moved.VP[m] = stack[d].value} \ (C \cup {Iterator[d]})
      BY <1>5, <2>1, <3>3, <3>5, FollowersAre
    <3>7. \A h \in Handle : h \in Node /\ h # it /\ (h \in C <=> h \in D)
      BY <1>3, <3>3 DEF Node
    <3>8. \A h \in Handle : h \in After(moved.Next, Iterator[d]) <=> h \in Following(d)
      BY <1>5, <3>4, <3>6, <3>7 DEF Following
    <3> QED BY <2>3, <3>3, <3>8
  <2> QED BY <2>2, <2>3
<1>13. PICK grows \in BOOLEAN : mem' = ToldHandle(moved, entry, grows)
  BY DEF Visit
<1> DEFINE moves == entry \in Handle /\ KindOf[entry] \in {"Weak", "Tracking"}
           x == IF KindOf[entry] = "Tracking" /\ IsDeletion(Frame) THEN Tombstone ELSE Frame.new
<1>14. x \in Value \cup {None, Tombstone}
  BY <1>2
<1>15. /\ ~moves => mem' = moved
       /\ moves => mem' = Assign(moved, entry, x, grows)
  BY <1>13 DEF ToldHandle, Kind
<1>16. CASE ~moves
  <2>1. mem' = moved
    BY <1>15, <1>16
  <2>2. \A d \in DOMAIN stack : Following(d)' = After(moved.Next, Iterator[d]) \cap Handle
    BY <2>1 DEF Following, After
  <2>3. \A d \in DOMAIN stack, h \in Handle :
          h \in Following(d)' <=> h \in Following(d) /\ ~(d = Top /\ h = entry)
    BY <1>12, <2>2
  <2>4. \A d \in DOMAIN stack : \A h \in Following(d) : mem.VP[h] = stack[d].value
    BY <1>1, FollowingPoint
  <2>5. \A h \in Handle : mem'.VP[h] = mem.VP[h]
    BY <1>5, <2>1
  <2>6. \A d \in DOMAIN stack, h \in Handle :
          h \in Following(d)' <=> /\ mem'.VP[h] = stack[d].value
                                  /\ h \in Following(d) /\ ~(d = Top /\ h = entry)
    BY <2>3, <2>4, <2>5
  <2>7. \E y \in Value \cup {None, Tombstone}, m \in BOOLEAN :
          /\ m <=> moves
          /\ m => y = x
          /\ \A h \in Handle : mem'.VP[h] = IF m /\ h = entry THEN y ELSE mem.VP[h]
    BY <1>14, <1>16, <2>5
  <2> QED BY <1>8, <1>11, <2>6, <2>7
<1>17. CASE moves
  <2> HIDE DEF x
  <2>1. mem' = Assign(moved, entry, x, grows)
    BY <1>15, <1>17
  <2>2. Pointed(moved, entry, x, mem') /\ Moved(moved, entry, None, mem')
    BY <1>5, <1>8, <1>14, <2>1, AssignInOrder, AssignMoves
  <2>3. InOrder(mem', None) /\ \A m \in Node : mem'.VP[m] = IF m = entry THEN x ELSE mem.VP[m]
    BY <1>5, <2>2 DEF Pointed
  <2>4. ASSUME NEW d \in DOMAIN stack, NEW h \in Handle
        PROVE  h \in Following(d)' <=> /\ mem'.VP[h] = stack[d].value
                                       /\ h \in Following(d) /\ ~(d = Top /\ h = entry)
    <3>1. /\ Iterator[d] \in Node \ {entry} /\ Iterator[d] \notin Handle /\ stack[d].value \in Value
          /\ moved.VP[Iterator[d]] = stack[d].value
      BY <1>1, <1>5, <1>17, IteratorsAre DEF Frames
    <3>2. PICK C \in SUBSET Node : /\ Passed(moved, C, Iterator[d], stack[d].value)
                                   /\ \A k \in Handle : k \in After(moved.Next, Iterator[d]) <=>
                                                          k \in Following(d) /\ ~(d = Top /\ k = entry)
      BY <1>12
    <3>3. /\ InOrder(moved, None) /\ InOrder(mem', None) /\ entry \in Node /\ Moved(moved, entry, None, mem')
          /\ \A m \in Node : m # entry => mem'.VP[m] = moved.VP[m]
      BY <1>5, <1>8, <2>2, <2>3
    <3>4. h \in After(mem'.Next, Iterator[d]) <=>
            mem'.VP[h] = stack[d].value /\ h \in After(moved.Next, Iterator[d])
      <4> DEFINE c == Iterator[d]
                 w == stack[d].value
      <4>1. c \in Node \ {entry} /\ c \notin Handle /\ w \in Value /\ moved.VP[c] = w /\ Passed(moved, C, c, w)
            /\ C \in SUBSET Node /\ h \in Handle
        BY <3>1, <3>2
      <4> HIDE DEF c, w
      <4>2. h \in After(mem'.Next, c) <=> mem'.VP[h] = w /\ h \in After(moved.Next, c)
        BY ONLY <3>3, <4>1, WaitingMoves
      <4> QED BY ONLY <4>2 DEF c, w
    <3>5. Following(d)' = After(mem'.Next, Iterator[d]) \cap Handle
      BY DEF Following, After
    <3> QED BY <3>2, <3>4, <3>5
  <2>5. \A h \in Handle : h \in Node /\ mem'.VP[h] = IF h = entry THEN x ELSE mem.VP[h]
    BY <2>3 DEF Node
  <2>6. \E y \in Value \cup {None, Tombstone}, m \in BOOLEAN :
          /\ m <=> moves
          /\ m => y = x
          /\ \A h \in Handle : mem'.VP[h] = IF m /\ h = entry THEN y ELSE mem.VP[h]
    BY <1>14, <1>17, <2>5
  <2> QED BY <1>8, <1>11, <2>4, <2>6 DEF x
<1> QED BY <1>16, <1>17

LEMMA VisitRefines ==
  ASSUME ToldInv, LateAreHere, Visit
  PROVE  Promise!Tell \/ UNCHANGED Promise!vars
<1>1. /\ HandleInv /\ HandleInv' /\ stack \in Seq(Frames) /\ UNCHANGED <<alive, stopped>>
      /\ ~stopped /\ stack # <<>> /\ Frame.calling = None
  BY HandleInvIs, VisitKeeps DEF Visit, InLoop, ToldInv
<1>2. /\ Top \in DOMAIN stack /\ Frame \in Frames /\ stack[Top] = Frame
      /\ DOMAIN stack = 1..Top /\ Top \in Nat
      /\ \A d \in DOMAIN stack : stack[d] \in Frames
  BY <1>1, IteratorIsListed, IteratorsAre DEF Frame
<1>3. PICK entry : entry = mem.Next[Current]
  OBVIOUS
<1>4. /\ entry \in Node /\ (entry \in Handle => entry \in Following(Top))
      /\ \E x \in Value \cup {None, Tombstone}, moves \in BOOLEAN :
           /\ moves <=> entry \in Handle /\ KindOf[entry] \in {"Weak", "Tracking"}
           /\ moves => x = IF KindOf[entry] = "Tracking" /\ IsDeletion(Frame) THEN Tombstone ELSE Frame.new
           /\ \A h \in Handle : mem'.VP[h] = IF moves /\ h = entry THEN x ELSE mem.VP[h]
      /\ \A d \in DOMAIN stack, h \in Handle :
           h \in Following(d)' <=>
             /\ mem'.VP[h] = stack[d].value
             /\ h \in Following(d) /\ ~(d = Top /\ h = entry)
  BY <1>3, VisitPasses
<1>5. PICK x \in Value \cup {None, Tombstone}, moves \in BOOLEAN :
        /\ moves <=> entry \in Handle /\ KindOf[entry] \in {"Weak", "Tracking"}
        /\ moves => x = IF KindOf[entry] = "Tracking" /\ IsDeletion(Frame) THEN Tombstone ELSE Frame.new
        /\ \A h \in Handle : mem'.VP[h] = IF moves /\ h = entry THEN x ELSE mem.VP[h]
  BY <1>4
<1> DEFINE c == IF Kind(entry) = "Callback" THEN entry ELSE None
           called == [stack EXCEPT ![Top].calling = c]
           waiting == [d \in DOMAIN stack |-> IF d = Top THEN Following(d) \ {entry} ELSE Following(d)]
           rest == [Loops EXCEPT ![Top].waiting = @ \ {entry}]
<1>6. stack' = Noted(called, mem')
  BY <1>3 DEF Visit
<1>7. /\ entry \in Handle => Kind(entry) = KindOf[entry]
      /\ entry \notin Handle => c = None
      /\ KindOf \in [Handle -> {"Assert", "Callback", "Tracking", "Weak"}]
  BY ValueHandlesAssumption DEF Kind
<1>8. called \in Seq(Frames) /\ Len(called) = Len(stack)
      /\ \A d \in DOMAIN stack : called[d] = IF d = Top THEN [Frame EXCEPT !.calling = c] ELSE stack[d]
  <2> DEFINE f == [stack[Top] EXCEPT !.calling = c]
  <2>1. called = [stack EXCEPT ![Top] = f]
    OBVIOUS
  <2>2. f \in Frames /\ f = [Frame EXCEPT !.calling = c]
    <3>1. c \in Handle \cup {None}
      BY <1>7
    <3> HIDE DEF c
    <3> QED BY <1>2, <3>1 DEF Frames, Frame
  <2> HIDE DEF f, called, c
  <2>3. DOMAIN stack = 1..Len(stack)
    BY <1>1
  <2>4. /\ called \in Seq(Frames) /\ Len(called) = Len(stack)
        /\ \A d \in 1..Len(stack) : called[d] = IF d = Top THEN f ELSE stack[d]
    BY <1>1, <1>2, <2>1, <2>2, <2>3, ExceptSeq
  <2> QED BY <2>2, <2>3, <2>4
<1> HIDE DEF called, c
<1>9. \A d \in DOMAIN stack :
        /\ called[d].value = stack[d].value /\ called[d].new = stack[d].new /\ called[d].late = stack[d].late
        /\ called[d].calling = IF d = Top THEN c ELSE stack[d].calling
  BY <1>2, <1>8 DEF Frames
<1>10. \A d \in DOMAIN stack, h \in Handle :
         h \in Following(d)' <=> mem'.VP[h] = called[d].value /\ h \in waiting[d]
  BY <1>4, <1>9
<1>11. rest = [d \in DOMAIN stack |-> LoopOf(stack[d], waiting[d])]
  <2> DEFINE l == [Loops[Top] EXCEPT !.waiting = @ \ {entry}]
  <2>1. DOMAIN Loops = DOMAIN stack /\ \A d \in DOMAIN stack : Loops[d] = LoopOf(stack[d], Following(d))
    BY <1>1, LoopsShape
  <2>2. rest = [d \in DOMAIN stack |-> IF d = Top THEN l ELSE Loops[d]]
    BY <1>2, <2>1 DEF Loops
  <2>3. l = LoopOf(stack[Top], waiting[Top])
    <3>1. waiting[Top] = Following(Top) \ {entry}
      BY <1>2
    <3> DEFINE k == LoopOf(stack[Top], Following(Top))
               w == Following(Top) \ {entry}
    <3>2. Loops[Top] = k
      BY <1>2, <2>1
    <3>3. k.waiting = Following(Top)
      BY DEF LoopOf
    <3>4. [k EXCEPT !.waiting = w] = LoopOf(stack[Top], w)
      <4> HIDE DEF w
      <4> QED BY DEF LoopOf
    <3> HIDE DEF k
    <3> QED BY <3>1, <3>2, <3>3, <3>4
  <2>4. ASSUME NEW d \in DOMAIN stack, d # Top PROVE Loops[d] = LoopOf(stack[d], waiting[d])
    BY <2>1, <2>4
  <2> HIDE DEF l, rest, waiting
  <2> QED BY <2>2, <2>3, <2>4
<1>12. \A d \in DOMAIN stack : \A h \in Following(d) : h \in Handle /\ mem.VP[h] = stack[d].value
  BY <1>1, FollowingPoint
<1>13. \A d \in DOMAIN stack : Following(d) \subseteq Handle /\ Following(d)' \subseteq Handle
  BY DEF Following
\* Nothing is pointed elsewhere.
<1>14. ASSUME ~moves
       PROVE  /\ Points' = Points
              /\ \A d \in DOMAIN stack : /\ Following(d)' = waiting[d]
                                         /\ stack'[d].late = stack[d].late
              /\ Loops' = [d \in DOMAIN stack |-> LoopOf(called[d], waiting[d])]
  <2>1. \A h \in Handle : mem'.VP[h] = mem.VP[h]
    BY <1>5, <1>14
  <2>2. Points' = Points
    BY <2>1 DEF Points
  <2>3. ASSUME NEW d \in DOMAIN stack PROVE Following(d)' = waiting[d]
    <3>1. \A h \in waiting[d] : h \in Handle /\ h \in Following(d)
      BY <1>13
    <3>2. \A h \in Handle : h \in Following(d)' <=> h \in waiting[d]
      BY <1>9, <1>10, <1>12, <2>1, <3>1
    <3> HIDE DEF waiting
    <3> QED BY <1>13, <3>1, <3>2
  <2> HIDE DEF waiting
  <2>4. DOMAIN called = DOMAIN stack /\ DOMAIN stack' = DOMAIN stack
    <3>1. stack' \in Seq(Frames) /\ Len(stack') = Len(called)
      BY <1>6, <1>8, Noting
    <3> QED BY <1>1, <1>8, <3>1, LenProperties
  <2>5. ASSUME NEW d \in DOMAIN stack
        PROVE  /\ stack'[d].value = called[d].value /\ stack'[d].new = called[d].new
               /\ stack'[d].calling = called[d].calling
               /\ stack'[d].late = called[d].late /\ stack'[d].late = stack[d].late
    <3>1. /\ stack'[d].value = called[d].value /\ stack'[d].new = called[d].new
          /\ stack'[d].calling = called[d].calling
          /\ stack'[d].late = {h \in Handle : /\ mem'.VP[h] = called[d].value
                                              /\ h \in called[d].late \/ mem.VP[h] # called[d].value}
      BY <1>6, <1>8, <2>4, NotingIs
    <3>2. stack[d].late \subseteq Handle /\ \A h \in stack[d].late : mem.VP[h] = stack[d].value
      BY <1>2 DEF Frames, LateAreHere
    <3>3. {h \in Handle : /\ mem'.VP[h] = called[d].value
                          /\ h \in called[d].late \/ mem.VP[h] # called[d].value} = stack[d].late
      BY <1>9, <2>1, <3>2
    <3> QED BY <1>9, <3>1, <3>3
  <2>6. Loops' = [d \in DOMAIN stack |-> LoopOf(stack'[d], Following(d)')]
    BY <2>4 DEF Loops, LoopOf
  <2>7. \A d \in DOMAIN stack : LoopOf(stack'[d], Following(d)') = LoopOf(called[d], waiting[d])
    BY <2>3, <2>5 DEF LoopOf
  <2> QED BY <2>2, <2>3, <2>5, <2>6, <2>7
<1>15. ASSUME c = None
       PROVE  rest = [d \in DOMAIN stack |-> LoopOf(called[d], waiting[d])]
  <2>1. \A d \in DOMAIN stack : LoopOf(called[d], waiting[d]) = LoopOf(stack[d], waiting[d])
    <3> HIDE DEF waiting
    <3> QED BY <1>1, <1>2, <1>9, <1>15 DEF LoopOf
  <2> HIDE DEF rest, waiting
  <2> QED BY <1>11, <2>1
<1> HIDE DEF rest, waiting
\* The entry is another iterator.
<1>16. CASE entry \notin Handle
  <2>1. c = None /\ ~moves
    BY <1>5, <1>7, <1>16
  <2>2. \A d \in DOMAIN stack : waiting[d] = Following(d)
    BY <1>13, <1>16 DEF waiting
  <2>3. Loops' = [d \in DOMAIN stack |-> LoopOf(stack[d], Following(d))]
    BY <1>11, <1>14, <1>15, <2>1, <2>2
  <2> QED BY <1>1, <1>14, <2>1, <2>3 DEF Loops, Promise!vars
<1>17. CASE entry \in Handle
  <2> DEFINE told == CASE KindOf[entry] \in {"Assert", "Callback"} -> Points[entry]
                       [] KindOf[entry] = "Weak" /\ IsDeletion(Frame) -> None
                       [] KindOf[entry] = "Tracking" /\ IsDeletion(Frame) -> Tombstone
                       [] OTHER -> Frame.new
  <2>1. Points' = [Points EXCEPT ![entry] = told]
    <3>1. CASE moves
      <4>1. told = x
        BY <1>5, <1>7, <3>1 DEF IsDeletion
      <4> HIDE DEF told
      <4> QED BY <1>5, <1>17, <3>1, <4>1 DEF Points
    <3>2. CASE ~moves
      <4>1. told = Points[entry]
        BY <1>5, <1>7, <1>17, <3>2
      <4> HIDE DEF told
      <4>2. [Points EXCEPT ![entry] = Points[entry]] = Points
        BY <1>17 DEF Points
      <4> QED BY <1>14, <3>2, <4>1, <4>2
    <3> QED BY <3>1, <3>2
  <2>2. Loops' = IF KindOf[entry] = "Callback" THEN [rest EXCEPT ![Top].calling = entry]
                 ELSE Promise!Changed(rest, Points', <<>>)
    <3>1. CASE KindOf[entry] = "Callback"
      <4>1. ~moves /\ c = entry
        BY <1>5, <1>7, <1>17, <3>1 DEF c
      <4>2. Loops' = [d \in DOMAIN stack |-> LoopOf(called[d], waiting[d])]
        BY <1>14, <4>1
      <4> DEFINE l == [rest[Top] EXCEPT !.calling = entry]
      <4>3. [rest EXCEPT ![Top].calling = entry] = [d \in DOMAIN stack |-> IF d = Top THEN l ELSE rest[d]]
        BY <1>2, <1>11
      <4>4. rest[Top] = LoopOf(Frame, waiting[Top])
        BY <1>2, <1>11
      <4>5. l = LoopOf(called[Top], waiting[Top])
        BY <1>2, <1>9, <4>1, <4>4 DEF LoopOf
      <4>6. \A d \in DOMAIN stack : d # Top => rest[d] = LoopOf(called[d], waiting[d])
        BY <1>8, <1>11
      <4> HIDE DEF l
      <4> QED BY <3>1, <4>2, <4>3, <4>5, <4>6
    <3>2. CASE KindOf[entry] # "Callback"
      <4>1. c = None
        BY <1>7, <1>17, <3>2 DEF c
      <4>2. \A d \in DOMAIN stack :
              /\ called[d].value = stack[d].value
              /\ \A h \in Handle :
                   h \in Following(d)' <=> /\ mem'.VP[h] = called[d].value
                                           /\ h \in waiting[d] \/ (h \in DOMAIN <<>> /\ <<>>[h] \in waiting[d])
        <5>1. \A h : h \notin DOMAIN <<>>
          OBVIOUS
        <5> QED BY <1>9, <1>10, <5>1
      <4>3. HandleInv /\ HandleInv' /\ called \in Seq(Frames) /\ Len(called) = Len(stack)
            /\ stack' = Noted(called, mem')
        BY <1>1, <1>6, <1>8
      <4>4. Loops' = Promise!Changed([d \in DOMAIN stack |-> LoopOf(called[d], waiting[d])], Points', <<>>)
        BY ONLY <4>2, <4>3, LoopsAre
      <4> QED BY <1>15, <3>2, <4>1, <4>4
    <3> QED BY <3>1, <3>2
  <2>3. /\ Promise!Top = Top /\ entry \in Promise!Told.waiting
        /\ Promise!IsDeletion(Promise!Told) <=> IsDeletion(Frame)
        /\ Promise!Told.new = Frame.new /\ Promise!Telling
    BY <1>1, <1>4, <1>17, ToldIs, LoopsShape DEF Promise!IsDeletion, IsDeletion, Promise!Telling
  <2>4. Promise!Tell
    <3>1. UNCHANGED <<alive, stopped>>
      BY <1>1
    <3> DEFINE told0 == CASE KindOf[entry] \in {"Assert", "Callback"} -> Points[entry]
                          [] KindOf[entry] = "Weak" /\ Promise!IsDeletion(Promise!Told) -> None
                          [] KindOf[entry] = "Tracking" /\ Promise!IsDeletion(Promise!Told) -> Tombstone
                          [] OTHER -> Promise!Told.new
               rest0 == [Loops EXCEPT ![Promise!Top].waiting = @ \ {entry}]
    <3>2. told0 = told
      BY <1>7, <1>17, <2>3
    <3>3. rest0 = rest
      BY <2>3 DEF rest
    <3> HIDE DEF told0, told, rest0
    <3>4. /\ Points' = [Points EXCEPT ![entry] = told0]
          /\ Loops' = IF KindOf[entry] = "Callback" THEN [rest0 EXCEPT ![Promise!Top].calling = entry]
                      ELSE Promise!Changed(rest0, Points', <<>>)
      BY <2>1, <2>2, <2>3, <3>2, <3>3
    <3> QED BY ONLY <2>3, <3>1, <3>4 DEF Promise!Tell, told0, rest0
  <2> QED BY <2>4
<1> QED BY <1>16, <1>17

LEMMA LateByNoting ==
  ASSUME NEW frames \in Seq(Frames), stack' = Noted(frames, mem')
  PROVE  LateAreHere'
<1>1. /\ stack' \in Seq(Frames) /\ Len(stack') = Len(frames)
  BY Noting
<1>2. DOMAIN stack' = DOMAIN frames
  BY <1>1, LenProperties
<1>3. ASSUME NEW d \in DOMAIN stack', NEW h \in stack'[d].late
      PROVE  mem'.VP[h] = stack'[d].value
  <2>1. /\ stack'[d].value = frames[d].value
        /\ stack'[d].late = {k \in Handle : /\ mem'.VP[k] = frames[d].value
                                            /\ k \in frames[d].late \/ mem.VP[k] # frames[d].value}
    BY <1>2, NotingIs
  <2> QED BY <2>1
<1> QED BY <1>3 DEF LateAreHere

LEMMA LateStay ==
  ASSUME LateAreHere, stack \in Seq(Frames), Points' = Points,
         \A d \in DOMAIN stack' : stack'[d].late = {} \/ (d \in DOMAIN stack /\ stack'[d] = stack[d])
  PROVE  LateAreHere'
<1> SUFFICES ASSUME NEW d \in DOMAIN stack', NEW h \in stack'[d].late
             PROVE  mem'.VP[h] = stack'[d].value
  BY DEF LateAreHere
<1>1. d \in DOMAIN stack /\ stack'[d] = stack[d]
  OBVIOUS
<1>2. stack[d] \in Frames
  BY <1>1
<1>3. h \in Handle /\ mem.VP[h] = stack[d].value
  BY <1>1, <1>2 DEF Frames, LateAreHere
<1>4. Points'[h] = mem'.VP[h] /\ Points[h] = mem.VP[h]
  BY <1>3 DEF Points
<1> QED BY <1>1, <1>3, <1>4

LEMMA LateCalls ==
  ASSUME stack \in Seq(Frames), Top \in DOMAIN stack, NEW c \in Handle \cup {None}
  PROVE  [stack EXCEPT ![Top].calling = c] \in Seq(Frames)
<1> DEFINE f == [stack[Top] EXCEPT !.calling = c]
<1>1. f \in Frames
  <2>1. stack[Top] \in Frames
    OBVIOUS
  <2> QED BY <2>1 DEF Frames
<1>2. [stack EXCEPT ![Top].calling = c] = [stack EXCEPT ![Top] = f]
  OBVIOUS
<1> HIDE DEF f
<1>3. DOMAIN stack = 1..Len(stack)
  OBVIOUS
<1> QED BY <1>1, <1>2, <1>3, ExceptSeq

LEMMA LateIteration ==
  ASSUME ToldInv, LateAreHere, NEW v \in Value, NEW new \in Value \cup {None}, v \in mem.HasValueHandle,
         Iterate(v, new), ~stopped, HandleInv'
  PROVE  LateAreHere'
<1> DEFINE frame == [value |-> v, new |-> new, calling |-> None, late |-> {}]
<1>1. Points' = Points
  BY IterationRefines
<1>2. stack \in Seq(Frames) /\ DOMAIN stack = 1..Top /\ Top \in Nat
  BY IteratorsAre DEF ToldInv
<1>3. stack' = Append(stack, frame) /\ frame \in Frames /\ frame.late = {}
  BY DEF Iterate, Frames
<1> HIDE DEF frame
<1>4. /\ DOMAIN stack' = 1..(Top + 1) /\ stack'[Top + 1] = frame
      /\ \A d \in 1..Top : stack'[d] = stack[d]
  BY <1>2, <1>3 DEF Top
<1>5. \A d \in DOMAIN stack' : stack'[d].late = {} \/ (d \in DOMAIN stack /\ stack'[d] = stack[d])
  <2> SUFFICES ASSUME NEW d \in 1..(Top + 1)
               PROVE  stack'[d].late = {} \/ (d \in DOMAIN stack /\ stack'[d] = stack[d])
    BY <1>4
  <2>1. d = Top + 1 \/ d \in 1..Top
    BY <1>2
  <2> QED BY <1>2, <1>3, <1>4, <2>1
<1> QED BY <1>1, <1>2, <1>5, LateStay

LEMMA LateInductive ==
  ASSUME ToldInv, ToldInv', LateAreHere, [Next]_vars
  PROVE  LateAreHere'
<1>1. HandleInv /\ HandleInv' /\ stack \in Seq(Frames)
  BY HandleInvIs DEF ToldInv
<1>2. CASE Construct \/ CopyConstruct \/ SetValue \/ SetHandle \/ DestroyHandle
  <2>1. stack' = Noted(stack, mem')
    BY <1>2 DEF Construct, CopyConstruct, SetValue, SetHandle, DestroyHandle, Becomes
  <2> QED BY <1>1, <2>1, LateByNoting
<1>3. CASE CreateValue
  <2>1. mem'.VP = mem.VP /\ stack' = stack
    BY <1>1, <1>3 DEF CreateValue, HandleInv, TypeOK
  <2>2. Points' = Points
    BY <2>1 DEF Points
  <2> QED BY <1>1, <2>1, <2>2, LateStay
<1>4. CASE DeleteValue
  <2>1. PICK v \in alive : IF v \in mem.HasValueHandle
                           THEN Iterate(v, None) /\ UNCHANGED alive
                           ELSE alive' = alive \ {v} /\ UNCHANGED <<mem, stack>>
    BY <1>4 DEF DeleteValue
  <2>2. v \in Value /\ ~stopped
    BY <1>1, <1>4, HandleInvIs DEF DeleteValue, ClientActs
  <2>3. CASE v \in mem.HasValueHandle
    BY <1>1, <2>1, <2>2, <2>3, LateIteration
  <2>4. CASE v \notin mem.HasValueHandle
    BY <2>1, <2>4 DEF LateAreHere
  <2> QED BY <2>3, <2>4
<1>5. CASE ReplaceAllUses
  <2>1. PICK old \in alive, new \in alive : old # new /\ old \in mem.HasValueHandle /\ Iterate(old, new)
    BY <1>5 DEF ReplaceAllUses
  <2>2. old \in Value /\ new \in Value /\ ~stopped
    BY <1>1, <1>5, HandleInvIs DEF ReplaceAllUses, ClientActs
  <2> QED BY <1>1, <2>1, <2>2, LateIteration
<1>6. CASE Visit
  <2>1. Top \in DOMAIN stack
    BY <1>1, <1>6, IteratorIsListed DEF Visit, InLoop
  <2>2. PICK c \in Handle \cup {None} : stack' = Noted([stack EXCEPT ![Top].calling = c], mem')
    <3> DEFINE entry == mem.Next[Current]
    <3>1. stack' = Noted([stack EXCEPT ![Top].calling = IF Kind(entry) = "Callback" THEN entry ELSE None], mem')
      BY <1>6 DEF Visit
    <3>2. Kind(entry) = "Callback" => entry \in Handle
      BY DEF Kind
    <3> HIDE DEF entry
    <3>3. PICK c : c = IF Kind(entry) = "Callback" THEN entry ELSE None
      OBVIOUS
    <3> QED BY <3>1, <3>2, <3>3
  <2> QED BY <1>1, <2>1, <2>2, LateCalls, LateByNoting
<1>7. CASE CallbackReturns
  <2>1. Top \in DOMAIN stack
    BY <1>1, <1>7, IteratorIsListed DEF CallbackReturns
  <2>2. stack' = Noted([stack EXCEPT ![Top].calling = None], mem')
    BY <1>7 DEF CallbackReturns
  <2> QED BY <1>1, <2>1, <2>2, LateCalls, LateByNoting
<1>8. CASE LoopEnds
  <2>1. /\ Top \in DOMAIN stack /\ Current \in Node /\ DOMAIN stack = 1..Top /\ Top \in Nat
        /\ mem' = Destroy(mem, Current) /\ InOrder(mem, None) /\ Current \notin Handle
        /\ stack' = IF stopped' THEN stack ELSE SubSeq(stack, 1, Top - 1)
    BY <1>1, <1>8, IteratorIsListed, IteratorsAre DEF LoopEnds, InLoop, Current
  <2>2. Points' = Points
    <3>1. Pointed(mem, Current, Unborn, mem')
      BY <2>1, DestroyInOrder
    <3>2. \A h \in Handle : mem'.VP[h] = mem.VP[h]
      BY <2>1, <3>1 DEF Pointed, Node
    <3> QED BY <3>2 DEF Points
  <2>3. \A d \in DOMAIN stack' : d \in DOMAIN stack /\ stack'[d] = stack[d]
    <3>1. CASE stopped'
      BY <2>1, <3>1
    <3>2. CASE ~stopped'
      <4>1. Top - 1 \in Nat /\ \A d \in 1..(Top - 1) : d \in 1..Top /\ stack[d] \in Frames
        BY <1>1, <2>1
      <4>2. /\ SubSeq(stack, 1, Top - 1) \in Seq(Frames)
            /\ Len(SubSeq(stack, 1, Top - 1)) = Top - 1
            /\ \A d \in 1..(Top - 1) : SubSeq(stack, 1, Top - 1)[d] = stack[d]
        BY <4>1
      <4> QED BY <2>1, <3>2, <4>1, <4>2, LenProperties
    <3> QED BY <3>1, <3>2
  <2> QED BY <1>1, <2>2, <2>3, LateStay
<1>9. CASE UNCHANGED vars
  BY <1>9 DEF vars, LateAreHere
<1> QED BY <1>2, <1>3, <1>4, <1>5, <1>6, <1>7, <1>8, <1>9 DEF Next, ClientStep, LoopStep

\* Whatever callbacks do to the lists, and however iterations nest, everyone who holds a
\* handle to a value when its iteration begins is told once, unless the handle goes away
\* before: each step of the lists is a step of the promise, or is none of its business.
THEOREM EveryoneIsToldOnce == Spec => HandlesSpec
<1>1. Init => Promise!Init
  <2> SUFFICES ASSUME Init PROVE Promise!Init
    OBVIOUS
  <2>1. HandleInv
    BY InitIsInOrder
  <2>2. Loops = <<>>
    BY <2>1, LoopsShape DEF Init
  <2>3. Points = [h \in Handle |-> Unborn]
    BY DEF Init, Points, Node
  <2> QED BY <2>2, <2>3 DEF Init, Promise!Init
<1>2. ToldInv /\ ToldInv' /\ LateAreHere /\ [Next]_vars => [Promise!Next]_(Promise!vars)
  <2> SUFFICES ASSUME ToldInv, LateAreHere, [Next]_vars
               PROVE  Promise!Next \/ UNCHANGED Promise!vars
    OBVIOUS
  <2>1. CASE Construct \/ CopyConstruct \/ SetValue \/ SetHandle \/ DestroyHandle
    BY <2>1, ClientRefines
  <2>2. CASE CreateValue
    BY <2>2, CreateValueRefines
  <2>3. CASE DeleteValue
    BY <2>3, DeleteValueRefines
  <2>4. CASE ReplaceAllUses
    BY <2>4, ReplaceAllUsesRefines
  <2>5. CASE Visit
    BY <2>5, VisitRefines DEF Promise!Next
  <2>6. CASE CallbackReturns
    BY <2>6, CallbackReturnsRefines
  <2>7. CASE LoopEnds
    BY <2>7, LoopEndsRefines
  <2>8. CASE UNCHANGED vars
    BY <2>8 DEF vars, Promise!vars, Points, Loops, LoopOf, Following, After
  <2> QED BY <2>1, <2>2, <2>3, <2>4, <2>5, <2>6, <2>7, <2>8 DEF Next, ClientStep, LoopStep
<1>3. Init => LateAreHere
  BY DEF Init, LateAreHere
<1>4. ToldInv /\ ToldInv' /\ LateAreHere /\ [Next]_vars => LateAreHere'
  BY LateInductive
<1> QED BY <1>1, <1>2, <1>3, <1>4, ToldInductive, PTL DEF Spec, HandlesSpec, Promise!Spec
==============================================================================
