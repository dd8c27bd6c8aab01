----------------------------- MODULE ValueHandles -----------------------------
(***************************************************************************)
(* Value handles, include/llvm/Support/ValueHandle.h and the end of        *)
(* lib/VMCore/Value.cpp. The handles of a value form a list, whose head is *)
(* in the bucket of the value in the context's hash table; each handle has *)
(* the address of the pointer that leads to it. When a value is deleted or *)
(* replaced, an iterator, a node of the list itself, wanders through the   *)
(* list, and callbacks may change all lists and start other iterations.    *)
(*                                                                         *)
(* The address of a pointer is the node whose Next it is, or the bucket of *)
(* a value. An insertion may move the table to another array; addresses of *)
(* buckets in the old one are then freed.                                  *)
(***************************************************************************)
EXTENDS Sequences, Naturals, FiniteSets

CONSTANTS
  Value, Handle,
  KindOf,          \* "Assert", "Callback", "Tracking" or "Weak"
  Iterator,        \* the iterators, by the depth of the iteration
  None, Tombstone, Unborn,
  MaxOps           \* how much the callbacks do during one outermost iteration

MaxDepth == Len(Iterator)
Iterators == {Iterator[d] : d \in 1..MaxDepth}
Node == Handle \cup Iterators
Bucket == [value : Value, freed : BOOLEAN]

ASSUME ValueHandlesAssumption ==
  /\ IsFiniteSet(Handle) /\ KindOf \in [Handle -> {"Assert", "Callback", "Tracking", "Weak"}]
  /\ Iterator \in Seq(Iterators) /\ \A c, d \in DOMAIN Iterator : Iterator[c] = Iterator[d] => c = d
  /\ Handle \cap Iterators = {} /\ Node \cap Bucket = {}
  /\ {None, Tombstone, Unborn} \cap (Value \cup Node \cup Bucket) = {}
  /\ None # Tombstone /\ None # Unborn /\ Tombstone # Unborn
  /\ MaxOps \in Nat

VARIABLES
  mem,       \* the nodes, the table, and the flags of the values
  alive,     \* the values there are
  stack,     \* the iterations under way, the innermost last
  ops,       \* what callbacks have done in the iterations under way
  stopped    \* an llvm_unreachable was reached

vars == <<mem, alive, stack, ops, stopped>>

------------------------------------------------------------------------------
(* ValueHandleBase, as functions of mem: VP, Next and Prev of the nodes,   *)
(* the table ValueHandles, and the values with HasValueHandle. The links   *)
(* of a node that is in no list are never read, and are None.              *)

isValid(v) == v \notin {None, Tombstone, Unborn}
BucketOf(v) == [value |-> v, freed |-> FALSE]
isPointerIntoBucketsArray(p) == p \notin Node /\ ~p.freed

\* *p, and *p = n. A pointer into an array that was freed leads nowhere.
Deref(S, p) ==
  IF p \in Node THEN S.Next[p]
  ELSE IF isPointerIntoBucketsArray(p) THEN S.ValueHandles[p.value] ELSE None

Store(S, p, n) ==
  IF p \in Node THEN [S EXCEPT !.Next[p] = n]
  ELSE IF isPointerIntoBucketsArray(p) THEN [S EXCEPT !.ValueHandles[p.value] = n] ELSE S

setPrevPtr(S, n, p) == IF n = None THEN S ELSE [S EXCEPT !.Prev[n] = p]

AddToExistingUseList(S, n, list) ==
  LET next == Deref(S, list)
      linked == Store([S EXCEPT !.Next[n] = next, !.Prev[n] = list], list, n)
  IN setPrevPtr(linked, next, n)

\* Mutant: before the node.
AddToExistingUseListBefore(S, n, node) == AddToExistingUseList(S, n, S.Prev[node])

AddToExistingUseListAfter(S, n, node) == AddToExistingUseList(S, n, node)

\* DenseMap::grow: the table is moved to another array.
grow(S) ==
  [S EXCEPT !.Prev = [n \in Node |-> IF @[n] \in Bucket THEN [@[n] EXCEPT !.freed = TRUE] ELSE @[n]]]

\* The loop of AddToUseList over a table that has moved.
FixPrevPtrs(S) ==
  [S EXCEPT !.Prev = [n \in Node |-> IF S.VP[n] \in Value /\ S.ValueHandles[S.VP[n]] = n
                                     THEN BucketOf(S.VP[n]) ELSE @[n]]]

Inserted(S, n, grows) ==
  [AddToExistingUseList(IF grows THEN grow(S) ELSE S, n, BucketOf(S.VP[n])) EXCEPT
     !.HasValueHandle = @ \cup {S.VP[n]}]

\* Mutant: that the table may have moved is forgotten.
AddToUseListUnfixed(S, n, grows) ==
  IF S.VP[n] \in S.HasValueHandle THEN AddToExistingUseList(S, n, BucketOf(S.VP[n]))
  ELSE Inserted(S, n, grows)

\* grows: if there is an insertion, the table has to grow for it.
AddToUseList(S, n, grows) ==
  LET first == \A v \in Value \ {S.VP[n]} : S.ValueHandles[v] = None
  IN IF S.VP[n] \in S.HasValueHandle THEN AddToExistingUseList(S, n, BucketOf(S.VP[n]))
     ELSE IF ~grows \/ first THEN Inserted(S, n, grows)
     ELSE FixPrevPtrs(Inserted(S, n, grows))

RemoveFromUseList(S, n) ==
  LET prev == S.Prev[n]
      next == S.Next[n]
      v == S.VP[n]
      unlinked == setPrevPtr([Store(S, prev, next) EXCEPT !.Next[n] = None, !.Prev[n] = None],
                             next, prev)
  IN IF next = None /\ isPointerIntoBucketsArray(prev)
       THEN [unlinked EXCEPT !.ValueHandles[v] = None, !.HasValueHandle = @ \ {v}]
     ELSE unlinked

Dropped(S, n) == IF isValid(S.VP[n]) THEN RemoveFromUseList(S, n) ELSE S

\* ValueHandleBase(Kind, V), and operator=(Value *).
Assign(S, n, v, grows) ==
  LET set == [Dropped(S, n) EXCEPT !.VP[n] = v]
  IN IF S.VP[n] = v THEN S
     ELSE IF isValid(v) THEN AddToUseList(set, n, grows) ELSE set

\* ValueHandleBase(Kind, RHS), and operator=(const ValueHandleBase &).
AssignHandle(S, n, g) ==
  LET set == [Dropped(S, n) EXCEPT !.VP[n] = S.VP[g]]
  IN IF S.VP[n] = S.VP[g] THEN S
     ELSE IF isValid(S.VP[g]) THEN AddToExistingUseList(set, n, set.Prev[g]) ELSE set

Destroy(S, n) == [Dropped(S, n) EXCEPT !.VP[n] = Unborn]

------------------------------------------------------------------------------
(* What clients do, outside or in a callback.                              *)

Top == Len(stack)
Frame == stack[Top]
IsDeletion(f) == f.new = None
InCallback == stack # <<>>
Entries == {stack[i].calling : i \in DOMAIN stack}
Busy == UNION {{stack[i].value, stack[i].new} : i \in DOMAIN stack}

ClientActs ==
  /\ ~stopped
  /\ InCallback => Frame.calling # None /\ ops < MaxOps
  /\ ops' = IF InCallback THEN ops + 1 ELSE ops

\* late is auxiliary: who came to the value of an iteration after it began.
Noted(frames, S) ==
  [i \in DOMAIN frames |-> [frames[i] EXCEPT
     !.late = {h \in Handle : /\ S.VP[h] = frames[i].value
                              /\ h \in @ \/ mem.VP[h] # frames[i].value}]]

Becomes(S) ==
  /\ mem' = S
  /\ stack' = Noted(stack, S)
  /\ UNCHANGED <<alive, stopped>>

Exists(h) == mem.VP[h] # Unborn

\* A TrackingVH whose value was deleted can only be destroyed.
Usable(h) == mem.VP[h] \notin {Unborn, Tombstone}

\* The callback of a handle that was destroyed goes on as long as it is on the stack.
Construct ==
  /\ ClientActs
  /\ \E h \in Handle \ Entries, v \in alive \cup {None}, grows \in BOOLEAN :
       ~Exists(h) /\ Becomes(Assign(mem, h, v, grows))

CopyConstruct ==
  /\ ClientActs
  /\ \E h \in Handle \ Entries, g \in Handle :
       /\ ~Exists(h) /\ Usable(g) /\ KindOf[h] = KindOf[g]
       /\ Becomes(AssignHandle(mem, h, g))

SetValue ==
  /\ ClientActs
  /\ \E h \in Handle, v \in alive \cup {None}, grows \in BOOLEAN :
       Usable(h) /\ Becomes(Assign(mem, h, v, grows))

\* Only WeakVH and CallbackVH are assigned as handles; the others as values.
SetHandle ==
  /\ ClientActs
  /\ \E h, g \in Handle :
       /\ Usable(h) /\ Usable(g)
       /\ KindOf[h] = "Weak" \/ (KindOf[h] = "Callback" /\ KindOf[g] = "Callback")
       /\ Becomes(AssignHandle(mem, h, g))

DestroyHandle ==
  /\ ClientActs
  /\ \E h \in Handle : Exists(h) /\ Becomes(Destroy(mem, h))

\* A value may be made where another was.
CreateValue ==
  /\ ClientActs
  /\ \E v \in Value \ alive :
       /\ alive' = alive \cup {v}
       /\ mem' = [mem EXCEPT !.HasValueHandle = @ \ {v}]
  /\ UNCHANGED <<stack, stopped>>

\* Mutant: the iterator is made after the first node.
IterateFromSecond(v, new) ==
  /\ Top < MaxDepth
  /\ LET set == [mem EXCEPT !.VP[Iterator[Top + 1]] = v]
     IN mem' = AddToExistingUseListAfter(set, Iterator[Top + 1], mem.ValueHandles[v])
  /\ stack' = Append(stack, [value |-> v, new |-> new, calling |-> None, late |-> {}])

\* The iterator is made before the first node.
Iterate(v, new) ==
  /\ Top < MaxDepth
  /\ mem' = AssignHandle(mem, Iterator[Top + 1], mem.ValueHandles[v])
  /\ stack' = Append(stack, [value |-> v, new |-> new, calling |-> None, late |-> {}])

\* ~Value. A client does not delete what is being deleted or replaced.
DeleteValue ==
  /\ ClientActs
  /\ \E v \in alive \ Busy :
       IF v \in mem.HasValueHandle
         THEN Iterate(v, None) /\ UNCHANGED alive
         ELSE alive' = alive \ {v} /\ UNCHANGED <<mem, stack>>
  /\ UNCHANGED stopped

\* Value::replaceAllUsesWith; without handles there is nothing to see.
ReplaceAllUses ==
  /\ ClientActs
  /\ \E old, new \in alive : old # new /\ old \in mem.HasValueHandle /\ Iterate(old, new)
  /\ UNCHANGED <<alive, stopped>>

------------------------------------------------------------------------------
(* The loop of ValueIsDeleted and ValueIsRAUWd.                            *)

Current == Iterator[Top]
InLoop == ~stopped /\ stack # <<>> /\ Frame.calling = None
Kind(n) == IF n \in Handle THEN KindOf[n] ELSE "Assert"

\* Mutant: tracking handles are left to point to the value.
ToldWeakOnly(S, n, grows) ==
  IF Kind(n) = "Weak" THEN Assign(S, n, Frame.new, grows) ELSE S

\* Weak handles become null, or follow; tracking ones become invalid, or follow.
ToldHandle(S, n, grows) ==
  CASE Kind(n) = "Weak" -> Assign(S, n, Frame.new, grows)
    [] Kind(n) = "Tracking" -> Assign(S, n, IF IsDeletion(Frame) THEN Tombstone ELSE Frame.new, grows)
    [] OTHER -> S

Visit ==
  /\ InLoop
  /\ mem.Next[Current] # None
  /\ LET entry == mem.Next[Current]
         moved == AddToExistingUseListAfter(RemoveFromUseList(mem, Current), Current, entry)
         called == [stack EXCEPT ![Top].calling = IF Kind(entry) = "Callback" THEN entry ELSE None]
     IN \E grows \in BOOLEAN :
          /\ mem' = ToldHandle(moved, entry, grows)
          /\ stack' = Noted(called, mem')
  /\ UNCHANGED <<alive, ops, stopped>>

\* deleted() ends with the handle set to null, if it is still there;
\* allUsesReplacedWith may leave the handle where it is.
CallbackReturns ==
  /\ ~stopped /\ stack # <<>> /\ Frame.calling # None
  /\ LET h == Frame.calling
         here == IsDeletion(Frame) /\ mem.VP[h] = Frame.value
     IN /\ mem' = IF here THEN Assign(mem, h, None, FALSE) ELSE mem
        /\ stack' = Noted([stack EXCEPT ![Top].calling = None], mem')
  /\ UNCHANGED <<alive, ops, stopped>>

\* The iterator goes; "All references to V were not removed?", "A tracking or weak
\* value handle still pointed to the old value!".
LoopEnds ==
  /\ InLoop
  /\ mem.Next[Current] = None
  /\ mem' = Destroy(mem, Current)
  /\ LET v == Frame.value
         left == {n \in Node : mem'.VP[n] = v}
     IN stopped' = (/\ v \in mem'.HasValueHandle
                    /\ IsDeletion(Frame) \/ \E n \in left : Kind(n) \in {"Tracking", "Weak"})
  /\ stack' = IF stopped' THEN stack ELSE SubSeq(stack, 1, Top - 1)
  /\ alive' = IF IsDeletion(Frame) /\ ~stopped' THEN alive \ {Frame.value} ELSE alive
  /\ ops' = IF Top = 1 THEN 0 ELSE ops

Init ==
  /\ mem = [VP |-> [n \in Node |-> Unborn], Next |-> [n \in Node |-> None],
            Prev |-> [n \in Node |-> None], ValueHandles |-> [v \in Value |-> None],
            HasValueHandle |-> {}]
  /\ alive = Value /\ stack = <<>> /\ ops = 0 /\ stopped = FALSE

ClientStep ==
  \/ Construct \/ CopyConstruct \/ SetValue \/ SetHandle \/ DestroyHandle
  \/ CreateValue \/ DeleteValue \/ ReplaceAllUses

LoopStep == Visit \/ CallbackReturns \/ LoopEnds

Next == ClientStep \/ LoopStep

InIteration == ~stopped /\ stack # <<>>

\* The loops are straight-line code, and callbacks return. This is WF_vars(LoopStep)
\* with its ENABLED spelled out, which is too deep to be evaluated in every state: a
\* loop has a step to take while there is one.
LoopFairness == <>[]InIteration => []<><<LoopStep>>_vars

Spec == Init /\ [][Next]_vars /\ LoopFairness

------------------------------------------------------------------------------
TypeOK ==
  /\ mem \in [VP : [Node -> Value \cup {None, Tombstone, Unborn}],
             Next : [Node -> Node \cup {None}], Prev : [Node -> Node \cup Bucket \cup {None}],
             ValueHandles : [Value -> Node \cup {None}], HasValueHandle : SUBSET Value]
  /\ alive \subseteq Value /\ ops \in Nat /\ stopped \in BOOLEAN
  /\ stack \in Seq([value : Value, new : Value \cup {None}, calling : Handle \cup {None},
                    late : SUBSET Handle])

\* The assertions of the lists: "List invariant broken", "Added to wrong list?",
\* "Value bit set but no entries exist". A node is where its address says it is, next
\* to nodes of its value; what is in no list is not linked to.
Linked(S) ==
  /\ \A n \in Node :
       IF isValid(S.VP[n])
         THEN /\ S.Prev[n] # None
              /\ S.Prev[n] \in Node => S.VP[S.Prev[n]] = S.VP[n]
              /\ S.Prev[n] \notin Node => S.Prev[n] = BucketOf(S.VP[n])
              /\ Deref(S, S.Prev[n]) = n
         ELSE S.Prev[n] = None /\ S.Next[n] = None
  /\ \A n \in Node : S.Next[n] # None =>
       S.VP[S.Next[n]] = S.VP[n] /\ S.Prev[S.Next[n]] = n
  /\ \A v \in Value : S.ValueHandles[v] # None =>
       S.VP[S.ValueHandles[v]] = v /\ S.Prev[S.ValueHandles[v]] = BucketOf(v)
  /\ \A v \in Value : v \in S.HasValueHandle <=> S.ValueHandles[v] # None

\* Every list begins at its bucket: some node of a set has its address outside.
NoCycle(S) ==
  \A C \in SUBSET {n \in Node : isValid(S.VP[n])} :
    C # {} => \E n \in C : S.Prev[n] \notin C

\* No handle points to where a value was, and each iteration has its iterator in the
\* list of its value. That lives, as does what replaces it: what is deleted inside an
\* iteration is neither.
NothingDangles ==
  /\ \A n \in Node : mem.VP[n] \in Value => mem.VP[n] \in alive
  /\ Len(stack) <= MaxDepth
  /\ ~stopped => \A d \in 1..MaxDepth :
       mem.VP[Iterator[d]] = IF d <= Len(stack) THEN stack[d].value ELSE Unborn
  /\ \A d \in DOMAIN stack :
       /\ stack[d].new \in alive \cup {None}
       /\ IsDeletion(stack[d]) => \A c \in 1..(d - 1) : stack[d].value \notin {stack[c].value, stack[c].new}

\* The lists are in order, over every callback, copy, and move of the table.
HandleInv == TypeOK /\ Linked(mem) /\ NoCycle(mem) /\ NothingDangles

\* The program is stopped for what a client did: an asserting handle was left, or a
\* handle was pointed at the value while the others were being told.
StoppedForAReason ==
  stopped =>
    \E h \in Handle :
      /\ mem.VP[h] = Frame.value
      /\ h \in Frame.late \/ (IsDeletion(Frame) /\ KindOf[h] = "Assert")

\* An iteration ends, whatever the callbacks do to the list on the way, if they do
\* finitely much: MaxOps operations at most in an outermost iteration.
IterationsEnd == stack # <<>> ~> stack = <<>> \/ stopped

\* The nodes of a list that follow a node.
After(next, it) ==
  LET from[n \in Node] == IF next[n] = None THEN {} ELSE {next[n]} \cup from[next[n]]
  IN from[it]

\* The handles an iteration has not come to: those that follow its iterator.
Following(d) == After(mem.Next, Iterator[d]) \cap Handle

\* An iteration, with who waits for it.
LoopOf(f, waiting) ==
  [value |-> f.value, new |-> f.new, calling |-> f.calling, waiting |-> waiting, late |-> f.late]

Points == [h \in Handle |-> mem.VP[h]]
Loops == [d \in DOMAIN stack |-> LoopOf(stack[d], Following(d))]

\* Everyone is told once.
Promise == INSTANCE Handles WITH points <- Points, loops <- Loops

HandlesSpec == Promise!Spec
==============================================================================
