----------------------------- MODULE Lifetimes -----------------------------
(***************************************************************************)
(* What ManagedStatic promises: a static is constructed when it is not     *)
(* there, and statics are destroyed in the reverse order of construction.  *)
(***************************************************************************)
EXTENDS Integers, Sequences

CONSTANT Statics

VARIABLE order    \* the statics that exist, by age

Existing == {order[i] : i \in DOMAIN order}

Init == order = <<>>

Construct(s) == s \notin Existing /\ order' = Append(order, s)

Destroy ==
  /\ order # <<>>
  /\ order' = SubSeq(order, 1, Len(order) - 1)

Next == Destroy \/ \E s \in Statics : Construct(s)

Spec == Init /\ [][Next]_order
=============================================================================
