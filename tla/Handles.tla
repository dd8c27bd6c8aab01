-------------------------------- MODULE Handles --------------------------------
(***************************************************************************)
(* What value handles promise, include/llvm/Support/ValueHandle.h: who     *)
(* holds a handle to a value is told when the value is deleted or          *)
(* replaced, once, whatever the callbacks of other handles do meanwhile.   *)
(*                                                                         *)
(* A loop tells those that wait for it. Deletions and replacements that    *)
(* callbacks begin are loops inside the loop, the innermost last.          *)
(***************************************************************************)
EXTENDS Sequences, Naturals

CONSTANTS Value, Handle, KindOf, None, Tombstone, Unborn

VARIABLES
  points,   \* the value of a handle, None, or Tombstone; or there is no handle
  alive,
  loops,    \* value, what replaces it, who is still to be told, whose callback
            \* runs, and who came to the value after the loop began
  stopped   \* the program was stopped, as handles are left that must not be

vars == <<points, alive, loops, stopped>>

Top == Len(loops)
Told == loops[Top]
IsDeletion(l) == l.new = None
InClient == ~stopped /\ (loops # <<>> => Told.calling # None)

\* Handles come and go; a copy of a handle that waits, waits with it.
Changed(ls, p, waitsWith) ==
  [i \in DOMAIN ls |->
     LET here == {h \in Handle : p[h] = ls[i].value}
         copies == {h \in DOMAIN waitsWith : waitsWith[h] \in ls[i].waiting}
     IN [ls[i] EXCEPT
           !.waiting = here \cap (@ \cup copies),
           !.late = here \cap (@ \cup {h \in Handle : points[h] # ls[i].value})]]

Set(h, v) ==
  /\ points' = [points EXCEPT ![h] = v]
  /\ loops' = Changed(loops, points', <<>>)
  /\ UNCHANGED <<alive, stopped>>

SetAs(h, g) ==
  /\ points[h] # points[g]
  /\ points' = [points EXCEPT ![h] = points[g]]
  /\ loops' = Changed(loops, points', [x \in {h} |-> g])
  /\ UNCHANGED <<alive, stopped>>

Change ==
  /\ InClient
  /\ \E h \in Handle :
       \/ \E v \in alive \cup {None, Unborn} : Set(h, v)
       \/ \E g \in Handle : SetAs(h, g)

Create ==
  /\ InClient
  /\ \E v \in Value \ alive : alive' = alive \cup {v}
  /\ UNCHANGED <<points, loops, stopped>>

Loop(v, new) ==
  [value |-> v, new |-> new, waiting |-> {h \in Handle : points[h] = v},
   calling |-> None, late |-> {}]

Delete ==
  /\ InClient
  /\ \E v \in alive :
       IF \E h \in Handle : points[h] = v
         THEN loops' = Append(loops, Loop(v, None)) /\ UNCHANGED alive
         ELSE alive' = alive \ {v} /\ UNCHANGED loops
  /\ UNCHANGED <<points, stopped>>

ReplaceAllUses ==
  /\ InClient
  /\ \E old, new \in alive : old # new /\ loops' = Append(loops, Loop(old, new))
  /\ UNCHANGED <<points, alive, stopped>>

Telling == ~stopped /\ loops # <<>> /\ Told.calling = None

\* A handle is told: by its callback, or it follows the value, or forgets it.
Tell ==
  /\ Telling
  /\ \E h \in Told.waiting :
       LET rest == [loops EXCEPT ![Top].waiting = @ \ {h}]
           told == CASE KindOf[h] \in {"Assert", "Callback"} -> points[h]
                     [] KindOf[h] = "Weak" /\ IsDeletion(Told) -> None
                     [] KindOf[h] = "Tracking" /\ IsDeletion(Told) -> Tombstone
                     [] OTHER -> Told.new
       IN /\ points' = [points EXCEPT ![h] = told]
          /\ loops' = IF KindOf[h] = "Callback" THEN [rest EXCEPT ![Top].calling = h]
                      ELSE Changed(rest, points', <<>>)
  /\ UNCHANGED <<alive, stopped>>

\* In the end a callback forgets a value that is deleted.
CallbackReturns ==
  /\ ~stopped /\ loops # <<>> /\ Told.calling # None
  /\ LET h == Told.calling
         back == [loops EXCEPT ![Top].calling = None]
     IN /\ points' = IF IsDeletion(Told) /\ points[h] = Told.value
                       THEN [points EXCEPT ![h] = None] ELSE points
        /\ loops' = Changed(back, points', <<>>)
  /\ UNCHANGED <<alive, stopped>>

\* Who may still point to the value when everyone was told.
Left(l) ==
  {h \in Handle : points[h] = l.value
     /\ (IsDeletion(l) \/ KindOf[h] \in {"Tracking", "Weak"})}

Done ==
  /\ Telling
  /\ Told.waiting = {}
  /\ stopped' = (Left(Told) # {})
  /\ loops' = IF stopped' THEN loops ELSE SubSeq(loops, 1, Top - 1)
  /\ alive' = IF IsDeletion(Told) /\ ~stopped' THEN alive \ {Told.value} ELSE alive
  /\ UNCHANGED points

Init ==
  /\ points = [h \in Handle |-> Unborn] /\ alive = Value
  /\ loops = <<>> /\ stopped = FALSE

Next == Change \/ Create \/ Delete \/ ReplaceAllUses \/ Tell \/ CallbackReturns \/ Done

Spec == Init /\ [][Next]_vars
==============================================================================
