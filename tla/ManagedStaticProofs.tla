--------------------------- MODULE ManagedStaticProofs ---------------------------
(***************************************************************************)
(* Statics are there for whoever uses them, none is lost, and each outlives *)
(* its users, for every number of threads and statics and all scripts that *)
(* lock mutexes in scopes and do not use each other in a circle. The       *)
(* invariant is inductive; every step changes the top of one stack.        *)
(***************************************************************************)
EXTENDS ManagedStaticInvariant, SequenceTheorems, FiniteSetTheorems, WellFoundedInduction, TLAPS

Frames == [pc : {"operation", "read", "acquire", "creator", "link", "release", "deref",
                 "shutdown", "deleter"},
           s : Statics \cup {None}, rest : Script, got : SUBSET (Statics \X Nat)]

\* Of thread t's frames the lowest keep stay, and those of above come on top.
Turn(t, keep, above) ==
  /\ stack' \in [Threads -> Seq(Frames)]
  /\ \A u \in Threads \ {t} : stack'[u] = stack[u]
  /\ keep \in 0 .. Len(stack[t]) /\ above \in Seq(Frames)
  /\ Len(stack'[t]) = keep + Len(above)
  /\ \A i \in 1 .. keep : stack'[t][i] = stack[t][i]
  /\ \A i \in 1 .. Len(above) : stack'[t][keep + i] = above[i]

-----------------------------------------------------------------------------
(* Steps and stacks                                                        *)

LEMMA StackTypes ==
  ASSUME TypeOK
  PROVE  /\ stack \in [Threads -> Seq(Frames)]
         /\ \A t \in Threads : stack[t] \in Seq(Frames) /\ Len(stack[t]) \in Nat
         /\ \A t \in Threads : stack[t] = <<>> <=> Len(stack[t]) = 0
         /\ \A t \in Threads : DOMAIN stack[t] = 1 .. Len(stack[t])
         /\ \A t \in Threads : \A i \in 1 .. Len(stack[t]) : stack[t][i] \in Frames
<1>1. stack \in [Threads -> Seq(Frames)]
  BY DEF TypeOK, Frames
<1>2. ASSUME NEW q \in Seq(Frames)
      PROVE  /\ Len(q) \in Nat /\ DOMAIN q = 1 .. Len(q) /\ (q = <<>> <=> Len(q) = 0)
             /\ \A i \in 1 .. Len(q) : q[i] \in Frames
  BY EmptySeq, LenProperties, ElementOfSeq
<1> QED BY <1>1, <1>2

\* A stack that is put together from what stays and what is new.
LEMMA Turns ==
  ASSUME TypeOK, NEW t \in Threads, NEW keep \in 0 .. Len(stack[t]), NEW above \in Seq(Frames),
         stack' = [stack EXCEPT ![t] = SubSeq(stack[t], 1, keep) \o above]
  PROVE  Turn(t, keep, above)
<1> DEFINE low == SubSeq(stack[t], 1, keep)
<1>1. stack[t] \in Seq(Frames) /\ stack \in [Threads -> Seq(Frames)]
  BY StackTypes
<1>2. low \in Seq(Frames) /\ Len(low) = keep /\ \A i \in 1 .. keep : low[i] = stack[t][i]
  BY <1>1, SubSeqProperties
<1>3. /\ low \o above \in Seq(Frames) /\ Len(low \o above) = keep + Len(above)
      /\ \A i \in 1 .. keep : (low \o above)[i] = low[i]
      /\ \A i \in 1 .. Len(above) : (low \o above)[keep + i] = above[i]
  <2> HIDE DEF low
  <2>1. Len(low) \in Nat /\ Len(above) \in Nat
    BY <1>2, LenProperties
  <2>2. /\ low \o above \in Seq(Frames) /\ Len(low \o above) = Len(low) + Len(above)
        /\ \A i \in 1 .. Len(low) + Len(above) :
             (low \o above)[i] = IF i <= Len(low) THEN low[i] ELSE above[i - Len(low)]
    BY <1>2, ConcatProperties
  <2>3. \A i \in 1 .. keep : (low \o above)[i] = low[i]
    BY <1>2, <2>1, <2>2
  <2>4. ASSUME NEW i \in 1 .. Len(above) PROVE (low \o above)[keep + i] = above[i]
    <3>1. keep + i \in 1 .. Len(low) + Len(above) /\ ~(keep + i <= Len(low)) /\ keep + i - Len(low) = i
      BY <1>2, <2>1
    <3> QED BY <3>1, <2>2
  <2> QED BY <1>2, <2>2, <2>3, <2>4
<1>4. stack'[t] = low \o above /\ \A u \in Threads \ {t} : stack'[u] = stack[u]
  BY <1>1
<1>5. stack' \in [Threads -> Seq(Frames)]
  BY <1>1, <1>3
<1> HIDE DEF low
<1> QED BY <1>2, <1>3, <1>4, <1>5 DEF Turn

\* The last element of a sequence is replaced.
LEMMA LastReplaced ==
  ASSUME NEW q \in Seq(Frames), NEW n \in Nat, n = Len(q), n > 0, NEW f \in Frames
  PROVE  /\ [q EXCEPT ![n] = f] \in Seq(Frames) /\ Len([q EXCEPT ![n] = f]) = n
         /\ [q EXCEPT ![n] = f][n] = f
         /\ \A i \in 1 .. n - 1 : [q EXCEPT ![n] = f][i] = q[i]
<1>1. DOMAIN q = 1 .. n /\ \A i \in 1 .. n : q[i] \in Frames
  BY LenProperties, ElementOfSeq
<1>2. [q EXCEPT ![n] = f] = [i \in 1 .. n |-> IF i = n THEN f ELSE q[i]]
  BY <1>1
<1>3. [i \in 1 .. n |-> IF i = n THEN f ELSE q[i]] \in Seq(Frames)
  BY <1>1, SeqDef
<1>4. Len([i \in 1 .. n |-> IF i = n THEN f ELSE q[i]]) = n
  BY <1>3, LenProperties
<1> QED BY <1>1, <1>2, <1>3, <1>4

\* Nothing but the top is replaced.
LEMMA TopTurns ==
  ASSUME TypeOK, NEW t \in Threads, stack[t] # <<>>, NEW f \in Frames,
         stack' = [stack EXCEPT ![t] = [stack[t] EXCEPT ![Len(stack[t])] = f]]
  PROVE  Turn(t, Len(stack[t]) - 1, <<f>>)
<1> DEFINE q == stack[t]
           n == Len(q)
<1>1. q \in Seq(Frames) /\ stack \in [Threads -> Seq(Frames)] /\ n \in Nat /\ n > 0
  BY StackTypes
<1>2. /\ [q EXCEPT ![n] = f] \in Seq(Frames) /\ Len([q EXCEPT ![n] = f]) = n
      /\ [q EXCEPT ![n] = f][n] = f
      /\ \A i \in 1 .. n - 1 : [q EXCEPT ![n] = f][i] = q[i]
  BY <1>1, LastReplaced
<1>3. stack'[t] = [q EXCEPT ![n] = f] /\ \A u \in Threads \ {t} : stack'[u] = stack[u]
  BY <1>1
<1>4. stack' \in [Threads -> Seq(Frames)]
  BY <1>1, <1>2
<1>5. <<f>> \in Seq(Frames) /\ Len(<<f>>) = 1 /\ <<f>>[1] = f
  OBVIOUS
<1>6. Len(stack'[t]) = n - 1 + Len(<<f>>) /\ \A i \in 1 .. n - 1 : stack'[t][i] = stack[t][i]
  BY <1>1, <1>2, <1>3, <1>5
<1>7. \A i \in 1 .. Len(<<f>>) : stack'[t][n - 1 + i] = <<f>>[i]
  BY <1>1, <1>2, <1>3, <1>5
<1>8. n - 1 \in 0 .. Len(stack[t])
  BY <1>1
<1> HIDE DEF q
<1> QED BY <1>3, <1>4, <1>5, <1>6, <1>7, <1>8 DEF Turn

Pcs == {"operation", "read", "acquire", "creator", "link", "release", "deref",
        "shutdown", "deleter"}

LEMMA FrameTypes ==
  ASSUME NEW pc \in Pcs, NEW s \in Statics \cup {None}, NEW rest \in Script
  PROVE  /\ Frame(pc, s, rest) \in Frames
         /\ Frame(pc, s, rest).pc = pc /\ Frame(pc, s, rest).s = s
         /\ Frame(pc, s, rest).rest = rest /\ Frame(pc, s, rest).got = {}
  BY DEF Frame, Frames, Pcs

LEMMA Changes ==
  ASSUME NEW f \in Frames
  PROVE  /\ \A pc \in Pcs : [f EXCEPT !.pc = pc] \in Frames
         /\ \A rest \in Script : [f EXCEPT !.rest = rest] \in Frames
         /\ \A got \in SUBSET (Statics \X Nat) : [f EXCEPT !.got = got] \in Frames
         /\ f.pc \in Pcs /\ f.s \in Statics \cup {None} /\ f.rest \in Script
         /\ f.got \in SUBSET (Statics \X Nat)
  BY DEF Frames, Pcs

LEMMA Tops ==
  ASSUME TypeOK, NEW t \in Threads, stack[t] # <<>>
  PROVE  /\ Depth(t) \in Nat /\ Depth(t) > 0 /\ Depth(t) = Len(stack[t])
         /\ Top(t) = stack[t][Len(stack[t])] /\ Top(t) \in Frames
  BY StackTypes DEF Depth, Top

LEMMA AtTop ==
  ASSUME TypeOK, NEW t \in Threads, NEW pc, At(t, pc)
  PROVE  /\ stack[t] # <<>> /\ Top(t).pc = pc
         /\ Depth(t) \in Nat /\ Depth(t) > 0 /\ Depth(t) = Len(stack[t])
         /\ Top(t) = stack[t][Len(stack[t])] /\ Top(t) \in Frames
<1>1. stack[t] # <<>> /\ Top(t).pc = pc
  BY StackTypes DEF At, Depth
<1> QED BY <1>1, Tops

LEMMA GotoTurns ==
  ASSUME TypeOK, NEW t \in Threads, stack[t] # <<>>, NEW pc \in Pcs, Goto(t, pc)
  PROVE  Turn(t, Len(stack[t]) - 1, <<[Top(t) EXCEPT !.pc = pc]>>)
<1>1. stack \in [Threads -> Seq(Frames)] /\ DOMAIN stack[t] = 1 .. Len(stack[t])
  BY StackTypes
<1>2. [Top(t) EXCEPT !.pc = pc] \in Frames
  BY Tops, Changes
<1>3. stack' = [stack EXCEPT ![t] = [stack[t] EXCEPT ![Len(stack[t])] = [Top(t) EXCEPT !.pc = pc]]]
  BY <1>1, Tops DEF Goto, Top, Depth
<1> QED BY <1>2, <1>3, TopTurns

LEMMA CreatorTurns ==
  ASSUME TypeOK, NEW t \in Threads, stack[t] # <<>>, Top(t).s \in Statics, CallCreator(t)
  PROVE  Turn(t, Len(stack[t]) - 1, <<Frame("creator", Top(t).s, Creator[Top(t).s])>>)
<1> DEFINE f == Frame("creator", Top(t).s, Creator[Top(t).s])
<1>1. stack \in [Threads -> Seq(Frames)] /\ DOMAIN stack[t] = 1 .. Len(stack[t])
  BY StackTypes
<1>2. f \in Frames
  BY FrameTypes, StaticsAssumption DEF Pcs
<1>3. stack' = [stack EXCEPT ![t] = [stack[t] EXCEPT ![Len(stack[t])] = f]]
  <2> HIDE DEF f
  <2>1. stack' = [stack EXCEPT ![t][Depth(t)] = f]
    BY DEF CallCreator, f
  <2> QED BY <1>1, <2>1 DEF Depth
<1> HIDE DEF f
<1> QED BY <1>2, <1>3, TopTurns DEF f

LEMMA Tails ==
  ASSUME NEW r \in Script, r # <<>>
  PROVE  /\ Tail(r) \in Script /\ Len(r) \in Nat /\ Len(r) > 0 /\ Len(Tail(r)) = Len(r) - 1
         /\ \A i \in 1 .. Len(r) - 1 : Tail(r)[i] = r[i + 1]
         /\ Head(r) = r[1] /\ r[1] \in Instructions
<1>1. Tail(r) \in Script /\ Len(Tail(r)) = Len(r) - 1 /\ Head(r) \in Instructions
  BY HeadTailProperties DEF Script
<1>2. Len(r) \in Nat /\ Len(r) # 0
  BY EmptySeq, LenProperties DEF Script
<1>3. Head(r) = r[1] /\ \A i \in 1 .. Len(r) - 1 : Tail(r)[i] = r[i + 1]
  BY <1>1, <1>2 DEF Script
<1> QED BY <1>1, <1>2, <1>3

LEMMA AdvancedTurns ==
  ASSUME TypeOK, NEW t \in Threads, stack[t] # <<>>, Top(t).rest # <<>>, stack' = Advanced(t)
  PROVE  Turn(t, Len(stack[t]) - 1, <<[Top(t) EXCEPT !.rest = Tail(Top(t).rest)]>>)
<1> DEFINE f == [Top(t) EXCEPT !.rest = Tail(Top(t).rest)]
<1>1. stack \in [Threads -> Seq(Frames)] /\ DOMAIN stack[t] = 1 .. Len(stack[t])
  BY StackTypes
<1>2. f \in Frames
  BY Tops, Changes, Tails
<1>3. stack' = [stack EXCEPT ![t] = [stack[t] EXCEPT ![Len(stack[t])] = f]]
  BY <1>1, Tops DEF Advanced, Top, Depth
<1> HIDE DEF f
<1> QED BY <1>2, <1>3, TopTurns DEF f

\* A frame is pushed.
LEMMA PushTurns ==
  ASSUME TypeOK, NEW t \in Threads, NEW f \in Frames,
         stack' = [stack EXCEPT ![t] = Append(@, f)]
  PROVE  Turn(t, Len(stack[t]), <<f>>)
<1>1. stack[t] \in Seq(Frames) /\ stack \in [Threads -> Seq(Frames)] /\ Len(stack[t]) \in Nat
  BY StackTypes
<1>2. SubSeq(stack[t], 1, Len(stack[t])) = stack[t]
  BY <1>1, SubSeqFull
<1>3. Append(stack[t], f) = stack[t] \o <<f>>
  BY <1>1, AppendIsConcat
<1>4. <<f>> \in Seq(Frames)
  OBVIOUS
<1>5. stack' = [stack EXCEPT ![t] = SubSeq(stack[t], 1, Len(stack[t])) \o <<f>>]
  BY <1>2, <1>3
<1>6. Len(stack[t]) \in 0 .. Len(stack[t])
  BY <1>1
<1> QED BY <1>4, <1>5, <1>6, Turns

\* A stack that has one frame, or none.
LEMMA NewTurns ==
  ASSUME TypeOK, NEW t \in Threads, NEW frames \in Seq(Frames),
         stack' = [stack EXCEPT ![t] = frames]
  PROVE  Turn(t, 0, frames)
<1>1. stack[t] \in Seq(Frames) /\ Len(stack[t]) \in Nat
  BY StackTypes
<1>2. SubSeq(stack[t], 1, 0) = <<>> /\ <<>> \o frames = frames
  BY <1>1, SubSeqEmpty, ConcatEmptySeq
<1>3. stack' = [stack EXCEPT ![t] = SubSeq(stack[t], 1, 0) \o frames]
  BY <1>2
<1>4. 0 \in 0 .. Len(stack[t])
  BY <1>1
<1> QED BY <1>3, <1>4, Turns

LEMMA PopTurns ==
  ASSUME TypeOK, NEW t \in Threads, stack[t] # <<>>, stack' = [stack EXCEPT ![t] = Below(t)]
  PROVE  Turn(t, Len(stack[t]) - 1, <<>>)
<1>1. stack[t] \in Seq(Frames) /\ Len(stack[t]) \in Nat /\ Len(stack[t]) > 0
  BY StackTypes
<1>2. Below(t) \in Seq(Frames)
  BY <1>1, SubSeqProperties DEF Below, Depth
<1>3. Below(t) \o <<>> = Below(t) /\ <<>> \in Seq(Frames)
  BY <1>2, ConcatEmptySeq
<1>4. stack' = [stack EXCEPT ![t] = SubSeq(stack[t], 1, Len(stack[t]) - 1) \o <<>>]
  BY <1>3 DEF Below, Depth
<1>5. Len(stack[t]) - 1 \in 0 .. Len(stack[t])
  BY <1>1
<1> QED BY <1>3, <1>4, <1>5, Turns

LEMMA UseTurns ==
  ASSUME TypeOK, NEW t \in Threads, UseStatic(t)
  PROVE  /\ Turn(t, Len(stack[t]) - 1,
                 <<[Top(t) EXCEPT !.rest = Tail(Top(t).rest)], Frame("read", Head1(t).on, <<>>)>>)
         /\ Head1(t).on \in Statics
<1> DEFINE q == stack[t]
           n == Len(q)
           f == [Top(t) EXCEPT !.rest = Tail(Top(t).rest)]
           g == Frame("read", Head1(t).on, <<>>)
<1>1. /\ stack[t] # <<>> /\ Top(t).rest # <<>> /\ Top(t).rest \in Script
      /\ Depth(t) = n /\ n \in Nat /\ n > 0 /\ q \in Seq(Frames)
  BY AtTop, Changes, StackTypes DEF UseStatic, Doing, Running
<1>2. Head1(t).on \in Statics
  BY <1>1, Tails DEF Head1, Instructions
<1>3. f \in Frames /\ g \in Frames
  <2>1. <<>> \in Script
    BY DEF Script
  <2> QED BY <1>1, <1>2, <2>1, Tops, Changes, Tails, FrameTypes DEF Pcs
<1>4. stack \in [Threads -> Seq(Frames)] /\ DOMAIN stack[t] = 1 .. Len(stack[t])
  BY StackTypes
<1>5. stack' = [stack EXCEPT ![t] = Append([q EXCEPT ![n] = f], g)]
  <2>1. Advanced(t) = [stack EXCEPT ![t] = [q EXCEPT ![n] = f]]
    BY <1>1, <1>4, Tops DEF Advanced, Top, Depth
  <2>2. stack' = [Advanced(t) EXCEPT ![t] = Append(Advanced(t)[t], g)]
    BY DEF UseStatic
  <2> HIDE DEF q, f, g, n
  <2>3. Advanced(t)[t] = [q EXCEPT ![n] = f]
    BY <1>4, <2>1
  <2> QED BY <1>4, <2>1, <2>2, <2>3
<1>6. /\ [q EXCEPT ![n] = f] \in Seq(Frames) /\ Len([q EXCEPT ![n] = f]) = n
      /\ [q EXCEPT ![n] = f][n] = f
      /\ \A i \in 1 .. n - 1 : [q EXCEPT ![n] = f][i] = q[i]
  BY <1>1, <1>3, LastReplaced
<1> HIDE DEF q, n, f, g
<1>7. DEFINE r == [q EXCEPT ![n] = f]
<1>8. /\ Append(r, g) \in Seq(Frames) /\ Len(Append(r, g)) = n + 1
      /\ Append(r, g)[n] = f /\ Append(r, g)[n + 1] = g
      /\ \A i \in 1 .. n - 1 : Append(r, g)[i] = q[i]
  <2> HIDE DEF r
  <2> QED BY <1>1, <1>3, <1>6, AppendProperties DEF r
<1>9. stack'[t] = Append(r, g) /\ \A u \in Threads \ {t} : stack'[u] = stack[u]
  BY <1>4, <1>5
<1> HIDE DEF r
<1>10. stack' \in [Threads -> Seq(Frames)]
  BY <1>4, <1>5, <1>8 DEF r
<1>11. <<f, g>> \in Seq(Frames) /\ Len(<<f, g>>) = 2 /\ <<f, g>>[1] = f /\ <<f, g>>[2] = g
  BY <1>3
<1>12. /\ n - 1 \in 0 .. Len(stack[t]) /\ Len(stack'[t]) = n - 1 + Len(<<f, g>>)
       /\ \A i \in 1 .. n - 1 : stack'[t][i] = stack[t][i]
  BY <1>1, <1>8, <1>9, <1>11 DEF q, n
<1>13. \A i \in 1 .. Len(<<f, g>>) : stack'[t][n - 1 + i] = <<f, g>>[i]
  <2>1. stack'[t][n - 1 + 1] = f /\ stack'[t][n - 1 + 2] = g
    BY <1>1, <1>8, <1>9
  <2>2. \A i \in 1 .. 2 : i = 1 \/ i = 2
    OBVIOUS
  <2> QED BY <1>11, <2>1, <2>2
<1>14. Turn(t, n - 1, <<f, g>>)
  BY <1>9, <1>10, <1>11, <1>12, <1>13 DEF Turn
<1> QED BY <1>2, <1>14 DEF n, q, f, g

LEMMA DerefTurns ==
  ASSUME TypeOK, NEW t \in Threads, Deref(t), Len(stack[t]) > 1, Top(t).s \in Statics
  PROVE  LET g == stack[t][Len(stack[t]) - 1]
         IN  Turn(t, Len(stack[t]) - 2,
                  <<[g EXCEPT !.got = g.got \cup {<<Top(t).s, Ptr[Top(t).s]>>}]>>)
<1> DEFINE q == stack[t]
           n == Len(q) - 1
           o == <<Top(t).s, Ptr[Top(t).s]>>
           f == [q[n] EXCEPT !.got = q[n].got \cup {o}]
           b == Below(t)
<1>1. /\ stack[t] # <<>> /\ Depth(t) = n + 1 /\ n \in Nat /\ n > 0 /\ q \in Seq(Frames)
      /\ q[n] \in Frames /\ Depth(t) - 1 = n
  BY AtTop, StackTypes DEF Deref, Depth
<1>2. f \in Frames
  <2>1. o \in Statics \X Nat
    BY DEF TypeOK
  <2> QED BY <1>1, <2>1, Changes
<1>3. b \in Seq(Frames) /\ Len(b) = n /\ \A i \in 1 .. n : b[i] = q[i]
  BY <1>1, StackTypes, SubSeqProperties DEF Below
<1>4. /\ [b EXCEPT ![n] = f] \in Seq(Frames) /\ Len([b EXCEPT ![n] = f]) = n
      /\ [b EXCEPT ![n] = f][n] = f
      /\ \A i \in 1 .. n - 1 : [b EXCEPT ![n] = f][i] = b[i]
  BY <1>1, <1>2, <1>3, LastReplaced
<1>5. stack' = [stack EXCEPT ![t] = [b EXCEPT ![n] = f]]
  <2>1. DOMAIN b = 1 .. n
    BY <1>3, LenProperties
  <2>2. stack' = [stack EXCEPT ![t] = [b EXCEPT ![n].got = @ \cup {o}]]
    BY <1>1 DEF Deref
  <2>3. [b EXCEPT ![n].got = @ \cup {o}] = [b EXCEPT ![n] = f]
    <3>1. b[n] = q[n]
      BY <1>1, <1>3
    <3> HIDE DEF b, n, o, q
    <3> QED BY <3>1, <2>1
  <2> QED BY <2>2, <2>3
<1>6. stack \in [Threads -> Seq(Frames)]
  BY StackTypes
<1> DEFINE r == [b EXCEPT ![n] = f]
<1> HIDE DEF q, n, f, b, r
<1>7. /\ stack'[t] = r /\ (\A u \in Threads \ {t} : stack'[u] = stack[u])
      /\ stack' \in [Threads -> Seq(Frames)]
  BY <1>4, <1>5, <1>6 DEF r
<1>8. <<f>> \in Seq(Frames) /\ Len(<<f>>) = 1 /\ <<f>>[1] = f
  BY <1>2
<1>9. /\ n - 1 \in 0 .. Len(stack[t]) /\ Len(stack'[t]) = n - 1 + Len(<<f>>)
      /\ \A i \in 1 .. n - 1 : stack'[t][i] = stack[t][i]
  <2>1. n - 1 \in 0 .. Len(stack[t])
    BY <1>1 DEF n, q
  <2>2. Len(r) = n /\ \A i \in 1 .. n - 1 : r[i] = q[i]
    BY <1>1, <1>3, <1>4 DEF r
  <2> QED BY <1>1, <2>1, <2>2, <1>7, <1>8 DEF q
<1>10. \A i \in 1 .. Len(<<f>>) : stack'[t][n - 1 + i] = <<f>>[i]
  BY <1>1, <1>4, <1>7, <1>8 DEF r
<1>11. Turn(t, n - 1, <<f>>)
  BY <1>7, <1>8, <1>9, <1>10 DEF Turn
<1>12. n - 1 = Len(stack[t]) - 2
  BY StackTypes DEF n, q
<1> QED BY <1>11, <1>12 DEF n, q, f

-----------------------------------------------------------------------------
(* What is left of a script                                                *)

LEMMA PlacesFinite ==
  ASSUME NEW r, NEW i, NEW n \in Nat
  PROVE  /\ IsFiniteSet(Places(r, i, n)) /\ Cardinality(Places(r, i, n)) \in Nat
         /\ n \notin Places(r, i, n)
<1>1. IsFiniteSet(0 .. n - 1)
  BY FS_Interval
<1>2. Places(r, i, n) \subseteq 0 .. n - 1
  BY DEF Places
<1> QED BY <1>1, <1>2, FS_Subset, FS_CardinalityType

LEMMA OwedType ==
  ASSUME NEW r, NEW m, NEW n \in Nat
  PROVE  Owed(r, m, n) \in Int
  BY PlacesFinite DEF Owed

LEMMA OwedNothing ==
  ASSUME NEW r, NEW m
  PROVE  Owed(r, m, 0) = 0
<1>1. \A i : Places(r, i, 0) = {}
  BY DEF Places
<1> QED BY <1>1, FS_EmptySet DEF Owed

\* The last instructions are the last ones of the tail, too.
LEMMA PlacesTail ==
  ASSUME NEW r \in Script, r # <<>>, NEW i, NEW n \in 0 .. Len(r) - 1
  PROVE  Places(Tail(r), i, n) = Places(r, i, n)
<1>1. ASSUME NEW k \in 0 .. n - 1 PROVE Tail(r)[Len(Tail(r)) - k] = r[Len(r) - k]
  <2>1. /\ Len(r) \in Nat /\ Len(Tail(r)) = Len(r) - 1
        /\ \A j \in 1 .. Len(r) - 1 : Tail(r)[j] = r[j + 1]
    BY Tails
  <2>2. Len(r) - 1 - k \in 1 .. Len(r) - 1 /\ Len(r) - 1 - k + 1 = Len(r) - k
    BY <2>1
  <2> QED BY <2>1, <2>2
<1> QED BY <1>1 DEF Places

LEMMA CountHead ==
  ASSUME NEW r \in Script, r # <<>>, NEW i
  PROVE  Cardinality(Places(r, i, Len(r)))
           = Cardinality(Places(r, i, Len(r) - 1)) + (IF Head(r) = i THEN 1 ELSE 0)
<1>1. Len(r) \in Nat /\ Len(r) > 0 /\ Head(r) = r[1] /\ Len(r) - 1 \in Nat
  BY Tails
<1> DEFINE n == Len(r) - 1
<1>2. Places(r, i, n + 1) = IF Head(r) = i THEN Places(r, i, n) \cup {n} ELSE Places(r, i, n)
  <2>1. 0 .. n + 1 - 1 = (0 .. n - 1) \cup {n}
    BY <1>1
  <2>2. r[Len(r) - n] = Head(r)
    <3>1. Len(r) - n = 1
      BY <1>1
    <3> QED BY <1>1, <3>1
  <2>3. /\ Places(r, i, n + 1) = {k \in 0 .. n + 1 - 1 : r[Len(r) - k] = i}
        /\ Places(r, i, n) = {k \in 0 .. n - 1 : r[Len(r) - k] = i}
    BY DEF Places
  <2> HIDE DEF n
  <2> QED BY <2>1, <2>2, <2>3
<1>3. n + 1 = Len(r)
  BY <1>1
<1>4. /\ IsFiniteSet(Places(r, i, n)) /\ n \notin Places(r, i, n)
      /\ Cardinality(Places(r, i, n)) \in Nat
  BY <1>1, PlacesFinite
<1>5. Cardinality(Places(r, i, n) \cup {n}) = Cardinality(Places(r, i, n)) + 1
  BY <1>4, FS_AddElement
<1> HIDE DEF n
<1>6. CASE Head(r) = i
  BY <1>2, <1>3, <1>5, <1>6 DEF n
<1>7. CASE Head(r) # i
  <2>1. Places(r, i, n + 1) = Places(r, i, n)
    BY <1>2, <1>7
  <2> QED BY <2>1, <1>3, <1>4, <1>7 DEF n
<1> QED BY <1>6, <1>7

LEMMA OwedTail ==
  ASSUME NEW r \in Script, r # <<>>, NEW m
  PROVE  /\ \A n \in 0 .. Len(Tail(r)) : Owed(Tail(r), m, n) = Owed(r, m, n)
         /\ Owed(r, m, Len(r)) = Owed(Tail(r), m, Len(Tail(r)))
              + (IF Head(r) = Unlock(m) THEN 1 ELSE 0) - (IF Head(r) = Lock(m) THEN 1 ELSE 0)
<1>1. Len(r) \in Nat /\ Len(r) > 0 /\ Len(Tail(r)) = Len(r) - 1
  BY Tails
<1>2. \A n \in 0 .. Len(Tail(r)) : Owed(Tail(r), m, n) = Owed(r, m, n)
  BY <1>1, PlacesTail DEF Owed
<1>3. Len(r) - 1 \in 0 .. Len(Tail(r)) /\ Len(r) - 1 \in Nat
  BY <1>1
<1>4. \A i : Cardinality(Places(r, i, Len(r) - 1)) \in Nat
  BY <1>3, PlacesFinite
<1>5. Owed(r, m, Len(r)) = Owed(r, m, Len(r) - 1)
        + (IF Head(r) = Unlock(m) THEN 1 ELSE 0) - (IF Head(r) = Lock(m) THEN 1 ELSE 0)
  <2> DEFINE a == Cardinality(Places(r, Unlock(m), Len(r) - 1))
             b == Cardinality(Places(r, Lock(m), Len(r) - 1))
             c == IF Head(r) = Unlock(m) THEN 1 ELSE 0
             d == IF Head(r) = Lock(m) THEN 1 ELSE 0
  <2>1. Owed(r, m, Len(r) - 1) = a - b
    BY DEF Owed
  <2>2. Owed(r, m, Len(r)) = (a + c) - (b + d)
    BY CountHead DEF Owed
  <2>3. a \in Nat /\ b \in Nat /\ c \in Nat /\ d \in Nat
    BY <1>4
  <2> HIDE DEF a, b, c, d
  <2>4. Owed(r, m, Len(r)) = Owed(r, m, Len(r) - 1) + c - d
    BY <2>1, <2>2, <2>3
  <2> QED BY <2>4 DEF c, d
<1> QED BY <1>1, <1>2, <1>3, <1>5

\* What is left of a well scoped script unlocks at least what it locks.
LEMMA TailOK ==
  ASSUME NEW f \in Frames, FrameOK(f), f.rest # <<>>
  PROVE  FrameOK([f EXCEPT !.rest = Tail(f.rest)])
<1> DEFINE r == f.rest
           g == [f EXCEPT !.rest = Tail(r)]
<1>1. r \in Script
  BY Changes
<1>2. /\ Tail(r) \in Script /\ Len(r) \in Nat /\ Len(r) > 0 /\ Len(Tail(r)) = Len(r) - 1
      /\ \A i \in 1 .. Len(r) - 1 : Tail(r)[i] = r[i + 1]
  BY <1>1, Tails
<1>3. g.pc = f.pc /\ g.s = f.s /\ g.rest = Tail(r)
  BY DEF Frames
<1>4. Uses(Tail(r)) \subseteq Uses(r)
  <2>1. DOMAIN r = 1 .. Len(r) /\ DOMAIN Tail(r) = 1 .. Len(r) - 1
    BY <1>1, <1>2, LenProperties DEF Script
  <2>2. \A k \in 1 .. Len(r) - 1 : k + 1 \in 1 .. Len(r)
    BY <1>2
  <2> QED BY <1>2, <2>1, <2>2 DEF Uses
<1>5. ASSUME NEW m \in Statics, NEW n \in 0 .. Len(Tail(r)) PROVE Owed(Tail(r), m, n) >= 0
  <2>1. n \in 0 .. Len(r)
    BY <1>2
  <2> QED BY <1>1, <2>1, OwedTail DEF FrameOK
<1> HIDE DEF g
<1> QED BY <1>3, <1>4, <1>5 DEF FrameOK, g

LEMMA ScriptOK ==
  ASSUME NEW r \in Script, WellScoped(r), NEW m \in Statics
  PROVE  (\A n \in 0 .. Len(r) : Owed(r, m, n) >= 0) /\ Owed(r, m, Len(r)) = 0
  BY DEF WellScoped

\* A frame without a script.
LEMMA PlainOK ==
  ASSUME NEW f \in Frames, f.rest = <<>>, f.pc \in UsePcs => f.s \in Statics,
         f.pc = "deleter" => f.s \in Statics \ Immortal, f.pc = "link" => f.s \notin Immortal
  PROVE  FrameOK(f)
<1>1. Len(f.rest) = 0 /\ Uses(f.rest) = {}
  BY DEF Uses
<1>2. \A m \in Statics : \A n \in 0 .. Len(f.rest) : Owed(f.rest, m, n) >= 0
  <2>1. \A n \in 0 .. Len(f.rest) : n = 0
    BY <1>1
  <2> QED BY <2>1, OwedNothing
<1> QED BY <1>1, <1>2 DEF FrameOK

-----------------------------------------------------------------------------
(* Stacks of frames that fit                                               *)

LEMMA TurnKeepsStacks ==
  ASSUME TypeOK, Stacks, NEW t \in Threads, NEW keep, NEW above, Turn(t, keep, above),
         \A i \in 1 .. Len(above) : FrameOK(above[i]),
         keep = 0 /\ Len(above) > 0 => above[1].pc \in {"operation", "shutdown"},
         keep > 0 /\ Len(above) > 0 => LinkOK(stack[t][keep], above[1]),
         \A i \in 2 .. Len(above) : LinkOK(above[i - 1], above[i])
  PROVE  Stacks'
<1> DEFINE q == stack'[t]
           a == Len(above)
<1>1. /\ keep \in Nat /\ a \in Nat /\ keep <= Len(stack[t]) /\ Len(stack[t]) \in Nat
      /\ q \in Seq(Frames) /\ Len(q) = keep + a
      /\ \A i \in 1 .. keep : q[i] = stack[t][i]
      /\ \A i \in 1 .. a : q[keep + i] = above[i]
  BY StackTypes, LenProperties DEF Turn
<1>2. StackOK(stack[t])
  BY DEF Stacks
<1>3. \A u \in Threads \ {t} : stack'[u] = stack[u]
  BY DEF Turn
<1>4. StackOK(q)
  <2> HIDE DEF q, a
  <2>1. ASSUME NEW i \in 1 .. Len(q) PROVE FrameOK(q[i])
    <3>1. CASE i <= keep
      <4>1. i \in 1 .. keep /\ i \in 1 .. Len(stack[t])
        BY <1>1, <3>1
      <4> QED BY <4>1, <1>1, <1>2 DEF StackOK
    <3>2. CASE ~(i <= keep)
      <4>1. i - keep \in 1 .. a /\ keep + (i - keep) = i
        BY <1>1, <3>2
      <4>2. q[i] = above[i - keep]
        BY <4>1, <1>1
      <4> QED BY <4>1, <4>2 DEF a
    <3> QED BY <3>1, <3>2
  <2>2. q # <<>> => q[1].pc \in {"operation", "shutdown"}
    <3>1. CASE keep > 0
      <4>1. q[1] = stack[t][1] /\ stack[t] # <<>>
        BY <1>1, <3>1, StackTypes
      <4> QED BY <4>1, <1>2 DEF StackOK
    <3>2. CASE keep = 0
      <4>1. CASE a > 0
        <5>1. q[1] = above[1]
          BY <1>1, <3>2, <4>1
        <5> QED BY <5>1, <3>2, <4>1 DEF a
      <4>2. CASE a = 0
        BY <1>1, <3>2, <4>2, EmptySeq
      <4> QED BY <4>1, <4>2, <1>1
    <3> QED BY <3>1, <3>2, <1>1
  <2>3. ASSUME NEW i \in 2 .. Len(q) PROVE LinkOK(q[i - 1], q[i])
    <3>1. CASE i <= keep
      <4>1. i \in 1 .. keep /\ i - 1 \in 1 .. keep /\ i \in 2 .. Len(stack[t])
        BY <1>1, <3>1
      <4>2. q[i] = stack[t][i] /\ q[i - 1] = stack[t][i - 1]
        BY <4>1, <1>1
      <4> QED BY <4>1, <4>2, <1>2 DEF StackOK
    <3>2. CASE i = keep + 1
      <4>1. keep \in 1 .. keep /\ i - 1 = keep /\ 1 \in 1 .. a /\ keep > 0
        BY <1>1, <3>2
      <4>2. q[i] = above[1] /\ q[i - 1] = stack[t][keep]
        BY <4>1, <1>1, <3>2
      <4>3. a > 0
        BY <1>1, <3>2
      <4> QED BY <4>1, <4>2, <4>3 DEF a
    <3>3. CASE i > keep + 1
      <4>1. /\ i - keep \in 2 .. a /\ i - keep \in 1 .. a /\ i - keep - 1 \in 1 .. a
            /\ keep + (i - keep) = i /\ keep + (i - keep - 1) = i - 1
        BY <1>1, <3>3
      <4>2. q[i] = above[i - keep] /\ q[i - 1] = above[i - keep - 1]
        BY <4>1, <1>1
      <4> QED BY <4>1, <4>2 DEF a
    <3> QED BY <3>1, <3>2, <3>3, <1>1
  <2> QED BY <2>1, <2>2, <2>3 DEF StackOK
<1>5. ASSUME NEW u \in Threads PROVE StackOK(stack'[u])
  <2>1. CASE u = t
    BY <1>4, <2>1
  <2>2. CASE u # t
    <3>1. stack'[u] = stack[u]
      BY <1>3, <2>2
    <3> QED BY <3>1 DEF Stacks
  <2> QED BY <2>1, <2>2
<1> QED BY <1>5 DEF Stacks

\* One frame for the top, or a frame on top of it, or one less.
LEMMA OneMoves ==
  ASSUME NEW f \in Frames
  PROVE  Len(<<f>>) = 1 /\ <<f>>[1] = f /\ \A i \in 1 .. Len(<<f>>) : <<f>>[i] = f
<1>1. Len(<<f>>) = 1 /\ <<f>>[1] = f
  OBVIOUS
<1>2. \A i \in 1 .. 1 : i = 1
  OBVIOUS
<1> QED BY <1>1, <1>2

\* What the shape of a stack says of its frames, by where they are.
LEMMA StackShape ==
  ASSUME TypeOK, Stacks, NEW t \in Threads, NEW i \in 1 .. Len(stack[t])
  PROVE  /\ FrameOK(stack[t][i]) /\ stack[t][i] \in Frames
         /\ i = 1 <=> stack[t][i].pc \in {"operation", "shutdown"}
         /\ i > 1 => LinkOK(stack[t][i - 1], stack[t][i])
         /\ stack[t][i].pc = "deleter" <=> i = 2 /\ stack[t][1].pc = "shutdown"
         /\ i < Len(stack[t]) => /\ stack[t][i].pc \in {"operation", "shutdown", "creator", "deleter"}
                                 /\ LinkOK(stack[t][i], stack[t][i + 1])
<1> DEFINE q == stack[t]
<1>1. StackOK(q) /\ Len(q) \in Nat /\ q # <<>> /\ \A j \in 1 .. Len(q) : q[j] \in Frames
  BY StackTypes DEF Stacks
<1>2. FrameOK(q[i]) /\ q[i] \in Frames /\ q[1].pc \in {"operation", "shutdown"}
  BY <1>1 DEF StackOK
<1> HIDE DEF q
<1>3. ASSUME NEW j \in 2 .. Len(q)
      PROVE  /\ LinkOK(q[j - 1], q[j]) /\ q[j].pc \notin {"operation", "shutdown"}
             /\ q[j - 1].pc \in {"operation", "shutdown", "creator", "deleter"}
             /\ q[j].pc = "deleter" <=> q[j - 1].pc = "shutdown"
  <2>1. LinkOK(q[j - 1], q[j])
    BY <1>1 DEF StackOK
  <2> QED BY <2>1 DEF LinkOK, UsePcs
<1>4. i = 1 <=> q[i].pc \in {"operation", "shutdown"}
  <2>1. CASE i = 1
    BY <1>2, <2>1
  <2>2. CASE i # 1
    <3>1. i \in 2 .. Len(q)
      BY <2>2, <1>1 DEF q
    <3> QED BY <3>1, <1>3, <2>2
  <2> QED BY <2>1, <2>2
<1>5. i > 1 => LinkOK(q[i - 1], q[i])
  <2>1. i > 1 => i \in 2 .. Len(q)
    BY <1>1 DEF q
  <2> QED BY <2>1, <1>3
<1>6. q[i].pc = "deleter" <=> i = 2 /\ q[1].pc = "shutdown"
  <2>1. CASE i = 1
    BY <1>2, <2>1
  <2>2. CASE i = 2
    <3>1. i \in 2 .. Len(q) /\ i - 1 = 1
      BY <2>2, <1>1 DEF q
    <3>2. q[2].pc = "deleter" <=> q[1].pc = "shutdown"
      BY <3>1, <2>2, <1>3
    <3> QED BY <3>2, <2>2
  <2>3. CASE i > 2
    <3>1. i \in 2 .. Len(q) /\ i - 1 \in 2 .. Len(q)
      BY <2>3, <1>1 DEF q
    <3>2. q[i - 1].pc # "shutdown"
      BY <3>1, <1>3
    <3>3. q[i].pc # "deleter"
      BY <3>1, <3>2, <1>3
    <3> QED BY <3>3, <2>3
  <2>4. i \in 1 .. Len(q) /\ Len(q) \in Nat
    BY <1>1 DEF q
  <2> QED BY <2>1, <2>2, <2>3, <2>4
<1>7. i < Len(q) => /\ q[i].pc \in {"operation", "shutdown", "creator", "deleter"}
                    /\ LinkOK(q[i], q[i + 1])
  <2>1. i < Len(q) => i + 1 \in 2 .. Len(q) /\ i + 1 - 1 = i
    BY <1>1 DEF q
  <2> QED BY <2>1, <1>3
<1> QED BY <1>2, <1>4, <1>5, <1>6, <1>7 DEF q

LEMMA TopKeepsStacks ==
  ASSUME TypeOK, Stacks, NEW t \in Threads, stack[t] # <<>>, NEW f \in Frames,
         Turn(t, Len(stack[t]) - 1, <<f>>), FrameOK(f), f.s = Top(t).s,
         f.pc = Top(t).pc \/ (f.pc \in UsePcs /\ Top(t).pc \in UsePcs)
  PROVE  Stacks'
<1> DEFINE n == Len(stack[t])
<1>1. n \in 1 .. n /\ n \in Nat /\ Top(t) = stack[t][n]
  BY StackTypes, Tops
<1>2. \A i \in 1 .. Len(<<f>>) : FrameOK(<<f>>[i])
  BY OneMoves
<1>3. n - 1 = 0 => <<f>>[1].pc \in {"operation", "shutdown"}
  <2>1. n - 1 = 0 => Top(t).pc \in {"operation", "shutdown"}
    BY <1>1, StackShape
  <2> QED BY <2>1, <1>1 DEF UsePcs
<1>4. n - 1 > 0 => LinkOK(stack[t][n - 1], <<f>>[1])
  <2>1. n - 1 > 0 => LinkOK(stack[t][n - 1], Top(t))
    <3>1. n - 1 > 0 => n > 1
      BY <1>1
    <3> QED BY <1>1, <3>1, StackShape
  <2>2. ASSUME NEW g, LinkOK(g, Top(t)) PROVE LinkOK(g, f)
    BY <2>2 DEF LinkOK, UsePcs
  <2> QED BY <2>1, <2>2
<1>5. \A i \in 2 .. Len(<<f>>) : LinkOK(<<f>>[i - 1], <<f>>[i])
  <2>1. 2 .. Len(<<f>>) = {}
    BY OneMoves
  <2> QED BY <2>1
<1> QED BY <1>2, <1>3, <1>4, <1>5, TurnKeepsStacks

LEMMA PopKeepsStacks ==
  ASSUME TypeOK, Stacks, NEW t \in Threads, NEW keep, Turn(t, keep, <<>>)
  PROVE  Stacks'
<1>1. Len(<<>>) = 0 /\ 1 .. 0 = {} /\ 2 .. 0 = {}
  OBVIOUS
<1> QED BY <1>1, TurnKeepsStacks

LEMMA NewKeepsStacks ==
  ASSUME TypeOK, Stacks, NEW t \in Threads, NEW f \in Frames, Turn(t, 0, <<f>>), FrameOK(f),
         f.pc \in {"operation", "shutdown"}
  PROVE  Stacks'
<1>1. \A i \in 1 .. Len(<<f>>) : FrameOK(<<f>>[i])
  BY OneMoves
<1>2. 2 .. Len(<<f>>) = {} /\ <<f>>[1].pc \in {"operation", "shutdown"}
  BY OneMoves
<1> QED BY <1>1, <1>2, TurnKeepsStacks

\* A frame with a script of its own.
LEMMA ScriptFrameOK ==
  ASSUME NEW pc \in {"operation", "creator", "deleter"}, NEW s \in Statics \cup {None},
         NEW r \in Script, WellScoped(r),
         pc = "creator" => s \in Statics /\ r = Creator[s],
         pc = "deleter" => s \in Statics \ Immortal /\ r = Deleter[s]
  PROVE  FrameOK(Frame(pc, s, r)) /\ Frame(pc, s, r) \in Frames
<1>1. pc \in Pcs
  BY DEF Pcs
<1> DEFINE f == Frame(pc, s, r)
<1>2. f \in Frames /\ f.pc = pc /\ f.s = s /\ f.rest = r
  BY <1>1, FrameTypes
<1>3. \A m \in Statics : \A n \in 0 .. Len(f.rest) : Owed(f.rest, m, n) >= 0
  BY <1>2, ScriptOK
<1> HIDE DEF f
<1> QED BY <1>2, <1>3 DEF FrameOK, UsePcs, f

LEMMA Scripts ==
  /\ \A s \in Statics : /\ Creator[s] \in Script /\ WellScoped(Creator[s])
                        /\ Deleter[s] \in Script /\ WellScoped(Deleter[s])
  /\ Startup \in Script /\ WellScoped(Startup)
  /\ \A r \in Operations : r \in Script /\ WellScoped(r)
  BY StaticsAssumption, ScriptsAssumption

\* A frame goes on to another label of operator*, without a script.
LEMMA GotoKeepsStacks ==
  ASSUME TypeOK, Stacks, NEW t \in Threads, stack[t] # <<>>, Top(t).pc \in UsePcs,
         Top(t).rest = <<>>, NEW pc \in UsePcs, Goto(t, pc), pc = "link" => Top(t).s \notin Immortal
  PROVE  /\ Turn(t, Len(stack[t]) - 1, <<[Top(t) EXCEPT !.pc = pc]>>)
         /\ [Top(t) EXCEPT !.pc = pc] \in Frames /\ FrameOK([Top(t) EXCEPT !.pc = pc])
         /\ Stacks'
<1> DEFINE f == [Top(t) EXCEPT !.pc = pc]
<1>1. Top(t) \in Frames /\ pc \in Pcs
  BY Tops DEF UsePcs, Pcs
<1>2. f \in Frames /\ f.pc = pc /\ f.s = Top(t).s /\ f.rest = Top(t).rest
  BY <1>1, Changes DEF Frames
<1>3. Turn(t, Len(stack[t]) - 1, <<f>>)
  BY <1>1, GotoTurns
<1>4. Top(t).s \in Statics
  <2>1. FrameOK(Top(t))
    BY StackTypes, Tops, StackShape
  <2> QED BY <2>1 DEF FrameOK
<1>5. FrameOK(f)
  <2> HIDE DEF f
  <2>1. f.pc # "deleter"
    BY <1>2 DEF UsePcs
  <2> QED BY <1>2, <1>4, <2>1, PlainOK
<1> HIDE DEF f
<1>6. Stacks'
  BY <1>2, <1>3, <1>5, TopKeepsStacks
<1> QED BY <1>2, <1>3, <1>5, <1>6 DEF f

LEMMA CreatorKeepsStacks ==
  ASSUME TypeOK, Stacks, NEW t \in Threads, stack[t] # <<>>, Top(t).pc \in UsePcs, CallCreator(t)
  PROVE  /\ Turn(t, Len(stack[t]) - 1, <<Frame("creator", Top(t).s, Creator[Top(t).s])>>)
         /\ Frame("creator", Top(t).s, Creator[Top(t).s]) \in Frames
         /\ FrameOK(Frame("creator", Top(t).s, Creator[Top(t).s]))
         /\ Top(t).s \in Statics
         /\ Stacks'
<1> DEFINE f == Frame("creator", Top(t).s, Creator[Top(t).s])
<1>1. Top(t).s \in Statics
  <2>1. FrameOK(Top(t))
    BY StackTypes, Tops, StackShape
  <2> QED BY <2>1 DEF FrameOK
<1>2. Turn(t, Len(stack[t]) - 1, <<f>>)
  BY <1>1, CreatorTurns
<1>3. f \in Frames /\ FrameOK(f)
  BY <1>1, ScriptFrameOK, Scripts
<1>4. f.s = Top(t).s /\ f.pc = "creator"
  BY DEF Frame
<1> HIDE DEF f
<1>5. Stacks'
  BY <1>2, <1>3, <1>4, TopKeepsStacks DEF UsePcs
<1> QED BY <1>1, <1>2, <1>3, <1>5 DEF f

\* A script goes on.
LEMMA AdvancedKeepsStacks ==
  ASSUME TypeOK, Stacks, NEW t \in Threads, stack[t] # <<>>, Top(t).rest # <<>>, stack' = Advanced(t)
  PROVE  /\ Turn(t, Len(stack[t]) - 1, <<[Top(t) EXCEPT !.rest = Tail(Top(t).rest)]>>)
         /\ [Top(t) EXCEPT !.rest = Tail(Top(t).rest)] \in Frames
         /\ Stacks'
<1> DEFINE f == [Top(t) EXCEPT !.rest = Tail(Top(t).rest)]
<1>1. Top(t) \in Frames /\ FrameOK(Top(t))
  BY StackTypes, Tops, StackShape
<1>2. f \in Frames /\ f.pc = Top(t).pc /\ f.s = Top(t).s
  BY <1>1, Changes, Tails DEF Frames
<1>3. FrameOK(f)
  BY <1>1, TailOK
<1>4. Turn(t, Len(stack[t]) - 1, <<f>>)
  BY AdvancedTurns
<1> HIDE DEF f
<1>5. Stacks'
  BY <1>2, <1>3, <1>4, TopKeepsStacks
<1> QED BY <1>2, <1>4, <1>5 DEF f

LEMMA UseKeepsStacks ==
  ASSUME TypeOK, Stacks, NEW t \in Threads, UseStatic(t)
  PROVE  Stacks'
<1> DEFINE n == Len(stack[t])
           r == Top(t).rest
           s == Head1(t).on
           f == [Top(t) EXCEPT !.rest = Tail(r)]
           g == Frame("read", s, <<>>)
<1>1. /\ stack[t] # <<>> /\ r # <<>> /\ Top(t) \in Frames /\ r \in Script
      /\ Top(t).pc \in {"operation", "creator", "deleter"}
  BY AtTop, Changes DEF UseStatic, Doing, Running
<1>2. Turn(t, n - 1, <<f, g>>) /\ s \in Statics
  BY UseTurns
<1>3. n \in 1 .. n /\ n \in Nat /\ Top(t) = stack[t][n] /\ FrameOK(Top(t))
  BY <1>1, StackTypes, Tops, StackShape
<1>4. f \in Frames /\ f.pc = Top(t).pc /\ f.s = Top(t).s /\ FrameOK(f)
  BY <1>1, <1>3, Changes, Tails, TailOK DEF Frames
<1>5. g \in Frames /\ g.pc = "read" /\ g.s = s /\ FrameOK(g)
  <2>1. <<>> \in Script /\ "read" \in Pcs
    BY DEF Script, Pcs
  <2>2. g \in Frames /\ g.pc = "read" /\ g.s = s /\ g.rest = <<>>
    BY <1>2, <2>1, FrameTypes
  <2> HIDE DEF g
  <2> QED BY <1>2, <2>2, PlainOK
<1>6. s \in Uses(r)
  <2>1. r[1] = Head1(t) /\ 1 \in DOMAIN r /\ r[1].op = "use"
    <3>1. Head(r) = r[1] /\ Len(r) \in Nat /\ Len(r) > 0 /\ DOMAIN r = 1 .. Len(r)
      BY <1>1, Tails, LenProperties DEF Script
    <3> QED BY <3>1 DEF Head1, UseStatic, Doing
  <2> QED BY <2>1 DEF Uses
<1>7. LinkOK(f, g)
  <2> HIDE DEF f, g
  <2> QED BY <1>1, <1>3, <1>4, <1>5, <1>6 DEF LinkOK, FrameOK, UsePcs
<1> HIDE DEF f, g
<1>8. Len(<<f, g>>) = 2 /\ <<f, g>>[1] = f /\ <<f, g>>[2] = g
  OBVIOUS
<1>9. \A i \in 1 .. Len(<<f, g>>) : FrameOK(<<f, g>>[i])
  <2>1. \A i \in 1 .. 2 : i = 1 \/ i = 2
    OBVIOUS
  <2> QED BY <2>1, <1>4, <1>5, <1>8
<1>10. n - 1 = 0 => <<f, g>>[1].pc \in {"operation", "shutdown"}
  <2>1. n - 1 = 0 => Top(t).pc \in {"operation", "shutdown"}
    BY <1>3, StackShape
  <2> QED BY <2>1, <1>4, <1>8
<1>11. n - 1 > 0 => LinkOK(stack[t][n - 1], <<f, g>>[1])
  <2>1. n - 1 > 0 => LinkOK(stack[t][n - 1], Top(t))
    <3>1. n - 1 > 0 => n > 1
      BY <1>3
    <3> QED BY <1>3, <3>1, StackShape
  <2>2. ASSUME NEW h, LinkOK(h, Top(t)) PROVE LinkOK(h, f)
    BY <1>4, <2>2 DEF LinkOK
  <2> QED BY <2>1, <2>2, <1>8
<1>12. \A i \in 2 .. Len(<<f, g>>) : LinkOK(<<f, g>>[i - 1], <<f, g>>[i])
  <2>1. \A i \in 2 .. 2 : i = 2 /\ i - 1 = 1
    OBVIOUS
  <2> QED BY <2>1, <1>7, <1>8
<1> QED BY <1>2, <1>9, <1>10, <1>11, <1>12, TurnKeepsStacks DEF f, g

\* operator* has a caller.
LEMMA DerefCaller ==
  ASSUME TypeOK, Stacks, NEW t \in Threads, At(t, "deref")
  PROVE  /\ Len(stack[t]) \in Nat /\ Len(stack[t]) > 1 /\ Top(t).s \in Statics
         /\ Top(t) = stack[t][Len(stack[t])]
         /\ stack[t][Len(stack[t]) - 1] \in Frames
         /\ LinkOK(stack[t][Len(stack[t]) - 1], Top(t))
<1>1. /\ stack[t] # <<>> /\ Top(t).pc = "deref" /\ Len(stack[t]) \in Nat
      /\ Len(stack[t]) \in 1 .. Len(stack[t]) /\ Top(t) = stack[t][Len(stack[t])]
  BY AtTop, StackTypes
<1>2. Len(stack[t]) # 1 /\ FrameOK(Top(t))
  BY <1>1, StackShape
<1>3. Len(stack[t]) > 1 /\ Len(stack[t]) - 1 \in 1 .. Len(stack[t])
  <2> DEFINE n == Len(stack[t])
  <2>1. n \in Nat /\ n \in 1 .. n /\ n # 1
    BY <1>1, <1>2
  <2> HIDE DEF n
  <2>2. n > 1 /\ n - 1 \in 1 .. n
    BY <2>1
  <2> QED BY <2>2 DEF n
<1>4. LinkOK(stack[t][Len(stack[t]) - 1], Top(t)) /\ stack[t][Len(stack[t]) - 1] \in Frames
  BY <1>1, <1>3, StackShape
<1> QED BY <1>1, <1>2, <1>3, <1>4 DEF FrameOK, UsePcs

LEMMA DerefKeepsStacks ==
  ASSUME TypeOK, Stacks, NEW t \in Threads, Deref(t)
  PROVE  Stacks'
<1> DEFINE n == Len(stack[t]) - 1
           h == stack[t][n]
           o == <<Top(t).s, Ptr[Top(t).s]>>
           f == [h EXCEPT !.got = h.got \cup {o}]
<1>1. At(t, "deref")
  BY DEF Deref
<1>2. n \in 1 .. Len(stack[t]) /\ n \in Nat /\ h \in Frames /\ Top(t).s \in Statics /\ Len(stack[t]) > 1
  BY <1>1, DerefCaller
<1>3. Turn(t, n - 1, <<f>>)
  <2>1. n - 1 = Len(stack[t]) - 2
    BY <1>1, DerefCaller
  <2> QED BY <1>2, <2>1, DerefTurns
<1>4. f \in Frames /\ f.pc = h.pc /\ f.s = h.s /\ f.rest = h.rest
  <2>1. o \in Statics \X Nat
    BY <1>2 DEF TypeOK
  <2> QED BY <1>2, <2>1, Changes DEF Frames
<1>5. FrameOK(h)
  BY <1>2, StackShape
<1> HIDE DEF f, h, n
<1>6. FrameOK(f)
  BY <1>4, <1>5 DEF FrameOK
<1>7. \A i \in 1 .. Len(<<f>>) : FrameOK(<<f>>[i])
  BY <1>4, <1>6, OneMoves
<1>8. n - 1 = 0 => <<f>>[1].pc \in {"operation", "shutdown"}
  <2>1. n - 1 = 0 => h.pc \in {"operation", "shutdown"}
    BY <1>2, StackShape DEF h
  <2> QED BY <2>1, <1>4
<1>9. n - 1 > 0 => LinkOK(stack[t][n - 1], <<f>>[1])
  <2>1. n - 1 > 0 => LinkOK(stack[t][n - 1], h)
    <3>1. n - 1 > 0 => n > 1
      BY <1>2
    <3> QED BY <1>2, <3>1, StackShape DEF h
  <2>2. ASSUME NEW g, LinkOK(g, h) PROVE LinkOK(g, f)
    BY <1>4, <2>2 DEF LinkOK
  <2> QED BY <2>1, <2>2
<1>10. 2 .. Len(<<f>>) = {}
  BY <1>4, OneMoves
<1> QED BY <1>3, <1>7, <1>8, <1>9, <1>10, TurnKeepsStacks

-----------------------------------------------------------------------------
(* What a step of one thread leaves as it was                              *)

\* A frame after the step is new, or was there before.
LEMMA TurnFrames ==
  ASSUME TypeOK, NEW t \in Threads, NEW keep, NEW above, Turn(t, keep, above),
         NEW u \in Threads, NEW i \in 1 .. Len(stack'[u])
  PROVE  \/ /\ u = t /\ i > keep /\ i - keep \in 1 .. Len(above)
            /\ stack'[u][i] = above[i - keep]
         \/ /\ u # t \/ i <= keep
            /\ i \in 1 .. Len(stack[u]) /\ stack'[u][i] = stack[u][i]
<1>1. /\ keep \in Nat /\ Len(above) \in Nat /\ keep <= Len(stack[t]) /\ Len(stack[t]) \in Nat
      /\ Len(stack'[t]) = keep + Len(above)
      /\ \A j \in 1 .. keep : stack'[t][j] = stack[t][j]
      /\ \A j \in 1 .. Len(above) : stack'[t][keep + j] = above[j]
  BY StackTypes, LenProperties DEF Turn
<1>2. CASE u # t
  <2>1. stack'[u] = stack[u]
    BY <1>2 DEF Turn
  <2> QED BY <2>1, <1>2
<1>3. CASE u = t /\ i <= keep
  <2>1. i \in 1 .. keep /\ i \in 1 .. Len(stack[t])
    BY <1>1, <1>3
  <2> QED BY <1>1, <1>3, <2>1
<1>4. CASE u = t /\ ~(i <= keep)
  <2>1. i \in 1 .. keep + Len(above)
    BY <1>1, <1>4
  <2>2. i > keep /\ i - keep \in 1 .. Len(above) /\ keep + (i - keep) = i
    BY <1>1, <1>4, <2>1
  <2>3. stack'[t][i] = above[i - keep]
    BY <1>1, <2>2
  <2> QED BY <2>2, <2>3, <1>4
<1> QED BY <1>2, <1>3, <1>4

\* And a frame before the step stays, unless it is above those that do.
LEMMA TurnKeeps ==
  ASSUME TypeOK, NEW t \in Threads, NEW keep, NEW above, Turn(t, keep, above),
         NEW u \in Threads, NEW i \in 1 .. Len(stack[u])
  PROVE  \/ u = t /\ i \in keep + 1 .. Len(stack[t])
         \/ i \in 1 .. Len(stack'[u]) /\ stack'[u][i] = stack[u][i]
<1>1. /\ keep \in Nat /\ Len(above) \in Nat /\ keep <= Len(stack[t]) /\ Len(stack[t]) \in Nat
      /\ Len(stack'[t]) = keep + Len(above)
      /\ \A j \in 1 .. keep : stack'[t][j] = stack[t][j]
  BY StackTypes, LenProperties DEF Turn
<1>2. CASE u # t
  BY <1>2 DEF Turn
<1>3. CASE u = t /\ i <= keep
  <2>1. i \in 1 .. keep /\ i \in 1 .. keep + Len(above)
    BY <1>1, <1>3
  <2> QED BY <1>1, <1>3, <2>1
<1>4. CASE u = t /\ ~(i <= keep)
  <2>1. i \in keep + 1 .. Len(stack[t])
    BY <1>1, <1>4
  <2> QED BY <1>4, <2>1
<1> QED BY <1>2, <1>3, <1>4

\* Which statics are being put on the list or destroyed by new frames, and
\* which were by those that are gone.
Brings(above, s, pc) == \E i \in 1 .. Len(above) : above[i].pc = pc /\ above[i].s = s
Drops(t, keep, s, pc) ==
  \E i \in keep + 1 .. Len(stack[t]) : stack[t][i].pc = pc /\ stack[t][i].s = s

LEMMA SomewhereIs ==
  ASSUME TypeOK, NEW s, NEW pc
  PROVE  Somewhere(s, pc) <=>
           \E u \in Threads : \E i \in 1 .. Len(stack[u]) : stack[u][i].pc = pc /\ stack[u][i].s = s
  BY StackTypes DEF Somewhere

LEMMA SomewhereThen ==
  ASSUME stack' \in [Threads -> Seq(Frames)], NEW s, NEW pc
  PROVE  Somewhere(s, pc)' <=>
           \E u \in Threads : \E i \in 1 .. Len(stack'[u]) : stack'[u][i].pc = pc /\ stack'[u][i].s = s
<1>1. \A u \in Threads : DOMAIN stack'[u] = 1 .. Len(stack'[u])
  BY LenProperties
<1> QED BY <1>1 DEF Somewhere

LEMMA TurnSomewhere ==
  ASSUME TypeOK, NEW t \in Threads, NEW keep, NEW above, Turn(t, keep, above), NEW s, NEW pc
  PROVE  /\ Somewhere(s, pc)' => Somewhere(s, pc) \/ Brings(above, s, pc)
         /\ Somewhere(s, pc) => Somewhere(s, pc)' \/ Drops(t, keep, s, pc)
         /\ Brings(above, s, pc) => Somewhere(s, pc)'
<1>1. stack' \in [Threads -> Seq(Frames)]
  BY DEF Turn
<1>2. ASSUME Somewhere(s, pc)' PROVE Somewhere(s, pc) \/ Brings(above, s, pc)
  <2>0. PICK u \in Threads : \E i \in 1 .. Len(stack'[u]) : stack'[u][i].pc = pc /\ stack'[u][i].s = s
    BY <1>1, <1>2, SomewhereThen
  <2>1. PICK i \in 1 .. Len(stack'[u]) : stack'[u][i].pc = pc /\ stack'[u][i].s = s
    BY <2>0
  <2>2. CASE u = t /\ i > keep /\ i - keep \in 1 .. Len(above) /\ stack'[u][i] = above[i - keep]
    BY <2>1, <2>2 DEF Brings
  <2>3. CASE i \in 1 .. Len(stack[u]) /\ stack'[u][i] = stack[u][i]
    BY <2>1, <2>3, SomewhereIs
  <2> QED BY <2>2, <2>3, TurnFrames
<1>3. ASSUME Somewhere(s, pc) PROVE Somewhere(s, pc)' \/ Drops(t, keep, s, pc)
  <2>0. PICK u \in Threads : \E i \in 1 .. Len(stack[u]) : stack[u][i].pc = pc /\ stack[u][i].s = s
    BY <1>3, SomewhereIs
  <2>1. PICK i \in 1 .. Len(stack[u]) : stack[u][i].pc = pc /\ stack[u][i].s = s
    BY <2>0
  <2>2. CASE u = t /\ i \in keep + 1 .. Len(stack[t])
    BY <2>1, <2>2 DEF Drops
  <2>3. CASE i \in 1 .. Len(stack'[u]) /\ stack'[u][i] = stack[u][i]
    BY <1>1, <2>1, <2>3, SomewhereThen
  <2> QED BY <2>2, <2>3, TurnKeeps
<1>4. ASSUME Brings(above, s, pc) PROVE Somewhere(s, pc)'
  <2>1. PICK i \in 1 .. Len(above) : above[i].pc = pc /\ above[i].s = s
    BY <1>4 DEF Brings
  <2>2. /\ stack'[t][keep + i] = above[i] /\ Len(stack'[t]) = keep + Len(above)
        /\ keep \in Nat /\ Len(above) \in Nat
    BY <2>1, StackTypes, LenProperties DEF Turn
  <2>3. keep + i \in 1 .. Len(stack'[t])
    BY <2>2
  <2> QED BY <1>1, <2>1, <2>2, <2>3, SomewhereThen
<1> QED BY <1>2, <1>3, <1>4

\* The mode of a thread that is under way does not change.
LEMMA TurnKeepsModes ==
  ASSUME TypeOK, Modes, NEW t \in Threads, NEW keep, NEW above, Turn(t, keep, above),
         stack[t] # <<>>, UNCHANGED mode,
         \A i \in 1 .. Len(above) :
           /\ above[i].pc # "shutdown"
           /\ above[i].pc \in {"acquire", "release"} => multithreaded_mode
  PROVE  Modes'
<1>1. \A u \in Threads \ {t} : stack'[u] = stack[u]
  BY DEF Turn
<1>2. multithreaded_mode' = multithreaded_mode /\ shutdowns' = shutdowns
  BY DEF mode
<1>3. ~multithreaded_mode' =>
        \A v, u \in Threads : v = u \/ stack'[v] = <<>> \/ stack'[u] = <<>>
  BY <1>1, <1>2 DEF Modes
<1>4. ASSUME NEW u \in Threads, NEW i \in 1 .. Len(stack'[u]), stack'[u][i].pc = "shutdown"
      PROVE  Isolated(u)' /\ shutdowns' < MaxShutdowns
  <2>1. i \in 1 .. Len(stack[u]) /\ stack'[u][i] = stack[u][i]
    BY <1>4, TurnFrames
  <2>2. Isolated(u) /\ shutdowns < MaxShutdowns
    BY <1>4, <2>1 DEF Modes
  <2>3. u = t
    BY <2>2 DEF Isolated
  <2> QED BY <1>1, <1>2, <2>2, <2>3 DEF Isolated
<1>5. ASSUME NEW u \in Threads, NEW i \in 1 .. Len(stack'[u]), stack'[u][i].pc \in {"acquire", "release"}
      PROVE  multithreaded_mode'
  <2>1. \/ i - keep \in 1 .. Len(above) /\ stack'[u][i] = above[i - keep]
        \/ i \in 1 .. Len(stack[u]) /\ stack'[u][i] = stack[u][i]
    BY TurnFrames
  <2> QED BY <1>2, <1>5, <2>1 DEF Modes
<1> QED BY <1>3, <1>4, <1>5 DEF Modes

\* Pointers are as frames need them. Where an object is destroyed no frame
\* needs it, and Destroyed has its own lemma.
LEMMA TurnKeepsPointers ==
  ASSUME TypeOK, Pointers, NEW t \in Threads, NEW keep, NEW above, Turn(t, keep, above),
         \A s \in Statics : Ptr[s] # 0 => Ptr'[s] # 0,
         \A u \in Threads : \A i \in 1 .. Len(stack[u]) :
           (u # t \/ i <= keep) /\ stack[u][i].pc = "creator" => Ptr'[stack[u][i].s] = 0,
         \A s \in Statics : ~(Somewhere(s, "link")' /\ Somewhere(s, "deleter")'),
         \A i \in 1 .. Len(above) : FramePtr(above[i], Ptr') /\ LocksReady(above, i, Ptr'),
         keep > 0 /\ keep < Len(stack[t]) /\ stack[t][keep + 1].pc \in UsePcs =>
           \/ Ptr'[stack[t][keep + 1].s] # 0
           \/ Len(above) > 0 /\ above[1].pc \in UsePcs /\ above[1].s = stack[t][keep + 1].s,
         objects' = {<<s, Ptr'[s]>> : s \in {s \in Statics : Ptr'[s] # 0}},
         \A u \in Threads : \A i \in 1 .. Len(stack[u]) : FrameOK(stack[u][i])
  PROVE  Pointers'
<1>1. /\ keep \in Nat /\ Len(above) \in Nat /\ keep <= Len(stack[t]) /\ Len(stack[t]) \in Nat
      /\ Len(stack'[t]) = keep + Len(above)
      /\ \A j \in 1 .. keep : stack'[t][j] = stack[t][j]
      /\ \A j \in 1 .. Len(above) : stack'[t][keep + j] = above[j]
  BY StackTypes, LenProperties DEF Turn
<1>2. ASSUME NEW u \in Threads, NEW i \in 1 .. Len(stack'[u]) PROVE FramePtr(stack'[u][i], Ptr')
  <2>1. CASE i - keep \in 1 .. Len(above) /\ stack'[u][i] = above[i - keep]
    BY <2>1
  <2>2. CASE (u # t \/ i <= keep) /\ i \in 1 .. Len(stack[u]) /\ stack'[u][i] = stack[u][i]
    <3>1. FramePtr(stack[u][i], Ptr) /\ FrameOK(stack[u][i])
      BY <2>2 DEF Pointers
    <3>2. stack[u][i].pc = "creator" => Ptr'[stack[u][i].s] = 0
      BY <2>2
    <3>3. stack[u][i].pc \in {"link", "release", "deref", "deleter"} => stack[u][i].s \in Statics
      BY <3>1 DEF FrameOK, UsePcs
    <3> QED BY <2>2, <3>1, <3>2, <3>3 DEF FramePtr
  <2> QED BY <2>1, <2>2, TurnFrames
<1>3. ASSUME NEW u \in Threads, NEW i \in 1 .. Len(stack'[u]) PROVE LocksReady(stack'[u], i, Ptr')
  <2>0. stack'[u] \in Seq(Frames) /\ Len(stack[u]) \in Nat /\ Len(stack'[u]) \in Nat
    BY StackTypes, LenProperties DEF Turn
  <2>1. CASE u = t /\ i > keep /\ i - keep \in 1 .. Len(above) /\ stack'[u][i] = above[i - keep]
    <3>1. LocksReady(above, i - keep, Ptr')
      BY <2>1
    <3>2. i < Len(stack'[t]) <=> i - keep < Len(above)
      BY <1>1, <2>1
    <3>3. i < Len(stack'[t]) => stack'[t][i + 1] = above[i - keep + 1]
      <4>1. i < Len(stack'[t]) => i - keep + 1 \in 1 .. Len(above) /\ keep + (i - keep + 1) = i + 1
        BY <1>1, <2>1
      <4> QED BY <4>1, <1>1
    <3> QED BY <2>1, <3>1, <3>2, <3>3 DEF LocksReady
  <2>2. CASE (u # t \/ i <= keep) /\ i \in 1 .. Len(stack[u]) /\ stack'[u][i] = stack[u][i]
    <3> DEFINE rest == stack[u][i].rest
    <3>1. LocksReady(stack[u], i, Ptr) /\ stack'[u][i].rest = rest /\ rest \in Script
      BY <2>2, StackTypes, Changes DEF Pointers
    <3> SUFFICES ASSUME NEW k \in 1 .. Len(rest), rest[k].op = "lock"
                 PROVE  \/ \E j \in 1 .. k - 1 : rest[j] = Use(rest[k].on)
                        \/ /\ i < Len(stack'[u]) /\ stack'[u][i + 1].pc \in UsePcs
                           /\ stack'[u][i + 1].s = rest[k].on
                        \/ Ptr'[rest[k].on] # 0
      BY <3>1 DEF LocksReady
    <3>2. rest[k].on \in Statics
      <4>1. rest[k] \in Instructions
        BY <3>1, ElementOfSeq DEF Script
      <4> QED BY <4>1 DEF Instructions
    <3>3. \/ \E j \in 1 .. k - 1 : rest[j] = Use(rest[k].on)
          \/ i < Len(stack[u]) /\ stack[u][i + 1].pc \in UsePcs /\ stack[u][i + 1].s = rest[k].on
          \/ Ptr[rest[k].on] # 0
      BY <3>1 DEF LocksReady
    <3> HIDE DEF rest
    <3>4. CASE i < Len(stack[u]) /\ stack[u][i + 1].pc \in UsePcs /\ stack[u][i + 1].s = rest[k].on
      <4>1. CASE u # t
        <5>1. stack'[u] = stack[u]
          BY <4>1 DEF Turn
        <5> QED BY <5>1, <3>4
      <4>2. CASE u = t /\ i < keep
        <5>1. i + 1 \in 1 .. keep /\ i < Len(stack'[u])
          BY <4>2, <1>1
        <5> QED BY <5>1, <4>2, <1>1, <3>4
      <4>3. CASE u = t /\ i = keep
        <5>1. keep > 0 /\ keep < Len(stack[t]) /\ stack[t][keep + 1].pc \in UsePcs
          BY <4>3, <3>4, <1>1
        <5>2. CASE Ptr'[stack[t][keep + 1].s] # 0
          BY <5>2, <4>3, <3>4
        <5>3. CASE Len(above) > 0 /\ above[1].pc \in UsePcs /\ above[1].s = stack[t][keep + 1].s
          <6>1. 1 \in 1 .. Len(above) /\ i < Len(stack'[t])
            BY <5>3, <1>1, <4>3
          <6>2. stack'[t][i + 1] = above[1]
            BY <6>1, <1>1, <4>3
          <6> QED BY <6>1, <6>2, <5>3, <4>3, <3>4
        <5> QED BY <5>1, <5>2, <5>3
      <4> QED BY <4>1, <4>2, <4>3, <2>2, <1>1
    <3> QED BY <3>2, <3>3, <3>4
  <2> QED BY <2>1, <2>2, TurnFrames
<1> QED BY <1>2, <1>3 DEF Pointers

LEMMA ListedThen ==
  ASSUME NEW s
  PROVE  Listed(s)' <=> /\ s \in Statics \ Immortal /\ Ptr'[s] # 0
                        /\ ~Somewhere(s, "link")' /\ ~Somewhere(s, "deleter")'
  BY DEF Listed

\* The list stays what it was, with the same statics on it.
LEMMA SameLists ==
  ASSUME Lists, UNCHANGED list, needs' = needs,
         \A s \in Statics : Listed(s)' <=> Listed(s),
         \A s \in Statics : Somewhere(s, "deleter") => Somewhere(s, "deleter")'
  PROVE  Lists'
<1>1. DeleterFn' = DeleterFn /\ NextStatic' = NextStatic /\ StaticList' = StaticList
  BY DEF list
<1>2. PICK order \in Seq(Statics) : IsList(order)
  BY DEF Lists
<1>3. IsList(order)'
  BY <1>1, <1>2 DEF IsList
<1>4. \A s \in Statics : DeleterFn'[s] => Listed(s)' \/ Somewhere(s, "deleter")'
  BY <1>1 DEF Lists
<1> QED BY <1>3, <1>4 DEF Lists

LEMMA TurnKeepsNeeds ==
  ASSUME TypeOK, Needs, NEW t \in Threads, NEW keep, NEW above, Turn(t, keep, above), UNCHANGED heap,
         \A s \in Statics : Listed(s) => Listed(s)',
         \A i \in 1 .. Len(above) :
           /\ above[i].pc # "link"
           /\ above[i].pc = "creator" => \A o \in above[i].got :
                o \in objects /\ (o[1] \in Immortal \/ Listed(o[1])),
         \A u \in Threads : \A i \in 1 .. Len(stack[u]) : FrameOK(stack[u][i])
  PROVE  Needs'
<1>1. Ptr' = Ptr /\ objects' = objects /\ needs' = needs
  BY DEF heap
<1>2. \A o \in Statics \X Nat : o[1] \in Immortal \/ Listed(o[1]) => o[1] \in Immortal \/ Listed(o[1])'
  OBVIOUS
<1>3. (\A s \in Statics : Ptr'[s] = 0 => needs'[s] = {}) /\ OutlivesItsUsers'
  BY <1>1 DEF Needs, OutlivesItsUsers
<1>4. ASSUME NEW u \in Threads, NEW i \in 1 .. Len(stack'[u]), stack'[u][i].pc = "creator",
             NEW o \in stack'[u][i].got
      PROVE  o \in objects' /\ (o[1] \in Immortal \/ Listed(o[1])')
  <2>1. o \in Statics \X Nat
    <3>1. stack'[u] \in Seq(Frames)
      BY DEF Turn
    <3>2. stack'[u][i] \in Frames
      BY <3>1, ElementOfSeq
    <3> QED BY <3>2, Changes
  <2>2. o \in objects /\ (o[1] \in Immortal \/ Listed(o[1]))
    <3>1. CASE i - keep \in 1 .. Len(above) /\ stack'[u][i] = above[i - keep]
      BY <3>1, <1>4
    <3>2. CASE i \in 1 .. Len(stack[u]) /\ stack'[u][i] = stack[u][i]
      BY <3>2, <1>4 DEF Needs
    <3> QED BY <3>1, <3>2, TurnFrames
  <2> QED BY <1>1, <1>2, <2>1, <2>2
<1>5. ASSUME NEW u \in Threads, NEW i \in 1 .. Len(stack'[u]), stack'[u][i].pc = "link",
             NEW o \in needs'[stack'[u][i].s]
      PROVE  o[1] \in Immortal \/ Listed(o[1])'
  <2>1. i \in 1 .. Len(stack[u]) /\ stack'[u][i] = stack[u][i]
    BY <1>5, TurnFrames
  <2>2. o[1] \in Immortal \/ Listed(o[1])
    BY <2>1, <1>1, <1>5 DEF Needs
  <2>3. o \in Statics \X Nat
    <3>1. stack[u][i].s \in Statics
      BY <2>1, <1>5 DEF FrameOK, UsePcs
    <3> QED BY <3>1, <2>1, <1>1, <1>5 DEF TypeOK
  <2> QED BY <2>2, <2>3, <1>2
<1> QED BY <1>3, <1>4, <1>5 DEF Needs

-----------------------------------------------------------------------------
(* What the frames owe                                                     *)

LEMMA OwesType ==
  ASSUME NEW f \in Frames, FrameOK(f), NEW m \in Statics \cup {GlobalLock}
  PROVE  Owes(f, m) \in Nat
<1>1. CASE m = GlobalLock
  BY <1>1 DEF Owes
<1>2. CASE m # GlobalLock
  <2>1. f.rest \in Script
    BY Changes
  <2>2. Len(f.rest) \in Nat
    BY <2>1, LenProperties DEF Script
  <2>3. Len(f.rest) \in 0 .. Len(f.rest) /\ m \in Statics
    BY <2>2, <1>2
  <2>4. Owed(f.rest, m, Len(f.rest)) \in Int /\ Owed(f.rest, m, Len(f.rest)) >= 0
    BY <2>2, <2>3, OwedType DEF FrameOK
  <2> QED BY <2>4, <1>2 DEF Owes
<1> QED BY <1>1, <1>2

LEMMA OwingNone ==
  ASSUME NEW m
  PROVE  Owing(<<>>, m, 0) /\ \A n : Owing(<<>>, m, n) => n = 0
<1>1. Len(<<>>) = 0
  OBVIOUS
<1>2. Owing(<<>>, m, 0)
  <2> DEFINE sum == [i \in 0 .. 0 |-> 0]
  <2>1. sum \in [0 .. 0 -> Nat] /\ sum[0] = 0 /\ \A i, j \in 0 .. 0 : sum[i] <= sum[j]
    OBVIOUS
  <2>2. \A i \in 1 .. 0 : FALSE
    OBVIOUS
  <2> HIDE DEF sum
  <2> QED BY <1>1, <2>1, <2>2 DEF Owing
<1>3. \A n : Owing(<<>>, m, n) => n = 0
  BY <1>1 DEF Owing
<1> QED BY <1>2, <1>3

\* A frame does not owe more than the stack.
LEMMA OwingEach ==
  ASSUME NEW fs, Len(fs) \in Nat, NEW m, NEW n, Owing(fs, m, n), NEW i \in 1 .. Len(fs),
         Owes(fs[i], m) \in Nat
  PROVE  n \in Nat /\ Owes(fs[i], m) <= n
<1> DEFINE N == Len(fs)
<1>1. PICK sum \in [0 .. N -> Nat] :
        /\ sum[N] = n
        /\ \A k \in 1 .. N : sum[k] = sum[k - 1] + Owes(fs[k], m)
        /\ \A k, j \in 0 .. N : k <= j => sum[k] <= sum[j]
  BY DEF Owing
<1>2. i \in 0 .. N /\ i - 1 \in 0 .. N /\ N \in 0 .. N /\ i <= N
  OBVIOUS
<1> HIDE DEF N
<1>3. sum[i] \in Nat /\ sum[i - 1] \in Nat /\ sum[N] \in Nat /\ sum[i] <= sum[N]
  BY <1>1, <1>2
<1>4. sum[i] = sum[i - 1] + Owes(fs[i], m)
  BY <1>1 DEF N
<1> QED BY <1>1, <1>3, <1>4

\* The frame on top owes d more, or a frame comes on top of it.
LEMMA OwingTop ==
  ASSUME NEW fs, NEW gs, Len(fs) \in Nat, Len(fs) > 0, Len(gs) = Len(fs),
         NEW m, NEW n, Owing(fs, m, n), NEW d \in Int,
         \A i \in 1 .. Len(fs) - 1 : Owes(gs[i], m) = Owes(fs[i], m),
         Owes(fs[Len(fs)], m) \in Nat, Owes(gs[Len(fs)], m) \in Nat,
         Owes(gs[Len(fs)], m) = Owes(fs[Len(fs)], m) + d
  PROVE  Owing(gs, m, n + d)
<1> DEFINE N == Len(fs)
           p == Owes(fs[N], m)
<1>1. PICK sum \in [0 .. N -> Nat] :
        /\ sum[0] = 0 /\ sum[N] = n
        /\ \A k \in 1 .. N : sum[k] = sum[k - 1] + Owes(fs[k], m)
        /\ \A k, j \in 0 .. N : k <= j => sum[k] <= sum[j]
  BY DEF Owing
<1>2. N \in Nat /\ N > 0 /\ N \in 1 .. N /\ N \in 0 .. N /\ N - 1 \in 0 .. N
  OBVIOUS
<1> HIDE DEF N, p
<1>3. sum[N] = sum[N - 1] + p /\ sum[N - 1] \in Nat /\ n \in Nat
  BY <1>1, <1>2 DEF p
<1>4. p \in Nat /\ p + d \in Nat
  BY DEF p, N
<1> DEFINE new == [i \in 0 .. N |-> IF i = N THEN n + d ELSE sum[i]]
<1>5. n + d = sum[N - 1] + (p + d) /\ n + d \in Nat /\ sum[N - 1] <= n + d
  BY <1>1, <1>3, <1>4
<1>6. new \in [0 .. N -> Nat] /\ new[0] = 0 /\ new[N] = n + d
  BY <1>1, <1>2, <1>5
<1>7. ASSUME NEW k \in 1 .. N PROVE new[k] = new[k - 1] + Owes(gs[k], m)
  <2>1. k \in 0 .. N /\ k - 1 \in 0 .. N /\ k - 1 # N
    BY <1>2
  <2>2. CASE k = N
    <3>1. Owes(gs[k], m) = p + d
      BY <2>2 DEF p, N
    <3> QED BY <2>1, <2>2, <3>1, <1>5
  <2>3. CASE k # N
    <3>1. k \in 1 .. N - 1
      BY <2>3, <1>2
    <3>2. Owes(gs[k], m) = Owes(fs[k], m)
      BY <3>1 DEF N
    <3> QED BY <1>1, <2>1, <2>3, <3>2
  <2> QED BY <2>2, <2>3
<1>8. ASSUME NEW k \in 0 .. N, NEW j \in 0 .. N, k <= j PROVE new[k] <= new[j]
  <2>1. CASE j = N /\ k # N
    <3>1. k <= N - 1
      BY <2>1, <1>2
    <3>2. sum[k] <= sum[N - 1] /\ sum[k] \in Nat
      BY <3>1, <1>1, <1>2
    <3> QED BY <2>1, <3>2, <1>3, <1>5
  <2>2. CASE j # N
    <3>1. k # N
      BY <2>2, <1>2, <1>8
    <3> QED BY <2>2, <3>1, <1>1, <1>8
  <2>3. CASE k = N /\ j = N
    BY <2>3, <1>5
  <2> QED BY <2>1, <2>2, <2>3
<1> HIDE DEF new
<1>9. Len(gs) = N
  BY DEF N
<1> QED BY <1>6, <1>7, <1>8, <1>9 DEF Owing

LEMMA OwingPush ==
  ASSUME NEW fs, NEW gs, Len(fs) \in Nat, Len(gs) = Len(fs) + 1,
         NEW m, NEW n, Owing(fs, m, n),
         \A i \in 1 .. Len(fs) : Owes(gs[i], m) = Owes(fs[i], m),
         Owes(gs[Len(gs)], m) = 0
  PROVE  Owing(gs, m, n)
<1> DEFINE N == Len(fs)
<1>1. PICK sum \in [0 .. N -> Nat] :
        /\ sum[0] = 0 /\ sum[N] = n
        /\ \A k \in 1 .. N : sum[k] = sum[k - 1] + Owes(fs[k], m)
        /\ \A k, j \in 0 .. N : k <= j => sum[k] <= sum[j]
  BY DEF Owing
<1>2. N \in Nat /\ N \in 0 .. N
  OBVIOUS
<1> HIDE DEF N
<1> DEFINE new == [i \in 0 .. N + 1 |-> IF i = N + 1 THEN n ELSE sum[i]]
<1>3. n \in Nat /\ \A i \in 0 .. N : sum[i] \in Nat /\ sum[i] <= n
  BY <1>1, <1>2
<1>4. new \in [0 .. N + 1 -> Nat] /\ new[0] = 0 /\ new[N + 1] = n
  <2>1. \A i \in 0 .. N + 1 : i # N + 1 => i \in 0 .. N
    BY <1>2
  <2>2. 0 \in 0 .. N + 1 /\ 0 # N + 1 /\ N + 1 \in 0 .. N + 1
    BY <1>2
  <2> QED BY <1>1, <1>3, <2>1, <2>2
<1>5. ASSUME NEW k \in 1 .. N + 1 PROVE new[k] = new[k - 1] + Owes(gs[k], m)
  <2>1. k \in 0 .. N + 1 /\ k - 1 \in 0 .. N + 1 /\ k - 1 # N + 1
    BY <1>2
  <2>2. CASE k = N + 1
    <3>1. Owes(gs[k], m) = 0
      BY <2>2 DEF N
    <3>2. new[k] = n /\ new[k - 1] = sum[N]
      BY <2>1, <2>2, <1>2
    <3> QED BY <3>1, <3>2, <1>1, <1>3
  <2>3. CASE k # N + 1
    <3>1. k \in 1 .. N
      BY <2>3, <1>2
    <3>2. Owes(gs[k], m) = Owes(fs[k], m)
      BY <3>1 DEF N
    <3> QED BY <1>1, <2>1, <2>3, <3>1, <3>2
  <2> QED BY <2>2, <2>3
<1>6. ASSUME NEW k \in 0 .. N + 1, NEW j \in 0 .. N + 1, k <= j PROVE new[k] <= new[j]
  <2>1. CASE j = N + 1 /\ k # N + 1
    <3>1. k \in 0 .. N
      BY <2>1, <1>2
    <3> QED BY <2>1, <3>1, <1>3
  <2>2. CASE j # N + 1
    <3>1. k \in 0 .. N /\ j \in 0 .. N
      BY <2>2, <1>2, <1>6
    <3> QED BY <2>2, <3>1, <1>1, <1>6, <1>2
  <2>3. CASE k = N + 1 /\ j = N + 1
    BY <2>3, <1>3
  <2> QED BY <2>1, <2>2, <2>3
<1> HIDE DEF new
<1>7. Len(gs) = N + 1
  BY DEF N
<1> QED BY <1>4, <1>5, <1>6, <1>7 DEF Owing

LEMMA OwingPop ==
  ASSUME NEW fs, NEW gs, Len(fs) \in Nat, Len(fs) > 0, Len(gs) = Len(fs) - 1,
         NEW m, NEW n, Owing(fs, m, n),
         \A i \in 1 .. Len(gs) : Owes(gs[i], m) = Owes(fs[i], m),
         Owes(fs[Len(fs)], m) = 0
  PROVE  Owing(gs, m, n)
<1> DEFINE N == Len(gs)
<1>1. PICK sum \in [0 .. N + 1 -> Nat] :
        /\ sum[0] = 0 /\ sum[N + 1] = n
        /\ \A k \in 1 .. N + 1 : sum[k] = sum[k - 1] + Owes(fs[k], m)
        /\ \A k, j \in 0 .. N + 1 : k <= j => sum[k] <= sum[j]
  <2>1. N + 1 = Len(fs)
    OBVIOUS
  <2> QED BY <2>1 DEF Owing
<1>2. N \in Nat /\ N \in 0 .. N + 1 /\ N + 1 \in 1 .. N + 1 /\ N + 1 - 1 = N
  OBVIOUS
<1>3. Owes(fs[N + 1], m) = 0
  <2>1. N + 1 = Len(fs)
    OBVIOUS
  <2> QED BY <2>1
<1> HIDE DEF N
<1>4. sum[N] = n
  BY <1>1, <1>2, <1>3
<1> DEFINE new == [i \in 0 .. N |-> sum[i]]
<1>5. \A i \in 0 .. N : i \in 0 .. N + 1
  BY <1>2
<1>6. new \in [0 .. N -> Nat] /\ new[0] = 0 /\ new[N] = n
  BY <1>1, <1>2, <1>4, <1>5
<1>7. ASSUME NEW k \in 1 .. N PROVE new[k] = new[k - 1] + Owes(gs[k], m)
  <2>1. k \in 0 .. N /\ k - 1 \in 0 .. N /\ k \in 1 .. N + 1
    BY <1>2
  <2>2. Owes(gs[k], m) = Owes(fs[k], m)
    BY DEF N
  <2> QED BY <1>1, <2>1, <2>2
<1>8. ASSUME NEW k \in 0 .. N, NEW j \in 0 .. N, k <= j PROVE new[k] <= new[j]
  BY <1>1, <1>5, <1>8
<1> HIDE DEF new
<1> QED BY <1>6, <1>7, <1>8 DEF Owing, N

-----------------------------------------------------------------------------
(* Mutexes                                                                 *)

MutexType ==
  /\ mutex \in [Statics \cup {GlobalLock} -> [owner : Threads \cup {Nobody}, depth : Nat]]
  /\ \A m \in Statics \cup {GlobalLock} : mutex[m].owner = Nobody <=> mutex[m].depth = 0

LEMMA MutexTypes ==
  ASSUME TypeOK
  PROVE  /\ MutexType
         /\ \A m \in Statics \cup {GlobalLock} :
              mutex[m].owner \in Threads \cup {Nobody} /\ mutex[m].depth \in Nat
<1>1. DOMAIN mutex = Statics \cup {GlobalLock}
  BY DEF TypeOK
<1> QED BY <1>1 DEF TypeOK, MutexType

\* What thread t owes is what it owed.
Even(t) == \A m \in Statics \cup {GlobalLock}, n \in Nat : Owing(stack[t], m, n) => Owing(stack'[t], m, n)

LEMMA SameMutexes ==
  ASSUME TypeOK, Mutexes, mutex' = mutex, multithreaded_mode' = multithreaded_mode,
         NEW t \in Threads, \A u \in Threads \ {t} : stack'[u] = stack[u],
         \A s \in Statics : Ptr[s] # 0 => Ptr'[s] # 0,
         multithreaded_mode => Even(t)
  PROVE  Mutexes' /\ MutexType'
<1>1. MutexType'
  BY MutexTypes DEF MutexType
<1>2. ASSUME multithreaded_mode, NEW m \in Statics \cup {GlobalLock}, NEW u \in Threads
      PROVE  Owing(stack'[u], m, IF mutex[m].owner = u THEN mutex[m].depth ELSE 0)
  <2>1. Owing(stack[u], m, IF mutex[m].owner = u THEN mutex[m].depth ELSE 0)
    BY <1>2 DEF Mutexes
  <2>2. (IF mutex[m].owner = u THEN mutex[m].depth ELSE 0) \in Nat
    BY MutexTypes
  <2>3. CASE u = t
    BY <1>2, <2>1, <2>2, <2>3 DEF Even
  <2>4. CASE u # t
    BY <2>1, <2>4
  <2> QED BY <2>3, <2>4
<1> QED BY <1>1, <1>2 DEF Mutexes

LEMMA AcquireKeepsMutexes ==
  ASSUME TypeOK, Mutexes, multithreaded_mode, multithreaded_mode' = multithreaded_mode,
         NEW t \in Threads, \A u \in Threads \ {t} : stack'[u] = stack[u], Ptr' = Ptr,
         NEW m \in Statics \cup {GlobalLock}, acquire(t, m), m \in Statics => Ptr[m] # 0,
         \A n \in Nat : Owing(stack[t], m, n) => Owing(stack'[t], m, n + 1),
         \A l \in Statics \cup {GlobalLock}, n \in Nat :
           l # m /\ Owing(stack[t], l, n) => Owing(stack'[t], l, n)
  PROVE  Mutexes' /\ MutexType'
<1>1. /\ mutex[m].owner \in {Nobody, t} /\ mutex[m].depth \in Nat
      /\ mutex' = [mutex EXCEPT ![m] = [owner |-> t, depth |-> mutex[m].depth + 1]]
  BY MutexTypes DEF acquire, Available
<1>2. MutexType
  BY MutexTypes
<1>3. /\ mutex'[m] = [owner |-> t, depth |-> mutex[m].depth + 1]
      /\ \A l \in Statics \cup {GlobalLock} : l # m => mutex'[l] = mutex[l]
  BY <1>1, <1>2 DEF MutexType
<1>4. t # Nobody
  BY StaticsAssumption
<1>5. mutex' \in [Statics \cup {GlobalLock} -> [owner : Threads \cup {Nobody}, depth : Nat]]
  BY <1>1, <1>2 DEF MutexType
<1>6. MutexType'
  <2>1. mutex'[m].owner # Nobody /\ mutex'[m].depth # 0
    BY <1>1, <1>3, <1>4
  <2> QED BY <1>2, <1>3, <1>5, <2>1 DEF MutexType
<1>7. ASSUME NEW l \in Statics \cup {GlobalLock}, NEW u \in Threads
      PROVE  Owing(stack'[u], l, IF mutex'[l].owner = u THEN mutex'[l].depth ELSE 0)
  <2>1. Owing(stack[u], l, IF mutex[l].owner = u THEN mutex[l].depth ELSE 0)
    BY DEF Mutexes
  <2>2. (IF mutex[l].owner = u THEN mutex[l].depth ELSE 0) \in Nat
    BY MutexTypes
  <2>3. CASE l # m
    <3>1. mutex'[l] = mutex[l]
      BY <2>3, <1>3
    <3>2. CASE u = t
      BY <2>1, <2>2, <2>3, <3>1, <3>2
    <3>3. CASE u # t
      BY <2>1, <3>1, <3>3
    <3> QED BY <3>2, <3>3
  <2>4. CASE l = m /\ u = t
    <3>1. (IF mutex[m].owner = t THEN mutex[m].depth ELSE 0) = mutex[m].depth
      BY <1>1, <1>2, <1>4 DEF MutexType
    <3>2. Owing(stack'[t], m, mutex[m].depth + 1)
      BY <2>1, <2>4, <3>1, <1>1
    <3>3. mutex'[m].owner = t /\ mutex'[m].depth = mutex[m].depth + 1
      BY <1>3
    <3> QED BY <2>4, <3>2, <3>3
  <2>5. CASE l = m /\ u # t
    <3>1. mutex[m].owner # u /\ mutex'[m].owner # u
      BY <1>1, <1>3, <2>5, StaticsAssumption
    <3>2. stack'[u] = stack[u]
      BY <2>5
    <3> QED BY <2>1, <2>5, <3>1, <3>2
  <2> QED BY <2>3, <2>4, <2>5
<1>8. \A l \in Statics : mutex'[l].owner # Nobody => Ptr'[l] # 0
  <2> SUFFICES ASSUME NEW l \in Statics, mutex'[l].owner # Nobody PROVE Ptr[l] # 0
    OBVIOUS
  <2>1. CASE l = m
    BY <2>1
  <2>2. CASE l # m
    BY <2>2, <1>3 DEF Mutexes
  <2> QED BY <2>1, <2>2
<1> QED BY <1>6, <1>7, <1>8 DEF Mutexes

LEMMA ReleaseKeepsMutexes ==
  ASSUME TypeOK, Mutexes, multithreaded_mode, multithreaded_mode' = multithreaded_mode,
         NEW t \in Threads, \A u \in Threads \ {t} : stack'[u] = stack[u], Ptr' = Ptr,
         NEW m \in Statics \cup {GlobalLock}, release(m),
         \A n \in Nat : Owing(stack[t], m, n) => n > 0 /\ Owing(stack'[t], m, n - 1),
         \A l \in Statics \cup {GlobalLock}, n \in Nat :
           l # m /\ Owing(stack[t], l, n) => Owing(stack'[t], l, n)
  PROVE  Mutexes' /\ MutexType'
<1> DEFINE d == mutex[m].depth
           o == mutex[m].owner
<1>1. MutexType /\ o \in Threads \cup {Nobody} /\ d \in Nat
  BY MutexTypes
<1>2. o = t /\ d > 0 /\ Owing(stack'[t], m, d - 1)
  <2>1. Owing(stack[t], m, IF o = t THEN d ELSE 0)
    BY DEF Mutexes
  <2>2. (IF o = t THEN d ELSE 0) \in Nat
    BY <1>1
  <2>3. (IF o = t THEN d ELSE 0) > 0 /\ Owing(stack'[t], m, (IF o = t THEN d ELSE 0) - 1)
    BY <2>1, <2>2
  <2>4. o = t
    BY <2>3
  <2> QED BY <2>3, <2>4
<1>3. /\ mutex'[m] = [owner |-> IF d = 1 THEN Nobody ELSE o, depth |-> d - 1]
      /\ \A l \in Statics \cup {GlobalLock} : l # m => mutex'[l] = mutex[l]
  BY <1>1 DEF MutexType, release
<1>4. t # Nobody
  BY StaticsAssumption
<1>5. d - 1 \in Nat /\ (d = 1 <=> d - 1 = 0)
  BY <1>1, <1>2
<1>6. mutex' \in [Statics \cup {GlobalLock} -> [owner : Threads \cup {Nobody}, depth : Nat]]
  <2>1. [owner |-> IF d = 1 THEN Nobody ELSE o, depth |-> d - 1]
          \in [owner : Threads \cup {Nobody}, depth : Nat]
    BY <1>1, <1>5
  <2> QED BY <1>1, <2>1 DEF MutexType, release
<1>7. mutex'[m].owner = (IF d = 1 THEN Nobody ELSE t) /\ mutex'[m].depth = d - 1
  BY <1>2, <1>3
<1> HIDE DEF d, o
<1>8. MutexType'
  <2>1. mutex'[m].owner = Nobody <=> mutex'[m].depth = 0
    BY <1>4, <1>5, <1>7
  <2> QED BY <1>1, <1>3, <1>6, <2>1 DEF MutexType
<1>9. ASSUME NEW l \in Statics \cup {GlobalLock}, NEW u \in Threads
      PROVE  Owing(stack'[u], l, IF mutex'[l].owner = u THEN mutex'[l].depth ELSE 0)
  <2>1. Owing(stack[u], l, IF mutex[l].owner = u THEN mutex[l].depth ELSE 0)
    BY DEF Mutexes
  <2>2. (IF mutex[l].owner = u THEN mutex[l].depth ELSE 0) \in Nat
    BY MutexTypes
  <2>3. CASE l # m
    <3>1. mutex'[l] = mutex[l]
      BY <2>3, <1>3
    <3>2. CASE u = t
      BY <2>1, <2>2, <2>3, <3>1, <3>2
    <3>3. CASE u # t
      BY <2>1, <3>1, <3>3
    <3> QED BY <3>2, <3>3
  <2>4. CASE l = m /\ u = t
    <3>1. (IF mutex'[m].owner = t THEN mutex'[m].depth ELSE 0) = d - 1
      BY <1>4, <1>5, <1>7
    <3> QED BY <2>4, <3>1, <1>2
  <2>5. CASE l = m /\ u # t
    <3>1. mutex[m].owner # u /\ mutex'[m].owner # u
      BY <1>2, <1>7, <2>5, StaticsAssumption DEF o
    <3>2. stack'[u] = stack[u]
      BY <2>5
    <3> QED BY <2>1, <2>5, <3>1, <3>2
  <2> QED BY <2>3, <2>4, <2>5
<1>10. \A l \in Statics : mutex'[l].owner # Nobody => Ptr'[l] # 0
  <2> SUFFICES ASSUME NEW l \in Statics, mutex'[l].owner # Nobody PROVE Ptr[l] # 0
    OBVIOUS
  <2>1. mutex[l].owner # Nobody
    BY <1>2, <1>3, <1>4 DEF o
  <2> QED BY <2>1 DEF Mutexes
<1> QED BY <1>8, <1>9, <1>10 DEF Mutexes

\* What a frame owes: the global lock by its label, a static by its script.
LEMMA OwesIs ==
  ASSUME NEW f, NEW m \in Statics \cup {GlobalLock}
  PROVE  /\ m = GlobalLock => Owes(f, m) = IF f.pc \in {"creator", "link", "release"} THEN 1 ELSE 0
         /\ m # GlobalLock => m \in Statics /\ Owes(f, m) = Owed(f.rest, m, Len(f.rest))
         /\ m # GlobalLock /\ f.rest = <<>> => Owes(f, m) = 0
<1>1. m = GlobalLock => Owes(f, m) = IF f.pc \in {"creator", "link", "release"} THEN 1 ELSE 0
  BY DEF Owes
<1>2. m # GlobalLock => m \in Statics /\ Owes(f, m) = Owed(f.rest, m, Len(f.rest))
  BY DEF Owes
<1>3. f.rest = <<>> => Len(f.rest) = 0
  OBVIOUS
<1> QED BY <1>1, <1>2, <1>3, OwedNothing

LEMMA TopOwing ==
  ASSUME TypeOK, Stacks, NEW t \in Threads, stack[t] # <<>>, NEW f \in Frames, FrameOK(f),
         Turn(t, Len(stack[t]) - 1, <<f>>), NEW m \in Statics \cup {GlobalLock}, NEW d \in Int,
         Owes(f, m) = Owes(Top(t), m) + d
  PROVE  \A n : Owing(stack[t], m, n) => Owing(stack'[t], m, n + d)
<1> DEFINE N == Len(stack[t])
<1>1. N \in Nat /\ N > 0 /\ N \in 1 .. N /\ Top(t) = stack[t][N] /\ Top(t) \in Frames
  BY StackTypes, Tops
<1>2. Len(<<f>>) = 1 /\ <<f>>[1] = f /\ 1 \in 1 .. Len(<<f>>)
  OBVIOUS
<1>3. /\ Len(stack'[t]) = N - 1 + Len(<<f>>) /\ (\A i \in 1 .. N - 1 : stack'[t][i] = stack[t][i])
      /\ \A i \in 1 .. Len(<<f>>) : stack'[t][N - 1 + i] = <<f>>[i]
  BY DEF Turn
<1>4. stack'[t][N - 1 + 1] = f
  BY <1>2, <1>3
<1>5. N - 1 + 1 = N
  BY <1>1
<1>6. Len(stack'[t]) = N /\ stack'[t][N] = f
  BY <1>1, <1>2, <1>3, <1>4, <1>5
<1>7. Owes(f, m) \in Nat /\ Owes(stack[t][N], m) \in Nat
  BY <1>1, StackShape, OwesType
<1> QED BY <1>1, <1>3, <1>6, <1>7, OwingTop

LEMMA TopEven ==
  ASSUME TypeOK, Stacks, NEW t \in Threads, stack[t] # <<>>, NEW f \in Frames, FrameOK(f),
         Turn(t, Len(stack[t]) - 1, <<f>>),
         \A m \in Statics \cup {GlobalLock} : Owes(f, m) = Owes(Top(t), m)
  PROVE  Even(t)
<1> SUFFICES ASSUME NEW m \in Statics \cup {GlobalLock}, NEW n \in Nat, Owing(stack[t], m, n)
             PROVE  Owing(stack'[t], m, n)
  BY DEF Even
<1>1. Owes(f, m) \in Nat
  BY OwesType
<1>2. ASSUME NEW d \in Int, d = 0 PROVE Owing(stack'[t], m, n + d)
  <2>1. Owes(f, m) = Owes(Top(t), m) + d
    BY <1>1, <1>2
  <2> QED BY <2>1, TopOwing
<1>3. Owing(stack'[t], m, n + 0)
  BY <1>2
<1> QED BY <1>3

\* A frame that owes nothing is pushed, or popped.
LEMMA PushEven ==
  ASSUME TypeOK, NEW t \in Threads, Len(stack'[t]) = Len(stack[t]) + 1,
         \A m \in Statics \cup {GlobalLock} :
           /\ \A i \in 1 .. Len(stack[t]) : Owes(stack'[t][i], m) = Owes(stack[t][i], m)
           /\ Owes(stack'[t][Len(stack'[t])], m) = 0
  PROVE  Even(t)
<1>1. Len(stack[t]) \in Nat
  BY StackTypes
<1> QED BY <1>1, OwingPush DEF Even

LEMMA PopEven ==
  ASSUME TypeOK, NEW t \in Threads, stack[t] # <<>>, Len(stack'[t]) = Len(stack[t]) - 1,
         \A m \in Statics \cup {GlobalLock} :
           /\ \A i \in 1 .. Len(stack'[t]) : Owes(stack'[t][i], m) = Owes(stack[t][i], m)
           /\ Owes(stack[t][Len(stack[t])], m) = 0
  PROVE  Even(t)
<1>1. Len(stack[t]) \in Nat /\ Len(stack[t]) > 0
  BY StackTypes
<1> QED BY <1>1, OwingPop DEF Even

\* One thread at a time constructs: it holds the global lock, or is alone.
LEMMA OneMaker ==
  ASSUME TypeOK, Stacks, Modes, Mutexes, NEW t \in Threads, NEW u \in Threads,
         NEW i \in 1 .. Len(stack[t]), NEW j \in 1 .. Len(stack[u]),
         stack[t][i].pc \in {"creator", "link", "release"},
         stack[u][j].pc \in {"creator", "link", "release"}
  PROVE  t = u
<1>1. stack[t] # <<>> /\ stack[u] # <<>> /\ Len(stack[t]) \in Nat /\ Len(stack[u]) \in Nat
  BY StackTypes
<1>2. CASE ~multithreaded_mode
  BY <1>1, <1>2 DEF Modes
<1>3. CASE multithreaded_mode
  <2>1. ASSUME NEW v \in Threads, NEW k \in 1 .. Len(stack[v]),
               stack[v][k].pc \in {"creator", "link", "release"}
        PROVE  mutex[GlobalLock].owner = v
    <3>1. GlobalLock \in Statics \cup {GlobalLock}
      OBVIOUS
    <3>2. Owing(stack[v], GlobalLock,
                IF mutex[GlobalLock].owner = v THEN mutex[GlobalLock].depth ELSE 0)
      BY <1>3, <3>1 DEF Mutexes
    <3>3. Owes(stack[v][k], GlobalLock) = 1
      BY <2>1, <3>1, OwesIs
    <3>4. Len(stack[v]) \in Nat /\ 1 \in Nat
      BY StackTypes
    <3>5. 1 <= IF mutex[GlobalLock].owner = v THEN mutex[GlobalLock].depth ELSE 0
      BY <3>2, <3>3, <3>4, OwingEach
    <3> QED BY <3>5
  <2>2. mutex[GlobalLock].owner = t /\ mutex[GlobalLock].owner = u
    BY <2>1
  <2> QED BY <2>2
<1> QED BY <1>2, <1>3

-----------------------------------------------------------------------------
(* Types                                                                   *)

LEMMA TypesAre ==
  TypeOK <=>
    /\ multithreaded_mode \in BOOLEAN /\ MutexType /\ Ptr \in [Statics -> Nat]
    /\ DeleterFn \in [Statics -> BOOLEAN] /\ NextStatic \in [Statics -> Statics \cup {None}]
    /\ StaticList \in Statics \cup {None} /\ objects \subseteq Statics \X Nat
    /\ made \in [Statics -> Nat] /\ needs \in [Statics -> SUBSET (Statics \X Nat)]
    /\ shutdowns \in 0 .. MaxShutdowns /\ stack \in [Threads -> Seq(Frames)]
<1>1. mutex \in [Statics \cup {GlobalLock} -> [owner : Threads \cup {Nobody}, depth : Nat]] =>
        DOMAIN mutex = Statics \cup {GlobalLock}
  OBVIOUS
<1> QED BY <1>1 DEF TypeOK, MutexType, Frames

LEMMA TypesThen ==
  TypeOK' <=>
    /\ multithreaded_mode' \in BOOLEAN /\ MutexType' /\ Ptr' \in [Statics -> Nat]
    /\ DeleterFn' \in [Statics -> BOOLEAN] /\ NextStatic' \in [Statics -> Statics \cup {None}]
    /\ StaticList' \in Statics \cup {None} /\ objects' \subseteq Statics \X Nat
    /\ made' \in [Statics -> Nat] /\ needs' \in [Statics -> SUBSET (Statics \X Nat)]
    /\ shutdowns' \in 0 .. MaxShutdowns /\ stack' \in [Threads -> Seq(Frames)]
<1>1. mutex' \in [Statics \cup {GlobalLock} -> [owner : Threads \cup {Nobody}, depth : Nat]] =>
        DOMAIN mutex' = Statics \cup {GlobalLock}
  OBVIOUS
<1> QED BY <1>1 DEF TypeOK, MutexType, Frames

\* A step that leaves lists and objects alone.
LEMMA StackStepTypes ==
  ASSUME TypeOK, UNCHANGED <<list, heap, mode>>, MutexType', stack' \in [Threads -> Seq(Frames)]
  PROVE  TypeOK'
<1>1. /\ multithreaded_mode' = multithreaded_mode /\ shutdowns' = shutdowns
      /\ Ptr' = Ptr /\ objects' = objects /\ made' = made /\ needs' = needs
      /\ DeleterFn' = DeleterFn /\ NextStatic' = NextStatic /\ StaticList' = StaticList
  BY DEF list, heap, mode
<1>2. /\ multithreaded_mode' \in BOOLEAN /\ MutexType' /\ Ptr' \in [Statics -> Nat]
      /\ DeleterFn' \in [Statics -> BOOLEAN] /\ NextStatic' \in [Statics -> Statics \cup {None}]
      /\ StaticList' \in Statics \cup {None} /\ objects' \subseteq Statics \X Nat
      /\ made' \in [Statics -> Nat] /\ needs' \in [Statics -> SUBSET (Statics \X Nat)]
      /\ shutdowns' \in 0 .. MaxShutdowns /\ stack' \in [Threads -> Seq(Frames)]
  BY <1>1, TypesAre
<1> QED BY <1>2, TypesThen

-----------------------------------------------------------------------------
(* Steps that leave the statics alone                                      *)

LEMMA AllFramesOK ==
  ASSUME TypeOK, Stacks
  PROVE  \A u \in Threads : \A i \in 1 .. Len(stack[u]) : FrameOK(stack[u][i])
  BY StackShape

LEMMA SilentStep ==
  ASSUME StaticsInv, NEW t \in Threads, UNCHANGED <<list, heap, mode>>,
         NEW keep, NEW above, Turn(t, keep, above), Stacks', Modes', Mutexes',
         MutexType',
         \A i \in 1 .. Len(above) :
           /\ above[i].pc # "link"
           /\ above[i].pc = "creator" => \A o \in above[i].got :
                o \in objects /\ (o[1] \in Immortal \/ Listed(o[1]))
           /\ FramePtr(above[i], Ptr) /\ LocksReady(above, i, Ptr),
         \A s \in Statics : ~Drops(t, keep, s, "link"),
         \A s \in Statics : Drops(t, keep, s, "deleter") <=> Brings(above, s, "deleter"),
         keep > 0 /\ keep < Len(stack[t]) /\ stack[t][keep + 1].pc \in UsePcs =>
           \/ Ptr[stack[t][keep + 1].s] # 0
           \/ Len(above) > 0 /\ above[1].pc \in UsePcs /\ above[1].s = stack[t][keep + 1].s
  PROVE  StaticsInv'
<1> USE DEF StaticsInv
<1>1. Ptr' = Ptr /\ objects' = objects /\ needs' = needs
  BY DEF heap
<1>2. stack' \in [Threads -> Seq(Frames)]
  BY DEF Turn
<1>3. TypeOK'
  BY <1>2, StackStepTypes
<1>4. ASSUME NEW s \in Statics
      PROVE  /\ Somewhere(s, "link")' <=> Somewhere(s, "link")
             /\ Somewhere(s, "deleter")' <=> Somewhere(s, "deleter")
  <2>1. ~Brings(above, s, "link")
    BY DEF Brings
  <2>2. Somewhere(s, "link")' <=> Somewhere(s, "link")
    BY <2>1, TurnSomewhere
  <2>3. Somewhere(s, "deleter") => Somewhere(s, "deleter")'
    BY TurnSomewhere
  <2>4. Drops(t, keep, s, "deleter") => Somewhere(s, "deleter")
    <3>1. keep \in Nat /\ Len(stack[t]) \in Nat
      BY StackTypes DEF Turn
    <3>2. \A i \in keep + 1 .. Len(stack[t]) : i \in 1 .. Len(stack[t])
      BY <3>1
    <3> QED BY <3>2, SomewhereIs DEF Drops
  <2>5. Somewhere(s, "deleter")' => Somewhere(s, "deleter")
    BY <2>4, TurnSomewhere
  <2> QED BY <2>2, <2>3, <2>5
<1>5. ASSUME NEW s \in Statics PROVE Listed(s)' <=> Listed(s)
  BY <1>1, <1>4, ListedThen DEF Listed
<1>6. Lists'
  BY <1>1, <1>4, <1>5, SameLists
<1>7. Needs'
  BY <1>5, AllFramesOK, TurnKeepsNeeds
<1>8. Pointers'
  <2>1. \A u \in Threads : \A i \in 1 .. Len(stack[u]) :
          stack[u][i].pc = "creator" => Ptr'[stack[u][i].s] = 0
    BY <1>1 DEF Pointers, FramePtr
  <2>2. \A s \in Statics : ~(Somewhere(s, "link")' /\ Somewhere(s, "deleter")')
    BY <1>4 DEF Pointers
  <2>3. objects' = {<<s, Ptr'[s]>> : s \in {s \in Statics : Ptr'[s] # 0}}
    BY <1>1 DEF Pointers
  <2>4. \A i \in 1 .. Len(above) : FramePtr(above[i], Ptr') /\ LocksReady(above, i, Ptr')
    BY <1>1
  <2> QED BY <1>1, <2>1, <2>2, <2>3, <2>4, AllFramesOK, TurnKeepsPointers
<1> QED BY <1>3, <1>6, <1>7, <1>8

LEMMA QuietStep ==
  ASSUME StaticsInv, NEW t \in Threads, stack[t] # <<>>, UNCHANGED <<list, heap, mode>>,
         NEW keep, NEW above, Turn(t, keep, above), Stacks', Mutexes', MutexType',
         \A i \in 1 .. Len(above) :
           /\ above[i].pc \notin {"shutdown", "link"}
           /\ above[i].pc \in {"acquire", "release"} => multithreaded_mode
           /\ above[i].pc = "creator" => \A o \in above[i].got :
                o \in objects /\ (o[1] \in Immortal \/ Listed(o[1]))
           /\ FramePtr(above[i], Ptr) /\ LocksReady(above, i, Ptr),
         \A s \in Statics : ~Drops(t, keep, s, "link"),
         \A s \in Statics : Drops(t, keep, s, "deleter") <=> Brings(above, s, "deleter"),
         keep > 0 /\ keep < Len(stack[t]) /\ stack[t][keep + 1].pc \in UsePcs =>
           \/ Ptr[stack[t][keep + 1].s] # 0
           \/ Len(above) > 0 /\ above[1].pc \in UsePcs /\ above[1].s = stack[t][keep + 1].s
  PROVE  StaticsInv'
<1> USE DEF StaticsInv
<1>1. Modes'
  BY TurnKeepsModes
<1> QED BY <1>1, SilentStep

\* Nothing but the frame on top changes.
LEMMA QuietTop ==
  ASSUME StaticsInv, NEW t \in Threads, stack[t] # <<>>, UNCHANGED <<list, heap, mode>>,
         NEW f \in Frames, Turn(t, Len(stack[t]) - 1, <<f>>), Stacks', Mutexes', MutexType',
         f.s = Top(t).s, Top(t).pc # "link", f.pc \notin {"shutdown", "link"},
         f.pc = "deleter" <=> Top(t).pc = "deleter",
         Top(t).pc \in UsePcs => f.pc \in UsePcs,
         f.pc \in {"acquire", "release"} => multithreaded_mode,
         f.pc = "creator" => \A o \in f.got : o \in objects /\ (o[1] \in Immortal \/ Listed(o[1])),
         FramePtr(f, Ptr), LocksReady(<<f>>, 1, Ptr)
  PROVE  StaticsInv'
<1> DEFINE n == Len(stack[t])
<1>1. n \in Nat /\ n > 0 /\ Top(t) = stack[t][n] /\ n - 1 + 1 = n
  BY StackTypes, Tops DEF StaticsInv
<1>2. Len(<<f>>) = 1 /\ <<f>>[1] = f /\ \A i \in 1 .. Len(<<f>>) : i = 1
  OBVIOUS
<1>3. \A i \in n - 1 + 1 .. n : i = n
  BY <1>1
<1>4. n \in n - 1 + 1 .. n /\ 1 \in 1 .. Len(<<f>>)
  BY <1>1, <1>2
<1>5. \A s \in Statics : ~Drops(t, n - 1, s, "link")
  BY <1>1, <1>3 DEF Drops
<1>6. \A s \in Statics : Drops(t, n - 1, s, "deleter") <=> Brings(<<f>>, s, "deleter")
  <2>1. \A s : Drops(t, n - 1, s, "deleter") <=> Top(t).pc = "deleter" /\ Top(t).s = s
    BY <1>1, <1>3, <1>4 DEF Drops
  <2>2. \A s : Brings(<<f>>, s, "deleter") <=> f.pc = "deleter" /\ f.s = s
    BY <1>2, <1>4 DEF Brings
  <2> QED BY <2>1, <2>2
<1>7. \A i \in 1 .. Len(<<f>>) :
        /\ <<f>>[i].pc \notin {"shutdown", "link"}
        /\ <<f>>[i].pc \in {"acquire", "release"} => multithreaded_mode
        /\ <<f>>[i].pc = "creator" => \A o \in <<f>>[i].got :
             o \in objects /\ (o[1] \in Immortal \/ Listed(o[1]))
        /\ FramePtr(<<f>>[i], Ptr) /\ LocksReady(<<f>>, i, Ptr)
  BY <1>2
<1>8. stack[t][n - 1 + 1].pc \in UsePcs =>
        Len(<<f>>) > 0 /\ <<f>>[1].pc \in UsePcs /\ <<f>>[1].s = stack[t][n - 1 + 1].s
  BY <1>1, <1>2
<1> HIDE DEF n
<1> QED BY <1>5, <1>6, <1>7, <1>8, QuietStep DEF n

\* Of the mutexes locked by the rest of a script one may be what is used next.
LEMMA LocksOfTop ==
  ASSUME StaticsInv, NEW t \in Threads, stack[t] # <<>>
  PROVE  \A k \in 1 .. Len(Top(t).rest) : Top(t).rest[k].op = "lock" =>
           \/ \E j \in 1 .. k - 1 : Top(t).rest[j] = Use(Top(t).rest[k].on)
           \/ Ptr[Top(t).rest[k].on] # 0
<1>1. /\ Len(stack[t]) \in Nat /\ Len(stack[t]) \in 1 .. Len(stack[t])
      /\ Top(t) = stack[t][Len(stack[t])]
  BY StackTypes, Tops DEF StaticsInv
<1>2. LocksReady(stack[t], Len(stack[t]), Ptr) /\ ~(Len(stack[t]) < Len(stack[t]))
  BY <1>1 DEF StaticsInv, Pointers
<1> QED BY <1>1, <1>2 DEF LocksReady

LEMMA LocksOfTail ==
  ASSUME StaticsInv, NEW t \in Threads, stack[t] # <<>>, NEW r, r = Top(t).rest, r # <<>>
  PROVE  \A k \in 1 .. Len(Tail(r)) : Tail(r)[k].op = "lock" =>
           \/ \E j \in 1 .. k - 1 : Tail(r)[j] = Use(Tail(r)[k].on)
           \/ r[1] = Use(Tail(r)[k].on)
           \/ Ptr[Tail(r)[k].on] # 0
<1>1. r \in Script
  BY Tops, Changes DEF StaticsInv
<1>2. /\ Len(r) \in Nat /\ Len(r) > 0 /\ Len(Tail(r)) = Len(r) - 1
      /\ \A i \in 1 .. Len(r) - 1 : Tail(r)[i] = r[i + 1]
  BY <1>1, Tails
<1> SUFFICES ASSUME NEW k \in 1 .. Len(Tail(r)), Tail(r)[k].op = "lock"
             PROVE  \/ \E j \in 1 .. k - 1 : Tail(r)[j] = Use(Tail(r)[k].on)
                    \/ r[1] = Use(Tail(r)[k].on)
                    \/ Ptr[Tail(r)[k].on] # 0
  OBVIOUS
<1>3. k + 1 \in 1 .. Len(r) /\ Tail(r)[k] = r[k + 1]
  BY <1>2
<1>4. \/ \E j \in 1 .. k + 1 - 1 : r[j] = Use(r[k + 1].on)
      \/ Ptr[r[k + 1].on] # 0
  BY <1>3, LocksOfTop
<1>5. ASSUME NEW j \in 1 .. k + 1 - 1, r[j] = Use(r[k + 1].on), j # 1
      PROVE  \E i \in 1 .. k - 1 : Tail(r)[i] = Use(Tail(r)[k].on)
  <2>1. j - 1 \in 1 .. k - 1 /\ j - 1 \in 1 .. Len(r) - 1 /\ j - 1 + 1 = j
    BY <1>2, <1>3, <1>5
  <2>2. Tail(r)[j - 1] = r[j]
    BY <1>2, <2>1
  <2> QED BY <1>3, <1>5, <2>1, <2>2
<1> QED BY <1>3, <1>4, <1>5

\* A script goes on over a lock or an unlock, or a use.
LEMMA TailOwes ==
  ASSUME NEW f \in Frames, f.rest # <<>>, f.pc \in {"operation", "creator", "deleter"},
         NEW m \in Statics \cup {GlobalLock}, NEW g, g = [f EXCEPT !.rest = Tail(f.rest)]
  PROVE  /\ f.rest[1] = Lock(m) /\ m # GlobalLock => Owes(g, m) = Owes(f, m) + 1
         /\ f.rest[1] = Unlock(m) /\ m # GlobalLock => Owes(g, m) = Owes(f, m) - 1
         /\ (f.rest[1] # Lock(m) /\ f.rest[1] # Unlock(m)) \/ m = GlobalLock => Owes(g, m) = Owes(f, m)
<1> DEFINE r == f.rest
<1>1. r \in Script
  BY Changes
<1>2. g.rest = Tail(r) /\ g.pc = f.pc
  BY DEF Frames
<1>3. Tail(r) \in Script /\ Len(Tail(r)) \in Nat /\ Head(r) = r[1]
  BY <1>1, Tails, LenProperties DEF Script
<1>4. Owed(r, m, Len(r)) = Owed(Tail(r), m, Len(Tail(r)))
        + (IF r[1] = Unlock(m) THEN 1 ELSE 0) - (IF r[1] = Lock(m) THEN 1 ELSE 0)
  BY <1>1, <1>3, OwedTail
<1>5. Owed(Tail(r), m, Len(Tail(r))) \in Int
  BY <1>3, OwedType
<1>6. Lock(m) # Unlock(m)
  BY DEF Lock, Unlock
<1> HIDE DEF r
<1>7. m # GlobalLock => /\ Owes(f, m) = Owed(r, m, Len(r))
                        /\ Owes(g, m) = Owed(Tail(r), m, Len(Tail(r)))
  BY <1>2, OwesIs DEF r
<1>8. m = GlobalLock => Owes(g, m) = Owes(f, m)
  BY <1>2, OwesIs
<1>9. CASE m # GlobalLock
  <2>1. r[1] = Lock(m) => Owes(g, m) = Owes(f, m) + 1
    BY <1>4, <1>5, <1>6, <1>7, <1>9
  <2>2. r[1] = Unlock(m) => Owes(g, m) = Owes(f, m) - 1
    BY <1>4, <1>5, <1>6, <1>7, <1>9
  <2>3. r[1] # Lock(m) /\ r[1] # Unlock(m) => Owes(g, m) = Owes(f, m)
    BY <1>4, <1>5, <1>7, <1>9
  <2> QED BY <1>9, <2>1, <2>2, <2>3 DEF r
<1> QED BY <1>8, <1>9

\* What LockMutex and UnlockMutex have in common.
LEMMA ScriptStep ==
  ASSUME StaticsInv, NEW t \in Threads, Running(t), Top(t).rest # <<>>, Head1(t).op # "use",
         stack' = Advanced(t), UNCHANGED <<list, heap, mode>>
  PROVE  LET f == [Top(t) EXCEPT !.rest = Tail(Top(t).rest)]
         IN  /\ f \in Frames /\ FrameOK(f) /\ Turn(t, Len(stack[t]) - 1, <<f>>)
             /\ Stacks' /\ stack[t] # <<>>
             /\ Mutexes' /\ MutexType' => StaticsInv'
<1> USE DEF StaticsInv
<1> DEFINE r == Top(t).rest
           f == [Top(t) EXCEPT !.rest = Tail(r)]
<1>1. stack[t] # <<>> /\ Top(t) \in Frames /\ Top(t).pc \in {"operation", "creator", "deleter"}
  BY AtTop DEF Running
<1>2. Stacks' /\ f \in Frames /\ Turn(t, Len(stack[t]) - 1, <<f>>)
  BY <1>1, AdvancedKeepsStacks
<1>3. /\ Len(stack[t]) \in 1 .. Len(stack[t]) /\ Top(t) = stack[t][Len(stack[t])]
      /\ FrameOK(Top(t)) /\ FramePtr(Top(t), Ptr)
  BY <1>1, StackTypes, Tops, StackShape DEF Pointers
<1>4. FrameOK(f)
  BY <1>1, <1>3, TailOK
<1>5. f.pc = Top(t).pc /\ f.s = Top(t).s /\ f.rest = Tail(r) /\ f.got = Top(t).got
  BY <1>1 DEF Frames
<1>6. FramePtr(f, Ptr)
  <2> HIDE DEF f
  <2> QED BY <1>3, <1>5 DEF FramePtr
<1>7. LocksReady(<<f>>, 1, Ptr)
  <2>1. r[1].op # "use" /\ \A s : Use(s).op = "use"
    <3>1. Head(r) = r[1]
      BY <1>1, Changes, Tails
    <3> QED BY <3>1 DEF Head1, Use
  <2>2. \A s : r[1] # Use(s)
    BY <2>1
  <2>3. \A k \in 1 .. Len(Tail(r)) : Tail(r)[k].op = "lock" =>
          (\E j \in 1 .. k - 1 : Tail(r)[j] = Use(Tail(r)[k].on)) \/ Ptr[Tail(r)[k].on] # 0
    BY <1>1, <2>2, LocksOfTail
  <2> HIDE DEF f
  <2>4. <<f>>[1] = f
    OBVIOUS
  <2> QED BY <1>5, <2>3, <2>4 DEF LocksReady
<1>8. f.pc = "creator" => \A o \in f.got : o \in objects /\ (o[1] \in Immortal \/ Listed(o[1]))
  BY <1>3, <1>5 DEF Needs
<1> HIDE DEF f, r
<1>9. ASSUME Mutexes', MutexType' PROVE StaticsInv'
  BY <1>1, <1>2, <1>5, <1>6, <1>7, <1>8, <1>9, QuietTop DEF UsePcs
<1> QED BY <1>1, <1>2, <1>4, <1>9 DEF f, r

LEMMA LockMutexKeeps ==
  ASSUME StaticsInv, NEW t \in Threads, LockMutex(t)
  PROVE  StaticsInv'
<1> USE DEF StaticsInv
<1> DEFINE r == Top(t).rest
           f == [Top(t) EXCEPT !.rest = Tail(r)]
           m == r[1].on
<1>1. /\ Running(t) /\ r # <<>> /\ Head1(t).op = "lock" /\ stack' = Advanced(t)
      /\ UNCHANGED <<list, heap, mode>>
  BY DEF LockMutex, Doing
<1>2. /\ f \in Frames /\ FrameOK(f) /\ Turn(t, Len(stack[t]) - 1, <<f>>) /\ Stacks' /\ stack[t] # <<>>
      /\ Mutexes' /\ MutexType' => StaticsInv'
  BY <1>1, ScriptStep
<1>3. r \in Script /\ Top(t) \in Frames /\ Top(t).pc \in {"operation", "creator", "deleter"}
  BY <1>1, AtTop, Changes DEF Running
<1>4. r[1] = Head1(t) /\ m \in Statics /\ r[1] = Lock(m) /\ Len(r) \in Nat /\ Len(r) > 0
  <2>1. r[1] = Head1(t) /\ r[1] \in Instructions /\ Len(r) \in Nat /\ Len(r) > 0
    BY <1>1, <1>3, Tails DEF Head1
  <2> QED BY <2>1, <1>1 DEF Instructions, Lock
<1>5. m # GlobalLock /\ m \in Statics \cup {GlobalLock}
  BY <1>4, StaticsAssumption
<1>6. /\ Owes(f, m) = Owes(Top(t), m) + 1
      /\ \A l \in Statics \cup {GlobalLock} : l # m => Owes(f, l) = Owes(Top(t), l)
  <2>1. \A l : Lock(m) = Lock(l) => l = m
    BY DEF Lock
  <2>2. \A l : Lock(m) # Unlock(l)
    BY DEF Lock, Unlock
  <2> QED BY <1>1, <1>3, <1>4, <1>5, <2>1, <2>2, TailOwes
<1>7. multithreaded_mode' = multithreaded_mode /\ Ptr' = Ptr
  BY <1>1 DEF mode, heap
<1>8. \A u \in Threads \ {t} : stack'[u] = stack[u]
  BY <1>2 DEF Turn
<1>9. Ptr[m] # 0
  <2>1. 1 \in 1 .. Len(r) /\ 1 .. 1 - 1 = {} /\ r[1].op = "lock"
    BY <1>1, <1>4
  <2> QED BY <1>2, <2>1, LocksOfTop
<1> HIDE DEF f
<1>10. CASE multithreaded_mode
  <2>1. acquire(t, m)
    BY <1>4, <1>10 DEF LockMutex
  <2>2. ASSUME NEW n \in Nat, Owing(stack[t], m, n) PROVE Owing(stack'[t], m, n + 1)
    <3>1. ASSUME NEW d \in Int, d = 1 PROVE Owing(stack'[t], m, n + d)
      <4>1. Owes(f, m) = Owes(Top(t), m) + d
        BY <1>6, <3>1
      <4> QED BY <1>2, <1>5, <2>2, <4>1, TopOwing
    <3> QED BY <3>1
  <2>3. ASSUME NEW l \in Statics \cup {GlobalLock}, NEW n \in Nat, l # m, Owing(stack[t], l, n)
        PROVE  Owing(stack'[t], l, n)
    <3>1. ASSUME NEW d \in Int, d = 0 PROVE Owing(stack'[t], l, n + d)
      <4>1. Owes(f, l) \in Nat
        BY <1>2, OwesType
      <4>2. Owes(f, l) = Owes(Top(t), l) + d
        BY <1>6, <2>3, <3>1, <4>1
      <4> QED BY <1>2, <2>3, <4>2, TopOwing
    <3>2. Owing(stack'[t], l, n + 0)
      BY <3>1
    <3> QED BY <3>2
  <2> HIDE DEF m
  <2>4. Mutexes' /\ MutexType'
    BY <1>5, <1>7, <1>8, <1>9, <1>10, <2>1, <2>2, <2>3, AcquireKeepsMutexes
  <2> QED BY <1>2, <2>4
<1>11. CASE ~multithreaded_mode
  <2>1. mutex' = mutex
    BY <1>11 DEF LockMutex
  <2>2. Mutexes' /\ MutexType'
    BY <1>7, <1>8, <1>11, <2>1, SameMutexes
  <2> QED BY <1>2, <2>2
<1> QED BY <1>10, <1>11

LEMMA UnlockMutexKeeps ==
  ASSUME StaticsInv, NEW t \in Threads, UnlockMutex(t)
  PROVE  StaticsInv'
<1> USE DEF StaticsInv
<1> DEFINE r == Top(t).rest
           f == [Top(t) EXCEPT !.rest = Tail(r)]
           m == r[1].on
<1>1. /\ Running(t) /\ r # <<>> /\ Head1(t).op = "unlock" /\ stack' = Advanced(t)
      /\ UNCHANGED <<list, heap, mode>>
  BY DEF UnlockMutex, Doing
<1>2. /\ f \in Frames /\ FrameOK(f) /\ Turn(t, Len(stack[t]) - 1, <<f>>) /\ Stacks' /\ stack[t] # <<>>
      /\ Mutexes' /\ MutexType' => StaticsInv'
  BY <1>1, ScriptStep
<1>3. r \in Script /\ Top(t) \in Frames /\ Top(t).pc \in {"operation", "creator", "deleter"}
  BY <1>1, AtTop, Changes DEF Running
<1>4. r[1] = Head1(t) /\ m \in Statics /\ r[1] = Unlock(m) /\ Len(r) \in Nat /\ Len(r) > 0
  <2>1. r[1] = Head1(t) /\ r[1] \in Instructions /\ Len(r) \in Nat /\ Len(r) > 0
    BY <1>1, <1>3, Tails DEF Head1
  <2> QED BY <2>1, <1>1 DEF Instructions, Unlock
<1>5. m # GlobalLock /\ m \in Statics \cup {GlobalLock}
  BY <1>4, StaticsAssumption
<1>6. /\ Owes(f, m) = Owes(Top(t), m) - 1
      /\ \A l \in Statics \cup {GlobalLock} : l # m => Owes(f, l) = Owes(Top(t), l)
  <2>1. \A l : Unlock(m) = Unlock(l) => l = m
    BY DEF Unlock
  <2>2. \A l : Unlock(m) # Lock(l)
    BY DEF Lock, Unlock
  <2> QED BY <1>1, <1>3, <1>4, <1>5, <2>1, <2>2, TailOwes
<1>7. multithreaded_mode' = multithreaded_mode /\ Ptr' = Ptr
  BY <1>1 DEF mode, heap
<1>8. \A u \in Threads \ {t} : stack'[u] = stack[u]
  BY <1>2 DEF Turn
<1> HIDE DEF f
<1>9. Owes(f, m) \in Nat /\ Owes(Top(t), m) \in Nat
  BY <1>2, <1>3, <1>5, OwesType, StackShape, StackTypes, Tops
<1>10. CASE multithreaded_mode
  <2>1. release(m)
    BY <1>4, <1>10 DEF UnlockMutex
  <2>2. ASSUME NEW n \in Nat, Owing(stack[t], m, n) PROVE n > 0 /\ Owing(stack'[t], m, n - 1)
    <3>1. ASSUME NEW d \in Int, d = -1 PROVE Owing(stack'[t], m, n + d)
      <4>1. Owes(f, m) = Owes(Top(t), m) + d
        BY <1>6, <1>9, <3>1
      <4> QED BY <1>2, <1>5, <2>2, <4>1, TopOwing
    <3>2. Owing(stack'[t], m, n + (-1)) /\ n + (-1) = n - 1
      BY <3>1
    <3>3. /\ Len(stack[t]) \in Nat /\ Len(stack[t]) \in 1 .. Len(stack[t])
          /\ Top(t) = stack[t][Len(stack[t])]
      BY <1>2, StackTypes, Tops
    <3>4. Owes(Top(t), m) <= n
      BY <1>9, <2>2, <3>3, OwingEach
    <3>5. n > 0
      BY <1>6, <1>9, <3>4
    <3> QED BY <3>2, <3>5
  <2>3. ASSUME NEW l \in Statics \cup {GlobalLock}, NEW n \in Nat, l # m, Owing(stack[t], l, n)
        PROVE  Owing(stack'[t], l, n)
    <3>1. ASSUME NEW d \in Int, d = 0 PROVE Owing(stack'[t], l, n + d)
      <4>1. Owes(f, l) \in Nat
        BY <1>2, OwesType
      <4>2. Owes(f, l) = Owes(Top(t), l) + d
        BY <1>6, <2>3, <3>1, <4>1
      <4> QED BY <1>2, <2>3, <4>2, TopOwing
    <3>2. Owing(stack'[t], l, n + 0)
      BY <3>1
    <3> QED BY <3>2
  <2> HIDE DEF m
  <2>4. Mutexes' /\ MutexType'
    BY <1>5, <1>7, <1>8, <1>10, <2>1, <2>2, <2>3, ReleaseKeepsMutexes
  <2> QED BY <1>2, <2>4
<1>11. CASE ~multithreaded_mode
  <2>1. mutex' = mutex
    BY <1>11 DEF UnlockMutex
  <2>2. Mutexes' /\ MutexType'
    BY <1>7, <1>8, <1>11, <2>1, SameMutexes
  <2> QED BY <1>2, <2>2
<1> QED BY <1>10, <1>11

\* A step of operator* from one label to another.
LEMMA GotoStep ==
  ASSUME StaticsInv, NEW t \in Threads, stack[t] # <<>>, UNCHANGED <<list, heap, mode>>,
         Top(t).pc \in UsePcs \ {"link", "creator"}, NEW pc \in UsePcs \ {"link", "creator"},
         Goto(t, pc), pc \in {"acquire", "release"} => multithreaded_mode,
         pc \in {"release", "deref"} => Ptr[Top(t).s] # 0
  PROVE  LET f == [Top(t) EXCEPT !.pc = pc]
         IN  /\ f \in Frames /\ FrameOK(f) /\ Turn(t, Len(stack[t]) - 1, <<f>>)
             /\ f.pc = pc /\ f.rest = <<>> /\ Top(t).rest = <<>> /\ Stacks'
             /\ Mutexes' /\ MutexType' => StaticsInv'
<1> USE DEF StaticsInv
<1> DEFINE f == [Top(t) EXCEPT !.pc = pc]
<1>1. /\ Len(stack[t]) \in 1 .. Len(stack[t]) /\ Top(t) = stack[t][Len(stack[t])]
      /\ FrameOK(Top(t)) /\ Top(t) \in Frames
  BY StackTypes, Tops, StackShape
<1>2. Top(t).rest = <<>>
  BY <1>1 DEF FrameOK, UsePcs
<1>3. Stacks' /\ f \in Frames /\ FrameOK(f) /\ Turn(t, Len(stack[t]) - 1, <<f>>)
  BY <1>2, GotoKeepsStacks
<1>4. f.pc = pc /\ f.rest = <<>> /\ f.s = Top(t).s
  BY <1>1, <1>2 DEF Frames
<1> HIDE DEF f
<1>5. FramePtr(f, Ptr)
  BY <1>4 DEF FramePtr, UsePcs
<1>6. LocksReady(<<f>>, 1, Ptr)
  <2>1. <<f>>[1] = f /\ 1 .. Len(f.rest) = {}
    BY <1>4
  <2> QED BY <2>1 DEF LocksReady
<1>7. ASSUME Mutexes', MutexType' PROVE StaticsInv'
  BY <1>3, <1>4, <1>5, <1>6, <1>7, QuietTop DEF UsePcs
<1> QED BY <1>2, <1>3, <1>4, <1>7 DEF f

\* A constructor is called.
LEMMA CreatorStep ==
  ASSUME StaticsInv, NEW t \in Threads, stack[t] # <<>>, UNCHANGED <<list, heap, mode>>,
         Top(t).pc \in {"read", "acquire"}, CallCreator(t), Ptr[Top(t).s] = 0
  PROVE  LET f == Frame("creator", Top(t).s, Creator[Top(t).s])
         IN  /\ f \in Frames /\ FrameOK(f) /\ Turn(t, Len(stack[t]) - 1, <<f>>)
             /\ f.pc = "creator" /\ Top(t).rest = <<>> /\ Stacks'
             /\ \A m \in Statics : m # GlobalLock /\ Owes(f, m) = 0
             /\ Mutexes' /\ MutexType' => StaticsInv'
<1> USE DEF StaticsInv
<1> DEFINE s == Top(t).s
           f == Frame("creator", s, Creator[s])
<1>1. /\ Len(stack[t]) \in 1 .. Len(stack[t]) /\ Top(t) = stack[t][Len(stack[t])]
      /\ FrameOK(Top(t)) /\ Top(t) \in Frames
  BY StackTypes, Tops, StackShape
<1>2. Top(t).rest = <<>>
  BY <1>1 DEF FrameOK
<1>3. Stacks' /\ f \in Frames /\ FrameOK(f) /\ Turn(t, Len(stack[t]) - 1, <<f>>) /\ s \in Statics
  BY CreatorKeepsStacks DEF UsePcs
<1>4. f.pc = "creator" /\ f.rest = Creator[s] /\ f.s = s /\ f.got = {}
  BY DEF Frame
<1>5. Creator[s] \in Script /\ WellScoped(Creator[s])
  BY <1>3, Scripts
<1>6. ASSUME NEW m \in Statics PROVE m # GlobalLock /\ Owes(f, m) = 0
  <2>1. m # GlobalLock /\ m \in Statics \cup {GlobalLock}
    BY StaticsAssumption
  <2>2. Owed(Creator[s], m, Len(Creator[s])) = 0
    BY <1>5, ScriptOK
  <2> HIDE DEF f
  <2> QED BY <1>4, <2>1, <2>2, OwesIs
<1> HIDE DEF f
<1>7. FramePtr(f, Ptr)
  BY <1>4 DEF FramePtr
<1>8. LocksReady(<<f>>, 1, Ptr)
  <2>1. <<f>>[1] = f /\ f.rest = Creator[s]
    BY <1>4
  <2>2. DOMAIN Creator[s] = 1 .. Len(Creator[s])
    BY <1>5, LenProperties DEF Script
  <2>3. \A k \in 1 .. Len(Creator[s]) : Creator[s][k].op = "lock" =>
          \E j \in 1 .. k - 1 : Creator[s][j] = Use(Creator[s][k].on)
    BY <1>5, <2>2 DEF WellScoped
  <2> QED BY <2>1, <2>3 DEF LocksReady
<1>9. ASSUME Mutexes', MutexType' PROVE StaticsInv'
  <2>1. f.pc \in UsePcs
    BY <1>4 DEF UsePcs
  <2> QED BY <1>3, <1>4, <1>7, <1>8, <1>9, <2>1, QuietTop
<1> QED BY <1>2, <1>3, <1>4, <1>6, <1>9 DEF f

LEMMA ReadPtrKeeps ==
  ASSUME StaticsInv, NEW t \in Threads, ReadPtr(t)
  PROVE  StaticsInv'
<1> USE DEF StaticsInv
<1>1. stack[t] # <<>> /\ Top(t).pc = "read" /\ UNCHANGED <<mutex, list, heap, mode>>
  BY AtTop DEF ReadPtr
<1>2. Ptr' = Ptr /\ mutex' = mutex /\ multithreaded_mode' = multithreaded_mode
  BY <1>1 DEF heap, mode
<1>3. ASSUME NEW pc \in {"deref", "acquire"}, Goto(t, pc), pc = "acquire" => multithreaded_mode,
             pc = "deref" => Ptr[Top(t).s] # 0
      PROVE  StaticsInv'
  <2> DEFINE f == [Top(t) EXCEPT !.pc = pc]
  <2>1. /\ f \in Frames /\ FrameOK(f) /\ Turn(t, Len(stack[t]) - 1, <<f>>)
        /\ f.pc = pc /\ f.rest = <<>> /\ Top(t).rest = <<>>
        /\ Mutexes' /\ MutexType' => StaticsInv'
    BY <1>1, <1>3, GotoStep DEF UsePcs
  <2> HIDE DEF f
  <2>2. \A m \in Statics \cup {GlobalLock} : Owes(f, m) = Owes(Top(t), m)
    BY <1>1, <2>1, OwesIs
  <2>3. Even(t)
    BY <1>1, <2>1, <2>2, TopEven
  <2>4. \A u \in Threads \ {t} : stack'[u] = stack[u]
    BY <2>1 DEF Turn
  <2> QED BY <1>2, <2>1, <2>3, <2>4, SameMutexes
<1>4. ASSUME ~multithreaded_mode, CallCreator(t), Ptr[Top(t).s] = 0 PROVE StaticsInv'
  <2> DEFINE f == Frame("creator", Top(t).s, Creator[Top(t).s])
  <2>1. Turn(t, Len(stack[t]) - 1, <<f>>) /\ (Mutexes' /\ MutexType' => StaticsInv')
    BY <1>1, <1>4, CreatorStep
  <2> HIDE DEF f
  <2>2. \A u \in Threads \ {t} : stack'[u] = stack[u]
    BY <2>1 DEF Turn
  <2> QED BY <1>2, <1>4, <2>1, <2>2, SameMutexes
<1> QED BY <1>3, <1>4 DEF ReadPtr

LEMMA AcquireGlobalLockKeeps ==
  ASSUME StaticsInv, NEW t \in Threads, AcquireGlobalLock(t)
  PROVE  StaticsInv'
<1> USE DEF StaticsInv
<1>1. stack[t] # <<>> /\ Top(t).pc = "acquire" /\ UNCHANGED <<list, heap, mode>> /\ acquire(t, GlobalLock)
  BY AtTop DEF AcquireGlobalLock
<1>2. Ptr' = Ptr /\ multithreaded_mode' = multithreaded_mode
  BY <1>1 DEF heap, mode
<1>3. multithreaded_mode
  <2>1. Len(stack[t]) \in 1 .. Len(stack[t]) /\ Top(t) = stack[t][Len(stack[t])]
    BY <1>1, StackTypes, Tops
  <2> QED BY <1>1, <2>1 DEF Modes
<1>4. GlobalLock \in Statics \cup {GlobalLock} /\ GlobalLock \notin Statics
  BY StaticsAssumption
\* The lock is owed once more by the frame on top, whichever it is now.
<1>5. ASSUME NEW f \in Frames, FrameOK(f), Turn(t, Len(stack[t]) - 1, <<f>>),
             f.pc \in {"creator", "release"}, Top(t).rest = <<>>,
             \A m \in Statics : m # GlobalLock /\ Owes(f, m) = 0
      PROVE  Mutexes' /\ MutexType'
  <2>1. Owes(f, GlobalLock) = 1 /\ Owes(Top(t), GlobalLock) = 0
    BY <1>1, <1>4, <1>5, OwesIs
  <2>2. \A m \in Statics : Owes(Top(t), m) = 0
    BY <1>5, OwesIs
  <2>3. ASSUME NEW n \in Nat, Owing(stack[t], GlobalLock, n) PROVE Owing(stack'[t], GlobalLock, n + 1)
    <3>1. ASSUME NEW d \in Int, d = 1 PROVE Owing(stack'[t], GlobalLock, n + d)
      <4>1. Owes(f, GlobalLock) = Owes(Top(t), GlobalLock) + d
        BY <2>1, <3>1
      <4> QED BY <1>1, <1>4, <1>5, <2>3, <4>1, TopOwing
    <3> QED BY <3>1
  <2>4. ASSUME NEW l \in Statics \cup {GlobalLock}, NEW n \in Nat, l # GlobalLock, Owing(stack[t], l, n)
        PROVE  Owing(stack'[t], l, n)
    <3>1. ASSUME NEW d \in Int, d = 0 PROVE Owing(stack'[t], l, n + d)
      <4>1. Owes(f, l) = Owes(Top(t), l) + d
        BY <1>5, <2>2, <2>4, <3>1
      <4> QED BY <1>1, <1>5, <2>4, <4>1, TopOwing
    <3>2. Owing(stack'[t], l, n + 0)
      BY <3>1
    <3> QED BY <3>2
  <2>5. \A u \in Threads \ {t} : stack'[u] = stack[u]
    BY <1>5 DEF Turn
  <2> QED BY <1>1, <1>2, <1>3, <1>4, <2>3, <2>4, <2>5, AcquireKeepsMutexes
<1>6. ASSUME Ptr[Top(t).s] = 0, CallCreator(t) PROVE StaticsInv'
  <2> DEFINE f == Frame("creator", Top(t).s, Creator[Top(t).s])
  <2>1. /\ f \in Frames /\ FrameOK(f) /\ Turn(t, Len(stack[t]) - 1, <<f>>)
        /\ f.pc = "creator" /\ Top(t).rest = <<>>
        /\ \A m \in Statics : m # GlobalLock /\ Owes(f, m) = 0
        /\ Mutexes' /\ MutexType' => StaticsInv'
    BY <1>1, <1>6, CreatorStep
  <2> HIDE DEF f
  <2> QED BY <1>5, <2>1
<1>7. ASSUME Ptr[Top(t).s] # 0, Goto(t, "release") PROVE StaticsInv'
  <2> DEFINE f == [Top(t) EXCEPT !.pc = "release"]
  <2>1. /\ f \in Frames /\ FrameOK(f) /\ Turn(t, Len(stack[t]) - 1, <<f>>)
        /\ f.pc = "release" /\ f.rest = <<>> /\ Top(t).rest = <<>>
        /\ Mutexes' /\ MutexType' => StaticsInv'
    BY <1>1, <1>3, <1>7, GotoStep DEF UsePcs
  <2> HIDE DEF f
  <2>2. \A m \in Statics : m # GlobalLock /\ Owes(f, m) = 0
    BY <1>4, <2>1, OwesIs
  <2> QED BY <1>5, <2>1, <2>2
<1> QED BY <1>6, <1>7 DEF AcquireGlobalLock

LEMMA ReleaseGlobalLockKeeps ==
  ASSUME StaticsInv, NEW t \in Threads, ReleaseGlobalLock(t)
  PROVE  StaticsInv'
<1> USE DEF StaticsInv
<1> DEFINE f == [Top(t) EXCEPT !.pc = "deref"]
<1>1. /\ stack[t] # <<>> /\ Top(t).pc = "release" /\ UNCHANGED <<list, heap, mode>>
      /\ release(GlobalLock) /\ Goto(t, "deref")
  BY AtTop DEF ReleaseGlobalLock
<1>2. Ptr' = Ptr /\ multithreaded_mode' = multithreaded_mode
  BY <1>1 DEF heap, mode
<1>3. Len(stack[t]) \in Nat /\ Len(stack[t]) \in 1 .. Len(stack[t]) /\ Top(t) = stack[t][Len(stack[t])]
  BY <1>1, StackTypes, Tops
<1>4. multithreaded_mode /\ Ptr[Top(t).s] # 0
  BY <1>1, <1>3 DEF Modes, Pointers, FramePtr
<1>5. GlobalLock \in Statics \cup {GlobalLock} /\ GlobalLock \notin Statics
  BY StaticsAssumption
<1>6. /\ f \in Frames /\ FrameOK(f) /\ Turn(t, Len(stack[t]) - 1, <<f>>)
      /\ f.pc = "deref" /\ f.rest = <<>> /\ Top(t).rest = <<>>
      /\ Mutexes' /\ MutexType' => StaticsInv'
  BY <1>1, <1>4, GotoStep DEF UsePcs
<1> HIDE DEF f
<1>7. /\ Owes(f, GlobalLock) = 0 /\ Owes(Top(t), GlobalLock) = 1
      /\ \A m \in Statics : Owes(f, m) = 0 /\ Owes(Top(t), m) = 0
  BY <1>1, <1>5, <1>6, OwesIs
<1>8. ASSUME NEW n \in Nat, Owing(stack[t], GlobalLock, n)
      PROVE  n > 0 /\ Owing(stack'[t], GlobalLock, n - 1)
  <2>1. ASSUME NEW d \in Int, d = -1 PROVE Owing(stack'[t], GlobalLock, n + d)
    <3>1. Owes(f, GlobalLock) = Owes(Top(t), GlobalLock) + d
      BY <1>7, <2>1
    <3> QED BY <1>1, <1>5, <1>6, <1>8, <3>1, TopOwing
  <2>2. Owing(stack'[t], GlobalLock, n + (-1)) /\ n + (-1) = n - 1
    BY <2>1
  <2>3. Owes(stack[t][Len(stack[t])], GlobalLock) = 1 /\ 1 \in Nat
    BY <1>3, <1>7
  <2>4. 1 <= n
    BY <1>3, <1>8, <2>3, OwingEach
  <2> QED BY <2>2, <2>4
<1>9. ASSUME NEW l \in Statics \cup {GlobalLock}, NEW n \in Nat, l # GlobalLock, Owing(stack[t], l, n)
      PROVE  Owing(stack'[t], l, n)
  <2>1. ASSUME NEW d \in Int, d = 0 PROVE Owing(stack'[t], l, n + d)
    <3>1. Owes(f, l) = Owes(Top(t), l) + d
      BY <1>7, <1>9, <2>1
    <3> QED BY <1>1, <1>6, <1>9, <3>1, TopOwing
  <2>2. Owing(stack'[t], l, n + 0)
    BY <2>1
  <2> QED BY <2>2
<1>10. \A u \in Threads \ {t} : stack'[u] = stack[u]
  BY <1>6 DEF Turn
<1>11. Mutexes' /\ MutexType'
  BY <1>1, <1>2, <1>4, <1>5, <1>8, <1>9, <1>10, ReleaseKeepsMutexes
<1> QED BY <1>6, <1>11
\* The operation is through.
LEMMA ReturnKeeps ==
  ASSUME StaticsInv, NEW t \in Threads, Return(t)
  PROVE  StaticsInv'
<1> USE DEF StaticsInv
<1>1. /\ stack[t] # <<>> /\ Top(t).pc = "operation" /\ Top(t).rest = <<>>
      /\ UNCHANGED <<mutex, list, heap, mode>> /\ stack' = [stack EXCEPT ![t] = Below(t)]
  BY AtTop DEF Return
<1>2. Len(stack[t]) = 1 /\ Top(t) = stack[t][1]
  <2>1. /\ Len(stack[t]) \in Nat /\ Len(stack[t]) \in 1 .. Len(stack[t])
        /\ Top(t) = stack[t][Len(stack[t])]
    BY <1>1, StackTypes, Tops
  <2> QED BY <1>1, <2>1, StackShape
<1>3. Turn(t, 0, <<>>)
  <2>1. Len(stack[t]) - 1 = 0
    BY <1>2
  <2> QED BY <1>1, <2>1, PopTurns
<1>4. Stacks'
  BY <1>3, PopKeepsStacks
<1>5. /\ Ptr' = Ptr /\ mutex' = mutex /\ multithreaded_mode' = multithreaded_mode
      /\ \A u \in Threads \ {t} : stack'[u] = stack[u] /\ Len(<<>>) = 0 /\ Len(stack'[t]) = 0
  BY <1>1, <1>3 DEF heap, mode, Turn
<1>6. Even(t)
  <2>1. Len(stack'[t]) = Len(stack[t]) - 1
    BY <1>2, <1>3 DEF Turn
  <2>2. \A m \in Statics \cup {GlobalLock} : Owes(stack[t][Len(stack[t])], m) = 0
    BY <1>1, <1>2, OwesIs
  <2>3. \A i \in 1 .. Len(stack'[t]) : FALSE
    BY <1>3 DEF Turn
  <2> QED BY <1>1, <2>1, <2>2, <2>3, PopEven
<1>7. Mutexes' /\ MutexType'
  BY <1>5, <1>6, SameMutexes
<1>8. \A s, pc : ~Brings(<<>>, s, pc)
  BY DEF Brings
<1>9. \A s \in Statics, pc \in {"link", "deleter"} : ~Drops(t, 0, s, pc)
  <2>1. \A i \in 0 + 1 .. Len(stack[t]) : i = 1
    BY <1>2
  <2> QED BY <1>1, <1>2, <2>1 DEF Drops
<1>10. \A i \in 1 .. Len(<<>>) : FALSE
  OBVIOUS
<1>11. UNCHANGED <<list, heap, mode>>
  BY <1>1
<1>12. ~(0 > 0)
  OBVIOUS
<1> QED BY ONLY <1>1, <1>3, <1>4, <1>7, <1>8, <1>9, <1>10, <1>11, <1>12, StaticsInv, QuietStep
LEMMA UseStaticKeeps ==
  ASSUME StaticsInv, NEW t \in Threads, UseStatic(t)
  PROVE  StaticsInv'
<1> USE DEF StaticsInv
<1> DEFINE n == Len(stack[t])
           r == Top(t).rest
           f == [Top(t) EXCEPT !.rest = Tail(r)]
           g == Frame("read", Head1(t).on, <<>>)
<1>1. /\ Running(t) /\ r # <<>> /\ Head1(t).op = "use" /\ UNCHANGED <<mutex, list, heap, mode>>
  BY DEF UseStatic, Doing
<1>2. /\ stack[t] # <<>> /\ Top(t) \in Frames /\ Top(t).pc \in {"operation", "creator", "deleter"}
      /\ r \in Script /\ n \in Nat /\ n > 0 /\ Top(t) = stack[t][n] /\ n \in 1 .. n
  BY <1>1, AtTop, Changes, StackTypes, Tops DEF Running
<1>3. /\ Turn(t, n - 1, <<f, g>>) /\ Head1(t).on \in Statics /\ Stacks'
  BY UseTurns, UseKeepsStacks
<1>4. /\ f \in Frames /\ f.pc = Top(t).pc /\ f.s = Top(t).s /\ f.rest = Tail(r) /\ f.got = Top(t).got
  <2>1. Tail(r) \in Script
    BY <1>1, <1>2, Tails
  <2>2. f \in Frames
    BY <1>2, <2>1, Changes
  <2> QED BY <1>2, <2>2 DEF Frames
<1>5. /\ g \in Frames /\ g.pc = "read" /\ g.s = Head1(t).on /\ g.rest = <<>>
  <2>1. <<>> \in Script /\ "read" \in Pcs
    BY EmptySeq DEF Pcs, Script
  <2> QED BY <1>3, <2>1, FrameTypes
<1>6. r[1] = Use(g.s) /\ r[1] = Head1(t)
  BY <1>1, <1>2, <1>5, Tails DEF Head1, Instructions, Use
<1>7. FrameOK(Top(t)) /\ FramePtr(Top(t), Ptr)
  BY <1>2, StackShape DEF Pointers
<1>8. \A m \in Statics \cup {GlobalLock} : Owes(f, m) = Owes(Top(t), m) /\ Owes(g, m) = 0
  <2>1. \A s, m : Use(s) # Lock(m) /\ Use(s) # Unlock(m)
    BY DEF Use, Lock, Unlock
  <2>2. \A m \in Statics \cup {GlobalLock} : Owes(f, m) = Owes(Top(t), m)
    BY <1>1, <1>2, <1>6, <2>1, TailOwes
  <2> HIDE DEF f, g
  <2> QED BY <1>5, <2>2, OwesIs
<1> HIDE DEF f, g
<1>9. Len(<<f, g>>) = 2 /\ <<f, g>>[1] = f /\ <<f, g>>[2] = g /\ \A i \in 1 .. Len(<<f, g>>) : i = 1 \/ i = 2
  OBVIOUS
<1>10. /\ Len(stack'[t]) = n + 1 /\ stack'[t][n] = f /\ stack'[t][n + 1] = g
       /\ \A i \in 1 .. n - 1 : stack'[t][i] = stack[t][i]
       /\ \A u \in Threads \ {t} : stack'[u] = stack[u]
  <2>1. n - 1 + 1 = n /\ n - 1 + 2 = n + 1 /\ 1 \in 1 .. 2 /\ 2 \in 1 .. 2
    BY <1>2
  <2> QED BY <1>3, <1>9, <2>1 DEF Turn
<1>11. Even(t)
  <2>1. ASSUME NEW m \in Statics \cup {GlobalLock}
        PROVE  /\ \A i \in 1 .. n : Owes(stack'[t][i], m) = Owes(stack[t][i], m)
               /\ Owes(stack'[t][Len(stack'[t])], m) = 0
    <3>1. \A i \in 1 .. n : i = n \/ i \in 1 .. n - 1
      BY <1>2
    <3> QED BY <1>2, <1>8, <1>10, <3>1
  <2> QED BY <1>10, <2>1, PushEven
<1>12. Mutexes' /\ MutexType'
  <2>1. Ptr' = Ptr /\ mutex' = mutex /\ multithreaded_mode' = multithreaded_mode
    BY <1>1 DEF heap, mode
  <2> QED BY <1>10, <1>11, <2>1, SameMutexes
<1>13. FramePtr(f, Ptr) /\ FramePtr(g, Ptr)
  BY <1>4, <1>5, <1>7 DEF FramePtr
<1>14. LocksReady(<<f, g>>, 1, Ptr) /\ LocksReady(<<f, g>>, 2, Ptr)
  <2>1. \A k \in 1 .. Len(Tail(r)) : Tail(r)[k].op = "lock" =>
           \/ \E j \in 1 .. k - 1 : Tail(r)[j] = Use(Tail(r)[k].on)
           \/ r[1] = Use(Tail(r)[k].on)
           \/ Ptr[Tail(r)[k].on] # 0
    BY <1>1, <1>2, LocksOfTail
  <2>2. \A s : r[1] = Use(s) => g.s = s
    BY <1>6 DEF Use
  <2>3. g.pc \in UsePcs /\ 1 < Len(<<f, g>>) /\ <<f, g>>[1 + 1] = g
    <3>1. 1 + 1 = 2
      OBVIOUS
    <3> QED BY <1>5, <1>9, <3>1 DEF UsePcs
  <2>4. LocksReady(<<f, g>>, 2, Ptr)
    <3>1. <<f, g>>[2].rest = <<>> /\ 1 .. Len(<<>>) = {}
      BY <1>5, <1>9
    <3> QED BY <3>1 DEF LocksReady
  <2>5. LocksReady(<<f, g>>, 1, Ptr)
    <3>1. <<f, g>>[1].rest = Tail(r)
      BY <1>4, <1>9
    <3>2. \A k \in 1 .. Len(Tail(r)) : Tail(r)[k].op = "lock" =>
             \/ \E j \in 1 .. k - 1 : Tail(r)[j] = Use(Tail(r)[k].on)
             \/ 1 < Len(<<f, g>>) /\ <<f, g>>[1 + 1].pc \in UsePcs /\ <<f, g>>[1 + 1].s = Tail(r)[k].on
             \/ Ptr[Tail(r)[k].on] # 0
      BY <2>1, <2>2, <2>3
    <3> QED BY <3>1, <3>2 DEF LocksReady
  <2> QED BY <2>4, <2>5
<1>15. f.pc = "creator" => \A o \in f.got : o \in objects /\ (o[1] \in Immortal \/ Listed(o[1]))
  BY <1>2, <1>4 DEF Needs
<1>16. /\ \A s \in Statics : ~Drops(t, n - 1, s, "link")
       /\ \A s \in Statics : Drops(t, n - 1, s, "deleter") <=> Brings(<<f, g>>, s, "deleter")
  <2>1. \A i \in n - 1 + 1 .. n : i = n
    BY <1>2
  <2>2. n \in n - 1 + 1 .. n
    BY <1>2
  <2>3. \A s, pc : Drops(t, n - 1, s, pc) <=> Top(t).pc = pc /\ Top(t).s = s
    BY <1>2, <2>1, <2>2 DEF Drops
  <2>4. \A s : Brings(<<f, g>>, s, "deleter") <=> f.pc = "deleter" /\ f.s = s
    <3>1. 1 \in 1 .. Len(<<f, g>>)
      BY <1>9
    <3> QED BY <1>5, <1>9, <3>1 DEF Brings
  <2> QED BY <1>2, <1>4, <2>3, <2>4
<1>17. \A i \in 1 .. Len(<<f, g>>) :
           /\ <<f, g>>[i].pc \notin {"shutdown", "link"}
           /\ <<f, g>>[i].pc \in {"acquire", "release"} => multithreaded_mode
           /\ <<f, g>>[i].pc = "creator" => \A o \in <<f, g>>[i].got :
                o \in objects /\ (o[1] \in Immortal \/ Listed(o[1]))
           /\ FramePtr(<<f, g>>[i], Ptr) /\ LocksReady(<<f, g>>, i, Ptr)
  BY <1>2, <1>4, <1>5, <1>9, <1>13, <1>14, <1>15
<1>18. stack[t][n - 1 + 1].pc \in UsePcs => /\ Len(<<f, g>>) > 0 /\ <<f, g>>[1].pc \in UsePcs
                                            /\ <<f, g>>[1].s = stack[t][n - 1 + 1].s
  <2>1. n - 1 + 1 = n
    BY <1>2
  <2> QED BY <1>2, <1>4, <1>9, <2>1
<1>19. UNCHANGED <<list, heap, mode>>
  BY <1>1
<1> HIDE DEF n
<1> QED BY <1>2, <1>3, <1>12, <1>16, <1>17, <1>18, <1>19, QuietStep DEF n
-----------------------------------------------------------------------------
(* Who is below whom                                                       *)

\* A set of numbers has a least one.
LEMMA LeastOf ==
  ASSUME NEW R, IsWellFoundedOn(R, Nat), NEW S \in SUBSET Nat, S # {},
         \A x, y \in Nat : y < x => <<y, x>> \in R
  PROVE  \E n \in S : \A m \in S : n <= m
<1>1. PICK x \in S : \A y \in S : ~(<<y, x>> \in R)
  BY WFMin
<1>2. ASSUME NEW m \in S PROVE x <= m
  <2>1. x \in Nat /\ m \in Nat
    OBVIOUS
  <2>2. ~(m < x)
    BY <1>1, <2>1
  <2> QED BY <2>1, <2>2
<1> QED BY <1>2

LEMMA Least ==
  ASSUME NEW S \in SUBSET Nat, S # {}
  PROVE  \E n \in S : \A m \in S : n <= m
<1> DEFINE R == OpToRel(<, Nat)
<1>1. \A x, y \in Nat : y < x => <<y, x>> \in R
  BY DEF OpToRel
<1>2. IsWellFoundedOn(R, Nat)
  BY NatLessThanWellFounded
<1> HIDE DEF R
<1> QED BY <1>1, <1>2, LeastOf

\* Above a constructor that is not on top, and above a destructor's first
\* frame, there are constructors.
LEMMA Creators ==
  ASSUME TypeOK, Stacks, NEW t \in Threads, NEW i \in 3 .. Len(stack[t]), i < Len(stack[t])
  PROVE  /\ i \in 1 .. Len(stack[t]) /\ i + 1 \in 1 .. Len(stack[t])
         /\ stack[t][i].pc = "creator" /\ stack[t][i].s \in Statics
         /\ stack[t][i + 1].s \in Uses(Creator[stack[t][i].s])
<1>1. Len(stack[t]) \in Nat /\ i \in 1 .. Len(stack[t]) /\ i + 1 \in 1 .. Len(stack[t]) /\ i # 1 /\ i # 2
  BY StackTypes
<1>2. stack[t][i].pc = "creator" /\ LinkOK(stack[t][i], stack[t][i + 1]) /\ FrameOK(stack[t][i])
  BY <1>1, StackShape
<1> QED BY <1>1, <1>2 DEF LinkOK, FrameOK, UsePcs

\* What the destructor's uses construct does not come back to its static.
LEMMA AboveDeleter ==
  ASSUME TypeOK, Stacks, Pointers, NEW t \in Threads, NEW i \in 4 .. Len(stack[t]),
         stack[t][2].pc = "deleter"
  PROVE  stack[t][i].s # stack[t][2].s
<1> DEFINE n == Len(stack[t])
           u == stack[t][2].s
           At3(k) == stack[t][k].s
<1>1. n \in Nat /\ 2 \in 1 .. n /\ 3 \in 3 .. n /\ 3 < n /\ 2 < n
  BY StackTypes
<1>2. u \in Statics /\ Ptr[u] # 0
  <2>1. FrameOK(stack[t][2]) /\ FramePtr(stack[t][2], Ptr)
    BY <1>1, StackShape DEF Pointers
  <2> QED BY <2>1 DEF FrameOK, FramePtr
<1>3. PICK S \in SUBSET (Statics \ {u}) :
        Uses(Deleter[u]) \ {u} \subseteq S /\ \A r \in S : Uses(Creator[r]) \subseteq S
  BY <1>2, ScriptsAssumption
<1>4. At3(3) \in S
  <2>1. LinkOK(stack[t][2], stack[t][2 + 1])
    BY <1>1, StackShape
  <2>2. At3(3) \in Uses(Deleter[u])
    BY <2>1 DEF LinkOK
  <2>3. stack[t][3].pc = "creator"
    BY <1>1, Creators
  <2>4. Ptr[At3(3)] = 0
    <3>1. 3 \in 1 .. n
      BY <1>1
    <3> QED BY <2>3, <3>1 DEF Pointers, FramePtr
  <2> QED BY <1>2, <1>3, <2>2, <2>4
<1>5. ASSUME NEW k \in 3 .. n, k < n, At3(k) \in S PROVE At3(k + 1) \in S
  BY <1>3, <1>5, Creators
<1>6. \A k \in 3 .. n : At3(k) \in S
  <2> SUFFICES ASSUME NEW j \in 3 .. n, At3(j) \notin S PROVE FALSE
    OBVIOUS
  <2> DEFINE B == {k \in 3 .. n : At3(k) \notin S}
  <2>1. B \in SUBSET Nat /\ B # {}
    BY <1>1
  <2>2. PICK k \in B : \A m \in B : k <= m
    BY <2>1, Least
  <2>3. k # 3 /\ k \in 3 .. n
    BY <1>4
  <2>4. k - 1 \in 3 .. n /\ k - 1 < n /\ k - 1 + 1 = k /\ ~(k <= k - 1)
    BY <1>1, <2>3
  <2>5. k - 1 \notin B
    BY <2>2, <2>4
  <2>6. At3(k - 1) \in S
    BY <2>4, <2>5
  <2>7. At3(k - 1 + 1) \in S
    BY <1>5, <2>4, <2>6
  <2> QED BY <2>4, <2>7
<1>7. i \in 3 .. n
  BY <1>1
<1> QED BY <1>3, <1>6, <1>7

\* No constructor waits for itself.
LEMMA NoCircle ==
  ASSUME TypeOK, Stacks, NEW t \in Threads, NEW i \in 1 .. Len(stack[t]), NEW j \in 1 .. Len(stack[t]),
         i < j, stack[t][i].pc = "creator"
  PROVE  stack[t][j].s # stack[t][i].s
<1> SUFFICES ASSUME stack[t][j].s = stack[t][i].s PROVE FALSE
  OBVIOUS
<1> DEFINE n == Len(stack[t])
           C == {stack[t][k].s : k \in i .. j - 1}
<1>1. n \in Nat /\ i \in Int /\ j \in Int
  BY StackTypes
<1>2. ASSUME NEW k \in i .. j - 1
      PROVE  stack[t][k].s \in Statics /\ stack[t][k + 1].s \in Uses(Creator[stack[t][k].s])
  <2>1. k \in 1 .. n /\ k < n
    BY <1>1
  <2>2. CASE k = i
    <3>1. LinkOK(stack[t][k], stack[t][k + 1]) /\ FrameOK(stack[t][k])
      BY <2>1, StackShape
    <3> QED BY <2>2, <3>1 DEF LinkOK, FrameOK, UsePcs
  <2>3. CASE k # i
    <3>1. i # 1
      BY StackShape
    <3>2. k \in 3 .. n
      BY <1>1, <2>1, <2>3, <3>1
    <3> QED BY <2>1, <3>2, Creators
  <2> QED BY <2>2, <2>3
<1>3. C \in SUBSET Statics /\ C # {}
  <2>1. i \in i .. j - 1
    BY <1>1
  <2> QED BY <1>2, <2>1
<1>4. PICK s \in C : Uses(Creator[s]) \cap C = {}
  BY <1>3, ScriptsAssumption
<1>5. PICK k \in i .. j - 1 : s = stack[t][k].s
  OBVIOUS
<1>6. stack[t][k + 1].s \in C
  <2>1. CASE k + 1 = j
    <3>1. i \in i .. j - 1
      BY <1>1
    <3> QED BY <2>1, <3>1
  <2>2. CASE k + 1 # j
    <3>1. k + 1 \in i .. j - 1
      BY <1>1, <2>2
    <3> QED BY <3>1
  <2> QED BY <2>1, <2>2
<1>7. stack[t][k + 1].s \in Uses(Creator[s])
  BY <1>2, <1>5
<1> QED BY <1>4, <1>6, <1>7

\* A static is destroyed by llvm_shutdown, in isolation.
LEMMA DestroyedBy ==
  ASSUME TypeOK, Stacks, Modes, NEW s, Somewhere(s, "deleter")
  PROVE  \E v \in Threads : /\ Isolated(v) /\ Len(stack[v]) >= 2 /\ stack[v][1].pc = "shutdown"
                            /\ stack[v][2].pc = "deleter" /\ stack[v][2].s = s
<1>1. PICK v \in Threads : \E i \in 1 .. Len(stack[v]) : stack[v][i].pc = "deleter" /\ stack[v][i].s = s
  BY SomewhereIs
<1>2. PICK i \in 1 .. Len(stack[v]) : stack[v][i].pc = "deleter" /\ stack[v][i].s = s
  BY <1>1
<1>3. i = 2 /\ stack[v][1].pc = "shutdown" /\ Len(stack[v]) \in Nat
  BY <1>2, StackShape, StackTypes
<1>4. 1 \in 1 .. Len(stack[v]) /\ Len(stack[v]) >= 2
  BY <1>3
<1> QED BY <1>2, <1>3, <1>4 DEF Modes
\* What a constructor has got is on the list, unless it is immortal: nobody
\* puts it there just now, and nobody destroys it.
LEMMA GotIsListed ==
  ASSUME StaticsInv, NEW t \in Threads, At(t, "deref"),
         stack[t][Len(stack[t]) - 1].pc = "creator"
  PROVE  Top(t).s \in Immortal \/ Listed(Top(t).s)
<1> USE DEF StaticsInv
<1> DEFINE n == Len(stack[t])
           u == Top(t).s
<1>1. /\ n \in Nat /\ n > 1 /\ u \in Statics /\ Top(t) = stack[t][n] /\ stack[t][n].pc = "deref"
      /\ stack[t][n - 1].pc = "creator" /\ n - 1 \in 1 .. n /\ n \in 1 .. n
  BY DerefCaller, AtTop
<1>2. Ptr[u] # 0
  BY <1>1 DEF Pointers, FramePtr
<1>3. ~Somewhere(u, "link")
  <2> SUFFICES ASSUME NEW v \in Threads, NEW j \in 1 .. Len(stack[v]), stack[v][j].pc = "link"
               PROVE  FALSE
    BY SomewhereIs
  <2>1. v = t
    BY <1>1, OneMaker
  <2>2. ~(j < n)
    BY <2>1, StackShape
  <2>3. j = n
    BY <1>1, <2>1, <2>2
  <2> QED BY <1>1, <2>1, <2>3
<1>4. ~Somewhere(u, "deleter")
  <2> SUFFICES ASSUME NEW v \in Threads, Isolated(v), Len(stack[v]) >= 2, stack[v][1].pc = "shutdown",
                      stack[v][2].pc = "deleter", stack[v][2].s = u
               PROVE  FALSE
    BY DestroyedBy
  <2>1. t = v
    <3>1. stack[t] # <<>>
      BY <1>1, StackTypes
    <3> QED BY <3>1 DEF Isolated
  <2>2. n \in 4 .. n
    <3>1. n # 2 /\ n - 1 # 2
      BY <1>1, <2>1
    <3>2. n - 1 # 1
      BY <1>1, <2>1
    <3>3. \A m \in Nat : m > 1 /\ m # 2 /\ m - 1 # 2 => m \in 4 .. m
      OBVIOUS
    <3> HIDE DEF n
    <3> QED BY <1>1, <3>1, <3>3
  <2>3. stack[t][n].s # stack[t][2].s
    BY <2>1, <2>2, AboveDeleter
  <2> QED BY <1>1, <2>1, <2>3
<1> QED BY <1>1, <1>2, <1>3, <1>4 DEF Listed

LEMMA DerefKeeps ==
  ASSUME StaticsInv, NEW t \in Threads, Deref(t)
  PROVE  StaticsInv'
<1> USE DEF StaticsInv
<1> DEFINE n == Len(stack[t]) - 1
           h == stack[t][n]
           u == Top(t).s
           o == <<u, Ptr[u]>>
           f == [h EXCEPT !.got = h.got \cup {o}]
<1>1. At(t, "deref") /\ UNCHANGED <<mutex, list, heap, mode>>
  BY DEF Deref
<1>2. /\ n \in 1 .. Len(stack[t]) /\ n \in Nat /\ n < Len(stack[t]) /\ h \in Frames /\ u \in Statics
      /\ Len(stack[t]) = n + 1 /\ Top(t) = stack[t][n + 1] /\ n + 1 \in 1 .. Len(stack[t])
      /\ Top(t).pc = "deref" /\ stack[t] # <<>>
  BY <1>1, DerefCaller, AtTop
<1>3. Turn(t, n - 1, <<f>>)
  <2>1. n - 1 = Len(stack[t]) - 2 /\ Len(stack[t]) > 1
    BY <1>2
  <2> QED BY <1>2, <2>1, DerefTurns
<1>4. o \in objects /\ Ptr[u] # 0
  BY <1>2 DEF Pointers, FramePtr
<1>5. f \in Frames /\ f.pc = h.pc /\ f.s = h.s /\ f.rest = h.rest /\ f.got = h.got \cup {o}
  <2>1. o \in Statics \X Nat
    BY <1>2 DEF TypeOK
  <2> QED BY <1>2, <2>1, Changes DEF Frames
<1>6. FrameOK(h) /\ h.pc \in {"operation", "shutdown", "creator", "deleter"} /\ LinkOK(h, Top(t))
  BY <1>2, StackShape
<1>7. h.pc \in {"operation", "creator", "deleter"}
  BY <1>2, <1>6 DEF LinkOK
<1>8. h.pc = "creator" => u \in Immortal \/ Listed(u)
  BY <1>1, GotIsListed
<1>9. FramePtr(f, Ptr)
  <2>1. FramePtr(h, Ptr)
    BY <1>2 DEF Pointers
  <2> HIDE DEF f, h
  <2> QED BY <1>5, <2>1 DEF FramePtr
<1>10. LocksReady(<<f>>, 1, Ptr)
  <2>1. LocksReady(stack[t], n, Ptr)
    BY <1>2 DEF Pointers
  <2>2. \A k \in 1 .. Len(h.rest) : h.rest[k].op = "lock" =>
          (\E j \in 1 .. k - 1 : h.rest[j] = Use(h.rest[k].on)) \/ Ptr[h.rest[k].on] # 0
    BY <1>2, <1>4, <2>1 DEF LocksReady
  <2>3. <<f>>[1] = f
    OBVIOUS
  <2> HIDE DEF f, h
  <2> QED BY <1>5, <2>2, <2>3 DEF LocksReady
<1>11. f.pc = "creator" => \A p \in f.got : p \in objects /\ (p[1] \in Immortal \/ Listed(p[1]))
  <2>1. h.pc = "creator" => \A p \in h.got : p \in objects /\ (p[1] \in Immortal \/ Listed(p[1]))
    BY <1>2 DEF Needs
  <2>2. o[1] = u
    OBVIOUS
  <2> HIDE DEF f, h, o
  <2> QED BY <1>4, <1>5, <1>8, <2>1, <2>2
<1>12. Stacks'
  BY DerefKeepsStacks
<1> HIDE DEF f
<1>13. <<f>>[1] = f /\ Len(<<f>>) = 1 /\ 1 \in 1 .. Len(<<f>>) /\ \A i \in 1 .. Len(<<f>>) : i = 1
  OBVIOUS
<1>14. /\ Len(stack'[t]) = n /\ stack'[t][n] = f
       /\ \A i \in 1 .. n - 1 : stack'[t][i] = stack[t][i]
       /\ \A v \in Threads \ {t} : stack'[v] = stack[v]
  <2>1. n - 1 + 1 = n
    BY <1>2
  <2> QED BY <1>3, <1>13, <2>1 DEF Turn
<1>15. Even(t)
  <2>1. ASSUME NEW m \in Statics \cup {GlobalLock}
        PROVE  /\ \A i \in 1 .. Len(stack'[t]) : Owes(stack'[t][i], m) = Owes(stack[t][i], m)
               /\ Owes(stack[t][Len(stack[t])], m) = 0
    <3>1. \A i \in 1 .. n : i = n \/ i \in 1 .. n - 1
      BY <1>2
    <3>2. Owes(f, m) = Owes(h, m)
      BY <1>5 DEF Owes
    <3>3. FrameOK(Top(t))
      BY <1>2, StackShape
    <3>4. Owes(Top(t), m) = 0
      BY <1>2, <3>3, OwesIs DEF FrameOK
    <3> QED BY <1>2, <1>14, <3>1, <3>2, <3>4
  <2>2. Len(stack'[t]) = Len(stack[t]) - 1
    BY <1>2, <1>14
  <2> QED BY <1>2, <2>1, <2>2, PopEven
<1>16. Mutexes' /\ MutexType'
  <2>1. Ptr' = Ptr /\ mutex' = mutex /\ multithreaded_mode' = multithreaded_mode
    BY <1>1 DEF heap, mode
  <2> QED BY <1>14, <1>15, <2>1, SameMutexes
<1>17. /\ \A s \in Statics : ~Drops(t, n - 1, s, "link")
       /\ \A s \in Statics : Drops(t, n - 1, s, "deleter") <=> Brings(<<f>>, s, "deleter")
  <2>1. \A i \in n - 1 + 1 .. Len(stack[t]) : i = n \/ i = n + 1
    BY <1>2
  <2>2. n \in n - 1 + 1 .. Len(stack[t])
    BY <1>2
  <2>3. \A s : Drops(t, n - 1, s, "deleter") <=> h.pc = "deleter" /\ h.s = s
    BY <1>2, <2>1, <2>2 DEF Drops
  <2>4. \A s : ~Drops(t, n - 1, s, "link")
    BY <1>2, <1>7, <2>1 DEF Drops
  <2>5. \A s : Brings(<<f>>, s, "deleter") <=> f.pc = "deleter" /\ f.s = s
    BY <1>13 DEF Brings
  <2> QED BY <1>5, <2>3, <2>4, <2>5
<1>18. \A i \in 1 .. Len(<<f>>) :
           /\ <<f>>[i].pc \notin {"shutdown", "link"}
           /\ <<f>>[i].pc \in {"acquire", "release"} => multithreaded_mode
           /\ <<f>>[i].pc = "creator" => \A p \in <<f>>[i].got :
                p \in objects /\ (p[1] \in Immortal \/ Listed(p[1]))
           /\ FramePtr(<<f>>[i], Ptr) /\ LocksReady(<<f>>, i, Ptr)
  BY <1>5, <1>7, <1>9, <1>10, <1>11, <1>13
<1>19. stack[t][n - 1 + 1].pc \in UsePcs => /\ Len(<<f>>) > 0 /\ <<f>>[1].pc \in UsePcs
                                            /\ <<f>>[1].s = stack[t][n - 1 + 1].s
  <2>1. n - 1 + 1 = n
    BY <1>2
  <2> QED BY <1>5, <1>13, <2>1
<1>20. UNCHANGED <<list, heap, mode>>
  BY <1>1
<1> HIDE DEF n
<1> QED BY <1>2, <1>3, <1>12, <1>16, <1>17, <1>18, <1>19, <1>20, QuietStep
-----------------------------------------------------------------------------
(* Clients                                                                 *)

LEMMA NewStep ==
  ASSUME StaticsInv, NEW t \in Threads, stack[t] = <<>>, NEW f \in Frames, FrameOK(f),
         f.pc \in {"operation", "shutdown"}, stack' = [stack EXCEPT ![t] = <<f>>],
         UNCHANGED <<mutex, list, heap, mode>>, Modes', LocksReady(<<f>>, 1, Ptr),
         \A m \in Statics : Owed(f.rest, m, Len(f.rest)) = 0
  PROVE  StaticsInv'
<1> USE DEF StaticsInv
<1>1. Turn(t, 0, <<f>>)
  <2>1. <<f>> \in Seq(Frames)
    OBVIOUS
  <2> QED BY <2>1, NewTurns
<1>2. Stacks'
  BY <1>1, NewKeepsStacks
<1>3. <<f>>[1] = f /\ Len(<<f>>) = 1 /\ 1 \in 1 .. Len(<<f>>) /\ \A i \in 1 .. Len(<<f>>) : i = 1
  OBVIOUS
<1>4. /\ Len(stack[t]) = 0 /\ Len(stack'[t]) = 1 /\ stack'[t][1] = f
      /\ \A v \in Threads \ {t} : stack'[v] = stack[v]
  <2>1. stack'[t] = <<f>> /\ \A v \in Threads \ {t} : stack'[v] = stack[v]
    BY StackTypes
  <2> QED BY <1>3, <2>1, StackTypes
<1>5. Even(t)
  <2>1. \A m \in Statics \cup {GlobalLock} : Owes(f, m) = 0
    BY OwesIs
  <2>2. \A i \in 1 .. Len(stack[t]) : FALSE
    BY <1>4
  <2>3. Len(stack'[t]) = Len(stack[t]) + 1
    BY <1>4
  <2>4. \A m \in Statics \cup {GlobalLock} : Owes(stack'[t][Len(stack'[t])], m) = 0
    BY <1>4, <2>1
  <2> QED BY <2>2, <2>3, <2>4, PushEven
<1>6. Mutexes' /\ MutexType'
  <2>1. Ptr' = Ptr /\ mutex' = mutex /\ multithreaded_mode' = multithreaded_mode
    BY DEF heap, mode
  <2> QED BY <1>4, <1>5, <2>1, SameMutexes
<1>7. \A s \in Statics, pc \in {"link", "deleter"} : ~Drops(t, 0, s, pc) /\ ~Brings(<<f>>, s, pc)
  <2>1. \A i \in 0 + 1 .. Len(stack[t]) : FALSE
    BY <1>4
  <2> QED BY <1>3, <2>1 DEF Drops, Brings
<1>8. FramePtr(f, Ptr)
  BY DEF FramePtr
<1>9. \A i \in 1 .. Len(<<f>>) :
        /\ <<f>>[i].pc # "link"
        /\ <<f>>[i].pc = "creator" => \A o \in <<f>>[i].got :
             o \in objects /\ (o[1] \in Immortal \/ Listed(o[1]))
        /\ FramePtr(<<f>>[i], Ptr) /\ LocksReady(<<f>>, i, Ptr)
  BY <1>3, <1>8
<1>10. ~(0 > 0) /\ UNCHANGED <<list, heap, mode>>
  OBVIOUS
<1> QED BY <1>1, <1>2, <1>6, <1>7, <1>9, <1>10, SilentStep

LEMMA StartKeeps ==
  ASSUME StaticsInv, NEW t \in Threads, NEW script \in Operations, Start(t, script)
  PROVE  StaticsInv'
<1> USE DEF StaticsInv
<1> DEFINE f == Frame("operation", None, script)
<1>1. /\ stack[t] = <<>> /\ (multithreaded_mode \/ Isolated(t)) /\ stack' = [stack EXCEPT ![t] = <<f>>]
      /\ \A u \in Threads : ~\E i \in DOMAIN stack[u] : stack[u][i].pc = "shutdown"
      /\ UNCHANGED <<mutex, list, heap, mode>>
  BY DEF Start
<1>2. script \in Script /\ WellScoped(script)
  BY Scripts
<1>3. f \in Frames /\ FrameOK(f) /\ f.pc = "operation" /\ f.rest = script
  <2>1. None \in Statics \cup {None} /\ "operation" \in {"operation", "creator", "deleter"}
    OBVIOUS
  <2>2. f \in Frames /\ FrameOK(f)
    BY <1>2, <2>1, ScriptFrameOK
  <2> QED BY <2>2 DEF Frame
<1> HIDE DEF f
<1>4. \A m \in Statics : Owed(f.rest, m, Len(f.rest)) = 0
  BY <1>2, <1>3, ScriptOK
<1>5. LocksReady(<<f>>, 1, Ptr)
  <2>1. <<f>>[1] = f
    OBVIOUS
  <2>2. DOMAIN script = 1 .. Len(script)
    BY <1>2, LenProperties DEF Script
  <2>3. \A k \in 1 .. Len(script) : script[k].op = "lock" =>
          \E j \in 1 .. k - 1 : script[j] = Use(script[k].on)
    BY <1>2, <2>2 DEF WellScoped
  <2> QED BY <1>3, <2>1, <2>3 DEF LocksReady
<1>6. Modes'
  <2>1. multithreaded_mode' = multithreaded_mode /\ shutdowns' = shutdowns
    BY <1>1 DEF mode
  <2>2. stack'[t] = <<f>> /\ \A v \in Threads \ {t} : stack'[v] = stack[v]
    BY <1>1, StackTypes
  <2>3. ~multithreaded_mode => \A v, u \in Threads : v = u \/ stack'[v] = <<>> \/ stack'[u] = <<>>
    BY <1>1, <2>2 DEF Isolated
  <2>4. ASSUME NEW v \in Threads, NEW i \in 1 .. Len(stack'[v])
        PROVE  /\ stack'[v][i].pc # "shutdown"
               /\ stack'[v][i].pc \in {"acquire", "release"} => multithreaded_mode
    <3>1. CASE v = t
      <4>1. \A j \in 1 .. Len(<<f>>) : <<f>>[j] = f
        OBVIOUS
      <4> QED BY <1>3, <2>2, <3>1, <4>1
    <3>2. CASE v # t
      BY <1>1, <2>2, <3>2, StackTypes DEF Modes
    <3> QED BY <3>1, <3>2
  <2> QED BY <2>1, <2>3, <2>4 DEF Modes
<1> QED BY <1>1, <1>3, <1>4, <1>5, <1>6, NewStep

LEMMA ShutdownKeeps ==
  ASSUME StaticsInv, NEW t \in Threads, Shutdown(t)
  PROVE  StaticsInv'
<1> USE DEF StaticsInv
<1> DEFINE f == Frame("shutdown", None, <<>>)
<1>1. /\ stack[t] = <<>> /\ Isolated(t) /\ shutdowns < MaxShutdowns /\ stack' = [stack EXCEPT ![t] = <<f>>]
      /\ UNCHANGED <<mutex, list, heap, mode>>
  BY DEF Shutdown
<1>2. f \in Frames /\ f.pc = "shutdown" /\ f.rest = <<>>
  <2>1. <<>> \in Script /\ "shutdown" \in Pcs /\ None \in Statics \cup {None}
    BY EmptySeq DEF Script, Pcs
  <2> QED BY <2>1, FrameTypes
<1> HIDE DEF f
<1>3. FrameOK(f)
  BY <1>2, PlainOK DEF UsePcs
<1>4. 1 .. Len(<<>>) = {} /\ \A m \in Statics : Owed(<<>>, m, Len(<<>>)) = 0
  BY OwedNothing
<1>5. LocksReady(<<f>>, 1, Ptr)
  <2>1. <<f>>[1] = f
    OBVIOUS
  <2> QED BY <1>2, <1>4, <2>1 DEF LocksReady
<1>6. Modes'
  <2>1. multithreaded_mode' = multithreaded_mode /\ shutdowns' = shutdowns
    BY <1>1 DEF mode
  <2>2. stack'[t] = <<f>> /\ \A v \in Threads \ {t} : stack'[v] = stack[v]
    BY <1>1, StackTypes
  <2>3. \A v \in Threads \ {t} : stack'[v] = <<>>
    BY <1>1, <2>2 DEF Isolated
  <2>4. ASSUME NEW v \in Threads, NEW i \in 1 .. Len(stack'[v])
        PROVE  v = t /\ stack'[v][i] = f
    <3>1. \A j \in 1 .. Len(<<f>>) : <<f>>[j] = f
      OBVIOUS
    <3> QED BY <1>4, <2>2, <2>3, <3>1
  <2>5. Isolated(t)'
    BY <2>3 DEF Isolated
  <2> QED BY <1>1, <1>2, <2>1, <2>3, <2>4, <2>5 DEF Modes
<1> QED BY <1>1, <1>2, <1>3, <1>4, <1>5, <1>6, NewStep

\* All stacks are empty: nothing is owed, and no mutex has been held so far.
LEMMA StartMultithreadedKeeps ==
  ASSUME StaticsInv, NEW t \in Threads, llvm_start_multithreaded(t)
  PROVE  StaticsInv'
<1> USE DEF StaticsInv
<1>1. /\ \A u \in Threads : stack[u] = <<>> /\ Len(stack[u]) = 0
      /\ ~multithreaded_mode /\ multithreaded_mode' = TRUE
      /\ mutex' = mutex /\ Ptr' = Ptr /\ objects' = objects /\ made' = made /\ needs' = needs
      /\ DeleterFn' = DeleterFn /\ NextStatic' = NextStatic /\ StaticList' = StaticList
      /\ shutdowns' = shutdowns /\ stack' = stack
  BY StackTypes DEF llvm_start_multithreaded, Isolated, list, heap
<1>2. TypeOK'
  <2>1. MutexType'
    BY <1>1, MutexTypes DEF MutexType
  <2> QED BY <1>1, <2>1, TypesAre, TypesThen
<1>3. Stacks'
  BY <1>1 DEF Stacks
<1>4. Modes'
  BY <1>1 DEF Modes
<1>5. \A s, pc : Somewhere(s, pc)' <=> Somewhere(s, pc)
  BY <1>1 DEF Somewhere
<1>6. Pointers'
  BY <1>1, <1>5 DEF Pointers
<1>7. Mutexes'
  <2>1. \A m \in Statics \cup {GlobalLock} : mutex[m].owner = Nobody
    BY <1>1 DEF Mutexes
  <2>2. \A u \in Threads : u # Nobody
    BY StaticsAssumption
  <2>3. \A m \in Statics \cup {GlobalLock} : \A u \in Threads :
          Owing(stack'[u], m, IF mutex'[m].owner = u THEN mutex'[m].depth ELSE 0)
    BY <1>1, <2>1, <2>2, OwingNone
  <2> QED BY <1>1, <2>1, <2>3 DEF Mutexes
<1>8. \A s : Listed(s)' <=> Listed(s)
  BY <1>1, <1>5, ListedThen DEF Listed
<1>9. Lists'
  <2>1. UNCHANGED list
    BY <1>1 DEF list
  <2> QED BY <1>1, <1>5, <1>8, <2>1, SameLists
<1>10. Needs'
  BY <1>1, <1>8 DEF Needs, OutlivesItsUsers
<1> QED BY <1>2, <1>3, <1>4, <1>6, <1>7, <1>9, <1>10
-----------------------------------------------------------------------------
(* The constructor is through                                              *)

\* Which frames of thread t put a static on the list or destroy one.
LEMMA TopDrops ==
  ASSUME TypeOK, NEW t \in Threads, stack[t] # <<>>, NEW f, NEW s, NEW pc
  PROVE  /\ Drops(t, Len(stack[t]) - 1, s, pc) <=> Top(t).pc = pc /\ Top(t).s = s
         /\ Brings(<<f>>, s, pc) <=> f.pc = pc /\ f.s = s
<1>1. Len(stack[t]) \in Nat /\ Len(stack[t]) > 0 /\ Top(t) = stack[t][Len(stack[t])]
  BY StackTypes, Tops
<1>2. /\ \A i \in Len(stack[t]) - 1 + 1 .. Len(stack[t]) : i = Len(stack[t])
      /\ Len(stack[t]) \in Len(stack[t]) - 1 + 1 .. Len(stack[t])
  BY <1>1
<1>3. Drops(t, Len(stack[t]) - 1, s, pc) <=> Top(t).pc = pc /\ Top(t).s = s
  BY <1>1, <1>2 DEF Drops
<1>4. <<f>>[1] = f /\ Len(<<f>>) = 1 /\ 1 \in 1 .. Len(<<f>>) /\ \A i \in 1 .. Len(<<f>>) : i = 1
  OBVIOUS
<1>5. Brings(<<f>>, s, pc) <=> f.pc = pc /\ f.s = s
  BY <1>4 DEF Brings
<1> QED BY <1>3, <1>5

\* After another label of operator* the frames are the same but for the top.
LEMMA OtherFrames ==
  ASSUME TypeOK, NEW t \in Threads, stack[t] # <<>>, NEW f, Turn(t, Len(stack[t]) - 1, <<f>>),
         NEW u \in Threads, NEW i \in 1 .. Len(stack'[u])
  PROVE  \/ u = t /\ stack'[u][i] = f
         \/ /\ u # t \/ i <= Len(stack[t]) - 1
            /\ i \in 1 .. Len(stack[u]) /\ stack'[u][i] = stack[u][i]
<1>1. <<f>>[1] = f /\ Len(<<f>>) = 1
  OBVIOUS
<1>2. \A j \in 1 .. Len(<<f>>) : <<f>>[j] = f
  BY <1>1
<1> QED BY <1>2, TurnFrames

LEMMA PublishKeeps ==
  ASSUME StaticsInv, NEW t \in Threads, Publish(t)
  PROVE  StaticsInv'
<1> USE DEF StaticsInv
<1> SUFFICES ASSUME NEW s, s = Top(t).s PROVE StaticsInv'
  OBVIOUS
<1> DEFINE n == Len(stack[t])
           k == made[s] + 1
           pc == IF s \notin Immortal THEN "link" ELSE IF multithreaded_mode THEN "release" ELSE "deref"
           f == [Top(t) EXCEPT !.pc = pc]
<1>1. /\ stack[t] # <<>> /\ Top(t).pc = "creator" /\ Top(t).rest = <<>> /\ Goto(t, pc)
      /\ made' = [made EXCEPT ![s] = k] /\ objects' = objects \cup {<<s, k>>}
      /\ Ptr' = [Ptr EXCEPT ![s] = k] /\ needs' = [needs EXCEPT ![s] = Top(t).got]
      /\ UNCHANGED <<mutex, list, mode>>
  BY AtTop DEF Publish, Finish
<1>2. /\ n \in Nat /\ n > 0 /\ n \in 1 .. n /\ Top(t) = stack[t][n] /\ Top(t) \in Frames
      /\ FrameOK(Top(t)) /\ n - 1 \in Nat
  BY <1>1, StackTypes, Tops, StackShape
<1>3. s \in Statics /\ Ptr[s] = 0 /\ made[s] \in Nat /\ k \in Nat /\ k # 0
  <2>1. s \in Statics /\ made[s] \in Nat
    BY <1>1, <1>2 DEF FrameOK, UsePcs, TypeOK
  <2>2. Ptr[s] = 0
    BY <1>1, <1>2 DEF Pointers, FramePtr
  <2> QED BY <2>1, <2>2
<1>4. /\ pc \in UsePcs /\ pc \in {"link", "release", "deref"} /\ (pc = "link" <=> s \notin Immortal)
      /\ pc = "release" => multithreaded_mode
      /\ multithreaded_mode => pc \in {"link", "release"}
  BY DEF UsePcs
<1>5. Stacks' /\ f \in Frames /\ FrameOK(f) /\ Turn(t, n - 1, <<f>>)
  BY <1>1, <1>4, GotoKeepsStacks DEF UsePcs
<1> HIDE DEF pc
<1>6. f.pc = pc /\ f.s = s /\ f.rest = <<>> /\ f.got = Top(t).got
  BY <1>1, <1>2 DEF Frames
<1>7. /\ multithreaded_mode' = multithreaded_mode /\ shutdowns' = shutdowns /\ mutex' = mutex
      /\ DeleterFn' = DeleterFn /\ NextStatic' = NextStatic /\ StaticList' = StaticList
  BY <1>1 DEF list, mode
<1>8. /\ Ptr'[s] = k /\ \A x \in Statics : x # s => Ptr'[x] = Ptr[x]
      /\ needs'[s] = Top(t).got /\ \A x \in Statics : x # s => needs'[x] = needs[x]
  BY <1>1, <1>3 DEF TypeOK
<1>9. Top(t).got \in SUBSET (Statics \X Nat) /\ needs[s] = {}
  BY <1>2, <1>3, Changes DEF Needs
<1> HIDE DEF f
<1>10. /\ \A x : Drops(t, n - 1, x, "link") <=> FALSE
       /\ \A x : Drops(t, n - 1, x, "deleter") <=> FALSE
       /\ \A x : Brings(<<f>>, x, "link") <=> pc = "link" /\ s = x
       /\ \A x : Brings(<<f>>, x, "deleter") <=> FALSE
  <2>1. \A x : Drops(t, n - 1, x, "link") <=> Top(t).pc = "link" /\ s = x
    BY <1>1, TopDrops
  <2>2. \A x : Drops(t, n - 1, x, "deleter") <=> Top(t).pc = "deleter" /\ s = x
    BY <1>1, TopDrops
  <2>3. \A x : Brings(<<f>>, x, "link") <=> pc = "link" /\ s = x
    BY <1>1, <1>6, TopDrops
  <2>4. \A x : Brings(<<f>>, x, "deleter") <=> pc = "deleter" /\ s = x
    BY <1>1, <1>6, TopDrops
  <2> QED BY <1>1, <1>4, <2>1, <2>2, <2>3, <2>4
<1>11. /\ \A x : Somewhere(x, "link")' <=> Somewhere(x, "link") \/ (pc = "link" /\ s = x)
       /\ \A x : Somewhere(x, "deleter")' <=> Somewhere(x, "deleter")
  BY <1>5, <1>10, TurnSomewhere
<1>12. ~Somewhere(s, "deleter") /\ ~Somewhere(s, "link")
  <2> SUFFICES ASSUME NEW u \in Threads, NEW i \in 1 .. Len(stack[u]),
                      stack[u][i].pc \in {"link", "deleter"}, stack[u][i].s = s
               PROVE  FALSE
    BY SomewhereIs
  <2>1. Ptr[s] # 0
    BY DEF Pointers, FramePtr
  <2> QED BY <1>3, <2>1
<1>13. ~Listed(s) /\ ~Listed(s)' /\ \A x \in Statics : Listed(x)' <=> Listed(x)
  <2>1. ~Listed(s)
    BY <1>3 DEF Listed
  <2>2. ~Listed(s)'
    BY <1>4, <1>11, ListedThen
  <2>3. ASSUME NEW x \in Statics, x # s PROVE Listed(x)' <=> Listed(x)
    BY <2>3, <1>8, <1>11, ListedThen DEF Listed
  <2> QED BY <2>1, <2>2, <2>3
<1>14. TypeOK'
  <2>1. MutexType'
    BY <1>7, MutexTypes DEF MutexType
  <2>2. /\ Ptr' \in [Statics -> Nat] /\ made' \in [Statics -> Nat]
        /\ objects' \subseteq Statics \X Nat
        /\ needs' \in [Statics -> SUBSET (Statics \X Nat)]
    BY <1>1, <1>3, <1>9 DEF TypeOK
  <2>3. stack' \in [Threads -> Seq(Frames)]
    BY <1>5 DEF Turn
  <2>4. /\ multithreaded_mode' \in BOOLEAN /\ shutdowns' \in 0 .. MaxShutdowns
        /\ DeleterFn' \in [Statics -> BOOLEAN] /\ NextStatic' \in [Statics -> Statics \cup {None}]
        /\ StaticList' \in Statics \cup {None}
    BY <1>7, TypesAre
  <2> QED BY <2>1, <2>2, <2>3, <2>4, TypesThen
<1>15. Modes'
  <2>1. \A i \in 1 .. Len(<<f>>) : /\ <<f>>[i].pc # "shutdown"
                                   /\ <<f>>[i].pc \in {"acquire", "release"} => multithreaded_mode
    BY <1>4, <1>5, <1>6, OneMoves
  <2>2. UNCHANGED mode
    BY <1>1
  <2> QED BY <1>1, <1>5, <2>1, <2>2, TurnKeepsModes
<1>16. Mutexes' /\ MutexType'
  <2>1. multithreaded_mode => Even(t)
    <3> SUFFICES ASSUME multithreaded_mode PROVE Even(t)
      OBVIOUS
    <3>1. f.pc \in {"creator", "link", "release"}
      BY <1>4, <1>6
    <3>2. \A m \in Statics \cup {GlobalLock} : Owes(f, m) = Owes(Top(t), m)
      BY <1>1, <1>6, <3>1 DEF Owes
    <3> QED BY <1>1, <1>5, <3>2, TopEven
  <2>2. \A x \in Statics : Ptr[x] # 0 => Ptr'[x] # 0
    BY <1>3, <1>8
  <2>3. \A u \in Threads \ {t} : stack'[u] = stack[u]
    BY <1>5 DEF Turn
  <2> QED BY <1>7, <2>1, <2>2, <2>3, SameMutexes
\* The other constructors under way are for other statics.
<1>17. ASSUME NEW u \in Threads, NEW i \in 1 .. Len(stack[u]), stack[u][i].pc = "creator",
              u # t \/ i <= n - 1
       PROVE  u = t /\ stack[u][i].s # s /\ Ptr'[stack[u][i].s] = 0
  <2>1. u = t
    BY <1>1, <1>2, <1>17, OneMaker
  <2>2. i < n
    BY <1>2, <1>17, <2>1
  <2>3. stack[u][i].s # s
    BY <1>2, <1>17, <2>1, <2>2, NoCircle
  <2>4. stack[u][i].s \in Statics /\ Ptr[stack[u][i].s] = 0
    <3>1. FrameOK(stack[u][i])
      BY StackShape
    <3> QED BY <1>17, <3>1 DEF FrameOK, UsePcs, Pointers, FramePtr
  <2> QED BY <1>8, <2>1, <2>3, <2>4
<1>18. objects' = {<<x, Ptr'[x]>> : x \in {x \in Statics : Ptr'[x] # 0}}
  <2>1. objects = {<<x, Ptr[x]>> : x \in {x \in Statics : Ptr[x] # 0}}
    BY DEF Pointers
  <2>2. ASSUME NEW o \in objects'
        PROVE  \E x \in {x \in Statics : Ptr'[x] # 0} : o = <<x, Ptr'[x]>>
    <3>1. CASE o = <<s, k>>
      BY <1>3, <1>8, <3>1
    <3>2. CASE o \in objects
      BY <1>3, <1>8, <2>1, <3>2
    <3> QED BY <1>1, <3>1, <3>2
  <2>3. ASSUME NEW x \in Statics, Ptr'[x] # 0 PROVE <<x, Ptr'[x]>> \in objects'
    BY <1>1, <1>8, <2>1, <2>3
  <2> QED BY <2>2, <2>3
<1>19. Pointers'
  <2>1. \A x \in Statics : Ptr[x] # 0 => Ptr'[x] # 0
    BY <1>3, <1>8
  <2>2. \A x \in Statics : ~(Somewhere(x, "link")' /\ Somewhere(x, "deleter")')
    BY <1>11, <1>12 DEF Pointers
  <2>3. \A i \in 1 .. Len(<<f>>) : FramePtr(<<f>>[i], Ptr') /\ LocksReady(<<f>>, i, Ptr')
    <3>1. FramePtr(f, Ptr')
      BY <1>3, <1>4, <1>6, <1>8 DEF FramePtr
    <3>2. 1 .. Len(f.rest) = {}
      BY <1>6
    <3>3. \A i \in 1 .. Len(<<f>>) : <<f>>[i] = f
      BY <1>5, OneMoves
    <3> QED BY <3>1, <3>2, <3>3 DEF LocksReady
  <2>4. Len(<<f>>) > 0 /\ <<f>>[1].pc \in UsePcs /\ <<f>>[1].s = stack[t][n - 1 + 1].s
    <3>1. n - 1 + 1 = n /\ Len(<<f>>) = 1 /\ <<f>>[1] = f
      BY <1>2
    <3> QED BY <1>2, <1>4, <1>6, <3>1
  <2>5. \A u \in Threads : \A i \in 1 .. Len(stack[u]) :
          (u # t \/ i <= n - 1) /\ stack[u][i].pc = "creator" => Ptr'[stack[u][i].s] = 0
    BY <1>17
  <2>6. \A u \in Threads : \A i \in 1 .. Len(stack[u]) : FrameOK(stack[u][i])
    BY AllFramesOK
  <2> DEFINE m == n - 1
             above == <<f>>
  <2>7. Turn(t, m, above)
    BY <1>5
  <2>8. m > 0 /\ m < Len(stack[t]) /\ stack[t][m + 1].pc \in UsePcs =>
           \/ Ptr'[stack[t][m + 1].s] # 0
           \/ Len(above) > 0 /\ above[1].pc \in UsePcs /\ above[1].s = stack[t][m + 1].s
    BY <2>4
  <2>9. \A i \in 1 .. Len(above) : FramePtr(above[i], Ptr') /\ LocksReady(above, i, Ptr')
    BY <2>3
  <2>10. \A u \in Threads : \A i \in 1 .. Len(stack[u]) :
          (u # t \/ i <= m) /\ stack[u][i].pc = "creator" => Ptr'[stack[u][i].s] = 0
    BY <2>5
  <2> HIDE DEF n, m, above
  <2>11. TypeOK /\ Pointers
    OBVIOUS
  <2> QED BY ONLY <2>11, <1>18, <2>1, <2>2, <2>6, <2>7, <2>8, <2>9, <2>10, TurnKeepsPointers
<1>20. Lists'
  <2>1. PICK order \in Seq(Statics) : IsList(order)
    BY DEF Lists
  <2>2. \A i \in 1 .. Len(order) : order[i] \in Statics /\ order[i] # s
    <3>1. \A i \in 1 .. Len(order) : order[i] \in Statics
      BY ElementOfSeq
    <3> QED BY <1>13, <2>1, <3>1 DEF IsList
  <2>3. \A i \in 1 .. Len(order) : needs'[order[i]] = needs[order[i]]
    BY <1>8, <2>2
  <2>4. IsList(order)'
    BY <1>7, <1>13, <2>1, <2>3 DEF IsList
  <2>5. \A x \in Statics : DeleterFn'[x] => Listed(x)' \/ Somewhere(x, "deleter")'
    BY <1>7, <1>11, <1>13 DEF Lists
  <2> QED BY <2>4, <2>5 DEF Lists
<1>21. Needs'
  <2>1. \A x \in Statics : Ptr'[x] = 0 => needs'[x] = {}
    BY <1>3, <1>8 DEF Needs
  <2>2. \A o \in Statics \X Nat : o[1] \in Immortal \/ Listed(o[1]) => o[1] \in Immortal \/ Listed(o[1])'
    BY <1>13
  <2>3. \A o \in Top(t).got : o \in objects /\ (o[1] \in Immortal \/ Listed(o[1]))
    BY <1>1, <1>2 DEF Needs
  <2>4. OutlivesItsUsers'
    <3>1. \A x \in Statics \ Immortal : needs[x] \subseteq objects
      BY DEF Needs, OutlivesItsUsers
    <3>2. \A x \in Statics \ Immortal : needs'[x] \subseteq objects'
      BY <1>1, <1>8, <2>3, <3>1
    <3> QED BY <3>2 DEF OutlivesItsUsers
  <2>5. ASSUME NEW u \in Threads, NEW i \in 1 .. Len(stack'[u])
        PROVE  /\ stack'[u][i].pc = "creator" => \A o \in stack'[u][i].got :
                    o \in objects' /\ (o[1] \in Immortal \/ Listed(o[1])')
               /\ stack'[u][i].pc = "link" => \A o \in needs'[stack'[u][i].s] :
                    o[1] \in Immortal \/ Listed(o[1])'
    <3>1. CASE u = t /\ stack'[u][i] = f
      <4>1. \A o \in needs'[f.s] : o[1] \in Immortal \/ Listed(o[1])'
        BY <1>6, <1>8, <1>9, <2>2, <2>3
      <4> QED BY <1>4, <1>6, <3>1, <4>1
    <3>2. CASE i \in 1 .. Len(stack[u]) /\ stack'[u][i] = stack[u][i]
      <4> DEFINE g == stack[u][i]
      <4>1. g \in Frames /\ FrameOK(g) /\ g.got \in SUBSET (Statics \X Nat)
        BY <3>2, StackShape, Changes
      <4>2. g.pc = "creator" => \A o \in g.got : o \in objects /\ (o[1] \in Immortal \/ Listed(o[1]))
        BY <3>2 DEF Needs
      <4>3. g.pc = "link" => \A o \in needs[g.s] : o[1] \in Immortal \/ Listed(o[1])
        BY <3>2 DEF Needs
      <4>4. g.pc = "link" => g.s \in Statics /\ needs'[g.s] = needs[g.s] /\ needs[g.s] \in SUBSET (Statics \X Nat)
        <5> SUFFICES ASSUME g.pc = "link" PROVE g.s \in Statics /\ needs'[g.s] = needs[g.s]
                                                 /\ needs[g.s] \in SUBSET (Statics \X Nat)
          OBVIOUS
        <5>1. g.s \in Statics /\ g.s # s
          BY <1>12, <3>2, <4>1, SomewhereIs DEF FrameOK, UsePcs
        <5> QED BY <1>8, <5>1 DEF TypeOK
      <4> HIDE DEF g
      <4>5. g.pc = "creator" => \A o \in g.got : o \in objects' /\ (o[1] \in Immortal \/ Listed(o[1])')
        BY <1>1, <2>2, <4>1, <4>2
      <4>6. g.pc = "link" => \A o \in needs'[g.s] : o[1] \in Immortal \/ Listed(o[1])'
        BY <2>2, <4>3, <4>4
      <4>7. stack'[u][i] = g
        BY <3>2 DEF g
      <4> QED BY <4>5, <4>6, <4>7
    <3> QED BY <1>1, <1>5, <3>1, <3>2, OtherFrames
  <2> QED BY <2>1, <2>4, <2>5 DEF Needs
<1> QED BY <1>5, <1>14, <1>15, <1>16, <1>19, <1>20, <1>21
-----------------------------------------------------------------------------
(* The list                                                                *)

\* A static is put in front.
LEMMA Prepended ==
  ASSUME NEW s \in Statics, NEW order \in Seq(Statics)
  PROVE  LET longer == <<s>> \o order
         IN  /\ longer \in Seq(Statics) /\ Len(longer) = Len(order) + 1 /\ Len(order) \in Nat
             /\ longer[1] = s /\ \A i \in 1 .. Len(order) : longer[i + 1] = order[i]
             /\ longer # <<>>
<1> DEFINE longer == <<s>> \o order
<1>1. <<s>> \in Seq(Statics) /\ Len(<<s>>) = 1 /\ <<s>>[1] = s /\ Len(order) \in Nat
  BY LenProperties
<1>2. /\ longer \in Seq(Statics) /\ Len(longer) = 1 + Len(order)
      /\ \A i \in 1 .. 1 + Len(order) :
           longer[i] = IF i <= 1 THEN <<s>>[i] ELSE order[i - 1]
  BY <1>1, ConcatProperties
<1> HIDE DEF longer
<1>3. longer[1] = s
  BY <1>1, <1>2
<1>4. ASSUME NEW i \in 1 .. Len(order) PROVE longer[i + 1] = order[i]
  <2>1. i + 1 \in 1 .. 1 + Len(order) /\ ~(i + 1 <= 1) /\ i + 1 - 1 = i
    BY <1>1
  <2> QED BY <1>2, <2>1
<1>5. longer # <<>>
  BY <1>1, <1>2, EmptySeq
<1> QED BY <1>1, <1>2, <1>3, <1>4, <1>5 DEF longer

LEMMA LinkKeepsList ==
  ASSUME TypeOK, NEW order \in Seq(Statics), IsList(order), NEW s \in Statics, ~Listed(s),
         NextStatic' = [NextStatic EXCEPT ![s] = StaticList], StaticList' = s, needs' = needs,
         \A x \in Statics : Listed(x)' <=> Listed(x) \/ x = s,
         \A o \in needs[s] : o[1] \in Immortal \/ Listed(o[1]),
         NEW longer, longer = <<s>> \o order
  PROVE  IsList(longer)'
<1> DEFINE m == Len(order)
<1>1. /\ longer \in Seq(Statics) /\ Len(longer) = m + 1 /\ m \in Nat
      /\ longer[1] = s /\ (\A i \in 1 .. m : longer[i + 1] = order[i]) /\ longer # <<>>
  BY Prepended
<1>2. \A i \in 1 .. m : order[i] \in Statics
  BY ElementOfSeq
<1>3. \A i \in 1 .. m : order[i] # s
  BY <1>2 DEF IsList
<1>4. \A i \in 1 .. m + 1 : i = 1 \/ (i - 1 \in 1 .. m /\ i - 1 + 1 = i)
  BY <1>1
<1>5. \A i \in 2 .. m + 1 : longer[i] = order[i - 1]
  <2>1. \A i \in 2 .. m + 1 : i - 1 \in 1 .. m /\ i - 1 + 1 = i
    BY <1>1
  <2> QED BY <1>1, <2>1
<1>6. ASSUME NEW i \in 1 .. m + 1, NEW j \in 1 .. m + 1, longer[i] = longer[j] PROVE i = j
  <2>1. CASE i = 1
    BY <1>1, <1>3, <1>4, <1>6, <2>1
  <2>2. CASE j = 1
    BY <1>1, <1>3, <1>4, <1>6, <2>2
  <2>3. CASE i # 1 /\ j # 1
    <3>1. i - 1 \in 1 .. m /\ j - 1 \in 1 .. m /\ order[i - 1] = order[j - 1]
      BY <1>1, <1>4, <1>6, <2>3
    <3>2. i - 1 = j - 1
      BY <3>1 DEF IsList
    <3> QED BY <3>2
  <2> QED BY <2>1, <2>2, <2>3
<1>7. ASSUME NEW i \in 1 .. m + 1
      PROVE  NextStatic'[longer[i]] = IF i < m + 1 THEN longer[i + 1] ELSE None
  <2>1. CASE i = 1
    <3>1. NextStatic'[s] = StaticList
      BY DEF TypeOK
    <3>2. CASE m = 0
      <4>1. order = <<>>
        BY <3>2, EmptySeq
      <4> QED BY <1>1, <2>1, <3>1, <3>2, <4>1 DEF IsList
    <3>3. CASE m # 0
      <4>1. order # <<>> /\ 1 \in 1 .. m /\ 1 < m + 1
        BY <1>1, <3>3, EmptySeq
      <4>2. longer[1 + 1] = order[1]
        BY <1>1, <4>1
      <4> QED BY <1>1, <2>1, <3>1, <4>1, <4>2 DEF IsList
    <3> QED BY <3>2, <3>3
  <2>2. CASE i # 1
    <3>1. i - 1 \in 1 .. m /\ longer[i] = order[i - 1]
      BY <1>1, <1>4, <2>2
    <3>2. NextStatic'[order[i - 1]] = NextStatic[order[i - 1]]
      BY <1>2, <1>3, <3>1 DEF TypeOK
    <3>3. NextStatic[order[i - 1]] = IF i - 1 < m THEN order[i - 1 + 1] ELSE None
      BY <3>1 DEF IsList
    <3>4. i - 1 < m => i < m + 1 /\ i \in 1 .. m /\ i - 1 + 1 = i
      BY <1>1
    <3>5. ~(i - 1 < m) => ~(i < m + 1)
      BY <1>1
    <3> QED BY <1>1, <3>1, <3>2, <3>3, <3>4, <3>5
  <2> QED BY <2>1, <2>2
<1>8. ASSUME NEW x \in Statics PROVE Listed(x)' <=> \E i \in 1 .. m + 1 : longer[i] = x
  <2>1. Listed(x) <=> \E i \in 1 .. m : order[i] = x
    BY DEF IsList
  <2>2. (\E i \in 1 .. m : order[i] = x) => \E i \in 1 .. m + 1 : longer[i] = x
    <3>1. \A i \in 1 .. m : i + 1 \in 1 .. m + 1
      BY <1>1
    <3> QED BY <1>1, <3>1
  <2>3. 1 \in 1 .. m + 1
    BY <1>1
  <2>4. (\E i \in 1 .. m + 1 : longer[i] = x) => x = s \/ \E i \in 1 .. m : order[i] = x
    <3> SUFFICES ASSUME NEW i \in 1 .. m + 1, longer[i] = x, x # s
                 PROVE  \E j \in 1 .. m : order[j] = x
      OBVIOUS
    <3>1. i # 1
      BY <1>1
    <3>2. i - 1 \in 1 .. m /\ i \in 2 .. m + 1
      BY <1>1, <1>4, <3>1
    <3>3. order[i - 1] = x
      BY <1>5, <3>2
    <3> QED BY <3>2, <3>3
  <2> QED BY <1>1, <2>1, <2>2, <2>3, <2>4
<1>9. ASSUME NEW i \in 1 .. m + 1, NEW o \in needs'[longer[i]]
      PROVE  o[1] \in Immortal \/ \E j \in i + 1 .. m + 1 : longer[j] = o[1]
  <2>1. needs' = needs
    OBVIOUS
  <2>2. CASE i = 1
    <3>1. o \in needs[s] /\ o \in Statics \X Nat
      BY <1>1, <1>9, <2>2 DEF TypeOK
    <3>2. o[1] \in Immortal \/ \E j \in 1 .. m : order[j] = o[1]
      BY <3>1 DEF IsList
    <3>3. \A j \in 1 .. m : j + 1 \in i + 1 .. m + 1
      BY <1>1, <2>2
    <3> QED BY <1>1, <3>2, <3>3
  <2>3. CASE i # 1
    <3>1. i - 1 \in 1 .. m /\ longer[i] = order[i - 1] /\ i - 1 + 1 = i
      BY <1>1, <1>4, <2>3
    <3>2. o[1] \in Immortal \/ \E j \in i - 1 + 1 .. m : order[j] = o[1]
      BY <1>9, <2>1, <3>1 DEF IsList
    <3>3. \A j \in i .. m : j + 1 \in i + 1 .. m + 1 /\ j \in 1 .. m
      BY <1>1
    <3> QED BY <1>1, <3>1, <3>2, <3>3
  <2> QED BY <2>2, <2>3
<1>10. StaticList' = IF longer = <<>> THEN None ELSE longer[1]
  BY <1>1
<1>11. \A i, j \in 1 .. Len(longer) : longer[i] = longer[j] => i = j
  BY <1>1, <1>6
<1>12. \A i \in 1 .. Len(longer) :
         NextStatic'[longer[i]] = IF i < Len(longer) THEN longer[i + 1] ELSE None
  BY <1>1, <1>7
<1>13. \A x \in Statics : Listed(x)' <=> \E i \in 1 .. Len(longer) : longer[i] = x
  BY <1>1, <1>8
<1>14. \A i \in 1 .. Len(longer) : \A o \in needs'[longer[i]] :
         o[1] \in Immortal \/ \E j \in i + 1 .. Len(longer) : longer[j] = o[1]
  BY <1>1, <1>9
<1> QED BY ONLY <1>1, <1>10, <1>11, <1>12, <1>13, <1>14 DEF IsList
LEMMA LinkKeeps ==
  ASSUME StaticsInv, NEW t \in Threads, Link(t), NEW s, s = Top(t).s
  PROVE  /\ StaticsInv'
         /\ ~Listed(s) /\ s \in Statics \ Immortal
         /\ \A order \in Seq(Statics) : \A longer :
              IsList(order) /\ longer = <<s>> \o order => IsList(longer)'
<1> USE DEF StaticsInv
<1> DEFINE n == Len(stack[t])
           pc == IF multithreaded_mode THEN "release" ELSE "deref"
           f == [Top(t) EXCEPT !.pc = pc]
<1>1. /\ stack[t] # <<>> /\ Top(t).pc = "link" /\ Goto(t, pc)
      /\ DeleterFn' = [DeleterFn EXCEPT ![s] = TRUE]
      /\ NextStatic' = [NextStatic EXCEPT ![s] = StaticList] /\ StaticList' = s
      /\ UNCHANGED <<mutex, heap, mode>>
  BY AtTop DEF Link, Finish
<1>2. /\ n \in Nat /\ n > 0 /\ n \in 1 .. n /\ Top(t) = stack[t][n] /\ Top(t) \in Frames
      /\ FrameOK(Top(t)) /\ n - 1 \in Nat
  BY <1>1, StackTypes, Tops, StackShape
<1>3. s \in Statics \ Immortal /\ Ptr[s] # 0 /\ Top(t).rest = <<>> /\ Somewhere(s, "link")
  <2>1. s \in Statics \ Immortal /\ Top(t).rest = <<>>
    BY <1>1, <1>2 DEF FrameOK, UsePcs
  <2>2. Ptr[s] # 0
    BY <1>1, <1>2 DEF Pointers, FramePtr
  <2> QED BY <1>1, <1>2, <2>1, <2>2, SomewhereIs
<1>4. ~Listed(s) /\ ~Somewhere(s, "deleter")
  BY <1>3 DEF Listed, Pointers
<1>5. /\ pc \in UsePcs /\ pc \in {"release", "deref"} /\ pc \notin {"link", "deleter", "creator", "shutdown"}
      /\ pc = "release" => multithreaded_mode
      /\ multithreaded_mode => pc = "release"
  BY DEF UsePcs
<1> HIDE DEF pc
<1>6. Stacks' /\ f \in Frames /\ FrameOK(f) /\ Turn(t, n - 1, <<f>>)
  BY <1>1, <1>3, <1>5, GotoKeepsStacks DEF UsePcs
<1>7. f.pc = pc /\ f.s = s /\ f.rest = <<>>
  BY <1>2, <1>3 DEF Frames
<1>8. /\ multithreaded_mode' = multithreaded_mode /\ shutdowns' = shutdowns /\ mutex' = mutex
      /\ Ptr' = Ptr /\ objects' = objects /\ needs' = needs /\ made' = made
  BY <1>1 DEF heap, mode
<1> HIDE DEF f
\* This was the only static that was about to be on the list.
<1>9. \A x : ~Somewhere(x, "link")'
  <2>1. stack' \in [Threads -> Seq(Frames)]
    BY <1>6 DEF Turn
  <2> SUFFICES ASSUME NEW u \in Threads, NEW i \in 1 .. Len(stack'[u]), stack'[u][i].pc = "link"
               PROVE  FALSE
    BY <2>1, SomewhereThen
  <2>2. stack'[u][i] # f
    BY <1>5, <1>7
  <2>3. (u # t \/ i <= n - 1) /\ i \in 1 .. Len(stack[u]) /\ stack[u][i].pc = "link"
    BY <1>1, <1>6, <2>2, OtherFrames
  <2>4. u = t
    BY <1>1, <1>2, <2>3, OneMaker
  <2>5. i < n
    BY <1>2, <2>3, <2>4
  <2> QED BY <2>3, <2>4, <2>5, StackShape
<1>10. \A x : Somewhere(x, "link") => x = s
  <2> SUFFICES ASSUME NEW x, Somewhere(x, "link"), x # s PROVE FALSE
    OBVIOUS
  <2>1. ~Drops(t, n - 1, x, "link")
    BY <1>1, TopDrops
  <2>2. Somewhere(x, "link")'
    BY <1>6, <2>1, TurnSomewhere
  <2> QED BY <1>9, <2>2
<1>11. \A x : Somewhere(x, "deleter")' <=> Somewhere(x, "deleter")
  <2>1. \A x : ~Drops(t, n - 1, x, "deleter")
    BY <1>1, TopDrops
  <2>2. \A x : ~Brings(<<f>>, x, "deleter")
    BY <1>1, <1>5, <1>7, TopDrops
  <2> QED BY <1>6, <2>1, <2>2, TurnSomewhere
<1>12. \A x \in Statics : Listed(x)' <=> Listed(x) \/ x = s
  <2> SUFFICES ASSUME NEW x \in Statics PROVE Listed(x)' <=> Listed(x) \/ x = s
    OBVIOUS
  <2>1. Listed(x)' <=> x \in Statics \ Immortal /\ Ptr[x] # 0 /\ ~Somewhere(x, "deleter")
    BY <1>8, <1>9, <1>11, ListedThen
  <2>2. Listed(x) <=> x \in Statics \ Immortal /\ Ptr[x] # 0 /\ ~Somewhere(x, "link") /\ ~Somewhere(x, "deleter")
    BY DEF Listed
  <2> QED BY <1>3, <1>4, <1>10, <2>1, <2>2
<1>13. TypeOK'
  <2>1. MutexType'
    BY <1>8, MutexTypes DEF MutexType
  <2>2. /\ DeleterFn' \in [Statics -> BOOLEAN] /\ NextStatic' \in [Statics -> Statics \cup {None}]
        /\ StaticList' \in Statics \cup {None}
    BY <1>1, <1>3 DEF TypeOK
  <2>3. stack' \in [Threads -> Seq(Frames)]
    BY <1>6 DEF Turn
  <2>4. /\ multithreaded_mode' \in BOOLEAN /\ shutdowns' \in 0 .. MaxShutdowns
        /\ Ptr' \in [Statics -> Nat] /\ made' \in [Statics -> Nat]
        /\ objects' \subseteq Statics \X Nat /\ needs' \in [Statics -> SUBSET (Statics \X Nat)]
    BY <1>8, TypesAre
  <2> QED BY <2>1, <2>2, <2>3, <2>4, TypesThen
<1>14. \A i \in 1 .. Len(<<f>>) : <<f>>[i] = f
  BY <1>6, OneMoves
<1>15. Modes'
  <2>1. \A i \in 1 .. Len(<<f>>) : /\ <<f>>[i].pc # "shutdown"
                                   /\ <<f>>[i].pc \in {"acquire", "release"} => multithreaded_mode
    BY <1>5, <1>7, <1>14
  <2>2. UNCHANGED mode
    BY <1>1
  <2> QED BY <1>1, <1>6, <2>1, <2>2, TurnKeepsModes
<1>16. Mutexes' /\ MutexType'
  <2>1. multithreaded_mode => Even(t)
    <3> SUFFICES ASSUME multithreaded_mode PROVE Even(t)
      OBVIOUS
    <3>1. f.pc = "release"
      BY <1>5, <1>7
    <3>2. \A m \in Statics \cup {GlobalLock} : Owes(f, m) = Owes(Top(t), m)
      BY <1>1, <1>3, <1>7, <3>1 DEF Owes
    <3> QED BY <1>1, <1>6, <3>2, TopEven
  <2>2. \A u \in Threads \ {t} : stack'[u] = stack[u]
    BY <1>6 DEF Turn
  <2> QED BY <1>8, <2>1, <2>2, SameMutexes
<1>17. Pointers'
  <2> DEFINE m == n - 1
             above == <<f>>
  <2>1. Turn(t, m, above)
    BY <1>6
  <2>2. \A x \in Statics : ~(Somewhere(x, "link")' /\ Somewhere(x, "deleter")')
    BY <1>9
  <2>3. \A i \in 1 .. Len(above) : FramePtr(above[i], Ptr') /\ LocksReady(above, i, Ptr')
    <3>1. FramePtr(f, Ptr')
      BY <1>3, <1>5, <1>7, <1>8 DEF FramePtr
    <3>2. 1 .. Len(f.rest) = {}
      BY <1>7
    <3> QED BY <1>14, <3>1, <3>2 DEF LocksReady
  <2>4. m > 0 /\ m < Len(stack[t]) /\ stack[t][m + 1].pc \in UsePcs =>
           \/ Ptr'[stack[t][m + 1].s] # 0
           \/ Len(above) > 0 /\ above[1].pc \in UsePcs /\ above[1].s = stack[t][m + 1].s
    <3>1. m + 1 = n
      BY <1>2
    <3> QED BY <1>2, <1>3, <1>8, <3>1
  <2>5. \A u \in Threads : \A i \in 1 .. Len(stack[u]) :
          (u # t \/ i <= m) /\ stack[u][i].pc = "creator" => Ptr'[stack[u][i].s] = 0
    BY <1>8 DEF Pointers, FramePtr
  <2>6. \A u \in Threads : \A i \in 1 .. Len(stack[u]) : FrameOK(stack[u][i])
    BY AllFramesOK
  <2>7. objects' = {<<x, Ptr'[x]>> : x \in {x \in Statics : Ptr'[x] # 0}}
    BY <1>8 DEF Pointers
  <2>8. \A x \in Statics : Ptr[x] # 0 => Ptr'[x] # 0
    BY <1>8
  <2> HIDE DEF n, m, above
  <2>9. TypeOK /\ Pointers
    OBVIOUS
  <2> QED BY ONLY <2>1, <2>2, <2>3, <2>4, <2>5, <2>6, <2>7, <2>8, <2>9, TurnKeepsPointers
<1>18. \A o \in needs[s] : o[1] \in Immortal \/ Listed(o[1])
  BY <1>1, <1>2 DEF Needs
<1>19. \A order \in Seq(Statics) : \A longer :
         IsList(order) /\ longer = <<s>> \o order => IsList(longer)'
  BY <1>1, <1>3, <1>4, <1>8, <1>12, <1>18, LinkKeepsList
<1>20. Lists'
  <2>1. PICK order \in Seq(Statics) : IsList(order)
    BY DEF Lists
  <2>2. <<s>> \o order \in Seq(Statics)
    BY <1>3, Prepended
  <2>3. ASSUME NEW x \in Statics, DeleterFn'[x] PROVE Listed(x)' \/ Somewhere(x, "deleter")'
    <3>1. x # s => DeleterFn[x]
      BY <1>1, <1>3, <2>3 DEF TypeOK
    <3> QED BY <1>11, <1>12, <3>1 DEF Lists
  <2>4. \E longer \in Seq(Statics) : IsList(longer)'
    BY <1>19, <2>1, <2>2
  <2> QED BY <2>3, <2>4 DEF Lists
<1>21. Needs'
  <2>1. \A x \in Statics : Listed(x) => Listed(x)'
    BY <1>12
  <2>2. \A i \in 1 .. Len(<<f>>) :
          /\ <<f>>[i].pc # "link"
          /\ <<f>>[i].pc = "creator" => \A o \in <<f>>[i].got :
               o \in objects /\ (o[1] \in Immortal \/ Listed(o[1]))
    BY <1>5, <1>7, <1>14
  <2>3. UNCHANGED heap
    BY <1>1
  <2> HIDE DEF n
  <2> QED BY <1>6, <2>1, <2>2, <2>3, AllFramesOK, TurnKeepsNeeds
<1> QED BY <1>3, <1>4, <1>6, <1>13, <1>15, <1>16, <1>17, <1>19, <1>20, <1>21
-----------------------------------------------------------------------------
(* llvm_shutdown                                                           *)

\* The list without its first static.
LEMMA UnlinkKeepsList ==
  ASSUME TypeOK, NEW order \in Seq(Statics), IsList(order), NEW s \in Statics, s = StaticList,
         NextStatic' = [NextStatic EXCEPT ![s] = None], StaticList' = NextStatic[s], needs' = needs,
         \A x \in Statics : Listed(x)' <=> Listed(x) /\ x # s,
         NEW shorter, shorter = Tail(order)
  PROVE  /\ shorter \in Seq(Statics) /\ IsList(shorter)'
         /\ order # <<>> /\ order[1] = s
<1> DEFINE m == Len(shorter)
<1>1. order # <<>> /\ order[1] = s
  BY StaticsAssumption DEF IsList
<1>2. /\ shorter \in Seq(Statics) /\ Len(shorter) = Len(order) - 1 /\ Len(order) \in Nat
      /\ Len(order) > 0 /\ \A i \in 1 .. Len(order) - 1 : shorter[i] = order[i + 1]
  BY <1>1, HeadTailProperties, LenProperties, EmptySeq
<1>3. /\ m \in Nat /\ Len(order) = m + 1 /\ \A i \in 1 .. m : shorter[i] = order[i + 1]
      /\ \A i \in 1 .. m : i + 1 \in 1 .. m + 1
  BY <1>2
<1>4. \A i \in 1 .. m + 1 : order[i] \in Statics
  BY <1>3, ElementOfSeq
<1>5. \A i \in 1 .. m : shorter[i] # s /\ shorter[i] \in Statics
  <2>1. 1 \in 1 .. m + 1 /\ \A i \in 1 .. m : i + 1 # 1
    BY <1>3
  <2> QED BY <1>1, <1>3, <1>4, <2>1 DEF IsList
<1>6. ASSUME NEW i \in 1 .. m, NEW j \in 1 .. m, shorter[i] = shorter[j] PROVE i = j
  <2>1. i + 1 = j + 1
    BY <1>3, <1>6 DEF IsList
  <2> QED BY <2>1
<1>7. StaticList' = IF shorter = <<>> THEN None ELSE shorter[1]
  <2>1. 1 \in 1 .. m + 1
    BY <1>3
  <2>2. NextStatic[s] = IF 1 < m + 1 THEN order[1 + 1] ELSE None
    BY <1>1, <1>3, <2>1 DEF IsList
  <2>3. CASE m = 0
    <3>1. shorter = <<>>
      BY <1>2, <2>3, EmptySeq
    <3> QED BY <1>3, <2>2, <2>3, <3>1
  <2>4. CASE m # 0
    <3>1. shorter # <<>>
      BY <2>4, EmptySeq
    <3>2. 1 \in 1 .. m /\ 1 < m + 1
      <4> HIDE DEF m
      <4> QED BY <1>3, <2>4
    <3> QED BY <1>3, <2>2, <3>1, <3>2
  <2> QED BY <2>3, <2>4
<1>8. ASSUME NEW i \in 1 .. m
      PROVE  NextStatic'[shorter[i]] = IF i < m THEN shorter[i + 1] ELSE None
  <2>1. NextStatic'[shorter[i]] = NextStatic[order[i + 1]]
    BY <1>3, <1>5 DEF TypeOK
  <2>2. NextStatic[order[i + 1]] = IF i + 1 < m + 1 THEN order[i + 1 + 1] ELSE None
    BY <1>3 DEF IsList
  <2>3. i < m <=> i + 1 < m + 1
    BY <1>3
  <2>4. i < m => i + 1 \in 1 .. m /\ shorter[i + 1] = order[i + 1 + 1]
    BY <1>3
  <2> QED BY <2>1, <2>2, <2>3, <2>4
<1>9. ASSUME NEW x \in Statics PROVE Listed(x)' <=> \E i \in 1 .. m : shorter[i] = x
  <2>1. Listed(x) <=> \E i \in 1 .. m + 1 : order[i] = x
    BY <1>3 DEF IsList
  <2>2. ASSUME NEW i \in 1 .. m + 1, order[i] = x, x # s PROVE \E j \in 1 .. m : shorter[j] = x
    <3>1. i # 1
      BY <1>1, <2>2
    <3>2. i - 1 \in 1 .. m /\ i - 1 + 1 = i
      BY <1>3, <3>1
    <3> QED BY <1>3, <2>2, <3>2
  <2>3. (\E i \in 1 .. m : shorter[i] = x) => x # s /\ \E i \in 1 .. m + 1 : order[i] = x
    BY <1>3, <1>5
  <2> QED BY <2>1, <2>2, <2>3
<1>10. ASSUME NEW i \in 1 .. m, NEW o \in needs'[shorter[i]]
       PROVE  o[1] \in Immortal \/ \E j \in i + 1 .. m : shorter[j] = o[1]
  <2>1. o[1] \in Immortal \/ \E j \in i + 1 + 1 .. m + 1 : order[j] = o[1]
    BY <1>3, <1>10 DEF IsList
  <2>2. \A j \in i + 1 + 1 .. m + 1 : j - 1 \in i + 1 .. m /\ j - 1 \in 1 .. m /\ j - 1 + 1 = j
    BY <1>3
  <2> SUFFICES ASSUME NEW j \in i + 1 + 1 .. m + 1, order[j] = o[1]
               PROVE  \E l \in i + 1 .. m : shorter[l] = o[1]
    BY <2>1
  <2>3. shorter[j - 1] = order[j]
    BY <1>3, <2>2
  <2> QED BY <2>2, <2>3
<1>11. \A i, j \in 1 .. Len(shorter) : shorter[i] = shorter[j] => i = j
  BY <1>6
<1>12. \A x \in Statics : Listed(x)' <=> \E i \in 1 .. Len(shorter) : shorter[i] = x
  BY <1>9
<1>13. \A i \in 1 .. Len(shorter) : \A o \in needs'[shorter[i]] :
         o[1] \in Immortal \/ \E j \in i + 1 .. Len(shorter) : shorter[j] = o[1]
  BY <1>10
<1>14. \A i \in 1 .. Len(shorter) :
         NextStatic'[shorter[i]] = IF i < Len(shorter) THEN shorter[i + 1] ELSE None
  BY <1>8
<1>15. IsList(shorter)'
  BY ONLY <1>2, <1>7, <1>11, <1>12, <1>13, <1>14 DEF IsList
<1> QED BY <1>1, <1>2, <1>15

\* llvm_shutdown has one frame, or a destructor's on it.
LEMMA ShutdownAlone ==
  ASSUME TypeOK, Stacks, Modes, NEW t \in Threads, stack[t] # <<>>,
         Top(t).pc \in {"shutdown", "deleter"}
  PROVE  /\ Top(t) \in Frames /\ FrameOK(Top(t)) /\ Top(t) = stack[t][Len(stack[t])]
         /\ Len(stack[t]) = IF Top(t).pc = "shutdown" THEN 1 ELSE 2
         /\ \A u \in Threads : \A i \in 1 .. Len(stack[u]) :
              /\ u = t /\ (i = 1 \/ i = 2)
              /\ i = 1 => stack[u][i].pc = "shutdown"
              /\ i = 2 => stack[u][i] = Top(t) /\ Top(t).pc = "deleter"
         /\ 1 \in 1 .. Len(stack[t]) /\ stack[t][1].pc = "shutdown"
         /\ Isolated(t) /\ shutdowns < MaxShutdowns
<1> DEFINE n == Len(stack[t])
<1>1. n \in Nat /\ n \in 1 .. n /\ Top(t) = stack[t][n] /\ Top(t) \in Frames
  BY StackTypes, Tops
<1>2. FrameOK(Top(t)) /\ (Top(t).pc = "shutdown" => n = 1) /\ (Top(t).pc = "deleter" => n = 2)
  BY <1>1, StackShape
<1>3. 1 \in 1 .. n /\ stack[t][1].pc = "shutdown"
  BY <1>1, <1>2, StackShape
<1>4. Isolated(t) /\ shutdowns < MaxShutdowns
  BY <1>3 DEF Modes
<1>5. ASSUME NEW u \in Threads, NEW i \in 1 .. Len(stack[u])
      PROVE  u = t /\ (i = 1 \/ i = 2) /\ (i = 2 => n = 2)
  <2>1. u = t
    BY <1>4, StackTypes DEF Isolated
  <2> QED BY <1>1, <1>2, <2>1
<1>6. n = 2 => Top(t).pc = "deleter"
  BY <1>2
<1> QED BY <1>1, <1>2, <1>3, <1>4, <1>5, <1>6

\* Nobody owes anything, so no mutex is held.
LEMMA AllFree ==
  ASSUME StaticsInv, NEW t \in Threads, stack[t] # <<>>, Top(t).pc \in {"shutdown", "deleter"},
         Top(t).rest = <<>>
  PROVE  \A m \in Statics \cup {GlobalLock} : mutex[m].owner = Nobody
<1> USE DEF StaticsInv
<1>1. CASE ~multithreaded_mode
  BY <1>1 DEF Mutexes
<1>2. CASE multithreaded_mode
  <2> SUFFICES ASSUME NEW m \in Statics \cup {GlobalLock}, NEW u \in Threads, mutex[m].owner = u
               PROVE  FALSE
    BY MutexTypes
  <2>1. Owing(stack[u], m, mutex[m].depth)
    BY <1>2 DEF Mutexes
  <2>2. mutex[m].depth # 0
    BY MutexTypes, StaticsAssumption DEF MutexType
  <2>3. CASE u # t
    <3>1. stack[u] = <<>>
      BY <2>3, ShutdownAlone DEF Isolated
    <3> QED BY <2>1, <2>2, <3>1, OwingNone
  <2>4. CASE u = t
    <3> DEFINE n == Len(stack[t])
    <3>1. \A i \in 1 .. n : stack[t][i].pc \in {"shutdown", "deleter"} /\ stack[t][i].rest = <<>>
      <4> SUFFICES ASSUME NEW i \in 1 .. n
                   PROVE  stack[t][i].pc \in {"shutdown", "deleter"} /\ stack[t][i].rest = <<>>
        OBVIOUS
      <4>1. stack[t][i].pc = "shutdown" \/ stack[t][i] = Top(t)
        BY ShutdownAlone
      <4>2. FrameOK(stack[t][i])
        BY StackShape
      <4> QED BY <4>1, <4>2 DEF FrameOK
    <3>2. \A i \in 1 .. n : Owes(stack[t][i], m) = 0
      BY <3>1, OwesIs
    <3>3. n = 1 \/ n = 2
      BY ShutdownAlone
    <3>4. PICK sum \in [0 .. n -> Nat] :
            /\ sum[0] = 0 /\ sum[n] = mutex[m].depth
            /\ \A i \in 1 .. n : sum[i] = sum[i - 1] + Owes(stack[t][i], m)
      BY <2>1, <2>4 DEF Owing
    <3>5. ASSUME NEW i \in 1 .. n PROVE sum[i] = sum[i - 1]
      <4>1. i - 1 \in 0 .. n
        BY <3>3
      <4>2. sum[i] = sum[i - 1] + 0 /\ sum[i - 1] \in Nat
        BY <3>2, <3>4, <4>1
      <4> QED BY <4>2
    <3>6. 1 \in 1 .. n /\ n \in 1 .. n /\ 1 - 1 = 0 /\ 2 - 1 = 1
      BY <3>3
    <3> HIDE DEF n
    <3>7. sum[1] = 0
      BY <3>4, <3>5, <3>6
    <3>8. sum[n] = 0
      BY <3>3, <3>5, <3>6, <3>7
    <3> QED BY <2>2, <3>4, <3>8
  <2> QED BY <2>3, <2>4
<1> QED BY <1>1, <1>2
\* While llvm_shutdown is between two destructors, or in one, a static is on
\* the list if it has an object and is not being destroyed.
LEMMA ShutdownLists ==
  ASSUME TypeOK, Stacks, Modes, NEW t \in Threads, stack[t] # <<>>, Top(t).pc \in {"shutdown", "deleter"}
  PROVE  /\ \A x : ~Somewhere(x, "link")
         /\ \A x : Somewhere(x, "deleter") <=> Top(t).pc = "deleter" /\ x = Top(t).s
         /\ \A x \in Statics : Listed(x) <=> /\ x \notin Immortal /\ Ptr[x] # 0
                                             /\ ~(Top(t).pc = "deleter" /\ x = Top(t).s)
<1>1. \A x : ~Somewhere(x, "link")
  BY ShutdownAlone, SomewhereIs
<1>2. \A x : Somewhere(x, "deleter") <=> Top(t).pc = "deleter" /\ x = Top(t).s
  <2>1. \A x : Somewhere(x, "deleter") => Top(t).pc = "deleter" /\ x = Top(t).s
    BY ShutdownAlone, SomewhereIs
  <2>2. Top(t).pc = "deleter" => Somewhere(Top(t).s, "deleter")
    <3>1. Len(stack[t]) \in 1 .. Len(stack[t]) /\ Top(t) = stack[t][Len(stack[t])]
      BY StackTypes, Tops
    <3> QED BY <3>1, SomewhereIs
  <2> QED BY <2>1, <2>2
<1> QED BY <1>1, <1>2 DEF Listed

LEMMA DestroyKeeps ==
  ASSUME StaticsInv, NEW t \in Threads, destroy(t), NEW s, s = StaticList
  PROVE  /\ StaticsInv' /\ s \in Statics \ Immortal
         /\ \A order \in Seq(Statics) : \A shorter :
              IsList(order) /\ shorter = Tail(order) =>
                /\ shorter \in Seq(Statics) /\ IsList(shorter)'
                /\ order # <<>> /\ order[1] = s
<1> USE DEF StaticsInv
<1> DEFINE g == Frame("deleter", s, Deleter[s])
<1>1. /\ stack[t] # <<>> /\ Top(t).pc = "shutdown" /\ s # None /\ s \in Statics
      /\ StaticList' = NextStatic[s] /\ NextStatic' = [NextStatic EXCEPT ![s] = None]
      /\ stack' = [stack EXCEPT ![t] = Append(@, g)]
      /\ UNCHANGED <<DeleterFn, mutex, heap, mode>>
  BY AtTop DEF destroy, TypeOK
<1>2. /\ Len(stack[t]) = 1 /\ stack[t][1] = Top(t)
      /\ \A u \in Threads : \A i \in 1 .. Len(stack[u]) : u = t /\ i = 1
      /\ Isolated(t)
  BY <1>1, ShutdownAlone
<1>3. /\ Listed(s) /\ s \notin Immortal /\ Ptr[s] # 0 /\ (\A x : ~Somewhere(x, "link"))
      /\ \A x : ~Somewhere(x, "deleter")
  <2>1. PICK order \in Seq(Statics) : IsList(order)
    BY DEF Lists
  <2>2. order # <<>> /\ order[1] = s /\ Len(order) \in Nat
    BY <1>1, <2>1, LenProperties DEF IsList
  <2>3. 1 \in 1 .. Len(order)
    BY <2>2, EmptySeq
  <2>4. Listed(s)
    BY <1>1, <2>1, <2>2, <2>3 DEF IsList
  <2> QED BY <1>1, <2>4, ShutdownLists DEF Listed
<1>4. Deleter[s] \in Script /\ WellScoped(Deleter[s])
  BY <1>1, Scripts
<1>5. g \in Frames /\ FrameOK(g) /\ g.pc = "deleter" /\ g.s = s /\ g.rest = Deleter[s]
  <2>1. g \in Frames /\ FrameOK(g)
    BY <1>1, <1>3, <1>4, ScriptFrameOK
  <2> QED BY <2>1 DEF Frame
<1> HIDE DEF g
<1>6. Turn(t, 1, <<g>>)
  BY <1>1, <1>2, <1>5, PushTurns
<1>7. <<g>>[1] = g /\ Len(<<g>>) = 1 /\ 1 \in 1 .. Len(<<g>>) /\ \A i \in 1 .. Len(<<g>>) : i = 1
  OBVIOUS
<1>8. Stacks'
  <2>1. \A i \in 1 .. Len(<<g>>) : FrameOK(<<g>>[i])
    BY <1>5, <1>7
  <2>2. LinkOK(stack[t][1], <<g>>[1])
    BY <1>1, <1>2, <1>5, <1>7 DEF LinkOK
  <2>3. \A i \in 2 .. Len(<<g>>) : LinkOK(<<g>>[i - 1], <<g>>[i])
    BY <1>7
  <2>4. ~(1 = 0)
    OBVIOUS
  <2> QED BY <1>6, <2>1, <2>2, <2>3, <2>4, TurnKeepsStacks
<1>9. Len(stack'[t]) = 2 /\ stack'[t][1] = Top(t) /\ stack'[t][2] = g /\ \A u \in Threads \ {t} : stack'[u] = stack[u]
  <2>1. 1 \in 1 .. 1 /\ 1 + 1 = 2
    OBVIOUS
  <2> QED BY <1>2, <1>6, <1>7, <2>1 DEF Turn
<1>10. ASSUME NEW u \in Threads, NEW i \in 1 .. Len(stack'[u])
       PROVE  stack'[u][i] = Top(t) \/ stack'[u][i] = g
  <2>1. CASE u = t
    BY <1>9, <2>1
  <2>2. CASE u # t
    BY <1>2, <1>9, <2>2
  <2> QED BY <2>1, <2>2
<1>11. /\ \A x : ~Somewhere(x, "link")'
       /\ \A x : Somewhere(x, "deleter")' <=> x = s
  <2>1. /\ \A x : ~Brings(<<g>>, x, "link")
        /\ \A x : Brings(<<g>>, x, "deleter") <=> x = s
    BY <1>5, <1>7 DEF Brings
  <2> QED BY <1>3, <1>6, <2>1, TurnSomewhere
<1>12. /\ multithreaded_mode' = multithreaded_mode /\ shutdowns' = shutdowns /\ mutex' = mutex
       /\ Ptr' = Ptr /\ objects' = objects /\ needs' = needs /\ made' = made /\ DeleterFn' = DeleterFn
  BY <1>1 DEF heap, mode
<1>13. \A x \in Statics : Listed(x)' <=> Listed(x) /\ x # s
  <2> SUFFICES ASSUME NEW x \in Statics PROVE Listed(x)' <=> Listed(x) /\ x # s
    OBVIOUS
  <2>1. Listed(x)' <=> x \in Statics \ Immortal /\ Ptr[x] # 0 /\ x # s
    BY <1>11, <1>12, ListedThen
  <2>2. Listed(x) <=> x \in Statics \ Immortal /\ Ptr[x] # 0
    BY <1>3 DEF Listed
  <2> QED BY <2>1, <2>2
<1>14. TypeOK'
  <2>1. MutexType'
    BY <1>12, MutexTypes DEF MutexType
  <2>2. NextStatic' \in [Statics -> Statics \cup {None}] /\ StaticList' \in Statics \cup {None}
    BY <1>1 DEF TypeOK
  <2>3. stack' \in [Threads -> Seq(Frames)]
    BY <1>6 DEF Turn
  <2>4. /\ multithreaded_mode' \in BOOLEAN /\ shutdowns' \in 0 .. MaxShutdowns
        /\ Ptr' \in [Statics -> Nat] /\ made' \in [Statics -> Nat] /\ DeleterFn' \in [Statics -> BOOLEAN]
        /\ objects' \subseteq Statics \X Nat /\ needs' \in [Statics -> SUBSET (Statics \X Nat)]
    BY <1>12, TypesAre
  <2> QED BY <2>1, <2>2, <2>3, <2>4, TypesThen
<1>15. Modes'
  <2>1. \A i \in 1 .. Len(<<g>>) : /\ <<g>>[i].pc # "shutdown"
                                   /\ <<g>>[i].pc \in {"acquire", "release"} => multithreaded_mode
    BY <1>5, <1>7
  <2>2. UNCHANGED mode
    BY <1>1
  <2> QED BY <1>1, <1>6, <2>1, <2>2, TurnKeepsModes
<1>16. Mutexes' /\ MutexType'
  <2>1. Even(t)
    <3>1. \A m \in Statics \cup {GlobalLock} : Owes(g, m) = 0
      <4>1. \A m \in Statics : Owed(Deleter[s], m, Len(Deleter[s])) = 0
        BY <1>4, ScriptOK
      <4> QED BY <1>5, <4>1, OwesIs
    <3>2. \A i \in 1 .. Len(stack[t]) : stack'[t][i] = stack[t][i]
      BY <1>2, <1>9
    <3> QED BY <1>2, <1>9, <3>1, <3>2, PushEven
  <2> QED BY <1>9, <1>12, <2>1, SameMutexes
<1>17. LocksReady(<<g>>, 1, Ptr)
  <2>1. DOMAIN Deleter[s] = 1 .. Len(Deleter[s])
    BY <1>4, LenProperties DEF Script
  <2>2. \A k \in 1 .. Len(Deleter[s]) : Deleter[s][k].op = "lock" =>
          \E j \in 1 .. k - 1 : Deleter[s][j] = Use(Deleter[s][k].on)
    BY <1>4, <2>1 DEF WellScoped
  <2> QED BY <1>5, <1>7, <2>2 DEF LocksReady
<1>18. Pointers'
  <2> DEFINE m == 1
             above == <<g>>
  <2>1. Turn(t, m, above)
    BY <1>6
  <2>2. \A x \in Statics : ~(Somewhere(x, "link")' /\ Somewhere(x, "deleter")')
    BY <1>11
  <2>3. \A i \in 1 .. Len(above) : FramePtr(above[i], Ptr') /\ LocksReady(above, i, Ptr')
    <3>1. FramePtr(g, Ptr)
      BY <1>3, <1>5 DEF FramePtr
    <3> QED BY <1>7, <1>12, <1>17, <3>1
  <2>4. ~(m < Len(stack[t]))
    BY <1>2
  <2>5. \A u \in Threads : \A i \in 1 .. Len(stack[u]) :
          (u # t \/ i <= m) /\ stack[u][i].pc = "creator" => Ptr'[stack[u][i].s] = 0
    BY <1>1, <1>2
  <2>6. \A u \in Threads : \A i \in 1 .. Len(stack[u]) : FrameOK(stack[u][i])
    BY AllFramesOK
  <2>7. objects' = {<<x, Ptr'[x]>> : x \in {x \in Statics : Ptr'[x] # 0}}
    BY <1>12 DEF Pointers
  <2>8. \A x \in Statics : Ptr[x] # 0 => Ptr'[x] # 0
    BY <1>12
  <2> HIDE DEF m, above
  <2>9. TypeOK /\ Pointers
    OBVIOUS
  <2> QED BY ONLY <2>1, <2>2, <2>3, <2>4, <2>5, <2>6, <2>7, <2>8, <2>9, TurnKeepsPointers
<1>19. \A order \in Seq(Statics) : \A shorter :
              IsList(order) /\ shorter = Tail(order) =>
                /\ shorter \in Seq(Statics) /\ IsList(shorter)'
                /\ order # <<>> /\ order[1] = s
  BY <1>1, <1>12, <1>13, UnlinkKeepsList
<1>20. Lists'
  <2>1. PICK order \in Seq(Statics) : IsList(order)
    BY DEF Lists
  <2>2. \E shorter \in Seq(Statics) : IsList(shorter)'
    BY <1>19, <2>1
  <2>3. ASSUME NEW x \in Statics, DeleterFn'[x] PROVE Listed(x)' \/ Somewhere(x, "deleter")'
    BY <1>3, <1>11, <1>12, <1>13, <2>3 DEF Lists
  <2> QED BY <2>2, <2>3 DEF Lists
<1>21. Needs'
  <2>1. \A u \in Threads : \A i \in 1 .. Len(stack'[u]) : stack'[u][i].pc \notin {"creator", "link"}
    BY <1>1, <1>5, <1>10
  <2>2. (\A x \in Statics : Ptr'[x] = 0 => needs'[x] = {}) /\ OutlivesItsUsers'
    BY <1>12 DEF Needs, OutlivesItsUsers
  <2> QED BY <2>1, <2>2 DEF Needs
<1> QED BY <1>1, <1>3, <1>8, <1>14, <1>15, <1>16, <1>18, <1>19, <1>20, <1>21
\* All mutexes are free and stay so, whatever becomes of the stack.
LEMMA FreeMutexes ==
  ASSUME TypeOK, mutex' = mutex, \A m \in Statics \cup {GlobalLock} : mutex[m].owner = Nobody,
         multithreaded_mode' => \A m \in Statics \cup {GlobalLock}, u \in Threads : Owing(stack'[u], m, 0)
  PROVE  Mutexes' /\ MutexType'
<1>1. MutexType'
  BY MutexTypes DEF MutexType
<1>2. \A u \in Threads : u # Nobody
  BY StaticsAssumption
<1>3. multithreaded_mode' =>
        \A m \in Statics \cup {GlobalLock} : \A u \in Threads :
          Owing(stack'[u], m, IF mutex'[m].owner = u THEN mutex'[m].depth ELSE 0)
  BY <1>2
<1> QED BY <1>1, <1>3 DEF Mutexes

LEMMA DestroyedKeeps ==
  ASSUME StaticsInv, NEW t \in Threads, Destroyed(t)
  PROVE  /\ StaticsInv'
         /\ \A order \in Seq(Statics) : IsList(order) => IsList(order)'
<1> USE DEF StaticsInv
<1> SUFFICES ASSUME NEW s, s = Top(t).s
             PROVE  /\ StaticsInv'
                    /\ \A order \in Seq(Statics) : IsList(order) => IsList(order)'
  OBVIOUS
<1>1. /\ stack[t] # <<>> /\ Top(t).pc = "deleter" /\ Top(t).rest = <<>>
      /\ objects' = objects \ {<<s, Ptr[s]>>} /\ Ptr' = [Ptr EXCEPT ![s] = 0]
      /\ needs' = [needs EXCEPT ![s] = {}] /\ DeleterFn' = [DeleterFn EXCEPT ![s] = FALSE]
      /\ stack' = [stack EXCEPT ![t] = Below(t)]
      /\ UNCHANGED <<NextStatic, StaticList, made, mutex, mode>>
  BY AtTop DEF Destroyed
<1>2. /\ Len(stack[t]) = 2 /\ Top(t) = stack[t][2] /\ FrameOK(Top(t)) /\ stack[t][1].pc = "shutdown"
      /\ Isolated(t) /\ shutdowns < MaxShutdowns /\ 1 \in 1 .. Len(stack[t])
  BY <1>1, ShutdownAlone
<1>3. s \in Statics \ Immortal
  BY <1>1, <1>2 DEF FrameOK
<1>4. /\ \A x : ~Somewhere(x, "link")
      /\ \A x : Somewhere(x, "deleter") <=> x = s
      /\ \A x \in Statics : Listed(x) <=> x \notin Immortal /\ Ptr[x] # 0 /\ x # s
  BY <1>1, ShutdownLists
<1>5. Turn(t, 1, <<>>) /\ Stacks'
  <2>1. Len(stack[t]) - 1 = 1
    BY <1>2
  <2>2. Turn(t, 1, <<>>)
    BY <1>1, <2>1, PopTurns
  <2> QED BY <2>2, PopKeepsStacks
<1>6. /\ stack' \in [Threads -> Seq(Frames)]
      /\ Len(stack'[t]) = 1 /\ stack'[t][1] = stack[t][1]
      /\ \A u \in Threads : u # t => Len(stack'[u]) = 0 /\ stack'[u] = <<>>
  <2>1. \A u \in Threads : u # t => Len(stack[u]) = 0 /\ stack[u] = <<>> /\ stack'[u] = stack[u]
    BY <1>2, <1>5, StackTypes DEF Isolated, Turn
  <2>2. Len(<<>>) = 0 /\ 1 \in 1 .. 1
    OBVIOUS
  <2> QED BY <1>5, <2>1, <2>2 DEF Turn
<1>7. \A u \in Threads : \A i \in 1 .. Len(stack'[u]) :
        u = t /\ i = 1 /\ stack'[u][i] = stack[t][1] /\ stack'[u][i].pc = "shutdown"
  <2> SUFFICES ASSUME NEW u \in Threads, NEW i \in 1 .. Len(stack'[u])
               PROVE  u = t /\ i = 1 /\ stack'[u][i] = stack[t][1] /\ stack'[u][i].pc = "shutdown"
    OBVIOUS
  <2>1. u = t
    BY <1>6
  <2>2. i = 1
    <3>1. Len(stack'[u]) = 1
      BY <1>6, <2>1
    <3> QED BY <3>1
  <2> QED BY <1>2, <1>6, <2>1, <2>2
<1>8. \A x : ~Somewhere(x, "link")' /\ ~Somewhere(x, "deleter")'
  BY <1>6, <1>7, SomewhereThen
<1>9. /\ multithreaded_mode' = multithreaded_mode /\ shutdowns' = shutdowns /\ mutex' = mutex
      /\ NextStatic' = NextStatic /\ StaticList' = StaticList /\ made' = made
      /\ Ptr'[s] = 0 /\ needs'[s] = {} /\ ~DeleterFn'[s]
      /\ \A x \in Statics : x # s => Ptr'[x] = Ptr[x] /\ needs'[x] = needs[x] /\ DeleterFn'[x] = DeleterFn[x]
  BY <1>1, <1>3 DEF mode, TypeOK
<1>10. \A x \in Statics : Listed(x)' <=> Listed(x)
  BY <1>4, <1>8, <1>9, ListedThen
<1>11. TypeOK'
  <2>1. MutexType'
    BY <1>9, MutexTypes DEF MutexType
  <2>2. /\ Ptr' \in [Statics -> Nat] /\ DeleterFn' \in [Statics -> BOOLEAN]
        /\ objects' \subseteq Statics \X Nat /\ needs' \in [Statics -> SUBSET (Statics \X Nat)]
    BY <1>1, <1>3 DEF TypeOK
  <2>3. /\ multithreaded_mode' \in BOOLEAN /\ shutdowns' \in 0 .. MaxShutdowns
        /\ NextStatic' \in [Statics -> Statics \cup {None}] /\ StaticList' \in Statics \cup {None}
        /\ made' \in [Statics -> Nat]
    BY <1>9, TypesAre
  <2> QED BY <1>6, <2>1, <2>2, <2>3, TypesThen
<1>12. Modes'
  <2>1. Isolated(t)'
    BY <1>6 DEF Isolated
  <2>2. \A u, v \in Threads : u = v \/ stack'[u] = <<>> \/ stack'[v] = <<>>
    BY <1>6
  <2> QED BY <1>2, <1>7, <1>9, <2>1, <2>2 DEF Modes
<1>13. Mutexes'
  <2>1. \A m \in Statics \cup {GlobalLock} : mutex[m].owner = Nobody
    BY <1>1, AllFree
  <2>2. ASSUME multithreaded_mode, NEW m \in Statics \cup {GlobalLock}, NEW u \in Threads
        PROVE  Owing(stack'[u], m, 0)
    <3>1. CASE u # t
      BY <1>6, <3>1, OwingNone
    <3>2. CASE u = t
      <4>1. Owing(stack[t], m, 0)
        <5>1. Owing(stack[t], m, IF mutex[m].owner = t THEN mutex[m].depth ELSE 0)
          BY <2>2 DEF Mutexes
        <5>2. mutex[m].owner # t
          BY <2>1, StaticsAssumption
        <5> QED BY <5>1, <5>2
      <4>2. Owes(stack[t][2], m) = 0 /\ \A i \in 1 .. Len(stack'[t]) : Owes(stack'[t][i], m) = Owes(stack[t][i], m)
        <5>1. Owes(stack[t][2], m) = 0
          BY <1>1, <1>2, OwesIs
        <5>2. \A i \in 1 .. Len(stack'[t]) : i = 1
          BY <1>6
        <5> QED BY <1>6, <5>1, <5>2
      <4>3. Len(stack'[t]) = Len(stack[t]) - 1 /\ Len(stack[t]) \in Nat /\ Len(stack[t]) > 0
        BY <1>2, <1>6
      <4> QED BY <1>2, <3>2, <4>1, <4>2, <4>3, OwingPop
    <3> QED BY <3>1, <3>2
  <2> QED BY <1>9, <2>1, <2>2, FreeMutexes
<1>14. Pointers'
  <2>1. objects' = {<<x, Ptr'[x]>> : x \in {x \in Statics : Ptr'[x] # 0}}
    <3>1. objects = {<<x, Ptr[x]>> : x \in {x \in Statics : Ptr[x] # 0}}
      BY DEF Pointers
    <3>2. ASSUME NEW o \in objects' PROVE \E x \in {x \in Statics : Ptr'[x] # 0} : o = <<x, Ptr'[x]>>
      <4>1. PICK x \in Statics : Ptr[x] # 0 /\ o = <<x, Ptr[x]>>
        BY <1>1, <3>1
      <4>2. x # s
        BY <1>1, <4>1
      <4> QED BY <1>9, <4>1, <4>2
    <3>3. ASSUME NEW x \in Statics, Ptr'[x] # 0 PROVE <<x, Ptr'[x]>> \in objects'
      BY <1>1, <1>9, <3>1, <3>3
    <3> QED BY <3>2, <3>3
  <2>2. ASSUME NEW u \in Threads, NEW i \in 1 .. Len(stack'[u])
        PROVE  FramePtr(stack'[u][i], Ptr') /\ LocksReady(stack'[u], i, Ptr')
    <3>1. stack'[u][i] = stack[t][1] /\ stack[t][1].pc = "shutdown" /\ FrameOK(stack[t][1])
      BY <1>2, <1>7, StackShape
    <3>2. 1 .. Len(stack'[u][i].rest) = {}
      BY <3>1 DEF FrameOK
    <3> QED BY <3>1, <3>2 DEF FramePtr, LocksReady
  <2> QED BY <1>8, <2>1, <2>2 DEF Pointers
<1>15. \A order \in Seq(Statics) : IsList(order) => IsList(order)'
  <2> SUFFICES ASSUME NEW order \in Seq(Statics), IsList(order) PROVE IsList(order)'
    OBVIOUS
  <2>1. \A i \in 1 .. Len(order) : order[i] \in Statics
    BY ElementOfSeq
  <2>2. \A i \in 1 .. Len(order) : needs'[order[i]] = needs[order[i]]
    BY <1>4, <1>9, <2>1 DEF IsList
  <2> QED BY <1>9, <1>10, <2>2 DEF IsList
<1>16. Lists'
  <2>1. \E order \in Seq(Statics) : IsList(order)'
    BY <1>15 DEF Lists
  <2>2. \A x \in Statics : DeleterFn'[x] => Listed(x)' \/ Somewhere(x, "deleter")'
    BY <1>4, <1>9, <1>10 DEF Lists
  <2> QED BY <2>1, <2>2 DEF Lists
\* What is left on the list is older, and its constructors did not use s.
<1>17. Needs'
  <2>1. \A x \in Statics : Ptr'[x] = 0 => needs'[x] = {}
    BY <1>9 DEF Needs
  <2>2. ASSUME NEW x \in Statics \ Immortal, x # s, NEW o \in needs[x] PROVE o \in objects'
    <3>1. PICK order \in Seq(Statics) : IsList(order)
      BY DEF Lists
    <3>2. Listed(x)
      BY <1>4, <2>2 DEF Needs
    <3>3. PICK i \in 1 .. Len(order) : order[i] = x
      BY <3>1, <3>2 DEF IsList
    <3>4. o[1] \in Immortal \/ \E j \in i + 1 .. Len(order) : order[j] = o[1]
      BY <2>2, <3>1, <3>3 DEF IsList
    <3>5. \A j \in i + 1 .. Len(order) : j \in 1 .. Len(order)
      BY LenProperties
    <3>6. \A j \in 1 .. Len(order) : order[j] \in Statics /\ order[j] # s
      <4>1. \A j \in 1 .. Len(order) : order[j] \in Statics
        BY ElementOfSeq
      <4> QED BY <1>4, <3>1, <4>1 DEF IsList
    <3>7. o[1] # s
      BY <1>3, <3>4, <3>5, <3>6
    <3>8. o \in objects
      BY <2>2 DEF Needs, OutlivesItsUsers
    <3> QED BY <1>1, <3>7, <3>8
  <2>3. OutlivesItsUsers'
    BY <1>9, <2>2 DEF OutlivesItsUsers
  <2>4. \A u \in Threads : \A i \in 1 .. Len(stack'[u]) : stack'[u][i].pc \notin {"creator", "link"}
    BY <1>7
  <2> QED BY <2>1, <2>3, <2>4 DEF Needs
<1> QED BY <1>5, <1>11, <1>12, <1>13, <1>14, <1>15, <1>16, <1>17

LEMMA ShutdownEndsKeeps ==
  ASSUME StaticsInv, NEW t \in Threads, ShutdownEnds(t)
  PROVE  /\ StaticsInv'
         /\ \A order \in Seq(Statics) : IsList(order) => order = <<>> /\ IsList(order)'
         /\ \A s \in Statics \ Immortal : Ptr'[s] = 0 /\ ~DeleterFn'[s]
         /\ {o[1] : o \in objects'} \subseteq Immortal
         /\ \A m \in Statics \cup {GlobalLock} : mutex'[m].owner = Nobody
<1> USE DEF StaticsInv
<1>1. /\ stack[t] # <<>> /\ Top(t).pc = "shutdown" /\ StaticList = None
      /\ multithreaded_mode' = FALSE /\ shutdowns' = shutdowns + 1
      /\ stack' = [stack EXCEPT ![t] = <<>>] /\ UNCHANGED <<mutex, list, heap>>
  BY AtTop DEF ShutdownEnds
<1>2. /\ Isolated(t) /\ shutdowns < MaxShutdowns /\ Top(t) \in Frames /\ FrameOK(Top(t))
  BY <1>1, ShutdownAlone
<1>3. Top(t).rest = <<>>
  BY <1>1, <1>2 DEF FrameOK
<1>4. /\ \A x : ~Somewhere(x, "link") /\ ~Somewhere(x, "deleter")
      /\ \A x \in Statics : Listed(x) <=> x \notin Immortal /\ Ptr[x] # 0
  BY <1>1, ShutdownLists
<1>5. /\ \A u \in Threads : stack'[u] = <<>> /\ Len(stack'[u]) = 0
      /\ stack' \in [Threads -> Seq(Frames)]
  <2>1. stack \in [Threads -> Seq(Frames)] /\ <<>> \in Seq(Frames) /\ Len(<<>>) = 0
    BY StackTypes, EmptySeq
  <2> QED BY <1>1, <1>2, <2>1 DEF Isolated
<1>6. \A x, pc : ~Somewhere(x, pc)'
  BY <1>5, SomewhereThen
<1>7. /\ mutex' = mutex /\ Ptr' = Ptr /\ objects' = objects /\ needs' = needs /\ made' = made
      /\ DeleterFn' = DeleterFn /\ NextStatic' = NextStatic /\ StaticList' = StaticList
  BY <1>1 DEF list, heap
<1>8. \A x \in Statics : Listed(x)' <=> Listed(x)
  BY <1>4, <1>6, <1>7, ListedThen
<1>9. \A order \in Seq(Statics) : IsList(order) => order = <<>> /\ IsList(order)'
  <2> SUFFICES ASSUME NEW order \in Seq(Statics), IsList(order) PROVE order = <<>> /\ IsList(order)'
    OBVIOUS
  <2>1. order = <<>>
    <3>1. order # <<>> => order[1] \in Statics
      BY LenProperties, EmptySeq, ElementOfSeq
    <3> QED BY <1>1, <3>1, StaticsAssumption DEF IsList
  <2>2. IsList(order)'
    BY <1>7, <1>8 DEF IsList
  <2> QED BY <2>1, <2>2
<1>10. \A x \in Statics : ~Listed(x)
  <2>1. PICK order \in Seq(Statics) : IsList(order)
    BY DEF Lists
  <2>2. 1 .. Len(order) = {}
    BY <1>9, <2>1
  <2> QED BY <2>1, <2>2 DEF IsList
<1>11. \A s \in Statics \ Immortal : Ptr'[s] = 0 /\ ~DeleterFn'[s]
  <2>1. \A s \in Statics \ Immortal : ~DeleterFn[s]
    BY <1>4, <1>10 DEF Lists
  <2>2. \A s \in Statics \ Immortal : Ptr[s] = 0
    BY <1>4, <1>10
  <2> QED BY <1>7, <2>1, <2>2
<1>12. {o[1] : o \in objects'} \subseteq Immortal
  <2> SUFFICES ASSUME NEW o \in objects PROVE o[1] \in Immortal
    BY <1>7
  <2>1. PICK x \in Statics : Ptr[x] # 0 /\ o = <<x, Ptr[x]>>
    BY DEF Pointers
  <2> QED BY <1>7, <1>11, <2>1
<1>13. \A m \in Statics \cup {GlobalLock} : mutex[m].owner = Nobody
  BY <1>1, <1>3, AllFree
<1>14. Mutexes' /\ MutexType'
  BY <1>1, <1>7, <1>13, FreeMutexes
<1>15. TypeOK'
  <2>1. shutdowns + 1 \in 0 .. MaxShutdowns
    BY <1>2, StaticsAssumption DEF TypeOK
  <2>2. /\ Ptr' \in [Statics -> Nat] /\ made' \in [Statics -> Nat] /\ DeleterFn' \in [Statics -> BOOLEAN]
        /\ objects' \subseteq Statics \X Nat /\ needs' \in [Statics -> SUBSET (Statics \X Nat)]
        /\ NextStatic' \in [Statics -> Statics \cup {None}] /\ StaticList' \in Statics \cup {None}
    BY <1>7, TypesAre
  <2> QED BY <1>1, <1>5, <1>14, <2>1, <2>2, TypesThen
<1>16. Stacks' /\ Modes'
  <2>1. Stacks'
    BY <1>5 DEF Stacks, StackOK
  <2>2. \A u \in Threads : 1 .. Len(stack'[u]) = {}
    BY <1>5
  <2>3. Modes'
    BY <1>5, <2>2 DEF Modes
  <2> QED BY <2>1, <2>3
<1>17. Pointers'
  <2>1. \A u \in Threads : 1 .. Len(stack'[u]) = {}
    BY <1>5
  <2> QED BY <1>6, <1>7, <2>1 DEF Pointers
<1>18. Lists'
  <2>1. \E order \in Seq(Statics) : IsList(order)'
    BY <1>9 DEF Lists
  <2>2. \A x \in Statics : ~DeleterFn'[x]
    BY <1>4, <1>7, <1>10 DEF Lists
  <2> QED BY <2>1, <2>2 DEF Lists
<1>19. Needs'
  <2>1. \A u \in Threads : 1 .. Len(stack'[u]) = {}
    BY <1>5
  <2> QED BY <1>7, <2>1 DEF Needs, OutlivesItsUsers
<1>20. \A m \in Statics \cup {GlobalLock} : mutex'[m].owner = Nobody
  BY <1>7, <1>13
<1> QED BY <1>9, <1>11, <1>12, <1>14, <1>15, <1>16, <1>17, <1>18, <1>19, <1>20
-----------------------------------------------------------------------------
(* The invariant                                                           *)

LEMMA InitStatics ==
  ASSUME Init
  PROVE  StaticsInv
<1> DEFINE f == Frame("operation", None, Startup)
<1>1. /\ multithreaded_mode = FALSE
      /\ mutex = [m \in Statics \cup {GlobalLock} |-> [owner |-> Nobody, depth |-> 0]]
      /\ Ptr = [s \in Statics |-> 0] /\ DeleterFn = [s \in Statics |-> FALSE]
      /\ NextStatic = [s \in Statics |-> None] /\ StaticList = None /\ objects = {}
      /\ made = [s \in Statics |-> 0] /\ needs = [s \in Statics |-> {}] /\ shutdowns = 0
  BY DEF Init
<1>2. PICK main \in Threads : stack = [t \in Threads |-> IF t = main THEN <<f>> ELSE <<>>]
  BY DEF Init
<1>3. Startup \in Script /\ WellScoped(Startup)
  BY Scripts
<1>4. f \in Frames /\ FrameOK(f) /\ f.pc = "operation" /\ f.rest = Startup
  <2>1. None \in Statics \cup {None} /\ "operation" \in {"operation", "creator", "deleter"}
    OBVIOUS
  <2>2. f \in Frames /\ FrameOK(f)
    BY <1>3, <2>1, ScriptFrameOK
  <2> QED BY <2>2 DEF Frame
<1> HIDE DEF f
<1>5. <<f>> \in Seq(Frames) /\ <<>> \in Seq(Frames) /\ Len(<<f>>) = 1 /\ <<f>>[1] = f /\ Len(<<>>) = 0 /\ <<f>> # <<>>
  BY <1>4
<1>6. \A u \in Threads : stack[u] = IF u = main THEN <<f>> ELSE <<>>
  BY <1>2
<1>7. stack \in [Threads -> Seq(Frames)]
  BY <1>2, <1>5
<1>8. ASSUME NEW u \in Threads, NEW i \in 1 .. Len(stack[u]) PROVE u = main /\ i = 1 /\ stack[u][i] = f
  <2>1. u = main
    BY <1>5, <1>6
  <2>2. Len(stack[u]) = 1 /\ stack[u] = <<f>>
    BY <1>5, <1>6, <2>1
  <2> QED BY <1>5, <2>1, <2>2
<1>9. TypeOK
  <2>1. MutexType
    BY <1>1 DEF MutexType
  <2>2. shutdowns \in 0 .. MaxShutdowns
    BY <1>1, StaticsAssumption
  <2> QED BY <1>1, <1>7, <2>1, <2>2, TypesAre
<1>10. Stacks
  <2>1. \A u \in Threads : stack[u] = <<>> \/ stack[u] = <<f>>
    BY <1>6
  <2>2. StackOK(<<>>) /\ StackOK(<<f>>)
    <3>1. \A i \in 1 .. Len(<<f>>) : i = 1
      BY <1>5
    <3>2. 2 .. Len(<<f>>) = {}
      BY <1>5
    <3> QED BY <1>4, <1>5, <3>1, <3>2 DEF StackOK
  <2> QED BY <2>1, <2>2 DEF Stacks
<1>11. Modes
  <2>1. \A u, v \in Threads : u = v \/ stack[u] = <<>> \/ stack[v] = <<>>
    BY <1>6
  <2> QED BY <1>1, <1>4, <1>8, <2>1 DEF Modes
<1>12. \A s, pc : Somewhere(s, pc) => pc = "operation"
  BY <1>4, <1>8, <1>9, SomewhereIs
<1>13. Pointers
  <2>1. objects = {<<s, Ptr[s]>> : s \in {s \in Statics : Ptr[s] # 0}}
    BY <1>1
  <2>2. LocksReady(stack[main], 1, Ptr)
    <3>1. DOMAIN Startup = 1 .. Len(Startup)
      BY <1>3, LenProperties DEF Script
    <3>2. \A k \in 1 .. Len(Startup) : Startup[k].op = "lock" =>
            \E j \in 1 .. k - 1 : Startup[j] = Use(Startup[k].on)
      BY <1>3, <3>1 DEF WellScoped
    <3>3. stack[main][1].rest = Startup
      BY <1>4, <1>5, <1>6
    <3> QED BY <3>2, <3>3 DEF LocksReady
  <2>3. FramePtr(f, Ptr)
    BY <1>4 DEF FramePtr
  <2> QED BY <1>8, <1>12, <2>1, <2>2, <2>3 DEF Pointers
<1>14. Mutexes
  BY <1>1 DEF Mutexes
<1>15. \A s \in Statics : ~Listed(s) /\ ~DeleterFn[s]
  BY <1>1 DEF Listed
<1>16. Lists
  <2>1. <<>> \in Seq(Statics) /\ 1 .. Len(<<>>) = {}
    OBVIOUS
  <2>2. IsList(<<>>)
    BY <1>1, <1>15, <2>1 DEF IsList
  <2> QED BY <1>15, <2>1, <2>2 DEF Lists
<1>17. Needs
  BY <1>1, <1>4, <1>8 DEF Needs, OutlivesItsUsers
<1> QED BY <1>9, <1>10, <1>11, <1>13, <1>14, <1>16, <1>17 DEF StaticsInv

LEMMA StutterStatics ==
  ASSUME StaticsInv, UNCHANGED vars
  PROVE  StaticsInv' /\ \A order \in Seq(Statics) : IsList(order) => IsList(order)'
<1> USE DEF StaticsInv
<1>1. /\ multithreaded_mode' = multithreaded_mode /\ mutex' = mutex /\ Ptr' = Ptr
      /\ DeleterFn' = DeleterFn /\ NextStatic' = NextStatic /\ StaticList' = StaticList
      /\ objects' = objects /\ made' = made /\ needs' = needs /\ shutdowns' = shutdowns
      /\ stack' = stack
  BY DEF vars
<1>2. TypeOK'
  BY <1>1 DEF TypeOK
<1>3. Stacks'
  BY <1>1 DEF Stacks
<1>4. Modes'
  BY <1>1 DEF Modes, Isolated
<1>5. \A s, pc : Somewhere(s, pc)' <=> Somewhere(s, pc)
  BY <1>1 DEF Somewhere
<1>6. \A s : Listed(s)' <=> Listed(s)
  BY <1>1, <1>5 DEF Listed
<1>7. Pointers'
  BY <1>1, <1>5 DEF Pointers
<1>8. Mutexes'
  BY <1>1 DEF Mutexes
<1>9. \A order \in Seq(Statics) : IsList(order) => IsList(order)'
  BY <1>1, <1>6 DEF IsList
<1>10. Lists'
  BY <1>1, <1>5, <1>6, <1>9 DEF Lists
<1>11. Needs'
  BY <1>1, <1>6 DEF Needs, OutlivesItsUsers
<1> QED BY <1>2, <1>3, <1>4, <1>7, <1>8, <1>9, <1>10, <1>11

LEMMA NextStatics ==
  ASSUME StaticsInv, [Next]_vars
  PROVE  StaticsInv'
<1>1. CASE UNCHANGED vars
  BY <1>1, StutterStatics
<1>2. ASSUME NEW t \in Threads, ClientStep(t) PROVE StaticsInv'
  BY <1>2, StartKeeps, StartMultithreadedKeeps, ShutdownKeeps DEF ClientStep
<1>3. ASSUME NEW t \in Threads, LibraryStep(t) PROVE StaticsInv'
  <2>1. CASE UseStatic(t)
    BY <2>1, UseStaticKeeps
  <2>2. CASE LockMutex(t)
    BY <2>2, LockMutexKeeps
  <2>3. CASE UnlockMutex(t)
    BY <2>3, UnlockMutexKeeps
  <2>4. CASE Return(t)
    BY <2>4, ReturnKeeps
  <2>5. CASE ReadPtr(t)
    BY <2>5, ReadPtrKeeps
  <2>6. CASE AcquireGlobalLock(t)
    BY <2>6, AcquireGlobalLockKeeps
  <2>7. CASE Publish(t)
    BY <2>7, PublishKeeps
  <2>8. CASE Link(t)
    BY <2>8, LinkKeeps
  <2>9. CASE ReleaseGlobalLock(t)
    BY <2>9, ReleaseGlobalLockKeeps
  <2>10. CASE Deref(t)
    BY <2>10, DerefKeeps
  <2>11. CASE destroy(t)
    BY <2>11, DestroyKeeps
  <2>12. CASE Destroyed(t)
    BY <2>12, DestroyedKeeps
  <2>13. CASE ShutdownEnds(t)
    BY <2>13, ShutdownEndsKeeps
  <2> QED BY <1>3, <2>1, <2>2, <2>3, <2>4, <2>5, <2>6, <2>7, <2>8, <2>9, <2>10, <2>11, <2>12, <2>13
          DEF LibraryStep
<1> QED BY <1>1, <1>2, <1>3 DEF Next

\* Between any two steps the stacks, the pointers, the mutexes and the list are
\* as the invariant says: RegisterManagedStatic is never entered again for a
\* static under construction, and a mutex is held as often as its owner's
\* frames will release it.
THEOREM StaticsCorrect == Spec => []StaticsInv
<1>1. Init => StaticsInv
  BY InitStatics
<1>2. StaticsInv /\ [Next]_vars => StaticsInv'
  BY NextStatics
<1> QED BY <1>1, <1>2, PTL DEF Spec
-----------------------------------------------------------------------------
(* The list is what following its pointers yields                          *)

Nths(first, next, g) ==
  [n \in 1 .. Cardinality(Statics) + 1 |->
     IF n = 1 THEN first ELSE IF g[n - 1] = None THEN None ELSE next[g[n - 1]]]
NthOf(first, next) == CHOOSE g : g = Nths(first, next, g)
WalkFrom(first, next) ==
  [n \in 1 .. Cardinality({n \in DOMAIN NthOf(first, next) : NthOf(first, next)[n] # None}) |->
     NthOf(first, next)[n]]

LEMMA WalkIsFrom ==
  /\ Walk = WalkFrom(StaticList, NextStatic)
  /\ Walk' = WalkFrom(StaticList', NextStatic')
<1>1. Walk = WalkFrom(StaticList, NextStatic)
  BY DEF Walk, WalkFrom, NthOf, Nths
<1>2. Walk' = WalkFrom(StaticList', NextStatic')
  BY DEF Walk, WalkFrom, NthOf, Nths
<1> QED BY <1>1, <1>2

\* A list that has each static once is no longer than there are statics.
LEMMA ListLength ==
  ASSUME NEW order \in Seq(Statics), \A i, j \in 1 .. Len(order) : order[i] = order[j] => i = j
  PROVE  Len(order) \in Nat /\ Cardinality(Statics) \in Nat /\ Len(order) <= Cardinality(Statics)
<1>1. Len(order) \in Nat /\ DOMAIN order = 1 .. Len(order) /\ order \in [1 .. Len(order) -> Statics]
  BY LenProperties
<1>2. IsFiniteSet(Statics) /\ Cardinality(Statics) \in Nat
  BY ScriptsAssumption, FS_CardinalityType
<1>3. IsFiniteSet(1 .. Len(order)) /\ Cardinality(1 .. Len(order)) = Len(order)
  BY <1>1, FS_Interval
<1>4. ~(Cardinality(Statics) < Cardinality(1 .. Len(order)))
  BY <1>1, <1>2, <1>3, FS_PigeonHole
<1> QED BY <1>1, <1>2, <1>3, <1>4

LEMMA WalkIs ==
  ASSUME NEW order \in Seq(Statics), NEW first, NEW next,
         \A i, j \in 1 .. Len(order) : order[i] = order[j] => i = j,
         first = IF order = <<>> THEN None ELSE order[1],
         \A i \in 1 .. Len(order) : next[order[i]] = IF i < Len(order) THEN order[i + 1] ELSE None
  PROVE  WalkFrom(first, next) = order
<1> DEFINE L == Len(order)
           C == Cardinality(Statics)
           h == [n \in 1 .. C + 1 |-> IF n <= L THEN order[n] ELSE None]
           nth == NthOf(first, next)
<1>1. L \in Nat /\ C \in Nat /\ L <= C
  BY ListLength
<1>2. /\ DOMAIN order = 1 .. L /\ \A n \in 1 .. L : order[n] \in Statics /\ order[n] # None
      /\ order = <<>> <=> L = 0
  BY LenProperties, ElementOfSeq, EmptySeq, StaticsAssumption
<1> HIDE DEF L, C
<1>3. ASSUME NEW n \in 1 .. C + 1
      PROVE  h[n] = IF n = 1 THEN first ELSE IF h[n - 1] = None THEN None ELSE next[h[n - 1]]
  <2>1. CASE n = 1
    <3>1. L = 0 => ~(1 <= L)
      OBVIOUS
    <3>2. L # 0 => 1 <= L
      BY <1>1
    <3> QED BY <1>2, <2>1, <3>1, <3>2
  <2>2. CASE n # 1
    <3>1. n - 1 \in 1 .. C + 1 /\ n - 1 + 1 = n /\ n \in Nat
      BY <1>1, <2>2
    <3>2. CASE n - 1 <= L
      <4>1. n - 1 \in 1 .. L /\ h[n - 1] = order[n - 1] /\ h[n - 1] # None
        BY <1>1, <1>2, <3>1, <3>2
      <4>2. next[order[n - 1]] = IF n - 1 < L THEN order[n] ELSE None
        BY <3>1, <4>1 DEF L
      <4>3. n - 1 < L <=> n <= L
        BY <1>1, <3>1
      <4> QED BY <2>2, <4>1, <4>2, <4>3
    <3>3. CASE ~(n - 1 <= L)
      <4>1. ~(n <= L) /\ h[n - 1] = None
        BY <1>1, <3>1, <3>3
      <4> QED BY <2>2, <4>1
    <3> QED BY <3>2, <3>3
  <2> QED BY <2>1, <2>2
<1>4. h = Nths(first, next, h)
  BY <1>3 DEF Nths, C
<1>5. nth = Nths(first, next, nth)
  <2>1. \E g : g = Nths(first, next, g)
    BY <1>4
  <2> QED BY <2>1 DEF NthOf
<1> HIDE DEF nth
<1>6. /\ DOMAIN nth = 1 .. C + 1
      /\ \A n \in 1 .. C + 1 :
           nth[n] = IF n = 1 THEN first ELSE IF nth[n - 1] = None THEN None ELSE next[nth[n - 1]]
  <2>1. DOMAIN Nths(first, next, nth) = 1 .. C + 1
    BY DEF Nths, C
  <2>2. \A n \in 1 .. C + 1 :
          Nths(first, next, nth)[n] =
            IF n = 1 THEN first ELSE IF nth[n - 1] = None THEN None ELSE next[nth[n - 1]]
    BY DEF Nths, C
  <2> QED BY <1>5, <2>1, <2>2
<1>7. \A n \in 1 .. C + 1 : nth[n] = h[n]
  <2> DEFINE B == {n \in 1 .. C + 1 : nth[n] # h[n]}
  <2> SUFFICES ASSUME B # {} PROVE FALSE
    OBVIOUS
  <2>1. B \in SUBSET Nat
    BY <1>1
  <2>2. PICK n \in B : \A m \in B : n <= m
    BY <2>1, Least
  <2>3. n \in 1 .. C + 1 /\ nth[n] # h[n]
    OBVIOUS
  <2>4. n # 1
    <3>1. 1 \in 1 .. C + 1
      BY <1>1
    <3> QED BY <1>3, <1>6, <2>3, <3>1
  <2>5. n - 1 \in 1 .. C + 1 /\ ~(n <= n - 1)
    BY <1>1, <2>3, <2>4
  <2>6. nth[n - 1] = h[n - 1]
    BY <2>2, <2>5
  <2> QED BY <1>3, <1>6, <2>3, <2>4, <2>6
<1>8. {n \in DOMAIN nth : nth[n] # None} = 1 .. L
  <2>1. \A n \in 1 .. C + 1 : nth[n] # None <=> n <= L
    BY <1>1, <1>2, <1>7
  <2>2. \A n \in 1 .. L : n \in 1 .. C + 1 /\ n <= L
    BY <1>1
  <2>3. \A n \in 1 .. C + 1 : n <= L => n \in 1 .. L
    BY <1>1
  <2> QED BY <1>6, <2>1, <2>2, <2>3
<1>9. Cardinality(1 .. L) = L
  BY <1>1, FS_Interval
<1>10. \A n \in 1 .. L : nth[n] = order[n]
  BY <1>1, <1>7
<1>11. WalkFrom(first, next) = [n \in 1 .. L |-> nth[n]]
  BY <1>8, <1>9 DEF WalkFrom, nth
<1>12. order = [n \in 1 .. L |-> order[n]]
  BY <1>2
<1> QED BY <1>10, <1>11, <1>12

LEMMA WalkIsList ==
  /\ \A order \in Seq(Statics) : IsList(order) => Walk = order
  /\ \A order \in Seq(Statics) : IsList(order)' => Walk' = order
<1>1. ASSUME NEW order \in Seq(Statics), IsList(order) PROVE Walk = order
  <2>1. WalkFrom(StaticList, NextStatic) = order
    BY <1>1, WalkIs DEF IsList
  <2> QED BY <2>1, WalkIsFrom
<1>2. ASSUME NEW order \in Seq(Statics), IsList(order)' PROVE Walk' = order
  <2>1. WalkFrom(StaticList', NextStatic') = order
    BY <1>2, WalkIs DEF IsList
  <2> QED BY <2>1, WalkIsFrom
<1> QED BY <1>1, <1>2

-----------------------------------------------------------------------------
(* What follows                                                            *)

LEMMA ReadyObjects == StaticsInv => ObjectsAreReady
<1> SUFFICES ASSUME StaticsInv PROVE ObjectsAreReady
  OBVIOUS
<1> USE DEF StaticsInv
<1>1. ASSUME NEW t \in Threads, At(t, "deref") PROVE <<Top(t).s, Ptr[Top(t).s]>> \in objects
  <2>1. /\ stack[t] # <<>> /\ Len(stack[t]) \in 1 .. Len(stack[t])
        /\ Top(t) = stack[t][Len(stack[t])] /\ Top(t).pc = "deref" /\ Top(t).s \in Statics
    BY <1>1, AtTop, DerefCaller
  <2>2. Ptr[Top(t).s] # 0
    BY <2>1 DEF Pointers, FramePtr
  <2> QED BY <2>1, <2>2 DEF Pointers
<1>2. ASSUME NEW m \in Statics, mutex[m].owner # Nobody PROVE <<m, Ptr[m]>> \in objects
  BY <1>2 DEF Pointers, Mutexes
<1> QED BY <1>1, <1>2 DEF ObjectsAreReady

\* Whoever uses a static gets an object whose constructor has run and that is
\* not destroyed, although the pointer is read without the lock; a mutex that is
\* held is such an object, and free when it has been released as often as it
\* was acquired.
THEOREM UsersGetObjects == Spec => []ObjectsAreReady
<1>1. Init => StaticsInv
  BY InitStatics
<1>2. StaticsInv /\ [Next]_vars => StaticsInv'
  BY NextStatics
<1> QED BY <1>1, <1>2, ReadyObjects, PTL DEF Spec

\* No static is destroyed while an object exists whose constructor used it.
THEOREM UsersDieFirst == Spec => []OutlivesItsUsers
<1>1. Init => StaticsInv
  BY InitStatics
<1>2. StaticsInv /\ [Next]_vars => StaticsInv'
  BY NextStatics
<1>3. StaticsInv => OutlivesItsUsers
  BY DEF StaticsInv, Needs
<1> QED BY <1>1, <1>2, <1>3, PTL DEF Spec

LEMMA OnceOnTheList == StaticsInv => NothingIsLost
<1> SUFFICES ASSUME StaticsInv PROVE NothingIsLost
  OBVIOUS
<1> USE DEF StaticsInv
<1>1. \A o \in objects : Ptr[o[1]] = o[2]
  BY DEF Pointers
<1>2. PICK order \in Seq(Statics) : IsList(order)
  BY DEF Lists
<1>3. Walk = order /\ DOMAIN order = 1 .. Len(order)
  BY <1>2, WalkIsList, LenProperties
<1>4. ASSUME NEW s \in Statics \ Immortal, Ptr[s] # 0
      PROVE  Cardinality({n \in DOMAIN Walk : Walk[n] = s}) =
               IF Somewhere(s, "link") \/ Somewhere(s, "deleter") THEN 0 ELSE 1
  <2>1. Listed(s) <=> ~(Somewhere(s, "link") \/ Somewhere(s, "deleter"))
    BY <1>4 DEF Listed
  <2>2. Listed(s) <=> \E i \in 1 .. Len(order) : order[i] = s
    BY <1>2 DEF IsList
  <2>3. CASE Listed(s)
    <3>1. PICK i \in 1 .. Len(order) : order[i] = s
      BY <2>2, <2>3
    <3>2. \A n \in 1 .. Len(order) : order[n] = s <=> n = i
      BY <1>2, <3>1 DEF IsList
    <3>3. {n \in DOMAIN Walk : Walk[n] = s} = {i}
      BY <1>3, <3>2
    <3>4. Cardinality({i}) = 1
      BY FS_Singleton
    <3> QED BY <2>1, <2>3, <3>3, <3>4
  <2>4. CASE ~Listed(s)
    <3>1. {n \in DOMAIN Walk : Walk[n] = s} = {}
      BY <1>3, <2>2, <2>4
    <3>2. Cardinality({}) = 0
      BY FS_EmptySet
    <3> QED BY <2>1, <2>4, <3>1, <3>2
  <2> QED BY <2>3, <2>4
<1> QED BY <1>1, <1>4 DEF NothingIsLost

\* Every object is the one its static points to, and the static is on the list
\* once, but for the moment before RegisterManagedStatic links it and while
\* destroy calls its deleter.
THEOREM NoneIsLost == Spec => []NothingIsLost
<1>1. Init => StaticsInv
  BY InitStatics
<1>2. StaticsInv /\ [Next]_vars => StaticsInv'
  BY NextStatics
<1> QED BY <1>1, <1>2, OnceOnTheList, PTL DEF Spec

-----------------------------------------------------------------------------
(* llvm_shutdown, and the order of destruction                             *)

LEMMA OnlyShutdownEnds ==
  ASSUME Next, shutdowns' # shutdowns
  PROVE  \E t \in Threads : ShutdownEnds(t)
<1>1. PICK t \in Threads : ClientStep(t) \/ LibraryStep(t)
  BY DEF Next
<1>2. ~ClientStep(t)
  BY DEF ClientStep, Start, llvm_start_multithreaded, Shutdown, mode
<1>3. CASE LibraryStep(t)
  BY <1>3 DEF LibraryStep, UseStatic, LockMutex, UnlockMutex, Return, ReadPtr, AcquireGlobalLock,
     Publish, Link, ReleaseGlobalLock, Deref, destroy, Destroyed, mode
<1> QED BY <1>1, <1>2, <1>3

\* When llvm_shutdown returns, no static is left, those included that
\* destructors constructed again, and no mutex is held.
THEOREM ShutdownIsComplete == Spec => ShutdownLeavesNothing
<1>1. Init => StaticsInv
  BY InitStatics
<1>2. StaticsInv /\ [Next]_vars => StaticsInv'
  BY NextStatics
<1>3. ASSUME StaticsInv, Next, shutdowns' # shutdowns
      PROVE  /\ \A s \in Statics \ Immortal : Ptr'[s] = 0 /\ ~DeleterFn'[s]
             /\ {o[1] : o \in objects'} \subseteq Immortal
             /\ \A m \in DOMAIN mutex' : mutex'[m].owner = Nobody
  <2>1. PICK t \in Threads : ShutdownEnds(t)
    BY <1>3, OnlyShutdownEnds
  <2>2. DOMAIN mutex' = Statics \cup {GlobalLock}
    BY <1>3, <2>1 DEF ShutdownEnds, StaticsInv, TypeOK
  <2> QED BY <1>3, <2>1, <2>2, ShutdownEndsKeeps
<1>4. StaticsInv /\ [Next]_vars =>
        [shutdowns' # shutdowns =>
          /\ \A s \in Statics \ Immortal : Ptr'[s] = 0 /\ ~DeleterFn'[s]
          /\ {o[1] : o \in objects'} \subseteq Immortal
          /\ \A m \in DOMAIN mutex' : mutex'[m].owner = Nobody]_vars
  <2>1. UNCHANGED vars => shutdowns' = shutdowns
    BY DEF vars
  <2> QED BY <1>3, <2>1
<1> QED BY <1>1, <1>2, <1>4, PTL DEF Spec, ShutdownLeavesNothing

\* The list, from the oldest on.
ByAge == [n \in DOMAIN Walk |-> Walk[Len(Walk) + 1 - n]]
Reversed(w) == [n \in DOMAIN w |-> w[Len(w) + 1 - n]]

LEMMA ReversedSeq ==
  ASSUME NEW S, NEW w \in Seq(S)
  PROVE  /\ Reversed(w) \in Seq(S) /\ Len(Reversed(w)) = Len(w)
         /\ DOMAIN Reversed(w) = 1 .. Len(w)
         /\ \A n \in 1 .. Len(w) : Len(w) + 1 - n \in 1 .. Len(w)
                                    /\ Reversed(w)[n] = w[Len(w) + 1 - n]
<1>1. /\ Len(w) \in Nat /\ DOMAIN w = 1 .. Len(w)
      /\ \A n \in 1 .. Len(w) : w[n] \in S
  BY LenProperties, ElementOfSeq
<1>2. \A n \in 1 .. Len(w) : Len(w) + 1 - n \in 1 .. Len(w)
  BY <1>1
<1>3. Reversed(w) \in [1 .. Len(w) -> S]
  BY <1>1, <1>2 DEF Reversed
<1>4. Reversed(w) \in Seq(S) /\ Len(Reversed(w)) = Len(w)
  BY <1>1, <1>3, SeqDef
<1> QED BY <1>1, <1>2, <1>3, <1>4 DEF Reversed

LEMMA ReversedLonger ==
  ASSUME NEW w \in Seq(Statics), NEW s \in Statics
  PROVE  Reversed(<<s>> \o w) = Append(Reversed(w), s)
<1> DEFINE v == <<s>> \o w
           a == Append(Reversed(w), s)
           m == Len(w)
<1>1. /\ v \in Seq(Statics) /\ Len(v) = m + 1 /\ m \in Nat
      /\ v[1] = s /\ \A i \in 1 .. m : v[i + 1] = w[i]
  BY Prepended
<1>2. /\ Reversed(w) \in Seq(Statics) /\ Len(Reversed(w)) = m
      /\ \A n \in 1 .. m : m + 1 - n \in 1 .. m /\ Reversed(w)[n] = w[m + 1 - n]
  BY ReversedSeq
<1>3. /\ a \in Seq(Statics) /\ Len(a) = m + 1
      /\ \A n \in 1 .. m : a[n] = Reversed(w)[n]
      /\ a[m + 1] = s
  BY <1>2, AppendProperties
<1> HIDE DEF v, a, m
<1>4. /\ Reversed(v) \in Seq(Statics) /\ Len(Reversed(v)) = m + 1
      /\ \A n \in 1 .. m + 1 : Reversed(v)[n] = v[m + 1 + 1 - n]
  BY <1>1, ReversedSeq
<1>5. ASSUME NEW n \in 1 .. m + 1 PROVE Reversed(v)[n] = a[n]
  <2>1. CASE n = m + 1
    <3>1. m + 1 + 1 - n = 1
      BY <1>1, <2>1
    <3> QED BY <1>1, <1>3, <1>4, <2>1, <3>1
  <2>2. CASE n # m + 1
    <3>1. n \in 1 .. m /\ m + 1 + 1 - n = m + 1 - n + 1
      BY <1>1, <2>2
    <3>2. m + 1 - n \in 1 .. m /\ Reversed(w)[n] = w[m + 1 - n]
      BY <1>2, <3>1
    <3>3. Reversed(v)[n] = v[m + 1 - n + 1]
      BY <1>4, <3>1
    <3>4. v[m + 1 - n + 1] = w[m + 1 - n]
      BY <1>1, <3>2
    <3> QED BY <1>3, <3>1, <3>2, <3>3, <3>4
  <2> QED BY <2>1, <2>2
<1>6. Reversed(v) = a
  BY <1>3, <1>4, <1>5, SeqEqual
<1> QED BY <1>6 DEF v, a

LEMMA ReversedShorter ==
  ASSUME NEW w \in Seq(Statics), w # <<>>
  PROVE  /\ Reversed(Tail(w)) = SubSeq(Reversed(w), 1, Len(Reversed(w)) - 1)
         /\ Reversed(w) # <<>>
<1> DEFINE v == Tail(w)
           m == Len(w)
           r == Reversed(w)
           a == SubSeq(r, 1, m - 1)
<1>1. /\ v \in Seq(Statics) /\ Len(v) = m - 1 /\ m \in Nat /\ m # 0
      /\ \A i \in 1 .. m - 1 : v[i] = w[i + 1]
  BY HeadTailProperties, LenProperties, EmptySeq
<1>2. /\ r \in Seq(Statics) /\ Len(r) = m
      /\ \A n \in 1 .. m : m + 1 - n \in 1 .. m /\ r[n] = w[m + 1 - n]
  BY ReversedSeq
<1>3. /\ Reversed(v) \in Seq(Statics) /\ Len(Reversed(v)) = m - 1
      /\ \A n \in 1 .. m - 1 : m - 1 + 1 - n \in 1 .. m - 1 /\ Reversed(v)[n] = v[m - 1 + 1 - n]
  <2>1. /\ Reversed(v) \in Seq(Statics) /\ Len(Reversed(v)) = Len(v)
        /\ \A n \in 1 .. Len(v) : Len(v) + 1 - n \in 1 .. Len(v) /\ Reversed(v)[n] = v[Len(v) + 1 - n]
    BY <1>1, ReversedSeq
  <2>2. Len(v) = m - 1
    BY <1>1
  <2> HIDE DEF v, m
  <2> QED BY <2>1, <2>2
<1> HIDE DEF v, m, r
<1>4. /\ a \in Seq(Statics) /\ Len(a) = m - 1
      /\ \A n \in 1 .. m - 1 : a[n] = r[n]
  <2>1. \A i \in 1 .. m - 1 : r[i] \in Statics
    BY <1>1, <1>2, ElementOfSeq
  <2>2. /\ a \in Seq(Statics) /\ Len(a) = IF 1 <= m - 1 THEN m - 1 - 1 + 1 ELSE 0
        /\ \A i \in 1 .. m - 1 - 1 + 1 : a[i] = r[1 + i - 1]
    BY <1>1, <2>1, SubSeqProperties
  <2> QED BY <1>1, <2>2
<1>5. ASSUME NEW n \in 1 .. m - 1 PROVE Reversed(v)[n] = a[n]
  <2>1. /\ n \in 1 .. m /\ m - 1 + 1 - n \in 1 .. m - 1 /\ m - 1 + 1 - n + 1 = m + 1 - n
    BY <1>1, <1>3
  <2>2. Reversed(v)[n] = w[m + 1 - n]
    BY <1>1, <1>3, <2>1
  <2> QED BY <1>2, <1>4, <2>1, <2>2
<1>6. Reversed(v) = a
  BY <1>3, <1>4, <1>5, SeqEqual
<1>7. r # <<>>
  BY <1>1, <1>2, EmptySeq
<1> QED BY <1>2, <1>6, <1>7 DEF v, r

\* Every step but Link and destroy leaves the list alone.
LEMMA OtherSteps ==
  ASSUME Next, NextStatic' # NextStatic \/ StaticList' # StaticList
  PROVE  \E t \in Threads : Link(t) \/ destroy(t)
<1>1. PICK t \in Threads : ClientStep(t) \/ LibraryStep(t)
  BY DEF Next
<1>2. ~ClientStep(t)
  BY DEF ClientStep, Start, llvm_start_multithreaded, Shutdown, list
<1>3. CASE LibraryStep(t)
  BY <1>3 DEF LibraryStep, UseStatic, LockMutex, UnlockMutex, Return, ReadPtr, AcquireGlobalLock,
     Publish, ReleaseGlobalLock, Deref, Destroyed, ShutdownEnds, list
<1> QED BY <1>1, <1>2, <1>3

LEMMA ByAgeIs == ByAge = Reversed(Walk) /\ ByAge' = Reversed(Walk')
BY DEF ByAge, Reversed

LEMMA LinkConstructs ==
  ASSUME StaticsInv, NEW t \in Threads, Link(t), NEW s, s = Top(t).s
  PROVE  /\ s \in Statics \ Immortal
         /\ s \notin {ByAge[i] : i \in DOMAIN ByAge}
         /\ ByAge' = Append(ByAge, s)
<1> DEFINE longer == <<s>> \o Walk
<1>1. PICK order \in Seq(Statics) : IsList(order)
  BY DEF StaticsInv, Lists
<1>2. Walk = order
  BY <1>1, WalkIsList
<1> DEFINE more == <<s>> \o order
<1>3. s \in Statics \ Immortal /\ ~Listed(s)
  BY LinkKeeps
<1>4. more \in Seq(Statics)
  BY <1>3, Prepended
<1>5. IsList(more)'
  <2> SUFFICES ASSUME NEW m, m = more PROVE IsList(m)'
    OBVIOUS
  <2> QED BY <1>1, LinkKeeps
<1>6. Walk' = more
  <2> SUFFICES ASSUME NEW m, m = more PROVE Walk' = m
    OBVIOUS
  <2> QED BY <1>4, <1>5, WalkIsList
<1>7. ByAge' = Append(ByAge, s)
  BY <1>2, <1>3, <1>6, ByAgeIs, ReversedLonger
<1>8. ASSUME NEW i \in DOMAIN ByAge, ByAge[i] = s PROVE FALSE
  <2>1. ByAge = Reversed(order)
    BY <1>2, ByAgeIs
  <2>2. i \in 1 .. Len(order) /\ Len(order) + 1 - i \in 1 .. Len(order)
        /\ order[Len(order) + 1 - i] = s
    BY <1>8, <2>1, ReversedSeq
  <2>3. Listed(s)
    BY <1>1, <1>3, <2>2 DEF IsList
  <2> QED BY <1>3, <2>3
<1> QED BY <1>3, <1>7, <1>8

LEMMA DestroyDestroys ==
  ASSUME StaticsInv, NEW t \in Threads, destroy(t)
  PROVE  ByAge # <<>> /\ ByAge' = SubSeq(ByAge, 1, Len(ByAge) - 1)
<1>1. PICK order \in Seq(Statics) : IsList(order)
  BY DEF StaticsInv, Lists
<1>2. Walk = order
  BY <1>1, WalkIsList
<1> DEFINE less == Tail(order)
<1>3. less \in Seq(Statics) /\ order # <<>> /\ IsList(less)'
  <2> SUFFICES ASSUME NEW l, l = less PROVE l \in Seq(Statics) /\ order # <<>> /\ IsList(l)'
    OBVIOUS
  <2> QED BY <1>1, DestroyKeeps
<1>4. Walk' = less
  <2> SUFFICES ASSUME NEW l, l = less PROVE Walk' = l
    OBVIOUS
  <2> QED BY <1>3, WalkIsList
<1> QED BY <1>2, <1>3, <1>4, ByAgeIs, ReversedShorter

\* Every step is one of Lifetimes: linking a static constructs it, unlinking one
\* destroys the youngest, and no other step changes the list.
THEOREM DestroyedInReverse == Spec => InReverseOrder
<1>1. Init => StaticsInv
  BY InitStatics
<1>2. StaticsInv /\ [Next]_vars => StaticsInv'
  BY NextStatics
<1>3. Init => Promise!Init
  <2> SUFFICES ASSUME Init PROVE ByAge = <<>>
    BY DEF Promise!Init, ByAge
  <2>1. PICK order \in Seq(Statics) : IsList(order)
    BY InitStatics DEF StaticsInv, Lists
  <2>2. order = <<>>
    <3>1. StaticList = None
      BY DEF Init
    <3>2. order # <<>> => order[1] \in Statics
      BY LenProperties, ElementOfSeq, EmptySeq
    <3> QED BY <2>1, <3>1, <3>2, StaticsAssumption DEF IsList
  <2>3. ByAge = Reversed(<<>>)
    BY <2>1, <2>2, WalkIsList, ByAgeIs
  <2>4. <<>> \in Seq(Statics) /\ Len(<<>>) = 0
    OBVIOUS
  <2>5. Reversed(<<>>) \in Seq(Statics) /\ Len(Reversed(<<>>)) = 0
    BY <2>4, ReversedSeq
  <2> QED BY <2>3, <2>5, EmptySeq
<1>4. StaticsInv /\ [Next]_vars => [Promise!Next]_ByAge
  <2> SUFFICES ASSUME StaticsInv, [Next]_vars PROVE Promise!Next \/ ByAge' = ByAge
    OBVIOUS
  <2>1. CASE NextStatic' = NextStatic /\ StaticList' = StaticList
    <3>1. Walk' = Walk
      BY <2>1, WalkIsFrom
    <3> QED BY <3>1, ByAgeIs
  <2>2. CASE ~(NextStatic' = NextStatic /\ StaticList' = StaticList)
    <3>1. PICK t \in Threads : Link(t) \/ destroy(t)
      BY <2>2, OtherSteps DEF vars
    <3>2. CASE Link(t)
      <4> SUFFICES ASSUME NEW s, s = Top(t).s PROVE Promise!Next
        OBVIOUS
      <4>1. /\ s \in Statics \ Immortal
            /\ s \notin {ByAge[i] : i \in DOMAIN ByAge}
            /\ ByAge' = Append(ByAge, s)
        BY <3>2, LinkConstructs
      <4>2. Promise!Construct(s)
        BY <4>1 DEF Promise!Construct, Promise!Existing, ByAge
      <4> QED BY <4>1, <4>2 DEF Promise!Next
    <3>3. CASE destroy(t)
      <4>1. ByAge # <<>> /\ ByAge' = SubSeq(ByAge, 1, Len(ByAge) - 1)
        BY <3>3, DestroyDestroys
      <4>2. Promise!Destroy
        BY <4>1 DEF Promise!Destroy, ByAge
      <4> QED BY <4>2 DEF Promise!Next
    <3> QED BY <3>1, <3>2, <3>3
  <2> QED BY <2>1, <2>2
<1> QED BY <1>1, <1>2, <1>3, <1>4, PTL DEF Spec, InReverseOrder, Promise!Spec, ByAge
=============================================================================
