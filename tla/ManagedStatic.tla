--------------------------- MODULE ManagedStatic ---------------------------
(***************************************************************************)
(* Statics that are constructed when they are first used, by any thread,   *)
(* and destroyed by llvm_shutdown: lib/Support/ManagedStatic.cpp, with the *)
(* multithreaded mode and the global lock of lib/System/Threading.cpp.     *)
(*                                                                         *)
(* What runs on top of it is data: a script is the sequence of statics     *)
(* that a piece of code uses and of mutexes it locks and unlocks, mutexes  *)
(* being statics themselves. Operations of clients, constructors and       *)
(* destructors are scripts; they nest, so a thread has a stack.            *)
(*                                                                         *)
(* Memory is sequentially consistent here, as the fences are there for.    *)
(***************************************************************************)
EXTENDS Integers, Sequences, FiniteSets

CONSTANTS
  Threads,
  Statics,
  Immortal,      \* made in the same way, but never registered for shutdown
  Creator,       \* the script of a static's constructor
  Deleter,       \* and of its destructor
  Startup,       \* the script of what runs before main
  Operations,    \* the scripts of what clients call
  MaxShutdowns,  \* bound: calls of llvm_shutdown
  Nobody, None, GlobalLock

Instructions == [op : {"use", "lock", "unlock"}, on : Statics]
Script == Seq(Instructions)

ASSUME StaticsAssumption ==
  /\ Immortal \subseteq Statics
  /\ Creator \in [Statics -> Script]
  /\ Deleter \in [Statics -> Script]
  /\ Startup \in Script /\ Operations \subseteq Script
  /\ MaxShutdowns \in Nat
  /\ Nobody \notin Threads
  /\ None \notin Statics /\ GlobalLock \notin Statics

Use(s)    == [op |-> "use", on |-> s]
Lock(m)   == [op |-> "lock", on |-> m]
Unlock(m) == [op |-> "unlock", on |-> m]

Uses(script) == {script[k].on : k \in {k \in DOMAIN script : script[k].op = "use"}}

\* The positions, from the end, of i among the last n instructions.
Places(script, i, n) == {k \in 0 .. n - 1 : script[Len(script) - k] = i}

\* How often the last n instructions unlock m more than they lock it.
Owed(script, m, n) ==
  Cardinality(Places(script, Unlock(m), n)) - Cardinality(Places(script, Lock(m), n))

\* Mutexes are locked and unlocked by the scopes of SmartScopedLocks, whose
\* constructor's argument, *M, uses the mutex.
WellScoped(script) ==
  /\ \A m \in Statics :
       /\ \A n \in 0 .. Len(script) : Owed(script, m, n) >= 0
       /\ Owed(script, m, Len(script)) = 0
  /\ \A k \in DOMAIN script : script[k].op = "lock" =>
       \E j \in 1 .. k - 1 : script[j] = Use(script[k].on)

\* Constructors do not use each other in a circle. Nor does the destructor of
\* a static construct what uses that static again: what it uses, and what the
\* constructors of that use, is within a set without it.
ASSUME ScriptsAssumption ==
  /\ IsFiniteSet(Statics)
  /\ \A s \in Statics : WellScoped(Creator[s]) /\ WellScoped(Deleter[s])
  /\ WellScoped(Startup) /\ \A script \in Operations : WellScoped(script)
  /\ \A S \in SUBSET Statics \ {{}} : \E s \in S : Uses(Creator[s]) \cap S = {}
  /\ \A s \in Statics : \E S \in SUBSET (Statics \ {s}) :
       /\ Uses(Deleter[s]) \ {s} \subseteq S
       /\ \A r \in S : Uses(Creator[r]) \subseteq S

VARIABLES
  multithreaded_mode,
  mutex,        \* who holds each mutex, and how many times
  Ptr,          \* the object of each static, by number, or 0
  DeleterFn,    \* is there a deleter?
  NextStatic,   \* the list of registered statics, latest first
  StaticList,
  objects,      \* those that have been constructed and not destroyed
  made,         \* how many objects there were of each static
  needs,        \* the objects its constructor used
  shutdowns,
  stack         \* each thread's frames: [pc, s, rest, got]

vars == <<multithreaded_mode, mutex, Ptr, DeleterFn, NextStatic, StaticList,
          objects, made, needs, shutdowns, stack>>
list == <<DeleterFn, NextStatic, StaticList>>
heap == <<Ptr, objects, made, needs>>
mode == <<multithreaded_mode, shutdowns>>

Frame(pc, s, rest) == [pc |-> pc, s |-> s, rest |-> rest, got |-> {}]

\* Nothing is constructed, and one thread is about to run what comes before
\* main.
Init ==
  /\ multithreaded_mode = FALSE
  /\ mutex = [m \in Statics \cup {GlobalLock} |-> [owner |-> Nobody, depth |-> 0]]
  /\ Ptr = [s \in Statics |-> 0]
  /\ DeleterFn = [s \in Statics |-> FALSE]
  /\ NextStatic = [s \in Statics |-> None]
  /\ StaticList = None
  /\ objects = {}
  /\ made = [s \in Statics |-> 0]
  /\ needs = [s \in Statics |-> {}]
  /\ shutdowns = 0
  /\ \E main \in Threads :
       stack = [t \in Threads |->
                  IF t = main THEN <<Frame("operation", None, Startup)>> ELSE <<>>]

Depth(t) == Len(stack[t])
Top(t)   == stack[t][Depth(t)]
At(t, pc) == Depth(t) > 0 /\ Top(t).pc = pc
Isolated(t) == \A u \in Threads \ {t} : stack[u] = <<>>

Goto(t, pc) == stack' = [stack EXCEPT ![t][Depth(t)].pc = pc]
Below(t) == SubSeq(stack[t], 1, Depth(t) - 1)

-----------------------------------------------------------------------------
(* Mutexes                                                                 *)

Available(t, m) == mutex[m].owner \in {Nobody, t}

\* A recursive mutex.
acquire(t, m) ==
  /\ Available(t, m)
  /\ mutex' = [mutex EXCEPT ![m] = [owner |-> t, depth |-> @.depth + 1]]

release(m) ==
  mutex' = [mutex EXCEPT ![m] = [owner |-> IF @.depth = 1 THEN Nobody ELSE @.owner,
                                 depth |-> @.depth - 1]]

-----------------------------------------------------------------------------
(* Clients                                                                 *)

\* Without the multithreaded mode, one thread at a time uses the library.
Start(t, script) ==
  /\ stack[t] = <<>>
  /\ multithreaded_mode \/ Isolated(t)
  /\ \A u \in Threads : ~\E i \in DOMAIN stack[u] : stack[u][i].pc = "shutdown"
  /\ stack' = [stack EXCEPT ![t] = <<Frame("operation", None, script)>>]
  /\ UNCHANGED <<mutex, list, heap, mode>>

\* "This must execute in isolation from all other LLVM API calls", as must
\* llvm_shutdown.
llvm_start_multithreaded(t) ==
  /\ stack[t] = <<>> /\ Isolated(t)
  /\ ~multithreaded_mode
  /\ multithreaded_mode' = TRUE
  /\ UNCHANGED <<mutex, list, heap, shutdowns, stack>>

Shutdown(t) ==
  /\ stack[t] = <<>> /\ Isolated(t)
  /\ shutdowns < MaxShutdowns
  /\ stack' = [stack EXCEPT ![t] = <<Frame("shutdown", None, <<>>)>>]
  /\ UNCHANGED <<mutex, list, heap, mode>>

-----------------------------------------------------------------------------
(* Scripts                                                                 *)

Running(t) == At(t, "operation") \/ At(t, "creator") \/ At(t, "deleter")

Head1(t) == Head(Top(t).rest)
Doing(t, op) == Running(t) /\ Top(t).rest # <<>> /\ Head1(t).op = op
Advanced(t) == [stack EXCEPT ![t][Depth(t)].rest = Tail(@)]

\* operator* or operator-> of a static is called.
UseStatic(t) ==
  /\ Doing(t, "use")
  /\ stack' = [Advanced(t) EXCEPT ![t] = Append(@, Frame("read", Head1(t).on, <<>>))]
  /\ UNCHANGED <<mutex, list, heap, mode>>

\* SmartMutex<true>: a mutex in multithreaded mode only.
LockMutex(t) ==
  /\ Doing(t, "lock")
  /\ IF multithreaded_mode THEN acquire(t, Head1(t).on) ELSE UNCHANGED mutex
  /\ stack' = Advanced(t)
  /\ UNCHANGED <<list, heap, mode>>

UnlockMutex(t) ==
  /\ Doing(t, "unlock")
  /\ IF multithreaded_mode THEN release(Head1(t).on) ELSE UNCHANGED mutex
  /\ stack' = Advanced(t)
  /\ UNCHANGED <<list, heap, mode>>

Return(t) ==
  /\ At(t, "operation")
  /\ Top(t).rest = <<>>
  /\ stack' = [stack EXCEPT ![t] = Below(t)]
  /\ UNCHANGED <<mutex, list, heap, mode>>

-----------------------------------------------------------------------------
(* Using a static: operator*, and RegisterManagedStatic.                   *)

CallCreator(t) ==
  stack' = [stack EXCEPT ![t][Depth(t)] = Frame("creator", Top(t).s, Creator[Top(t).s])]

\* The pointer is read without the lock.
ReadPtr(t) ==
  /\ At(t, "read")
  /\ IF Ptr[Top(t).s] # 0 THEN Goto(t, "deref")
     ELSE IF multithreaded_mode THEN Goto(t, "acquire")
     ELSE CallCreator(t)
  /\ UNCHANGED <<mutex, list, heap, mode>>

\* Mutant: the pointer is not looked at again.
AcquireAndCreate(t) ==
  /\ At(t, "acquire")
  /\ acquire(t, GlobalLock)
  /\ CallCreator(t)
  /\ UNCHANGED <<list, heap, mode>>

\* Mutant: the pointer is stored before the constructor has run.
AcquireAndPublish(t) ==
  LET s == Top(t).s IN
  /\ At(t, "acquire")
  /\ acquire(t, GlobalLock)
  /\ IF Ptr[s] = 0
     THEN CallCreator(t) /\ Ptr' = [Ptr EXCEPT ![s] = made[s] + 1]
     ELSE Goto(t, "release") /\ UNCHANGED Ptr
  /\ UNCHANGED <<list, objects, made, needs, mode>>

\* llvm_acquire_global_lock, and the pointer again.
AcquireGlobalLock(t) ==
  /\ At(t, "acquire")
  /\ acquire(t, GlobalLock)
  /\ IF Ptr[Top(t).s] = 0 THEN CallCreator(t) ELSE Goto(t, "release")
  /\ UNCHANGED <<list, heap, mode>>

Finish(t) == Goto(t, IF multithreaded_mode THEN "release" ELSE "deref")

\* The constructor is through: Ptr = tmp.
Publish(t) ==
  LET s == Top(t).s
      k == made[s] + 1
  IN
  /\ At(t, "creator")
  /\ Top(t).rest = <<>>
  /\ made' = [made EXCEPT ![s] = k]
  /\ objects' = objects \cup {<<s, k>>}
  /\ Ptr' = [Ptr EXCEPT ![s] = k]
  /\ needs' = [needs EXCEPT ![s] = Top(t).got]
  /\ IF s \in Immortal THEN Finish(t) ELSE Goto(t, "link")
  /\ UNCHANGED <<mutex, list, mode>>

\* Mutant: the static goes behind the first of the list.
LinkSecond(t) ==
  LET s == Top(t).s IN
  /\ At(t, "link")
  /\ DeleterFn' = [DeleterFn EXCEPT ![s] = TRUE]
  /\ IF StaticList = None
     THEN StaticList' = s /\ UNCHANGED NextStatic
     ELSE /\ NextStatic' = [NextStatic EXCEPT ![s] = NextStatic[StaticList],
                                              ![StaticList] = s]
          /\ UNCHANGED StaticList
  /\ Finish(t)
  /\ UNCHANGED <<mutex, heap, mode>>

\* Mutant: the rest of the list is forgotten.
LinkAlone(t) ==
  LET s == Top(t).s IN
  /\ At(t, "link")
  /\ DeleterFn' = [DeleterFn EXCEPT ![s] = TRUE]
  /\ StaticList' = s
  /\ Finish(t)
  /\ UNCHANGED <<NextStatic, mutex, heap, mode>>

\* "Add to list of managed statics."
Link(t) ==
  LET s == Top(t).s IN
  /\ At(t, "link")
  /\ DeleterFn' = [DeleterFn EXCEPT ![s] = TRUE]
  /\ NextStatic' = [NextStatic EXCEPT ![s] = StaticList]
  /\ StaticList' = s
  /\ Finish(t)
  /\ UNCHANGED <<mutex, heap, mode>>

\* Mutant: the lock is kept.
ReleaseNothing(t) ==
  /\ At(t, "release")
  /\ Goto(t, "deref")
  /\ UNCHANGED <<mutex, list, heap, mode>>

ReleaseGlobalLock(t) ==
  /\ At(t, "release")
  /\ release(GlobalLock)
  /\ Goto(t, "deref")
  /\ UNCHANGED <<list, heap, mode>>

\* Back to the caller, with the object the pointer leads to now.
Deref(t) ==
  LET s == Top(t).s IN
  /\ At(t, "deref")
  /\ stack' = [stack EXCEPT ![t] =
                 [Below(t) EXCEPT ![Depth(t) - 1].got = @ \cup {<<s, Ptr[s]>>}]]
  /\ UNCHANGED <<mutex, list, heap, mode>>

-----------------------------------------------------------------------------
(* llvm_shutdown                                                           *)

\* destroy: the first of the list is unlinked, and its deleter called.
destroy(t) ==
  LET s == StaticList IN
  /\ At(t, "shutdown")
  /\ s # None
  /\ StaticList' = NextStatic[s]
  /\ NextStatic' = [NextStatic EXCEPT ![s] = None]
  /\ stack' = [stack EXCEPT ![t] = Append(@, Frame("deleter", s, Deleter[s]))]
  /\ UNCHANGED <<DeleterFn, mutex, heap, mode>>

\* The deleter is through.
Destroyed(t) ==
  LET s == Top(t).s IN
  /\ At(t, "deleter")
  /\ Top(t).rest = <<>>
  /\ objects' = objects \ {<<s, Ptr[s]>>}
  /\ Ptr' = [Ptr EXCEPT ![s] = 0]
  /\ needs' = [needs EXCEPT ![s] = {}]
  /\ DeleterFn' = [DeleterFn EXCEPT ![s] = FALSE]
  /\ stack' = [stack EXCEPT ![t] = Below(t)]
  /\ UNCHANGED <<NextStatic, StaticList, made, mutex, mode>>

\* Mutant: for "while" an "if".
StopAtOnce(t) ==
  /\ At(t, "shutdown")
  /\ multithreaded_mode' = FALSE
  /\ shutdowns' = shutdowns + 1
  /\ stack' = [stack EXCEPT ![t] = <<>>]
  /\ UNCHANGED <<mutex, list, heap>>

\* Nothing is left: llvm_stop_multithreaded, if it was multithreaded.
ShutdownEnds(t) ==
  /\ At(t, "shutdown")
  /\ StaticList = None
  /\ multithreaded_mode' = FALSE
  /\ shutdowns' = shutdowns + 1
  /\ stack' = [stack EXCEPT ![t] = <<>>]
  /\ UNCHANGED <<mutex, list, heap>>

-----------------------------------------------------------------------------
ClientStep(t) ==
  \/ \E script \in Operations : Start(t, script)
  \/ llvm_start_multithreaded(t)
  \/ Shutdown(t)

LibraryStep(t) ==
  \/ UseStatic(t)
  \/ LockMutex(t)
  \/ UnlockMutex(t)
  \/ Return(t)
  \/ ReadPtr(t)
  \/ AcquireGlobalLock(t)
  \/ Publish(t)
  \/ Link(t)
  \/ ReleaseGlobalLock(t)
  \/ Deref(t)
  \/ destroy(t)
  \/ Destroyed(t)
  \/ ShutdownEnds(t)

Next == \E t \in Threads : ClientStep(t) \/ LibraryStep(t)

\* Threads are scheduled. Whoever waits for a mutex that is released again
\* and again obtains it in the end: in the program an operation that takes
\* a mutex does so finitely often, here it may be repeated for ever.
Fairness == \A t \in Threads : SF_vars(LibraryStep(t))

Spec == Init /\ [][Next]_vars /\ Fairness

-----------------------------------------------------------------------------
(* Properties                                                              *)

\* Every variable has its type, and mutexes are free or held.
TypeOK ==
  /\ multithreaded_mode \in BOOLEAN
  /\ mutex \in [Statics \cup {GlobalLock} ->
                  [owner : Threads \cup {Nobody}, depth : Nat]]
  /\ \A m \in DOMAIN mutex : mutex[m].owner = Nobody <=> mutex[m].depth = 0
  /\ Ptr \in [Statics -> Nat]
  /\ DeleterFn \in [Statics -> BOOLEAN]
  /\ NextStatic \in [Statics -> Statics \cup {None}]
  /\ StaticList \in Statics \cup {None}
  /\ objects \subseteq Statics \X Nat
  /\ made \in [Statics -> Nat]
  /\ needs \in [Statics -> SUBSET (Statics \X Nat)]
  /\ shutdowns \in 0 .. MaxShutdowns
  /\ stack \in [Threads -> Seq([
       pc : {"operation", "read", "acquire", "creator", "link", "release", "deref",
             "shutdown", "deleter"},
       s : Statics \cup {None}, rest : Script, got : SUBSET (Statics \X Nat)])]

\* Whoever uses a static gets an object that is there: its constructor has
\* run, and its memory has not been given back. A mutex that is held is, and
\* one that is free has been released as often as it was acquired (TypeOK).
ObjectsAreReady ==
  /\ TypeOK
  /\ \A t \in Threads : At(t, "deref") => <<Top(t).s, Ptr[Top(t).s]>> \in objects
  /\ \A m \in Statics : mutex[m].owner # Nobody => <<m, Ptr[m]>> \in objects

\* The list from StaticList on, as far as a list without a cycle can be.
Walk ==
  LET nth[n \in 1 .. Cardinality(Statics) + 1] ==
        IF n = 1 THEN StaticList
        ELSE IF nth[n - 1] = None THEN None ELSE NextStatic[nth[n - 1]]
      length == Cardinality({n \in DOMAIN nth : nth[n] # None})
  IN  [n \in 1 .. length |-> nth[n]]

Somewhere(s, pc) ==
  \E t \in Threads : \E i \in DOMAIN stack[t] : stack[t][i].pc = pc /\ stack[t][i].s = s

\* No object is lost: each is the one its static points to, and the static
\* is on the list once, unless it is about to be, or is being destroyed.
NothingIsLost ==
  /\ \A o \in objects : Ptr[o[1]] = o[2]
  /\ \A s \in Statics \ Immortal : Ptr[s] # 0 =>
       Cardinality({n \in DOMAIN Walk : Walk[n] = s}) =
         IF Somewhere(s, "link") \/ Somewhere(s, "deleter") THEN 0 ELSE 1

\* While an object exists, and until its destructor is through, the objects
\* its constructor used exist.
OutlivesItsUsers == \A s \in Statics \ Immortal : needs[s] \subseteq objects

\* After llvm_shutdown, whatever destructors constructed again, no static is
\* left and no mutex held.
ShutdownLeavesNothing ==
  [][shutdowns' # shutdowns =>
       /\ \A s \in Statics \ Immortal : Ptr'[s] = 0 /\ ~DeleterFn'[s]
       /\ {o[1] : o \in objects'} \subseteq Immortal
       /\ \A m \in DOMAIN mutex' : mutex'[m].owner = Nobody]_vars

\* The mutex thread t is waiting for, if any.
Wanted(t) ==
  CASE At(t, "acquire") -> {GlobalLock}
    [] Doing(t, "lock") /\ multithreaded_mode -> {Head1(t).on}
    [] OTHER -> {}

\* No threads wait for each other in a circle.
NoCircularWait ==
  \A T \in SUBSET Threads \ {{}} :
    ~\A t \in T : \E m \in Wanted(t) : mutex[m].owner \in T \ {t}

\* Every call of the library returns, llvm_shutdown included.
EveryCallReturns == \A t \in Threads : stack[t] # <<>> ~> stack[t] = <<>>

\* Statics are destroyed in the reverse order of construction.
Promise == INSTANCE Lifetimes
             WITH Statics <- Statics \ Immortal,
                  order <- [n \in DOMAIN Walk |-> Walk[Len(Walk) + 1 - n]]
InReverseOrder == Promise!Spec
=============================================================================
