------------------------- MODULE JITEngineInvariant -------------------------
(***************************************************************************)
(* Why no body is ever lost, and why the address map agrees with the       *)
(* record of bodies: the inductive invariant that JITEngineProofs is       *)
(* about.  All of it is about who may change what while the JIT's lock is  *)
(* held, and by whom it is held.                                           *)
(***************************************************************************)
EXTENDS JITEngine

\* The clients that hold the lock over freeMachineCodeForFunction, and call
\* getPointerToFunctionOrStub only if the JIT compiles lazily.
CarefulClients ==
  /\ "freeUnlocked" \notin Operations
  /\ "orStub" \in Operations => Lazy

\* The target can reach every function that is compiled with a direct call.
NearCalls == FarCalls \subseteq External

\* Threads that deal with a function or a stub know which.
ThreadShape ==
  \A t \in Threads :
    /\ thread[t].pc \in {"lookup", "enter", "compiling", "callback", "unmapped",
                         "deallocated", "stubbing"} => thread[t].fn \in Functions
    /\ thread[t].pc \in {"resolved", "rewriting", "rewritten"} =>
         thread[t].via \in Functions

\* What is compiled is a function that has a body, and a body that is being
\* emitted is the last one.
JobShape ==
  /\ job.phase # "none" => job.fn \in Functions \ External
  /\ job.phase = "relocate" => Len(bodies) > 0

TypeInv == TypeOK /\ ThreadShape /\ JobShape

-----------------------------------------------------------------------------
Freeing(t) == thread[t].pc \in {"unmapped", "deallocated"}

\* The lock is held over steps by the thread that compiles or frees, and
\* only the thread that compiles has a job. Who asks for a stub, without the
\* lock, finds the JIT compiling lazily.
LockInv ==
  /\ \A t \in Threads : At(t, "stubbing") => Lazy
  /\ \A t \in Threads : lock = t <=> At(t, "compiling") \/ Freeing(t)
  /\ job.phase # "none" => \E t \in Threads : lock = t /\ At(t, "compiling")

\* The record of a function is one of its bodies, and the one that is being
\* emitted is on record and known already.
RecordInv ==
  /\ \A f \in Functions : EmittedFunctions[f] # 0 => bodies[EmittedFunctions[f]].fn = f
  /\ job.phase = "start" => EmittedFunctions[job.fn] = 0
  /\ job.phase = "relocate" =>
       /\ EmittedFunctions[job.fn] = Len(bodies)
       /\ GlobalAddressMap[job.fn] = Body(Len(bodies))

\* A thread that frees a function has removed its address, and then its body.
FreeInv ==
  \A t \in Threads :
    /\ Freeing(t) => GlobalAddressMap[thread[t].fn] = Null
    /\ At(t, "deallocated") => EmittedFunctions[thread[t].fn] \in {0} \cup Freed

\* A function without an address has no body, or is being freed.
NullInv ==
  \A f \in Functions : GlobalAddressMap[f] = Null =>
    EmittedFunctions[f] = 0 \/ \E t \in Threads : Freeing(t) /\ thread[t].fn = f

\* A function waits to be compiled at most once, while it is known by its
\* stub and has no body.
PendingInv ==
  /\ \A i \in DOMAIN PendingFunctions :
       /\ EmittedFunctions[PendingFunctions[i]] = 0
       /\ GlobalAddressMap[PendingFunctions[i]] # Null
       /\ stub[PendingFunctions[i]] # NoStub
       /\ job.phase \in {"start", "relocate"} => PendingFunctions[i] # job.fn
  /\ \A i, j \in DOMAIN PendingFunctions :
       PendingFunctions[i] = PendingFunctions[j] => i = j

\* MapAgreesWithRecord, of every function that is not being compiled.
MapInv ==
  \A f \in Functions : (job.phase \in {"start", "relocate"} => f # job.fn) =>
    \A i \in DOMAIN bodies : GlobalAddressMap[f] = Body(i) =>
      EmittedFunctions[f] = i /\ bodies[i].state = "finished"

TablesInv ==
  /\ LockInv
  /\ RecordInv
  /\ NoBodyIsLost
  /\ FreeInv
  /\ NullInv
  /\ PendingInv
  /\ MapInv

\* What holds between any two steps of the JIT: the types, and all of the above.
EngineInv == TypeInv /\ TablesInv

-----------------------------------------------------------------------------
(* Why threads only run finished code, and why every call is complete when *)
(* the lock is released.                                                   *)

\* The clients that do not free code a stub has been bound to.
BoundCodeStays == "freeStubbed" \notin Operations

\* The finished code of g, among the first n bodies.
CodeFor(g, n) ==
  {Body(i) : i \in {j \in 1 .. n : bodies[j].fn = g /\ bodies[j].state = "finished"}}
    \cup {Native(f) : f \in External \cap {g}}

\* A call of g that is at address a arrives without the code of later bodies.
Arrives(a, g, n) ==
  \/ a \in CodeFor(g, n)
  \/ a = Stub(g) /\ stub[g] \in CodeFor(g, n) \cup {Resolver, Torn}

\* The function the thread that compiles has been asked for.
Asked == thread[lock].fn

\* What is on the work list, or is being compiled because it was.
Waiting ==
  {PendingFunctions[i] : i \in DOMAIN PendingFunctions}
    \cup {f \in {job.fn} : job.pending /\ job.phase \in {"start", "relocate", "fill"}}

\* Only the last body is ever being emitted.
EmittingInv ==
  \A i \in DOMAIN bodies :
    bodies[i].state = "emitting" <=> job.phase = "relocate" /\ i = Len(bodies)

\* A stub leads to the code of its function, or to the resolver. It is empty
\* only while its function waits to be compiled, which happens eagerly.
StubInv ==
  /\ \A g \in Functions :
       stub[g] \in CodeFor(g, Len(bodies)) \cup {NoStub, Null, Resolver, Torn}
  /\ \A g \in Functions : stub[g] = Null <=> g \in Waiting
  /\ Lazy => Waiting = {}
  /\ job.phase = "none" => PendingFunctions = <<>>

\* A function is known by its code, unless that is being emitted, or by its
\* stub, unless that is for the resolver.
KnownInv ==
  \A g \in Functions :
    \/ job.phase \in {"start", "relocate"} /\ g = job.fn
    \/ GlobalAddressMap[g] \in CodeFor(g, Len(bodies)) \cup {Null}
    \/ GlobalAddressMap[g] = Stub(g) /\ stub[g] \notin {NoStub, Resolver, Torn}

\* The function that was asked for is compiled first, those that wait later.
AskedInv ==
  /\ job.phase # "none" => Asked \notin External
  /\ job.phase \in {"start", "relocate"} /\ ~job.pending => job.fn = Asked
  /\ \/ job.phase = "none"
     \/ job.phase \in {"start", "relocate"} /\ ~job.pending
     \/ GlobalAddressMap[Asked] \in CodeFor(Asked, Len(bodies))
  /\ job.phase = "fill" =>
       job.pending /\ GlobalAddressMap[job.fn] \in CodeFor(job.fn, Len(bodies))

\* A call leads to the code of its function, to a stub of it, or into the body
\* it is part of, once it has been relocated.
CallsInv ==
  \A i \in Live : \A g \in Calls[bodies[i].fn] :
    LET a == bodies[i].calls[g] IN
    \/ a \in CodeFor(g, Len(bodies))
    \/ a = Stub(g) /\ stub[g] # NoStub
    \/ /\ job.phase = "relocate" /\ i = Len(bodies)
       /\ g \notin job.todo => g = job.fn /\ a = Body(i)

\* Where a thread is says which address it has, and why.
Placed(t) ==
  /\ At(t, "idle") => thread[t] = AtRest
  /\ thread[t].pc \in {"run", "ready", "resolved", "rewriting", "rewritten"}
       <=> thread[t].at # Null
  /\ thread[t].pc \in {"callback", "resolved", "rewriting", "rewritten"} =>
       thread[t].via # NoFn
  /\ thread[t].pc \in {"ready", "run", "unmapped", "deallocated", "stubbing"} =>
       thread[t].via = NoFn
  /\ thread[t].via # NoFn => thread[t].fn = thread[t].via

ThreadInv == \A t \in Threads : Placed(t)

\* The first n bodies need none of the others.
Complete(n) ==
  /\ job.phase = "none" => n = Len(bodies)
  /\ job.phase = "relocate" => n < Len(bodies)
  /\ \A i \in Live : i <= n => \A g \in Calls[bodies[i].fn] :
       Arrives(bodies[i].calls[g], g, n)

\* The address t holds leads to code, without the others.
Holds(t, n) ==
  thread[t].at # Null =>
    /\ \E g \in Functions : Arrives(thread[t].at, g, n)
    /\ At(t, "ready") => Arrives(thread[t].at, thread[t].fn, n)
    /\ thread[t].via # NoFn => thread[t].at \in CodeFor(thread[t].via, n)

\* What threads hold, and what they run, was complete when the lock was last
\* free, and code that has been made since is not needed for it.
HeldInv ==
  \E n \in 0 .. Len(bodies) : Complete(n) /\ \A t \in Threads : Holds(t, n)

\* Thread t executes the stub of f, or is in the callback that it called.
Inside(t, f) == thread[t].via = f \/ (At(t, "run") /\ thread[t].at = Stub(f))

\* What a stub holds while t is in the callback that will bind it.
Unbound(t) == IF At(t, "rewritten") THEN Torn ELSE Resolver

\* A stub that has not been bound is executed by one thread at a time, and
\* half rewritten only by the one that is about to execute it again.
ResolveInv ==
  /\ \A t \in Threads : thread[t].via # NoFn =>
       stub[thread[t].via] = Unbound(t)
  /\ \A f \in Functions : stub[f] \in {Resolver, Torn} =>
       \A t, u \in Threads : Inside(t, f) /\ Inside(u, f) => t = u
  /\ \A f \in Functions : stub[f] = Torn =>
       \E t \in Threads : thread[t].via = f

\* Nothing leads to the code that is about to be freed.
UnreferencedInv ==
  \A t \in Threads : At(t, "unmapped") =>
    /\ thread[t].fn \notin External
    /\ ~HasAddress(thread[t].fn)
    /\ Unreferenced(thread[t].fn)

ReadyInv ==
  /\ EmittingInv
  /\ StubInv
  /\ KnownInv
  /\ AskedInv
  /\ CallsInv
  /\ ThreadInv
  /\ HeldInv
  /\ ResolveInv
  /\ UnreferencedInv

\* All of it, for clients that do not free code a stub has been bound to.
CodeInv == EngineInv /\ ReadyInv
=============================================================================
