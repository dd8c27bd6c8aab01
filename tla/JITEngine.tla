----------------------------- MODULE JITEngine -----------------------------
(***************************************************************************)
(* The JIT of lib/ExecutionEngine/JIT: threads ask for functions, run the  *)
(* code they get, and compile more of it when they run into a lazy stub,   *)
(* while other threads free code.  Modelled are JIT.cpp (getPointerTo-     *)
(* Function, the pending functions, the JIT lock), JITEmitter.cpp          *)
(* (emission, relocation, stubs, freeing), the address map of              *)
(* ExecutionEngine.cpp, and the stub of X86JITInfo.cpp that a callback     *)
(* rewrites while other threads may be executing it.                       *)
(*                                                                         *)
(* Code is data here: a body holds the addresses its calls were relocated  *)
(* to, and a thread runs by following them.  A call is followed like a     *)
(* jump, and a thread returns to its client from wherever it is.           *)
(***************************************************************************)
EXTENDS Integers, Sequences, FiniteSets

CONSTANTS
  Threads,
  Functions,
  External,     \* functions that are only declared: native code elsewhere
  Calls,        \* Calls[f] is the set of functions the body of f calls
  Lazy,         \* isCompilingLazily()
  FarCalls,     \* functions whose calls the target's emitter wants a far
                \* stub for (X86: none; ARM and PowerPC: all)
  Operations,   \* what clients do besides running code: see ClientStep
  MaxFreed,     \* bound: bodies given back, by clients and by retries
  NoThread, NoFn

ASSUME EngineAssumption ==
  /\ External \subseteq Functions
  /\ Calls \in [Functions -> SUBSET Functions]
  /\ \A f \in External : Calls[f] = {}
  /\ Lazy \in BOOLEAN
  /\ FarCalls \subseteq Functions
  /\ Operations \subseteq {"free", "freeStubbed", "freeUnlocked", "orStub"}
  /\ MaxFreed \in Nat
  /\ NoThread \notin Threads
  /\ NoFn \notin Functions

\* Addresses. Null is also what an empty stub jumps to.
Null      == [kind |-> "null"]
Body(i)   == [kind |-> "body", body |-> i]
Stub(f)   == [kind |-> "stub", fn |-> f]
Native(f) == [kind |-> "native", fn |-> f]

\* What else a stub may hold.
NoStub   == [kind |-> "none"]        \* there is no stub yet
Resolver == [kind |-> "resolver"]    \* a call of the compilation callback
Torn     == [kind |-> "torn"]        \* half rewritten

VARIABLES
  GlobalAddressMap,   \* the address each function is known by, or Null
  stub,               \* FunctionToLazyStubMap, and the code in the stub
  EmittedFunctions,   \* the body on record for each function, or 0
  bodies,             \* every body emitted: [fn, state, calls]
  PendingFunctions,   \* to compile before the lock is released
  lock,               \* who holds the JIT's lock across steps, or NoThread
  job,                \* what it compiles: [fn, phase, todo, pending]
  thread              \* each thread: [pc, fn, at, via]
                      \*   fn: the function asked for; at: an address held
                      \*   via: the function whose stub is being resolved

vars == <<GlobalAddressMap, stub, EmittedFunctions, bodies, PendingFunctions,
          lock, job, thread>>
tables == <<GlobalAddressMap, stub, EmittedFunctions, bodies, PendingFunctions>>

NoJob == [fn |-> NoFn, phase |-> "none", todo |-> {}, pending |-> FALSE]
Job(f, isPending) ==
  [fn |-> f, phase |-> "start", todo |-> {}, pending |-> isPending]
AtRest == [pc |-> "idle", fn |-> NoFn, at |-> Null, via |-> NoFn]

Init ==
  /\ GlobalAddressMap = [f \in Functions |-> Null]
  /\ stub = [f \in Functions |-> NoStub]
  /\ EmittedFunctions = [f \in Functions |-> 0]
  /\ bodies = <<>>
  /\ PendingFunctions = <<>>
  /\ lock = NoThread
  /\ job = NoJob
  /\ thread = [t \in Threads |-> AtRest]

Unlocked == lock = NoThread
At(t, pc) == thread[t].pc = pc
Goto(t, pc) == thread' = [thread EXCEPT ![t].pc = pc]

\* The map's entry for f changes to a, whatever it was, or from nothing.
updateGlobalMapping(f, a) == GlobalAddressMap' = [GlobalAddressMap EXCEPT ![f] = a]
addGlobalMapping(f, a)    == updateGlobalMapping(f, a)

Freed == {i \in DOMAIN bodies : bodies[i].state = "freed"}
Live  == DOMAIN bodies \ Freed
HasAddress(f) == stub[f].kind \in {"body", "native"}

\* Thread t has the address a it asked for: back to the client, or to the
\* callback that is resolving a stub.
Obtain(t, a) ==
  thread' = [thread EXCEPT ![t].at = a,
                           ![t].pc = IF thread[t].via = NoFn THEN "ready" ELSE "resolved"]

-----------------------------------------------------------------------------
(* Asking for a function.                                                  *)

\* getPointerToFunction is called.
Ask(t, f) ==
  /\ At(t, "idle")
  /\ thread' = [thread EXCEPT ![t].pc = "lookup", ![t].fn = f]
  /\ UNCHANGED <<tables, lock, job>>

\* Mutant: the map is read without the lock.
LookupUnlocked(t) ==
  /\ At(t, "lookup")
  /\ IF GlobalAddressMap[thread[t].fn] # Null
     THEN Obtain(t, GlobalAddressMap[thread[t].fn])
     ELSE Goto(t, "enter")
  /\ UNCHANGED <<tables, lock, job>>

\* getPointerToFunction: "Check if function already code gen'd".
Lookup(t) ==
  /\ At(t, "lookup")
  /\ Unlocked
  /\ IF GlobalAddressMap[thread[t].fn] # Null
     THEN Obtain(t, GlobalAddressMap[thread[t].fn])
     ELSE Goto(t, "enter")
  /\ UNCHANGED <<tables, lock, job>>

\* Mutant: "another thread has already code gen'd" it is not considered.
EnterAnyway(t) ==
  LET f == thread[t].fn IN
  /\ At(t, "enter")
  /\ Unlocked
  /\ IF f \in External
     THEN /\ addGlobalMapping(f, Native(f))
          /\ Obtain(t, Native(f))
          /\ UNCHANGED <<lock, job>>
     ELSE /\ lock' = t
          /\ job' = Job(f, FALSE)
          /\ Goto(t, "compiling")
          /\ UNCHANGED GlobalAddressMap
  /\ UNCHANGED <<stub, EmittedFunctions, bodies, PendingFunctions>>

\* getPointerToFunction with the lock: the map again, then an external
\* symbol, then the compiler.
Enter(t) ==
  LET f == thread[t].fn IN
  /\ At(t, "enter")
  /\ Unlocked
  /\ \/ /\ GlobalAddressMap[f] # Null
        /\ Obtain(t, GlobalAddressMap[f])
        /\ UNCHANGED <<GlobalAddressMap, lock, job>>
     \/ /\ GlobalAddressMap[f] = Null
        /\ f \in External
        /\ addGlobalMapping(f, Native(f))
        /\ Obtain(t, Native(f))
        /\ UNCHANGED <<lock, job>>
     \/ /\ GlobalAddressMap[f] = Null
        /\ f \notin External
        /\ lock' = t
        /\ job' = Job(f, FALSE)
        /\ Goto(t, "compiling")
        /\ UNCHANGED GlobalAddressMap
  /\ UNCHANGED <<stub, EmittedFunctions, bodies, PendingFunctions>>

-----------------------------------------------------------------------------
(* Compiling a function, with the lock held.                               *)

Compiles(t, phase) == lock = t /\ At(t, "compiling") /\ job.phase = phase

\* startFunction: the address is published before there is code at it.
startFunction(t) ==
  LET i == Len(bodies) + 1 IN
  /\ Compiles(t, "start")
  /\ bodies' = Append(bodies, [fn |-> job.fn, state |-> "emitting",
                               calls |-> [g \in Functions |-> Null]])
  /\ EmittedFunctions' = [EmittedFunctions EXCEPT ![job.fn] = i]
  /\ updateGlobalMapping(job.fn, Body(i))
  /\ job' = [job EXCEPT !.phase = "relocate", !.todo = Calls[job.fn]]
  /\ UNCHANGED <<stub, PendingFunctions, lock, thread>>

\* getLazyFunctionStub makes a stub for g: what it jumps to at first.
NewStub(g) ==
  CASE g \in External -> IF GlobalAddressMap[g] # Null
                         THEN GlobalAddressMap[g] ELSE Native(g)
    [] g \notin External /\ Lazy -> Resolver
    [] g \notin External /\ ~Lazy -> Null

\* Mutant: the function is put on the work list when compiling lazily too.
getLazyFunctionStubPending(g) ==
  IF stub[g] # NoStub
  THEN UNCHANGED <<stub, GlobalAddressMap, PendingFunctions>>
  ELSE /\ stub' = [stub EXCEPT ![g] = NewStub(g)]
       /\ IF NewStub(g) = Resolver THEN UNCHANGED GlobalAddressMap
                                   ELSE updateGlobalMapping(g, Stub(g))
       /\ PendingFunctions' = Append(PendingFunctions, g)

\* A stub that does not call the resolver becomes the function's address,
\* and one that has no address yet goes on the work list.
getLazyFunctionStub(g) ==
  IF stub[g] # NoStub
  THEN UNCHANGED <<stub, GlobalAddressMap, PendingFunctions>>
  ELSE /\ stub' = [stub EXCEPT ![g] = NewStub(g)]
       /\ IF NewStub(g) = Resolver THEN UNCHANGED GlobalAddressMap
                                   ELSE updateGlobalMapping(g, Stub(g))
       /\ PendingFunctions' =
            IF NewStub(g) = Null THEN Append(PendingFunctions, g)
            ELSE PendingFunctions

\* The call to g of the body being emitted is relocated to address a.
Bind(g, a) ==
  /\ bodies' = [bodies EXCEPT ![Len(bodies)].calls[g] = a]
  /\ job' = [job EXCEPT !.todo = @ \ {g}]

\* getPointerToGlobal for a call to g: the function's stub if there is one,
\* else what it is known by if that is near enough, else a new stub.
Relocate(t, g) ==
  LET direct == stub[g] = NoStub /\ g \notin FarCalls IN
  /\ Compiles(t, "relocate")
  /\ g \in job.todo
  /\ \/ /\ direct
        /\ GlobalAddressMap[g] # Null
        /\ Bind(g, GlobalAddressMap[g])
        /\ UNCHANGED <<stub, GlobalAddressMap, PendingFunctions>>
     \/ /\ direct
        /\ GlobalAddressMap[g] = Null
        /\ g \in External
        /\ addGlobalMapping(g, Native(g))
        /\ Bind(g, Native(g))
        /\ UNCHANGED <<stub, PendingFunctions>>
     \/ /\ direct => GlobalAddressMap[g] = Null /\ g \notin External
        /\ Bind(g, Stub(g))
        /\ getLazyFunctionStub(g)
  /\ UNCHANGED <<EmittedFunctions, lock, thread>>

\* finishFunction finds the buffer full, before or after relocation:
\* retryWithMoreMemory gives the body back, and emission starts again. The
\* address of the body that is gone stays in the map until then.
retryWithMoreMemory(t) ==
  /\ Compiles(t, "relocate")
  /\ job.todo \in {{}, Calls[job.fn]}
  /\ Cardinality(Freed) < MaxFreed
  /\ bodies' = [bodies EXCEPT ![Len(bodies)].state = "freed"]
  /\ EmittedFunctions' = [EmittedFunctions EXCEPT ![job.fn] = 0]
  /\ job' = Job(job.fn, job.pending)
  /\ UNCHANGED <<GlobalAddressMap, stub, PendingFunctions, lock, thread>>

finishFunction(t) ==
  /\ Compiles(t, "relocate")
  /\ job.todo = {}
  /\ bodies' = [bodies EXCEPT ![Len(bodies)].state = "finished"]
  /\ job' = [job EXCEPT !.phase = IF job.pending THEN "fill" ELSE "next"]
  /\ UNCHANGED <<GlobalAddressMap, stub, EmittedFunctions, PendingFunctions,
                 lock, thread>>

\* A function of the work list has been compiled: its stub gets its address.
updateFunctionStub(t) ==
  /\ Compiles(t, "fill")
  /\ stub' = [stub EXCEPT ![job.fn] = GlobalAddressMap[job.fn]]
  /\ job' = [job EXCEPT !.phase = "next"]
  /\ UNCHANGED <<GlobalAddressMap, EmittedFunctions, bodies, PendingFunctions,
                 lock, thread>>

\* Mutant: the function stays on the work list.
NextPendingKept(t) ==
  /\ Compiles(t, "next")
  /\ PendingFunctions # <<>>
  /\ job' = Job(PendingFunctions[Len(PendingFunctions)], TRUE)
  /\ UNCHANGED <<tables, lock, thread>>

\* runJITOnFunctionUnlocked takes the last function of the work list.
NextPending(t) ==
  LET n == Len(PendingFunctions) IN
  /\ Compiles(t, "next")
  /\ n > 0
  /\ job' = Job(PendingFunctions[n], TRUE)
  /\ PendingFunctions' = SubSeq(PendingFunctions, 1, n - 1)
  /\ UNCHANGED <<GlobalAddressMap, stub, EmittedFunctions, bodies, lock, thread>>

\* Mutant: one round of the work list, for "while" an "if".
CompiledOneRound(t) ==
  /\ Compiles(t, "next")
  /\ job.pending \/ PendingFunctions = <<>>
  /\ job' = NoJob
  /\ lock' = NoThread
  /\ Obtain(t, GlobalAddressMap[thread[t].fn])
  /\ UNCHANGED tables

\* getPointerToFunction returns the address the compiler published.
Compiled(t) ==
  /\ Compiles(t, "next")
  /\ PendingFunctions = <<>>
  /\ job' = NoJob
  /\ lock' = NoThread
  /\ Obtain(t, GlobalAddressMap[thread[t].fn])
  /\ UNCHANGED tables

-----------------------------------------------------------------------------
(* Running code.                                                           *)

\* In a threaded program the client ensures that one thread at a time calls
\* a lazy stub: while another resolves it, t keeps out.
MayCall(t, a) ==
  a.kind = "stub" /\ stub[a.fn] \in {Resolver, Torn} =>
    \A u \in Threads \ {t} : thread[u].via # a.fn /\ ~(At(u, "run") /\ thread[u].at = a)

Run(t, a) ==
  thread' = [thread EXCEPT ![t] = [pc |-> "run", fn |-> NoFn, at |-> a, via |-> NoFn]]

\* The client calls the address it asked for.
RunCode(t) ==
  /\ At(t, "ready")
  /\ MayCall(t, thread[t].at)
  /\ Run(t, thread[t].at)
  /\ UNCHANGED <<tables, lock, job>>

\* The code t is in calls g.
Call(t, g) ==
  LET a == thread[t].at IN
  /\ At(t, "run")
  /\ a.kind = "body"
  /\ bodies[a.body].state = "finished"
  /\ g \in Calls[bodies[a.body].fn]
  /\ MayCall(t, bodies[a.body].calls[g])
  /\ Run(t, bodies[a.body].calls[g])
  /\ UNCHANGED <<tables, lock, job>>

Return(t) ==
  /\ At(t, "run")
  /\ thread[t].at.kind \in {"body", "native"}
  /\ thread' = [thread EXCEPT ![t] = AtRest]
  /\ UNCHANGED <<tables, lock, job>>

\* t is at a stub: it jumps on, or calls the compilation callback.
ThroughStub(t) ==
  LET a == thread[t].at IN
  /\ At(t, "run")
  /\ a.kind = "stub"
  /\ \/ /\ HasAddress(a.fn)
        /\ Run(t, stub[a.fn])
     \/ /\ stub[a.fn] = Resolver
        /\ thread' = [thread EXCEPT ![t] = [pc |-> "callback", fn |-> a.fn,
                                            at |-> Null, via |-> a.fn]]
  /\ UNCHANGED <<tables, lock, job>>

\* JITCompilerFn: the function of the stub, and its code if there is some;
\* else getPointerToFunction.
JITCompilerFn(t) ==
  /\ At(t, "callback")
  /\ Unlocked
  /\ IF GlobalAddressMap[thread[t].fn] # Null
     THEN Obtain(t, GlobalAddressMap[thread[t].fn])
     ELSE Goto(t, "lookup")
  /\ UNCHANGED <<tables, lock, job>>

\* "Reacquire the lock to update the GOT map."
ReacquireLock(t) ==
  /\ At(t, "resolved")
  /\ Unlocked
  /\ Goto(t, "rewriting")
  /\ UNCHANGED <<tables, lock, job>>

\* X86CompilationCallback2 rewrites the stub with two stores, without the
\* lock. Storing what is there already changes nothing.
RewriteStub(t) ==
  /\ At(t, "rewriting")
  /\ stub' = [stub EXCEPT ![thread[t].via] = IF @ = thread[t].at THEN @ ELSE Torn]
  /\ Goto(t, "rewritten")
  /\ UNCHANGED <<GlobalAddressMap, EmittedFunctions, bodies, PendingFunctions,
                 lock, job>>

\* Mutant: the return address is left alone, and nothing is called.
ResumeAfterStub(t) ==
  /\ At(t, "rewritten")
  /\ stub' = [stub EXCEPT ![thread[t].via] = thread[t].at]
  /\ thread' = [thread EXCEPT ![t] = AtRest]
  /\ UNCHANGED <<GlobalAddressMap, EmittedFunctions, bodies, PendingFunctions,
                 lock, job>>

\* The second store, and the return address that executes the stub again.
ReexecuteStub(t) ==
  /\ At(t, "rewritten")
  /\ stub' = [stub EXCEPT ![thread[t].via] = thread[t].at]
  /\ Run(t, Stub(thread[t].via))
  /\ UNCHANGED <<GlobalAddressMap, EmittedFunctions, bodies, PendingFunctions,
                 lock, job>>

-----------------------------------------------------------------------------
(* Freeing code, and asking for a stub.                                    *)

CodeOf(f) == {Body(i) : i \in {j \in DOMAIN bodies : bodies[j].fn = f}}

\* No thread holds an address that leads to f's code, and no code calls one.
Unreferenced(f) ==
  LET ways == IF HasAddress(f) THEN CodeOf(f) \cup {Stub(f)} ELSE CodeOf(f) IN
  /\ \A u \in Threads : thread[u].at \notin ways
  /\ \A i \in Live : bodies[i].fn # f => \A g \in Calls[bodies[i].fn] :
                       bodies[i].calls[g] \notin ways

\* Mutant: the function keeps its address.
FreeKeepingMapping(t, f) ==
  /\ At(t, "idle")
  /\ Unlocked
  /\ thread' = [thread EXCEPT ![t].pc = "unmapped", ![t].fn = f]
  /\ lock' = IF "freeUnlocked" \in Operations THEN lock ELSE t
  /\ UNCHANGED <<tables, job>>

\* freeMachineCodeForFunction: first the mapping goes. A client that shares
\* the JIT holds its lock over the call.
freeMachineCodeForFunction(t, f) ==
  /\ At(t, "idle")
  /\ Unlocked
  /\ updateGlobalMapping(f, Null)
  /\ thread' = [thread EXCEPT ![t].pc = "unmapped", ![t].fn = f]
  /\ lock' = IF "freeUnlocked" \in Operations THEN lock ELSE t
  /\ UNCHANGED <<stub, EmittedFunctions, bodies, PendingFunctions, job>>

\* deallocateMemForFunction, called without the lock, gives the body back.
deallocateMemForFunction(t) ==
  LET i == EmittedFunctions[thread[t].fn] IN
  /\ At(t, "unmapped")
  /\ bodies' = IF i = 0 THEN bodies ELSE [bodies EXCEPT ![i].state = "freed"]
  /\ Goto(t, "deallocated")
  /\ UNCHANGED <<GlobalAddressMap, stub, EmittedFunctions, PendingFunctions,
                 lock, job>>

\* NotifyFreeingMachineCode waits for the lock; then the record is erased.
EraseRecord(t) ==
  /\ At(t, "deallocated")
  /\ lock \in {NoThread, t}
  /\ EmittedFunctions' = [EmittedFunctions EXCEPT ![thread[t].fn] = 0]
  /\ lock' = NoThread
  /\ thread' = [thread EXCEPT ![t] = AtRest]
  /\ UNCHANGED <<GlobalAddressMap, stub, bodies, PendingFunctions, job>>

\* getPointerToFunctionOrStub: the map, then getLazyFunctionStub.
AskOrStub(t, f) ==
  /\ At(t, "idle")
  /\ Unlocked
  /\ thread' = [thread EXCEPT ![t] =
       IF GlobalAddressMap[f] # Null
       THEN [pc |-> "ready", fn |-> f, at |-> GlobalAddressMap[f], via |-> NoFn]
       ELSE [pc |-> "stubbing", fn |-> f, at |-> Null, via |-> NoFn]]
  /\ UNCHANGED <<tables, lock, job>>

ObtainStub(t) ==
  /\ At(t, "stubbing")
  /\ Unlocked
  /\ getLazyFunctionStub(thread[t].fn)
  /\ Obtain(t, Stub(thread[t].fn))
  /\ UNCHANGED <<EmittedFunctions, bodies, lock, job>>

-----------------------------------------------------------------------------
\* What clients choose to do. The operations a run allows:
\*   "free"          code nothing refers to any more, with the lock held,
\*                   and not if a stub has been bound to it
\*   "freeStubbed"   the same, whatever the function's stub holds
\*   "freeUnlocked"  the same as "free", without the lock
\*   "orStub"        getPointerToFunctionOrStub
MayFree(f) ==
  /\ EmittedFunctions[f] # 0
  /\ Unreferenced(f)
  /\ Cardinality(Freed) < MaxFreed
  /\ \/ Operations \cap {"free", "freeUnlocked"} # {} /\ ~HasAddress(f)
     \/ "freeStubbed" \in Operations

ClientStep(t) ==
  \/ \E f \in Functions : Ask(t, f)
  \/ \E f \in Functions : MayFree(f) /\ freeMachineCodeForFunction(t, f)
  \/ "orStub" \in Operations /\ \E f \in Functions : AskOrStub(t, f)
  \/ \E g \in Functions : Call(t, g)
  \/ Return(t)

\* What the JIT does for a thread, or the processor on its way to code.
EngineStep(t) ==
  \/ Lookup(t)
  \/ Enter(t)
  \/ startFunction(t)
  \/ \E g \in Functions : Relocate(t, g)
  \/ retryWithMoreMemory(t)
  \/ finishFunction(t)
  \/ updateFunctionStub(t)
  \/ NextPending(t)
  \/ Compiled(t)
  \/ RunCode(t)
  \/ ThroughStub(t)
  \/ JITCompilerFn(t)
  \/ ReacquireLock(t)
  \/ RewriteStub(t)
  \/ ReexecuteStub(t)
  \/ deallocateMemForFunction(t)
  \/ EraseRecord(t)
  \/ ObtainStub(t)

Next == \E t \in Threads : ClientStep(t) \/ EngineStep(t)

\* Threads are scheduled. The lock may be contended for ever in principle,
\* but every function is compiled finitely often.
Fairness == \A t \in Threads : WF_vars(EngineStep(t))

Spec == Init /\ [][Next]_vars /\ Fairness

-----------------------------------------------------------------------------
(* Properties                                                              *)

Address ==
  {Null} \cup {Body(i) : i \in DOMAIN bodies} \cup {Stub(f) : f \in Functions}
         \cup {Native(f) : f \in External}

ThreadState ==
  [pc : {"idle", "lookup", "enter", "compiling", "ready", "run", "callback",
         "resolved", "rewriting", "rewritten", "unmapped", "deallocated",
         "stubbing"},
   fn : Functions \cup {NoFn}, at : Address, via : Functions \cup {NoFn}]

BodyState ==
  [fn : Functions \ External, state : {"emitting", "finished", "freed"},
   calls : [Functions -> Address]]

\* Every variable has its type; only defined functions have bodies.
TypeOK ==
  /\ GlobalAddressMap \in [Functions -> Address]
  /\ stub \in [Functions -> Address \cup {NoStub, Resolver, Torn}]
  /\ EmittedFunctions \in [Functions -> 0 .. Len(bodies)]
  /\ bodies \in Seq(BodyState)
  /\ PendingFunctions \in Seq(Functions \ External)
  /\ lock \in Threads \cup {NoThread}
  /\ job \in [fn : Functions \cup {NoFn}, todo : SUBSET Functions, pending : BOOLEAN,
              phase : {"none", "start", "relocate", "fill", "next"}]
  /\ thread \in [Threads -> ThreadState]

\* A thread only ever executes finished code: its address is published when
\* emission starts, a stub is rewritten under its feet, and bodies go away,
\* but it never runs code that is not written yet, or no longer there, and
\* never a stub that is empty or half rewritten.
CodeIsReady ==
  \A t \in Threads : At(t, "run") =>
    LET a == thread[t].at IN
    CASE a.kind = "body"   -> bodies[a.body].state = "finished"
      [] a.kind = "stub"   -> stub[a.fn].kind \in {"body", "native", "resolver"}
      [] a.kind = "native" -> TRUE
      [] OTHER -> FALSE

\* Every body that has not been given back is the one on record for its
\* function: no function is compiled twice, by two threads or by a retry,
\* and freeMachineCodeForFunction can free all of its code.
NoBodyIsLost == \A i \in Live : EmittedFunctions[bodies[i].fn] = i

\* When nobody holds the lock, a function that is known by a body is known
\* by the one on record, which is finished.
MapAgreesWithRecord ==
  Unlocked => \A f \in Functions : \A i \in DOMAIN bodies :
    GlobalAddressMap[f] = Body(i) => EmittedFunctions[f] = i /\ bodies[i].state = "finished"

\* Address a leads to the code of g without compiling anything.
LeadsTo(a, g) ==
  LET direct(b) == \/ g \in External /\ b = Native(g)
                   \/ \E i \in Live : /\ b = Body(i)
                                      /\ bodies[i].fn = g
                                      /\ bodies[i].state = "finished"
  IN  direct(a) \/ (a = Stub(g) /\ direct(stub[g]))

\* "The JIT will eagerly compile every function reachable": with the lock
\* released, every call of every body leads to the code of its function.
EagerIsComplete ==
  Unlocked => \A i \in Live : \A g \in Calls[bodies[i].fn] :
                LeadsTo(bodies[i].calls[g], g)

\* When compiling lazily, "the JIT will only compile the one function" it is
\* asked for.
CompilesOnlyTheOne ==
  [][Len(bodies') > Len(bodies) => bodies'[Len(bodies')].fn = thread[lock].fn]_vars

\* "This is never called when the JIT is currently emitting a function": the
\* memory manager is given a body back only when no other is being emitted.
FreesBetweenEmissions ==
  [][\A i \in DOMAIN bodies : bodies'[i].state = "freed" /\ bodies[i].state # "freed" =>
       \A j \in DOMAIN bodies \ {i} : bodies[j].state # "emitting"]_vars

\* What a thread does, whatever the JIT does for it.
Where(a) ==
  CASE a.kind = "body" /\ bodies[a.body].state = "finished" ->
         [phase |-> "running", fn |-> bodies[a.body].fn]
    [] a.kind = "native" -> [phase |-> "running", fn |-> a.fn]
    [] a.kind = "stub" /\ stub[a.fn].kind \in {"body", "native", "resolver"} ->
         [phase |-> "calling", fn |-> a.fn]
    [] OTHER -> [phase |-> "crashed"]

Doing(t) ==
  CASE thread[t].pc \in {"idle", "unmapped", "deallocated"} -> [phase |-> "idle"]
    [] At(t, "run") -> Where(thread[t].at)
    [] OTHER -> [phase |-> "calling", fn |-> thread[t].fn]

Direct == INSTANCE Program WITH doing <- [t \in Threads |-> Doing(t)]

\* The JIT runs the program: a thread that calls a function arrives in that
\* function's code, and it always arrives.
RunsTheProgram == Direct!Spec
=============================================================================
