-------------------------- MODULE JITEngineProofs --------------------------
(***************************************************************************)
(* Proofs about JITEngine, for every program, number of threads and bound: *)
(* its variables have their types, no body is lost, and the address map    *)
(* agrees with the record of bodies whenever the lock is free.             *)
(***************************************************************************)
EXTENDS JITEngineInvariant, SequenceTheorems, TLAPS

-----------------------------------------------------------------------------
(* Addresses                                                               *)

LEMMA Kinds ==
  /\ Null.kind = "null"
  /\ \A i : Body(i).kind = "body" /\ Body(i).body = i
  /\ \A f : Stub(f).kind = "stub" /\ Stub(f).fn = f
  /\ \A f : Native(f).kind = "native" /\ Native(f).fn = f
  /\ NoStub.kind = "none" /\ Resolver.kind = "resolver" /\ Torn.kind = "torn"
BY DEF Null, Stub, Native, Body, NoStub, Resolver, Torn

LEMMA AddressFacts ==
  /\ Null \in Address
  /\ \A f \in Functions : Stub(f) \in Address
  /\ \A f \in External : Native(f) \in Address
  /\ \A i \in DOMAIN bodies : Body(i) \in Address
  /\ \A a \in Address : a.kind = "stub" => a.fn \in Functions
  /\ NoStub \notin Address
<1>1. \A a \in Address : \/ a = Null
                         \/ \E i \in DOMAIN bodies : a = Body(i)
                         \/ \E f \in Functions : a = Stub(f)
                         \/ \E f \in External : a = Native(f)
  BY DEF Address
<1> QED
  BY <1>1, Kinds DEF Address

LEMMA AddressesStay ==
  ASSUME DOMAIN bodies \subseteq DOMAIN bodies'
  PROVE  Address \subseteq Address'
BY DEF Address

LEMMA AddressesDiffer ==
  /\ \A f : Stub(f) # Null /\ Native(f) # Null
  /\ \A i : Body(i) # Null
  /\ \A f, i : Stub(f) # Body(i) /\ Native(f) # Body(i)
  /\ \A i, j : Body(i) = Body(j) => i = j
  /\ Resolver # Null /\ NoStub # Null /\ Resolver # NoStub /\ Torn # NoStub
  /\ \A f : Stub(f) # Resolver /\ Native(f) # Resolver
BY Kinds

-----------------------------------------------------------------------------
(* What becomes of a thread                                                *)

Places == {"idle", "lookup", "enter", "compiling", "ready", "run", "callback",
           "resolved", "rewriting", "rewritten", "unmapped", "deallocated",
           "stubbing"}

LEMMA GotoChanges ==
  ASSUME NEW t \in Threads, NEW pc \in Places, Goto(t, pc),
         thread \in [Threads -> ThreadState]
  PROVE  /\ thread' \in [Threads -> ThreadState]
         /\ \A u \in Threads \ {t} : thread'[u] = thread[u]
         /\ thread'[t].pc = pc
         /\ thread'[t].fn = thread[t].fn
         /\ thread'[t].at = thread[t].at
         /\ thread'[t].via = thread[t].via
<1>1. thread' \in [Threads -> ThreadState]
  BY DEF Goto, ThreadState, Places
<1>2. \A u \in Threads \ {t} : thread'[u] = thread[u]
  BY DEF Goto, ThreadState
<1>3. thread'[t].pc = pc /\ thread'[t].fn = thread[t].fn
  BY DEF Goto, ThreadState
<1>4. thread'[t].at = thread[t].at /\ thread'[t].via = thread[t].via
  BY DEF Goto, ThreadState
<1> QED
  BY <1>1, <1>2, <1>3, <1>4

LEMMA ObtainChanges ==
  ASSUME NEW t \in Threads, NEW a \in Address, Obtain(t, a),
         thread \in [Threads -> ThreadState]
  PROVE  /\ thread' \in [Threads -> ThreadState]
         /\ \A u \in Threads \ {t} : thread'[u] = thread[u]
         /\ thread'[t].pc \in {"ready", "resolved"}
         /\ thread'[t].pc = "resolved" => thread[t].via \in Functions
         /\ thread'[t].fn = thread[t].fn
         /\ thread'[t].at = a
         /\ thread'[t].via = thread[t].via
<1> DEFINE pc == IF thread[t].via = NoFn THEN "ready" ELSE "resolved"
<1>1. pc \in Places /\ pc \in {"ready", "resolved"}
  BY DEF Places
<1>2. pc = "resolved" => thread[t].via \in Functions
  BY DEF ThreadState
<1>3. thread' = [thread EXCEPT ![t].at = a, ![t].pc = pc]
  BY DEF Obtain
<1> HIDE DEF pc
<1>4. thread' \in [Threads -> ThreadState]
  BY <1>1, <1>3 DEF ThreadState, Places
<1>5. \A u \in Threads \ {t} : thread'[u] = thread[u]
  BY <1>3 DEF ThreadState
<1>6. thread'[t].pc = pc /\ thread'[t].fn = thread[t].fn
  BY <1>3 DEF ThreadState
<1>7. thread'[t].at = a /\ thread'[t].via = thread[t].via
  BY <1>3 DEF ThreadState
<1> QED
  BY <1>1, <1>2, <1>4, <1>5, <1>6, <1>7

-----------------------------------------------------------------------------
(* Types                                                                   *)

\* Nothing has an address that is forgotten when bodies are added or change.
LEMMA SameAddresses ==
  ASSUME DOMAIN bodies' = DOMAIN bodies
  PROVE  Address' = Address /\ ThreadState' = ThreadState /\ BodyState' = BodyState
BY DEF Address, ThreadState, BodyState

\* Only a thread changes, and to something it may be.
LEMMA ThreadSteps ==
  ASSUME TypeInv, NEW t \in Threads,
         UNCHANGED <<tables, lock, job>>,
         thread' \in [Threads -> ThreadState],
         \A u \in Threads \ {t} : thread'[u] = thread[u],
         thread'[t].pc \in {"lookup", "enter", "compiling", "callback", "unmapped",
                            "deallocated", "stubbing"} => thread'[t].fn \in Functions,
         thread'[t].pc \in {"resolved", "rewriting", "rewritten"} =>
           thread'[t].via \in Functions
  PROVE  TypeInv'
<1>1. Address' = Address /\ ThreadState' = ThreadState /\ BodyState' = BodyState
  BY SameAddresses DEF tables
<1>2. TypeOK'
  BY <1>1 DEF TypeInv, TypeOK, tables
<1>3. ThreadShape'
  BY DEF TypeInv, ThreadShape
<1>4. JobShape'
  BY DEF TypeInv, JobShape, tables
<1> QED
  BY <1>2, <1>3, <1>4 DEF TypeInv

LEMMA AskTypes ==
  ASSUME TypeInv, NEW t \in Threads, NEW f \in Functions, Ask(t, f)
  PROVE  TypeInv'
<1>1. thread \in [Threads -> ThreadState]
  BY DEF TypeInv, TypeOK
<1>2. thread' = [thread EXCEPT ![t].pc = "lookup", ![t].fn = f]
  BY DEF Ask
<1>3. thread' \in [Threads -> ThreadState]
  BY <1>1, <1>2 DEF ThreadState
<1>4. \A u \in Threads \ {t} : thread'[u] = thread[u]
  BY <1>1, <1>2
<1>5. thread'[t].pc = "lookup" /\ thread'[t].fn = f
  BY <1>1, <1>2 DEF ThreadState
<1> QED
  BY <1>3, <1>4, <1>5, ThreadSteps DEF Ask

\* The steps that give a thread the address it asked for, or send it on.
LEMMA AddressIsKnown ==
  ASSUME TypeInv, NEW f \in Functions
  PROVE  GlobalAddressMap[f] \in Address
BY DEF TypeInv, TypeOK

LEMMA LookupTypes ==
  ASSUME TypeInv, NEW t \in Threads,
         \/ Lookup(t) 
         \/ JITCompilerFn(t)
         \/ ReacquireLock(t)
  PROVE  TypeInv'
<1> DEFINE f == thread[t].fn
<1>0. thread \in [Threads -> ThreadState]
  BY DEF TypeInv, TypeOK
<1>1. CASE At(t, "lookup") \/ At(t, "callback")
  <2>1. f \in Functions /\ GlobalAddressMap[f] \in Address
    BY <1>1, AddressIsKnown DEF At, TypeInv, ThreadShape
  <2>2. UNCHANGED <<tables, lock, job>>
    BY DEF Lookup, JITCompilerFn, ReacquireLock
  <2>3. \/ Obtain(t, GlobalAddressMap[f])
        \/ Goto(t, "enter")
        \/ Goto(t, "lookup")
    BY <1>1 DEF Lookup, JITCompilerFn, ReacquireLock, At
  <2>4. CASE Obtain(t, GlobalAddressMap[f])
    BY <1>0, <2>1, <2>2, <2>4, ObtainChanges, ThreadSteps
  <2>5. CASE Goto(t, "enter") \/ Goto(t, "lookup")
    <3>1. "enter" \in Places /\ "lookup" \in Places
      BY DEF Places
    <3> QED
      BY <1>0, <2>1, <2>2, <2>5, <3>1, GotoChanges, ThreadSteps
  <2> QED
    BY <2>3, <2>4, <2>5
<1>2. CASE At(t, "resolved")
  <2>1. UNCHANGED <<tables, lock, job>> /\ Goto(t, "rewriting")
    BY <1>2 DEF Lookup, JITCompilerFn, ReacquireLock, At
  <2>2. "rewriting" \in Places /\ thread[t].via \in Functions
    BY <1>2 DEF Places, TypeInv, ThreadShape, At
  <2> QED
    BY <1>0, <2>1, <2>2, GotoChanges, ThreadSteps
<1> QED
  BY <1>1, <1>2 DEF Lookup, JITCompilerFn, ReacquireLock

LEMMA BodyOfAddress ==
  ASSUME TypeInv, NEW a \in Address, a.kind = "body"
  PROVE  /\ a.body \in DOMAIN bodies
         /\ bodies[a.body].calls \in [Functions -> Address]
<1>1. \A b \in Address : \/ b = Null
                         \/ \E i \in DOMAIN bodies : b = Body(i)
                         \/ \E f \in Functions : b = Stub(f)
                         \/ \E f \in External : b = Native(f)
  BY DEF Address
<1>2. a.body \in DOMAIN bodies
  BY <1>1, Kinds
<1>3. bodies \in Seq(BodyState)
  BY DEF TypeInv, TypeOK
<1>4. bodies[a.body] \in BodyState
  BY <1>2, <1>3, LenProperties
<1> QED
  BY <1>2, <1>4 DEF BodyState

\* A thread runs from an address.
LEMMA RunTypes ==
  ASSUME TypeInv, NEW t \in Threads,
         UNCHANGED <<tables, lock, job>>,
         NEW a \in Address, Run(t, a)
  PROVE  TypeInv'
<1> DEFINE r == [pc |-> "run", fn |-> NoFn, at |-> a, via |-> NoFn]
<1>1. thread \in [Threads -> ThreadState]
  BY DEF TypeInv, TypeOK
<1>2. r \in ThreadState /\ r.pc = "run"
  BY DEF ThreadState
<1>3. thread' = [thread EXCEPT ![t] = r]
  BY DEF Run
<1> HIDE DEF r
<1>4. thread' \in [Threads -> ThreadState] /\ thread'[t].pc = "run"
  BY <1>1, <1>2, <1>3
<1>5. \A u \in Threads \ {t} : thread'[u] = thread[u]
  BY <1>1, <1>3
<1> QED
  BY <1>4, <1>5, ThreadSteps

LEMMA AtRestTypes ==
  /\ AtRest \in ThreadState
  /\ AtRest.pc = "idle" /\ AtRest.at = Null
BY AddressFacts DEF AtRest, ThreadState

LEMMA CodeTypes ==
  ASSUME TypeInv, NEW t \in Threads,
         \/ RunCode(t)
         \/ \E g \in Functions : Call(t, g)
         \/ Return(t)
         \/ ThroughStub(t)
  PROVE  TypeInv'
<1> DEFINE a == thread[t].at
<1>1. thread \in [Threads -> ThreadState]
  BY DEF TypeInv, TypeOK
<1>2. a \in Address
  BY <1>1 DEF ThreadState
<1>3. UNCHANGED <<tables, lock, job>>
  BY DEF RunCode, Call, Return, ThroughStub
<1>4. CASE RunCode(t)
  BY <1>2, <1>3, <1>4, RunTypes DEF RunCode
<1>5. CASE \E g \in Functions : Call(t, g)
  <2>1. PICK g \in Functions : Call(t, g)
    BY <1>5
  <2>2. bodies[a.body].calls[g] \in Address
    BY <1>2, <2>1, BodyOfAddress DEF Call
  <2> QED
    BY <1>3, <2>1, <2>2, RunTypes DEF Call
<1>6. CASE Return(t)
  <2>1. thread' = [thread EXCEPT ![t] = AtRest]
    BY <1>6 DEF Return
  <2>2. thread' \in [Threads -> ThreadState] /\ thread'[t].pc = "idle"
    BY <1>1, <2>1, AtRestTypes
  <2>3. \A u \in Threads \ {t} : thread'[u] = thread[u]
    BY <1>1, <2>1
  <2> QED
    BY <1>3, <2>2, <2>3, ThreadSteps
<1>7. CASE ThroughStub(t)
  <2>1. a.kind = "stub" /\ a.fn \in Functions
    BY <1>2, <1>7, AddressFacts DEF ThroughStub
  <2>2. CASE HasAddress(a.fn) /\ Run(t, stub[a.fn])
    <3>1. stub[a.fn] \in Address \cup {NoStub, Resolver, Torn}
      BY <2>1 DEF TypeInv, TypeOK
    <3>2. stub[a.fn] \in Address
      BY <2>2, <3>1, Kinds DEF HasAddress
    <3> QED
      BY <1>3, <2>2, <3>2, RunTypes
  <2>3. CASE thread' = [thread EXCEPT ![t] = [pc |-> "callback", fn |-> a.fn,
                                              at |-> Null, via |-> a.fn]]
    <3> DEFINE r == [pc |-> "callback", fn |-> a.fn, at |-> Null, via |-> a.fn]
    <3>1. r \in ThreadState /\ r.pc = "callback" /\ r.fn = a.fn
      BY <2>1, AddressFacts DEF ThreadState
    <3>2. thread' = [thread EXCEPT ![t] = r]
      BY <2>3
    <3> HIDE DEF r
    <3>3. /\ thread' \in [Threads -> ThreadState]
          /\ thread'[t].pc = "callback"
          /\ thread'[t].fn \in Functions
      BY <1>1, <2>1, <3>1, <3>2
    <3>4. \A u \in Threads \ {t} : thread'[u] = thread[u]
      BY <1>1, <3>2
    <3> QED
      BY <1>3, <3>3, <3>4, ThreadSteps
  <2> QED
    BY <1>7, <2>2, <2>3 DEF ThroughStub
<1> QED
  BY <1>4, <1>5, <1>6, <1>7

LEMMA AskOrStubTypes ==
  ASSUME TypeInv, NEW t \in Threads, NEW f \in Functions, AskOrStub(t, f)
  PROVE  TypeInv'
<1> DEFINE r == IF GlobalAddressMap[f] # Null
                THEN [pc |-> "ready", fn |-> f, at |-> GlobalAddressMap[f], via |-> NoFn]
                ELSE [pc |-> "stubbing", fn |-> f, at |-> Null, via |-> NoFn]
<1>1. thread \in [Threads -> ThreadState]
  BY DEF TypeInv, TypeOK
<1>2. r \in ThreadState /\ r.pc \in {"ready", "stubbing"} /\ r.fn = f
  BY AddressIsKnown, AddressFacts DEF ThreadState
<1>3. thread' = [thread EXCEPT ![t] = r]
  BY DEF AskOrStub
<1> HIDE DEF r
<1>4. /\ thread' \in [Threads -> ThreadState]
      /\ thread'[t].pc \in {"ready", "stubbing"}
      /\ thread'[t].fn \in Functions
  BY <1>1, <1>2, <1>3
<1>5. \A u \in Threads \ {t} : thread'[u] = thread[u]
  BY <1>1, <1>3
<1> QED
  BY <1>4, <1>5, ThreadSteps DEF AskOrStub

\* The types of jobs and of what the tables hold.
LEMMA Jobs ==
  /\ NoJob.phase = "none" /\ NoJob.fn = NoFn /\ NoJob.todo = {} /\ NoJob.pending = FALSE
  /\ \A f, b : /\ Job(f, b).fn = f
               /\ Job(f, b).phase = "start"
               /\ Job(f, b).todo = {}
               /\ Job(f, b).pending = b
BY DEF NoJob, Job

JobState ==
  [fn : Functions \cup {NoFn}, todo : SUBSET Functions, pending : BOOLEAN,
   phase : {"none", "start", "relocate", "fill", "next"}]

LEMMA JobsAreTyped ==
  /\ NoJob \in JobState
  /\ \A f \in Functions, b \in BOOLEAN : Job(f, b) \in JobState
BY DEF NoJob, Job, JobState

LEMMA EnterTypes ==
  ASSUME TypeInv, NEW t \in Threads, Enter(t)
  PROVE  TypeInv'
<1> DEFINE f == thread[t].fn
<1>1. thread \in [Threads -> ThreadState]
  BY DEF TypeInv, TypeOK
<1>2. f \in Functions
  BY DEF Enter, At, TypeInv, ThreadShape
<1>3. Address' = Address /\ ThreadState' = ThreadState /\ BodyState' = BodyState
  BY SameAddresses DEF Enter
<1>4. UNCHANGED <<stub, EmittedFunctions, bodies, PendingFunctions>>
  BY DEF Enter
<1>5. CASE /\ Obtain(t, GlobalAddressMap[f])
           /\ UNCHANGED <<GlobalAddressMap, lock, job>>
  BY <1>1, <1>2, <1>4, <1>5, AddressIsKnown, ObtainChanges, ThreadSteps DEF tables
<1>6. CASE /\ f \in External
           /\ addGlobalMapping(f, Native(f))
           /\ Obtain(t, Native(f))
           /\ UNCHANGED <<lock, job>>
  <2>1. Native(f) \in Address
    BY <1>6, AddressFacts
  <2>2. GlobalAddressMap' \in [Functions -> Address]
    BY <1>6, <2>1 DEF TypeInv, TypeOK, addGlobalMapping, updateGlobalMapping
  <2>3. thread' \in [Threads -> ThreadState]
    BY <1>1, <1>6, <2>1, ObtainChanges
  <2>4. TypeOK'
    BY <1>3, <1>4, <1>6, <2>2, <2>3 DEF TypeInv, TypeOK
  <2>5. ThreadShape'
    BY <1>1, <1>6, <2>1, ObtainChanges DEF TypeInv, ThreadShape
  <2>6. JobShape'
    BY <1>4, <1>6 DEF TypeInv, JobShape
  <2> QED
    BY <2>4, <2>5, <2>6 DEF TypeInv
<1>7. CASE /\ f \notin External
           /\ lock' = t
           /\ job' = Job(f, FALSE)
           /\ Goto(t, "compiling")
           /\ UNCHANGED GlobalAddressMap
  <2>1. "compiling" \in Places
    BY DEF Places
  <2>2. thread' \in [Threads -> ThreadState]
    BY <1>1, <1>7, <2>1, GotoChanges
  <2>3. job' \in JobState /\ job'.phase = "start" /\ job'.fn = f
    BY <1>2, <1>7, JobsAreTyped, Jobs
  <2>4. TypeOK'
    BY <1>3, <1>4, <1>7, <2>2, <2>3 DEF TypeInv, TypeOK, JobState
  <2>5. ThreadShape'
    BY <1>1, <1>2, <1>7, <2>1, GotoChanges DEF TypeInv, ThreadShape
  <2>6. JobShape'
    BY <1>2, <1>7, <2>3 DEF JobShape
  <2> QED
    BY <2>4, <2>5, <2>6 DEF TypeInv
<1> QED
  BY <1>5, <1>6, <1>7 DEF Enter

\* A step that changes neither a thread nor the lock.
LEMMA ShapesStay ==
  ASSUME TypeInv, UNCHANGED thread
  PROVE  ThreadShape'
BY DEF TypeInv, ThreadShape

LEMMA StartTypes ==
  ASSUME EngineAssumption, TypeInv, NEW t \in Threads, startFunction(t)
  PROVE  TypeInv'
<1> DEFINE n == Len(bodies)
           b == [fn |-> job.fn, state |-> "emitting", calls |-> [g \in Functions |-> Null]]
<1>1. bodies \in Seq(BodyState) /\ n \in Nat /\ job \in JobState
  BY LenProperties DEF TypeInv, TypeOK, JobState
<1>2. job.fn \in Functions \ External
  BY DEF TypeInv, JobShape, startFunction, Compiles
<1>3. bodies' = Append(bodies, b)
  BY DEF startFunction
<1>4. Len(bodies') = n + 1 /\ DOMAIN bodies = 1 .. n /\ DOMAIN bodies' = 1 .. n + 1
  BY <1>1, <1>3
<1>5. Address \subseteq Address'
  BY <1>1, <1>4, AddressesStay
<1>6. ThreadState \subseteq ThreadState' /\ BodyState \subseteq BodyState'
  BY <1>5 DEF ThreadState, BodyState
<1>7. b \in BodyState'
  BY <1>2, <1>5, AddressFacts DEF BodyState
<1>8. bodies' \in Seq(BodyState')
  <2>1. bodies \in Seq(BodyState')
    BY <1>1, <1>6
  <2> QED
    BY <1>3, <1>7, <2>1
<1>9. Body(n + 1) \in Address'
  BY <1>1, <1>4 DEF Address
<1>10. GlobalAddressMap' \in [Functions -> Address']
  BY <1>2, <1>5, <1>9 DEF TypeInv, TypeOK, startFunction, updateGlobalMapping
<1>11. stub' \in [Functions -> Address' \cup {NoStub, Resolver, Torn}]
  BY <1>5 DEF TypeInv, TypeOK, startFunction
<1>12. EmittedFunctions' \in [Functions -> 0 .. Len(bodies')]
  BY <1>1, <1>2, <1>4 DEF TypeInv, TypeOK, startFunction
<1>13. job' \in JobState /\ job'.fn = job.fn /\ job'.phase = "relocate"
  <2>1. Calls[job.fn] \in SUBSET Functions
    BY <1>2 DEF EngineAssumption
  <2>2. job' = [job EXCEPT !.phase = "relocate", !.todo = Calls[job.fn]]
    BY DEF startFunction
  <2> QED
    BY <1>1, <2>1, <2>2 DEF JobState
<1>14. thread' \in [Threads -> ThreadState']
  BY <1>6 DEF TypeInv, TypeOK, startFunction
<1>15. TypeOK'
  BY <1>8, <1>10, <1>11, <1>12, <1>13, <1>14 DEF TypeInv, TypeOK, startFunction, JobState
<1>16. JobShape'
  BY <1>1, <1>2, <1>4, <1>13 DEF JobShape
<1> QED
  BY <1>15, <1>16, ShapesStay DEF TypeInv, startFunction

\* A body changes its state, or where a call of it leads.
LEMMA StateChanges ==
  ASSUME bodies \in Seq(BodyState), NEW i \in DOMAIN bodies,
         NEW st \in {"emitting", "finished", "freed"},
         bodies' = [bodies EXCEPT ![i].state = st]
  PROVE  /\ bodies' \in Seq(BodyState)
         /\ Len(bodies') = Len(bodies) /\ DOMAIN bodies' = DOMAIN bodies
         /\ \A j \in DOMAIN bodies : /\ bodies'[j].fn = bodies[j].fn
                                     /\ j # i => bodies'[j] = bodies[j]
         /\ bodies'[i].state = st
<1>1. /\ Len(bodies) \in Nat
      /\ DOMAIN bodies = 1 .. Len(bodies)
      /\ bodies \in [1 .. Len(bodies) -> BodyState]
  BY LenProperties
<1>2. bodies' \in [1 .. Len(bodies) -> BodyState]
  BY <1>1 DEF BodyState
<1>3. bodies' \in Seq(BodyState) /\ Len(bodies') = Len(bodies)
  BY <1>1, <1>2
<1>4. \A j \in DOMAIN bodies : j # i => bodies'[j] = bodies[j]
  BY <1>1
<1>5. bodies'[i].fn = bodies[i].fn /\ bodies'[i].state = st
  BY <1>1 DEF BodyState
<1> QED
  BY <1>1, <1>2, <1>3, <1>4, <1>5

LEMMA CallChanges ==
  ASSUME bodies \in Seq(BodyState), NEW i \in DOMAIN bodies,
         NEW g \in Functions, NEW a \in Address,
         bodies' = [bodies EXCEPT ![i].calls[g] = a]
  PROVE  /\ bodies' \in Seq(BodyState)
         /\ Len(bodies') = Len(bodies) /\ DOMAIN bodies' = DOMAIN bodies
         /\ \A j \in DOMAIN bodies : /\ bodies'[j].fn = bodies[j].fn
                                     /\ bodies'[j].state = bodies[j].state
<1>1. /\ Len(bodies) \in Nat
      /\ DOMAIN bodies = 1 .. Len(bodies)
      /\ bodies \in [1 .. Len(bodies) -> BodyState]
  BY LenProperties
<1>2. bodies' \in [1 .. Len(bodies) -> BodyState]
  BY <1>1 DEF BodyState
<1>3. bodies' \in Seq(BodyState) /\ Len(bodies') = Len(bodies)
  BY <1>1, <1>2
<1>4. \A j \in DOMAIN bodies : j # i => bodies'[j] = bodies[j]
  BY <1>1
<1>5. bodies'[i].fn = bodies[i].fn /\ bodies'[i].state = bodies[i].state
  BY <1>1 DEF BodyState
<1> QED
  BY <1>1, <1>2, <1>3, <1>4, <1>5

\* What a new stub holds, and what making one changes.
LEMMA NewStubTypes ==
  ASSUME EngineAssumption, TypeInv, NEW g \in Functions
  PROVE  /\ NewStub(g) \in Address \cup {Resolver}
         /\ NewStub(g) = Null /\ g \in External => GlobalAddressMap[g] # Null /\ FALSE
         /\ g \notin External => NewStub(g) = IF Lazy THEN Resolver ELSE Null
<1>1. g \in External => Native(g) \in Address
  BY AddressFacts
<1>2. GlobalAddressMap[g] \in Address
  BY AddressIsKnown
<1> QED
  BY <1>1, <1>2, AddressesDiffer, AddressFacts DEF NewStub, EngineAssumption

LEMMA StubMade ==
  ASSUME EngineAssumption, TypeInv, NEW g \in Functions, getLazyFunctionStub(g)
  PROVE  /\ stub' \in [Functions -> Address \cup {NoStub, Resolver, Torn}]
         /\ GlobalAddressMap' \in [Functions -> Address]
         /\ PendingFunctions' \in Seq(Functions \ External)
<1>1. NewStub(g) \in Address \cup {Resolver} /\ Stub(g) \in Address
  BY NewStubTypes, AddressFacts
<1>2. NewStub(g) = Null => g \in Functions \ External
  BY NewStubTypes
<1>3. TypeOK
  BY DEF TypeInv
<1>4. CASE UNCHANGED <<stub, GlobalAddressMap, PendingFunctions>>
  BY <1>3, <1>4 DEF TypeOK
<1>5. CASE /\ stub' = [stub EXCEPT ![g] = NewStub(g)]
           /\ UNCHANGED GlobalAddressMap \/ updateGlobalMapping(g, Stub(g))
           /\ \/ UNCHANGED PendingFunctions
              \/ /\ NewStub(g) = Null
                 /\ PendingFunctions' = Append(PendingFunctions, g)
  <2>1. stub' \in [Functions -> Address \cup {NoStub, Resolver, Torn}]
    BY <1>1, <1>3, <1>5 DEF TypeOK
  <2>2. GlobalAddressMap' \in [Functions -> Address]
    <3>1. GlobalAddressMap \in [Functions -> Address]
      BY <1>3 DEF TypeOK
    <3>2. \/ GlobalAddressMap' = GlobalAddressMap
          \/ GlobalAddressMap' = [GlobalAddressMap EXCEPT ![g] = Stub(g)]
      BY <1>5 DEF updateGlobalMapping
    <3> QED
      BY <1>1, <3>1, <3>2
  <2>3. PendingFunctions' \in Seq(Functions \ External)
    <3>1. PendingFunctions \in Seq(Functions \ External)
      BY <1>3 DEF TypeOK
    <3>2. CASE PendingFunctions' = Append(PendingFunctions, g) /\ NewStub(g) = Null
      <4>1. g \in Functions \ External
        BY <1>2, <3>2
      <4> QED
        BY <3>1, <3>2, <4>1, AppendProperties
    <3> QED
      BY <1>5, <3>1, <3>2
  <2> QED
    BY <2>1, <2>2, <2>3
<1> QED
  BY <1>4, <1>5 DEF getLazyFunctionStub

LEMMA RelocateTypes ==
  ASSUME EngineAssumption, TypeInv, NEW t \in Threads, NEW g \in Functions, Relocate(t, g)
  PROVE  TypeInv'
<1>1. /\ bodies \in Seq(BodyState) /\ job \in JobState
      /\ job.phase = "relocate" /\ job.fn \in Functions \ External
      /\ Len(bodies) \in DOMAIN bodies
  <2>1. bodies \in Seq(BodyState) /\ job \in JobState /\ job.phase = "relocate"
    BY DEF TypeInv, TypeOK, JobState, Relocate, Compiles
  <2> QED
    BY <2>1, LenProperties DEF TypeInv, JobShape
<1>2. UNCHANGED <<EmittedFunctions, lock, thread>>
  BY DEF Relocate
<1>3. /\ \E a \in Address : Bind(g, a)
      /\ stub' \in [Functions -> Address \cup {NoStub, Resolver, Torn}]
      /\ GlobalAddressMap' \in [Functions -> Address]
      /\ PendingFunctions' \in Seq(Functions \ External)
  <2>0. TypeOK /\ GlobalAddressMap[g] \in Address /\ Stub(g) \in Address
    BY AddressIsKnown, AddressFacts DEF TypeInv
  <2>1. CASE /\ Bind(g, GlobalAddressMap[g])
             /\ UNCHANGED <<stub, GlobalAddressMap, PendingFunctions>>
    BY <2>0, <2>1 DEF TypeOK
  <2>2. CASE /\ g \in External
             /\ addGlobalMapping(g, Native(g))
             /\ Bind(g, Native(g))
             /\ UNCHANGED <<stub, PendingFunctions>>
    <3>1. Native(g) \in Address
      BY <2>2, AddressFacts
    <3> QED
      BY <2>0, <2>2, <3>1 DEF TypeOK, addGlobalMapping, updateGlobalMapping
  <2>3. CASE Bind(g, Stub(g)) /\ getLazyFunctionStub(g)
    BY <2>0, <2>3, StubMade
  <2> QED
    BY <2>1, <2>2, <2>3 DEF Relocate
<1>4. PICK a \in Address : Bind(g, a)
  BY <1>3
<1>5. /\ bodies' \in Seq(BodyState)
      /\ Len(bodies') = Len(bodies) /\ DOMAIN bodies' = DOMAIN bodies
  BY <1>1, <1>4, CallChanges DEF Bind
<1>6. Address' = Address /\ ThreadState' = ThreadState /\ BodyState' = BodyState
  BY <1>5, SameAddresses
<1>7. job' \in JobState /\ job'.fn = job.fn /\ job'.phase = job.phase
  <2>1. job' = [job EXCEPT !.todo = @ \ {g}]
    BY <1>4 DEF Bind
  <2> QED
    BY <1>1, <2>1 DEF JobState
<1>8. TypeOK'
  BY <1>2, <1>3, <1>5, <1>6, <1>7 DEF TypeInv, TypeOK, JobState
<1>9. JobShape'
  BY <1>1, <1>5, <1>7 DEF JobShape
<1> QED
  BY <1>2, <1>8, <1>9, ShapesStay DEF TypeInv

LEMMA RetryTypes ==
  ASSUME EngineAssumption, TypeInv, NEW t \in Threads, retryWithMoreMemory(t)
  PROVE  TypeInv'
<1>1. /\ bodies \in Seq(BodyState)
      /\ job.fn \in Functions \ External
      /\ Len(bodies) \in DOMAIN bodies
  <2>1. bodies \in Seq(BodyState) /\ job.phase = "relocate"
    BY DEF TypeInv, TypeOK, retryWithMoreMemory, Compiles
  <2> QED
    BY <2>1, LenProperties DEF TypeInv, JobShape
<1>2. /\ bodies' \in Seq(BodyState)
      /\ Len(bodies') = Len(bodies) /\ DOMAIN bodies' = DOMAIN bodies
  BY <1>1, StateChanges DEF retryWithMoreMemory
<1>3. Address' = Address /\ ThreadState' = ThreadState /\ BodyState' = BodyState
  BY <1>2, SameAddresses
<1>4. job' \in JobState /\ job'.fn = job.fn /\ job'.phase = "start"
  BY <1>1, JobsAreTyped, Jobs DEF TypeInv, TypeOK, retryWithMoreMemory
<1>5. EmittedFunctions' \in [Functions -> 0 .. Len(bodies')]
  BY <1>1, <1>2, LenProperties DEF TypeInv, TypeOK, retryWithMoreMemory
<1>6. TypeOK'
  BY <1>2, <1>3, <1>4, <1>5 DEF TypeInv, TypeOK, JobState, retryWithMoreMemory
<1>7. JobShape'
  BY <1>1, <1>4 DEF JobShape
<1> QED
  BY <1>6, <1>7, ShapesStay DEF TypeInv, retryWithMoreMemory

LEMMA FinishTypes ==
  ASSUME EngineAssumption, TypeInv, NEW t \in Threads, finishFunction(t)
  PROVE  TypeInv'
<1> DEFINE ph == IF job.pending THEN "fill" ELSE "next"
<1>1. /\ bodies \in Seq(BodyState) /\ job \in JobState
      /\ job.fn \in Functions \ External
      /\ Len(bodies) \in DOMAIN bodies
  <2>1. bodies \in Seq(BodyState) /\ job \in JobState /\ job.phase = "relocate"
    BY DEF TypeInv, TypeOK, JobState, finishFunction, Compiles
  <2> QED
    BY <2>1, LenProperties DEF TypeInv, JobShape
<1>2. /\ bodies' \in Seq(BodyState)
      /\ Len(bodies') = Len(bodies) /\ DOMAIN bodies' = DOMAIN bodies
  BY <1>1, StateChanges DEF finishFunction
<1>3. Address' = Address /\ ThreadState' = ThreadState /\ BodyState' = BodyState
  BY <1>2, SameAddresses
<1>4. job' \in JobState /\ job'.fn = job.fn /\ job'.phase \in {"fill", "next"}
  <2>1. job' = [job EXCEPT !.phase = ph] /\ ph \in {"fill", "next"}
    BY DEF finishFunction
  <2> HIDE DEF ph
  <2> QED
    BY <1>1, <2>1 DEF JobState
<1>5. TypeOK'
  BY <1>2, <1>3, <1>4 DEF TypeInv, TypeOK, JobState, finishFunction
<1>6. JobShape'
  BY <1>1, <1>4 DEF JobShape
<1> QED
  BY <1>5, <1>6, ShapesStay DEF TypeInv, finishFunction

LEMMA FillTypes ==
  ASSUME EngineAssumption, TypeInv, NEW t \in Threads, updateFunctionStub(t)
  PROVE  TypeInv'
<1>1. job \in JobState /\ job.fn \in Functions \ External
  BY DEF TypeInv, TypeOK, JobState, JobShape, updateFunctionStub, Compiles
<1>2. Address' = Address /\ ThreadState' = ThreadState /\ BodyState' = BodyState
  BY SameAddresses DEF updateFunctionStub
<1>3. stub' \in [Functions -> Address \cup {NoStub, Resolver, Torn}]
  BY <1>1, AddressIsKnown DEF TypeInv, TypeOK, updateFunctionStub
<1>4. job' \in JobState /\ job'.fn = job.fn /\ job'.phase = "next"
  <2>1. job' = [job EXCEPT !.phase = "next"]
    BY DEF updateFunctionStub
  <2> QED
    BY <1>1, <2>1 DEF JobState
<1>5. TypeOK'
  BY <1>2, <1>3, <1>4 DEF TypeInv, TypeOK, JobState, updateFunctionStub
<1>6. JobShape'
  BY <1>1, <1>4 DEF JobShape
<1> QED
  BY <1>5, <1>6, ShapesStay DEF TypeInv, updateFunctionStub

LEMMA NextPendingTypes ==
  ASSUME TypeInv, NEW t \in Threads, NextPending(t)
  PROVE  TypeInv'
<1> DEFINE n == Len(PendingFunctions)
<1>1. /\ PendingFunctions \in Seq(Functions \ External)
      /\ n \in Nat /\ n > 0
      /\ PendingFunctions[n] \in Functions \ External
  <2>1. PendingFunctions \in Seq(Functions \ External)
    BY DEF TypeInv, TypeOK
  <2>2. n \in Nat /\ n > 0
    BY <2>1, LenProperties DEF NextPending
  <2> QED
    BY <2>1, <2>2, ElementOfSeq
<1>2. PendingFunctions' \in Seq(Functions \ External)
  <2>1. \A k \in 1 .. n - 1 : PendingFunctions[k] \in Functions \ External
    BY <1>1, ElementOfSeq
  <2> QED
    BY <1>1, <2>1, SubSeqProperties DEF NextPending
<1>3. Address' = Address /\ ThreadState' = ThreadState /\ BodyState' = BodyState
  BY SameAddresses DEF NextPending
<1>4. job' \in JobState /\ job'.fn = PendingFunctions[n] /\ job'.phase = "start"
  BY <1>1, JobsAreTyped, Jobs DEF NextPending
<1>5. TypeOK'
  BY <1>2, <1>3, <1>4 DEF TypeInv, TypeOK, JobState, NextPending
<1>6. JobShape'
  BY <1>1, <1>4 DEF JobShape
<1> QED
  BY <1>5, <1>6, ShapesStay DEF TypeInv, NextPending

LEMMA CompiledTypes ==
  ASSUME TypeInv, NEW t \in Threads, Compiled(t)
  PROVE  TypeInv'
<1>1. thread \in [Threads -> ThreadState] /\ thread[t].fn \in Functions
  BY DEF TypeInv, TypeOK, ThreadShape, Compiled, Compiles, At
<1>2. GlobalAddressMap[thread[t].fn] \in Address
  BY <1>1, AddressIsKnown
<1>3. Obtain(t, GlobalAddressMap[thread[t].fn])
  BY DEF Compiled
<1>4. Address' = Address /\ ThreadState' = ThreadState /\ BodyState' = BodyState
  BY SameAddresses DEF Compiled, tables
<1>5. job' \in JobState /\ job'.phase = "none"
  BY JobsAreTyped, Jobs DEF Compiled
<1>6. thread' \in [Threads -> ThreadState]
  BY <1>1, <1>2, <1>3, ObtainChanges
<1>7. TypeOK'
  BY <1>4, <1>5, <1>6 DEF TypeInv, TypeOK, JobState, Compiled, tables
<1>8. ThreadShape'
  BY <1>1, <1>2, <1>3, ObtainChanges DEF TypeInv, ThreadShape
<1>9. JobShape'
  BY <1>5 DEF JobShape
<1> QED
  BY <1>7, <1>8, <1>9 DEF TypeInv

LEMMA RewriteTypes ==
  ASSUME TypeInv, NEW t \in Threads, RewriteStub(t) \/ ReexecuteStub(t)
  PROVE  TypeInv'
<1> DEFINE v == thread[t].via
           a == thread[t].at
           r == [pc |-> "run", fn |-> NoFn, at |-> Stub(v), via |-> NoFn]
<1>1. thread \in [Threads -> ThreadState] /\ v \in Functions /\ a \in Address
  <2>1. thread \in [Threads -> ThreadState]
    BY DEF TypeInv, TypeOK
  <2>2. v \in Functions
    BY DEF TypeInv, ThreadShape, At, RewriteStub, ReexecuteStub
  <2> QED
    BY <2>1, <2>2 DEF ThreadState
<1>2. Address' = Address /\ ThreadState' = ThreadState /\ BodyState' = BodyState
  BY SameAddresses DEF RewriteStub, ReexecuteStub
<1>3. stub \in [Functions -> Address \cup {NoStub, Resolver, Torn}]
  BY DEF TypeInv, TypeOK
<1>4. stub' \in [Functions -> Address \cup {NoStub, Resolver, Torn}]
  <2>1. \E b \in Address \cup {Torn} : stub' = [stub EXCEPT ![v] = b]
    BY <1>1, <1>3 DEF RewriteStub, ReexecuteStub
  <2> QED
    BY <1>1, <1>3, <2>1
<1>5. UNCHANGED <<GlobalAddressMap, EmittedFunctions, bodies, PendingFunctions, lock, job>>
  BY DEF RewriteStub, ReexecuteStub
<1>6. JobShape'
  BY <1>5 DEF TypeInv, JobShape
<1>7. thread' \in [Threads -> ThreadState] /\ ThreadShape'
  <2>1. CASE RewriteStub(t)
    <3>1. "rewritten" \in Places /\ Goto(t, "rewritten")
      BY <2>1 DEF RewriteStub, Places
    <3> QED
      BY <1>1, <3>1, GotoChanges DEF TypeInv, ThreadShape
  <2>2. CASE ReexecuteStub(t)
    <3>1. thread' = [thread EXCEPT ![t] = r]
      BY <2>2 DEF ReexecuteStub, Run
    <3>2. r \in ThreadState /\ r.pc = "run"
      BY <1>1, AddressFacts DEF ThreadState
    <3> HIDE DEF r
    <3> QED
      BY <1>1, <3>1, <3>2 DEF TypeInv, ThreadShape
  <2> QED
    BY <2>1, <2>2
<1>8. TypeOK'
  BY <1>2, <1>4, <1>5, <1>7 DEF TypeInv, TypeOK
<1> QED
  BY <1>6, <1>7, <1>8 DEF TypeInv

LEMMA FreeTypes ==
  ASSUME TypeInv, NEW t \in Threads, NEW f \in Functions, freeMachineCodeForFunction(t, f)
  PROVE  TypeInv'
<1>1. thread \in [Threads -> ThreadState]
  BY DEF TypeInv, TypeOK
<1>2. Address' = Address /\ ThreadState' = ThreadState /\ BodyState' = BodyState
  BY SameAddresses DEF freeMachineCodeForFunction
<1>3. thread' = [thread EXCEPT ![t].pc = "unmapped", ![t].fn = f]
  BY DEF freeMachineCodeForFunction
<1>4. thread' \in [Threads -> ThreadState]
  BY <1>1, <1>3 DEF ThreadState
<1>5. \A u \in Threads \ {t} : thread'[u] = thread[u]
  BY <1>1, <1>3
<1>6. thread'[t].pc = "unmapped" /\ thread'[t].fn = f
  BY <1>1, <1>3 DEF ThreadState
<1>7. ThreadShape'
  BY <1>5, <1>6 DEF TypeInv, ThreadShape
<1>8. lock' \in Threads \cup {NoThread}
  BY DEF TypeInv, TypeOK, freeMachineCodeForFunction
<1>9. GlobalAddressMap' \in [Functions -> Address]
  BY AddressFacts DEF TypeInv, TypeOK, freeMachineCodeForFunction, updateGlobalMapping
<1>10. TypeOK'
  BY <1>2, <1>4, <1>8, <1>9 DEF TypeInv, TypeOK, freeMachineCodeForFunction
<1>11. JobShape'
  BY DEF TypeInv, JobShape, freeMachineCodeForFunction
<1> QED
  BY <1>7, <1>10, <1>11 DEF TypeInv

LEMMA DeallocateTypes ==
  ASSUME TypeInv, NEW t \in Threads, deallocateMemForFunction(t)
  PROVE  TypeInv'
<1> DEFINE i == EmittedFunctions[thread[t].fn]
<1>1. thread \in [Threads -> ThreadState] /\ thread[t].fn \in Functions
  BY DEF TypeInv, TypeOK, ThreadShape, deallocateMemForFunction, At
<1>2. bodies \in Seq(BodyState) /\ Len(bodies) \in Nat /\ i \in 0 .. Len(bodies)
  BY <1>1, LenProperties DEF TypeInv, TypeOK
<1>3. bodies' \in Seq(BodyState) /\ Len(bodies') = Len(bodies) /\ DOMAIN bodies' = DOMAIN bodies
  <2>1. CASE i = 0
    BY <1>2, <2>1 DEF deallocateMemForFunction
  <2>2. CASE i # 0
    <3>1. i \in DOMAIN bodies
      BY <1>2, <2>2, LenProperties
    <3>2. bodies' = [bodies EXCEPT ![i].state = "freed"]
      BY <2>2 DEF deallocateMemForFunction
    <3> HIDE DEF i
    <3> QED
      BY <1>2, <3>1, <3>2, StateChanges
  <2> QED
    BY <2>1, <2>2
<1>4. Address' = Address /\ ThreadState' = ThreadState /\ BodyState' = BodyState
  BY <1>3, SameAddresses
<1>5. "deallocated" \in Places /\ Goto(t, "deallocated")
  BY DEF deallocateMemForFunction, Places
<1>6. thread' \in [Threads -> ThreadState] /\ ThreadShape'
  BY <1>1, <1>5, GotoChanges DEF TypeInv, ThreadShape
<1>7. TypeOK'
  BY <1>3, <1>4, <1>6 DEF TypeInv, TypeOK, deallocateMemForFunction
<1>8. JobShape'
  BY <1>3 DEF TypeInv, JobShape, deallocateMemForFunction
<1> QED
  BY <1>6, <1>7, <1>8 DEF TypeInv

LEMMA EraseTypes ==
  ASSUME TypeInv, NEW t \in Threads, EraseRecord(t)
  PROVE  TypeInv'
<1>1. thread \in [Threads -> ThreadState] /\ thread[t].fn \in Functions
  BY DEF TypeInv, TypeOK, ThreadShape, EraseRecord, At
<1>2. Address' = Address /\ ThreadState' = ThreadState /\ BodyState' = BodyState
  BY SameAddresses DEF EraseRecord
<1>3. thread' = [thread EXCEPT ![t] = AtRest]
  BY DEF EraseRecord
<1>4. thread' \in [Threads -> ThreadState] /\ ThreadShape'
  BY <1>1, <1>3, AtRestTypes DEF TypeInv, ThreadShape
<1>5. EmittedFunctions' \in [Functions -> 0 .. Len(bodies')]
  <2>1. bodies' = bodies /\ Len(bodies) \in Nat
    BY LenProperties DEF TypeInv, TypeOK, EraseRecord
  <2> QED
    BY <1>1, <2>1 DEF TypeInv, TypeOK, EraseRecord
<1>6. TypeOK'
  BY <1>2, <1>4, <1>5 DEF TypeInv, TypeOK, EraseRecord
<1>7. JobShape'
  BY DEF TypeInv, JobShape, EraseRecord
<1> QED
  BY <1>4, <1>6, <1>7 DEF TypeInv

LEMMA ObtainStubTypes ==
  ASSUME EngineAssumption, TypeInv, NEW t \in Threads, ObtainStub(t)
  PROVE  TypeInv'
<1> DEFINE g == thread[t].fn
<1>1. thread \in [Threads -> ThreadState] /\ g \in Functions
  BY DEF TypeInv, TypeOK, ThreadShape, ObtainStub, At
<1>2. Address' = Address /\ ThreadState' = ThreadState /\ BodyState' = BodyState
  BY SameAddresses DEF ObtainStub
<1>3. Stub(g) \in Address /\ Obtain(t, Stub(g))
  BY <1>1, AddressFacts DEF ObtainStub
<1>4. thread' \in [Threads -> ThreadState] /\ ThreadShape'
  BY <1>1, <1>3, ObtainChanges DEF TypeInv, ThreadShape
<1>5. /\ stub' \in [Functions -> Address \cup {NoStub, Resolver, Torn}]
      /\ GlobalAddressMap' \in [Functions -> Address]
      /\ PendingFunctions' \in Seq(Functions \ External)
  BY <1>1, StubMade DEF ObtainStub
<1>6. TypeOK'
  BY <1>2, <1>4, <1>5 DEF TypeInv, TypeOK, ObtainStub
<1>7. JobShape'
  BY DEF TypeInv, JobShape, ObtainStub
<1> QED
  BY <1>4, <1>6, <1>7 DEF TypeInv

LEMMA InitTypes ==
  ASSUME EngineAssumption, Init
  PROVE  TypeInv
<1>1. bodies = <<>> /\ Len(bodies) = 0 /\ bodies \in Seq(BodyState)
  BY EmptySeq DEF Init
<1>2. PendingFunctions \in Seq(Functions \ External)
  BY EmptySeq DEF Init
<1>3. thread \in [Threads -> ThreadState]
  BY AtRestTypes DEF Init
<1>4. GlobalAddressMap \in [Functions -> Address]
  BY AddressFacts DEF Init
<1>5. TypeOK
  BY <1>1, <1>2, <1>3, <1>4, JobsAreTyped DEF Init, TypeOK, JobState
<1>6. ThreadShape /\ JobShape
  BY AtRestTypes, Jobs DEF Init, ThreadShape, JobShape
<1> QED
  BY <1>5, <1>6 DEF TypeInv

LEMMA StepTypes ==
  ASSUME EngineAssumption, TypeInv, [Next]_vars
  PROVE  TypeInv'
<1>1. CASE UNCHANGED vars
  <2>1. Address' = Address /\ ThreadState' = ThreadState /\ BodyState' = BodyState
    BY <1>1, SameAddresses DEF vars
  <2> QED
    BY <1>1, <2>1 DEF vars, TypeInv, TypeOK, ThreadShape, JobShape
<1>2. ASSUME NEW t \in Threads, ClientStep(t)
      PROVE  TypeInv'
  BY <1>2, AskTypes, FreeTypes, AskOrStubTypes, CodeTypes DEF ClientStep
<1>3. ASSUME NEW t \in Threads, EngineStep(t)
      PROVE  TypeInv'
  BY <1>3, LookupTypes, EnterTypes, StartTypes, RelocateTypes, RetryTypes, FinishTypes,
     FillTypes, NextPendingTypes, CompiledTypes, CodeTypes, RewriteTypes,
     DeallocateTypes, EraseTypes, ObtainStubTypes
     DEF EngineStep
<1> QED
  BY <1>1, <1>2, <1>3 DEF Next

\* The variables of the engine always have their types, and what is emitted
\* and given back are bodies of functions that have a definition.
THEOREM TypeCorrect == Spec => []TypeOK
<1>1. Init => TypeInv
  BY InitTypes, EngineAssumption
<1>2. TypeInv /\ [Next]_vars => TypeInv'
  BY StepTypes, EngineAssumption
<1>3. TypeInv => TypeOK
  BY DEF TypeInv
<1> QED
  BY <1>1, <1>2, <1>3, PTL DEF Spec

-----------------------------------------------------------------------------
(* The tables                                                              *)

Working == {"compiling", "unmapped", "deallocated"}

\* Who holds the lock, and what that rules out.
LEMMA NobodyWorks ==
  ASSUME EngineAssumption, TablesInv, Unlocked
  PROVE  /\ \A u \in Threads : thread[u].pc \notin Working /\ ~Freeing(u)
         /\ job.phase = "none"
BY DEF TablesInv, LockInv, Unlocked, EngineAssumption, Working, Freeing, At

LEMMA OnlyOneCompiles ==
  ASSUME EngineAssumption, TablesInv, NEW t \in Threads, lock = t, At(t, "compiling")
  PROVE  \A u \in Threads : ~Freeing(u) /\ (u # t => thread[u].pc \notin Working)
BY DEF TablesInv, LockInv, Working, Freeing, At

\* A thread that does not hold the lock over the step goes about its
\* business; a stub may be rewritten, but none disappears.
LEMMA QuietSteps ==
  ASSUME TablesInv, NEW t \in Threads,
         UNCHANGED <<GlobalAddressMap, EmittedFunctions, bodies, PendingFunctions, lock, job>>,
         \A f : stub[f] # NoStub => stub'[f] # NoStub,
         \A u \in Threads \ {t} : thread'[u] = thread[u],
         thread[t].pc \notin Working, thread'[t].pc \notin Working,
         thread'[t].pc = "stubbing" => Lazy
  PROVE  TablesInv'
<1>1. \A u \in Threads : /\ Freeing(u)' <=> Freeing(u)
                         /\ At(u, "compiling")' <=> At(u, "compiling")
                         /\ At(u, "deallocated")' <=> At(u, "deallocated")
                         /\ Freeing(u) => thread'[u].fn = thread[u].fn
  BY DEF Freeing, At, Working
<1>2. LockInv'
  <2>1. \A u \in Threads : At(u, "stubbing")' => Lazy
    BY DEF TablesInv, LockInv, At
  <2> QED
    BY <1>1, <2>1 DEF TablesInv, LockInv
<1>3. RecordInv'
  BY DEF TablesInv, RecordInv
<1>4. NoBodyIsLost'
  BY DEF TablesInv, NoBodyIsLost, Live, Freed
<1>5. FreeInv'
  <2>1. \A u \in Threads : At(u, "deallocated") => Freeing(u)
    BY DEF At, Freeing
  <2> QED
    BY <1>1, <2>1 DEF TablesInv, FreeInv, Freed
<1>6. NullInv'
  BY <1>1 DEF TablesInv, NullInv
<1>7. PendingInv'
  BY DEF TablesInv, PendingInv
<1>8. MapInv'
  BY DEF TablesInv, MapInv
<1> QED
  BY <1>2, <1>3, <1>4, <1>5, <1>6, <1>7, <1>8 DEF TablesInv

LEMMA EnterTables ==
  ASSUME EngineAssumption, TypeInv, TablesInv, NEW t \in Threads, Enter(t)
  PROVE  TablesInv'
<1> DEFINE f == thread[t].fn
<1>1. /\ thread \in [Threads -> ThreadState]
      /\ f \in Functions /\ GlobalAddressMap[f] \in Address
      /\ GlobalAddressMap \in [Functions -> Address]
      /\ thread[t].pc = "enter"
  BY AddressIsKnown DEF Enter, At, TypeInv, TypeOK, ThreadShape
<1>2. UNCHANGED <<stub, EmittedFunctions, bodies, PendingFunctions>> /\ Unlocked
  BY DEF Enter
<1>3. \A u \in Threads : thread[u].pc \notin Working /\ ~Freeing(u)
  BY <1>2, NobodyWorks
<1>4. job.phase = "none"
  BY <1>2, NobodyWorks
<1>5. CASE /\ Obtain(t, GlobalAddressMap[f])
           /\ UNCHANGED <<GlobalAddressMap, lock, job>>
  <2>1. /\ \A u \in Threads \ {t} : thread'[u] = thread[u]
        /\ thread'[t].pc \in {"ready", "resolved"}
    BY <1>1, <1>5, ObtainChanges
  <2> QED
    BY <1>1, <1>2, <1>3, <1>5, <2>1, QuietSteps DEF Working
<1>6. CASE /\ addGlobalMapping(f, Native(f))
           /\ f \in External
           /\ Obtain(t, Native(f))
           /\ UNCHANGED <<lock, job>>
  <2>1. /\ \A u \in Threads \ {t} : thread'[u] = thread[u]
        /\ thread'[t].pc \in {"ready", "resolved"}
    BY <1>1, <1>6, ObtainChanges, AddressFacts
  <2>2. \A u \in Threads : thread'[u].pc \notin Working /\ ~Freeing(u)' /\ ~At(u, "compiling")'
    BY <1>3, <2>1 DEF Working, Freeing, At
  <2>3. /\ GlobalAddressMap'[f] = Native(f)
        /\ \A g \in Functions \ {f} : GlobalAddressMap'[g] = GlobalAddressMap[g]
    BY <1>1, <1>6 DEF addGlobalMapping, updateGlobalMapping
  <2>4. Native(f) # Null /\ \A i : Native(f) # Body(i)
    BY AddressesDiffer
  <2>5. LockInv'
    <3>1. \A u \in Threads : At(u, "stubbing")' => Lazy
      BY <2>1 DEF TablesInv, LockInv, At
    <3>2. \A u \in Threads : lock # u
      BY <1>2 DEF Unlocked, EngineAssumption
    <3> QED
      BY <1>4, <1>6, <2>2, <3>1, <3>2 DEF LockInv
  <2>6. RecordInv'
    BY <1>2, <1>4, <1>6 DEF TablesInv, RecordInv
  <2>7. NoBodyIsLost'
    BY <1>2 DEF TablesInv, NoBodyIsLost, Live, Freed
  <2>8. FreeInv'
    BY <2>2 DEF FreeInv, At, Working
  <2>9. NullInv'
    BY <1>2, <1>3, <2>3, <2>4 DEF TablesInv, NullInv
  <2>10. PendingInv'
    <3>1. \A g : GlobalAddressMap[g] # Null => GlobalAddressMap'[g] # Null
      BY <1>1, <1>6, <2>4 DEF addGlobalMapping, updateGlobalMapping
    <3> QED
      BY <1>2, <1>4, <1>6, <3>1 DEF TablesInv, PendingInv
  <2>11. MapInv'
    BY <1>2, <1>4, <1>6, <2>3, <2>4 DEF TablesInv, MapInv
  <2> QED
    BY <2>5, <2>6, <2>7, <2>8, <2>9, <2>10, <2>11 DEF TablesInv
<1>7. CASE /\ GlobalAddressMap[f] = Null
           /\ f \notin External
           /\ lock' = t
           /\ job' = Job(f, FALSE)
           /\ Goto(t, "compiling")
           /\ UNCHANGED GlobalAddressMap
  <2>1. /\ \A u \in Threads \ {t} : thread'[u] = thread[u]
        /\ thread'[t].pc = "compiling"
    BY <1>1, <1>7, GotoChanges DEF Places
  <2>2. /\ \A u \in Threads : ~Freeing(u)' /\ ~At(u, "deallocated")'
        /\ \A u \in Threads \ {t} : ~At(u, "compiling")'
        /\ At(t, "compiling")'
    BY <1>3, <2>1 DEF Working, Freeing, At
  <2>3. job'.phase = "start" /\ job'.fn = f
    BY <1>7, Jobs
  <2>4. EmittedFunctions[f] = 0
    BY <1>1, <1>3, <1>7 DEF TablesInv, NullInv
  <2>5. LockInv'
    <3>1. \A u \in Threads : At(u, "stubbing")' => Lazy
      BY <2>1 DEF TablesInv, LockInv, At
    <3> QED
      BY <1>7, <2>2, <3>1 DEF LockInv
  <2>6. RecordInv'
    BY <1>2, <2>3, <2>4 DEF TablesInv, RecordInv
  <2>7. NoBodyIsLost'
    BY <1>2 DEF TablesInv, NoBodyIsLost, Live, Freed
  <2>8. FreeInv'
    BY <2>2 DEF FreeInv
  <2>9. NullInv'
    BY <1>2, <1>3, <1>7 DEF TablesInv, NullInv
  <2>10. PendingInv'
    BY <1>2, <1>7, <2>3 DEF TablesInv, PendingInv
  <2>11. MapInv'
    BY <1>2, <1>4, <1>7 DEF TablesInv, MapInv
  <2> QED
    BY <2>5, <2>6, <2>7, <2>8, <2>9, <2>10, <2>11 DEF TablesInv
<1> QED
  BY <1>5, <1>6, <1>7 DEF Enter

\* A function is known by a body that there is.
LEMMA KnownBodies ==
  ASSUME TypeInv, NEW f \in Functions, NEW i, GlobalAddressMap[f] = Body(i)
  PROVE  i \in DOMAIN bodies
BY AddressIsKnown, BodyOfAddress, Kinds

\* A function whose record is not 0 has a body on record.
LEMMA Recorded ==
  ASSUME TypeInv, NEW f \in Functions
  PROVE  /\ Len(bodies) \in Nat /\ DOMAIN bodies = 1 .. Len(bodies)
         /\ EmittedFunctions \in [Functions -> 0 .. Len(bodies)]
         /\ EmittedFunctions[f] # 0 => EmittedFunctions[f] \in DOMAIN bodies
BY LenProperties DEF TypeInv, TypeOK

LEMMA StartTables ==
  ASSUME EngineAssumption, TypeInv, TablesInv, NEW t \in Threads, startFunction(t)
  PROVE  TablesInv'
<1> DEFINE f == job.fn
           n == Len(bodies)
           b == [fn |-> f, state |-> "emitting", calls |-> [g \in Functions |-> Null]]
<1>1. /\ f \in Functions \ External /\ job.phase = "start"
      /\ lock = t /\ At(t, "compiling")
  BY DEF TypeInv, JobShape, startFunction, Compiles
<1>2. /\ n \in Nat /\ DOMAIN bodies = 1 .. n
      /\ EmittedFunctions \in [Functions -> 0 .. n]
      /\ GlobalAddressMap \in [Functions -> Address]
      /\ bodies \in Seq(BodyState)
  BY <1>1, Recorded DEF TypeInv, TypeOK
<1>3. \A u \in Threads : ~Freeing(u)
  BY <1>1, OnlyOneCompiles
<1>4. /\ DOMAIN bodies' = 1 .. n + 1
      /\ Len(bodies') = n + 1
      /\ \A j \in 1 .. n : bodies'[j] = bodies[j]
      /\ bodies'[n + 1] = b
  BY <1>2 DEF startFunction
<1>5. b.fn = f /\ b.state = "emitting"
  OBVIOUS
<1>6. /\ EmittedFunctions'[f] = n + 1
      /\ GlobalAddressMap'[f] = Body(n + 1)
      /\ \A g \in Functions \ {f} : /\ EmittedFunctions'[g] = EmittedFunctions[g]
                                    /\ GlobalAddressMap'[g] = GlobalAddressMap[g]
  BY <1>1, <1>2 DEF startFunction, updateGlobalMapping
<1>7. job'.fn = f /\ job'.phase = "relocate"
  <2>1. job \in JobState /\ job' = [job EXCEPT !.phase = "relocate", !.todo = Calls[job.fn]]
    BY DEF startFunction, TypeInv, TypeOK, JobState
  <2> QED
    BY <2>1 DEF JobState
<1>8. UNCHANGED <<stub, PendingFunctions, lock, thread>>
  BY DEF startFunction
<1>9. EmittedFunctions[f] = 0
  BY <1>1 DEF TablesInv, RecordInv
<1> HIDE DEF b
<1>10. LockInv'
  BY <1>1, <1>8 DEF TablesInv, LockInv, Freeing, At
<1>11. RecordInv'
  <2>1. ASSUME NEW g \in Functions, EmittedFunctions'[g] # 0
        PROVE  bodies'[EmittedFunctions'[g]].fn = g
    <3>1. CASE g = f
      BY <1>4, <1>5, <1>6, <3>1
    <3>2. CASE g # f
      <4>1. EmittedFunctions[g] \in 1 .. n /\ EmittedFunctions'[g] = EmittedFunctions[g]
        BY <1>2, <1>6, <2>1, <3>2
      <4> QED
        BY <1>4, <4>1 DEF TablesInv, RecordInv
    <3> QED
      BY <3>1, <3>2
  <2> QED
    BY <1>4, <1>6, <1>7, <2>1 DEF RecordInv
<1>12. NoBodyIsLost'
  <2>1. ASSUME NEW j \in DOMAIN bodies', bodies'[j].state # "freed"
        PROVE  EmittedFunctions'[bodies'[j].fn] = j
    <3>1. CASE j = n + 1
      BY <1>4, <1>5, <1>6, <3>1
    <3>2. CASE j \in 1 .. n
      <4>1. j \in Live /\ bodies'[j] = bodies[j]
        BY <1>2, <1>4, <2>1, <3>2 DEF Live, Freed
      <4>2. EmittedFunctions[bodies[j].fn] = j
        BY <4>1 DEF TablesInv, NoBodyIsLost
      <4>3. bodies[j].fn \in Functions
        <5>1. bodies[j] \in BodyState
          BY <1>2, <3>2, ElementOfSeq
        <5> QED
          BY <5>1 DEF BodyState
      <4>4. bodies[j].fn # f
        BY <1>9, <3>2, <4>2
      <4> QED
        BY <1>6, <4>1, <4>2, <4>3, <4>4
    <3> QED
      BY <1>2, <1>4, <3>1, <3>2
  <2> QED
    BY <2>1 DEF NoBodyIsLost, Live, Freed
<1>13. FreeInv'
  BY <1>3, <1>8 DEF FreeInv, Freeing, At
<1>14. NullInv'
  BY <1>3, <1>6, <1>8, AddressesDiffer DEF TablesInv, NullInv, Freeing
<1>15. PendingInv'
  <2>1. \A k \in DOMAIN PendingFunctions : PendingFunctions[k] \in Functions \ {f}
    <3>1. PendingFunctions \in Seq(Functions \ External)
      BY DEF TypeInv, TypeOK
    <3>2. \A k \in DOMAIN PendingFunctions : PendingFunctions[k] \in Functions
      BY <3>1, LenProperties
    <3> QED
      BY <1>1, <3>2 DEF TablesInv, PendingInv
  <2> QED
    BY <1>6, <1>7, <1>8, <2>1 DEF TablesInv, PendingInv
<1>16. MapInv'
  <2>1. ASSUME NEW g \in Functions \ {f}, NEW j \in DOMAIN bodies',
               GlobalAddressMap'[g] = Body(j)
        PROVE  EmittedFunctions'[g] = j /\ bodies'[j].state = "finished"
    <3>1. GlobalAddressMap[g] = Body(j) /\ j \in 1 .. n
      BY <1>2, <1>6, <2>1, KnownBodies
    <3> QED
      BY <1>1, <1>2, <1>4, <1>6, <3>1 DEF TablesInv, MapInv
  <2> QED
    BY <1>7, <2>1 DEF MapInv
<1> QED
  BY <1>10, <1>11, <1>12, <1>13, <1>14, <1>15, <1>16 DEF TablesInv

\* What making a stub for g does to the tables.
LEMMA StubTables ==
  ASSUME EngineAssumption, TypeInv, NEW g \in Functions, getLazyFunctionStub(g)
  PROVE  /\ \A h \in Functions \ {g} : GlobalAddressMap'[h] = GlobalAddressMap[h]
         /\ GlobalAddressMap'[g] \in {GlobalAddressMap[g], Stub(g)}
         /\ stub[g] # NoStub => GlobalAddressMap'[g] = GlobalAddressMap[g]
         /\ \A h : stub[h] # NoStub => stub'[h] # NoStub
         /\ \/ PendingFunctions' = PendingFunctions
            \/ /\ ~Lazy
               /\ g \notin External
               /\ stub[g] = NoStub
               /\ stub'[g] # NoStub
               /\ GlobalAddressMap'[g] = Stub(g)
               /\ PendingFunctions' = Append(PendingFunctions, g)
<1>1. /\ GlobalAddressMap \in [Functions -> Address]
      /\ stub \in [Functions -> Address \cup {NoStub, Resolver, Torn}]
  BY DEF TypeInv, TypeOK
<1>2. /\ NewStub(g) # NoStub
      /\ NewStub(g) = Null => g \notin External /\ ~Lazy
  BY NewStubTypes, AddressFacts, AddressesDiffer
<1>3. CASE UNCHANGED <<stub, GlobalAddressMap, PendingFunctions>>
  BY <1>3
<1>4. CASE /\ stub[g] = NoStub
           /\ stub' = [stub EXCEPT ![g] = NewStub(g)]
           /\ \/ /\ NewStub(g) = Resolver
                 /\ UNCHANGED GlobalAddressMap
              \/ /\ NewStub(g) # Resolver
                 /\ updateGlobalMapping(g, Stub(g))
           /\ \/ UNCHANGED PendingFunctions
              \/ /\ NewStub(g) = Null
                 /\ PendingFunctions' = Append(PendingFunctions, g)
  <2>1. stub'[g] # NoStub /\ \A h : h # g => stub'[h] = stub[h]
    BY <1>1, <1>2, <1>4
  <2>2. /\ \A h \in Functions \ {g} : GlobalAddressMap'[h] = GlobalAddressMap[h]
        /\ GlobalAddressMap'[g] \in {GlobalAddressMap[g], Stub(g)}
        /\ NewStub(g) = Null => GlobalAddressMap'[g] = Stub(g)
    BY <1>1, <1>4, AddressesDiffer DEF updateGlobalMapping
  <2> QED
    BY <1>2, <1>4, <2>1, <2>2
<1> QED
  BY <1>3, <1>4 DEF getLazyFunctionStub

\* A function that has no record and no stub is put on the work list.
LEMMA PendingGrows ==
  ASSUME TypeInv, PendingInv, NEW g \in Functions \ External,
         EmittedFunctions[g] = 0, stub[g] = NoStub,
         job.phase \in {"start", "relocate"} => g # job.fn,
         UNCHANGED EmittedFunctions,
         \A h : stub[h] # NoStub => stub'[h] # NoStub, stub'[g] # NoStub,
         \A h \in Functions : GlobalAddressMap[h] # Null => GlobalAddressMap'[h] # Null,
         GlobalAddressMap'[g] # Null,
         job'.phase = job.phase, job'.fn = job.fn,
         PendingFunctions' = Append(PendingFunctions, g)
  PROVE  PendingInv'
<1> DEFINE n == Len(PendingFunctions)
<1>1. PendingFunctions \in Seq(Functions \ External)
  BY DEF TypeInv, TypeOK
<1>2. n \in Nat /\ DOMAIN PendingFunctions = 1 .. n
  BY <1>1, LenProperties
<1>3. /\ DOMAIN PendingFunctions' = 1 .. n + 1
      /\ \A k \in 1 .. n : PendingFunctions'[k] = PendingFunctions[k]
      /\ PendingFunctions'[n + 1] = g
  BY <1>1, <1>2, AppendProperties
<1>4. \A k \in 1 .. n : PendingFunctions[k] \in Functions
  BY <1>1, <1>2, LenProperties
<1>5. \A k \in 1 .. n : PendingFunctions[k] # g
  BY <1>2 DEF PendingInv
<1>6. ASSUME NEW k \in 1 .. n + 1
      PROVE  /\ EmittedFunctions'[PendingFunctions'[k]] = 0
             /\ GlobalAddressMap'[PendingFunctions'[k]] # Null
             /\ stub'[PendingFunctions'[k]] # NoStub
             /\ job'.phase \in {"start", "relocate"} => PendingFunctions'[k] # job'.fn
  <2>1. CASE k = n + 1
    BY <1>3, <2>1
  <2>2. CASE k \in 1 .. n
    BY <1>2, <1>3, <1>4, <2>2 DEF PendingInv
  <2> QED
    BY <1>2, <2>1, <2>2
<1>7. ASSUME NEW k \in 1 .. n + 1, NEW l \in 1 .. n + 1,
             PendingFunctions'[k] = PendingFunctions'[l]
      PROVE  k = l
  <2>1. CASE k \in 1 .. n /\ l \in 1 .. n
    BY <1>2, <1>3, <1>7, <2>1 DEF PendingInv
  <2>2. CASE k = n + 1 \/ l = n + 1
    BY <1>2, <1>3, <1>5, <1>7, <2>2
  <2> QED
    BY <1>2, <2>1, <2>2
<1> QED
  BY <1>3, <1>6, <1>7 DEF PendingInv

LEMMA RelocateTables ==
  ASSUME EngineAssumption, NearCalls, TypeInv, TablesInv,
         NEW t \in Threads, NEW g \in Functions, Relocate(t, g)
  PROVE  TablesInv'
<1> DEFINE f == job.fn
           n == Len(bodies)
<1>1. /\ f \in Functions \ External /\ job.phase = "relocate"
      /\ lock = t /\ At(t, "compiling")
      /\ n \in DOMAIN bodies /\ bodies \in Seq(BodyState)
  <2>1. /\ f \in Functions \ External /\ job.phase = "relocate"
        /\ lock = t /\ At(t, "compiling") /\ bodies \in Seq(BodyState)
    BY DEF TypeInv, TypeOK, JobShape, Relocate, Compiles
  <2> QED
    BY <2>1, LenProperties DEF TypeInv, JobShape
<1>2. /\ EmittedFunctions[f] = n /\ GlobalAddressMap[f] = Body(n)
      /\ GlobalAddressMap \in [Functions -> Address]
  BY <1>1 DEF TablesInv, RecordInv, TypeInv, TypeOK
<1>3. UNCHANGED <<EmittedFunctions, lock, thread>>
  BY DEF Relocate
<1>4. \A u \in Threads : ~Freeing(u)
  BY <1>1, OnlyOneCompiles
<1>5. /\ \A h \in Functions \ {g} : GlobalAddressMap'[h] = GlobalAddressMap[h]
      /\ GlobalAddressMap'[g] \in {GlobalAddressMap[g], Stub(g), Native(g)}
      /\ g = f => GlobalAddressMap'[g] = GlobalAddressMap[g]
      /\ \A h : stub[h] # NoStub => stub'[h] # NoStub
      /\ \/ PendingFunctions' = PendingFunctions
         \/ /\ g \notin External /\ g # f
            /\ EmittedFunctions[g] = 0
            /\ stub[g] = NoStub
            /\ stub'[g] # NoStub
            /\ GlobalAddressMap'[g] = Stub(g)
            /\ PendingFunctions' = Append(PendingFunctions, g)
  <2> DEFINE direct == stub[g] = NoStub /\ g \notin FarCalls
  <2>1. CASE UNCHANGED <<stub, GlobalAddressMap, PendingFunctions>>
    BY <2>1
  <2>2. CASE /\ g \in External
             /\ addGlobalMapping(g, Native(g))
             /\ UNCHANGED <<stub, PendingFunctions>>
    BY <1>1, <1>2, <2>2 DEF addGlobalMapping, updateGlobalMapping
  <2>3. CASE /\ direct => GlobalAddressMap[g] = Null /\ g \notin External
             /\ getLazyFunctionStub(g)
    <3>1. g \notin External /\ stub[g] = NoStub => direct /\ GlobalAddressMap[g] = Null
      BY <2>3 DEF NearCalls
    <3>2. g \notin External /\ stub[g] = NoStub => g # f
      BY <1>2, <3>1, AddressesDiffer
    <3>3. g \notin External /\ stub[g] = NoStub => EmittedFunctions[g] = 0
      BY <1>4, <3>1 DEF TablesInv, NullInv
    <3> HIDE DEF direct
    <3> QED
      BY <1>1, <2>3, <3>2, <3>3, StubTables
  <2> QED
    BY <2>1, <2>2, <2>3 DEF Relocate
<1>6. /\ \A h \in Functions : GlobalAddressMap[h] # Null => GlobalAddressMap'[h] # Null
      /\ \A h \in Functions : \A i : GlobalAddressMap'[h] = Body(i) => GlobalAddressMap[h] = Body(i)
      /\ GlobalAddressMap'[f] = GlobalAddressMap[f]
  BY <1>1, <1>5, AddressesDiffer
<1>7. PICK a \in Address : Bind(g, a)
  <2>1. GlobalAddressMap[g] \in Address /\ Stub(g) \in Address
    BY AddressIsKnown, AddressFacts
  <2>2. g \in External => Native(g) \in Address
    BY AddressFacts
  <2> QED
    BY <2>1, <2>2 DEF Relocate
<1>8. /\ Len(bodies') = n /\ DOMAIN bodies' = DOMAIN bodies
      /\ \A j \in DOMAIN bodies : /\ bodies'[j].fn = bodies[j].fn
                                  /\ bodies'[j].state = bodies[j].state
  BY <1>1, <1>7, CallChanges DEF Bind
<1>9. job'.fn = f /\ job'.phase = "relocate"
  <2>1. job \in JobState /\ job' = [job EXCEPT !.todo = @ \ {g}]
    BY <1>7 DEF Bind, TypeInv, TypeOK, JobState
  <2> QED
    BY <1>1, <2>1 DEF JobState
<1>10. LockInv'
  BY <1>1, <1>3 DEF TablesInv, LockInv, Freeing, At
<1>11. RecordInv'
  <2>1. ASSUME NEW h \in Functions, EmittedFunctions[h] # 0
        PROVE  bodies'[EmittedFunctions[h]].fn = h
    BY <1>8, <2>1, Recorded DEF TablesInv, RecordInv
  <2> QED
    BY <1>2, <1>3, <1>6, <1>8, <1>9, <2>1 DEF RecordInv
<1>12. NoBodyIsLost'
  BY <1>3, <1>8 DEF TablesInv, NoBodyIsLost, Live, Freed
<1>13. FreeInv'
  BY <1>3, <1>4 DEF FreeInv, Freeing, At
<1>14. NullInv'
  BY <1>3, <1>4, <1>6 DEF TablesInv, NullInv
<1>15. PendingInv'
  <2>1. CASE PendingFunctions' = PendingFunctions
    <3>1. PendingFunctions \in Seq(Functions \ External)
      BY DEF TypeInv, TypeOK
    <3>2. \A k \in DOMAIN PendingFunctions : PendingFunctions[k] \in Functions
      BY <3>1, LenProperties
    <3> QED
      BY <1>1, <1>3, <1>5, <1>6, <1>9, <2>1, <3>2 DEF TablesInv, PendingInv
  <2>2. CASE /\ g \notin External /\ g # f
             /\ EmittedFunctions[g] = 0
             /\ stub[g] = NoStub
             /\ stub'[g] # NoStub
             /\ GlobalAddressMap'[g] = Stub(g)
             /\ PendingFunctions' = Append(PendingFunctions, g)
    <3>1. GlobalAddressMap'[g] # Null
      BY <2>2, AddressesDiffer
    <3>2. PendingInv
      BY DEF TablesInv
    <3> QED
      BY <1>1, <1>3, <1>5, <1>6, <1>9, <2>2, <3>1, <3>2, PendingGrows
  <2> QED
    BY <1>5, <2>1, <2>2
<1>16. MapInv'
  BY <1>1, <1>3, <1>6, <1>8, <1>9 DEF TablesInv, MapInv
<1> QED
  BY <1>10, <1>11, <1>12, <1>13, <1>14, <1>15, <1>16 DEF TablesInv

\* The list of pending functions, and what else the invariants say of them,
\* when nothing of it changes but the job.
LEMMA PendingStays ==
  ASSUME PendingInv, UNCHANGED <<GlobalAddressMap, PendingFunctions>>,
         \A k \in DOMAIN PendingFunctions : EmittedFunctions'[PendingFunctions[k]] = 0,
         \A h : stub[h] # NoStub => stub'[h] # NoStub,
         job'.phase \in {"start", "relocate"} =>
           \A k \in DOMAIN PendingFunctions : PendingFunctions[k] # job'.fn
  PROVE  PendingInv'
BY DEF PendingInv

LEMMA RetryTables ==
  ASSUME EngineAssumption, TypeInv, TablesInv, NEW t \in Threads, retryWithMoreMemory(t)
  PROVE  TablesInv'
<1> DEFINE f == job.fn
           n == Len(bodies)
<1>1. /\ f \in Functions \ External /\ job.phase = "relocate"
      /\ lock = t /\ At(t, "compiling")
      /\ n \in DOMAIN bodies /\ bodies \in Seq(BodyState)
      /\ n \in Nat /\ n # 0
  <2>1. /\ f \in Functions \ External /\ job.phase = "relocate"
        /\ lock = t /\ At(t, "compiling") /\ bodies \in Seq(BodyState)
    BY DEF TypeInv, TypeOK, JobShape, retryWithMoreMemory, Compiles
  <2> QED
    BY <2>1, LenProperties DEF TypeInv, JobShape
<1>2. EmittedFunctions[f] = n
  BY <1>1 DEF TablesInv, RecordInv
<1>3. \A u \in Threads : ~Freeing(u)
  BY <1>1, OnlyOneCompiles
<1>4. /\ Len(bodies') = n /\ DOMAIN bodies' = DOMAIN bodies
      /\ \A j \in DOMAIN bodies : /\ bodies'[j].fn = bodies[j].fn
                                  /\ j # n => bodies'[j] = bodies[j]
      /\ bodies'[n].state = "freed"
  BY <1>1, StateChanges DEF retryWithMoreMemory
<1>5. /\ EmittedFunctions'[f] = 0
      /\ \A h \in Functions \ {f} : EmittedFunctions'[h] = EmittedFunctions[h]
  BY <1>1, Recorded DEF retryWithMoreMemory
<1>6. job'.fn = f /\ job'.phase = "start"
  BY Jobs DEF retryWithMoreMemory
<1>7. UNCHANGED <<GlobalAddressMap, stub, PendingFunctions, lock, thread>>
  BY DEF retryWithMoreMemory
<1>8. LockInv'
  BY <1>1, <1>7 DEF TablesInv, LockInv, Freeing, At
<1>9. RecordInv'
  <2>1. ASSUME NEW h \in Functions, EmittedFunctions'[h] # 0
        PROVE  bodies'[EmittedFunctions'[h]].fn = h
    BY <1>1, <1>4, <1>5, <2>1, Recorded DEF TablesInv, RecordInv
  <2> QED
    BY <1>5, <1>6, <2>1 DEF RecordInv
<1>10. NoBodyIsLost'
  <2>1. ASSUME NEW j \in DOMAIN bodies', bodies'[j].state # "freed"
        PROVE  EmittedFunctions'[bodies'[j].fn] = j
    <3>1. j \in Live /\ j # n /\ bodies'[j] = bodies[j]
      BY <1>1, <1>4, <2>1 DEF Live, Freed
    <3>2. EmittedFunctions[bodies[j].fn] = j
      BY <3>1 DEF TablesInv, NoBodyIsLost
    <3>3. bodies[j] \in BodyState
      BY <1>1, <1>4, <2>1, LenProperties
    <3>4. bodies[j].fn \in Functions
      BY <3>3 DEF BodyState
    <3> QED
      BY <1>2, <1>5, <3>1, <3>2, <3>4
  <2> QED
    BY <2>1 DEF NoBodyIsLost, Live, Freed
<1>11. FreeInv'
  BY <1>3, <1>7 DEF FreeInv, Freeing, At
<1>12. NullInv'
  BY <1>3, <1>5, <1>7 DEF TablesInv, NullInv
<1>13. PendingInv'
  <2>1. \A k \in DOMAIN PendingFunctions :
          PendingFunctions[k] \in Functions /\ PendingFunctions[k] # f
    <3>1. PendingFunctions \in Seq(Functions \ External)
      BY DEF TypeInv, TypeOK
    <3> QED
      BY <1>1, <3>1, LenProperties DEF TablesInv, PendingInv
  <2>2. \A k \in DOMAIN PendingFunctions : EmittedFunctions'[PendingFunctions[k]] = 0
    BY <1>5, <2>1 DEF TablesInv, PendingInv
  <2> QED
    BY <1>6, <1>7, <2>1, <2>2, PendingStays DEF TablesInv
<1>14. MapInv'
  <2>1. ASSUME NEW h \in Functions \ {f}, NEW j \in DOMAIN bodies',
               GlobalAddressMap'[h] = Body(j)
        PROVE  EmittedFunctions'[h] = j /\ bodies'[j].state = "finished"
    <3>1. EmittedFunctions[h] = j /\ bodies[j].state = "finished" /\ bodies[j].fn = h
      BY <1>1, <1>4, <1>7, <2>1, Recorded DEF TablesInv, MapInv, RecordInv
    <3>2. j # n
      BY <1>1, <1>2, <2>1, <3>1, Recorded DEF TablesInv, RecordInv
    <3> QED
      BY <1>4, <1>5, <2>1, <3>1, <3>2
  <2> QED
    BY <1>6, <2>1 DEF MapInv
<1> QED
  BY <1>8, <1>9, <1>10, <1>11, <1>12, <1>13, <1>14 DEF TablesInv

LEMMA FinishTables ==
  ASSUME EngineAssumption, TypeInv, TablesInv, NEW t \in Threads, finishFunction(t)
  PROVE  TablesInv'
<1> DEFINE f == job.fn
           n == Len(bodies)
           ph == IF job.pending THEN "fill" ELSE "next"
<1>1. /\ f \in Functions \ External /\ job.phase = "relocate"
      /\ lock = t /\ At(t, "compiling")
      /\ n \in DOMAIN bodies /\ bodies \in Seq(BodyState)
  <2>1. /\ f \in Functions \ External /\ job.phase = "relocate"
        /\ lock = t /\ At(t, "compiling") /\ bodies \in Seq(BodyState)
    BY DEF TypeInv, TypeOK, JobShape, finishFunction, Compiles
  <2> QED
    BY <2>1, LenProperties DEF TypeInv, JobShape
<1>2. EmittedFunctions[f] = n /\ GlobalAddressMap[f] = Body(n)
  BY <1>1 DEF TablesInv, RecordInv
<1>3. \A u \in Threads : ~Freeing(u)
  BY <1>1, OnlyOneCompiles
<1>4. /\ Len(bodies') = n /\ DOMAIN bodies' = DOMAIN bodies
      /\ \A j \in DOMAIN bodies : /\ bodies'[j].fn = bodies[j].fn
                                  /\ j # n => bodies'[j] = bodies[j]
      /\ bodies'[n].state = "finished"
  BY <1>1, StateChanges DEF finishFunction
<1>5. job'.fn = f /\ job'.phase \in {"fill", "next"}
  <2>1. job \in JobState /\ job' = [job EXCEPT !.phase = ph] /\ ph \in {"fill", "next"}
    BY DEF finishFunction, TypeInv, TypeOK, JobState
  <2> HIDE DEF ph
  <2> QED
    BY <2>1 DEF JobState
<1>6. UNCHANGED <<GlobalAddressMap, EmittedFunctions, stub, PendingFunctions, lock, thread>>
  BY DEF finishFunction
<1>7. LockInv'
  BY <1>1, <1>6 DEF TablesInv, LockInv, Freeing, At
<1>8. RecordInv'
  <2>1. ASSUME NEW h \in Functions, EmittedFunctions[h] # 0
        PROVE  bodies'[EmittedFunctions[h]].fn = h
    BY <1>4, <2>1, Recorded DEF TablesInv, RecordInv
  <2> QED
    BY <1>5, <1>6, <2>1 DEF RecordInv
<1>9. NoBodyIsLost'
  <2>1. ASSUME NEW j \in DOMAIN bodies', bodies'[j].state # "freed"
        PROVE  EmittedFunctions[bodies'[j].fn] = j
    <3>1. CASE j = n
      <4>1. bodies[n].fn = f
        BY <1>1, <1>2, Recorded DEF TablesInv, RecordInv, TypeInv, JobShape
      <4> QED
        BY <1>1, <1>2, <1>4, <3>1, <4>1
    <3>2. CASE j # n
      BY <1>4, <2>1, <3>2 DEF TablesInv, NoBodyIsLost, Live, Freed
    <3> QED
      BY <3>1, <3>2
  <2> QED
    BY <1>6, <2>1 DEF NoBodyIsLost, Live, Freed
<1>10. FreeInv'
  BY <1>3, <1>6 DEF FreeInv, Freeing, At
<1>11. NullInv'
  BY <1>3, <1>6 DEF TablesInv, NullInv
<1>12. PendingInv'
  BY <1>5, <1>6, PendingStays DEF TablesInv, PendingInv
<1>13. MapInv'
  <2>1. ASSUME NEW h \in Functions, NEW j \in DOMAIN bodies', GlobalAddressMap[h] = Body(j)
        PROVE  EmittedFunctions[h] = j /\ bodies'[j].state = "finished"
    <3>1. CASE h = f
      BY <1>2, <1>4, <2>1, <3>1, AddressesDiffer
    <3>2. CASE h # f
      BY <1>4, <2>1, <3>2 DEF TablesInv, MapInv
    <3> QED
      BY <3>1, <3>2
  <2> QED
    BY <1>6, <2>1 DEF MapInv
<1> QED
  BY <1>7, <1>8, <1>9, <1>10, <1>11, <1>12, <1>13 DEF TablesInv

LEMMA FillTables ==
  ASSUME EngineAssumption, TypeInv, TablesInv, NEW t \in Threads, updateFunctionStub(t)
  PROVE  TablesInv'
<1>1. /\ job.fn \in Functions /\ job.phase = "fill"
      /\ lock = t /\ At(t, "compiling")
      /\ GlobalAddressMap[job.fn] \in Address
  BY AddressIsKnown DEF TypeInv, JobShape, updateFunctionStub, Compiles
<1>2. UNCHANGED <<GlobalAddressMap, EmittedFunctions, bodies, PendingFunctions, lock, thread>>
  BY DEF updateFunctionStub
<1>3. job'.fn = job.fn /\ job'.phase = "next"
  <2>1. job \in JobState /\ job' = [job EXCEPT !.phase = "next"]
    BY DEF updateFunctionStub, TypeInv, TypeOK, JobState
  <2> QED
    BY <2>1 DEF JobState
<1>4. \A h : stub[h] # NoStub => stub'[h] # NoStub
  <2>1. GlobalAddressMap[job.fn] # NoStub
    BY <1>1, AddressFacts
  <2> QED
    BY <2>1 DEF TypeInv, TypeOK, updateFunctionStub
<1>5. LockInv'
  BY <1>1, <1>2 DEF TablesInv, LockInv, Freeing, At
<1>6. RecordInv'
  BY <1>2, <1>3 DEF TablesInv, RecordInv
<1>7. NoBodyIsLost'
  BY <1>2 DEF TablesInv, NoBodyIsLost, Live, Freed
<1>8. FreeInv' /\ NullInv'
  BY <1>2 DEF TablesInv, FreeInv, NullInv, Freeing, At, Freed
<1>9. PendingInv'
  BY <1>2, <1>3, <1>4, PendingStays DEF TablesInv, PendingInv
<1>10. MapInv'
  BY <1>1, <1>2 DEF TablesInv, MapInv
<1> QED
  BY <1>5, <1>6, <1>7, <1>8, <1>9, <1>10 DEF TablesInv

LEMMA NextPendingTables ==
  ASSUME EngineAssumption, TypeInv, TablesInv, NEW t \in Threads, NextPending(t)
  PROVE  TablesInv'
<1> DEFINE n == Len(PendingFunctions)
           f == PendingFunctions[n]
<1>1. /\ job.phase = "next" /\ lock = t /\ At(t, "compiling")
      /\ PendingFunctions \in Seq(Functions \ External)
  BY DEF NextPending, Compiles, TypeInv, TypeOK
<1>2. /\ n \in Nat /\ n > 0 /\ DOMAIN PendingFunctions = 1 .. n
      /\ \A k \in 1 .. n : PendingFunctions[k] \in Functions
  BY <1>1, LenProperties DEF NextPending
<1>3. UNCHANGED <<GlobalAddressMap, stub, EmittedFunctions, bodies, lock, thread>>
  BY DEF NextPending
<1>4. job'.fn = f /\ job'.phase = "start"
  BY Jobs DEF NextPending
<1>5. EmittedFunctions[f] = 0
  BY <1>2 DEF TablesInv, PendingInv
<1>6. /\ DOMAIN PendingFunctions' = 1 .. n - 1
      /\ \A k \in 1 .. n - 1 : PendingFunctions'[k] = PendingFunctions[k]
  <2>1. PendingFunctions' = SubSeq(PendingFunctions, 1, n - 1)
    BY DEF NextPending
  <2> HIDE DEF n
  <2>2. \A k \in 1 .. n - 1 : PendingFunctions[k] \in Functions
    BY <1>2
  <2>3. /\ PendingFunctions' \in Seq(Functions)
        /\ Len(PendingFunctions') = n - 1
        /\ \A k \in 1 .. n - 1 : PendingFunctions'[k] = PendingFunctions[k]
    BY <1>2, <2>1, <2>2, SubSeqProperties
  <2> QED
    BY <2>3, LenProperties
<1>7. LockInv'
  BY <1>1, <1>3 DEF TablesInv, LockInv, Freeing, At
<1>8. RecordInv'
  BY <1>3, <1>4, <1>5 DEF TablesInv, RecordInv
<1>9. NoBodyIsLost'
  BY <1>3 DEF TablesInv, NoBodyIsLost, Live, Freed
<1>10. FreeInv' /\ NullInv'
  BY <1>3 DEF TablesInv, FreeInv, NullInv, Freeing, At, Freed
<1>11. PendingInv'
  <2>1. \A k \in 1 .. n - 1 : PendingFunctions[k] # f
    BY <1>2 DEF TablesInv, PendingInv
  <2>2. \A k \in 1 .. n - 1 : k \in DOMAIN PendingFunctions
    BY <1>2
  <2> HIDE DEF n, f
  <2> QED
    BY <1>3, <1>4, <1>6, <2>1, <2>2 DEF TablesInv, PendingInv
<1>12. MapInv'
  BY <1>1, <1>3 DEF TablesInv, MapInv
<1> QED
  BY <1>7, <1>8, <1>9, <1>10, <1>11, <1>12 DEF TablesInv

\* The lock is released, by thread t that has no business with it any more.
LEMMA LockReleased ==
  ASSUME EngineAssumption, TablesInv, NEW t \in Threads,
         lock = t, lock' = NoThread, job'.phase = "none",
         \A u \in Threads \ {t} : thread'[u] = thread[u],
         thread'[t].pc \notin Working \cup {"stubbing"}
  PROVE  LockInv' /\ \A u \in Threads : ~Freeing(u)' /\ ~At(u, "deallocated")'
<1>1. \A u \in Threads : thread'[u].pc \notin Working
  BY DEF TablesInv, LockInv, Freeing, At, Working
<1>2. \A u \in Threads : At(u, "stubbing")' => Lazy
  BY DEF TablesInv, LockInv, At
<1>3. \A u \in Threads : ~Freeing(u)' /\ ~At(u, "compiling")' /\ ~At(u, "deallocated")'
  BY <1>1 DEF Freeing, At, Working
<1>4. \A u \in Threads : lock' # u
  BY DEF EngineAssumption
<1> QED
  BY <1>2, <1>3, <1>4 DEF LockInv

LEMMA CompiledTables ==
  ASSUME EngineAssumption, TypeInv, TablesInv, NEW t \in Threads, Compiled(t)
  PROVE  TablesInv'
<1>1. /\ job.phase = "next" /\ lock = t /\ At(t, "compiling")
      /\ thread \in [Threads -> ThreadState] /\ thread[t].fn \in Functions
  BY DEF Compiled, Compiles, At, TypeInv, TypeOK, ThreadShape
<1>2. UNCHANGED <<GlobalAddressMap, stub, EmittedFunctions, bodies, PendingFunctions>>
      /\ lock' = NoThread
  BY DEF Compiled, tables
<1>3. job'.phase = "none"
  BY Jobs DEF Compiled
<1>4. /\ \A u \in Threads \ {t} : thread'[u] = thread[u]
      /\ thread'[t].pc \in {"ready", "resolved"}
  BY <1>1, AddressIsKnown, ObtainChanges DEF Compiled
<1>5. LockInv' /\ \A u \in Threads : ~Freeing(u)' /\ ~At(u, "deallocated")'
  BY <1>1, <1>2, <1>3, <1>4, LockReleased DEF Working
<1>6. RecordInv'
  BY <1>2, <1>3 DEF TablesInv, RecordInv
<1>7. NoBodyIsLost'
  BY <1>2 DEF TablesInv, NoBodyIsLost, Live, Freed
<1>8. FreeInv'
  BY <1>5 DEF FreeInv
<1>9. NullInv'
  BY <1>1, <1>2, OnlyOneCompiles DEF TablesInv, NullInv
<1>10. PendingInv'
  BY <1>2, <1>3, PendingStays DEF TablesInv, PendingInv
<1>11. MapInv'
  BY <1>1, <1>2 DEF TablesInv, MapInv
<1> QED
  BY <1>5, <1>6, <1>7, <1>8, <1>9, <1>10, <1>11 DEF TablesInv

LEMMA ObtainStubTables ==
  ASSUME EngineAssumption, TypeInv, TablesInv, NEW t \in Threads, ObtainStub(t)
  PROVE  TablesInv'
<1> DEFINE g == thread[t].fn
<1>1. /\ thread \in [Threads -> ThreadState] /\ g \in Functions /\ Lazy
      /\ Unlocked /\ thread[t].pc = "stubbing"
      /\ getLazyFunctionStub(g)
  BY DEF ObtainStub, At, TypeInv, TypeOK, ThreadShape, TablesInv, LockInv
<1>2. UNCHANGED <<EmittedFunctions, bodies, lock, job>>
  BY DEF ObtainStub
<1>3. job.phase = "none" /\ \A u \in Threads : thread[u].pc \notin Working /\ ~Freeing(u)
  BY <1>1, NobodyWorks
<1>4. /\ \A u \in Threads \ {t} : thread'[u] = thread[u]
      /\ thread'[t].pc \in {"ready", "resolved"}
  BY <1>1, AddressFacts, ObtainChanges DEF ObtainStub
<1>5. /\ \A h \in Functions \ {g} : GlobalAddressMap'[h] = GlobalAddressMap[h]
      /\ GlobalAddressMap'[g] \in {GlobalAddressMap[g], Stub(g)}
      /\ \A h : stub[h] # NoStub => stub'[h] # NoStub
      /\ PendingFunctions' = PendingFunctions
  BY <1>1, StubTables
<1>6. /\ \A h \in Functions : GlobalAddressMap[h] # Null => GlobalAddressMap'[h] # Null
      /\ \A h \in Functions : \A i : GlobalAddressMap'[h] = Body(i) => GlobalAddressMap[h] = Body(i)
  BY <1>1, <1>5, AddressesDiffer
<1>7. \A u \in Threads : ~Freeing(u)' /\ ~At(u, "compiling")' /\ ~At(u, "deallocated")'
  BY <1>3, <1>4 DEF Working, Freeing, At
<1>8. LockInv'
  <2>1. \A u \in Threads : lock # u
    BY <1>1 DEF Unlocked, EngineAssumption
  <2> QED
    BY <1>1, <1>2, <1>3, <1>7, <2>1 DEF LockInv
<1>9. RecordInv'
  BY <1>2, <1>3 DEF TablesInv, RecordInv
<1>10. NoBodyIsLost'
  BY <1>2 DEF TablesInv, NoBodyIsLost, Live, Freed
<1>11. FreeInv'
  BY <1>7 DEF FreeInv
<1>12. NullInv'
  BY <1>2, <1>3, <1>6 DEF TablesInv, NullInv
<1>13. PendingInv'
  <2>1. PendingFunctions \in Seq(Functions \ External)
    BY DEF TypeInv, TypeOK
  <2>2. \A k \in DOMAIN PendingFunctions : PendingFunctions[k] \in Functions
    BY <2>1, LenProperties
  <2> QED
    BY <1>2, <1>3, <1>5, <1>6, <2>2 DEF TablesInv, PendingInv
<1>14. MapInv'
  BY <1>2, <1>6 DEF TablesInv, MapInv
<1> QED
  BY <1>8, <1>9, <1>10, <1>11, <1>12, <1>13, <1>14 DEF TablesInv

LEMMA FreeTables ==
  ASSUME EngineAssumption, CarefulClients, TypeInv, TablesInv,
         NEW t \in Threads, NEW f \in Functions,
         EmittedFunctions[f] # 0, freeMachineCodeForFunction(t, f)
  PROVE  TablesInv'
<1>1. /\ thread \in [Threads -> ThreadState] /\ Unlocked /\ thread[t].pc = "idle"
      /\ GlobalAddressMap \in [Functions -> Address]
  BY DEF freeMachineCodeForFunction, At, TypeInv, TypeOK
<1>2. /\ UNCHANGED <<stub, EmittedFunctions, bodies, PendingFunctions, job>>
      /\ lock' = t
  BY DEF freeMachineCodeForFunction, CarefulClients
<1>3. job.phase = "none" /\ \A u \in Threads : thread[u].pc \notin Working /\ ~Freeing(u)
  BY <1>1, NobodyWorks
<1>4. thread' = [thread EXCEPT ![t].pc = "unmapped", ![t].fn = f]
  BY DEF freeMachineCodeForFunction
<1>5. \A u \in Threads \ {t} : thread'[u] = thread[u]
  BY <1>1, <1>4
<1>6. thread'[t].pc = "unmapped" /\ thread'[t].fn = f
  BY <1>1, <1>4 DEF ThreadState
<1>7. /\ GlobalAddressMap'[f] = Null
      /\ \A h \in Functions \ {f} : GlobalAddressMap'[h] = GlobalAddressMap[h]
  BY <1>1 DEF freeMachineCodeForFunction, updateGlobalMapping
<1>8. /\ Freeing(t)' /\ \A u \in Threads \ {t} : ~Freeing(u)'
      /\ \A u \in Threads : ~At(u, "compiling")' /\ ~At(u, "deallocated")'
  BY <1>3, <1>5, <1>6 DEF Freeing, At, Working
<1>9. LockInv'
  <2>1. \A u \in Threads : At(u, "stubbing")' => Lazy
    BY <1>5, <1>6 DEF TablesInv, LockInv, At
  <2> QED
    BY <1>2, <1>3, <1>8, <2>1 DEF LockInv
<1>10. RecordInv'
  BY <1>2, <1>3 DEF TablesInv, RecordInv
<1>11. NoBodyIsLost'
  BY <1>2 DEF TablesInv, NoBodyIsLost, Live, Freed
<1>12. FreeInv'
  BY <1>6, <1>7, <1>8 DEF FreeInv
<1>13. NullInv'
  <2>1. ASSUME NEW h \in Functions \ {f}, GlobalAddressMap'[h] = Null
        PROVE  EmittedFunctions'[h] = 0
    BY <1>2, <1>3, <1>7, <2>1 DEF TablesInv, NullInv
  <2> QED
    BY <1>6, <1>8, <2>1 DEF NullInv
<1>14. PendingInv'
  <2>1. PendingFunctions \in Seq(Functions \ External)
    BY DEF TypeInv, TypeOK
  <2>2. \A k \in DOMAIN PendingFunctions : PendingFunctions[k] \in Functions \ {f}
    BY <2>1, LenProperties DEF TablesInv, PendingInv
  <2> QED
    BY <1>2, <1>3, <1>7, <2>2 DEF TablesInv, PendingInv
<1>15. MapInv'
  <2>1. \A i : GlobalAddressMap'[f] # Body(i)
    BY <1>7, AddressesDiffer
  <2> QED
    BY <1>2, <1>3, <1>7, <2>1 DEF TablesInv, MapInv
<1> QED
  BY <1>9, <1>10, <1>11, <1>12, <1>13, <1>14, <1>15 DEF TablesInv

\* A thread that frees code holds the lock, alone, and nothing is compiled.
LEMMA OnlyOneFrees ==
  ASSUME EngineAssumption, TablesInv, NEW t \in Threads, Freeing(t)
  PROVE  /\ lock = t /\ job.phase = "none"
         /\ \A u \in Threads \ {t} : ~Freeing(u) /\ thread[u].pc \notin Working
         /\ GlobalAddressMap[thread[t].fn] = Null
<1>1. lock = t
  BY DEF TablesInv, LockInv
<1>2. ~At(t, "compiling")
  BY DEF Freeing, At
<1>3. \A u \in Threads \ {t} : ~Freeing(u) /\ ~At(u, "compiling")
  BY <1>1 DEF TablesInv, LockInv
<1>4. job.phase = "none"
  BY <1>1, <1>2 DEF TablesInv, LockInv
<1> QED
  BY <1>1, <1>3, <1>4 DEF Working, Freeing, At, TablesInv, FreeInv

LEMMA DeallocateTables ==
  ASSUME EngineAssumption, TypeInv, TablesInv, NEW t \in Threads, deallocateMemForFunction(t)
  PROVE  TablesInv'
<1> DEFINE f == thread[t].fn
           i == EmittedFunctions[f]
<1>1. /\ thread \in [Threads -> ThreadState] /\ thread[t].pc = "unmapped"
      /\ f \in Functions /\ Freeing(t) /\ Goto(t, "deallocated")
  BY DEF TypeInv, TypeOK, ThreadShape, deallocateMemForFunction, At, Freeing
<1>2. UNCHANGED <<GlobalAddressMap, stub, EmittedFunctions, PendingFunctions, lock, job>>
  BY DEF deallocateMemForFunction
<1>3. /\ lock = t /\ job.phase = "none" /\ GlobalAddressMap[f] = Null
      /\ \A u \in Threads \ {t} : ~Freeing(u) /\ thread[u].pc \notin Working
  BY <1>1, OnlyOneFrees
<1>4. /\ \A u \in Threads \ {t} : thread'[u] = thread[u]
      /\ thread'[t].pc = "deallocated" /\ thread'[t].fn = f
  BY <1>1, GotoChanges DEF Places
<1>5. \A u \in Threads : /\ Freeing(u)' <=> Freeing(u)
                         /\ ~At(u, "compiling")'
                         /\ At(u, "deallocated")' => u = t
                         /\ thread'[u].fn = thread[u].fn
  BY <1>1, <1>3, <1>4 DEF Freeing, At, Working
<1>6. bodies \in Seq(BodyState) /\ (i # 0 => i \in DOMAIN bodies)
  BY <1>1, Recorded DEF TypeInv, TypeOK
<1>7. /\ Len(bodies') = Len(bodies) /\ DOMAIN bodies' = DOMAIN bodies
      /\ \A j \in DOMAIN bodies : /\ bodies'[j].fn = bodies[j].fn
                                  /\ j # i => bodies'[j] = bodies[j]
      /\ i # 0 => bodies'[i].state = "freed"
  <2>1. CASE i = 0
    BY <2>1 DEF deallocateMemForFunction
  <2>2. CASE i # 0
    <3>1. bodies' = [bodies EXCEPT ![i].state = "freed"]
      BY <2>2 DEF deallocateMemForFunction
    <3> HIDE DEF i
    <3> QED
      BY <1>6, <2>2, <3>1, StateChanges
  <2> QED
    BY <2>1, <2>2
<1>8. LockInv'
  <2>1. \A u \in Threads : At(u, "stubbing")' => Lazy
    BY <1>4 DEF TablesInv, LockInv, At
  <2> QED
    BY <1>1, <1>2, <1>3, <1>5, <2>1 DEF LockInv
<1>9. RecordInv'
  <2>1. ASSUME NEW h \in Functions, EmittedFunctions[h] # 0
        PROVE  bodies'[EmittedFunctions[h]].fn = h
    BY <1>7, <2>1, Recorded DEF TablesInv, RecordInv
  <2> QED
    BY <1>2, <1>3, <2>1 DEF RecordInv
<1>10. NoBodyIsLost'
  <2>1. ASSUME NEW j \in DOMAIN bodies', bodies'[j].state # "freed"
        PROVE  EmittedFunctions'[bodies'[j].fn] = j
    <3>1. 0 \notin DOMAIN bodies
      BY <1>6, LenProperties
    <3>2. j # i
      BY <1>7, <2>1, <3>1
    <3>3. j \in Live /\ bodies'[j] = bodies[j]
      BY <1>7, <2>1, <3>2 DEF Live, Freed
    <3> QED
      BY <1>2, <3>3 DEF TablesInv, NoBodyIsLost
  <2> QED
    BY <2>1 DEF NoBodyIsLost, Live, Freed
<1>11. FreeInv'
  <2>1. i \in {0} \cup Freed'
    BY <1>6, <1>7 DEF Freed
  <2>2. \A u \in Threads : Freeing(u) => GlobalAddressMap[thread[u].fn] = Null
    BY DEF TablesInv, FreeInv
  <2>3. EmittedFunctions'[thread'[t].fn] = i
    BY <1>2, <1>4
  <2> HIDE DEF i
  <2> QED
    BY <1>2, <1>5, <2>1, <2>2, <2>3 DEF FreeInv
<1>12. NullInv'
  BY <1>2, <1>5 DEF TablesInv, NullInv
<1>13. PendingInv'
  BY <1>2, <1>3, PendingStays DEF TablesInv, PendingInv
<1>14. MapInv'
  <2>1. ASSUME NEW h \in Functions, NEW j \in DOMAIN bodies', GlobalAddressMap[h] = Body(j)
        PROVE  EmittedFunctions[h] = j /\ bodies'[j].state = "finished"
    <3>1. EmittedFunctions[h] = j /\ bodies[j].state = "finished"
      BY <1>3, <1>7, <2>1 DEF TablesInv, MapInv
    <3>2. bodies[j].fn = h
      BY <1>7, <2>1, <3>1, Recorded DEF TablesInv, RecordInv
    <3>3. h # f
      BY <1>3, <2>1, AddressesDiffer
    <3>4. j # i
      BY <1>1, <1>7, <2>1, <3>2, <3>3, Recorded DEF TablesInv, RecordInv
    <3> QED
      BY <1>7, <2>1, <3>1, <3>4
  <2> QED
    BY <1>2, <2>1 DEF MapInv
<1> QED
  BY <1>8, <1>9, <1>10, <1>11, <1>12, <1>13, <1>14 DEF TablesInv

LEMMA EraseTables ==
  ASSUME EngineAssumption, TypeInv, TablesInv, NEW t \in Threads, EraseRecord(t)
  PROVE  TablesInv'
<1> DEFINE f == thread[t].fn
<1>1. /\ thread \in [Threads -> ThreadState] /\ thread[t].pc = "deallocated"
      /\ f \in Functions /\ Freeing(t) /\ At(t, "deallocated")
  BY DEF TypeInv, TypeOK, ThreadShape, EraseRecord, At, Freeing
<1>2. UNCHANGED <<GlobalAddressMap, stub, bodies, PendingFunctions, job>> /\ lock' = NoThread
  BY DEF EraseRecord
<1>3. /\ lock = t /\ job.phase = "none" /\ GlobalAddressMap[f] = Null
      /\ \A u \in Threads \ {t} : ~Freeing(u) /\ thread[u].pc \notin Working
  BY <1>1, OnlyOneFrees
<1>4. thread' = [thread EXCEPT ![t] = AtRest]
  BY DEF EraseRecord
<1>5. (\A u \in Threads \ {t} : thread'[u] = thread[u]) /\ thread'[t].pc = "idle"
  BY <1>1, <1>4, AtRestTypes
<1>6. LockInv' /\ \A u \in Threads : ~Freeing(u)' /\ ~At(u, "deallocated")'
  BY <1>2, <1>3, <1>5, LockReleased DEF Working
<1>7. /\ EmittedFunctions'[f] = 0
      /\ \A h \in Functions \ {f} : EmittedFunctions'[h] = EmittedFunctions[h]
  BY <1>1, Recorded DEF EraseRecord
<1>8. RecordInv'
  BY <1>2, <1>3, <1>7 DEF TablesInv, RecordInv
<1>9. NoBodyIsLost'
  <2>1. ASSUME NEW j \in Live
        PROVE  EmittedFunctions'[bodies[j].fn] = j
    <3>1. EmittedFunctions[bodies[j].fn] = j
      BY DEF TablesInv, NoBodyIsLost
    <3>2. j \in DOMAIN bodies /\ j \notin Freed /\ j # 0
      BY Recorded, LenProperties DEF TypeInv, TypeOK, Live
    <3>3. bodies[j] \in BodyState
      BY <3>2, LenProperties DEF TypeInv, TypeOK
    <3>4. bodies[j].fn \in Functions
      BY <3>3 DEF BodyState
    <3>5. EmittedFunctions[f] \in {0} \cup Freed
      BY <1>1 DEF TablesInv, FreeInv
    <3> QED
      BY <1>7, <3>1, <3>2, <3>4, <3>5
  <2> QED
    BY <1>2, <2>1 DEF NoBodyIsLost, Live, Freed
<1>10. FreeInv'
  BY <1>6 DEF FreeInv
<1>11. NullInv'
  <2>1. ASSUME NEW h \in Functions, GlobalAddressMap[h] = Null
        PROVE  EmittedFunctions'[h] = 0
    BY <1>3, <1>7, <2>1 DEF TablesInv, NullInv
  <2> QED
    BY <1>2, <2>1 DEF NullInv
<1>12. PendingInv'
  <2>1. PendingFunctions \in Seq(Functions \ External)
    BY DEF TypeInv, TypeOK
  <2>2. \A k \in DOMAIN PendingFunctions : PendingFunctions[k] \in Functions
    BY <2>1, LenProperties
  <2>3. \A k \in DOMAIN PendingFunctions : EmittedFunctions'[PendingFunctions[k]] = 0
    BY <1>7, <2>2 DEF TablesInv, PendingInv
  <2> QED
    BY <1>2, <1>3, <2>3, PendingStays DEF TablesInv
<1>13. MapInv'
  <2>1. \A i : GlobalAddressMap[f] # Body(i)
    BY <1>3, AddressesDiffer
  <2> QED
    BY <1>2, <1>3, <1>7, <2>1 DEF TablesInv, MapInv
<1> QED
  BY <1>6, <1>8, <1>9, <1>10, <1>11, <1>12, <1>13 DEF TablesInv

LEMMA QuietTables ==
  ASSUME EngineAssumption, CarefulClients, TypeInv, TablesInv, NEW t \in Threads
  PROVE  /\ \A f \in Functions : Ask(t, f) => TablesInv'
         /\ Lookup(t) => TablesInv'
         /\ JITCompilerFn(t) => TablesInv'
         /\ ReacquireLock(t) => TablesInv'
<1>1. thread \in [Threads -> ThreadState] /\ GlobalAddressMap \in [Functions -> Address]
  BY DEF TypeInv, TypeOK
<1>2. ASSUME NEW f \in Functions, Ask(t, f)
      PROVE  TablesInv'
  <2>1. thread' = [thread EXCEPT ![t].pc = "lookup", ![t].fn = f]
    BY <1>2 DEF Ask
  <2>2. (\A u \in Threads \ {t} : thread'[u] = thread[u]) /\ thread'[t].pc = "lookup"
    BY <1>1, <2>1 DEF ThreadState
  <2> QED
    BY <1>2, <2>2, QuietSteps DEF Ask, At, tables, Working
<1>3. ASSUME NEW f \in Functions, Obtain(t, GlobalAddressMap[f]),
             UNCHANGED <<tables, lock, job>>, thread[t].pc \notin Working
      PROVE  TablesInv'
  <2>1. GlobalAddressMap[f] \in Address
    BY <1>1
  <2>2. /\ \A u \in Threads \ {t} : thread'[u] = thread[u]
        /\ thread'[t].pc \in {"ready", "resolved"}
    BY <1>1, <1>3, <2>1, ObtainChanges
  <2> QED
    BY <1>3, <2>2, QuietSteps DEF tables, Working
<1>4. ASSUME NEW pc \in {"lookup", "enter", "rewriting"}, Goto(t, pc),
             UNCHANGED <<tables, lock, job>>, thread[t].pc \notin Working
      PROVE  TablesInv'
  <2>1. (\A u \in Threads \ {t} : thread'[u] = thread[u]) /\ thread'[t].pc = pc
    BY <1>1, <1>4, GotoChanges DEF Places
  <2> QED
    BY <1>4, <2>1, QuietSteps DEF tables, Working
<1>5. thread[t].pc \in {"lookup", "callback"} => thread[t].fn \in Functions
  BY DEF TypeInv, ThreadShape
<1>6. Lookup(t) => TablesInv'
  BY <1>3, <1>4, <1>5 DEF Lookup, At, Working
<1>7. JITCompilerFn(t) => TablesInv'
  BY <1>3, <1>4, <1>5 DEF JITCompilerFn, At, Working
<1>8. ReacquireLock(t) => TablesInv'
  BY <1>4 DEF ReacquireLock, At, Working
<1> QED
  BY <1>2, <1>6, <1>7, <1>8

\* Executing code, getting to a stub, and through it.
LEMMA CodeTables ==
  ASSUME EngineAssumption, CarefulClients, TypeInv, TablesInv, NEW t \in Threads
  PROVE  /\ RunCode(t) => TablesInv'
         /\ \A g \in Functions : Call(t, g) => TablesInv'
         /\ Return(t) => TablesInv'
         /\ ThroughStub(t) => TablesInv'
         /\ "orStub" \in Operations => \A f \in Functions : AskOrStub(t, f) => TablesInv'
<1>1. thread \in [Threads -> ThreadState]
  BY DEF TypeInv, TypeOK
<1>2. ASSUME NEW r, thread' = [thread EXCEPT ![t] = r],
             UNCHANGED <<tables, lock, job>>, thread[t].pc \notin Working,
             r.pc \notin Working, r.pc = "stubbing" => Lazy
      PROVE  TablesInv'
  <2>1. (\A u \in Threads \ {t} : thread'[u] = thread[u]) /\ thread'[t] = r
    BY <1>1, <1>2
  <2> QED
    BY <1>2, <2>1, QuietSteps DEF tables
<1>3. ASSUME NEW a, Run(t, a), UNCHANGED <<tables, lock, job>>, thread[t].pc \notin Working
      PROVE  TablesInv'
  <2> DEFINE r == [pc |-> "run", fn |-> NoFn, at |-> a, via |-> NoFn]
  <2>1. thread' = [thread EXCEPT ![t] = r]
    BY <1>3 DEF Run
  <2>2. r.pc = "run"
    OBVIOUS
  <2> HIDE DEF r
  <2> QED
    BY <1>2, <1>3, <2>1, <2>2 DEF Working
<1>4. RunCode(t) => TablesInv'
  BY <1>3 DEF RunCode, At, Working
<1>5. \A g \in Functions : Call(t, g) => TablesInv'
  BY <1>3 DEF Call, At, Working
<1>6. Return(t) => TablesInv'
  BY <1>2, AtRestTypes DEF Return, At, Working
<1>7. ThroughStub(t) => TablesInv'
  <2> DEFINE f == thread[t].at.fn
             r == [pc |-> "callback", fn |-> f, at |-> Null, via |-> f]
  <2>1. r.pc = "callback"
    OBVIOUS
  <2>2. CASE /\ At(t, "run") /\ Run(t, stub[f]) /\ UNCHANGED <<tables, lock, job>>
    BY <1>3, <2>2 DEF At, Working
  <2>3. CASE /\ At(t, "run") /\ thread' = [thread EXCEPT ![t] = r]
             /\ UNCHANGED <<tables, lock, job>>
    <3> HIDE DEF r
    <3> QED
      BY <1>2, <2>1, <2>3 DEF At, Working
  <2> QED
    BY <2>2, <2>3 DEF ThroughStub
<1>8. ASSUME "orStub" \in Operations, NEW f \in Functions, AskOrStub(t, f)
      PROVE  TablesInv'
  <2> DEFINE r == IF GlobalAddressMap[f] # Null
                  THEN [pc |-> "ready", fn |-> f, at |-> GlobalAddressMap[f], via |-> NoFn]
                  ELSE [pc |-> "stubbing", fn |-> f, at |-> Null, via |-> NoFn]
  <2>1. r.pc \in {"ready", "stubbing"}
    OBVIOUS
  <2>2. thread' = [thread EXCEPT ![t] = r]
    BY <1>8 DEF AskOrStub
  <2>3. Lazy
    BY <1>8 DEF CarefulClients
  <2>4. UNCHANGED <<tables, lock, job>> /\ thread[t].pc = "idle"
    BY <1>8 DEF AskOrStub, At
  <2> HIDE DEF r
  <2> QED
    BY <1>2, <2>1, <2>2, <2>3, <2>4 DEF Working
<1> QED
  BY <1>4, <1>5, <1>6, <1>7, <1>8

LEMMA RewriteTables ==
  ASSUME EngineAssumption, TypeInv, TablesInv, NEW t \in Threads
  PROVE  (RewriteStub(t) \/ ReexecuteStub(t)) => TablesInv'
<1>1. /\ thread \in [Threads -> ThreadState] /\ thread[t].at \in Address
      /\ stub \in [Functions -> Address \cup {NoStub, Resolver, Torn}]
  BY DEF TypeInv, TypeOK, ThreadState
<1>2. thread[t].at # NoStub /\ Torn # NoStub
  BY <1>1, AddressFacts, AddressesDiffer
<1>3. ASSUME RewriteStub(t)
      PROVE  TablesInv'
  <2>1. thread[t].pc = "rewriting" /\ Goto(t, "rewritten")
    BY <1>3 DEF RewriteStub, At
  <2>2. (\A u \in Threads \ {t} : thread'[u] = thread[u]) /\ thread'[t].pc = "rewritten"
    BY <1>1, <2>1, GotoChanges DEF Places
  <2>3. \A f : stub[f] # NoStub => stub'[f] # NoStub
    BY <1>1, <1>2, <1>3 DEF RewriteStub
  <2> QED
    BY <1>3, <2>1, <2>2, <2>3, QuietSteps DEF RewriteStub, Working
<1>4. ASSUME ReexecuteStub(t)
      PROVE  TablesInv'
  <2> DEFINE r == [pc |-> "run", fn |-> NoFn, at |-> Stub(thread[t].via), via |-> NoFn]
  <2>1. thread[t].pc = "rewritten" /\ thread' = [thread EXCEPT ![t] = r] /\ r.pc = "run"
    BY <1>4 DEF ReexecuteStub, At, Run
  <2> HIDE DEF r
  <2>2. (\A u \in Threads \ {t} : thread'[u] = thread[u]) /\ thread'[t].pc = "run"
    BY <1>1, <2>1
  <2>3. \A f : stub[f] # NoStub => stub'[f] # NoStub
    BY <1>1, <1>2, <1>4 DEF ReexecuteStub
  <2> QED
    BY <1>4, <2>1, <2>2, <2>3, QuietSteps DEF ReexecuteStub, Working
<1> QED
  BY <1>3, <1>4

LEMMA InitTables ==
  ASSUME EngineAssumption, Init
  PROVE  TablesInv
<1>1. /\ Len(bodies) = 0 /\ DOMAIN bodies = {} /\ DOMAIN PendingFunctions = {}
  BY EmptySeq DEF Init
<1>2. \A t \in Threads : thread[t].pc = "idle"
  BY AtRestTypes DEF Init
<1>3. job.phase = "none"
  BY Jobs DEF Init
<1>4. \A t \in Threads : ~Freeing(t) /\ ~At(t, "compiling") /\ ~At(t, "stubbing")
                         /\ lock # t /\ ~At(t, "deallocated")
  BY <1>2 DEF Freeing, At, Init, EngineAssumption
<1>5. \A f \in Functions : EmittedFunctions[f] = 0
  BY DEF Init
<1>6. LockInv /\ RecordInv
  BY <1>3, <1>4, <1>5 DEF LockInv, RecordInv
<1>7. NoBodyIsLost /\ FreeInv /\ NullInv
  BY <1>1, <1>4, <1>5 DEF NoBodyIsLost, Live, FreeInv, NullInv
<1>8. PendingInv /\ MapInv
  BY <1>1, <1>3 DEF PendingInv, MapInv
<1> QED
  BY <1>6, <1>7, <1>8 DEF TablesInv

LEMMA StepTables ==
  ASSUME EngineAssumption, CarefulClients, NearCalls, EngineInv, [Next]_vars
  PROVE  TablesInv'
<1> TypeInv /\ TablesInv
  BY DEF EngineInv
<1>1. CASE UNCHANGED vars
  BY <1>1 DEF vars, TablesInv, LockInv, RecordInv, NoBodyIsLost, FreeInv, NullInv,
     PendingInv, MapInv, Live, Freed, Freeing, At
<1>2. ASSUME NEW t \in Threads, ClientStep(t)
      PROVE  TablesInv'
  BY <1>2, QuietTables, FreeTables, CodeTables DEF ClientStep, MayFree
<1>3. ASSUME NEW t \in Threads, EngineStep(t)
      PROVE  TablesInv'
  BY <1>3, QuietTables, EnterTables, StartTables, RelocateTables, RetryTables,
     FinishTables, FillTables, NextPendingTables, CompiledTables, CodeTables,
     RewriteTables, DeallocateTables, EraseTables, ObtainStubTables
     DEF EngineStep
<1> QED
  BY <1>1, <1>2, <1>3 DEF Next

-----------------------------------------------------------------------------
(* What follows for clients that are careful, and a target with near calls *)

\* The invariant of the engine is inductive.
THEOREM EngineInvariant ==
  ASSUME CarefulClients, NearCalls
  PROVE  Spec => []EngineInv
<1>1. Init => EngineInv
  BY InitTypes, InitTables, EngineAssumption DEF EngineInv
<1>2. EngineInv /\ [Next]_vars => EngineInv'
  BY StepTypes, StepTables, EngineAssumption DEF EngineInv
<1> QED
  BY <1>1, <1>2, PTL DEF Spec

\* Whatever threads ask for and free, and however often emission has to be
\* repeated, every body that was not given back is on record: the JIT never
\* compiles a function it has compiled code for, and can always free it.
THEOREM BodiesOnRecord ==
  ASSUME CarefulClients, NearCalls
  PROVE  Spec => []NoBodyIsLost
<1>1. EngineInv => NoBodyIsLost
  BY DEF EngineInv, TablesInv
<1> QED
  BY <1>1, EngineInvariant, PTL

\* With the lock released, the address map never leads to code that is being
\* written, was given back, or was replaced: what it knows is on record.
THEOREM MapOnRecord ==
  ASSUME CarefulClients, NearCalls
  PROVE  Spec => []MapAgreesWithRecord
<1>1. EngineInv => MapAgreesWithRecord
  <2>1. ASSUME EngineInv, Unlocked
        PROVE  job.phase = "none"
    BY <2>1, NobodyWorks, EngineAssumption DEF EngineInv
  <2> QED
    BY <2>1 DEF EngineInv, TablesInv, MapInv, MapAgreesWithRecord
<1> QED
  BY <1>1, EngineInvariant, PTL
-----------------------------------------------------------------------------
(* Threads run finished code: what holds of addresses of code              *)

LEMMA CodeForFacts ==
  ASSUME NEW g, NEW n, NEW a
  PROVE  /\ a \in CodeFor(g, n) <=>
              \/ \E i \in 1 .. n : a = Body(i) /\ bodies[i].fn = g /\ bodies[i].state = "finished"
              \/ g \in External /\ a = Native(g)
         /\ a \in CodeFor(g, n) => /\ a.kind \in {"body", "native"}
                                   /\ a \notin {NoStub, Null, Resolver, Torn}
                                   /\ \A f : a # Stub(f)
<1>1. a \in CodeFor(g, n) <=>
        \/ \E i \in 1 .. n : a = Body(i) /\ bodies[i].fn = g /\ bodies[i].state = "finished"
        \/ g \in External /\ a = Native(g)
  BY DEF CodeFor
<1>2. ASSUME a \in CodeFor(g, n)
      PROVE  a.kind \in {"body", "native"}
  BY <1>1, <1>2, Kinds
<1>3. ASSUME a.kind \in {"body", "native"}
      PROVE  a \notin {NoStub, Null, Resolver, Torn} /\ \A f : a # Stub(f)
  BY <1>3, Kinds
<1> QED
  BY <1>1, <1>2, <1>3

\* Finished code stays what it is.
LEMMA CodeForGrows ==
  ASSUME NEW m \in Nat, NEW n \in Nat, m <= n,
         \A i \in 1 .. m : bodies[i].state = "finished" =>
           bodies'[i].fn = bodies[i].fn /\ bodies'[i].state = "finished"
  PROVE  \A g : CodeFor(g, m) \subseteq CodeFor(g, n)'
BY DEF CodeFor

LEMMA CodeForStays ==
  ASSUME UNCHANGED bodies
  PROVE  \A g, n : CodeFor(g, n)' = CodeFor(g, n)
BY DEF CodeFor

LEMMA ArrivesStays ==
  ASSUME UNCHANGED <<stub, bodies>>
  PROVE  \A a, g, n : Arrives(a, g, n)' <=> Arrives(a, g, n)
BY CodeForStays DEF Arrives

\* An address that is held is one of those that are known.
LEMMA ArrivesFacts ==
  ASSUME NEW a, NEW g, NEW n, Arrives(a, g, n)
  PROVE  a # Null /\ (a.kind = "stub" => a = Stub(g)) /\ (\A f : a = Stub(f) => f = g)
<1>1. CASE a \in CodeFor(g, n)
  BY <1>1, CodeForFacts, Kinds
<1>2. CASE a = Stub(g)
  BY <1>2, Kinds
<1> QED
  BY <1>1, <1>2 DEF Arrives

LEMMA BodiesCounted ==
  ASSUME TypeInv
  PROVE  /\ Len(bodies) \in Nat /\ DOMAIN bodies = 1 .. Len(bodies)
         /\ \A i \in DOMAIN bodies : bodies[i] \in BodyState
BY LenProperties, ElementOfSeq DEF TypeInv, TypeOK

\* With the lock free nothing waits, and every address leads to finished code.
LEMMA UnlockedFacts ==
  ASSUME EngineAssumption, CodeInv, Unlocked
  PROVE  /\ job.phase = "none"
         /\ Waiting = {}
         /\ \A g \in Functions : GlobalAddressMap[g] # Null =>
              Arrives(GlobalAddressMap[g], g, Len(bodies))
         /\ \A t \in Threads : Holds(t, Len(bodies))
         /\ Complete(Len(bodies))
<1>1. job.phase = "none"
  BY NobodyWorks DEF CodeInv, EngineInv
<1>2. Waiting = {}
  BY <1>1 DEF CodeInv, ReadyInv, StubInv, Waiting
<1>3. ASSUME NEW g \in Functions, GlobalAddressMap[g] # Null
      PROVE  Arrives(GlobalAddressMap[g], g, Len(bodies))
  <2>1. CASE GlobalAddressMap[g] \in CodeFor(g, Len(bodies))
    BY <2>1 DEF Arrives
  <2>2. CASE GlobalAddressMap[g] = Stub(g) /\ stub[g] \notin {NoStub, Resolver, Torn}
    <3>1. stub[g] # Null
      BY <1>2 DEF CodeInv, ReadyInv, StubInv
    <3> QED
      BY <2>2, <3>1 DEF CodeInv, ReadyInv, StubInv, Arrives
  <2> QED
    BY <1>1, <1>3, <2>1, <2>2 DEF CodeInv, ReadyInv, KnownInv
<1>4. PICK n \in 0 .. Len(bodies) : Complete(n) /\ \A t \in Threads : Holds(t, n)
  BY DEF CodeInv, ReadyInv, HeldInv
<1>5. n = Len(bodies)
  BY <1>1, <1>4 DEF Complete
<1> QED
  BY <1>1, <1>2, <1>3, <1>4, <1>5

\* Only threads take a step.
LEMMA SameTables ==
  ASSUME EngineAssumption, TypeInv, LockInv, ReadyInv,
         UNCHANGED <<tables, lock, job>>,
         lock \in Threads => thread'[lock].fn = thread[lock].fn
  PROVE  EmittingInv' /\ StubInv' /\ KnownInv' /\ AskedInv' /\ CallsInv'
<1>1. UNCHANGED <<GlobalAddressMap, stub, EmittedFunctions, bodies, PendingFunctions>>
  BY DEF tables
<1>2. \A g, n : CodeFor(g, n)' = CodeFor(g, n)
  BY <1>1, CodeForStays
<1>3. EmittingInv'
  BY <1>1 DEF ReadyInv, EmittingInv
<1>4. StubInv'
  BY <1>1, <1>2 DEF ReadyInv, StubInv, Waiting
<1>5. KnownInv'
  BY <1>1, <1>2 DEF ReadyInv, KnownInv
<1>6. AskedInv'
  <2>1. CASE job.phase = "none"
    BY <2>1 DEF AskedInv
  <2>2. CASE job.phase # "none"
    <3>1. lock \in Threads
      BY <2>2 DEF LockInv
    <3>2. Asked' = Asked
      BY <3>1 DEF Asked
    <3> QED
      BY <1>1, <1>2, <3>2 DEF ReadyInv, AskedInv
  <2> QED
    BY <2>1, <2>2
<1>7. CallsInv'
  BY <1>1, <1>2 DEF ReadyInv, CallsInv, Live, Freed
<1> QED
  BY <1>3, <1>4, <1>5, <1>6, <1>7
\* A thread that does not hold the lock goes about its business: it is placed,
\* holds what leads to code, is alone in its stub, and away from what is freed.
LEMMA QuietReady ==
  ASSUME EngineAssumption, TypeInv, LockInv, ReadyInv, NEW t \in Threads,
         UNCHANGED <<tables, lock, job>>,
         \A u \in Threads \ {t} : thread'[u] = thread[u],
         thread[t].pc \notin {"compiling", "rewritten"},
         thread'[t].pc \notin {"rewritten", "unmapped"},
         lock = t => thread'[t].fn = thread[t].fn,
         Placed(t)',
         \A n \in 0 .. Len(bodies) :
           Complete(n) /\ (\A u \in Threads : Holds(u, n)) => Holds(t, n)',
         thread'[t].via # NoFn => stub[thread'[t].via] = Resolver,
         \A f \in Functions : \A u \in Threads \ {t} :
           stub[f] \in {Resolver, Torn} /\ Inside(t, f)' => ~Inside(u, f),
         \A u \in Threads \ {t} : At(u, "unmapped") =>
           thread'[t].at \notin CodeOf(thread[u].fn)
  PROVE  ReadyInv'
<1>1. UNCHANGED <<GlobalAddressMap, stub, EmittedFunctions, bodies, PendingFunctions, job>>
  BY DEF tables
<1>2. EmittingInv' /\ StubInv' /\ KnownInv' /\ AskedInv' /\ CallsInv'
  BY SameTables
<1>3. \A a, g, n : Arrives(a, g, n)' <=> Arrives(a, g, n)
  BY <1>1, ArrivesStays
<1>4. \A g, n : CodeFor(g, n)' = CodeFor(g, n)
  BY <1>1, CodeForStays
<1>5. ThreadInv'
  BY DEF ReadyInv, ThreadInv, Placed, At
<1>6. HeldInv'
  <2>1. PICK n \in 0 .. Len(bodies) : Complete(n) /\ \A u \in Threads : Holds(u, n)
    BY DEF ReadyInv, HeldInv
  <2>2. Complete(n)'
    BY <1>1, <1>3, <2>1 DEF Complete, Live, Freed
  <2>3. \A u \in Threads \ {t} : Holds(u, n)'
    BY <1>3, <1>4, <2>1 DEF Holds, At
  <2>4. Holds(t, n)'
    BY <2>1
  <2>5. n \in 0 .. Len(bodies')
    BY <1>1
  <2> QED
    BY <2>2, <2>3, <2>4, <2>5 DEF HeldInv
<1>7. ResolveInv'
  <2>1. ASSUME NEW u \in Threads, thread'[u].via # NoFn
        PROVE  stub'[thread'[u].via] = Unbound(u)'
    BY <1>1, <2>1 DEF ReadyInv, ResolveInv, Unbound, At
  <2>2. ASSUME NEW f \in Functions, stub[f] \in {Resolver, Torn},
               NEW u \in Threads, NEW v \in Threads, Inside(u, f)', Inside(v, f)'
        PROVE  u = v
    <3>1. \A w \in Threads \ {t} : Inside(w, f)' <=> Inside(w, f)
      BY DEF Inside, At
    <3>2. CASE u = t \/ v = t
      BY <2>2, <3>1, <3>2
    <3>3. CASE u # t /\ v # t
      BY <2>2, <3>1, <3>3 DEF ReadyInv, ResolveInv
    <3> QED
      BY <3>2, <3>3
  <2>3. ASSUME NEW f \in Functions, stub[f] = Torn
        PROVE  \E u \in Threads : thread'[u].via = f
    <3>1. PICK u \in Threads : thread[u].via = f
      BY <2>3 DEF ReadyInv, ResolveInv
    <3>2. f # NoFn /\ Torn # Resolver
      BY Kinds DEF EngineAssumption
    <3>3. At(u, "rewritten")
      BY <2>3, <3>1, <3>2 DEF ReadyInv, ResolveInv, Unbound
    <3> QED
      BY <3>1, <3>3 DEF At
  <2> QED
    BY <1>1, <2>1, <2>2, <2>3 DEF ResolveInv
<1>8. UnreferencedInv'
  <2>1. SUFFICES ASSUME NEW u \in Threads, At(u, "unmapped")'
                 PROVE  (/\ thread[u].fn \notin External
                         /\ ~HasAddress(thread[u].fn)
                         /\ Unreferenced(thread[u].fn))'
    BY DEF UnreferencedInv
  <2>2. u # t /\ thread'[u] = thread[u] /\ At(u, "unmapped")
    BY <2>1 DEF At
  <2>3. /\ thread[u].fn \notin External
        /\ ~HasAddress(thread[u].fn)
        /\ Unreferenced(thread[u].fn)
    BY <2>2 DEF ReadyInv, UnreferencedInv
  <2>4. PICK f : f = thread[u].fn
    OBVIOUS
  <2>5. ~HasAddress(f)'
    BY <1>1, <2>3, <2>4 DEF HasAddress
  <2>6. CodeOf(f)' = CodeOf(f)
    BY <1>1 DEF CodeOf
  <2>7. \A v \in Threads : thread'[v].at \notin CodeOf(f)
    BY <2>2, <2>3, <2>4 DEF Unreferenced
  <2>8. \A i \in Live : bodies[i].fn # f => \A g \in Calls[bodies[i].fn] :
          bodies[i].calls[g] \notin CodeOf(f)
    BY <2>3, <2>4 DEF Unreferenced
  <2>9. Unreferenced(f)'
    BY <1>1, <2>5, <2>6, <2>7, <2>8 DEF Unreferenced, Live, Freed
  <2> QED
    BY <2>2, <2>3, <2>4, <2>5, <2>9
<1> QED
  BY <1>2, <1>5, <1>6, <1>7, <1>8 DEF ReadyInv
LEMMA NotTheHolder ==
  ASSUME LockInv, NEW t \in Threads, thread[t].pc \notin Working
  PROVE  lock # t
BY DEF LockInv, Working, At, Freeing

LEMMA IdleFacts ==
  ASSUME ReadyInv, NEW t \in Threads, At(t, "idle")
  PROVE  thread[t].at = Null /\ thread[t].via = NoFn
BY DEF ReadyInv, ThreadInv, Placed, AtRest

LEMMA AskReady ==
  ASSUME EngineAssumption, CodeInv, NEW t \in Threads, NEW f \in Functions, Ask(t, f)
  PROVE  ReadyInv'
<1>1. thread \in [Threads -> ThreadState] /\ TypeInv /\ LockInv /\ ReadyInv
  BY DEF CodeInv, EngineInv, TypeInv, TypeOK, TablesInv
<1>2. /\ thread' = [thread EXCEPT ![t].pc = "lookup", ![t].fn = f]
      /\ UNCHANGED <<tables, lock, job>> /\ At(t, "idle")
  BY DEF Ask
<1>3. thread[t].at = Null /\ thread[t].via = NoFn
  BY <1>1, <1>2, IdleFacts
<1>4. \A u \in Threads \ {t} : thread'[u] = thread[u]
  BY <1>1, <1>2
<1>5. thread'[t].pc = "lookup" /\ thread'[t].at = Null /\ thread'[t].via = NoFn
  BY <1>1, <1>2, <1>3 DEF ThreadState
<1>6. lock # t /\ thread[t].pc \notin {"compiling", "rewritten"}
  BY <1>1, <1>2, NotTheHolder DEF At, Working
<1>7. Placed(t)'
  BY <1>5 DEF Placed, At
<1>8. \A n : Holds(t, n)'
  BY <1>5 DEF Holds
<1>9. \A g \in Functions : ~Inside(t, g)'
  BY <1>5 DEF Inside, At, EngineAssumption
<1>10. \A g : Null \notin CodeOf(g)
  BY AddressesDiffer DEF CodeOf
<1> QED
  BY ONLY EngineAssumption, <1>1, <1>2, <1>4, <1>5, <1>6, <1>7, <1>8, <1>9, <1>10, QuietReady

\* With the lock free no thread frees anything, and what is known leads to code.
LEMMA KnownReady ==
  ASSUME EngineAssumption, CodeInv, Unlocked, NEW f \in Functions, GlobalAddressMap[f] # Null
  PROVE  stub[f] \in {Resolver, Torn} => GlobalAddressMap[f] \in CodeFor(f, Len(bodies))
BY UnlockedFacts DEF CodeInv, ReadyInv, KnownInv

LEMMA ObtainReady ==
  ASSUME EngineAssumption, CodeInv, NEW t \in Threads, NEW f \in Functions,
         Unlocked, UNCHANGED <<tables, lock, job>>,
         f = thread[t].fn, GlobalAddressMap[f] # Null, Obtain(t, GlobalAddressMap[f]),
         thread[t].pc \in {"lookup", "enter", "callback"}
  PROVE  ReadyInv'
<1>1. thread \in [Threads -> ThreadState] /\ TypeInv /\ LockInv /\ ReadyInv
  BY DEF CodeInv, EngineInv, TypeInv, TypeOK, TablesInv
<1>2. PICK a : a = GlobalAddressMap[f]
  OBVIOUS
<1>3. a \in Address
  BY <1>1, <1>2, AddressIsKnown
<1>4. /\ \A u \in Threads \ {t} : thread'[u] = thread[u]
      /\ thread'[t].at = a /\ thread'[t].via = thread[t].via /\ thread'[t].fn = thread[t].fn
  BY <1>1, <1>2, <1>3, ObtainChanges
<1>5. thread'[t].pc = IF thread[t].via = NoFn THEN "ready" ELSE "resolved"
  BY <1>1 DEF Obtain, ThreadState
<1>6. lock # t /\ thread[t].pc \notin {"compiling", "rewritten"}
  BY <1>1, NotTheHolder DEF Working
<1>7. \A u \in Threads : ~At(u, "unmapped")
  BY NobodyWorks DEF CodeInv, EngineInv, Working, At
<1>8. Placed(t)'
  <2>1. thread[t].via # NoFn => thread[t].fn = thread[t].via
    BY <1>1 DEF ReadyInv, ThreadInv, Placed
  <2> QED
    BY <1>2, <1>4, <1>5, <2>1 DEF Placed, At
<1>9. thread[t].via # NoFn => thread[t].via = f /\ stub[f] = Resolver
  BY <1>1 DEF ReadyInv, ThreadInv, Placed, ResolveInv, Unbound, At
<1>10. ASSUME NEW n \in 0 .. Len(bodies), Complete(n)
       PROVE  Holds(t, n)'
  <2>1. n = Len(bodies) /\ Arrives(a, f, n)
    BY <1>2, <1>10, UnlockedFacts DEF Complete
  <2>2. Arrives(a, f, n)'
    BY <2>1, ArrivesStays DEF tables
  <2>3. thread[t].via # NoFn => a \in CodeFor(thread[t].via, n)
    BY <1>2, <1>9, <2>1, KnownReady
  <2>4. CodeFor(f, n)' = CodeFor(f, n)
    BY CodeForStays DEF tables
  <2> QED
    BY <1>4, <1>5, <1>9, <2>2, <2>3, <2>4 DEF Holds, At
<1>11. \A g \in Functions : Inside(t, g)' => Inside(t, g)
  BY <1>4, <1>5 DEF Inside, At
<1>12. ASSUME NEW g \in Functions, NEW u \in Threads \ {t}, stub[g] \in {Resolver, Torn}, Inside(t, g)'
       PROVE  ~Inside(u, g)
  BY <1>1, <1>11, <1>12 DEF ReadyInv, ResolveInv
<1>13. thread'[t].pc \notin {"rewritten", "unmapped"}
  BY <1>5
<1>14. thread'[t].via # NoFn => stub[thread'[t].via] = Resolver
  BY <1>4, <1>9
<1> QED
  BY ONLY EngineAssumption, UNCHANGED <<tables, lock, job>>,
          <1>1, <1>4, <1>6, <1>7, <1>8, <1>10, <1>12, <1>13, <1>14, QuietReady

LEMMA GotoReady ==
  ASSUME EngineAssumption, CodeInv, NEW t \in Threads, NEW pc \in {"enter", "lookup", "rewriting"},
         UNCHANGED <<tables, lock, job>>, Goto(t, pc),
         thread[t].pc \in IF pc = "rewriting" THEN {"resolved"} ELSE {"lookup", "callback"}
  PROVE  ReadyInv'
<1>1. thread \in [Threads -> ThreadState] /\ TypeInv /\ LockInv /\ ReadyInv
  BY DEF CodeInv, EngineInv, TypeInv, TypeOK, TablesInv
<1>2. pc \in Places
  BY DEF Places
<1>3. /\ \A u \in Threads \ {t} : thread'[u] = thread[u]
      /\ thread'[t].pc = pc /\ thread'[t].fn = thread[t].fn
      /\ thread'[t].at = thread[t].at /\ thread'[t].via = thread[t].via
  BY <1>1, <1>2, GotoChanges
<1>4. thread[t].pc \in {"lookup", "callback", "resolved"}
  OBVIOUS
<1>5. lock # t /\ thread[t].pc \notin {"compiling", "rewritten"}
  BY <1>1, <1>4, NotTheHolder DEF Working
<1>6. Placed(t)
  BY <1>1 DEF ReadyInv, ThreadInv
<1>7. Placed(t)'
  BY <1>3, <1>6 DEF Placed, At
<1>8. ASSUME NEW n, Holds(t, n)
      PROVE  Holds(t, n)'
  BY <1>3, <1>8, ArrivesStays, CodeForStays DEF Holds, At, tables
<1>9. ASSUME NEW g \in Functions, NEW u \in Threads \ {t}, stub[g] \in {Resolver, Torn}, Inside(t, g)'
      PROVE  ~Inside(u, g)
  <2>1. Inside(t, g)
    BY <1>3, <1>9 DEF Inside, At
  <2> QED
    BY <1>1, <1>9, <2>1 DEF ReadyInv, ResolveInv
<1>10. thread'[t].via # NoFn => stub[thread'[t].via] = Resolver
  BY <1>1, <1>3, <1>4 DEF ReadyInv, ResolveInv, Unbound, At
<1>11. \A u \in Threads \ {t} : At(u, "unmapped") => thread'[t].at \notin CodeOf(thread[u].fn)
  BY <1>1, <1>3 DEF ReadyInv, UnreferencedInv, Unreferenced
<1>12. thread'[t].pc \notin {"rewritten", "unmapped"}
  BY <1>3
<1> QED
  BY ONLY EngineAssumption, UNCHANGED <<tables, lock, job>>,
          <1>1, <1>3, <1>5, <1>7, <1>8, <1>9, <1>10, <1>11, <1>12, QuietReady

LEMMA LookupReady ==
  ASSUME EngineAssumption, CodeInv, NEW t \in Threads,
         Lookup(t) \/ JITCompilerFn(t) \/ ReacquireLock(t)
  PROVE  ReadyInv'
<1>1. UNCHANGED <<tables, lock, job>> /\ Unlocked
  BY DEF Lookup, JITCompilerFn, ReacquireLock
<1>2. CASE ReacquireLock(t)
  BY <1>1, <1>2, GotoReady DEF ReacquireLock, At
<1>3. CASE Lookup(t) \/ JITCompilerFn(t)
  <2>1. PICK f : f = thread[t].fn
    OBVIOUS
  <2>2. f \in Functions /\ thread[t].pc \in {"lookup", "callback"}
    BY <1>3, <2>1 DEF Lookup, JITCompilerFn, At, CodeInv, EngineInv, TypeInv, ThreadShape
  <2>3. CASE GlobalAddressMap[f] # Null
    BY <1>1, <1>3, <2>1, <2>2, <2>3, ObtainReady DEF Lookup, JITCompilerFn
  <2>4. CASE GlobalAddressMap[f] = Null
    BY <1>1, <1>3, <2>1, <2>2, <2>4, GotoReady DEF Lookup, JITCompilerFn
  <2> QED
    BY <2>3, <2>4
<1> QED
  BY <1>2, <1>3
\* A thread runs at address a, which leads to code, where it does not meet
\* another one in a stub that has not been bound.
LEMMA RunReady ==
  ASSUME EngineAssumption, CodeInv, NEW t \in Threads, NEW a \in Address,
         UNCHANGED <<tables, lock, job>>, Run(t, a),
         thread[t].pc \in {"ready", "run"}, a # Null,
         \A n \in 0 .. Len(bodies) :
           Complete(n) /\ Holds(t, n) => \E g \in Functions : Arrives(a, g, n),
         \A f \in Functions : stub[f] \in {Resolver, Torn} /\ a = Stub(f) =>
           \A u \in Threads \ {t} : ~Inside(u, f),
         \A u \in Threads \ {t} : At(u, "unmapped") => a \notin CodeOf(thread[u].fn)
  PROVE  ReadyInv'
<1>1. thread \in [Threads -> ThreadState] /\ TypeInv /\ LockInv /\ ReadyInv
  BY DEF CodeInv, EngineInv, TypeInv, TypeOK, TablesInv
<1>2. PICK r : r = [pc |-> "run", fn |-> NoFn, at |-> a, via |-> NoFn]
  OBVIOUS
<1>3. thread' = [thread EXCEPT ![t] = r] /\ r.pc = "run" /\ r.at = a /\ r.via = NoFn
  BY <1>2 DEF Run
<1>4. thread'[t] = r /\ \A u \in Threads \ {t} : thread'[u] = thread[u]
  BY <1>1, <1>3
<1>5. lock # t /\ thread[t].pc \notin {"compiling", "rewritten"}
  BY <1>1, NotTheHolder DEF Working
<1>6. Placed(t)'
  BY <1>3, <1>4 DEF Placed, At
<1>7. ASSUME NEW n \in 0 .. Len(bodies), Complete(n), Holds(t, n)
      PROVE  Holds(t, n)'
  <2>1. PICK g \in Functions : Arrives(a, g, n)
    BY <1>7
  <2>2. Arrives(a, g, n)'
    BY <2>1, ArrivesStays DEF tables
  <2> QED
    BY <1>3, <1>4, <2>2 DEF Holds, At
<1>8. ASSUME NEW g \in Functions, NEW u \in Threads \ {t}, stub[g] \in {Resolver, Torn}, Inside(t, g)'
      PROVE  ~Inside(u, g)
  <2>1. a = Stub(g)
    BY <1>3, <1>4, <1>8 DEF Inside, At, EngineAssumption
  <2> QED
    BY <1>8, <2>1
<1>9. thread'[t].pc \notin {"rewritten", "unmapped"} /\ thread'[t].via = NoFn /\ thread'[t].at = a
  BY <1>3, <1>4
<1> QED
  BY ONLY EngineAssumption, UNCHANGED <<tables, lock, job>>, <1>1, <1>4, <1>5, <1>6, <1>7, <1>8, <1>9,
          \A u \in Threads \ {t} : At(u, "unmapped") => a \notin CodeOf(thread[u].fn), QuietReady

\* What a thread at a place with an address holds, and code that is freed is not it.
LEMMA HeldFacts ==
  ASSUME EngineAssumption, CodeInv, NEW t \in Threads, thread[t].at # Null
  PROVE  /\ \E n \in 0 .. Len(bodies) :
              /\ Complete(n) /\ Holds(t, n)
              /\ \E g \in Functions : Arrives(thread[t].at, g, n)
         /\ \A u \in Threads : At(u, "unmapped") => thread[t].at \notin CodeOf(thread[u].fn)
BY DEF CodeInv, ReadyInv, HeldInv, Holds, UnreferencedInv, Unreferenced

\* A stub that a thread may call has no one else in it, unless it is bound.
LEMMA AloneInStub ==
  ASSUME EngineAssumption, TypeInv, NEW t \in Threads, NEW a, MayCall(t, a)
  PROVE  \A f \in Functions : stub[f] \in {Resolver, Torn} /\ a = Stub(f) =>
           \A u \in Threads \ {t} : ~Inside(u, f)
BY Kinds DEF MayCall, Inside

LEMMA RunCodeReady ==
  ASSUME EngineAssumption, CodeInv, NEW t \in Threads, RunCode(t)
  PROVE  ReadyInv'
<1>1. thread \in [Threads -> ThreadState] /\ TypeInv /\ ReadyInv
  BY DEF CodeInv, EngineInv, TypeInv, TypeOK
<1>2. PICK a : a = thread[t].at
  OBVIOUS
<1>3. a \in Address /\ MayCall(t, a) /\ Run(t, a) /\ UNCHANGED <<tables, lock, job>> /\ At(t, "ready")
  BY <1>1, <1>2 DEF RunCode, ThreadState
<1>4. a # Null
  BY <1>1, <1>2, <1>3 DEF ReadyInv, ThreadInv, Placed, At
<1>5. \A n : Holds(t, n) => \E g \in Functions : Arrives(a, g, n)
  BY <1>2, <1>4 DEF Holds
<1>6. \A u \in Threads : At(u, "unmapped") => a \notin CodeOf(thread[u].fn)
  BY <1>2, <1>4, HeldFacts
<1>7. thread[t].pc \in {"ready", "run"}
  BY <1>3 DEF At
<1> QED
  BY ONLY EngineAssumption, CodeInv, <1>1, <1>3, <1>4, <1>5, <1>6, <1>7, AloneInStub, RunReady

\* The code at a body's address: its calls arrive.
LEMMA CallArrives ==
  ASSUME EngineAssumption, CodeInv, NEW t \in Threads, NEW g \in Functions, Call(t, g),
         NEW n \in 0 .. Len(bodies), Complete(n), Holds(t, n)
  PROVE  /\ thread[t].at.body \in Live
         /\ Arrives(bodies[thread[t].at.body].calls[g], g, n)
<1>1. PICK a : a = thread[t].at
  OBVIOUS
<1>2. a.kind = "body" /\ bodies[a.body].state = "finished" /\ g \in Calls[bodies[a.body].fn]
  BY <1>1 DEF Call
<1>3. PICK h \in Functions : Arrives(a, h, n)
  BY <1>1, <1>2, Kinds DEF Holds
<1>4. a \in CodeFor(h, n)
  BY <1>2, <1>3, Kinds DEF Arrives
<1>5. PICK i \in 1 .. n : a = Body(i) /\ bodies[i].state = "finished"
  BY <1>2, <1>4, CodeForFacts, Kinds
<1>6. i \in Live /\ a.body = i
  <2>1. i \in DOMAIN bodies
    BY BodiesCounted DEF CodeInv, EngineInv
  <2> QED
    BY <1>5, <2>1, Kinds DEF Live, Freed
<1> QED
  BY <1>1, <1>2, <1>6 DEF Complete

LEMMA CallReady ==
  ASSUME EngineAssumption, CodeInv, NEW t \in Threads, NEW g \in Functions, Call(t, g)
  PROVE  ReadyInv'
<1>1. thread \in [Threads -> ThreadState] /\ TypeInv /\ ReadyInv
  BY DEF CodeInv, EngineInv, TypeInv, TypeOK
<1>2. PICK b : b = thread[t].at.body
  OBVIOUS
<1>3. PICK a : a = bodies[b].calls[g]
  OBVIOUS
<1>4. /\ MayCall(t, a) /\ Run(t, a) /\ UNCHANGED <<tables, lock, job>> /\ At(t, "run")
      /\ thread[t].at.kind = "body" /\ g \in Calls[bodies[b].fn]
  BY <1>2, <1>3 DEF Call
<1>5. a \in Address
  <2>1. thread[t].at \in Address
    BY <1>1 DEF ThreadState
  <2> QED
    BY <1>1, <1>2, <1>3, <1>4, <2>1, BodyOfAddress
<1>6. thread[t].at # Null
  BY <1>4, Kinds
<1>7. PICK n \in 0 .. Len(bodies) : Complete(n) /\ Holds(t, n)
  BY <1>6, HeldFacts
<1>8. b \in Live /\ a # Null
  BY <1>2, <1>3, <1>7, CallArrives, ArrivesFacts
<1>9. \A m \in 0 .. Len(bodies) : Complete(m) /\ Holds(t, m) => \E h \in Functions : Arrives(a, h, m)
  BY <1>2, <1>3, CallArrives
<1>10. ASSUME NEW u \in Threads, At(u, "unmapped")
       PROVE  a \notin CodeOf(thread[u].fn)
  <2>1. ~HasAddress(thread[u].fn) /\ Unreferenced(thread[u].fn)
    BY <1>1, <1>10 DEF ReadyInv, UnreferencedInv
  <2>2. PICK f : f = thread[u].fn
    OBVIOUS
  <2>3. thread[t].at \notin CodeOf(f)
    BY <2>1, <2>2 DEF Unreferenced
  <2>4. thread[t].at = Body(b) /\ b \in DOMAIN bodies
    <3>1. thread[t].at \in Address
      BY <1>1 DEF ThreadState
    <3> QED
      BY <1>2, <1>4, <1>8, <3>1, Kinds DEF Address, Live
  <2>5. bodies[b].fn # f
    BY <2>3, <2>4 DEF CodeOf
  <2> QED
    BY <1>3, <1>4, <1>8, <2>1, <2>2, <2>5 DEF Unreferenced
<1>11. thread[t].pc \in {"ready", "run"}
  BY <1>4 DEF At
<1> QED
  BY ONLY EngineAssumption, CodeInv, <1>1, <1>4, <1>5, <1>8, <1>9, <1>10, <1>11, AloneInStub, RunReady

LEMMA ReturnReady ==
  ASSUME EngineAssumption, CodeInv, NEW t \in Threads, Return(t)
  PROVE  ReadyInv'
<1>1. thread \in [Threads -> ThreadState] /\ TypeInv /\ LockInv /\ ReadyInv
  BY DEF CodeInv, EngineInv, TypeInv, TypeOK, TablesInv
<1>2. thread' = [thread EXCEPT ![t] = AtRest] /\ UNCHANGED <<tables, lock, job>> /\ At(t, "run")
  BY DEF Return
<1>3. thread'[t] = AtRest /\ \A u \in Threads \ {t} : thread'[u] = thread[u]
  BY <1>1, <1>2
<1>4. AtRest.pc = "idle" /\ AtRest.at = Null /\ AtRest.via = NoFn
  BY DEF AtRest
<1>5. lock # t /\ thread[t].pc \notin {"compiling", "rewritten"}
  BY <1>1, <1>2, NotTheHolder DEF At, Working
<1>6. Placed(t)' /\ \A n : Holds(t, n)'
  BY <1>3, <1>4 DEF Placed, Holds, At
<1>7. \A g \in Functions : ~Inside(t, g)'
  BY <1>3, <1>4 DEF Inside, At, EngineAssumption
<1>8. \A g : Null \notin CodeOf(g)
  BY AddressesDiffer DEF CodeOf
<1> QED
  BY ONLY EngineAssumption, <1>1, <1>2, <1>3, <1>4, <1>5, <1>6, <1>7, <1>8, QuietReady

LEMMA ThroughStubReady ==
  ASSUME EngineAssumption, CodeInv, NEW t \in Threads, ThroughStub(t)
  PROVE  ReadyInv'
<1>1. thread \in [Threads -> ThreadState] /\ TypeInv /\ LockInv /\ ReadyInv
  BY DEF CodeInv, EngineInv, TypeInv, TypeOK, TablesInv
<1>2. PICK f : f = thread[t].at.fn
  OBVIOUS
<1>3. thread[t].at \in Address /\ thread[t].at.kind = "stub" /\ At(t, "run")
      /\ UNCHANGED <<tables, lock, job>>
  BY <1>1 DEF ThroughStub, ThreadState
<1>4. thread[t].at = Stub(f) /\ f \in Functions
  BY <1>2, <1>3, Kinds DEF Address
<1>5. thread[t].at # Null
  BY <1>3, Kinds
<1>6. CASE HasAddress(f) /\ Run(t, stub[f])
  <2>1. \A n : Holds(t, n) => stub[f] \in CodeFor(f, n)
    <3>1. SUFFICES ASSUME NEW n, Holds(t, n)
                   PROVE  stub[f] \in CodeFor(f, n)
      OBVIOUS
    <3>2. PICK g \in Functions : Arrives(Stub(f), g, n)
      BY <1>4, <1>5, <3>1 DEF Holds
    <3>3. g = f /\ Stub(f) \notin CodeFor(g, n)
      BY <3>2, ArrivesFacts, CodeForFacts
    <3> QED
      BY <1>6, <3>2, <3>3, Kinds DEF Arrives, HasAddress
  <2>2. PICK n \in 0 .. Len(bodies) : Holds(t, n)
    BY <1>5, HeldFacts
  <2>3. stub[f] # Null /\ stub[f] \notin {Resolver, Torn} /\ \A g : stub[f] # Stub(g)
    BY <2>1, <2>2, CodeForFacts
  <2>4. stub[f] \in Address
    <3>1. stub[f] \in Address \cup {NoStub, Resolver, Torn}
      BY <1>1, <1>4 DEF TypeInv, TypeOK
    <3> QED
      BY <1>6, <3>1, Kinds DEF HasAddress
  <2>5. ASSUME NEW u \in Threads, At(u, "unmapped")
        PROVE  stub[f] \notin CodeOf(thread[u].fn)
    <3>1. thread[u].fn # f
      BY <1>1, <1>6, <2>5 DEF ReadyInv, UnreferencedInv
    <3>2. stub[f] \in CodeFor(f, n)
      BY <2>1, <2>2
    <3>3. \/ \E i \in 1 .. n : stub[f] = Body(i) /\ bodies[i].fn = f
          \/ stub[f] = Native(f)
      BY <3>2, CodeForFacts
    <3> QED
      BY <3>1, <3>3, AddressesDiffer DEF CodeOf
  <2>6. \A m : Holds(t, m) => \E g \in Functions : Arrives(stub[f], g, m)
    BY <1>4, <2>1 DEF Arrives
  <2>7. thread[t].pc \in {"ready", "run"}
    BY <1>3 DEF At
  <2> QED
    BY ONLY EngineAssumption, CodeInv, <1>1, <1>3, <1>6, <2>3, <2>4, <2>5, <2>6, <2>7, RunReady
<1>7. CASE /\ stub[f] = Resolver
           /\ thread' = [thread EXCEPT ![t] = [pc |-> "callback", fn |-> f,
                                               at |-> Null, via |-> f]]
  <2>1. PICK r : r = [pc |-> "callback", fn |-> f, at |-> Null, via |-> f]
    OBVIOUS
  <2>2. r.pc = "callback" /\ r.fn = f /\ r.at = Null /\ r.via = f
    BY <2>1
  <2>3. thread'[t] = r /\ \A u \in Threads \ {t} : thread'[u] = thread[u]
    BY <1>1, <1>7, <2>1
  <2>4. f # NoFn
    BY <1>4 DEF EngineAssumption
  <2>5. lock # t /\ thread[t].pc \notin {"compiling", "rewritten"}
    BY <1>1, <1>3, NotTheHolder DEF At, Working
  <2>6. Placed(t)' /\ \A n : Holds(t, n)'
    BY <2>2, <2>3, <2>4 DEF Placed, Holds, At
  <2>7. ASSUME NEW g \in Functions, NEW u \in Threads \ {t}, stub[g] \in {Resolver, Torn}, Inside(t, g)'
        PROVE  ~Inside(u, g)
    <3>1. g = f
      BY <2>2, <2>3, <2>7 DEF Inside, At
    <3>2. Inside(t, f)
      BY <1>3, <1>4 DEF Inside
    <3> QED
      BY <1>1, <2>7, <3>1, <3>2 DEF ReadyInv, ResolveInv
  <2>8. \A g : Null \notin CodeOf(g)
    BY AddressesDiffer DEF CodeOf
  <2> QED
    BY ONLY EngineAssumption, <1>1, <1>3, <1>7, <2>2, <2>3, <2>4, <2>5, <2>6, <2>7, <2>8, QuietReady
<1> QED
  BY <1>2, <1>6, <1>7 DEF ThroughStub

LEMMA AskOrStubReady ==
  ASSUME EngineAssumption, CodeInv, NEW t \in Threads, NEW f \in Functions, AskOrStub(t, f)
  PROVE  ReadyInv'
<1>1. thread \in [Threads -> ThreadState] /\ TypeInv /\ LockInv /\ ReadyInv
  BY DEF CodeInv, EngineInv, TypeInv, TypeOK, TablesInv
<1>2. PICK a : a = GlobalAddressMap[f]
  OBVIOUS
<1>3. PICK r : r = IF a # Null
                   THEN [pc |-> "ready", fn |-> f, at |-> a, via |-> NoFn]
                   ELSE [pc |-> "stubbing", fn |-> f, at |-> Null, via |-> NoFn]
  OBVIOUS
<1>4. /\ r.pc = IF a # Null THEN "ready" ELSE "stubbing"
      /\ r.fn = f /\ r.at = a /\ r.via = NoFn
  BY <1>3
<1>5. thread' = [thread EXCEPT ![t] = r] /\ UNCHANGED <<tables, lock, job>> /\ Unlocked /\ At(t, "idle")
  BY <1>2, <1>3 DEF AskOrStub
<1>6. thread'[t] = r /\ \A u \in Threads \ {t} : thread'[u] = thread[u]
  BY <1>1, <1>5
<1>7. lock # t /\ thread[t].pc \notin {"compiling", "rewritten"}
  BY <1>1, <1>5, NotTheHolder DEF At, Working
<1>8. Placed(t)'
  BY <1>4, <1>6 DEF Placed, At
<1>9. ASSUME NEW n \in 0 .. Len(bodies), Complete(n)
      PROVE  Holds(t, n)'
  <2>1. n = Len(bodies)
    BY <1>5, <1>9, UnlockedFacts DEF Complete
  <2>2. a # Null => Arrives(a, f, n)
    BY <1>2, <1>5, <2>1, UnlockedFacts
  <2>3. a # Null => Arrives(a, f, n)'
    BY <1>5, <2>2, ArrivesStays DEF tables
  <2> QED
    BY <1>4, <1>6, <2>3 DEF Holds, At
<1>10. \A g \in Functions : ~Inside(t, g)'
  BY <1>4, <1>6 DEF Inside, At, EngineAssumption
<1>11. \A u \in Threads : ~At(u, "unmapped")
  BY <1>5, NobodyWorks DEF CodeInv, EngineInv, Working, At
<1>12. thread'[t].pc \notin {"rewritten", "unmapped"} /\ thread'[t].via = NoFn
  BY <1>4, <1>6
<1> QED
  BY ONLY EngineAssumption, <1>1, <1>5, <1>6, <1>7, <1>8, <1>9, <1>10, <1>11, <1>12, QuietReady
\* A stub is bound in two steps, by the one thread that is inside it. Everything
\* that arrived through it still does.
LEMMA BindingReady ==
  ASSUME EngineAssumption, TypeInv, LockInv, ReadyInv, NEW t \in Threads,
         NEW f \in Functions, NEW b,
         UNCHANGED <<GlobalAddressMap, EmittedFunctions, bodies, PendingFunctions, lock, job>>,
         stub' = [stub EXCEPT ![f] = b],
         \A u \in Threads \ {t} : thread'[u] = thread[u],
         Inside(t, f), stub[f] \in {Resolver, Torn},
         thread[t].pc \notin Working,
         b \in CodeFor(f, Len(bodies)) \/ b = Torn
  PROVE  /\ EmittingInv' /\ StubInv' /\ KnownInv' /\ AskedInv' /\ CallsInv'
         /\ \A n, a, g : (b \in CodeFor(f, n) \/ b = Torn) /\ Arrives(a, g, n) => Arrives(a, g, n)'
<1>1. stub \in [Functions -> Address \cup {NoStub, Resolver, Torn}]
  BY DEF TypeInv, TypeOK
<1>2. stub'[f] = b /\ \A g \in Functions \ {f} : stub'[g] = stub[g]
  BY <1>1
<1>3. \A g : g \notin Functions => stub'[g] = stub[g]
  BY <1>1
<1>4. \A g, n : CodeFor(g, n)' = CodeFor(g, n)
  BY CodeForStays
<1>5. b # NoStub /\ b # Null /\ b # Resolver
  BY CodeForFacts, Kinds
<1>6. stub[f] # NoStub /\ stub[f] # Null
  BY Kinds
<1>7. EmittingInv'
  BY DEF ReadyInv, EmittingInv
<1>8. StubInv'
  <2>1. Waiting' = Waiting
    BY DEF Waiting
  <2> QED
    BY <1>2, <1>4, <1>5, <1>6, <2>1 DEF ReadyInv, StubInv
<1>9. KnownInv'
  BY <1>2, <1>4 DEF ReadyInv, KnownInv
<1>10. AskedInv'
  <2>1. lock # t
    BY NotTheHolder
  <2>2. CASE job.phase = "none"
    BY <2>2 DEF AskedInv
  <2>3. CASE job.phase # "none"
    <3>1. lock \in Threads
      BY <2>3 DEF LockInv
    <3>2. Asked' = Asked
      BY <2>1, <3>1 DEF Asked
    <3> QED
      BY <1>4, <3>2 DEF ReadyInv, AskedInv
  <2> QED
    BY <2>2, <2>3
<1>11. CallsInv'
  <2>1. \A g \in Functions : stub[g] # NoStub => stub'[g] # NoStub
    BY <1>2, <1>5
  <2>2. \A i \in Live : \A g \in Calls[bodies[i].fn] : g \in Functions
    BY BodiesCounted DEF Live, Freed, BodyState, EngineAssumption
  <2> QED
    BY <1>4, <2>1, <2>2 DEF ReadyInv, CallsInv, Live, Freed
<1>13. ASSUME NEW n, NEW a, NEW g, b \in CodeFor(f, n) \/ b = Torn, Arrives(a, g, n)
       PROVE  Arrives(a, g, n)'
  BY <1>2, <1>3, <1>4, <1>13 DEF Arrives
<1> QED
  BY <1>7, <1>8, <1>9, <1>10, <1>11, <1>13

\* Other threads are in callbacks of other stubs.
LEMMA OthersBindOthers ==
  ASSUME TypeInv, ReadyInv, NEW t \in Threads, NEW f \in Functions, NEW b,
         stub' = [stub EXCEPT ![f] = b],
         \A u \in Threads \ {t} : thread'[u] = thread[u],
         Inside(t, f), stub[f] \in {Resolver, Torn},
         NEW u \in Threads \ {t}, thread'[u].via # NoFn
  PROVE  thread'[u].via # f /\ stub'[thread'[u].via] = Unbound(u)'
<1>1. stub \in [Functions -> Address \cup {NoStub, Resolver, Torn}]
  BY DEF TypeInv, TypeOK
<1>2. \A g : g # f => stub'[g] = stub[g]
  BY <1>1
<1>3. ~Inside(u, f)
  BY DEF ReadyInv, ResolveInv
<1>4. thread[u].via # f
  BY <1>3 DEF Inside
<1> QED
  BY <1>2, <1>4 DEF ReadyInv, ResolveInv, At, Unbound

\* What a thread that binds a stub knows of it.
LEMMA BindingFacts ==
  ASSUME EngineAssumption, CodeInv, NEW t \in Threads, At(t, "rewriting") \/ At(t, "rewritten"),
         NEW f, f = thread[t].via
  PROVE  /\ f \in Functions /\ f # NoFn
         /\ Inside(t, f)
         /\ stub[f] = Unbound(t)
         /\ thread[t].at # Null
         /\ \A n \in 0 .. Len(bodies) : Holds(t, n) =>
              thread[t].at \in CodeFor(f, n) /\ thread[t].at \in CodeFor(f, Len(bodies))
         /\ thread[t].at \in CodeFor(f, Len(bodies))
<1>1. f \in Functions
  BY DEF CodeInv, EngineInv, TypeInv, ThreadShape, At
<1>2. f # NoFn
  BY <1>1 DEF EngineAssumption
<1>3. thread[t].at # Null
  BY DEF CodeInv, ReadyInv, ThreadInv, Placed, At
<1>4. stub[f] = Unbound(t)
  BY <1>2 DEF CodeInv, ReadyInv, ResolveInv
<1>5. ASSUME NEW n \in 0 .. Len(bodies), Holds(t, n)
      PROVE  thread[t].at \in CodeFor(f, n) /\ thread[t].at \in CodeFor(f, Len(bodies))
  <2>1. thread[t].at \in CodeFor(f, n)
    BY <1>2, <1>3, <1>5 DEF Holds
  <2>2. Len(bodies) \in Nat
    BY BodiesCounted DEF CodeInv, EngineInv
  <2> QED
    BY <2>1, <2>2 DEF CodeFor
<1>6. PICK n \in 0 .. Len(bodies) : Holds(t, n)
  BY <1>3, HeldFacts
<1> QED
  BY <1>1, <1>2, <1>3, <1>4, <1>5, <1>6 DEF Inside

LEMMA RewriteReady ==
  ASSUME EngineAssumption, CodeInv, NEW t \in Threads, RewriteStub(t)
  PROVE  ReadyInv'
<1>1. thread \in [Threads -> ThreadState] /\ TypeInv /\ LockInv /\ ReadyInv
  BY DEF CodeInv, EngineInv, TypeInv, TypeOK, TablesInv
<1>2. PICK f : f = thread[t].via
  OBVIOUS
<1>3. At(t, "rewriting") /\ ~At(t, "rewritten")
      /\ UNCHANGED <<GlobalAddressMap, EmittedFunctions, bodies, PendingFunctions, lock, job>>
  BY DEF RewriteStub, At
<1>4. f \in Functions /\ f # NoFn /\ Inside(t, f) /\ stub[f] = Resolver
      /\ thread[t].at \in CodeFor(f, Len(bodies))
  BY <1>2, <1>3, BindingFacts DEF Unbound
<1>5. thread[t].at # Resolver
  BY <1>4, CodeForFacts
<1>6. stub' = [stub EXCEPT ![f] = Torn]
  BY <1>2, <1>4, <1>5 DEF RewriteStub
<1>7. /\ \A u \in Threads \ {t} : thread'[u] = thread[u]
      /\ thread'[t].pc = "rewritten" /\ thread'[t].fn = thread[t].fn
      /\ thread'[t].at = thread[t].at /\ thread'[t].via = f
  BY <1>1, <1>2, GotoChanges DEF RewriteStub, Places
<1>8. thread[t].pc \notin Working /\ stub[f] \in {Resolver, Torn}
  BY <1>3, <1>4 DEF At, Working
<1>9. /\ EmittingInv' /\ StubInv' /\ KnownInv' /\ AskedInv' /\ CallsInv'
      /\ \A n, a, g : Arrives(a, g, n) => Arrives(a, g, n)'
  <2>1. PICK b : b = Torn
    OBVIOUS
  <2>2. stub' = [stub EXCEPT ![f] = b] /\ (b \in CodeFor(f, Len(bodies)) \/ b = Torn)
    BY <1>6, <2>1
  <2>3. EmittingInv' /\ StubInv' /\ KnownInv' /\ AskedInv' /\ CallsInv'
    BY ONLY EngineAssumption, <1>1, <1>3, <1>4, <1>7, <1>8, <2>2, BindingReady
  <2>4. ASSUME NEW n, NEW a, NEW g, Arrives(a, g, n)
        PROVE  Arrives(a, g, n)'
    BY ONLY EngineAssumption, <1>1, <1>3, <1>4, <1>7, <1>8, <2>1, <2>2, <2>4, BindingReady
  <2> QED
    BY <2>3, <2>4
<1>10. \A g, n : CodeFor(g, n)' = CodeFor(g, n)
  BY <1>3, CodeForStays
<1>11. stub'[f] = Torn /\ \A g \in Functions \ {f} : stub'[g] = stub[g]
  BY <1>1, <1>4, <1>6 DEF TypeInv, TypeOK
<1>12. ThreadInv'
  <2>1. Placed(t) /\ thread[t].pc = "rewriting"
    BY <1>1, <1>3 DEF ReadyInv, ThreadInv, At
  <2>2. Placed(t)'
    BY <1>2, <1>4, <1>7, <2>1 DEF Placed, At
  <2>3. \A u \in Threads \ {t} : Placed(u)'
    BY <1>1, <1>7 DEF ReadyInv, ThreadInv, Placed, At
  <2> QED
    BY <2>2, <2>3 DEF ThreadInv
<1>13. HeldInv'
  <2>1. PICK n \in 0 .. Len(bodies) : Complete(n) /\ \A u \in Threads : Holds(u, n)
    BY <1>1 DEF ReadyInv, HeldInv
  <2>2. Complete(n)'
    BY <1>3, <1>9, <2>1 DEF Complete, Live, Freed
  <2>3. \A u \in Threads : Holds(u, n)'
    <3>1. \A u \in Threads \ {t} : Holds(u, n)'
      BY <1>7, <1>9, <1>10, <2>1 DEF Holds, At
    <3>2. Holds(t, n)'
      BY <1>2, <1>7, <1>9, <1>10, <2>1 DEF Holds, At
    <3> QED
      BY <3>1, <3>2
  <2>4. n \in 0 .. Len(bodies')
    BY <1>3
  <2> QED
    BY <2>2, <2>3, <2>4 DEF HeldInv
<1>14. ResolveInv'
  <2>1. \A u \in Threads, g \in Functions : Inside(u, g)' <=> Inside(u, g)
    BY <1>2, <1>3, <1>7 DEF Inside, At
  <2>2. \A g \in Functions : stub'[g] \in {Resolver, Torn} => stub[g] \in {Resolver, Torn}
    BY <1>4, <1>11
  <2>3. \A u \in Threads : thread'[u].via # NoFn =>
          stub'[thread'[u].via] = Unbound(u)'
    <3>1. \A u \in Threads \ {t} : thread'[u].via # NoFn => stub'[thread'[u].via] = Unbound(u)'
      BY <1>1, <1>4, <1>6, <1>7, <1>8, OthersBindOthers
    <3> QED
      BY <1>7, <1>11, <3>1 DEF At, Unbound
  <2>4. \A g \in Functions : stub'[g] = Torn => \E u \in Threads : thread'[u].via = g
    BY <1>1, <1>2, <1>7, <1>11 DEF ReadyInv, ResolveInv
  <2> QED
    BY <1>1, <2>1, <2>2, <2>3, <2>4 DEF ReadyInv, ResolveInv
<1>15. UnreferencedInv'
  <2>1. SUFFICES ASSUME NEW u \in Threads, At(u, "unmapped")'
                 PROVE  (/\ thread[u].fn \notin External
                         /\ ~HasAddress(thread[u].fn)
                         /\ Unreferenced(thread[u].fn))'
    BY DEF UnreferencedInv
  <2>2. u # t /\ thread'[u] = thread[u] /\ At(u, "unmapped")
    BY <1>7, <2>1 DEF At
  <2>3. PICK h : h = thread[u].fn
    OBVIOUS
  <2>4. h \notin External /\ ~HasAddress(h) /\ Unreferenced(h) /\ h \in Functions
    BY <1>1, <2>2, <2>3 DEF ReadyInv, UnreferencedInv, TypeInv, ThreadShape, At
  <2>5. ~HasAddress(h)'
    BY <1>11, <2>4, Kinds DEF HasAddress
  <2>6. CodeOf(h)' = CodeOf(h)
    BY <1>3 DEF CodeOf
  <2>7. \A v \in Threads : thread'[v].at = thread[v].at
    BY <1>7
  <2>8. Unreferenced(h)'
    BY <1>3, <2>4, <2>5, <2>6, <2>7 DEF Unreferenced, Live, Freed
  <2> QED
    BY <2>2, <2>3, <2>4, <2>5, <2>8
<1> QED
  BY <1>9, <1>12, <1>13, <1>14, <1>15 DEF ReadyInv

LEMMA ReexecuteReady ==
  ASSUME EngineAssumption, CodeInv, NEW t \in Threads, ReexecuteStub(t)
  PROVE  ReadyInv'
<1>1. thread \in [Threads -> ThreadState] /\ TypeInv /\ LockInv /\ ReadyInv
  BY DEF CodeInv, EngineInv, TypeInv, TypeOK, TablesInv
<1>2. PICK f : f = thread[t].via
  OBVIOUS
<1>3. At(t, "rewritten")
      /\ UNCHANGED <<GlobalAddressMap, EmittedFunctions, bodies, PendingFunctions, lock, job>>
  BY DEF ReexecuteStub
<1>4. PICK b : b = thread[t].at
  OBVIOUS
<1>5. f \in Functions /\ f # NoFn /\ Inside(t, f) /\ stub[f] = Torn
      /\ b \in CodeFor(f, Len(bodies))
  BY <1>2, <1>3, <1>4, BindingFacts DEF Unbound
<1>6. stub' = [stub EXCEPT ![f] = b]
  BY <1>2, <1>4 DEF ReexecuteStub
<1>7. PICK r : r = [pc |-> "run", fn |-> NoFn, at |-> Stub(f), via |-> NoFn]
  OBVIOUS
<1>8. /\ thread'[t] = r /\ \A u \in Threads \ {t} : thread'[u] = thread[u]
      /\ r.pc = "run" /\ r.fn = NoFn /\ r.at = Stub(f) /\ r.via = NoFn
  BY <1>1, <1>2, <1>7 DEF ReexecuteStub, Run
<1>9. thread[t].pc \notin Working /\ stub[f] \in {Resolver, Torn}
  BY <1>3, <1>5 DEF At, Working
<1>10. /\ EmittingInv' /\ StubInv' /\ KnownInv' /\ AskedInv' /\ CallsInv'
       /\ \A n, a, g : b \in CodeFor(f, n) /\ Arrives(a, g, n) => Arrives(a, g, n)'
  BY <1>1, <1>3, <1>5, <1>6, <1>8, <1>9, BindingReady
<1>11. \A g, n : CodeFor(g, n)' = CodeFor(g, n)
  BY <1>3, CodeForStays
<1>12. stub'[f] = b /\ \A g \in Functions \ {f} : stub'[g] = stub[g]
  BY <1>1, <1>5, <1>6 DEF TypeInv, TypeOK
<1>13. b \notin {Resolver, Torn} /\ Stub(f) # Null
  BY <1>5, CodeForFacts, Kinds
<1>14. ThreadInv'
  <2>1. Placed(t)'
    BY <1>8, <1>13 DEF Placed, At
  <2>2. \A u \in Threads \ {t} : Placed(u)'
    BY <1>1, <1>8 DEF ReadyInv, ThreadInv, Placed, At
  <2> QED
    BY <2>1, <2>2 DEF ThreadInv
<1>15. HeldInv'
  <2>1. PICK n \in 0 .. Len(bodies) : Complete(n) /\ \A u \in Threads : Holds(u, n)
    BY <1>1 DEF ReadyInv, HeldInv
  <2>2. b \in CodeFor(f, n)
    BY <1>2, <1>3, <1>4, <2>1, BindingFacts
  <2>3. Complete(n)'
    BY <1>3, <1>10, <2>1, <2>2 DEF Complete, Live, Freed
  <2>4. \A u \in Threads \ {t} : Holds(u, n)'
    BY <1>3, <1>8, <1>10, <1>11, <2>1, <2>2 DEF Holds, At
  <2>5. Arrives(Stub(f), f, n)'
    BY <1>11, <1>12, <2>2 DEF Arrives
  <2>6. Holds(t, n)'
    BY <1>5, <1>8, <2>5 DEF Holds, At
  <2>7. n \in 0 .. Len(bodies')
    BY <1>3
  <2> QED
    BY <2>3, <2>4, <2>6, <2>7 DEF HeldInv
<1>16. ResolveInv'
  <2>1. \A u \in Threads \ {t}, g \in Functions : Inside(u, g)' <=> Inside(u, g)
    BY <1>8 DEF Inside, At
  <2>2. \A g \in Functions : stub'[g] \in {Resolver, Torn} => g # f /\ stub[g] = stub'[g]
    BY <1>12, <1>13
  <2>3. \A g \in Functions : Inside(t, g)' => g = f
    BY <1>8, Kinds DEF Inside, At, EngineAssumption
  <2>4. \A u \in Threads : thread'[u].via # NoFn =>
          stub'[thread'[u].via] = Unbound(u)'
    BY <1>1, <1>5, <1>6, <1>8, <1>9, OthersBindOthers
  <2>5. ASSUME NEW g \in Functions, stub'[g] = Torn
        PROVE  \E u \in Threads : thread'[u].via = g
    <3>1. PICK u \in Threads : thread[u].via = g
      BY <1>1, <2>2, <2>5 DEF ReadyInv, ResolveInv
    <3> QED
      BY <1>2, <1>8, <2>2, <2>5, <3>1
  <2>6. ASSUME NEW g \in Functions, stub'[g] \in {Resolver, Torn},
               NEW u \in Threads, NEW v \in Threads, Inside(u, g)', Inside(v, g)'
        PROVE  u = v
    <3>1. u # t /\ v # t
      BY <2>2, <2>3, <2>6
    <3> QED
      BY <1>1, <2>1, <2>2, <2>6, <3>1 DEF ReadyInv, ResolveInv
  <2> QED
    BY <2>4, <2>5, <2>6 DEF ResolveInv
<1>17. UnreferencedInv'
  <2>1. SUFFICES ASSUME NEW u \in Threads, At(u, "unmapped")'
                 PROVE  (/\ thread[u].fn \notin External
                         /\ ~HasAddress(thread[u].fn)
                         /\ Unreferenced(thread[u].fn))'
    BY DEF UnreferencedInv
  <2>2. u # t /\ thread'[u] = thread[u] /\ At(u, "unmapped")
    BY <1>8, <2>1 DEF At
  <2>3. PICK h : h = thread[u].fn
    OBVIOUS
  <2>4. h \notin External /\ ~HasAddress(h) /\ Unreferenced(h) /\ h \in Functions
    BY <1>1, <2>2, <2>3 DEF ReadyInv, UnreferencedInv, TypeInv, ThreadShape, At
  <2>5. h # f
    <3>1. SUFFICES ASSUME h = f PROVE FALSE
      OBVIOUS
    <3>2. b \notin CodeOf(f)
      BY <1>4, <2>4, <3>1 DEF Unreferenced
    <3>3. \E i \in 1 .. Len(bodies) : b = Body(i) /\ bodies[i].fn = f
      BY <1>5, <2>4, <3>1, CodeForFacts
    <3> QED
      BY <1>1, <3>2, <3>3, BodiesCounted DEF CodeOf
  <2>6. ~HasAddress(h)'
    BY <1>12, <2>4, <2>5 DEF HasAddress
  <2>7. CodeOf(h)' = CodeOf(h)
    BY <1>3 DEF CodeOf
  <2>8. \A v \in Threads : thread'[v].at \notin CodeOf(h)
    BY <1>8, <2>4, AddressesDiffer DEF Unreferenced, CodeOf
  <2>9. Unreferenced(h)'
    BY <1>3, <2>4, <2>6, <2>7, <2>8 DEF Unreferenced, Live, Freed
  <2> QED
    BY <2>2, <2>3, <2>4, <2>6, <2>9
<1> QED
  BY <1>10, <1>14, <1>15, <1>16, <1>17 DEF ReadyInv
\* A thread comes to another place, or obtains an address, and is not in a stub
\* it was not in before.
LEMMA ThreadReady ==
  ASSUME EngineAssumption, ReadyInv, NEW t \in Threads, UNCHANGED <<stub, bodies>>,
         \A u \in Threads \ {t} : thread'[u] = thread[u],
         thread[t].pc # "rewritten", thread'[t].pc # "rewritten",
         thread'[t].via \in {thread[t].via, NoFn},
         thread'[t].pc = "run" => thread[t] = thread'[t],
         Placed(t)',
         NEW n \in 0 .. Len(bodies), Complete(n)', \A u \in Threads : Holds(u, n)'
  PROVE  ThreadInv' /\ HeldInv' /\ ResolveInv'
<1>1. ThreadInv'
  BY DEF ReadyInv, ThreadInv, Placed, At
<1>2. HeldInv'
  BY DEF HeldInv
<1>3. ResolveInv'
  <2>1. \A u \in Threads, g \in Functions : Inside(u, g)' => Inside(u, g)
    BY DEF Inside, At, EngineAssumption
  <2>2. \A u \in Threads : thread'[u].via # NoFn => stub[thread'[u].via] = Unbound(u)'
    BY DEF ReadyInv, ResolveInv, Unbound, At
  <2>3. ASSUME NEW f \in Functions, stub[f] = Torn
        PROVE  \E u \in Threads : thread'[u].via = f
    <3>1. PICK u \in Threads : thread[u].via = f
      BY <2>3 DEF ReadyInv, ResolveInv
    <3>2. f # NoFn /\ Torn # Resolver
      BY Kinds DEF EngineAssumption
    <3>3. At(u, "rewritten")
      BY <2>3, <3>1, <3>2 DEF ReadyInv, ResolveInv, Unbound
    <3> QED
      BY <3>1, <3>3 DEF At
  <2> QED
    BY <2>1, <2>2, <2>3 DEF ReadyInv, ResolveInv
<1> QED
  BY <1>1, <1>2, <1>3

LEMMA EnterReady ==
  ASSUME EngineAssumption, CodeInv, NEW t \in Threads, Enter(t)
  PROVE  ReadyInv'
<1>1. thread \in [Threads -> ThreadState] /\ TypeInv /\ LockInv /\ ReadyInv
  BY DEF CodeInv, EngineInv, TypeInv, TypeOK, TablesInv
<1>2. PICK f : f = thread[t].fn
  OBVIOUS
<1>3. /\ f \in Functions /\ Unlocked /\ thread[t].pc = "enter"
      /\ UNCHANGED <<stub, EmittedFunctions, bodies, PendingFunctions>>
  BY <1>1, <1>2 DEF Enter, At, TypeInv, ThreadShape
<1>4. /\ job.phase = "none" /\ Waiting = {} /\ Complete(Len(bodies))
      /\ \A u \in Threads : Holds(u, Len(bodies))
  BY <1>3, UnlockedFacts
<1>5. Placed(t) /\ (thread[t].via # NoFn => thread[t].via = f) /\ thread[t].at = Null
  BY <1>1, <1>2, <1>3 DEF ReadyInv, ThreadInv, Placed
<1>6. \A u \in Threads : ~At(u, "unmapped")
  BY <1>3, NobodyWorks DEF CodeInv, EngineInv, Working, At
<1>7. (\A g, n : CodeFor(g, n)' = CodeFor(g, n)) /\ (\A a, g, n : Arrives(a, g, n)' <=> Arrives(a, g, n))
  BY <1>3, CodeForStays, ArrivesStays
<1>8. Len(bodies) \in Nat /\ Len(bodies) \in 0 .. Len(bodies)
  BY <1>1, BodiesCounted
<1>9. CASE /\ GlobalAddressMap[f] # Null
           /\ Obtain(t, GlobalAddressMap[f])
           /\ UNCHANGED <<GlobalAddressMap, lock, job>>
  BY <1>2, <1>3, <1>9, ObtainReady DEF tables
<1>10. CASE /\ f \in External
            /\ addGlobalMapping(f, Native(f))
            /\ Obtain(t, Native(f))
            /\ UNCHANGED <<lock, job>>
  <2>1. /\ \A u \in Threads \ {t} : thread'[u] = thread[u]
        /\ thread'[t].at = Native(f) /\ thread'[t].via = thread[t].via /\ thread'[t].fn = f
    BY <1>1, <1>2, <1>10, AddressFacts, ObtainChanges
  <2>2. thread'[t].pc = IF thread[t].via = NoFn THEN "ready" ELSE "resolved"
    BY <1>1, <1>10 DEF Obtain, ThreadState
  <2>3. Native(f) # Null /\ \A n : Native(f) \in CodeFor(f, n)
    BY <1>10, AddressesDiffer DEF CodeFor
  <2>4. /\ GlobalAddressMap'[f] = Native(f)
        /\ \A g \in Functions \ {f} : GlobalAddressMap'[g] = GlobalAddressMap[g]
    BY <1>1, <1>3, <1>10 DEF addGlobalMapping, updateGlobalMapping, TypeInv, TypeOK
  <2>5. EmittingInv' /\ StubInv' /\ CallsInv'
    <3>1. EmittingInv'
      BY <1>1, <1>3, <1>10 DEF ReadyInv, EmittingInv
    <3>2. StubInv'
      <4>1. Waiting' = Waiting
        BY <1>3, <1>10 DEF Waiting
      <4> QED
        BY <1>1, <1>3, <1>7, <1>10, <4>1 DEF ReadyInv, StubInv
    <3>3. CallsInv'
      BY <1>1, <1>3, <1>7, <1>10 DEF ReadyInv, CallsInv, Live, Freed
    <3> QED
      BY <3>1, <3>2, <3>3
  <2>6. KnownInv'
    BY <1>1, <1>3, <1>4, <1>7, <1>10, <2>3, <2>4 DEF ReadyInv, KnownInv
  <2>7. AskedInv'
    BY <1>4, <1>10 DEF AskedInv
  <2>8. Placed(t)'
    BY <1>2, <1>5, <2>1, <2>2, <2>3 DEF Placed, At
  <2>9. Complete(Len(bodies))'
    BY <1>3, <1>4, <1>7, <1>10 DEF Complete, Live, Freed
  <2>10. PICK n : n = Len(bodies)
    OBVIOUS
  <2>11. Complete(n)'
    BY <1>3, <2>9, <2>10
  <2>12. Holds(t, n)'
    BY <1>3, <1>5, <1>7, <2>1, <2>2, <2>3 DEF Holds, At, Arrives
  <2>13. \A u \in Threads : Holds(u, n)'
    BY <1>4, <1>7, <2>1, <2>10, <2>12 DEF Holds, At
  <2>14. ThreadInv' /\ HeldInv' /\ ResolveInv'
    <3>1. thread[t].pc # "rewritten" /\ thread'[t].pc \notin {"rewritten", "run"}
      BY <1>3, <2>2
    <3> QED
      BY ONLY EngineAssumption, <1>1, <1>3, <1>8, <2>1, <2>8, <2>10, <2>11, <2>13, <3>1, ThreadReady
  <2>15. UnreferencedInv'
    BY <1>6, <2>1, <2>2 DEF UnreferencedInv, At
  <2> QED
    BY <2>5, <2>6, <2>7, <2>14, <2>15 DEF ReadyInv
<1>11. CASE /\ f \notin External
            /\ lock' = t
            /\ job' = Job(f, FALSE)
            /\ Goto(t, "compiling")
            /\ UNCHANGED GlobalAddressMap
  <2>1. /\ \A u \in Threads \ {t} : thread'[u] = thread[u]
        /\ thread'[t].pc = "compiling" /\ thread'[t].fn = f
        /\ thread'[t].at = Null /\ thread'[t].via = thread[t].via
    BY <1>1, <1>2, <1>5, <1>11, GotoChanges DEF Places
  <2>2. job'.phase = "start" /\ job'.fn = f /\ ~job'.pending
    BY <1>11, Jobs
  <2>3. EmittingInv' /\ CallsInv'
    BY <1>1, <1>3, <1>4, <1>7, <2>2 DEF ReadyInv, EmittingInv, CallsInv, Live, Freed
  <2>4. StubInv'
    <3>1. Waiting' = {}
      BY <1>3, <1>4, <2>2 DEF Waiting
    <3> QED
      BY <1>1, <1>3, <1>4, <1>7, <2>2, <3>1 DEF ReadyInv, StubInv
  <2>5. KnownInv'
    BY <1>1, <1>3, <1>4, <1>7, <1>11 DEF ReadyInv, KnownInv
  <2>6. AskedInv'
    BY <1>11, <2>1, <2>2 DEF AskedInv, Asked
  <2>7. Placed(t)'
    BY <1>5, <2>1 DEF Placed, At
  <2>8. Complete(Len(bodies))'
    BY <1>3, <1>4, <1>7, <2>2 DEF Complete, Live, Freed
  <2>9. PICK n : n = Len(bodies)
    OBVIOUS
  <2>10. Complete(n)'
    BY <1>3, <2>8, <2>9
  <2>11. \A u \in Threads : Holds(u, n)'
    BY <1>4, <1>7, <2>1, <2>9 DEF Holds, At
  <2>12. ThreadInv' /\ HeldInv' /\ ResolveInv'
    <3>1. thread[t].pc # "rewritten" /\ thread'[t].pc \notin {"rewritten", "run"}
      BY <1>3, <2>1
    <3> QED
      BY ONLY EngineAssumption, <1>1, <1>3, <1>8, <2>1, <2>7, <2>9, <2>10, <2>11, <3>1, ThreadReady
  <2>13. UnreferencedInv'
    BY <1>6, <2>1 DEF UnreferencedInv, At
  <2> QED
    BY <2>3, <2>4, <2>5, <2>6, <2>12, <2>13 DEF ReadyInv
<1> QED
  BY <1>2, <1>9, <1>10, <1>11 DEF Enter

LEMMA CompiledReady ==
  ASSUME EngineAssumption, CodeInv, NEW t \in Threads, Compiled(t)
  PROVE  ReadyInv'
<1>1. thread \in [Threads -> ThreadState] /\ TypeInv /\ LockInv /\ ReadyInv
  BY DEF CodeInv, EngineInv, TypeInv, TypeOK, TablesInv
<1>2. /\ lock = t /\ At(t, "compiling") /\ job.phase = "next" /\ PendingFunctions = <<>>
      /\ job' = NoJob /\ lock' = NoThread /\ Obtain(t, GlobalAddressMap[thread[t].fn])
      /\ UNCHANGED <<GlobalAddressMap, stub, EmittedFunctions, bodies, PendingFunctions>>
  BY DEF Compiled, Compiles, tables
<1>3. PICK f : f = thread[t].fn
  OBVIOUS
<1>4. PICK a : a = GlobalAddressMap[f]
  OBVIOUS
<1>5. PICK n : n = Len(bodies)
  OBVIOUS
<1>6. n \in Nat /\ n \in 0 .. Len(bodies) /\ f \in Functions
  BY <1>1, <1>2, <1>3, <1>5, BodiesCounted DEF TypeInv, ThreadShape, At
<1>7. a \in CodeFor(f, n)
  BY <1>1, <1>2, <1>3, <1>4, <1>5 DEF ReadyInv, AskedInv, Asked
<1>8. a # Null /\ a \in Address
  BY <1>1, <1>4, <1>6, <1>7, CodeForFacts, AddressIsKnown
<1>9. /\ \A u \in Threads \ {t} : thread'[u] = thread[u]
      /\ thread'[t].at = a /\ thread'[t].via = thread[t].via /\ thread'[t].fn = f
  BY <1>1, <1>2, <1>3, <1>4, <1>8, ObtainChanges
<1>10. thread'[t].pc = IF thread[t].via = NoFn THEN "ready" ELSE "resolved"
  BY <1>1, <1>2 DEF Obtain, ThreadState
<1>11. thread[t].via # NoFn => thread[t].via = f
  BY <1>1, <1>3 DEF ReadyInv, ThreadInv, Placed
<1>12. (\A g, m : CodeFor(g, m)' = CodeFor(g, m)) /\ (\A b, g, m : Arrives(b, g, m)' <=> Arrives(b, g, m))
  BY <1>2, CodeForStays, ArrivesStays
<1>13. Waiting = {} /\ Waiting' = {} /\ job'.phase = "none"
  BY <1>2, Jobs DEF Waiting
<1>14. EmittingInv' /\ CallsInv'
  BY <1>1, <1>2, <1>12, <1>13 DEF ReadyInv, EmittingInv, CallsInv, Live, Freed
<1>15. StubInv' /\ KnownInv' /\ AskedInv'
  BY <1>1, <1>2, <1>12, <1>13 DEF ReadyInv, StubInv, KnownInv, AskedInv
<1>16. Placed(t)'
  BY <1>8, <1>9, <1>10, <1>11 DEF Placed, At
<1>17. \A i \in Live : \A g \in Calls[bodies[i].fn] : Arrives(bodies[i].calls[g], g, n)
  <2>1. SUFFICES ASSUME NEW i \in Live, NEW g \in Calls[bodies[i].fn]
                 PROVE  Arrives(bodies[i].calls[g], g, n)
    OBVIOUS
  <2>2. g \in Functions
    BY <1>1, BodiesCounted DEF Live, Freed, BodyState, EngineAssumption
  <2>3. stub[g] # Null
    BY <1>1, <1>13, <2>2 DEF ReadyInv, StubInv
  <2>4. stub[g] \in CodeFor(g, n) \cup {NoStub, Null, Resolver, Torn}
    BY <1>1, <1>5, <2>2 DEF ReadyInv, StubInv
  <2>5. \/ bodies[i].calls[g] \in CodeFor(g, n)
        \/ bodies[i].calls[g] = Stub(g) /\ stub[g] # NoStub
    BY <1>1, <1>2, <1>5 DEF ReadyInv, CallsInv
  <2> QED
    BY <2>3, <2>4, <2>5 DEF Arrives
<1>18. Complete(n)'
  BY <1>2, <1>5, <1>12, <1>13, <1>17 DEF Complete, Live, Freed
<1>19. \A u \in Threads : Holds(u, n)'
  <2>1. PICK m \in 0 .. n : \A u \in Threads : Holds(u, m)
    BY <1>1, <1>5 DEF ReadyInv, HeldInv
  <2>2. \A g : CodeFor(g, m) \subseteq CodeFor(g, n)
    BY <1>6 DEF CodeFor
  <2>3. \A b, g : Arrives(b, g, m) => Arrives(b, g, n)
    BY <2>2 DEF Arrives
  <2>4. \A u \in Threads \ {t} : Holds(u, n)'
    BY <1>9, <1>12, <2>1, <2>2, <2>3 DEF Holds, At
  <2>5. Holds(t, n)'
    BY <1>6, <1>7, <1>9, <1>11, <1>12 DEF Holds, Arrives
  <2> QED
    BY <2>4, <2>5
<1>20. ThreadInv' /\ HeldInv' /\ ResolveInv'
  <2>1. thread[t].pc # "rewritten" /\ thread'[t].pc \notin {"rewritten", "run"}
    BY <1>2, <1>10 DEF At
  <2> QED
    BY ONLY EngineAssumption, <1>1, <1>2, <1>6, <1>9, <1>16, <1>18, <1>19, <2>1, ThreadReady
<1>21. UnreferencedInv'
  <2>1. \A u \in Threads : u # t => thread[u].pc \notin Working
    BY <1>2, OnlyOneCompiles DEF CodeInv, EngineInv
  <2> QED
    BY <1>9, <1>10, <2>1 DEF UnreferencedInv, At, Working
<1> QED
  BY <1>14, <1>15, <1>20, <1>21 DEF ReadyInv
LEMMA EraseReady ==
  ASSUME EngineAssumption, CodeInv, NEW t \in Threads, EraseRecord(t)
  PROVE  ReadyInv'
<1>1. thread \in [Threads -> ThreadState] /\ TypeInv /\ LockInv /\ ReadyInv
  BY DEF CodeInv, EngineInv, TypeInv, TypeOK, TablesInv
<1>2. /\ At(t, "deallocated") /\ thread' = [thread EXCEPT ![t] = AtRest] /\ lock' = NoThread
      /\ UNCHANGED <<GlobalAddressMap, stub, bodies, PendingFunctions, job>>
  BY DEF EraseRecord
<1>3. thread'[t] = AtRest /\ \A u \in Threads \ {t} : thread'[u] = thread[u]
  BY <1>1, <1>2
<1>4. AtRest.pc = "idle" /\ AtRest.at = Null /\ AtRest.via = NoFn
  BY DEF AtRest
<1>5. lock = t /\ job.phase = "none"
  BY <1>1, <1>2 DEF LockInv, At, Freeing
<1>6. \A u \in Threads : u # t => ~At(u, "unmapped")
  BY <1>1, <1>5 DEF LockInv, Freeing, At
<1>7. (\A g, n : CodeFor(g, n)' = CodeFor(g, n)) /\ (\A a, g, n : Arrives(a, g, n)' <=> Arrives(a, g, n))
  BY <1>2, CodeForStays, ArrivesStays
<1>8. EmittingInv' /\ KnownInv' /\ AskedInv' /\ CallsInv'
  BY <1>1, <1>2, <1>5, <1>7 DEF ReadyInv, EmittingInv, KnownInv, AskedInv, CallsInv, Live, Freed
<1>9. StubInv'
  <2>1. Waiting' = Waiting
    BY <1>2 DEF Waiting
  <2> QED
    BY <1>1, <1>2, <1>7, <2>1 DEF ReadyInv, StubInv
<1>10. PICK n \in 0 .. Len(bodies) : Complete(n) /\ \A u \in Threads : Holds(u, n)
  BY <1>1 DEF ReadyInv, HeldInv
<1>11. Complete(n)' /\ \A u \in Threads : Holds(u, n)'
  BY <1>2, <1>3, <1>4, <1>7, <1>10 DEF Complete, Holds, At, Live, Freed
<1>12. Placed(t)'
  BY <1>3, <1>4 DEF Placed, At
<1>13. ThreadInv' /\ HeldInv' /\ ResolveInv'
  <2>1. thread[t].pc # "rewritten" /\ thread'[t].pc \notin {"rewritten", "run"}
        /\ thread'[t].via = NoFn
    BY <1>2, <1>3, <1>4 DEF At
  <2> QED
    BY ONLY EngineAssumption, <1>1, <1>2, <1>3, <1>11, <1>12, <2>1, ThreadReady
<1>14. UnreferencedInv'
  BY <1>3, <1>4, <1>6 DEF UnreferencedInv, At
<1> QED
  BY <1>8, <1>9, <1>13, <1>14 DEF ReadyInv

LEMMA FreeReady ==
  ASSUME EngineAssumption, CarefulClients, BoundCodeStays, CodeInv,
         NEW t \in Threads, NEW f \in Functions,
         MayFree(f), freeMachineCodeForFunction(t, f)
  PROVE  ReadyInv'
<1>1. thread \in [Threads -> ThreadState] /\ TypeInv /\ LockInv /\ ReadyInv
  BY DEF CodeInv, EngineInv, TypeInv, TypeOK, TablesInv
<1>2. /\ At(t, "idle") /\ Unlocked /\ updateGlobalMapping(f, Null)
      /\ thread' = [thread EXCEPT ![t].pc = "unmapped", ![t].fn = f]
      /\ UNCHANGED <<stub, EmittedFunctions, bodies, PendingFunctions, job>>
  BY DEF freeMachineCodeForFunction
<1>3. thread[t].at = Null /\ thread[t].via = NoFn
  BY <1>1, <1>2, IdleFacts
<1>4. /\ \A u \in Threads \ {t} : thread'[u] = thread[u]
      /\ thread'[t].pc = "unmapped" /\ thread'[t].fn = f
      /\ thread'[t].at = Null /\ thread'[t].via = NoFn
  BY <1>1, <1>2, <1>3 DEF ThreadState
<1>5. /\ job.phase = "none" /\ Complete(Len(bodies))
      /\ \A u \in Threads : Holds(u, Len(bodies))
  BY <1>2, UnlockedFacts
<1>6. \A u \in Threads : ~At(u, "unmapped")
  BY <1>2, NobodyWorks DEF CodeInv, EngineInv, Working, At
<1>7. (\A g, n : CodeFor(g, n)' = CodeFor(g, n)) /\ (\A a, g, n : Arrives(a, g, n)' <=> Arrives(a, g, n))
  BY <1>2, CodeForStays, ArrivesStays
<1>8. EmittingInv' /\ AskedInv' /\ CallsInv'
  BY <1>1, <1>2, <1>5, <1>7 DEF ReadyInv, EmittingInv, AskedInv, CallsInv, Live, Freed
<1>9. StubInv'
  <2>1. Waiting' = Waiting
    BY <1>2 DEF Waiting
  <2> QED
    BY <1>1, <1>2, <1>7, <2>1 DEF ReadyInv, StubInv
<1>10. KnownInv'
  <2>1. /\ GlobalAddressMap'[f] = Null
        /\ \A g \in Functions \ {f} : GlobalAddressMap'[g] = GlobalAddressMap[g]
    BY <1>1, <1>2 DEF updateGlobalMapping, TypeInv, TypeOK
  <2> QED
    BY <1>1, <1>2, <1>5, <1>7, <2>1 DEF ReadyInv, KnownInv
<1>11. PICK n \in 0 .. Len(bodies) : Complete(n) /\ \A u \in Threads : Holds(u, n)
  BY <1>1 DEF ReadyInv, HeldInv
<1>12. Complete(n)' /\ \A u \in Threads : Holds(u, n)'
  BY <1>2, <1>4, <1>7, <1>11 DEF Complete, Holds, At, Live, Freed
<1>13. Placed(t)'
  BY <1>4 DEF Placed, At
<1>14. ThreadInv' /\ HeldInv' /\ ResolveInv'
  <2>1. thread[t].pc # "rewritten" /\ thread'[t].pc \notin {"rewritten", "run"}
    BY <1>2, <1>4 DEF At
  <2> QED
    BY ONLY EngineAssumption, <1>1, <1>2, <1>4, <1>12, <1>13, <2>1, ThreadReady
<1>15. UnreferencedInv'
  <2>1. SUFFICES ASSUME NEW u \in Threads, At(u, "unmapped")'
                 PROVE  (/\ thread[u].fn \notin External
                         /\ ~HasAddress(thread[u].fn)
                         /\ Unreferenced(thread[u].fn))'
    BY DEF UnreferencedInv
  <2>2. u = t
    BY <1>4, <1>6, <2>1 DEF At
  <2>3. f \notin External
    <3>1. EmittedFunctions[f] # 0 /\ RecordInv
      BY DEF MayFree, CodeInv, EngineInv, TablesInv
    <3>2. PICK i \in DOMAIN bodies : bodies[i].fn = f
      BY <1>1, <3>1, Recorded DEF RecordInv
    <3> QED
      BY <1>1, <3>2, BodiesCounted DEF BodyState
  <2>4. ~HasAddress(f) /\ Unreferenced(f)
    BY DEF MayFree, BoundCodeStays
  <2>5. ~HasAddress(f)' /\ CodeOf(f)' = CodeOf(f)
    BY <1>2, <2>4 DEF HasAddress, CodeOf
  <2>6. \A v \in Threads : thread'[v].at = thread[v].at
    BY <1>3, <1>4
  <2>7. Unreferenced(f)'
    <3>1. /\ \A v \in Threads : thread'[v].at \notin CodeOf(f)
          /\ \A i \in Live : bodies[i].fn # f => \A g \in Calls[bodies[i].fn] :
               bodies[i].calls[g] \notin CodeOf(f)
      BY <2>4, <2>6 DEF Unreferenced
    <3>2. bodies' = bodies
      BY <1>2
    <3>3. Live' = Live
      BY <3>2 DEF Live, Freed
    <3> QED
      BY ONLY <2>5, <3>1, <3>2, <3>3 DEF Unreferenced
  <2> QED
    BY <1>4, <2>2, <2>3, <2>5, <2>7
<1> QED
  BY <1>8, <1>9, <1>10, <1>14, <1>15 DEF ReadyInv

LEMMA DeallocateReady ==
  ASSUME EngineAssumption, CodeInv, NEW t \in Threads, deallocateMemForFunction(t)
  PROVE  ReadyInv'
<1>1. thread \in [Threads -> ThreadState] /\ TypeInv /\ LockInv /\ ReadyInv
      /\ RecordInv /\ NoBodyIsLost /\ FreeInv
  BY DEF CodeInv, EngineInv, TypeInv, TypeOK, TablesInv
<1>2. PICK f : f = thread[t].fn
  OBVIOUS
<1>3. PICK i : i = EmittedFunctions[f]
  OBVIOUS
<1>4. /\ At(t, "unmapped") /\ Goto(t, "deallocated")
      /\ bodies' = IF i = 0 THEN bodies ELSE [bodies EXCEPT ![i].state = "freed"]
      /\ UNCHANGED <<GlobalAddressMap, stub, EmittedFunctions, PendingFunctions, lock, job>>
  BY <1>2, <1>3 DEF deallocateMemForFunction
<1>5. /\ f \in Functions \ External /\ ~HasAddress(f) /\ Unreferenced(f)
      /\ GlobalAddressMap[f] = Null /\ job.phase = "none" /\ lock = t
  BY <1>1, <1>2, <1>4 DEF ReadyInv, UnreferencedInv, FreeInv, LockInv, Freeing, At, TypeInv, ThreadShape
<1>6. /\ \A u \in Threads \ {t} : thread'[u] = thread[u]
      /\ thread'[t].pc = "deallocated" /\ thread'[t].fn = thread[t].fn
      /\ thread'[t].at = thread[t].at /\ thread'[t].via = thread[t].via
  BY <1>1, <1>4, GotoChanges DEF Places
<1>7. i \in 0 .. Len(bodies) /\ Len(bodies) \in Nat /\ DOMAIN bodies = 1 .. Len(bodies)
  BY <1>1, <1>3, <1>5, Recorded, BodiesCounted
<1>8. i # 0 => bodies[i].fn = f
  BY <1>1, <1>3, <1>5 DEF RecordInv
<1>9. /\ Len(bodies') = Len(bodies) /\ DOMAIN bodies' = DOMAIN bodies
      /\ \A j \in DOMAIN bodies : /\ bodies'[j].fn = bodies[j].fn
                                  /\ bodies'[j].calls = bodies[j].calls
                                  /\ bodies'[j].state = IF j = i THEN "freed" ELSE bodies[j].state
  BY <1>1, <1>4, <1>7 DEF TypeInv, TypeOK, BodyState
<1>10. Live' \subseteq Live /\ \A j \in Live' : bodies[j].fn # f
  <2>1. Live' \subseteq Live /\ i \notin Live'
    BY <1>9 DEF Live, Freed
  <2>2. \A j \in Live : bodies[j].fn = f => j = i
    BY <1>1, <1>3 DEF NoBodyIsLost
  <2> QED
    BY <2>1, <2>2
<1>11. ASSUME NEW g, NEW n \in 0 .. Len(bodies), NEW a \in CodeFor(g, n), a \notin CodeOf(f)
       PROVE  a \in CodeFor(g, n)' /\ g # f
  <2>1. CASE g \in External /\ a = Native(g)
    BY <1>5, <2>1, CodeForFacts DEF CodeFor
  <2>2. CASE \E j \in 1 .. n : a = Body(j) /\ bodies[j].fn = g /\ bodies[j].state = "finished"
    <3>1. PICK j \in 1 .. n : a = Body(j) /\ bodies[j].fn = g /\ bodies[j].state = "finished"
      BY <2>2
    <3>2. j \in DOMAIN bodies
      BY <1>7
    <3>3. g # f
      BY <1>11, <3>1, <3>2 DEF CodeOf
    <3>4. bodies'[j].fn = g /\ bodies'[j].state = "finished"
      BY <1>8, <1>9, <3>1, <3>2, <3>3
    <3> QED
      BY <3>1, <3>3, <3>4 DEF CodeFor
  <2> QED
    BY <1>11, <2>1, <2>2, CodeForFacts
<1>12. ASSUME NEW g, NEW n \in 0 .. Len(bodies), g # f
       PROVE  CodeFor(g, n) \subseteq CodeFor(g, n)'
  <2>1. \A j \in 1 .. n : bodies[j].fn = g => bodies'[j].fn = g /\ bodies'[j].state = bodies[j].state
    BY <1>7, <1>8, <1>9, <1>12
  <2> QED
    BY <2>1 DEF CodeFor
<1>13. \A n : stub[f] \notin CodeFor(f, n)
  BY <1>5, CodeForFacts DEF HasAddress
<1>14. ASSUME NEW a, NEW g, NEW n \in 0 .. Len(bodies), Arrives(a, g, n), a \notin CodeOf(f)
       PROVE  Arrives(a, g, n)'
  <2>1. CASE a \in CodeFor(g, n)
    BY <1>11, <1>14, <2>1 DEF Arrives
  <2>2. CASE a = Stub(g) /\ stub[g] \in CodeFor(g, n) \cup {Resolver, Torn}
    <3>1. CASE g = f
      BY <1>4, <1>13, <2>2, <3>1 DEF Arrives
    <3>2. CASE g # f
      BY <1>4, <1>12, <2>2, <3>2 DEF Arrives
    <3> QED
      BY <3>1, <3>2
  <2> QED
    BY <1>14, <2>1, <2>2 DEF Arrives
<1>15. EmittingInv' /\ AskedInv'
  BY <1>1, <1>4, <1>5, <1>9 DEF ReadyInv, EmittingInv, AskedInv
<1>16. PICK n : n = Len(bodies)
  OBVIOUS
<1>17. n \in 0 .. Len(bodies) /\ n = Len(bodies') /\ n \in 0 .. Len(bodies')
  BY <1>7, <1>9, <1>16
<1>18. StubInv'
  <2>1. Waiting' = Waiting
    BY <1>4 DEF Waiting
  <2>2. \A g \in Functions : stub[g] \in CodeFor(g, n)' \cup {NoStub, Null, Resolver, Torn}
    BY <1>1, <1>12, <1>13, <1>16, <1>17 DEF ReadyInv, StubInv
  <2> QED
    BY <1>1, <1>4, <1>17, <2>1, <2>2 DEF ReadyInv, StubInv
<1>19. KnownInv'
  <2>1. \A g \in Functions :
          \/ GlobalAddressMap[g] \in CodeFor(g, n)' \cup {Null}
          \/ GlobalAddressMap[g] = Stub(g) /\ stub[g] \notin {NoStub, Resolver, Torn}
    BY <1>1, <1>5, <1>12, <1>16, <1>17 DEF ReadyInv, KnownInv
  <2> QED
    BY <1>4, <1>17, <2>1 DEF KnownInv
<1>20. \A j \in Live' : \A g \in Calls[bodies[j].fn] : bodies[j].calls[g] \notin CodeOf(f)
  BY <1>5, <1>10 DEF Unreferenced
<1>21. CallsInv'
  <2>1. SUFFICES ASSUME NEW j \in Live', NEW g \in Calls[bodies[j].fn]
                 PROVE  \/ bodies[j].calls[g] \in CodeFor(g, n)'
                        \/ bodies[j].calls[g] = Stub(g) /\ stub[g] # NoStub
    <3>1. \A j \in Live' : j \in DOMAIN bodies
      BY <1>9 DEF Live, Freed
    <3> QED
      BY <1>4, <1>9, <1>17, <2>1, <3>1 DEF CallsInv
  <2>2. \/ bodies[j].calls[g] \in CodeFor(g, n)
        \/ bodies[j].calls[g] = Stub(g) /\ stub[g] # NoStub
    BY <1>1, <1>5, <1>10, <1>16 DEF ReadyInv, CallsInv
  <2> QED
    BY <1>11, <1>17, <1>20, <2>2
<1>22. Complete(n)'
  <2>1. Complete(n)
    <3>1. PICK m \in 0 .. Len(bodies) : Complete(m)
      BY <1>1 DEF ReadyInv, HeldInv
    <3> QED
      BY <1>5, <1>16, <3>1 DEF Complete
  <2>2. \A j \in Live' : j \in DOMAIN bodies /\ j \in Live
    BY <1>10 DEF Live
  <2>3. ASSUME NEW j \in Live', j <= n, NEW g \in Calls[bodies[j].fn]
        PROVE  \/ bodies[j].calls[g] \in CodeFor(g, n)'
               \/ /\ bodies[j].calls[g] = Stub(g)
                  /\ stub'[g] \in CodeFor(g, n)' \cup {Resolver, Torn}
    <3>1. Arrives(bodies[j].calls[g], g, n)
      BY <2>1, <2>2, <2>3 DEF Complete
    <3>2. PICK a : a = bodies[j].calls[g]
      OBVIOUS
    <3>3. Arrives(a, g, n)'
      BY <1>14, <1>17, <1>20, <3>1, <3>2
    <3> QED
      BY <3>2, <3>3 DEF Arrives
  <2>4. \A j \in Live' : bodies'[j].fn = bodies[j].fn /\ bodies'[j].calls = bodies[j].calls
    BY <1>9, <2>2
  <2> QED
    BY <1>4, <1>5, <1>17, <2>3, <2>4 DEF Complete, Arrives
<1>23. \A u \in Threads : Holds(u, n)'
  <2>1. \A u \in Threads : Holds(u, n) /\ thread[u].at \notin CodeOf(f)
    <3>1. PICK m \in 0 .. Len(bodies) : Complete(m) /\ \A u \in Threads : Holds(u, m)
      BY <1>1 DEF ReadyInv, HeldInv
    <3>2. m = n
      BY <1>5, <1>16, <3>1 DEF Complete
    <3> QED
      BY <1>5, <3>1, <3>2 DEF Unreferenced
  <2>2. ASSUME NEW u \in Threads
        PROVE  Holds(u, n)'
    <3>1. thread'[u].at = thread[u].at /\ thread'[u].fn = thread[u].fn
          /\ thread'[u].via = thread[u].via /\ (At(u, "ready")' => At(u, "ready"))
      BY <1>6 DEF At
    <3>2. PICK a : a = thread[u].at
      OBVIOUS
    <3>3. CASE a = Null
      BY <3>1, <3>2, <3>3 DEF Holds
    <3>4. CASE a # Null
      <4>1. PICK g \in Functions : Arrives(a, g, n)
        BY <2>1, <3>2, <3>4 DEF Holds
      <4>2. Arrives(a, g, n)'
        BY <1>14, <1>17, <2>1, <3>2, <4>1
      <4>3. PICK h : h = thread[u].fn
        OBVIOUS
      <4>4. At(u, "ready") => Arrives(a, h, n)'
        BY <1>14, <1>17, <2>1, <3>2, <3>4, <4>3 DEF Holds
      <4>5. PICK v : v = thread[u].via
        OBVIOUS
      <4>6. v # NoFn => a \in CodeFor(v, n)'
        BY <1>11, <1>17, <2>1, <3>2, <3>4, <4>5 DEF Holds
      <4> QED
        BY <3>1, <3>2, <4>2, <4>3, <4>4, <4>5, <4>6 DEF Holds
    <3> QED
      BY <3>3, <3>4
  <2> QED
    BY <2>2
<1>24. ThreadInv'
  <2>1. Placed(t) /\ thread[t].pc = "unmapped"
    BY <1>1, <1>4 DEF ReadyInv, ThreadInv, At
  <2>2. Placed(t)'
    BY <1>6, <2>1 DEF Placed, At
  <2> QED
    BY <1>1, <1>6, <2>2 DEF ReadyInv, ThreadInv, Placed, At
<1>25. HeldInv'
  BY <1>17, <1>22, <1>23 DEF HeldInv
<1>26. ResolveInv'
  <2>1. \A u \in Threads, g \in Functions : Inside(u, g)' <=> Inside(u, g)
    BY <1>4, <1>6 DEF Inside, At
  <2>2. \A u \in Threads : thread'[u].via = thread[u].via /\ Unbound(u)' = Unbound(u)
    BY <1>4, <1>6 DEF Unbound, At
  <2> QED
    BY <1>1, <1>4, <2>1, <2>2 DEF ReadyInv, ResolveInv
<1>27. UnreferencedInv'
  <2>1. \A u \in Threads : u # t => ~At(u, "unmapped")
    BY <1>1, <1>5 DEF LockInv, Freeing, At
  <2> QED
    BY <1>6, <2>1 DEF UnreferencedInv, At
<1> QED
  BY <1>15, <1>18, <1>19, <1>21, <1>24, <1>25, <1>26, <1>27 DEF ReadyInv
\* What arrives still does, if code is only added, and stubs that lead
\* somewhere stay as they are.
LEMMA ArrivesGrows ==
  ASSUME NEW n,
         \A g : CodeFor(g, n) \subseteq CodeFor(g, n)',
         \A g : stub[g] \notin {NoStub, Null} => stub'[g] = stub[g]
  PROVE  \A a, g : Arrives(a, g, n) => Arrives(a, g, n)'
<1> SUFFICES ASSUME NEW a, NEW g, Arrives(a, g, n)
             PROVE  Arrives(a, g, n)'
  OBVIOUS
<1>1. CASE a \in CodeFor(g, n)
  BY <1>1 DEF Arrives
<1>2. CASE a = Stub(g) /\ stub[g] \in CodeFor(g, n) \cup {Resolver, Torn}
  <2>1. stub[g] \notin {NoStub, Null}
    BY <1>2, CodeForFacts, Kinds
  <2> QED
    BY <1>2, <2>1 DEF Arrives
<1> QED
  BY <1>1, <1>2 DEF Arrives

\* No thread is inside a stub that is not there, or is empty.
LEMMA NobodyInside ==
  ASSUME EngineAssumption, TypeInv, ReadyInv, NEW f \in Functions, stub[f] \in {NoStub, Null},
         NEW t \in Threads
  PROVE  ~Inside(t, f)
<1>1. thread[t].via # f
  <2>1. f # NoFn
    BY DEF EngineAssumption
  <2>2. stub[f] \notin {Resolver, Torn}
    BY Kinds
  <2> QED
    BY <2>1, <2>2 DEF ReadyInv, ResolveInv, Unbound
<1>2. thread[t].at # Stub(f)
  <2>1. SUFFICES ASSUME thread[t].at = Stub(f)
                 PROVE  FALSE
    OBVIOUS
  <2>2. Stub(f) # Null
    BY Kinds
  <2>3. PICK n : Holds(t, n)
    BY DEF ReadyInv, HeldInv
  <2>4. PICK g \in Functions : Arrives(Stub(f), g, n)
    BY <2>1, <2>2, <2>3 DEF Holds
  <2>5. g = f /\ Stub(f) \notin CodeFor(g, n)
    BY <2>4, ArrivesFacts, CodeForFacts
  <2> QED
    BY <2>4, <2>5, CodeForFacts, Kinds DEF Arrives
<1> QED
  BY <1>1, <1>2 DEF Inside

\* The thread that compiles stays where it is, and no other one moves.
LEMMA SessionReady ==
  ASSUME EngineAssumption, TypeInv, ReadyInv, UNCHANGED thread,
         Len(bodies) <= Len(bodies'), Len(bodies) \in Nat, Len(bodies') \in Nat,
         \A g : \A n \in 0 .. Len(bodies) : CodeFor(g, n) \subseteq CodeFor(g, n)',
         \A g : stub[g] \notin {NoStub, Null} => stub'[g] = stub[g],
         \A g \in Functions : stub'[g] # Torn \/ stub'[g] = stub[g],
         \A n \in 0 .. Len(bodies) : Complete(n) => Complete(n)',
         \A u \in Threads : ~At(u, "unmapped")
  PROVE  ThreadInv' /\ HeldInv' /\ ResolveInv' /\ UnreferencedInv'
<1>1. ThreadInv' /\ UnreferencedInv'
  BY DEF ReadyInv, ThreadInv, Placed, UnreferencedInv, At
<1>2. HeldInv'
  <2>1. PICK n \in 0 .. Len(bodies) : Complete(n) /\ \A u \in Threads : Holds(u, n)
    BY DEF ReadyInv, HeldInv
  <2>2. \A a, g : Arrives(a, g, n) => Arrives(a, g, n)'
    BY ArrivesGrows
  <2>3. \A u \in Threads : Holds(u, n)'
    BY <2>1, <2>2 DEF Holds, At
  <2>4. n \in 0 .. Len(bodies') /\ Complete(n)'
    BY <2>1
  <2> QED
    BY <2>3, <2>4 DEF HeldInv
<1>3. ResolveInv'
  <2>1. \A u \in Threads : \A g : Inside(u, g)' <=> Inside(u, g)
    BY DEF Inside, At
  <2>2. \A u \in Threads : Unbound(u)' = Unbound(u) /\ Unbound(u) \notin {NoStub, Null}
    BY Kinds DEF Unbound, At
  <2>3. \A u \in Threads : thread[u].via # NoFn => stub'[thread[u].via] = Unbound(u)'
    BY <2>2 DEF ReadyInv, ResolveInv
  <2>4. ASSUME NEW g \in Functions, stub'[g] \in {Resolver, Torn},
               NEW u \in Threads, NEW v \in Threads, Inside(u, g), Inside(v, g)
        PROVE  u = v
    <3>1. stub[g] \notin {NoStub, Null}
      BY <2>4, NobodyInside
    <3> QED
      BY <2>4, <3>1 DEF ReadyInv, ResolveInv
  <2> QED
    BY <2>1, <2>3, <2>4 DEF ReadyInv, ResolveInv
<1> QED
  BY <1>1, <1>2, <1>3

\* While a function is compiled no code is being freed.
LEMMA CompilingFacts ==
  ASSUME EngineAssumption, CodeInv, NEW t \in Threads, lock = t, At(t, "compiling"),
         job.phase # "none"
  PROVE  /\ \A u \in Threads : ~At(u, "unmapped")
         /\ job.fn \in Functions \ External
         /\ Asked \in Functions \ External
         /\ Len(bodies) \in Nat /\ DOMAIN bodies = 1 .. Len(bodies)
         /\ (job.phase = "relocate" =>
               Len(bodies) > 0 /\ bodies[Len(bodies)].state = "emitting"
                               /\ bodies[Len(bodies)].fn = job.fn)
<1>1. \A u \in Threads : ~At(u, "unmapped")
  BY OnlyOneCompiles DEF CodeInv, EngineInv, Freeing, At
<1>2. job.fn \in Functions \ External /\ Asked \in Functions \ External
  BY DEF CodeInv, EngineInv, TypeInv, JobShape, ThreadShape, At, Asked, ReadyInv, AskedInv
<1>3. Len(bodies) \in Nat /\ DOMAIN bodies = 1 .. Len(bodies)
  BY BodiesCounted DEF CodeInv, EngineInv
<1>4. job.phase = "relocate" => Len(bodies) > 0
  BY DEF CodeInv, EngineInv, TypeInv, JobShape
<1>5. job.phase = "relocate" => bodies[Len(bodies)].fn = job.fn
  BY <1>2, <1>3, <1>4 DEF CodeInv, EngineInv, TablesInv, RecordInv
<1>6. job.phase = "relocate" => bodies[Len(bodies)].state = "emitting"
  BY <1>3, <1>4 DEF CodeInv, ReadyInv, EmittingInv
<1> QED
  BY <1>1, <1>2, <1>3, <1>4, <1>5, <1>6

\* A function with finished code that is known is on record.
LEMMA FinishedIsOnRecord ==
  ASSUME EngineAssumption, CodeInv, NEW g \in Functions \ External, NEW a,
         a \in CodeFor(g, Len(bodies))
  PROVE  EmittedFunctions[g] # 0
<1>1. PICK i \in 1 .. Len(bodies) : bodies[i].fn = g /\ bodies[i].state = "finished"
  BY CodeForFacts
<1>2. i \in Live
  BY <1>1, BodiesCounted DEF CodeInv, EngineInv, Live, Freed
<1> QED
  BY <1>1, <1>2 DEF CodeInv, EngineInv, TablesInv, NoBodyIsLost

LEMMA NextPendingReady ==
  ASSUME EngineAssumption, CodeInv, NEW t \in Threads, NextPending(t)
  PROVE  ReadyInv'
<1>1. TypeInv /\ LockInv /\ ReadyInv /\ PendingFunctions \in Seq(Functions \ External)
  BY DEF CodeInv, EngineInv, TypeInv, TypeOK, TablesInv
<1>2. PICK n : n = Len(PendingFunctions)
  OBVIOUS
<1>3. PICK f : f = PendingFunctions[n]
  OBVIOUS
<1>4. /\ lock = t /\ At(t, "compiling") /\ job.phase = "next" /\ n > 0
      /\ job' = Job(f, TRUE) /\ PendingFunctions' = SubSeq(PendingFunctions, 1, n - 1)
      /\ UNCHANGED <<GlobalAddressMap, stub, EmittedFunctions, bodies, lock, thread>>
  BY <1>2, <1>3 DEF NextPending, Compiles
<1>5. job'.fn = f /\ job'.phase = "start" /\ job'.pending = TRUE
  BY <1>4, Jobs
<1>6. /\ n \in Nat /\ DOMAIN PendingFunctions = 1 .. n /\ DOMAIN PendingFunctions' = 1 .. n - 1
      /\ \A i \in 1 .. n - 1 : PendingFunctions'[i] = PendingFunctions[i]
  BY <1>1, <1>2, <1>4
<1>7. Waiting' = Waiting
  <2>1. Waiting = {PendingFunctions[i] : i \in 1 .. n}
    BY <1>4, <1>6 DEF Waiting
  <2>2. Waiting' = {PendingFunctions[i] : i \in 1 .. n - 1} \cup {f}
    BY <1>5, <1>6 DEF Waiting
  <2>3. 1 .. n = (1 .. n - 1) \cup {n}
    BY <1>4, <1>6
  <2> QED
    BY <1>3, <2>1, <2>2, <2>3
<1>8. (\A g, m : CodeFor(g, m)' = CodeFor(g, m)) /\ (\A a, g, m : Arrives(a, g, m)' <=> Arrives(a, g, m))
  BY <1>4, CodeForStays, ArrivesStays
<1>9. EmittingInv' /\ CallsInv'
  BY <1>1, <1>4, <1>5, <1>8 DEF ReadyInv, EmittingInv, CallsInv, Live, Freed
<1>10. StubInv'
  BY <1>1, <1>4, <1>5, <1>7, <1>8 DEF ReadyInv, StubInv
<1>11. KnownInv'
  BY <1>1, <1>4, <1>8 DEF ReadyInv, KnownInv
<1>12. AskedInv'
  BY <1>1, <1>4, <1>5, <1>8 DEF ReadyInv, AskedInv, Asked
<1>13. ThreadInv' /\ HeldInv' /\ ResolveInv' /\ UnreferencedInv'
  <2>1. Len(bodies) \in Nat /\ \A u \in Threads : ~At(u, "unmapped")
    BY <1>4, CompilingFacts
  <2>2. \A m : Complete(m) => Complete(m)'
    BY <1>4, <1>5, <1>8 DEF Complete, Live, Freed
  <2> QED
    BY <1>1, <1>4, <1>8, <2>1, <2>2, SessionReady
<1> QED
  BY <1>9, <1>10, <1>11, <1>12, <1>13 DEF ReadyInv
LEMMA StartReady ==
  ASSUME EngineAssumption, CodeInv, NEW t \in Threads, startFunction(t)
  PROVE  ReadyInv'
<1>1. TypeInv /\ LockInv /\ ReadyInv /\ RecordInv /\ bodies \in Seq(BodyState)
      /\ GlobalAddressMap \in [Functions -> Address] /\ job \in JobState
  BY DEF CodeInv, EngineInv, TypeInv, TypeOK, TablesInv, JobState
<1>2. PICK f : f = job.fn
  OBVIOUS
<1>3. PICK i : i = Len(bodies) + 1
  OBVIOUS
<1>4. PICK b : b = [fn |-> f, state |-> "emitting", calls |-> [g \in Functions |-> Null]]
  OBVIOUS
<1>5. /\ lock = t /\ At(t, "compiling") /\ job.phase = "start"
      /\ bodies' = Append(bodies, b)
      /\ GlobalAddressMap' = [GlobalAddressMap EXCEPT ![f] = Body(i)]
      /\ job' = [job EXCEPT !.phase = "relocate", !.todo = Calls[f]]
      /\ UNCHANGED <<stub, PendingFunctions, lock, thread>>
  BY <1>2, <1>3, <1>4 DEF startFunction, Compiles, updateGlobalMapping
<1>6. /\ \A u \in Threads : ~At(u, "unmapped")
      /\ f \in Functions \ External /\ Asked \in Functions \ External
      /\ Len(bodies) \in Nat /\ DOMAIN bodies = 1 .. Len(bodies)
  BY <1>2, <1>5, CompilingFacts
<1>7. b.fn = f /\ b.state = "emitting"
  BY <1>4
<1>8. /\ Len(bodies') = i /\ DOMAIN bodies' = 1 .. i
      /\ bodies'[i] = b /\ \A j \in 1 .. Len(bodies) : bodies'[j] = bodies[j]
  BY <1>1, <1>3, <1>5, <1>6
<1>9. job'.phase = "relocate" /\ job'.todo = Calls[f] /\ job'.fn = f /\ job'.pending = job.pending
  BY <1>1, <1>2, <1>5 DEF JobState
<1>10. \A g : \A n \in 0 .. Len(bodies) : CodeFor(g, n) \subseteq CodeFor(g, n)'
  <2>1. \A j \in 1 .. Len(bodies) : bodies'[j] = bodies[j]
    BY <1>8
  <2> QED
    BY <1>6, <2>1 DEF CodeFor
<1>11. \A g : CodeFor(g, Len(bodies)) \subseteq CodeFor(g, i)'
  <2>1. Len(bodies) \in Nat /\ i \in Nat /\ Len(bodies) <= i
    BY <1>3, <1>6
  <2>2. \A j \in 1 .. Len(bodies) : bodies[j].state = "finished" =>
          bodies'[j].fn = bodies[j].fn /\ bodies'[j].state = "finished"
    BY <1>8
  <2> QED
    BY <1>8, <2>1, <2>2 DEF CodeFor
<1>12. EmittingInv'
  <2>1. \A j \in 1 .. Len(bodies) : bodies[j].state # "emitting"
    BY <1>1, <1>5, <1>6 DEF ReadyInv, EmittingInv
  <2>2. \A j \in 1 .. i : j = i \/ j \in 1 .. Len(bodies)
    BY <1>3, <1>6
  <2>3. \A j \in 1 .. Len(bodies) : j # i
    BY <1>3, <1>6
  <2> QED
    BY <1>7, <1>8, <1>9, <2>1, <2>2, <2>3 DEF EmittingInv
<1>13. StubInv'
  <2>1. Waiting' = Waiting
    BY <1>2, <1>5, <1>9 DEF Waiting
  <2> QED
    BY <1>1, <1>5, <1>8, <1>9, <1>11, <2>1 DEF ReadyInv, StubInv
<1>14. KnownInv'
  <2>1. \A g \in Functions \ {f} : GlobalAddressMap'[g] = GlobalAddressMap[g]
    BY <1>1, <1>5
  <2> QED
    BY <1>1, <1>2, <1>5, <1>8, <1>9, <1>11, <2>1 DEF ReadyInv, KnownInv
<1>15. AskedInv'
  <2>1. Asked' = Asked
    BY <1>5 DEF Asked
  <2>2. CASE ~job.pending
    BY <1>1, <1>2, <1>5, <1>6, <1>9, <2>1, <2>2 DEF ReadyInv, AskedInv
  <2>3. CASE job.pending
    <3>1. GlobalAddressMap[Asked] \in CodeFor(Asked, Len(bodies))
      BY <1>1, <1>5, <2>3 DEF ReadyInv, AskedInv
    <3>2. EmittedFunctions[Asked] # 0
      BY <1>6, <3>1, FinishedIsOnRecord
    <3>3. Asked # f
      BY <1>1, <1>2, <1>5, <3>2 DEF RecordInv
    <3>4. GlobalAddressMap'[Asked] = GlobalAddressMap[Asked]
      BY <1>1, <1>5, <1>6, <3>3
    <3> QED
      BY <1>1, <1>2, <1>5, <1>6, <1>8, <1>9, <1>11, <2>1, <2>3, <3>1, <3>4 DEF AskedInv
  <2> QED
    BY <2>2, <2>3
<1>16. CallsInv'
  <2>1. SUFFICES ASSUME NEW j \in Live', NEW g \in Calls[bodies'[j].fn]
                 PROVE  \/ bodies'[j].calls[g] \in CodeFor(g, i)'
                        \/ bodies'[j].calls[g] = Stub(g) /\ stub[g] # NoStub
                        \/ j = i /\ g \in Calls[f]
    BY <1>5, <1>8, <1>9, <2>1 DEF CallsInv
  <2>2. CASE j = i
    BY <1>7, <1>8, <2>1, <2>2
  <2>3. CASE j # i
    <3>1. j \in Live /\ bodies'[j] = bodies[j]
      BY <1>3, <1>6, <1>8, <2>3 DEF Live, Freed
    <3>2. \/ bodies[j].calls[g] \in CodeFor(g, Len(bodies))
          \/ bodies[j].calls[g] = Stub(g) /\ stub[g] # NoStub
      BY <1>1, <1>5, <2>1, <3>1 DEF ReadyInv, CallsInv
    <3> QED
      BY <1>11, <3>1, <3>2
  <2> QED
    BY <2>2, <2>3
<1>17. ASSUME NEW n \in 0 .. Len(bodies), Complete(n)
       PROVE  Complete(n)'
  <2>1. \A g : CodeFor(g, n) \subseteq CodeFor(g, n)'
    BY <1>10
  <2>2. \A a, g : Arrives(a, g, n) => Arrives(a, g, n)'
    BY <1>5, <2>1, ArrivesGrows
  <2>3. \A j \in Live' : j <= n => j \in Live /\ bodies'[j] = bodies[j]
    BY <1>3, <1>6, <1>8 DEF Live, Freed
  <2>4. n < i /\ n \in Nat
    BY <1>3, <1>6
  <2>5. ASSUME NEW j \in Live', j <= n, NEW g \in Calls[bodies[j].fn]
        PROVE  \/ bodies[j].calls[g] \in CodeFor(g, n)'
               \/ /\ bodies[j].calls[g] = Stub(g)
                  /\ stub'[g] \in CodeFor(g, n)' \cup {Resolver, Torn}
    <3>1. PICK a : a = bodies[j].calls[g]
      OBVIOUS
    <3>2. Arrives(a, g, n)'
      BY <1>17, <2>2, <2>3, <2>5, <3>1 DEF Complete
    <3> QED
      BY <3>1, <3>2 DEF Arrives
  <2> QED
    BY <1>8, <1>9, <2>3, <2>4, <2>5 DEF Complete, Arrives
<1>18. ThreadInv' /\ HeldInv' /\ ResolveInv' /\ UnreferencedInv'
  <2>1. Len(bodies) <= Len(bodies') /\ Len(bodies') \in Nat
    BY <1>3, <1>6, <1>8
  <2> QED
    BY <1>1, <1>5, <1>6, <1>10, <1>17, <2>1, SessionReady
<1> QED
  BY <1>12, <1>13, <1>14, <1>15, <1>16, <1>18 DEF ReadyInv

LEMMA RetryReady ==
  ASSUME EngineAssumption, CodeInv, NEW t \in Threads, retryWithMoreMemory(t)
  PROVE  ReadyInv'
<1>1. TypeInv /\ LockInv /\ ReadyInv /\ bodies \in Seq(BodyState)
  BY DEF CodeInv, EngineInv, TypeInv, TypeOK, TablesInv
<1>2. PICK i : i = Len(bodies)
  OBVIOUS
<1>3. /\ lock = t /\ At(t, "compiling") /\ job.phase = "relocate"
      /\ bodies' = [bodies EXCEPT ![i].state = "freed"]
      /\ job' = Job(job.fn, job.pending)
      /\ UNCHANGED <<GlobalAddressMap, stub, PendingFunctions, lock, thread>>
  BY <1>2 DEF retryWithMoreMemory, Compiles
<1>4. /\ \A u \in Threads : ~At(u, "unmapped")
      /\ i \in Nat /\ DOMAIN bodies = 1 .. i /\ i \in 1 .. i /\ bodies[i].state = "emitting"
  BY <1>2, <1>3, CompilingFacts
<1>5. /\ Len(bodies') = i /\ DOMAIN bodies' = 1 .. i
      /\ \A j \in 1 .. i : /\ bodies'[j].fn = bodies[j].fn
                           /\ bodies'[j].calls = bodies[j].calls
                           /\ bodies'[j].state = IF j = i THEN "freed" ELSE bodies[j].state
  BY <1>1, <1>2, <1>3, <1>4 DEF BodyState
<1>6. job'.fn = job.fn /\ job'.phase = "start" /\ job'.pending = job.pending
  BY <1>3, Jobs
<1>7. \A g : \A n \in 0 .. i : CodeFor(g, n) \subseteq CodeFor(g, n)'
  <2>1. \A j \in 1 .. i : bodies[j].state = "finished" =>
          bodies'[j].fn = bodies[j].fn /\ bodies'[j].state = "finished"
    BY <1>4, <1>5
  <2> QED
    BY <1>4, <2>1 DEF CodeFor
<1>8. \A g : CodeFor(g, i) \subseteq CodeFor(g, i)'
  BY <1>4, <1>7
<1>9. Live' = Live \ {i}
  BY <1>4, <1>5 DEF Live, Freed
<1>10. EmittingInv'
  BY <1>1, <1>2, <1>3, <1>4, <1>5, <1>6 DEF ReadyInv, EmittingInv
<1>11. StubInv'
  <2>1. Waiting' = Waiting
    BY <1>3, <1>6 DEF Waiting
  <2> QED
    BY <1>1, <1>2, <1>3, <1>5, <1>6, <1>8, <2>1 DEF ReadyInv, StubInv
<1>12. KnownInv'
  BY <1>1, <1>2, <1>3, <1>5, <1>6, <1>8 DEF ReadyInv, KnownInv
<1>13. AskedInv'
  BY <1>1, <1>2, <1>3, <1>5, <1>6, <1>8 DEF ReadyInv, AskedInv, Asked
<1>14. CallsInv'
  <2>1. \A j \in Live' : bodies'[j].fn = bodies[j].fn /\ bodies'[j].calls = bodies[j].calls
    BY <1>4, <1>5, <1>9 DEF Live
  <2>2. ASSUME NEW j \in Live', NEW g \in Calls[bodies[j].fn]
        PROVE  \/ bodies[j].calls[g] \in CodeFor(g, i)'
               \/ bodies[j].calls[g] = Stub(g) /\ stub[g] # NoStub
    BY <1>1, <1>2, <1>8, <1>9, <2>2 DEF ReadyInv, CallsInv
  <2> QED
    BY <1>3, <1>5, <2>1, <2>2 DEF CallsInv
<1>15. ASSUME NEW n \in 0 .. i, Complete(n)
       PROVE  Complete(n)'
  <2>1. \A g : CodeFor(g, n) \subseteq CodeFor(g, n)'
    BY <1>7
  <2>2. \A a, g : Arrives(a, g, n) => Arrives(a, g, n)'
    BY <1>3, <2>1, ArrivesGrows
  <2>3. \A j \in Live' : /\ j \in Live /\ bodies'[j].fn = bodies[j].fn
                         /\ bodies'[j].calls = bodies[j].calls
    BY <1>4, <1>5, <1>9 DEF Live
  <2>4. ASSUME NEW j \in Live', j <= n, NEW g \in Calls[bodies[j].fn]
        PROVE  \/ bodies[j].calls[g] \in CodeFor(g, n)'
               \/ /\ bodies[j].calls[g] = Stub(g)
                  /\ stub'[g] \in CodeFor(g, n)' \cup {Resolver, Torn}
    <3>1. PICK a : a = bodies[j].calls[g]
      OBVIOUS
    <3>2. Arrives(a, g, n)'
      BY <1>15, <2>2, <2>3, <2>4, <3>1 DEF Complete
    <3> QED
      BY <3>1, <3>2 DEF Arrives
  <2> QED
    BY <1>6, <2>3, <2>4 DEF Complete, Arrives
<1>16. ThreadInv' /\ HeldInv' /\ ResolveInv' /\ UnreferencedInv'
  BY <1>1, <1>2, <1>3, <1>4, <1>5, <1>7, <1>15, SessionReady
<1> QED
  BY <1>10, <1>11, <1>12, <1>13, <1>14, <1>16 DEF ReadyInv

LEMMA FinishReady ==
  ASSUME EngineAssumption, CodeInv, NEW t \in Threads, finishFunction(t)
  PROVE  ReadyInv'
<1>1. /\ TypeInv /\ LockInv /\ ReadyInv /\ RecordInv
      /\ bodies \in Seq(BodyState) /\ job \in JobState
  BY DEF CodeInv, EngineInv, TypeInv, TypeOK, TablesInv, JobState
<1>2. PICK i : i = Len(bodies)
  OBVIOUS
<1>3. PICK f : f = job.fn
  OBVIOUS
<1>4. /\ lock = t /\ At(t, "compiling") /\ job.phase = "relocate" /\ job.todo = {}
      /\ bodies' = [bodies EXCEPT ![i].state = "finished"]
      /\ job' = [job EXCEPT !.phase = IF job.pending THEN "fill" ELSE "next"]
      /\ UNCHANGED <<GlobalAddressMap, stub, PendingFunctions, lock, thread>>
  BY <1>2 DEF finishFunction, Compiles
<1>5. /\ \A u \in Threads : ~At(u, "unmapped")
      /\ i \in Nat /\ DOMAIN bodies = 1 .. i /\ i \in 1 .. i /\ bodies[i].state = "emitting"
      /\ bodies[i].fn = f /\ f \in Functions \ External /\ Asked \in Functions \ External
  BY <1>2, <1>3, <1>4, CompilingFacts
<1>6. /\ Len(bodies') = i /\ DOMAIN bodies' = 1 .. i
      /\ \A j \in 1 .. i : /\ bodies'[j].fn = bodies[j].fn
                           /\ bodies'[j].calls = bodies[j].calls
                           /\ bodies'[j].state = IF j = i THEN "finished" ELSE bodies[j].state
  BY <1>1, <1>2, <1>4, <1>5 DEF BodyState
<1>7. /\ job'.fn = f /\ job'.pending = job.pending
      /\ job'.phase = IF job.pending THEN "fill" ELSE "next"
  BY <1>1, <1>3, <1>4 DEF JobState
<1>8. \A g : \A n \in 0 .. i : CodeFor(g, n) \subseteq CodeFor(g, n)'
  <2>1. \A j \in 1 .. i : bodies[j].state = "finished" =>
          bodies'[j].fn = bodies[j].fn /\ bodies'[j].state = "finished"
    BY <1>5, <1>6
  <2> QED
    BY <1>5, <2>1 DEF CodeFor
<1>9. \A g : CodeFor(g, i) \subseteq CodeFor(g, i)'
  BY <1>5, <1>8
<1>10. Body(i) \in CodeFor(f, i)' /\ GlobalAddressMap[f] = Body(i)
  BY <1>1, <1>2, <1>3, <1>4, <1>5, <1>6 DEF CodeFor, RecordInv
<1>11. Live' = Live
  BY <1>5, <1>6 DEF Live, Freed
<1>12. EmittingInv'
  BY <1>1, <1>2, <1>4, <1>5, <1>6, <1>7 DEF ReadyInv, EmittingInv
<1>13. StubInv'
  <2>1. Waiting' = Waiting
    BY <1>3, <1>4, <1>7 DEF Waiting
  <2> QED
    BY <1>1, <1>2, <1>4, <1>6, <1>7, <1>9, <2>1 DEF ReadyInv, StubInv
<1>14. KnownInv'
  BY <1>1, <1>2, <1>3, <1>4, <1>6, <1>9, <1>10 DEF ReadyInv, KnownInv
<1>15. AskedInv'
  <2>1. PICK q : q = Asked
    OBVIOUS
  <2>2. Asked' = q
    BY <1>4, <2>1 DEF Asked
  <2>3. GlobalAddressMap[q] \in CodeFor(q, i)'
    <3>1. CASE ~job.pending
      <4>1. q = f
        BY <1>1, <1>3, <1>4, <2>1, <3>1 DEF ReadyInv, AskedInv
      <4> QED
        BY <1>10, <4>1
    <3>2. CASE job.pending
      <4>1. GlobalAddressMap[q] \in CodeFor(q, i)
        BY <1>1, <1>2, <1>4, <2>1, <3>2 DEF ReadyInv, AskedInv
      <4> QED
        BY <1>9, <4>1
    <3> QED
      BY <3>1, <3>2
  <2>4. job'.phase = "fill" => job'.pending /\ GlobalAddressMap[f] \in CodeFor(f, i)'
    BY <1>7, <1>10
  <2> QED
    BY <1>4, <1>5, <1>6, <1>7, <2>1, <2>2, <2>3, <2>4 DEF AskedInv
<1>16. CallsInv'
  <2>1. \A j \in Live' : bodies'[j].fn = bodies[j].fn /\ bodies'[j].calls = bodies[j].calls
    BY <1>5, <1>6, <1>11 DEF Live
  <2>2. ASSUME NEW j \in Live, NEW g \in Calls[bodies[j].fn]
        PROVE  \/ bodies[j].calls[g] \in CodeFor(g, i)'
               \/ bodies[j].calls[g] = Stub(g) /\ stub[g] # NoStub
    BY <1>1, <1>2, <1>3, <1>4, <1>9, <1>10 DEF ReadyInv, CallsInv
  <2> QED
    BY <1>4, <1>6, <1>11, <2>1, <2>2 DEF CallsInv
<1>17. ASSUME NEW n \in 0 .. i, Complete(n)
       PROVE  Complete(n)'
  <2>1. \A g : CodeFor(g, n) \subseteq CodeFor(g, n)'
    BY <1>8
  <2>2. \A a, g : Arrives(a, g, n) => Arrives(a, g, n)'
    BY <1>4, <2>1, ArrivesGrows
  <2>3. \A j \in Live' : /\ j \in Live /\ bodies'[j].fn = bodies[j].fn
                         /\ bodies'[j].calls = bodies[j].calls
    BY <1>5, <1>6, <1>11 DEF Live
  <2>4. ASSUME NEW j \in Live', j <= n, NEW g \in Calls[bodies[j].fn]
        PROVE  \/ bodies[j].calls[g] \in CodeFor(g, n)'
               \/ /\ bodies[j].calls[g] = Stub(g)
                  /\ stub'[g] \in CodeFor(g, n)' \cup {Resolver, Torn}
    <3>1. PICK a : a = bodies[j].calls[g]
      OBVIOUS
    <3>2. Arrives(a, g, n)'
      BY <1>17, <2>2, <2>3, <2>4, <3>1 DEF Complete
    <3> QED
      BY <3>1, <3>2 DEF Arrives
  <2> QED
    BY <1>7, <2>3, <2>4 DEF Complete, Arrives
<1>18. ThreadInv' /\ HeldInv' /\ ResolveInv' /\ UnreferencedInv'
  BY <1>1, <1>2, <1>4, <1>5, <1>6, <1>8, <1>17, SessionReady
<1> QED
  BY <1>12, <1>13, <1>14, <1>15, <1>16, <1>18 DEF ReadyInv

LEMMA FillReady ==
  ASSUME EngineAssumption, CodeInv, NEW t \in Threads, updateFunctionStub(t)
  PROVE  ReadyInv'
<1>1. /\ TypeInv /\ LockInv /\ ReadyInv /\ PendingInv /\ job \in JobState
      /\ stub \in [Functions -> Address \cup {NoStub, Resolver, Torn}]
  BY DEF CodeInv, EngineInv, TypeInv, TypeOK, TablesInv, JobState
<1>2. PICK f : f = job.fn
  OBVIOUS
<1>3. PICK a : a = GlobalAddressMap[f]
  OBVIOUS
<1>4. /\ lock = t /\ At(t, "compiling") /\ job.phase = "fill"
      /\ stub' = [stub EXCEPT ![f] = a]
      /\ job' = [job EXCEPT !.phase = "next"]
      /\ UNCHANGED <<GlobalAddressMap, EmittedFunctions, bodies, PendingFunctions, lock, thread>>
  BY <1>2, <1>3 DEF updateFunctionStub, Compiles
<1>5. /\ \A u \in Threads : ~At(u, "unmapped")
      /\ Len(bodies) \in Nat /\ f \in Functions \ External
  BY <1>2, <1>4, CompilingFacts
<1>6. a \in CodeFor(f, Len(bodies)) /\ job.pending
  BY <1>1, <1>2, <1>3, <1>4 DEF ReadyInv, AskedInv
<1>7. job'.fn = f /\ job'.phase = "next" /\ job'.pending = job.pending
  BY <1>1, <1>2, <1>4 DEF JobState
<1>8. stub'[f] = a /\ \A g : g # f => stub'[g] = stub[g]
  BY <1>1, <1>4, <1>5
<1>9. a \notin {NoStub, Null, Resolver, Torn}
  BY <1>6, CodeForFacts
<1>10. Waiting' = Waiting \ {f} /\ f \in Waiting
  <2>1. \A i \in DOMAIN PendingFunctions : PendingFunctions[i] # f
    BY <1>1, <1>5, <1>6, FinishedIsOnRecord DEF PendingInv
  <2> QED
    BY <1>2, <1>4, <1>6, <1>7, <2>1 DEF Waiting
<1>11. stub[f] = Null
  BY <1>1, <1>5, <1>10 DEF ReadyInv, StubInv
<1>12. \A g, n : CodeFor(g, n)' = CodeFor(g, n)
  BY <1>4, CodeForStays
<1>13. \A g : stub[g] \notin {NoStub, Null} => stub'[g] = stub[g]
  BY <1>8, <1>11
<1>14. EmittingInv'
  BY <1>1, <1>4, <1>7 DEF ReadyInv, EmittingInv
<1>15. StubInv'
  BY <1>1, <1>4, <1>6, <1>7, <1>8, <1>9, <1>10, <1>12 DEF ReadyInv, StubInv
<1>16. KnownInv'
  BY <1>1, <1>3, <1>4, <1>6, <1>8, <1>12 DEF ReadyInv, KnownInv
<1>17. AskedInv'
  BY <1>1, <1>4, <1>7, <1>12 DEF ReadyInv, AskedInv, Asked
<1>18. CallsInv'
  <2>1. \A g : stub[g] # NoStub => stub'[g] # NoStub
    BY <1>8, <1>9
  <2> QED
    BY <1>1, <1>4, <1>7, <1>12, <2>1 DEF ReadyInv, CallsInv, Live, Freed
<1>19. ASSUME NEW n, Complete(n)
       PROVE  Complete(n)'
  <2>1. \A b, g : Arrives(b, g, n) => Arrives(b, g, n)'
    BY <1>12, <1>13, ArrivesGrows
  <2> QED
    BY <1>4, <1>7, <1>19, <2>1 DEF Complete, Live, Freed
<1>20. ThreadInv' /\ HeldInv' /\ ResolveInv' /\ UnreferencedInv'
  <2>1. \A g \in Functions : stub'[g] # Torn \/ stub'[g] = stub[g]
    BY <1>8, <1>9
  <2> QED
    BY <1>1, <1>4, <1>5, <1>12, <1>13, <1>19, <2>1, SessionReady
<1> QED
  BY <1>14, <1>15, <1>16, <1>17, <1>18, <1>20 DEF ReadyInv
\* A stub that is made leads to the function's code, or to the resolver, or is
\* empty and on the work list.
LEMMA StubMadeReady ==
  ASSUME EngineAssumption, CodeInv, NEW g \in Functions, getLazyFunctionStub(g),
         job.phase = "none" => Lazy,
         \A h : CodeFor(h, Len(bodies))' = CodeFor(h, Len(bodies)),
         job'.fn = job.fn, job'.phase = job.phase, job'.pending = job.pending
  PROVE  /\ StubInv' /\ KnownInv'
         /\ \A h : stub[h] \notin {NoStub, Null} => stub'[h] = stub[h]
         /\ \A h \in Functions : stub'[h] # Torn \/ stub'[h] = stub[h]
         /\ \A h : stub[h] # NoStub => stub'[h] # NoStub
         /\ stub'[g] # NoStub
         /\ \A h \in Functions \ {g} : GlobalAddressMap'[h] = GlobalAddressMap[h]
         /\ stub[g] # NoStub => GlobalAddressMap'[g] = GlobalAddressMap[g]
<1>1. /\ TypeInv /\ ReadyInv /\ GlobalAddressMap \in [Functions -> Address]
      /\ stub \in [Functions -> Address \cup {NoStub, Resolver, Torn}]
      /\ PendingFunctions \in Seq(Functions \ External)
  BY DEF CodeInv, EngineInv, TypeInv, TypeOK
<1>2. CASE stub[g] # NoStub
  <2>1. UNCHANGED <<stub, GlobalAddressMap, PendingFunctions>>
    BY <1>2 DEF getLazyFunctionStub
  <2>2. Waiting' = Waiting
    BY <2>1 DEF Waiting
  <2>3. StubInv' /\ KnownInv'
    BY <1>1, <2>1, <2>2 DEF ReadyInv, StubInv, KnownInv
  <2> QED
    BY <1>2, <2>1, <2>3
<1>3. CASE stub[g] = NoStub
  <2>1. PICK a : a = NewStub(g)
    OBVIOUS
  <2>2. /\ stub' = [stub EXCEPT ![g] = a]
        /\ a = Resolver => UNCHANGED GlobalAddressMap
        /\ a # Resolver => GlobalAddressMap' = [GlobalAddressMap EXCEPT ![g] = Stub(g)]
        /\ PendingFunctions' = IF a = Null THEN Append(PendingFunctions, g) ELSE PendingFunctions
    BY <1>3, <2>1 DEF getLazyFunctionStub, updateGlobalMapping
  <2>3. stub'[g] = a /\ \A h : h # g => stub'[h] = stub[h]
    BY <1>1, <2>2
  <2>4. /\ \A h \in Functions \ {g} : GlobalAddressMap'[h] = GlobalAddressMap[h]
        /\ a = Resolver => GlobalAddressMap'[g] = GlobalAddressMap[g]
        /\ a # Resolver => GlobalAddressMap'[g] = Stub(g)
    BY <1>1, <2>2
  <2>5. g \in External => GlobalAddressMap[g] \in CodeFor(g, Len(bodies)) \cup {Null}
    <3>1. job.phase \in {"start", "relocate"} => job.fn \notin External
      BY <1>1 DEF TypeInv, JobShape
    <3> QED
      BY <1>1, <1>3, <3>1 DEF ReadyInv, KnownInv
  <2>6. /\ g \in External => a \in CodeFor(g, Len(bodies))
        /\ g \notin External /\ Lazy => a = Resolver
        /\ g \notin External /\ ~Lazy => a = Null
    <3>1. g \in External => Native(g) \in CodeFor(g, Len(bodies))
      BY CodeForFacts
    <3> QED
      BY <2>1, <2>5, <3>1 DEF NewStub, EngineAssumption
  <2>7. a \notin {NoStub, Torn} /\ (a = Null <=> g \notin External /\ ~Lazy)
    BY <2>6, CodeForFacts, Kinds DEF EngineAssumption
  <2>8. Waiting' = IF a = Null THEN Waiting \cup {g} ELSE Waiting
    <3>1. CASE a # Null
      BY <2>2, <3>1 DEF Waiting
    <3>2. CASE a = Null
      <4>1. PICK n : n = Len(PendingFunctions)
        OBVIOUS
      <4>2. n \in Nat /\ DOMAIN PendingFunctions = 1 .. n
        BY <1>1, <4>1
      <4>3. /\ DOMAIN PendingFunctions' = 1 .. n + 1 /\ PendingFunctions'[n + 1] = g
            /\ \A k \in 1 .. n : PendingFunctions'[k] = PendingFunctions[k]
        BY <1>1, <2>2, <3>2, <4>1, <4>2, AppendProperties
      <4>4. 1 .. n + 1 = (1 .. n) \cup {n + 1}
        BY <4>2
      <4>5. {PendingFunctions'[k] : k \in 1 .. n + 1} = {PendingFunctions[k] : k \in 1 .. n} \cup {g}
        BY <4>3, <4>4
      <4> QED
        BY <3>2, <4>2, <4>3, <4>5 DEF Waiting
    <3> QED
      BY <3>1, <3>2
  <2>9. g \notin Waiting
    BY <1>1, <1>3, Kinds DEF ReadyInv, StubInv
  <2>10. StubInv'
    <3>1. ASSUME NEW h \in Functions
          PROVE  /\ stub'[h] \in CodeFor(h, Len(bodies)) \cup {NoStub, Null, Resolver, Torn}
                 /\ stub'[h] = Null <=> h \in Waiting'
      <4>1. CASE h = g
        BY <2>3, <2>6, <2>8, <2>9, <4>1 DEF EngineAssumption
      <4>2. CASE h # g
        BY <1>1, <2>3, <2>8, <4>2 DEF ReadyInv, StubInv
      <4> QED
        BY <4>1, <4>2
    <3>2. Lazy => Waiting' = {}
      BY <1>1, <2>7, <2>8 DEF ReadyInv, StubInv
    <3>3. job'.phase = "none" => PendingFunctions' = <<>>
      BY <1>1, <2>2, <2>7 DEF ReadyInv, StubInv
    <3> QED
      BY <3>1, <3>2, <3>3 DEF StubInv
  <2>11. KnownInv'
    <3>1. ASSUME NEW h \in Functions
          PROVE  \/ job.phase \in {"start", "relocate"} /\ h = job.fn
                 \/ GlobalAddressMap'[h] \in CodeFor(h, Len(bodies)) \cup {Null}
                 \/ GlobalAddressMap'[h] = Stub(h) /\ stub'[h] \notin {NoStub, Resolver, Torn}
      <4>1. CASE h = g /\ a # Resolver
        BY <2>3, <2>4, <2>7, <4>1
      <4>2. CASE h = g /\ a = Resolver
        BY <1>1, <1>3, <2>4, <4>2 DEF ReadyInv, KnownInv
      <4>3. CASE h # g
        BY <1>1, <2>3, <2>4, <4>3 DEF ReadyInv, KnownInv
      <4> QED
        BY <4>1, <4>2, <4>3
    <3> QED
      BY <3>1 DEF KnownInv
  <2>12. /\ \A h : stub[h] \notin {NoStub, Null} => stub'[h] = stub[h]
         /\ \A h \in Functions : stub'[h] # Torn \/ stub'[h] = stub[h]
         /\ \A h : stub[h] # NoStub => stub'[h] # NoStub
         /\ stub'[g] # NoStub
    BY <1>3, <2>3, <2>7
  <2> QED
    BY <1>3, <2>4, <2>10, <2>11, <2>12
<1> QED
  BY <1>2, <1>3

\* Relocating a call leaves the code that is finished alone.
LEMMA BindsOnly ==
  ASSUME TypeInv, job.phase = "relocate", NEW g \in Functions, NEW a, Bind(g, a)
  PROVE  (\A h : CodeFor(h, Len(bodies))' = CodeFor(h, Len(bodies))) /\ Len(bodies') = Len(bodies)
<1>1. /\ bodies \in Seq(BodyState) /\ DOMAIN bodies = 1 .. Len(bodies)
      /\ Len(bodies) \in 1 .. Len(bodies)
  BY BodiesCounted DEF TypeInv, TypeOK, JobShape
<1>2. PICK i : i = Len(bodies)
  OBVIOUS
<1>3. bodies' = [bodies EXCEPT ![i].calls[g] = a]
  BY <1>2 DEF Bind
<1>4. /\ Len(bodies') = Len(bodies)
      /\ \A j \in 1 .. i : bodies'[j].fn = bodies[j].fn /\ bodies'[j].state = bodies[j].state
  BY <1>1, <1>2, <1>3 DEF BodyState
<1>5. \A h : CodeFor(h, i)' = CodeFor(h, i)
  BY <1>4 DEF CodeFor
<1> QED
  BY <1>2, <1>4, <1>5

\* A call of the body that is being emitted is relocated: to code, to a stub,
\* or to the body itself.
LEMMA BindReady ==
  ASSUME EngineAssumption, CodeInv, NEW t \in Threads, NEW g \in Functions, NEW a \in Address,
         lock = t, At(t, "compiling"), job.phase = "relocate", Bind(g, a),
         UNCHANGED <<lock, thread>>,
         \/ a \in CodeFor(g, Len(bodies))
         \/ a = Stub(g) /\ stub'[g] # NoStub
         \/ g = job.fn /\ a = Body(Len(bodies)),
         StubInv', KnownInv',
         \A h : stub[h] \notin {NoStub, Null} => stub'[h] = stub[h],
         \A h \in Functions : stub'[h] # Torn \/ stub'[h] = stub[h],
         \A h : stub[h] # NoStub => stub'[h] # NoStub,
         \A h \in Functions \ {g} : GlobalAddressMap'[h] = GlobalAddressMap[h],
         GlobalAddressMap'[g] = GlobalAddressMap[g] \/ g \in External \/ GlobalAddressMap[g] = Null
  PROVE  ReadyInv'
<1>1. TypeInv /\ LockInv /\ ReadyInv /\ bodies \in Seq(BodyState) /\ job \in JobState
  BY DEF CodeInv, EngineInv, TypeInv, TypeOK, TablesInv, JobState
<1>2. PICK i : i = Len(bodies)
  OBVIOUS
<1>3. /\ \A u \in Threads : ~At(u, "unmapped")
      /\ i \in Nat /\ DOMAIN bodies = 1 .. i /\ i \in 1 .. i /\ bodies[i].state = "emitting"
      /\ Asked \in Functions \ External
  BY <1>2, CompilingFacts
<1>4. bodies' = [bodies EXCEPT ![i].calls[g] = a] /\ job' = [job EXCEPT !.todo = @ \ {g}]
  BY <1>2 DEF Bind
<1>5. job'.fn = job.fn /\ job'.phase = "relocate" /\ job'.pending = job.pending /\ job'.todo = job.todo \ {g}
  BY <1>1, <1>4 DEF JobState
<1>6. /\ Len(bodies') = i /\ DOMAIN bodies' = 1 .. i
      /\ \A j \in 1 .. i : bodies'[j].fn = bodies[j].fn /\ bodies'[j].state = bodies[j].state
      /\ \A j \in 1 .. i : j # i => bodies'[j] = bodies[j]
      /\ \A h \in Functions : bodies'[i].calls[h] = IF h = g THEN a ELSE bodies[i].calls[h]
  <2>1. /\ Len(bodies') = i /\ DOMAIN bodies' = 1 .. i
        /\ \A j \in 1 .. i : bodies'[j].fn = bodies[j].fn /\ bodies'[j].state = bodies[j].state
    BY <1>1, <1>2, <1>3, <1>4, CallChanges
  <2>2. \A j \in 1 .. i : j # i => bodies'[j] = bodies[j]
    BY <1>3, <1>4
  <2>3. bodies[i] \in BodyState
    BY <1>1, <1>3, BodiesCounted
  <2>4. bodies'[i].calls = [bodies[i].calls EXCEPT ![g] = a]
    BY <1>3, <1>4, <2>3 DEF BodyState
  <2>5. \A h \in Functions : bodies'[i].calls[h] = IF h = g THEN a ELSE bodies[i].calls[h]
    BY <2>3, <2>4 DEF BodyState
  <2> QED
    BY <2>1, <2>2, <2>5
<1>7. \A h : \A n \in 0 .. i : CodeFor(h, n)' = CodeFor(h, n)
  BY <1>3, <1>6 DEF CodeFor
<1>8. \A h : CodeFor(h, i)' = CodeFor(h, i)
  BY <1>3, <1>7
<1>9. Live' = Live
  BY <1>3, <1>6 DEF Live, Freed
<1>10. EmittingInv'
  BY <1>1, <1>2, <1>3, <1>5, <1>6 DEF ReadyInv, EmittingInv
<1>11. AskedInv'
  <2>1. PICK q : q = Asked
    OBVIOUS
  <2>2. Asked' = q
    BY <2>1 DEF Asked
  <2>3. ~job.pending => job.fn = q
    BY <1>1, <2>1 DEF ReadyInv, AskedInv
  <2>4. job.pending => GlobalAddressMap[q] \in CodeFor(q, i)
    BY <1>1, <1>2, <2>1 DEF ReadyInv, AskedInv
  <2>5. job.pending => GlobalAddressMap'[q] \in CodeFor(q, i)
    <3>1. job.pending => GlobalAddressMap[q] # Null
      BY <2>4, CodeForFacts
    <3> QED
      BY <1>3, <2>1, <2>4, <3>1
  <2>6. q \notin External
    BY <1>3, <2>1
  <2> QED
    BY <1>5, <1>6, <1>8, <2>2, <2>3, <2>5, <2>6 DEF AskedInv
<1>12. CallsInv'
  <2>1. SUFFICES ASSUME NEW j \in Live', NEW h \in Calls[bodies'[j].fn]
                 PROVE  \/ bodies'[j].calls[h] \in CodeFor(h, i)'
                        \/ bodies'[j].calls[h] = Stub(h) /\ stub'[h] # NoStub
                        \/ /\ j = i
                           /\ h \notin job'.todo => h = job'.fn /\ bodies'[j].calls[h] = Body(i)
    BY <1>5, <1>6 DEF CallsInv
  <2>2. j \in Live /\ j \in 1 .. i /\ bodies'[j].fn = bodies[j].fn /\ h \in Calls[bodies[j].fn]
    BY <1>3, <1>6, <1>9, <2>1 DEF Live
  <2>3. h \in Functions
    <3>1. bodies[j] \in BodyState
      BY <1>1, <2>2, BodiesCounted DEF Live
    <3> QED
      BY <2>2, <3>1 DEF BodyState, EngineAssumption
  <2>4. \/ bodies[j].calls[h] \in CodeFor(h, i)
        \/ bodies[j].calls[h] = Stub(h) /\ stub[h] # NoStub
        \/ /\ j = i
           /\ h \notin job.todo => h = job.fn /\ bodies[j].calls[h] = Body(i)
    BY <1>1, <1>2, <2>2 DEF ReadyInv, CallsInv
  <2>5. CASE j = i /\ h = g
    <3>1. bodies'[j].calls[h] = a
      BY <1>6, <2>3, <2>5
    <3> QED
      BY <1>2, <1>5, <1>8, <2>5, <3>1
  <2>6. CASE j # i \/ h # g
    <3>1. bodies'[j].calls[h] = bodies[j].calls[h]
      BY <1>6, <2>2, <2>3, <2>6
    <3>2. j = i => (h \notin job'.todo => h \notin job.todo)
      BY <1>5, <2>6
    <3> QED
      BY <1>5, <1>8, <2>4, <3>1, <3>2
  <2> QED
    BY <2>5, <2>6
<1>13. ASSUME NEW n \in 0 .. i, Complete(n)
       PROVE  Complete(n)'
  <2>1. \A h : CodeFor(h, n) \subseteq CodeFor(h, n)'
    BY <1>7
  <2>2. \A b, h : Arrives(b, h, n) => Arrives(b, h, n)'
    BY <2>1, ArrivesGrows
  <2>3. n < i
    BY <1>2, <1>13 DEF Complete
  <2>4. \A j \in Live' : j <= n => j \in Live /\ bodies'[j] = bodies[j]
    BY <1>3, <1>6, <1>9, <2>3 DEF Live
  <2>5. ASSUME NEW j \in Live', j <= n, NEW h \in Calls[bodies[j].fn]
        PROVE  \/ bodies[j].calls[h] \in CodeFor(h, n)'
               \/ /\ bodies[j].calls[h] = Stub(h)
                  /\ stub'[h] \in CodeFor(h, n)' \cup {Resolver, Torn}
    <3>1. PICK b : b = bodies[j].calls[h]
      OBVIOUS
    <3>2. Arrives(b, h, n)'
      BY <1>13, <2>2, <2>4, <2>5, <3>1 DEF Complete
    <3> QED
      BY <3>1, <3>2 DEF Arrives
  <2> QED
    BY <1>5, <1>6, <2>3, <2>4, <2>5 DEF Complete, Arrives
<1>14. ThreadInv' /\ HeldInv' /\ ResolveInv' /\ UnreferencedInv'
  <2>1. \A h : \A n \in 0 .. i : CodeFor(h, n) \subseteq CodeFor(h, n)'
    BY <1>7
  <2> QED
    BY <1>1, <1>2, <1>3, <1>6, <1>13, <2>1, SessionReady
<1> QED
  BY <1>10, <1>11, <1>12, <1>14 DEF ReadyInv

LEMMA RelocateReady ==
  ASSUME EngineAssumption, NearCalls, CodeInv,
         NEW t \in Threads, NEW g \in Functions, Relocate(t, g)
  PROVE  ReadyInv'
<1> DEFINE direct == stub[g] = NoStub /\ g \notin FarCalls
<1>1. /\ TypeInv /\ LockInv /\ ReadyInv /\ RecordInv
      /\ GlobalAddressMap \in [Functions -> Address] /\ job \in JobState
      /\ bodies \in Seq(BodyState)
  BY DEF CodeInv, EngineInv, TypeInv, TypeOK, TablesInv, JobState
<1>2. /\ lock = t /\ At(t, "compiling") /\ job.phase = "relocate"
      /\ UNCHANGED <<lock, thread>>
  BY DEF Relocate, Compiles
<1>3. job.fn \in Functions \ External
  BY <1>2, CompilingFacts
<1>4. \A a : Bind(g, a) => UNCHANGED <<lock, thread>> /\ job'.fn = job.fn
                                /\ job'.phase = job.phase /\ job'.pending = job.pending
  BY <1>1, <1>2 DEF Bind, JobState
<1>5. CASE /\ direct
           /\ GlobalAddressMap[g] # Null
           /\ Bind(g, GlobalAddressMap[g])
           /\ UNCHANGED <<stub, GlobalAddressMap, PendingFunctions>>
  <2>1. PICK a : a = GlobalAddressMap[g]
    OBVIOUS
  <2>2. a \in Address /\ Bind(g, a)
    BY <1>5, <2>1, AddressIsKnown, <1>1
  <2>3. a \in CodeFor(g, Len(bodies)) \/ (g = job.fn /\ a = Body(Len(bodies)))
    BY <1>1, <1>2, <1>5, <2>1 DEF ReadyInv, KnownInv, RecordInv
  <2>4. \A h : CodeFor(h, Len(bodies))' = CodeFor(h, Len(bodies))
    BY <1>1, <1>2, <2>2, BindsOnly
  <2>5. Len(bodies') = Len(bodies) /\ Waiting' = Waiting
    BY <1>1, <1>2, <1>4, <1>5, <2>2, BindsOnly DEF Waiting
  <2>6. StubInv' /\ KnownInv'
    BY <1>1, <1>4, <1>5, <2>2, <2>4, <2>5 DEF ReadyInv, StubInv, KnownInv
  <2> QED
    BY <1>2, <1>5, <2>2, <2>3, <2>6, BindReady
<1>6. CASE /\ direct
           /\ GlobalAddressMap[g] = Null
           /\ g \in External
           /\ addGlobalMapping(g, Native(g))
           /\ Bind(g, Native(g))
           /\ UNCHANGED <<stub, PendingFunctions>>
  <2>1. PICK a : a = Native(g)
    OBVIOUS
  <2>2. a \in Address /\ Bind(g, a) /\ a \in CodeFor(g, Len(bodies))
    BY <1>6, <2>1, AddressFacts, CodeForFacts
  <2>3. /\ GlobalAddressMap'[g] = a
        /\ \A h \in Functions \ {g} : GlobalAddressMap'[h] = GlobalAddressMap[h]
    BY <1>1, <1>6, <2>1 DEF addGlobalMapping, updateGlobalMapping
  <2>4. \A h : CodeFor(h, Len(bodies))' = CodeFor(h, Len(bodies))
    BY <1>1, <1>2, <2>2, BindsOnly
  <2>5. Len(bodies') = Len(bodies) /\ Waiting' = Waiting
    BY <1>1, <1>2, <1>4, <1>6, <2>2, BindsOnly DEF Waiting
  <2>6. StubInv'
    BY <1>1, <1>4, <1>6, <2>2, <2>4, <2>5 DEF ReadyInv, StubInv
  <2>7. KnownInv'
    BY <1>1, <1>4, <1>6, <2>2, <2>3, <2>4, <2>5 DEF ReadyInv, KnownInv
  <2> QED
    BY <1>2, <1>6, <2>2, <2>3, <2>6, <2>7, BindReady
<1>7. CASE /\ direct => GlobalAddressMap[g] = Null /\ g \notin External
           /\ Bind(g, Stub(g))
           /\ getLazyFunctionStub(g)
  <2>1. PICK a : a = Stub(g)
    OBVIOUS
  <2>2. a \in Address /\ Bind(g, a)
    BY <1>7, <2>1, AddressFacts
  <2>3. stub[g] = NoStub => g \in External \/ GlobalAddressMap[g] = Null
    BY <1>7 DEF NearCalls
  <2>4. \A h : CodeFor(h, Len(bodies))' = CodeFor(h, Len(bodies))
    BY <1>1, <1>2, <2>2, BindsOnly
  <2>5. /\ Len(bodies') = Len(bodies)
        /\ job'.fn = job.fn /\ job'.phase = job.phase /\ job'.pending = job.pending
    BY <1>1, <1>2, <1>4, <2>2, BindsOnly
  <2>6. job.phase = "none" => Lazy
    BY <1>2
  <2>7. /\ StubInv' /\ KnownInv'
        /\ \A h : stub[h] \notin {NoStub, Null} => stub'[h] = stub[h]
        /\ \A h \in Functions : stub'[h] # Torn \/ stub'[h] = stub[h]
        /\ \A h : stub[h] # NoStub => stub'[h] # NoStub
        /\ stub'[g] # NoStub
        /\ \A h \in Functions \ {g} : GlobalAddressMap'[h] = GlobalAddressMap[h]
        /\ stub[g] # NoStub => GlobalAddressMap'[g] = GlobalAddressMap[g]
    BY <1>7, <2>3, <2>4, <2>5, <2>6, StubMadeReady
  <2> HIDE DEF direct
  <2> QED
    BY <1>2, <2>1, <2>2, <2>3, <2>7, BindReady
<1> QED
  BY <1>5, <1>6, <1>7 DEF Relocate

\* Who asked for a stub gets one that leads to the function, or resolves it.
LEMMA ObtainStubReady ==
  ASSUME EngineAssumption, CodeInv, NEW t \in Threads, ObtainStub(t)
  PROVE  ReadyInv'
<1>1. thread \in [Threads -> ThreadState] /\ TypeInv /\ LockInv /\ ReadyInv
  BY DEF CodeInv, EngineInv, TypeInv, TypeOK, TablesInv
<1>2. PICK f : f = thread[t].fn
  OBVIOUS
<1>3. PICK k : k = Len(bodies)
  OBVIOUS
<1>4. /\ f \in Functions /\ At(t, "stubbing") /\ Unlocked /\ Lazy
      /\ getLazyFunctionStub(f) /\ Obtain(t, Stub(f))
      /\ UNCHANGED <<EmittedFunctions, bodies, lock, job>>
  BY <1>1, <1>2 DEF ObtainStub, At, TypeInv, ThreadShape, LockInv
<1>5. /\ job.phase = "none" /\ k \in Nat
      /\ \A u \in Threads : ~At(u, "unmapped") /\ Holds(u, k)
      /\ Complete(k)
  BY <1>1, <1>3, <1>4, UnlockedFacts, NobodyWorks, BodiesCounted
     DEF CodeInv, EngineInv, Working, At
<1>6. /\ \A u \in Threads \ {t} : thread'[u] = thread[u]
      /\ thread'[t].at = Stub(f) /\ thread'[t].via = thread[t].via /\ thread'[t].fn = f
  BY <1>1, <1>2, <1>4, AddressFacts, ObtainChanges
<1>7. thread[t].via = NoFn /\ thread'[t].pc = "ready"
  <2>1. thread[t].via = NoFn
    BY <1>1, <1>4 DEF ReadyInv, ThreadInv, Placed, At
  <2> QED
    BY <1>1, <1>4, <2>1 DEF Obtain, ThreadState
<1>8. \A g, n : CodeFor(g, n)' = CodeFor(g, n)
  BY <1>4, CodeForStays
<1>9. /\ StubInv' /\ KnownInv'
      /\ \A h : stub[h] \notin {NoStub, Null} => stub'[h] = stub[h]
      /\ \A h \in Functions : stub'[h] # Torn \/ stub'[h] = stub[h]
      /\ \A h : stub[h] # NoStub => stub'[h] # NoStub
      /\ stub'[f] # NoStub
  BY <1>4, <1>8, StubMadeReady
<1>10. EmittingInv' /\ AskedInv' /\ CallsInv'
  <2>1. AskedInv'
    <3>1. job' = job
      BY <1>4
    <3> QED
      BY <1>5, <3>1 DEF AskedInv
  <2> QED
    BY <1>1, <1>4, <1>8, <1>9, <2>1 DEF ReadyInv, EmittingInv, CallsInv, Live, Freed
<1>11. ThreadInv'
  BY <1>1, <1>6, <1>7, AddressFacts, Kinds DEF ReadyInv, ThreadInv, Placed, At
<1>12. \A a, g : Arrives(a, g, k) => Arrives(a, g, k)'
  BY <1>8, <1>9, ArrivesGrows
<1>13. HeldInv'
  <2>1. Complete(k)'
    BY <1>4, <1>5, <1>12 DEF Complete, Live, Freed
  <2>2. \A u \in Threads \ {t} : Holds(u, k)'
    BY <1>5, <1>6, <1>8, <1>12 DEF Holds, At
  <2>3. stub'[f] \in CodeFor(f, k)' \cup {Resolver, Torn}
    BY <1>3, <1>4, <1>9 DEF StubInv
  <2>4. Arrives(Stub(f), f, k)'
    BY <2>3 DEF Arrives
  <2>5. Holds(t, k)'
    BY <1>4, <1>6, <1>7, <2>4 DEF Holds
  <2>6. k \in 0 .. Len(bodies')
    BY <1>3, <1>4, <1>5
  <2> QED
    BY <2>1, <2>2, <2>5, <2>6 DEF HeldInv
<1>14. ResolveInv'
  <2>1. \A u \in Threads, g \in Functions : Inside(u, g)' => Inside(u, g)
    BY <1>6, <1>7 DEF Inside, At
  <2>2. \A u \in Threads : thread'[u].via # NoFn => u # t
    BY <1>6, <1>7
  <2>3. \A u \in Threads : Unbound(u) \notin {NoStub, Null}
    BY Kinds DEF Unbound
  <2>4. \A u \in Threads : thread'[u].via # NoFn => stub'[thread'[u].via] = Unbound(u)'
    BY <1>1, <1>6, <1>9, <2>2, <2>3 DEF ReadyInv, ResolveInv, Unbound, At
  <2>5. ASSUME NEW g \in Functions, stub'[g] \in {Resolver, Torn},
               NEW u \in Threads, NEW v \in Threads, Inside(u, g)', Inside(v, g)'
        PROVE  u = v
    <3>1. stub[g] \notin {NoStub, Null}
      BY <1>1, <2>1, <2>5, NobodyInside
    <3> QED
      BY <1>1, <1>9, <2>1, <2>5, <3>1 DEF ReadyInv, ResolveInv
  <2>6. \A g \in Functions : stub'[g] = Torn => \E u \in Threads : thread'[u].via = g
    BY <1>1, <1>6, <1>9 DEF ReadyInv, ResolveInv
  <2> QED
    BY <2>4, <2>5, <2>6 DEF ResolveInv
<1>15. UnreferencedInv'
  BY <1>5, <1>6, <1>7 DEF UnreferencedInv, At
<1> QED
  BY <1>9, <1>10, <1>11, <1>13, <1>14, <1>15 DEF ReadyInv

LEMMA InitReady ==
  ASSUME EngineAssumption, Init
  PROVE  ReadyInv
<1>1. /\ Len(bodies) = 0 /\ DOMAIN bodies = {} /\ DOMAIN PendingFunctions = {}
      /\ PendingFunctions = <<>>
  BY EmptySeq DEF Init
<1>2. \A t \in Threads : thread[t] = AtRest /\ thread[t].pc = "idle" /\ thread[t].at = Null
                         /\ thread[t].via = NoFn
  BY AtRestTypes DEF Init, AtRest
<1>3. job.phase = "none" /\ job.pending = FALSE
  BY Jobs DEF Init, NoJob
<1>4. \A g \in Functions : stub[g] = NoStub /\ GlobalAddressMap[g] = Null
  BY DEF Init
<1>5. Live = {}
  BY <1>1 DEF Live
<1>6. Waiting = {}
  BY <1>1, <1>3 DEF Waiting
<1>7. EmittingInv /\ CallsInv /\ KnownInv /\ AskedInv
  BY <1>1, <1>3, <1>4, <1>5 DEF EmittingInv, CallsInv, KnownInv, AskedInv
<1>8. StubInv
  BY <1>1, <1>4, <1>6, Kinds DEF StubInv
<1>9. ThreadInv /\ UnreferencedInv
  BY <1>2 DEF ThreadInv, Placed, UnreferencedInv, At
<1>10. HeldInv
  <2>1. Complete(0) /\ \A t \in Threads : Holds(t, 0)
    BY <1>1, <1>2, <1>3, <1>5 DEF Complete, Holds
  <2> QED
    BY <1>1, <2>1 DEF HeldInv
<1>11. ResolveInv
  BY <1>2, <1>4, Kinds DEF ResolveInv
<1> QED
  BY <1>7, <1>8, <1>9, <1>10, <1>11 DEF ReadyInv

LEMMA StepReady ==
  ASSUME EngineAssumption, CarefulClients, NearCalls, BoundCodeStays, CodeInv, [Next]_vars
  PROVE  ReadyInv'
<1>1. CASE UNCHANGED vars
  <2>1. UNCHANGED <<GlobalAddressMap, stub, bodies, PendingFunctions, lock, job, thread>>
    BY <1>1 DEF vars
  <2>2. ReadyInv
    BY DEF CodeInv
  <2>3. EmittingInv' /\ StubInv' /\ KnownInv' /\ AskedInv' /\ CallsInv'
    BY <2>1, <2>2 DEF ReadyInv, EmittingInv, StubInv, KnownInv, AskedInv, CallsInv,
       Waiting, CodeFor, Asked, Live, Freed
  <2>4. (\A g, n : CodeFor(g, n)' = CodeFor(g, n)) /\ (\A a, g, n : Arrives(a, g, n)' <=> Arrives(a, g, n))
    BY <2>1, CodeForStays, ArrivesStays
  <2>5. ThreadInv' /\ ResolveInv' /\ UnreferencedInv'
    <3>1. ThreadInv'
      BY <2>1, <2>2 DEF ReadyInv, ThreadInv, Placed, At
    <3>2. ResolveInv'
      BY <2>1, <2>2 DEF ReadyInv, ResolveInv, Unbound, Inside, At
    <3>3. \A f : HasAddress(f)' <=> HasAddress(f)
      BY <2>1 DEF HasAddress
    <3>4. \A f : CodeOf(f)' = CodeOf(f)
      BY <2>1 DEF CodeOf
    <3>5. \A f : Unreferenced(f)' <=> Unreferenced(f)
      BY <2>1, <3>3, <3>4 DEF Unreferenced, Live, Freed
    <3>6. UnreferencedInv'
      BY <2>1, <2>2, <3>3, <3>5 DEF ReadyInv, UnreferencedInv, At
    <3> QED
      BY <3>1, <3>2, <3>6
  <2>6. HeldInv'
    <3>1. PICK n \in 0 .. Len(bodies) : Complete(n) /\ \A t \in Threads : Holds(t, n)
      BY <2>2 DEF ReadyInv, HeldInv
    <3>2. Complete(n)' /\ \A t \in Threads : Holds(t, n)'
      BY <2>1, <2>4, <3>1 DEF Complete, Holds, At, Live, Freed
    <3> QED
      BY <2>1, <3>2 DEF HeldInv
  <2> QED
    BY <2>3, <2>5, <2>6 DEF ReadyInv
<1>2. ASSUME NEW t \in Threads, ClientStep(t)
      PROVE  ReadyInv'
  BY <1>2, AskReady, FreeReady, AskOrStubReady, CallReady, ReturnReady DEF ClientStep
<1>3. ASSUME NEW t \in Threads, EngineStep(t)
      PROVE  ReadyInv'
  BY <1>3, LookupReady, EnterReady, StartReady, RelocateReady, RetryReady, FinishReady,
     FillReady, NextPendingReady, CompiledReady, RunCodeReady, ThroughStubReady,
     RewriteReady, ReexecuteReady, DeallocateReady, EraseReady, ObtainStubReady
     DEF EngineStep
<1> QED
  BY <1>1, <1>2, <1>3 DEF Next

-----------------------------------------------------------------------------
(* What follows for clients that leave the code stubs are bound to alone   *)

\* All of the invariant is inductive.
THEOREM CodeInvariant ==
  ASSUME CarefulClients, NearCalls, BoundCodeStays
  PROVE  Spec => []CodeInv
<1>1. Init => CodeInv
  BY InitTypes, InitTables, InitReady, EngineAssumption DEF CodeInv, EngineInv
<1>2. CodeInv /\ [Next]_vars => CodeInv'
  BY StepTypes, StepTables, StepReady, EngineAssumption DEF CodeInv, EngineInv
<1> QED
  BY <1>1, <1>2, PTL DEF Spec

\* Where a thread that runs is: in finished code, or at a stub that leads somewhere.
LEMMA RunningFacts ==
  ASSUME EngineAssumption, CodeInv, NEW t \in Threads, At(t, "run")
  PROVE  \/ \E i \in DOMAIN bodies : thread[t].at = Body(i) /\ bodies[i].state = "finished"
         \/ \E f \in External : thread[t].at = Native(f)
         \/ \E f \in Functions : thread[t].at = Stub(f) /\ stub[f].kind \in {"body", "native", "resolver"}
<1>1. PICK a : a = thread[t].at
  OBVIOUS
<1>2. a # Null /\ thread[t].via = NoFn
  BY <1>1 DEF CodeInv, ReadyInv, ThreadInv, Placed, At
<1>3. PICK n \in 0 .. Len(bodies), f \in Functions : Arrives(a, f, n)
  BY <1>1, <1>2, HeldFacts
<1>4. \A b \in CodeFor(f, n) :
        \/ \E i \in DOMAIN bodies : b = Body(i) /\ bodies[i].state = "finished"
        \/ f \in External /\ b = Native(f)
  <2>1. Len(bodies) \in Nat /\ DOMAIN bodies = 1 .. Len(bodies)
    BY BodiesCounted DEF CodeInv, EngineInv
  <2>2. \A i \in 1 .. n : i \in DOMAIN bodies
    BY <2>1
  <2> QED
    BY <2>2, CodeForFacts
<1>5. CASE a \in CodeFor(f, n)
  BY <1>1, <1>4, <1>5
<1>6. CASE a = Stub(f) /\ stub[f] \in CodeFor(f, n) \cup {Resolver, Torn}
  <2>1. stub[f] # Torn
    <3>1. SUFFICES ASSUME stub[f] = Torn
                   PROVE  FALSE
      OBVIOUS
    <3>2. PICK u \in Threads : thread[u].via = f
      BY <3>1 DEF CodeInv, ReadyInv, ResolveInv
    <3>3. Inside(u, f) /\ Inside(t, f)
      BY <1>1, <1>6, <3>2 DEF Inside
    <3>4. u = t
      BY <3>1, <3>3 DEF CodeInv, ReadyInv, ResolveInv
    <3> QED
      BY <1>2, <3>2, <3>4 DEF EngineAssumption
  <2>2. stub[f].kind \in {"body", "native", "resolver"}
    BY <1>6, <2>1, CodeForFacts, Kinds
  <2> QED
    BY <1>1, <1>6, <2>2
<1> QED
  BY <1>3, <1>5, <1>6 DEF Arrives

LEMMA CodeInvSuffices ==
  ASSUME EngineAssumption, CodeInv
  PROVE  CodeIsReady
<1>1. SUFFICES ASSUME NEW t \in Threads, At(t, "run"), NEW a, a = thread[t].at
               PROVE  CASE a.kind = "body"   -> bodies[a.body].state = "finished"
                        [] a.kind = "stub"   -> stub[a.fn].kind \in {"body", "native", "resolver"}
                        [] a.kind = "native" -> TRUE
                        [] OTHER -> FALSE
  BY DEF CodeIsReady
<1> QED
  BY <1>1, RunningFacts, Kinds

\* A thread only ever executes finished code, whatever is compiled, rewritten
\* and freed by other threads meanwhile.
THEOREM ThreadsRunFinishedCode ==
  ASSUME CarefulClients, NearCalls, BoundCodeStays
  PROVE  Spec => []CodeIsReady
<1>1. CodeInv => CodeIsReady
  BY CodeInvSuffices, EngineAssumption
<1> QED
  BY <1>1, CodeInvariant, PTL

-----------------------------------------------------------------------------
(* Compiling eagerly                                                       *)

\* There are no stubs for the resolver, and so nobody resolves any.
NoResolvers == \A f \in Functions : stub[f] \notin {Resolver, Torn}

LEMMA ResolversStay ==
  ASSUME EngineAssumption, CodeInv, ~Lazy, NoResolvers, [Next]_vars
  PROVE  NoResolvers'
<1>1. /\ ReadyInv /\ LockInv /\ stub \in [Functions -> Address \cup {NoStub, Resolver, Torn}]
  BY DEF CodeInv, EngineInv, TypeInv, TypeOK, TablesInv
<1>2. \A t \in Threads : ~At(t, "rewriting") /\ ~At(t, "rewritten") /\ ~At(t, "stubbing")
  <2>1. \A t \in Threads : ~At(t, "rewriting") /\ ~At(t, "rewritten")
    <3>1. ASSUME NEW t \in Threads, At(t, "rewriting") \/ At(t, "rewritten")
          PROVE  FALSE
      <4>1. PICK f : f = thread[t].via
        OBVIOUS
      <4>2. f \in Functions /\ stub[f] \in {Resolver, Torn}
        BY <3>1, <4>1, BindingFacts DEF Unbound
      <4> QED
        BY <4>2 DEF NoResolvers
    <3> QED
      BY <3>1
  <2> QED
    BY <1>1, <2>1 DEF LockInv
<1>3. CASE UNCHANGED stub
  BY <1>3 DEF NoResolvers
<1>4. ASSUME NEW t \in Threads, NEW g \in Functions, Relocate(t, g), ~UNCHANGED stub
      PROVE  NoResolvers'
  <2>1. stub[g] = NoStub /\ stub' = [stub EXCEPT ![g] = NewStub(g)]
    BY <1>4 DEF Relocate, getLazyFunctionStub
  <2>2. g \notin External => NewStub(g) = Null
    BY DEF NewStub, EngineAssumption
  <2>3. g \in External => NewStub(g) \in CodeFor(g, Len(bodies))
    <3>1. job.phase \in {"start", "relocate"} => job.fn \notin External
      BY DEF CodeInv, EngineInv, TypeInv, JobShape
    <3>2. g \in External => GlobalAddressMap[g] \in CodeFor(g, Len(bodies)) \cup {Null}
      BY <1>1, <2>1, <3>1 DEF ReadyInv, KnownInv
    <3> QED
      BY <3>2, CodeForFacts DEF NewStub
  <2>4. NewStub(g) \notin {Resolver, Torn}
    BY <2>2, <2>3, CodeForFacts, Kinds
  <2> QED
    BY <1>1, <2>1, <2>4 DEF NoResolvers
<1>5. ASSUME NEW t \in Threads, updateFunctionStub(t)
      PROVE  NoResolvers'
  <2>1. PICK f : f = job.fn
    OBVIOUS
  <2>2. GlobalAddressMap[f] \in CodeFor(f, Len(bodies)) /\ stub' = [stub EXCEPT ![f] = GlobalAddressMap[f]]
    BY <1>1, <1>5, <2>1 DEF updateFunctionStub, Compiles, ReadyInv, AskedInv
  <2>3. GlobalAddressMap[f] \notin {Resolver, Torn}
    BY <2>2, CodeForFacts
  <2> QED
    BY <1>1, <2>2, <2>3 DEF NoResolvers
<1>6. ASSUME NEW t \in Threads, ClientStep(t)
      PROVE  UNCHANGED stub
  BY <1>6 DEF ClientStep, Ask, freeMachineCodeForFunction, AskOrStub, Call, Return, tables
<1>7. ASSUME NEW t \in Threads, EngineStep(t)
      PROVE  NoResolvers'
  <2>1. CASE \E g \in Functions : Relocate(t, g)
    BY <1>3, <1>4, <2>1
  <2>2. CASE updateFunctionStub(t)
    BY <1>5, <2>2
  <2>3. CASE RewriteStub(t) \/ ReexecuteStub(t) \/ ObtainStub(t)
    BY <1>2, <2>3 DEF RewriteStub, ReexecuteStub, ObtainStub
  <2>4. CASE \/ Lookup(t) \/ Enter(t) \/ startFunction(t) \/ retryWithMoreMemory(t)
             \/ finishFunction(t) \/ NextPending(t) \/ Compiled(t) \/ RunCode(t)
             \/ ThroughStub(t) \/ JITCompilerFn(t) \/ ReacquireLock(t)
             \/ deallocateMemForFunction(t) \/ EraseRecord(t)
    <3>1. UNCHANGED stub
      BY <2>4 DEF Lookup, Enter, startFunction, retryWithMoreMemory, finishFunction,
         NextPending, Compiled, RunCode, ThroughStub, JITCompilerFn, ReacquireLock,
         deallocateMemForFunction, EraseRecord, tables
    <3> QED
      BY <1>3, <3>1
  <2> QED
    BY <1>7, <2>1, <2>2, <2>3, <2>4 DEF EngineStep
<1> QED
  BY <1>3, <1>6, <1>7 DEF Next, vars

\* With the lock released, every call of every body leads to the code of its
\* function, if the JIT does not compile lazily.
THEOREM EagerlyComplete ==
  ASSUME ~Lazy, CarefulClients, NearCalls, BoundCodeStays
  PROVE  Spec => []EagerIsComplete
<1>1. Init => NoResolvers
  BY Kinds DEF Init, NoResolvers
<1>2. CodeInv /\ NoResolvers /\ [Next]_vars => NoResolvers'
  BY ResolversStay, EngineAssumption
<1>3. ASSUME CodeInv, NoResolvers
      PROVE  EagerIsComplete
  <2>1. SUFFICES ASSUME Unlocked, NEW i \in Live, NEW g \in Calls[bodies[i].fn]
                 PROVE  LeadsTo(bodies[i].calls[g], g)
    BY DEF EagerIsComplete
  <2>2. PICK a : a = bodies[i].calls[g]
    OBVIOUS
  <2>3. PICK k : k = Len(bodies)
    OBVIOUS
  <2>4. k \in Nat /\ DOMAIN bodies = 1 .. k /\ \A j \in DOMAIN bodies : bodies[j] \in BodyState
    BY <1>3, <2>3, BodiesCounted DEF CodeInv, EngineInv
  <2>5. Arrives(a, g, k)
    BY <1>3, <2>1, <2>2, <2>3, <2>4, UnlockedFacts, EngineAssumption DEF Complete, Live
  <2>6. g \in Functions
    BY <2>1, <2>4, EngineAssumption DEF EngineAssumption, BodyState, Live
  <2>7. \A b \in CodeFor(g, k) :
          \/ g \in External /\ b = Native(g)
          \/ \E j \in Live : b = Body(j) /\ bodies[j].fn = g /\ bodies[j].state = "finished"
    <3>1. \A j \in 1 .. k : bodies[j].state = "finished" => j \in Live
      BY <2>4 DEF Live, Freed
    <3> QED
      BY <3>1, CodeForFacts
  <2>8. CASE a \in CodeFor(g, k)
    BY <2>2, <2>7, <2>8 DEF LeadsTo
  <2>9. CASE a = Stub(g) /\ stub[g] \in CodeFor(g, k)
    BY <2>2, <2>7, <2>9 DEF LeadsTo
  <2> QED
    BY <1>3, <2>5, <2>6, <2>8, <2>9 DEF Arrives, NoResolvers
<1>4. Spec => []NoResolvers
  BY <1>1, <1>2, CodeInvariant, PTL DEF Spec
<1> QED
  BY <1>3, <1>4, CodeInvariant, PTL

-----------------------------------------------------------------------------
(* What becomes of bodies                                                  *)

\* The steps that leave the bodies alone are all but five.
LEMMA BodiesChange ==
  ASSUME [Next]_vars
  PROVE  \/ UNCHANGED bodies
         \/ \E t \in Threads : \/ startFunction(t)
                               \/ \E g \in Functions : Relocate(t, g)
                               \/ retryWithMoreMemory(t)
                               \/ finishFunction(t)
                               \/ deallocateMemForFunction(t)
<1>1. ASSUME NEW t \in Threads, ClientStep(t)
      PROVE  UNCHANGED bodies
  BY <1>1 DEF ClientStep, Ask, freeMachineCodeForFunction, AskOrStub, Call, Return, tables
<1>2. ASSUME NEW t \in Threads,
             \/ Lookup(t) \/ Enter(t) \/ updateFunctionStub(t) \/ NextPending(t) \/ Compiled(t)
             \/ RunCode(t) \/ ThroughStub(t) \/ JITCompilerFn(t) \/ ReacquireLock(t)
             \/ RewriteStub(t) \/ ReexecuteStub(t) \/ EraseRecord(t) \/ ObtainStub(t)
      PROVE  UNCHANGED bodies
  BY <1>2 DEF Lookup, Enter, updateFunctionStub, NextPending, Compiled, RunCode,
     ThroughStub, JITCompilerFn, ReacquireLock, RewriteStub, ReexecuteStub, EraseRecord,
     ObtainStub, tables
<1> QED
  BY <1>1, <1>2 DEF Next, EngineStep, vars

\* What a step does to a body that is there already: its function never changes,
\* and its state only as the step says.
LEMMA BodySteps ==
  ASSUME EngineAssumption, CodeInv, [Next]_vars
  PROVE  /\ Len(bodies) \in Nat /\ DOMAIN bodies = 1 .. Len(bodies)
         /\ Len(bodies') \in {Len(bodies), Len(bodies) + 1}
         /\ \A i \in DOMAIN bodies : i \in DOMAIN bodies' /\ bodies'[i].fn = bodies[i].fn
         /\ Len(bodies') > Len(bodies) => \E t \in Threads : startFunction(t)
         /\ \A i \in DOMAIN bodies : bodies'[i].state = bodies[i].state \/
              \E t \in Threads :
                \/ (retryWithMoreMemory(t) \/ finishFunction(t)) /\ i = Len(bodies)
                \/ deallocateMemForFunction(t) /\ i = EmittedFunctions[thread[t].fn]
<1>1. bodies \in Seq(BodyState) /\ TypeInv /\ job \in JobState
  BY DEF CodeInv, EngineInv, TypeInv, TypeOK, JobState
<1>2. PICK k : k = Len(bodies)
  OBVIOUS
<1>3. k \in Nat /\ DOMAIN bodies = 1 .. k
  BY <1>1, <1>2, BodiesCounted
<1>4. CASE UNCHANGED bodies
  BY <1>2, <1>3, <1>4
<1>5. ASSUME NEW t \in Threads, startFunction(t)
      PROVE  /\ Len(bodies') = k + 1 /\ DOMAIN bodies' = 1 .. k + 1
             /\ \A i \in 1 .. k : bodies'[i] = bodies[i]
  <2>1. PICK b : bodies' = Append(bodies, b)
    BY <1>5 DEF startFunction
  <2> QED
    BY <1>1, <1>2, <1>3, <2>1
<1>6. ASSUME NEW t \in Threads, NEW g \in Functions, Relocate(t, g)
      PROVE  /\ Len(bodies') = k /\ DOMAIN bodies' = 1 .. k
             /\ \A i \in 1 .. k : bodies'[i].fn = bodies[i].fn /\ bodies'[i].state = bodies[i].state
  <2>1. PICK a \in Address : Bind(g, a)
    <3>1. GlobalAddressMap[g] \in Address /\ Stub(g) \in Address /\ (g \in External => Native(g) \in Address)
      BY <1>1, AddressIsKnown, AddressFacts
    <3> QED
      BY <1>6, <3>1 DEF Relocate
  <2>2. k \in DOMAIN bodies
    BY <1>1, <1>2, <1>3, <1>6 DEF Relocate, Compiles, TypeInv, JobShape
  <2> QED
    BY <1>1, <1>2, <1>3, <2>1, <2>2, CallChanges DEF Bind
<1>7. ASSUME NEW t \in Threads, NEW i, NEW s \in {"finished", "freed"}, i \in DOMAIN bodies,
             bodies' = [bodies EXCEPT ![i].state = s]
      PROVE  /\ Len(bodies') = k /\ DOMAIN bodies' = 1 .. k
             /\ \A j \in 1 .. k : bodies'[j].fn = bodies[j].fn /\ (j # i => bodies'[j].state = bodies[j].state)
  BY <1>1, <1>2, <1>3, <1>7 DEF BodyState
<1>8. ASSUME NEW t \in Threads, retryWithMoreMemory(t) \/ finishFunction(t)
      PROVE  \E s \in {"finished", "freed"} : k \in DOMAIN bodies /\ bodies' = [bodies EXCEPT ![k].state = s]
  BY <1>1, <1>2, <1>3, <1>8 DEF retryWithMoreMemory, finishFunction, Compiles, TypeInv, JobShape
<1>9. ASSUME NEW t \in Threads, deallocateMemForFunction(t), ~UNCHANGED bodies
      PROVE  LET i == EmittedFunctions[thread[t].fn] IN
             i \in DOMAIN bodies /\ bodies' = [bodies EXCEPT ![i].state = "freed"]
  <2>1. thread[t].fn \in Functions /\ EmittedFunctions \in [Functions -> 0 .. k]
    BY <1>1, <1>2, <1>9 DEF deallocateMemForFunction, At, TypeInv, TypeOK, ThreadShape
  <2> QED
    BY <1>3, <1>9, <2>1 DEF deallocateMemForFunction
<1>10. CASE \E t \in Threads : retryWithMoreMemory(t) \/ finishFunction(t)
  BY <1>2, <1>3, <1>7, <1>8, <1>10
<1>11. CASE \E t \in Threads : deallocateMemForFunction(t)
  <2>1. PICK t \in Threads : deallocateMemForFunction(t)
    BY <1>11
  <2>2. PICK i : i = EmittedFunctions[thread[t].fn]
    OBVIOUS
  <2>3. CASE i \in DOMAIN bodies /\ bodies' = [bodies EXCEPT ![i].state = "freed"]
    <3>1. /\ Len(bodies') = k /\ DOMAIN bodies' = 1 .. k
          /\ \A j \in 1 .. k : bodies'[j].fn = bodies[j].fn /\ (j # i => bodies'[j].state = bodies[j].state)
      BY <1>7, <2>3
    <3> QED
      BY <1>2, <1>3, <2>1, <2>2, <3>1
  <2> QED
    BY <1>2, <1>3, <1>4, <1>9, <2>1, <2>2, <2>3
<1>12. CASE \E t \in Threads : startFunction(t)
  BY <1>2, <1>3, <1>5, <1>12
<1>13. CASE \E t \in Threads, g \in Functions : Relocate(t, g)
  BY <1>2, <1>3, <1>6, <1>13
<1> QED
  BY <1>4, <1>10, <1>11, <1>12, <1>13, BodiesChange

\* "The JIT will only compile the one function" a thread has asked for.
THEOREM OnlyTheOne ==
  ASSUME Lazy, CarefulClients, NearCalls, BoundCodeStays
  PROVE  Spec => CompilesOnlyTheOne
<1>1. ASSUME CodeInv, [Next]_vars, Len(bodies') > Len(bodies)
      PROVE  bodies'[Len(bodies')].fn = thread[lock].fn
  <2>1. PICK t \in Threads : startFunction(t)
    BY <1>1, EngineAssumption, BodySteps
  <2>2. lock = t /\ At(t, "compiling") /\ job.phase = "start"
    BY <2>1 DEF startFunction, Compiles
  <2>3. job.pending => job.fn \in Waiting
    BY <2>2 DEF Waiting
  <2>4. job \in JobState /\ bodies \in Seq(BodyState)
    BY <1>1 DEF CodeInv, EngineInv, TypeInv, TypeOK, JobState
  <2>5. ~job.pending
    BY <1>1, <2>3 DEF CodeInv, ReadyInv, StubInv
  <2>6. job.fn = Asked
    BY <1>1, <2>2, <2>5 DEF CodeInv, ReadyInv, AskedInv
  <2>7. PICK b : bodies' = Append(bodies, b) /\ b.fn = job.fn
    BY <2>1 DEF startFunction
  <2>8. Len(bodies') = Len(bodies) + 1 /\ bodies'[Len(bodies) + 1] = b
    BY <2>4, <2>7, LenProperties
  <2> QED
    BY <2>6, <2>7, <2>8 DEF Asked
<1>2. CodeInv /\ [Next]_vars =>
        [Len(bodies') > Len(bodies) => bodies'[Len(bodies')].fn = thread[lock].fn]_vars
  BY <1>1
<1> QED
  BY <1>2, CodeInvariant, PTL DEF Spec, CompilesOnlyTheOne

\* With the JIT's lock held over freeMachineCodeForFunction the memory manager
\* is given bodies back only between emissions, as it has to be.
THEOREM FreedBetweenEmissions ==
  ASSUME CarefulClients, NearCalls, BoundCodeStays
  PROVE  Spec => FreesBetweenEmissions
<1>1. ASSUME CodeInv, [Next]_vars,
             NEW i \in DOMAIN bodies, bodies'[i].state = "freed", bodies[i].state # "freed",
             NEW j \in DOMAIN bodies \ {i}
      PROVE  bodies[j].state # "emitting"
  <2>1. PICK t \in Threads : \/ (retryWithMoreMemory(t) \/ finishFunction(t)) /\ i = Len(bodies)
                             \/ deallocateMemForFunction(t)
    BY <1>1, EngineAssumption, BodySteps
  <2>2. CASE i = Len(bodies)
    BY <1>1, <2>2 DEF CodeInv, ReadyInv, EmittingInv
  <2>3. CASE deallocateMemForFunction(t)
    <3>1. At(t, "unmapped") /\ Freeing(t) /\ ~At(t, "compiling")
      BY <2>3 DEF deallocateMemForFunction, At, Freeing
    <3>2. job.phase # "relocate"
      BY <1>1, <3>1 DEF CodeInv, EngineInv, TablesInv, LockInv
    <3> QED
      BY <1>1, <3>2 DEF CodeInv, ReadyInv, EmittingInv
  <2> QED
    BY <2>1, <2>2, <2>3
<1>2. CodeInv /\ [Next]_vars =>
        [\A i \in DOMAIN bodies : bodies'[i].state = "freed" /\ bodies[i].state # "freed" =>
           \A j \in DOMAIN bodies \ {i} : bodies[j].state # "emitting"]_vars
  BY <1>1
<1> QED
  BY <1>2, CodeInvariant, PTL DEF Spec, FreesBetweenEmissions

-----------------------------------------------------------------------------
(* The JIT runs the program, step by step                                  *)

NotCalling == {"idle", "unmapped", "deallocated"}

\* What a thread does, when it is in finished code or at a stub that leads on.
LEMMA WhatItDoes ==
  ASSUME CodeIsReady, NEW t \in Threads
  PROVE  /\ thread[t].pc \in NotCalling => Doing(t) = Direct!Idle
         /\ thread[t].pc \notin NotCalling \cup {"run"} => Doing(t) = Direct!Calling(thread[t].fn)
         /\ thread[t].pc = "run" =>
              /\ thread[t].at.kind \in {"body", "native", "stub"}
              /\ thread[t].at.kind = "body" => Doing(t) = Direct!Running(bodies[thread[t].at.body].fn)
              /\ thread[t].at.kind = "native" => Doing(t) = Direct!Running(thread[t].at.fn)
              /\ thread[t].at.kind = "stub" => Doing(t) = Direct!Calling(thread[t].at.fn)
<1>1. thread[t].pc \in NotCalling => Doing(t) = Direct!Idle
  BY DEF NotCalling, Doing, At, Direct!Idle
<1>2. thread[t].pc \notin NotCalling \cup {"run"} => Doing(t) = Direct!Calling(thread[t].fn)
  BY DEF NotCalling, Doing, At, Direct!Calling
<1>3. ASSUME thread[t].pc = "run", NEW a, a = thread[t].at
      PROVE  /\ a.kind \in {"body", "native", "stub"}
             /\ a.kind = "body" => Doing(t) = Direct!Running(bodies[a.body].fn)
             /\ a.kind = "native" => Doing(t) = Direct!Running(a.fn)
             /\ a.kind = "stub" => Doing(t) = Direct!Calling(a.fn)
  <2>1. CASE a.kind = "body"
    <3>1. bodies[a.body].state = "finished"
      BY <1>3, <2>1 DEF CodeIsReady, At
    <3> QED
      BY <1>3, <2>1, <3>1 DEF Doing, At, Where, Direct!Running
  <2>2. CASE a.kind = "native"
    BY <1>3, <2>2 DEF Doing, At, Where, Direct!Running
  <2>3. CASE a.kind = "stub"
    <3>1. stub[a.fn].kind \in {"body", "native", "resolver"}
      BY <1>3, <2>3 DEF CodeIsReady, At
    <3> QED
      BY <1>3, <2>3, <3>1 DEF Doing, At, Where, Direct!Calling
  <2>4. a.kind \in {"body", "native", "stub"}
    BY <1>3 DEF CodeIsReady, At
  <2> QED
    BY <2>1, <2>2, <2>3, <2>4
<1> QED
  BY <1>1, <1>2, <1>3

\* The same, in the state a step leads to.
LEMMA WhatItDoesNext ==
  ASSUME CodeIsReady', NEW t \in Threads
  PROVE  /\ thread'[t].pc \in NotCalling => Doing(t)' = Direct!Idle
         /\ thread'[t].pc \notin NotCalling \cup {"run"} => Doing(t)' = Direct!Calling(thread'[t].fn)
         /\ thread'[t].pc = "run" =>
              /\ thread'[t].at.kind \in {"body", "native", "stub"}
              /\ thread'[t].at.kind = "body" => Doing(t)' = Direct!Running(bodies'[thread'[t].at.body].fn)
              /\ thread'[t].at.kind = "native" => Doing(t)' = Direct!Running(thread'[t].at.fn)
              /\ thread'[t].at.kind = "stub" => Doing(t)' = Direct!Calling(thread'[t].at.fn)
<1>1. thread'[t].pc \in NotCalling => Doing(t)' = Direct!Idle
  BY DEF NotCalling, Doing, At, Direct!Idle
<1>2. thread'[t].pc \notin NotCalling \cup {"run"} => Doing(t)' = Direct!Calling(thread'[t].fn)
  BY DEF NotCalling, Doing, At, Direct!Calling
<1>3. ASSUME thread'[t].pc = "run", NEW a, a = thread'[t].at
      PROVE  /\ a.kind \in {"body", "native", "stub"}
             /\ a.kind = "body" => Doing(t)' = Direct!Running(bodies'[a.body].fn)
             /\ a.kind = "native" => Doing(t)' = Direct!Running(a.fn)
             /\ a.kind = "stub" => Doing(t)' = Direct!Calling(a.fn)
  <2>1. CASE a.kind = "body"
    <3>1. bodies'[a.body].state = "finished"
      BY <1>3, <2>1 DEF CodeIsReady, At
    <3> QED
      BY <1>3, <2>1, <3>1 DEF Doing, At, Where, Direct!Running
  <2>2. CASE a.kind = "native"
    BY <1>3, <2>2 DEF Doing, At, Where, Direct!Running
  <2>3. CASE a.kind = "stub"
    <3>1. stub'[a.fn].kind \in {"body", "native", "resolver"}
      BY <1>3, <2>3 DEF CodeIsReady, At
    <3> QED
      BY <1>3, <2>3, <3>1 DEF Doing, At, Where, Direct!Calling
  <2>4. a.kind \in {"body", "native", "stub"}
    BY <1>3 DEF CodeIsReady, At
  <2> QED
    BY <2>1, <2>2, <2>3, <2>4
<1> QED
  BY <1>1, <1>2, <1>3

\* A thread that does not move does what it did: bodies keep their functions.
LEMMA OthersGoOn ==
  ASSUME EngineAssumption, CodeInv, CodeIsReady, CodeIsReady', [Next]_vars,
         NEW u \in Threads, thread'[u] = thread[u]
  PROVE  Doing(u)' = Doing(u)
<1>1. CASE thread[u].pc \in NotCalling
  BY <1>1, WhatItDoes, WhatItDoesNext
<1>2. CASE thread[u].pc \notin NotCalling \cup {"run"}
  BY <1>2, WhatItDoes, WhatItDoesNext
<1>3. CASE thread[u].pc = "run"
  <2>1. PICK a : a = thread[u].at
    OBVIOUS
  <2>2. a.kind = "body" => a.body \in DOMAIN bodies
    <3>1. a \in Address
      BY <2>1 DEF CodeInv, EngineInv, TypeInv, TypeOK, ThreadState
    <3> QED
      BY <3>1, Kinds DEF Address
  <2>3. a.kind = "body" => bodies'[a.body].fn = bodies[a.body].fn
    BY <2>2, BodySteps
  <2> QED
    BY <1>3, <2>1, <2>3, WhatItDoes, WhatItDoesNext
<1> QED
  BY <1>1, <1>2, <1>3 DEF NotCalling

\* Steps of the JIT for a thread that calls a function, or frees one: it goes on
\* calling it, or being busy with something else.
LEMMA EngineStutters ==
  ASSUME EngineAssumption, CodeInv, CodeIsReady, CodeIsReady', [Next]_vars, NEW t \in Threads,
         \/ Lookup(t) \/ Enter(t) \/ startFunction(t) \/ (\E g \in Functions : Relocate(t, g))
         \/ retryWithMoreMemory(t) \/ finishFunction(t) \/ updateFunctionStub(t)
         \/ NextPending(t) \/ Compiled(t) \/ JITCompilerFn(t) \/ ReacquireLock(t)
         \/ RewriteStub(t) \/ ReexecuteStub(t) \/ deallocateMemForFunction(t)
         \/ EraseRecord(t) \/ ObtainStub(t)
         \/ \E f \in Functions : freeMachineCodeForFunction(t, f)
  PROVE  \A u \in Threads : Doing(u)' = Doing(u)
<1>1. thread \in [Threads -> ThreadState] /\ TypeInv /\ ReadyInv
  BY DEF CodeInv, EngineInv, TypeInv, TypeOK
<1>2. CASE UNCHANGED thread
  BY <1>2, OthersGoOn
<1>3. ASSUME NEW r \in {thread'[t]}, \A u \in Threads \ {t} : thread'[u] = thread[u],
             \/ thread[t].pc \in NotCalling /\ r.pc \in NotCalling
             \/ /\ thread[t].pc \notin NotCalling \cup {"run"}
                /\ r.pc \notin NotCalling \cup {"run"}
                /\ r.fn = thread[t].fn
             \/ /\ thread[t].pc \notin NotCalling \cup {"run"}
                /\ r.pc = "run" /\ r.at = Stub(thread[t].fn)
      PROVE  \A u \in Threads : Doing(u)' = Doing(u)
  <2>1. Doing(t)' = Doing(t)
    BY <1>3, WhatItDoes, WhatItDoesNext, Kinds
  <2> QED
    BY <1>3, <2>1, OthersGoOn
<1>4. ASSUME NEW pc \in {"enter", "lookup", "rewriting", "rewritten"}, Goto(t, pc),
             thread[t].pc \notin NotCalling \cup {"run"}
      PROVE  \A u \in Threads : Doing(u)' = Doing(u)
  <2>1. /\ thread'[t].pc = pc /\ thread'[t].fn = thread[t].fn
        /\ \A u \in Threads \ {t} : thread'[u] = thread[u]
    BY <1>1, <1>4, GotoChanges DEF Places
  <2>2. pc \notin NotCalling \cup {"run"}
    BY DEF NotCalling
  <2> QED
    BY <1>3, <1>4, <2>1, <2>2
<1>5. ASSUME NEW a, Obtain(t, a), thread[t].pc \notin NotCalling \cup {"run"}
      PROVE  \A u \in Threads : Doing(u)' = Doing(u)
  <2>1. /\ thread'[t].pc \in {"ready", "resolved"} /\ thread'[t].fn = thread[t].fn
        /\ \A u \in Threads \ {t} : thread'[u] = thread[u]
    BY <1>1, <1>5 DEF Obtain, ThreadState
  <2> QED
    BY <1>3, <1>5, <2>1 DEF NotCalling
<1>6. CASE Lookup(t) \/ JITCompilerFn(t) \/ ReacquireLock(t) \/ RewriteStub(t)
  BY <1>4, <1>5, <1>6 DEF Lookup, JITCompilerFn, ReacquireLock, RewriteStub, At, NotCalling
<1>7. CASE Enter(t)
  <2>1. CASE Goto(t, "compiling")
    <3>1. /\ thread'[t].pc = "compiling" /\ thread'[t].fn = thread[t].fn
          /\ \A u \in Threads \ {t} : thread'[u] = thread[u]
      BY <1>1, <2>1, GotoChanges DEF Places
    <3> QED
      BY <1>3, <1>7, <3>1 DEF Enter, At, NotCalling
  <2>2. CASE \E a : Obtain(t, a)
    BY <1>5, <1>7, <2>2 DEF Enter, At, NotCalling
  <2> QED
    BY <1>7, <2>1, <2>2 DEF Enter
<1>8. CASE Compiled(t) \/ ObtainStub(t)
  BY <1>5, <1>8 DEF Compiled, ObtainStub, Compiles, At, NotCalling
<1>9. CASE \/ startFunction(t) \/ (\E g \in Functions : Relocate(t, g)) \/ retryWithMoreMemory(t)
           \/ finishFunction(t) \/ updateFunctionStub(t) \/ NextPending(t)
  BY <1>2, <1>9 DEF startFunction, Relocate, retryWithMoreMemory, finishFunction,
     updateFunctionStub, NextPending
<1>10. CASE ReexecuteStub(t)
  <2>1. PICK f : f = thread[t].via
    OBVIOUS
  <2>2. At(t, "rewritten") /\ Run(t, Stub(f))
    BY <1>10, <2>1 DEF ReexecuteStub
  <2>3. thread[t].fn = f
    BY <1>1, <2>1, <2>2 DEF ReadyInv, ThreadInv, Placed, At
  <2>4. PICK r : r = [pc |-> "run", fn |-> NoFn, at |-> Stub(f), via |-> NoFn]
    OBVIOUS
  <2>5. thread'[t] = r /\ \A u \in Threads \ {t} : thread'[u] = thread[u]
    BY <1>1, <2>2, <2>4 DEF Run
  <2>6. r.pc = "run" /\ r.at = Stub(f) /\ thread[t].pc \notin NotCalling \cup {"run"}
    BY <2>2, <2>4 DEF At, NotCalling
  <2> QED
    BY <1>3, <2>3, <2>5, <2>6
<1>11. CASE deallocateMemForFunction(t)
  <2>1. At(t, "unmapped") /\ Goto(t, "deallocated")
    BY <1>11 DEF deallocateMemForFunction
  <2>2. thread'[t].pc = "deallocated" /\ \A u \in Threads \ {t} : thread'[u] = thread[u]
    BY <1>1, <2>1, GotoChanges DEF Places
  <2> QED
    BY <1>3, <2>1, <2>2 DEF At, NotCalling
<1>12. CASE EraseRecord(t)
  <2>1. At(t, "deallocated") /\ thread' = [thread EXCEPT ![t] = AtRest]
    BY <1>12 DEF EraseRecord
  <2>2. thread'[t].pc = "idle" /\ \A u \in Threads \ {t} : thread'[u] = thread[u]
    BY <1>1, <2>1, AtRestTypes
  <2> QED
    BY <1>3, <2>1, <2>2 DEF At, NotCalling
<1>13. ASSUME NEW f \in Functions, freeMachineCodeForFunction(t, f)
       PROVE  \A u \in Threads : Doing(u)' = Doing(u)
  <2>1. At(t, "idle") /\ thread' = [thread EXCEPT ![t].pc = "unmapped", ![t].fn = f]
    BY <1>13 DEF freeMachineCodeForFunction
  <2>2. thread'[t].pc = "unmapped" /\ \A u \in Threads \ {t} : thread'[u] = thread[u]
    BY <1>1, <2>1 DEF ThreadState
  <2> QED
    BY <1>3, <2>1, <2>2 DEF At, NotCalling
<1> QED
  BY <1>6, <1>7, <1>8, <1>9, <1>10, <1>11, <1>12, <1>13

\* What is done at an address of the code of g, or at a stub of it.
LEMMA ArrivingNext ==
  ASSUME CodeIsReady', NEW t \in Threads, NEW g \in Functions, NEW n \in Nat,
         thread'[t].pc = "run", thread'[t].at \in CodeFor(g, n) \/ thread'[t].at = Stub(g),
         UNCHANGED bodies
  PROVE  Doing(t)' = Direct!Running(g) \/ (thread'[t].at = Stub(g) /\ Doing(t)' = Direct!Calling(g))
<1>1. PICK a : a = thread'[t].at
  OBVIOUS
<1>2. CASE a = Stub(g)
  <2>1. thread'[t].at.kind = "stub" /\ thread'[t].at.fn = g
    BY <1>1, <1>2, Kinds
  <2> QED
    BY <1>1, <1>2, <2>1, WhatItDoesNext
<1>3. CASE a \in CodeFor(g, n)
  <2>1. \/ \E i \in 1 .. n : a = Body(i) /\ bodies[i].fn = g
        \/ a = Native(g)
    BY <1>3, CodeForFacts
  <2> QED
    BY <1>1, <2>1, WhatItDoesNext, Kinds
<1> QED
  BY <1>1, <1>2, <1>3

\* The steps in which a thread calls, arrives or returns are those of the program.
LEMMA ThreadSimulates ==
  ASSUME EngineAssumption, CodeInv, CodeIsReady, CodeIsReady', [Next]_vars, NEW t \in Threads,
         \/ \E f \in Functions : Ask(t, f) \/ AskOrStub(t, f)
         \/ \E g \in Functions : Call(t, g)
         \/ Return(t) \/ RunCode(t) \/ ThroughStub(t)
  PROVE  \E d :
           /\ \/ d = Doing(t)
              \/ \E f \in Functions : Doing(t) = Direct!Idle /\ d = Direct!Calling(f)
              \/ \E f \in Functions : Doing(t) = Direct!Calling(f) /\ d = Direct!Running(f)
              \/ \E f \in Functions : \E g \in Calls[f] :
                   Doing(t) = Direct!Running(f) /\ d \in {Direct!Calling(g), Direct!Running(g)}
              \/ \E f \in Functions : Doing(t) = Direct!Running(f) /\ d = Direct!Idle
           /\ Doing(t)' = d
           /\ \A u \in Threads \ {t} : Doing(u)' = Doing(u)
<1>1. /\ thread \in [Threads -> ThreadState] /\ TypeInv /\ ReadyInv
      /\ Len(bodies) \in Nat /\ DOMAIN bodies = 1 .. Len(bodies)
      /\ \A i \in DOMAIN bodies : bodies[i] \in BodyState
  BY BodiesCounted DEF CodeInv, EngineInv, TypeInv, TypeOK
<1>2. UNCHANGED bodies
  BY DEF Ask, AskOrStub, Call, Return, RunCode, ThroughStub, tables
<1>3. \A u \in Threads \ {t} : thread'[u] = thread[u]
  BY <1>1 DEF Ask, AskOrStub, Call, Return, RunCode, ThroughStub, Run
<1>4. \A u \in Threads \ {t} : Doing(u)' = Doing(u)
  BY <1>3, OthersGoOn
<1>5. ASSUME NEW a, Run(t, a)
      PROVE  thread'[t].pc = "run" /\ thread'[t].at = a
  BY <1>1, <1>5 DEF Run
<1>6. ASSUME NEW f \in Functions, Ask(t, f) \/ AskOrStub(t, f)
      PROVE  Doing(t) = Direct!Idle /\ Doing(t)' = Direct!Calling(f)
  <2>1. At(t, "idle") /\ thread[t].pc \in NotCalling
    BY <1>6 DEF Ask, AskOrStub, At, NotCalling
  <2>2. thread'[t].fn = f /\ thread'[t].pc \in {"lookup", "ready", "stubbing"}
    <3>1. CASE Ask(t, f)
      BY <1>1, <3>1 DEF Ask, ThreadState
    <3>2. CASE AskOrStub(t, f)
      BY <1>1, <3>2 DEF AskOrStub
    <3> QED
      BY <1>6, <3>1, <3>2
  <2>3. thread'[t].pc \notin NotCalling \cup {"run"}
    BY <2>2 DEF NotCalling
  <2> QED
    BY <2>1, <2>2, <2>3, WhatItDoes, WhatItDoesNext
<1>7. CASE \E f \in Functions : Ask(t, f) \/ AskOrStub(t, f)
  BY <1>4, <1>6, <1>7
<1>8. CASE Return(t)
  <2>1. thread[t].pc = "run" /\ thread[t].at.kind \in {"body", "native"}
    BY <1>8 DEF Return, At
  <2>2. \E f \in Functions : Doing(t) = Direct!Running(f)
    <3>1. thread[t].at \in Address
      BY <1>1 DEF ThreadState
    <3>2. CASE \E i \in DOMAIN bodies : thread[t].at = Body(i)
      <4>1. PICK i \in DOMAIN bodies : thread[t].at = Body(i)
        BY <3>2
      <4>2. bodies[i].fn \in Functions
        BY <1>1 DEF BodyState
      <4> QED
        BY <2>1, <4>1, <4>2, WhatItDoes, Kinds
    <3>3. CASE \E f \in External : thread[t].at = Native(f)
      BY <2>1, <3>3, WhatItDoes, Kinds DEF EngineAssumption
    <3> QED
      BY <2>1, <3>1, <3>2, <3>3, Kinds DEF Address
  <2>3. thread'[t].pc \in NotCalling
    BY <1>1, <1>8, AtRestTypes DEF Return, NotCalling
  <2>4. Doing(t)' = Direct!Idle
    BY <2>3, WhatItDoesNext
  <2> QED
    BY <1>4, <2>2, <2>4
<1>9. CASE RunCode(t)
  <2>1. PICK a : a = thread[t].at
    OBVIOUS
  <2>2. PICK f : f = thread[t].fn
    OBVIOUS
  <2>3. At(t, "ready") /\ Run(t, a)
    BY <1>9, <2>1 DEF RunCode
  <2>4. a # Null
    BY <1>1, <2>1, <2>3 DEF ReadyInv, ThreadInv, Placed, At
  <2>5. PICK n \in 0 .. Len(bodies) : Arrives(a, f, n) /\ \E g \in Functions : Arrives(a, g, n)
    BY <2>1, <2>2, <2>3, <2>4, HeldFacts DEF Holds
  <2>6. f \in Functions
    <3>1. PICK g \in Functions : Arrives(a, g, n)
      BY <2>5
    <3>2. CASE a = Stub(f)
      BY <3>1, <3>2, ArrivesFacts
    <3>3. CASE a \in CodeFor(f, n)
      <4>1. \/ \E i \in 1 .. n : a = Body(i) /\ bodies[i].fn = f
            \/ f \in External
        BY <3>3, CodeForFacts
      <4>2. \A i \in 1 .. n : i \in DOMAIN bodies /\ bodies[i].fn \in Functions
        BY <1>1 DEF BodyState
      <4> QED
        BY <4>1, <4>2 DEF EngineAssumption
    <3> QED
      BY <2>5, <3>2, <3>3 DEF Arrives
  <2>7. thread'[t].pc = "run" /\ thread'[t].at = a
    BY <1>5, <2>3
  <2>8. n \in Nat /\ (a \in CodeFor(f, n) \/ a = Stub(f))
    BY <1>1, <2>5 DEF Arrives
  <2>9. Doing(t)' \in {Direct!Running(f), Direct!Calling(f)}
    BY <1>2, <2>6, <2>7, <2>8, ArrivingNext
  <2>10. Doing(t) = Direct!Calling(f)
    BY <2>2, <2>3, WhatItDoes DEF At, NotCalling
  <2> QED
    BY <1>4, <2>6, <2>9, <2>10
<1>10. ASSUME NEW g \in Functions, Call(t, g)
       PROVE  \E f \in Functions : /\ g \in Calls[f] /\ Doing(t) = Direct!Running(f)
                                   /\ Doing(t)' \in {Direct!Running(g), Direct!Calling(g)}
  <2>1. PICK b : b = thread[t].at.body
    OBVIOUS
  <2>2. PICK a : a = bodies[b].calls[g]
    OBVIOUS
  <2>3. /\ thread[t].pc = "run" /\ thread[t].at.kind = "body" /\ Run(t, a)
        /\ g \in Calls[bodies[b].fn]
    BY <1>10, <2>1, <2>2 DEF Call, At
  <2>4. PICK n \in 0 .. Len(bodies) : Complete(n) /\ Holds(t, n)
    BY <1>1 DEF ReadyInv, HeldInv
  <2>5. b \in Live /\ Arrives(a, g, n)
    BY <1>10, <2>1, <2>2, <2>4, CallArrives
  <2>6. bodies[b].fn \in Functions
    BY <1>1, <2>5 DEF Live, BodyState
  <2>7. Doing(t) = Direct!Running(bodies[b].fn)
    BY <2>1, <2>3, WhatItDoes
  <2>8. thread'[t].pc = "run" /\ thread'[t].at = a
    BY <1>5, <2>3
  <2>9. n \in Nat /\ (a \in CodeFor(g, n) \/ a = Stub(g))
    BY <1>1, <2>5 DEF Arrives
  <2>10. Doing(t)' \in {Direct!Running(g), Direct!Calling(g)}
    BY <1>2, <2>8, <2>9, ArrivingNext
  <2> QED
    BY <2>3, <2>6, <2>7, <2>10
<1>11. CASE \E g \in Functions : Call(t, g)
  BY <1>4, <1>10, <1>11
<1>12. CASE ThroughStub(t)
  <2>1. PICK f : f = thread[t].at.fn
    OBVIOUS
  <2>2. thread[t].pc = "run" /\ thread[t].at.kind = "stub" /\ thread[t].at \in Address
    BY <1>1, <1>12 DEF ThroughStub, At, ThreadState
  <2>3. f \in Functions /\ Doing(t) = Direct!Calling(f)
    BY <2>1, <2>2, AddressFacts, WhatItDoes
  <2>4. CASE HasAddress(f) /\ Run(t, stub[f])
    <3>1. PICK a : a = stub[f]
      OBVIOUS
    <3>2. a \in CodeFor(f, Len(bodies))
      BY <1>1, <2>3, <2>4, <3>1, Kinds DEF ReadyInv, StubInv, HasAddress
    <3>3. thread'[t].pc = "run" /\ thread'[t].at = a
      BY <1>5, <2>4, <3>1
    <3>4. a # Stub(f)
      BY <3>2, CodeForFacts
    <3>5. Doing(t)' = Direct!Running(f)
      BY <1>1, <1>2, <2>3, <3>2, <3>3, <3>4, ArrivingNext
    <3> QED
      BY <1>4, <2>3, <3>5
  <2>5. CASE thread' = [thread EXCEPT ![t] = [pc |-> "callback", fn |-> f, at |-> Null, via |-> f]]
    <3>1. thread'[t].pc = "callback" /\ thread'[t].fn = f
      BY <1>1, <2>5
    <3>2. Doing(t)' = Direct!Calling(f)
      BY <3>1, WhatItDoesNext DEF NotCalling
    <3> QED
      BY <1>4, <2>3, <3>2
  <2> QED
    BY <1>12, <2>1, <2>4, <2>5 DEF ThroughStub
<1> QED
  BY <1>7, <1>8, <1>9, <1>11, <1>12

\* A step that changes what one thread does as the program would.
LEMMA StepOfProgram ==
  ASSUME NEW t \in Threads, NEW d,
         \/ d = Doing(t)
         \/ \E f \in Functions : Doing(t) = Direct!Idle /\ d = Direct!Calling(f)
         \/ \E f \in Functions : Doing(t) = Direct!Calling(f) /\ d = Direct!Running(f)
         \/ \E f \in Functions : \E g \in Calls[f] :
              Doing(t) = Direct!Running(f) /\ d \in {Direct!Calling(g), Direct!Running(g)}
         \/ \E f \in Functions : Doing(t) = Direct!Running(f) /\ d = Direct!Idle,
         Doing(t)' = d, \A u \in Threads \ {t} : Doing(u)' = Doing(u)
  PROVE  Direct!Next \/ UNCHANGED [u \in Threads |-> Doing(u)]
<1>1. [u \in Threads |-> Doing(u)]' = [[u \in Threads |-> Doing(u)] EXCEPT ![t] = d]
  OBVIOUS
<1>2. [u \in Threads |-> Doing(u)][t] = Doing(t)
  OBVIOUS
<1>3. CASE d = Doing(t)
  BY <1>3
<1>4. CASE \E f \in Functions : Doing(t) = Direct!Idle /\ d = Direct!Calling(f)
  <2>1. \E f \in Functions : Direct!Ask(t, f)
    BY <1>1, <1>2, <1>4 DEF Direct!Ask
  <2> QED
    BY <2>1 DEF Direct!Next
<1>5. CASE \E f \in Functions : Doing(t) = Direct!Calling(f) /\ d = Direct!Running(f)
  <2>1. Direct!Arrive(t)
    BY <1>1, <1>2, <1>5 DEF Direct!Arrive
  <2> QED
    BY <2>1 DEF Direct!Next
<1>6. CASE \E f \in Functions : \E g \in Calls[f] :
             Doing(t) = Direct!Running(f) /\ d \in {Direct!Calling(g), Direct!Running(g)}
  <2>1. Direct!CallOn(t)
    BY <1>1, <1>2, <1>6 DEF Direct!CallOn
  <2> QED
    BY <2>1 DEF Direct!Next
<1>7. CASE \E f \in Functions : Doing(t) = Direct!Running(f) /\ d = Direct!Idle
  <2>1. Direct!Return(t)
    BY <1>1, <1>2, <1>7 DEF Direct!Return
  <2> QED
    BY <2>1 DEF Direct!Next
<1> QED
  BY <1>3, <1>4, <1>5, <1>6, <1>7

\* The JIT runs the program: a thread that calls a function can only arrive in
\* that function's code, and code that runs only calls what its function calls.
\* That every call arrives is not proved here: it needs the fairness of Spec.
THEOREM TheProgramIsRun ==
  ASSUME CarefulClients, NearCalls, BoundCodeStays
  PROVE  Spec => Direct!Init /\ [][Direct!Next]_[t \in Threads |-> Doing(t)]
<1>1. Init => Direct!Init
  <2> SUFFICES ASSUME Init
               PROVE  Direct!Init
    OBVIOUS
  <2>1. \A t \in Threads : thread[t].pc = "idle"
    BY AtRestTypes DEF Init
  <2>2. \A t \in Threads : Doing(t) = Direct!Idle
    BY <2>1 DEF Doing, At, Direct!Idle
  <2> QED
    BY <2>2 DEF Direct!Init
<1>2. ASSUME CodeInv, CodeIsReady, CodeIsReady', [Next]_vars
      PROVE  Direct!Next \/ UNCHANGED [t \in Threads |-> Doing(t)]
  <2>1. ASSUME \A u \in Threads : Doing(u)' = Doing(u)
        PROVE  UNCHANGED [t \in Threads |-> Doing(t)]
    BY <2>1
  <2>2. CASE UNCHANGED vars
    <3>1. UNCHANGED thread
      BY <2>2 DEF vars
    <3> QED
      BY <1>2, <2>1, <3>1, OthersGoOn, EngineAssumption
  <2>3. ASSUME NEW t \in Threads,
               \/ \E f \in Functions : Ask(t, f) \/ AskOrStub(t, f)
               \/ \E g \in Functions : Call(t, g)
               \/ Return(t) \/ RunCode(t) \/ ThroughStub(t)
        PROVE  Direct!Next \/ UNCHANGED [u \in Threads |-> Doing(u)]
    BY <1>2, <2>3, EngineAssumption, ThreadSimulates, StepOfProgram
  <2>4. ASSUME NEW t \in Threads,
               \/ Lookup(t) \/ Enter(t) \/ startFunction(t) \/ (\E g \in Functions : Relocate(t, g))
               \/ retryWithMoreMemory(t) \/ finishFunction(t) \/ updateFunctionStub(t)
               \/ NextPending(t) \/ Compiled(t) \/ JITCompilerFn(t) \/ ReacquireLock(t)
               \/ RewriteStub(t) \/ ReexecuteStub(t) \/ deallocateMemForFunction(t)
               \/ EraseRecord(t) \/ ObtainStub(t)
               \/ \E f \in Functions : freeMachineCodeForFunction(t, f)
        PROVE  UNCHANGED [u \in Threads |-> Doing(u)]
    BY <1>2, <2>1, <2>4, EngineAssumption, EngineStutters
  <2> QED
    BY <1>2, <2>2, <2>3, <2>4 DEF Next, ClientStep, EngineStep
<1>3. CodeInv => CodeIsReady
  BY CodeInvSuffices, EngineAssumption
<1> QED
  BY <1>1, <1>2, <1>3, CodeInvariant, PTL DEF Spec
=============================================================================
