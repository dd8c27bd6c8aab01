------------------------------ MODULE Program ------------------------------
(***************************************************************************)
(* What a program that runs on the JIT means, without the JIT: a thread    *)
(* that calls a function runs that function's code, and nothing else.      *)
(* JITEngine, which compiles the functions while the threads run them, is  *)
(* shown to implement this specification.                                  *)
(***************************************************************************)
CONSTANTS
  Threads,
  Functions,
  Calls         \* Calls[f] is the set of functions the body of f calls

VARIABLE doing   \* what each thread does: [phase, fn], or Idle

Idle       == [phase |-> "idle"]
Calling(f) == [phase |-> "calling", fn |-> f]
Running(f) == [phase |-> "running", fn |-> f]

Init == doing = [t \in Threads |-> Idle]

Ask(t, f) ==
  /\ doing[t] = Idle
  /\ doing' = [doing EXCEPT ![t] = Calling(f)]

Arrive(t) ==
  \E f \in Functions :
    /\ doing[t] = Calling(f)
    /\ doing' = [doing EXCEPT ![t] = Running(f)]

\* The code a thread runs calls another function: the call is under way, or
\* the thread is there already.
CallOn(t) ==
  \E f \in Functions : \E g \in Calls[f] :
    /\ doing[t] = Running(f)
    /\ \/ doing' = [doing EXCEPT ![t] = Calling(g)]
       \/ doing' = [doing EXCEPT ![t] = Running(g)]

Return(t) ==
  \E f \in Functions :
    /\ doing[t] = Running(f)
    /\ doing' = [doing EXCEPT ![t] = Idle]

Next ==
  \E t \in Threads :
    \/ \E f \in Functions : Ask(t, f)
    \/ Arrive(t)
    \/ CallOn(t)
    \/ Return(t)

\* Every call arrives.
Fairness == \A t \in Threads : WF_doing(Arrive(t))

Spec == Init /\ [][Next]_doing /\ Fairness
=============================================================================
