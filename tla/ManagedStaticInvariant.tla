------------------------ MODULE ManagedStaticInvariant ------------------------
(***************************************************************************)
(* What is true of the statics, the mutexes and the threads' stacks        *)
(* between any two steps: the inductive invariant of ManagedStatic.        *)
(***************************************************************************)
EXTENDS ManagedStatic

UsePcs == {"read", "acquire", "creator", "link", "release", "deref"}

\* The statics on the list: those that exist, but for one that is about to
\* be on it and one that is being destroyed.
Listed(s) ==
  /\ s \in Statics \ Immortal /\ Ptr[s] # 0
  /\ ~Somewhere(s, "link") /\ ~Somewhere(s, "deleter")

\* A frame's static, and what is left of its script.
FrameOK(f) ==
  /\ f.pc \in UsePcs => f.s \in Statics
  /\ f.pc = "deleter" => f.s \in Statics \ Immortal
  /\ f.pc = "link" => f.s \notin Immortal
  /\ f.pc \notin {"operation", "creator", "deleter"} => f.rest = <<>>
  /\ f.pc = "creator" => Uses(f.rest) \subseteq Uses(Creator[f.s])
  /\ f.pc = "deleter" => Uses(f.rest) \subseteq Uses(Deleter[f.s])
  /\ \A m \in Statics : \A n \in 0 .. Len(f.rest) : Owed(f.rest, m, n) >= 0

\* One frame is under another only while the upper is used by the script of
\* the lower, or destroyed by llvm_shutdown.
LinkOK(f, g) ==
  \/ f.pc = "shutdown" /\ g.pc = "deleter"
  \/ f.pc = "operation" /\ g.pc \in UsePcs
  \/ f.pc = "creator" /\ g.pc \in UsePcs /\ g.s \in Uses(Creator[f.s])
  \/ f.pc = "deleter" /\ g.pc \in UsePcs /\ g.s \in Uses(Deleter[f.s])

StackOK(frames) ==
  /\ \A i \in 1 .. Len(frames) : FrameOK(frames[i])
  /\ frames # <<>> => frames[1].pc \in {"operation", "shutdown"}
  /\ \A i \in 2 .. Len(frames) : LinkOK(frames[i - 1], frames[i])

Stacks == \A t \in Threads : StackOK(stack[t])

\* Without the multithreaded mode, and during llvm_shutdown, one thread uses
\* the library.
Modes ==
  /\ ~multithreaded_mode =>
       \A t, u \in Threads : t = u \/ stack[t] = <<>> \/ stack[u] = <<>>
  /\ \A t \in Threads : \A i \in 1 .. Len(stack[t]) :
       /\ stack[t][i].pc = "shutdown" => Isolated(t) /\ shutdowns < MaxShutdowns
       /\ stack[t][i].pc \in {"acquire", "release"} => multithreaded_mode

\* Which pointers a frame relies on.
FramePtr(f, P) ==
  /\ f.pc \in {"link", "release", "deref", "deleter"} => P[f.s] # 0
  /\ f.pc = "creator" => P[f.s] = 0

\* A mutex that is locked by what is left of a frame's script is used before,
\* is being used, or has been.
LocksReady(frames, i, P) ==
  LET rest == frames[i].rest IN
  \A k \in 1 .. Len(rest) : rest[k].op = "lock" =>
    \/ \E j \in 1 .. k - 1 : rest[j] = Use(rest[k].on)
    \/ i < Len(frames) /\ frames[i + 1].pc \in UsePcs /\ frames[i + 1].s = rest[k].on
    \/ P[rest[k].on] # 0

Pointers ==
  /\ \A t \in Threads : \A i \in 1 .. Len(stack[t]) :
       FramePtr(stack[t][i], Ptr) /\ LocksReady(stack[t], i, Ptr)
  /\ \A s \in Statics : ~(Somewhere(s, "link") /\ Somewhere(s, "deleter"))
  /\ objects = {<<s, Ptr[s]>> : s \in {s \in Statics : Ptr[s] # 0}}

\* How often a frame has still to unlock m.
Owes(f, m) ==
  IF m = GlobalLock THEN IF f.pc \in {"creator", "link", "release"} THEN 1 ELSE 0
  ELSE Owed(f.rest, m, Len(f.rest))

\* The frames have to unlock m n times: sum[i] is what the lowest i frames owe.
Owing(frames, m, n) ==
  \E sum \in [0 .. Len(frames) -> Nat] :
    /\ sum[0] = 0 /\ sum[Len(frames)] = n
    /\ \A i \in 1 .. Len(frames) : sum[i] = sum[i - 1] + Owes(frames[i], m)
    /\ \A i, j \in 0 .. Len(frames) : i <= j => sum[i] <= sum[j]

\* Each mutex is held as often as the frames of its owner will release it.
Mutexes ==
  /\ ~multithreaded_mode => \A m \in Statics \cup {GlobalLock} : mutex[m].owner = Nobody
  /\ multithreaded_mode =>
       \A m \in Statics \cup {GlobalLock} : \A t \in Threads :
         Owing(stack[t], m, IF mutex[m].owner = t THEN mutex[m].depth ELSE 0)
  /\ \A m \in Statics : mutex[m].owner # Nobody => Ptr[m] # 0

\* The list, from the latest on: each static on it once, and behind the statics
\* its constructor used.
IsList(order) ==
  /\ order \in Seq(Statics)
  /\ \A i, j \in 1 .. Len(order) : order[i] = order[j] => i = j
  /\ StaticList = IF order = <<>> THEN None ELSE order[1]
  /\ \A i \in 1 .. Len(order) :
       NextStatic[order[i]] = IF i < Len(order) THEN order[i + 1] ELSE None
  /\ \A s \in Statics : Listed(s) <=> \E i \in 1 .. Len(order) : order[i] = s
  /\ \A i \in 1 .. Len(order) : \A o \in needs[order[i]] :
       o[1] \in Immortal \/ \E j \in i + 1 .. Len(order) : order[j] = o[1]

Lists ==
  /\ \E order \in Seq(Statics) : IsList(order)
  /\ \A s \in Statics : DeleterFn[s] => Listed(s) \/ Somewhere(s, "deleter")

\* What an object needs, and what a constructor has got so far, is there, and
\* will be until the object is destroyed.
Needs ==
  /\ \A s \in Statics : Ptr[s] = 0 => needs[s] = {}
  /\ OutlivesItsUsers
  /\ \A t \in Threads : \A i \in 1 .. Len(stack[t]) :
       /\ stack[t][i].pc = "creator" => \A o \in stack[t][i].got :
            o \in objects /\ (o[1] \in Immortal \/ Listed(o[1]))
       /\ stack[t][i].pc = "link" => \A o \in needs[stack[t][i].s] :
            o[1] \in Immortal \/ Listed(o[1])

StaticsInv == TypeOK /\ Stacks /\ Modes /\ Pointers /\ Mutexes /\ Lists /\ Needs
=============================================================================
