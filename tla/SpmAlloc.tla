------------------------------ MODULE SpmAlloc ------------------------------
(***************************************************************************)
(* Allocation of a program's data to memories of different cost, of        *)
(* lib/CodeGen/SpmAlloc.cpp and SPM.cpp: Xue's colouring heuristic (which  *)
(* SpmAllocator::run uses), multi-phase colouring, and first come first    *)
(* served. An address of a memory is a colour, or a node of FCFS; data     *)
(* that interfere, being live together or in functions that call one       *)
(* another, must not share one.                                            *)
(*                                                                         *)
(* Data are numbered in the order of g_DataList, which is also taken for   *)
(* the order of their addresses; the list being coloured only loses        *)
(* members, so it is a set and its front the least number. A list of costs *)
(* is sorted by kind and only popped, so the kind at its front tells it.   *)
(***************************************************************************)
EXTENDS Integers, Sequences, FiniteSets, FiniteSetsExt

CONSTANTS
  NumData,
  Func,
  Programs,    \* what the profile files may say
  Memories,    \* what memory.config may say
  UnsignedMod  \* 2^32

Data == 1..NumData

SRAM == 0
PCM  == 1
DRAM == 2
MemoryKind == SRAM..DRAM
NoKind == DRAM + 1   \* "the kind at the front" of an empty list of costs

Program == [func : [Data -> Func], calls : SUBSET (Func \X Func),
            inter : [Data -> SUBSET Data],
            reads : [Data -> Nat], writes : [Data -> Nat], size : [Data -> Nat]]
Memory == [size : [MemoryKind -> Nat],
           costOfRead : [MemoryKind -> Nat], costOfWrite : [MemoryKind -> Nat]]

ASSUME SpmAssumption ==
  /\ NumData \in Nat \ {0}
  /\ Programs \subseteq Program
  /\ Memories \subseteq Memory
  /\ UnsignedMod \in Nat /\ UnsignedMod > NumData

VARIABLES
  program, memory,
  g_hFuncCall,    \* which function reaches which by calls
  algorithm,
  pc,
  front,          \* the kind at the front of each m_MemoryCostList
  kind,           \* the memory being coloured
  subgraph_list,  \* those left in this round of MPC
  m_hSubgraph,    \* the data of each memory
  data_list,
  data_stack,     \* top last, each with its degree when it was pushed
  hDegree,
  bSpilled,
  placed,         \* <<kind, position, datum>>: m_ColorList, or m_AllocList
  m_AllocList,    \* the sizes of its nodes
  m_nReserved

given == <<program, memory, g_hFuncCall, algorithm>>
fcfs == <<m_AllocList, m_nReserved>>
vars == <<given, pc, front, kind, subgraph_list, m_hSubgraph, data_list,
          data_stack, hDegree, bSpilled, placed, fcfs>>
-----------------------------------------------------------------------------
(* The transitive closure of the call graph.                               *)
GetFuncCall(calls) ==
  LET Through(k, rel) == rel \cup {p \in Func \X Func : <<p[1], k>> \in rel /\ <<k, p[2]>> \in rel}
  IN  (Func \X Func) \cap FoldSet(Through, calls, Func)

LiveTogether(d, e) == e \in program.inter[d] \/ d \in program.inter[e]

Calls(d, e) == <<program.func[d], program.func[e]>> \in g_hFuncCall

IsInterfere(d, e) == LiveTogether(d, e) \/ Calls(d, e) \/ Calls(e, d)

IsFirst(d, S) == d \in S /\ \A e \in S : d <= e

At(k, i) == {d \in Data : <<k, i, d>> \in placed}

MemoryCost(d, k) == memory.costOfRead[k] * program.reads[d] + memory.costOfWrite[k] * program.writes[d]

getBenefit(d) == IF front[d] < DRAM THEN MemoryCost(d, front[d] + 1) - MemoryCost(d, front[d]) ELSE 0
-----------------------------------------------------------------------------
(* Colouring one memory: XueAlloc and MpcAlloc have this in common.        *)

\* Mutant: only pairs in the order of the list.
InterLater(d) == {e \in m_hSubgraph[kind] : d < e /\ IsInterfere(d, e)}

hInter(d) == {e \in m_hSubgraph[kind] : IsInterfere(d, e)}

\* Mutant: data of other memories count.
StartKindOfAll(k, sub) ==
  /\ kind' = k
  /\ m_hSubgraph' = [m_hSubgraph EXCEPT ![k] = sub]
  /\ data_list' = sub
  /\ hDegree' = [d \in Data |-> Cardinality({e \in Data : d \in sub /\ IsInterfere(d, e)})]
  /\ pc' = "colour"

StartKind(k, sub) ==
  /\ kind' = k
  /\ m_hSubgraph' = [m_hSubgraph EXCEPT ![k] = sub]
  /\ data_list' = sub
  /\ hDegree' = [d \in Data |-> Cardinality({e \in sub : d \in sub /\ IsInterfere(d, e)})]
  /\ pc' = "colour"

\* Mutant: the last address is not used.
AllButOne == memory.size[kind] - 1

nColor == memory.size[kind]

Colorable(d) == hDegree[d] <= nColor

Weight(d) == IF algorithm = "Xue" THEN program.reads[d] + program.writes[d] ELSE getBenefit(d)

(* Weight(d) / hDegree[d] < Weight(e) / hDegree[e], for doubles: a quotient *)
(* by zero is infinite, or compares to nothing.                            *)
LessFactor(d, e) ==
  \/ hDegree[d] = 0 /\ hDegree[e] # 0 /\ Weight(d) < 0
  \/ hDegree[d] # 0 /\ hDegree[e] # 0 /\ Weight(d) * hDegree[e] < Weight(e) * hDegree[d]

(* The front is the candidate until a datum has a lower factor.            *)
Candidates == {d \in data_list : IsFirst(d, data_list) \/ \E e \in data_list : LessFactor(d, e)}

GetSpilled(d) == IsFirst(d, {c \in Candidates : \A e \in data_list : ~LessFactor(e, c)})

Push(d) ==
  /\ data_stack' = Append(data_stack, <<d, hDegree[d]>>)
  /\ hDegree' = [e \in Data |-> IF e \in hInter(d) THEN (hDegree[e] - 1) % UnsignedMod ELSE hDegree[e]]
  /\ data_list' = data_list \ {d}
  /\ UNCHANGED <<given, pc, front, kind, subgraph_list, m_hSubgraph, bSpilled, placed, fcfs>>

Simplify ==
  /\ pc = "colour"
  /\ \E d \in data_list : IsFirst(d, data_list) /\ Colorable(d) /\ Push(d)

PotentialSpill ==
  /\ pc = "colour"
  /\ \E d \in data_list : IsFirst(d, data_list) /\ ~Colorable(d)
  /\ \E d \in data_list : GetSpilled(d) /\ Push(d)

Top == data_stack[Len(data_stack)]

Pop ==
  /\ pc = "colour" /\ data_list = {} /\ data_stack # <<>>
  /\ data_stack' = SubSeq(data_stack, 1, Len(data_stack) - 1)
  /\ UNCHANGED <<given, pc, kind, subgraph_list, m_hSubgraph, data_list, hDegree, fcfs>>

\* Mutant: colours are not shared.
FitsAlone(i, d) == At(kind, i) = {}

Fits(i, d) == At(kind, i) \cap hInter(d) = {}

Select ==
  /\ Pop
  /\ \E i \in 0..(nColor - 1) :
       /\ Fits(i, Top[1]) /\ \A j \in 0..(i - 1) : ~Fits(j, Top[1])
       /\ placed' = placed \cup {<<kind, i, Top[1]>>}
  /\ UNCHANGED <<front, bSpilled>>

\* Mutant: the cost stays in the list.
SpillInPlace ==
  /\ Pop
  /\ \A i \in 0..(nColor - 1) : ~Fits(i, Top[1])
  /\ bSpilled' = TRUE
  /\ UNCHANGED <<front, placed>>

ActualSpill ==
  /\ Pop
  /\ \A i \in 0..(nColor - 1) : ~Fits(i, Top[1])
  /\ front' = [front EXCEPT ![Top[1]] = @ + 1]
  /\ bSpilled' = TRUE
  /\ UNCHANGED placed

Colored == pc = "colour" /\ data_list = {} /\ data_stack = <<>>
-----------------------------------------------------------------------------
(* XueAlloc: the memories one after the other, cheapest first.             *)

XueKind ==
  /\ pc = "kind" /\ algorithm = "Xue"
  /\ StartKind(kind, {d \in Data : front[d] = kind})
  /\ bSpilled' = FALSE
  /\ UNCHANGED <<given, front, subgraph_list, data_stack, placed, fcfs>>

XueNext ==
  /\ Colored /\ algorithm = "Xue"
  /\ IF kind < DRAM THEN kind' = kind + 1 /\ pc' = "kind"
     ELSE kind' = kind /\ pc' = IF bSpilled THEN "spin" ELSE "done"
  /\ UNCHANGED <<given, front, subgraph_list, m_hSubgraph, data_list, data_stack,
                 hDegree, bSpilled, placed, fcfs>>

(* What is written as the end of a do loop is a loop of its own.           *)
Spin == pc = "spin" /\ UNCHANGED vars
-----------------------------------------------------------------------------
(* MpcAlloc: rounds over all memories, until none of them spills.          *)

\* Mutant: bSpilled is not reset.
MpcRoundSpilled ==
  /\ pc = "round"
  /\ m_hSubgraph' = [k \in MemoryKind |-> {d \in Data : front[d] = k /\ k # DRAM}]
  /\ placed' = placed \cup {<<DRAM, 0, d>> : d \in {d \in Data : front[d] = DRAM}}
  /\ subgraph_list' = {k \in MemoryKind \ {DRAM} : \E d \in Data : front[d] = k}
  /\ pc' = "kind"
  /\ UNCHANGED <<given, front, kind, data_list, data_stack, hDegree, bSpilled, fcfs>>

MpcRound ==
  /\ pc = "round"
  /\ m_hSubgraph' = [k \in MemoryKind |-> {d \in Data : front[d] = k /\ k # DRAM}]
  /\ placed' = placed \cup {<<DRAM, 0, d>> : d \in {d \in Data : front[d] = DRAM}}
  /\ subgraph_list' = {k \in MemoryKind \ {DRAM} : \E d \in Data : front[d] = k}
  /\ bSpilled' = FALSE
  /\ pc' = "kind"
  /\ UNCHANGED <<given, front, kind, data_list, data_stack, hDegree, fcfs>>

(* Of memories with as many data the cheaper one comes first.              *)
Biggest(k) == \A j \in subgraph_list :
  \/ Cardinality(m_hSubgraph[j]) < Cardinality(m_hSubgraph[k])
  \/ Cardinality(m_hSubgraph[j]) = Cardinality(m_hSubgraph[k]) /\ k <= j

MpcKind ==
  /\ pc = "kind" /\ algorithm = "MPC"
  /\ \E k \in subgraph_list :
       /\ Biggest(k)
       /\ StartKind(k, m_hSubgraph[k])
       /\ subgraph_list' = subgraph_list \ {k}
  /\ UNCHANGED <<given, front, data_stack, bSpilled, placed, fcfs>>

\* Mutant: the colours of a memory that spilled are kept.
MpcNextKeeping ==
  /\ Colored /\ algorithm = "MPC"
  /\ pc' = "kind"
  /\ UNCHANGED <<given, front, kind, subgraph_list, m_hSubgraph, data_list,
                 data_stack, hDegree, bSpilled, placed, fcfs>>

MpcNext ==
  /\ Colored /\ algorithm = "MPC"
  /\ placed' = IF bSpilled THEN {p \in placed : p[1] # kind} ELSE placed
  /\ pc' = "kind"
  /\ UNCHANGED <<given, front, kind, subgraph_list, m_hSubgraph, data_list,
                 data_stack, hDegree, bSpilled, fcfs>>

MpcEnd ==
  /\ pc = "kind" /\ algorithm = "MPC" /\ subgraph_list = {}
  /\ pc' = IF bSpilled THEN "round" ELSE "done"
  /\ UNCHANGED <<given, front, kind, subgraph_list, m_hSubgraph, data_list,
                 data_stack, hDegree, bSpilled, placed, fcfs>>
-----------------------------------------------------------------------------
(* FcfsAlloc: the most beneficial datum first.                             *)

MostBeneficial(d) == IsFirst(d, {c \in data_list : \A e \in data_list : getBenefit(e) <= getBenefit(c)})

Nodes(k) == 1..Len(m_AllocList[k])

Joins(d, k, i) == \A e \in At(k, i) : ~IsInterfere(d, e)

\* Mutant: what joins a node fits in it.
NoGrowth(d, size) == 0

Growth(d, size) == IF size < program.size[d] THEN program.size[d] - size ELSE 0

addData(d, k, i, nodes) ==
  /\ Growth(d, nodes[i]) <= m_nReserved[k]
  /\ m_nReserved' = [m_nReserved EXCEPT ![k] = @ - Growth(d, nodes[i])]
  /\ m_AllocList' = [m_AllocList EXCEPT ![k] = [nodes EXCEPT ![i] = nodes[i] + Growth(d, nodes[i])]]
  /\ placed' = placed \cup {<<k, i, d>>}
  /\ data_list' = data_list \ {d}
  /\ pc' = pc

OutOfMemory(d, k) ==
  /\ pc' = IF k = DRAM THEN "done" ELSE pc
  /\ UNCHANGED <<m_nReserved, m_AllocList, placed, data_list>>

AllocateInNode(d, k) ==
  \E i \in Nodes(k) :
    /\ Joins(d, k, i) /\ \A j \in 1..(i - 1) : ~Joins(d, k, j)
    /\ \/ addData(d, k, i, m_AllocList[k])
       \/ m_nReserved[k] < Growth(d, m_AllocList[k][i]) /\ OutOfMemory(d, k)

AllocateNewNode(d, k) ==
  /\ \A i \in Nodes(k) : ~Joins(d, k, i)
  /\ IF program.size[d] <= m_nReserved[k]
     THEN addData(d, k, Len(m_AllocList[k]) + 1, Append(m_AllocList[k], 0))
     ELSE OutOfMemory(d, k)

Allocate ==
  /\ pc = "allocate"
  /\ \E d \in data_list :
       /\ MostBeneficial(d)
       /\ AllocateInNode(d, front[d]) \/ AllocateNewNode(d, front[d])
       /\ front' = [front EXCEPT ![d] = @ + 1]
  /\ UNCHANGED <<given, kind, subgraph_list, m_hSubgraph, data_stack, hDegree, bSpilled>>

FcfsEnd ==
  /\ pc = "allocate" /\ data_list = {}
  /\ pc' = "done"
  /\ UNCHANGED <<given, front, kind, subgraph_list, m_hSubgraph, data_list,
                 data_stack, hDegree, bSpilled, placed, fcfs>>
-----------------------------------------------------------------------------
Init ==
  /\ program \in Programs
  /\ memory \in Memories
  /\ g_hFuncCall = GetFuncCall(program.calls)
  /\ algorithm \in {"Xue", "MPC", "FCFS"}
  /\ pc = (CASE algorithm = "Xue" -> "kind" [] algorithm = "MPC" -> "round" [] OTHER -> "allocate")
  /\ front = [d \in Data |-> SRAM]
  /\ kind = SRAM
  /\ subgraph_list = {}
  /\ m_hSubgraph = [k \in MemoryKind |-> {}]
  /\ data_list = IF algorithm = "FCFS" THEN Data ELSE {}
  /\ data_stack = <<>>
  /\ hDegree = [d \in Data |-> 0]
  /\ bSpilled = FALSE
  /\ placed = {}
  /\ m_AllocList = [k \in MemoryKind |-> <<>>]
  /\ m_nReserved = memory.size

Returned == pc = "done" /\ UNCHANGED vars

Next ==
  \/ Simplify \/ PotentialSpill \/ Select \/ ActualSpill
  \/ XueKind \/ XueNext \/ Spin
  \/ MpcRound \/ MpcKind \/ MpcNext \/ MpcEnd
  \/ Allocate \/ FcfsEnd
  \/ Returned

Spec == Init /\ [][Next]_vars /\ WF_vars(Next)
-----------------------------------------------------------------------------
(* The values are of the types the code gives them.                        *)
TypeOK ==
  /\ program \in Program /\ memory \in Memory
  /\ g_hFuncCall \subseteq Func \X Func
  /\ algorithm \in {"Xue", "MPC", "FCFS"}
  /\ pc \in {"round", "kind", "colour", "allocate", "spin", "done"}
  /\ front \in [Data -> MemoryKind \cup {NoKind}]
  /\ kind \in MemoryKind
  /\ subgraph_list \subseteq MemoryKind
  /\ m_hSubgraph \in [MemoryKind -> SUBSET Data]
  /\ data_list \subseteq Data
  /\ data_stack \in Seq(Data \X (0..(UnsignedMod - 1)))
  /\ hDegree \in [Data -> 0..(UnsignedMod - 1)]
  /\ bSpilled \in BOOLEAN
  /\ placed \subseteq MemoryKind \X Nat \X Data
  /\ m_AllocList \in [MemoryKind -> Seq(Nat)]
  /\ m_nReserved \in [MemoryKind -> Nat]

(* Data that interfere never have the same address, whichever allocator    *)
(* and in whatever order they were coloured, spilled and coloured again.   *)
(* MPC does not look at what it leaves in DRAM.                            *)
NoConflict ==
  \A p, q \in placed :
    p[1] = q[1] /\ p[2] = q[2] /\ p[3] # q[3] /\ ~(algorithm = "MPC" /\ p[1] = DRAM)
      => ~IsInterfere(p[3], q[3])

(* The degree of a datum, still in the list or not, is the number of those *)
(* in the list that it interferes with: as many decrements as there were   *)
(* neighbours, the datum itself included if its function is recursive, so  *)
(* that unsigned degrees never wrap around.                                *)
DegreesCount ==
  pc = "colour" => \A d \in m_hSubgraph[kind] : hDegree[d] = Cardinality(hInter(d) \cap data_list)

(* The cost at the front of a list is only looked at and popped while      *)
(* there is one: getBenefit's assertion, and front() and pop_front() of    *)
(* SpmAlloc.cpp.                                                           *)
CostsAreLeft ==
  /\ pc \in {"kind", "round"} => \A d \in Data : front[d] # NoKind
  /\ pc = "colour" => \A d \in data_list : front[d] = kind
  /\ pc = "allocate" => \A d \in data_list : front[d] # NoKind

PlacesOf(d) == {p \in placed : p[3] = d}
In(d, k) == \A p \in PlacesOf(d) : p[1] = k

(* In the end every datum has one address, in the memory its list of costs *)
(* says, unless it was spilled from all of them. MPC may colour a datum    *)
(* that interferes with itself, being of a recursive function, again in a  *)
(* later round, and leaves it both colours.                                *)
EveryoneHasAPlace ==
  pc \in {"done", "spin"} => \A d \in Data :
    CASE algorithm = "Xue"  -> /\ In(d, front[d])
                               /\ Cardinality(PlacesOf(d)) = IF front[d] = NoKind THEN 0 ELSE 1
      [] algorithm = "MPC"  -> /\ In(d, front[d]) /\ PlacesOf(d) # {}
                               /\ IsInterfere(d, d) \/ Cardinality(PlacesOf(d)) = 1
      [] algorithm = "FCFS" -> /\ In(d, front[d] - 1)
                               /\ Cardinality(PlacesOf(d)) = IF d \in data_list THEN 0 ELSE 1

(* Xue's allocator spills for a reason: in the end, a datum is in a dearer *)
(* memory only if every address of each cheaper one holds something it     *)
(* interferes with.                                                        *)
SpilledForAReason ==
  pc \in {"done", "spin"} /\ algorithm = "Xue" =>
    \A d \in Data : \A k \in MemoryKind : k < front[d] =>
      \A i \in 0..(memory.size[k] - 1) : \E e \in At(k, i) : IsInterfere(d, e)

EachColorTakenOnce(d) ==
  \A i \in 0..(nColor - 1) : \E e \in Data : At(kind, i) \cap hInter(d) = {e}

(* A datum that Xue's allocator pushes with a degree below the number of   *)
(* colours gets a colour when it is popped. One whose degree is the number *)
(* of colours, which "if colorable" lets pass as well, is spilled only if  *)
(* its neighbours have all the colours, each of them another one. (MPC     *)
(* keeps colours from round to round, and gives no such guarantee.)        *)
ColorableIsColored ==
  [][algorithm = "Xue" /\ Len(data_stack') < Len(data_stack) /\ Top[2] <= nColor
       => \/ \E i \in 0..(nColor - 1) : <<kind, i, Top[1]>> \in placed'
          \/ Top[2] = nColor /\ EachColorTakenOnce(Top[1])]_vars

SumOfNodes(k) == MapThenSumSet(LAMBDA i : Max({program.size[d] : d \in At(k, i)}), Nodes(k))

(* Addresses stay below the size of the memory. Under first come first     *)
(* served, what a memory has given away, growing nodes when a larger datum *)
(* joins, is the sum of the largest data of its nodes.                     *)
FitsInMemory ==
  \A k \in MemoryKind :
    IF algorithm = "FCFS" THEN SumOfNodes(k) + m_nReserved[k] = memory.size[k]
    ELSE algorithm = "Xue" \/ k # DRAM => \A p \in placed : p[1] = k => p[2] < memory.size[k]

(* The allocators return; Xue's does unless a datum was spilled from the   *)
(* last memory, when it waits for ever for its own flag to change.         *)
Returns == <>(pc = "done" \/ (algorithm = "Xue" /\ \E d \in Data : front[d] = NoKind))
=============================================================================
