-------------------------- MODULE SpmAllocInvariant --------------------------
(***************************************************************************)
(* The inductive invariant behind NoConflict. That two data which interfere *)
(* are told apart needs more than the step that colours one of them: the    *)
(* colours it is compared with must all be of its own subgraph, and so      *)
(* where data are, the cost lists and the subgraphs must agree over         *)
(* spilling, moving on, and MPC's rounds.                                   *)
(***************************************************************************)
EXTENDS SpmAlloc

(* Which allocator runs tells where it can be.                             *)
Phases ==
  /\ pc = "round" => algorithm = "MPC"
  /\ pc \in {"kind", "colour"} => algorithm \in {"Xue", "MPC"}
  /\ pc = "allocate" => algorithm = "FCFS"
  /\ pc = "spin" => algorithm = "Xue"
  /\ pc # "colour" => data_stack = <<>>

OnStack == {data_stack[i][1] : i \in DOMAIN data_stack}

(* What is being coloured: each datum of the list or the stack once, and   *)
(* with the current memory at the front of its costs.                      *)
BeingColored ==
  pc = "colour" =>
    /\ data_list \cup OnStack \subseteq m_hSubgraph[kind]
    /\ data_list \cap OnStack = {}
    /\ \A i, j \in DOMAIN data_stack : i # j => data_stack[i][1] # data_stack[j][1]
    /\ \A d \in data_list \cup OnStack : front[d] = kind

(* How far down the memories the data have come.                           *)
CostsInv ==
  /\ algorithm = "Xue" => \A d \in Data : front[d] <= (IF pc = "kind" THEN kind ELSE kind + 1)
  /\ algorithm = "MPC" => \A d \in Data : front[d] # NoKind

(* Xue's allocator has not coloured the memories to come, and in the       *)
(* current one only data of its subgraph.                                  *)
XueInv ==
  algorithm = "Xue" => \A p \in placed :
    /\ p[1] <= kind
    /\ pc = "kind" => p[1] < kind
    /\ pc = "colour" /\ p[1] = kind => p[3] \in m_hSubgraph[kind]

(* MPC's colours agree with the costs, except in a memory that is about to *)
(* be cleared; the subgraphs of a round contain all that is coloured, and  *)
(* those still to be handled are as they were.                             *)
MpcInv ==
  algorithm = "MPC" =>
    /\ \A p \in placed : p[1] # DRAM =>
         /\ front[p[3]] = p[1] \/ (pc = "colour" /\ p[1] = kind /\ bSpilled)
         /\ pc \in {"kind", "colour"} => p[3] \in m_hSubgraph[p[1]]
    /\ pc \in {"kind", "colour"} => \A k \in subgraph_list :
         /\ k # DRAM /\ (pc = "colour" => k # kind)
         /\ \A d \in m_hSubgraph[k] : front[d] = k
    /\ pc = "colour" => kind # DRAM

(* First come first served uses the nodes there are.                       *)
FcfsInv == algorithm = "FCFS" => \A p \in placed : p[2] \in Nodes(p[1])

(* The inductive invariant of the allocators, of SpmAlloc.cpp.             *)
SpmInv ==
  /\ TypeOK /\ Phases /\ BeingColored /\ CostsInv /\ CostsAreLeft
  /\ XueInv /\ MpcInv /\ FcfsInv
  /\ NoConflict

Holds(k) == {p[3] : p \in {q \in placed : q[1] = k}}
IsPlaced(d) == \E p \in placed : p[3] = d
ToColor == data_list \cup OnStack

(* What was still in the list when a datum was pushed comes off the stack  *)
(* before it: the degree it was pushed with bounds those that can be in    *)
(* its way when it is coloured.                                            *)
Since(i) == data_list \cup {data_stack[j][1] : j \in (i + 1)..Len(data_stack)} \cup Holds(kind)

DegreesInv ==
  /\ DegreesCount
  /\ pc = "colour" /\ algorithm = "Xue" =>
       /\ data_list # {} => Holds(kind) = {}
       /\ \A i \in DOMAIN data_stack :
            Cardinality(hInter(data_stack[i][1]) \cap Since(i)) <= data_stack[i][2]

(* A spilled datum finds its neighbours where they were.                   *)
ReasonInv ==
  algorithm = "Xue" =>
    \A d \in Data : \A k \in MemoryKind : k < front[d] =>
      \A i \in 0..(memory.size[k] - 1) : \E e \in At(k, i) : IsInterfere(d, e)

(* Who has a place, and who is still to get one: Xue's allocator gives     *)
(* every datum that has left the memories behind it one place, ...         *)
XuePlaces ==
  algorithm = "Xue" =>
    /\ \A p \in placed : front[p[3]] = p[1]
    /\ \A p, q \in placed : p[3] = q[3] => p = q
    /\ pc = "kind" => \A d \in Data : front[d] < kind => IsPlaced(d)
    /\ pc # "kind" => \A d \in Data : front[d] <= kind => IsPlaced(d) \/ (pc = "colour" /\ d \in ToColor)
    /\ pc = "colour" => \A d \in ToColor : ~IsPlaced(d)
    /\ pc \in {"done", "spin"} => kind = DRAM

(* ... MPC, in a round that has not spilled, all data of the memories it   *)
(* has handled; one that it colours again finds the colours below its own  *)
(* as taken as they were, ...                                              *)
MpcPlaces ==
  algorithm = "MPC" =>
    /\ \A p \in placed : p[1] = DRAM => p[2] = 0 /\ front[p[3]] = DRAM
    /\ \A p \in placed : p[1] # DRAM =>
         \A j \in 0..(p[2] - 1) : \E e \in At(p[1], j) : IsInterfere(p[3], e)
    /\ \A p, q \in placed : p[1] = q[1] /\ p[3] = q[3] => p = q \/ IsInterfere(p[3], p[3])
    /\ pc \in {"kind", "colour"} /\ ~bSpilled => \A d \in Data :
         \/ IsPlaced(d)
         \/ front[d] \in subgraph_list /\ d \in m_hSubgraph[front[d]]
         \/ pc = "colour" /\ d \in ToColor
    /\ pc = "done" => \A d \in Data : IsPlaced(d)

(* ... and first come first served those that have left the list.          *)
FcfsPlaces ==
  algorithm = "FCFS" =>
    /\ \A p \in placed : p[3] \notin data_list /\ front[p[3]] = p[1] + 1
    /\ \A p, q \in placed : p[3] = q[3] => p = q
    /\ \A d \in Data : d \in data_list \/ IsPlaced(d)

(* A node is as large as the largest datum in it.                          *)
NodesInv ==
  algorithm = "FCFS" => \A k \in MemoryKind : \A i \in Nodes(k) :
    /\ \A d \in At(k, i) : program.size[d] <= m_AllocList[k][i]
    /\ \E d \in At(k, i) : program.size[d] = m_AllocList[k][i]

AllocatorInv ==
  /\ SpmInv
  /\ DegreesInv /\ ReasonInv
  /\ XuePlaces /\ MpcPlaces /\ FcfsPlaces
  /\ NodesInv /\ FitsInMemory
=============================================================================
