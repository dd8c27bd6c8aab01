--------------------------- MODULE SpmAllocProofs ---------------------------
(***************************************************************************)
(* For every program, every set of memories and each of the allocators:    *)
(* data that interfere do not share an address; degrees are counted; a     *)
(* datum is spilled for a reason, and colourable ones are not; every datum *)
(* has its place; and the memories are large enough.                       *)
(***************************************************************************)
EXTENDS SpmAllocInvariant, FiniteSetTheorems, WellFoundedInduction, TLAPS

USE SpmAssumption DEF Data, MemoryKind, SRAM, PCM, DRAM, NoKind

-----------------------------------------------------------------------------
(* Facts about the operators                                               *)

LEMMA InterfereSym ==
  ASSUME NEW d, NEW e, IsInterfere(d, e)
  PROVE  IsInterfere(e, d)
BY DEF IsInterfere, LiveTogether, Calls

(* What is given does not change, and so neither does who interferes.      *)
LEMMA InterfereSame ==
  ASSUME UNCHANGED given, NEW d, NEW e
  PROVE  IsInterfere(d, e)' = IsInterfere(d, e)
BY DEF given, IsInterfere, LiveTogether, Calls

(* There are no more degrees than data: counting does not overflow.        *)
LEMMA DegreeType ==
  ASSUME NEW S \in SUBSET Data
  PROVE  Cardinality(S) \in 0..(UnsignedMod - 1)
<1>1. IsFiniteSet(1..NumData) /\ Cardinality(1..NumData) = NumData
  BY FS_Interval
<1>2. Cardinality(S) \in Nat /\ Cardinality(S) <= NumData
  BY <1>1, FS_Subset, FS_CardinalityType
<1> QED BY <1>2

LEMMA WrapType ==
  ASSUME NEW x \in Int
  PROVE  x % UnsignedMod \in 0..(UnsignedMod - 1)
<1>1. UnsignedMod \in Nat /\ UnsignedMod > 0 OBVIOUS
<1> QED BY <1>1

-----------------------------------------------------------------------------
LEMMA InitInv == Init => SpmInv
<1> SUFFICES ASSUME Init PROVE SpmInv OBVIOUS
<1> USE DEF Init
<1>1. TypeOK
  <2>1. program \in Program /\ memory \in Memory OBVIOUS
  <2>2. g_hFuncCall \subseteq Func \X Func BY DEF GetFuncCall
  <2>3. pc \in {"round", "kind", "allocate"} /\ algorithm \in {"Xue", "MPC", "FCFS"} OBVIOUS
  <2>4. data_stack \in Seq(Data \X (0..(UnsignedMod - 1))) OBVIOUS
  <2>5. m_nReserved \in [MemoryKind -> Nat] BY <2>1 DEF Memory
  <2>6. m_AllocList \in [MemoryKind -> Seq(Nat)] OBVIOUS
  <2>7. hDegree \in [Data -> 0..(UnsignedMod - 1)] OBVIOUS
  <2>8. /\ kind \in MemoryKind /\ subgraph_list \subseteq MemoryKind
        /\ front \in [Data -> MemoryKind \cup {NoKind}]
    OBVIOUS
  <2>9. m_hSubgraph \in [MemoryKind -> SUBSET Data] OBVIOUS
  <2>10. data_list \subseteq Data /\ bSpilled \in BOOLEAN OBVIOUS
  <2>11. placed \subseteq MemoryKind \X Nat \X Data OBVIOUS
  <2> HIDE DEF Init
  <2> QED BY <2>1, <2>2, <2>3, <2>4, <2>5, <2>6, <2>7, <2>8, <2>9, <2>10, <2>11 DEF TypeOK
<1>2. Phases BY DEF Phases
<1>3. BeingColored BY DEF BeingColored
<1>4. CostsInv /\ CostsAreLeft BY DEF CostsInv, CostsAreLeft
<1>5. XueInv /\ MpcInv /\ FcfsInv BY DEF XueInv, MpcInv, FcfsInv
<1>6. NoConflict BY DEF NoConflict
<1> QED BY <1>1, <1>2, <1>3, <1>4, <1>5, <1>6 DEF SpmInv

-----------------------------------------------------------------------------
(* Colouring. Pushing moves one datum from the list to the stack.          *)

LEMMA PushKeeps ==
  ASSUME SpmInv, pc = "colour", NEW d \in data_list, Push(d)
  PROVE  SpmInv'
<1> USE DEF SpmInv
<1> DEFINE entry == <<d, hDegree[d]>>
<1>a. /\ data_stack \in Seq(Data \X (0..(UnsignedMod - 1))) /\ data_list \subseteq Data /\ d \in Data
      /\ hDegree \in [Data -> 0..(UnsignedMod - 1)]
  BY DEF TypeOK
<1>b. data_stack' = Append(data_stack, entry) /\ data_list' = data_list \ {d}
  BY DEF Push
<1>c. UNCHANGED <<program, memory, g_hFuncCall, algorithm, pc, front, kind, subgraph_list,
                  m_hSubgraph, bSpilled, placed, m_AllocList, m_nReserved>>
  BY DEF Push, given, fcfs
<1>d. entry \in Data \X (0..(UnsignedMod - 1)) BY <1>a
<1>e. /\ Len(data_stack) \in Nat /\ DOMAIN data_stack = 1..Len(data_stack)
      /\ DOMAIN data_stack' = 1..(Len(data_stack) + 1)
      /\ data_stack'[Len(data_stack) + 1] = entry
      /\ \A i \in 1..Len(data_stack) : data_stack'[i] = data_stack[i]
  BY <1>a, <1>b, <1>d
<1>f. OnStack' = OnStack \cup {d}
  BY <1>e DEF OnStack
<1>1. TypeOK'
  <2>1. data_stack' \in Seq(Data \X (0..(UnsignedMod - 1))) BY <1>a, <1>b, <1>d
  <2>2. hDegree' \in [Data -> 0..(UnsignedMod - 1)]
    <3>1. ASSUME NEW e \in Data
          PROVE  /\ hDegree[e] \in 0..(UnsignedMod - 1)
                 /\ (hDegree[e] - 1) % UnsignedMod \in 0..(UnsignedMod - 1)
      <4>1. hDegree[e] \in 0..(UnsignedMod - 1) /\ hDegree[e] - 1 \in Int BY <1>a
      <4> QED BY <4>1, WrapType
    <3>2. hDegree' = [e \in Data |-> IF e \in hInter(d) THEN (hDegree[e] - 1) % UnsignedMod ELSE hDegree[e]]
      BY DEF Push
    <3> DEFINE wrapped(e) == (hDegree[e] - 1) % UnsignedMod
    <3>3. \A e \in Data : hDegree[e] \in 0..(UnsignedMod - 1) /\ wrapped(e) \in 0..(UnsignedMod - 1)
      BY <3>1
    <3>4. hDegree' = [e \in Data |-> IF e \in hInter(d) THEN wrapped(e) ELSE hDegree[e]]
      BY <3>2
    <3> HIDE DEF wrapped
    <3> QED BY <3>3, <3>4
  <2>3. data_list' \subseteq Data BY <1>a, <1>b
  <2>4. TypeOK OBVIOUS
  <2> HIDE DEF SpmInv
  <2> QED BY <1>c, <2>1, <2>2, <2>3, <2>4 DEF TypeOK
<1>2. Phases' BY <1>c DEF Phases
<1>3. BeingColored'
  <2>1. data_list' \cup OnStack' = data_list \cup OnStack BY <1>b, <1>f
  <2>2. data_list' \cap OnStack' = {} BY <1>b, <1>f DEF BeingColored
  <2>3. ASSUME NEW i \in DOMAIN data_stack', NEW j \in DOMAIN data_stack', i # j
        PROVE  data_stack'[i][1] # data_stack'[j][1]
    <3>1. \A k \in 1..Len(data_stack) : data_stack[k][1] # d
      BY <1>e DEF BeingColored, OnStack
    <3>2. entry[1] = d OBVIOUS
    <3> HIDE DEF entry
    <3> QED BY <1>e, <2>3, <3>1, <3>2 DEF BeingColored
  <2> QED BY <1>c, <2>1, <2>2, <2>3 DEF BeingColored
<1>4. CostsInv' /\ CostsAreLeft'
  BY <1>b, <1>c DEF CostsInv, CostsAreLeft
<1>5. XueInv' /\ MpcInv' /\ FcfsInv'
  BY <1>c DEF XueInv, MpcInv, FcfsInv, Nodes
<1>6. NoConflict'
  BY <1>c, InterfereSame DEF NoConflict, given
<1> QED BY <1>1, <1>2, <1>3, <1>4, <1>5, <1>6

LEMMA SimplifyKeeps == SpmInv /\ Simplify => SpmInv'
BY PushKeeps DEF Simplify

LEMMA PotentialSpillKeeps == SpmInv /\ PotentialSpill => SpmInv'
BY PushKeeps DEF PotentialSpill

(* Popping takes a datum of the subgraph, with this memory at the front of *)
(* its costs, and none that is still on the stack.                         *)
LEMMA PopFacts ==
  ASSUME SpmInv, Pop
  PROVE  /\ Top[1] \in Data /\ Top[1] \in m_hSubgraph[kind] /\ front[Top[1]] = kind
         /\ Top[1] \notin OnStack' /\ OnStack' \subseteq OnStack
         /\ data_stack' \in Seq(Data \X (0..(UnsignedMod - 1)))
         /\ \A i, j \in DOMAIN data_stack' : i # j => data_stack'[i][1] # data_stack'[j][1]
         /\ data_list = {} /\ pc = "colour"
         /\ algorithm \in {"Xue", "MPC"} /\ (algorithm = "MPC" => kind # DRAM)
<1> DEFINE n == Len(data_stack)
<1>1. /\ data_stack \in Seq(Data \X (0..(UnsignedMod - 1))) /\ data_stack # <<>>
      /\ pc = "colour" /\ data_list = {}
  BY DEF SpmInv, TypeOK, Pop
<1>2. n \in Nat /\ n > 0 /\ DOMAIN data_stack = 1..n
  BY <1>1
<1>3. data_stack' = SubSeq(data_stack, 1, n - 1)
  BY DEF Pop
<1>4. /\ data_stack' \in Seq(Data \X (0..(UnsignedMod - 1)))
      /\ DOMAIN data_stack' = 1..(n - 1)
      /\ \A i \in 1..(n - 1) : data_stack'[i] = data_stack[i]
  BY <1>1, <1>2, <1>3
<1>5. n \in DOMAIN data_stack /\ Top = data_stack[n] /\ Top \in Data \X (0..(UnsignedMod - 1))
  BY <1>1, <1>2 DEF Top
<1>6. Top[1] \in OnStack /\ Top[1] \in Data
  BY <1>5 DEF OnStack
<1>7. Top[1] \notin OnStack' /\ OnStack' \subseteq OnStack
  <2>1. \A i \in 1..(n - 1) : data_stack[i][1] # data_stack[n][1]
    <3>1. \A i, j \in DOMAIN data_stack : i # j => data_stack[i][1] # data_stack[j][1]
      BY <1>1 DEF SpmInv, BeingColored
    <3> HIDE DEF n
    <3>2. \A i \in 1..(n - 1) : i \in 1..n /\ i # n BY <1>2
    <3> QED BY <1>2, <1>5, <3>1, <3>2
  <2>2. OnStack' = {data_stack'[i][1] : i \in 1..(n - 1)} BY <1>4 DEF OnStack
  <2>3. OnStack' = {data_stack[i][1] : i \in 1..(n - 1)} BY <1>4, <2>2
  <2>4. OnStack = {data_stack[i][1] : i \in 1..n} BY <1>2 DEF OnStack
  <2>5. Top[1] = data_stack[n][1] BY <1>5
  <2>6. \A i \in 1..(n - 1) : i \in 1..n BY <1>2
  <2> HIDE DEF n
  <2>7. Top[1] \notin OnStack' BY <2>1, <2>3, <2>5
  <2>8. OnStack' \subseteq OnStack BY <2>3, <2>4, <2>6
  <2> QED BY <2>7, <2>8
<1>8. \A i, j \in DOMAIN data_stack' : i # j => data_stack'[i][1] # data_stack'[j][1]
  <2>1. \A i, j \in DOMAIN data_stack : i # j => data_stack[i][1] # data_stack[j][1]
    BY <1>1 DEF SpmInv, BeingColored
  <2> HIDE DEF n
  <2>2. \A i \in DOMAIN data_stack' : i \in DOMAIN data_stack /\ data_stack'[i] = data_stack[i]
    BY <1>2, <1>4
  <2> QED BY <2>1, <2>2
<1>9. algorithm \in {"Xue", "MPC"} /\ (algorithm = "MPC" => kind # DRAM)
  BY <1>1 DEF SpmInv, Phases, MpcInv
<1> QED BY <1>1, <1>4, <1>6, <1>7, <1>8, <1>9 DEF SpmInv, BeingColored

(* A colour is shared only with data of the subgraph, so the comparison    *)
(* with hInter sees every interference.                                    *)
LEMMA SelectKeeps ==
  ASSUME SpmInv, Select
  PROVE  SpmInv'
<1> DEFINE d == Top[1]
<1>1. Pop BY DEF Select
<1>a. PICK i \in 0..(nColor - 1) : Fits(i, d) /\ placed' = placed \cup {<<kind, i, d>>}
  BY DEF Select
<1>b. UNCHANGED <<program, memory, g_hFuncCall, algorithm, pc, front, kind, subgraph_list,
                  m_hSubgraph, data_list, hDegree, bSpilled, m_AllocList, m_nReserved>>
  BY <1>1 DEF Select, Pop, given, fcfs
<1>c. /\ d \in Data /\ d \in m_hSubgraph[kind] /\ front[d] = kind
      /\ OnStack' \subseteq OnStack
      /\ data_stack' \in Seq(Data \X (0..(UnsignedMod - 1)))
      /\ \A m, n \in DOMAIN data_stack' : m # n => data_stack'[m][1] # data_stack'[n][1]
      /\ data_list = {} /\ pc = "colour"
      /\ algorithm \in {"Xue", "MPC"} /\ (algorithm = "MPC" => kind # DRAM)
  BY <1>1, PopFacts
<1>d. kind \in MemoryKind /\ memory \in Memory /\ placed \subseteq MemoryKind \X Nat \X Data
      /\ m_hSubgraph \in [MemoryKind -> SUBSET Data]
  BY DEF SpmInv, TypeOK
<1>e. i \in Nat
  BY DEF nColor
<1> DEFINE p0 == <<kind, i, d>>
<1>f. p0 \in MemoryKind \X Nat \X Data /\ p0[1] = kind /\ p0[2] = i /\ p0[3] = d
  BY <1>c, <1>d, <1>e
<1>g. placed' = placed \cup {p0} BY <1>a
<1> HIDE DEF d, p0
<1>2. TypeOK'
  <2>1. TypeOK BY DEF SpmInv
  <2>2. placed' \subseteq MemoryKind \X Nat \X Data BY <1>d, <1>f, <1>g
  <2> QED BY <1>b, <1>c, <2>1, <2>2 DEF TypeOK
<1>3. Phases' BY <1>b, <1>c DEF SpmInv, Phases
<1>4. BeingColored' BY <1>b, <1>c DEF SpmInv, BeingColored
<1>5. CostsInv' /\ CostsAreLeft' BY <1>b DEF SpmInv, CostsInv, CostsAreLeft
<1>6. XueInv'
  BY <1>b, <1>c, <1>d, <1>f, <1>g DEF SpmInv, XueInv
<1>7. MpcInv'
  <2>1. MpcInv BY DEF SpmInv
  <2> SUFFICES ASSUME algorithm = "MPC" PROVE MpcInv' BY <1>b DEF MpcInv
  <2>2. ASSUME NEW p \in placed', p[1] # DRAM
        PROVE  /\ front[p[3]] = p[1] \/ (pc = "colour" /\ p[1] = kind /\ bSpilled)
               /\ p[3] \in m_hSubgraph[p[1]]
    <3>1. CASE p \in placed BY <1>c, <2>1, <2>2, <3>1 DEF MpcInv
    <3>2. CASE p = p0 BY <1>c, <1>f, <3>2
    <3> QED BY <1>g, <3>1, <3>2
  <2> QED BY <1>b, <1>c, <2>1, <2>2 DEF MpcInv
<1>8. FcfsInv' BY <1>b, <1>c DEF FcfsInv
<1>9. NoConflict'
  <2>1. NoConflict BY DEF SpmInv
  <2>2. ASSUME NEW q \in placed, q[1] = kind, q[2] = i, q[3] # d
        PROVE  ~IsInterfere(d, q[3])
    <3>1. q = <<q[1], q[2], q[3]>> /\ q[3] \in Data BY <1>d
    <3>2. q[3] \in At(kind, i) BY <2>2, <3>1 DEF At
    <3>3. q[3] \in m_hSubgraph[kind]
      <4>1. CASE algorithm = "Xue" BY <1>c, <2>2, <4>1 DEF SpmInv, XueInv
      <4>2. CASE algorithm = "MPC" BY <1>c, <2>2, <4>2 DEF SpmInv, MpcInv
      <4> QED BY <1>c, <4>1, <4>2
    <3> QED BY <1>a, <3>2, <3>3 DEF Fits, hInter
  <2>3. ASSUME NEW p \in placed', NEW q \in placed',
               p[1] = q[1], p[2] = q[2], p[3] # q[3], ~(algorithm = "MPC" /\ p[1] = DRAM)
        PROVE  ~IsInterfere(p[3], q[3])
    <3>1. CASE p \in placed /\ q \in placed BY <2>1, <2>3, <3>1 DEF NoConflict
    <3>2. CASE p = p0 /\ q \in placed BY <1>f, <2>2, <2>3, <3>2
    <3>3. CASE p \in placed /\ q = p0 BY <1>f, <2>2, <2>3, <3>3, InterfereSym
    <3> QED BY <1>g, <2>3, <3>1, <3>2, <3>3
  <2>4. \A x, y : IsInterfere(x, y)' = IsInterfere(x, y) BY <1>b, InterfereSame DEF given
  <2> QED BY <1>b, <2>3, <2>4 DEF NoConflict
<1> QED BY <1>2, <1>3, <1>4, <1>5, <1>6, <1>7, <1>8, <1>9 DEF SpmInv

(* What is spilled moves down one memory; MPC, which may have coloured it   *)
(* in an earlier round, has now to clear this memory.                      *)
LEMMA ActualSpillKeeps ==
  ASSUME SpmInv, ActualSpill
  PROVE  SpmInv'
<1> DEFINE d == Top[1]
<1>1. Pop BY DEF ActualSpill
<1>a. front' = [front EXCEPT ![d] = @ + 1] /\ bSpilled' = TRUE
  BY DEF ActualSpill
<1>b. UNCHANGED <<program, memory, g_hFuncCall, algorithm, pc, kind, subgraph_list,
                  m_hSubgraph, data_list, hDegree, placed, m_AllocList, m_nReserved>>
  BY <1>1 DEF ActualSpill, Pop, given, fcfs
<1>c. /\ d \in Data /\ d \in m_hSubgraph[kind] /\ front[d] = kind
      /\ d \notin OnStack' /\ OnStack' \subseteq OnStack
      /\ data_stack' \in Seq(Data \X (0..(UnsignedMod - 1)))
      /\ \A m, n \in DOMAIN data_stack' : m # n => data_stack'[m][1] # data_stack'[n][1]
      /\ data_list = {} /\ pc = "colour"
      /\ algorithm \in {"Xue", "MPC"} /\ (algorithm = "MPC" => kind # DRAM)
  BY <1>1, PopFacts
<1> HIDE DEF d
<1>d. /\ kind \in MemoryKind /\ front \in [Data -> MemoryKind \cup {NoKind}]
      /\ placed \subseteq MemoryKind \X Nat \X Data
      /\ m_hSubgraph \in [MemoryKind -> SUBSET Data]
      /\ subgraph_list \subseteq MemoryKind
  BY DEF SpmInv, TypeOK
<1>e. /\ front'[d] = kind + 1 /\ \A e \in Data \ {d} : front'[e] = front[e]
      /\ front' \in [Data -> MemoryKind \cup {NoKind}]
  BY <1>a, <1>c, <1>d
<1>2. TypeOK'
  <2>1. TypeOK BY DEF SpmInv
  <2> QED BY <1>a, <1>b, <1>c, <1>e, <2>1 DEF TypeOK
<1>3. Phases' BY <1>b, <1>c DEF SpmInv, Phases
<1>4. BeingColored'
  <2>1. OnStack' \subseteq m_hSubgraph[kind] /\ \A e \in OnStack' : front'[e] = kind
    BY <1>c, <1>d, <1>e DEF SpmInv, BeingColored
  <2> QED BY <1>b, <1>c, <2>1 DEF BeingColored
<1>5. CostsInv' /\ CostsAreLeft'
  <2>1. CostsInv BY DEF SpmInv
  <2>2. algorithm = "Xue" => \A e \in Data : front'[e] <= kind + 1
    BY <1>c, <1>d, <1>e, <2>1 DEF CostsInv
  <2>3. algorithm = "MPC" => \A e \in Data : front'[e] # NoKind
    BY <1>c, <1>d, <1>e, <2>1 DEF CostsInv
  <2> QED BY <1>b, <1>c, <2>2, <2>3 DEF CostsInv, CostsAreLeft
<1>6. XueInv' BY <1>b DEF SpmInv, XueInv
<1>7. MpcInv'
  <2>1. MpcInv BY DEF SpmInv
  <2> SUFFICES ASSUME algorithm = "MPC" PROVE MpcInv' BY <1>b DEF MpcInv
  <2>2. ASSUME NEW p \in placed, p[1] # DRAM
        PROVE  /\ front'[p[3]] = p[1] \/ p[1] = kind
               /\ p[3] \in m_hSubgraph[p[1]]
    <3>1. p[3] \in Data BY <1>d
    <3>2. p[3] \in m_hSubgraph[p[1]] BY <1>c, <2>1, <2>2 DEF MpcInv
    <3>3. front[p[3]] = p[1] \/ p[1] = kind BY <1>c, <2>1, <2>2 DEF MpcInv
    <3>4. CASE p[3] = d BY <1>c, <3>2, <3>3, <3>4
    <3>5. CASE p[3] # d BY <1>e, <3>1, <3>2, <3>3, <3>5
    <3> QED BY <3>4, <3>5
  <2>3. ASSUME NEW k \in subgraph_list
        PROVE  k # DRAM /\ k # kind /\ \A e \in m_hSubgraph[k] : front'[e] = k
    <3>1. k # DRAM /\ k # kind /\ \A e \in m_hSubgraph[k] : front[e] = k
      BY <1>c, <2>1 DEF MpcInv
    <3>2. m_hSubgraph[k] \subseteq Data BY <1>d
    <3> QED BY <1>c, <1>e, <3>1, <3>2
  <2> QED BY <1>a, <1>b, <1>c, <2>2, <2>3 DEF MpcInv
<1>8. FcfsInv' BY <1>b, <1>c DEF FcfsInv
<1>9. NoConflict'
  <2>1. \A x, y : IsInterfere(x, y)' = IsInterfere(x, y) BY <1>b, InterfereSame DEF given
  <2> QED BY <1>b, <2>1 DEF SpmInv, NoConflict
<1> QED BY <1>2, <1>3, <1>4, <1>5, <1>6, <1>7, <1>8, <1>9 DEF SpmInv

-----------------------------------------------------------------------------
(* Moving on to another memory                                             *)

LEMMA StartKindTypes ==
  ASSUME SpmInv, NEW k \in MemoryKind, NEW sub \in SUBSET Data, StartKind(k, sub)
  PROVE  /\ hDegree' \in [Data -> 0..(UnsignedMod - 1)]
         /\ m_hSubgraph' \in [MemoryKind -> SUBSET Data] /\ m_hSubgraph'[k] = sub
         /\ \A j \in MemoryKind \ {k} : m_hSubgraph'[j] = m_hSubgraph[j]
         /\ kind' = k /\ data_list' = sub /\ pc' = "colour"
<1> DEFINE degree(d) == Cardinality({e \in sub : d \in sub /\ IsInterfere(d, e)})
<1>1. \A d \in Data : degree(d) \in 0..(UnsignedMod - 1)
  <2> SUFFICES ASSUME NEW d \in Data PROVE degree(d) \in 0..(UnsignedMod - 1) OBVIOUS
  <2>1. {e \in sub : d \in sub /\ IsInterfere(d, e)} \in SUBSET Data OBVIOUS
  <2> QED BY <2>1, DegreeType
<1>2. hDegree' = [d \in Data |-> degree(d)] BY DEF StartKind
<1> HIDE DEF degree
<1>3. hDegree' \in [Data -> 0..(UnsignedMod - 1)] BY <1>1, <1>2
<1>4. m_hSubgraph \in [MemoryKind -> SUBSET Data] BY DEF SpmInv, TypeOK
<1> QED BY <1>3, <1>4 DEF StartKind

LEMMA XueKindKeeps ==
  ASSUME SpmInv, XueKind
  PROVE  SpmInv'
<1> DEFINE sub == {d \in Data : front[d] = kind}
<1>a. TypeOK /\ kind \in MemoryKind /\ placed \subseteq MemoryKind \X Nat \X Data BY DEF SpmInv, TypeOK
<1>b. /\ pc = "kind" /\ algorithm = "Xue" /\ bSpilled' = FALSE
      /\ UNCHANGED <<program, memory, g_hFuncCall, algorithm, front, subgraph_list,
                     data_stack, placed, m_AllocList, m_nReserved>>
  BY DEF XueKind, given, fcfs
<1>c. /\ hDegree' \in [Data -> 0..(UnsignedMod - 1)]
      /\ m_hSubgraph' \in [MemoryKind -> SUBSET Data] /\ m_hSubgraph'[kind] = sub
      /\ kind' = kind /\ data_list' = sub /\ pc' = "colour"
  BY <1>a, StartKindTypes DEF XueKind
<1>d. data_stack = <<>> BY <1>b DEF SpmInv, Phases
<1>1. TypeOK' BY <1>a, <1>b, <1>c DEF TypeOK
<1>2. Phases' BY <1>b, <1>c DEF Phases
<1>3. BeingColored'
  <2>1. OnStack' = {} BY <1>b, <1>d DEF OnStack
  <2>2. DOMAIN data_stack' = {} BY <1>b, <1>d
  <2> QED BY <1>b, <1>c, <2>1, <2>2 DEF BeingColored
<1>4. CostsInv' /\ CostsAreLeft'
  <2>1. \A d \in Data : front[d] <= kind BY <1>b DEF SpmInv, CostsInv
  <2>2. \A d \in Data : front[d] \in Int BY <1>a DEF TypeOK
  <2> QED BY <1>a, <1>b, <1>c, <2>1, <2>2 DEF CostsInv, CostsAreLeft
<1>5. XueInv'
  <2>1. \A p \in placed : p[1] < kind BY <1>b DEF SpmInv, XueInv
  <2>2. \A p \in placed : p[1] \in Int BY <1>a
  <2>3. \A p \in placed : p[1] <= kind /\ p[1] # kind BY <1>a, <2>1, <2>2
  <2> QED BY <1>b, <1>c, <2>3 DEF XueInv
<1>6. MpcInv' /\ FcfsInv' BY <1>b DEF MpcInv, FcfsInv
<1>7. NoConflict'
  <2>1. \A x, y : IsInterfere(x, y)' = IsInterfere(x, y) BY <1>b, InterfereSame DEF given
  <2> QED BY <1>b, <2>1 DEF SpmInv, NoConflict
<1> QED BY <1>1, <1>2, <1>3, <1>4, <1>5, <1>6, <1>7 DEF SpmInv

LEMMA XueNextKeeps ==
  ASSUME SpmInv, XueNext
  PROVE  SpmInv'
<1>a. TypeOK /\ kind \in MemoryKind /\ placed \subseteq MemoryKind \X Nat \X Data BY DEF SpmInv, TypeOK
<1>b. /\ pc = "colour" /\ algorithm = "Xue" /\ data_stack = <<>> /\ data_list = {}
      /\ \/ kind < DRAM /\ kind' = kind + 1 /\ pc' = "kind"
         \/ kind = DRAM /\ kind' = kind /\ pc' \in {"spin", "done"}
      /\ UNCHANGED <<program, memory, g_hFuncCall, algorithm, front, subgraph_list, m_hSubgraph,
                     data_list, data_stack, hDegree, bSpilled, placed, m_AllocList, m_nReserved>>
  BY <1>a DEF XueNext, Colored, given, fcfs
<1>1. TypeOK'
  <2>1. kind' \in MemoryKind /\ pc' \in {"kind", "spin", "done"} BY <1>a, <1>b
  <2> QED BY <1>a, <1>b, <2>1 DEF TypeOK
<1>2. Phases' BY <1>b DEF Phases
<1>3. BeingColored' BY <1>b DEF BeingColored
<1>4. CostsInv' /\ CostsAreLeft'
  <2>1. \A d \in Data : front[d] <= kind + 1 /\ front[d] \in Int
    BY <1>a, <1>b DEF SpmInv, CostsInv, TypeOK
  <2> QED BY <1>a, <1>b, <2>1 DEF CostsInv, CostsAreLeft
<1>5. XueInv'
  <2>1. \A p \in placed : p[1] <= kind /\ p[1] \in Int BY <1>a, <1>b DEF SpmInv, XueInv
  <2> QED BY <1>a, <1>b, <2>1 DEF XueInv
<1>6. MpcInv' /\ FcfsInv' BY <1>b DEF MpcInv, FcfsInv
<1>7. NoConflict'
  <2>1. \A x, y : IsInterfere(x, y)' = IsInterfere(x, y) BY <1>b, InterfereSame DEF given
  <2> QED BY <1>b, <2>1 DEF SpmInv, NoConflict
<1> QED BY <1>1, <1>2, <1>3, <1>4, <1>5, <1>6, <1>7 DEF SpmInv

(* A round starts with colours only where the costs say, so the subgraphs  *)
(* contain everything that is coloured.                                    *)
LEMMA MpcRoundKeeps ==
  ASSUME SpmInv, MpcRound
  PROVE  SpmInv'
<1> DEFINE left == {<<DRAM, 0, d>> : d \in {d \in Data : front[d] = DRAM}}
<1>a. TypeOK /\ placed \subseteq MemoryKind \X Nat \X Data /\ front \in [Data -> MemoryKind \cup {NoKind}]
  BY DEF SpmInv, TypeOK
<1>b. /\ pc = "round" /\ algorithm = "MPC" /\ data_stack = <<>> /\ pc' = "kind" /\ bSpilled' = FALSE
      /\ m_hSubgraph' = [k \in MemoryKind |-> {d \in Data : front[d] = k /\ k # DRAM}]
      /\ placed' = placed \cup left
      /\ subgraph_list' = {k \in MemoryKind \ {DRAM} : \E d \in Data : front[d] = k}
      /\ UNCHANGED <<program, memory, g_hFuncCall, algorithm, front, kind, data_list,
                     data_stack, hDegree, m_AllocList, m_nReserved>>
  BY DEF SpmInv, Phases, MpcRound, given, fcfs
<1>c. left \subseteq MemoryKind \X Nat \X Data /\ \A p \in left : p[1] = DRAM OBVIOUS
<1> HIDE DEF left
<1>1. TypeOK'
  <2>1. placed' \subseteq MemoryKind \X Nat \X Data BY <1>a, <1>b, <1>c
  <2>2. m_hSubgraph' \in [MemoryKind -> SUBSET Data] BY <1>b
  <2>3. subgraph_list' \subseteq MemoryKind BY <1>b
  <2>4. pc' = "kind" /\ bSpilled' \in BOOLEAN BY <1>b
  <2> QED BY <1>a, <1>b, <2>1, <2>2, <2>3, <2>4 DEF TypeOK
<1>2. Phases' BY <1>b DEF Phases
<1>3. BeingColored' BY <1>b DEF BeingColored
<1>4. CostsInv' /\ CostsAreLeft' BY <1>b DEF SpmInv, CostsInv, CostsAreLeft
<1>5. XueInv' /\ FcfsInv' BY <1>b DEF XueInv, FcfsInv
<1>6. MpcInv'
  <2>1. ASSUME NEW p \in placed', p[1] # DRAM
        PROVE  front[p[3]] = p[1] /\ p[3] \in m_hSubgraph'[p[1]]
    <3>1. p \in placed BY <1>b, <1>c, <2>1
    <3>2. p[1] \in MemoryKind /\ p[3] \in Data BY <1>a, <3>1
    <3>3. front[p[3]] = p[1] BY <1>b, <2>1, <3>1 DEF SpmInv, MpcInv
    <3> QED BY <1>b, <2>1, <3>2, <3>3
  <2>2. ASSUME NEW k \in subgraph_list'
        PROVE  k # DRAM /\ \A d \in m_hSubgraph'[k] : front[d] = k
    BY <1>b
  <2> QED BY <1>b, <2>1, <2>2 DEF MpcInv
<1>7. NoConflict'
  <2>1. \A x, y : IsInterfere(x, y)' = IsInterfere(x, y) BY <1>b, InterfereSame DEF given
  <2>2. ASSUME NEW p \in placed', p[1] # DRAM PROVE p \in placed BY <1>b, <1>c, <2>2
  <2> QED BY <1>b, <2>1, <2>2 DEF SpmInv, NoConflict
<1> QED BY <1>1, <1>2, <1>3, <1>4, <1>5, <1>6, <1>7 DEF SpmInv

LEMMA MpcKindKeeps ==
  ASSUME SpmInv, MpcKind
  PROVE  SpmInv'
<1>a. /\ TypeOK /\ subgraph_list \subseteq MemoryKind
      /\ m_hSubgraph \in [MemoryKind -> SUBSET Data] /\ MpcInv
  BY DEF SpmInv, TypeOK
<1>b. /\ pc = "kind" /\ algorithm = "MPC" /\ data_stack = <<>>
      /\ UNCHANGED <<program, memory, g_hFuncCall, algorithm, front, data_stack,
                     bSpilled, placed, m_AllocList, m_nReserved>>
  BY DEF SpmInv, Phases, MpcKind, given, fcfs
<1>c. PICK k \in subgraph_list : StartKind(k, m_hSubgraph[k]) /\ subgraph_list' = subgraph_list \ {k}
  BY DEF MpcKind
<1>d. /\ hDegree' \in [Data -> 0..(UnsignedMod - 1)]
      /\ m_hSubgraph' \in [MemoryKind -> SUBSET Data]
      /\ \A j \in MemoryKind : m_hSubgraph'[j] = m_hSubgraph[j]
      /\ kind' = k /\ data_list' = m_hSubgraph[k] /\ pc' = "colour"
  <2>1. k \in MemoryKind /\ m_hSubgraph[k] \in SUBSET Data BY <1>a
  <2> QED BY <1>c, <2>1, StartKindTypes
<1>e. k # DRAM /\ \A d \in m_hSubgraph[k] : front[d] = k BY <1>a, <1>b DEF MpcInv
<1>1. TypeOK'
  <2>1. kind' \in MemoryKind /\ subgraph_list' \subseteq MemoryKind /\ data_list' \subseteq Data
    BY <1>a, <1>c, <1>d
  <2> QED BY <1>a, <1>b, <1>d, <2>1 DEF TypeOK
<1>2. Phases' BY <1>b, <1>d DEF Phases
<1>3. BeingColored'
  <2>1. OnStack' = {} BY <1>b DEF OnStack
  <2>2. DOMAIN data_stack' = {} BY <1>b
  <2> QED BY <1>a, <1>b, <1>d, <1>e, <2>1, <2>2 DEF BeingColored
<1>4. CostsInv' /\ CostsAreLeft'
  BY <1>b, <1>d, <1>e DEF SpmInv, CostsInv, CostsAreLeft
<1>5. XueInv' /\ FcfsInv' BY <1>b DEF XueInv, FcfsInv
<1>6. MpcInv'
  <2>1. ASSUME NEW p \in placed, p[1] # DRAM
        PROVE  front[p[3]] = p[1] /\ p[3] \in m_hSubgraph'[p[1]]
    <3>1. p[1] \in MemoryKind BY <1>a DEF TypeOK
    <3> QED BY <1>a, <1>b, <1>d, <2>1, <3>1 DEF MpcInv
  <2>2. ASSUME NEW j \in subgraph_list'
        PROVE  j # DRAM /\ j # k /\ \A d \in m_hSubgraph'[j] : front[d] = j
    BY <1>a, <1>b, <1>c, <1>d DEF MpcInv
  <2> QED BY <1>b, <1>d, <1>e, <2>1, <2>2 DEF MpcInv
<1>7. NoConflict'
  <2>1. \A x, y : IsInterfere(x, y)' = IsInterfere(x, y) BY <1>b, InterfereSame DEF given
  <2> QED BY <1>b, <2>1 DEF SpmInv, NoConflict
<1> QED BY <1>1, <1>2, <1>3, <1>4, <1>5, <1>6, <1>7 DEF SpmInv

LEMMA MpcNextKeeps ==
  ASSUME SpmInv, MpcNext
  PROVE  SpmInv'
<1>a. /\ pc = "colour" /\ algorithm = "MPC" /\ data_stack = <<>> /\ pc' = "kind"
      /\ placed' = IF bSpilled THEN {p \in placed : p[1] # kind} ELSE placed
      /\ UNCHANGED <<program, memory, g_hFuncCall, algorithm, front, kind, subgraph_list, m_hSubgraph,
                     data_list, data_stack, hDegree, bSpilled, m_AllocList, m_nReserved>>
  BY DEF MpcNext, Colored, given, fcfs
<1>b. placed' \subseteq placed BY <1>a
<1>1. TypeOK' BY <1>a, <1>b DEF SpmInv, TypeOK
<1>2. Phases' BY <1>a DEF Phases
<1>3. BeingColored' BY <1>a DEF BeingColored
<1>4. CostsInv' /\ CostsAreLeft' BY <1>a DEF SpmInv, CostsInv, CostsAreLeft
<1>5. XueInv' /\ FcfsInv' BY <1>a DEF XueInv, FcfsInv
<1>6. MpcInv'
  <2>1. ASSUME NEW p \in placed', p[1] # DRAM
        PROVE  front[p[3]] = p[1] /\ p[3] \in m_hSubgraph[p[1]]
    <3>1. ~(p[1] = kind /\ bSpilled) BY <1>a
    <3> QED BY <1>a, <1>b, <2>1, <3>1 DEF SpmInv, MpcInv
  <2> QED BY <1>a, <2>1 DEF SpmInv, MpcInv
<1>7. NoConflict'
  <2>1. \A x, y : IsInterfere(x, y)' = IsInterfere(x, y) BY <1>a, InterfereSame DEF given
  <2> QED BY <1>a, <1>b, <2>1 DEF SpmInv, NoConflict
<1> QED BY <1>1, <1>2, <1>3, <1>4, <1>5, <1>6, <1>7 DEF SpmInv

LEMMA MpcEndKeeps ==
  ASSUME SpmInv, MpcEnd
  PROVE  SpmInv'
<1>a. /\ pc = "kind" /\ algorithm = "MPC" /\ pc' \in {"round", "done"}
      /\ UNCHANGED <<program, memory, g_hFuncCall, algorithm, front, kind, subgraph_list, m_hSubgraph,
                     data_list, data_stack, hDegree, bSpilled, placed, m_AllocList, m_nReserved>>
  BY DEF MpcEnd, given, fcfs
<1>1. TypeOK' BY <1>a DEF SpmInv, TypeOK
<1>2. Phases' BY <1>a DEF SpmInv, Phases
<1>3. BeingColored' BY <1>a DEF BeingColored
<1>4. CostsInv' /\ CostsAreLeft' BY <1>a DEF SpmInv, CostsInv, CostsAreLeft
<1>5. XueInv' /\ FcfsInv' BY <1>a DEF XueInv, FcfsInv
<1>6. MpcInv' BY <1>a DEF SpmInv, MpcInv
<1>7. NoConflict'
  <2>1. \A x, y : IsInterfere(x, y)' = IsInterfere(x, y) BY <1>a, InterfereSame DEF given
  <2> QED BY <1>a, <2>1 DEF SpmInv, NoConflict
<1> QED BY <1>1, <1>2, <1>3, <1>4, <1>5, <1>6, <1>7 DEF SpmInv

-----------------------------------------------------------------------------
(* First come first served                                                 *)

(* A datum joins a node only if it interferes with none of its data; in a  *)
(* node just made there are none.                                          *)
LEMMA AddDataKeeps ==
  ASSUME SpmInv, pc = "allocate", UNCHANGED given,
         NEW d \in data_list, NEW k \in MemoryKind,
         NEW nodes \in Seq(Nat), Len(m_AllocList[k]) <= Len(nodes),
         NEW i \in 1..Len(nodes), Joins(d, k, i), addData(d, k, i, nodes)
  PROVE  /\ m_nReserved' \in [MemoryKind -> Nat] /\ m_AllocList' \in [MemoryKind -> Seq(Nat)]
         /\ placed' \subseteq MemoryKind \X Nat \X Data
         /\ pc' = "allocate" /\ data_list' = data_list \ {d}
         /\ FcfsInv' /\ NoConflict'
<1> DEFINE p0 == <<k, i, d>>
           grow == Growth(d, nodes[i])
<1>a. /\ d \in Data /\ placed \subseteq MemoryKind \X Nat \X Data /\ algorithm = "FCFS"
      /\ m_nReserved \in [MemoryKind -> Nat] /\ m_AllocList \in [MemoryKind -> Seq(Nat)]
      /\ FcfsInv /\ NoConflict
  BY DEF SpmInv, TypeOK, Phases
<1>b. grow \in Nat
  <2>1. program.size[d] \in Nat BY <1>a DEF SpmInv, TypeOK, Program
  <2>2. nodes[i] \in Nat OBVIOUS
  <2> QED BY <2>1, <2>2 DEF Growth
<1>c. /\ grow <= m_nReserved[k] /\ m_nReserved' = [m_nReserved EXCEPT ![k] = @ - grow]
      /\ m_AllocList' = [m_AllocList EXCEPT ![k] = [nodes EXCEPT ![i] = nodes[i] + grow]]
      /\ placed' = placed \cup {p0} /\ data_list' = data_list \ {d} /\ pc' = pc
  BY DEF addData
<1>d. p0 \in MemoryKind \X Nat \X Data /\ p0[1] = k /\ p0[2] = i /\ p0[3] = d BY <1>a
<1> HIDE DEF p0, grow
<1>1. m_nReserved' \in [MemoryKind -> Nat]
  <2>0. m_nReserved[k] \in Nat /\ grow <= m_nReserved[k] BY <1>a, <1>c
  <2>1. m_nReserved[k] - grow \in Nat BY <1>b, <2>0
  <2> QED BY <1>a, <1>c, <2>1
<1>2. [nodes EXCEPT ![i] = nodes[i] + grow] \in Seq(Nat)
      /\ Len([nodes EXCEPT ![i] = nodes[i] + grow]) = Len(nodes)
  <2>1. nodes[i] + grow \in Nat BY <1>b
  <2> QED BY <2>1
<1>3. m_AllocList' \in [MemoryKind -> Seq(Nat)] BY <1>a, <1>c, <1>2
<1>4. \A j \in MemoryKind : Len(m_AllocList[j]) <= Len(m_AllocList'[j])
  <2> SUFFICES ASSUME NEW j \in MemoryKind PROVE Len(m_AllocList[j]) <= Len(m_AllocList'[j]) OBVIOUS
  <2>0. m_AllocList[j] \in Seq(Nat) /\ Len(m_AllocList[j]) \in Nat BY <1>a
  <2>1. CASE j = k
    <3>1. m_AllocList'[k] = [nodes EXCEPT ![i] = nodes[i] + grow] BY <1>a, <1>c
    <3> QED BY <1>2, <2>1, <3>1
  <2>2. CASE j # k BY <1>a, <1>c, <2>0, <2>2
  <2> QED BY <2>1, <2>2
<1>5. FcfsInv'
  <2>1. ASSUME NEW p \in placed' PROVE p[2] \in 1..Len(m_AllocList'[p[1]])
    <3>1. CASE p \in placed
      <4>1. p[1] \in MemoryKind /\ p[2] \in 1..Len(m_AllocList[p[1]]) BY <1>a, <3>1 DEF FcfsInv, Nodes
      <4> DEFINE a == Len(m_AllocList[p[1]])
                 b == Len(m_AllocList'[p[1]])
      <4>2. a <= b BY <1>4, <4>1
      <4>3. m_AllocList[p[1]] \in Seq(Nat) /\ m_AllocList'[p[1]] \in Seq(Nat) BY <1>a, <1>3, <4>1
      <4>4. a \in Nat /\ b \in Nat BY <4>3
      <4>5. p[2] \in 1..a BY <4>1
      <4> HIDE DEF a, b
      <4>6. p[2] \in 1..b BY <4>2, <4>4, <4>5
      <4> QED BY <4>6 DEF b
    <3>2. CASE p = p0
      <4>1. m_AllocList'[k] = [nodes EXCEPT ![i] = nodes[i] + grow] BY <1>a, <1>c
      <4> QED BY <1>2, <1>d, <3>2, <4>1
    <3> QED BY <1>c, <3>1, <3>2
  <2> QED BY <2>1 DEF FcfsInv, Nodes
<1>6. NoConflict'
  <2>1. ASSUME NEW q \in placed, q[1] = k, q[2] = i PROVE ~IsInterfere(d, q[3])
    <3>0. q \in MemoryKind \X Nat \X Data BY <1>a
    <3>1. q = <<q[1], q[2], q[3]>> /\ q[3] \in Data BY <3>0
    <3>2. q[3] \in At(k, i) BY <2>1, <3>1 DEF At
    <3> QED BY <3>2 DEF Joins
  <2>2. ASSUME NEW p \in placed', NEW q \in placed', p[1] = q[1], p[2] = q[2], p[3] # q[3]
        PROVE  ~IsInterfere(p[3], q[3])
    <3>1. CASE p \in placed /\ q \in placed BY <1>a, <2>2, <3>1 DEF NoConflict
    <3>2. CASE p = p0 /\ q \in placed BY <1>d, <2>1, <2>2, <3>2
    <3>3. CASE p \in placed /\ q = p0 BY <1>d, <2>1, <2>2, <3>3, InterfereSym
    <3> QED BY <1>c, <2>2, <3>1, <3>2, <3>3
  <2>3. \A x, y : IsInterfere(x, y)' = IsInterfere(x, y) BY InterfereSame
  <2> QED BY <2>2, <2>3 DEF NoConflict
<1> QED BY <1>1, <1>3, <1>5, <1>6, <1>c, <1>d, <1>a

(* Whether the datum gets a node or not, the cost at its front is popped.  *)
LEMMA AllocateKeeps ==
  ASSUME SpmInv, Allocate
  PROVE  SpmInv'
<1>a. /\ pc = "allocate" /\ algorithm = "FCFS" /\ TypeOK /\ FcfsInv /\ NoConflict
      /\ data_list \subseteq Data /\ front \in [Data -> MemoryKind \cup {NoKind}]
      /\ m_AllocList \in [MemoryKind -> Seq(Nat)] /\ placed \subseteq MemoryKind \X Nat \X Data
      /\ data_stack = <<>>
      /\ UNCHANGED given
      /\ UNCHANGED <<program, memory, g_hFuncCall, algorithm, kind, subgraph_list,
                     m_hSubgraph, data_stack, hDegree, bSpilled>>
  BY DEF Allocate, SpmInv, TypeOK, Phases, given
<1>b. PICK d \in data_list : /\ AllocateInNode(d, front[d]) \/ AllocateNewNode(d, front[d])
                             /\ front' = [front EXCEPT ![d] = @ + 1]
  BY DEF Allocate
<1> DEFINE k == front[d]
<1>c. d \in Data /\ k \in MemoryKind
  <2>1. front[d] # NoKind BY <1>a DEF SpmInv, CostsAreLeft
  <2> QED BY <1>a, <2>1
<1>d. m_AllocList[k] \in Seq(Nat) /\ Len(m_AllocList[k]) \in Nat BY <1>a, <1>c
<1>e. /\ front' \in [Data -> MemoryKind \cup {NoKind}]
      /\ front'[d] = k + 1 /\ \A e \in Data \ {d} : front'[e] = front[e]
  BY <1>a, <1>b, <1>c
<1> DEFINE Added(i, nodes) == /\ Len(m_AllocList[k]) <= Len(nodes) /\ i \in 1..Len(nodes)
                              /\ Joins(d, k, i) /\ addData(d, k, i, nodes)
<1>f. (\E nodes \in Seq(Nat) : \E i \in 1..Len(nodes) : Added(i, nodes)) \/ OutOfMemory(d, k)
  <2>1. CASE AllocateInNode(d, k)
    <3>1. PICK i \in 1..Len(m_AllocList[k]) :
            Joins(d, k, i) /\ (addData(d, k, i, m_AllocList[k]) \/ OutOfMemory(d, k))
      BY <2>1 DEF AllocateInNode, Nodes
    <3> QED BY <1>d, <3>1
  <2>2. CASE AllocateNewNode(d, k)
    <3>1. addData(d, k, Len(m_AllocList[k]) + 1, Append(m_AllocList[k], 0)) \/ OutOfMemory(d, k)
      BY <2>2 DEF AllocateNewNode
    <3>2. /\ Append(m_AllocList[k], 0) \in Seq(Nat)
          /\ Len(Append(m_AllocList[k], 0)) = Len(m_AllocList[k]) + 1
      BY <1>d
    <3>3. Joins(d, k, Len(m_AllocList[k]) + 1)
      <4>1. ASSUME NEW e \in At(k, Len(m_AllocList[k]) + 1) PROVE FALSE
        <5>1. <<k, Len(m_AllocList[k]) + 1, e>> \in placed BY <4>1 DEF At
        <5>2. Len(m_AllocList[k]) + 1 \in 1..Len(m_AllocList[k]) BY <1>a, <5>1 DEF FcfsInv, Nodes
        <5> QED BY <1>d, <5>2
      <4> QED BY <4>1 DEF Joins
    <3>4. Len(m_AllocList[k]) + 1 \in 1..Len(Append(m_AllocList[k], 0))
          /\ Len(m_AllocList[k]) <= Len(Append(m_AllocList[k], 0))
      BY <1>d, <3>2
    <3> QED BY <3>1, <3>2, <3>3, <3>4
  <2> QED BY <1>b, <2>1, <2>2
<1> DEFINE Kept == /\ m_nReserved' \in [MemoryKind -> Nat] /\ m_AllocList' \in [MemoryKind -> Seq(Nat)]
                   /\ placed' \subseteq MemoryKind \X Nat \X Data /\ data_list' \subseteq data_list
                   /\ pc' \in {"allocate", "done"} /\ FcfsInv' /\ NoConflict'
                   /\ pc' = "allocate" => d \notin data_list' \/ k # DRAM
<1>g. Kept
  <2>1. ASSUME NEW nodes \in Seq(Nat), NEW i \in 1..Len(nodes), Added(i, nodes)
        PROVE  Kept
    <3> HIDE DEF k
    <3> QED BY <1>a, <1>c, <2>1, AddDataKeeps
  <2>2. CASE OutOfMemory(d, k)
    <3>1. pc' = (IF k = DRAM THEN "done" ELSE pc)
          /\ UNCHANGED <<m_nReserved, m_AllocList, placed, data_list>>
      BY <2>2 DEF OutOfMemory
    <3>2. \A x, y : IsInterfere(x, y)' = IsInterfere(x, y) BY <1>a, InterfereSame
    <3>3. NoConflict' BY <1>a, <3>1, <3>2 DEF NoConflict
    <3>4. FcfsInv' BY <1>a, <3>1 DEF FcfsInv, Nodes
    <3>5. m_nReserved' \in [MemoryKind -> Nat] BY <3>1 DEF SpmInv, TypeOK
    <3> QED BY <1>a, <3>1, <3>3, <3>4, <3>5
  <2> QED BY <1>f, <2>1, <2>2
<1>1. TypeOK' BY <1>a, <1>e, <1>g DEF TypeOK
<1>2. Phases' BY <1>a, <1>g DEF Phases
<1>3. BeingColored' BY <1>g DEF BeingColored
<1>4. CostsInv' /\ CostsAreLeft'
  <2>1. ASSUME pc' = "allocate", NEW e \in data_list' PROVE front'[e] # NoKind
    <3>1. e \in data_list /\ e \in Data BY <1>a, <1>g
    <3>2. front[e] # NoKind BY <1>a, <3>1 DEF SpmInv, CostsAreLeft
    <3>3. CASE e = d BY <1>c, <1>e, <1>g, <2>1, <3>3
    <3>4. CASE e # d BY <1>e, <3>1, <3>2, <3>4
    <3> QED BY <3>3, <3>4
  <2> QED BY <1>a, <1>g, <2>1 DEF CostsInv, CostsAreLeft
<1>5. XueInv' /\ MpcInv' BY <1>a DEF XueInv, MpcInv
<1> QED BY <1>1, <1>2, <1>3, <1>4, <1>5, <1>g DEF SpmInv

LEMMA FcfsEndKeeps ==
  ASSUME SpmInv, FcfsEnd
  PROVE  SpmInv'
<1>a. /\ algorithm = "FCFS" /\ pc' = "done" /\ data_stack = <<>>
      /\ UNCHANGED <<program, memory, g_hFuncCall, algorithm, front, kind, subgraph_list, m_hSubgraph,
                     data_list, data_stack, hDegree, bSpilled, placed, m_AllocList, m_nReserved>>
  BY DEF SpmInv, Phases, FcfsEnd, given, fcfs
<1>1. TypeOK' BY <1>a DEF SpmInv, TypeOK
<1>2. Phases' /\ BeingColored' BY <1>a DEF Phases, BeingColored
<1>3. CostsInv' /\ CostsAreLeft' BY <1>a DEF CostsInv, CostsAreLeft
<1>4. XueInv' /\ MpcInv' BY <1>a DEF XueInv, MpcInv
<1>5. FcfsInv' BY <1>a DEF SpmInv, FcfsInv, Nodes
<1>6. NoConflict'
  <2>1. \A x, y : IsInterfere(x, y)' = IsInterfere(x, y) BY <1>a, InterfereSame DEF given
  <2> QED BY <1>a, <2>1 DEF SpmInv, NoConflict
<1> QED BY <1>1, <1>2, <1>3, <1>4, <1>5, <1>6 DEF SpmInv

LEMMA StutterKeeps ==
  ASSUME SpmInv, UNCHANGED vars
  PROVE  SpmInv'
<1>a. UNCHANGED <<program, memory, g_hFuncCall, algorithm, pc, front, kind, subgraph_list, m_hSubgraph,
                  data_list, data_stack, hDegree, bSpilled, placed, m_AllocList, m_nReserved>>
  BY DEF vars, given, fcfs
<1>1. TypeOK' BY <1>a DEF SpmInv, TypeOK
<1>2. Phases' BY <1>a DEF SpmInv, Phases
<1>3. BeingColored' BY <1>a DEF SpmInv, BeingColored, OnStack
<1>4. CostsInv' /\ CostsAreLeft' BY <1>a DEF SpmInv, CostsInv, CostsAreLeft
<1>5. XueInv' /\ MpcInv' BY <1>a DEF SpmInv, XueInv, MpcInv
<1>6. FcfsInv' BY <1>a DEF SpmInv, FcfsInv, Nodes
<1>7. NoConflict'
  <2>1. \A x, y : IsInterfere(x, y)' = IsInterfere(x, y) BY <1>a, InterfereSame DEF given
  <2> QED BY <1>a, <2>1 DEF SpmInv, NoConflict
<1> QED BY <1>1, <1>2, <1>3, <1>4, <1>5, <1>6, <1>7 DEF SpmInv
LEMMA StepKeeps == SpmInv /\ [Next]_vars => SpmInv'
<1> SUFFICES ASSUME SpmInv, [Next]_vars PROVE SpmInv' OBVIOUS
<1>1. CASE Simplify BY <1>1, SimplifyKeeps
<1>2. CASE PotentialSpill BY <1>2, PotentialSpillKeeps
<1>3. CASE Select BY <1>3, SelectKeeps
<1>4. CASE ActualSpill BY <1>4, ActualSpillKeeps
<1>5. CASE XueKind BY <1>5, XueKindKeeps
<1>6. CASE XueNext BY <1>6, XueNextKeeps
<1>7. CASE MpcRound BY <1>7, MpcRoundKeeps
<1>8. CASE MpcKind BY <1>8, MpcKindKeeps
<1>9. CASE MpcNext BY <1>9, MpcNextKeeps
<1>10. CASE MpcEnd BY <1>10, MpcEndKeeps
<1>11. CASE Allocate BY <1>11, AllocateKeeps
<1>12. CASE FcfsEnd BY <1>12, FcfsEndKeeps
<1>13. CASE Spin \/ Returned \/ UNCHANGED vars BY <1>13, StutterKeeps DEF Spin, Returned
<1> QED BY <1>1, <1>2, <1>3, <1>4, <1>5, <1>6, <1>7, <1>8, <1>9, <1>10, <1>11, <1>12, <1>13 DEF Next

-----------------------------------------------------------------------------
(* Data that interfere are told apart                                      *)

(* The invariant of SpmAlloc.cpp holds of every program, memory            *)
(* configuration and allocator.                                            *)
THEOREM SpmInvariant == Spec => []SpmInv
<1>1. Init => SpmInv BY InitInv
<1>2. SpmInv /\ [Next]_vars => SpmInv' BY StepKeeps
<1> QED BY <1>1, <1>2, PTL DEF Spec

(* In every run of the allocators the variables have their types: the      *)
(* unsigned degrees, the lists of nodes and what is reserved of a memory,  *)
(* which is never given away twice.                                        *)
THEOREM SpmTypeCorrect == Spec => []TypeOK
<1>1. SpmInv => TypeOK BY DEF SpmInv
<1> QED BY <1>1, SpmInvariant, PTL

(* Two data that are live together, or of functions that call one another, *)
(* never have the same address, of whatever program and with whatever      *)
(* memories.                                                               *)
THEOREM InterferingDataApart == Spec => []NoConflict
<1>1. SpmInv => NoConflict BY DEF SpmInv
<1> QED BY <1>1, SpmInvariant, PTL

-----------------------------------------------------------------------------
(* How a step of a given allocator moves on.                               *)
LEMMA XueSteps ==
  ASSUME SpmInv, algorithm = "Xue", [Next]_vars
  PROVE  \/ \E d \in data_list : pc = "colour" /\ Push(d)
         \/ Select \/ ActualSpill \/ XueKind \/ XueNext
         \/ UNCHANGED vars
<1>1. pc # "round" /\ pc # "allocate" BY DEF SpmInv, Phases
<1> QED BY <1>1 DEF Next, Simplify, PotentialSpill, MpcRound, MpcKind, MpcNext, MpcEnd,
                     Allocate, FcfsEnd, Spin, Returned

LEMMA MpcSteps ==
  ASSUME SpmInv, algorithm = "MPC", [Next]_vars
  PROVE  \/ \E d \in data_list : pc = "colour" /\ Push(d)
         \/ Select \/ ActualSpill \/ MpcRound \/ MpcKind \/ MpcNext \/ MpcEnd
         \/ UNCHANGED vars
<1>1. pc # "allocate" BY DEF SpmInv, Phases
<1> QED BY <1>1 DEF Next, Simplify, PotentialSpill, XueKind, XueNext,
                     Allocate, FcfsEnd, Spin, Returned

LEMMA FcfsSteps ==
  ASSUME SpmInv, algorithm = "FCFS", [Next]_vars
  PROVE  Allocate \/ FcfsEnd \/ UNCHANGED vars
<1>1. pc \notin {"round", "kind", "colour"} BY DEF SpmInv, Phases
<1> QED BY <1>1 DEF Next, Simplify, PotentialSpill, Select, ActualSpill, Pop, XueKind, XueNext,
                     MpcRound, MpcKind, MpcNext, MpcEnd, Colored, Spin, Returned

LEMMA GivenSame == SpmInv /\ [Next]_vars => UNCHANGED given
BY DEF Next, Simplify, PotentialSpill, Push, Select, ActualSpill, Pop, XueKind, XueNext,
       MpcRound, MpcKind, MpcNext, MpcEnd, Allocate, FcfsEnd, Spin, Returned, vars

(* Xue's allocator never takes back a colour, nor a spill.                 *)
LEMMA XueGrows ==
  ASSUME SpmInv, algorithm = "Xue", [Next]_vars
  PROVE  /\ placed \subseteq placed'
         /\ front' = front \/ ActualSpill
<1>1. CASE \E d \in data_list : pc = "colour" /\ Push(d) BY <1>1 DEF Push
<1>2. CASE Select BY <1>2 DEF Select
<1>3. CASE ActualSpill BY <1>3 DEF ActualSpill
<1>4. CASE XueKind \/ XueNext BY <1>4 DEF XueKind, XueNext
<1>5. CASE UNCHANGED vars BY <1>5 DEF vars
<1> QED BY <1>1, <1>2, <1>3, <1>4, <1>5, XueSteps

LEMMA ReasonKept == SpmInv /\ ReasonInv /\ [Next]_vars => ReasonInv'
<1> SUFFICES ASSUME SpmInv, ReasonInv, [Next]_vars PROVE ReasonInv' OBVIOUS
<1>1. UNCHANGED <<program, memory, g_hFuncCall, algorithm>> BY GivenSame DEF given
<1>2. \A x, y : IsInterfere(x, y)' = IsInterfere(x, y) BY <1>1, InterfereSame DEF given
<1> SUFFICES ASSUME algorithm = "Xue", NEW d \in Data, NEW k \in MemoryKind, k < front'[d],
                    NEW i \in 0..(memory.size[k] - 1)
             PROVE  \E e \in At(k, i)' : IsInterfere(d, e)
  BY <1>1, <1>2 DEF ReasonInv
<1>3. placed \subseteq placed' /\ (front' = front \/ ActualSpill) BY XueGrows
<1>4. At(k, i) \subseteq At(k, i)' BY <1>3 DEF At
<1>5. CASE k < front[d] BY <1>4, <1>5 DEF ReasonInv
<1>6. CASE ~(k < front[d])
  <2>1. ActualSpill BY <1>3, <1>6
  <2> DEFINE t == Top[1]
  <2>2. t \in Data /\ front[t] = kind BY <2>1, PopFacts DEF ActualSpill
  <2>3. front \in [Data -> MemoryKind \cup {NoKind}] /\ kind \in MemoryKind BY DEF SpmInv, TypeOK
  <2>4. front' = [front EXCEPT ![t] = @ + 1] BY <2>1 DEF ActualSpill
  <2>5. \A j \in 0..(nColor - 1) : ~Fits(j, t) BY <2>1 DEF ActualSpill
  <2> HIDE DEF t
  <2>6. d = t /\ k = kind BY <1>6, <2>2, <2>3, <2>4
  <2>7. ~Fits(i, d) BY <2>5, <2>6 DEF nColor
  <2> QED BY <1>4, <2>6, <2>7 DEF Fits, hInter
<1> QED BY <1>5, <1>6
-----------------------------------------------------------------------------
(* Degrees                                                                 *)

LEMMA DataFinite ==
  ASSUME NEW S, S \subseteq Data
  PROVE  IsFiniteSet(S) /\ Cardinality(S) \in Nat /\ Cardinality(S) < UnsignedMod
<1>1. IsFiniteSet(1..NumData) /\ Cardinality(1..NumData) = NumData BY FS_Interval
<1>2. IsFiniteSet(S) /\ Cardinality(S) <= NumData BY <1>1, FS_Subset
<1>3. Cardinality(S) \in Nat BY <1>2, FS_CardinalityType
<1> QED BY <1>2, <1>3

(* The decrements of a push are the neighbours it takes from the list: a   *)
(* degree that is decremented is not zero.                                 *)
LEMMA PushCounts ==
  ASSUME SpmInv, DegreesCount, pc = "colour", NEW d \in data_list, Push(d)
  PROVE  DegreesCount'
<1>1. UNCHANGED <<program, memory, g_hFuncCall, algorithm, pc, kind, m_hSubgraph>>
  BY DEF Push, given
<1>2. \A x, y : IsInterfere(x, y)' = IsInterfere(x, y) BY <1>1, InterfereSame DEF given
<1>3. /\ data_list \subseteq Data /\ kind \in MemoryKind /\ m_hSubgraph \in [MemoryKind -> SUBSET Data]
      /\ data_list \subseteq m_hSubgraph[kind]
  BY DEF SpmInv, TypeOK, BeingColored
<1>4. /\ hDegree' = [x \in Data |-> IF x \in hInter(d) THEN (hDegree[x] - 1) % UnsignedMod ELSE hDegree[x]]
      /\ data_list' = data_list \ {d}
  BY DEF Push
<1> SUFFICES ASSUME NEW e \in m_hSubgraph[kind]
             PROVE  hDegree'[e] = Cardinality({x \in m_hSubgraph[kind] : IsInterfere(e, x)} \cap data_list')
  BY <1>1, <1>2 DEF DegreesCount, hInter
<1> DEFINE near == hInter(e) \cap data_list
           S == {x \in m_hSubgraph[kind] : IsInterfere(e, x)} \cap data_list'
<1>5. e \in Data /\ near \subseteq Data BY <1>3
<1>6. hDegree[e] = Cardinality(near) BY DEF DegreesCount
<1>7. IsFiniteSet(near) /\ Cardinality(near) \in Nat /\ Cardinality(near) < UnsignedMod
  BY <1>5, DataFinite
<1>8. S = near \ {d} BY <1>4 DEF hInter
<1>9. e \in hInter(d) <=> d \in near
  BY <1>3, InterfereSym DEF hInter
<1>10. hDegree'[e] = IF e \in hInter(d) THEN (hDegree[e] - 1) % UnsignedMod ELSE hDegree[e]
  BY <1>4, <1>5
<1> HIDE DEF near, S
<1>11. CASE d \in near
  <2>1. Cardinality(S) = Cardinality(near) - 1 /\ Cardinality(S) \in Nat
    BY <1>7, <1>8, <1>11, FS_RemoveElement, FS_CardinalityType
  <2>2. UnsignedMod \in Nat OBVIOUS
  <2> DEFINE n == Cardinality(near)
  <2>3. n - 1 \in Nat /\ n - 1 < UnsignedMod /\ n \in Nat BY <1>7, <2>1
  <2> HIDE DEF n
  <2>4. (n - 1) % UnsignedMod = n - 1 BY <2>2, <2>3
  <2> QED BY <1>6, <1>9, <1>10, <1>11, <2>1, <2>4 DEF n, S
<1>12. CASE d \notin near
  <2>1. S = near BY <1>8, <1>12
  <2> QED BY <1>6, <1>9, <1>10, <1>12, <2>1 DEF S
<1> QED BY <1>11, <1>12

LEMMA StartCounts ==
  ASSUME SpmInv, UNCHANGED given, NEW k \in MemoryKind, NEW sub \in SUBSET Data, StartKind(k, sub)
  PROVE  DegreesCount'
<1>1. /\ kind' = k /\ m_hSubgraph' = [m_hSubgraph EXCEPT ![k] = sub] /\ data_list' = sub
      /\ hDegree' = [d \in Data |-> Cardinality({e \in sub : d \in sub /\ IsInterfere(d, e)})]
  BY DEF StartKind
<1>2. m_hSubgraph'[k] = sub BY <1>1 DEF SpmInv, TypeOK
<1>3. \A x, y : IsInterfere(x, y)' = IsInterfere(x, y) BY InterfereSame
<1> SUFFICES ASSUME NEW d \in sub
             PROVE  hDegree'[d] = Cardinality({x \in sub : IsInterfere(d, x)} \cap sub)
  BY <1>1, <1>2, <1>3 DEF DegreesCount, hInter
<1>4. {e \in sub : d \in sub /\ IsInterfere(d, e)} = {x \in sub : IsInterfere(d, x)} \cap sub
  OBVIOUS
<1> QED BY <1>1, <1>4

LEMMA DegreesKept == SpmInv /\ DegreesCount /\ [Next]_vars => DegreesCount'
<1> SUFFICES ASSUME SpmInv, DegreesCount, [Next]_vars, pc' = "colour" PROVE DegreesCount'
  BY DEF DegreesCount
<1>1. UNCHANGED given BY GivenSame
<1>2. \A x, y : IsInterfere(x, y)' = IsInterfere(x, y) BY <1>1, InterfereSame
<1>3. ASSUME UNCHANGED <<pc, kind, m_hSubgraph, data_list, hDegree>> PROVE DegreesCount'
  BY <1>2, <1>3 DEF DegreesCount, hInter
<1>4. CASE \E d \in data_list : pc = "colour" /\ Push(d) BY <1>4, PushCounts
<1>5. CASE Select \/ ActualSpill
  BY <1>3, <1>5 DEF Select, ActualSpill, Pop
<1>6. CASE XueKind
  <2>1. StartKind(kind, {d \in Data : front[d] = kind}) BY <1>6 DEF XueKind
  <2>2. kind \in MemoryKind BY DEF SpmInv, TypeOK
  <2> QED BY <1>1, <2>1, <2>2, StartCounts
<1>7. CASE MpcKind
  <2>1. PICK k \in subgraph_list : StartKind(k, m_hSubgraph[k]) BY <1>7 DEF MpcKind
  <2>2. k \in MemoryKind /\ m_hSubgraph[k] \in SUBSET Data BY DEF SpmInv, TypeOK
  <2> QED BY <1>1, <2>1, <2>2, StartCounts
<1>8. CASE UNCHANGED vars BY <1>3, <1>8 DEF vars
<1>9. algorithm \in {"Xue", "MPC"} \/ (algorithm = "FCFS" /\ pc # "colour") BY DEF SpmInv, TypeOK, Phases
<1>10. CASE XueNext \/ MpcRound \/ MpcNext \/ MpcEnd
  BY <1>10 DEF XueNext, MpcRound, MpcNext, MpcEnd
<1>11. CASE Allocate \/ FcfsEnd
  BY <1>11 DEF Allocate, FcfsEnd, AllocateInNode, AllocateNewNode, addData, OutOfMemory
<1> QED BY <1>4, <1>5, <1>6, <1>7, <1>8, <1>9, <1>10, <1>11, XueSteps, MpcSteps, FcfsSteps

-----------------------------------------------------------------------------
(* Places                                                                  *)

(* Pushing leaves the data to be coloured, popping takes one of them.      *)
LEMMA PushStack ==
  ASSUME SpmInv, NEW d \in data_list, Push(d)
  PROVE  ToColor' = ToColor
<1>1. data_stack \in Seq(Data \X (0..(UnsignedMod - 1))) /\ d \in Data
      /\ hDegree \in [Data -> 0..(UnsignedMod - 1)]
  BY DEF SpmInv, TypeOK
<1> DEFINE entry == <<d, hDegree[d]>>
<1>2. data_stack' = Append(data_stack, entry) /\ data_list' = data_list \ {d} BY DEF Push
<1>3. entry \in Data \X (0..(UnsignedMod - 1)) /\ entry[1] = d BY <1>1
<1> HIDE DEF entry
<1>4. /\ DOMAIN data_stack = 1..Len(data_stack) /\ Len(data_stack) \in Nat
      /\ DOMAIN data_stack' = 1..(Len(data_stack) + 1)
      /\ data_stack'[Len(data_stack) + 1] = entry
      /\ \A i \in 1..Len(data_stack) : data_stack'[i] = data_stack[i]
  BY <1>1, <1>2, <1>3
<1>5. OnStack' = OnStack \cup {d} BY <1>3, <1>4 DEF OnStack
<1> QED BY <1>2, <1>5 DEF ToColor

LEMMA PopStack ==
  ASSUME SpmInv, Pop
  PROVE  /\ ToColor = ToColor' \cup {Top[1]} /\ Top[1] \notin ToColor'
         /\ ToColor = OnStack
<1>1. data_stack \in Seq(Data \X (0..(UnsignedMod - 1))) /\ data_stack # <<>>
      /\ data_stack' = SubSeq(data_stack, 1, Len(data_stack) - 1)
      /\ data_list = {} /\ data_list' = {}
  BY DEF SpmInv, TypeOK, Pop
<1>2. /\ DOMAIN data_stack = 1..Len(data_stack) /\ Len(data_stack) \in Nat /\ Len(data_stack) > 0
      /\ DOMAIN data_stack' = 1..(Len(data_stack) - 1)
      /\ \A i \in 1..(Len(data_stack) - 1) : data_stack'[i] = data_stack[i]
  BY <1>1
<1>3. \A i \in DOMAIN data_stack : i \in DOMAIN data_stack' \/ i = Len(data_stack) BY <1>2
<1>4. Len(data_stack) \in DOMAIN data_stack /\ DOMAIN data_stack' \subseteq DOMAIN data_stack BY <1>2
<1>5. OnStack = OnStack' \cup {Top[1]} BY <1>2, <1>3, <1>4 DEF OnStack, Top
<1>6. Top[1] \notin OnStack' BY PopFacts
<1> QED BY <1>1, <1>5, <1>6 DEF ToColor

LEMMA EmptyStack ==
  ASSUME SpmInv, data_stack = <<>>
  PROVE  ToColor = data_list
BY DEF ToColor, OnStack

(* A step that neither places nor moves anything, nor ends a phase.        *)
LEMMA XuePlacesSame ==
  ASSUME XuePlaces, UNCHANGED <<algorithm, pc, front, kind, placed>>, pc = "colour" => ToColor' = ToColor
  PROVE  XuePlaces'
BY DEF XuePlaces, IsPlaced

LEMMA XueSelectPlaces ==
  ASSUME SpmInv, XuePlaces, algorithm = "Xue", Select
  PROVE  XuePlaces'
<1>1. UNCHANGED <<algorithm, pc, front, kind>> /\ Pop BY DEF Select, Pop, given
<1>d. PICK d : d = Top[1] OBVIOUS
<1>2. PICK i \in 0..(nColor - 1) : placed' = placed \cup {<<kind, i, d>>} BY <1>d DEF Select
<1>3. /\ d \in Data /\ front[d] = kind /\ pc = "colour"
      /\ ToColor = ToColor' \cup {d} /\ d \notin ToColor'
  BY <1>1, <1>d, PopFacts, PopStack
<1>4. ~IsPlaced(d) /\ \A e \in ToColor : ~IsPlaced(e) BY <1>3 DEF XuePlaces
<1>5. PICK p0 : p0 = <<kind, i, d>> OBVIOUS
<1>6. p0[1] = kind /\ p0[3] = d BY <1>5
<1>7. placed' = placed \cup {p0} BY <1>2, <1>5
<1>8. IsPlaced(d)' /\ \A e : e # d => (IsPlaced(e)' <=> IsPlaced(e)) BY <1>6, <1>7 DEF IsPlaced
<1>9. \A p \in placed' : front[p[3]] = p[1] BY <1>3, <1>6, <1>7 DEF XuePlaces
<1>10. \A p, q \in placed' : p[3] = q[3] => p = q
  BY <1>4, <1>6, <1>7 DEF XuePlaces, IsPlaced
<1>11. \A e \in Data : front[e] <= kind => IsPlaced(e)' \/ e \in ToColor' BY <1>3, <1>8 DEF XuePlaces
<1>12. \A e \in ToColor' : ~IsPlaced(e)' BY <1>3, <1>4, <1>8
<1> QED BY <1>1, <1>3, <1>9, <1>10, <1>11, <1>12 DEF XuePlaces

LEMMA XueSpillPlaces ==
  ASSUME SpmInv, XuePlaces, algorithm = "Xue", ActualSpill
  PROVE  XuePlaces'
<1>1. UNCHANGED <<algorithm, pc, kind, placed>> /\ Pop BY DEF ActualSpill, Pop, given
<1>d. PICK d : d = Top[1] OBVIOUS
<1>2. front' = [front EXCEPT ![d] = @ + 1] BY <1>d DEF ActualSpill
<1>3. /\ d \in Data /\ front[d] = kind /\ pc = "colour"
      /\ ToColor = ToColor' \cup {d} /\ d \notin ToColor'
  BY <1>1, <1>d, PopFacts, PopStack
<1>4. /\ front \in [Data -> MemoryKind \cup {NoKind}] /\ kind \in MemoryKind
      /\ placed \subseteq MemoryKind \X Nat \X Data
  BY DEF SpmInv, TypeOK
<1>5. front'[d] = kind + 1 /\ \A e \in Data \ {d} : front'[e] = front[e] BY <1>2, <1>3, <1>4
<1>6. ~IsPlaced(d) BY <1>3 DEF XuePlaces
<1>7. \A p \in placed : p[3] \in Data /\ p[3] # d BY <1>4, <1>6 DEF IsPlaced
<1>8. \A p \in placed : front'[p[3]] = p[1] BY <1>5, <1>7 DEF XuePlaces
<1>9. \A e \in Data : front'[e] <= kind => IsPlaced(e) \/ e \in ToColor'
  BY <1>3, <1>4, <1>5 DEF XuePlaces
<1>10. \A e \in ToColor' : ~IsPlaced(e) BY <1>3 DEF XuePlaces
<1>11. \A e : IsPlaced(e)' <=> IsPlaced(e) BY <1>1 DEF IsPlaced
<1> QED BY <1>1, <1>3, <1>8, <1>9, <1>10, <1>11 DEF XuePlaces

LEMMA XuePlacesKept == SpmInv /\ XuePlaces /\ [Next]_vars => XuePlaces'
<1> SUFFICES ASSUME SpmInv, XuePlaces, [Next]_vars PROVE XuePlaces' OBVIOUS
<1>0. algorithm' = algorithm BY GivenSame DEF given
<1> SUFFICES ASSUME algorithm = "Xue" PROVE XuePlaces' BY <1>0 DEF XuePlaces
<1>1. CASE \E d \in data_list : pc = "colour" /\ Push(d)
  BY <1>0, <1>1, PushStack, XuePlacesSame DEF Push
<1>2. CASE Select BY <1>2, XueSelectPlaces
<1>3. CASE ActualSpill BY <1>3, XueSpillPlaces
<1>4. CASE XueKind
  <2>1. /\ pc = "kind" /\ pc' = "colour" /\ data_list' = {d \in Data : front[d] = kind}
        /\ data_stack' = data_stack
        /\ UNCHANGED <<front, placed, kind>>
    BY <1>4 DEF XueKind, StartKind
  <2>2. ToColor' = {d \in Data : front[d] = kind}
    BY <2>1 DEF ToColor, OnStack, SpmInv, Phases
  <2>3. \A p \in placed : p[1] < kind BY <2>1 DEF SpmInv, XueInv
  <2>4. front \in [Data -> MemoryKind \cup {NoKind}] /\ kind \in MemoryKind BY DEF SpmInv, TypeOK
  <2>5. \A d \in ToColor' : ~IsPlaced(d) BY <2>2, <2>3, <2>4 DEF XuePlaces, IsPlaced
  <2>6. \A d \in Data : front[d] <= kind => IsPlaced(d) \/ d \in ToColor'
    BY <2>1, <2>2, <2>4 DEF XuePlaces
  <2>7. \A d : IsPlaced(d)' <=> IsPlaced(d) BY <2>1 DEF IsPlaced
  <2> QED BY <1>0, <2>1, <2>5, <2>6, <2>7 DEF XuePlaces
<1>5. CASE XueNext
  <2>1. /\ pc = "colour" /\ data_list = {} /\ data_stack = <<>>
        /\ \/ kind < DRAM /\ kind' = kind + 1 /\ pc' = "kind"
           \/ ~(kind < DRAM) /\ kind' = kind /\ pc' \in {"spin", "done"}
        /\ UNCHANGED <<front, placed>>
    BY <1>5 DEF XueNext, Colored
  <2>2. front \in [Data -> MemoryKind \cup {NoKind}] /\ kind \in MemoryKind BY DEF SpmInv, TypeOK
  <2>3. ToColor = {} BY <2>1, EmptyStack
  <2>4. \A d \in Data : front[d] <= kind => IsPlaced(d) BY <2>1, <2>3 DEF XuePlaces
  <2>5. \A d : IsPlaced(d)' <=> IsPlaced(d) BY <2>1 DEF IsPlaced
  <2>6. \A d \in Data : front[d] < kind + 1 => front[d] <= kind BY <2>2
  <2>7. pc' \in {"done", "spin"} => kind' = DRAM BY <2>1, <2>2
  <2> QED BY <1>0, <2>1, <2>4, <2>5, <2>6, <2>7 DEF XuePlaces
<1>6. CASE UNCHANGED vars
  <2>1. UNCHANGED <<pc, front, kind, placed, data_list, data_stack>> BY <1>6 DEF vars
  <2>2. ToColor' = ToColor BY <2>1 DEF ToColor, OnStack
  <2> QED BY <1>0, <2>1, <2>2, XuePlacesSame
<1> QED BY <1>1, <1>2, <1>3, <1>4, <1>5, <1>6, XueSteps

(* What interferes with a stacked datum, wherever the stack is.            *)
LEMMA NearSame ==
  ASSUME UNCHANGED given, UNCHANGED <<kind, m_hSubgraph>>, NEW i, NEW x, x = data_stack'[i][1]
  PROVE  hInter(data_stack[i][1])' = hInter(x)
BY DEF given, hInter, IsInterfere, LiveTogether, Calls

-----------------------------------------------------------------------------
(* In colouring with Xue's allocator a stacked degree bounds those that    *)
(* are popped first.                                                       *)
LEMMA PushBound ==
  ASSUME SpmInv, DegreesInv, algorithm = "Xue", pc = "colour", NEW d \in data_list, Push(d)
  PROVE  DegreesInv'
<1>1. DegreesCount' BY PushCounts DEF DegreesInv
<1>2. UNCHANGED <<program, memory, g_hFuncCall, algorithm, pc, kind, m_hSubgraph, placed>>
  BY DEF Push, given
<1>3. \A x, y : IsInterfere(x, y)' = IsInterfere(x, y) BY <1>2, InterfereSame DEF given
<1>4. /\ data_stack \in Seq(Data \X (0..(UnsignedMod - 1))) /\ d \in Data
      /\ hDegree \in [Data -> 0..(UnsignedMod - 1)] /\ data_list \subseteq Data
      /\ kind \in MemoryKind /\ m_hSubgraph \in [MemoryKind -> SUBSET Data]
  BY DEF SpmInv, TypeOK
<1>n. PICK n : n = Len(data_stack) OBVIOUS
<1>e. PICK entry : entry = <<d, hDegree[d]>> OBVIOUS
<1>5. data_stack' = Append(data_stack, entry) /\ data_list' = data_list \ {d} BY <1>e DEF Push
<1>6. entry \in Data \X (0..(UnsignedMod - 1)) /\ entry[1] = d /\ entry[2] = hDegree[d] BY <1>e, <1>4
<1>7. /\ DOMAIN data_stack = 1..n /\ n \in Nat
      /\ DOMAIN data_stack' = 1..(n + 1) /\ Len(data_stack') = n + 1
      /\ data_stack'[n + 1] = entry
      /\ \A i \in 1..n : data_stack'[i] = data_stack[i]
  BY <1>n, <1>4, <1>5, <1>6
<1>8. Holds(kind) = {} BY <1>2 DEF DegreesInv
<1>9. \A x : hInter(x)' = hInter(x) BY <1>2, <1>3 DEF hInter
<1>10. Holds(kind)' = {} BY <1>2, <1>8 DEF Holds
<1>11. ASSUME NEW i \in 1..n
       PROVE  Cardinality(hInter(data_stack[i][1]) \cap Since(i)') <= data_stack[i][2]
  <2>1. {data_stack'[j][1] : j \in (i + 1)..(n + 1)} = {data_stack[j][1] : j \in (i + 1)..n} \cup {d}
    <3>1. \A j \in (i + 1)..(n + 1) : j \in (i + 1)..n \/ j = n + 1 BY <1>7
    <3>2. \A j \in (i + 1)..n : j \in 1..n /\ j \in (i + 1)..(n + 1) BY <1>7
    <3>3. n + 1 \in (i + 1)..(n + 1) BY <1>7
    <3> QED BY <1>6, <1>7, <3>1, <3>2, <3>3
  <2>2. Since(i)' = Since(i) BY <1>n, <1>5, <1>7, <1>8, <1>10, <2>1 DEF Since
  <2> QED BY <1>2, <1>7, <2>2 DEF DegreesInv
<1>12. Cardinality(hInter(d) \cap Since(n + 1)') <= hDegree[d]
  <2>1. Since(n + 1)' = data_list \ {d}
    <3>1. {data_stack'[j][1] : j \in (n + 1 + 1)..(n + 1)} = {} BY <1>7
    <3> QED BY <1>5, <1>7, <1>10, <3>1 DEF Since
  <2>2. d \in m_hSubgraph[kind] BY DEF SpmInv, BeingColored
  <2>3. hDegree[d] = Cardinality(hInter(d) \cap data_list) BY <2>2 DEF DegreesInv, DegreesCount
  <2>4. hInter(d) \cap data_list \subseteq Data BY <1>4
  <2> QED BY <2>1, <2>3, <2>4, DataFinite, FS_Subset
<1>13. ASSUME NEW i \in DOMAIN data_stack'
       PROVE  (Cardinality(hInter(data_stack[i][1]) \cap Since(i)) <= data_stack[i][2])'
  <2>1. i \in 1..n \/ i = n + 1 BY <1>7
  <2>x. PICK x : x = data_stack'[i][1] OBVIOUS
  <2>2. hInter(data_stack[i][1])' = hInter(x) BY <1>2, <2>x, NearSame DEF given
  <2>3. CASE i \in 1..n
    <3>1. data_stack'[i] = data_stack[i] BY <1>7, <2>3
    <3> QED BY <1>11, <2>2, <2>3, <2>x, <3>1
  <2>4. CASE i = n + 1
    <3>1. x = d /\ data_stack'[i][2] = hDegree[d] BY <1>6, <1>7, <2>4, <2>x
    <3> QED BY <1>12, <2>2, <2>4, <3>1
  <2> QED BY <2>1, <2>3, <2>4
<1> QED BY <1>1, <1>10, <1>2, <1>13 DEF DegreesInv

LEMMA PopBound ==
  ASSUME SpmInv, DegreesInv, algorithm = "Xue", Select \/ ActualSpill, DegreesCount'
  PROVE  DegreesInv'
<1>1. UNCHANGED <<program, memory, g_hFuncCall, algorithm, pc, kind, m_hSubgraph, data_list>> /\ Pop
  BY DEF Select, ActualSpill, Pop, given
<1>2. \A x, y : IsInterfere(x, y)' = IsInterfere(x, y) BY <1>1, InterfereSame DEF given
<1>n. PICK n : n = Len(data_stack) OBVIOUS
<1>3. /\ data_stack \in Seq(Data \X (0..(UnsignedMod - 1))) /\ data_stack # <<>>
      /\ data_stack' = SubSeq(data_stack, 1, n - 1) /\ data_list = {} /\ data_list' = {}
      /\ pc = "colour" /\ placed \subseteq MemoryKind \X Nat \X Data
      /\ kind \in MemoryKind /\ m_hSubgraph \in [MemoryKind -> SUBSET Data]
  BY <1>n, <1>1 DEF SpmInv, TypeOK, Pop
<1>4. /\ DOMAIN data_stack = 1..n /\ n \in Nat /\ n > 0
      /\ DOMAIN data_stack' = 1..(n - 1) /\ Len(data_stack') = n - 1
      /\ \A i \in 1..(n - 1) : data_stack'[i] = data_stack[i]
  BY <1>n, <1>3
<1>5. Holds(kind)' \subseteq Holds(kind) \cup {data_stack[n][1]}
  <2>1. placed' = placed \/ \E i \in 0..(nColor - 1) : placed' = placed \cup {<<kind, i, Top[1]>>}
    BY DEF Select, ActualSpill
  <2>2. Top = data_stack[n] BY <1>n DEF Top
  <2> QED BY <1>1, <2>1, <2>2 DEF Holds
<1> SUFFICES ASSUME NEW i \in DOMAIN data_stack'
             PROVE  Cardinality(hInter(data_stack[i][1]) \cap Since(i)') <= data_stack[i][2]
  <2>2. ASSUME NEW i \in DOMAIN data_stack'
        PROVE  (Cardinality(hInter(data_stack[i][1]) \cap Since(i)) <= data_stack[i][2])'
    <3>1. data_stack'[i] = data_stack[i] BY <1>4
    <3>x. PICK x : x = data_stack'[i][1] OBVIOUS
    <3>2. hInter(data_stack[i][1])' = hInter(x) BY <1>1, <3>x, NearSame DEF given
    <3> QED BY <3>1, <3>2, <3>x
  <2> QED BY <1>3, <2>2 DEF DegreesInv
<1>6. i \in 1..n /\ i \in 1..(n - 1) BY <1>4
<1>7. {data_stack'[j][1] : j \in (i + 1)..(n - 1)} \subseteq {data_stack[j][1] : j \in (i + 1)..n}
  <2>1. \A j \in (i + 1)..(n - 1) : j \in 1..(n - 1) /\ j \in (i + 1)..n BY <1>4, <1>6
  <2> QED BY <1>4, <2>1
<1>8. data_stack[n][1] \in {data_stack[j][1] : j \in (i + 1)..n}
  <2>1. n \in (i + 1)..n BY <1>4, <1>6
  <2> QED BY <2>1
<1>9. Since(i)' \subseteq Since(i) BY <1>n, <1>3, <1>4, <1>5, <1>7, <1>8 DEF Since
<1>10. hInter(data_stack[i][1]) \subseteq Data BY <1>3 DEF hInter
<1>x. PICK near : near = hInter(data_stack[i][1]) OBVIOUS
<1>11. near \cap Since(i) \subseteq Data /\ near \cap Since(i)' \subseteq near \cap Since(i)
  BY <1>x, <1>9, <1>10
<1>12. Cardinality(near \cap Since(i)') <= Cardinality(near \cap Since(i))
  BY <1>11, DataFinite, FS_Subset
<1>13. /\ Cardinality(near \cap Since(i)) \in Nat /\ Cardinality(near \cap Since(i)') \in Nat
  BY <1>11, DataFinite
<1>14. Cardinality(near \cap Since(i)) <= data_stack[i][2]
  BY <1>x, <1>3, <1>4, <1>6 DEF DegreesInv
<1>15. data_stack[i][2] \in Nat BY <1>3, <1>4, <1>6
<1> QED BY <1>x, <1>12, <1>13, <1>14, <1>15

LEMMA DegreesInvKept == SpmInv /\ DegreesInv /\ [Next]_vars => DegreesInv'
<1> SUFFICES ASSUME SpmInv, DegreesInv, [Next]_vars PROVE DegreesInv' OBVIOUS
<1>1. DegreesCount' BY DegreesKept DEF DegreesInv
<1>2. UNCHANGED given BY GivenSame
<1>3. \A x, y : IsInterfere(x, y)' = IsInterfere(x, y) BY <1>2, InterfereSame
<1> SUFFICES ASSUME algorithm = "Xue", pc' = "colour" PROVE DegreesInv'
  BY <1>1, <1>2 DEF DegreesInv, given
<1>4. CASE \E d \in data_list : pc = "colour" /\ Push(d) BY <1>4, PushBound
<1>5. CASE Select \/ ActualSpill BY <1>1, <1>5, PopBound
<1>6. CASE XueKind
  <2>1. pc = "kind" /\ kind' = kind /\ placed' = placed /\ data_stack' = data_stack
    BY <1>6 DEF XueKind, StartKind
  <2>2. data_stack = <<>> /\ \A p \in placed : p[1] < kind BY <2>1 DEF SpmInv, Phases, XueInv
  <2>3. kind \in MemoryKind BY DEF SpmInv, TypeOK
  <2>4. Holds(kind)' = {} BY <2>1, <2>2, <2>3 DEF Holds
  <2>5. DOMAIN data_stack' = {} BY <2>1, <2>2
  <2> QED BY <1>1, <2>4, <2>5 DEF DegreesInv
<1>7. CASE XueNext BY <1>7 DEF XueNext
<1>8. CASE UNCHANGED vars
  <2>1. UNCHANGED <<algorithm, pc, kind, m_hSubgraph, placed, data_list, data_stack>> BY <1>8 DEF vars, given
  <2>2. Holds(kind)' = Holds(kind) BY <2>1 DEF Holds
  <2>3. \A i : Since(i)' = Since(i) BY <2>1, <2>2 DEF Since
  <2>5. ASSUME NEW i \in DOMAIN data_stack
        PROVE  (Cardinality(hInter(data_stack[i][1]) \cap Since(i)) <= data_stack[i][2])'
    <3>x. PICK x : x = data_stack'[i][1] OBVIOUS
    <3>1. hInter(data_stack[i][1])' = hInter(x) BY <1>2, <2>1, <3>x, NearSame
    <3> QED BY <2>1, <2>3, <3>1, <3>x DEF DegreesInv
  <2> QED BY <1>1, <2>1, <2>2, <2>5 DEF DegreesInv
<1> QED BY <1>4, <1>5, <1>6, <1>7, <1>8, XueSteps

LEMMA ColorsType == SpmInv => nColor \in Nat
<1> SUFFICES ASSUME SpmInv PROVE nColor \in Nat OBVIOUS
<1>1. memory \in Memory /\ kind \in MemoryKind BY DEF SpmInv, TypeOK
<1>2. memory.size \in [MemoryKind -> Nat] BY <1>1 DEF Memory
<1> QED BY <1>1, <1>2 DEF nColor

(* A spill needs a neighbour for every colour, all different; if there are *)
(* no more of them than colours, each colour is one neighbour's.           *)
LEMMA SpillHasNeighbours ==
  ASSUME SpmInv, DegreesInv, XuePlaces, algorithm = "Xue", ActualSpill
  PROVE  /\ nColor <= Top[2]
         /\ Top[2] = nColor => EachColorTakenOnce(Top[1])
<1>1. Pop /\ \A i \in 0..(nColor - 1) : ~Fits(i, Top[1]) BY DEF ActualSpill
<1>n. PICK n : n = Len(data_stack) OBVIOUS
<1>t. PICK t : t = Top[1] OBVIOUS
<1>2. /\ data_stack \in Seq(Data \X (0..(UnsignedMod - 1))) /\ data_stack # <<>>
      /\ data_list = {} /\ placed \subseteq MemoryKind \X Nat \X Data /\ pc = "colour"
      /\ kind \in MemoryKind /\ m_hSubgraph \in [MemoryKind -> SUBSET Data]
  BY <1>1 DEF SpmInv, TypeOK, Pop
<1>3. n \in Nat /\ n > 0 /\ DOMAIN data_stack = 1..n /\ n \in DOMAIN data_stack /\ Top = data_stack[n]
  BY <1>n, <1>2 DEF Top
<1>4. nColor \in Nat /\ Top[2] \in Nat
  <2>1. nColor \in Nat BY ColorsType
  <2>2. Top \in Data \X (0..(UnsignedMod - 1)) BY <1>2, <1>3
  <2>3. 0..(UnsignedMod - 1) \subseteq Nat OBVIOUS
  <2> QED BY <2>1, <2>2, <2>3
<1> DEFINE near == hInter(t) \cap Holds(kind)
           colors == 0..(nColor - 1)
           f == [i \in colors |-> CHOOSE e : e \in At(kind, i) \cap hInter(t)]
<1>5. near \subseteq Data /\ Cardinality(near) <= Top[2]
  <2>1. (n + 1)..n = {} BY <1>3
  <2>2. Since(n) = Holds(kind) BY <1>n, <1>2, <2>1 DEF Since
  <2> QED BY <1>2, <1>3, <1>t, <2>2 DEF DegreesInv, hInter
<1>6. ASSUME NEW i \in colors
      PROVE  f[i] \in near /\ <<kind, i, f[i]>> \in placed
  <2>1. f[i] \in At(kind, i) \cap hInter(t) BY <1>1, <1>t DEF Fits
  <2>2. <<kind, i, f[i]>> \in placed BY <2>1 DEF At
  <2>3. PICK q : q = <<kind, i, f[i]>> OBVIOUS
  <2>4. q \in placed /\ q[1] = kind /\ q[3] = f[i] BY <2>2, <2>3
  <2>5. f[i] \in Holds(kind) BY <2>4 DEF Holds
  <2> QED BY <2>1, <2>2, <2>5
<1>7. ASSUME NEW i \in colors, NEW j \in colors, f[i] = f[j]
      PROVE  i = j
  <2>1. PICK p, q : p = <<kind, i, f[i]>> /\ q = <<kind, j, f[j]>> OBVIOUS
  <2>2. p \in placed /\ q \in placed BY <1>6, <2>1
  <2>3. p[3] = q[3] /\ p[2] = i /\ q[2] = j BY <1>7, <2>1
  <2>4. p = q BY <2>2, <2>3 DEF XuePlaces
  <2> QED BY <2>3, <2>4
<1>8. f \in [colors -> near] BY <1>6
<1>9. ASSUME NEW i \in colors, NEW j \in colors, NEW e \in At(kind, i) \cap hInter(t), e = f[j]
      PROVE  i = j
  <2>1. PICK p, q : p = <<kind, i, e>> /\ q = <<kind, j, f[j]>> OBVIOUS
  <2>2. p \in placed /\ q \in placed BY <1>6, <1>9, <2>1 DEF At
  <2>3. p[1] = q[1] /\ p[3] = q[3] /\ p[2] = i /\ q[2] = j BY <1>9, <2>1
  <2>4. p = q BY <2>2, <2>3 DEF XuePlaces
  <2> QED BY <2>3, <2>4
<1>10. ASSUME NEW i \in colors, NEW e \in At(kind, i) \cap hInter(t)
       PROVE  e \in near
  <2>1. PICK q : q = <<kind, i, e>> OBVIOUS
  <2>2. q \in placed /\ q[1] = kind /\ q[3] = e BY <1>10, <2>1 DEF At
  <2>3. e \in Holds(kind) BY <2>2 DEF Holds
  <2> QED BY <1>10, <2>3
<1>11. \A i \in colors : f[i] \in At(kind, i) \cap hInter(t) /\ f[i] \in Data
  BY <1>1, <1>5, <1>6, <1>t DEF Fits
<1> HIDE DEF f, near
<1>12. f \in Injection(colors, near) BY <1>7, <1>8 DEF Injection, IsInjective
<1>13. IsFiniteSet(near) /\ Cardinality(near) \in Nat BY <1>5, DataFinite
<1>14. /\ Cardinality(colors) <= Cardinality(near)
       /\ Cardinality(colors) = Cardinality(near) => f \in Surjection(colors, near)
  BY <1>12, <1>13, FS_Injection
<1>15. Cardinality(colors) = nColor BY <1>4, FS_Interval
<1>16. nColor <= Top[2] BY <1>4, <1>5, <1>13, <1>14, <1>15
<1>17. ASSUME Top[2] = nColor, NEW i \in colors
       PROVE  \E e \in Data : At(kind, i) \cap hInter(t) = {e}
  <2>1. Cardinality(colors) = Cardinality(near) BY <1>4, <1>5, <1>13, <1>14, <1>15, <1>17
  <2>2. \A e \in near : \E j \in colors : f[j] = e BY <1>14, <2>1 DEF Surjection
  <2>3. ASSUME NEW e \in At(kind, i) \cap hInter(t) PROVE e = f[i]
    <3>1. PICK j \in colors : f[j] = e BY <1>10, <1>17, <2>2, <2>3
    <3>2. i = j BY <1>9, <1>17, <2>3, <3>1
    <3> QED BY <3>1, <3>2
  <2>4. At(kind, i) \cap hInter(t) = {f[i]} BY <1>11, <1>17, <2>3
  <2> QED BY <1>11, <1>17, <2>4
<1> QED BY <1>16, <1>17, <1>t DEF EachColorTakenOnce

LEMMA ColorableStep ==
  ASSUME SpmInv, DegreesInv, XuePlaces, [Next]_vars,
         algorithm = "Xue", Len(data_stack') < Len(data_stack), Top[2] <= nColor
  PROVE  \/ \E i \in 0..(nColor - 1) : <<kind, i, Top[1]>> \in placed'
         \/ Top[2] = nColor /\ EachColorTakenOnce(Top[1])
<1>1. data_stack \in Seq(Data \X (0..(UnsignedMod - 1))) BY DEF SpmInv, TypeOK
<1>2. ASSUME NEW d \in data_list, Push(d) PROVE FALSE
  <2>1. d \in Data /\ hDegree \in [Data -> 0..(UnsignedMod - 1)] BY DEF SpmInv, TypeOK
  <2>2. PICK entry \in Data \X (0..(UnsignedMod - 1)) : data_stack' = Append(data_stack, entry)
    BY <1>2, <2>1 DEF Push
  <2>3. Len(data_stack') = Len(data_stack) + 1 BY <1>1, <2>2
  <2> QED BY <1>1, <2>3
<1>3. Len(data_stack) \in Nat /\ data_stack' # data_stack BY <1>1
<1>4. CASE Select BY <1>4 DEF Select
<1>5. CASE ActualSpill
  <2>1. nColor <= Top[2] /\ (Top[2] = nColor => EachColorTakenOnce(Top[1])) BY <1>5, SpillHasNeighbours
  <2>2. Pop BY <1>5 DEF ActualSpill
  <2>3. data_stack # <<>> /\ Top = data_stack[Len(data_stack)] BY <2>2 DEF Pop, Top
  <2>4. nColor \in Nat BY ColorsType
  <2>5. Top \in Data \X (0..(UnsignedMod - 1)) BY <1>1, <2>3
  <2>6. 0..(UnsignedMod - 1) \subseteq Nat OBVIOUS
  <2>7. Top[2] \in Nat BY <2>5, <2>6
  <2> QED BY <2>1, <2>4, <2>7
<1>6. CASE XueKind \/ XueNext \/ UNCHANGED vars BY <1>3, <1>6 DEF XueKind, XueNext, vars
<1> QED BY <1>2, <1>4, <1>5, <1>6, XueSteps

-----------------------------------------------------------------------------
(* MPC                                                                     *)

LEMMA MpcPlacesSame ==
  ASSUME SpmInv, MpcPlaces, UNCHANGED <<given, pc, front, placed, subgraph_list, m_hSubgraph, bSpilled>>,
         pc = "colour" => ToColor' = ToColor
  PROVE  MpcPlaces'
<1>1. \A x, y : IsInterfere(x, y)' = IsInterfere(x, y) BY InterfereSame
<1>2. \A d : IsPlaced(d)' <=> IsPlaced(d) BY DEF IsPlaced
<1>3. \A k, j : At(k, j)' = At(k, j) BY DEF At
<1>4. algorithm' = algorithm BY DEF given
<1> QED BY <1>1, <1>2, <1>3, <1>4 DEF MpcPlaces

(* One that MPC colours again gets the colour it has: the lower ones are   *)
(* still taken.                                                            *)
LEMMA MpcSelectPlaces ==
  ASSUME SpmInv, MpcPlaces, algorithm = "MPC", Select
  PROVE  MpcPlaces'
<1>1. UNCHANGED <<given, algorithm, pc, front, kind, subgraph_list, m_hSubgraph, bSpilled>> /\ Pop
  BY DEF Select, Pop, given
<1>2. \A x, y : IsInterfere(x, y)' = IsInterfere(x, y) BY <1>1, InterfereSame
<1>d. PICK d : d = Top[1] OBVIOUS
<1>3. PICK i \in 0..(nColor - 1) :
        /\ Fits(i, d) /\ \A j \in 0..(i - 1) : ~Fits(j, d)
        /\ placed' = placed \cup {<<kind, i, d>>}
  BY <1>d DEF Select
<1>4. /\ d \in Data /\ d \in m_hSubgraph[kind] /\ front[d] = kind /\ pc = "colour" /\ kind # DRAM
      /\ ToColor = ToColor' \cup {d} /\ d \notin ToColor'
  BY <1>1, <1>d, PopFacts, PopStack
<1>5. placed \subseteq MemoryKind \X Nat \X Data /\ kind \in MemoryKind /\ NoConflict
  BY DEF SpmInv, TypeOK
<1>6. PICK p0 : p0 = <<kind, i, d>> OBVIOUS
<1>7. p0[1] = kind /\ p0[2] = i /\ p0[3] = d BY <1>6
<1>8. placed' = placed \cup {p0} BY <1>3, <1>6
<1>9. IsPlaced(d)' /\ \A e : IsPlaced(e) => IsPlaced(e)' BY <1>7, <1>8 DEF IsPlaced
<1>10. \A k, j : At(k, j) \subseteq At(k, j)' BY <1>8 DEF At
<1>11. \A p \in placed' : p[1] = DRAM => p[2] = 0 /\ front[p[3]] = DRAM
  BY <1>4, <1>7, <1>8 DEF MpcPlaces
<1>12. ASSUME NEW p \in placed', p[1] # DRAM, NEW j \in 0..(p[2] - 1)
       PROVE  \E e \in At(p[1], j)' : IsInterfere(p[3], e)
  <2>1. CASE p \in placed
    <3>1. \E e \in At(p[1], j) : IsInterfere(p[3], e) BY <1>12, <2>1 DEF MpcPlaces
    <3> QED BY <1>10, <3>1
  <2>2. CASE p = p0
    <3>1. p[1] = kind /\ p[3] = d /\ j \in 0..(i - 1) BY <1>7, <1>12, <2>2
    <3>2. ~Fits(j, d) BY <1>3, <3>1
    <3>3. \E e \in At(kind, j) : IsInterfere(d, e) BY <3>2 DEF Fits, hInter
    <3> QED BY <1>10, <3>1, <3>3
  <2> QED BY <1>8, <2>1, <2>2
<1>13. ASSUME NEW q \in placed, q[1] = kind, q[3] = d, ~IsInterfere(d, d)
       PROVE  q = p0
  <2>0. q = <<kind, q[2], d>> /\ q[2] \in Nat /\ i \in Nat BY <1>5, <1>13 DEF nColor
  <2>1. CASE i < q[2]
    <3>1. i \in 0..(q[2] - 1) BY <2>0, <2>1
    <3>2. PICK e \in At(kind, i) : IsInterfere(d, e) BY <1>4, <1>13, <3>1 DEF MpcPlaces
    <3>3. PICK r : r = <<kind, i, e>> OBVIOUS
    <3>4. r \in placed /\ r[1] = kind /\ r[3] = e BY <3>2, <3>3 DEF At
    <3>5. e \in m_hSubgraph[kind] BY <1>4, <3>4 DEF SpmInv, MpcInv
    <3>6. e \in hInter(d) BY <3>2, <3>5 DEF hInter
    <3> QED BY <1>3, <3>2, <3>6 DEF Fits
  <2>2. CASE q[2] < i
    <3>1. ~Fits(q[2], d) BY <1>3, <2>0, <2>2
    <3>2. PICK e \in At(kind, q[2]) : IsInterfere(d, e) BY <3>1 DEF Fits, hInter
    <3>3. PICK r : r = <<kind, q[2], e>> OBVIOUS
    <3>4. r \in placed /\ r[1] = kind /\ r[2] = q[2] /\ r[3] = e BY <3>2, <3>3 DEF At
    <3>5. e # d BY <1>13, <3>2
    <3>6. ~IsInterfere(q[3], r[3]) BY <1>4, <1>5, <1>13, <3>4, <3>5 DEF NoConflict
    <3> QED BY <1>13, <3>2, <3>4, <3>6
  <2>3. CASE q[2] = i BY <1>6, <2>0, <2>3
  <2> QED BY <2>0, <2>1, <2>2, <2>3
<1>14. \A p, q \in placed' : p[1] = q[1] /\ p[3] = q[3] => p = q \/ IsInterfere(p[3], p[3])
  BY <1>7, <1>8, <1>13 DEF MpcPlaces
<1>15. ~bSpilled => \A e \in Data :
         \/ IsPlaced(e)'
         \/ front[e] \in subgraph_list /\ e \in m_hSubgraph[front[e]]
         \/ e \in ToColor'
  BY <1>4, <1>9 DEF MpcPlaces
<1>16. algorithm' = "MPC" /\ pc' = "colour" BY <1>1, <1>4
<1>17. \A p \in placed' : p[1] # DRAM =>
         \A j \in 0..(p[2] - 1) : \E e \in At(p[1], j)' : IsInterfere(p[3], e)'
  BY <1>2, <1>12
<1>18. \A p, q \in placed' : p[1] = q[1] /\ p[3] = q[3] => p = q \/ IsInterfere(p[3], p[3])'
  BY <1>2, <1>14
<1> QED BY <1>1, <1>11, <1>15, <1>16, <1>17, <1>18 DEF MpcPlaces

LEMMA MpcSpillPlaces ==
  ASSUME SpmInv, MpcPlaces, algorithm = "MPC", ActualSpill
  PROVE  MpcPlaces'
<1>1. UNCHANGED <<given, algorithm, pc, kind, placed>> /\ Pop BY DEF ActualSpill, Pop, given
<1>2. \A x, y : IsInterfere(x, y)' = IsInterfere(x, y) BY <1>1, InterfereSame
<1>d. PICK d : d = Top[1] OBVIOUS
<1>3. front' = [front EXCEPT ![d] = @ + 1] /\ bSpilled' = TRUE BY <1>d DEF ActualSpill
<1>4. d \in Data /\ front[d] = kind /\ pc = "colour" /\ kind # DRAM BY <1>1, <1>d, PopFacts
<1>5. front \in [Data -> MemoryKind \cup {NoKind}] /\ placed \subseteq MemoryKind \X Nat \X Data
  BY DEF SpmInv, TypeOK
<1>6. ASSUME NEW p \in placed, p[1] = DRAM PROVE p[2] = 0 /\ front'[p[3]] = DRAM
  <2>1. p[2] = 0 /\ front[p[3]] = DRAM /\ p[3] \in Data BY <1>5, <1>6 DEF MpcPlaces
  <2>2. p[3] # d BY <1>4, <2>1
  <2> QED BY <1>3, <1>5, <2>1, <2>2
<1>7. \A k, j : At(k, j)' = At(k, j) BY <1>1 DEF At
<1> QED BY <1>1, <1>2, <1>3, <1>4, <1>6, <1>7 DEF MpcPlaces

LEMMA MpcRoundPlaces ==
  ASSUME SpmInv, MpcPlaces, algorithm = "MPC", MpcRound
  PROVE  MpcPlaces'
<1>1. /\ pc = "round" /\ pc' = "kind" /\ UNCHANGED <<given, algorithm, front>>
      /\ m_hSubgraph' = [k \in MemoryKind |-> {d \in Data : front[d] = k /\ k # DRAM}]
      /\ placed' = placed \cup {<<DRAM, 0, d>> : d \in {d \in Data : front[d] = DRAM}}
      /\ subgraph_list' = {k \in MemoryKind \ {DRAM} : \E d \in Data : front[d] = k}
  BY DEF MpcRound, given
<1>2. \A x, y : IsInterfere(x, y)' = IsInterfere(x, y) BY <1>1, InterfereSame
<1>3. /\ front \in [Data -> MemoryKind \cup {NoKind}] /\ placed \subseteq MemoryKind \X Nat \X Data
      /\ \A d \in Data : front[d] # NoKind
  BY DEF SpmInv, TypeOK, CostsInv
<1>4. PICK new : new = {<<DRAM, 0, d>> : d \in {d \in Data : front[d] = DRAM}} OBVIOUS
<1>5. \A p \in new : /\ p[1] = DRAM /\ p[2] = 0 /\ front[p[3]] = DRAM /\ p = <<p[1], p[2], p[3]>>
  BY <1>4
<1>6. placed' = placed \cup new BY <1>1, <1>4
<1>7. \A p \in placed' : p[1] = DRAM => p[2] = 0 /\ front[p[3]] = DRAM
  BY <1>5, <1>6 DEF MpcPlaces
<1>8. \A k, j : At(k, j) \subseteq At(k, j)' BY <1>6 DEF At
<1>9. \A p \in placed' : p[1] # DRAM =>
        \A j \in 0..(p[2] - 1) : \E e \in At(p[1], j)' : IsInterfere(p[3], e)'
  BY <1>2, <1>5, <1>6, <1>8 DEF MpcPlaces
<1>10. ASSUME NEW p \in placed', NEW q \in placed', p[1] = q[1], p[3] = q[3]
       PROVE  p = q \/ IsInterfere(p[3], p[3])
  <2>1. CASE p[1] = DRAM
    <3>0. q[1] = DRAM BY <1>10, <2>1
    <3>a. p[2] = 0 BY <1>7, <2>1
    <3>b. q[2] = 0 BY <1>7, <3>0
    <3>1. p[2] = q[2] BY <3>a, <3>b
    <3>2. p = <<p[1], p[2], p[3]>> /\ q = <<q[1], q[2], q[3]>> BY <1>3, <1>5, <1>6
    <3> QED BY <1>10, <3>1, <3>2
  <2>2. CASE p[1] # DRAM
    <3>1. p \in placed /\ q \in placed BY <1>5, <1>6, <1>10, <2>2
    <3> QED BY <1>10, <3>1 DEF MpcPlaces
  <2> QED BY <2>1, <2>2
<1>11. ASSUME NEW d \in Data
       PROVE  IsPlaced(d)' \/ (front[d] \in subgraph_list' /\ d \in m_hSubgraph'[front[d]])
  <2>1. CASE front[d] = DRAM
    <3>1. PICK p : p = <<DRAM, 0, d>> OBVIOUS
    <3>2. p \in placed' /\ p[3] = d BY <1>4, <1>6, <2>1, <3>1
    <3> QED BY <3>2 DEF IsPlaced
  <2>2. CASE front[d] # DRAM
    <3>1. front[d] \in MemoryKind \ {DRAM} BY <1>3, <2>2
    <3> QED BY <1>1, <2>2, <3>1
  <2> QED BY <2>1, <2>2
<1> QED BY <1>1, <1>2, <1>7, <1>9, <1>10, <1>11 DEF MpcPlaces

LEMMA MpcKindPlaces ==
  ASSUME SpmInv, MpcPlaces, algorithm = "MPC", MpcKind
  PROVE  MpcPlaces'
<1>1. PICK k \in subgraph_list : StartKind(k, m_hSubgraph[k]) /\ subgraph_list' = subgraph_list \ {k}
  BY DEF MpcKind
<1>2. /\ pc = "kind" /\ pc' = "colour" /\ data_list' = m_hSubgraph[k]
      /\ m_hSubgraph' = [m_hSubgraph EXCEPT ![k] = m_hSubgraph[k]]
      /\ UNCHANGED <<given, algorithm, front, placed, bSpilled, data_stack>>
  BY <1>1 DEF MpcKind, StartKind, given
<1>3. m_hSubgraph' = m_hSubgraph BY <1>2 DEF SpmInv, TypeOK
<1>4. \A x, y : IsInterfere(x, y)' = IsInterfere(x, y) BY <1>2, InterfereSame
<1>5. ToColor' = m_hSubgraph[k] BY <1>2 DEF ToColor, OnStack, SpmInv, Phases
<1>6. \A d : IsPlaced(d)' <=> IsPlaced(d) BY <1>2 DEF IsPlaced
<1>7. \A j, i : At(j, i)' = At(j, i) BY <1>2 DEF At
<1>8. ~bSpilled => \A d \in Data :
         \/ IsPlaced(d)
         \/ front[d] \in subgraph_list' /\ d \in m_hSubgraph[front[d]]
         \/ d \in ToColor'
  BY <1>1, <1>2, <1>5 DEF MpcPlaces
<1> QED BY <1>2, <1>3, <1>4, <1>6, <1>7, <1>8 DEF MpcPlaces

LEMMA MpcNextPlaces ==
  ASSUME SpmInv, MpcPlaces, algorithm = "MPC", MpcNext
  PROVE  MpcPlaces'
<1>1. /\ pc = "colour" /\ pc' = "kind" /\ data_list = {} /\ data_stack = <<>>
      /\ placed' = IF bSpilled THEN {p \in placed : p[1] # kind} ELSE placed
      /\ UNCHANGED <<given, algorithm, front, subgraph_list, m_hSubgraph, bSpilled>>
  BY DEF MpcNext, Colored, given
<1>2. \A x, y : IsInterfere(x, y)' = IsInterfere(x, y) BY <1>1, InterfereSame
<1>3. ToColor = {} BY <1>1, EmptyStack
<1>4. placed' \subseteq placed BY <1>1
<1>5. ASSUME NEW p \in placed', NEW j PROVE At(p[1], j)' = At(p[1], j)
  <2>1. CASE bSpilled
    <3>1. p[1] # kind BY <1>1, <2>1
    <3>2. ASSUME NEW d PROVE <<p[1], j, d>> \in placed <=> <<p[1], j, d>> \in placed'
      BY <1>1, <2>1, <3>1
    <3> QED BY <3>2 DEF At
  <2>2. CASE ~bSpilled BY <1>1, <2>2 DEF At
  <2> QED BY <2>1, <2>2
<1>6. \A p \in placed' : p[1] # DRAM =>
        \A j \in 0..(p[2] - 1) : \E e \in At(p[1], j)' : IsInterfere(p[3], e)'
  BY <1>2, <1>4, <1>5 DEF MpcPlaces
<1>7. ~bSpilled => \A d \in Data : IsPlaced(d)' <=> IsPlaced(d) BY <1>1 DEF IsPlaced
<1> QED BY <1>1, <1>2, <1>3, <1>4, <1>6, <1>7 DEF MpcPlaces

LEMMA MpcPlacesKept == SpmInv /\ MpcPlaces /\ [Next]_vars => MpcPlaces'
<1> SUFFICES ASSUME SpmInv, MpcPlaces, [Next]_vars PROVE MpcPlaces' OBVIOUS
<1>0. UNCHANGED given /\ algorithm' = algorithm BY GivenSame DEF given
<1> SUFFICES ASSUME algorithm = "MPC" PROVE MpcPlaces' BY <1>0 DEF MpcPlaces
<1>1. CASE \E d \in data_list : pc = "colour" /\ Push(d)
  BY <1>1, PushStack, MpcPlacesSame DEF Push
<1>2. CASE Select BY <1>2, MpcSelectPlaces
<1>3. CASE ActualSpill BY <1>3, MpcSpillPlaces
<1>4. CASE MpcRound BY <1>4, MpcRoundPlaces
<1>5. CASE MpcKind BY <1>5, MpcKindPlaces
<1>6. CASE MpcNext BY <1>6, MpcNextPlaces
<1>7. CASE MpcEnd
  <2>1. /\ pc = "kind" /\ subgraph_list = {} /\ pc' = IF bSpilled THEN "round" ELSE "done"
        /\ UNCHANGED <<given, front, placed>>
    BY <1>7 DEF MpcEnd
  <2>2. \A x, y : IsInterfere(x, y)' = IsInterfere(x, y) BY <1>0, InterfereSame
  <2>3. \A d : IsPlaced(d)' <=> IsPlaced(d) BY <2>1 DEF IsPlaced
  <2>4. \A k, j : At(k, j)' = At(k, j) BY <2>1 DEF At
  <2>5. pc' = "done" => \A d \in Data : IsPlaced(d) BY <2>1 DEF MpcPlaces
  <2>6. pc' \notin {"kind", "colour"} BY <2>1
  <2> QED BY <1>0, <2>1, <2>2, <2>3, <2>4, <2>5, <2>6 DEF MpcPlaces
<1>8. CASE UNCHANGED vars
  <2>1. UNCHANGED <<given, pc, front, placed, subgraph_list, m_hSubgraph, bSpilled, data_list, data_stack>>
    BY <1>8 DEF vars
  <2>2. ToColor' = ToColor BY <2>1 DEF ToColor, OnStack
  <2> QED BY <2>1, <2>2, MpcPlacesSame
<1> QED BY <1>1, <1>2, <1>3, <1>4, <1>5, <1>6, <1>7, <1>8, MpcSteps

-----------------------------------------------------------------------------
(* First come first served                                                 *)

(* A round either places the datum in the memory whose cost is popped or   *)
(* leaves everything where it is.                                          *)
LEMMA AllocateStep ==
  ASSUME SpmInv, Allocate
  PROVE  \E d \in data_list : \E k \in MemoryKind :
           /\ d \in Data /\ k = front[d] /\ front' = [front EXCEPT ![d] = k + 1] /\ algorithm = "FCFS"
           /\ \/ /\ placed' = placed /\ data_list' = data_list
                 /\ m_AllocList' = m_AllocList /\ m_nReserved' = m_nReserved
              \/ \E i \in Nodes(k) : Joins(d, k, i) /\ addData(d, k, i, m_AllocList[k])
              \/ addData(d, k, Len(m_AllocList[k]) + 1, Append(m_AllocList[k], 0))
<1>1. /\ pc = "allocate" /\ algorithm = "FCFS" /\ data_list \subseteq Data
      /\ front \in [Data -> MemoryKind \cup {NoKind}]
  BY DEF Allocate, SpmInv, TypeOK, Phases
<1>2. PICK d \in data_list : /\ AllocateInNode(d, front[d]) \/ AllocateNewNode(d, front[d])
                             /\ front' = [front EXCEPT ![d] = @ + 1]
  BY DEF Allocate
<1>3. front[d] # NoKind BY <1>1 DEF SpmInv, CostsAreLeft
<1>4. PICK k : k = front[d] OBVIOUS
<1>5. k \in MemoryKind /\ front' = [front EXCEPT ![d] = k + 1] /\ d \in Data BY <1>1, <1>2, <1>3, <1>4
<1>6. AllocateInNode(d, k) \/ AllocateNewNode(d, k) BY <1>2, <1>4
<1> QED BY <1>1, <1>4, <1>5, <1>6 DEF AllocateInNode, AllocateNewNode, OutOfMemory

LEMMA FcfsPlacesKept == SpmInv /\ FcfsPlaces /\ [Next]_vars => FcfsPlaces'
<1> SUFFICES ASSUME SpmInv, FcfsPlaces, [Next]_vars PROVE FcfsPlaces' OBVIOUS
<1>0. UNCHANGED given /\ algorithm' = algorithm BY GivenSame DEF given
<1> SUFFICES ASSUME algorithm = "FCFS" PROVE FcfsPlaces' BY <1>0 DEF FcfsPlaces
<1>1. CASE FcfsEnd \/ UNCHANGED vars
  <2>1. UNCHANGED <<front, placed, data_list>> BY <1>1 DEF FcfsEnd, vars
  <2>2. \A d : IsPlaced(d)' <=> IsPlaced(d) BY <2>1 DEF IsPlaced
  <2> QED BY <1>0, <2>1, <2>2 DEF FcfsPlaces
<1>2. CASE Allocate
  <2>1. PICK d \in data_list, k \in MemoryKind :
           /\ d \in Data /\ k = front[d] /\ front' = [front EXCEPT ![d] = k + 1]
           /\ \/ placed' = placed /\ data_list' = data_list
              \/ \E i \in Nodes(k) : Joins(d, k, i) /\ addData(d, k, i, m_AllocList[k])
              \/ addData(d, k, Len(m_AllocList[k]) + 1, Append(m_AllocList[k], 0))
    BY <1>2, AllocateStep
  <2>2. front \in [Data -> MemoryKind \cup {NoKind}] /\ placed \subseteq MemoryKind \X Nat \X Data
    BY DEF SpmInv, TypeOK
  <2>3. \A p \in placed : p[3] # d /\ p[3] \in Data /\ p[3] \notin data_list /\ front[p[3]] = p[1] + 1
    BY <2>1, <2>2 DEF FcfsPlaces
  <2>4. front'[d] = k + 1 /\ \A p \in placed : front'[p[3]] = p[1] + 1 BY <2>1, <2>2, <2>3
  <2>5. CASE placed' = placed /\ data_list' = data_list
    <3>1. \A e : IsPlaced(e)' <=> IsPlaced(e) BY <2>5 DEF IsPlaced
    <3> QED BY <1>0, <2>3, <2>4, <2>5, <3>1 DEF FcfsPlaces
  <2>6. ASSUME NEW i, placed' = placed \cup {<<k, i, d>>}, data_list' = data_list \ {d} PROVE FcfsPlaces'
    <3>1. PICK p0 : p0 = <<k, i, d>> OBVIOUS
    <3>2. p0[1] = k /\ p0[3] = d /\ placed' = placed \cup {p0} BY <2>6, <3>1
    <3>3. IsPlaced(d)' /\ \A e : IsPlaced(e) => IsPlaced(e)' BY <3>2 DEF IsPlaced
    <3>4. \A p \in placed' : p[3] \notin data_list' /\ front'[p[3]] = p[1] + 1
      BY <2>3, <2>4, <2>6, <3>2
    <3>5. \A p, q \in placed' : p[3] = q[3] => p = q BY <2>3, <3>2 DEF FcfsPlaces
    <3>6. \A e \in Data : e \in data_list' \/ IsPlaced(e)' BY <2>6, <3>3 DEF FcfsPlaces
    <3> QED BY <1>0, <3>4, <3>5, <3>6 DEF FcfsPlaces
  <2> QED BY <2>1, <2>5, <2>6 DEF addData
<1> QED BY <1>1, <1>2, FcfsSteps

LEMMA PlacesInit == Init => ReasonInv /\ DegreesInv /\ XuePlaces /\ MpcPlaces /\ FcfsPlaces
BY DEF Init, ReasonInv, DegreesInv, DegreesCount, XuePlaces, MpcPlaces, FcfsPlaces, IsPlaced

LEMMA OnePlace ==
  ASSUME NEW d, NEW p \in placed, p[3] = d, \A q \in placed : q[3] = d => q = p
  PROVE  Cardinality(PlacesOf(d)) = 1
<1>1. PlacesOf(d) = {p} BY DEF PlacesOf
<1> QED BY <1>1, FS_Singleton

LEMMA NoPlace ==
  ASSUME NEW d, ~IsPlaced(d)
  PROVE  Cardinality(PlacesOf(d)) = 0
<1>1. PlacesOf(d) = {} BY DEF PlacesOf, IsPlaced
<1> QED BY <1>1, FS_EmptySet

LEMMA XueEveryone ==
  ASSUME SpmInv, XuePlaces, algorithm = "Xue", pc \in {"done", "spin"}, NEW d \in Data
  PROVE  /\ In(d, front[d])
         /\ Cardinality(PlacesOf(d)) = IF front[d] = NoKind THEN 0 ELSE 1
<1>1. front \in [Data -> MemoryKind \cup {NoKind}] /\ placed \subseteq MemoryKind \X Nat \X Data
  BY DEF SpmInv, TypeOK
<1>2. In(d, front[d]) BY DEF In, PlacesOf, XuePlaces
<1>3. kind = DRAM BY DEF XuePlaces
<1>4. CASE front[d] = NoKind
  <2>1. \A p \in placed : p[1] \in MemoryKind BY <1>1
  <2>2. ~IsPlaced(d) BY <1>4, <2>1 DEF IsPlaced, XuePlaces
  <2> QED BY <1>2, <1>4, <2>2, NoPlace
<1>5. CASE front[d] # NoKind
  <2>1. front[d] <= kind BY <1>1, <1>3, <1>5
  <2>2. PICK p \in placed : p[3] = d BY <2>1 DEF XuePlaces, IsPlaced
  <2>3. \A q \in placed : q[3] = d => q = p BY <2>2 DEF XuePlaces
  <2>4. Cardinality(PlacesOf(d)) = 1 BY <2>2, <2>3, OnePlace
  <2> QED BY <1>2, <1>5, <2>4
<1> QED BY <1>4, <1>5

LEMMA MpcEveryone ==
  ASSUME SpmInv, MpcPlaces, algorithm = "MPC", pc \in {"done", "spin"}, NEW d \in Data
  PROVE  /\ In(d, front[d]) /\ PlacesOf(d) # {}
         /\ IsInterfere(d, d) \/ Cardinality(PlacesOf(d)) = 1
<1>1. pc = "done" BY DEF SpmInv, Phases
<1>2. \A p \in placed : p[1] = front[p[3]] BY <1>1 DEF SpmInv, MpcInv, MpcPlaces
<1>3. PICK p \in placed : p[3] = d BY <1>1 DEF MpcPlaces, IsPlaced
<1>4. PlacesOf(d) # {} BY <1>3 DEF PlacesOf
<1>5. In(d, front[d]) BY <1>2 DEF In, PlacesOf
<1>6. ASSUME ~IsInterfere(d, d) PROVE Cardinality(PlacesOf(d)) = 1
  <2>1. \A q \in placed : q[3] = d => q = p BY <1>2, <1>3, <1>6 DEF MpcPlaces
  <2> QED BY <1>3, <2>1, OnePlace
<1> QED BY <1>4, <1>5, <1>6

LEMMA FcfsEveryone ==
  ASSUME SpmInv, FcfsPlaces, algorithm = "FCFS", NEW d \in Data
  PROVE  /\ In(d, front[d] - 1)
         /\ Cardinality(PlacesOf(d)) = IF d \in data_list THEN 0 ELSE 1
<1>1. placed \subseteq MemoryKind \X Nat \X Data BY DEF SpmInv, TypeOK
<1>2. \A p \in placed : p[3] = d => p[1] = front[d] - 1
  <2> SUFFICES ASSUME NEW p \in placed, p[3] = d PROVE p[1] = front[d] - 1 OBVIOUS
  <2>1. p[1] \in Int BY <1>1
  <2>2. front[d] = p[1] + 1 BY DEF FcfsPlaces
  <2> QED BY <2>1, <2>2
<1>3. In(d, front[d] - 1) BY <1>2 DEF In, PlacesOf
<1>4. CASE d \in data_list
  <2>1. ~IsPlaced(d) BY <1>4 DEF IsPlaced, FcfsPlaces
  <2> QED BY <1>3, <1>4, <2>1, NoPlace
<1>5. CASE d \notin data_list
  <2>1. PICK p \in placed : p[3] = d BY <1>5 DEF FcfsPlaces, IsPlaced
  <2>2. \A q \in placed : q[3] = d => q = p BY <2>1 DEF FcfsPlaces
  <2>3. Cardinality(PlacesOf(d)) = 1 BY <2>1, <2>2, OnePlace
  <2> QED BY <1>3, <1>5, <2>3
<1> QED BY <1>4, <1>5

LEMMA EveryonePlaced ==
  SpmInv /\ XuePlaces /\ MpcPlaces /\ FcfsPlaces => EveryoneHasAPlace
<1> SUFFICES ASSUME SpmInv, XuePlaces, MpcPlaces, FcfsPlaces PROVE EveryoneHasAPlace OBVIOUS
<1>1. algorithm = "Xue" \/ algorithm = "MPC" \/ algorithm = "FCFS" BY DEF SpmInv, TypeOK
<1>2. CASE algorithm = "Xue"
  <2>1. algorithm # "MPC" /\ algorithm # "FCFS" BY <1>2
  <2> QED BY <1>2, <2>1, XueEveryone DEF EveryoneHasAPlace
<1>3. CASE algorithm = "MPC"
  <2>1. algorithm # "Xue" /\ algorithm # "FCFS" BY <1>3
  <2> QED BY <1>3, <2>1, MpcEveryone DEF EveryoneHasAPlace
<1>4. CASE algorithm = "FCFS"
  <2>1. algorithm # "Xue" /\ algorithm # "MPC" BY <1>4
  <2> QED BY <1>4, <2>1, FcfsEveryone DEF EveryoneHasAPlace
<1> QED BY <1>1, <1>2, <1>3, <1>4

-----------------------------------------------------------------------------
(* The sum over the nodes: a number is the set of its units, and a sum the *)
(* number of all units. The fold that SumOfNodes is built from satisfies   *)
(* the same recursion, and has one solution.                               *)
Units(w, s) == {p \in s \X Nat : 1 <= p[2] /\ p[2] <= w[p[1]]}

LEMMA ColumnSize ==
  ASSUME NEW x, NEW n \in Nat
  PROVE  IsFiniteSet({x} \X (1..n)) /\ Cardinality({x} \X (1..n)) = n
<1>1. IsFiniteSet(1..n) /\ Cardinality(1..n) = (IF 1 > n THEN 0 ELSE n - 1 + 1)
  BY FS_Interval
<1>2. Cardinality(1..n) = n BY <1>1
<1>3. IsFiniteSet({x}) /\ Cardinality({x}) = 1 BY FS_Singleton
<1>4. /\ IsFiniteSet({x} \X (1..n))
      /\ Cardinality({x} \X (1..n)) = Cardinality({x}) * Cardinality(1..n)
  BY <1>1, <1>3, FS_Product
<1> QED BY <1>2, <1>3, <1>4

LEMMA UnitsFinite ==
  ASSUME NEW S, IsFiniteSet(S), NEW w, \A x \in S : w[x] \in Nat
  PROVE  IsFiniteSet(Units(w, S)) /\ Cardinality(Units(w, S)) \in Nat
<1> DEFINE col == [x \in S |-> {x} \X (1..w[x])]
           C == {{x} \X (1..w[x]) : x \in S}
<1>1. col \in Surjection(S, C) BY DEF Surjection
<1>2. IsFiniteSet(C)
  <2> HIDE DEF col, C
  <2> QED BY <1>1, FS_Surjection
<1>3. \A T \in C : IsFiniteSet(T)
  <2> SUFFICES ASSUME NEW x \in S PROVE IsFiniteSet({x} \X (1..w[x])) OBVIOUS
  <2> QED BY ColumnSize
<1>4. IsFiniteSet(UNION C) BY <1>2, <1>3, FS_UNION
<1>5. Units(w, S) \subseteq UNION C
  <2> SUFFICES ASSUME NEW p \in Units(w, S) PROVE p \in UNION C OBVIOUS
  <2>1. /\ p[1] \in S /\ p[2] \in Nat /\ 1 <= p[2] /\ p[2] <= w[p[1]] /\ p = <<p[1], p[2]>>
        /\ w[p[1]] \in Nat
    BY DEF Units
  <2>2. p \in {p[1]} \X (1..w[p[1]]) BY <2>1
  <2> QED BY <2>1, <2>2
<1> QED BY <1>4, <1>5, FS_Subset, FS_CardinalityType

LEMMA UnitsSplit ==
  ASSUME NEW S, IsFiniteSet(S), NEW w, \A x \in S : w[x] \in Nat, NEW e \in S
  PROVE  Cardinality(Units(w, S)) = w[e] + Cardinality(Units(w, S \ {e}))
<1> DEFINE col == {e} \X (1..w[e])
           rest == Units(w, S \ {e})
<1>1. w[e] \in Nat OBVIOUS
<1>2. IsFiniteSet(col) /\ Cardinality(col) = w[e] BY <1>1, ColumnSize
<1>3. IsFiniteSet(S \ {e}) BY FS_RemoveElement
<1>4. IsFiniteSet(rest) /\ Cardinality(rest) \in Nat BY <1>3, UnitsFinite
<1>5. col \cap rest = {} BY DEF Units
<1>6. Units(w, S) = col \cup rest
  <2>1. ASSUME NEW p \in Units(w, S) PROVE p \in col \cup rest
    <3>1. /\ p[1] \in S /\ p[2] \in Nat /\ 1 <= p[2] /\ p[2] <= w[p[1]] /\ p = <<p[1], p[2]>>
          /\ w[p[1]] \in Nat
      BY DEF Units
    <3>2. CASE p[1] = e
      <4>1. p[2] \in 1..w[e] BY <1>1, <3>1, <3>2
      <4> QED BY <3>1, <3>2, <4>1
    <3>3. CASE p[1] # e BY <3>1, <3>3 DEF Units
    <3> QED BY <3>2, <3>3
  <2>2. col \subseteq Units(w, S) BY <1>1 DEF Units
  <2>3. rest \subseteq Units(w, S) BY DEF Units
  <2> QED BY <2>1, <2>2, <2>3
<1> HIDE DEF col, rest
<1>7. Cardinality(col \cup rest) = Cardinality(col) + Cardinality(rest) - Cardinality(col \cap rest)
  BY <1>2, <1>4, FS_Union
<1>8. Cardinality(col \cap rest) = 0 BY <1>5, FS_EmptySet
<1> QED BY <1>1, <1>2, <1>4, <1>6, <1>7, <1>8 DEF rest

Chosen(s) == CHOOSE x \in s : TRUE

AddsUp(g, w, S) ==
  \A s \in SUBSET S : g[s] = IF s = {} THEN 0 ELSE w[Chosen(s)] + g[s \ {Chosen(s)}]

LEMMA OneSum ==
  ASSUME NEW S, IsFiniteSet(S), NEW w, \A x \in S : w[x] \in Nat, NEW g, AddsUp(g, w, S)
  PROVE  \A s \in SUBSET S : g[s] = Cardinality(Units(w, s))
<1> DEFINE Wrong == {s \in SUBSET S : g[s] # Cardinality(Units(w, s))}
           R == StrictSubsetOrdering(S)
<1>1. IsWellFoundedOn(R, FiniteSubsetsOf(S)) BY FS_StrictSubsetOrderingWellFounded
<1>2. Wrong \subseteq FiniteSubsetsOf(S) BY FS_Subset DEF FiniteSubsetsOf
<1> SUFFICES ASSUME Wrong # {} PROVE FALSE OBVIOUS
<1>3. PICK s \in Wrong : \A t \in Wrong : <<t, s>> \notin R
  <2> HIDE DEF Wrong, R
  <2> QED BY <1>1, <1>2, WFMin
<1>4. s \subseteq S /\ IsFiniteSet(s) /\ g[s] # Cardinality(Units(w, s)) BY FS_Subset
<1>5. CASE s = {}
  <2>1. Units(w, s) = {} BY <1>5 DEF Units
  <2> QED BY <1>4, <1>5, <2>1, FS_EmptySet DEF AddsUp
<1>6. CASE s # {}
  <2>1. PICK e : e = Chosen(s) OBVIOUS
  <2>2. e \in s BY <1>6, <2>1 DEF Chosen
  <2>3. g[s] = w[e] + g[s \ {e}] BY <1>4, <1>6, <2>1 DEF AddsUp
  <2>4. s \ {e} \notin Wrong
    <3>1. <<s \ {e}, s>> \in R BY <1>4, <2>2 DEF StrictSubsetOrdering
    <3> QED BY <1>3, <3>1
  <2>5. g[s \ {e}] = Cardinality(Units(w, s \ {e})) BY <1>4, <2>4
  <2>6. Cardinality(Units(w, s)) = w[e] + Cardinality(Units(w, s \ {e}))
    BY <1>4, <2>2, UnitsSplit
  <2> QED BY <1>4, <2>3, <2>5, <2>6
<1> QED BY <1>5, <1>6

LEMMA SumIs ==
  ASSUME NEW k
  PROVE  \E g : /\ g = CHOOSE h : h = [s \in SUBSET Nodes(k) |->
                         IF s = {} THEN 0
                         ELSE Max({program.size[d] : d \in At(k, Chosen(s))}) + h[s \ {Chosen(s)}]]
                /\ SumOfNodes(k) = g[Nodes(k)]
BY DEF SumOfNodes, MapThenSumSet, MapThenFoldSet, Chosen

LEMMA SumIsUnits ==
  ASSUME NEW k, IsFiniteSet(Nodes(k)), NEW w, \A i \in Nodes(k) : w[i] \in Nat,
         \A i \in Nodes(k) : Max({program.size[d] : d \in At(k, i)}) = w[i]
  PROVE  SumOfNodes(k) = Cardinality(Units(w, Nodes(k)))
<1>1. PICK S : S = Nodes(k) OBVIOUS
<1> DEFINE largest(i) == Max({program.size[d] : d \in At(k, i)})
           Rec(h) == [s \in SUBSET S |-> IF s = {} THEN 0 ELSE largest(Chosen(s)) + h[s \ {Chosen(s)}]]
           c == [s \in SUBSET S |-> Cardinality(Units(w, s))]
<1>2. PICK g : g = (CHOOSE h : h = Rec(h)) /\ SumOfNodes(k) = g[S] BY <1>1, SumIs
<1>3. \A s \in SUBSET S : s # {} => Chosen(s) \in s /\ largest(Chosen(s)) = w[Chosen(s)]
  <2> SUFFICES ASSUME NEW s \in SUBSET S, s # {} PROVE Chosen(s) \in s /\ largest(Chosen(s)) = w[Chosen(s)]
    OBVIOUS
  <2>1. Chosen(s) \in s BY DEF Chosen
  <2> QED BY <1>1, <2>1
<1> HIDE DEF largest
<1>4. c = Rec(c)
  <2> SUFFICES ASSUME NEW s \in SUBSET S
               PROVE  Cardinality(Units(w, s)) =
                        IF s = {} THEN 0 ELSE largest(Chosen(s)) + Cardinality(Units(w, s \ {Chosen(s)}))
    OBVIOUS
  <2>1. CASE s = {}
    <3>1. Units(w, s) = {} BY <2>1 DEF Units
    <3> QED BY <2>1, <3>1, FS_EmptySet
  <2>2. CASE s # {}
    <3>1. Chosen(s) \in s /\ largest(Chosen(s)) = w[Chosen(s)] BY <1>3, <2>2
    <3>2. IsFiniteSet(s) /\ \A i \in s : w[i] \in Nat BY <1>1, FS_Subset
    <3> QED BY <2>2, <3>1, <3>2, UnitsSplit
  <2> QED BY <2>1, <2>2
<1>5. g = Rec(g)
  <2>1. \E h : h = Rec(h) BY <1>4
  <2> HIDE DEF Rec
  <2> QED BY <1>2, <2>1
<1>6. AddsUp(g, w, S)
  BY <1>3, <1>5 DEF AddsUp
<1>7. \A s \in SUBSET S : g[s] = Cardinality(Units(w, s))
  <2>1. IsFiniteSet(S) /\ \A x \in S : w[x] \in Nat BY <1>1
  <2> HIDE DEF Rec, c
  <2> QED BY ONLY <1>6, <2>1, OneSum
<1> QED BY <1>1, <1>2, <1>7

(* What a datum that gets a node does to it: a node there was grows, one   *)
(* there was not is made.                                                  *)
Grows(d, k, i, old, grow) ==
  /\ IF i \in Nodes(k) THEN old = m_AllocList[k][i] ELSE old = 0 /\ At(k, i) = {}
  /\ grow = Growth(d, old) /\ grow <= m_nReserved[k]
  /\ Nodes(k)' = Nodes(k) \cup {i}
  /\ m_AllocList'[k][i] = old + grow
  /\ \A j \in Nodes(k) \ {i} : m_AllocList'[k][j] = m_AllocList[k][j]
  /\ \A j \in MemoryKind \ {k} : m_AllocList'[j] = m_AllocList[j] /\ m_nReserved'[j] = m_nReserved[j]
  /\ m_nReserved'[k] = m_nReserved[k] - grow
  /\ placed' = placed \cup {<<k, i, d>>}

LEMMA AddDataGrows ==
  ASSUME SpmInv, algorithm = "FCFS", NEW d \in Data, NEW k \in MemoryKind, NEW i,
         NEW nodes, addData(d, k, i, nodes),
         \/ i \in Nodes(k) /\ nodes = m_AllocList[k]
         \/ i = Len(m_AllocList[k]) + 1 /\ nodes = Append(m_AllocList[k], 0)
  PROVE  \E old \in Nat, grow \in Nat : Grows(d, k, i, old, grow)
<1>1. /\ m_AllocList \in [MemoryKind -> Seq(Nat)] /\ m_nReserved \in [MemoryKind -> Nat]
      /\ placed \subseteq MemoryKind \X Nat \X Data /\ FcfsInv /\ program.size[d] \in Nat
  BY DEF SpmInv, TypeOK, Program
<1>l. PICK l \in Seq(Nat) : l = m_AllocList[k] BY <1>1
<1>n. PICK n \in Nat : n = Len(l) OBVIOUS
<1>2. Nodes(k) = 1..n /\ DOMAIN l = 1..n BY <1>l, <1>n DEF Nodes
<1>3. nodes \in Seq(Nat) /\ i \in DOMAIN nodes /\ DOMAIN nodes = Nodes(k) \cup {i}
      /\ \A j \in Nodes(k) : nodes[j] = l[j]
  <2>1. CASE i \in Nodes(k) /\ nodes = m_AllocList[k] BY <1>l, <1>2, <2>1
  <2>2. CASE i = Len(m_AllocList[k]) + 1 /\ nodes = Append(m_AllocList[k], 0)
    <3>1. i = n + 1 /\ nodes = Append(l, 0) BY <1>l, <1>n, <2>2
    <3>2. nodes \in Seq(Nat) /\ Len(nodes) = n + 1 /\ \A j \in 1..n : nodes[j] = l[j]
      BY <1>n, <3>1
    <3>3. DOMAIN nodes = 1..(n + 1) BY <3>2
    <3> QED BY <1>2, <3>1, <3>2, <3>3
  <2> QED BY <2>1, <2>2
<1>a. nodes \in Seq(Nat) BY <1>3
<1>b. DOMAIN nodes = 1..Len(nodes) /\ \A j \in DOMAIN nodes : nodes[j] \in Nat BY ONLY <1>a
<1>4. PICK old \in Nat : old = nodes[i] BY <1>3, <1>b
<1>5. IF i \in Nodes(k) THEN old = l[i] ELSE old = 0 /\ At(k, i) = {}
  <2>1. CASE i \in Nodes(k) BY <1>3, <1>4, <2>1
  <2>2. CASE i \notin Nodes(k)
    <3>1. i = n + 1 /\ nodes = Append(l, 0) BY <1>l, <1>n, <2>2
    <3>2. old = 0 BY <1>n, <1>4, <3>1
    <3>3. ASSUME NEW e \in At(k, i) PROVE FALSE
      <4>1. PICK p : p = <<k, i, e>> OBVIOUS
      <4>2. p \in placed /\ p[1] = k /\ p[2] = i BY <3>3, <4>1 DEF At
      <4> QED BY <1>1, <2>2, <4>2 DEF FcfsInv
    <3> QED BY <2>2, <3>2, <3>3
  <2> QED BY <2>1, <2>2
<1>6. PICK grow \in Nat : grow = Growth(d, old)
  <2>1. Growth(d, old) \in Nat BY <1>1 DEF Growth
  <2> QED BY <2>1
<1>7. /\ grow <= m_nReserved[k] /\ m_nReserved' = [m_nReserved EXCEPT ![k] = @ - grow]
      /\ m_AllocList' = [m_AllocList EXCEPT ![k] = [nodes EXCEPT ![i] = old + grow]]
      /\ placed' = placed \cup {<<k, i, d>>}
  BY <1>4, <1>6 DEF addData
<1>8. PICK l2 : l2 = [nodes EXCEPT ![i] = old + grow] OBVIOUS
<1>9. /\ l2 \in Seq(Nat) /\ Len(l2) = Len(nodes) /\ l2[i] = old + grow
      /\ \A j \in DOMAIN nodes : j # i => l2[j] = nodes[j]
  BY <1>3, <1>8
<1>10. m_AllocList'[k] = l2 BY <1>1, <1>7, <1>8
<1>11. Nodes(k)' = Nodes(k) \cup {i}
  <2>1. Nodes(k)' = 1..Len(l2) BY <1>10 DEF Nodes
  <2> QED BY <1>3, <1>9, <1>b, <2>1
<1>12. \A j \in Nodes(k) \ {i} : m_AllocList'[k][j] = m_AllocList[k][j]
  BY <1>l, <1>3, <1>9, <1>10
<1>13. \A j \in MemoryKind \ {k} : m_AllocList'[j] = m_AllocList[j] /\ m_nReserved'[j] = m_nReserved[j]
  BY <1>1, <1>7
<1>14. m_nReserved'[k] = m_nReserved[k] - grow BY <1>1, <1>7
<1> QED BY <1>l, <1>5, <1>6, <1>7, <1>9, <1>10, <1>11, <1>12, <1>13, <1>14 DEF Grows

LEMMA AllocateGrows ==
  ASSUME SpmInv, Allocate
  PROVE  \/ UNCHANGED <<placed, m_AllocList, m_nReserved>>
         \/ \E d \in Data, k \in MemoryKind : \E i : \E old \in Nat, grow \in Nat : Grows(d, k, i, old, grow)
<1>1. PICK d \in data_list, k \in MemoryKind :
         /\ d \in Data /\ algorithm = "FCFS"
         /\ \/ UNCHANGED <<placed, m_AllocList, m_nReserved>>
            \/ \E i \in Nodes(k) : Joins(d, k, i) /\ addData(d, k, i, m_AllocList[k])
            \/ addData(d, k, Len(m_AllocList[k]) + 1, Append(m_AllocList[k], 0))
  BY AllocateStep
<1>2. CASE \E i \in Nodes(k) : Joins(d, k, i) /\ addData(d, k, i, m_AllocList[k])
  <2>1. PICK i \in Nodes(k) : addData(d, k, i, m_AllocList[k]) BY <1>2
  <2>2. \E old \in Nat, grow \in Nat : Grows(d, k, i, old, grow) BY <1>1, <2>1, AddDataGrows
  <2> QED BY <1>1, <2>2
<1>3. CASE addData(d, k, Len(m_AllocList[k]) + 1, Append(m_AllocList[k], 0))
  <2>1. \E old \in Nat, grow \in Nat : Grows(d, k, Len(m_AllocList[k]) + 1, old, grow)
    BY <1>1, <1>3, AddDataGrows
  <2> QED BY <1>1, <2>1
<1> QED BY <1>1, <1>2, <1>3

(* A node stays as large as the largest datum in it.                       *)
LEMMA GrowsNodes ==
  ASSUME SpmInv, NodesInv, UNCHANGED given, algorithm = "FCFS",
         NEW d \in Data, NEW k \in MemoryKind, NEW i, NEW old \in Nat, NEW grow \in Nat,
         Grows(d, k, i, old, grow)
  PROVE  NodesInv'
<1>1. program' = program /\ algorithm' = algorithm BY DEF given
<1>2. /\ placed \subseteq MemoryKind \X Nat \X Data /\ m_AllocList \in [MemoryKind -> Seq(Nat)]
      /\ \A x \in Data : program.size[x] \in Nat
  BY DEF SpmInv, TypeOK, Program
<1> SUFFICES ASSUME NEW kk \in MemoryKind, NEW j \in Nodes(kk)'
             PROVE  /\ \A x \in At(kk, j)' : program.size[x] <= m_AllocList'[kk][j]
                    /\ \E x \in At(kk, j)' : program.size[x] = m_AllocList'[kk][j]
  BY <1>1 DEF NodesInv
<1>3. placed' = placed \cup {<<k, i, d>>} BY DEF Grows
<1>4. CASE kk = k /\ j = i
  <2>1. At(kk, j)' = At(k, i) \cup {d} BY <1>3, <1>4 DEF At
  <2>2. m_AllocList'[kk][j] = old + grow BY <1>4 DEF Grows
  <2>3. grow = (IF old < program.size[d] THEN program.size[d] - old ELSE 0) BY DEF Grows, Growth
  <2>4. old + grow = (IF old < program.size[d] THEN program.size[d] ELSE old) BY <1>2, <2>3
  <2>5. CASE i \in Nodes(k)
    <3>1. old = m_AllocList[k][i] BY <2>5 DEF Grows
    <3>2. /\ \A x \in At(k, i) : program.size[x] <= old
          /\ \E x \in At(k, i) : program.size[x] = old
      BY <2>5, <3>1 DEF NodesInv
    <3>3. \A x \in At(k, i) : program.size[x] \in Nat BY <1>2 DEF At
    <3> QED BY <1>2, <2>1, <2>2, <2>4, <3>2, <3>3
  <2>6. CASE i \notin Nodes(k)
    <3>1. old = 0 /\ At(k, i) = {} BY <2>6 DEF Grows
    <3> QED BY <1>2, <2>1, <2>2, <2>4, <3>1
  <2> QED BY <2>5, <2>6
<1>5. CASE kk = k /\ j # i
  <2>1. At(kk, j)' = At(k, j) BY <1>3, <1>5 DEF At
  <2>2. j \in Nodes(k) /\ m_AllocList'[kk][j] = m_AllocList[k][j] BY <1>5 DEF Grows
  <2> QED BY <1>5, <2>1, <2>2 DEF NodesInv
<1>6. CASE kk # k
  <2>1. At(kk, j)' = At(kk, j) BY <1>3, <1>6 DEF At
  <2>2. m_AllocList'[kk] = m_AllocList[kk] BY <1>6 DEF Grows
  <2>3. Nodes(kk)' = Nodes(kk) BY <2>2 DEF Nodes
  <2> QED BY <2>1, <2>2, <2>3 DEF NodesInv
<1> QED BY <1>4, <1>5, <1>6

LEMMA NodesKept == SpmInv /\ NodesInv /\ [Next]_vars => NodesInv'
<1> SUFFICES ASSUME SpmInv, NodesInv, [Next]_vars PROVE NodesInv' OBVIOUS
<1>0. UNCHANGED given /\ algorithm' = algorithm /\ program' = program BY GivenSame DEF given
<1> SUFFICES ASSUME algorithm = "FCFS" PROVE NodesInv' BY <1>0 DEF NodesInv
<1>1. ASSUME UNCHANGED <<placed, m_AllocList>> PROVE NodesInv'
  <2>1. /\ \A k : Nodes(k)' = Nodes(k)
        /\ \A k, i : At(k, i)' = At(k, i)
    BY <1>1 DEF Nodes, At
  <2> QED BY <1>0, <1>1, <2>1 DEF NodesInv
<1>2. CASE FcfsEnd \/ UNCHANGED vars BY <1>1, <1>2 DEF FcfsEnd, vars, fcfs
<1>3. CASE Allocate
  <2>1. \/ UNCHANGED <<placed, m_AllocList>>
        \/ \E d \in Data, k \in MemoryKind : \E i : \E old \in Nat, grow \in Nat : Grows(d, k, i, old, grow)
    BY <1>3, AllocateGrows
  <2> QED BY <1>0, <1>1, <2>1, GrowsNodes
<1> QED BY <1>2, <1>3, FcfsSteps

Room(k) == Cardinality(Units(m_AllocList[k], Nodes(k)))

RoomInv == algorithm = "FCFS" => \A k \in MemoryKind : Room(k) + m_nReserved[k] = memory.size[k]

LEMMA NodesType ==
  ASSUME SpmInv, NEW k \in MemoryKind
  PROVE  IsFiniteSet(Nodes(k)) /\ \A i \in Nodes(k) : m_AllocList[k][i] \in Nat
<1>1. m_AllocList \in [MemoryKind -> Seq(Nat)] BY DEF SpmInv, TypeOK
<1>2. PICK l \in Seq(Nat) : l = m_AllocList[k] BY <1>1
<1>3. Nodes(k) = 1..Len(l) /\ Len(l) \in Nat BY <1>2 DEF Nodes
<1>4. IsFiniteSet(1..Len(l)) BY <1>3, FS_Interval
<1> QED BY <1>2, <1>3, <1>4

LEMMA RoomType ==
  ASSUME SpmInv, NEW k \in MemoryKind
  PROVE  Room(k) \in Nat
BY NodesType, UnitsFinite DEF Room

(* What a node grows by is taken from what is left of the memory.          *)
LEMMA GrowsRoom ==
  ASSUME SpmInv, SpmInv', RoomInv, UNCHANGED given, algorithm = "FCFS",
         NEW d \in Data, NEW k \in MemoryKind, NEW i, NEW old \in Nat, NEW grow \in Nat,
         Grows(d, k, i, old, grow)
  PROVE  RoomInv'
<1>1. memory' = memory /\ algorithm' = algorithm BY DEF given
<1>2. /\ m_nReserved \in [MemoryKind -> Nat] /\ memory.size \in [MemoryKind -> Nat]
  BY DEF SpmInv, TypeOK, Memory
<1> SUFFICES ASSUME NEW kk \in MemoryKind
             PROVE  Room(kk)' + m_nReserved'[kk] = memory.size[kk]
  BY <1>1 DEF RoomInv
<1>3. CASE kk = k
  <2>1. PICK S, w : S = Nodes(k) /\ w = m_AllocList[k] OBVIOUS
  <2>2. PICK S2, w2 : S2 = Nodes(k)' /\ w2 = m_AllocList'[k] OBVIOUS
  <2>3. IsFiniteSet(S) /\ \A j \in S : w[j] \in Nat BY <2>1, NodesType
  <2>4. S2 = S \cup {i} /\ w2[i] = old + grow /\ \A j \in S \ {i} : w2[j] = w[j]
    BY <2>1, <2>2 DEF Grows
  <2>5. IsFiniteSet(S2) BY <2>3, <2>4, FS_AddElement
  <2>6. \A j \in S2 : w2[j] \in Nat BY <2>3, <2>4
  <2>7. i \in S2 /\ S2 \ {i} = S \ {i} BY <2>4
  <2>8. Cardinality(Units(w2, S2)) = w2[i] + Cardinality(Units(w2, S \ {i}))
    <3>1. Cardinality(Units(w2, S2)) = w2[i] + Cardinality(Units(w2, S2 \ {i}))
      BY <2>5, <2>6, <2>7, UnitsSplit
    <3> QED BY <2>7, <3>1
  <2>9. Units(w2, S \ {i}) = Units(w, S \ {i}) BY <2>4 DEF Units
  <2>10. IsFiniteSet(S \ {i}) BY <2>3, FS_RemoveElement
  <2>11. Cardinality(Units(w, S \ {i})) \in Nat BY <2>3, <2>10, UnitsFinite
  <2>12. Cardinality(Units(w, S)) = old + Cardinality(Units(w, S \ {i}))
    <3>1. CASE i \in S
      <4>1. w[i] = old BY <2>1, <3>1 DEF Grows
      <4>2. Cardinality(Units(w, S)) = w[i] + Cardinality(Units(w, S \ {i}))
        BY <2>3, <3>1, UnitsSplit
      <4> QED BY <4>1, <4>2
    <3>2. CASE i \notin S
      <4>1. old = 0 /\ S \ {i} = S BY <2>1, <3>2 DEF Grows
      <4> QED BY <2>11, <4>1
    <3> QED BY <3>1, <3>2
  <2>13. Cardinality(Units(w2, S2)) = Cardinality(Units(w, S)) + grow
    BY <2>4, <2>8, <2>9, <2>11, <2>12
  <2>14. Room(k) = Cardinality(Units(w, S)) /\ Room(k)' = Cardinality(Units(w2, S2))
    BY <2>1, <2>2 DEF Room
  <2>15. Room(k)' = Room(k) + grow BY <2>13, <2>14
  <2>16. m_nReserved'[k] = m_nReserved[k] - grow BY DEF Grows
  <2>17. Room(k) + m_nReserved[k] = memory.size[k] BY DEF RoomInv
  <2>18. Room(k) \in Nat /\ m_nReserved[k] \in Nat BY <1>2, RoomType
  <2>19. Room(k)' + m_nReserved'[k] = memory.size[k] BY <2>15, <2>16, <2>17, <2>18
  <2> QED BY <1>3, <2>19
<1>4. CASE kk # k
  <2>1. m_AllocList'[kk] = m_AllocList[kk] /\ m_nReserved'[kk] = m_nReserved[kk] BY <1>4 DEF Grows
  <2>2. Room(kk)' = Room(kk) BY <2>1 DEF Room, Nodes
  <2> QED BY <2>1, <2>2 DEF RoomInv
<1> QED BY <1>3, <1>4

LEMMA RoomKept == SpmInv /\ SpmInv' /\ RoomInv /\ [Next]_vars => RoomInv'
<1> SUFFICES ASSUME SpmInv, SpmInv', RoomInv, [Next]_vars PROVE RoomInv' OBVIOUS
<1>0. UNCHANGED given /\ algorithm' = algorithm /\ memory' = memory BY GivenSame DEF given
<1> SUFFICES ASSUME algorithm = "FCFS" PROVE RoomInv' BY <1>0 DEF RoomInv
<1>1. ASSUME UNCHANGED <<m_AllocList, m_nReserved>> PROVE RoomInv'
  <2>1. \A k : Room(k)' = Room(k) BY <1>1 DEF Room, Nodes
  <2> QED BY <1>0, <1>1, <2>1 DEF RoomInv
<1>2. CASE FcfsEnd \/ UNCHANGED vars BY <1>1, <1>2 DEF FcfsEnd, vars, fcfs
<1>3. CASE Allocate
  <2>1. \/ UNCHANGED <<m_AllocList, m_nReserved>>
        \/ \E d \in Data, k \in MemoryKind : \E i : \E old \in Nat, grow \in Nat : Grows(d, k, i, old, grow)
    BY <1>3, AllocateGrows
  <2> QED BY <1>0, <1>1, <2>1, GrowsRoom
<1> QED BY <1>2, <1>3, FcfsSteps

LEMMA RoomInit == Init => RoomInv /\ NodesInv
<1> SUFFICES ASSUME Init PROVE RoomInv /\ NodesInv OBVIOUS
<1>1. m_AllocList = [k \in MemoryKind |-> <<>>] /\ m_nReserved = memory.size BY DEF Init
<1>2. memory.size \in [MemoryKind -> Nat] BY DEF Init, Memory
<1>3. ASSUME NEW k \in MemoryKind PROVE Nodes(k) = {} /\ Room(k) = 0
  <2>1. Nodes(k) = {} BY <1>1 DEF Nodes
  <2>2. Units(m_AllocList[k], Nodes(k)) = {} BY <2>1 DEF Units
  <2> QED BY <2>1, <2>2, FS_EmptySet DEF Room
<1>4. RoomInv BY <1>1, <1>2, <1>3 DEF RoomInv
<1>5. NodesInv BY <1>3 DEF NodesInv
<1> QED BY <1>4, <1>5

(* The colours of a memory are below its size.                             *)
ColorsInv ==
  algorithm # "FCFS" => \A k \in MemoryKind :
    algorithm = "Xue" \/ k # DRAM => \A p \in placed : p[1] = k => p[2] < memory.size[k]

LEMMA ColorsKept == SpmInv /\ ColorsInv /\ [Next]_vars => ColorsInv'
<1> SUFFICES ASSUME SpmInv, ColorsInv, [Next]_vars PROVE ColorsInv' OBVIOUS
<1>0. algorithm' = algorithm /\ memory' = memory BY GivenSame DEF given
<1>1. ASSUME placed' \subseteq placed PROVE ColorsInv' BY <1>0, <1>1 DEF ColorsInv
<1>2. CASE Select
  <2>1. PICK i \in 0..(nColor - 1) : placed' = placed \cup {<<kind, i, Top[1]>>} BY <1>2 DEF Select
  <2>2. PICK p0 : p0 = <<kind, i, Top[1]>> OBVIOUS
  <2>3. p0[1] = kind /\ p0[2] = i /\ placed' = placed \cup {p0} BY <2>1, <2>2
  <2>4. nColor \in Nat /\ nColor = memory.size[kind] BY ColorsType DEF nColor
  <2>5. i < memory.size[kind] BY <2>4
  <2> QED BY <1>0, <2>3, <2>5 DEF ColorsInv
<1>3. CASE MpcRound
  <2>1. algorithm = "MPC" BY <1>3 DEF MpcRound, SpmInv, Phases
  <2>2. placed' = placed \cup {<<DRAM, 0, d>> : d \in {d \in Data : front[d] = DRAM}} BY <1>3 DEF MpcRound
  <2>3. \A p \in placed' : p[1] # DRAM => p \in placed BY <2>2
  <2> QED BY <1>0, <2>1, <2>3 DEF ColorsInv
<1>4. CASE Allocate \/ FcfsEnd
  <2>1. algorithm = "FCFS" BY <1>4 DEF Allocate, FcfsEnd, SpmInv, Phases
  <2> QED BY <1>0, <2>1 DEF ColorsInv
<1>5. CASE Simplify \/ PotentialSpill \/ ActualSpill \/ XueKind \/ XueNext \/ Spin
           \/ MpcKind \/ MpcNext \/ MpcEnd \/ Returned \/ UNCHANGED vars
  BY <1>1, <1>5 DEF Simplify, PotentialSpill, Push, ActualSpill, XueKind, XueNext, Spin,
                    MpcKind, MpcNext, MpcEnd, Returned, vars
<1> QED BY <1>2, <1>3, <1>4, <1>5 DEF Next

(* The sum over the nodes of the largest datum of each is the sum of their *)
(* sizes.                                                                  *)
LEMMA Fits1 ==
  ASSUME SpmInv, NodesInv, RoomInv, algorithm = "FCFS", NEW k \in MemoryKind
  PROVE  SumOfNodes(k) + m_nReserved[k] = memory.size[k]
<1>1. PICK w : w = m_AllocList[k] OBVIOUS
<1>2. IsFiniteSet(Nodes(k)) /\ \A i \in Nodes(k) : w[i] \in Nat BY <1>1, NodesType
<1>3. ASSUME NEW i \in Nodes(k) PROVE Max({program.size[d] : d \in At(k, i)}) = w[i]
  <2>1. PICK T : T = {program.size[d] : d \in At(k, i)} OBVIOUS
  <2>2. w[i] \in T /\ \A y \in T : y <= w[i] BY <1>1, <2>1 DEF NodesInv
  <2>3. T \subseteq Nat
    <3>1. At(k, i) \subseteq Data BY DEF At
    <3>2. \A d \in Data : program.size[d] \in Nat BY DEF SpmInv, TypeOK, Program
    <3> QED BY <2>1, <3>1, <3>2
  <2>4. w[i] \in T /\ \A y \in T : w[i] >= y BY <1>2, <2>2, <2>3
  <2>5. PICK m : m = (CHOOSE x \in T : \A y \in T : x >= y) OBVIOUS
  <2>6. m \in T /\ \A y \in T : m >= y BY <2>4, <2>5
  <2>7. m \in Nat /\ w[i] \in Nat /\ m >= w[i] /\ w[i] >= m BY <2>3, <2>4, <2>6
  <2>8. m = w[i] BY <2>7
  <2> QED BY <2>1, <2>5, <2>8 DEF Max
<1>4. SumOfNodes(k) = Cardinality(Units(w, Nodes(k))) BY <1>2, <1>3, SumIsUnits
<1>5. SumOfNodes(k) = Room(k) BY <1>1, <1>4 DEF Room
<1> QED BY <1>5 DEF RoomInv

LEMMA FitsLemma == SpmInv /\ NodesInv /\ RoomInv /\ ColorsInv => FitsInMemory
BY Fits1 DEF FitsInMemory, ColorsInv
-----------------------------------------------------------------------------
(* The theorems                                                            *)

(* All of the allocators' invariant, of SpmAlloc.cpp: the degrees, the     *)
(* reasons for spilling, the places and the nodes.                         *)
THEOREM AllocatorInvariant == Spec => []AllocatorInv
<1> DEFINE Inv == /\ SpmInv /\ DegreesInv /\ ReasonInv /\ XuePlaces /\ MpcPlaces /\ FcfsPlaces
                  /\ NodesInv /\ RoomInv /\ ColorsInv
<1>1. Init => Inv
  <2> SUFFICES ASSUME Init PROVE Inv OBVIOUS
  <2>1. ColorsInv BY DEF Init, ColorsInv
  <2> QED BY <2>1, InitInv, PlacesInit, RoomInit
<1>2. Inv /\ [Next]_vars => Inv'
  <2> SUFFICES ASSUME Inv, [Next]_vars PROVE Inv' OBVIOUS
  <2>1. SpmInv' BY StepKeeps
  <2> QED BY <2>1, DegreesInvKept, ReasonKept, XuePlacesKept, MpcPlacesKept, FcfsPlacesKept,
             NodesKept, RoomKept, ColorsKept
<1>3. Inv => AllocatorInv BY FitsLemma DEF AllocatorInv
<1> HIDE DEF Inv
<1> QED BY <1>1, <1>2, <1>3, PTL DEF Spec

(* The degree of a datum stays the number of its neighbours in the list,   *)
(* and never wraps around.                                                 *)
THEOREM DegreesAreCounted == Spec => []DegreesCount
<1>1. AllocatorInv => DegreesCount BY DEF AllocatorInv, DegreesInv
<1> QED BY <1>1, AllocatorInvariant, PTL

(* Xue's allocator spills a datum from a memory only if each of its        *)
(* addresses holds something the datum interferes with, and holds it for   *)
(* good.                                                                   *)
THEOREM SpillsHaveReasons == Spec => []SpilledForAReason
<1>1. AllocatorInv => SpilledForAReason BY DEF AllocatorInv, ReasonInv, SpilledForAReason
<1> QED BY <1>1, AllocatorInvariant, PTL

(* When an allocator returns, every datum has its one address in the       *)
(* memory its costs say.                                                   *)
THEOREM NobodyIsForgotten == Spec => []EveryoneHasAPlace
<1>1. AllocatorInv => EveryoneHasAPlace BY EveryonePlaced DEF AllocatorInv
<1> QED BY <1>1, AllocatorInvariant, PTL

(* Addresses are of the memory they are in; what first come first served   *)
(* has taken from a memory is what its nodes, of the largest data in them, *)
(* add up to.                                                              *)
THEOREM MemoriesSuffice == Spec => []FitsInMemory
<1>1. AllocatorInv => FitsInMemory BY DEF AllocatorInv
<1> QED BY <1>1, AllocatorInvariant, PTL

(* Chaitin's argument for Xue's allocator: a datum pushed with fewer       *)
(* neighbours than there are colours is coloured when it is popped, and    *)
(* one with as many unless each of them has a colour of its own.           *)
THEOREM FewNeighboursAreColored == Spec => ColorableIsColored
<1>1. AllocatorInv /\ [Next]_vars =>
        (algorithm = "Xue" /\ Len(data_stack') < Len(data_stack) /\ Top[2] <= nColor
           => \/ \E i \in 0..(nColor - 1) : <<kind, i, Top[1]>> \in placed'
              \/ Top[2] = nColor /\ EachColorTakenOnce(Top[1]))
  BY ColorableStep DEF AllocatorInv
<1> QED BY <1>1, AllocatorInvariant, PTL DEF Spec, ColorableIsColored
=============================================================================
