----------------------------- MODULE MCSpmAlloc -----------------------------
\* Four data in up to three functions, with every way of being live together
\* inside a function, and four shapes of the call graph.
EXTENDS SpmAllocInvariant

CONSTANTS main, f, g

Owners == {<<main, f, g, g>>, <<f, g, f, g>>, <<g, f, g, g>>, <<f, f, f, f>>}

CallGraphs == {{<<main, f>>, <<main, g>>},
               {<<main, f>>, <<f, g>>},
               {<<main, f>>, <<main, g>>, <<f, f>>},
               {<<main, f>>, <<f, g>>, <<g, f>>}}

\* An interference is recorded with one of the two data only.
LivePairs(owner) == {p \in Data \X Data : p[1] < p[2] /\ owner[p[1]] = owner[p[2]]}

SmallPrograms ==
  UNION {{[func |-> owner, calls |-> calls,
           inter |-> [d \in Data |-> {e \in Data : <<d, e>> \in live}],
           reads |-> <<2, 1, 3, 1>>, writes |-> <<0, 2, 0, 1>>, size |-> <<1, 2, 1, 1>>] :
            live \in SUBSET LivePairs(owner), calls \in CallGraphs} : owner \in Owners}

\* One that can be too small for the data, one without PCM, two that do.
Sizes == {<<1, 1, 1>>, <<2, 0, 4>>, <<2, 1, 4>>, <<1, 2, 2>>}

SmallMemories ==
  {[size |-> [k \in MemoryKind |-> s[k + 1]],
    costOfRead |-> [k \in MemoryKind |-> <<1, 2, 50>>[k + 1]],
    costOfWrite |-> [k \in MemoryKind |-> <<1, 7, 50>>[k + 1]]] : s \in Sizes}
=============================================================================
