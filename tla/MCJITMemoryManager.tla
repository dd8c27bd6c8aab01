------------------------- MODULE MCJITMemoryManager -------------------------
(* JITMemoryManager on a few dozen words. Memory is mostly words nothing    *)
(* will read before they are written again: a view without them makes one   *)
(* state of the states that differ in such words only.                      *)
EXTENDS JITMemoryInvariant

\* The words the manager or a client may still read: headers, the links and
\* the end marker of the free blocks, and what was emitted.
LiveWords ==
  Addr \cap
    (      blocks
      \cup UNION {{b + 1, b + 2, getBlockAfter(mem, b) - 1} : b \in FreeBlocks}
      \cup UNION {x.start .. x.end - 1 : x \in live}
      \cup BufferBegin .. BufferBegin + emitted - 1)

\* That mem is a memory is in the view to have TLC evaluate all of it: what the view
\* leaves out would otherwise stay unevaluated in a state that its workers share.
MemView == <<[a \in LiveWords |-> mem[a]], CodeSlabs, FreeMemoryList, CurBlock,
             pc, search, emitted, live, blocks, mem \in [Addr -> Word]>>
=============================================================================
