---------------------------- MODULE MCJITEngine ----------------------------
\* Programs for the JIT. In the small one, two functions call each other
\* and the first calls native code.
EXTENDS JITEngineInvariant, TLC

CONSTANTS main, leaf, puts, even, odd

PairFunctions == {main, leaf, puts}
PairCalls     == (main :> {leaf, puts}) @@ (leaf :> {main}) @@ (puts :> {})

\* The same, but leaf calls nothing: the program of NonLazyLeaksNoStubs.
ChainFunctions == PairFunctions
ChainCalls     == [PairCalls EXCEPT ![leaf] = {}]

\* In the large one, main calls two functions that call each other and
\* themselves: the program of the test NonLazyCompilationStillNeedsStubs.
RingFunctions == {main, even, odd, puts}
RingCalls     == (main :> {even, odd, puts}) @@ (even :> {odd}) @@
                 (odd :> {even, odd}) @@ (puts :> {})

Native1 == {puts}
=============================================================================
