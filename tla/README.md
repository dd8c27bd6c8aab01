# A formal model of the stateful parts of this LLVM tree

This directory holds TLA+ specifications of those parts of the repository
(LLVM 2.8 with a scratch-pad memory and hybrid cache extension, under
`src/llvm-2.8`) that keep state over time, are used from several threads, call
each other back, or live by long sequences of calls: the just-in-time compiler, the
memory manager it puts code in, the statics, mutexes and shutdown that every
library shares, the pass manager that schedules and runs everything else, the
fast register allocator, the handles that are told when a value goes away, and the
allocators of the extension, which decide which datum goes to which memory.
Most of the repository is a sequential compiler, a function from a module to
another; its passes are outside the reach of a model checker and are listed
under *Not modelled*.

`PROJECT.json` maps every definition to the lines it is translated from, lists
the runs with their properties, a mutation of the code for each property, the
hazards and the findings. Paths below are relative to `src/llvm-2.8`.

* [Inventory](#inventory)
* [Modules](#modules)
* [The memory manager](#the-memory-manager), [the engine](#the-engine),
  [statics](#statics), [the pass manager](#the-pass-manager), [the fast register
  allocator](#the-fast-register-allocator), [value handles](#value-handles), [the
  scratch-pad allocators](#the-scratch-pad-allocators): how model and code correspond
* [Runs, bounds and fairness](#runs-bounds-and-fairness)
* [Findings](#findings)
* [Proofs](#proofs)
* [Not modelled](#not-modelled), [plan](#plan)

## Inventory

| component | code | state it keeps | operations | what is hard | what makes it correct |
|---|---|---|---|---|---|
| JIT memory manager | `lib/ExecutionEngine/JIT/JITMemoryManager.cpp` | slabs of executable memory; in them block headers, free-list links and size markers; head of the free list; current block | start/end of a function body or exception table, `allocateSpace`, deallocation, stub and data bump allocators | metadata lives between bodies of code; long sequences of splits and merges; limits of block sizes | no two owners share a word; links, flags and sizes agree; everything coalesces again; the list never loses its entry |
| JIT engine | `JIT/JIT.cpp`, `JIT/JITEmitter.cpp`, `ExecutionEngine.cpp` | address map, map of stubs, record of emitted bodies, pending functions, the lock | `getPointerToFunction`, `getPointerToFunctionOrStub`, `freeMachineCodeForFunction`, emission with retry, relocation, the compilation callback, recompilation | threads compile, run and free code at the same time; an address is known before there is code at it; the lock is given up and taken again on the way through a stub | a thread only runs finished code, arrives at the function it called, and no body is lost |
| X86 lazy stubs | `lib/Target/X86/X86JITInfo.cpp` | the bytes of a stub | the callback rewrites the stub it was called from | two stores without a lock | nobody executes a half rewritten stub |
| Managed statics, threading | `lib/Support/ManagedStatic.cpp`, `lib/System/Threading.cpp` | a pointer and a deleter per static, the list of statics, the multithreaded mode, the global lock | use (construct on first use), `llvm_shutdown`, `llvm_start_multithreaded` | double-checked locking; constructors and destructors that use other statics | constructed once, ready when used, destroyed in reverse order, nothing left |
| Timers and statistics | `lib/Support/Timer.cpp`, `lib/Support/Statistic.cpp`, timing in `lib/VMCore/PassManager.cpp` | lists of timers and groups, named timers, statistics, three mutexes | make and destroy timers, register statistics, print | mutexes taken inside constructors that run under the global lock | no circular wait; nothing used after shutdown |
| Crash recovery | `lib/Support/CrashRecoveryContext.cpp` | current context of each thread, saved signal handlers | enable, disable, run safely, handle a signal | nesting, signals in the middle | a crash returns to the innermost context |
| Cache simulator | `others/cacheSim` | sets, lines, dirty bits, counters of an L1 and a hybrid L2 cache | read, write, fill, write back, migrate | early returns, special tags, migration between ways | a dirty line is written back before it is replaced; a line is in one place |
| Scratch-pad allocators | `lib/CodeGen/SPM.cpp`, `SpmAlloc.cpp`, `SPM_Alloc_FCFS.cpp`, `interferegraph.cpp` | for each datum what it costs in the memories that are left, degrees, stack, colours or nodes, room left | Xue's colouring, multi-phase colouring, first come first served | unsigned degrees, comparisons with the number of colours, spilling while other data keep their colours, popping from lists of costs | data that interfere do not share an address; every datum gets one; nothing is spilled without need |
| Frequency analyses, scripts | `AccessFrequency.cpp`, `WriteFrequency.cpp`, `AccessAnalysis.cpp`, `ShellScript` | counters | parse and weigh profiles | | numeric results |
| Value handles | `lib/VMCore/Value.cpp`, `include/llvm/Support/ValueHandle.h` | a list of handles per value, its head in a hash table of the context, a flag per value | construct, copy, assign and destroy handles; delete and replace values, which tells the handles | callbacks that change the list being walked, or delete and replace other values; addresses of buckets in a table that moves | lists are linked both ways; every handle is told once; nothing points to a deleted value |
| Pass manager | `lib/VMCore/PassManager.cpp` | passes of each manager, which of them implement which analysis, the last user of each pass | add (schedules what is required), run, invalidate, free | two levels of managers that invalidate each other's results; function passes run again on the next function; who is the last user | a pass runs with results that are there and not stale; all are freed in time; scheduling ends |
| Fast register allocator | `lib/CodeGen/RegAllocFast.cpp` | state of each physical register, place, dirtiness and last use of each live virtual one, stack slots | use, define, spill, reload, assign, by several scans over each instruction's operands | overlapping registers; operands that are tied, early clobbered or implicit; kill flags that are moved around; terminators | the allocated code reads the values the given code reads |
| Use lists | `lib/VMCore/Use.cpp` | the users of a value | add, remove, walk | tagged pointers in the waymarking of operand arrays | every use is in the list of its value |
| Interpreter, code generation, IR, analyses, targets, readers, linker, system and support libraries, tools | the rest of `lib`, `include`, `tools`, `utils` | per compilation | sequential | size | the semantics of the IR |

How they interact. A client or running code asks the **engine** for a function.
The engine, under its lock, has code generation emit the body into a buffer of
the **memory manager**, which has no lock of its own and relies on the engine's.
The body's calls are relocated to other bodies or to **stubs**; a stub calls the
engine back through `X86CompilationCallback2`, which rewrites it. Code generation
passes are timed and counted with **timers and statistics**, which are **managed
statics** guarded by mutexes that are managed statics, too; the multithreaded mode
decides whether any of these mutexes exist.

## Modules

| module | what it is |
|---|---|
| `CodeHeap` | what the JIT needs of a memory manager: extents handed out and returned |
| `JITMemoryManager` | the memory manager, word by word; implements `CodeHeap` |
| `JITMemoryInvariant` | its inductive invariant `IInv` |
| `MCJITMemoryManager` | a view for TLC |
| `CodeHeapProofs`, `JITMemoryProofs` | the theorems of the abstract heap, and of the memory manager |
| `Program` | what running a program means, without a JIT |
| `JITEngine` | the engine, stubs and running threads; implements `Program` |
| `JITEngineInvariant`, `JITEngineProofs` | its inductive invariant in two parts, `EngineInv` of the records and `ReadyInv` of code, stubs and threads; and the theorems |
| `MCJITEngine` | programs of three and four functions |
| `Lifetimes` | what managed statics promise: a stack |
| `ManagedStatic` | statics, mutexes, the global lock, shutdown; implements `Lifetimes` |
| `ManagedStaticInvariant`, `ManagedStaticProofs` | its inductive invariant, and the theorems |
| `TimersAndStatistics` | the code that uses statics, as scripts for `ManagedStatic` |
| `PassManager`, `PassManagerProofs` | scheduling, running and freeing passes, and what a schedule provides; its two inductive invariants and the theorems |
| `MCPassManager` | fourteen kinds of passes, twelve of them after those there are |
| `Machine`, `MachineCode` | registers, instructions and what they do; a function running on a machine with as many registers as it names |
| `RegAllocFast`, `RegAllocFastProofs` | the allocator, and the allocated code running beside the given one; implements `MachineCode`. The theorems about its maps and about the code it leaves |
| `MCRegAllocFast` | loops on a machine with two registers |
| `Handles` | what value handles promise: everyone is told once |
| `ValueHandles`, `ValueHandlesProofs` | the lists; implements `Handles`. The theorems that the lists are in order, that nobody is skipped, and the implementation |
| `MCValueHandles` | a handle of each kind, and a second one with a callback |
| `SpmAlloc` | the three allocators of the scratch-pad extension |
| `SpmAllocInvariant`, `SpmAllocProofs` | their inductive invariant, `SpmInv` and what it takes to count and place everything, `AllocatorInv`; and the theorems |
| `MCSpmAlloc` | programs of four data in three functions |
| `MCManagedStatic` | a compiler that times and counts passes; a program with named timers |

Definitions whose comment begins with *Mutant* are not used by any
specification. Each is a definition of the code with a plausible bug in it, and
`PROJECT.json` says which property it must violate when it replaces the right one.

## The memory manager

One variable `mem` holds the words of memory. A block header is one word with
the two flags and the size (`MemoryRangeHeader`); a free block has its `Prev` and
`Next` in the two words behind the header and its size in its last word. The
operators `AllocateBlock`, `FreeBlock` (with `Absorb`, `MarkFree`, `GrowBlock`),
`TrimAllocationToSize` (with `Split`), `AddToFreeList` and so on are the methods
of `MemoryRangeHeader` and `FreeRangeHeader`, as functions from a memory to a
memory, writing the words the methods write in the order they write them. Since
headers lie between bodies in `mem`, a wrong size damages a body or another header.

| action | code |
|---|---|
| `startFunctionBody`, `SearchFreeList`, `UseFreeBlock`, `UseNewSlab`, `AllocationFails` | `startFunctionBody`: entry, one iteration of the search, and its three ends. `startExceptionTable` does the same |
| `EmitCode` | the emitter fills the buffer, all of it when the body does not fit |
| `endFunctionBody` | `endFunctionBody`, `endExceptionTable` |
| `retryWithMoreMemory` | the emitter ran out of buffer: the untrimmed body is ended and freed again |
| `deallocateFunctionBody` | and `deallocateExceptionTable` |
| `allocateSpace` | memory for globals, from the head of the list |

Abstractions. A word is a header, a number, a word of code, or garbage; code
words are alike, as no property distinguishes them. Sizes are counted in words,
so rounding to the alignment of a pointer is done already. The system maps slabs
at any multiple of the page size that is free, or fails. A buffer that overflows
is filled to its end: the emitter drops what does not fit, and asks again.
`endFunctionBody` followed by the deallocation in a retry is one step, as nothing
comes between the two and a full buffer is not trimmed. Deallocation happens when
no body is being emitted, as `JITMemoryManager.h` lines 119-120 demand (the engine
is where this can go wrong, see *Findings*).

`blocks` is auxiliary: the addresses that hold a header. No guard of the code's
actions reads it.

`RoomAtHead` is the one obligation the model puts on callers: `allocateSpace` is
not called when only the tombstone block is left at the head of the list. The code
does not check it (`JITMemoryManager.cpp` 418 takes the head whatever it is, while
the comment in the constructor says of the tombstone that it is never allocated); what
would follow is the loss of the list's last entry.

## The engine

Code is data: a body is a record with the address each of its calls was relocated
to, a stub holds what it jumps to, and a thread runs by following addresses.

| variable | code |
|---|---|
| `GlobalAddressMap` | the address map of `ExecutionEngineState` |
| `stub` | `FunctionToLazyStubMap`, and the bytes of the stub itself: `Resolver` (a call of the callback), an address, `Null` (the empty stub made when compiling eagerly), `Torn` between the callback's two stores |
| `EmittedFunctions`, `bodies` | `EmittedFunctions`, and the memory the bodies are in |
| `PendingFunctions` | `JITState::PendingFunctions` |
| `lock`, `job` | who holds `ExecutionEngine::lock` over more than a step, and the locals of `runJITOnFunctionUnlocked` |
| `thread` | program counter and locals of each thread |

`Lookup` and `Enter` are the two critical sections of `getPointerToFunction`;
`startFunction`, `Relocate` (one per call of the body, with the decision of
`getPointerToGlobal`), `retryWithMoreMemory`, `finishFunction`,
`updateFunctionStub`, `NextPending` and `Compiled` are the compilation of one
function and the loop over pending ones. `JITCompilerFn`, `ReacquireLock`,
`RewriteStub` and `ReexecuteStub` are the callback, with a step for each store.
Freeing is three steps: the mapping goes, the body goes, the record goes.
`AskOrStub` and `ObtainStub` are `getPointerToFunctionOrStub`.

A step that needs the lock and does not keep it is guarded by `Unlocked`; `lock`
is set only where the lock is held over steps that can be observed.

What the model asks of clients, all of it documented in the repository:

* `MayCall`: only one thread at a time calls a lazy stub that is not resolved
  (`include/llvm/ExecutionEngine/ExecutionEngine.h` 330-334, and *Threads and the
  JIT* in `docs/ProgrammersManual.html`);
* `Unreferenced`: code that is freed is not running, and no other code calls it;
* operation `free`: the client holds the JIT's lock over
  `freeMachineCodeForFunction`, and no stub is bound to the function. The
  operations `freeStubbed` and `freeUnlocked` drop one of these conditions each;
  `MCJITStubbed.cfg` and the run `jit_unlocked_free` show what happens.

Abstractions. A call is followed like a jump, and a thread goes back to its
client from wherever it is: stacks would add nothing to what the properties see,
except that a caller's body stays in use, which only restricts freeing further.
External symbols always resolve. Whether compilation is lazy does not change
during a run. Emission of exception tables, debug information and listeners,
indirect symbols, materialization of modules and `recompileAndRelinkFunction`
are left out.

## Statics

`ManagedStatic` is the machine and `TimersAndStatistics` its programs. A *script*
is a sequence of instructions *use a static*, *lock a mutex*, *unlock a mutex*;
operations of clients, constructors and destructors are scripts. A thread has a
stack of frames, as a use may run a constructor, which uses other statics. The
frames of `operator*` go through `read` (the pointer without the lock), `acquire`
(the global lock), `creator`, the store of the pointer (`Publish`), `link` (the list), `release` and
`deref`; `destroy` and `Destroyed` are the deletion of one static by
`llvm_shutdown`. Whether a mutex is locked at all depends on
`multithreaded_mode`, as in `SmartMutex<true>`.

Each object has a number, so that an object that is made again after a shutdown
differs from the one before, and `needs` remembers which objects the constructor
of each was given. The scripts are the longest path of the functions they stand
for: statistics and timing are enabled, and there is something to print. `TimersSpec` is the machine with
`TheTimeInfo`: `createTheTimeInfo` has a script only while that is null, so the timing of passes is set up once, by as many threads as come
before the first has stored its address, and never again after `llvm_shutdown`. Every behaviour of it is one of `Spec`,
about which the proofs are.
`llvm_start_multithreaded` and `llvm_shutdown` run in isolation, as
`include/llvm/System/Threading.h` 18-30 demands. Memory is sequentially
consistent: the fences in `RegisterManagedStatic` and in `operator*` are
there to make it so. The list that timers form inside a group, and what
`startTimer` measures, are left out.

## The pass manager

A pass is a number, in the order of creation; `passes` says of which kind it is and
which manager runs it. `Root` is the top level's own manager: the module pass
manager of a `PassManager`, or the function pass manager of a `FunctionPassManager`
(`functionTop`). A function pass manager inside a module pass manager is a pass of it.

| action | code |
|---|---|
| `AddPass` | `PassManager::add`, `FunctionPassManager::add`: calls `schedulePass` |
| `RequiredIsThere`, `ScheduleRequired`, `CheckAgain` | one iteration of the loop of `PMTopLevelManager::schedulePass` over the required passes, with the recursive call pushed on `calls`, and its repetition |
| `AddModulePass`, `AddFunctionPass`, `NewFPPassManager` | `assignPassManager` of the two kinds of passes, which closes or makes a manager, and `PMDataManager::add` (`Adds`): last users, `removeNotPreservedAnalysis`, `recordAvailableAnalysis` |
| `BeginRun`, `EnterManager`, `NextFunction`, `LeaveManager`, `RunNextFunction`, `EndRun` | the loops of `PassManagerImpl::run`, `MPPassManager` and `FPPassManager::runOnModule`, `FunctionPassManagerImpl::run` |
| `initializeAnalysisImpl` | the function of that name: a pair is added to the pass's resolver, and what `getAnalysis` finds is the first |
| `RunPass` | what happens after a pass has run: `removeNotPreservedAnalysis`, `recordAvailableAnalysis`, `removeDeadPasses` with `freePass` |

`results` is what the passes' own memory holds: of which function, and under which
IDs nothing has invalidated it since. No guard reads it. It is what turns "the manager lists an
analysis" into "the analysis is true".

Every schedule the code makes provides for what is required: a pass that runs before serves it, is not displaced until
then and not used for the last time. Two things can still take a result away in the run. The code does not see to
either, and their absence is stated of the schedule (`WellKept`), not of the passes:

| condition on the schedule | what the code does without it |
|---|---|
| `RemadeOutliveNone`: a pass made while an earlier one of its kind and manager is still in use does not outlive that one's last user | `freePass` takes the ID off the list whichever pass is listed there (871), so the second pass is not found any more |
| `ModuleResultsStay`: what serves a function pass from `Root` is preserved by all passes of its function pass manager | on the next function the result is displaced, but `initializeAnalysisImpl` adds pairs behind those of the function before (1001), and the first pair is what `getAnalysis` finds |

`RequiredAreProvided` says that nothing else can go wrong: in a schedule with neither, what is required is ready. It is
checked for the run's passes, among them some that give rise to either, and proved for all passes. Each condition is
needed: with either left out TLC finds the other at fault.

Passes of LLVM give rise to both. For the first (`MCRemade.cfg`), one needs a pass that
preserves an analysis and not what it was computed from, as `CodeGenPrepare` does with an estimated profile and the loop
information the estimator used: who asks for the profile after that is the last user of the old loop
information too. For the second, the finding `passes_lto`, the order in which `createStandardLTOPasses` has
`globalsmodref`, `GVN` and `InstCombine` is enough.

Also assumed, in `PassManagerAssumption`: module passes require module
analyses (others are run on the fly), and what passes for a `FunctionPassManager` require is for it, too. A `PassManager` is run on one module. The
last user does not see transitive requirements, which is a finding of its own
(`passes_transitive`). Immutable passes, the managers of call
graphs, loops and basic blocks, timing and printing are left out.

## The fast register allocator

A register file is a function on cells; a physical register is a set of units, which is
how registers overlap. `fn` is a function of basic blocks with operands that are virtual or physical
registers. The allocator goes through every block, and then both codes run side
by side, instruction by instruction, on one path: `regs` is the file of the
given code, `file` that of the allocated one, where the cell of a virtual
register is its stack slot, and `seen` is what the allocated instruction
reads. `CodeSpec` says that this is a behaviour of `MachineCode`: the given code
would have read the same. A result is a new value, named after its
instruction and visit, so that no two values are equal by accident; a killed
register and what a call leaves are `Junk`, and reading junk shows.

| definition | code |
|---|---|
| `PhysRegState`, `LiveVirtRegs`, `UsedInInstr`, `StackSlots`, `PhysRegsUsed` | the members of `RAFast` of these names (`StackSlotForVirtReg`) and the function's record |
| `definePhysReg`, `usePhysReg`, `spillVirtRegs`, `killVirtRegs`, `calcSpillCost`, `allocVirtReg`, `defineVirtReg`, `reloadVirtReg` | the methods, as functions of the allocator's state, early returns of their loops over aliases included |
| `BeginBlock`, `BeginInstr`, `ScanUsePhysReg` ... `EndOfInstr`, `EndOfBlock` | `AllocateBasicBlock`, one action per operand that a scan does something for |
| `CollidingPhysDef` ... `EndOfThrough` | `handleThroughOperands` |
| `RunMoves`, `Execute`, `Branch` | running, external |

What is assumed of the given code, as the passes before leave it: flags of uses may
be wrong except on tied uses, dead flags are right; a definition of a physical register is read at most
once; registers live into a block do not overlap, and dead ones are removed; no instruction defines a
virtual register before an implicit physical one that overlaps its class, unless
operands are tied or early; implicit results are copied at once; what a call defines behind its virtual
operands it defines implicitly (`CallsDefineImplicitly`). Operands
with sub-registers, partial redefinitions and `DBG_VALUE` are not modelled.

## Value handles

`mem` has the nodes (`VP`, `Next`, `Prev`), the table and the values' flags; the operators on it
are the methods of `ValueHandleBase`. `Prev` is the address of the pointer that leads to a node:
a node, standing for its `Next`, or a bucket. When the table grows, buckets' addresses
become those of a freed array (`grow`), through which nothing may be read or written any more;
`FixPrevPtrs` is the loop that repairs them. An iterator is a node of its own that
walks through the list; `stack` has the iterations that are under way, as callbacks
may delete and replace other values.

| action | code |
|---|---|
| `Construct`, `CopyConstruct`, `SetValue`, `SetHandle`, `DestroyHandle` | the constructors, assignments and the destructor of `ValueHandleBase`, outside and in callbacks |
| `CreateValue` | a value, maybe at the address of a former one |
| `DeleteValue`, `ReplaceAllUses` | `~Value` and `uncheckedReplaceAllUsesWith` up to the loop, with the iterator put first (`Iterate`) |
| `Visit` | one iteration of the loops of `ValueIsDeleted` and `ValueIsRAUWd`, up to the callback |
| `CallbackReturns` | the end of `CallbackVH::deleted` |
| `LoopEnds` | the iterator goes, and the checks for handles that are left |

What is asked of clients: a callback does not delete the value that is being deleted or
replaced, nor what replaces it; a callback handle that was destroyed in its own callback
is not made again while that is on the stack; a `TrackingVH` whose value was deleted is only
destroyed; only `WeakVH` and `CallbackVH` are assigned as handles, as in their classes. The links of a
node that is in no list are never read and are set to `None`. `late` is
auxiliary: which handles came to a value after its iteration began.

`Handles` has no lists: a loop has a set of those that still wait. `HandlesSpec` maps that set to the handles
that follow the iterator, so it says that a callback cannot make the loop skip a handle,
or tell one twice, and that a copy of a waiting handle waits as well.

## The scratch-pad allocators

`SpmAlloc` is one state machine for `XueAlloc`, `MpcAlloc` and `FcfsAlloc`; which one
runs is chosen at the start, as is what the profile files say (`program`) and what
`memory.config` says (`memory`). Xue's is the one `SpmAllocator::run`
calls; the calls of the other two are there, behind `if( false )`.

| definition | code |
|---|---|
| `front` | the kind of memory at the front of each `m_MemoryCostList`: lists are sorted and only popped |
| `GetFuncCall`, `IsInterfere`, `getBenefit` | the functions of these names |
| `StartKind` | the subgraph of one memory, with its degrees |
| `Simplify`, `PotentialSpill` | a datum goes to `data_stack`, and the degrees of its neighbours drop |
| `Select`, `ActualSpill` | a datum is popped and coloured, or loses the front of its list |
| `XueKind`, `XueNext` | one memory after the other; data that are spilled join the next one |
| `MpcRound`, `MpcKind`, `MpcNext`, `MpcEnd` | rounds over all memories, the fullest first, until none spills |
| `Allocate`, `FcfsEnd` | the most beneficial datum joins a node it does not interfere with, or gets one of its own |

`placed` is what the program returns: which datum has which colour, or is in which
node. Abstractions: names are numbers, in the order of the lists and of the addresses that
the code's sets and maps sort by; both heuristics compare quotients of
doubles, which are compared by cross-multiplication, with the cases of a zero degree
spelled out. Which data are live together is an arbitrary relation, as it is read from a file.

Observed while checking, and stated in the properties rather than hidden:

* `XueAlloc` ends its loop over memories with `while (bSpilled);` (`SpmAlloc.cpp` 157),
  a loop of its own. If a datum is spilled from the last memory it never ends, so
  `Returns` promises no more than that.
* A datum is `Colorable` when its degree is *at most* the number of colours; one
  where they are equal is not weighed against others either, but may be spilled:
  `ColorableIsColored` says that then its neighbours have all the colours, each of them another one.
  The degree counts the datum itself if its function is recursive.
* MPC keeps colours over rounds. A datum of a recursive function interferes
  with itself, is never given the colour it has, and ends up with two. What MPC puts in
  DRAM all has the address 0 (`EveryoneHasAPlace` and `NoConflict` say which data they exclude).
* MPC also spills data that would have fitted, as the colours of memories that spilled are
  cleared and given anew; `SpilledForAReason` is about Xue's allocator only.

## Runs, bounds and fairness

| run | instance | checks |
|---|---|---|
| `memory` | 32 words, pages and slabs of 16 | `CheckInvariants` of the code, everything coalesces, `IInv`, the granted buffer has the size asked for and is the largest, implements `CodeHeap`, a slab is mapped only if nothing else fits, the search ends |
| `jit_lazy` | two threads, a program with a cycle, one body may be freed or retried, stubs may be asked for | threads only run finished code; no body is lost; the map agrees with the record; only what is asked for is compiled; the program is what runs (implements `Program`) |
| `jit_eager` | two threads, `main` with two mutually and self recursive functions, far stubs for the external one, two bodies freed or retried | every call leads to code when the lock is free (`EagerIsComplete`), `CodeInv` |
| `jit_unlocked_free` | a client that frees without the lock | violation |
| `passes` | up to four passes of fourteen kinds and all they require, in both kinds of manager, on two functions | what a pass requires is there and not stale in every schedule without the two weaknesses, nothing stale is listed, everything is freed, scheduling ends with success |
| `passes_transitive` | three passes of eight kinds | violation |
| `passes_lto` | three passes of six kinds | violation |
| `regalloc` | 7000 loops of three blocks on two wide registers, one made of two bytes, and flags | the allocator's maps and its assertions, all operands allocated and recorded, the allocated code reads the same values |
| `value_handles` | five handles, two values, two iterations deep | `HandleInv`, the program is only stopped for what a client did, implements `Handles`, iterations end |
| `statics` | two threads, five statics, switch to the multithreaded mode, two shutdowns | objects are ready, none is lost, what a constructor used outlives the object, shutdown leaves nothing, calls return, reverse order |
| `named_timers` | two threads, two kinds of timers | violation |
| `scratch_pad` | all three allocators, four data, three functions | data that interfere are apart, degrees are right when they are read, every datum has its place, spills have a reason, memories are not exceeded, `AllocatorInv`, colourable data are coloured, the allocators return |

*Memory.* Two slabs of 16 words are the smallest instance in which everything
happens: the first slab has two fences and a tombstone and room for two bodies,
bodies fill their buffer, leave a rest that is too small to split off, or one
that is split off; a second slab is mapped behind or before the first, and a third
mapping fails. Blocks are freed with free neighbours on neither, either and both
sides. The run uses the view `MemView`, which leaves out the words of `mem` that
will be written before they are read: payloads of free blocks, the unused end of
a block, and the buffer that has not been written yet. No action's guard reads
such a word and no action copies one, so two states that differ in them only
have the same successors up to the same difference, and no property of the run
reads one. `CHECK_DEADLOCK` is off as the program really stops when memory is
used up (`report_fatal_error`).

*Engine.* Two threads are enough for every pair of steps the lock separates: a
third could only wait as well. Programs have a cycle (a pending function becomes
pending again), a self call, a call to an external function, and a function
reached over two paths. `MaxFreed` bounds what is given back, by clients and by
retries together.

*Statics.* `MaxShutdowns` is two, so that statics are made a second time, by
destructors and after a shutdown. The statics are those of a compiler that counts
and times its passes.

*Pass manager.* The kinds have what makes scheduling hard: a chain of analyses that require each other
transitively, a required transform, an interface with three implementations in both managers, a function pass that
requires a module analysis (which closes the function pass manager it would have gone to), a
module transform, and passes that make a schedule with either weakness. The function pass `callers` and the pass
`rotate`, which preserves the loops and not the dominator tree, are made up; what shows a violation has passes of LLVM only. Four passes and their
requirements make up to a dozen, in two function pass managers with module passes in between; a second function shows
what the first has left.
`CHECK_DEADLOCK` is off as a run ends.

*Register allocator.* Every pair of nineteen statements in a loop, between three entries and four endings: the loop
jumps back on the flags, on the flags twice as for an unordered comparison, or on a register that is
compared with zero, with an unconditional jump behind. The allocator stores before the first of these terminators, which
may read a register itself, and the run may leave the block at each. Terminators behind the
first do not read virtual registers in the instance: a register read only there is killed by the store before the first,
and the code would read another value. Functions come with the flags of fast instruction selection and with flags on
every use. Three wide virtual registers compete for two places, bytes for halves of one of them; statements have tied, early clobbered, implicit and colliding operands, calls with arguments, and
inline assembly. Four visits of blocks let the loop come round with what it stored.
`CHECK_DEADLOCK` is off as a run ends.

*Value handles.* Two values are enough for a handle to move to another list, for a
replacement, for the table to move, and for an iteration inside another one. The second callback handle can be
copied, moved and destroyed by the first. `MaxOps` bounds what callbacks do in one outermost iteration
to two operations; outside nothing is bounded. `CHECK_DEADLOCK` is off as
the program may be stopped by its own checks.

*Scratch pad.* Four data in up to three functions, with every relation of
live ranges inside a function; call graphs with a chain whose closure matters, a function that
calls itself, and two that call each other; memories that are too small for the data, that lack one kind, and
that suffice. Four data can have more neighbours
than colours, be spilled twice, and share an address that another was spilled
from. `UnsignedMod` is 16: a degree below zero would become large, as in the
code; `DegreesCount` shows that there is none.

Fairness. The allocators are one thread of straight-line code, so `Next` is weakly
fair. The memory manager's search is straight-line code of one thread, so its
steps are weakly fair. In the engine, each thread's steps inside the JIT, and on its
way through a stub, are weakly fair: threads are scheduled, the lock is not held
for ever, and as each function is compiled and freed finitely often
(`MaxFreed`), contention ends. What a client chooses to do is not fair. In
`ManagedStatic` scripts may be repeated for ever, so a thread that waits for a mutex
needs strong fairness: it obtains a mutex that is released again and again. In
the program an operation takes a mutex finitely often. In the pass manager
scheduling and running are straight-line code of one thread, each weakly fair; when the client adds a
pass or starts the run is up to it. The loops over handles are straight-line code, and callbacks
return: `LoopFairness` is the weak fairness of `LoopStep` with its `ENABLED` spelled out.

## Findings

* `jit_unlocked_free`: the memory manager's header says it is never asked to free
  while a body is being emitted; the engine's freeing does not take the lock for
  that call.
* `passes_transitive`: a pass that is the last to use an analysis directly has it freed, although another
  analysis that is still to be used requires it transitively; the guide promises
  that it is alive as long as the requiring pass is.
* `passes_lto`: `globalsmodref`, `GVN` and `InstCombine` are added in the order of the pipeline for link-time
  optimization. On the second function `GVN` finds the first pair of its resolver, of the function before: it is given
  `globalsmodref`, which `InstCombine` has invalidated on the first, where the guide says that the managers keep track of which
  analyses get invalidated. The alias analysis that is an immutable pass, which the model leaves out, would be the second pair.
* `named_timers`: `getNamedRegionTimer` takes `TimerLock` and then the global lock,
  `getDefaultTimerGroup` takes them the other way round. Two threads that make
  their first timers can wait for each other for ever.

Two more have a configuration that is not among the runs, and in which TLC finds them within seconds:

* `MCJITStubbed.cfg` (`CodeIsReady`): `freeMachineCodeForFunction` says the function will be
  retranslated when it is used next (`JITEmitter.cpp` 1297), but a stub that was bound to it still leads
  to the freed body, and is used again for callers compiled later.
* `MCRemade.cfg` (`RequiredAreReady`): a profile estimator, `CodeGenPrepare`, a dominator tree, block placement and loop
  information are added in this order. Block placement is the last user of the estimated profile, and so of the dominator
  tree and the loops the estimator was computed from, which `CodeGenPrepare` has invalidated. When these are freed the
  second dominator tree goes off the list, which is still to be used: the loop information finds none.

Also seen: `RoomAtHead`, described
above; that the test for what can be coloured lets the degree equal the number of colours (`SpmAlloc.cpp` 86), so that a
datum may be spilled in place of one that costs less; and that `getPointerToFunctionOrStub` returns an empty stub when lazy
compilation is off, where `ExecutionEngine.h` 272-273 says it compiles the function then.

## Proofs

`CodeHeapProofs`: for every memory, the abstract heap keeps its types and never
hands out a word twice. No assumption is needed; the invariant is
inductive as it stands together with the types.

`JITEngineProofs`, for every set of threads and functions, call graph, set of external
functions and bound that satisfies `EngineAssumption`:

* `TypeCorrect`: `TypeOK`, by the inductive `TypeInv`, which adds that a thread
  that deals with a function knows which, and that only defined functions are
  compiled. No assumption about clients.
* `EngineInvariant`, and from it `BodiesOnRecord` (`NoBodyIsLost`) and `MapOnRecord`
  (`MapAgreesWithRecord`). These assume `CarefulClients` (freeing holds the lock;
  stubs are asked for when compiling lazily only) and `NearCalls` (only external
  functions need far stubs, as on X86). `jit_unlocked_free` shows what happens
  without the first; the second excludes a hazard that
  `PROJECT.json` lists: a function that needs a far stub for a call to itself replaces its own
  address while it is being emitted.

Why the strengthening is needed. `NoBodyIsLost` says each live body is the one on
record. A new body is recorded over the old entry, so a step that starts a
function must know that the entry is empty. `Enter` starts one when the map
has no address, hence `NullInv`: without an address there is no body, unless it
is just being freed, which holds the lock (`LockInv`, `FreeInv`). `NextPending` starts one
from the work list, hence `PendingInv`: what waits there has an address (its stub's), no
body, and waits once; a function gets there only with its first stub, when its
map entry is empty. `RecordInv` and `MapInv` say that the body being emitted is the
last one, recorded and mapped, and that all others are finished when mapped. The
proof has a lemma for each action, and one step for each part the action can
disturb.

* `CodeInvariant` (`CodeInv`), and from it `ThreadsRunFinishedCode` (`CodeIsReady`),
  `EagerlyComplete` (`EagerIsComplete`, when not lazy), `OnlyTheOne` (`CompilesOnlyTheOne`, when
  lazy), `FreedBetweenEmissions` (the property that `jit_unlocked_free` shows violated when clients
  do not hold the lock), and `TheProgramIsRun`: every step of the engine is a
  step of `Program` or none, the safety part of `RunsTheProgram`. They assume
  `BoundCodeStays` besides: no function is freed that a stub is bound to. Without it they are false, as `MCJITStubbed.cfg` shows.

A thread reads an address, loses the lock, and runs what is there later. So the invariant
does not say that code is ready *now*, but that the first `n` bodies are closed under calls and that
what threads hold leads into them (`HeldInv`): the bodies of the compilation that is under way are a suffix, and
`n` moves to the end when the lock is given up. A call made by a finished body
arrives in code, or at a stub that is bound to code, or at one that will call the resolver, and a
stub that has not been bound is executed by one thread only
(`ResolveInv`, from `MayCall`), which is why its two stores are harmless. `UnreferencedInv` says that
what made code free to go is still true when it goes. Eagerly there are no resolvers
(`NoResolvers`), so that when nothing waits every stub is bound (`StubInv`).

`SpmAllocProofs`, for every number of data, set of functions, programs and memories
that satisfies `SpmAssumption`, and all three allocators: `SpmInvariant`
(`SpmInv`), and from it `SpmTypeCorrect` (`TypeOK`) and `InterferingDataApart` (`NoConflict`).
When a datum is coloured it is compared with those of its *subgraph* that have the colour, so
`NoConflict` is only preserved if all data with a colour of this memory are
in the subgraph (`XueInv`, `MpcInv`). For MPC that means that colours and lists
of costs agree, but for a memory that has spilled and is still to be
cleared; that in turn needs to know what is being coloured and with which costs
(`BeingColored`, `CostsInv`, `CostsAreLeft`). First come first served compares with the whole
node; a new node is empty because nodes in use are those there are (`FcfsInv`).

`AllocatorInvariant` adds the rest, and from it follow `DegreesAreCounted`, `SpillsHaveReasons`, `NobodyIsForgotten`,
`MemoriesSuffice` and `FewNeighboursAreColored`: everything the run checks but `Returns`.
That a degree counts neighbours is kept by taking one datum out of a finite set; that a neighbour is
counted once, itself included, is where recursive functions come in. For a spilled
datum `ReasonInv` needs its neighbours to stay where they were, which holds for Xue's
allocator because it never clears a memory; the same is false for MPC. Chaitin's argument is about the stack: what was pushed
before a datum and what has been coloured since are the only neighbours in its way
(`Since`), and its degree when it was pushed bounds their number; fewer data than
colours leave a colour, by an injection from colours to data, which is a bijection if there are as many. MPC colours data again after a round that
spilled; `MpcPlaces` says who still waits for it. What first come first served has
taken from a memory is a sum over its nodes. The fold that defines it has one solution
on the prefixes of a sequence, which is shown with a least counterexample.

`ManagedStaticProofs`, for every set of threads and statics, every set of scripts that satisfies
`ScriptsAssumption`, and any number of shutdowns: `StaticsCorrect` (`StaticsInv`), and
from it `UsersGetObjects`, `UsersDieFirst`, `NoneIsLost`, `ShutdownIsComplete` and
`DestroyedInReverse` (the implementation of `Lifetimes`). The assumption says what the code of this tree
does: scripts lock what they have used and unlock what they have locked; the constructors
do not use each other in a circle, which C++ could not construct either; and a
destructor uses no static whose construction would need the one that is being destroyed. The
argument: each thread's stack says what it does (`StackOK`), and of all threads
only the holder of the global lock is between two steps of making or linking an object. A
recursive mutex is held as often as the frames of its owner will still release
it (`Owing`), a sum along the stack. The list is a walk without repetition, latest
first, in which what an object needs stands behind it (`IsList`). So the head can be destroyed. That a
constructor never meets its own static half made needs that there are no circles: in the stack
each frame's static is used by the constructor below it.

`RegAllocFastProofs`: `RegistersInOrder`, for every function, register set, class and instruction
that satisfies `RegAllocAssumption`: `RegInv` is inductive as it stands. `PhysRegState` and
`LiveVirtRegs` are inverse to each other only because two overlapping registers are
never both in use (`NoAliasInUse`): when a register is taken, what is
displaced is what its aliases hold, and the loops that look for it return early. The proof has a lemma for every operation, for
any state with the invariant, and then one step per action.

`CodeIsAllocated` is about the code itself (`AllocatedCode`). That a load goes into a recorded register, or that an operand a
scan passes over is a physical one, is decided in one scan over the operands and needed
after several others, so `CodeInv` says for each scan what it has achieved: instructions before `MI` are
`Done`, those behind it as they were given but for kill flags and stores, and of the one between, as the phase requires, its loads are
for its through operands or in `UsedInInstr`, its early clobbers have registers, its uses do, its definitions
before `op` do and are marked. `Matches` ties the instruction to the given one, from which the code takes the flags
that decide which scans there are. The operations are lemmas again: one inserts a load, or puts a register in the place of an
operand (`Placed`), and leaves the rest of the code alone (`Kept`). The scan for a call's
definitions ends at its last virtual operand (934); what is behind is recorded from the implicit definitions of its kind
(946, 1034), which suffices if explicit definitions do not stand there: `CallsDefineImplicitly`, which
holds as explicit operands precede implicit ones and no call has an explicit definition in a physical register.

`PassManagerProofs`, for every set of passes, requirements and preserved sets, order of adding, and number of
functions that satisfies `PassManagerAssumption`: `NothingStaleIsEverAvailable` and
`NothingIsEverKept`. Neither is inductive: that the result of the function before is gone when the next one
begins needs that its last user has run. So `IInv` says where the last users are: in the
same manager as the pass, and not before it (`LastUsers`), which while passes are added rests on the order in
which managers are made and closed (`Stack`, `Vectors`). During the run this schedule does not change, and a
result that is present has its last user still to come (`Results`); what is listed has a
result under the ID it is listed for (`Available`).

`RequiredAreEverProvided` is about what passes require, and has no other hypothesis: in every run of a schedule
without the two weaknesses above, `RequiredAreReady`. That a pass finds in the run what it requires is decided while
passes are added, from what is listed then. So `JInv` says first what the *schedule* provides, in terms of the passes'
numbers alone, and for every schedule: `Lists(m, p, id, e)`, that manager *m* lists *e* under *id* before *p* runs,
unless *e* is freed, since no pass between them displaces it; `Serves`, that *e* is what *p* finds, in its own manager
or else in `Root`; and `AllServed`, that every pass is served by one whose last user does not run before it. While
building, the managers on the stack list exactly what the schedule lists at its end (`ListedWhileBuilding`), so a pass
added at the end extends the schedule (`AddsGives`, `AddingAllServed`). In the run of a schedule that is well kept the
lists follow the schedule: Root's and the manager's contain at least what it lists before the next pass and is still
used (`ListedAsScheduled`; `NotFreed` is where `RemadeOutliveNone` is used), a manager's inside Root no more than that
(`ListedOnlyAsScheduled`), or `findAnalysisPass` would return another pass. What a pass's resolver names serves
it (`ResolvedAsScheduled`); so the pair from the function before, which is never replaced, names the right
pass (`RequiredIsListed` is where `ModuleResultsStay` is used). With `IInv`, what is listed is ready.

`ValueHandlesProofs`: `ListsInOrder`, for every set of handles and values, and any depth of iterations:
`HandleInv` is inductive. Every operation takes a node out of its list or puts one in, so the lemmas are about
lists that are in order *but for one node*. Links that agree pairwise do not
exclude a cycle beside the list, whose nodes would have a value without its flag; hence `NoCycle`: every set of
nodes has one whose address is outside of it. A lemma shows that a move of the table leaves no trace once
the addresses are repaired. That frames' values are alive and not deleted by
inner iterations (`NothingDangles`) is needed for what handles are pointed to.

`NobodyIsSkipped` (`StoppedForAReason`): of the handles before the iterator in a list, every one
was told and kept its value, or came late. The lemmas follow the walk from a node:
what an operation does to the handles *after* the iterator. With it `EveryoneIsToldOnce`
shows that every step is a step of `Handles`. The refinement maps who still waits
to those behind the iterator, and it is a matter of order in a list, where the invariant is one of
links; hence the lemmas about positions, which are unique because a list is finite. That is why
`ValueHandlesAssumption` asks for finitely many handles. `IterationsEnd`, a
liveness property, stays with TLC.

`JITMemoryProofs`, for every size of memory, page, slab and request that satisfies `SizeAssumption`:
`HeapInvariant`, that `IInv` is inductive. `IInv` says of every block and every link by itself what
`CheckInvariants` says of walks, so that a step needs to be looked at only where it writes. The proof has a
lemma for every method of a block (`AfterAllocate`, `AfterTrim`, `AfterFreeBlock`, `AfterFill`,
`AfterNewSlab`): which words it writes, and what they are to the blocks around it. A free block may
merge with both neighbours, which are found through a marker and a header that have bodies of
code between them; that the words of code are not in the way is in the invariant, too (`LiveOK`).
Some of it is there for the proof only:

* `OneRing`: a part of the list that `Next` does not lead out of is the whole list. Links that agree
  pairwise do not exclude two rings, and the search would never see the second. Said in this way
  adding and removing a block keep it without an induction.
* `SlabsOK`: slabs do not overlap and begin with a block, or mapping one could damage another.
* `TombstoneOK`: the block that is never handed out keeps the list from losing its last entry.
* `SearchOK`: the part of the list the search has seen leads on only to where it is, and has nothing larger than its
  candidate. When the search is back at the head, that part is the list.
* `NothingLeaks`: what is allocated has an owner, a client or the manager.

From it follow all the other safety properties of the run. `MapsOnlyAtNeed` and `GrantsTheLargest` are about steps: a slab is
mapped only when the largest block is too small, and otherwise the largest block is granted. `SelfCheckSucceeds`
says that `CheckInvariants` never fails. Its walks are recursive functions; that the equation
which defines one has a solution is shown with the least number for which it had none, and that
a walk along the ring comes by every free block in as many steps as `CheckInvariants` takes is by counting: free blocks do not overlap and have at least
four words. `EverythingCoalesces` shows with the same walks that a heap nobody owns a part of is one free block per slab, but for
the fences. `ImplementsHeap` is the step simulation of `CodeHeap`: extents are in different blocks, so they
are disjoint.

### What is only model-checked

* Liveness: `Returns`, `IterationsEnd`, `EveryCallReturns`, `SearchTerminates`, `EverythingIsScheduled`, and the
  liveness part of `RunsTheProgram`. Liveness under fairness is out of the prover's reach.
* `AssertionsHold` of the register allocator depends on the function: an instruction can have more operands than there
  are registers. `CodeSpec`, what the allocated code reads, relates two register files over a run and needs the assumptions about the
  given code that are listed with the module; it is not proved.

Nor do the provers do induction: the library's theorems about it have an operator as parameter. Where a proof needs
induction it takes the least element of a set of naturals, or a minimal subset of a finite set, as a lemma
does that the library proves for sets.

## Not modelled

Of the modelled components: `recompileAndRelinkFunction`, the GOT, exception tables,
listeners and debug registration in the engine; the bump allocators for stubs
and data, and page permissions in the memory manager; `llvm_execute_on_thread`
and `ManagedCleanup`; the contents of timers and statistics; the older
allocators of `SPM_Alloc_FCFS.cpp`, which nothing calls, how live ranges are computed, and the files
the scratch-pad allocators read and write. The machine code of
the callback's entry points, and replays for other targets.

Of the new ones: immutable passes, call graph, loop and basic block managers, timing and printing in the pass
manager; sub-register operands and debug values in the register allocator; the typed
wrappers, `ValueMap` and the rehashing inside `DenseMap` in the value handles.

Hazards of the modelled components that no property covers are listed in `PROJECT.json` with a note that says why.
Also of them: an operand that defines a part of a register (`RegAllocFast.cpp` 699), recompiling, which empties the
map's entry and reads it again in three locked steps (`JIT.cpp` 770), and `RoomAtHead`, a block at the head that is too
small (`JITMemoryManager.cpp` 418). Code that is not modelled has others: far stubs for a function that calls itself, `TheTimeInfo` after a shutdown, the
global lock while the mode is switched, the vectors of active timers, and write-backs of the cache simulator. A nested
crash recovery context forgets the outer one when it ends (`CrashRecoveryContext.cpp` 37); signal
handlers and stack unwinding are not modelled.

Not at all: compiler passes, the IR, code generation, targets, readers and
writers, the linker, the interpreter, the option and container libraries: they
are sequential, and a model of one would amount to the semantics of what it
translates. They are nearly all of the 645 000 lines of the tree, so the share of the
implementation that the map covers is small and will stay small; what is modelled are the
parts where a sequence of calls or the interleaving of threads decides. The frequency analyses and the scripts of the
scratch-pad extension turn files into numbers. The thin wrappers of the operating system appear as
definitions of the modules that use them: the allocation of a slab is mapped to its source, the mutexes of the threads
library are external.

## Plan

1. Done: memory manager and abstract heap; engine, program, and the proof of the engine's
   invariant; managed statics with timers and statistics; the scratch-pad allocators and the proof
   that they keep interfering data apart; the pass manager and the proof that nothing stale is listed
   or kept, and that what passes require is there in a schedule without the two weaknesses; the fast register allocator and the proofs about its maps and its code; value handles. Of the engine, the
   statics, the scratch-pad allocators, the pass manager, the value handles and the memory manager
   every safety property that holds is proved.
2. Extensions of `JITEngine`: recompilation, and of `JITMemoryManager`: stubs
   and data.
3. Crash recovery contexts; the pass manager's loop and call graph managers; use lists.
4. Of low priority, the older scratch-pad allocators, and the cache simulator: `cacheL2.H` is not
   included by `hybridCache.cpp` and names a type that is declared nowhere, and no next level is ever
   set, so write-backs have no effect.
5. Proofs: `CodeSpec` of the register allocator.
