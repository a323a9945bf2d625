# A verification development for SpiderMonkey

SpiderMonkey is the JavaScript engine in `src/js` of this repository: parser,
bytecode interpreter, two JIT compilers, a garbage collector, the standard
library and an embedding API. Most of it is a sequential language
implementation. What this project models is the part that is hard to test: the
threads the engine runs beside the main thread, the protocols by which they
share work and memory, and what happens when one of them fails, is cancelled or
is told to stop.

Paths below are relative to the repository's `src/js`.

## 1. Inventory

### Components with concurrency or protocols

| component | state | operations | hard behaviour | what makes it correct |
|---|---|---|---|---|
| Thread pool (`vm/ThreadPool`) | a queue `[from, to)` of slices per thread in one atomic word, `pendingSlices_`, `activeWorkers_`, `job_`, worker states | `executeJob`, `getSlice` (pop, steal), `abortJob`, `run`, `join`, `terminate` | compare-and-swap races, counters apart from queues, late wakeups, partial start | each slice once; the job is over on return; no stale job; counters exact; termination |
| GC helper thread (`jsgc`) | `state` (IDLE, SWEEPING, ALLOCATING, CANCEL_ALLOCATION, SHUTDOWN), flags, free buffers, chunk pool, queue of arenas to sweep | `threadLoop`, `doSweep`, `startBackgroundSweep`, `startBackgroundShrink`, `waitBackgroundSweep(OrAlloc)End`, `finish`, `freeLater`, `PickChunk`, `expire` | work done without the lock, cancelled allocation, requests that arrive during the work, resets, shutdown | the collector owns the heap during a session; no chunk or pointer lost or freed twice; no request lost |
| Worker threads (`jsworkers`) | worklists and finished lists for Ion, asm.js, parse and compression tasks, one current task per worker | `threadLoop`, the four `handle...Workload`, `StartOffThread...`, `CancelOffThreadIonCompile`, `WaitForOffThreadParsingToFinish`, `EnqueuePendingParseTasksAfterGC`, `cleanup` | workers waiting on other workers, cancellation against a moving task, interaction with GC and runtime destruction | cancellation complete; results not used before they are published; no deadlock; every task finishes |
| asm.js parallel compilation (`jit/AsmJS.cpp`) | claim flag, `outstandingJobs`, pool of LifoAllocs | dispatch, `GetFinishedCompilation`, `CancelOutstandingJobs` | one function of many failing while others are queued, running, finished | exact outstanding count; memory released only when unreachable |
| Incremental collector (`jsgc`, `gc/`) | zone states, mark stack, barriers, zone groups, slices | `BeginMarkPhase`, `DrainMarkStack`, `BeginSweepPhase`, `ResetIncrementalGC`, barriers | mutation between slices, reset, cross-zone edges, gray marking | nothing reachable is freed |
| Arenas, free lists, decommit (`jsgc`, `gc/Heap.h`) | arena lists with cursor and background-finalize state, chunks' available lists | `refillFreeList`, `finalizeNow/Later`, `backgroundFinalize`, `DecommitArenas` | lists changed while the lock is given up | no arena both free and in use; lists intact |
| Generational collector (`gc/Nursery`, `gc/StoreBuffer`) | nursery, remembered edges | minor GC, post barriers | stale edges, overflow | every nursery edge is remembered |
| ForkJoin (`vm/ForkJoin`) | worklist of scripts to compile, warm-up position, bailout count; abort and fatal flags, scripts blamed for bailouts, GC requests of the section | compile, warm-up, parallel attempt, poll, bailout, recovery, sequential fallback | several slices aborting at once, interrupts from anywhere, code that a collection takes away | success only with every slice complete; no GC request lost or narrowed; interrupts end the section; no endless compilation |
| Parallel arrays (`builtin/Array.js`) | per-slice positions, output buffer, subreductions, conflict maps, survivor bits | `mapPar`, `reducePar`, `scanPar`, `scatterPar`, `filterPar`, `buildPar` | a kernel call given up at any point and made again, in parallel, as a warm-up or sequentially | the result of the sequential fallback |
| Operation callback (`jscntxt`, `vm/Runtime`) | interrupt flag, callback lock | trigger, handle | lost interrupts | a trigger is eventually handled |
| `OrderedHashTable` (`builtin/MapObject`) | table, live Ranges | put, remove, clear, rehash, range | mutation under iteration | a Range visits each live entry once |
| Weak maps, watchpoints, `FindSCCs` | ephemeron tables, zone graph | iterative marking, component search | fixpoints | ephemeron closure; true components |

They interact by calls and by shared state: a parallel array operation hands
kernels to `ForkJoin()`, which runs them as jobs of the thread pool; a slice that
wants a collection asks its section, which schedules it; the collector waits for the helper
thread before it touches chunks; off-thread parsers allocate from the same
chunks; the end of a GC of the atoms zone releases parse tasks; the main thread
and a parse task both dispatch asm.js functions to the same workers; the
destruction of the runtime cancels, waits for and joins everything.

### The rest

Parser and emitter, interpreter, type inference, the JIT compilers and
assemblers, YARR, the standard library, proxies, structured clone, ctypes, number
conversion, the JSD service, MFBT, shell and tests. These are sequential
computations over programs and values, third-party code, or drivers. They are
listed with the reason in `PROJECT.json` ("components").

## 2. Plan

| step | modules | status |
|---|---|---|
| 1 | `ThreadPool`, abstract `ParallelJob`, `MCThreadPool`, `ThreadPoolProofs` | done, proved |
| 2 | `GCHelperThread`, `MCGCHelperThread`, `GCHelperThreadProofs` | done, safety proved |
| 3 | `WorkerThreads`, `MCWorkerThreads`, `WorkerThreadsProofs` | done, safety proved |
| 4 | abstract `KernelCalls`, `ForkJoin`, `MCForkJoin`, `ForkJoinProofs` | done, safety proved |
| 5 | `ParallelArray` above `KernelCalls`, `MCParallelArray`, `ParallelArrayProofs` | done, proved |
| 6 | `IncrementalGC`, `MCIncrementalGC`, `IncrementalGCProofs` | done, safety proved |
| 7 | `DecommitArenas` (chunk list under a dropped lock) and `BackgroundFinalize` (arena list cursor, `refillFreeList`, background finalize states) | planned |
| 8 | `OrderedHashTable` with live Ranges against a list of entries; `Nursery`/`StoreBuffer` | planned |

Composition. `ParallelArray`, `ForkJoin` and `ThreadPool` are three layers with a
specification between each two:

    ParallelArray   the operations of builtin/Array.js
        EXTENDS  KernelCalls   how ForkJoin() calls a kernel
    ForkJoin        implements KernelCalls (checked and proved)
        takes the pool by what ParallelJob promises
    ThreadPool      implements ParallelJob (checked and proved)

`GCHelperThread` includes the collector and an off-thread allocator as its
environment, `IncrementalGC` the helper as its own. `WorkerThreads` composes the
workers with their clients (main thread, parse tasks) and with the collector's
handling of the atoms zone.

Modules with theorems use no RECURSIVE operators; parameters are constants with
named assumptions; each operation is an action.

## 3. Modules

### ThreadPool and ParallelJob

Thread 0 is the main thread; thread *w* is `workers_[w-1]`. Each access to an
atomic word and each critical section of the monitor is a step, so a
compare-and-swap is a load step (`LoadFront`, `LoadBack`, `AbortLoad`) and a
swap step (`CasFront`, `CasBack`, `AbortCAS`) that fails when the word changed,
and the decrement of `pendingSlices_` is a third (`SubtractSlice`,
`AbortSubtract`). `pc` is the position in `run()`, `executeJob()`, `getSlice()`,
`abortJob()` or `terminateWorkers()`; the waits carry spurious wakeups
(`SpuriousWakeup`). `ExecuteSlice` may fail, which makes the thread abort the
job. `runs` counts completed calls per slice.

Facts of the code that shaped the model: slices are submitted in multiples of
the number of threads (`ComputeNumSlices` in `builtin/Array.js`), so nothing is
left over in `executeJob()`; `AutoLockMonitor::notifyAll(condVar)` ignores its
argument (`vm/Monitor.h:113`); the number of workers may be zero. When the main
worker cannot be allocated nothing has been started, and the pool may be entered
or destroyed as before. When a later step of the start fails, `terminateWorkers()`
deletes `mainWorker_` and does not clear it (`vm/ThreadPool.cpp:486`); a pool that
is entered or destroyed after that touches freed memory, which has no outcome to
model, and the model stops there.

`ParallelJob` is the promise of `ThreadPool.h`: slices are claimed, finish, and
may be dropped only after a failure; the job returns when nothing is left.
`ImplementsParallelJob` maps the queues to the set of slices to do, the threads
that hold a slice to the active ones.

### GCHelperThread

The helper's `state`, its flags, the chunk pool (a sequence of chunks with ages),
the chunks in use, the queue of finalizable things, the `freeLater` buffers, and
three threads: the helper, the main thread as mutator and as collector (sessions,
slices, reset, sweep in background or foreground, last GC, `finish()`, whose
assertion is the invariant `FinishFindsHelperAtRest`), and one off-thread
allocator. A critical section of the GC lock is a step, and so is each
unlocked stretch of the helper. What the collector does without the lock is a
step of its own, so that `GCOwnsTheHeap` can say when that is safe.

Abstracted: arenas and free lists inside a chunk; decommitting (a stretch without
the lock); builds without helper threads; the embedder's GC callbacks.

### WorkerThreads

Worklists are sets, those of asm.js (whose jobs are alike) counters. A worker
(`workerPC`, `task`) takes a task in one critical section (`BeginIon`, ...) and
hands in the result in another (`EndIon`, ...), in the order of priority of
`threadLoop()`. A client (`clientPC`) is a compilation on the main thread or on
the worker of a parse task: it may start a compression, may claim the asm.js
compilation and dispatch functions, each of which may fail, and finally waits
for its compression. `mainPC` is the main thread: starting and cancelling
builders, starting and finishing parses, GC slices as far as they concern the
atoms zone, and `~JSRuntime()`. Waits on `CONSUMER` and `PRODUCER` are wait
states that the notifications of the code leave; each waiter tests its condition
again.

Abstracted: what is compiled; failing allocations inside the worklists and in
`init()`; that `AttachFinishedCompilations()` drops the lock while it links.
The model goes on after a failed `JS_ASSERT` as a release build does, so that
`workers_all` covers a scheduled atoms zone (`EarlySchedule`) too.

### KernelCalls and ParallelArray

`KernelCalls` is what `vm/ForkJoin.h` promises to self-hosted code: `call[s]` is
the call under way for slice *s* (warm-up, parallel, sequential), `complete` the
slices whose kernel has answered that it is done. Parallel calls overlap, each
may be given up half-way by a bailout, and its slice is then called again; warm-up
and sequential calls run alone; `ForkJoin()` succeeds only when every slice is
complete.

`ParallelArray` EXTENDS it by the operations of `builtin/Array.js`. `info` is the
`SLICE_START`, `SLICE_END` and `SLICE_POS` of each slice, `frame` the locals of
the call under way (lost when it is given up), and everything else outlives a
call: `buffer`, `sub` (subreductions, intermediates or local buffers),
`conflicts`, `counts`, `survivors`. The code between two calls of the user's
function is a step, and so is an `UnsafePutElements()`, which no bailout divides.
An element is the sequence of its index and the user's function is
concatenation: associative, not commutative, so that a lost, repeated or misplaced
element changes the result. `Sequential` is the definition by the sequential
fallback of each operation.

Abstracted: user functions that throw, which end the operation (the exceptions of
a scatter, for a conflict or an index out of bounds, are modelled); the modes of
assertion of the tests; the choice between the two
strategies of `scatterPar`, which are two kinds of operation here.

### ForkJoin

The main thread is `ForkJoinOperation`: `pc` walks through `apply()`, one step per
function of it; `worklist`, `data` and `index` are the walk of
`compileForParallelExecution()`; `code`, `baseline` and `uses` are what it sees of
a script. A warm-up or sequential call of the kernel is under way while `cur` is a
slice, and during it scripts are called, compiled and interrupted. The parallel
section (`pc = "job"`) is `ForkJoinShared`: each thread claims a slice, enters its
portion and is in the kernel (`at[t]`) until it answers, bails out, bails out
fatally, polls an interrupt or asks for a collection. A bailout happens in the
kernel or in a callee and blames that script unless its cause is an interrupt or
an illegal write; `blamed` is what the records of all threads say together, and
`Recover` invalidates and lists those of the scripts that still have code
(`Invalid`), besides the kernel. A collection that discards code (`MayDiscard`)
takes the parallel code of all scripts, the baseline code of those not running,
and the use counts. A section of the monitor is
a step; between two of them other threads run, so setting a bailout record, the
flags and leaving the job are steps of their own.

`setPendingAbortFatal()` stores `fatal_` without the lock: `BailOutFatally` lets a
thread that is in the middle of `setAbortFlag()` undo the store. The operation
then tries again instead of failing; `KernelCalls` allows both, so no property
tells the two outcomes apart.

Abstracted: types and the code itself (`code` is what the operation tests of it:
none, being compiled, finished by a helper but not attached, present); callees
have no call targets of their own; the flag `hasUncompiledCallTarget` is read only
by `enqueueInitialScript()`, at the start of an operation, where the model chooses
its value, so what sets it later (`link()`, `PropagateAbortPar()`) leaves no trace;
allocators of the workers; spew; write
guards. `getOrCreateScript()` is assumed not to fail: `enqueueInitialScript()`
then returns without having set `*status` (`vm/ForkJoin.cpp:682`), a value that
its caller returns. A GC inside the interrupt handler between the check that all
scripts are present and the loop that relies on it (`vm/ForkJoin.cpp:884`, an
assertion, in the modes for tests) is modelled as a release build goes on.

### IncrementalGC

The heap is a graph: each cell has one field, and one that points to another zone
makes the cell a cross-compartment wrapper, held by the map `wrappers`. `roots`
is what the program holds and `grayRoots` what the embedder holds. The program
acts between slices and while the helper thread finalizes: it reads, writes (with
`writeBarrierPre`), allocates, drops references, wraps (the map's read barrier),
cuts wrappers, and takes gray cells from the embedder (`ExposeGCThingToActiveJS`).
The collector schedules zones (`Collect`), begins or continues or resets a
collection (`BeginMark`, `Continue`, `Reset` are the branches of
`IncrementalCollectSlice` and `ResetIncrementalGC`), marks one cell or one arena
at a time (`MarkCell`, `MarkArena`), may give up after each (`Yield`), and sweeps
group after group (`FinishMarking`, `NextGroup`, `EndSweep`), the gray cells of a
group being marked when its turn comes. `mark` is white, gray or black as in the
mark bits.

`garbage` is history: the cells out of reach when the collection began that have
stayed so; a weak reference taken up (`Wrap`, `Nuke`) takes cells out of it.

Abstracted: an arena holds one cell, a zone one compartment; the strongly
connected components of `FindSCCs.h` are taken by their definition; the atoms
zone, weak maps and watchpoints, the nursery, exclusive threads, zeal modes, the
cycle collector's view (`gcGrayBitsValid`, `gcFoundBlackGrayEdges`), the repeat
that `gcPoke` asks for, and `allocatedDuringSweep`. `Reset` happens whenever it
likes: its reasons (options, barriers off, `keepAtoms`, zones scheduled
differently) belong to parts that are not modelled.

## 4. Runs

| run | instance | states | shows |
|---|---|---|---|
| `pool_jobs` | 2 workers, 1 slice each, 2 jobs; allocation of the main or first worker may fail; fair | 207 294 | the pool's invariants, the refinement of `ParallelJob`, that `executeJob()` returns and the pool terminates |
| `pool_partial_start` | the second worker cannot be allocated | | violation, see 6 |
| `pool_no_stealing` | stealing off | | violation, see 6 |
| `helper_all` | 3 chunks, 2 GC cycles, 1 shrink, 2 pointers in arrays of 1, fair | 1 638 523 | heap ownership, chunk accounting, no lost shrink, each pointer freed exactly once, `finish()` finds the helper at rest, waits return and the helper exits |
| `helper_oom` | 2 chunks, out-of-memory retry | | violation, see 6 |
| `workers_all` | 2 workers, 1 builder, 1 parse, 4 asm.js functions on 3 LifoAllocs, 2 compressions, 1 cancel, 1 GC slice (scheduled early or not), shutdown | 905 756 | cancellation, asm.js protocol, compression, no deadlock |
| `workers_live` | 2 workers, 1 builder, 2 parses that compress, 1 asm.js function, 1 GC slice, shutdown, fair | 165 670 | publication of parses, atoms GC; parses, callbacks, compilations, builders and shutdown complete |
| `workers_enqueue`, `workers_destroy` | 3 parses and 2 slices; 1 parse | | violations, see 6 |
| `array_ops` | 7 kinds of operation, lengths 0 to 9, chunks of 2, 1 and 2 workers with 2 slices each, all scatters of up to 3 elements over 1 or 2 places | 211 083 | every operation returns what its sequential fallback returns; what a call leaves behind is sound |
| `fork_join` | 1 worker, 2 slices, kernel and callee, modes normal, compile and recover, 2 attempts, 2 zones, 1 event from outside, fair; normal mode with one slice and with two, compile mode with two, recover mode with one | 579 932 | `KernelCalls` is implemented, GC requests are honoured, interrupts end the section, the walk over the worklist ends |
| `incremental_gc` | 2 zones of 2 cells, 4 heaps, 2 collections, 4 steps of the program | 2 744 366 | nothing reachable is freed, what the program can reach is marked before its zone is swept, garbage is freed |

Bounds. Two workers and the main thread are the smallest pool in which a thief
races with an owner, another thief and an abort; two jobs show a worker late for
the first. Two worker threads are the smallest number the engine uses
(`vm/Runtime.h:1811`) and the one nearest to deadlock: one parses, one is left
for the work it waits for. Four functions exceed the three LifoAllocs by one, so
one is reused. Three chunks are enough for an available chunk, a spare one that
ages or expires, and one being mapped; `MAX_EMPTY_CHUNK_AGE` (4), the minimum of
four chunks and `MAX_EMPTY_CHUNK_COUNT` (30) are constants, set to 1, 1 and 0 so
that their boundaries are reached. Two pointers fill one free buffer and need a
second. `CHUNK_SIZE` (32) and `SLICES_PER_WORKER` (8) are 2 and 2: slices of up to
three chunks with a short last one, warm-ups that stop inside a slice, and slices
of unequal length all occur. A worker and the main thread are enough for a
section in which one of them has left, has set its record and not the flag, or is
between reading and writing the flags; two attempts and a stall threshold of two
are one more than the least. The heaps of `incremental_gc` are the smallest in
which a chain, a cycle and a list cross zones, held gray, black or by nothing; two
collections let one be reset and repeated, and four steps of the program suffice
to take an edge away, store it elsewhere, drop it and expose a gray cell. Bounds on cycles, slices, cancels, shrinks
and pointers are named constants and appear only in the guards of the actions
that begin such an operation; ending one is never bounded. `incremental_gc` uses
the renamings that keep each cell in its zone; no run with a liveness property
uses symmetry.

Deadlock is checked by every run except `pool_partial_start`, where getting stuck
is what is shown, and `incremental_gc`, where the program may stop and the bounds
run out; a runtime, pool or operation that has ended stutters explicitly.

### Fairness

Weak fairness of each thread's steps: the operating system schedules every
runnable thread, and no step modelled is guarded by something that comes and
goes (a thread woken stays at the top of its wait loop until it runs). It
includes that a slice, a compilation, a parse or a compression ends. For the main
thread only the steps that it takes without a choice of the program are fair.
`workers_live` also assumes that the embedder finishes an incremental GC
it began (`GCFinish`), as slices are driven by its timers; nothing is assumed of
starting a GC, a job, a cancellation or the destruction.

`fork_join`: the main thread, the helpers and the threads of the pool are
scheduled; a warm-up call returns. Nothing is assumed of the kernel in parallel
but that compiled code comes to a poll again and again whatever it does in
between (the compiler puts one at every loop head and function entry): strong
fairness of `Check`, weak fairness would be lost each time the kernel asks for a
collection.

## 5. Proofs

`ThreadPoolProofs` proves, for every number of workers, slices and jobs, and for
every set of failing allocations and starts, with work stealing on (the default;
without it the property about returning is false, see `pool_no_stealing`):

| theorem | states |
|---|---|
| `Invariant` | `Spec => []IInv` |
| `TypeCorrect` | every variable keeps its type |
| `SlicesRunOnce` | no slice is run twice |
| `JobOverOnReturn` | the job is over when `executeJob()` returns |
| `JobIsCurrent` | no worker uses a stale job |
| `PendingSlicesExact`, `ActiveWorkersExact` | the two counters are exact |
| `Refinement` | the pool implements `ParallelJob` |

They rest on `PoolAssumption` (the types of the constants) and on the stated
hypothesis. The inductive invariant `IInv` has eleven parts. That a slice runs
once is not inductive: it needs that the queues of two threads are disjoint and
disjoint from the slices threads hold (`PlaceInv`), which a successful
compare-and-swap keeps only because the bounds it saw still equal the queue's, so
that it removes just the slice that the thread takes. That a job is over on
return needs that no slice is lost (`CoverInv`), that `pendingSlices_` counts
what is queued or claimed and not subtracted (`PendingInv`, an argument about
cardinalities), so that the main thread leaves its loop only when the queues are
empty, and that `activeWorkers_` counts the threads inside (`CountInv`), so that
it waits for the last callback. `LifeInv`, `QuietInv`, `AbortInv` and `JobInv`
say what is true before, between and after jobs, during an abort, and of the job
pointer. `pool_jobs` checks the properties, not `IInv` itself: that it is inductive
is what the proof shows. Lemmas `CasIsPop`,
`AbortCasIsDrop`, `SubtractIsRetire` describe the effect of the atomic steps once
and are used for several parts; `RefinementStep` maps each step to a step of
`ParallelJob` or to a stutter.

`ForkJoinProofs` proves, for every number of workers, slices, zones and callees,
every mode, and every value of `MAX_BAILOUTS` and `stallThreshold`:

| theorem | states |
|---|---|
| `Invariant` | `Spec => []IInv` |
| `TypeCorrect` | types; at most `MAX_BAILOUTS` attempts; warm-ups of existing slices only |
| `RequestsAreHonoured` | what a slice asked to collect is scheduled when its section ends |
| `Refinement` | `ForkJoin()` implements `KernelCalls` |

They rest on `ForkJoinAssumption`. `IInv` has seven parts: `TypeOK`; `ControlInv`,
an attempt is under way only while bailouts are left; `CallInv`, a call on the
main thread is of the slice at `warmupSlice` and all slices before it are
complete, which is why warm-ups past the last slice may end the operation;
`QuietInv`, outside of a section nothing of one is left, which makes warm-up and
sequential calls run alone; `PlaceInv`, a slice is to do or with one thread, so
that no slice is called twice at once; `CoverInv`, a slice neither complete nor to
do nor with a thread has been given up, and then the section is aborted; and
`RequestInv`. `CoverInv` is the heart of it: when all threads are out and nothing
is to do, a section that is not aborted has completed every slice. It is
inductive only because a thread sets the flag before it drops the slices to do
(`setAbortFlag()` before `abortJob()`). For the refinement, each group of actions
(preparing, on the main thread, at the ends of a section, in a thread, outside)
is shown to begin, return, bail out of or throw from the call of one slice, to end
the operation, or to stutter; the lemmas `GoesOn` and `Ends` carry the two common
cases.

`GCHelperThreadProofs` proves, for every set of chunks, every `MAX_EMPTY_CHUNK_AGE`
and `MAX_EMPTY_CHUNK_COUNT`, every `FREE_ARRAY_LENGTH`, any number of collections,
shrinks and pointers, and with or without background allocation:

| theorem | states |
|---|---|
| `Invariant` | `Spec => []IInv` |
| `TypeCorrect` | types; no chunk of the pool outlives its age |
| `HeapIsOwned` | the collector uses chunks and buffers only while nobody else does |
| `FinishIsQuiet` | `finish()` does not find the helper allocating |
| `SweepIsOver` | who has waited for the helper finds its queues empty |
| `ChunksAccounted` | a mapped chunk is in exactly one place |
| `FreedOnce` | what is passed to `freeLater()` is freed exactly once |
| `NoLeak` | destroying the runtime leaves nothing mapped and nothing unfreed |
| `ShrinkIsHonoured` | a shrink that was accepted empties the pool before the sweep ends |

They rest on `HelperAssumption`; the set of chunks is finite, as addresses are.
`IInv` is `TypeOK` and, in the order in which they lean on each other:
`ControlInv`, where the threads are (the helper's position agrees with its state,
nobody gives it work during a session past the wait, the last collection leaves it
idle); `QueueInv`, what waits in the helper's queues, as far as it has come in
`doSweep()`; `ShrinkInv`, an accepted request is remembered by `shrinkFlag` or by
the empty pool; `PlaceInv` and `HandInv`, where each chunk is and that a thread
holds chunks only between two sections of the lock; `FreeInv`, where each pointer
is, with the arrays that wait full and the current one no longer than an array;
`EndInv`, that the last step releases the chunks. `HeapIsOwned` is `ControlInv`
alone. It is not inductive by itself: that the helper stays idle depends on
`AutoTraceSession` keeping the off-thread allocator out from before the wait, or
`PickChunk` could start a background allocation behind it. The lemmas `PoolPut`,
`PoolGet` and `PoolExpire` say once what the three operations of the pool do to
the set of its chunks; `PoolExpire` is why `expire()` neither drops nor repeats a
chunk however many leave. The step lemmas have one case for each action.

`WorkerThreadsProofs` proves, for any number of threads, builders, scripts and
asm.js functions, and for every choice of the scripts that compress:

| theorem | states |
|---|---|
| `Invariant` | `Spec => []IInv` |
| `TypeCorrect` | types; the counters of asm.js stay within the functions of a module |
| `Cancellation` | nothing is left of a builder when its cancellation returns |
| `CompressionEnds` | nobody refers to a compression task whose compilation is over |
| `OutstandingJobs`, `Lifos` | `outstandingJobs` is exact; no more LifoAllocs in use than made |
| `Tokens` | a token whose callback was called is in the finished list until collected |
| `AtomsGC` | no script is parsed while the atoms are collected |
| `NoLostWakeup` | nobody waits for work while all workers sleep or have ended |

They rest on `WorkerAssumption` and on `NoTaskIsNoClient`, that a null task is no
compilation. `IInv` has the types, one part per protocol, and the accounts of
asm.js. `CancelInv` is why the search for a running builder may stop at each
thread once: the worklist is free of targets before the loop begins, so a thread
already passed cannot take one up. `OwnerInv` says that the claim on parallel
compilation is with the one compilation that is between claiming and releasing it,
which makes `CountInv` (functions queued, running, finished and failed add up to
`outstandingJobs`) a statement about one compilation although several may want the
claim. `Lifos` follows from `LifoInv` with the task that is kept for reuse
counted. `NoLostWakeup` needs more (`LiveInv`): `IdleInv`, that a worker looks
through all worklists, in the critical section in which it goes to sleep, and that
each addition wakes one; `ReuseInv`, what a compilation that waits for a function
has still to get; `ConsumerInv`, that what a waiter waits for is on a list or with
a worker; `ExitInv`, where `~JSRuntime()` is. It shows the part of liveness that is
a state predicate; that the workers then do their work is left to `workers_live`.
That cardinalities of sets of workers go up and down by one is `RunningIsFinite`
and the lemmas after it.

`IncrementalGCProofs` proves, for every number of zones and cells, all heaps to
begin with, and any number of collections and steps of the program:

| theorem | states |
|---|---|
| `Invariant` | `Spec => []IInv` |
| `TypeCorrect` | types; what the collector keeps lists of is allocated |
| `Reachable` | nothing that can be reached is freed or queued to be freed |
| `Snapshot` | what the program can reach in a zone being marked is or will be black |
| `Garbage` | what was garbage when a collection began is gone when it ends |

They rest on `GCAssumption`: finitely many cells and zones, and initial heaps
without dangling pointers. Reachability is a function defined by recursion, of which the
provers know nothing. `FollowIsLeastClosed` shows once that its value is the least
set that holds the start and is closed under the fields: the iterates grow, cannot
grow for ever in a finite set, and stay as they are once they stop (`Saturation`,
with the least number principle in place of induction). `LeadsIsLeastClosed` does
the same for the zones along wrappers, and gives `GroupsPartition`, that each zone
being collected is in one group.

The obvious invariant, that what is reachable will be marked, is not inductive: the
program can come to a cell by a path of gray cells, which are not marked yet when
their zone's turn has not come, or not again when it has. `SafeInv` asks instead
for some set of cells that is closed under the fields, holds the roots and all
cells outside the zones being marked except the gray ones of zones already swept,
and meets the zones being marked only in cells that are black or will be
(`Blackened`: those that marking will find from the stack, the arenas allocated
meanwhile and the wrappers that the program has exposed). A step of the program
preserves it by extending the set by what the step hands out, which `SafelyExtends`
states and one lemma per action shows; that `Blackened` only grows is
`OnwardKeepsBlackened`, the barriers at work. `GrayInv` and `OrderInv` are for what
is gray: a gray cell whose zone was swept before the zone of its target is on the
list of that zone (`gcIncomingGrayPointers`), and no white cell leads back to a
group swept before its own, for which the order of `FindZoneGroups()` is needed.
`SweepKept` then shows that what a group leaves white is reached from nothing that
is kept. `GarbageInv` gives `Garbage` by induction over the steps: no marked cell
leads to a cell that was out of reach. `Control`, `GroupInv`, `ListInv` and
`KeptInv` say which phases leave what empty, of which zones and colors the lists
are, and that kept cells lead to kept cells. TLC found all parts of `IInv` to hold
on the instance of `incremental_gc` before they were proved.

`ParallelArrayProofs` proves, for every chunk size, number of workers and slices
per worker, every bound on the length, and every set of operations with arguments
of the right types:

| theorem | states |
|---|---|
| `Invariant` | `Spec => []IInv` |
| `TypeCorrect` | types; buffers are total, calls work inside their slices |
| `Checkpoints` | what a call leaves behind is right whenever it can be given up |
| `Result` | an operation returns what its sequential fallback returns, or throws as it does |

They rest on `ArrayAssumption` and `KernelAssumption`. The proof has three layers.
`Numbers` derives from `<` being well founded on the natural numbers what the
provers lack: induction for a set and over an interval, and that a function defined
by recursion over an interval exists (`Recursion`), so that its equations may be
used. `ParallelArrayLemmas` says what the operators of the model
compute: `ReductionOfRuns`, that reducing adjacent runs gives the run of all of
them; `AllSliceBounds` and `OneSliceBounds`, that the two ways of dividing items
into slices agree and leave no gap; `ChunkEnds`, that chunks cover the elements;
`Ranks`, how the survivors of a filter are numbered; `SequentialScatter`, when the
sequential scatter throws and what each of its turns places.

`IInv` is then `Types`; `Control`, when calls can be under way; `Arrays`, over
which indices the buffers range; `Positions`, where `SLICE_POS` of each slice is and
that a complete slice has reached its end; `Frames`, how the locals of a call relate
to its slice; `Data`, what each slice has done; `Errors`, that an exception leaves
the operation only if the sequential code throws; and the property itself. `Data` is
stronger than the checkpoints, which say nothing between two chunks: it relates
the accumulator, the bits and the count in a call's frame to the element reached,
it says where a survivor has been copied (`CopyInv`), and it states for each
slice of a scatter how its part of the output, or its own buffer, relates to the
sequential loop after as many elements (`RangeInv`, `VectorInv`). The step lemmas
come in two groups for each kernel: what its work does to its own slice, and why it
leaves the others alone (`OtherSlice`, `SlicesDisjoint`, `OutputParts`, `CopyPlace`).
When `ForkJoin()` is over, `WhenDone` has every slice at its end, and one lemma for
each kind (`MapResult` to `VectorResult`) composes the slices: runs adjoin
(`SlicesAdjoin`), ranks number the survivors, and the merge of the local buffers is
an induction over the slices (`FirstMerged`, `NextMerged`). That the sum of the counts
places a survivor by its rank needs that a filter's slice has counted all its
chunks before the second phase begins. TLC found all parts of `IInv` to hold on
the instance of `array_ops`.

Every invariant and every action property that a passing run checks is a theorem.
Only model-checked are the liveness properties, as liveness under fairness and
`ENABLED` are out of the provers' reach: `JobReturns`, `PoolTerminates`,
`WaitsReturn`, `SectionEnds`, `WalkEnds`, and of `workers_live`
`CallbackIsInvoked`, `CompilationEnds`, `BuildersFinish` and `DestructionEnds`. The
runs that expect a violation are counterexamples, with nothing to prove.

## 6. Disagreements between the code and what it says

* `pool_partial_start`: `lazyStartWorkers()` says that on failure all partially
  started threads are terminated and the workers array is empty
  (`vm/ThreadPool.cpp:418`). `terminateWorkers()` waits for every allocated
  worker, those included that were never started, and hangs.
* `pool_no_stealing`: with stealing off, `executeJob()` can return success before
  a worker has woken for the job, its slices unexecuted, against
  `ThreadPool.h:63` and the comment at `vm/ThreadPool.cpp:565`.
* `helper_oom`: `onOutOfMemory()` promises a retry with the empty chunks released
  (`vm/Runtime.cpp:816`). A request to shrink is dropped while the helper
  allocates in the background, and the chunk it was mapping goes to the pool.
* `workers_enqueue`: `EnqueuePendingParseTasksAfterGC()` asserts an empty parse
  worklist. The atoms zone counts as being collected as soon as it is scheduled
  (`vm/Runtime.cpp:836`), so a parse may be pending from before and another wait.
* `workers_destroy`: `WaitForOffThreadParsingToFinish()` blocks "until in progress
  and pending off thread parse jobs have finished" (`jsworkers.h:248`) but ignores
  those held back by a GC; `~JSRuntime()` then ends with a zone in use by an
  exclusive thread, which it asserts against (`vm/Runtime.cpp:499`). It takes a
  context destroyed without a GC (`JS_DestroyContextNoGC`). In the other runs the
  embedder destroys the runtime only when no parse is held back
  (`DestroyAnytime = FALSE`).

An observation without a run. `ShouldMarkCrossCompartment()` asserts, for a black
wrapper, that the zone of a gray target is not being collected
(`gc/Marking.cpp:682`). It holds in `incremental_gc`. With a third cell in a zone
TLC finds a way to break it: `wrap()` hands out a gray wrapper of a swept zone
through a read barrier that works only in zones being marked and turns nothing
black (`jscompartment.cpp:417`, `gc/Barrier.h:192`), and a black cell can then be
made to lead to it. `SnapshotIsMarked` says what does hold: no cell of a zone being
marked is missed that way.

## 7. Not modelled

* Failing allocations of the worker threads' bookkeeping:
  `WorkerThreadState::init()`, whose clean-up destroys threads that were never
  started, and appends to `asmJSFinishedList`, `parseFinishedList` and the
  worklists (`jsworkers.cpp:418`, `:747`).
* Arenas: `DecommitArenas` and its place in the chunk list across a dropped lock
  (`jsgc.cpp:2265`), `refillFreeList()` against background finalization
  (`jsgc.cpp:1690`), `gcNumArenasFreeCommitted`. A chunk has no arenas in
  `GCHelperThread` and an arena one cell in `IncrementalGC`.
* The nursery and store buffer (not in the default build), weak maps and
  watchpoints, the atoms zone's marking, the cycle collector's view of gray bits.
* In ForkJoin: write guards of the target region, the workers' allocators and
  their adoption, failure to create a script. The order of the pool's slices
  inside a section is that of any pool that implements `ParallelJob`.
* `OrderedHashTable`: `Range`s that survive removal, clear and rehash. A
  sequential data structure, next in the plan.
* The debugger, SPS, shapes, the frontend, the interpreter, type inference, the
  JITs, YARR, structured clone, ctypes and the rest of the standard library:
  sequential functions of programs and values. A model of them would be the
  program again; what is concurrent about them (off-thread compilation, parsing
  and the interrupt) is in `WorkerThreads` and `ForkJoin`.

Nearly everything modelled is C++: `vm/`, `jsgc.cpp`, `gc/`, `jsworkers.cpp`,
`jit/AsmJS.cpp`. Of the JavaScript in the tree, the engine's own is `builtin/*.js`,
and of that the parallel array operations of `builtin/Array.js` are modelled in
full; `Intl.js`, `TypedObject.js` and the other self-hosted builtins are sequential
functions over values. All other `.js` files (`v8/`, `devtools/jint/`, `jit-test/`,
`tests/`) are benchmarks and tests: programs that the engine runs, not parts of it.

The hazards these parts carry are in `PROJECT.json` with the reason.
