---------------------------- MODULE GCHelperThread ----------------------------
(***************************************************************************)
(* The GC helper thread of jsgc.{h,cpp}, the pool of empty chunks it       *)
(* refills and drains, the buffers of pointers it frees, and the two kinds *)
(* of threads it works for: the main thread, as mutator and as collector,  *)
(* and one off-thread allocator (a parse task with an exclusive context).  *)
(*                                                                         *)
(* A critical section of gcLock is one step.  So is every unlocked stretch *)
(* of the helper (allocating a chunk, unmapping a list of chunks, sweeping *)
(* one thing, freeing one array), and every call the collector makes on a  *)
(* chunk or on the buffers WITHOUT the lock, which it holds to be safe     *)
(* because it has waited for the helper: GCOwnsTheHeap below.              *)
(*                                                                         *)
(* Arenas are left out: an available chunk list is only what is NOT in the *)
(* pool, and decommitting arenas is a stretch during which the helper      *)
(* gives the lock up without touching what is modelled.                    *)
(***************************************************************************)
EXTENDS Integers, FiniteSets, Sequences

CONSTANTS
    Chunk,              \* addresses the system can map a chunk at
    MinChunks,          \* 4 in wantBackgroundAllocation()
    MaxEmptyChunkAge,   \* MAX_EMPTY_CHUNK_AGE, 4
    MaxEmptyChunkCount, \* MAX_EMPTY_CHUNK_COUNT, 30
    FreeArrayLength,    \* FREE_ARRAY_LENGTH
    canBackgroundAllocate, \* backgroundAllocation: two processors or more
    MaxPointers,        \* bound: calls of freeLater()
    MaxCycles,          \* bound: GC cycles the mutator or gcPoke asks for
    MaxShrinks          \* bound: calls of ShrinkGCBuffers()

ASSUME HelperAssumption ==
    /\ IsFiniteSet(Chunk)
    /\ {MinChunks, MaxEmptyChunkAge, MaxEmptyChunkCount} \subseteq Nat
    /\ FreeArrayLength \in Nat \ {0}
    /\ canBackgroundAllocate \in BOOLEAN
    /\ {MaxPointers, MaxCycles, MaxShrinks} \subseteq Nat

VARIABLES
    state,          \* GCHelperThread::state
    sweepFlag, shrinkFlag,
    helperPC,       \* where the helper thread is
    fresh,          \* helper's local: the chunk just allocated, {} for nullptr
    pool,           \* gcChunkPool: empty chunks with their ages, head first
    chunkSet,       \* gcChunkSet: chunks with arenas in use
    arenaListsToSweep, \* chunks that hold an arena queued for the background sweep
    toFree,         \* per thread: chunks expired and not yet unmapped
    mapped,         \* addresses that are mapped
    freeArray,      \* [freeCursorEnd - FREE_ARRAY_LENGTH, freeCursor)
    freeVector,     \* the full arrays
    heapState, gcIncrementalState, gcSweepOnBackgroundThread, gcSweepingZones,
    mainPC,         \* where the main thread is
    after,          \* where it goes when the wait it is in returns
    incremental, gckind, wasReset,    \* main thread's locals in Collect()
    offPC,          \* the off-thread allocator; "in" holds the worker lock
    queued, freed,  \* history: pointers passed to freeLater(), freed
    cycles, shrinks, \* history: for the bounds
    shrinkAsked     \* history: a shrink was accepted and is not over

helperVars == <<state, sweepFlag, shrinkFlag>>
chunkVars == <<pool, chunkSet, arenaListsToSweep, toFree, mapped>>
freeVars == <<freeArray, freeVector, queued, freed>>
gcVars == <<heapState, gcIncrementalState, gcSweepOnBackgroundThread, gcSweepingZones>>
collectVars == <<incremental, gckind, wasReset, cycles>>
vars == <<helperVars, helperPC, fresh, chunkVars, freeVars, gcVars, mainPC,
          after, collectVars, offPC, shrinks, shrinkAsked>>

Pointer == 1..MaxPointers
State == {"IDLE", "SWEEPING", "ALLOCATING", "CANCEL_ALLOCATION", "SHUTDOWN"}
Thread == {"main", "helper"}
PooledChunk == [chunk : Chunk, age : 0..MaxEmptyChunkAge]
InPool == {pool[i].chunk : i \in DOMAIN pool}
Elements(array) == {array[i] : i \in DOMAIN array}
Buffered == Elements(freeArray) \cup UNION {Elements(freeVector[i]) : i \in DOMAIN freeVector}

\* Positions of the helper inside doSweep().
ExpirePC == {"expire", "free", "recheck", "shrinkFree", "decommit"}
HelperPC == {"top", "wakeupWait", "sweep", "freeArray", "freeVector",
             "allocate", "put", "exited"} \cup ExpirePC
\* Positions of the main thread: in a wait, and collecting past its wait.
WaitPC == {"sweepTest", "sweepWait", "allEnter", "allTest", "allWait"}
GCPC == {"cycle", "resetSweep", "slice", "fgFree", "fgSweep"}
MainPC == {"running", "retry", "collect", "endSession", "finish", "join", "ended"}
              \cup WaitPC \cup GCPC

Init ==
    /\ state = "IDLE"
    /\ sweepFlag = FALSE /\ shrinkFlag = FALSE
    /\ helperPC = "top"
    /\ fresh = {}
    /\ pool = <<>>
    /\ chunkSet = {} /\ arenaListsToSweep = {}
    /\ toFree = [t \in Thread |-> {}]
    /\ mapped = {}
    /\ freeArray = <<>> /\ freeVector = <<>>
    /\ heapState = "Idle"
    /\ gcIncrementalState = "NO_INCREMENTAL"
    /\ gcSweepOnBackgroundThread = FALSE
    /\ gcSweepingZones = "null"
    /\ mainPC = "running"
    /\ after = "running"
    /\ incremental = FALSE /\ gckind = "GC_NORMAL" /\ wasReset = FALSE
    /\ offPC = "out"
    /\ queued = {} /\ freed = {}
    /\ cycles = 0 /\ shrinks = 0
    /\ shrinkAsked = FALSE

isHeapBusy == heapState # "Idle"
sweeping == state = "SWEEPING"
emptyCount == Len(pool)

\* PR_NotifyCondVar(wakeup) and PR_NotifyAllCondVar(done): the thread that is
\* waiting goes back to the test of its loop.
NotifyWakeup == helperPC' = IF helperPC = "wakeupWait" THEN "top" ELSE helperPC
NotifyDone ==
    mainPC' = CASE mainPC = "sweepWait" -> "sweepTest"
                [] mainPC = "allWait" -> "allTest"
                [] OTHER -> mainPC

-----------------------------------------------------------------------------
(* ChunkPool. *)

wantBackgroundAllocation(empty) ==
    /\ canBackgroundAllocate
    /\ empty = 0
    /\ Cardinality(chunkSet) >= MinChunks

Put(c) == <<[chunk |-> c, age |-> 0]>> \o pool

\* The index of the first chunk expire() counts is 0, and a chunk that is too
\* old is not counted.
Counted(i) == Cardinality({j \in 1..(i - 1) : pool[j].age # MaxEmptyChunkAge})
\* Mutant: a chunk does not expire because of its age.
Expires_ageless(releaseAll, i) == releaseAll \/ Counted(i) > MaxEmptyChunkCount

Expires(releaseAll, i) ==
    \/ releaseAll
    \/ pool[i].age = MaxEmptyChunkAge
    \/ Counted(i) > MaxEmptyChunkCount

\* A set of positions in ascending order.
Ascending(S) ==
    {f \in [1..Cardinality(S) -> S] :
        /\ S = {f[i] : i \in DOMAIN f}
        /\ \A i, j \in DOMAIN f : i < j => f[i] < f[j]}

\* expire(releaseAll): thread t gets the chunks that leave the pool, the
\* others keep their order and grow older.
Expire(t, releaseAll) ==
    LET out == {i \in DOMAIN pool : Expires(releaseAll, i)}
    IN  /\ toFree' = [toFree EXCEPT ![t] = {pool[i].chunk : i \in out}]
        /\ \E kept \in Ascending(DOMAIN pool \ out) :
              pool' = [i \in DOMAIN kept |-> [pool[kept[i]] EXCEPT !.age = @ + 1]]
        /\ UNCHANGED <<chunkSet, arenaListsToSweep, mapped>>

\* FreeChunkList(), outside the lock.
FreeChunkList(t) ==
    /\ mapped' = mapped \ toFree[t]
    /\ toFree' = [toFree EXCEPT ![t] = {}]
    /\ UNCHANGED <<pool, chunkSet, arenaListsToSweep>>

startBackgroundAllocationIfIdle ==
    IF state = "IDLE"
    THEN state' = "ALLOCATING" /\ NotifyWakeup
    ELSE UNCHANGED <<state, helperPC>>

\* get(): an empty chunk if the pool has one, else a new one.  Whether more
\* are wanted is decided before the caller adds the chunk to gcChunkSet.
Get(c) ==
    /\ IF pool # <<>>
       THEN c = Head(pool).chunk /\ pool' = Tail(pool)
       ELSE c \notin mapped /\ UNCHANGED pool
    /\ IF wantBackgroundAllocation(Len(pool'))
       THEN startBackgroundAllocationIfIdle
       ELSE UNCHANGED <<state, helperPC>>

\* PickChunk() when no chunk is on the available list.  Adding the chunk to
\* gcChunkSet may run out of memory: the chunk is unmapped again.
PickChunk ==
    /\ \E c \in Chunk :
          /\ Get(c)
          /\ \/ chunkSet' = chunkSet \cup {c} /\ mapped' = mapped \cup {c}
             \/ UNCHANGED chunkSet /\ mapped' = mapped \ {c}
    /\ UNCHANGED <<sweepFlag, shrinkFlag, fresh, arenaListsToSweep, toFree>>

\* Chunk::releaseArena() of the last arena in use in chunk c.
ReleaseChunk(c) ==
    /\ chunkSet' = chunkSet \ {c}
    /\ pool' = Put(c)
    /\ UNCHANGED <<toFree, mapped>>

\* backgroundFinalize() of the arenas of chunk c, which may still have others.
BackgroundFinalize(c) ==
    /\ arenaListsToSweep' = arenaListsToSweep \ {c}
    /\ \/ ReleaseChunk(c)
       \/ UNCHANGED <<pool, chunkSet, toFree, mapped>>

-----------------------------------------------------------------------------
(* The buffers of pointers to free. *)

\* Mutant: the full array is dropped when freeVector cannot grow.
replenishAndFreeLater_lost(ptr) ==
    \/ freeArray' = <<ptr>> /\ UNCHANGED <<freeVector, freed>>
    \/ /\ freeArray # <<>>
       /\ freeVector' = Append(freeVector, freeArray)
       /\ freeArray' = <<ptr>> /\ UNCHANGED freed

\* replenishAndFreeLater(): the current array is full, or there is none.
\* Either allocation may fail; the pointer is then freed at once.
replenishAndFreeLater(ptr) ==
    \/ freeArray # <<>> /\ freed' = freed \cup {ptr}
          /\ UNCHANGED <<freeArray, freeVector>>
    \/ /\ freeVector' = IF freeArray = <<>> THEN freeVector ELSE Append(freeVector, freeArray)
       /\ \/ freeArray' = <<>> /\ freed' = freed \cup {ptr}
          \/ freeArray' = <<ptr>> /\ UNCHANGED freed

\* FreeOp::free_() of the collector: freeLater() if it sweeps in the background.
FreeLater ==
    /\ gcSweepOnBackgroundThread
    /\ \E ptr \in Pointer :
          /\ \A q \in Pointer : q \in queued <=> q < ptr
          /\ queued' = queued \cup {ptr}
          /\ IF Len(freeArray) \in 1..(FreeArrayLength - 1)
             THEN freeArray' = Append(freeArray, ptr) /\ UNCHANGED <<freeVector, freed>>
             ELSE replenishAndFreeLater(ptr)

-----------------------------------------------------------------------------
(* The helper thread: threadLoop() and doSweep(). *)

HelperUnchanged == UNCHANGED <<gcVars, after, collectVars, offPC, shrinks, queued>>

\* The switch at the top of the loop, up to the first unlock or wait.
LoopTop ==
    /\ helperPC = "top"
    /\ \/ /\ state = "SHUTDOWN"
          /\ helperPC' = "exited"
          /\ UNCHANGED <<helperVars, mainPC>>
       \/ /\ state = "IDLE"
          /\ helperPC' = "wakeupWait"
          /\ UNCHANGED <<helperVars, mainPC>>
       \/ /\ state = "SWEEPING"
          /\ helperPC' = IF sweepFlag THEN "sweep" ELSE "expire"
          /\ sweepFlag' = FALSE
          /\ UNCHANGED <<state, shrinkFlag, mainPC>>
       \/ /\ state = "ALLOCATING"
          /\ helperPC' = "allocate"
          /\ UNCHANGED <<helperVars, mainPC>>
       \/ /\ state = "CANCEL_ALLOCATION"
          /\ state' = "IDLE"
          /\ NotifyDone
          /\ UNCHANGED <<sweepFlag, shrinkFlag, helperPC>>
    /\ UNCHANGED <<fresh, chunkVars, freeArray, freeVector, freed, shrinkAsked>>
    /\ HelperUnchanged

\* SweepBackgroundThings(), unlocked but for the end of each list and the
\* release of an arena (which takes the lock as sweeping() is true).
HelperFinalize ==
    /\ helperPC = "sweep"
    /\ \E c \in arenaListsToSweep : BackgroundFinalize(c)
    /\ UNCHANGED <<helperVars, helperPC, fresh, mainPC, freeArray, freeVector,
                   freed, shrinkAsked>>
    /\ HelperUnchanged

HelperSweepDone ==
    /\ helperPC = "sweep"
    /\ arenaListsToSweep = {}
    /\ gcSweepingZones' = "null"
    /\ helperPC' = "freeArray"
    /\ UNCHANGED <<helperVars, fresh, chunkVars, freeVars, mainPC, after,
                   collectVars, offPC, shrinks, shrinkAsked, heapState,
                   gcIncrementalState, gcSweepOnBackgroundThread>>

\* The rest of the unlocked part of doSweep().
FreeCurrentArray ==
    /\ helperPC = "freeArray"
    /\ freed' = freed \cup Elements(freeArray)
    /\ freeArray' = <<>>
    /\ helperPC' = "freeVector"
    /\ UNCHANGED <<helperVars, fresh, chunkVars, freeVector, mainPC, shrinkAsked>>
    /\ HelperUnchanged

FreeFullArrays ==
    /\ helperPC = "freeVector"
    /\ freed' = freed \cup UNION {Elements(freeVector[i]) : i \in DOMAIN freeVector}
    /\ freeVector' = <<>>
    /\ helperPC' = "expire"
    /\ UNCHANGED <<helperVars, fresh, chunkVars, freeArray, mainPC, shrinkAsked>>
    /\ HelperUnchanged

\* ExpireChunksAndArenas() up to its unlock, if there is a chunk to free.
HelperExpire ==
    /\ helperPC = "expire"
    /\ Expire("helper", shrinkFlag)
    /\ helperPC' = CASE toFree'["helper"] # {} -> IF shrinkFlag THEN "shrinkFree" ELSE "free"
                     [] OTHER -> IF shrinkFlag THEN "decommit" ELSE "recheck"
    /\ UNCHANGED <<helperVars, fresh, freeArray, freeVector, freed, mainPC, shrinkAsked>>
    /\ HelperUnchanged

HelperFree ==
    /\ helperPC \in {"free", "shrinkFree"}
    /\ FreeChunkList("helper")
    /\ helperPC' = IF helperPC = "free" THEN "recheck" ELSE "decommit"
    /\ UNCHANGED <<helperVars, fresh, freeArray, freeVector, freed, mainPC, shrinkAsked>>
    /\ HelperUnchanged

\* Mutant: nobody is told that the sweep is over.
EndSweeping_silent ==
    /\ state' = IF sweeping THEN "IDLE" ELSE state
    /\ helperPC' = "top"
    /\ shrinkAsked' = FALSE
    /\ UNCHANGED mainPC

\* Back in threadLoop() with the lock held since the last expire.
EndSweeping ==
    /\ state' = IF sweeping THEN "IDLE" ELSE state
    /\ NotifyDone
    /\ helperPC' = "top"
    /\ shrinkAsked' = FALSE

\* Mutant: a request made during the first expire is not looked at.
HelperRecheck_once ==
    /\ helperPC = "recheck"
    /\ EndSweeping
    /\ UNCHANGED <<sweepFlag, shrinkFlag, fresh, chunkVars, freeArray, freeVector, freed>>
    /\ HelperUnchanged

\* ShrinkGCBuffers() may have been called while the lock was given up.
HelperRecheck ==
    /\ helperPC = "recheck"
    /\ IF shrinkFlag
       THEN /\ shrinkFlag' = FALSE
            /\ Expire("helper", TRUE)
            /\ helperPC' = IF toFree'["helper"] # {} THEN "shrinkFree" ELSE "decommit"
            /\ UNCHANGED <<state, mainPC, shrinkAsked>>
       ELSE EndSweeping /\ UNCHANGED <<shrinkFlag, chunkVars>>
    /\ UNCHANGED <<sweepFlag, fresh, freeArray, freeVector, freed>>
    /\ HelperUnchanged

\* The end of DecommitArenas().
HelperDecommitted ==
    /\ helperPC = "decommit"
    /\ EndSweeping
    /\ UNCHANGED <<sweepFlag, shrinkFlag, fresh, chunkVars, freeArray, freeVector, freed>>
    /\ HelperUnchanged

\* Chunk::allocate(), unlocked; it fails when the address space is full.
HelperAllocate ==
    /\ helperPC = "allocate"
    /\ \/ \E c \in Chunk \ mapped : fresh' = {c} /\ mapped' = mapped \cup {c}
       \/ mapped = Chunk /\ fresh' = {} /\ UNCHANGED mapped
    /\ helperPC' = "put"
    /\ UNCHANGED <<helperVars, pool, chunkSet, arenaListsToSweep, toFree, freeArray, freeVector,
                   freed, mainPC, shrinkAsked>>
    /\ HelperUnchanged

\* Mutant: the chunk is forgotten when the allocation was cancelled.
HelperPut_cancelled ==
    /\ helperPC = "put"
    /\ IF state = "ALLOCATING"
       THEN \E c \in fresh : pool' = Put(c) /\ state' = "IDLE"
       ELSE UNCHANGED <<pool, state>>
    /\ fresh' = {}
    /\ helperPC' = "top"
    /\ UNCHANGED <<sweepFlag, shrinkFlag, chunkSet, arenaListsToSweep, toFree, mapped,
                   freeArray, freeVector, freed, mainPC, shrinkAsked>>
    /\ HelperUnchanged

\* The end of an iteration of the do loop, and what follows the loop.
HelperPut ==
    /\ helperPC = "put"
    /\ \/ fresh = {} /\ UNCHANGED pool
       \/ \E c \in fresh : pool' = Put(c)
    /\ fresh' = {}
    /\ IF fresh # {} /\ state = "ALLOCATING" /\ wantBackgroundAllocation(Len(pool'))
       THEN helperPC' = "allocate" /\ UNCHANGED state
       ELSE /\ helperPC' = "top"
            /\ state' = IF state = "ALLOCATING" THEN "IDLE" ELSE state
    /\ UNCHANGED <<sweepFlag, shrinkFlag, chunkSet, arenaListsToSweep, toFree, mapped, freeArray,
                   freeVector, freed, mainPC, shrinkAsked>>
    /\ HelperUnchanged

Helper ==
    \/ LoopTop \/ HelperFinalize \/ HelperSweepDone
    \/ FreeCurrentArray \/ FreeFullArrays
    \/ HelperExpire \/ HelperFree \/ HelperRecheck \/ HelperDecommitted
    \/ HelperAllocate \/ HelperPut

-----------------------------------------------------------------------------
(* The main thread as mutator. *)

MutatorUnchanged ==
    /\ UNCHANGED <<gcVars, freeVars, collectVars, offPC>>

MainPickChunk ==
    /\ mainPC = "running"
    /\ PickChunk
    /\ UNCHANGED <<mainPC, after, shrinks, shrinkAsked>>
    /\ MutatorUnchanged

startBackgroundShrink ==
    \/ /\ state = "IDLE"
       /\ shrinkFlag' = TRUE /\ shrinkAsked' = TRUE
       /\ state' = "SWEEPING"
       /\ NotifyWakeup
    \/ /\ state = "SWEEPING"
       /\ shrinkFlag' = TRUE /\ shrinkAsked' = TRUE
       /\ UNCHANGED <<state, helperPC>>
    \/ /\ state \in {"ALLOCATING", "CANCEL_ALLOCATION"}
       /\ UNCHANGED <<state, shrinkFlag, shrinkAsked, helperPC>>

\* ShrinkGCBuffers(); onOutOfMemory() calls it and then waits for the helper
\* before it tries to allocate once more.
ShrinkGCBuffers ==
    /\ mainPC = "running"
    /\ shrinks < MaxShrinks
    /\ shrinks' = shrinks + 1
    /\ startBackgroundShrink
    /\ \/ UNCHANGED <<mainPC, after>>
       \/ mainPC' = "allEnter" /\ after' = "retry"
    /\ UNCHANGED <<sweepFlag, fresh, chunkVars>>
    /\ MutatorUnchanged

OutOfMemoryRetry ==
    /\ mainPC = "retry"
    /\ mainPC' = "running"
    /\ UNCHANGED <<helperVars, helperPC, fresh, chunkVars, after, shrinks, shrinkAsked>>
    /\ MutatorUnchanged

\* waitBackgroundSweepEnd(), called by refillFreeList() when an allocation
\* fails, by Nursery::collect() and before a fork-join section.
EnterSweepWait ==
    /\ mainPC = "running"
    /\ mainPC' = "sweepTest"
    /\ after' = "running"
    /\ UNCHANGED <<helperVars, helperPC, fresh, chunkVars, shrinks, shrinkAsked>>
    /\ MutatorUnchanged

SweepWait ==
    /\ mainPC = "sweepTest"
    /\ mainPC' = IF sweeping THEN "sweepWait" ELSE after
    /\ UNCHANGED <<helperVars, helperPC, fresh, chunkVars, after, shrinks, shrinkAsked>>
    /\ MutatorUnchanged

\* Mutant: a collection waits for the sweep but lets the allocation go on.
SweepOrAllocWait_sweepOnly ==
    /\ mainPC \in {"allEnter", "allTest"}
    /\ mainPC' = IF state = "SWEEPING" THEN "allWait" ELSE after
    /\ UNCHANGED <<helperVars, helperPC, fresh, chunkVars, after, shrinks, shrinkAsked>>
    /\ MutatorUnchanged

\* waitBackgroundSweepOrAllocEnd(): allocation is cancelled once, then the
\* loop only waits.
SweepOrAllocWait ==
    /\ mainPC \in {"allEnter", "allTest"}
    /\ state' = IF mainPC = "allEnter" /\ state = "ALLOCATING"
                THEN "CANCEL_ALLOCATION" ELSE state
    /\ mainPC' = IF state' \in {"SWEEPING", "CANCEL_ALLOCATION"} THEN "allWait" ELSE after
    /\ UNCHANGED <<sweepFlag, shrinkFlag, helperPC, fresh, chunkVars, after,
                   shrinks, shrinkAsked>>
    /\ MutatorUnchanged

-----------------------------------------------------------------------------
(* The off-thread allocator.  refillFreeList() takes the worker thread     *)
(* state lock, waits while the heap is busy and allocates with it held.    *)

OffThreadUnchanged ==
    UNCHANGED <<freeVars, gcVars, mainPC, after, collectVars, shrinks, shrinkAsked>>

OffThreadEnter ==
    /\ offPC = "out"
    /\ ~isHeapBusy
    /\ offPC' = "in"
    /\ UNCHANGED <<helperVars, helperPC, fresh, chunkVars>>
    /\ OffThreadUnchanged

OffThreadPickChunk ==
    /\ offPC = "in"
    /\ offPC' = "out"
    /\ \/ PickChunk
       \/ UNCHANGED <<helperVars, helperPC, fresh, chunkVars>>
    /\ OffThreadUnchanged

-----------------------------------------------------------------------------
(* The main thread as collector. *)

CollectorUnchanged == UNCHANGED <<fresh, offPC, shrinks>>

\* Collect().  The runtime is destroyed after it has joined its worker
\* threads; the last collection is never incremental.
Collect ==
    /\ mainPC = "running"
    /\ mainPC' = "collect"
    /\ \/ /\ cycles < MaxCycles
          /\ incremental' \in BOOLEAN
          /\ gckind' \in {"GC_NORMAL", "GC_SHRINK"}
          /\ UNCHANGED offPC
       \/ /\ offPC = "out" /\ offPC' = "gone"
          /\ incremental' = FALSE
          /\ gckind' = "DESTROY_RUNTIME"
    /\ UNCHANGED <<helperVars, helperPC, fresh, chunkVars, freeVars, gcVars,
                   after, wasReset, cycles, shrinks, shrinkAsked>>

lastGC == gckind = "DESTROY_RUNTIME"
gcShouldCleanUpEverything == gckind # "GC_NORMAL"

\* Mutant: heapState changes without the worker thread state lock.
StartSession_unlocked ==
    /\ mainPC = "collect"
    /\ heapState' = "MajorCollecting"
    /\ wasReset' = FALSE
    /\ cycles' = IF cycles < MaxCycles THEN cycles + 1 ELSE cycles
    /\ mainPC' = "allEnter"
    /\ after' = "cycle"
    /\ UNCHANGED <<helperVars, helperPC, chunkVars, freeVars, gcIncrementalState,
                   gcSweepOnBackgroundThread, gcSweepingZones, incremental, gckind,
                   shrinkAsked>>
    /\ CollectorUnchanged

\* The start of GCCycle(): AutoTraceSession changes heapState under the worker
\* thread state lock, then the helper is waited for.
StartSession ==
    /\ mainPC = "collect"
    /\ offPC # "in"
    /\ heapState' = "MajorCollecting"
    /\ wasReset' = FALSE
    /\ cycles' = IF cycles < MaxCycles THEN cycles + 1 ELSE cycles
    /\ mainPC' = "allEnter"
    /\ after' = "cycle"
    /\ UNCHANGED <<helperVars, helperPC, chunkVars, freeVars, gcIncrementalState,
                   gcSweepOnBackgroundThread, gcSweepingZones, incremental, gckind,
                   shrinkAsked>>
    /\ CollectorUnchanged

\* GCCycle() past its wait.  A collection that cannot stay incremental is
\* reset: BudgetIncrementalGC() may decide so even if an incremental slice was
\* asked for.  A reset while sweeping finishes the sweep first.
ResetOrContinue ==
    /\ mainPC = "cycle"
    /\ \/ /\ gcIncrementalState = "NO_INCREMENTAL" \/ incremental
          /\ mainPC' = "slice"
          /\ UNCHANGED <<gcIncrementalState, wasReset>>
       \/ /\ gcIncrementalState = "MARK"
          /\ gcIncrementalState' = "NO_INCREMENTAL"
          /\ wasReset' = TRUE
          /\ mainPC' = "endSession"
       \/ /\ gcIncrementalState = "SWEEP"
          /\ mainPC' = "resetSweep"
          /\ wasReset' = TRUE
          /\ UNCHANGED gcIncrementalState
    /\ UNCHANGED <<helperVars, helperPC, chunkVars, freeVars, heapState,
                   gcSweepOnBackgroundThread, gcSweepingZones, after, incremental,
                   gckind, cycles, shrinkAsked>>
    /\ CollectorUnchanged

\* Mutant: the last collection leaves its sweep to the helper, too.
BeginSweepPhase_alwaysHelper ==
    /\ gcIncrementalState' = "SWEEP"
    /\ gcSweepOnBackgroundThread' = TRUE

\* BeginSweepPhase(): the last collection does not use the helper.
BeginSweepPhase ==
    /\ gcIncrementalState' = "SWEEP"
    /\ gcSweepOnBackgroundThread' = ~lastGC

\* IncrementalCollectSlice() up to the sweep.  BeginMarkPhase() may find
\* nothing to collect, and an incremental slice may end in any phase.
Mark ==
    /\ mainPC = "slice"
    /\ \/ /\ gcIncrementalState = "NO_INCREMENTAL"
          /\ \/ mainPC' = "endSession" /\ UNCHANGED gcIncrementalState
             \/ gcIncrementalState' = "MARK" /\ UNCHANGED mainPC
          /\ UNCHANGED gcSweepOnBackgroundThread
       \/ /\ gcIncrementalState = "MARK"
          /\ BeginSweepPhase
          /\ UNCHANGED mainPC
       \/ /\ incremental
          /\ gcIncrementalState # "NO_INCREMENTAL"
          /\ mainPC' = "endSession"
          /\ UNCHANGED <<gcIncrementalState, gcSweepOnBackgroundThread>>
    /\ UNCHANGED <<helperVars, helperPC, chunkVars, freeVars, heapState,
                   gcSweepingZones, after, collectVars, shrinkAsked>>
    /\ CollectorUnchanged

\* SweepPhase(), without the lock: arenas are queued for the background sweep,
\* or finalized at once, which may empty a chunk; memory is freed at once or
\* later.
ForegroundSweep ==
    /\ mainPC \in {"slice", "resetSweep"}
    /\ gcIncrementalState = "SWEEP"
    /\ \/ /\ \E c \in chunkSet \ arenaListsToSweep :
                \/ arenaListsToSweep' = arenaListsToSweep \cup {c}
                      /\ UNCHANGED <<pool, chunkSet, toFree, mapped>>
                \/ ReleaseChunk(c) /\ UNCHANGED arenaListsToSweep
          /\ UNCHANGED freeVars
       \/ FreeLater /\ UNCHANGED chunkVars
    /\ UNCHANGED <<helperVars, helperPC, gcVars, mainPC, after, collectVars, shrinkAsked>>
    /\ CollectorUnchanged

\* Mutant: the request to sweep looks like a request to shrink.
startBackgroundSweep_unflagged(shouldShrink) ==
    /\ shrinkFlag' = shouldShrink
    /\ shrinkAsked' = shouldShrink
    /\ state' = "SWEEPING"
    /\ NotifyWakeup
    /\ UNCHANGED sweepFlag

\* startBackgroundSweep(shouldShrink).
startBackgroundSweep(shouldShrink) ==
    /\ sweepFlag' = TRUE
    /\ shrinkFlag' = shouldShrink
    /\ shrinkAsked' = shouldShrink
    /\ state' = "SWEEPING"
    /\ NotifyWakeup

\* EndSweepPhase() and startBackgroundSweep().  A reset then waits once more.
EndSweepInBackground ==
    /\ mainPC \in {"slice", "resetSweep"}
    /\ gcIncrementalState = "SWEEP"
    /\ gcSweepOnBackgroundThread
    /\ gcSweepingZones' = "zones"
    /\ startBackgroundSweep(gckind = "GC_SHRINK" /\ mainPC = "slice")
    /\ gcIncrementalState' = "NO_INCREMENTAL"
    /\ IF mainPC = "slice"
       THEN mainPC' = "endSession" /\ UNCHANGED after
       ELSE mainPC' = "allEnter" /\ after' = "endSession"
    /\ UNCHANGED <<chunkVars, freeVars, heapState, gcSweepOnBackgroundThread, collectVars>>
    /\ CollectorUnchanged

\* EndSweepPhase() of the last collection: it expires the chunks itself,
\* giving up the lock to unmap them, and sweeps the background things itself.
EndSweepInForeground ==
    /\ mainPC = "slice"
    /\ gcIncrementalState = "SWEEP"
    /\ ~gcSweepOnBackgroundThread
    /\ Expire("main", gckind = "GC_SHRINK")
    /\ mainPC' = IF toFree'["main"] # {} THEN "fgFree" ELSE "fgSweep"
    /\ gcSweepingZones' = "zones"
    /\ UNCHANGED <<helperVars, helperPC, freeVars, heapState, gcIncrementalState,
                   gcSweepOnBackgroundThread, after, collectVars, shrinkAsked>>
    /\ CollectorUnchanged

ForegroundFree ==
    /\ mainPC = "fgFree"
    /\ FreeChunkList("main")
    /\ mainPC' = "fgSweep"
    /\ UNCHANGED <<helperVars, helperPC, freeVars, gcVars, after, collectVars, shrinkAsked>>
    /\ CollectorUnchanged

\* SweepBackgroundThings() of the last collection.
ForegroundFinalize ==
    /\ mainPC = "fgSweep"
    /\ \E c \in arenaListsToSweep : BackgroundFinalize(c)
    /\ UNCHANGED <<helperVars, helperPC, freeVars, gcVars, mainPC, after, collectVars, shrinkAsked>>
    /\ CollectorUnchanged

ForegroundSweepDone ==
    /\ mainPC = "fgSweep"
    /\ arenaListsToSweep = {}
    /\ gcSweepingZones' = "null"
    /\ gcIncrementalState' = "NO_INCREMENTAL"
    /\ mainPC' = "endSession"
    /\ UNCHANGED <<helperVars, helperPC, chunkVars, freeVars, heapState,
                   gcSweepOnBackgroundThread, after, collectVars, shrinkAsked>>
    /\ CollectorUnchanged

\* The end of GCCycle() and of the loop body of Collect(): another cycle after
\* a reset, or when a shutdown collection was poked.
EndSession ==
    /\ mainPC = "endSession"
    /\ offPC # "in"
    /\ heapState' = "Idle"
    /\ \/ wasReset /\ mainPC' = "collect"
       \/ ~wasReset /\ gcShouldCleanUpEverything /\ cycles < MaxCycles /\ mainPC' = "collect"
       \/ ~wasReset /\ mainPC' = IF lastGC THEN "finish" ELSE "running"
    /\ UNCHANGED <<helperVars, helperPC, chunkVars, freeVars, gcIncrementalState,
                   gcSweepOnBackgroundThread, gcSweepingZones, after, collectVars, shrinkAsked>>
    /\ CollectorUnchanged

\* GCHelperThread::finish().
Finish ==
    /\ mainPC = "finish"
    /\ state' = "SHUTDOWN"
    /\ IF state = "IDLE" THEN NotifyWakeup ELSE UNCHANGED helperPC
    /\ mainPC' = "join"
    /\ UNCHANGED <<sweepFlag, shrinkFlag, chunkVars, freeVars, gcVars, after,
                   collectVars, shrinkAsked>>
    /\ CollectorUnchanged

\* js_FinishGC() past finish(): every chunk is released.
FinishGC ==
    /\ mainPC = "join"
    /\ helperPC = "exited"
    /\ chunkSet' = {} /\ pool' = <<>>
    /\ mapped' = mapped \ (chunkSet \cup InPool)
    /\ mainPC' = "ended"
    /\ UNCHANGED <<helperVars, helperPC, arenaListsToSweep, toFree, freeVars, gcVars, after,
                   collectVars, shrinkAsked>>
    /\ CollectorUnchanged

Terminated == mainPC = "ended" /\ UNCHANGED vars

Collector ==
    \/ StartSession \/ ResetOrContinue \/ Mark \/ ForegroundSweep
    \/ EndSweepInBackground \/ EndSweepInForeground \/ ForegroundFree
    \/ ForegroundFinalize \/ ForegroundSweepDone \/ EndSession \/ Finish \/ FinishGC

Wait == SweepWait \/ SweepOrAllocWait

Next ==
    \/ Helper
    \/ MainPickChunk \/ ShrinkGCBuffers \/ OutOfMemoryRetry \/ EnterSweepWait
    \/ Wait
    \/ Collect \/ Collector
    \/ OffThreadEnter \/ OffThreadPickChunk
    \/ Terminated

Spec == Init /\ [][Next]_vars

\* The helper runs whenever it can, and so does the main thread once it has
\* entered a wait: both are kernel threads and no lock is held for ever.
FairSpec == Spec /\ WF_vars(Helper) /\ WF_vars(Wait)

-----------------------------------------------------------------------------
(* Properties. *)

\* Types of all variables, and of the helper's and the main thread's positions.
TypeOK ==
    /\ state \in State
    /\ sweepFlag \in BOOLEAN /\ shrinkFlag \in BOOLEAN
    /\ helperPC \in HelperPC
    /\ fresh \subseteq Chunk
    /\ pool \in Seq(PooledChunk)
    /\ chunkSet \subseteq Chunk /\ arenaListsToSweep \subseteq Chunk /\ mapped \subseteq Chunk
    /\ toFree \in [Thread -> SUBSET Chunk]
    /\ freeArray \in Seq(Pointer) /\ freeVector \in Seq(Seq(Pointer))
    /\ heapState \in {"Idle", "MajorCollecting"}
    /\ gcIncrementalState \in {"NO_INCREMENTAL", "MARK", "SWEEP"}
    /\ gcSweepOnBackgroundThread \in BOOLEAN
    /\ gcSweepingZones \in {"null", "zones"}
    /\ mainPC \in MainPC
    /\ after \in {"running", "retry", "cycle", "endSession"}
    /\ incremental \in BOOLEAN /\ wasReset \in BOOLEAN
    /\ gckind \in {"GC_NORMAL", "GC_SHRINK", "DESTROY_RUNTIME"}
    /\ offPC \in {"out", "in", "gone"}
    /\ queued \subseteq Pointer /\ freed \subseteq Pointer
    /\ cycles \in 0..MaxCycles /\ shrinks \in 0..MaxShrinks
    /\ shrinkAsked \in BOOLEAN

\* "We must also wait for the background allocation to finish so we can avoid
\* taking the GC lock when manipulating the chunks during the GC"
\* (GCCycle, jsgc.cpp:4758-4762): past the wait the helper is idle and outside
\* every unlocked stretch, and no other thread is in the allocator.  The
\* assertions of startBackgroundSweep, freeLater and queueForBackgroundSweep
\* (state == IDLE, !sweepFlag, !sweeping()) follow.
GCOwnsTheHeap ==
    mainPC \in GCPC =>
        /\ state = "IDLE"
        /\ ~sweepFlag
        /\ helperPC \in {"top", "wakeupWait"}
        /\ offPC # "in"

\* AssertBackgroundSweepingFinished() holds at the end of every wait made
\* outside an incremental collection (jsgc.cpp:2631 and 2650), and what was
\* passed to freeLater() is free by then: when the helper is not sweeping there
\* is no zone left to sweep, and no arena or pointer left in its queues unless
\* the collection that put it there is still sweeping.
BackgroundSweepIsOver ==
    ~sweeping /\ mainPC \notin GCPC =>
        /\ ~sweepFlag
        /\ gcSweepingZones = "null"
        /\ gcIncrementalState # "SWEEP" => arenaListsToSweep = {} /\ Buffered = {}

\* A mapped chunk is in exactly one place: in use, in the pool once, on a list
\* of chunks to free, or in the helper's hands.  Nothing is used after it is
\* unmapped, and no address is lost.
ChunksAccountedFor ==
    LET places == <<chunkSet, InPool, toFree["main"], toFree["helper"], fresh>>
    IN  /\ mapped = UNION {places[i] : i \in DOMAIN places}
        /\ \A i, j \in DOMAIN places : i # j => places[i] \cap places[j] = {}
        /\ Cardinality(InPool) = Len(pool)

\* What is passed to freeLater() is freed exactly once, whatever allocation of
\* the buffers fails: until then it is in one buffer, and every array of
\* freeVector is full, as doSweep() assumes when it frees it.
FreedExactlyOnce ==
    /\ queued = Buffered \cup freed
    /\ Buffered \cap freed = {}
    /\ \A i \in DOMAIN freeVector : Len(freeVector[i]) = FreeArrayLength
    /\ Cardinality(Buffered) = Len(freeArray) + FreeArrayLength * Len(freeVector)

\* Destroying the runtime leaves no chunk mapped and no pointer unfreed.
NothingLeaks ==
    mainPC = "ended" => mapped = {} /\ freed = queued

\* A shrink asked for while the helper sweeps (ShrinkGCBuffers, or a GC_SHRINK
\* collection) is not lost: when the sweep is over no empty chunk is left, also
\* if the request came while the helper had given the lock up (doSweep,
\* jsgc.cpp:2717-2721).
ShrinkHonoured ==
    [][sweeping /\ state' = "IDLE" /\ shrinkAsked => pool' = <<>>]_vars

\* finish() asserts what it finds: "We cannot be in the ALLOCATING or
\* CANCEL_ALLOCATION states as the allocations should have been stopped during
\* the last GC" (jsgc.cpp:2446-2450).  A helper that allocates when it is told to
\* shut down would go on with a pool that is about to be released.
FinishFindsHelperAtRest == mainPC = "finish" => state \in {"IDLE", "SWEEPING"}

\* A thread that waits for the helper is woken in the end, and the one that joins
\* it in finish() sees it leave its loop.
WaitsReturn ==
    /\ mainPC \in WaitPC ~> mainPC \notin WaitPC
    /\ state = "SHUTDOWN" ~> helperPC = "exited"

\* onOutOfMemory() (vm/Runtime.cpp:816-819): "Retry when we are done with the
\* background sweeping and have stopped all the allocations and released the
\* empty GC chunks."
RetriesWithoutEmptyChunks ==
    mainPC = "retry" => /\ state \notin {"SWEEPING", "CANCEL_ALLOCATION"}
                        /\ pool = <<>>
=============================================================================
