------------------------- MODULE GCHelperThreadProofs -------------------------
(***************************************************************************)
(* Safety of the GC helper thread for every set of chunks, every capacity  *)
(* and age limit of the pool, every length of the free buffers and every   *)
(* number of collections, shrinks and pointers: IInv is inductive, and the *)
(* safety properties of GCHelperThread follow from it.                     *)
(***************************************************************************)
EXTENDS GCHelperThread, FiniteSetTheorems, SequenceTheorems, TLAPS

-----------------------------------------------------------------------------
(* The steps. *)

\* What a mutator does outside of its waits.
Mutator ==
    \/ MainPickChunk \/ ShrinkGCBuffers \/ OutOfMemoryRetry \/ EnterSweepWait \/ Collect
OffThread == OffThreadEnter \/ OffThreadPickChunk

\* Every step is one of these.
LEMMA NextCases ==
    ASSUME [Next]_vars
    PROVE  Helper \/ Mutator \/ Wait \/ Collector \/ OffThread \/ UNCHANGED vars
  BY DEF Next, Mutator, OffThread, Terminated

-----------------------------------------------------------------------------
(* Types. *)

\* A function on an initial interval is a sequence of that length.
LEMMA FunctionIsSeq ==
    ASSUME NEW S, NEW n \in Nat, NEW f \in [1..n -> S]
    PROVE  f \in Seq(S) /\ Len(f) = n
  OBVIOUS

\* What expire() leaves is a pool, of chunks that were in it.
LEMMA ExpireType ==
    ASSUME TypeOK, NEW t \in Thread, NEW releaseAll \in BOOLEAN, Expire(t, releaseAll)
    PROVE  pool' \in Seq(PooledChunk) /\ toFree' \in [Thread -> SUBSET Chunk]
  <1> DEFINE out == {i \in DOMAIN pool : Expires(releaseAll, i)}
  <1>1. toFree' = [toFree EXCEPT ![t] = {pool[i].chunk : i \in out}]
    BY DEF Expire
  <1>2. PICK kept \in Ascending(DOMAIN pool \ out) :
          pool' = [i \in DOMAIN kept |-> [pool[kept[i]] EXCEPT !.age = @ + 1]]
    BY DEF Expire
  <1>0. pool \in Seq(PooledChunk) /\ toFree \in [Thread -> SUBSET Chunk]
    BY DEF TypeOK
  <1>3. \A i \in DOMAIN pool : pool[i].chunk \in Chunk /\ pool[i].age \in 0..MaxEmptyChunkAge
    <2>1. \A i \in DOMAIN pool : pool[i] \in PooledChunk
      BY <1>0
    <2> QED
      BY <2>1 DEF PooledChunk
  <1>4. /\ kept \in [1..Cardinality(DOMAIN pool \ out) -> DOMAIN pool \ out]
        /\ Cardinality(DOMAIN pool \ out) \in Nat
    <2>1. IsFiniteSet(DOMAIN pool) /\ DOMAIN pool = 1..Len(pool)
      BY FS_Interval DEF TypeOK
    <2> QED
      BY <1>2, <2>1, FS_Subset, FS_CardinalityType DEF Ascending
  <1>5. ASSUME NEW i \in DOMAIN kept
        PROVE  [pool[kept[i]] EXCEPT !.age = @ + 1] \in PooledChunk
    <2>1. kept[i] \in DOMAIN pool /\ ~Expires(releaseAll, kept[i])
      BY <1>4, <1>5
    <2>2. pool[kept[i]].age # MaxEmptyChunkAge
      BY <2>1 DEF Expires
    <2>3. pool[kept[i]] \in PooledChunk
      BY <2>1 DEF TypeOK
    <2> QED
      BY <2>1, <2>2, <2>3, HelperAssumption DEF PooledChunk
  <1>6. pool' \in Seq(PooledChunk)
    <2>1. pool' \in [1..Cardinality(DOMAIN pool \ out) -> PooledChunk]
      BY <1>2, <1>4, <1>5
    <2> QED
      BY <1>4, <2>1, FunctionIsSeq
  <1> QED
    BY <1>0, <1>1, <1>3, <1>6

\* What a chunk handed out, or given back, does to the pool.
LEMMA PutType ==
    ASSUME TypeOK, NEW c \in Chunk
    PROVE  Put(c) \in Seq(PooledChunk)
  <1>1. pool \in Seq(PooledChunk) /\ [chunk |-> c, age |-> 0] \in PooledChunk
    BY HelperAssumption DEF TypeOK, PooledChunk
  <1>2. <<[chunk |-> c, age |-> 0]>> \in Seq(PooledChunk)
    BY <1>1
  <1> QED
    BY <1>1, <1>2, ConcatProperties DEF Put

\* What taking a chunk does to the pool, to the chunks in use and to the helper.
LEMMA PickType ==
    ASSUME TypeOK, PickChunk
    PROVE  /\ pool' \in Seq(PooledChunk) /\ chunkSet' \subseteq Chunk /\ mapped' \subseteq Chunk
           /\ state' \in {state, "ALLOCATING"} /\ helperPC' \in {helperPC, "top"}
  <1>1. PICK c \in Chunk : /\ Get(c)
                          /\ chunkSet' \in {chunkSet, chunkSet \cup {c}}
                          /\ mapped' \in {mapped \cup {c}, mapped \ {c}}
    BY DEF PickChunk
  <1>2. pool' \in Seq(PooledChunk)
    <2>1. pool \in Seq(PooledChunk)
      BY DEF TypeOK
    <2>2. pool' = pool \/ (pool # <<>> /\ pool' = Tail(pool))
      BY <1>1 DEF Get
    <2> QED
      BY <2>1, <2>2, HeadTailProperties
  <1>3. state' \in {state, "ALLOCATING"} /\ helperPC' \in {helperPC, "top"}
    BY <1>1 DEF Get, startBackgroundAllocationIfIdle, NotifyWakeup
  <1> QED
    BY <1>1, <1>2, <1>3 DEF TypeOK

\* Finalizing touches the pool, the chunks in use and the queue of arenas only.
LEMMA FinalizeType ==
    ASSUME TypeOK, NEW c \in Chunk, BackgroundFinalize(c)
    PROVE  /\ pool' \in Seq(PooledChunk) /\ chunkSet' \subseteq Chunk
           /\ arenaListsToSweep' \subseteq Chunk /\ UNCHANGED <<toFree, mapped>>
  BY PutType DEF BackgroundFinalize, ReleaseChunk, TypeOK

\* freeLater() puts pointers into the buffers.
LEMMA FreeLaterType ==
    ASSUME TypeOK, FreeLater
    PROVE  /\ freeArray' \in Seq(Pointer) /\ freeVector' \in Seq(Seq(Pointer))
           /\ queued' \subseteq Pointer /\ freed' \subseteq Pointer
  <1>1. PICK ptr \in Pointer :
          /\ queued' = queued \cup {ptr}
          /\ freeArray' \in {freeArray, Append(freeArray, ptr), <<>>, <<ptr>>}
          /\ freeVector' \in {freeVector, Append(freeVector, freeArray)}
          /\ freed' \in {freed, freed \cup {ptr}}
    BY DEF FreeLater, replenishAndFreeLater
  <1>2. /\ freeArray \in Seq(Pointer) /\ freeVector \in Seq(Seq(Pointer))
        /\ queued \subseteq Pointer /\ freed \subseteq Pointer
    BY DEF TypeOK
  <1>3. Append(freeArray, ptr) \in Seq(Pointer) /\ <<ptr>> \in Seq(Pointer)
        /\ <<>> \in Seq(Pointer) /\ Append(freeVector, freeArray) \in Seq(Seq(Pointer))
    BY <1>2
  <1> QED
    BY <1>1, <1>2, <1>3

\* The types in three parts: sequences and functions, truth values, and the rest.
DataType ==
    /\ pool \in Seq(PooledChunk) /\ toFree \in [Thread -> SUBSET Chunk]
    /\ freeArray \in Seq(Pointer) /\ freeVector \in Seq(Seq(Pointer))
dataVars == <<pool, toFree, freeArray, freeVector>>
FlagType ==
    /\ sweepFlag \in BOOLEAN /\ shrinkFlag \in BOOLEAN
    /\ gcSweepOnBackgroundThread \in BOOLEAN
    /\ incremental \in BOOLEAN /\ wasReset \in BOOLEAN
    /\ shrinkAsked \in BOOLEAN
PlainType ==
    /\ state \in State
    /\ helperPC \in HelperPC
    /\ fresh \subseteq Chunk
    /\ chunkSet \subseteq Chunk /\ arenaListsToSweep \subseteq Chunk /\ mapped \subseteq Chunk
    /\ heapState \in {"Idle", "MajorCollecting"}
    /\ gcIncrementalState \in {"NO_INCREMENTAL", "MARK", "SWEEP"}
    /\ gcSweepingZones \in {"null", "zones"}
    /\ mainPC \in MainPC
    /\ after \in {"running", "retry", "cycle", "endSession"}
    /\ gckind \in {"GC_NORMAL", "GC_SHRINK", "DESTROY_RUNTIME"}
    /\ offPC \in {"out", "in", "gone"}
    /\ queued \subseteq Pointer /\ freed \subseteq Pointer
    /\ cycles \in 0..MaxCycles /\ shrinks \in 0..MaxShrinks

\* TypeOK is these three.
LEMMA TypeParts ==
    /\ TypeOK <=> DataType /\ FlagType /\ PlainType
    /\ TypeOK' <=> DataType' /\ FlagType' /\ PlainType'
  <1>1. TypeOK <=> DataType /\ FlagType /\ PlainType
    BY DEF TypeOK, DataType, FlagType, PlainType
  <1>2. TypeOK' <=> DataType' /\ FlagType' /\ PlainType'
    BY DEF TypeOK, DataType, FlagType, PlainType
  <1> QED
    BY <1>1, <1>2

\* The sequences and functions that do not change keep their types.
LEMMA DataFrame ==
    ASSUME DataType, UNCHANGED dataVars
    PROVE  DataType'
  BY DEF DataType, dataVars

\* The initial state is well typed.
LEMMA TypeInit == Init => TypeOK
  <1> SUFFICES ASSUME Init PROVE DataType /\ FlagType /\ PlainType
    BY TypeParts
  <1>1. PlainType
    BY HelperAssumption DEF Init, PlainType, State, HelperPC, MainPC
  <1>2. <<>> \in Seq(PooledChunk) /\ <<>> \in Seq(Pointer) /\ <<>> \in Seq(Seq(Pointer))
    BY EmptySeq
  <1>3. DataType
    BY <1>2 DEF Init, DataType
  <1>4. FlagType
    BY DEF Init, FlagType
  <1> QED
    BY <1>1, <1>3, <1>4

\* The sequences and functions keep their types.
LEMMA DataStep == TypeOK /\ [Next]_vars => DataType'
  <1> SUFFICES ASSUME TypeOK, [Next]_vars PROVE DataType'
    OBVIOUS
  <1>d. DataType
    BY TypeParts
  <1>u. ASSUME UNCHANGED dataVars PROVE DataType'
    BY <1>d, <1>u, DataFrame
  <1>e. ASSUME NEW t \in Thread, NEW releaseAll \in BOOLEAN, Expire(t, releaseAll),
               UNCHANGED <<freeArray, freeVector>>
        PROVE  DataType'
    BY <1>d, <1>e, ExpireType DEF DataType
  <1>f. ASSUME NEW t \in Thread, FreeChunkList(t), UNCHANGED <<freeArray, freeVector>>
        PROVE  DataType'
    BY <1>d, <1>f DEF DataType, FreeChunkList
  <1>p. ASSUME PickChunk, UNCHANGED <<freeArray, freeVector>> PROVE DataType'
    BY <1>d, <1>p, PickType DEF DataType, PickChunk
  <1>g. ASSUME NEW c \in arenaListsToSweep, BackgroundFinalize(c), UNCHANGED <<freeArray, freeVector>>
        PROVE  DataType'
    <2>1. c \in Chunk
      BY <1>g DEF TypeOK
    <2> QED
      BY <1>d, <1>g, <2>1, FinalizeType DEF DataType
  <1> USE DEF HelperUnchanged, MutatorUnchanged, CollectorUnchanged, OffThreadUnchanged,
          freeVars, chunkVars, dataVars
  <1>1. CASE Helper
    <2>1. CASE LoopTop \/ HelperSweepDone \/ HelperDecommitted \/ HelperAllocate
      BY <1>u, <2>1 DEF LoopTop, HelperSweepDone, HelperDecommitted, HelperAllocate
    <2>2. CASE HelperFinalize
      BY <1>g, <2>2 DEF HelperFinalize
    <2>3. CASE FreeCurrentArray \/ FreeFullArrays
      BY <1>d, <2>3, EmptySeq DEF FreeCurrentArray, FreeFullArrays, DataType
    <2>4. CASE HelperExpire
      BY <1>e, <2>4 DEF HelperExpire, Thread, TypeOK
    <2>5. CASE HelperFree
      BY <1>f, <2>5 DEF HelperFree, Thread
    <2>6. CASE HelperRecheck
      BY <1>e, <1>u, <2>6 DEF HelperRecheck, Thread
    <2>7. CASE HelperPut
      <3>2. pool' \in Seq(PooledChunk)
        BY <1>d, <2>7, PutType DEF HelperPut, DataType, TypeOK
      <3> QED
        BY <1>d, <2>7, <3>2 DEF HelperPut, DataType
    <2> QED
      BY <1>1, <2>1, <2>2, <2>3, <2>4, <2>5, <2>6, <2>7 DEF Helper
  <1>2. CASE Mutator \/ Wait \/ OffThread
    <2>1. CASE MainPickChunk \/ OffThreadPickChunk
      BY <1>p, <1>u, <2>1 DEF MainPickChunk, OffThreadPickChunk
    <2>2. CASE ~(MainPickChunk \/ OffThreadPickChunk)
      BY <1>2, <1>u, <2>2
         DEF Mutator, Wait, OffThread, ShrinkGCBuffers, OutOfMemoryRetry, EnterSweepWait, Collect,
             SweepWait, SweepOrAllocWait, OffThreadEnter
    <2> QED
      BY <2>1, <2>2
  <1>3. CASE Collector
    <2>1. CASE StartSession \/ ResetOrContinue \/ Mark \/ EndSweepInBackground
               \/ ForegroundSweepDone \/ EndSession \/ Finish
      BY <1>u, <2>1 DEF StartSession, ResetOrContinue, Mark, EndSweepInBackground,
         ForegroundSweepDone, EndSession, Finish
    <2>2. CASE ForegroundSweep
      <3>1. CASE FreeLater /\ UNCHANGED chunkVars
        BY <1>d, <3>1, FreeLaterType DEF DataType
      <3>2. CASE \E c \in chunkSet : ReleaseChunk(c) /\ UNCHANGED freeVars
        <4>1. PICK c \in Chunk : ReleaseChunk(c) /\ UNCHANGED freeVars
          BY <3>2 DEF TypeOK
        <4> QED
          BY <1>d, <4>1, PutType DEF DataType, ReleaseChunk
      <3> QED
        BY <1>u, <2>2, <3>1, <3>2 DEF ForegroundSweep
    <2>3. CASE EndSweepInForeground
      BY <1>e, <2>3 DEF EndSweepInForeground, Thread
    <2>4. CASE ForegroundFree
      BY <1>f, <2>4 DEF ForegroundFree, Thread
    <2>5. CASE ForegroundFinalize
      BY <1>g, <2>5 DEF ForegroundFinalize
    <2>6. CASE FinishGC
      BY <1>d, <2>6, EmptySeq DEF FinishGC, DataType
    <2> QED
      BY <1>3, <2>1, <2>2, <2>3, <2>4, <2>5, <2>6 DEF Collector
  <1>4. CASE UNCHANGED vars
    BY <1>u, <1>4 DEF vars
  <1> QED
    BY <1>1, <1>2, <1>3, <1>4, NextCases

\* So do the flags,
LEMMA FlagStep == FlagType /\ [Next]_vars => FlagType'
  <1> SUFFICES ASSUME FlagType, [Next]_vars PROVE FlagType'
    OBVIOUS
  <1> USE DEF FlagType, HelperUnchanged, MutatorUnchanged, CollectorUnchanged, OffThreadUnchanged,
          helperVars, gcVars, collectVars
  <1>1. CASE Helper
    BY <1>1 DEF Helper, LoopTop, HelperFinalize, HelperSweepDone, FreeCurrentArray,
       FreeFullArrays, HelperExpire, HelperFree, HelperRecheck, HelperDecommitted,
       HelperAllocate, HelperPut, EndSweeping
  <1>2. CASE Mutator \/ Wait \/ OffThread
    BY <1>2 DEF Mutator, Wait, OffThread, MainPickChunk, PickChunk, ShrinkGCBuffers,
       startBackgroundShrink, OutOfMemoryRetry, EnterSweepWait, Collect, SweepWait,
       SweepOrAllocWait, OffThreadEnter, OffThreadPickChunk
  <1>3. CASE Collector
    <2>1. CASE StartSession \/ ResetOrContinue \/ ForegroundSweep
               \/ EndSweepInForeground \/ ForegroundFree \/ ForegroundFinalize
      BY <2>1 DEF StartSession, ResetOrContinue, ForegroundSweep,
         EndSweepInForeground, ForegroundFree, ForegroundFinalize
    <2>2. CASE Mark
      BY <2>2 DEF Mark, BeginSweepPhase
    <2>3. CASE EndSweepInBackground
      BY <2>3 DEF EndSweepInBackground, startBackgroundSweep
    <2>4. CASE ForegroundSweepDone \/ EndSession \/ Finish \/ FinishGC
      BY <2>4 DEF ForegroundSweepDone, EndSession, Finish, FinishGC
    <2> QED
      BY <1>3, <2>1, <2>2, <2>3, <2>4 DEF Collector
  <1>4. CASE UNCHANGED vars
    BY <1>4 DEF vars
  <1> QED
    BY <1>1, <1>2, <1>3, <1>4, NextCases

\* and the other variables, whatever the helper does,
LEMMA PlainHelper == TypeOK /\ Helper => PlainType'
  <1> SUFFICES ASSUME TypeOK, Helper PROVE PlainType'
    OBVIOUS
  <1>p. PlainType
    BY TypeParts
  <1> USE <1>p DEF PlainType, State, HelperPC, ExpirePC, MainPC, WaitPC, GCPC, HelperUnchanged,
          NotifyDone, gcVars, collectVars, chunkVars, helperVars, freeVars
  <1>1. CASE LoopTop
    BY <1>1 DEF LoopTop
  <1>2. CASE HelperFinalize
    <2>1. PICK c \in Chunk : BackgroundFinalize(c)
      BY <1>2 DEF HelperFinalize
    <2> QED
      BY <1>2, <2>1 DEF HelperFinalize, BackgroundFinalize, ReleaseChunk
  <1>3. CASE HelperSweepDone
    BY <1>3 DEF HelperSweepDone
  <1>4. CASE FreeCurrentArray
    <2>1. Elements(freeArray) \subseteq Pointer
      BY DEF Elements, TypeOK
    <2> QED
      BY <1>4, <2>1 DEF FreeCurrentArray
  <1>5. CASE FreeFullArrays
    <2>1. \A i \in DOMAIN freeVector : Elements(freeVector[i]) \subseteq Pointer
      <3>1. ASSUME NEW i \in DOMAIN freeVector PROVE freeVector[i] \in Seq(Pointer)
        BY DEF TypeOK
      <3> QED
        BY <3>1 DEF Elements
    <2> QED
      BY <1>5, <2>1 DEF FreeFullArrays
  <1>6. CASE HelperExpire
    BY <1>6 DEF HelperExpire, Expire
  <1>7. CASE HelperFree
    BY <1>7 DEF HelperFree, FreeChunkList
  <1>8. CASE HelperRecheck
    BY <1>8 DEF HelperRecheck, EndSweeping, Expire
  <1>9. CASE HelperDecommitted
    BY <1>9 DEF HelperDecommitted, EndSweeping
  <1>10. CASE HelperAllocate
    BY <1>10 DEF HelperAllocate
  <1>11. CASE HelperPut
    BY <1>11 DEF HelperPut
  <1> QED
    BY <1>1, <1>2, <1>3, <1>4, <1>5, <1>6, <1>7, <1>8, <1>9, <1>10, <1>11 DEF Helper

\* the program and its off-thread allocator do,
LEMMA PlainMutator == TypeOK /\ (Mutator \/ Wait \/ OffThread) => PlainType'
  <1> SUFFICES ASSUME TypeOK, Mutator \/ Wait \/ OffThread PROVE PlainType'
    OBVIOUS
  <1>p. PlainType
    BY TypeParts
  <1> USE <1>p DEF PlainType, State, HelperPC, ExpirePC, MainPC, WaitPC, GCPC, MutatorUnchanged,
          NotifyWakeup, OffThreadUnchanged, gcVars, collectVars, chunkVars, helperVars, freeVars
  <1>1. CASE MainPickChunk
    <2>1. PickChunk
      BY <1>1 DEF MainPickChunk
    <2> QED
      BY <1>1, <2>1, PickType DEF MainPickChunk, PickChunk
  <1>2. CASE ShrinkGCBuffers
    <2>1. shrinks' \in 0..MaxShrinks
      BY <1>2, HelperAssumption DEF ShrinkGCBuffers
    <2> QED
      BY <1>2, <2>1 DEF ShrinkGCBuffers, startBackgroundShrink
  <1>3. CASE OutOfMemoryRetry
    BY <1>3 DEF OutOfMemoryRetry
  <1>4. CASE EnterSweepWait
    BY <1>4 DEF EnterSweepWait
  <1>5. CASE Collect
    BY <1>5 DEF Collect
  <1>6. CASE SweepWait
    BY <1>6 DEF SweepWait
  <1>7. CASE SweepOrAllocWait
    BY <1>7 DEF SweepOrAllocWait
  <1>8. CASE OffThreadEnter
    BY <1>8 DEF OffThreadEnter
  <1>9. CASE OffThreadPickChunk
    <2>1. CASE PickChunk
      BY <1>9, <2>1, PickType DEF OffThreadPickChunk, PickChunk
    <2>2. CASE UNCHANGED <<helperVars, helperPC, fresh, chunkVars>>
      BY <1>9, <2>2 DEF OffThreadPickChunk
    <2> QED
      BY <1>9, <2>1, <2>2 DEF OffThreadPickChunk
  <1> QED
    BY <1>1, <1>2, <1>3, <1>4, <1>5, <1>6, <1>7, <1>8, <1>9 DEF Mutator, Wait, OffThread

\* or the collector does.
LEMMA PlainCollector == TypeOK /\ Collector => PlainType'
  <1> SUFFICES ASSUME TypeOK, Collector PROVE PlainType'
    OBVIOUS
  <1>p. PlainType
    BY TypeParts
  <1> USE <1>p DEF PlainType, State, HelperPC, ExpirePC, MainPC, WaitPC, GCPC, CollectorUnchanged,
          NotifyWakeup, gcVars, collectVars, chunkVars, helperVars, freeVars
  <1>1. CASE StartSession
    <2>1. cycles' \in 0..MaxCycles
      BY <1>1, HelperAssumption DEF StartSession
    <2> QED
      BY <1>1, <2>1 DEF StartSession
  <1>2. CASE ResetOrContinue
    BY <1>2 DEF ResetOrContinue
  <1>3. CASE Mark
    BY <1>3 DEF Mark, BeginSweepPhase, lastGC
  <1>4. CASE ForegroundSweep
    <2>1. CASE FreeLater /\ UNCHANGED chunkVars
      BY <1>4, <2>1, FreeLaterType DEF ForegroundSweep
    <2>2. CASE UNCHANGED freeVars
      <3>1. /\ chunkSet' \subseteq Chunk /\ arenaListsToSweep' \subseteq Chunk
            /\ UNCHANGED <<mapped, queued, freed>>
        BY <1>4, <2>2 DEF ForegroundSweep, ReleaseChunk
      <3> QED
        BY <1>4, <3>1 DEF ForegroundSweep
    <2> QED
      BY <2>1, <2>2, <1>4 DEF ForegroundSweep
  <1>5. CASE EndSweepInBackground
    BY <1>5 DEF EndSweepInBackground, startBackgroundSweep
  <1>6. CASE EndSweepInForeground
    BY <1>6 DEF EndSweepInForeground, Expire
  <1>7. CASE ForegroundFree
    BY <1>7 DEF ForegroundFree, FreeChunkList
  <1>8. CASE ForegroundFinalize
    BY <1>8 DEF ForegroundFinalize, BackgroundFinalize, ReleaseChunk
  <1>9. CASE ForegroundSweepDone
    BY <1>9 DEF ForegroundSweepDone
  <1>10. CASE EndSession
    BY <1>10 DEF EndSession, lastGC
  <1>11. CASE Finish
    BY <1>11 DEF Finish
  <1>12. CASE FinishGC
    BY <1>12 DEF FinishGC
  <1> QED
    BY <1>1, <1>2, <1>3, <1>4, <1>5, <1>6, <1>7, <1>8, <1>9, <1>10, <1>11, <1>12 DEF Collector

\* Types are kept.
LEMMA TypeStep == TypeOK /\ [Next]_vars => TypeOK'
  <1>1. PlainType /\ UNCHANGED vars => PlainType'
    BY DEF vars, PlainType, helperVars, chunkVars, freeVars, gcVars, collectVars
  <1> QED
    BY <1>1, NextCases, DataStep, FlagStep, PlainHelper, PlainMutator, PlainCollector, TypeParts

-----------------------------------------------------------------------------
(* Who does what, and when. *)

\* Positions of the helper in which it sweeps, and in which it allocates.
SweepPC == {"sweep", "freeArray", "freeVector"} \cup ExpirePC
AllocatePC == {"allocate", "put"}

\* The main thread is in a session: from the wait at its start to its end.
InSession ==
    mainPC \in GCPC \cup {"endSession"} \/ (mainPC \in WaitPC /\ after \in {"cycle", "endSession"})

\* The helper's position agrees with its state, a request to sweep is pending
\* only until the helper takes it, and only finish() shuts it down.
HelperInv ==
    /\ helperPC \in SweepPC => sweeping
    /\ helperPC \in AllocatePC => state \in {"ALLOCATING", "CANCEL_ALLOCATION"}
    /\ helperPC = "exited" => state = "SHUTDOWN"
    /\ sweepFlag => sweeping /\ helperPC = "top"
    /\ state = "SHUTDOWN" <=> mainPC \in {"join", "ended"}
    /\ mainPC = "ended" => helperPC = "exited"

\* A session keeps the off-thread allocator out, and once it has waited for
\* the helper nobody gives that work.
SessionInv ==
    /\ mainPC \in {"sweepTest", "sweepWait"} => after = "running"
    /\ InSession => heapState = "MajorCollecting"
    /\ heapState = "MajorCollecting" => offPC # "in"
    /\ InSession /\ mainPC \in {"allTest", "allWait"} => state # "ALLOCATING"
    /\ mainPC \in GCPC => state = "IDLE"
    /\ mainPC \in {"fgFree", "fgSweep"} =>
          gcIncrementalState = "SWEEP" /\ ~gcSweepOnBackgroundThread
    /\ mainPC = "resetSweep" => gcIncrementalState = "SWEEP"
    /\ mainPC = "resetSweep" \/ (mainPC \in WaitPC /\ after = "endSession") => wasReset

\* The last collection is not incremental and does not use the helper; when it
\* is over nothing is left to sweep and the helper is idle.
LastInv ==
    /\ mainPC \in {"finish", "join", "ended"} => lastGC
    /\ lastGC =>
          /\ offPC = "gone" /\ ~incremental
          /\ mainPC \notin {"running", "retry"} /\ (mainPC \in WaitPC => InSession)
          /\ mainPC = "slice" /\ gcIncrementalState = "SWEEP" => ~gcSweepOnBackgroundThread
          /\ \/ mainPC = "endSession" /\ ~wasReset
             \/ mainPC = "finish"
             => state = "IDLE" /\ gcIncrementalState = "NO_INCREMENTAL"
          /\ mainPC \in {"join", "ended"} =>
                /\ gcIncrementalState = "NO_INCREMENTAL" /\ ~sweepFlag
                /\ helperPC \in {"top", "wakeupWait", "exited"}

ControlInv == HelperInv /\ SessionInv /\ LastInv

\* At first nobody does anything.
LEMMA ControlInit == Init => ControlInv
  BY DEF Init, ControlInv, HelperInv, SessionInv, LastInv, InSession, SweepPC, ExpirePC, AllocatePC,
         WaitPC, GCPC, sweeping, lastGC

\* The helper leaves its position only as its state says,
LEMMA ControlHelper == TypeOK /\ ControlInv /\ Helper => ControlInv'
  <1> SUFFICES ASSUME TypeOK, ControlInv, Helper PROVE ControlInv'
    OBVIOUS
  <1>p. PlainType
    BY TypeParts
  <1> USE <1>p DEF PlainType, State, HelperPC, ExpirePC, SweepPC, AllocatePC, MainPC, WaitPC, GCPC,
          InSession, HelperInv, SessionInv, LastInv, lastGC, sweeping, ControlInv, HelperUnchanged,
          NotifyDone, gcVars, collectVars, helperVars
  <1>1. CASE LoopTop
    BY <1>1 DEF LoopTop
  <1>2. CASE HelperFinalize
    BY <1>2 DEF HelperFinalize
  <1>3. CASE HelperSweepDone
    BY <1>3 DEF HelperSweepDone
  <1>4. CASE FreeCurrentArray
    BY <1>4 DEF FreeCurrentArray
  <1>5. CASE FreeFullArrays
    BY <1>5 DEF FreeFullArrays
  <1>6. CASE HelperExpire
    BY <1>6 DEF HelperExpire
  <1>7. CASE HelperFree
    BY <1>7 DEF HelperFree
  <1>8. CASE HelperRecheck
    BY <1>8 DEF HelperRecheck, EndSweeping
  <1>9. CASE HelperDecommitted
    BY <1>9 DEF HelperDecommitted, EndSweeping
  <1>10. CASE HelperAllocate
    BY <1>10 DEF HelperAllocate
  <1>11. CASE HelperPut
    BY <1>11 DEF HelperPut
  <1> QED
    BY <1>1, <1>2, <1>3, <1>4, <1>5, <1>6, <1>7, <1>8, <1>9, <1>10, <1>11 DEF Helper

\* mutators give it work only out of sessions,
LEMMA ControlMutator == TypeOK /\ ControlInv /\ (Mutator \/ Wait \/ OffThread) => ControlInv'
  <1> SUFFICES ASSUME TypeOK, ControlInv, Mutator \/ Wait \/ OffThread PROVE ControlInv'
    OBVIOUS
  <1>p. PlainType
    BY TypeParts
  <1> USE <1>p DEF PlainType, State, HelperPC, ExpirePC, SweepPC, AllocatePC, MainPC, WaitPC, GCPC,
          InSession, HelperInv, SessionInv, LastInv, lastGC, sweeping, ControlInv, MutatorUnchanged,
          OffThreadUnchanged, NotifyWakeup, startBackgroundAllocationIfIdle,
          gcVars, collectVars, helperVars
  <1>1. CASE MainPickChunk
    BY <1>1 DEF MainPickChunk, PickChunk, Get
  <1>2. CASE ShrinkGCBuffers
    BY <1>2 DEF ShrinkGCBuffers, startBackgroundShrink
  <1>3. CASE OutOfMemoryRetry
    BY <1>3 DEF OutOfMemoryRetry
  <1>4. CASE EnterSweepWait
    BY <1>4 DEF EnterSweepWait
  <1>5. CASE Collect
    BY <1>5 DEF Collect
  <1>6. CASE SweepWait
    BY <1>6 DEF SweepWait
  <1>7. CASE SweepOrAllocWait
    BY <1>7 DEF SweepOrAllocWait
  <1>8. CASE OffThreadEnter
    BY <1>8 DEF OffThreadEnter, isHeapBusy
  <1>9. CASE OffThreadPickChunk
    BY <1>9 DEF OffThreadPickChunk, PickChunk, Get
  <1> QED
    BY <1>1, <1>2, <1>3, <1>4, <1>5, <1>6, <1>7, <1>8, <1>9 DEF Mutator, Wait, OffThread

\* and the collector when it has waited for it.
LEMMA ControlCollector == TypeOK /\ ControlInv /\ Collector => ControlInv'
  <1> SUFFICES ASSUME TypeOK, ControlInv, Collector PROVE ControlInv'
    OBVIOUS
  <1>p. PlainType
    BY TypeParts
  <1> USE <1>p DEF PlainType, State, HelperPC, ExpirePC, SweepPC, AllocatePC, MainPC, WaitPC, GCPC,
          InSession, HelperInv, SessionInv, LastInv, lastGC, sweeping, ControlInv, CollectorUnchanged,
          NotifyWakeup, gcShouldCleanUpEverything, gcVars, collectVars, helperVars
  <1>1. CASE StartSession
    BY <1>1 DEF StartSession
  <1>2. CASE ResetOrContinue
    BY <1>2 DEF ResetOrContinue
  <1>3. CASE Mark
    BY <1>3 DEF Mark, BeginSweepPhase
  <1>4. CASE ForegroundSweep
    BY <1>4 DEF ForegroundSweep
  <1>5. CASE EndSweepInBackground
    BY <1>5 DEF EndSweepInBackground, startBackgroundSweep
  <1>6. CASE EndSweepInForeground
    BY <1>6 DEF EndSweepInForeground
  <1>7. CASE ForegroundFree
    BY <1>7 DEF ForegroundFree
  <1>8. CASE ForegroundFinalize
    BY <1>8 DEF ForegroundFinalize
  <1>9. CASE ForegroundSweepDone
    BY <1>9 DEF ForegroundSweepDone
  <1>10. CASE EndSession
    BY <1>10 DEF EndSession
  <1>11. CASE Finish
    BY <1>11 DEF Finish
  <1>12. CASE FinishGC
    BY <1>12 DEF FinishGC
  <1> QED
    BY <1>1, <1>2, <1>3, <1>4, <1>5, <1>6, <1>7, <1>8, <1>9, <1>10, <1>11, <1>12 DEF Collector

\* The control of all threads is inductive.
LEMMA ControlStep == TypeOK /\ ControlInv /\ [Next]_vars => ControlInv'
  <1>1. ControlInv /\ UNCHANGED vars => ControlInv'
    BY DEF vars, ControlInv, HelperInv, SessionInv, LastInv, InSession, sweeping, lastGC,
           helperVars, gcVars, collectVars
  <1> QED
    BY <1>1, NextCases, ControlHelper, ControlMutator, ControlCollector

\* What a collection puts in the helper's queues is there while it sweeps and
\* until the helper comes to it.
QueueInv ==
    /\ arenaListsToSweep # {} =>
          gcIncrementalState = "SWEEP" \/ sweepFlag \/ helperPC = "sweep"
    /\ freeArray # <<>> =>
          \/ gcIncrementalState = "SWEEP" /\ gcSweepOnBackgroundThread
          \/ sweepFlag \/ helperPC \in {"sweep", "freeArray"}
    /\ freeVector # <<>> =>
          \/ gcIncrementalState = "SWEEP" /\ gcSweepOnBackgroundThread
          \/ sweepFlag \/ helperPC \in {"sweep", "freeArray", "freeVector"}
    /\ gcSweepingZones = "zones" =>
          sweepFlag \/ helperPC = "sweep" \/ mainPC \in {"fgFree", "fgSweep"}

\* A shrink is asked for only while the helper sweeps; until it has emptied the
\* pool its flag is set.
ShrinkInv ==
    /\ shrinkAsked => sweeping
    /\ shrinkAsked /\ helperPC \notin {"shrinkFree", "decommit"} => shrinkFlag
    /\ helperPC \in {"shrinkFree", "decommit"} => pool = <<>>

\* A mapped chunk is in one place.
Distinct == \A i, j \in DOMAIN pool : pool[i].chunk = pool[j].chunk => i = j
PlaceInv ==
    /\ mapped = chunkSet \cup InPool \cup toFree["main"] \cup toFree["helper"] \cup fresh
    /\ \A c \in chunkSet : c \notin InPool \cup toFree["main"] \cup toFree["helper"] \cup fresh
    /\ \A c \in InPool : c \notin toFree["main"] \cup toFree["helper"] \cup fresh
    /\ \A c \in toFree["main"] : c \notin toFree["helper"] \cup fresh
    /\ \A c \in toFree["helper"] : c \notin fresh
    /\ Distinct
    /\ arenaListsToSweep \subseteq chunkSet

\* A thread has chunks in its hands only between two sections of the lock.
HandInv ==
    /\ \A c, d \in fresh : c = d
    /\ toFree["main"] # {} => mainPC = "fgFree"
    /\ toFree["helper"] # {} => helperPC \in {"free", "shrinkFree"}
    /\ fresh # {} => helperPC = "put"

\* A pointer queued is in one buffer or free.
InVector == UNION {Elements(freeVector[i]) : i \in DOMAIN freeVector}
FreeInv ==
    /\ queued = Elements(freeArray) \cup InVector \cup freed
    /\ Elements(freeArray) \cap freed = {} /\ InVector \cap freed = {}
    /\ Elements(freeArray) \cap InVector = {}
    /\ Len(freeArray) <= FreeArrayLength
    /\ \A i \in DOMAIN freeVector : Len(freeVector[i]) = FreeArrayLength
    /\ Cardinality(Elements(freeArray)) = Len(freeArray)
    /\ Cardinality(InVector) = FreeArrayLength * Len(freeVector)

\* No queue has anything in it at first, and no shrink is asked for.
LEMMA QueueInit == Init => QueueInv /\ ShrinkInv
  BY DEF Init, QueueInv, ShrinkInv

\* The helper empties its queues before it goes on, and the last collection does
\* so itself.
LEMMA QueueStep ==
    TypeOK /\ ControlInv /\ QueueInv /\ [Next]_vars => QueueInv'
  <1> SUFFICES ASSUME TypeOK, ControlInv, QueueInv, [Next]_vars
               PROVE  QueueInv'
    OBVIOUS
  <1>p. PlainType /\ DataType
    BY TypeParts
  <1> USE <1>p DEF PlainType, State, HelperPC, ExpirePC, SweepPC, AllocatePC, MainPC, WaitPC, GCPC,
          InSession, ControlInv, HelperInv, SessionInv, LastInv, lastGC, sweeping, NotifyWakeup,
          HelperUnchanged, MutatorUnchanged, OffThreadUnchanged, CollectorUnchanged,
          startBackgroundAllocationIfIdle, gcVars, collectVars, helperVars, chunkVars, freeVars, QueueInv
  <1>1. CASE Helper
    <2>1. CASE LoopTop
      BY <2>1 DEF LoopTop
    <2>2. CASE HelperFinalize
      BY <2>2 DEF HelperFinalize, BackgroundFinalize, ReleaseChunk
    <2>3. CASE HelperSweepDone
      BY <2>3 DEF HelperSweepDone
    <2>4. CASE FreeCurrentArray
      BY <2>4 DEF FreeCurrentArray
    <2>5. CASE FreeFullArrays
      BY <2>5 DEF FreeFullArrays
    <2>6. CASE HelperExpire
      BY <2>6 DEF HelperExpire, Expire
    <2>7. CASE HelperFree
      BY <2>7 DEF HelperFree, FreeChunkList
    <2>8. CASE HelperRecheck
      BY <2>8 DEF HelperRecheck, EndSweeping, Expire
    <2>9. CASE HelperDecommitted
      BY <2>9 DEF HelperDecommitted, EndSweeping
    <2>10. CASE HelperAllocate
      BY <2>10 DEF HelperAllocate
    <2>11. CASE HelperPut
      BY <2>11 DEF HelperPut
    <2> QED
      BY <1>1, <2>1, <2>2, <2>3, <2>4, <2>5, <2>6, <2>7, <2>8, <2>9, <2>10, <2>11 DEF Helper
  <1>2. CASE Mutator \/ Wait \/ OffThread
    <2>1. CASE MainPickChunk
      BY <2>1 DEF MainPickChunk, PickChunk, Get
    <2>2. CASE ShrinkGCBuffers
      BY <2>2 DEF ShrinkGCBuffers, startBackgroundShrink
    <2>3. CASE OutOfMemoryRetry
      BY <2>3 DEF OutOfMemoryRetry
    <2>4. CASE EnterSweepWait
      BY <2>4 DEF EnterSweepWait
    <2>5. CASE Collect
      BY <2>5 DEF Collect
    <2>6. CASE SweepWait
      BY <2>6 DEF SweepWait
    <2>7. CASE SweepOrAllocWait
      BY <2>7 DEF SweepOrAllocWait
    <2>8. CASE OffThreadEnter
      BY <2>8 DEF OffThreadEnter
    <2>9. CASE OffThreadPickChunk
      BY <2>9 DEF OffThreadPickChunk, PickChunk, Get
    <2> QED
      BY <1>2, <2>1, <2>2, <2>3, <2>4, <2>5, <2>6, <2>7, <2>8, <2>9 DEF Mutator, Wait, OffThread
  <1>3. CASE Collector
    <2>1. CASE StartSession
      BY <2>1 DEF StartSession
    <2>2. CASE ResetOrContinue
      BY <2>2 DEF ResetOrContinue
    <2>3. CASE Mark
      BY <2>3 DEF Mark, BeginSweepPhase
    <2>4. CASE ForegroundSweep
      BY <2>4 DEF ForegroundSweep, ReleaseChunk, FreeLater, replenishAndFreeLater
    <2>5. CASE EndSweepInBackground
      BY <2>5 DEF EndSweepInBackground, startBackgroundSweep
    <2>6. CASE EndSweepInForeground
      BY <2>6 DEF EndSweepInForeground, Expire
    <2>7. CASE ForegroundFree
      BY <2>7 DEF ForegroundFree, FreeChunkList
    <2>8. CASE ForegroundFinalize
      BY <2>8 DEF ForegroundFinalize, BackgroundFinalize, ReleaseChunk
    <2>9. CASE ForegroundSweepDone
      BY <2>9 DEF ForegroundSweepDone
    <2>10. CASE EndSession
      BY <2>10 DEF EndSession
    <2>11. CASE Finish
      BY <2>11 DEF Finish
    <2>12. CASE FinishGC
      BY <2>12 DEF FinishGC
    <2> QED
      BY <1>3, <2>1, <2>2, <2>3, <2>4, <2>5, <2>6, <2>7, <2>8, <2>9, <2>10, <2>11, <2>12 DEF Collector
  <1>4. CASE UNCHANGED vars
    BY <1>4 DEF vars
  <1> QED
    BY <1>1, <1>2, <1>3, <1>4, NextCases

\* expire(TRUE) leaves no chunk in the pool.
LEMMA ExpireAll ==
    ASSUME TypeOK, NEW t \in Thread, Expire(t, TRUE)
    PROVE  pool' = <<>>
  <1>1. {i \in DOMAIN pool : Expires(TRUE, i)} = DOMAIN pool
    BY DEF Expires
  <1>2. PICK kept \in Ascending({}) :
          pool' = [i \in DOMAIN kept |-> [pool[kept[i]] EXCEPT !.age = @ + 1]]
    BY <1>1 DEF Expire
  <1>3. DOMAIN kept = 1..0
    BY <1>2, FS_EmptySet DEF Ascending
  <1>4. pool' \in Seq(PooledChunk) /\ DOMAIN pool' = {}
    BY <1>2, <1>3, ExpireType
  <1> QED
    BY <1>4, EmptySeq, LenProperties

\* A sweep is over only when no shrink is left to do, and the pool stays empty
\* after it.
LEMMA ShrinkStep ==
    TypeOK /\ ControlInv /\ ShrinkInv /\ [Next]_vars => ShrinkInv'
  <1> SUFFICES ASSUME TypeOK, ControlInv, ShrinkInv, [Next]_vars
               PROVE  ShrinkInv'
    OBVIOUS
  <1>p. PlainType /\ DataType
    BY TypeParts
  <1>f. FlagType
    BY TypeParts
  <1> USE <1>p DEF PlainType, State, HelperPC, ExpirePC, SweepPC, AllocatePC, MainPC, WaitPC, GCPC,
          InSession, ControlInv, HelperInv, SessionInv, LastInv, lastGC, sweeping, NotifyWakeup,
          HelperUnchanged, MutatorUnchanged, OffThreadUnchanged, CollectorUnchanged,
          startBackgroundAllocationIfIdle, gcVars, collectVars, helperVars, chunkVars, freeVars, ShrinkInv
  <1>1. CASE Helper
    <2>1. CASE LoopTop
      BY <2>1 DEF LoopTop
    <2>2. CASE HelperFinalize
      BY <2>2 DEF HelperFinalize, BackgroundFinalize, ReleaseChunk
    <2>3. CASE HelperSweepDone
      BY <2>3 DEF HelperSweepDone
    <2>4. CASE FreeCurrentArray
      BY <2>4 DEF FreeCurrentArray
    <2>5. CASE FreeFullArrays
      BY <2>5 DEF FreeFullArrays
    <2>6. CASE HelperExpire
      <3>1. CASE shrinkFlag
        <4>1. Expire("helper", TRUE)
          BY <2>6, <3>1, <1>f DEF HelperExpire, FlagType
        <4>2. pool' = <<>>
          BY <4>1, ExpireAll DEF Thread
        <4> QED
          BY <2>6, <3>1, <4>2 DEF HelperExpire
      <3>2. CASE ~shrinkFlag
        BY <2>6, <3>2 DEF HelperExpire
      <3> QED
        BY <3>1, <3>2
    <2>7. CASE HelperFree
      BY <2>7 DEF HelperFree, FreeChunkList
    <2>8. CASE HelperRecheck
      <3>1. CASE shrinkFlag
        <4>1. pool' = <<>>
          BY <2>8, <3>1, ExpireAll DEF HelperRecheck, Thread
        <4> QED
          BY <2>8, <3>1, <4>1 DEF HelperRecheck
      <3>2. CASE ~shrinkFlag
        BY <2>8, <3>2 DEF HelperRecheck, EndSweeping
      <3> QED
        BY <3>1, <3>2
    <2>9. CASE HelperDecommitted
      BY <2>9 DEF HelperDecommitted, EndSweeping
    <2>10. CASE HelperAllocate
      BY <2>10 DEF HelperAllocate
    <2>11. CASE HelperPut
      BY <2>11 DEF HelperPut
    <2> QED
      BY <1>1, <2>1, <2>2, <2>3, <2>4, <2>5, <2>6, <2>7, <2>8, <2>9, <2>10, <2>11 DEF Helper
  <1>2. CASE Mutator \/ Wait \/ OffThread
    <2>1. CASE MainPickChunk
      BY <2>1 DEF MainPickChunk, PickChunk, Get
    <2>2. CASE ShrinkGCBuffers
      BY <2>2 DEF ShrinkGCBuffers, startBackgroundShrink
    <2>3. CASE OutOfMemoryRetry
      BY <2>3 DEF OutOfMemoryRetry
    <2>4. CASE EnterSweepWait
      BY <2>4 DEF EnterSweepWait
    <2>5. CASE Collect
      BY <2>5 DEF Collect
    <2>6. CASE SweepWait
      BY <2>6 DEF SweepWait
    <2>7. CASE SweepOrAllocWait
      BY <2>7 DEF SweepOrAllocWait
    <2>8. CASE OffThreadEnter
      BY <2>8 DEF OffThreadEnter
    <2>9. CASE OffThreadPickChunk
      BY <2>9 DEF OffThreadPickChunk, PickChunk, Get
    <2> QED
      BY <1>2, <2>1, <2>2, <2>3, <2>4, <2>5, <2>6, <2>7, <2>8, <2>9 DEF Mutator, Wait, OffThread
  <1>3. CASE Collector
    <2>1. CASE StartSession
      BY <2>1 DEF StartSession
    <2>2. CASE ResetOrContinue
      BY <2>2 DEF ResetOrContinue
    <2>3. CASE Mark
      BY <2>3 DEF Mark, BeginSweepPhase
    <2>4. CASE ForegroundSweep
      BY <2>4 DEF ForegroundSweep, ReleaseChunk, FreeLater, replenishAndFreeLater
    <2>5. CASE EndSweepInBackground
      BY <2>5 DEF EndSweepInBackground, startBackgroundSweep
    <2>6. CASE EndSweepInForeground
      BY <2>6 DEF EndSweepInForeground, Expire
    <2>7. CASE ForegroundFree
      BY <2>7 DEF ForegroundFree, FreeChunkList
    <2>8. CASE ForegroundFinalize
      BY <2>8 DEF ForegroundFinalize, BackgroundFinalize, ReleaseChunk
    <2>9. CASE ForegroundSweepDone
      BY <2>9 DEF ForegroundSweepDone
    <2>10. CASE EndSession
      BY <2>10 DEF EndSession
    <2>11. CASE Finish
      BY <2>11 DEF Finish
    <2>12. CASE FinishGC
      BY <2>12 DEF FinishGC
    <2> QED
      BY <1>3, <2>1, <2>2, <2>3, <2>4, <2>5, <2>6, <2>7, <2>8, <2>9, <2>10, <2>11, <2>12 DEF Collector
  <1>4. CASE UNCHANGED vars
    BY <1>4 DEF vars
  <1> QED
    BY <1>1, <1>2, <1>3, <1>4, NextCases

-----------------------------------------------------------------------------
(* Chunks. *)

\* put() adds a chunk to those of the pool,
LEMMA PoolPut ==
    ASSUME TypeOK, Distinct, NEW c \in Chunk, c \notin InPool, pool' = Put(c)
    PROVE  InPool' = InPool \cup {c} /\ Distinct'
  <1> DEFINE e == [chunk |-> c, age |-> 0]
  <1>1. pool \in Seq(PooledChunk) /\ e \in PooledChunk
    BY HelperAssumption DEF TypeOK, PooledChunk
  <1>2. <<e>> \in Seq(PooledChunk) /\ Len(<<e>>) = 1 /\ <<e>>[1] = e
    BY <1>1
  <1>3. /\ pool' \in Seq(PooledChunk) /\ Len(pool') = Len(pool) + 1
        /\ \A i \in 1..(Len(pool) + 1) : pool'[i] = IF i <= 1 THEN e ELSE pool[i - 1]
    BY <1>1, <1>2, ConcatProperties DEF Put
  <1>4. DOMAIN pool = 1..Len(pool) /\ DOMAIN pool' = 1..(Len(pool) + 1) /\ Len(pool) \in Nat
    BY <1>1, <1>3
  <1>5. pool'[1].chunk = c /\ \A i \in DOMAIN pool : pool'[i + 1].chunk = pool[i].chunk
    BY <1>3, <1>4
  <1>6. \A i \in DOMAIN pool' : i = 1 \/ (i - 1 \in DOMAIN pool /\ pool'[i].chunk = pool[i - 1].chunk)
    BY <1>3, <1>4
  <1> HIDE DEF e
  <1>7. InPool' = InPool \cup {c}
    <2>1. InPool' \subseteq InPool \cup {c}
      BY <1>5, <1>6 DEF InPool
    <2>2. InPool \cup {c} \subseteq InPool'
      <3>1. 1 \in DOMAIN pool' /\ \A i \in DOMAIN pool : i + 1 \in DOMAIN pool'
        BY <1>4
      <3> QED
        BY <1>5, <3>1 DEF InPool
    <2> QED
      BY <2>1, <2>2
  <1>8. \A i \in DOMAIN pool : pool[i].chunk # c
    BY DEF InPool
  <1>9. Distinct'
    BY <1>4, <1>5, <1>6, <1>8 DEF Distinct
  <1> QED
    BY <1>7, <1>9

\* get() takes the first away,
LEMMA PoolGet ==
    ASSUME TypeOK, Distinct, pool # <<>>, pool' = Tail(pool)
    PROVE  InPool' = InPool \ {Head(pool).chunk} /\ Head(pool).chunk \in InPool /\ Distinct'
  <1>1. pool \in Seq(PooledChunk)
    BY DEF TypeOK
  <1>2. /\ pool' \in Seq(PooledChunk) /\ Len(pool') = Len(pool) - 1
        /\ \A i \in 1..Len(pool') : pool'[i] = pool[i + 1]
        /\ Len(pool) \in Nat \ {0}
    BY <1>1, HeadTailProperties, EmptySeq
  <1>3. /\ DOMAIN pool = 1..Len(pool) /\ DOMAIN pool' = 1..(Len(pool) - 1)
        /\ Head(pool) = pool[1] /\ 1 \in DOMAIN pool
    BY <1>1, <1>2
  <1>4. \A i \in DOMAIN pool' : i + 1 \in DOMAIN pool /\ i + 1 # 1 /\ pool'[i] = pool[i + 1]
    BY <1>2, <1>3
  <1>5. \A i \in DOMAIN pool : i = 1 \/ (i - 1 \in DOMAIN pool' /\ pool'[i - 1] = pool[i])
    BY <1>2, <1>3
  <1>6. InPool' \subseteq InPool \ {Head(pool).chunk}
    BY <1>3, <1>4 DEF InPool, Distinct
  <1>7. InPool \ {Head(pool).chunk} \subseteq InPool'
    BY <1>3, <1>5 DEF InPool
  <1>8. Distinct'
    <2>1. ASSUME NEW i \in DOMAIN pool', NEW j \in DOMAIN pool', pool'[i].chunk = pool'[j].chunk
          PROVE  i = j
      <3>1. i + 1 = j + 1
        BY <1>4, <2>1 DEF Distinct
      <3> QED
        BY <1>3, <2>1, <3>1
    <2> QED
      BY <2>1 DEF Distinct
  <1>9. Head(pool).chunk \in InPool
    BY <1>3 DEF InPool
  <1> QED
    BY <1>6, <1>7, <1>8, <1>9

\* and expire() divides the pool between the thread and what is left.
LEMMA PoolExpire ==
    ASSUME TypeOK, Distinct, NEW t \in Thread, NEW releaseAll \in BOOLEAN, Expire(t, releaseAll)
    PROVE  /\ InPool' \cup toFree'[t] = InPool /\ InPool' \cap toFree'[t] = {}
           /\ \A u \in Thread \ {t} : toFree'[u] = toFree[u]
           /\ Distinct'
  <1> DEFINE out == {i \in DOMAIN pool : Expires(releaseAll, i)}
  <1>1. toFree' = [toFree EXCEPT ![t] = {pool[i].chunk : i \in out}]
    BY DEF Expire
  <1>2. PICK kept \in Ascending(DOMAIN pool \ out) :
          pool' = [i \in DOMAIN kept |-> [pool[kept[i]] EXCEPT !.age = @ + 1]]
    BY DEF Expire
  <1>3. toFree \in [Thread -> SUBSET Chunk] /\ \A i \in DOMAIN pool : pool[i] \in PooledChunk
    <2>1. toFree \in [Thread -> SUBSET Chunk] /\ pool \in Seq(PooledChunk)
      BY DEF TypeOK
    <2> QED
      BY <2>1
  <1>4. /\ DOMAIN pool \ out = {kept[i] : i \in DOMAIN kept}
        /\ \A i, j \in DOMAIN kept : i < j => kept[i] < kept[j]
        /\ DOMAIN kept = 1..Cardinality(DOMAIN pool \ out)
    BY <1>2 DEF Ascending
  <1> HIDE DEF out
  <1>5. out \subseteq DOMAIN pool
    BY DEF out
  <1>6. \A i \in DOMAIN kept : pool'[i].chunk = pool[kept[i]].chunk /\ kept[i] \in DOMAIN pool \ out
    <2>1. ASSUME NEW i \in DOMAIN kept
          PROVE  pool'[i].chunk = pool[kept[i]].chunk /\ kept[i] \in DOMAIN pool \ out
      <3>1. kept[i] \in DOMAIN pool \ out /\ pool[kept[i]] \in PooledChunk
        BY <1>3, <1>4
      <3>2. pool'[i] = [pool[kept[i]] EXCEPT !.age = @ + 1]
        BY <1>2
      <3> QED
        BY <3>1, <3>2 DEF PooledChunk
    <2> QED
      BY <2>1
  <1>7. DOMAIN pool' = DOMAIN kept
    BY <1>2
  <1>8. InPool' = {pool[i].chunk : i \in DOMAIN pool \ out}
    <2>1. \A i \in DOMAIN pool \ out : \E j \in DOMAIN kept : kept[j] = i
      BY <1>4
    <2>2. {pool[i].chunk : i \in DOMAIN pool \ out} \subseteq InPool'
      BY <1>6, <1>7, <2>1 DEF InPool
    <2>3. InPool' \subseteq {pool[i].chunk : i \in DOMAIN pool \ out}
      BY <1>6, <1>7 DEF InPool
    <2> QED
      BY <2>2, <2>3
  <1>9. toFree'[t] = {pool[i].chunk : i \in out} /\ \A u \in Thread \ {t} : toFree'[u] = toFree[u]
    BY <1>1, <1>3
  <1>10. InPool' \cup toFree'[t] = InPool /\ InPool' \cap toFree'[t] = {}
    <2>1. InPool' \cup toFree'[t] = InPool
      BY <1>5, <1>8, <1>9 DEF InPool
    <2>2. \A i \in DOMAIN pool \ out, j \in out : pool[i].chunk # pool[j].chunk
      BY <1>5 DEF Distinct
    <2> QED
      BY <1>8, <1>9, <2>1, <2>2
  <1>11. \A i, j \in DOMAIN kept : kept[i] = kept[j] => i = j
    <2>1. ASSUME NEW i \in DOMAIN kept, NEW j \in DOMAIN kept, i # j PROVE kept[i] # kept[j]
      <3>1. pool \in Seq(PooledChunk)
        BY DEF TypeOK
      <3>2. DOMAIN pool = 1..Len(pool) /\ Len(pool) \in Nat
        BY <3>1
      <3>3. IsFiniteSet(DOMAIN pool)
        BY <3>2, FS_Interval
      <3>4. Cardinality(DOMAIN pool \ out) \in Nat
        BY <3>3, FS_Difference, FS_CardinalityType
      <3>5. i \in Int /\ j \in Int
        BY <1>4, <2>1, <3>4
      <3>6. kept[i] \in Int /\ kept[j] \in Int
        BY <1>6, <2>1, <3>2
      <3>7. (i < j => kept[i] < kept[j]) /\ (j < i => kept[j] < kept[i])
        BY <1>4, <2>1
      <3> QED
        BY <2>1, <3>5, <3>6, <3>7
    <2> QED
      BY <2>1
  <1>12. Distinct'
    BY <1>6, <1>7, <1>11 DEF Distinct
  <1> QED
    BY <1>9, <1>10, <1>12

\* No chunk is mapped at first.
LEMMA ChunkInit == Init => PlaceInv /\ HandInv
  BY DEF Init, PlaceInv, HandInv, Distinct, InPool, Thread

\* The steps that move a chunk keep it in one place.
LEMMA ReleasePlace ==
    ASSUME TypeOK, PlaceInv, NEW c \in chunkSet, ReleaseChunk(c), UNCHANGED fresh,
           arenaListsToSweep' \subseteq arenaListsToSweep, c \notin arenaListsToSweep'
    PROVE  PlaceInv'
  <1>1. c \in Chunk /\ c \notin InPool /\ Distinct
    BY DEF PlaceInv, TypeOK
  <1>2. InPool' = InPool \cup {c} /\ Distinct'
    BY <1>1, PoolPut DEF ReleaseChunk
  <1> QED
    BY <1>2 DEF PlaceInv, ReleaseChunk

\* A chunk finalized stays in use or goes to the pool;
LEMMA FinalizePlace ==
    ASSUME TypeOK, PlaceInv, NEW c \in arenaListsToSweep, BackgroundFinalize(c), UNCHANGED fresh
    PROVE  PlaceInv'
  <1>1. CASE ReleaseChunk(c)
    <2>1. /\ c \in chunkSet /\ arenaListsToSweep' \subseteq arenaListsToSweep
          /\ c \notin arenaListsToSweep'
      BY DEF PlaceInv, BackgroundFinalize
    <2> QED
      BY <1>1, <2>1, ReleasePlace
  <1>2. CASE UNCHANGED <<pool, chunkSet, toFree, mapped>>
    BY <1>2 DEF PlaceInv, BackgroundFinalize, InPool, Distinct
  <1> QED
    BY <1>1, <1>2 DEF BackgroundFinalize

\* a chunk taken comes from the pool or from the system;
LEMMA PickPlace ==
    ASSUME TypeOK, PlaceInv, PickChunk
    PROVE  PlaceInv'
  <1>1. PICK c \in Chunk :
          /\ Get(c)
          /\ \/ chunkSet' = chunkSet \cup {c} /\ mapped' = mapped \cup {c}
             \/ UNCHANGED chunkSet /\ mapped' = mapped \ {c}
    BY DEF PickChunk
  <1>2. UNCHANGED <<fresh, arenaListsToSweep, toFree>>
    BY DEF PickChunk
  <1>3. CASE pool # <<>>
    <2>1. c = Head(pool).chunk /\ pool' = Tail(pool)
      BY <1>1, <1>3 DEF Get
    <2>2. InPool' = InPool \ {c} /\ c \in InPool /\ Distinct'
      BY <1>3, <2>1, PoolGet DEF PlaceInv
    <2> QED
      BY <1>1, <1>2, <2>2 DEF PlaceInv
  <1>4. CASE pool = <<>>
    <2>1. c \notin mapped /\ InPool' = InPool /\ Distinct'
      BY <1>1, <1>4 DEF Get, InPool, PlaceInv, Distinct
    <2> QED
      BY <1>1, <1>2, <2>1 DEF PlaceInv
  <1> QED
    BY <1>3, <1>4

\* what expires is in the hands of the thread that asked;
LEMMA ExpirePlace ==
    ASSUME TypeOK, PlaceInv, NEW t \in Thread, toFree[t] = {}, NEW releaseAll \in BOOLEAN,
           Expire(t, releaseAll), UNCHANGED fresh
    PROVE  PlaceInv'
  <1>1. /\ InPool' \cup toFree'[t] = InPool /\ InPool' \cap toFree'[t] = {}
        /\ \A u \in Thread \ {t} : toFree'[u] = toFree[u]
        /\ Distinct' /\ UNCHANGED <<chunkSet, arenaListsToSweep, mapped>>
    BY PoolExpire DEF PlaceInv, Expire
  <1>2. CASE t = "main"
    BY <1>1, <1>2 DEF PlaceInv, Thread
  <1>3. CASE t = "helper"
    BY <1>1, <1>3 DEF PlaceInv, Thread
  <1> QED
    BY <1>2, <1>3 DEF Thread

\* and what is unmapped is nowhere.
LEMMA FreePlace ==
    ASSUME TypeOK, PlaceInv, NEW t \in Thread, FreeChunkList(t), UNCHANGED fresh
    PROVE  PlaceInv'
  <1>1. /\ toFree'[t] = {} /\ \A u \in Thread \ {t} : toFree'[u] = toFree[u]
        /\ mapped' = mapped \ toFree[t] /\ UNCHANGED <<pool, chunkSet, arenaListsToSweep>>
    BY DEF FreeChunkList, TypeOK
  <1>2. InPool' = InPool /\ (Distinct => Distinct')
    BY <1>1 DEF InPool, Distinct
  <1>3. CASE t = "main"
    BY <1>1, <1>2, <1>3 DEF PlaceInv, Thread
  <1>4. CASE t = "helper"
    BY <1>1, <1>2, <1>4 DEF PlaceInv, Thread
  <1> QED
    BY <1>3, <1>4 DEF Thread

\* Nothing else moves a chunk.
LEMMA PlaceFrame ==
    ASSUME PlaceInv, UNCHANGED <<chunkVars, fresh>>
    PROVE  PlaceInv'
  BY DEF PlaceInv, InPool, Distinct, chunkVars

\* Every mapped chunk stays in exactly one place.
LEMMA PlaceStep ==
    TypeOK /\ ControlInv /\ QueueInv /\ PlaceInv /\ HandInv /\ [Next]_vars => PlaceInv'
  <1> SUFFICES ASSUME TypeOK, ControlInv, QueueInv, PlaceInv, HandInv, [Next]_vars
               PROVE  PlaceInv'
    OBVIOUS
  <1> USE DEF HelperUnchanged, MutatorUnchanged, CollectorUnchanged, OffThreadUnchanged
  <1>t. "main" \in Thread /\ "helper" \in Thread
    BY DEF Thread
  <1>1. CASE Helper
    <2>1. CASE LoopTop \/ HelperSweepDone \/ FreeCurrentArray \/ FreeFullArrays \/ HelperDecommitted
      BY <2>1, PlaceFrame
         DEF LoopTop, HelperSweepDone, FreeCurrentArray, FreeFullArrays, HelperDecommitted
    <2>2. CASE HelperFinalize
      BY <2>2, FinalizePlace DEF HelperFinalize
    <2>3. CASE HelperExpire
      <3>1. toFree["helper"] = {} /\ shrinkFlag \in BOOLEAN
        BY <2>3 DEF HelperExpire, HandInv, TypeOK
      <3> QED
        BY <1>t, <2>3, <3>1, ExpirePlace DEF HelperExpire
    <2>4. CASE HelperFree
      BY <1>t, <2>4, FreePlace DEF HelperFree
    <2>5. CASE HelperRecheck
      <3>1. toFree["helper"] = {}
        BY <2>5 DEF HelperRecheck, HandInv
      <3> QED
        BY <1>t, <2>5, <3>1, ExpirePlace, PlaceFrame DEF HelperRecheck
    <2>6. CASE HelperAllocate
      <3>1. InPool' = InPool /\ Distinct' /\ UNCHANGED <<chunkSet, toFree, arenaListsToSweep>>
        BY <2>6 DEF HelperAllocate, PlaceInv, InPool, Distinct
      <3>2. fresh = {}
        BY <2>6 DEF HelperAllocate, HandInv
      <3>3. fresh' \cap mapped = {} /\ mapped' = mapped \cup fresh'
        BY <2>6 DEF HelperAllocate
      <3> QED
        BY <3>1, <3>2, <3>3 DEF PlaceInv
    <2>7. CASE HelperPut
      <3>1. fresh' = {} /\ UNCHANGED <<chunkSet, arenaListsToSweep, toFree, mapped>>
        BY <2>7 DEF HelperPut
      <3>2. InPool' = InPool \cup fresh /\ Distinct'
        <4>1. CASE fresh = {}
          <5>1. pool' = pool
            BY <2>7, <4>1 DEF HelperPut
          <5> QED
            BY <4>1, <5>1 DEF PlaceInv, InPool, Distinct
        <4>2. CASE fresh # {}
          <5>1. PICK c \in fresh : pool' = Put(c)
            BY <2>7, <4>2 DEF HelperPut
          <5>2. c \in Chunk /\ c \notin InPool /\ fresh = {c}
            BY DEF TypeOK, PlaceInv, HandInv
          <5> QED
            BY <5>1, <5>2, PoolPut DEF PlaceInv
        <4> QED
          BY <4>1, <4>2
      <3> QED
        BY <3>1, <3>2 DEF PlaceInv
    <2> QED
      BY <1>1, <2>1, <2>2, <2>3, <2>4, <2>5, <2>6, <2>7 DEF Helper
  <1>2. CASE Mutator \/ Wait \/ OffThread
    <2>1. CASE MainPickChunk \/ OffThreadPickChunk
      BY <2>1, PickPlace, PlaceFrame DEF MainPickChunk, OffThreadPickChunk
    <2>2. CASE ~(MainPickChunk \/ OffThreadPickChunk)
      BY <1>2, <2>2, PlaceFrame
         DEF Mutator, Wait, OffThread, ShrinkGCBuffers, OutOfMemoryRetry, EnterSweepWait, Collect,
             SweepWait, SweepOrAllocWait, OffThreadEnter
    <2> QED
      BY <2>1, <2>2
  <1>3. CASE Collector
    <2>1. CASE StartSession \/ ResetOrContinue \/ Mark \/ EndSweepInBackground
               \/ ForegroundSweepDone \/ EndSession \/ Finish
      BY <2>1, PlaceFrame DEF StartSession, ResetOrContinue, Mark, EndSweepInBackground,
         ForegroundSweepDone, EndSession, Finish
    <2>2. CASE ForegroundSweep
      <3>1. CASE UNCHANGED chunkVars
        BY <2>2, <3>1, PlaceFrame DEF ForegroundSweep
      <3>2. ASSUME NEW c \in chunkSet \ arenaListsToSweep, ReleaseChunk(c),
                   UNCHANGED arenaListsToSweep
            PROVE  PlaceInv'
        BY <2>2, <3>2, ReleasePlace DEF ForegroundSweep
      <3>3. ASSUME NEW c \in chunkSet, arenaListsToSweep' = arenaListsToSweep \cup {c},
                   UNCHANGED <<pool, chunkSet, toFree, mapped>>
            PROVE  PlaceInv'
        BY <2>2, <3>3 DEF ForegroundSweep, PlaceInv, InPool, Distinct
      <3> QED
        BY <2>2, <3>1, <3>2, <3>3 DEF ForegroundSweep
    <2>3. CASE EndSweepInForeground
      <3>1. toFree["main"] = {} /\ (gckind = "GC_SHRINK") \in BOOLEAN
        BY <2>3 DEF EndSweepInForeground, HandInv
      <3> QED
        BY <1>t, <2>3, <3>1, ExpirePlace DEF EndSweepInForeground
    <2>4. CASE ForegroundFree
      BY <1>t, <2>4, FreePlace DEF ForegroundFree
    <2>5. CASE ForegroundFinalize
      BY <2>5, FinalizePlace DEF ForegroundFinalize
    <2>6. CASE FinishGC
      <3>1. arenaListsToSweep = {}
        BY <2>6 DEF FinishGC, QueueInv, ControlInv, LastInv
      <3>2. /\ InPool' = {} /\ Distinct' /\ chunkSet' = {}
            /\ mapped' = mapped \ (chunkSet \cup InPool)
            /\ UNCHANGED <<arenaListsToSweep, toFree, fresh>>
        BY <2>6 DEF FinishGC, InPool, Distinct
      <3> QED
        BY <3>1, <3>2 DEF PlaceInv
    <2> QED
      BY <1>3, <2>1, <2>2, <2>3, <2>4, <2>5, <2>6 DEF Collector
  <1>4. CASE UNCHANGED vars
    BY <1>4, PlaceFrame DEF vars
  <1> QED
    BY <1>1, <1>2, <1>3, <1>4, NextCases

\* A thread gives its chunks away before it goes on.
LEMMA HandStep ==
    TypeOK /\ ControlInv /\ HandInv /\ [Next]_vars => HandInv'
  <1> SUFFICES ASSUME TypeOK, ControlInv, HandInv, [Next]_vars
               PROVE  HandInv'
    OBVIOUS
  <1>p. PlainType /\ DataType
    BY TypeParts
  <1> USE <1>p DEF PlainType, State, HelperPC, ExpirePC, SweepPC, AllocatePC, MainPC, WaitPC, GCPC,
          InSession, ControlInv, HelperInv, SessionInv, LastInv, lastGC, sweeping, NotifyWakeup,
          HelperUnchanged, MutatorUnchanged, OffThreadUnchanged, CollectorUnchanged,
          startBackgroundAllocationIfIdle, gcVars, collectVars, helperVars, chunkVars, freeVars,
          HandInv, DataType
  <1>1. CASE Helper
    <2>1. CASE LoopTop
      BY <2>1 DEF LoopTop
    <2>2. CASE HelperFinalize
      BY <2>2 DEF HelperFinalize, BackgroundFinalize, ReleaseChunk
    <2>3. CASE HelperSweepDone
      BY <2>3 DEF HelperSweepDone
    <2>4. CASE FreeCurrentArray
      BY <2>4 DEF FreeCurrentArray
    <2>5. CASE FreeFullArrays
      BY <2>5 DEF FreeFullArrays
    <2>6. CASE HelperExpire
      BY <2>6 DEF HelperExpire, Expire, Thread
    <2>7. CASE HelperFree
      BY <2>7 DEF HelperFree, FreeChunkList, Thread
    <2>8. CASE HelperRecheck
      BY <2>8 DEF HelperRecheck, EndSweeping, Expire, Thread
    <2>9. CASE HelperDecommitted
      BY <2>9 DEF HelperDecommitted, EndSweeping
    <2>10. CASE HelperAllocate
      BY <2>10 DEF HelperAllocate
    <2>11. CASE HelperPut
      BY <2>11 DEF HelperPut
    <2> QED
      BY <1>1, <2>1, <2>2, <2>3, <2>4, <2>5, <2>6, <2>7, <2>8, <2>9, <2>10, <2>11 DEF Helper
  <1>2. CASE Mutator \/ Wait \/ OffThread
    <2>1. CASE MainPickChunk
      BY <2>1 DEF MainPickChunk, PickChunk, Get
    <2>2. CASE ShrinkGCBuffers
      BY <2>2 DEF ShrinkGCBuffers, startBackgroundShrink
    <2>3. CASE OutOfMemoryRetry
      BY <2>3 DEF OutOfMemoryRetry
    <2>4. CASE EnterSweepWait
      BY <2>4 DEF EnterSweepWait
    <2>5. CASE Collect
      BY <2>5 DEF Collect
    <2>6. CASE SweepWait
      BY <2>6 DEF SweepWait
    <2>7. CASE SweepOrAllocWait
      BY <2>7 DEF SweepOrAllocWait
    <2>8. CASE OffThreadEnter
      BY <2>8 DEF OffThreadEnter
    <2>9. CASE OffThreadPickChunk
      BY <2>9 DEF OffThreadPickChunk, PickChunk, Get
    <2> QED
      BY <1>2, <2>1, <2>2, <2>3, <2>4, <2>5, <2>6, <2>7, <2>8, <2>9 DEF Mutator, Wait, OffThread
  <1>3. CASE Collector
    <2>1. CASE StartSession
      BY <2>1 DEF StartSession
    <2>2. CASE ResetOrContinue
      BY <2>2 DEF ResetOrContinue
    <2>3. CASE Mark
      BY <2>3 DEF Mark, BeginSweepPhase
    <2>4. CASE ForegroundSweep
      BY <2>4 DEF ForegroundSweep, ReleaseChunk, FreeLater, replenishAndFreeLater
    <2>5. CASE EndSweepInBackground
      BY <2>5 DEF EndSweepInBackground, startBackgroundSweep
    <2>6. CASE EndSweepInForeground
      BY <2>6 DEF EndSweepInForeground, Expire, Thread
    <2>7. CASE ForegroundFree
      BY <2>7 DEF ForegroundFree, FreeChunkList, Thread
    <2>8. CASE ForegroundFinalize
      BY <2>8 DEF ForegroundFinalize, BackgroundFinalize, ReleaseChunk
    <2>9. CASE ForegroundSweepDone
      BY <2>9 DEF ForegroundSweepDone
    <2>10. CASE EndSession
      BY <2>10 DEF EndSession
    <2>11. CASE Finish
      BY <2>11 DEF Finish
    <2>12. CASE FinishGC
      BY <2>12 DEF FinishGC
    <2> QED
      BY <1>3, <2>1, <2>2, <2>3, <2>4, <2>5, <2>6, <2>7, <2>8, <2>9, <2>10, <2>11, <2>12 DEF Collector
  <1>4. CASE UNCHANGED vars
    BY <1>4 DEF vars
  <1> QED
    BY <1>1, <1>2, <1>3, <1>4, NextCases

-----------------------------------------------------------------------------
(* Pointers. *)

\* What one more element, or one more array, adds to the buffers.
LEMMA ElementsAppend ==
    ASSUME NEW S, NEW array \in Seq(S), NEW x \in S
    PROVE  Elements(Append(array, x)) = Elements(array) \cup {x}
  <1>1. /\ DOMAIN array = 1..Len(array) /\ Len(array) \in Nat
        /\ DOMAIN Append(array, x) = 1..(Len(array) + 1)
        /\ \A i \in 1..Len(array) : Append(array, x)[i] = array[i]
        /\ Append(array, x)[Len(array) + 1] = x
    BY AppendProperties
  <1>2. DOMAIN Append(array, x) = DOMAIN array \cup {Len(array) + 1}
    BY <1>1
  <1> HIDE <1>1
  <1>3. \A i \in DOMAIN array : Append(array, x)[i] = array[i]
    BY <1>1
  <1>4. Append(array, x)[Len(array) + 1] = x
    BY <1>1
  <1> QED
    BY <1>2, <1>3, <1>4 DEF Elements

\* A full array is added to those that wait.
LEMMA VectorAppend ==
    ASSUME TypeOK, freeVector' = Append(freeVector, freeArray)
    PROVE  /\ InVector' = InVector \cup Elements(freeArray)
           /\ Len(freeVector') = Len(freeVector) + 1 /\ Len(freeVector) \in Nat
           /\ \A i \in DOMAIN freeVector' :
                 \/ i \in DOMAIN freeVector /\ freeVector'[i] = freeVector[i]
                 \/ freeVector'[i] = freeArray
  <1>1. freeVector \in Seq(Seq(Pointer)) /\ freeArray \in Seq(Pointer)
    BY DEF TypeOK
  <1>2. /\ DOMAIN freeVector = 1..Len(freeVector) /\ Len(freeVector) \in Nat
        /\ Len(freeVector') = Len(freeVector) + 1
        /\ DOMAIN freeVector' = 1..(Len(freeVector) + 1)
        /\ \A i \in 1..Len(freeVector) : freeVector'[i] = freeVector[i]
        /\ freeVector'[Len(freeVector) + 1] = freeArray
    BY <1>1, AppendProperties
  <1>3. DOMAIN freeVector' = DOMAIN freeVector \cup {Len(freeVector) + 1}
    BY <1>2
  <1>4. \A i \in DOMAIN freeVector : freeVector'[i] = freeVector[i]
    BY <1>2
  <1>5. freeVector'[Len(freeVector) + 1] = freeArray
    BY <1>2
  <1>6. InVector' = InVector \cup Elements(freeArray)
    BY <1>3, <1>4, <1>5 DEF InVector, Elements
  <1> QED
    BY <1>2, <1>3, <1>4, <1>5, <1>6

\* Every set of pointers is finite.
LEMMA FinitePointers ==
    ASSUME NEW S \in SUBSET Pointer
    PROVE  IsFiniteSet(S) /\ Cardinality(S) \in Nat
  <1>1. IsFiniteSet(Pointer)
    BY HelperAssumption, FS_Interval DEF Pointer
  <1>2. IsFiniteSet(S)
    BY <1>1, FS_Subset
  <1> QED
    BY <1>2, FS_CardinalityType

\* What is in the buffers.
LEMMA BufferedPointers ==
    ASSUME TypeOK
    PROVE  /\ Elements(freeArray) \subseteq Pointer /\ InVector \subseteq Pointer
           /\ Len(freeArray) \in Nat /\ Len(freeVector) \in Nat
           /\ freeArray = <<>> => Elements(freeArray) = {}
           /\ Len(freeArray) = 0 => freeArray = <<>>
  <1>1. freeVector \in Seq(Seq(Pointer)) /\ freeArray \in Seq(Pointer)
    BY DEF TypeOK
  <1>2. \A i \in DOMAIN freeVector : Elements(freeVector[i]) \subseteq Pointer
    <2>1. ASSUME NEW i \in DOMAIN freeVector PROVE freeVector[i] \in Seq(Pointer)
      BY <1>1
    <2> QED
      BY <2>1 DEF Elements
  <1>3. Elements(freeArray) \subseteq Pointer
    BY <1>1 DEF Elements
  <1>4. InVector \subseteq Pointer
    BY <1>2 DEF InVector
  <1>5. freeArray = <<>> => Elements(freeArray) = {}
    BY DEF Elements
  <1>6. Len(freeArray) \in Nat /\ Len(freeVector) \in Nat /\ (Len(freeArray) = 0 => freeArray = <<>>)
    BY <1>1, EmptySeq, LenProperties
  <1> QED
    BY <1>3, <1>4, <1>5, <1>6

\* At first no pointer was queued.
LEMMA FreeInit == Init => FreeInv
  <1> SUFFICES ASSUME Init PROVE FreeInv
    OBVIOUS
  <1>1. /\ freeArray = <<>> /\ freeVector = <<>> /\ queued = {} /\ freed = {}
        /\ DOMAIN freeVector = {} /\ Len(freeArray) = 0 /\ Len(freeVector) = 0
    BY DEF Init
  <1>2. Elements(freeArray) = {} /\ InVector = {}
    BY <1>1 DEF Elements, InVector
  <1>3. Cardinality({}) = 0 /\ FreeArrayLength * 0 = 0 /\ 0 <= FreeArrayLength
    BY FS_EmptySet, HelperAssumption
  <1> QED
    BY <1>1, <1>2, <1>3 DEF FreeInv

\* freeLater() puts a new pointer in one buffer, or frees it.
LEMMA FreeLaterFree ==
    ASSUME TypeOK, FreeInv, FreeLater
    PROVE  FreeInv'
  <1> DEFINE A == Elements(freeArray)
             A1 == Elements(freeArray')
  <1>1. PICK ptr \in Pointer :
          /\ ptr \notin queued
          /\ queued' = queued \cup {ptr}
          /\ IF Len(freeArray) \in 1..(FreeArrayLength - 1)
             THEN freeArray' = Append(freeArray, ptr) /\ UNCHANGED <<freeVector, freed>>
             ELSE replenishAndFreeLater(ptr)
    BY DEF FreeLater, Pointer
  <1>2. /\ freeArray \in Seq(Pointer) /\ FreeArrayLength \in Nat \ {0}
        /\ Len(freeArray) \in Nat /\ Len(freeVector) \in Nat
        /\ freeArray = <<>> => A = {}
        /\ Len(freeArray) = 0 => freeArray = <<>>
    BY BufferedPointers, HelperAssumption DEF TypeOK
  <1>3. /\ IsFiniteSet(A) /\ IsFiniteSet(InVector)
        /\ Cardinality(A) \in Nat /\ Cardinality(InVector) \in Nat
    BY BufferedPointers, FinitePointers
  <1>4. ptr \notin A /\ ptr \notin InVector /\ ptr \notin freed
    BY <1>1 DEF FreeInv
  <1>5. Elements(<<ptr>>) = {ptr} /\ Elements(<<>>) = {} /\ Cardinality({ptr}) = 1
        /\ Cardinality({}) = 0 /\ Len(<<ptr>>) = 1 /\ Len(<<>>) = 0
    BY FS_Singleton, FS_EmptySet DEF Elements
  <1>6. CASE Len(freeArray) \in 1..(FreeArrayLength - 1)
    <2>1. freeArray' = Append(freeArray, ptr) /\ UNCHANGED <<freeVector, freed>>
      BY <1>1, <1>6
    <2>2. A1 = A \cup {ptr} /\ Len(freeArray') = Len(freeArray) + 1 /\ InVector' = InVector
      BY <1>2, <2>1, ElementsAppend, AppendProperties DEF InVector
    <2>3. Cardinality(A \cup {ptr}) = Cardinality(A) + 1
      BY <1>3, <1>4, FS_AddElement
    <2>4. Len(freeArray') <= FreeArrayLength
      BY <1>2, <1>6, <2>2
    <2> QED
      BY <1>1, <1>4, <2>1, <2>2, <2>3, <2>4 DEF FreeInv
  <1>7. CASE Len(freeArray) \notin 1..(FreeArrayLength - 1)
    <2>1. replenishAndFreeLater(ptr)
      BY <1>1, <1>7
    <2>2. CASE UNCHANGED <<freeArray, freeVector>> /\ freed' = freed \cup {ptr}
      BY <1>1, <1>4, <2>2 DEF FreeInv, InVector
    <2>3. CASE /\ freeVector' = IF freeArray = <<>> THEN freeVector ELSE Append(freeVector, freeArray)
               /\ \/ freeArray' = <<>> /\ freed' = freed \cup {ptr}
                  \/ freeArray' = <<ptr>> /\ UNCHANGED freed
      <3>1. /\ InVector' = InVector \cup A
            /\ \A i \in DOMAIN freeVector' : Len(freeVector'[i]) = FreeArrayLength
            /\ Cardinality(InVector') = FreeArrayLength * Len(freeVector')
        <4>1. CASE freeArray = <<>>
          BY <1>2, <2>3, <4>1 DEF FreeInv, InVector
        <4>2. CASE freeArray # <<>>
          <5>1. freeVector' = Append(freeVector, freeArray) /\ Len(freeArray) = FreeArrayLength
            BY <1>2, <1>7, <2>3, <4>2 DEF FreeInv
          <5>2. /\ InVector' = InVector \cup A
                /\ Len(freeVector') = Len(freeVector) + 1
                /\ \A i \in DOMAIN freeVector' :
                      \/ i \in DOMAIN freeVector /\ freeVector'[i] = freeVector[i]
                      \/ freeVector'[i] = freeArray
            BY <5>1, VectorAppend
          <5>3. Cardinality(InVector \cup A) = Cardinality(InVector) + Cardinality(A)
            <6>1. Cardinality(InVector \cup A)
                     = Cardinality(InVector) + Cardinality(A) - Cardinality(InVector \cap A)
              BY <1>3, FS_Union
            <6>2. InVector \cap A = {}
              BY DEF FreeInv
            <6> QED
              BY <1>3, <6>1, <6>2, FS_EmptySet
          <5>4. Cardinality(InVector') = FreeArrayLength * Len(freeVector) + FreeArrayLength
            BY <5>1, <5>2, <5>3 DEF FreeInv
          <5>5. FreeArrayLength * (Len(freeVector) + 1)
                  = FreeArrayLength * Len(freeVector) + FreeArrayLength
            BY <1>2
          <5>6. \A i \in DOMAIN freeVector' : Len(freeVector'[i]) = FreeArrayLength
            BY <5>1, <5>2 DEF FreeInv
          <5> QED
            BY <5>2, <5>4, <5>5, <5>6
        <4> QED
          BY <4>1, <4>2
      <3>2. A1 = (IF freeArray' = <<>> THEN {} ELSE {ptr}) /\ Cardinality(A1) = Len(freeArray')
            /\ Len(freeArray') <= FreeArrayLength
        <4>1. CASE freeArray' = <<>>
          <5>1. A1 = {} /\ Cardinality(A1) = 0 /\ Len(freeArray') = 0
            BY <1>5, <4>1, Zenon
          <5> QED
            BY <1>2, <4>1, <5>1
        <4>2. CASE freeArray' = <<ptr>>
          <5>1. A1 = {ptr} /\ Cardinality(A1) = 1 /\ Len(freeArray') = 1
            BY <1>5, <4>2, Zenon
          <5>2. freeArray' # <<>>
            BY <4>2
          <5> QED
            BY <1>2, <5>1, <5>2
        <4> QED
          BY <2>3, <4>1, <4>2
      <3> QED
        BY <1>1, <1>4, <1>5, <2>3, <3>1, <3>2 DEF FreeInv
    <2> QED
      BY <2>1, <2>2, <2>3 DEF replenishAndFreeLater
  <1> QED
    BY <1>6, <1>7

\* A pointer is freed when it leaves its buffer.
LEMMA FreeStep == TypeOK /\ FreeInv /\ [Next]_vars => FreeInv'
  <1> SUFFICES ASSUME TypeOK, FreeInv, [Next]_vars PROVE FreeInv'
    OBVIOUS
  <1>u. ASSUME UNCHANGED freeVars PROVE FreeInv'
    BY <1>u DEF freeVars, FreeInv, InVector
  <1>0. Cardinality({}) = 0 /\ FreeArrayLength * 0 = 0 /\ 0 <= FreeArrayLength
        /\ Elements(<<>>) = {} /\ Len(<<>>) = 0 /\ DOMAIN <<>> = {}
    BY FS_EmptySet, HelperAssumption DEF Elements
  <1> USE DEF HelperUnchanged, MutatorUnchanged, CollectorUnchanged, OffThreadUnchanged, freeVars
  <1>1. CASE Helper
    <2>1. CASE FreeCurrentArray
      <3>1. /\ freed' = freed \cup Elements(freeArray) /\ freeArray' = <<>>
            /\ UNCHANGED <<freeVector, queued>>
        BY <2>1 DEF FreeCurrentArray
      <3>2. InVector' = InVector
        BY <3>1 DEF InVector
      <3> QED
        BY <1>0, <3>1, <3>2 DEF FreeInv
    <2>2. CASE FreeFullArrays
      <3>1. freed' = freed \cup InVector /\ freeVector' = <<>> /\ UNCHANGED <<freeArray, queued>>
        BY <2>2 DEF FreeFullArrays, InVector
      <3>2. InVector' = {}
        BY <1>0, <3>1 DEF InVector
      <3> QED
        BY <1>0, <3>1, <3>2 DEF FreeInv
    <2>3. CASE ~(FreeCurrentArray \/ FreeFullArrays)
      BY <1>1, <1>u, <2>3 DEF Helper, LoopTop, HelperFinalize, HelperSweepDone, HelperExpire,
         HelperFree, HelperRecheck, HelperDecommitted, HelperAllocate, HelperPut
    <2> QED
      BY <2>1, <2>2, <2>3
  <1>2. CASE Mutator \/ Wait \/ OffThread
    BY <1>2, <1>u DEF Mutator, Wait, OffThread, MainPickChunk, ShrinkGCBuffers,
       OutOfMemoryRetry, EnterSweepWait, Collect, SweepWait, SweepOrAllocWait, OffThreadEnter,
       OffThreadPickChunk
  <1>3. CASE Collector
    <2>1. CASE ForegroundSweep
      BY <1>u, <2>1, FreeLaterFree DEF ForegroundSweep
    <2>2. CASE ~ForegroundSweep
      BY <1>3, <1>u, <2>2 DEF Collector, StartSession, ResetOrContinue, Mark,
         EndSweepInBackground, EndSweepInForeground, ForegroundFree, ForegroundFinalize,
         ForegroundSweepDone, EndSession, Finish, FinishGC
    <2> QED
      BY <2>1, <2>2
  <1>4. CASE UNCHANGED vars
    BY <1>4, <1>u DEF vars
  <1> QED
    BY <1>1, <1>2, <1>3, <1>4, NextCases

\* FinishGC releases every chunk.
EndInv == mainPC = "ended" => chunkSet = {} /\ pool = <<>>

\* When the runtime is gone, so are its chunks.
LEMMA EndStep ==
    TypeOK /\ ControlInv /\ EndInv /\ [Next]_vars => EndInv'
  <1> SUFFICES ASSUME TypeOK, ControlInv, EndInv, [Next]_vars
               PROVE  EndInv'
    OBVIOUS
  <1>p. PlainType /\ DataType
    BY TypeParts
  <1> USE <1>p DEF PlainType, State, HelperPC, ExpirePC, SweepPC, AllocatePC, MainPC, WaitPC, GCPC,
          InSession, ControlInv, HelperInv, SessionInv, LastInv, lastGC, sweeping, NotifyWakeup, NotifyDone,
          HelperUnchanged, MutatorUnchanged, OffThreadUnchanged, CollectorUnchanged,
          startBackgroundAllocationIfIdle, gcVars, collectVars, helperVars, chunkVars, freeVars, EndInv
  <1>1. CASE Helper
    <2>1. CASE LoopTop
      BY <2>1 DEF LoopTop
    <2>2. CASE HelperFinalize
      BY <2>2 DEF HelperFinalize, BackgroundFinalize, ReleaseChunk
    <2>3. CASE HelperSweepDone
      BY <2>3 DEF HelperSweepDone
    <2>4. CASE FreeCurrentArray
      BY <2>4 DEF FreeCurrentArray
    <2>5. CASE FreeFullArrays
      BY <2>5 DEF FreeFullArrays
    <2>6. CASE HelperExpire
      BY <2>6 DEF HelperExpire, Expire
    <2>7. CASE HelperFree
      BY <2>7 DEF HelperFree, FreeChunkList
    <2>8. CASE HelperRecheck
      BY <2>8 DEF HelperRecheck, EndSweeping, Expire
    <2>9. CASE HelperDecommitted
      BY <2>9 DEF HelperDecommitted, EndSweeping
    <2>10. CASE HelperAllocate
      BY <2>10 DEF HelperAllocate
    <2>11. CASE HelperPut
      BY <2>11 DEF HelperPut
    <2> QED
      BY <1>1, <2>1, <2>2, <2>3, <2>4, <2>5, <2>6, <2>7, <2>8, <2>9, <2>10, <2>11 DEF Helper
  <1>2. CASE Mutator \/ Wait \/ OffThread
    <2>1. CASE MainPickChunk
      BY <2>1 DEF MainPickChunk, PickChunk, Get
    <2>2. CASE ShrinkGCBuffers
      BY <2>2 DEF ShrinkGCBuffers, startBackgroundShrink
    <2>3. CASE OutOfMemoryRetry
      BY <2>3 DEF OutOfMemoryRetry
    <2>4. CASE EnterSweepWait
      BY <2>4 DEF EnterSweepWait
    <2>5. CASE Collect
      BY <2>5 DEF Collect
    <2>6. CASE SweepWait
      BY <2>6 DEF SweepWait
    <2>7. CASE SweepOrAllocWait
      BY <2>7 DEF SweepOrAllocWait
    <2>8. CASE OffThreadEnter
      BY <2>8 DEF OffThreadEnter
    <2>9. CASE OffThreadPickChunk
      BY <2>9 DEF OffThreadPickChunk, PickChunk, Get
    <2> QED
      BY <1>2, <2>1, <2>2, <2>3, <2>4, <2>5, <2>6, <2>7, <2>8, <2>9 DEF Mutator, Wait, OffThread
  <1>3. CASE Collector
    <2>1. CASE StartSession
      BY <2>1 DEF StartSession
    <2>2. CASE ResetOrContinue
      BY <2>2 DEF ResetOrContinue
    <2>3. CASE Mark
      BY <2>3 DEF Mark, BeginSweepPhase
    <2>4. CASE ForegroundSweep
      BY <2>4 DEF ForegroundSweep, ReleaseChunk, FreeLater, replenishAndFreeLater
    <2>5. CASE EndSweepInBackground
      BY <2>5 DEF EndSweepInBackground, startBackgroundSweep
    <2>6. CASE EndSweepInForeground
      BY <2>6 DEF EndSweepInForeground, Expire
    <2>7. CASE ForegroundFree
      BY <2>7 DEF ForegroundFree, FreeChunkList
    <2>8. CASE ForegroundFinalize
      BY <2>8 DEF ForegroundFinalize, BackgroundFinalize, ReleaseChunk
    <2>9. CASE ForegroundSweepDone
      BY <2>9 DEF ForegroundSweepDone
    <2>10. CASE EndSession
      BY <2>10 DEF EndSession
    <2>11. CASE Finish
      BY <2>11 DEF Finish
    <2>12. CASE FinishGC
      BY <2>12 DEF FinishGC
    <2> QED
      BY <1>3, <2>1, <2>2, <2>3, <2>4, <2>5, <2>6, <2>7, <2>8, <2>9, <2>10, <2>11, <2>12 DEF Collector
  <1>4. CASE UNCHANGED vars
    BY <1>4 DEF vars
  <1> QED
    BY <1>1, <1>2, <1>3, <1>4, NextCases

-----------------------------------------------------------------------------
(* The theorems. *)

\* The inductive invariant.
IInv ==
    /\ TypeOK /\ ControlInv
    /\ QueueInv /\ ShrinkInv
    /\ PlaceInv /\ HandInv
    /\ FreeInv /\ EndInv

\* IInv holds in every state, whichever thread takes the lock next and
\* whichever allocation fails.
THEOREM Invariant == Spec => []IInv
  <1>1. Init => IInv
    <2>1. Init => EndInv
      BY DEF Init, EndInv
    <2> QED
      BY <2>1, TypeInit, ControlInit, QueueInit, ChunkInit, FreeInit DEF IInv
  <1>2. IInv /\ [Next]_vars => IInv'
    BY TypeStep, ControlStep, QueueStep, ShrinkStep, PlaceStep, HandStep, FreeStep,
       EndStep DEF IInv
  <1> QED
    BY <1>1, <1>2, PTL DEF Spec

\* Every variable keeps its type; in particular no chunk of the pool grows
\* older than MAX_EMPTY_CHUNK_AGE.
THEOREM TypeCorrect == Spec => []TypeOK
  <1>1. IInv => TypeOK
    BY DEF IInv
  <1> QED
    BY <1>1, Invariant, PTL

\* The collector uses the chunks and the buffers without the lock, and only
\* while nobody else does.
THEOREM HeapIsOwned == Spec => []GCOwnsTheHeap
  <1>1. IInv => GCOwnsTheHeap
    <2> SUFFICES ASSUME IInv, mainPC \in GCPC
                 PROVE  /\ state = "IDLE" /\ ~sweepFlag
                        /\ helperPC \in {"top", "wakeupWait"} /\ offPC # "in"
      BY DEF GCOwnsTheHeap
    <2>1. HelperInv /\ SessionInv /\ helperPC \in HelperPC
      BY DEF IInv, ControlInv, TypeOK
    <2>2. state = "IDLE" /\ offPC # "in"
      BY <2>1 DEF SessionInv, InSession
    <2>3. ~sweepFlag /\ helperPC \in {"top", "wakeupWait"}
      BY <2>1, <2>2 DEF HelperInv, HelperPC, SweepPC, ExpirePC, AllocatePC, sweeping
    <2> QED
      BY <2>2, <2>3
  <1> QED
    BY <1>1, Invariant, PTL

\* The last collection has stopped the helper's allocation for good: finish()
\* does not find it ALLOCATING or told to cancel, as it asserts.
THEOREM FinishIsQuiet == Spec => []FinishFindsHelperAtRest
  <1>1. IInv => FinishFindsHelperAtRest
    BY DEF IInv, ControlInv, LastInv, FinishFindsHelperAtRest
  <1> QED
    BY <1>1, Invariant, PTL

\* A thread that has waited for the helper finds the sweep done and every
\* queue empty, unless an incremental collection is still sweeping.
THEOREM SweepIsOver == Spec => []BackgroundSweepIsOver
  <1>1. IInv => BackgroundSweepIsOver
    <2> SUFFICES ASSUME IInv, ~sweeping, mainPC \notin GCPC
                 PROVE  /\ ~sweepFlag /\ gcSweepingZones = "null"
                        /\ gcIncrementalState # "SWEEP" => arenaListsToSweep = {} /\ Buffered = {}
      BY DEF BackgroundSweepIsOver
    <2>1. TypeOK /\ HelperInv /\ QueueInv
      BY DEF IInv, ControlInv
    <2>2. ~sweepFlag /\ helperPC \notin SweepPC
      BY <2>1 DEF HelperInv
    <2>3. gcSweepingZones = "null"
      BY <2>1, <2>2 DEF QueueInv, TypeOK, SweepPC, GCPC
    <2>4. gcIncrementalState # "SWEEP" =>
            arenaListsToSweep = {} /\ freeArray = <<>> /\ freeVector = <<>>
      BY <2>1, <2>2 DEF QueueInv, SweepPC
    <2>5. freeArray = <<>> /\ freeVector = <<>> => Buffered = {}
      BY DEF Buffered, Elements
    <2> QED
      BY <2>2, <2>3, <2>4, <2>5
  <1> QED
    BY <1>1, Invariant, PTL

\* Chunks that differ are as many as the entries of the pool.
LEMMA PoolSize ==
    ASSUME TypeOK, Distinct
    PROVE  Cardinality(InPool) = Len(pool)
  <1> DEFINE f == [i \in 1..Len(pool) |-> pool[i].chunk]
  <1>1. DOMAIN pool = 1..Len(pool) /\ Len(pool) \in Nat
    <2>1. pool \in Seq(PooledChunk)
      BY DEF TypeOK
    <2> QED
      BY <2>1
  <1>2. f \in Surjection(1..Len(pool), InPool)
    BY <1>1 DEF InPool, Surjection
  <1>3. f \in Injection(1..Len(pool), InPool)
    BY <1>1, <1>2 DEF Distinct, Injection, IsInjective, Surjection
  <1> DEFINE n == Len(pool)
  <1>4. IsFiniteSet(1..n) /\ Cardinality(1..n) = n
    <2>1. 1 \in Int /\ n \in Int /\ n >= 0
      BY <1>1
    <2> HIDE DEF n
    <2>2. IsFiniteSet(1..n) /\ Cardinality(1..n) = IF 1 > n THEN 0 ELSE n - 1 + 1
      BY <2>1, FS_Interval
    <2> QED
      BY <2>1, <2>2
  <1> HIDE DEF f
  <1> QED
    BY <1>2, <1>3, <1>4, FS_Surjection

\* Every mapped chunk is in exactly one place, so none is used after it is
\* unmapped and none is lost.
THEOREM ChunksAccounted == Spec => []ChunksAccountedFor
  <1>1. IInv => ChunksAccountedFor
    <2> SUFFICES ASSUME IInv PROVE ChunksAccountedFor
      OBVIOUS
    <2> DEFINE places == <<chunkSet, InPool, toFree["main"], toFree["helper"], fresh>>
    <2>1. PlaceInv /\ TypeOK
      BY DEF IInv
    <2>2. mapped = UNION {places[i] : i \in DOMAIN places}
      <3>1. UNION {places[i] : i \in DOMAIN places} =
              chunkSet \cup InPool \cup toFree["main"] \cup toFree["helper"] \cup fresh
        <4>1. DOMAIN places = {1, 2, 3, 4, 5}
          OBVIOUS
        <4>2. {places[i] : i \in {1, 2, 3, 4, 5}} =
                {chunkSet, InPool, toFree["main"], toFree["helper"], fresh}
          OBVIOUS
        <4> QED
          BY <4>1, <4>2
      <3> QED
        BY <2>1, <3>1 DEF PlaceInv
    <2>3. \A i, j \in DOMAIN places : i # j => places[i] \cap places[j] = {}
      BY <2>1 DEF PlaceInv
    <2>4. Cardinality(InPool) = Len(pool)
      BY <2>1, PoolSize DEF PlaceInv
    <2> QED
      BY <2>2, <2>3, <2>4 DEF ChunksAccountedFor
  <1> QED
    BY <1>1, Invariant, PTL

\* What is passed to freeLater() is in one buffer until it is freed, once, and
\* the arrays that wait are full.
THEOREM FreedOnce == Spec => []FreedExactlyOnce
  <1>1. IInv => FreedExactlyOnce
    <2> SUFFICES ASSUME IInv PROVE FreedExactlyOnce
      OBVIOUS
    <2>1. FreeInv /\ TypeOK
      BY DEF IInv
    <2>2. Buffered = Elements(freeArray) \cup InVector
      BY DEF Buffered, InVector
    <2>3. Cardinality(Elements(freeArray) \cup InVector) =
            Cardinality(Elements(freeArray)) + Cardinality(InVector)
      <3>1. /\ IsFiniteSet(Elements(freeArray)) /\ IsFiniteSet(InVector)
            /\ Cardinality(Elements(freeArray)) \in Nat /\ Cardinality(InVector) \in Nat
        BY <2>1, BufferedPointers, FinitePointers
      <3>2. Elements(freeArray) \cap InVector = {}
        BY <2>1 DEF FreeInv
      <3> QED
        BY <3>1, <3>2, FS_Union, FS_EmptySet
    <2> QED
      BY <2>1, <2>2, <2>3 DEF FreeInv, FreedExactlyOnce
  <1> QED
    BY <1>1, Invariant, PTL

\* When the runtime is gone no chunk is mapped and every pointer is free: the
\* helper has left its loop with empty hands and empty queues, and FinishGC
\* releases the rest.
THEOREM NoLeak == Spec => []NothingLeaks
  <1>1. IInv => NothingLeaks
    <2> SUFFICES ASSUME IInv, mainPC = "ended" PROVE mapped = {} /\ freed = queued
      BY DEF NothingLeaks
    <2>1. /\ HelperInv /\ LastInv /\ QueueInv /\ PlaceInv /\ HandInv /\ FreeInv
          /\ chunkSet = {} /\ pool = <<>>
      BY DEF IInv, ControlInv, EndInv
    <2>2. helperPC = "exited" /\ ~sweepFlag /\ gcIncrementalState = "NO_INCREMENTAL"
      BY <2>1 DEF HelperInv, LastInv
    <2>3. mapped = {}
      BY <2>1, <2>2 DEF PlaceInv, HandInv, InPool
    <2>4. freeArray = <<>> /\ freeVector = <<>>
      BY <2>1, <2>2 DEF QueueInv
    <2>5. Elements(freeArray) = {} /\ InVector = {}
      BY <2>4 DEF Elements, InVector
    <2> QED
      BY <2>1, <2>3, <2>5 DEF FreeInv
  <1> QED
    BY <1>1, Invariant, PTL

\* A shrink is over only when the pool is empty.
THEOREM ShrinkIsHonoured == Spec => ShrinkHonoured
  <1>1. IInv /\ [Next]_vars => [sweeping /\ state' = "IDLE" /\ shrinkAsked => pool' = <<>>]_vars
    <2> SUFFICES ASSUME IInv, Next, sweeping, state' = "IDLE", shrinkAsked
                 PROVE  pool' = <<>>
      BY DEF vars
    <2>1. TypeOK /\ ShrinkInv /\ HelperInv /\ SessionInv /\ PlainType
      BY TypeParts DEF IInv, ControlInv
    <2>2. state = "SWEEPING"
      BY DEF sweeping
    <2>3. CASE HelperRecheck
      <3>1. ~shrinkFlag => FALSE
        BY <2>1, <2>3 DEF HelperRecheck, ShrinkInv
      <3>2. shrinkFlag => FALSE
        BY <2>2, <2>3 DEF HelperRecheck
      <3> QED
        BY <3>1, <3>2
    <2>4. CASE HelperDecommitted
      BY <2>1, <2>4 DEF HelperDecommitted, ShrinkInv, chunkVars
    <2>5. CASE Helper /\ ~HelperRecheck /\ ~HelperDecommitted
      BY <2>1, <2>2, <2>5 DEF Helper, LoopTop, HelperFinalize, HelperSweepDone, FreeCurrentArray,
         FreeFullArrays, HelperExpire, HelperFree, HelperAllocate, HelperPut, helperVars
    <2>6. CASE Mutator \/ Wait \/ OffThread
      BY <2>2, <2>6 DEF Mutator, Wait, OffThread, MainPickChunk, PickChunk, Get,
         startBackgroundAllocationIfIdle, ShrinkGCBuffers, startBackgroundShrink,
         OutOfMemoryRetry, EnterSweepWait, Collect, SweepWait, SweepOrAllocWait, OffThreadEnter,
         OffThreadPickChunk, helperVars
    <2>7. CASE Collector
      BY <2>1, <2>2, <2>7 DEF Collector, StartSession, ResetOrContinue, Mark, ForegroundSweep,
         EndSweepInBackground, startBackgroundSweep, EndSweepInForeground, ForegroundFree,
         ForegroundFinalize, ForegroundSweepDone, EndSession, Finish, FinishGC, helperVars
    <2>8. CASE UNCHANGED vars
      BY <2>2, <2>8 DEF vars, helperVars
    <2> QED
      BY <2>3, <2>4, <2>5, <2>6, <2>7, <2>8, NextCases
  <1> QED
    BY <1>1, Invariant, PTL DEF Spec, ShrinkHonoured

=============================================================================
