-------------------------- MODULE ThreadPoolProofs --------------------------
(***************************************************************************)
(* Safety of the work-stealing pool for every number of workers, slices    *)
(* per worker, jobs and every set of failing allocations: IInv is          *)
(* inductive, TypeOK, SliceRunsAtMostOnce, ReturnedJobIsOver, NoStaleJob,  *)
(* PendingCountsOutstanding and ActiveWorkersCounted follow, and the pool  *)
(* implements ParallelJob.                                                 *)
(***************************************************************************)
EXTENDS ThreadPool, TLAPS, FiniteSetTheorems

\* All that most steps need to know of the thread identifiers.
LEMMA Threads ==
    /\ Main \in Thread /\ Main \notin Worker
    /\ \A w \in Worker : w \in Thread
    /\ \A t \in Thread : t # Main => t \in Worker
    /\ \A t \in Thread : t # NumWorkers => t + 1 \in Thread
  BY PoolAssumption DEF Main, Worker, Thread

\* The number of slices is a positive natural number: the only place where
\* their product form matters.
LEMMA NumSlicesNat ==
    /\ numSlices \in Nat \ {0}
    /\ \A t \in Thread : ShareOf(t) \in Bounds /\ ShareOf(t).from < ShareOf(t).to
  <1>1. numSlices \in Nat \ {0}
    BY PoolAssumption DEF numSlices
  <1>2. ASSUME NEW t \in Thread
        PROVE  ShareOf(t) \in Bounds /\ ShareOf(t).from < ShareOf(t).to
    <2>1. PICK k \in 0..NumWorkers : k = IF t = Main THEN NumWorkers ELSE t - 1
      BY PoolAssumption DEF Main, Thread
    <2>2. k * SlicesPerWorker \in Nat /\ (k + 1) * SlicesPerWorker \in Nat
      BY <2>1, PoolAssumption
    <2>3. (k + 1) * SlicesPerWorker <= (NumWorkers + 1) * SlicesPerWorker
      BY <2>1, PoolAssumption
    <2>4. k * SlicesPerWorker < (k + 1) * SlicesPerWorker
      BY <2>1, PoolAssumption
    <2> QED
      BY <2>1, <2>2, <2>3, <2>4, <1>1, PoolAssumption DEF Main, Thread, ShareOf, Bounds, numSlices
  <1> QED
    BY <1>1, <1>2

\* The bounds that the compare-and-exchange loops build stay within range.
LEMMA BoundsFacts ==
    /\ EmptyBounds \in Bounds /\ EmptyBounds.from = 0 /\ EmptyBounds.to = 0
    /\ \A b \in Bounds : b.from \in 0..numSlices /\ b.to \in 0..numSlices
    /\ \A b \in Bounds : b.from <= b.to /\ b.from # b.to => b.from < b.to
    /\ \A b \in Bounds : b.from < b.to =>
          /\ b.from + 1 <= b.to /\ b.from <= b.to - 1
          /\ b.from \in Slice /\ b.to - 1 \in Slice
          /\ [from |-> b.from + 1, to |-> b.to] \in Bounds
          /\ [from |-> b.from, to |-> b.to - 1] \in Bounds
  BY NumSlicesNat DEF Bounds, EmptyBounds, Slice

-----------------------------------------------------------------------------
(* Types and locals *)


\* Every program position is in PC, which most proofs then need not expand.
LEMMA Labels ==
    /\ "idle" \in PC /\ "allocMain" \in PC /\ "allocWorkers" \in PC /\ "startWorkers" \in PC
    /\ "distribute" \in PC /\ "publishJob" \in PC /\ "publishSlices" \in PC /\ "notify" \in PC
    /\ "wait" \in PC /\ "joinWait" \in PC /\ "terminate" \in PC /\ "termWait" \in PC
    /\ "termJoinWait" \in PC /\ "terminated" \in PC /\ "none" \in PC /\ "top" \in PC
    /\ "condWait" \in PC /\ "join" \in PC /\ "exited" \in PC /\ "fetchJob" \in PC
    /\ "loadFront" \in PC /\ "casFront" \in PC /\ "hasWork" \in PC /\ "loadBack" \in PC
    /\ "casBack" \in PC /\ "abortLoad" \in PC /\ "abortCAS" \in PC /\ "abortSubtract" \in PC
    /\ "subtract" \in PC /\ "execute" \in PC
  BY DEF PC, MainPC, WorkerPC, WorkingPC, ClaimedPC

\* The initial state has the weak types.
LEMMA TypeInit == Init => TypeInv
  BY PoolAssumption, NumSlicesNat, Labels
  DEF Main, Worker, Thread, Init, TypeInv, Bounds, EmptyBounds, Slice, NoSlice, Job, NoJob, WorkerState

\* The weak types are inductive together with the facts about locals.
LEMMA TypeStep == TypeInv /\ LocalInv /\ [Next]_vars => TypeInv'
  <1> SUFFICES ASSUME TypeInv, LocalInv, [Next]_vars
               PROVE  TypeInv'
    OBVIOUS
  <1> USE Threads, Labels
      DEF TypeInv, NoSlice, Job, NoJob,
          vars, poolVars, queueVars, localVars, history, Goto
  <1>1. ASSUME EnterExecuteJob PROVE TypeInv'
    BY <1>1 DEF EnterExecuteJob
  <1>2. ASSUME DestroyPool PROVE TypeInv'
    BY <1>2 DEF DestroyPool
  <1>3. ASSUME AllocateMainWorker PROVE TypeInv'
    BY <1>3 DEF AllocateMainWorker
  <1>4. ASSUME AllocateWorker PROVE TypeInv'
    <2>1. workersLength < NumWorkers => workersLength + 1 \in 0..NumWorkers
      BY PoolAssumption
    <2> QED
      BY <1>4, <2>1 DEF WorkerState, AllocateWorker
  <1>5. ASSUME AllWorkersAllocated PROVE TypeInv'
    BY <1>5 DEF AllWorkersAllocated
  <1>6. ASSUME NEW w \in Worker, StartWorker(w) PROVE TypeInv'
    BY <1>6, PoolAssumption DEF WorkerState, StartWorker
  <1>7. ASSUME AllWorkersStarted PROVE TypeInv'
    BY <1>7 DEF AllWorkersStarted
  <1>8. ASSUME DistributeSlices PROVE TypeInv'
    <2>1. jobs' \in 0..MaxJobs
      BY <1>8, PoolAssumption DEF LocalInv, DistributeSlices
    <2> QED
      BY <1>8, <2>1, NumSlicesNat DEF DistributeSlices
  <1>9. ASSUME PublishJob PROVE TypeInv'
    BY <1>9, PoolAssumption DEF PublishJob
  <1>10. ASSUME PublishSlices PROVE TypeInv'
    BY <1>10, NumSlicesNat DEF PublishSlices
  <1>11. ASSUME NotifyWorkers PROVE TypeInv'
    BY <1>11 DEF NotifyWorkers, NotifyAll
  <1>12. ASSUME WaitForWorkers PROVE TypeInv'
    BY <1>12 DEF WaitForWorkers
  <1>13. ASSUME SignalTermination PROVE TypeInv'
    BY <1>13 DEF WorkerState, SignalTermination, NotifyAll
  <1>14. ASSUME TerminateEmptyPool PROVE TypeInv'
    BY <1>14, PoolAssumption DEF WorkerState, TerminateEmptyPool, DeleteWorkers, DeletedMainWorker
  <1>15. ASSUME WaitForTermination PROVE TypeInv'
    BY <1>15, PoolAssumption DEF WorkerState, WaitForTermination, DeleteWorkers, DeletedMainWorker
  <1>16. ASSUME NEW w \in Worker, WorkerTop(w) PROVE TypeInv'
    BY <1>16 DEF WorkerTop, JoinPool, hasWork
  <1>17. ASSUME NEW w \in Worker, WorkerJoin(w) PROVE TypeInv'
    BY <1>17 DEF WorkerJoin, JoinPool
  <1>18. ASSUME NEW t \in Thread, FetchJob(t) PROVE TypeInv'
    BY <1>18 DEF FetchJob
  <1>19. ASSUME NEW t \in Thread, LoadFront(t) PROVE TypeInv'
    BY <1>19 DEF LoadFront, AfterJob, IsEmpty
  <1>20. ASSUME NEW t \in Thread, CasFront(t) PROVE TypeInv'
    <2>1. /\ [from |-> seen[t].from + 1, to |-> seen[t].to] \in Bounds
          /\ seen[t].from \in Slice
      BY <1>20, BoundsFacts DEF LocalInv, CasFront
    <2>2. EmptyBounds \in Bounds
      BY BoundsFacts
    <2> QED
      BY <1>20, <2>1, <2>2 DEF CasFront
  <1>21. ASSUME NEW t \in Thread, TryToSteal(t) PROVE TypeInv'
    BY <1>21 DEF TryToSteal, AfterJob, Victims, hasWork
  <1>22. ASSUME NEW t \in Thread, LoadBack(t) PROVE TypeInv'
    BY <1>22 DEF LoadBack, IsEmpty
  <1>23. ASSUME NEW t \in Thread, CasBack(t) PROVE TypeInv'
    <2>1. /\ [from |-> seen[t].from, to |-> seen[t].to - 1] \in Bounds
          /\ seen[t].to - 1 \in Slice
      BY <1>23, BoundsFacts DEF LocalInv, CasBack
    <2>2. EmptyBounds \in Bounds
      BY BoundsFacts
    <2> QED
      BY <1>23, <2>1, <2>2 DEF CasBack
  <1>24. ASSUME NEW t \in Thread, SubtractSlice(t) PROVE TypeInv'
    BY <1>24 DEF SubtractSlice
  <1>25. ASSUME NEW t \in Thread, ExecuteSlice(t) PROVE TypeInv'
    BY <1>25 DEF LocalInv, ClaimedPC, ExecuteSlice
  <1>26. ASSUME NEW t \in Thread, AbortLoad(t) PROVE TypeInv'
    BY <1>26 DEF AbortLoad
  <1>27. ASSUME NEW t \in Thread, AbortCAS(t) PROVE TypeInv'
    <2>1. EmptyBounds \in Bounds
      BY BoundsFacts
    <2> QED
      BY <1>27, <2>1 DEF AbortCAS
  <1>28. ASSUME NEW t \in Thread, AbortSubtract(t) PROVE TypeInv'
    <2>1. seen[t].to - seen[t].from \in Int
      BY BoundsFacts, NumSlicesNat
    <2>2. victim[t] \in Thread
      OBVIOUS
    <2>3. victim[t] # NumWorkers => victim[t] + 1 \in Thread
      BY <2>2, Threads
    <2>4. EmptyBounds \in Bounds
      BY BoundsFacts
    <2> QED
      BY <1>28, <2>1, <2>3, <2>4 DEF AbortSubtract, AfterJob
  <1>29. ASSUME NEW t \in Thread, SpuriousWakeup(t) PROVE TypeInv'
    BY <1>29 DEF SpuriousWakeup
  <1>30. CASE UNCHANGED vars
    BY <1>30
  <1> QED
    BY <1>1, <1>2, <1>3, <1>4, <1>5, <1>6, <1>7, <1>8, <1>9, <1>10, <1>11, <1>12, <1>13, <1>14, <1>15, <1>16, <1>17, <1>18, <1>19, <1>20, <1>21, <1>22, <1>23, <1>24, <1>25, <1>26, <1>27, <1>28, <1>29, <1>30
    DEF Next, MainStep, WorkerStep, WorkStep, Terminated

-----------------------------------------------------------------------------
(* Control *)

\* What every step of the work loop has in common: it moves the thread inside
\* the loop or to its end and leaves the pool's own state alone.
LEMMA WorkFrame ==
    ASSUME TypeInv, NEW t \in Thread, WorkStep(t)
    PROVE  /\ pc[t] \in WorkingPC
           /\ \E label \in WorkingPC \cup {AfterJob(t)} : pc' = [pc EXCEPT ![t] = label]
           /\ UNCHANGED <<activeWorkers, job, mainWorker, workersLength, state, jobs>>
  <1> DEFINE Framed ==
        /\ pc[t] \in WorkingPC
        /\ \E label \in WorkingPC \cup {AfterJob(t)} : pc' = [pc EXCEPT ![t] = label]
        /\ UNCHANGED <<activeWorkers, job, mainWorker, workersLength, state, jobs>>
  <1> USE DEF WorkingPC, ClaimedPC, poolVars, history, Goto
  <1>1. CASE FetchJob(t)
    BY <1>1 DEF FetchJob
  <1>2. CASE LoadFront(t)
    BY <1>2 DEF LoadFront
  <1>3. CASE CasFront(t)
    BY <1>3 DEF CasFront
  <1>4. CASE TryToSteal(t)
    BY <1>4 DEF TryToSteal
  <1>5. CASE LoadBack(t)
    BY <1>5 DEF LoadBack
  <1>6. CASE CasBack(t)
    BY <1>6 DEF CasBack
  <1>7. CASE SubtractSlice(t)
    BY <1>7 DEF SubtractSlice
  <1>8. CASE ExecuteSlice(t)
    BY <1>8 DEF ExecuteSlice
  <1>9. CASE AbortLoad(t)
    BY <1>9 DEF AbortLoad
  <1>10. CASE AbortCAS(t)
    BY <1>10 DEF AbortCAS
  <1>11. CASE AbortSubtract(t)
    BY <1>11 DEF AbortSubtract
  <1> QED
    BY <1>1, <1>2, <1>3, <1>4, <1>5, <1>6, <1>7, <1>8, <1>9, <1>10, <1>11 DEF WorkStep

\* The main thread starts in executeJob()'s caller, the workers not created.
LEMMA PcInit == Init => PcInv
  BY Threads DEF Init, PcInv, MainPC, WorkerPC

\* A thread stays within the positions of its own kind: only the main thread
\* distributes, waits and terminates, only workers sleep in run().
LEMMA PcStep == TypeInv /\ PcInv /\ [Next]_vars => PcInv'
  <1> SUFFICES ASSUME TypeInv, PcInv, [Next]_vars
               PROVE  PcInv'
    OBVIOUS
  <1>p. pc \in [Thread -> PC]
    BY DEF TypeInv
  <1> USE <1>p, Threads DEF PcInv, MainPC, WorkerPC, Goto
  <1>1. CASE EnterExecuteJob \/ DestroyPool \/ AllocateMainWorker \/ AllocateWorker
             \/ AllWorkersAllocated \/ AllWorkersStarted
    BY <1>1 DEF EnterExecuteJob, DestroyPool, AllocateMainWorker, AllocateWorker,
                AllWorkersAllocated, AllWorkersStarted
  <1>2. CASE \E w \in Worker : StartWorker(w)
    BY <1>2 DEF StartWorker
  <1>3. CASE DistributeSlices \/ PublishJob \/ PublishSlices \/ WaitForWorkers
    BY <1>3 DEF DistributeSlices, PublishJob, PublishSlices, WaitForWorkers
  <1>4. CASE NotifyWorkers
    BY <1>4 DEF NotifyWorkers, NotifyAll, WorkingPC
  <1>5. CASE SignalTermination
    BY <1>5 DEF SignalTermination, NotifyAll
  <1>6. CASE TerminateEmptyPool \/ WaitForTermination
    BY <1>6 DEF TerminateEmptyPool, WaitForTermination, DeleteWorkers
  <1>7. CASE \E w \in Worker : WorkerStep(w)
    BY <1>7 DEF WorkerStep, WorkerTop, WorkerJoin, JoinPool, WorkingPC
  <1>8. CASE \E t \in Thread : WorkStep(t)
    <2>1. PICK t \in Thread : WorkStep(t)
      BY <1>8
    <2>2. PICK label \in WorkingPC \cup {AfterJob(t)} : pc' = [pc EXCEPT ![t] = label]
      BY <2>1, WorkFrame
    <2> QED
      BY <2>2 DEF AfterJob
  <1>9. CASE \E t \in Thread : SpuriousWakeup(t)
    BY <1>9 DEF SpuriousWakeup, WorkingPC, ClaimedPC
  <1>10. CASE UNCHANGED vars
    BY <1>10 DEF vars
  <1> QED
    BY <1>1, <1>2, <1>3, <1>4, <1>5, <1>6, <1>7, <1>8, <1>9, <1>10
    DEF Next, MainStep, Terminated

\* The initial queues are empty and no thread holds a slice.
LEMMA LocalInit == Init => LocalInv
  BY NumSlicesNat, Threads
  DEF Init, LocalInv, EmptyBounds, ClaimedPC, AbortPC, Slice, NoSlice

\* The bounds a thread has loaded are well formed, not empty where it is about to
\* compare and exchange them, and a thread holds a slice only while it works on it.
LEMMA LocalStep ==
    TypeInv /\ PcInv /\ LocalInv /\ QuietInv /\ [Next]_vars => LocalInv'
  <1> SUFFICES ASSUME TypeInv, PcInv, LocalInv, QuietInv, [Next]_vars
               PROVE  LocalInv'
    OBVIOUS
  <1>p. /\ pc \in [Thread -> PC] /\ seen \in [Thread -> Bounds]
        /\ sliceBounds \in [Thread -> Bounds] /\ sliceId \in [Thread -> Slice \cup {NoSlice}]
        /\ pc[Main] \in MainPC \cup WorkingPC
        /\ \A w \in Worker : pc[w] \in WorkerPC \cup WorkingPC
    BY DEF TypeInv, PcInv
  <1>s. NoSlice \notin Slice
    BY DEF NoSlice, Slice
  <1>e. EmptyBounds.from <= EmptyBounds.to
    BY BoundsFacts
  <1> USE <1>p, Threads DEF LocalInv, ClaimedPC, AbortPC, Goto, vars, poolVars,
                            queueVars, localVars, history
  <1>1. CASE EnterExecuteJob
    BY <1>1 DEF EnterExecuteJob
  <1>2. CASE DestroyPool
    BY <1>2 DEF DestroyPool
  <1>3. CASE AllocateMainWorker
    BY <1>3 DEF AllocateMainWorker
  <1>4. CASE AllocateWorker
    BY <1>4 DEF AllocateWorker
  <1>5. CASE AllWorkersAllocated
    BY <1>5 DEF AllWorkersAllocated
  <1>6. CASE \E w \in Worker : StartWorker(w)
    BY <1>6, <1>s DEF StartWorker, QuietInv, RunPC, ActiveThreads, WorkingPC
  <1>7. CASE AllWorkersStarted
    BY <1>7 DEF AllWorkersStarted
  <1>8. CASE DistributeSlices
    <2>1. \A t \in Thread : sliceBounds'[t].from <= sliceBounds'[t].to
      BY <1>8, NumSlicesNat, BoundsFacts DEF DistributeSlices
    <2>2. \A t \in Thread : pc[t] \notin AbortPC
      BY <1>8 DEF DistributeSlices, QuietInv, RunPC, ActiveThreads, WorkingPC
    <2> QED
      BY <1>8, <2>1, <2>2 DEF DistributeSlices
  <1>9. CASE PublishJob
    BY <1>9 DEF PublishJob
  <1>10. CASE PublishSlices
    BY <1>10 DEF PublishSlices
  <1>11. CASE NotifyWorkers
    BY <1>11 DEF NotifyWorkers, NotifyAll
  <1>12. CASE WaitForWorkers
    BY <1>12 DEF WaitForWorkers
  <1>13. CASE SignalTermination
    BY <1>13 DEF SignalTermination, NotifyAll
  <1>14. CASE TerminateEmptyPool
    BY <1>14 DEF TerminateEmptyPool, DeleteWorkers
  <1>15. CASE WaitForTermination
    BY <1>15 DEF WaitForTermination, DeleteWorkers
  <1>16. CASE \E w \in Worker : WorkerTop(w)
    BY <1>16 DEF WorkerTop, JoinPool
  <1>17. CASE \E w \in Worker : WorkerJoin(w)
    BY <1>17 DEF WorkerJoin, JoinPool
  <1>18. CASE \E t \in Thread : FetchJob(t)
    BY <1>18 DEF FetchJob
  <1>19. CASE \E t \in Thread : LoadFront(t)
    <2>1. PICK t \in Thread : LoadFront(t)
      BY <1>19
    <2>2. ~IsEmpty(sliceBounds[t]) => sliceBounds[t].from < sliceBounds[t].to
      BY BoundsFacts DEF IsEmpty
    <2> QED
      BY <2>1, <2>2 DEF LoadFront, AfterJob
  <1>20. CASE \E t \in Thread : CasFront(t)
    <2>1. PICK t \in Thread : CasFront(t)
      BY <1>20
    <2>2. /\ seen[t].from \in Slice /\ seen[t].from + 1 <= seen[t].to
      <3>1. seen[t] \in Bounds /\ seen[t].from < seen[t].to
        BY <2>1 DEF CasFront
      <3> HIDE <1>p
      <3> QED
        BY <3>1, BoundsFacts
    <2>3. \A u \in Thread : sliceBounds'[u].from <= sliceBounds'[u].to
      BY <2>1, <2>2 DEF CasFront
    <2>4. \A u \in Thread : seen'[u].from <= seen'[u].to
      BY <2>1, <1>e DEF CasFront
    <2>5. \A u \in Thread : (pc'[u] \in ClaimedPC) <=> (sliceId'[u] \in Slice)
      BY <2>1, <2>2 DEF CasFront
    <2> QED
      BY <2>1, <2>3, <2>4, <2>5 DEF CasFront
  <1>21. CASE \E t \in Thread : TryToSteal(t)
    BY <1>21 DEF TryToSteal, AfterJob
  <1>22. CASE \E t \in Thread : LoadBack(t)
    <2>1. PICK t \in Thread : LoadBack(t)
      BY <1>22
    <2>2. victim[t] \in Thread
      BY DEF TypeInv
    <2>3. ~IsEmpty(sliceBounds[victim[t]]) =>
             sliceBounds[victim[t]].from < sliceBounds[victim[t]].to
      BY <2>2, BoundsFacts DEF IsEmpty
    <2> QED
      BY <2>1, <2>2, <2>3 DEF LoadBack
  <1>23. CASE \E t \in Thread : CasBack(t)
    <2>1. PICK t \in Thread : CasBack(t)
      BY <1>23
    <2>2. /\ seen[t].to - 1 \in Slice /\ seen[t].from <= seen[t].to - 1
      <3>1. seen[t] \in Bounds /\ seen[t].from < seen[t].to
        BY <2>1 DEF CasBack
      <3> HIDE <1>p
      <3> QED
        BY <3>1, BoundsFacts
    <2>3. \A u \in Thread : sliceBounds'[u].from <= sliceBounds'[u].to
      BY <2>1, <2>2 DEF CasBack
    <2>4. \A u \in Thread : seen'[u].from <= seen'[u].to
      BY <2>1, <1>e DEF CasBack
    <2>5. \A u \in Thread : (pc'[u] \in ClaimedPC) <=> (sliceId'[u] \in Slice)
      BY <2>1, <2>2 DEF CasBack
    <2> QED
      BY <2>1, <2>3, <2>4, <2>5 DEF CasBack
  <1>24. CASE \E t \in Thread : SubtractSlice(t)
    BY <1>24 DEF SubtractSlice
  <1>25. CASE \E t \in Thread : ExecuteSlice(t)
    BY <1>25, <1>s DEF ExecuteSlice
  <1>26. CASE \E t \in Thread : AbortLoad(t)
    BY <1>26 DEF AbortLoad, TypeInv
  <1>27. CASE \E t \in Thread : AbortCAS(t)
    BY <1>27, BoundsFacts DEF AbortCAS, TypeInv
  <1>28. CASE \E t \in Thread : AbortSubtract(t)
    BY <1>28, BoundsFacts DEF AbortSubtract, AfterJob
  <1>29. CASE \E t \in Thread : SpuriousWakeup(t)
    BY <1>29 DEF SpuriousWakeup
  <1>30. CASE UNCHANGED vars
    BY <1>30
  <1> QED
    BY <1>1, <1>2, <1>3, <1>4, <1>5, <1>6, <1>7, <1>8, <1>9, <1>10, <1>11, <1>12, <1>13, <1>14, <1>15, <1>16, <1>17, <1>18, <1>19, <1>20, <1>21, <1>22, <1>23, <1>24, <1>25, <1>26, <1>27, <1>28, <1>29, <1>30
    DEF Next, MainStep, WorkerStep, WorkStep, Terminated

\* No worker has been allocated.
LEMMA LifeInit == Init => LifeInv
  BY Threads DEF Init, LifeInv, TermPC, RunPC, WorkingPC, ClaimedPC

\* A thread runs only while its worker is ACTIVE or told to terminate, and a job
\* is distributed only when all workers have been started.
LEMMA LifeStep ==
    TypeInv /\ PcInv /\ LifeInv /\ QuietInv /\ [Next]_vars => LifeInv'
  <1> SUFFICES ASSUME TypeInv, PcInv, LifeInv, QuietInv, [Next]_vars
               PROVE  LifeInv'
    OBVIOUS
  <1>p. /\ pc \in [Thread -> PC] /\ state \in [Worker -> WorkerState]
        /\ pc[Main] \in MainPC \cup WorkingPC
        /\ \A w \in Worker : pc[w] \in WorkerPC \cup WorkingPC
        /\ workersLength \in 0..NumWorkers
    BY DEF TypeInv, PcInv
  <1>n. \A w \in Worker : workersLength + 1 = w => ~(w <= workersLength)
    BY <1>p, PoolAssumption DEF Worker
  <1>m. \A w \in Worker : w <= NumWorkers
    BY PoolAssumption DEF Worker
  <1> USE <1>p, Threads DEF LifeInv, TermPC, RunPC, WorkingPC, ClaimedPC, Goto,
                            vars, poolVars
  <1>1. CASE EnterExecuteJob
    BY <1>1 DEF EnterExecuteJob
  <1>2. CASE DestroyPool
    BY <1>2 DEF DestroyPool
  <1>3. CASE AllocateMainWorker
    BY <1>3 DEF AllocateMainWorker
  <1>4. CASE AllocateWorker
    <2>1. \A w \in Worker : w <= workersLength => w <= workersLength + 1
      BY PoolAssumption DEF Worker
    <2> QED
      BY <1>4, <2>1, <1>n DEF AllocateWorker
  <1>5. CASE AllWorkersAllocated
    BY <1>5 DEF AllWorkersAllocated
  <1>6. CASE \E w \in Worker : StartWorker(w)
    BY <1>6, <1>m DEF StartWorker
  <1>7. CASE AllWorkersStarted
    BY <1>7 DEF AllWorkersStarted
  <1>8. CASE DistributeSlices \/ PublishJob \/ PublishSlices
    BY <1>8 DEF DistributeSlices, PublishJob, PublishSlices
  <1>9. CASE NotifyWorkers
    BY <1>9 DEF NotifyWorkers, NotifyAll
  <1>10. CASE WaitForWorkers
    BY <1>10 DEF WaitForWorkers
  <1>11. CASE SignalTermination
    BY <1>11 DEF SignalTermination, NotifyAll
  <1>12. CASE TerminateEmptyPool
    BY <1>12 DEF TerminateEmptyPool, DeleteWorkers
  <1>13. CASE WaitForTermination
    BY <1>13 DEF WaitForTermination, DeleteWorkers
  <1>14. CASE \E w \in Worker : WorkerTop(w)
    BY <1>14 DEF WorkerTop, JoinPool
  <1>15. CASE \E w \in Worker : WorkerJoin(w)
    BY <1>15 DEF WorkerJoin, JoinPool
  <1>16. CASE \E t \in Thread : WorkStep(t)
    <2>1. PICK t \in Thread : WorkStep(t)
      BY <1>16
    <2>2. PICK label \in WorkingPC \cup {AfterJob(t)} : pc' = [pc EXCEPT ![t] = label]
      BY <2>1, WorkFrame
    <2>3. pc[t] \in WorkingPC /\ UNCHANGED <<workersLength, state>>
      BY <2>1, WorkFrame
    <2> QED
      BY <2>2, <2>3 DEF AfterJob
  <1>17. CASE \E t \in Thread : SpuriousWakeup(t)
    BY <1>17 DEF SpuriousWakeup, MainPC, WorkerPC
  <1>18. CASE UNCHANGED vars
    BY <1>18
  <1> QED
    BY <1>1, <1>2, <1>3, <1>4, <1>5, <1>6, <1>7, <1>8, <1>9, <1>10, <1>11, <1>12,
       <1>13, <1>14, <1>15, <1>16, <1>17, <1>18
    DEF Next, MainStep, WorkerStep, Terminated

-----------------------------------------------------------------------------
(* The counters *)

\* The active threads are finitely many, so that they can be counted.
LEMMA Finite ==
    /\ IsFiniteSet(Slice) /\ Cardinality(Slice) = numSlices
    /\ IsFiniteSet(ActiveThreads) /\ Cardinality(ActiveThreads) \in 0..NumWorkers
    /\ IsFiniteSet(Outstanding) /\ Cardinality(Outstanding) \in 0..numSlices
  <1>1. IsFiniteSet(Slice) /\ Cardinality(Slice) = numSlices
    <2>1. IsFiniteSet(0..(numSlices - 1))
          /\ Cardinality(0..(numSlices - 1)) =
                IF 0 > numSlices - 1 THEN 0 ELSE (numSlices - 1) - 0 + 1
      BY FS_Interval, NumSlicesNat
    <2> QED
      BY <2>1, NumSlicesNat DEF Slice
  <1>2. IsFiniteSet(Worker) /\ Cardinality(Worker) = NumWorkers
    <2>1. IsFiniteSet(1..NumWorkers)
          /\ Cardinality(1..NumWorkers) = IF 1 > NumWorkers THEN 0 ELSE NumWorkers - 1 + 1
      BY FS_Interval, PoolAssumption
    <2> QED
      BY <2>1, PoolAssumption DEF Worker
  <1>3. ActiveThreads \in SUBSET Worker /\ Outstanding \in SUBSET Slice
    BY DEF ActiveThreads, Outstanding
  <1>4. IsFiniteSet(ActiveThreads) /\ Cardinality(ActiveThreads) <= NumWorkers
    BY <1>2, <1>3, FS_Subset
  <1>5. IsFiniteSet(Outstanding) /\ Cardinality(Outstanding) <= numSlices
    BY <1>1, <1>3, FS_Subset
  <1> QED
    BY <1>1, <1>4, <1>5, FS_CardinalityType, NumSlicesNat, PoolAssumption

\* When the main thread finds no active worker at the end of waitForWorkers(),
\* nothing of the job is left: no worker is inside it, every queue is empty and
\* hasWork() is false.
LEMMA JobIsOver ==
    ASSUME TypeInv, PcInv, CountInv, PendingInv, AbortInv,
           pc[Main] = "wait", ~(activeWorkers > 0)
    PROVE  /\ ActiveThreads = {}
           /\ pendingSlices = 0
           /\ \A t \in Thread : IsEmpty(sliceBounds[t])
  <1>1. activeWorkers = Cardinality(ActiveThreads)
    BY DEF CountInv, TermPC
  <1>2. Cardinality(ActiveThreads) = 0
    BY <1>1, Finite, PoolAssumption
  <1>3. ActiveThreads = {}
    BY <1>2, Finite, FS_EmptySet
  <1>4. \A t \in Thread : IsEmpty(sliceBounds[t])
    BY DEF AbortInv
  <1>5. \A t \in Thread : Queued(t) = {}
    <2> SUFFICES ASSUME NEW t \in Thread PROVE Queued(t) = {}
      OBVIOUS
    <2>1. sliceBounds[t] \in Bounds
      BY DEF TypeInv
    <2>2. sliceBounds[t].from \in Int /\ sliceBounds[t].to \in Int
      BY <2>1, BoundsFacts, NumSlicesNat
    <2> QED
      BY <1>4, <2>2 DEF Queued, IsEmpty
  <1>6. \A t \in Thread : Unsubtracted(t) = {}
    <2> SUFFICES ASSUME NEW t \in Thread PROVE Unsubtracted(t) = {}
      OBVIOUS
    <2>1. pc[t] # "subtract" /\ pc[t] # "abortSubtract"
      BY <1>3, Threads DEF ActiveThreads, WorkingPC, ClaimedPC
    <2> QED
      BY <2>1 DEF Unsubtracted
  <1>7. Outstanding = {}
    BY <1>5, <1>6 DEF Outstanding
  <1>8. pendingSlices = 0
    BY <1>7, FS_EmptySet DEF PendingInv, RunPC
  <1> QED
    BY <1>3, <1>4, <1>8

\* Nothing runs initially.
LEMMA QuietInit == Init => QuietInv
  <1> SUFFICES ASSUME Init PROVE QuietInv
    OBVIOUS
  <1>1. ActiveThreads = {}
    BY Threads DEF Init, ActiveThreads, WorkingPC, ClaimedPC
  <1>2. \A t \in Thread : IsEmpty(sliceBounds[t])
    BY DEF Init, IsEmpty, EmptyBounds
  <1>3. pc[Main] = "idle" /\ pendingSlices = 0
    BY Threads DEF Init
  <1> QED
    BY <1>1, <1>2, <1>3 DEF QuietInv

\* Outside a job the counters are zero, the queues empty and the workers out of
\* the work loop.
LEMMA QuietStep ==
    /\ TypeInv /\ PcInv /\ LifeInv /\ QuietInv /\ CountInv /\ PendingInv /\ AbortInv
    /\ [Next]_vars
    => QuietInv'
  <1> SUFFICES ASSUME TypeInv, PcInv, LifeInv, QuietInv, CountInv, PendingInv,
                      AbortInv, [Next]_vars
               PROVE  QuietInv'
    OBVIOUS
  <1>p. /\ pc \in [Thread -> PC]
        /\ pc[Main] \in MainPC \cup WorkingPC
        /\ \A w \in Worker : pc[w] \in WorkerPC \cup WorkingPC
    BY DEF TypeInv, PcInv
  <1> USE <1>p, Threads DEF RunPC, WorkingPC, ClaimedPC, Goto, IsEmpty,
                            ActiveThreads, vars, poolVars, queueVars
  <1>1. CASE EnterExecuteJob \/ DestroyPool \/ AllocateMainWorker \/ AllocateWorker
             \/ AllWorkersAllocated \/ AllWorkersStarted
    BY <1>1 DEF QuietInv, EnterExecuteJob, DestroyPool, AllocateMainWorker,
                AllocateWorker, AllWorkersAllocated, AllWorkersStarted
  <1>2. CASE \E w \in Worker : StartWorker(w)
    BY <1>2 DEF QuietInv, StartWorker
  <1>3. CASE DistributeSlices
    BY <1>3 DEF QuietInv, DistributeSlices
  <1>4. CASE PublishJob \/ PublishSlices
    BY <1>4 DEF QuietInv, PublishJob, PublishSlices
  <1>5. CASE NotifyWorkers
    BY <1>5 DEF QuietInv, NotifyWorkers, NotifyAll
  <1>6. CASE WaitForWorkers
    <2>1. CASE activeWorkers > 0
      BY <1>6, <2>1 DEF QuietInv, WaitForWorkers
    <2>2. CASE ~(activeWorkers > 0)
      <3>1. /\ ActiveThreads = {} /\ pendingSlices = 0
            /\ \A t \in Thread : IsEmpty(sliceBounds[t])
        BY <1>6, <2>2, JobIsOver DEF WaitForWorkers
      <3> QED
        BY <1>6, <2>2, <3>1 DEF QuietInv, WaitForWorkers
    <2> QED
      BY <2>1, <2>2
  <1>7. CASE SignalTermination
    BY <1>7 DEF QuietInv, SignalTermination, NotifyAll
  <1>8. CASE TerminateEmptyPool \/ WaitForTermination
    BY <1>8 DEF QuietInv, TerminateEmptyPool, WaitForTermination, DeleteWorkers
  <1>9. CASE \E w \in Worker : WorkerTop(w)
    BY <1>9 DEF QuietInv, WorkerTop, JoinPool, hasWork
  <1>10. CASE \E w \in Worker : WorkerJoin(w)
    BY <1>10 DEF QuietInv, WorkerJoin, JoinPool
  <1>11. CASE \E t \in Thread : WorkStep(t)
    <2>1. PICK t \in Thread : WorkStep(t)
      BY <1>11
    <2>2. PICK label \in WorkingPC \cup {AfterJob(t)} : pc' = [pc EXCEPT ![t] = label]
      BY <2>1, WorkFrame
    <2>3. pc[t] \in WorkingPC
      BY <2>1, WorkFrame
    <2>4. pc[Main] \in RunPC
      BY <2>3 DEF QuietInv
    <2>5. pc'[Main] \in RunPC
      BY <2>2, <2>4 DEF AfterJob
    <2> QED
      BY <2>5 DEF QuietInv
  <1>12. CASE \E t \in Thread : SpuriousWakeup(t)
    BY <1>12 DEF QuietInv, SpuriousWakeup, MainPC, WorkerPC
  <1>13. CASE UNCHANGED vars
    BY <1>13 DEF QuietInv
  <1> QED
    BY <1>1, <1>2, <1>3, <1>4, <1>5, <1>6, <1>7, <1>8, <1>9, <1>10, <1>11, <1>12,
       <1>13
    DEF Next, MainStep, WorkerStep, Terminated

\* The workers terminateWorkers() is still waiting for.
Remaining == {w \in 1..workersLength : pc[w] # "exited"}

\* The workers that have not exited are finitely many.
LEMMA RemainingFinite ==
    ASSUME TypeInv
    PROVE  /\ IsFiniteSet(Remaining) /\ Cardinality(Remaining) \in Nat
           /\ IsFiniteSet(1..workersLength)
           /\ Cardinality(1..workersLength) = workersLength
  <1>1. workersLength \in Nat
    BY PoolAssumption DEF TypeInv
  <1>2. IsFiniteSet(1..workersLength) /\ Cardinality(1..workersLength) =
              IF 1 > workersLength THEN 0 ELSE workersLength - 1 + 1
    BY <1>1, FS_Interval
  <1>3. Remaining \in SUBSET (1..workersLength)
    BY DEF Remaining
  <1>4. IsFiniteSet(Remaining)
    BY <1>2, <1>3, FS_Subset
  <1> QED
    BY <1>1, <1>2, <1>4, FS_CardinalityType

\* activeWorkers_ starts at zero with no active thread.
LEMMA CountInit == Init => CountInv
  <1> SUFFICES ASSUME Init PROVE CountInv
    OBVIOUS
  <1>1. ActiveThreads = {}
    BY Threads DEF Init, ActiveThreads, WorkingPC, ClaimedPC
  <1> QED
    BY <1>1, FS_EmptySet DEF Init, CountInv, TermPC

\* activeWorkers_ follows every entry to and exit from the work loop, and is
\* recounted by terminateWorkers().
LEMMA CountStep ==
    TypeInv /\ PcInv /\ LifeInv /\ QuietInv /\ CountInv /\ [Next]_vars => CountInv'
  <1> SUFFICES ASSUME TypeInv, PcInv, LifeInv, QuietInv, CountInv, [Next]_vars
               PROVE  CountInv'
    OBVIOUS
  <1>p. /\ pc \in [Thread -> PC]
        /\ pc[Main] \in MainPC \cup WorkingPC
        /\ \A w \in Worker : pc[w] \in WorkerPC \cup WorkingPC
    BY DEF TypeInv, PcInv
  <1>w. \A w \in 1..workersLength : w \in Worker
    BY PoolAssumption DEF TypeInv, Worker
  <1>u. ASSUME ActiveThreads' = ActiveThreads, UNCHANGED activeWorkers,
               pc[Main] \notin TermPC \cup {"terminated"},
               pc'[Main] \notin TermPC \cup {"terminated"}
        PROVE  CountInv'
    BY <1>u DEF CountInv
  <1> USE <1>p, Threads DEF TermPC, WorkingPC, ClaimedPC, Goto, vars, poolVars
  <1>1. CASE EnterExecuteJob \/ DestroyPool \/ AllocateMainWorker \/ AllocateWorker
             \/ AllWorkersAllocated \/ AllWorkersStarted
    <2>1. ActiveThreads' = ActiveThreads
      BY <1>1 DEF EnterExecuteJob, DestroyPool, AllocateMainWorker, AllocateWorker,
                  AllWorkersAllocated, AllWorkersStarted, ActiveThreads
    <2> QED
      BY <1>1, <2>1, <1>u DEF EnterExecuteJob, DestroyPool, AllocateMainWorker,
            AllocateWorker, AllWorkersAllocated, AllWorkersStarted
  <1>2. CASE \E w \in Worker : StartWorker(w)
    <2>1. ActiveThreads' = ActiveThreads
      BY <1>2 DEF StartWorker, ActiveThreads, QuietInv, RunPC
    <2> QED
      BY <1>2, <2>1, <1>u DEF StartWorker
  <1>3. CASE DistributeSlices \/ PublishJob \/ PublishSlices
    <2>1. ActiveThreads' = ActiveThreads
      BY <1>3 DEF DistributeSlices, PublishJob, PublishSlices, ActiveThreads
    <2> QED
      BY <1>3, <2>1, <1>u DEF DistributeSlices, PublishJob, PublishSlices
  <1>4. CASE NotifyWorkers
    <2>1. ActiveThreads' = ActiveThreads
      BY <1>4 DEF NotifyWorkers, NotifyAll, ActiveThreads
    <2> QED
      BY <1>4, <2>1, <1>u DEF NotifyWorkers, NotifyAll
  <1>5. CASE WaitForWorkers
    <2>1. ActiveThreads' = ActiveThreads
      BY <1>5 DEF WaitForWorkers, ActiveThreads
    <2> QED
      BY <1>5, <2>1, <1>u DEF WaitForWorkers
  <1>6. CASE SignalTermination
    <2>1. /\ pc'[Main] = "termJoinWait"
          /\ activeWorkers' = workersLength /\ workersLength' = workersLength
      BY <1>6 DEF SignalTermination, NotifyAll
    <2>2. \A w \in 1..workersLength : w \in Worker /\ pc'[w] # "exited"
      BY <1>6, PoolAssumption DEF SignalTermination, NotifyAll, LifeInv, TypeInv, Worker
    <2>3. Remaining' = 1..workersLength
      BY <2>1, <2>2 DEF Remaining
    <2> QED
      BY <2>1, <2>3, RemainingFinite DEF CountInv, Remaining
  <1>7. CASE TerminateEmptyPool
    <2>1. activeWorkers = 0
      BY <1>7, FS_EmptySet DEF TerminateEmptyPool, QuietInv, CountInv, RunPC
    <2> QED
      BY <1>7, <2>1 DEF TerminateEmptyPool, DeleteWorkers, CountInv
  <1>8. CASE WaitForTermination
    <2>1. CASE activeWorkers > 0
      <3>1. Remaining' = Remaining
        BY <1>8, <2>1, <1>w DEF WaitForTermination, Remaining
      <3> QED
        BY <1>8, <2>1, <3>1 DEF WaitForTermination, CountInv, Remaining
    <2>2. CASE ~(activeWorkers > 0)
      <3>1. activeWorkers = Cardinality(Remaining)
        BY <1>8 DEF WaitForTermination, CountInv, Remaining
      <3>2. activeWorkers = 0
        BY <2>2, <3>1, RemainingFinite
      <3> QED
        BY <1>8, <2>2, <3>2 DEF WaitForTermination, DeleteWorkers, CountInv
    <2> QED
      BY <2>1, <2>2
  <1>9. CASE \E w \in Worker : WorkerTop(w)
    <2>1. PICK w \in Worker : WorkerTop(w)
      BY <1>9
    <2>2. w \notin ActiveThreads /\ w # Main
      BY <2>1 DEF WorkerTop, ActiveThreads
    <2>3. CASE state[w] = "ACTIVE" /\ ~hasWork
      <3>1. /\ pc' = [pc EXCEPT ![w] = "condWait"]
            /\ UNCHANGED <<activeWorkers, workersLength>>
        BY <2>1, <2>3 DEF WorkerTop
      <3>2. ActiveThreads' = ActiveThreads
        BY <3>1, <2>2 DEF ActiveThreads
      <3>3. pc[Main] \notin TermPC \cup {"terminated"}
        BY <2>1, <2>3 DEF WorkerTop, LifeInv
      <3> QED
        BY <3>1, <3>2, <3>3, <2>2, <1>u
    <2>4. CASE state[w] = "TERMINATED"
      <3>1. /\ pc[Main] \in TermPC /\ w \in Remaining
        BY <2>1, <2>4, PoolAssumption DEF WorkerTop, LifeInv, Remaining, Worker, TypeInv
      <3>2. /\ activeWorkers' = activeWorkers - 1 /\ UNCHANGED workersLength
            /\ pc'[Main] \in TermPC
            /\ \A v \in Worker : pc'[v] = IF v = w THEN "exited" ELSE pc[v]
        BY <2>1, <2>2, <2>4, <3>1 DEF WorkerTop, JoinPool
      <3>3. Remaining' = Remaining \ {w}
        BY <3>2, PoolAssumption DEF Remaining, Worker, TypeInv
      <3>4. activeWorkers = Cardinality(Remaining)
        BY <3>1 DEF CountInv, Remaining
      <3>5. Cardinality(Remaining') = Cardinality(Remaining) - 1
        BY <3>1, <3>3, RemainingFinite, FS_RemoveElement
      <3> QED
        BY <3>2, <3>4, <3>5 DEF CountInv, Remaining
    <2>5. CASE state[w] = "ACTIVE" /\ hasWork
      <3>1. /\ activeWorkers' = activeWorkers + 1 /\ pc'[Main] = pc[Main]
            /\ pc' = [pc EXCEPT ![w] = "fetchJob"]
        BY <2>1, <2>2, <2>5 DEF WorkerTop
      <3>2. ActiveThreads' = ActiveThreads \cup {w}
        BY <3>1 DEF ActiveThreads
      <3>3. Cardinality(ActiveThreads') = Cardinality(ActiveThreads) + 1
        BY <2>2, <3>2, Finite, FS_AddElement
      <3>4. pc[Main] \notin TermPC \cup {"terminated"}
        BY <2>1, <2>5 DEF WorkerTop, LifeInv
      <3> QED
        BY <3>1, <3>3, <3>4 DEF CountInv
    <2> QED
      BY <2>1, <2>3, <2>4, <2>5 DEF WorkerTop
  <1>10. CASE \E w \in Worker : WorkerJoin(w)
    <2>1. PICK w \in Worker : WorkerJoin(w)
      BY <1>10
    <2>2. w \in ActiveThreads /\ w # Main
      BY <2>1 DEF WorkerJoin, ActiveThreads
    <2>3. pc[Main] \in RunPC
      BY <2>2 DEF QuietInv
    <2>4. /\ activeWorkers' = activeWorkers - 1
          /\ \A v \in Worker : pc'[v] = IF v = w THEN "top" ELSE pc[v]
          /\ pc'[Main] \in RunPC
      BY <2>1, <2>2, <2>3 DEF WorkerJoin, JoinPool, RunPC
    <2>5. ActiveThreads' = ActiveThreads \ {w}
      BY <2>4 DEF ActiveThreads
    <2>6. Cardinality(ActiveThreads') = Cardinality(ActiveThreads) - 1
      BY <2>2, <2>5, Finite, FS_RemoveElement
    <2> QED
      BY <2>3, <2>4, <2>6 DEF CountInv, RunPC
  <1>11. CASE \E t \in Thread : WorkStep(t)
    <2>1. PICK t \in Thread : WorkStep(t)
      BY <1>11
    <2>2. PICK label \in WorkingPC \cup {AfterJob(t)} : pc' = [pc EXCEPT ![t] = label]
      BY <2>1, WorkFrame
    <2>3. pc[t] \in WorkingPC /\ UNCHANGED activeWorkers
      BY <2>1, WorkFrame
    <2>4. ActiveThreads' = ActiveThreads
      BY <2>2, <2>3 DEF ActiveThreads, AfterJob
    <2>5. pc[Main] \in RunPC /\ pc'[Main] \in RunPC
      BY <2>2, <2>3 DEF QuietInv, ActiveThreads, RunPC, AfterJob
    <2> QED
      BY <2>3, <2>4, <2>5, <1>u DEF RunPC
  <1>12. CASE \E t \in Thread : SpuriousWakeup(t)
    <2>1. ActiveThreads' = ActiveThreads
      BY <1>12 DEF SpuriousWakeup, ActiveThreads
    <2>2. Remaining' = Remaining
      BY <1>12, <1>w DEF SpuriousWakeup, Remaining
    <2> QED
      BY <1>12, <2>1, <2>2 DEF SpuriousWakeup, CountInv, Remaining, MainPC, WorkerPC
  <1>13. CASE UNCHANGED vars
    BY <1>13 DEF CountInv, ActiveThreads
  <1> QED
    BY <1>1, <1>2, <1>3, <1>4, <1>5, <1>6, <1>7, <1>8, <1>9, <1>10, <1>11, <1>12,
       <1>13
    DEF Next, MainStep, WorkerStep, Terminated

-----------------------------------------------------------------------------
(* Where the slices are *)

\* Initially no slice is anywhere.
LEMMA PlaceInit == Init => PlaceInv
  <1> SUFFICES ASSUME Init PROVE PlaceInv
    OBVIOUS
  <1>1. \A t \in Thread : Queued(t) = {} /\ Unsubtracted(t) = {}
    BY Threads DEF Init, Queued, Unsubtracted, EmptyBounds
  <1>2. \A t \in Thread : pc[t] \notin ClaimedPC
    BY DEF Init, ClaimedPC
  <1> QED
    BY <1>1, <1>2 DEF Init, PlaceInv, ClaimedPC

\* The interval a successful compare-and-exchange takes out of a queue.
LEMMA PopInterval ==
    ASSUME NEW b \in Bounds, b.from < b.to
    PROVE  /\ b.from .. (b.to - 1) = {b.from} \cup ((b.from + 1) .. (b.to - 1))
           /\ b.from .. (b.to - 1) = {b.to - 1} \cup (b.from .. (b.to - 1 - 1))
           /\ b.from \notin (b.from + 1) .. (b.to - 1)
           /\ b.to - 1 \notin b.from .. (b.to - 1 - 1)
  BY BoundsFacts, NumSlicesNat

\* The shares of two threads are disjoint, and every slice is in one.
LEMMA Shares ==
    /\ \A t, u \in Thread : t # u =>
          (ShareOf(t).from .. (ShareOf(t).to - 1)) \cap
          (ShareOf(u).from .. (ShareOf(u).to - 1)) = {}
    /\ \A s \in Slice : \E t \in Thread : s \in ShareOf(t).from .. (ShareOf(t).to - 1)
  <1> DEFINE Index(t) == IF t = Main THEN NumWorkers ELSE t - 1
  <1>i. ASSUME NEW t \in Thread
        PROVE  /\ Index(t) \in 0..NumWorkers
               /\ ShareOf(t).from = Index(t) * SlicesPerWorker
               /\ ShareOf(t).to = (Index(t) + 1) * SlicesPerWorker
    BY PoolAssumption DEF Thread, Main, ShareOf
  <1>d. \A t, u \in Thread : t # u => Index(t) # Index(u)
    BY PoolAssumption DEF Thread, Main
  <1>1. ASSUME NEW t \in Thread, NEW u \in Thread, Index(t) < Index(u)
        PROVE  (ShareOf(t).from .. (ShareOf(t).to - 1)) \cap
               (ShareOf(u).from .. (ShareOf(u).to - 1)) = {}
    <2> HIDE DEF Index
    <2>1. PICK j \in Nat, k \in Nat : j = Index(t) /\ k = Index(u) /\ j < k
      BY <1>1, <1>i, PoolAssumption
    <2>2. (j + 1) * SlicesPerWorker <= k * SlicesPerWorker
      BY <2>1, PoolAssumption
    <2>3. ShareOf(t).to <= ShareOf(u).from /\ ShareOf(t).to \in Int /\ ShareOf(u).from \in Int
          /\ ShareOf(t).from \in Int /\ ShareOf(u).to \in Int
      BY <2>1, <2>2, <1>i, PoolAssumption
    <2> QED
      BY <2>3
  <1>2. ASSUME NEW s \in Slice
        PROVE  \E t \in Thread : s \in ShareOf(t).from .. (ShareOf(t).to - 1)
    <2>1. s \in Nat /\ s < SlicesPerWorker * (NumWorkers + 1)
      BY NumSlicesNat DEF Slice, numSlices
    <2>2. PICK q \in Nat : q * SlicesPerWorker <= s /\ s < (q + 1) * SlicesPerWorker
      <3>1. s \div SlicesPerWorker \in Nat
            /\ (s \div SlicesPerWorker) * SlicesPerWorker <= s
            /\ s < ((s \div SlicesPerWorker) + 1) * SlicesPerWorker
        BY <2>1, PoolAssumption
      <3> QED
        BY <3>1
    <2>3. q <= NumWorkers
      <3>1. CASE q >= NumWorkers + 1
        <4>1. q * SlicesPerWorker >= (NumWorkers + 1) * SlicesPerWorker
          BY <3>1, PoolAssumption
        <4> QED
          BY <4>1, <2>1, <2>2, PoolAssumption
      <3> QED
        BY <3>1, PoolAssumption
    <2>4. PICK t \in Thread : Index(t) = q
      <3>1. CASE q = NumWorkers
        BY <3>1, Threads
      <3>2. CASE q # NumWorkers
        <4>1. q + 1 \in Thread /\ q + 1 # Main /\ (q + 1) - 1 = q
          BY <3>2, <2>3, PoolAssumption DEF Thread, Main
        <4> QED
          BY <4>1
      <3> QED
        BY <3>1, <3>2
    <2>5. /\ ShareOf(t).from = q * SlicesPerWorker
          /\ ShareOf(t).to = (q + 1) * SlicesPerWorker
      BY <2>4, <1>i
    <2> QED
      BY <2>1, <2>2, <2>5, PoolAssumption
  <1>3. ASSUME NEW t \in Thread, NEW u \in Thread, t # u
        PROVE  (ShareOf(t).from .. (ShareOf(t).to - 1)) \cap
               (ShareOf(u).from .. (ShareOf(u).to - 1)) = {}
    <2>1. Index(t) \in Int /\ Index(u) \in Int /\ Index(t) # Index(u)
      BY <1>3, <1>i, <1>d
    <2>2. Index(t) < Index(u) \/ Index(u) < Index(t)
      BY <2>1
    <2> HIDE DEF Index
    <2> QED
      BY <2>2, <1>1
  <1> QED
    BY <1>2, <1>3

\* No slice changes place.
SamePlaces ==
    /\ \A t \in Thread :
          /\ Queued(t)' = Queued(t)
          /\ Unsubtracted(t)' = Unsubtracted(t)
          /\ (pc'[t] \in ClaimedPC) <=> (pc[t] \in ClaimedPC)
          /\ (pc'[t] = "execute") <=> (pc[t] = "execute")
    /\ UNCHANGED <<sliceId, runs, outcome>>

\* Thread t claims slice s from the queue of thread v.
Pop(t, v, s) ==
    /\ pc[t] \in {"casFront", "casBack"} /\ pc' = [pc EXCEPT ![t] = "subtract"]
    /\ s \in Queued(v) /\ s \in Slice
    /\ \A u \in Thread : Queued(u)' = IF u = v THEN Queued(v) \ {s} ELSE Queued(u)
    /\ Unsubtracted(t) = {}
    /\ \A u \in Thread : Unsubtracted(u)' = IF u = t THEN {s} ELSE Unsubtracted(u)
    /\ sliceId' = [sliceId EXCEPT ![t] = s]
    /\ UNCHANGED <<pendingSlices, runs, outcome>>

\* A compare-and-exchange of either kind fails, or it is such a claim.
LEMMA CasIsPop ==
    ASSUME TypeInv, LocalInv, NEW t \in Thread, CasFront(t) \/ CasBack(t)
    PROVE  \/ SamePlaces /\ UNCHANGED pendingSlices
           \/ \E v \in Thread, s \in Slice : Pop(t, v, s)
  <1>p. /\ pc \in [Thread -> PC] /\ seen \in [Thread -> Bounds] /\ victim \in [Thread -> Thread]
        /\ sliceBounds \in [Thread -> Bounds] /\ sliceId \in [Thread -> Slice \cup {NoSlice}]
    BY DEF TypeInv
  <1> USE DEF Goto, history, localVars
  <1>1. CASE CasFront(t) /\ sliceBounds[t] # seen[t]
    BY <1>1, <1>p DEF CasFront, SamePlaces, Queued, Unsubtracted, ClaimedPC
  <1>2. CASE CasBack(t) /\ sliceBounds[victim[t]] # seen[t]
    BY <1>2, <1>p DEF CasBack, SamePlaces, Queued, Unsubtracted, ClaimedPC
  <1>3. CASE CasFront(t) /\ sliceBounds[t] = seen[t]
    <2>1. seen[t] \in Bounds /\ seen[t].from < seen[t].to
      BY <1>3, <1>p DEF CasFront, LocalInv
    <2>2. PICK s \in Slice : s = seen[t].from
      BY <2>1, BoundsFacts
    <2>3. sliceBounds' = [sliceBounds EXCEPT ![t] = [from |-> s + 1, to |-> seen[t].to]]
      BY <1>3, <2>2 DEF CasFront
    <2>4. s \in Queued(t) /\ Queued(t)' = Queued(t) \ {s}
      BY <1>3, <1>p, <2>1, <2>2, <2>3, PopInterval DEF Queued
    <2>5. \A u \in Thread : u # t => Queued(u)' = Queued(u)
      BY <1>p, <2>3 DEF Queued
    <2>6. /\ pc' = [pc EXCEPT ![t] = "subtract"] /\ pc[t] = "casFront"
          /\ sliceId' = [sliceId EXCEPT ![t] = s]
          /\ seen' = [seen EXCEPT ![t] = EmptyBounds]
          /\ UNCHANGED <<pendingSlices, runs, outcome>>
      BY <1>3, <2>2 DEF CasFront
    <2>7. /\ Unsubtracted(t) = {}
          /\ \A u \in Thread : Unsubtracted(u)' = IF u = t THEN {s} ELSE Unsubtracted(u)
      BY <1>p, <2>6 DEF Unsubtracted
    <2>8. Pop(t, t, s)
      BY <2>2, <2>4, <2>5, <2>6, <2>7 DEF Pop
    <2> QED
      BY <2>8
  <1>4. CASE CasBack(t) /\ sliceBounds[victim[t]] = seen[t]
    <2>1. seen[t] \in Bounds /\ seen[t].from < seen[t].to
      BY <1>4, <1>p DEF CasBack, LocalInv
    <2>2. PICK s \in Slice : s = seen[t].to - 1
      BY <2>1, BoundsFacts
    <2>v. PICK v \in Thread : v = victim[t]
      BY <1>p
    <2>3. sliceBounds' = [sliceBounds EXCEPT ![v] = [from |-> seen[t].from, to |-> s]]
      BY <1>4, <2>2, <2>v DEF CasBack
    <2>4. s \in Queued(v) /\ Queued(v)' = Queued(v) \ {s}
      BY <1>4, <1>p, <2>1, <2>2, <2>v, <2>3, PopInterval DEF Queued
    <2>5. \A u \in Thread : u # v => Queued(u)' = Queued(u)
      BY <1>p, <2>3 DEF Queued
    <2>6. /\ pc' = [pc EXCEPT ![t] = "subtract"] /\ pc[t] = "casBack"
          /\ sliceId' = [sliceId EXCEPT ![t] = s]
          /\ seen' = [seen EXCEPT ![t] = EmptyBounds]
          /\ UNCHANGED <<pendingSlices, runs, outcome>>
      BY <1>4, <2>2 DEF CasBack
    <2>7. /\ Unsubtracted(t) = {}
          /\ \A u \in Thread : Unsubtracted(u)' = IF u = t THEN {s} ELSE Unsubtracted(u)
      BY <1>p, <2>6 DEF Unsubtracted
    <2>8. Pop(t, v, s)
      BY <2>2, <2>4, <2>5, <2>6, <2>7 DEF Pop
    <2> QED
      BY <2>8
  <1> QED
    BY <1>1, <1>2, <1>3, <1>4

\* Thread t empties the queue of thread v for an abort.
Drop(t, v) ==
    /\ pc[t] = "abortCAS" /\ pc' = [pc EXCEPT ![t] = "abortSubtract"]
    /\ \A u \in Thread : Queued(u)' = IF u = v THEN {} ELSE Queued(u)
    /\ Unsubtracted(t) = {}
    /\ \A u \in Thread :
          Unsubtracted(u)' = IF u = t THEN Queued(v) ELSE Unsubtracted(u)
    /\ UNCHANGED <<pendingSlices, sliceId, runs, outcome>>

\* Thread t subtracts what it has taken from pendingSlices_.
Retire(t) ==
    /\ pc[t] \in {"subtract", "abortSubtract"}
    /\ pc'[t] \in ClaimedPC <=> pc[t] = "subtract"
    /\ pc'[t] = "execute" <=> pc[t] = "subtract"
    /\ \A u \in Thread : u # t => pc'[u] = pc[u]
    /\ \A u \in Thread : Queued(u)' = Queued(u)
    /\ \A u \in Thread : Unsubtracted(u)' = IF u = t THEN {} ELSE Unsubtracted(u)
    /\ pc[t] = "subtract" => Unsubtracted(t) = {sliceId[t]}
    /\ pendingSlices' = pendingSlices - Cardinality(Unsubtracted(t))
    /\ UNCHANGED <<sliceId, runs, outcome>>

\* An abort's compare-and-exchange fails, or it takes a whole queue.
LEMMA AbortCasIsDrop ==
    ASSUME TypeInv, NEW t \in Thread, AbortCAS(t)
    PROVE  \/ SamePlaces /\ UNCHANGED pendingSlices
           \/ \E v \in Thread : Drop(t, v)
  <1>p. /\ pc \in [Thread -> PC] /\ seen \in [Thread -> Bounds] /\ victim \in [Thread -> Thread]
        /\ sliceBounds \in [Thread -> Bounds]
    BY DEF TypeInv
  <1> USE DEF Goto, history, localVars
  <1>1. CASE sliceBounds[victim[t]] # seen[t]
    BY <1>1, <1>p DEF AbortCAS, SamePlaces, Queued, Unsubtracted, ClaimedPC
  <1>2. CASE sliceBounds[victim[t]] = seen[t]
    <2>1. PICK v \in Thread : v = victim[t]
      BY <1>p
    <2>2. /\ sliceBounds' = [sliceBounds EXCEPT ![v] = EmptyBounds]
          /\ pc[t] = "abortCAS" /\ pc' = [pc EXCEPT ![t] = "abortSubtract"]
          /\ sliceBounds[v] = seen[t]
          /\ UNCHANGED <<pendingSlices, sliceId, runs, outcome, seen>>
      BY <1>2, <2>1 DEF AbortCAS
    <2>3. \A u \in Thread : Queued(u)' = IF u = v THEN {} ELSE Queued(u)
      BY <1>p, <2>2 DEF Queued, EmptyBounds
    <2>4. /\ Unsubtracted(t) = {}
          /\ \A u \in Thread :
                Unsubtracted(u)' = IF u = t THEN Queued(v) ELSE Unsubtracted(u)
      BY <1>p, <2>2 DEF Unsubtracted, Queued
    <2>5. Drop(t, v)
      BY <2>2, <2>3, <2>4 DEF Drop
    <2> QED
      BY <2>5
  <1> QED
    BY <1>1, <1>2

\* Both subtractions from pendingSlices_ subtract what the thread has taken.
LEMMA SubtractIsRetire ==
    ASSUME TypeInv, LocalInv, NEW t \in Thread, SubtractSlice(t) \/ AbortSubtract(t)
    PROVE  Retire(t)
  <1>p. /\ pc \in [Thread -> PC] /\ seen \in [Thread -> Bounds]
        /\ sliceId \in [Thread -> Slice \cup {NoSlice}]
    BY DEF TypeInv
  <1> USE DEF Goto, history, localVars
  <1>1. CASE SubtractSlice(t)
    <2>1. /\ pc[t] = "subtract" /\ pc' = [pc EXCEPT ![t] = "execute"]
          /\ pendingSlices' = pendingSlices - 1
          /\ UNCHANGED <<sliceBounds, seen, sliceId, runs, outcome>>
      BY <1>1 DEF SubtractSlice
    <2>2. /\ Unsubtracted(t) = {sliceId[t]}
          /\ \A u \in Thread : Unsubtracted(u)' = IF u = t THEN {} ELSE Unsubtracted(u)
      BY <1>p, <2>1 DEF Unsubtracted
    <2>3. Cardinality(Unsubtracted(t)) = 1
      BY <2>2, FS_Singleton
    <2> QED
      BY <1>p, <2>1, <2>2, <2>3 DEF Retire, Queued, ClaimedPC
  <1>2. CASE AbortSubtract(t)
    <2>1. /\ pc[t] = "abortSubtract" /\ pc'[t] \notin {"subtract", "execute", "abortSubtract"}
          /\ \A u \in Thread : u # t => pc'[u] = pc[u]
          /\ \A u \in Thread : u # t => seen'[u] = seen[u]
          /\ pendingSlices' = pendingSlices - (seen[t].to - seen[t].from)
          /\ UNCHANGED <<sliceBounds, sliceId, runs, outcome>>
      BY <1>2, <1>p DEF AbortSubtract, AfterJob
    <2>2. Unsubtracted(t) = seen[t].from .. (seen[t].to - 1)
      BY <2>1 DEF Unsubtracted
    <2>3. \A u \in Thread : Unsubtracted(u)' = IF u = t THEN {} ELSE Unsubtracted(u)
      BY <2>1 DEF Unsubtracted
    <2>4. Cardinality(Unsubtracted(t)) = seen[t].to - seen[t].from
      <3>1. PICK a \in Int, b \in Int : a = seen[t].from /\ b = seen[t].to /\ a <= b
        BY <1>p, BoundsFacts, NumSlicesNat DEF LocalInv
      <3>2. Cardinality(a..(b - 1)) = IF a > b - 1 THEN 0 ELSE (b - 1) - a + 1
        BY FS_Interval
      <3>3. Cardinality(a..(b - 1)) = b - a
        BY <3>1, <3>2
      <3> QED
        BY <2>2, <3>1, <3>3
    <2> QED
      BY <2>1, <2>2, <2>3, <2>4 DEF Retire, Queued, ClaimedPC
  <1> QED
    BY <1>1, <1>2

\* Every step of the pool, seen from the slices.
LEMMA Effects ==
    ASSUME TypeInv, PcInv, LocalInv, QuietInv, [Next]_vars
    PROVE  \/ SamePlaces /\ (pendingSlices' = pendingSlices \/ PublishSlices)
           \/ DistributeSlices
           \/ \E t \in Thread : \/ ExecuteSlice(t)
                                \/ \E v \in Thread, s \in Slice : Pop(t, v, s)
                                \/ \E v \in Thread : Drop(t, v)
                                \/ Retire(t)
  <1> DEFINE Same == SamePlaces /\ (pendingSlices' = pendingSlices \/ PublishSlices)
  <1>p. /\ pc \in [Thread -> PC] /\ seen \in [Thread -> Bounds]
        /\ pc[Main] \in MainPC \cup WorkingPC
        /\ \A w \in Worker : pc[w] \in WorkerPC \cup WorkingPC
    BY DEF TypeInv, PcInv
  <1>u. ASSUME \A t \in Thread :
                  \/ pc'[t] = pc[t] /\ seen'[t] = seen[t]
                  \/ {pc[t], pc'[t]} \cap {"subtract", "abortSubtract", "execute"} = {},
               UNCHANGED <<sliceBounds, sliceId, runs, outcome>>,
               pendingSlices' = pendingSlices \/ PublishSlices
        PROVE  Same
    BY <1>u DEF SamePlaces, Queued, Unsubtracted, ClaimedPC
  <1> HIDE DEF Same
  <1> USE <1>p, Threads DEF Goto, poolVars, queueVars, localVars, history
  <1>1. CASE EnterExecuteJob \/ DestroyPool \/ AllocateMainWorker \/ AllocateWorker
             \/ AllWorkersAllocated \/ AllWorkersStarted
    <2>1. Same
      BY <1>1, <1>u DEF EnterExecuteJob, DestroyPool, AllocateMainWorker,
            AllocateWorker, AllWorkersAllocated, AllWorkersStarted
    <2> QED
      BY <2>1 DEF Same
  <1>2. CASE \E w \in Worker : StartWorker(w)
    <2>1. Same
      BY <1>2, <1>u DEF StartWorker, QuietInv, RunPC, ActiveThreads, WorkingPC, ClaimedPC
    <2> QED
      BY <2>1 DEF Same
  <1>3. CASE PublishJob \/ PublishSlices
    <2>1. Same
      BY <1>3, <1>u DEF PublishJob, PublishSlices
    <2> QED
      BY <2>1 DEF Same
  <1>4. CASE NotifyWorkers \/ SignalTermination
    <2>1. Same
      BY <1>4, <1>u DEF NotifyWorkers, SignalTermination, NotifyAll
    <2> QED
      BY <2>1 DEF Same
  <1>5. CASE WaitForWorkers
    <2>1. Same
      BY <1>5, <1>u DEF WaitForWorkers
    <2> QED
      BY <2>1 DEF Same
  <1>6. CASE TerminateEmptyPool \/ WaitForTermination
    <2>1. Same
      BY <1>6, <1>u DEF TerminateEmptyPool, WaitForTermination, DeleteWorkers
    <2> QED
      BY <2>1 DEF Same
  <1>7. CASE \E w \in Worker : WorkerTop(w) \/ WorkerJoin(w)
    <2>1. Same
      BY <1>7, <1>u DEF WorkerTop, WorkerJoin, JoinPool
    <2> QED
      BY <2>1 DEF Same
  <1>8. CASE \E t \in Thread : SpuriousWakeup(t)
    <2>1. Same
      BY <1>8, <1>u DEF SpuriousWakeup
    <2> QED
      BY <2>1 DEF Same
  <1>9. CASE \E t \in Thread : FetchJob(t) \/ LoadFront(t) \/ TryToSteal(t)
                                \/ LoadBack(t) \/ AbortLoad(t)
    <2>1. Same
      BY <1>9, <1>u DEF FetchJob, LoadFront, TryToSteal, LoadBack, AbortLoad, AfterJob
    <2> QED
      BY <2>1 DEF Same
  <1>10. CASE \E t \in Thread : CasFront(t) \/ CasBack(t)
    BY <1>10, CasIsPop
  <1>11. CASE \E t \in Thread : AbortCAS(t)
    BY <1>11, AbortCasIsDrop
  <1>12. CASE \E t \in Thread : SubtractSlice(t) \/ AbortSubtract(t)
    BY <1>12, SubtractIsRetire
  <1>13. CASE UNCHANGED vars
    <2>1. Same
      BY <1>13, <1>u DEF vars
    <2> QED
      BY <2>1 DEF Same
  <1> QED
    BY <1>1, <1>2, <1>3, <1>4, <1>5, <1>6, <1>7, <1>8, <1>9, <1>10, <1>11, <1>12,
       <1>13
    DEF Next, MainStep, WorkerStep, WorkStep, Terminated

\* The slices of a new job, before any worker can see them.
LEMMA DistributeEffect ==
    ASSUME TypeInv, PcInv, QuietInv, DistributeSlices
    PROVE  /\ \A t \in Thread : /\ Queued(t)' = ShareOf(t).from .. (ShareOf(t).to - 1)
                                /\ Queued(t)' \subseteq Slice
                                /\ Unsubtracted(t)' = {}
                                /\ pc'[t] \notin ClaimedPC
           /\ runs' = [s \in Slice |-> 0]
           /\ pc'[Main] \notin RunPC
  <1>1. \A t \in Thread : pc'[t] \notin ClaimedPC \cup {"abortSubtract"}
    BY Threads DEF DistributeSlices, QuietInv, RunPC, ActiveThreads, WorkingPC,
                   ClaimedPC, TypeInv, Goto
  <1>2. \A t \in Thread : Queued(t)' = ShareOf(t).from .. (ShareOf(t).to - 1)
    BY DEF DistributeSlices, Queued
  <1>3. \A t \in Thread : ShareOf(t).from .. (ShareOf(t).to - 1) \subseteq Slice
    <2> SUFFICES ASSUME NEW t \in Thread
                 PROVE  ShareOf(t).from .. (ShareOf(t).to - 1) \subseteq Slice
      OBVIOUS
    <2>1. ShareOf(t).from \in 0..numSlices /\ ShareOf(t).to \in 0..numSlices
      BY NumSlicesNat, BoundsFacts
    <2> QED
      BY <2>1, NumSlicesNat DEF Slice
  <1>4. \A t \in Thread : Unsubtracted(t)' = {}
    BY <1>1 DEF Unsubtracted, ClaimedPC
  <1>5. pc'[Main] \notin RunPC
    BY Threads DEF DistributeSlices, Goto, TypeInv, RunPC, WorkingPC, ClaimedPC
  <1> QED
    BY <1>1, <1>2, <1>3, <1>4, <1>5 DEF DistributeSlices

\* A slice stays in one place: no two queues, threads or runs share one.
LEMMA PlaceStep ==
    TypeInv /\ PcInv /\ LocalInv /\ QuietInv /\ PlaceInv /\ [Next]_vars => PlaceInv'
  <1> SUFFICES ASSUME TypeInv, PcInv, LocalInv, QuietInv, PlaceInv, [Next]_vars
               PROVE  PlaceInv'
    OBVIOUS
  <1>p. /\ pc \in [Thread -> PC] /\ sliceId \in [Thread -> Slice \cup {NoSlice}]
        /\ runs \in [Slice -> Nat]
        /\ \A t \in Thread : pc[t] \in ClaimedPC => sliceId[t] \in Slice
    BY DEF TypeInv, LocalInv
  <1>1. CASE SamePlaces
    BY <1>1 DEF SamePlaces, PlaceInv
  <1>2. CASE DistributeSlices
    <2>1. \A t, u \in Thread : t # u => Queued(t)' \cap Queued(u)' = {}
      BY <1>2, DistributeEffect, Shares
    <2> QED
      BY <1>2, <2>1, DistributeEffect DEF PlaceInv, ClaimedPC
  <1>3. ASSUME NEW t \in Thread, ExecuteSlice(t)
        PROVE  PlaceInv'
    <2>1. /\ pc[t] = "execute" /\ sliceId[t] \in Slice
          /\ pc'[t] \notin {"subtract", "execute", "abortSubtract"}
          /\ \A u \in Thread : u # t => pc'[u] = pc[u] /\ sliceId'[u] = sliceId[u]
          /\ runs' = [runs EXCEPT ![sliceId[t]] = runs[sliceId[t]] + 1]
          /\ UNCHANGED <<sliceBounds, seen>>
      BY <1>3, <1>p DEF ExecuteSlice, Goto, queueVars, ClaimedPC
    <2>2. \A u \in Thread : Queued(u)' = Queued(u) /\ Unsubtracted(u)' = Unsubtracted(u)
      BY <2>1 DEF Queued, Unsubtracted
    <2>3. \A u \in Thread : pc'[u] \in ClaimedPC => pc[u] \in ClaimedPC /\ u # t
      BY <2>1 DEF ClaimedPC
    <2>4. /\ runs[sliceId[t]] = 0
          /\ \A s \in Slice : runs'[s] = IF s = sliceId[t] THEN 1 ELSE runs[s]
      BY <1>p, <2>1 DEF PlaceInv, ClaimedPC
    <2>5. \A u \in Thread : sliceId[t] \notin Queued(u) \cup Unsubtracted(u)
      BY <2>1 DEF PlaceInv
    <2>6. \A u \in Thread : u # t /\ pc[u] \in ClaimedPC => sliceId[u] # sliceId[t]
      BY <2>1 DEF PlaceInv, ClaimedPC
    <2>7. \A u \in Thread : \A s \in Queued(u) \cup Unsubtracted(u) : runs'[s] = 0
      <3>1. \A u \in Thread : \A s \in Queued(u) \cup Unsubtracted(u) :
               runs[s] = 0 /\ s # sliceId[t]
        BY <2>5 DEF PlaceInv
      <3> QED
        BY <3>1, <2>1, <1>p
    <2>8. \A u \in Thread : pc'[u] \in ClaimedPC => runs'[sliceId'[u]] = 0
      BY <1>p, <2>1, <2>3, <2>4, <2>6 DEF PlaceInv
    <2> QED
      BY <2>1, <2>2, <2>3, <2>4, <2>7, <2>8 DEF PlaceInv
  <1>4. ASSUME NEW t \in Thread, NEW v \in Thread, NEW s \in Slice, Pop(t, v, s)
        PROVE  PlaceInv'
    <2>1. /\ pc[t] \notin ClaimedPC /\ pc'[t] = "subtract"
          /\ \A u \in Thread : u # t => pc'[u] = pc[u] /\ sliceId'[u] = sliceId[u]
          /\ sliceId'[t] = s
      BY <1>4, <1>p DEF Pop, ClaimedPC
    <2>2. /\ s \in Queued(v) /\ runs' = runs /\ runs[s] = 0
          /\ \A u \in Thread : Queued(u)' = IF u = v THEN Queued(v) \ {s} ELSE Queued(u)
          /\ \A u \in Thread : Unsubtracted(u)' = IF u = t THEN {s} ELSE Unsubtracted(u)
      BY <1>4 DEF Pop, PlaceInv
    <2>3. \A u \in Thread : pc[u] \in ClaimedPC => sliceId[u] # s
      <3> SUFFICES ASSUME NEW u \in Thread, pc[u] \in ClaimedPC PROVE sliceId[u] # s
        OBVIOUS
      <3>1. CASE pc[u] = "subtract"
        BY <3>1, <2>2 DEF PlaceInv, Unsubtracted
      <3>2. CASE pc[u] = "execute"
        BY <3>2, <2>2 DEF PlaceInv
      <3> QED
        BY <3>1, <3>2 DEF ClaimedPC
    <2>4. \A u \in Thread : s \notin Unsubtracted(u)
      BY <2>2 DEF PlaceInv
    <2>5. \A u \in Thread : u # v => s \notin Queued(u)
      BY <2>2 DEF PlaceInv
    <2>6. \A u, x \in Thread : u # x =>
             /\ Queued(u)' \cap Queued(x)' = {}
             /\ Unsubtracted(u)' \cap Unsubtracted(x)' = {}
      BY <2>2, <2>4 DEF PlaceInv
    <2>7. \A u, x \in Thread : Queued(u)' \cap Unsubtracted(x)' = {}
      BY <2>2, <2>5 DEF PlaceInv
    <2>8. \A u, x \in Thread : u # x /\ pc'[u] \in ClaimedPC /\ pc'[x] \in ClaimedPC
             => sliceId'[u] # sliceId'[x]
      BY <2>1, <2>3 DEF PlaceInv
    <2>9. \A u, x \in Thread : pc'[x] = "execute" =>
             sliceId'[x] \notin Queued(u)' \cup Unsubtracted(u)'
      BY <2>1, <2>2, <2>3 DEF PlaceInv, ClaimedPC
    <2>10. \A u \in Thread : /\ \A r \in Queued(u)' \cup Unsubtracted(u)' : runs'[r] = 0
                             /\ pc'[u] \in ClaimedPC => runs'[sliceId'[u]] = 0
      BY <2>1, <2>2 DEF PlaceInv
    <2> QED
      BY <2>2, <2>6, <2>7, <2>8, <2>9, <2>10 DEF PlaceInv
  <1>5. ASSUME NEW t \in Thread, NEW v \in Thread, Drop(t, v)
        PROVE  PlaceInv'
    <2>1. /\ \A u \in Thread : (pc'[u] \in ClaimedPC) = (pc[u] \in ClaimedPC)
          /\ \A u \in Thread : (pc'[u] = "execute") = (pc[u] = "execute")
          /\ sliceId' = sliceId /\ runs' = runs
          /\ \A u \in Thread : Queued(u)' = IF u = v THEN {} ELSE Queued(u)
          /\ \A u \in Thread :
                Unsubtracted(u)' = IF u = t THEN Queued(v) ELSE Unsubtracted(u)
      BY <1>5, <1>p DEF Drop, ClaimedPC
    <2> QED
      BY <2>1 DEF PlaceInv
  <1>6. ASSUME NEW t \in Thread, Retire(t)
        PROVE  PlaceInv'
    <2>1. /\ sliceId' = sliceId /\ runs' = runs
          /\ \A u \in Thread : Queued(u)' = Queued(u)
          /\ \A u \in Thread : Unsubtracted(u)' = IF u = t THEN {} ELSE Unsubtracted(u)
          /\ \A u \in Thread : (pc'[u] \in ClaimedPC) = (pc[u] \in ClaimedPC)
      BY <1>6 DEF Retire, ClaimedPC
    <2>2. \A u, x \in Thread : pc'[x] = "execute" =>
             sliceId[x] \notin Queued(u) \cup Unsubtracted(u)'
      BY <1>6, <2>1 DEF Retire, PlaceInv
    <2> QED
      BY <2>1, <2>2 DEF PlaceInv
  <1> QED
    BY <1>1, <1>2, <1>3, <1>4, <1>5, <1>6, Effects

\* Only DistributeSlices counts a new job, and only PublishSlices lets the
\* workers into it.
LEMMA JobsFrame ==
    ASSUME TypeInv, PcInv, [Next]_vars
    PROVE  /\ jobs' = jobs \/ DistributeSlices
           /\ pc[Main] \notin RunPC /\ pc'[Main] \in RunPC => PublishSlices
  <1>p. /\ pc \in [Thread -> PC]
        /\ pc[Main] \in MainPC \cup WorkingPC
        /\ \A w \in Worker : pc[w] \in WorkerPC \cup WorkingPC
    BY DEF TypeInv, PcInv
  <1> USE <1>p, Threads DEF Goto, history, RunPC, WorkingPC, ClaimedPC
  <1>1. CASE EnterExecuteJob \/ DestroyPool \/ AllocateMainWorker \/ AllocateWorker
             \/ AllWorkersAllocated \/ AllWorkersStarted
    BY <1>1 DEF EnterExecuteJob, DestroyPool, AllocateMainWorker, AllocateWorker,
                AllWorkersAllocated, AllWorkersStarted
  <1>2. CASE \E w \in Worker : StartWorker(w)
    BY <1>2 DEF StartWorker
  <1>3. CASE PublishJob \/ PublishSlices \/ WaitForWorkers
    BY <1>3 DEF PublishJob, PublishSlices, WaitForWorkers
  <1>4. CASE NotifyWorkers \/ SignalTermination
    BY <1>4 DEF NotifyWorkers, SignalTermination, NotifyAll
  <1>5. CASE TerminateEmptyPool \/ WaitForTermination
    BY <1>5 DEF TerminateEmptyPool, WaitForTermination, DeleteWorkers
  <1>6. CASE \E w \in Worker : WorkerTop(w) \/ WorkerJoin(w)
    BY <1>6 DEF WorkerTop, WorkerJoin, JoinPool
  <1>7. CASE \E t \in Thread : WorkStep(t)
    <2>1. PICK t \in Thread : WorkStep(t)
      BY <1>7
    <2>2. /\ pc[t] \in WorkingPC /\ jobs' = jobs
          /\ \E label \in WorkingPC \cup {AfterJob(t)} : pc' = [pc EXCEPT ![t] = label]
      BY <2>1, WorkFrame
    <2> QED
      BY <2>2 DEF AfterJob
  <1>8. CASE \E t \in Thread : SpuriousWakeup(t)
    BY <1>8 DEF SpuriousWakeup
  <1>9. CASE UNCHANGED vars
    BY <1>9 DEF vars
  <1>10. CASE DistributeSlices
    BY <1>10 DEF DistributeSlices
  <1> QED
    BY <1>1, <1>2, <1>3, <1>4, <1>5, <1>6, <1>7, <1>8, <1>9, <1>10
    DEF Next, MainStep, WorkerStep, Terminated

\* No job has been submitted.
LEMMA CoverInit == Init => CoverInv
  BY DEF Init, CoverInv

\* Unless the job is aborted every slice is queued, claimed or has run.
LEMMA CoverStep ==
    TypeInv /\ PcInv /\ LocalInv /\ QuietInv /\ PlaceInv /\ CoverInv /\ [Next]_vars
    => CoverInv'
  <1> SUFFICES ASSUME TypeInv, PcInv, LocalInv, QuietInv, PlaceInv, CoverInv,
                      [Next]_vars, outcome' = "complete", jobs' > 0,
                      NEW r \in Slice
               PROVE  \/ runs'[r] = 1
                      \/ \E t \in Thread : r \in Queued(t)' \/ Holds(t, r)'
    BY DEF CoverInv
  <1>p. /\ pc \in [Thread -> PC] /\ sliceId \in [Thread -> Slice \cup {NoSlice}]
        /\ runs \in [Slice -> Nat]
        /\ \A t \in Thread : pc[t] \in ClaimedPC => sliceId[t] \in Slice
        /\ \A t \in Thread : pc[t] \in AbortPC => outcome = "aborted"
    BY DEF TypeInv, LocalInv
  <1>d. CASE DistributeSlices
    <2>1. \A t \in Thread : Queued(t)' = ShareOf(t).from .. (ShareOf(t).to - 1)
      BY <1>d, DistributeEffect
    <2>2. \E t \in Thread : r \in ShareOf(t).from .. (ShareOf(t).to - 1)
      BY Shares
    <2> QED
      BY <2>1, <2>2
  <1>c. ASSUME ~DistributeSlices, outcome = "complete"
        PROVE  runs[r] = 1 \/ \E t \in Thread : r \in Queued(t) \/ Holds(t, r)
    BY <1>c, JobsFrame DEF CoverInv
  <1>1. CASE SamePlaces /\ ~DistributeSlices
    BY <1>1, <1>c DEF SamePlaces, Holds
  <1>2. ASSUME NEW t \in Thread, ExecuteSlice(t), ~DistributeSlices
        PROVE  \/ runs'[r] = 1
               \/ \E u \in Thread : r \in Queued(u)' \/ Holds(u, r)'
    <2>1. /\ pc[t] = "execute" /\ sliceId[t] \in Slice /\ outcome = "complete"
          /\ \A u \in Thread : u # t => pc'[u] = pc[u] /\ sliceId'[u] = sliceId[u]
          /\ runs' = [runs EXCEPT ![sliceId[t]] = runs[sliceId[t]] + 1]
          /\ runs[sliceId[t]] = 0
          /\ \A u \in Thread : Queued(u)' = Queued(u)
      BY <1>2, <1>p DEF ExecuteSlice, Goto, queueVars, ClaimedPC, PlaceInv, Queued
    <2> QED
      BY <1>c, <1>2, <2>1, <1>p DEF Holds
  <1>3. ASSUME NEW t \in Thread, NEW v \in Thread, NEW s \in Slice, Pop(t, v, s),
               ~DistributeSlices
        PROVE  \/ runs'[r] = 1
               \/ \E u \in Thread : r \in Queued(u)' \/ Holds(u, r)'
    <2>1. /\ pc[t] \notin ClaimedPC /\ pc'[t] \in ClaimedPC
          /\ \A u \in Thread : u # t => pc'[u] = pc[u] /\ sliceId'[u] = sliceId[u]
          /\ sliceId'[t] = s /\ runs' = runs /\ outcome = "complete"
          /\ \A u \in Thread : Queued(u)' = IF u = v THEN Queued(v) \ {s} ELSE Queued(u)
      BY <1>3, <1>p DEF Pop, ClaimedPC
    <2> QED
      BY <1>c, <1>3, <2>1 DEF Holds
  <1>4. ASSUME NEW t \in Thread, NEW v \in Thread, Drop(t, v)
        PROVE  FALSE
    BY <1>4, <1>p DEF Drop, AbortPC
  <1>5. ASSUME NEW t \in Thread, Retire(t), ~DistributeSlices
        PROVE  \/ runs'[r] = 1
               \/ \E u \in Thread : r \in Queued(u)' \/ Holds(u, r)'
    <2>1. /\ sliceId' = sliceId /\ runs' = runs /\ outcome = "complete"
          /\ \A u \in Thread : Queued(u)' = Queued(u)
          /\ \A u \in Thread : pc[u] \in ClaimedPC => pc'[u] \in ClaimedPC
      BY <1>5, <1>p DEF Retire, ClaimedPC, AbortPC
    <2> QED
      BY <1>c, <1>5, <2>1 DEF Holds
  <1> QED
    BY <1>d, <1>1, <1>2, <1>3, <1>4, <1>5, Effects

-----------------------------------------------------------------------------
(* The counter of pending slices *)

\* The slices that are queued or not yet subtracted are finitely many.
LEMMA OutstandingFinite ==
    /\ IsFiniteSet(Slice) /\ Cardinality(Slice) = numSlices
    /\ IsFiniteSet(Outstanding) /\ Cardinality(Outstanding) \in Nat
    /\ Cardinality(Outstanding) <= numSlices
  <1>1. numSlices - 1 \in Int /\ (IF 0 > numSlices - 1 THEN 0 ELSE (numSlices - 1) - 0 + 1) = numSlices
    BY NumSlicesNat
  <1>2. IsFiniteSet(Slice) /\ Cardinality(Slice) = numSlices
    BY <1>1, FS_Interval DEF Slice
  <1>3. Outstanding \in SUBSET Slice
    BY DEF Outstanding
  <1>4. IsFiniteSet(Outstanding) /\ Cardinality(Outstanding) <= Cardinality(Slice)
    BY <1>2, <1>3, FS_Subset
  <1> QED
    BY <1>2, <1>4, FS_CardinalityType

\* What a thread has taken out of a queue is a set of slices.
LEMMA UnsubtractedSlices ==
    ASSUME TypeInv, LocalInv, NEW t \in Thread
    PROVE  Unsubtracted(t) \subseteq Slice
  <1>1. CASE pc[t] = "subtract"
    BY <1>1 DEF Unsubtracted, LocalInv, ClaimedPC
  <1>2. CASE pc[t] = "abortSubtract"
    <2>1. seen[t] \in Bounds
      BY DEF TypeInv
    <2>2. seen[t].from \in 0..numSlices /\ seen[t].to \in 0..numSlices
      BY <2>1, BoundsFacts
    <2> QED
      BY <1>2, <2>2, NumSlicesNat DEF Unsubtracted, Slice
  <1>3. CASE pc[t] \notin {"subtract", "abortSubtract"}
    BY <1>3 DEF Unsubtracted
  <1> QED
    BY <1>1, <1>2, <1>3

\* No job is running initially.
LEMMA PendingInit == Init => PendingInv
  BY Threads DEF Init, PendingInv, RunPC, WorkingPC, ClaimedPC

\* pendingSlices_ equals the number of outstanding slices: a pop or an abort's
\* compare-and-exchange moves slices from a queue to the thread, and only the
\* subtraction that follows takes them out of both.
LEMMA PendingStep ==
    TypeInv /\ PcInv /\ LocalInv /\ QuietInv /\ PlaceInv /\ PendingInv /\ [Next]_vars
    => PendingInv'
  <1> SUFFICES ASSUME TypeInv, PcInv, LocalInv, QuietInv, PlaceInv, PendingInv,
                      [Next]_vars, pc'[Main] \in RunPC
               PROVE  pendingSlices' = Cardinality(Outstanding')
    BY DEF PendingInv
  <1>e. ASSUME ~PublishSlices
        PROVE  pendingSlices = Cardinality(Outstanding)
    BY <1>e, JobsFrame DEF PendingInv
  <1>o. ASSUME \A s \in Slice :
                  (\E t \in Thread : s \in Queued(t)' \/ s \in Unsubtracted(t)')
                  <=> (\E t \in Thread : s \in Queued(t) \/ s \in Unsubtracted(t)),
               pendingSlices' = pendingSlices, ~PublishSlices
        PROVE  pendingSlices' = Cardinality(Outstanding')
    <2>1. Outstanding' = Outstanding
      BY <1>o DEF Outstanding
    <2> QED
      BY <1>o, <2>1, <1>e
  <1>1. CASE PublishSlices
    <2>1. /\ pendingSlices' = numSlices
          /\ \A t \in Thread : sliceBounds'[t] = ShareOf(t)
      BY <1>1, Threads DEF PublishSlices, QuietInv, RunPC, WorkingPC, ClaimedPC
    <2>2. Outstanding' = Slice
      BY <2>1, Shares DEF Outstanding, Queued
    <2> QED
      BY <2>1, <2>2, OutstandingFinite
  <1>2. CASE SamePlaces /\ pendingSlices' = pendingSlices /\ ~PublishSlices
    BY <1>2, <1>o DEF SamePlaces
  <1>3. CASE DistributeSlices
    BY <1>3, DistributeEffect
  <1>4. ASSUME NEW t \in Thread, ExecuteSlice(t)
        PROVE  pendingSlices' = Cardinality(Outstanding')
    <2>1. /\ pc[t] = "execute" /\ pc'[t] \notin {"subtract", "abortSubtract"}
          /\ \A u \in Thread : u # t => pc'[u] = pc[u] /\ sliceId'[u] = sliceId[u]
          /\ UNCHANGED <<sliceBounds, seen, pendingSlices>>
      BY <1>4 DEF TypeInv, ExecuteSlice, Goto, queueVars
    <2>2. \A u \in Thread : Queued(u)' = Queued(u) /\ Unsubtracted(u)' = Unsubtracted(u)
      BY <2>1 DEF Queued, Unsubtracted
    <2>3. pc[Main] # "publishSlices"
      BY <2>1, Threads DEF QuietInv, RunPC, WorkingPC, ClaimedPC, ActiveThreads
    <2> QED
      BY <2>1, <2>2, <2>3, <1>o DEF PublishSlices
  <1>5. ASSUME NEW t \in Thread, NEW v \in Thread, NEW s \in Slice, Pop(t, v, s)
        PROVE  pendingSlices' = Cardinality(Outstanding')
    <2>1. pendingSlices' = pendingSlices /\ ~PublishSlices
      BY <1>5, Threads DEF Pop, PublishSlices, TypeInv, Goto
    <2> QED
      BY <1>5, <2>1, <1>o DEF Pop
  <1>6. ASSUME NEW t \in Thread, NEW v \in Thread, Drop(t, v)
        PROVE  pendingSlices' = Cardinality(Outstanding')
    <2>1. pendingSlices' = pendingSlices /\ ~PublishSlices
      BY <1>6, Threads DEF Drop, PublishSlices, TypeInv, Goto
    <2> QED
      BY <1>6, <2>1, <1>o DEF Drop
  <1>7. ASSUME NEW t \in Thread, Retire(t)
        PROVE  pendingSlices' = Cardinality(Outstanding')
    <2>1. pc[t] \in WorkingPC /\ pc[t] # "publishSlices"
      BY <1>7 DEF Retire, WorkingPC, ClaimedPC
    <2>2. pc[Main] # "publishSlices"
      BY <2>1, Threads DEF QuietInv, RunPC, WorkingPC, ClaimedPC, ActiveThreads
    <2>3. pendingSlices = Cardinality(Outstanding)
      BY <2>2, <1>e DEF PublishSlices
    <2>4. Unsubtracted(t) \subseteq Outstanding
      BY UnsubtractedSlices DEF Outstanding
    <2>5. Outstanding' = Outstanding \ Unsubtracted(t)
      <3>1. \A u \in Thread : Unsubtracted(t) \cap Queued(u) = {}
        BY DEF PlaceInv
      <3>2. \A u \in Thread : u # t => Unsubtracted(t) \cap Unsubtracted(u) = {}
        BY DEF PlaceInv
      <3> QED
        BY <1>7, <3>1, <3>2 DEF Retire, Outstanding
    <2>6. Outstanding \cap Unsubtracted(t) = Unsubtracted(t)
      BY <2>4
    <2>7. IsFiniteSet(Unsubtracted(t))
      BY <2>4, OutstandingFinite, FS_Subset
    <2>8. Cardinality(Outstanding') = Cardinality(Outstanding) - Cardinality(Unsubtracted(t))
      <3>1. ASSUME NEW O, NEW U, IsFiniteSet(O)
            PROVE  Cardinality(O \ U) = Cardinality(O) - Cardinality(O \cap U)
        BY <3>1, FS_Difference
      <3>2. Cardinality(Outstanding \ Unsubtracted(t)) =
               Cardinality(Outstanding) - Cardinality(Outstanding \cap Unsubtracted(t))
        BY <3>1, OutstandingFinite
      <3> QED
        BY <2>5, <2>6, <3>2
    <2> QED
      BY <1>7, <2>3, <2>8 DEF Retire
  <1> QED
    BY <1>1, <1>2, <1>3, <1>4, <1>5, <1>6, <1>7, Effects

-----------------------------------------------------------------------------
(* Aborts *)

\* A queue that is empty stays empty until the next job is distributed.
LEMMA EmptyStaysEmpty ==
    ASSUME TypeInv, LocalInv, [Next]_vars, ~DistributeSlices,
           NEW u \in Thread, IsEmpty(sliceBounds[u])
    PROVE  IsEmpty(sliceBounds'[u])
  <1>p. /\ seen \in [Thread -> Bounds] /\ sliceBounds \in [Thread -> Bounds]
    BY DEF TypeInv
  <1>e. \A b \in Bounds : b.from \in Int /\ b.to \in Int
    BY BoundsFacts, NumSlicesNat
  <1> USE <1>p DEF queueVars, Goto
  <1>1. CASE UNCHANGED sliceBounds
    BY <1>1
  <1>2. ASSUME NEW t \in Thread, CasFront(t)
        PROVE  IsEmpty(sliceBounds'[u])
    <2>1. seen[t].from < seen[t].to /\ seen[t] \in Bounds
      BY <1>2 DEF CasFront, LocalInv
    <2>2. ~IsEmpty(seen[t])
      BY <2>1, <1>e DEF IsEmpty
    <2> QED
      BY <1>2, <2>2 DEF CasFront
  <1>3. ASSUME NEW t \in Thread, CasBack(t)
        PROVE  IsEmpty(sliceBounds'[u])
    <2>1. seen[t].from < seen[t].to /\ seen[t] \in Bounds
      BY <1>3 DEF CasBack, LocalInv
    <2>2. ~IsEmpty(seen[t])
      BY <2>1, <1>e DEF IsEmpty
    <2> QED
      BY <1>3, <2>2 DEF CasBack
  <1>4. ASSUME NEW t \in Thread, AbortCAS(t)
        PROVE  IsEmpty(sliceBounds'[u])
    BY <1>4, BoundsFacts DEF AbortCAS, IsEmpty
  <1>5. ASSUME EnterExecuteJob \/ DestroyPool \/ AllocateMainWorker \/ AllocateWorker
               \/ AllWorkersAllocated \/ AllWorkersStarted \/ PublishJob \/ PublishSlices
               \/ NotifyWorkers \/ WaitForWorkers \/ SignalTermination
               \/ TerminateEmptyPool \/ WaitForTermination \/ UNCHANGED vars
        PROVE  UNCHANGED sliceBounds
    BY <1>5 DEF EnterExecuteJob, DestroyPool, AllocateMainWorker, AllocateWorker,
        AllWorkersAllocated, AllWorkersStarted, PublishJob, PublishSlices, NotifyWorkers,
        WaitForWorkers, SignalTermination, TerminateEmptyPool, WaitForTermination,
        DeleteWorkers, vars
  <1>6. ASSUME NEW t \in Thread,
               \/ StartWorker(t) \/ WorkerTop(t) \/ WorkerJoin(t) \/ SpuriousWakeup(t)
               \/ FetchJob(t) \/ LoadFront(t) \/ TryToSteal(t) \/ LoadBack(t)
               \/ SubtractSlice(t) \/ ExecuteSlice(t) \/ AbortLoad(t) \/ AbortSubtract(t)
        PROVE  UNCHANGED sliceBounds
    BY <1>6 DEF StartWorker, WorkerTop, WorkerJoin, SpuriousWakeup, FetchJob, LoadFront,
        TryToSteal, LoadBack, SubtractSlice, ExecuteSlice, AbortLoad, AbortSubtract
  <1> QED
    BY <1>1, <1>2, <1>3, <1>4, <1>5, <1>6, Threads
    DEF Next, MainStep, WorkerStep, WorkStep, Terminated

\* How a thread comes to a position of abortJob().
LEMMA AbortFrame ==
    ASSUME TypeInv, PcInv, [Next]_vars, NEW t \in Thread, pc'[t] \in AbortPC
    PROVE  \/ pc[t] \in AbortPC /\ victim'[t] = victim[t]
                /\ (pc'[t] = "abortSubtract" => pc[t] = "abortSubtract")
           \/ pc'[t] = "abortLoad" /\ victim'[t] = Main
           \/ /\ pc[t] \in AbortPC /\ pc'[t] = "abortSubtract" /\ victim'[t] = victim[t]
              /\ IsEmpty(sliceBounds'[victim[t]])
           \/ /\ pc[t] = "abortSubtract" /\ pc'[t] = "abortLoad"
              /\ victim'[t] = victim[t] + 1
  <1>p. /\ pc \in [Thread -> PC] /\ victim \in [Thread -> Thread]
        /\ sliceBounds \in [Thread -> Bounds]
        /\ pc[Main] \in MainPC \cup WorkingPC
        /\ \A w \in Worker : pc[w] \in WorkerPC \cup WorkingPC
    BY DEF TypeInv, PcInv
  <1> USE <1>p, Threads DEF AbortPC, Goto, localVars
  <1>1. ASSUME EnterExecuteJob \/ DestroyPool \/ AllocateMainWorker \/ AllocateWorker
               \/ AllWorkersAllocated \/ AllWorkersStarted \/ DistributeSlices
               \/ PublishJob \/ PublishSlices \/ WaitForWorkers \/ UNCHANGED vars
        PROVE  pc[t] = pc'[t] /\ victim'[t] = victim[t]
    BY <1>1 DEF EnterExecuteJob, DestroyPool, AllocateMainWorker, AllocateWorker,
        AllWorkersAllocated, AllWorkersStarted, DistributeSlices, PublishJob,
        PublishSlices, WaitForWorkers, vars
  <1>2. ASSUME NotifyWorkers \/ SignalTermination \/ TerminateEmptyPool \/ WaitForTermination
        PROVE  pc[t] = pc'[t] /\ victim'[t] = victim[t]
    BY <1>2 DEF NotifyWorkers, SignalTermination, NotifyAll, TerminateEmptyPool,
        WaitForTermination, DeleteWorkers
  <1>3. ASSUME NEW u \in Thread,
               \/ u \in Worker /\ (StartWorker(u) \/ WorkerTop(u) \/ WorkerJoin(u))
               \/ SpuriousWakeup(u) \/ FetchJob(u) \/ CasFront(u) \/ TryToSteal(u)
               \/ LoadFront(u) \/ SubtractSlice(u)
        PROVE  pc[t] = pc'[t] /\ victim'[t] = victim[t]
    BY <1>3 DEF StartWorker, WorkerTop, WorkerJoin, JoinPool, SpuriousWakeup, FetchJob,
        LoadFront, CasFront, TryToSteal, SubtractSlice, AfterJob
  <1>4. ASSUME NEW u \in Thread, LoadBack(u) \/ CasBack(u)
        PROVE  pc[t] = pc'[t] /\ victim'[t] = victim[t]
    BY <1>4 DEF LoadBack, CasBack
  <1>5. ASSUME NEW u \in Thread, u # t, WorkStep(u)
        PROVE  pc[t] = pc'[t] /\ victim'[t] = victim[t]
    BY <1>5 DEF WorkStep, FetchJob, LoadFront, CasFront, TryToSteal, LoadBack, CasBack,
        SubtractSlice, ExecuteSlice, AbortLoad, AbortCAS, AbortSubtract
  <1>6. ASSUME ExecuteSlice(t)
        PROVE  pc'[t] = "abortLoad" /\ victim'[t] = Main
    BY <1>6 DEF ExecuteSlice
  <1>7. ASSUME AbortLoad(t)
        PROVE  pc[t] = "abortLoad" /\ pc'[t] = "abortCAS" /\ victim'[t] = victim[t]
    BY <1>7 DEF AbortLoad
  <1>8. ASSUME AbortCAS(t)
        PROVE  \/ /\ pc[t] = "abortCAS" /\ pc'[t] = "abortLoad" /\ victim'[t] = victim[t]
               \/ /\ pc[t] = "abortCAS" /\ pc'[t] = "abortSubtract" /\ victim'[t] = victim[t]
                  /\ IsEmpty(sliceBounds'[victim[t]])
    BY <1>8, BoundsFacts DEF AbortCAS, IsEmpty
  <1>9. ASSUME AbortSubtract(t)
        PROVE  /\ pc[t] = "abortSubtract" /\ pc'[t] = "abortLoad"
               /\ victim'[t] = victim[t] + 1
    BY <1>9 DEF AbortSubtract, AfterJob
  <1> QED
    BY <1>1, <1>2, <1>3, <1>4, <1>5, <1>6, <1>7, <1>8, <1>9
    DEF Next, MainStep, WorkerStep, WorkStep, Terminated

\* How the main thread comes to waitForWorkers().
LEMMA WaitFrame ==
    ASSUME WorkStealing = TRUE, TypeInv, PcInv, [Next]_vars,
           pc'[Main] \in {"wait", "joinWait"}
    PROVE  \/ pc[Main] \in {"wait", "joinWait"} /\ ~DistributeSlices
           \/ TryToSteal(Main) /\ ~hasWork
           \/ AbortSubtract(Main) /\ victim[Main] = NumWorkers
  <1>p. /\ pc \in [Thread -> PC]
        /\ pc[Main] \in MainPC \cup WorkingPC
        /\ \A w \in Worker : pc[w] \in WorkerPC \cup WorkingPC
    BY DEF TypeInv, PcInv
  <1> USE <1>p, Threads DEF Goto
  <1>1. ASSUME EnterExecuteJob \/ DestroyPool \/ AllocateMainWorker \/ AllocateWorker
               \/ AllWorkersAllocated \/ AllWorkersStarted \/ DistributeSlices
               \/ PublishJob \/ PublishSlices
        PROVE  FALSE
    BY <1>1 DEF EnterExecuteJob, DestroyPool, AllocateMainWorker, AllocateWorker,
        AllWorkersAllocated, AllWorkersStarted, DistributeSlices, PublishJob,
        PublishSlices
  <1>2. ASSUME NotifyWorkers \/ SignalTermination \/ TerminateEmptyPool \/ WaitForTermination
        PROVE  FALSE
    BY <1>2 DEF NotifyWorkers, SignalTermination, NotifyAll, TerminateEmptyPool,
        WaitForTermination, DeleteWorkers
  <1>3. ASSUME \/ \E w \in Worker : StartWorker(w) \/ WorkerTop(w) \/ WorkerJoin(w)
               \/ WaitForWorkers \/ UNCHANGED vars
               \/ \E t \in Thread : SpuriousWakeup(t)
        PROVE  pc[Main] \in {"wait", "joinWait"}
    BY <1>3 DEF StartWorker, WorkerTop, WorkerJoin, JoinPool, WaitForWorkers, vars,
        SpuriousWakeup
  <1>4. ASSUME NEW t \in Thread, WorkStep(t), t # Main
        PROVE  pc[Main] \in {"wait", "joinWait"}
    BY <1>4, WorkFrame
  <1>5. ASSUME WorkStep(Main)
        PROVE  \/ TryToSteal(Main) /\ ~hasWork
               \/ AbortSubtract(Main) /\ victim[Main] = NumWorkers
    BY <1>5 DEF WorkStep, FetchJob, LoadFront, CasFront, TryToSteal, LoadBack, CasBack,
        SubtractSlice, ExecuteSlice, AbortLoad, AbortCAS, AbortSubtract
  <1>6. ASSUME pc[Main] \in {"wait", "joinWait"}, DistributeSlices
        PROVE  FALSE
    BY <1>6, <1>1
  <1> QED
    BY <1>1, <1>2, <1>3, <1>4, <1>5, <1>6
    DEF Next, MainStep, WorkerStep, Terminated

\* Initially every queue is empty.
LEMMA AbortInit == Init => AbortInv
  BY Threads DEF Init, AbortInv, AbortPC

\* An abort leaves empty queues behind, and so does a main thread that stops
\* looking for work: hasWork() is false only when no slice is outstanding.
LEMMA AbortStep ==
    /\ WorkStealing = TRUE
    /\ TypeInv /\ PcInv /\ LocalInv /\ QuietInv /\ PendingInv /\ AbortInv /\ [Next]_vars
    => AbortInv'
  <1> SUFFICES ASSUME WorkStealing = TRUE, TypeInv, PcInv, LocalInv, QuietInv,
                      PendingInv, AbortInv, [Next]_vars
               PROVE  AbortInv'
    OBVIOUS
  <1>p. /\ pc \in [Thread -> PC] /\ victim \in [Thread -> Thread]
        /\ \A t \in Thread : sliceBounds[t].from <= sliceBounds[t].to
        /\ \A t \in Thread : sliceBounds[t] \in Bounds
    BY DEF TypeInv, LocalInv
  <1>n. \A t, u \in Thread : /\ ~(u < Main) /\ u <= NumWorkers
                             /\ (u < t + 1 => u <= t) /\ (u <= t => u < t \/ u = t)
    BY PoolAssumption DEF Thread, Main
  <1>1. ASSUME NEW t \in Thread, NEW u \in Thread, pc'[t] \in AbortPC, u <= victim'[t],
               pc'[t] = "abortSubtract" \/ u < victim'[t]
        PROVE  IsEmpty(sliceBounds'[u])
    <2>1. CASE DistributeSlices
      <3>1. pc[t] \notin AbortPC \cup {"execute"} /\ pc'[t] = IF t = Main THEN "publishJob" ELSE pc[t]
        BY <2>1, <1>p, Threads DEF DistributeSlices, QuietInv, RunPC, ActiveThreads, WorkingPC,
              ClaimedPC, AbortPC, Goto
      <3> QED
        BY <3>1, <1>1 DEF AbortPC
    <2>2. CASE ~DistributeSlices
      <3>1. CASE IsEmpty(sliceBounds[u])
        BY <3>1, <2>2, EmptyStaysEmpty
      <3>2. CASE ~IsEmpty(sliceBounds[u])
        <4>v. victim[t] \in Thread
          BY <1>p
        <4>1. CASE /\ pc[t] \in AbortPC /\ victim'[t] = victim[t]
                   /\ (pc'[t] = "abortSubtract" => pc[t] = "abortSubtract")
          BY <4>1, <1>1, <3>2 DEF AbortInv
        <4>2. CASE pc'[t] = "abortLoad" /\ victim'[t] = Main
          BY <4>2, <1>1, <1>n, Threads
        <4>3. CASE /\ pc[t] \in AbortPC /\ pc'[t] = "abortSubtract" /\ victim'[t] = victim[t]
                   /\ IsEmpty(sliceBounds'[victim[t]])
          <5>1. u = victim[t] \/ u < victim[t]
            BY <4>3, <4>v, <1>1, <1>n
          <5> QED
            BY <5>1, <4>3, <1>1, <3>2 DEF AbortInv
        <4>4. CASE /\ pc[t] = "abortSubtract" /\ pc'[t] = "abortLoad"
                   /\ victim'[t] = victim[t] + 1
          <5>1. u <= victim[t]
            BY <4>4, <4>v, <1>1, <1>n
          <5> QED
            BY <5>1, <4>4, <3>2 DEF AbortInv, AbortPC
        <4> QED
          BY <4>1, <4>2, <4>3, <4>4, <1>1, AbortFrame
      <3> QED
        BY <3>1, <3>2
    <2> QED
      BY <2>1, <2>2
  <1>2. ASSUME pc'[Main] \in {"wait", "joinWait"}, NEW u \in Thread
        PROVE  IsEmpty(sliceBounds'[u])
    <2>1. CASE pc[Main] \in {"wait", "joinWait"} /\ ~DistributeSlices
      BY <2>1, EmptyStaysEmpty DEF AbortInv
    <2>2. CASE TryToSteal(Main) /\ ~hasWork
      <3>1. pendingSlices = 0 /\ pc[Main] \in RunPC /\ sliceBounds' = sliceBounds
        BY <2>2 DEF TryToSteal, hasWork, queueVars, RunPC, WorkingPC
      <3>2. Cardinality(Outstanding) = 0
        BY <3>1 DEF PendingInv
      <3>3. Outstanding = {}
        BY <3>2, OutstandingFinite, FS_EmptySet
      <3>4. sliceBounds[u].from \in 0..numSlices /\ sliceBounds[u].to \in 0..numSlices
        BY <1>p, BoundsFacts
      <3>5. \A s \in Slice : s \notin Queued(u)
        BY <3>3 DEF Outstanding
      <3>6. ~(sliceBounds[u].from < sliceBounds[u].to)
        <4>1. sliceBounds[u].from < sliceBounds[u].to =>
                 sliceBounds[u].from \in Slice /\ sliceBounds[u].from \in Queued(u)
          BY <3>4, NumSlicesNat DEF Queued, Slice
        <4> QED
          BY <4>1, <3>5
      <3>7. sliceBounds[u].from = sliceBounds[u].to
        BY <3>4, <3>6, <1>p, NumSlicesNat
      <3> QED
        BY <3>1, <3>7 DEF IsEmpty
    <2>3. CASE AbortSubtract(Main) /\ victim[Main] = NumWorkers
      <3>1. pc[Main] = "abortSubtract" /\ sliceBounds' = sliceBounds
        BY <2>3 DEF AbortSubtract
      <3> QED
        BY <2>3, <3>1, <1>n, Threads DEF AbortInv, AbortPC
    <2> QED
      BY <1>2, <2>1, <2>2, <2>3, WaitFrame
  <1> QED
    BY <1>1, <1>2 DEF AbortInv

-----------------------------------------------------------------------------
(* The job pointer *)

\* No job has been submitted initially.
LEMMA JobInit == Init => JobInv
  BY Threads DEF Init, JobInv, RunPC, WorkingPC, ClaimedPC

\* job_ points to the current job from before hasWork() becomes true until the
\* last worker has joined, so every worker reads the current job.
LEMMA JobStep ==
    TypeInv /\ PcInv /\ QuietInv /\ JobInv /\ [Next]_vars => JobInv'
  <1> SUFFICES ASSUME TypeInv, PcInv, QuietInv, JobInv, [Next]_vars
               PROVE  JobInv'
    OBVIOUS
  <1>p. /\ pc \in [Thread -> PC] /\ myJob \in [Thread -> Job \cup {NoJob}]
        /\ jobs \in Nat
        /\ pc[Main] \in MainPC \cup WorkingPC
        /\ \A w \in Worker : pc[w] \in WorkerPC \cup WorkingPC
    BY PoolAssumption DEF TypeInv, PcInv
  <1>q. pc[Main] \notin RunPC => \A w \in Worker : pc[w] \notin WorkingPC \cup {"join"}
    BY DEF QuietInv, ActiveThreads
  <1> USE <1>p, Threads DEF Goto, RunPC, WorkingPC, ClaimedPC, poolVars, history, localVars
  <1>1. CASE EnterExecuteJob \/ DestroyPool \/ AllocateMainWorker \/ AllocateWorker
             \/ AllWorkersAllocated \/ AllWorkersStarted
    BY <1>1 DEF JobInv, EnterExecuteJob, DestroyPool, AllocateMainWorker, AllocateWorker,
                AllWorkersAllocated, AllWorkersStarted
  <1>2. CASE \E w \in Worker : StartWorker(w)
    BY <1>2 DEF JobInv, StartWorker
  <1>3. CASE DistributeSlices
    <2>1. \A t \in Thread : pc'[t] \notin (WorkingPC \ {"fetchJob"}) \cup {"join"}
      BY <1>3, <1>q DEF DistributeSlices
    <2>2. pc'[Main] = "publishJob" /\ jobs' > 0
      BY <1>3 DEF DistributeSlices
    <2> QED
      BY <2>1, <2>2 DEF JobInv
  <1>4. CASE PublishJob \/ PublishSlices
    BY <1>4 DEF JobInv, PublishJob, PublishSlices
  <1>5. CASE NotifyWorkers
    BY <1>5 DEF JobInv, NotifyWorkers, NotifyAll
  <1>6. CASE WaitForWorkers
    BY <1>6 DEF JobInv, WaitForWorkers
  <1>7. CASE SignalTermination
    BY <1>7 DEF JobInv, SignalTermination, NotifyAll
  <1>8. CASE TerminateEmptyPool \/ WaitForTermination
    BY <1>8 DEF JobInv, TerminateEmptyPool, WaitForTermination, DeleteWorkers
  <1>9. CASE \E w \in Worker : WorkerTop(w)
    BY <1>9 DEF JobInv, WorkerTop, JoinPool
  <1>10. CASE \E w \in Worker : WorkerJoin(w)
    BY <1>10 DEF JobInv, WorkerJoin, JoinPool
  <1>11. CASE \E t \in Thread : WorkStep(t)
    <2>1. PICK t \in Thread : WorkStep(t)
      BY <1>11
    <2>2. PICK label \in WorkingPC \cup {AfterJob(t)} : pc' = [pc EXCEPT ![t] = label]
      BY <2>1, WorkFrame
    <2>3. pc[t] \in WorkingPC /\ UNCHANGED <<job, jobs>>
      BY <2>1, WorkFrame
    <2>4. pc[Main] \in RunPC /\ pc'[Main] \in RunPC
      BY <2>2, <2>3, <1>q DEF AfterJob
    <2>5. job = jobs /\ jobs > 0
      BY <2>4 DEF JobInv
    <2>6. IF pc[t] = "fetchJob" THEN myJob' = [myJob EXCEPT ![t] = job]
                                ELSE myJob' = myJob
      BY <2>1 DEF WorkStep, FetchJob, LoadFront, CasFront, TryToSteal, LoadBack, CasBack,
        SubtractSlice, ExecuteSlice, AbortLoad, AbortCAS, AbortSubtract
    <2>7. myJob'[t] = jobs
      BY <2>3, <2>5, <2>6 DEF JobInv
    <2>8. \A u \in Thread : u # t => pc'[u] = pc[u] /\ myJob'[u] = myJob[u]
      BY <2>2, <2>6
    <2> QED
      BY <2>3, <2>4, <2>5, <2>7, <2>8 DEF JobInv
  <1>12. CASE \E t \in Thread : SpuriousWakeup(t)
    BY <1>12 DEF JobInv, SpuriousWakeup
  <1>13. CASE UNCHANGED vars
    BY <1>13 DEF JobInv, vars
  <1> QED
    BY <1>1, <1>2, <1>3, <1>4, <1>5, <1>6, <1>7, <1>8, <1>9, <1>10, <1>11, <1>12,
       <1>13
    DEF Next, MainStep, WorkerStep, Terminated

-----------------------------------------------------------------------------
(* The theorems: work stealing is on, as it is outside debugging sessions *)

\* The invariant holds in every reachable state of the pool.
THEOREM Invariant == ASSUME WorkStealing = TRUE PROVE Spec => []IInv
  <1>1. Init => IInv
    BY TypeInit, PcInit, LocalInit, LifeInit, QuietInit, CountInit, PlaceInit,
       CoverInit, PendingInit, AbortInit, JobInit DEF IInv
  <1>2. IInv /\ [Next]_vars => IInv'
    BY TypeStep, PcStep, LocalStep, LifeStep, QuietStep, CountStep, PlaceStep,
       CoverStep, PendingStep, AbortStep, JobStep DEF IInv
  <1> QED
    BY <1>1, <1>2, PTL DEF Spec

\* pendingSlices_ and activeWorkers_ never leave their ranges: neither unsigned
\* counter wraps.
THEOREM TypeCorrect == ASSUME WorkStealing = TRUE PROVE Spec => []TypeOK
  <1>1. IInv => TypeOK
    <2> SUFFICES ASSUME IInv PROVE TypeOK
      OBVIOUS
    <2>i. TypeInv /\ PcInv /\ QuietInv /\ CountInv /\ PendingInv
      BY DEF IInv
    <2>1. pendingSlices \in 0..numSlices
      <3>1. CASE pc[Main] \in RunPC
        BY <2>i, <3>1, OutstandingFinite, NumSlicesNat DEF PendingInv
      <3>2. CASE pc[Main] \notin RunPC
        BY <2>i, <3>2, NumSlicesNat DEF QuietInv
      <3> QED
        BY <3>1, <3>2
    <2>2. activeWorkers \in 0..NumWorkers
      <3>1. CASE pc[Main] \in TermPC
        <4>1. activeWorkers = Cardinality(Remaining)
          BY <2>i, <3>1 DEF CountInv, Remaining
        <4>2. Cardinality(Remaining) <= Cardinality(1..workersLength)
          BY <2>i, RemainingFinite, FS_Subset DEF Remaining
        <4>3. workersLength \in 0..NumWorkers
          BY <2>i DEF TypeInv
        <4> QED
          BY <2>i, <4>1, <4>2, <4>3, RemainingFinite, PoolAssumption
      <3>2. CASE pc[Main] = "terminated"
        BY <2>i, <3>2, PoolAssumption DEF CountInv
      <3>3. CASE pc[Main] \notin TermPC \cup {"terminated"}
        BY <2>i, <3>3, Finite, PoolAssumption DEF CountInv
      <3> QED
        BY <3>1, <3>2, <3>3
    <2> QED
      BY <2>i, <2>1, <2>2 DEF TypeInv, TypeOK
  <1> QED
    BY <1>1, Invariant, PTL

\* No slice is handed to the job's callback twice.
THEOREM SlicesRunOnce == ASSUME WorkStealing = TRUE PROVE Spec => []SliceRunsAtMostOnce
  <1>1. IInv => SliceRunsAtMostOnce
    BY DEF IInv, PlaceInv, SliceRunsAtMostOnce
  <1> QED
    BY <1>1, Invariant, PTL

\* When executeJob() has returned, every slice ran or the job was aborted, and
\* no thread is still at work.
THEOREM JobOverOnReturn == ASSUME WorkStealing = TRUE PROVE Spec => []ReturnedJobIsOver
  <1>1. IInv => ReturnedJobIsOver
    <2> SUFFICES ASSUME IInv, jobs > 0, ~InJob
                 PROVE  /\ \A s \in Slice : outcome = "aborted" \/ runs[s] = 1
                        /\ \A t \in Thread : IsEmpty(sliceBounds[t]) /\ pc[t] \notin WorkingPC
      BY DEF ReturnedJobIsOver
    <2>i. TypeInv /\ PcInv /\ LocalInv /\ QuietInv /\ CoverInv
      BY DEF IInv
    <2>1. pc[Main] \notin RunPC /\ pc[Main] \notin {"publishJob", "publishSlices"}
      BY DEF InJob, RunPC
    <2>2. /\ \A t \in Thread : IsEmpty(sliceBounds[t])
          /\ \A t \in Thread : pc[t] \notin WorkingPC
      BY <2>i, <2>1, Threads DEF QuietInv, ActiveThreads, RunPC
    <2>3. ASSUME NEW t \in Thread, NEW s \in Slice
          PROVE  s \notin Queued(t) /\ ~Holds(t, s)
      <3>1. sliceBounds[t].from \in 0..numSlices /\ sliceBounds[t].to \in 0..numSlices
        BY <2>i, BoundsFacts DEF TypeInv
      <3>2. s \notin Queued(t)
        BY <2>2, <3>1, NumSlicesNat DEF Queued, IsEmpty, Slice
      <3>3. ~Holds(t, s)
        BY <2>2 DEF Holds, WorkingPC
      <3> QED
        BY <3>2, <3>3
    <2>4. outcome \in {"complete", "aborted"}
      BY <2>i DEF TypeInv
    <2>5. \A s \in Slice : outcome = "aborted" \/ runs[s] = 1
      BY <2>i, <2>3, <2>4 DEF CoverInv
    <2> QED
      BY <2>2, <2>5
  <1> QED
    BY <1>1, Invariant, PTL

\* A worker calls into the current job only.
THEOREM JobIsCurrent == ASSUME WorkStealing = TRUE PROVE Spec => []NoStaleJob
  <1>1. IInv => NoStaleJob
    <2> SUFFICES ASSUME IInv, NEW t \in Thread, pc[t] \in WorkingPC \ {"fetchJob"}
                 PROVE  myJob[t] = job /\ job # NoJob /\ job = jobs
      BY DEF NoStaleJob
    <2>i. TypeInv /\ QuietInv /\ JobInv
      BY DEF IInv
    <2>1. pc[Main] \in RunPC
      BY <2>i, Threads DEF QuietInv, ActiveThreads, RunPC
    <2>2. job = jobs /\ jobs > 0 /\ myJob[t] = jobs
      BY <2>i, <2>1 DEF JobInv
    <2> QED
      BY <2>2 DEF NoJob
  <1> QED
    BY <1>1, Invariant, PTL

\* hasWork() never answers false while a slice is queued, and the counter never
\* goes below zero.
THEOREM PendingSlicesExact ==
    ASSUME WorkStealing = TRUE PROVE Spec => []PendingCountsOutstanding
  <1>1. IInv => PendingCountsOutstanding
    BY DEF IInv, PendingInv, PendingCountsOutstanding, InJob, RunPC
  <1> QED
    BY <1>1, Invariant, PTL

\* activeWorkers_ is exactly the number of workers join() is still due for, so
\* the main thread's wait is a barrier.
THEOREM ActiveWorkersExact ==
    ASSUME WorkStealing = TRUE PROVE Spec => []ActiveWorkersCounted
  <1>1. IInv => ActiveWorkersCounted
    <2> SUFFICES ASSUME IInv, pc[Main] \notin TermPC
                 PROVE  activeWorkers = Cardinality(ActiveThreads)
      BY DEF ActiveWorkersCounted, TermPC
    <2>1. CASE pc[Main] = "terminated"
      <3>1. activeWorkers = 0 /\ ActiveThreads = {}
        BY <2>1 DEF IInv, CountInv, QuietInv, RunPC, WorkingPC, ClaimedPC
      <3> QED
        BY <3>1, FS_EmptySet
    <2>2. CASE pc[Main] # "terminated"
      BY <2>2 DEF IInv, CountInv
    <2> QED
      BY <2>1, <2>2
  <1> QED
    BY <1>1, Invariant, PTL

-----------------------------------------------------------------------------
(* The pool implements the abstract job *)

\* A job begins with DistributeSlices and ends when the main thread finds that
\* all workers have joined.
LEMMA InJobFrame ==
    ASSUME TypeInv, PcInv, [Next]_vars
    PROVE  \/ InJob' <=> InJob
           \/ DistributeSlices /\ ~InJob /\ InJob'
           \/ /\ WaitForWorkers /\ ~(activeWorkers > 0) /\ pc[Main] = "wait"
              /\ InJob /\ ~InJob'
  <1>p. /\ pc \in [Thread -> PC]
        /\ pc[Main] \in MainPC \cup WorkingPC
        /\ \A w \in Worker : pc[w] \in WorkerPC \cup WorkingPC
    BY DEF TypeInv, PcInv
  <1> USE <1>p, Threads DEF Goto, InJob, WorkingPC, ClaimedPC
  <1>1. CASE EnterExecuteJob \/ DestroyPool \/ AllocateMainWorker \/ AllocateWorker
             \/ AllWorkersAllocated \/ AllWorkersStarted
    BY <1>1 DEF EnterExecuteJob, DestroyPool, AllocateMainWorker, AllocateWorker,
                AllWorkersAllocated, AllWorkersStarted
  <1>2. CASE \E w \in Worker : StartWorker(w)
    BY <1>2 DEF StartWorker
  <1>3. CASE PublishJob \/ PublishSlices
    BY <1>3 DEF PublishJob, PublishSlices
  <1>4. CASE NotifyWorkers \/ SignalTermination
    BY <1>4 DEF NotifyWorkers, SignalTermination, NotifyAll
  <1>5. CASE TerminateEmptyPool \/ WaitForTermination
    BY <1>5 DEF TerminateEmptyPool, WaitForTermination, DeleteWorkers
  <1>6. CASE \E w \in Worker : WorkerTop(w) \/ WorkerJoin(w)
    BY <1>6 DEF WorkerTop, WorkerJoin, JoinPool
  <1>7. CASE \E t \in Thread : WorkStep(t)
    <2>1. PICK t \in Thread : WorkStep(t)
      BY <1>7
    <2>2. /\ pc[t] \in WorkingPC
          /\ \E label \in WorkingPC \cup {AfterJob(t)} : pc' = [pc EXCEPT ![t] = label]
      BY <2>1, WorkFrame
    <2> QED
      BY <2>2 DEF AfterJob
  <1>8. CASE \E t \in Thread : SpuriousWakeup(t)
    BY <1>8 DEF SpuriousWakeup
  <1>9. CASE UNCHANGED vars
    BY <1>9 DEF vars
  <1>10. CASE DistributeSlices
    BY <1>10 DEF DistributeSlices
  <1>11. CASE WaitForWorkers
    BY <1>11 DEF WaitForWorkers
  <1> QED
    BY <1>1, <1>2, <1>3, <1>4, <1>5, <1>6, <1>7, <1>8, <1>9, <1>10, <1>11
    DEF Next, MainStep, WorkerStep, Terminated

\* The abstract variables, as Abstract instantiates them.
Todo == {s \in Slice : \E t \in Thread : s \in Queued(t)}
Active == {s \in Slice : \E t \in Thread : Holds(t, s)}
Done == {s \in Slice : runs[s] > 0}
Failed == outcome = "aborted"

\* Every step of the pool is a step of the abstract job or changes none of its
\* variables.
LEMMA RefinementStep ==
    ASSUME IInv, [Next]_vars
    PROVE  [Abstract!Next]_(Abstract!pvars)
  <1>i. /\ TypeInv /\ PcInv /\ LocalInv /\ LifeInv /\ QuietInv /\ CountInv
        /\ PlaceInv /\ PendingInv /\ AbortInv
    BY DEF IInv
  <1>p. /\ pc \in [Thread -> PC] /\ sliceId \in [Thread -> Slice \cup {NoSlice}]
        /\ runs \in [Slice -> Nat]
        /\ \A t \in Thread : pc[t] \in ClaimedPC => sliceId[t] \in Slice
        /\ \A t \in Thread : pc[t] \in AbortPC => outcome = "aborted"
    BY <1>i DEF TypeInv, LocalInv
  <1>d. ASSUME UNCHANGED <<Todo, Active, Done>>, Failed' <=> Failed, InJob' <=> InJob
        PROVE  UNCHANGED Abstract!pvars
    <2>1. InJob' = InJob
      BY <1>d DEF InJob
    <2>2. Failed' = Failed
      BY <1>d DEF Failed
    <2> QED
      BY <1>d, <2>1, <2>2 DEF Abstract!pvars, Todo, Active, Done, Failed
  <1>w. ASSUME NEW t \in Thread, pc[t] \in WorkingPC
        PROVE  InJob /\ pc[Main] # "distribute"
    BY <1>i, <1>w, Threads DEF QuietInv, ActiveThreads, RunPC, InJob, WorkingPC, ClaimedPC
  <1>n. ASSUME SamePlaces
        PROVE  /\ UNCHANGED <<Todo, Done>> /\ (Failed' <=> Failed)
               /\ Active' = Active
    BY <1>n DEF SamePlaces, Todo, Active, Done, Failed, Holds
  <1>1. CASE DistributeSlices
    <2>1. ~InJob /\ InJob'
      BY <1>1, <1>p, Threads DEF DistributeSlices, InJob, WorkingPC, ClaimedPC, Goto
    <2>2. Todo' = Slice
      <3>1. \A t \in Thread : Queued(t)' = ShareOf(t).from .. (ShareOf(t).to - 1)
        BY <1>1, <1>i, DistributeEffect
      <3>2. \A s \in Slice : \E t \in Thread : s \in Queued(t)'
        BY <3>1, Shares
      <3> QED
        BY <3>2 DEF Todo
    <2>3. Active' = {} /\ Done' = {}
      BY <1>1, <1>i, DistributeEffect DEF Active, Done, Holds
    <2>4. ~Failed'
      BY <1>1 DEF DistributeSlices, Failed
    <2>5. Abstract!Submit
      BY <2>1, <2>2, <2>3, <2>4 DEF Abstract!Submit, Todo, Active, Done, Failed
    <2> QED
      BY <2>5 DEF Abstract!Next
  <1>2. CASE WaitForWorkers /\ ~(activeWorkers > 0) /\ pc[Main] = "wait" /\ InJob /\ ~InJob'
    <2>1. /\ ActiveThreads = {}
          /\ \A t \in Thread : IsEmpty(sliceBounds[t])
      BY <1>2, <1>i, JobIsOver
    <2>2. \A t \in Thread : pc[t] \notin ClaimedPC
      BY <2>1, <1>2, Threads DEF ActiveThreads, WorkingPC, ClaimedPC
    <2>3. \A t \in Thread : \A s \in Slice : s \notin Queued(t)
      <3> SUFFICES ASSUME NEW t \in Thread, NEW s \in Slice PROVE s \notin Queued(t)
        OBVIOUS
      <3>1. sliceBounds[t].from \in 0..numSlices /\ sliceBounds[t].to \in 0..numSlices
        BY <1>i, BoundsFacts DEF TypeInv
      <3> QED
        BY <2>1, <3>1, NumSlicesNat DEF Queued, IsEmpty, Slice
    <2>4. Todo = {} /\ Active = {}
      BY <2>2, <2>3 DEF Todo, Active, Holds
    <2>5. SamePlaces
      BY <1>2, <1>p, Threads DEF WaitForWorkers, SamePlaces, Queued, Unsubtracted, ClaimedPC,
            Goto, queueVars, history
    <2>6. Abstract!Return
      BY <1>2, <1>n, <2>4, <2>5 DEF Abstract!Return, Todo, Active, Done, Failed
    <2> QED
      BY <2>6 DEF Abstract!Next
  <1>3. CASE SamePlaces /\ (InJob' <=> InJob)
    BY <1>3, <1>n, <1>d
  <1>4. ASSUME NEW t \in Thread, ExecuteSlice(t), InJob' <=> InJob
        PROVE  Abstract!Next
    <2>1. /\ pc[t] = "execute" /\ sliceId[t] \in Slice
          /\ pc'[t] \notin {"subtract", "execute", "abortSubtract"}
          /\ \A u \in Thread : u # t => pc'[u] = pc[u] /\ sliceId'[u] = sliceId[u]
          /\ runs' = [runs EXCEPT ![sliceId[t]] = runs[sliceId[t]] + 1]
          /\ UNCHANGED sliceBounds
          /\ outcome' = outcome \/ outcome' = "aborted"
      BY <1>4, <1>p DEF ExecuteSlice, Goto, queueVars, ClaimedPC
    <2>s. PICK s \in Slice : s = sliceId[t]
      BY <2>1
    <2>2. InJob
      BY <2>1, <1>w DEF WorkingPC, ClaimedPC
    <2>3. s \in Active /\ Active' = Active \ {s}
      <3>1. \A u \in Thread : u # t /\ pc[u] \in ClaimedPC => sliceId[u] # s
        BY <1>i, <2>1, <2>s DEF PlaceInv, ClaimedPC
      <3>2. \A r \in Slice : \A u \in Thread :
              Holds(u, r)' <=> (Holds(u, r) /\ r # s)
        BY <2>1, <2>s, <3>1, <1>p DEF Holds, ClaimedPC
      <3>3. Holds(t, s)
        BY <2>1, <2>s DEF Holds, ClaimedPC
      <3> QED
        BY <3>2, <3>3 DEF Active
    <2>4. Done' = Done \cup {s}
      BY <2>1, <2>s, <1>p DEF Done
    <2>5. Todo' = Todo
      BY <2>1 DEF Todo, Queued
    <2>6. (Failed' <=> Failed) \/ Failed'
      BY <2>1 DEF Failed
    <2>7. Abstract!Finish(s)
      BY <1>4, <2>2, <2>3, <2>4, <2>5, <2>6 DEF Abstract!Finish, Todo, Active, Done, Failed
    <2> QED
      BY <2>7 DEF Abstract!Next
  <1>5. ASSUME NEW t \in Thread, NEW v \in Thread, NEW s \in Slice, Pop(t, v, s),
               InJob' <=> InJob
        PROVE  Abstract!Next
    <2>1. /\ pc[t] \in {"casFront", "casBack"} /\ pc'[t] = "subtract" /\ s \in Queued(v)
          /\ \A u \in Thread : u # t => pc'[u] = pc[u] /\ sliceId'[u] = sliceId[u]
          /\ sliceId'[t] = s /\ runs' = runs /\ outcome' = outcome
          /\ \A u \in Thread : Queued(u)' = IF u = v THEN Queued(v) \ {s} ELSE Queued(u)
      BY <1>5, <1>p DEF Pop
    <2>2. InJob
      BY <2>1, <1>w DEF WorkingPC
    <2>3. s \in Todo /\ Todo' = Todo \ {s}
      <3>1. \A u \in Thread : u # v => s \notin Queued(u)
        BY <2>1, <1>i DEF PlaceInv
      <3> QED
        BY <2>1, <3>1 DEF Todo
    <2>4. Active' = Active \cup {s}
      <3>1. \A r \in Slice : \A u \in Thread :
              Holds(u, r)' <=> (Holds(u, r) \/ (u = t /\ r = s))
        BY <2>1, <1>p DEF Holds, ClaimedPC
      <3> QED
        BY <3>1 DEF Active
    <2>5. Done' = Done /\ (Failed' <=> Failed)
      BY <2>1 DEF Done, Failed
    <2>6. Abstract!Claim(s)
      BY <1>5, <2>2, <2>3, <2>4, <2>5 DEF Abstract!Claim, Todo, Active, Done, Failed
    <2> QED
      BY <2>6 DEF Abstract!Next
  <1>6. ASSUME NEW t \in Thread, NEW v \in Thread, Drop(t, v), InJob' <=> InJob
        PROVE  Abstract!Next
    <2>1. /\ pc[t] = "abortCAS" /\ sliceId' = sliceId /\ runs' = runs /\ outcome' = outcome
          /\ \A u \in Thread : Queued(u)' = IF u = v THEN {} ELSE Queued(u)
          /\ \A u \in Thread : (pc'[u] \in ClaimedPC) = (pc[u] \in ClaimedPC)
      BY <1>6, <1>p DEF Drop, ClaimedPC
    <2>2. InJob /\ Failed
      BY <2>1, <1>p, <1>w DEF WorkingPC, AbortPC, Failed
    <2>3. Todo' \subseteq Todo
      BY <2>1 DEF Todo
    <2>4. Active' = Active /\ Done' = Done /\ Failed'
      BY <2>1, <2>2 DEF Active, Done, Failed, Holds
    <2>5. Abstract!Drop
      BY <1>6, <2>2, <2>3, <2>4 DEF Abstract!Drop, Todo, Active, Done, Failed
    <2> QED
      BY <2>5 DEF Abstract!Next
  <1>7. ASSUME NEW t \in Thread, Retire(t), InJob' <=> InJob
        PROVE  UNCHANGED Abstract!pvars
    <2>1. /\ sliceId' = sliceId /\ runs' = runs /\ outcome' = outcome
          /\ \A u \in Thread : Queued(u)' = Queued(u)
          /\ \A u \in Thread : (pc'[u] \in ClaimedPC) = (pc[u] \in ClaimedPC)
      BY <1>7 DEF Retire, ClaimedPC
    <2>2. UNCHANGED <<Todo, Active, Done>> /\ (Failed' <=> Failed)
      BY <2>1 DEF Todo, Active, Done, Failed, Holds
    <2> QED
      BY <1>7, <2>2, <1>d
  <1>8. (InJob' <=> InJob) \/ DistributeSlices
        \/ (WaitForWorkers /\ ~(activeWorkers > 0) /\ pc[Main] = "wait" /\ InJob /\ ~InJob')
    BY <1>i, InJobFrame
  <1>9. \/ SamePlaces \/ DistributeSlices
        \/ \E t \in Thread : \/ ExecuteSlice(t)
                             \/ \E v \in Thread, s \in Slice : Pop(t, v, s)
                             \/ \E v \in Thread : Drop(t, v)
                             \/ Retire(t)
    BY <1>i, Effects
  <1> QED
    BY <1>1, <1>2, <1>3, <1>4, <1>5, <1>6, <1>7, <1>8, <1>9

\* executeJob() hands each slice to the callback once, drops slices only after
\* an abort, and returns when nothing is left.
THEOREM Refinement == ASSUME WorkStealing = TRUE PROVE Spec => ImplementsParallelJob
  <1>1. Init => Abstract!Init
    <2> SUFFICES ASSUME Init PROVE Abstract!Init
      OBVIOUS
    <2>1. ~InJob
      BY Threads DEF Init, InJob, WorkingPC, ClaimedPC
    <2>2. Todo = {}
      BY DEF Init, Todo, Queued, EmptyBounds
    <2>3. Active = {}
      BY Threads DEF Init, Active, Holds, ClaimedPC
    <2>4. Done = {} /\ ~Failed
      BY DEF Init, Done, Failed
    <2> QED
      BY <2>1, <2>2, <2>3, <2>4 DEF Abstract!Init, Todo, Active, Done, Failed
  <1>2. IInv /\ [Next]_vars => [Abstract!Next]_(Abstract!pvars)
    BY RefinementStep
  <1> QED
    BY <1>1, <1>2, Invariant, PTL DEF Spec, ImplementsParallelJob, Abstract!Spec

=============================================================================
