----------------------------- MODULE ThreadPool -----------------------------
(***************************************************************************)
(* The work-stealing pool of vm/ThreadPool.{h,cpp} that runs the slices of *)
(* a parallel job (PJS fork/join) on the main thread and on NumWorkers     *)
(* helper threads.                                                         *)
(*                                                                         *)
(* Thread 0 is the main thread, thread w > 0 is workers_[w - 1]: the       *)
(* numbering getSlice uses for its victims.  Every access to an atomic     *)
(* (sliceBounds_, pendingSlices_) and every critical section of the pool's *)
(* monitor is one step.  A critical section reads at most one variable     *)
(* that the lock does not protect, so running it in one step loses no      *)
(* interleaving.  A waiting thread's pc says on which condition variable   *)
(* it waits; a notification moves it back to the top of its wait loop.     *)
(***************************************************************************)
EXTENDS Integers, FiniteSets

CONSTANTS
    NumWorkers,       \* numWorkers(): cpuCount() - 1, possibly zero
    SlicesPerWorker,  \* numSlices / (numWorkers() + 1)
    WorkStealing,     \* workStealing(): FALSE under JS_THREADPOOL_STEAL=0
    FailingAllocs,    \* threads whose worker object cx->new_ fails to allocate
    FailingStarts,    \* workers whose thread PR_CreateThread fails to create
    MaxJobs           \* bound: jobs submitted in a behaviour

ASSUME PoolAssumption ==
    /\ NumWorkers \in Nat
    /\ SlicesPerWorker \in Nat \ {0}
    /\ WorkStealing \in BOOLEAN
    /\ FailingAllocs \subseteq 0..NumWorkers
    /\ FailingStarts \subseteq 1..NumWorkers
    /\ MaxJobs \in Nat

Main == 0
Worker == 1..NumWorkers
Thread == 0..NumWorkers

\* Builtin code always submits a multiple of the number of threads
\* (ComputeNumSlices in builtin/Array.js), so nothing is left over.
numSlices == SlicesPerWorker * (NumWorkers + 1)
Slice == 0..(numSlices - 1)
NoSlice == -1
NoJob == 0
Job == 1..MaxJobs

VARIABLES
    sliceBounds,    \* per thread: the queue [from, to) it owns
    pendingSlices,  \* slices not yet claimed from any queue
    activeWorkers,  \* workers between the top of run() and join()
    job,            \* job_, NoJob for nullptr
    mainWorker,     \* mainWorker_: "null", "live" or "deleted"
    workersLength,  \* workers_.length()
    state,          \* WorkerState of each allocated worker
    pc,             \* where each thread is
    \* Locals of each thread, reset when they go out of scope.
    seen,           \* bounds loaded by the CAS loop the thread is in
    victim,         \* queue the thread steals from or aborts
    sliceId,        \* slice the thread has claimed
    myJob,          \* the job pointer the thread has read
    jobs,           \* history: jobs submitted so far
    runs,           \* history: completed calls per slice of the current job
    outcome         \* history: "aborted" once abortJob() is called for the job

poolVars == <<activeWorkers, job, mainWorker, workersLength, state>>
queueVars == <<sliceBounds, pendingSlices>>
localVars == <<seen, victim, sliceId, myJob>>
history == <<jobs, runs, outcome>>
vars == <<poolVars, queueVars, pc, localVars, history>>

Bounds == [from : 0..numSlices, to : 0..numSlices]
EmptyBounds == [from |-> 0, to |-> 0]
Queued(t) == sliceBounds[t].from .. (sliceBounds[t].to - 1)

hasWork == pendingSlices # 0

\* Positions of a thread inside the job it is working on.
ClaimedPC == {"subtract", "execute"}
WorkingPC == {"fetchJob", "loadFront", "casFront", "hasWork", "loadBack",
              "casBack", "abortLoad", "abortCAS", "abortSubtract"} \cup ClaimedPC
MainPC == {"idle", "allocMain", "allocWorkers", "startWorkers", "distribute",
           "publishJob", "publishSlices", "notify", "wait", "joinWait",
           "terminate", "termWait", "termJoinWait", "terminated"}
WorkerPC == {"none", "top", "condWait", "join", "exited"}
PC == MainPC \cup WorkerPC \cup WorkingPC
WorkerState == {"NONE", "CREATED", "ACTIVE", "TERMINATED"}

Init ==
    /\ sliceBounds = [t \in Thread |-> EmptyBounds]
    /\ pendingSlices = 0
    /\ activeWorkers = 0
    /\ job = NoJob
    /\ mainWorker = "null"
    /\ workersLength = 0
    /\ state = [w \in Worker |-> "NONE"]
    /\ pc = [t \in Thread |-> IF t = Main THEN "idle" ELSE "none"]
    /\ seen = [t \in Thread |-> EmptyBounds]
    /\ victim = [t \in Thread |-> t]
    /\ sliceId = [t \in Thread |-> NoSlice]
    /\ myJob = [t \in Thread |-> NoJob]
    /\ jobs = 0
    /\ runs = [s \in Slice |-> 0]
    /\ outcome = "complete"

Goto(t, label) == pc' = [pc EXCEPT ![t] = label]

-----------------------------------------------------------------------------
(* Starting the pool: the part of executeJob() before the job is submitted. *)

\* Enter executeJob().  A pool that has deleted its main worker, because a worker
\* could not be started, is "terminated" and neither entered nor destroyed again:
\* its pointer to the main worker is not cleared, and what the code then does with
\* freed memory is undefined.
EnterExecuteJob ==
    /\ pc[Main] = "idle"
    /\ jobs < MaxJobs
    /\ Goto(Main, IF mainWorker = "null" THEN "allocMain" ELSE "allocWorkers")
    /\ UNCHANGED <<poolVars, queueVars, localVars, history>>

\* Without a main worker there is nothing to terminate: executeJob() fails and may
\* be called again.
AllocateMainWorker ==
    /\ pc[Main] = "allocMain"
    /\ \/ mainWorker' = "live" /\ Goto(Main, "allocWorkers")
       \/ /\ Main \in FailingAllocs
          /\ Goto(Main, "idle")
          /\ UNCHANGED mainWorker
    /\ UNCHANGED <<activeWorkers, job, workersLength, state, queueVars,
                   localVars, history>>

\* First loop of lazyStartWorkers(), skipped when the workers exist already.
AllocateWorker ==
    /\ pc[Main] = "allocWorkers"
    /\ workersLength < NumWorkers
    /\ \/ /\ workersLength' = workersLength + 1
          /\ state' = [state EXCEPT ![workersLength + 1] = "CREATED"]
          /\ UNCHANGED pc
       \/ /\ workersLength + 1 \in FailingAllocs
          /\ Goto(Main, "terminate")
          /\ UNCHANGED <<workersLength, state>>
    /\ UNCHANGED <<activeWorkers, job, mainWorker, queueVars, localVars, history>>

AllWorkersAllocated ==
    /\ pc[Main] = "allocWorkers"
    /\ workersLength = NumWorkers
    /\ Goto(Main, "startWorkers")
    /\ UNCHANGED <<poolVars, queueVars, localVars, history>>

\* Second loop of lazyStartWorkers(): ThreadPoolWorker::start() in order of id.
StartWorker(w) ==
    /\ pc[Main] = "startWorkers"
    /\ state[w] = "CREATED"
    /\ \A v \in Worker : v < w => state[v] # "CREATED"
    /\ \/ /\ state' = [state EXCEPT ![w] = "ACTIVE"]
          /\ pc' = [pc EXCEPT ![w] = "top"]
       \/ /\ w \in FailingStarts
          /\ state' = [state EXCEPT ![w] = "TERMINATED"]
          /\ Goto(Main, "terminate")
    /\ UNCHANGED <<activeWorkers, job, mainWorker, workersLength, queueVars,
                   localVars, history>>

AllWorkersStarted ==
    /\ pc[Main] = "startWorkers"
    /\ \A w \in Worker : state[w] # "CREATED"
    /\ Goto(Main, "distribute")
    /\ UNCHANGED <<poolVars, queueVars, localVars, history>>

-----------------------------------------------------------------------------
(* Submitting a job: the rest of executeJob(). *)

\* The slices of worker w are the w-th block, those of the main thread the last.
ShareOf(t) ==
    LET k == IF t = Main THEN NumWorkers ELSE t - 1
    IN  [from |-> k * SlicesPerWorker, to |-> (k + 1) * SlicesPerWorker]

\* Mutant: hasWork() becomes true before job_ is stored.
DistributeSlices_counterFirst ==
    /\ pc[Main] = "distribute"
    /\ sliceBounds' = [t \in Thread |-> ShareOf(t)]
    /\ pendingSlices' = numSlices
    /\ jobs' = jobs + 1
    /\ runs' = [s \in Slice |-> 0]
    /\ outcome' = "complete"
    /\ Goto(Main, "publishJob")
    /\ UNCHANGED <<poolVars, localVars>>

DistributeSlices ==
    /\ pc[Main] = "distribute"
    /\ sliceBounds' = [t \in Thread |-> ShareOf(t)]
    /\ jobs' = jobs + 1
    /\ runs' = [s \in Slice |-> 0]
    /\ outcome' = "complete"
    /\ Goto(Main, "publishJob")
    /\ UNCHANGED <<poolVars, pendingSlices, localVars>>

PublishJob ==
    /\ pc[Main] = "publishJob"
    /\ job' = jobs
    /\ Goto(Main, "publishSlices")
    /\ UNCHANGED <<activeWorkers, mainWorker, workersLength, state, queueVars,
                   localVars, history>>

\* The store that lets workers in: hasWork() is true from here on.
PublishSlices ==
    /\ pc[Main] = "publishSlices"
    /\ pendingSlices' = numSlices
    /\ Goto(Main, "notify")
    /\ UNCHANGED <<poolVars, sliceBounds, localVars, history>>

\* pc after notifyAll() on the workers' condition variable, with main at label.
NotifyAll(label) ==
    [t \in Thread |-> IF t = Main THEN label
                      ELSE IF pc[t] = "condWait" THEN "top" ELSE pc[t]]

NotifyWorkers ==
    /\ pc[Main] = "notify"
    /\ pc' = NotifyAll("fetchJob")
    /\ UNCHANGED <<poolVars, queueVars, localVars, history>>

\* Mutant: the main thread does not wait for the workers to join.
WaitForWorkers_noBarrier ==
    /\ pc[Main] = "wait"
    /\ Goto(Main, "idle")
    /\ job' = NoJob
    /\ myJob' = [myJob EXCEPT ![Main] = NoJob]
    /\ UNCHANGED <<activeWorkers, mainWorker, workersLength, state, queueVars,
                   seen, victim, sliceId, history>>

\* waitForWorkers() at the end of executeJob().
WaitForWorkers ==
    /\ pc[Main] = "wait"
    /\ IF activeWorkers > 0
       THEN Goto(Main, "joinWait") /\ UNCHANGED job
       ELSE Goto(Main, "idle") /\ job' = NoJob
    /\ myJob' = [myJob EXCEPT ![Main] = NoJob]
    /\ UNCHANGED <<activeWorkers, mainWorker, workersLength, state, queueVars,
                   seen, victim, sliceId, history>>

-----------------------------------------------------------------------------
(* Termination: ~ThreadPool(), or a pool that could not start. *)

DestroyPool ==
    /\ pc[Main] = "idle"
    /\ Goto(Main, "terminate")
    /\ UNCHANGED <<poolVars, queueVars, localVars, history>>

DeletedMainWorker == IF mainWorker = "null" THEN "null" ELSE "deleted"

\* Mutant: activeWorkers_ is not set to the number of workers to join.
SignalTermination_uncounted ==
    /\ pc[Main] = "terminate"
    /\ workersLength > 0
    /\ state' = [w \in Worker |-> "TERMINATED"]
    /\ pc' = NotifyAll("termJoinWait")
    /\ UNCHANGED <<activeWorkers, job, mainWorker, workersLength, queueVars,
                   localVars, history>>

\* Mutant: sleeping workers are not woken to see that they are terminated.
SignalTermination_silent ==
    /\ pc[Main] = "terminate"
    /\ workersLength > 0
    /\ state' = [w \in Worker |-> "TERMINATED"]
    /\ activeWorkers' = workersLength
    /\ Goto(Main, "termJoinWait")
    /\ UNCHANGED <<job, mainWorker, workersLength, queueVars, localVars, history>>

\* terminateWorkers() up to its wait: every worker in the array is told to
\* quit and counted as active, whether or not its thread was ever created.
SignalTermination ==
    /\ pc[Main] = "terminate"
    /\ workersLength > 0
    /\ state' = [w \in Worker |-> IF w <= workersLength THEN "TERMINATED"
                                                        ELSE state[w]]
    /\ activeWorkers' = workersLength
    /\ pc' = NotifyAll("termJoinWait")
    /\ UNCHANGED <<job, mainWorker, workersLength, queueVars, localVars, history>>

\* The end of terminateWorkers(): all workers have joined, or there were none.
DeleteWorkers ==
    /\ job' = IF workersLength > 0 THEN NoJob ELSE job
    /\ workersLength' = 0
    /\ state' = [w \in Worker |-> "NONE"]
    /\ mainWorker' = DeletedMainWorker
    /\ Goto(Main, "terminated")
    /\ UNCHANGED <<activeWorkers, queueVars, localVars, history>>

TerminateEmptyPool ==
    /\ pc[Main] = "terminate"
    /\ workersLength = 0
    /\ DeleteWorkers

WaitForTermination ==
    /\ pc[Main] = "termWait"
    /\ IF activeWorkers > 0
       THEN /\ Goto(Main, "termJoinWait")
            /\ UNCHANGED <<poolVars, queueVars, localVars, history>>
       ELSE DeleteWorkers

-----------------------------------------------------------------------------
(* A worker thread outside a job: ThreadPoolWorker::run(). *)

\* Mutant: join() tests the count before decrementing it.
JoinPool_testFirst(w, label) ==
    /\ activeWorkers' = activeWorkers - 1
    /\ pc' = [pc EXCEPT
                ![w] = label,
                ![Main] = IF activeWorkers # 0 THEN @
                          ELSE IF @ = "joinWait" THEN "wait"
                          ELSE IF @ = "termJoinWait" THEN "termWait" ELSE @]

\* join(): drop out of the count; the last one wakes the main thread.
JoinPool(w, label) ==
    /\ activeWorkers' = activeWorkers - 1
    /\ pc' = [pc EXCEPT
                ![w] = label,
                ![Main] = IF activeWorkers # 1 THEN @
                          ELSE IF @ = "joinWait" THEN "wait"
                          ELSE IF @ = "termJoinWait" THEN "termWait" ELSE @]

\* The critical section at the top of run()'s loop.
WorkerTop(w) ==
    /\ pc[w] = "top"
    /\ \/ /\ state[w] = "ACTIVE" /\ ~hasWork
          /\ Goto(w, "condWait")
          /\ UNCHANGED activeWorkers
       \/ state[w] = "TERMINATED" /\ JoinPool(w, "exited")
       \/ /\ state[w] = "ACTIVE" /\ hasWork
          /\ activeWorkers' = activeWorkers + 1
          /\ Goto(w, "fetchJob")
    /\ UNCHANGED <<job, mainWorker, workersLength, state, queueVars,
                   localVars, history>>

WorkerJoin(w) ==
    /\ pc[w] = "join"
    /\ JoinPool(w, "top")
    /\ myJob' = [myJob EXCEPT ![w] = NoJob]
    /\ UNCHANGED <<job, mainWorker, workersLength, state, queueVars,
                   seen, victim, sliceId, history>>

\* PR_WaitCondVar may return without a notification.
SpuriousWakeup(t) ==
    /\ \/ pc[t] = "condWait" /\ Goto(t, "top")
       \/ pc[t] = "joinWait" /\ Goto(t, "wait")
       \/ pc[t] = "termJoinWait" /\ Goto(t, "termWait")
    /\ UNCHANGED <<poolVars, queueVars, localVars, history>>

-----------------------------------------------------------------------------
(* The work loop shared by run() and ThreadPoolMainWorker::executeJob(). *)

\* Where a thread goes when it has nothing more to do for the job.
AfterJob(t) == IF t = Main THEN "wait" ELSE "join"

FetchJob(t) ==
    /\ pc[t] = "fetchJob"
    /\ myJob' = [myJob EXCEPT ![t] = job]
    /\ Goto(t, "loadFront")
    /\ UNCHANGED <<poolVars, queueVars, seen, victim, sliceId, history>>

IsEmpty(b) == b.from = b.to

\* popSliceFront() on the thread's own queue: load, then compare and exchange.
LoadFront(t) ==
    /\ pc[t] = "loadFront"
    /\ IF IsEmpty(sliceBounds[t])
       THEN /\ Goto(t, IF WorkStealing THEN "hasWork" ELSE AfterJob(t))
            /\ UNCHANGED seen
       ELSE /\ seen' = [seen EXCEPT ![t] = sliceBounds[t]]
            /\ Goto(t, "casFront")
    /\ UNCHANGED <<poolVars, queueVars, victim, sliceId, myJob, history>>

CasFront(t) ==
    /\ pc[t] = "casFront"
    /\ IF sliceBounds[t] = seen[t]
       THEN /\ sliceBounds' = [sliceBounds EXCEPT
                                 ![t] = [from |-> seen[t].from + 1, to |-> seen[t].to]]
            /\ sliceId' = [sliceId EXCEPT ![t] = seen[t].from]
            /\ Goto(t, "subtract")
       ELSE /\ Goto(t, "loadFront")
            /\ UNCHANGED <<sliceBounds, sliceId>>
    /\ seen' = [seen EXCEPT ![t] = EmptyBounds]
    /\ UNCHANGED <<poolVars, pendingSlices, victim, myJob, history>>

\* getSlice(): any victim may be drawn, a worker's own queue included; the main
\* thread draws a worker.
Victims(t) == IF t = Main THEN Worker ELSE Thread

TryToSteal(t) ==
    /\ pc[t] = "hasWork"
    /\ IF hasWork
       THEN \E v \in Victims(t) :
              /\ victim' = [victim EXCEPT ![t] = v]
              /\ Goto(t, "loadBack")
       ELSE Goto(t, AfterJob(t)) /\ UNCHANGED victim
    /\ UNCHANGED <<poolVars, queueVars, seen, sliceId, myJob, history>>

\* popSliceBack() on the victim's queue.
LoadBack(t) ==
    /\ pc[t] = "loadBack"
    /\ LET b == sliceBounds[victim[t]] IN
       IF IsEmpty(b)
       THEN /\ Goto(t, "hasWork")
            /\ victim' = [victim EXCEPT ![t] = t]
            /\ UNCHANGED seen
       ELSE /\ seen' = [seen EXCEPT ![t] = b]
            /\ Goto(t, "casBack")
            /\ UNCHANGED victim
    /\ UNCHANGED <<poolVars, queueVars, sliceId, myJob, history>>

\* Mutant: the thief stores the new bounds without comparing the old ones.
CasBack_plainStore(t) ==
    /\ pc[t] = "casBack"
    /\ sliceBounds' = [sliceBounds EXCEPT
                          ![victim[t]] = [from |-> seen[t].from, to |-> seen[t].to - 1]]
    /\ sliceId' = [sliceId EXCEPT ![t] = seen[t].to - 1]
    /\ victim' = [victim EXCEPT ![t] = t]
    /\ Goto(t, "subtract")
    /\ seen' = [seen EXCEPT ![t] = EmptyBounds]
    /\ UNCHANGED <<poolVars, pendingSlices, myJob, history>>

CasBack(t) ==
    /\ pc[t] = "casBack"
    /\ IF sliceBounds[victim[t]] = seen[t]
       THEN /\ sliceBounds' = [sliceBounds EXCEPT
                                 ![victim[t]] = [from |-> seen[t].from, to |-> seen[t].to - 1]]
            /\ sliceId' = [sliceId EXCEPT ![t] = seen[t].to - 1]
            /\ victim' = [victim EXCEPT ![t] = t]
            /\ Goto(t, "subtract")
       ELSE /\ Goto(t, "loadBack")
            /\ UNCHANGED <<sliceBounds, sliceId, victim>>
    /\ seen' = [seen EXCEPT ![t] = EmptyBounds]
    /\ UNCHANGED <<poolVars, pendingSlices, myJob, history>>

\* pendingSlices_-- after either pop: a step of its own.
SubtractSlice(t) ==
    /\ pc[t] = "subtract"
    /\ pendingSlices' = pendingSlices - 1
    /\ Goto(t, "execute")
    /\ UNCHANGED <<poolVars, sliceBounds, localVars, history>>

\* The job's callback returns; false makes the thread call abortJob().
ExecuteSlice(t) ==
    /\ pc[t] = "execute"
    /\ runs' = [runs EXCEPT ![sliceId[t]] = @ + 1]
    /\ sliceId' = [sliceId EXCEPT ![t] = NoSlice]
    /\ \/ /\ Goto(t, "loadFront")
          /\ UNCHANGED <<victim, outcome>>
       \/ /\ Goto(t, "abortLoad")
          /\ victim' = [victim EXCEPT ![t] = Main]
          /\ outcome' = "aborted"
    /\ UNCHANGED <<poolVars, queueVars, seen, myJob, jobs>>

\* abortJob(): empty every queue in turn, the main thread's first.
AbortLoad(t) ==
    /\ pc[t] = "abortLoad"
    /\ seen' = [seen EXCEPT ![t] = sliceBounds[victim[t]]]
    /\ Goto(t, "abortCAS")
    /\ UNCHANGED <<poolVars, queueVars, victim, sliceId, myJob, history>>

\* Mutant: the abort clears a queue without comparing the bounds it read.
AbortCAS_plainStore(t) ==
    /\ pc[t] = "abortCAS"
    /\ sliceBounds' = [sliceBounds EXCEPT ![victim[t]] = EmptyBounds]
    /\ Goto(t, "abortSubtract")
    /\ UNCHANGED <<poolVars, pendingSlices, localVars, history>>

AbortCAS(t) ==
    /\ pc[t] = "abortCAS"
    /\ IF sliceBounds[victim[t]] = seen[t]
       THEN /\ sliceBounds' = [sliceBounds EXCEPT ![victim[t]] = EmptyBounds]
            /\ Goto(t, "abortSubtract")
       ELSE Goto(t, "abortLoad") /\ UNCHANGED sliceBounds
    /\ UNCHANGED <<poolVars, pendingSlices, localVars, history>>

AbortSubtract(t) ==
    /\ pc[t] = "abortSubtract"
    /\ pendingSlices' = pendingSlices - (seen[t].to - seen[t].from)
    /\ IF victim[t] = NumWorkers
       THEN /\ Goto(t, AfterJob(t))
            /\ victim' = [victim EXCEPT ![t] = t]
       ELSE /\ Goto(t, "abortLoad")
            /\ victim' = [victim EXCEPT ![t] = @ + 1]
    /\ seen' = [seen EXCEPT ![t] = EmptyBounds]
    /\ UNCHANGED <<poolVars, sliceBounds, sliceId, myJob, history>>

WorkStep(t) ==
    \/ FetchJob(t) \/ LoadFront(t) \/ CasFront(t) \/ TryToSteal(t)
    \/ LoadBack(t) \/ CasBack(t) \/ SubtractSlice(t) \/ ExecuteSlice(t)
    \/ AbortLoad(t) \/ AbortCAS(t) \/ AbortSubtract(t)

\* What the main thread does inside executeJob() or terminateWorkers().
MainStep ==
    \/ AllocateMainWorker \/ AllocateWorker \/ AllWorkersAllocated
    \/ \E w \in Worker : StartWorker(w)
    \/ AllWorkersStarted
    \/ DistributeSlices \/ PublishJob \/ PublishSlices \/ NotifyWorkers
    \/ WaitForWorkers
    \/ SignalTermination \/ TerminateEmptyPool \/ WaitForTermination

WorkerStep(w) == WorkerTop(w) \/ WorkerJoin(w)

Terminated == pc[Main] = "terminated" /\ UNCHANGED vars

Next ==
    \/ EnterExecuteJob \/ DestroyPool
    \/ MainStep
    \/ \E w \in Worker : WorkerStep(w)
    \/ \E t \in Thread : WorkStep(t)
    \/ \E t \in Thread : SpuriousWakeup(t)
    \/ Terminated

\* Every thread that can run runs eventually, and a callback returns.  Nothing
\* makes the embedding submit a job, and a spurious wakeup need never happen.
Fairness ==
    /\ WF_vars(MainStep \/ WorkStep(Main))
    /\ \A w \in Worker : WF_vars(WorkerStep(w) \/ WorkStep(w))

Spec == Init /\ [][Next]_vars
FairSpec == Spec /\ Fairness

-----------------------------------------------------------------------------
(* Properties *)

TypeOK ==
    /\ sliceBounds \in [Thread -> Bounds]
    /\ pendingSlices \in 0..numSlices
    /\ activeWorkers \in 0..NumWorkers
    /\ job \in Job \cup {NoJob}
    /\ mainWorker \in {"null", "live", "deleted"}
    /\ workersLength \in 0..NumWorkers
    /\ state \in [Worker -> WorkerState]
    /\ pc \in [Thread -> PC]
    /\ seen \in [Thread -> Bounds]
    /\ victim \in [Thread -> Thread]
    /\ sliceId \in [Thread -> Slice \cup {NoSlice}]
    /\ myJob \in [Thread -> Job \cup {NoJob}]
    /\ jobs \in 0..MaxJobs
    /\ runs \in [Slice -> Nat]
    /\ outcome \in {"complete", "aborted"}

\* The main thread is between the submission of a job and its completion.
InJob == pc[Main] \in WorkingPC \cup {"publishJob", "publishSlices", "notify",
                                     "wait", "joinWait"}
Holds(t, s) == pc[t] \in ClaimedPC /\ sliceId[t] = s

\* No slice is handed to the job's callback twice, however the owner's pops,
\* the thieves' pops and the aborts of several threads interleave.
SliceRunsAtMostOnce == \A s \in Slice : runs[s] <= 1

\* "Execution terminates when there is no work left to be done, i.e., when all
\* the workers have an empty queue": executeJob() has returned only if every
\* slice ran, or the job was aborted; no queue keeps a slice of that job and
\* no thread is still inside its callback.
ReturnedJobIsOver ==
    (jobs > 0 /\ ~InJob) =>
        /\ \A s \in Slice : outcome = "aborted" \/ runs[s] = 1
        /\ \A t \in Thread : IsEmpty(sliceBounds[t]) /\ pc[t] \notin WorkingPC

\* A worker calls into the job that is current, never into one that executeJob()
\* has already returned from, and job() never hands it a null pointer.
NoStaleJob ==
    \A t \in Thread :
        pc[t] \in WorkingPC \ {"fetchJob"} =>
            myJob[t] = job /\ job # NoJob /\ job = jobs

\* Slices a thread has taken out of a queue and not yet subtracted.
Unsubtracted(t) ==
    IF pc[t] = "subtract" THEN {sliceId[t]}
    ELSE IF pc[t] = "abortSubtract" THEN seen[t].from .. (seen[t].to - 1)
    ELSE {}

\* The slices that are queued or not yet subtracted from pendingSlices_.
Outstanding ==
    {s \in Slice : \E t \in Thread : s \in Queued(t) \/ s \in Unsubtracted(t)}

\* pendingSlices_ is decremented after the compare-and-exchange that claims a
\* slice, so it over-counts, never under-counts: the unsigned counter cannot
\* wrap below zero and hasWork() cannot be false while a slice is queued.
PendingCountsOutstanding ==
    (InJob /\ pc[Main] \notin {"publishJob", "publishSlices"}) =>
        pendingSlices = Cardinality(Outstanding)

ActiveThreads == {w \in Worker : pc[w] \in WorkingPC \cup {"join"}}

\* activeWorkers_ counts the threads join() is still to be called for, the
\* barrier waitForWorkers() relies on.
ActiveWorkersCounted ==
    pc[Main] \notin {"termWait", "termJoinWait"} =>
        activeWorkers = Cardinality(ActiveThreads)

\* executeJob() returns: no lost wakeup between the workers and the main thread
\* and no abort leaves the pool waiting.
JobReturns == pc[Main] = "publishJob" ~> pc[Main] = "idle"

\* terminateWorkers() returns and every thread that was created has left run().
PoolTerminates ==
    pc[Main] = "terminate" ~>
        (pc[Main] = "terminated" /\ \A w \in Worker : pc[w] \in {"none", "exited"})

\* "upon exit from this function, the workers array is either full (upon
\* success) or empty (upon failure)": lazyStartWorkers() exits.
LazyStartReturns ==
    pc[Main] = "allocWorkers" ~>
        \/ workersLength = NumWorkers /\ pc[Main] = "distribute"
        \/ workersLength = 0 /\ pc[Main] = "terminated"

-----------------------------------------------------------------------------
(* The inductive invariant behind the safety properties (WorkStealing only). *)

\* Workers may be inside the job: hasWork() has been or still is true.
RunPC == WorkingPC \cup {"notify", "wait", "joinWait"}
TermPC == {"termWait", "termJoinWait"}
AbortPC == {"abortLoad", "abortCAS", "abortSubtract"}

TypeInv ==
    /\ sliceBounds \in [Thread -> Bounds]
    /\ pendingSlices \in Int
    /\ activeWorkers \in Int
    /\ job \in Job \cup {NoJob}
    /\ mainWorker \in {"null", "live", "deleted"}
    /\ workersLength \in 0..NumWorkers
    /\ state \in [Worker -> WorkerState]
    /\ pc \in [Thread -> PC]
    /\ seen \in [Thread -> Bounds]
    /\ victim \in [Thread -> Thread]
    /\ sliceId \in [Thread -> Slice \cup {NoSlice}]
    /\ myJob \in [Thread -> Job \cup {NoJob}]
    /\ jobs \in 0..MaxJobs
    /\ runs \in [Slice -> Nat]
    /\ outcome \in {"complete", "aborted"}

PcInv ==
    /\ pc[Main] \in MainPC \cup WorkingPC
    /\ \A w \in Worker : pc[w] \in WorkerPC \cup WorkingPC

\* What a thread's locals say at the steps that use them.
LocalInv ==
    /\ pc[Main] \in {"allocMain", "allocWorkers", "startWorkers", "distribute"} =>
          jobs < MaxJobs
    /\ \A t \in Thread :
          /\ sliceBounds[t].from <= sliceBounds[t].to
          /\ seen[t].from <= seen[t].to
          /\ pc[t] \in {"casFront", "casBack"} => seen[t].from < seen[t].to
          /\ (pc[t] \in ClaimedPC) <=> (sliceId[t] \in Slice)
          /\ pc[t] \in AbortPC => outcome = "aborted"

\* The life cycle of a worker thread against that of the pool.
LifeInv ==
    /\ \A w \in Worker :
        /\ pc[w] = "none" \/ w <= workersLength \/ pc[Main] = "terminated"
        /\ pc[Main] \in TermPC /\ w <= workersLength => state[w] = "TERMINATED"
        /\ pc[Main] \notin TermPC \cup {"terminated"} =>
              pc[w] # "exited" /\ (pc[w] # "none" => state[w] = "ACTIVE")
        /\ pc[Main] = "terminated" => state[w] = "NONE"
    /\ pc[Main] \in {"startWorkers", "distribute", "publishJob", "publishSlices"}
                       \cup RunPC => workersLength = NumWorkers

\* Outside a job the pool is quiet, so that the next job can be distributed
\* and published without a lock.
QuietInv ==
    pc[Main] \notin RunPC =>
        /\ ActiveThreads = {}
        /\ pendingSlices = 0
        /\ \A t \in Thread :
              IF pc[Main] \in {"publishJob", "publishSlices"}
              THEN sliceBounds[t] = ShareOf(t)
              ELSE IsEmpty(sliceBounds[t])

CountInv ==
    /\ pc[Main] \in TermPC =>
          activeWorkers = Cardinality({w \in 1..workersLength : pc[w] # "exited"})
    /\ pc[Main] = "terminated" => activeWorkers = 0
    /\ pc[Main] \notin TermPC \cup {"terminated"} =>
          activeWorkers = Cardinality(ActiveThreads)

\* A slice is in one place: one queue, one thread, or among those that ran.
PlaceInv ==
    /\ \A t, u \in Thread : t # u =>
          /\ Queued(t) \cap Queued(u) = {}
          /\ Unsubtracted(t) \cap Unsubtracted(u) = {}
          /\ pc[t] \in ClaimedPC /\ pc[u] \in ClaimedPC => sliceId[t] # sliceId[u]
    /\ \A t, u \in Thread :
          /\ Queued(t) \cap Unsubtracted(u) = {}
          /\ pc[u] = "execute" => sliceId[u] \notin Queued(t) \cup Unsubtracted(t)
    /\ \A t \in Thread :
          /\ \A s \in Queued(t) \cup Unsubtracted(t) : runs[s] = 0
          /\ pc[t] \in ClaimedPC => runs[sliceId[t]] = 0
    /\ \A s \in Slice : runs[s] <= 1

\* Without an abort no slice is lost.
CoverInv ==
    jobs > 0 /\ outcome = "complete" =>
        \A s \in Slice :
            \/ runs[s] = 1
            \/ \E t \in Thread : s \in Queued(t) \/ Holds(t, s)

PendingInv == pc[Main] \in RunPC => pendingSlices = Cardinality(Outstanding)

\* An abort leaves empty queues behind it, and so does the main thread.
AbortInv ==
    /\ \A t, u \in Thread :
          (pc[t] \in AbortPC /\ u <= victim[t]
              /\ (pc[t] = "abortSubtract" \/ u < victim[t]))
          => IsEmpty(sliceBounds[u])
    /\ pc[Main] \in {"wait", "joinWait"} =>
          \A t \in Thread : IsEmpty(sliceBounds[t])

JobInv ==
    /\ pc[Main] \in {"publishJob", "publishSlices"} \cup RunPC => jobs > 0
    /\ pc[Main] \in {"publishSlices"} \cup RunPC => job = jobs
    /\ \A t \in Thread : pc[t] \in (WorkingPC \ {"fetchJob"}) \cup {"join"} =>
          myJob[t] = jobs

\* Everything the proof carries from one step to the next.
IInv ==
    /\ TypeInv /\ PcInv /\ LocalInv /\ LifeInv /\ QuietInv /\ CountInv
    /\ PlaceInv /\ CoverInv /\ PendingInv /\ AbortInv /\ JobInv

-----------------------------------------------------------------------------
(* The pool implements the abstract job. *)

Abstract == INSTANCE ParallelJob WITH
    Slice   <- Slice,
    running <- InJob,
    todo    <- {s \in Slice : \E t \in Thread : s \in Queued(t)},
    active  <- {s \in Slice : \E t \in Thread : Holds(t, s)},
    done    <- {s \in Slice : runs[s] > 0},
    failed  <- outcome = "aborted"

\* executeJob() hands every slice to the callback once, returns when the last
\* call has returned, and drops slices only after an abort.
ImplementsParallelJob == Abstract!Spec

=============================================================================
