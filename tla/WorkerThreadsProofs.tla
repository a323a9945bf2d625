------------------------ MODULE WorkerThreadsProofs ------------------------
(***************************************************************************)
(* Safety of the worker threads for every number of threads, builders,     *)
(* scripts and asm.js functions: IInv is inductive, and the invariants     *)
(* that WorkerThreads states follow from it.                               *)
(***************************************************************************)
EXTENDS WorkerThreads, FiniteSetTheorems, WellFoundedInduction, TLAPS

-----------------------------------------------------------------------------
(* The inductive invariant.                                                *)

\* What TypeOK says of the threads and of the clients.
ThreadType ==
    /\ workerPC \in [Worker -> WorkerPC]
    /\ task \in [Worker -> IonTask \cup Client \cup {NoTask}]
    /\ terminate \in [Worker -> BOOLEAN]
    /\ clientPC \in [Client -> ClientPC]
    /\ asmOwner \in Client \cup {NoTask}

\* What it says of the lists.
ListType ==
    /\ ionWorklist \subseteq IonTask /\ ionFinished \subseteq IonTask
    /\ built \subseteq IonTask /\ target \subseteq IonTask
    /\ parseWorklist \subseteq ParseTask /\ parseFinishedList \subseteq ParseTask
    /\ parseWaitingOnGC \subseteq ParseTask /\ usedByExclusiveThread \subseteq ParseTask
    /\ called \subseteq ParseTask /\ collected \subseteq ParseTask
    /\ compressionWorklist \subseteq Client

\* What it says of the main thread and the flags.
MainType ==
    /\ haveTask \in BOOLEAN /\ destroying \in BOOLEAN
    /\ mainPC \in MainPC /\ cursor \in Worker
    /\ atomsZone \in {"idle", "scheduled", "started"}
    /\ cancels \in 0..MaxCancels /\ slices \in 0..MaxSlices

\* The counters of asm.js, which CountInv and LifoInv bound.
CountType ==
    /\ asmJSWorklist \in Nat /\ asmJSFinishedList \in Nat /\ numAsmJSFailedJobs \in Nat
    /\ dispatched \in Nat /\ outstandingJobs \in Nat

\* Where a compilation stands while it has the claim on parallel compilation.
AsmPC == {"asmSubmit", "asmGet", "asmGetWait", "asmCancel", "asmCancelTest",
          "asmCancelWait"}

\* A worker's task is of the kind of its workload.
TaskInv ==
    \A w \in Worker :
        /\ workerPC[w] = "ion" => task[w] \in IonTask
        /\ workerPC[w] = "parse" => task[w] \in ParseTask
        /\ workerPC[w] = "compression" => task[w] \in Client

\* While CancelOffThreadIonCompile() goes through the threads, the targets are
\* out of the worklist, and no thread it has passed compiles one of them.
CancelInv ==
    /\ mainPC \in {"cancelTest", "cancelWait", "cancelled"} => target \cap ionWorklist = {}
    /\ mainPC \in {"cancelTest", "cancelWait"} =>
          \A w \in Running("ion") : w < cursor => task[w] \notin target
    /\ mainPC = "cancelled" =>
          /\ target \cap ionFinished = {}
          /\ \A w \in Running("ion") : task[w] \notin target

\* A script is in one place: it waits, is parsed by one worker, or is over.
ParseInv ==
    /\ parseWorklist \cap parseWaitingOnGC = {}
    /\ \A t \in parseWorklist \cup parseWaitingOnGC : clientPC[t] = "none"
    /\ \A t \in called : clientPC[t] = "done"
    /\ \A t \in ParseTask : clientPC[t] # "none" =>
          t \in called \/ \E w \in Running("parse") : task[w] = t
    /\ \A w \in Running("parse") : clientPC[task[w]] # "none" /\ task[w] \notin called
    /\ \A w, v \in Running("parse") : w = v

\* A compilation whose source is to be compressed, or is, is past setting the
\* source and not over.
CompressionInv ==
    \A c \in Client :
        c \in compressionWorklist \/ (\E w \in Running("compression") : task[w] = c)
            => clientPC[c] \notin {"none", "setSource", "done"}

\* The zones of the scripts that are or can be parsed are marked, and atoms are
\* only collected while no zone is.
AtomsInv ==
    /\ parseWorklist \subseteq usedByExclusiveThread
    /\ \A w \in Running("parse") : task[w] \in usedByExclusiveThread
    /\ atomsZone = "started" => usedByExclusiveThread = {}
    /\ mainPC = "enqueue" => atomsZone = "idle"

\* asmJSCompilationInProgress is claimed by the one compilation that is compiling
\* a module in parallel.
OwnerInv == \A c \in Client : clientPC[c] \in AsmPC <=> asmOwner = c

\* The functions outstanding are those in the lists, being compiled, or failed;
\* without a claim there is none.
CountInv ==
    /\ outstandingJobs = asmJSWorklist + asmJSFinishedList + Cardinality(Running("asmJS"))
                            + numAsmJSFailedJobs
    /\ asmOwner = NoTask => outstandingJobs = 0

\* Every function outstanding or at hand for a task to reuse was dispatched and
\* has a LifoAlloc of its own.
LifoInv ==
    LET lifos == outstandingJobs + (IF haveTask THEN 1 ELSE 0)
    IN lifos <= dispatched /\ lifos <= numParallelJobs /\ dispatched <= AsmJobs

IInv ==
    /\ ThreadType /\ ListType /\ MainType /\ CountType
    /\ TaskInv /\ CancelInv /\ ParseInv /\ CompressionInv /\ AtomsInv
    /\ OwnerInv /\ CountInv /\ LifoInv /\ TokensAreFinished

-----------------------------------------------------------------------------
(* Threads and their number.                                               *)

\* There are finitely many threads, so those at a workload can be counted.
LEMMA RunningIsFinite ==
    ASSUME NEW kind
    PROVE  IsFiniteSet(Running(kind)) /\ Cardinality(Running(kind)) \in Nat
  <1>1. IsFiniteSet(Worker)
    BY WorkerAssumption, FS_Interval, 1 \in Int DEF Worker
  <1>2. Running(kind) \subseteq Worker
    BY DEF Running
  <1> QED
    BY <1>1, <1>2, FS_Subset, FS_CardinalityType

\* The first thread of a scan: a set of threads has a least one.
LEMMA FirstWorker ==
    ASSUME NEW S \in SUBSET Worker, S # {}
    PROVE  (CHOOSE w \in S : \A v \in S : w <= v) \in S
           /\ \A v \in S : (CHOOSE w \in S : \A u \in S : w <= u) <= v
  <1> DEFINE less == OpToRel(<, Nat)
  <1>1. S \subseteq Nat
    BY WorkerAssumption DEF Worker
  <1>2. \A v, w \in Nat : v < w => <<v, w>> \in less
    BY DEF OpToRel
  <1>3. IsWellFoundedOn(less, Nat)
    BY NatLessThanWellFounded
  <1> HIDE DEF less
  <1>4. PICK w \in S : \A v \in S : ~(<<v, w>> \in less)
    BY <1>1, <1>3, WFMin
  <1>5. ASSUME NEW v \in S PROVE w <= v
    <2>1. ~(v < w)
      BY <1>1, <1>2, <1>4, Zenon
    <2> QED
      BY <1>1, <2>1
  <1> QED
    BY <1>5

\* The first thread is where a scan begins, and the bounds are numbers.
LEMMA Parameters ==
    /\ 1 \in Worker /\ Worker \subseteq Nat
    /\ NumThreads \in Worker /\ \A w \in Worker : w # NumThreads => w + 1 \in Worker
    /\ AsmJobs \in Nat /\ MaxCancels \in Nat /\ MaxSlices \in Nat
  BY WorkerAssumption DEF Worker

\* What the loop of CancelOffThreadIonCompile() over the threads has done when
\* it waits, and when it ends.
LEMMA ScanStep ==
    ASSUME NEW targets, NEW finished, NEW from \in Worker, cursor \in Worker,
           ScanThreads(targets, finished, from)
    PROVE  /\ cursor' \in Worker
           /\ mainPC' \in {"cancelled", "cancelWait"}
           /\ mainPC' = "cancelWait" =>
                 /\ ionFinished' = finished
                 /\ workerPC[cursor'] = "ion" /\ task[cursor'] \in targets
                 /\ \A w \in Running("ion") :
                       w >= from /\ w < cursor' => task[w] \notin targets
           /\ mainPC' = "cancelled" =>
                 /\ ionFinished' = finished \ targets
                 /\ \A w \in Running("ion") : w >= from => task[w] \notin targets
  <1> DEFINE busy == {w \in Running("ion") : w >= from /\ task[w] \in targets}
  <1>1. CASE busy = {}
    BY <1>1 DEF ScanThreads
  <1>2. CASE busy # {}
    <2>1. busy \subseteq Worker /\ Worker \subseteq Nat
      BY Parameters DEF Running
    <2>2. cursor' = CHOOSE w \in busy : \A v \in busy : w <= v
      BY <1>2 DEF ScanThreads
    <2>3. cursor' \in busy /\ \A v \in busy : cursor' <= v
      BY <1>2, <2>1, <2>2, FirstWorker
    <2>4. mainPC' = "cancelWait" /\ ionFinished' = finished
      BY <1>2 DEF ScanThreads
    <2>5. ASSUME NEW w \in Running("ion"), w >= from, w < cursor'
          PROVE  task[w] \notin targets
      <3>1. w \in Nat /\ cursor' \in Nat
        BY <2>1, <2>3 DEF Running
      <3>2. w \notin busy
        BY <2>3, <2>5, <3>1
      <3> QED
        BY <2>5, <3>2
    <2> QED
      BY <2>1, <2>3, <2>4, <2>5 DEF Running
  <1> QED
    BY <1>1, <1>2

-----------------------------------------------------------------------------
(* Types.                                                                  *)

\* The threads' program counters and tasks, and the owner of the claim.
LEMMA ThreadStep ==
    ASSUME ThreadType, ListType, [Next]_vars
    PROVE  ThreadType'
  <1> USE DEF Running, NotifyProducers, NotifyOneProducer, NotifyConsumers, Retest, Goto,
          OnlyClient, ionVars, parseVars, asmVars, workerVars, mainVars, MainFree, ThreadType,
          ListType, WorkerPC, ClientPC, Client
  <1>1. ASSUME NEW w \in Worker, WorkerStep(w) PROVE ThreadType'
    <2>1. CASE BeginAsmJS(w)
      BY <2>1 DEF BeginAsmJS, canStartAsmJSCompile, Begin
    <2>2. CASE BeginIon(w)
      BY <2>2 DEF BeginIon, canStartIonCompile, Begin
    <2>3. CASE BeginParse(w)
      BY <2>3 DEF BeginParse, canStartParseTask, Begin
    <2>4. CASE BeginCompression(w)
      BY <2>4 DEF BeginCompression, Begin
    <2>5. CASE NoWork(w)
      BY <2>5 DEF NoWork, canStartIonCompile, canStartParseTask, canStartCompressionTask
    <2>6. CASE EndAsmJS(w)
      BY <2>6 DEF EndAsmJS, Finished
    <2>7. CASE EndIon(w)
      BY <2>7 DEF EndIon, Finished
    <2>8. CASE EndParse(w)
      BY <2>8 DEF EndParse, Finished
    <2>9. CASE EndCompression(w)
      BY <2>9 DEF EndCompression, Finished
    <2> QED
      BY <1>1, <2>1, <2>2, <2>3, <2>4, <2>5, <2>6, <2>7, <2>8, <2>9 DEF WorkerStep
  <1>2. ASSUME NEW c \in Client, ClientStep(c) PROVE ThreadType'
    <2>1. CASE SetSource(c)
      BY <2>1 DEF SetSource
    <2>2. CASE ParseAlone(c)
      BY <2>2 DEF ParseAlone
    <2>3. CASE ClaimParallelCompilation(c)
      BY <2>3 DEF ClaimParallelCompilation
    <2>4. CASE SubmitFunction(c)
      BY <2>4 DEF SubmitFunction, HasLifo
    <2>5. CASE NeedFinished(c)
      BY <2>5 DEF NeedFinished, HasLifo
    <2>6. CASE GetFinishedCompilation(c)
      BY <2>6 DEF GetFinishedCompilation
    <2>7. CASE CancelOutstandingJobs(c)
      BY <2>7 DEF CancelOutstandingJobs
    <2>8. CASE ReleaseParallelCompilation(c)
      BY <2>8 DEF ReleaseParallelCompilation
    <2>9. CASE CompleteCompression(c)
      BY <2>9 DEF CompleteCompression, compressionInProgress
    <2> QED
      BY <1>2, <2>1, <2>2, <2>3, <2>4, <2>5, <2>6, <2>7, <2>8, <2>9 DEF ClientStep
  <1>3. ASSUME NEW b \in IonTask, StartOffThreadIonCompile(b) PROVE ThreadType'
    BY <1>3 DEF StartOffThreadIonCompile
  <1>4. ASSUME NEW t \in ParseTask,
               StartOffThreadParseScript(t) \/ FinishOffThreadScript(t)
        PROVE  ThreadType'
    <2>1. CASE StartOffThreadParseScript(t)
      BY <2>1 DEF StartOffThreadParseScript, Submitted, activeGCInAtomsZone
    <2>2. CASE FinishOffThreadScript(t)
      BY <2>2 DEF FinishOffThreadScript, finishParseTask
    <2> QED
      BY <1>4, <2>1, <2>2
  <1>5. CASE StartCompilation
    BY <1>5 DEF StartCompilation
  <1>6. CASE AttachFinishedCompilations
    BY <1>6 DEF AttachFinishedCompilations
  <1>7. CASE Cancel
    BY <1>7 DEF Cancel, CancelOffThreadIonCompile, ScanThreads
  <1>8. CASE ScheduleGC
    BY <1>8 DEF ScheduleGC
  <1>9. CASE GCSlice
    BY <1>9 DEF GCSlice, Slice, keepAtoms
  <1>10. CASE GCFinish
    BY <1>10 DEF GCFinish, Slice
  <1>11. CASE CancelWoken
    BY <1>11 DEF CancelWoken, ScanThreads
  <1>12. CASE CancelReturns
    BY <1>12 DEF CancelReturns
  <1>13. CASE EnqueuePendingParseTasksAfterGC
    BY <1>13 DEF EnqueuePendingParseTasksAfterGC
  <1>14. CASE WaitForOffThreadParsingToFinish
    BY <1>14 DEF WaitForOffThreadParsingToFinish, OnlyMainPC
  <1>15. CASE TerminateThread
    BY <1>15 DEF TerminateThread, OnlyMainPC
  <1>16. CASE JoinThread
    BY <1>16 DEF JoinThread, OnlyMainPC
  <1>17. CASE CleanUpParseTask
    BY <1>17 DEF CleanUpParseTask, finishParseTask
  <1>18. CASE CleanedUp
    BY <1>18 DEF CleanedUp, OnlyMainPC
  <1>19. CASE LastGC
    BY <1>19 DEF LastGC, Slice
  <1>20. CASE Destroy
    BY <1>20 DEF Destroy, CancelOffThreadIonCompile, ScanThreads
  <1>21. CASE Ended
    BY <1>21 DEF Ended, vars
  <1>22. CASE UNCHANGED vars
    BY <1>22 DEF vars
  <1> QED
    BY <1>1, <1>2, <1>3, <1>4, <1>5, <1>6, <1>7, <1>8, <1>9, <1>10, <1>11, <1>12, <1>13, <1>14,
        <1>15, <1>16, <1>17, <1>18, <1>19, <1>20, <1>21, <1>22 DEF Next, MainStep

\* The lists hold what they are lists of.
LEMMA ListStep ==
    ASSUME ThreadType, ListType, TaskInv, [Next]_vars
    PROVE  ListType'
  <1> USE DEF Running, NotifyProducers, NotifyOneProducer, NotifyConsumers, Retest, Goto,
          OnlyClient, ionVars, parseVars, asmVars, workerVars, mainVars, MainFree, ThreadType,
          ListType, TaskInv
  <1>1. ASSUME NEW w \in Worker, WorkerStep(w) PROVE ListType'
    <2>1. CASE BeginAsmJS(w)
      BY <2>1 DEF BeginAsmJS, canStartAsmJSCompile, Begin
    <2>2. CASE BeginIon(w)
      BY <2>2 DEF BeginIon, canStartIonCompile, Begin
    <2>3. CASE BeginParse(w)
      BY <2>3 DEF BeginParse, canStartParseTask, Begin
    <2>4. CASE BeginCompression(w)
      BY <2>4 DEF BeginCompression, Begin
    <2>5. CASE NoWork(w)
      BY <2>5 DEF NoWork, canStartIonCompile, canStartParseTask, canStartCompressionTask
    <2>6. CASE EndAsmJS(w)
      BY <2>6 DEF EndAsmJS, Finished
    <2>7. CASE EndIon(w)
      BY <2>7 DEF EndIon, Finished
    <2>8. CASE EndParse(w)
      BY <2>8 DEF EndParse, Finished
    <2>9. CASE EndCompression(w)
      BY <2>9 DEF EndCompression, Finished
    <2> QED
      BY <1>1, <2>1, <2>2, <2>3, <2>4, <2>5, <2>6, <2>7, <2>8, <2>9 DEF WorkerStep
  <1>2. ASSUME NEW c \in Client, ClientStep(c) PROVE ListType'
    <2>1. CASE SetSource(c)
      BY <2>1 DEF SetSource
    <2>2. CASE ParseAlone(c)
      BY <2>2 DEF ParseAlone
    <2>3. CASE ClaimParallelCompilation(c)
      BY <2>3 DEF ClaimParallelCompilation
    <2>4. CASE SubmitFunction(c)
      BY <2>4 DEF SubmitFunction, HasLifo
    <2>5. CASE NeedFinished(c)
      BY <2>5 DEF NeedFinished, HasLifo
    <2>6. CASE GetFinishedCompilation(c)
      BY <2>6 DEF GetFinishedCompilation
    <2>7. CASE CancelOutstandingJobs(c)
      BY <2>7 DEF CancelOutstandingJobs
    <2>8. CASE ReleaseParallelCompilation(c)
      BY <2>8 DEF ReleaseParallelCompilation
    <2>9. CASE CompleteCompression(c)
      BY <2>9 DEF CompleteCompression, compressionInProgress
    <2> QED
      BY <1>2, <2>1, <2>2, <2>3, <2>4, <2>5, <2>6, <2>7, <2>8, <2>9 DEF ClientStep
  <1>3. ASSUME NEW b \in IonTask, StartOffThreadIonCompile(b) PROVE ListType'
    BY <1>3 DEF StartOffThreadIonCompile
  <1>4. ASSUME NEW t \in ParseTask,
               StartOffThreadParseScript(t) \/ FinishOffThreadScript(t)
        PROVE  ListType'
    <2>1. CASE StartOffThreadParseScript(t)
      BY <2>1 DEF StartOffThreadParseScript, Submitted, activeGCInAtomsZone
    <2>2. CASE FinishOffThreadScript(t)
      BY <2>2 DEF FinishOffThreadScript, finishParseTask
    <2> QED
      BY <1>4, <2>1, <2>2
  <1>5. CASE StartCompilation
    BY <1>5 DEF StartCompilation
  <1>6. CASE AttachFinishedCompilations
    BY <1>6 DEF AttachFinishedCompilations
  <1>7. CASE Cancel
    BY <1>7 DEF Cancel, CancelOffThreadIonCompile, ScanThreads
  <1>8. CASE ScheduleGC
    BY <1>8 DEF ScheduleGC
  <1>9. CASE GCSlice
    BY <1>9 DEF GCSlice, Slice, keepAtoms
  <1>10. CASE GCFinish
    BY <1>10 DEF GCFinish, Slice
  <1>11. CASE CancelWoken
    BY <1>11 DEF CancelWoken, ScanThreads
  <1>12. CASE CancelReturns
    BY <1>12 DEF CancelReturns
  <1>13. CASE EnqueuePendingParseTasksAfterGC
    BY <1>13 DEF EnqueuePendingParseTasksAfterGC
  <1>14. CASE WaitForOffThreadParsingToFinish
    BY <1>14 DEF WaitForOffThreadParsingToFinish, OnlyMainPC
  <1>15. CASE TerminateThread
    BY <1>15 DEF TerminateThread, OnlyMainPC
  <1>16. CASE JoinThread
    BY <1>16 DEF JoinThread, OnlyMainPC
  <1>17. CASE CleanUpParseTask
    BY <1>17 DEF CleanUpParseTask, finishParseTask
  <1>18. CASE CleanedUp
    BY <1>18 DEF CleanedUp, OnlyMainPC
  <1>19. CASE LastGC
    BY <1>19 DEF LastGC, Slice
  <1>20. CASE Destroy
    BY <1>20 DEF Destroy, CancelOffThreadIonCompile, ScanThreads
  <1>21. CASE Ended
    BY <1>21 DEF Ended, vars
  <1>22. CASE UNCHANGED vars
    BY <1>22 DEF vars
  <1> QED
    BY <1>1, <1>2, <1>3, <1>4, <1>5, <1>6, <1>7, <1>8, <1>9, <1>10, <1>11, <1>12, <1>13, <1>14,
        <1>15, <1>16, <1>17, <1>18, <1>19, <1>20, <1>21, <1>22 DEF Next, MainStep

\* The main thread's program counter and its locals.
LEMMA MainStepType ==
    ASSUME ThreadType, ListType, MainType, [Next]_vars
    PROVE  MainType'
  <1> USE DEF Running, NotifyProducers, NotifyOneProducer, NotifyConsumers, Retest, Goto,
          OnlyClient, ionVars, parseVars, asmVars, workerVars, mainVars, MainFree, ThreadType,
          ListType, MainType, MainPC
  <1>1. ASSUME NEW w \in Worker, WorkerStep(w) PROVE MainType'
    <2>1. CASE BeginAsmJS(w)
      BY <2>1 DEF BeginAsmJS, canStartAsmJSCompile, Begin
    <2>2. CASE BeginIon(w)
      BY <2>2 DEF BeginIon, canStartIonCompile, Begin
    <2>3. CASE BeginParse(w)
      BY <2>3 DEF BeginParse, canStartParseTask, Begin
    <2>4. CASE BeginCompression(w)
      BY <2>4 DEF BeginCompression, Begin
    <2>5. CASE NoWork(w)
      BY <2>5 DEF NoWork, canStartIonCompile, canStartParseTask, canStartCompressionTask
    <2>6. CASE EndAsmJS(w)
      BY <2>6 DEF EndAsmJS, Finished
    <2>7. CASE EndIon(w)
      BY <2>7 DEF EndIon, Finished
    <2>8. CASE EndParse(w)
      BY <2>8 DEF EndParse, Finished
    <2>9. CASE EndCompression(w)
      BY <2>9 DEF EndCompression, Finished
    <2> QED
      BY <1>1, <2>1, <2>2, <2>3, <2>4, <2>5, <2>6, <2>7, <2>8, <2>9 DEF WorkerStep
  <1>2. ASSUME NEW c \in Client, ClientStep(c) PROVE MainType'
    <2>1. CASE SetSource(c)
      BY <2>1 DEF SetSource
    <2>2. CASE ParseAlone(c)
      BY <2>2 DEF ParseAlone
    <2>3. CASE ClaimParallelCompilation(c)
      BY <2>3 DEF ClaimParallelCompilation
    <2>4. CASE SubmitFunction(c)
      BY <2>4 DEF SubmitFunction, HasLifo
    <2>5. CASE NeedFinished(c)
      BY <2>5 DEF NeedFinished, HasLifo
    <2>6. CASE GetFinishedCompilation(c)
      BY <2>6 DEF GetFinishedCompilation
    <2>7. CASE CancelOutstandingJobs(c)
      BY <2>7 DEF CancelOutstandingJobs
    <2>8. CASE ReleaseParallelCompilation(c)
      BY <2>8 DEF ReleaseParallelCompilation
    <2>9. CASE CompleteCompression(c)
      BY <2>9 DEF CompleteCompression, compressionInProgress
    <2> QED
      BY <1>2, <2>1, <2>2, <2>3, <2>4, <2>5, <2>6, <2>7, <2>8, <2>9 DEF ClientStep
  <1>3. ASSUME NEW b \in IonTask, StartOffThreadIonCompile(b) PROVE MainType'
    BY <1>3 DEF StartOffThreadIonCompile
  <1>4. ASSUME NEW t \in ParseTask,
               StartOffThreadParseScript(t) \/ FinishOffThreadScript(t)
        PROVE  MainType'
    <2>1. CASE StartOffThreadParseScript(t)
      BY <2>1 DEF StartOffThreadParseScript, Submitted, activeGCInAtomsZone
    <2>2. CASE FinishOffThreadScript(t)
      BY <2>2 DEF FinishOffThreadScript, finishParseTask
    <2> QED
      BY <1>4, <2>1, <2>2
  <1>5. CASE StartCompilation
    BY <1>5 DEF StartCompilation
  <1>6. CASE AttachFinishedCompilations
    BY <1>6 DEF AttachFinishedCompilations
  <1>7. CASE Cancel
    <2>1. PICK targets \in SUBSET IonTask : CancelOffThreadIonCompile(targets)
      BY <1>7 DEF Cancel
    <2> QED
      BY <1>7, <2>1, ScanStep, Parameters DEF Cancel, CancelOffThreadIonCompile
  <1>8. CASE ScheduleGC
    BY <1>8 DEF ScheduleGC
  <1>9. CASE GCSlice
    BY <1>9, Parameters DEF GCSlice, Slice, keepAtoms
  <1>10. CASE GCFinish
    BY <1>10 DEF GCFinish, Slice
  <1>11. CASE CancelWoken
    BY <1>11, ScanStep DEF CancelWoken
  <1>12. CASE CancelReturns
    BY <1>12, Parameters DEF CancelReturns
  <1>13. CASE EnqueuePendingParseTasksAfterGC
    BY <1>13 DEF EnqueuePendingParseTasksAfterGC
  <1>14. CASE WaitForOffThreadParsingToFinish
    BY <1>14 DEF WaitForOffThreadParsingToFinish, OnlyMainPC
  <1>15. CASE TerminateThread
    BY <1>15 DEF TerminateThread, OnlyMainPC
  <1>16. CASE JoinThread
    BY <1>16, Parameters DEF JoinThread, OnlyMainPC
  <1>17. CASE CleanUpParseTask
    BY <1>17 DEF CleanUpParseTask, finishParseTask
  <1>18. CASE CleanedUp
    BY <1>18 DEF CleanedUp, OnlyMainPC
  <1>19. CASE LastGC
    BY <1>19 DEF LastGC, Slice
  <1>20. CASE Destroy
    BY <1>20, ScanStep, Parameters DEF Destroy, CancelOffThreadIonCompile
  <1>21. CASE Ended
    BY <1>21 DEF Ended, vars
  <1>22. CASE UNCHANGED vars
    BY <1>22 DEF vars
  <1> QED
    BY <1>1, <1>2, <1>3, <1>4, <1>5, <1>6, <1>7, <1>8, <1>9, <1>10, <1>11, <1>12, <1>13, <1>14,
        <1>15, <1>16, <1>17, <1>18, <1>19, <1>20, <1>21, <1>22 DEF Next, MainStep

-----------------------------------------------------------------------------
(* Tasks, cancellation, parsing, compression and atoms.                    *)

\* A worker takes its task from the worklist of its workload.
LEMMA TaskStep ==
    ASSUME ThreadType, ListType, TaskInv, [Next]_vars
    PROVE  TaskInv'
  <1> USE DEF Running, NotifyProducers, NotifyOneProducer, NotifyConsumers, Retest, Goto,
          OnlyClient, ionVars, parseVars, asmVars, workerVars, mainVars, MainFree, ThreadType,
          ListType, TaskInv, Client
  <1>1. ASSUME NEW w \in Worker, WorkerStep(w) PROVE TaskInv'
    <2>1. CASE BeginAsmJS(w)
      BY <2>1 DEF BeginAsmJS, canStartAsmJSCompile, Begin
    <2>2. CASE BeginIon(w)
      BY <2>2 DEF BeginIon, canStartIonCompile, Begin
    <2>3. CASE BeginParse(w)
      BY <2>3 DEF BeginParse, canStartParseTask, Begin
    <2>4. CASE BeginCompression(w)
      BY <2>4 DEF BeginCompression, Begin
    <2>5. CASE NoWork(w)
      BY <2>5 DEF NoWork, canStartIonCompile, canStartParseTask, canStartCompressionTask
    <2>6. CASE EndAsmJS(w)
      BY <2>6 DEF EndAsmJS, Finished
    <2>7. CASE EndIon(w)
      BY <2>7 DEF EndIon, Finished
    <2>8. CASE EndParse(w)
      BY <2>8 DEF EndParse, Finished
    <2>9. CASE EndCompression(w)
      BY <2>9 DEF EndCompression, Finished
    <2> QED
      BY <1>1, <2>1, <2>2, <2>3, <2>4, <2>5, <2>6, <2>7, <2>8, <2>9 DEF WorkerStep
  <1>2. ASSUME NEW c \in Client, ClientStep(c) PROVE TaskInv'
    <2>1. CASE SetSource(c)
      BY <2>1 DEF SetSource
    <2>2. CASE ParseAlone(c)
      BY <2>2 DEF ParseAlone
    <2>3. CASE ClaimParallelCompilation(c)
      BY <2>3 DEF ClaimParallelCompilation
    <2>4. CASE SubmitFunction(c)
      BY <2>4 DEF SubmitFunction, HasLifo
    <2>5. CASE NeedFinished(c)
      BY <2>5 DEF NeedFinished, HasLifo
    <2>6. CASE GetFinishedCompilation(c)
      BY <2>6 DEF GetFinishedCompilation
    <2>7. CASE CancelOutstandingJobs(c)
      BY <2>7 DEF CancelOutstandingJobs
    <2>8. CASE ReleaseParallelCompilation(c)
      BY <2>8 DEF ReleaseParallelCompilation
    <2>9. CASE CompleteCompression(c)
      BY <2>9 DEF CompleteCompression, compressionInProgress
    <2> QED
      BY <1>2, <2>1, <2>2, <2>3, <2>4, <2>5, <2>6, <2>7, <2>8, <2>9 DEF ClientStep
  <1>3. ASSUME NEW b \in IonTask, StartOffThreadIonCompile(b) PROVE TaskInv'
    BY <1>3 DEF StartOffThreadIonCompile
  <1>4. ASSUME NEW t \in ParseTask,
               StartOffThreadParseScript(t) \/ FinishOffThreadScript(t)
        PROVE  TaskInv'
    <2>1. CASE StartOffThreadParseScript(t)
      BY <2>1 DEF StartOffThreadParseScript, Submitted, activeGCInAtomsZone
    <2>2. CASE FinishOffThreadScript(t)
      BY <2>2 DEF FinishOffThreadScript, finishParseTask
    <2> QED
      BY <1>4, <2>1, <2>2
  <1>5. CASE StartCompilation
    BY <1>5 DEF StartCompilation
  <1>6. CASE AttachFinishedCompilations
    BY <1>6 DEF AttachFinishedCompilations
  <1>7. CASE Cancel
    BY <1>7 DEF Cancel, CancelOffThreadIonCompile, ScanThreads
  <1>8. CASE ScheduleGC
    BY <1>8 DEF ScheduleGC
  <1>9. CASE GCSlice
    BY <1>9 DEF GCSlice, Slice, keepAtoms
  <1>10. CASE GCFinish
    BY <1>10 DEF GCFinish, Slice
  <1>11. CASE CancelWoken
    BY <1>11 DEF CancelWoken, ScanThreads
  <1>12. CASE CancelReturns
    BY <1>12 DEF CancelReturns
  <1>13. CASE EnqueuePendingParseTasksAfterGC
    BY <1>13 DEF EnqueuePendingParseTasksAfterGC
  <1>14. CASE WaitForOffThreadParsingToFinish
    BY <1>14 DEF WaitForOffThreadParsingToFinish, OnlyMainPC
  <1>15. CASE TerminateThread
    BY <1>15 DEF TerminateThread, OnlyMainPC
  <1>16. CASE JoinThread
    BY <1>16 DEF JoinThread, OnlyMainPC
  <1>17. CASE CleanUpParseTask
    BY <1>17 DEF CleanUpParseTask, finishParseTask
  <1>18. CASE CleanedUp
    BY <1>18 DEF CleanedUp, OnlyMainPC
  <1>19. CASE LastGC
    BY <1>19 DEF LastGC, Slice
  <1>20. CASE Destroy
    BY <1>20 DEF Destroy, CancelOffThreadIonCompile, ScanThreads
  <1>21. CASE Ended
    BY <1>21 DEF Ended, vars
  <1>22. CASE UNCHANGED vars
    BY <1>22 DEF vars
  <1> QED
    BY <1>1, <1>2, <1>3, <1>4, <1>5, <1>6, <1>7, <1>8, <1>9, <1>10, <1>11, <1>12, <1>13, <1>14,
        <1>15, <1>16, <1>17, <1>18, <1>19, <1>20, <1>21, <1>22 DEF Next, MainStep

\* The main thread waits while it cancels, so that nothing is added to the Ion
\* worklist: a worker can only take up a builder that is not a target.
LEMMA CancelStep ==
    ASSUME ThreadType, ListType, MainType, TaskInv, CancelInv, [Next]_vars
    PROVE  CancelInv'
  <1> USE DEF Running, NotifyProducers, NotifyOneProducer, NotifyConsumers, Retest, Goto,
          OnlyClient, ionVars, parseVars, asmVars, workerVars, mainVars, MainFree, ThreadType,
          ListType, MainType, TaskInv, CancelInv
  <1>1. ASSUME NEW w \in Worker, WorkerStep(w) PROVE CancelInv'
    <2>1. CASE BeginAsmJS(w)
      BY <2>1 DEF BeginAsmJS, canStartAsmJSCompile, Begin
    <2>2. CASE BeginIon(w)
      BY <2>2 DEF BeginIon, canStartIonCompile, Begin
    <2>3. CASE BeginParse(w)
      BY <2>3 DEF BeginParse, canStartParseTask, Begin
    <2>4. CASE BeginCompression(w)
      BY <2>4 DEF BeginCompression, Begin
    <2>5. CASE NoWork(w)
      BY <2>5 DEF NoWork, canStartIonCompile, canStartParseTask, canStartCompressionTask
    <2>6. CASE EndAsmJS(w)
      BY <2>6 DEF EndAsmJS, Finished
    <2>7. CASE EndIon(w)
      BY <2>7 DEF EndIon, Finished
    <2>8. CASE EndParse(w)
      BY <2>8 DEF EndParse, Finished
    <2>9. CASE EndCompression(w)
      BY <2>9 DEF EndCompression, Finished
    <2> QED
      BY <1>1, <2>1, <2>2, <2>3, <2>4, <2>5, <2>6, <2>7, <2>8, <2>9 DEF WorkerStep
  <1>2. ASSUME NEW c \in Client, ClientStep(c) PROVE CancelInv'
    <2>1. CASE SetSource(c)
      BY <2>1 DEF SetSource
    <2>2. CASE ParseAlone(c)
      BY <2>2 DEF ParseAlone
    <2>3. CASE ClaimParallelCompilation(c)
      BY <2>3 DEF ClaimParallelCompilation
    <2>4. CASE SubmitFunction(c)
      BY <2>4 DEF SubmitFunction, HasLifo
    <2>5. CASE NeedFinished(c)
      BY <2>5 DEF NeedFinished, HasLifo
    <2>6. CASE GetFinishedCompilation(c)
      BY <2>6 DEF GetFinishedCompilation
    <2>7. CASE CancelOutstandingJobs(c)
      BY <2>7 DEF CancelOutstandingJobs
    <2>8. CASE ReleaseParallelCompilation(c)
      BY <2>8 DEF ReleaseParallelCompilation
    <2>9. CASE CompleteCompression(c)
      BY <2>9 DEF CompleteCompression, compressionInProgress
    <2> QED
      BY <1>2, <2>1, <2>2, <2>3, <2>4, <2>5, <2>6, <2>7, <2>8, <2>9 DEF ClientStep
  <1>3. ASSUME NEW b \in IonTask, StartOffThreadIonCompile(b) PROVE CancelInv'
    BY <1>3 DEF StartOffThreadIonCompile
  <1>4. ASSUME NEW t \in ParseTask,
               StartOffThreadParseScript(t) \/ FinishOffThreadScript(t)
        PROVE  CancelInv'
    <2>1. CASE StartOffThreadParseScript(t)
      BY <2>1 DEF StartOffThreadParseScript, Submitted, activeGCInAtomsZone
    <2>2. CASE FinishOffThreadScript(t)
      BY <2>2 DEF FinishOffThreadScript, finishParseTask
    <2> QED
      BY <1>4, <2>1, <2>2
  <1>5. CASE StartCompilation
    BY <1>5 DEF StartCompilation
  <1>6. CASE AttachFinishedCompilations
    BY <1>6 DEF AttachFinishedCompilations
  <1>7. CASE Cancel
    <2>1. PICK targets \in SUBSET IonTask : CancelOffThreadIonCompile(targets)
      BY <1>7 DEF Cancel
    <2>2. \A w \in Worker : w >= 1
      BY WorkerAssumption DEF Worker
    <2> QED
      BY <2>1, <2>2, ScanStep, Parameters DEF CancelOffThreadIonCompile
  <1>8. CASE ScheduleGC
    BY <1>8 DEF ScheduleGC
  <1>9. CASE GCSlice
    BY <1>9 DEF GCSlice, Slice, keepAtoms
  <1>10. CASE GCFinish
    BY <1>10 DEF GCFinish, Slice
  <1>11. CASE CancelWoken
    <2>1. \A w \in Worker : w >= cursor \/ w < cursor
      BY Parameters
    <2>2. target \cap ionWorklist = {} /\ UNCHANGED <<ionWorklist, target, workerPC, task>>
      BY <1>11 DEF CancelWoken
    <2>3. \A w \in Running("ion") : w < cursor => task[w] \notin target
      BY <1>11 DEF CancelWoken
    <2> QED
      BY <1>11, <2>1, <2>2, <2>3, ScanStep DEF CancelWoken
  <1>12. CASE CancelReturns
    BY <1>12 DEF CancelReturns
  <1>13. CASE EnqueuePendingParseTasksAfterGC
    BY <1>13 DEF EnqueuePendingParseTasksAfterGC
  <1>14. CASE WaitForOffThreadParsingToFinish
    BY <1>14 DEF WaitForOffThreadParsingToFinish, OnlyMainPC
  <1>15. CASE TerminateThread
    BY <1>15 DEF TerminateThread, OnlyMainPC
  <1>16. CASE JoinThread
    BY <1>16 DEF JoinThread, OnlyMainPC
  <1>17. CASE CleanUpParseTask
    BY <1>17 DEF CleanUpParseTask, finishParseTask
  <1>18. CASE CleanedUp
    BY <1>18 DEF CleanedUp, OnlyMainPC
  <1>19. CASE LastGC
    BY <1>19 DEF LastGC, Slice
  <1>20. CASE Destroy
    <2>1. \A w \in Worker : w >= 1
      BY WorkerAssumption DEF Worker
    <2> QED
      BY <1>20, <2>1, ScanStep, Parameters DEF Destroy, CancelOffThreadIonCompile
  <1>21. CASE Ended
    BY <1>21 DEF Ended, vars
  <1>22. CASE UNCHANGED vars
    BY <1>22 DEF vars
  <1> QED
    BY <1>1, <1>2, <1>3, <1>4, <1>5, <1>6, <1>7, <1>8, <1>9, <1>10, <1>11, <1>12, <1>13, <1>14,
        <1>15, <1>16, <1>17, <1>18, <1>19, <1>20, <1>21, <1>22 DEF Next, MainStep

\* A script moves on from one place to the next.
LEMMA ParseStep ==
    ASSUME ThreadType, ListType, TaskInv, ParseInv, [Next]_vars
    PROVE  ParseInv'
  <1> USE DEF Running, NotifyProducers, NotifyOneProducer, NotifyConsumers, Retest, Goto,
          OnlyClient, ionVars, parseVars, asmVars, workerVars, mainVars, MainFree, ThreadType,
          ListType, TaskInv, ParseInv, ClientPC, Client
  <1>1. ASSUME NEW w \in Worker, WorkerStep(w) PROVE ParseInv'
    <2>1. CASE BeginAsmJS(w)
      BY <2>1 DEF BeginAsmJS, canStartAsmJSCompile, Begin
    <2>2. CASE BeginIon(w)
      BY <2>2 DEF BeginIon, canStartIonCompile, Begin
    <2>3. CASE BeginParse(w)
      BY <2>3 DEF BeginParse, canStartParseTask, Begin
    <2>4. CASE BeginCompression(w)
      BY <2>4 DEF BeginCompression, Begin
    <2>5. CASE NoWork(w)
      BY <2>5 DEF NoWork, canStartIonCompile, canStartParseTask, canStartCompressionTask
    <2>6. CASE EndAsmJS(w)
      BY <2>6 DEF EndAsmJS, Finished
    <2>7. CASE EndIon(w)
      BY <2>7 DEF EndIon, Finished
    <2>8. CASE EndParse(w)
      BY <2>8 DEF EndParse, Finished
    <2>9. CASE EndCompression(w)
      BY <2>9 DEF EndCompression, Finished
    <2> QED
      BY <1>1, <2>1, <2>2, <2>3, <2>4, <2>5, <2>6, <2>7, <2>8, <2>9 DEF WorkerStep
  <1>2. ASSUME NEW c \in Client, ClientStep(c) PROVE ParseInv'
    <2>1. CASE SetSource(c)
      BY <2>1 DEF SetSource
    <2>2. CASE ParseAlone(c)
      BY <2>2 DEF ParseAlone
    <2>3. CASE ClaimParallelCompilation(c)
      BY <2>3 DEF ClaimParallelCompilation
    <2>4. CASE SubmitFunction(c)
      BY <2>4 DEF SubmitFunction, HasLifo
    <2>5. CASE NeedFinished(c)
      BY <2>5 DEF NeedFinished, HasLifo
    <2>6. CASE GetFinishedCompilation(c)
      BY <2>6 DEF GetFinishedCompilation
    <2>7. CASE CancelOutstandingJobs(c)
      BY <2>7 DEF CancelOutstandingJobs
    <2>8. CASE ReleaseParallelCompilation(c)
      BY <2>8 DEF ReleaseParallelCompilation
    <2>9. CASE CompleteCompression(c)
      BY <2>9 DEF CompleteCompression, compressionInProgress
    <2> QED
      BY <1>2, <2>1, <2>2, <2>3, <2>4, <2>5, <2>6, <2>7, <2>8, <2>9 DEF ClientStep
  <1>3. ASSUME NEW b \in IonTask, StartOffThreadIonCompile(b) PROVE ParseInv'
    BY <1>3 DEF StartOffThreadIonCompile
  <1>4. ASSUME NEW t \in ParseTask,
               StartOffThreadParseScript(t) \/ FinishOffThreadScript(t)
        PROVE  ParseInv'
    <2>1. CASE StartOffThreadParseScript(t)
      BY <2>1 DEF StartOffThreadParseScript, Submitted, activeGCInAtomsZone
    <2>2. CASE FinishOffThreadScript(t)
      BY <2>2 DEF FinishOffThreadScript, finishParseTask
    <2> QED
      BY <1>4, <2>1, <2>2
  <1>5. CASE StartCompilation
    BY <1>5, WorkerAssumption DEF StartCompilation
  <1>6. CASE AttachFinishedCompilations
    BY <1>6 DEF AttachFinishedCompilations
  <1>7. CASE Cancel
    BY <1>7 DEF Cancel, CancelOffThreadIonCompile, ScanThreads
  <1>8. CASE ScheduleGC
    BY <1>8 DEF ScheduleGC
  <1>9. CASE GCSlice
    BY <1>9 DEF GCSlice, Slice, keepAtoms
  <1>10. CASE GCFinish
    BY <1>10 DEF GCFinish, Slice
  <1>11. CASE CancelWoken
    BY <1>11 DEF CancelWoken, ScanThreads
  <1>12. CASE CancelReturns
    BY <1>12 DEF CancelReturns
  <1>13. CASE EnqueuePendingParseTasksAfterGC
    BY <1>13 DEF EnqueuePendingParseTasksAfterGC
  <1>14. CASE WaitForOffThreadParsingToFinish
    BY <1>14 DEF WaitForOffThreadParsingToFinish, OnlyMainPC
  <1>15. CASE TerminateThread
    BY <1>15 DEF TerminateThread, OnlyMainPC
  <1>16. CASE JoinThread
    BY <1>16 DEF JoinThread, OnlyMainPC
  <1>17. CASE CleanUpParseTask
    BY <1>17 DEF CleanUpParseTask, finishParseTask
  <1>18. CASE CleanedUp
    BY <1>18 DEF CleanedUp, OnlyMainPC
  <1>19. CASE LastGC
    BY <1>19 DEF LastGC, Slice
  <1>20. CASE Destroy
    BY <1>20 DEF Destroy, CancelOffThreadIonCompile, ScanThreads
  <1>21. CASE Ended
    BY <1>21 DEF Ended, vars
  <1>22. CASE UNCHANGED vars
    BY <1>22 DEF vars
  <1> QED
    BY <1>1, <1>2, <1>3, <1>4, <1>5, <1>6, <1>7, <1>8, <1>9, <1>10, <1>11, <1>12, <1>13, <1>14,
        <1>15, <1>16, <1>17, <1>18, <1>19, <1>20, <1>21, <1>22 DEF Next, MainStep

\* A compilation does not end before its compression.
LEMMA CompressionStep ==
    ASSUME ThreadType, ListType, TaskInv, ParseInv, CompressionInv, [Next]_vars
    PROVE  CompressionInv'
  <1> USE DEF Running, NotifyProducers, NotifyOneProducer, NotifyConsumers, Retest, Goto,
          OnlyClient, ionVars, parseVars, asmVars, workerVars, mainVars, MainFree, ThreadType,
          ListType, TaskInv, ParseInv, CompressionInv, ClientPC, Client
  <1>1. ASSUME NEW w \in Worker, WorkerStep(w) PROVE CompressionInv'
    <2>1. CASE BeginAsmJS(w)
      BY <2>1 DEF BeginAsmJS, canStartAsmJSCompile, Begin
    <2>2. CASE BeginIon(w)
      BY <2>2 DEF BeginIon, canStartIonCompile, Begin
    <2>3. CASE BeginParse(w)
      BY <2>3 DEF BeginParse, canStartParseTask, Begin
    <2>4. CASE BeginCompression(w)
      BY <2>4 DEF BeginCompression, Begin
    <2>5. CASE NoWork(w)
      BY <2>5 DEF NoWork, canStartIonCompile, canStartParseTask, canStartCompressionTask
    <2>6. CASE EndAsmJS(w)
      BY <2>6 DEF EndAsmJS, Finished
    <2>7. CASE EndIon(w)
      BY <2>7 DEF EndIon, Finished
    <2>8. CASE EndParse(w)
      BY <2>8 DEF EndParse, Finished
    <2>9. CASE EndCompression(w)
      BY <2>9 DEF EndCompression, Finished
    <2> QED
      BY <1>1, <2>1, <2>2, <2>3, <2>4, <2>5, <2>6, <2>7, <2>8, <2>9 DEF WorkerStep
  <1>2. ASSUME NEW c \in Client, ClientStep(c) PROVE CompressionInv'
    <2>1. CASE SetSource(c)
      BY <2>1 DEF SetSource
    <2>2. CASE ParseAlone(c)
      BY <2>2 DEF ParseAlone
    <2>3. CASE ClaimParallelCompilation(c)
      BY <2>3 DEF ClaimParallelCompilation
    <2>4. CASE SubmitFunction(c)
      BY <2>4 DEF SubmitFunction, HasLifo
    <2>5. CASE NeedFinished(c)
      BY <2>5 DEF NeedFinished, HasLifo
    <2>6. CASE GetFinishedCompilation(c)
      BY <2>6 DEF GetFinishedCompilation
    <2>7. CASE CancelOutstandingJobs(c)
      BY <2>7 DEF CancelOutstandingJobs
    <2>8. CASE ReleaseParallelCompilation(c)
      BY <2>8 DEF ReleaseParallelCompilation
    <2>9. CASE CompleteCompression(c)
      BY <2>9 DEF CompleteCompression, compressionInProgress
    <2> QED
      BY <1>2, <2>1, <2>2, <2>3, <2>4, <2>5, <2>6, <2>7, <2>8, <2>9 DEF ClientStep
  <1>3. ASSUME NEW b \in IonTask, StartOffThreadIonCompile(b) PROVE CompressionInv'
    BY <1>3 DEF StartOffThreadIonCompile
  <1>4. ASSUME NEW t \in ParseTask,
               StartOffThreadParseScript(t) \/ FinishOffThreadScript(t)
        PROVE  CompressionInv'
    <2>1. CASE StartOffThreadParseScript(t)
      BY <2>1 DEF StartOffThreadParseScript, Submitted, activeGCInAtomsZone
    <2>2. CASE FinishOffThreadScript(t)
      BY <2>2 DEF FinishOffThreadScript, finishParseTask
    <2> QED
      BY <1>4, <2>1, <2>2
  <1>5. CASE StartCompilation
    BY <1>5 DEF StartCompilation
  <1>6. CASE AttachFinishedCompilations
    BY <1>6 DEF AttachFinishedCompilations
  <1>7. CASE Cancel
    BY <1>7 DEF Cancel, CancelOffThreadIonCompile, ScanThreads
  <1>8. CASE ScheduleGC
    BY <1>8 DEF ScheduleGC
  <1>9. CASE GCSlice
    BY <1>9 DEF GCSlice, Slice, keepAtoms
  <1>10. CASE GCFinish
    BY <1>10 DEF GCFinish, Slice
  <1>11. CASE CancelWoken
    BY <1>11 DEF CancelWoken, ScanThreads
  <1>12. CASE CancelReturns
    BY <1>12 DEF CancelReturns
  <1>13. CASE EnqueuePendingParseTasksAfterGC
    BY <1>13 DEF EnqueuePendingParseTasksAfterGC
  <1>14. CASE WaitForOffThreadParsingToFinish
    BY <1>14 DEF WaitForOffThreadParsingToFinish, OnlyMainPC
  <1>15. CASE TerminateThread
    BY <1>15 DEF TerminateThread, OnlyMainPC
  <1>16. CASE JoinThread
    BY <1>16 DEF JoinThread, OnlyMainPC
  <1>17. CASE CleanUpParseTask
    BY <1>17 DEF CleanUpParseTask, finishParseTask
  <1>18. CASE CleanedUp
    BY <1>18 DEF CleanedUp, OnlyMainPC
  <1>19. CASE LastGC
    BY <1>19 DEF LastGC, Slice
  <1>20. CASE Destroy
    BY <1>20 DEF Destroy, CancelOffThreadIonCompile, ScanThreads
  <1>21. CASE Ended
    BY <1>21 DEF Ended, vars
  <1>22. CASE UNCHANGED vars
    BY <1>22 DEF vars
  <1> QED
    BY <1>1, <1>2, <1>3, <1>4, <1>5, <1>6, <1>7, <1>8, <1>9, <1>10, <1>11, <1>12, <1>13, <1>14,
        <1>15, <1>16, <1>17, <1>18, <1>19, <1>20, <1>21, <1>22 DEF Next, MainStep

\* A zone is marked before its script is queued, and is unmarked after its parse.
LEMMA AtomsStep ==
    ASSUME ThreadType, ListType, MainType, TaskInv, ParseInv, TokensAreFinished, AtomsInv,
           [Next]_vars
    PROVE  AtomsInv'
  <1> USE DEF Running, NotifyProducers, NotifyOneProducer, NotifyConsumers, Retest, Goto,
          OnlyClient, ionVars, parseVars, asmVars, workerVars, mainVars, MainFree, ThreadType,
          ListType, MainType, TaskInv, ParseInv, TokensAreFinished, AtomsInv
  <1>1. ASSUME NEW w \in Worker, WorkerStep(w) PROVE AtomsInv'
    <2>1. CASE BeginAsmJS(w)
      BY <2>1 DEF BeginAsmJS, canStartAsmJSCompile, Begin
    <2>2. CASE BeginIon(w)
      BY <2>2 DEF BeginIon, canStartIonCompile, Begin
    <2>3. CASE BeginParse(w)
      BY <2>3 DEF BeginParse, canStartParseTask, Begin
    <2>4. CASE BeginCompression(w)
      BY <2>4 DEF BeginCompression, Begin
    <2>5. CASE NoWork(w)
      BY <2>5 DEF NoWork, canStartIonCompile, canStartParseTask, canStartCompressionTask
    <2>6. CASE EndAsmJS(w)
      BY <2>6 DEF EndAsmJS, Finished
    <2>7. CASE EndIon(w)
      BY <2>7 DEF EndIon, Finished
    <2>8. CASE EndParse(w)
      BY <2>8 DEF EndParse, Finished
    <2>9. CASE EndCompression(w)
      BY <2>9 DEF EndCompression, Finished
    <2> QED
      BY <1>1, <2>1, <2>2, <2>3, <2>4, <2>5, <2>6, <2>7, <2>8, <2>9 DEF WorkerStep
  <1>2. ASSUME NEW c \in Client, ClientStep(c) PROVE AtomsInv'
    <2>1. CASE SetSource(c)
      BY <2>1 DEF SetSource
    <2>2. CASE ParseAlone(c)
      BY <2>2 DEF ParseAlone
    <2>3. CASE ClaimParallelCompilation(c)
      BY <2>3 DEF ClaimParallelCompilation
    <2>4. CASE SubmitFunction(c)
      BY <2>4 DEF SubmitFunction, HasLifo
    <2>5. CASE NeedFinished(c)
      BY <2>5 DEF NeedFinished, HasLifo
    <2>6. CASE GetFinishedCompilation(c)
      BY <2>6 DEF GetFinishedCompilation
    <2>7. CASE CancelOutstandingJobs(c)
      BY <2>7 DEF CancelOutstandingJobs
    <2>8. CASE ReleaseParallelCompilation(c)
      BY <2>8 DEF ReleaseParallelCompilation
    <2>9. CASE CompleteCompression(c)
      BY <2>9 DEF CompleteCompression, compressionInProgress
    <2> QED
      BY <1>2, <2>1, <2>2, <2>3, <2>4, <2>5, <2>6, <2>7, <2>8, <2>9 DEF ClientStep
  <1>3. ASSUME NEW b \in IonTask, StartOffThreadIonCompile(b) PROVE AtomsInv'
    BY <1>3 DEF StartOffThreadIonCompile
  <1>4. ASSUME NEW t \in ParseTask,
               StartOffThreadParseScript(t) \/ FinishOffThreadScript(t)
        PROVE  AtomsInv'
    <2>1. CASE StartOffThreadParseScript(t)
      BY <2>1 DEF StartOffThreadParseScript, Submitted, activeGCInAtomsZone
    <2>2. CASE FinishOffThreadScript(t)
      BY <2>2 DEF FinishOffThreadScript, finishParseTask
    <2> QED
      BY <1>4, <2>1, <2>2
  <1>5. CASE StartCompilation
    BY <1>5 DEF StartCompilation
  <1>6. CASE AttachFinishedCompilations
    BY <1>6 DEF AttachFinishedCompilations
  <1>7. CASE Cancel
    BY <1>7 DEF Cancel, CancelOffThreadIonCompile, ScanThreads
  <1>8. CASE ScheduleGC
    BY <1>8 DEF ScheduleGC
  <1>9. CASE GCSlice
    BY <1>9 DEF GCSlice, Slice, keepAtoms
  <1>10. CASE GCFinish
    BY <1>10 DEF GCFinish, Slice
  <1>11. CASE CancelWoken
    BY <1>11 DEF CancelWoken, ScanThreads
  <1>12. CASE CancelReturns
    BY <1>12 DEF CancelReturns
  <1>13. CASE EnqueuePendingParseTasksAfterGC
    BY <1>13 DEF EnqueuePendingParseTasksAfterGC
  <1>14. CASE WaitForOffThreadParsingToFinish
    BY <1>14 DEF WaitForOffThreadParsingToFinish, OnlyMainPC
  <1>15. CASE TerminateThread
    BY <1>15 DEF TerminateThread, OnlyMainPC
  <1>16. CASE JoinThread
    BY <1>16 DEF JoinThread, OnlyMainPC
  <1>17. CASE CleanUpParseTask
    BY <1>17 DEF CleanUpParseTask, finishParseTask
  <1>18. CASE CleanedUp
    BY <1>18 DEF CleanedUp, OnlyMainPC
  <1>19. CASE LastGC
    BY <1>19 DEF LastGC, Slice
  <1>20. CASE Destroy
    BY <1>20 DEF Destroy, CancelOffThreadIonCompile, ScanThreads
  <1>21. CASE Ended
    BY <1>21 DEF Ended, vars
  <1>22. CASE UNCHANGED vars
    BY <1>22 DEF vars
  <1> QED
    BY <1>1, <1>2, <1>3, <1>4, <1>5, <1>6, <1>7, <1>8, <1>9, <1>10, <1>11, <1>12, <1>13, <1>14,
        <1>15, <1>16, <1>17, <1>18, <1>19, <1>20, <1>21, <1>22 DEF Next, MainStep

\* The callback is invoked as the token is queued, which only leaves to be collected.
LEMMA TokensStep ==
    ASSUME TokensAreFinished, [Next]_vars
    PROVE  TokensAreFinished'
  <1> USE DEF Running, NotifyProducers, NotifyOneProducer, NotifyConsumers, Retest, Goto,
          OnlyClient, ionVars, parseVars, asmVars, workerVars, mainVars, MainFree,
          TokensAreFinished
  <1>1. ASSUME NEW w \in Worker, WorkerStep(w) PROVE TokensAreFinished'
    <2>1. CASE BeginAsmJS(w)
      BY <2>1 DEF BeginAsmJS, canStartAsmJSCompile, Begin
    <2>2. CASE BeginIon(w)
      BY <2>2 DEF BeginIon, canStartIonCompile, Begin
    <2>3. CASE BeginParse(w)
      BY <2>3 DEF BeginParse, canStartParseTask, Begin
    <2>4. CASE BeginCompression(w)
      BY <2>4 DEF BeginCompression, Begin
    <2>5. CASE NoWork(w)
      BY <2>5 DEF NoWork, canStartIonCompile, canStartParseTask, canStartCompressionTask
    <2>6. CASE EndAsmJS(w)
      BY <2>6 DEF EndAsmJS, Finished
    <2>7. CASE EndIon(w)
      BY <2>7 DEF EndIon, Finished
    <2>8. CASE EndParse(w)
      BY <2>8 DEF EndParse, Finished
    <2>9. CASE EndCompression(w)
      BY <2>9 DEF EndCompression, Finished
    <2> QED
      BY <1>1, <2>1, <2>2, <2>3, <2>4, <2>5, <2>6, <2>7, <2>8, <2>9 DEF WorkerStep
  <1>2. ASSUME NEW c \in Client, ClientStep(c) PROVE TokensAreFinished'
    <2>1. CASE SetSource(c)
      BY <2>1 DEF SetSource
    <2>2. CASE ParseAlone(c)
      BY <2>2 DEF ParseAlone
    <2>3. CASE ClaimParallelCompilation(c)
      BY <2>3 DEF ClaimParallelCompilation
    <2>4. CASE SubmitFunction(c)
      BY <2>4 DEF SubmitFunction, HasLifo
    <2>5. CASE NeedFinished(c)
      BY <2>5 DEF NeedFinished, HasLifo
    <2>6. CASE GetFinishedCompilation(c)
      BY <2>6 DEF GetFinishedCompilation
    <2>7. CASE CancelOutstandingJobs(c)
      BY <2>7 DEF CancelOutstandingJobs
    <2>8. CASE ReleaseParallelCompilation(c)
      BY <2>8 DEF ReleaseParallelCompilation
    <2>9. CASE CompleteCompression(c)
      BY <2>9 DEF CompleteCompression, compressionInProgress
    <2> QED
      BY <1>2, <2>1, <2>2, <2>3, <2>4, <2>5, <2>6, <2>7, <2>8, <2>9 DEF ClientStep
  <1>3. ASSUME NEW b \in IonTask, StartOffThreadIonCompile(b) PROVE TokensAreFinished'
    BY <1>3 DEF StartOffThreadIonCompile
  <1>4. ASSUME NEW t \in ParseTask,
               StartOffThreadParseScript(t) \/ FinishOffThreadScript(t)
        PROVE  TokensAreFinished'
    <2>1. CASE StartOffThreadParseScript(t)
      BY <2>1 DEF StartOffThreadParseScript, Submitted, activeGCInAtomsZone
    <2>2. CASE FinishOffThreadScript(t)
      BY <2>2 DEF FinishOffThreadScript, finishParseTask
    <2> QED
      BY <1>4, <2>1, <2>2
  <1>5. CASE StartCompilation
    BY <1>5 DEF StartCompilation
  <1>6. CASE AttachFinishedCompilations
    BY <1>6 DEF AttachFinishedCompilations
  <1>7. CASE Cancel
    BY <1>7 DEF Cancel, CancelOffThreadIonCompile, ScanThreads
  <1>8. CASE ScheduleGC
    BY <1>8 DEF ScheduleGC
  <1>9. CASE GCSlice
    BY <1>9 DEF GCSlice, Slice, keepAtoms
  <1>10. CASE GCFinish
    BY <1>10 DEF GCFinish, Slice
  <1>11. CASE CancelWoken
    BY <1>11 DEF CancelWoken, ScanThreads
  <1>12. CASE CancelReturns
    BY <1>12 DEF CancelReturns
  <1>13. CASE EnqueuePendingParseTasksAfterGC
    BY <1>13 DEF EnqueuePendingParseTasksAfterGC
  <1>14. CASE WaitForOffThreadParsingToFinish
    BY <1>14 DEF WaitForOffThreadParsingToFinish, OnlyMainPC
  <1>15. CASE TerminateThread
    BY <1>15 DEF TerminateThread, OnlyMainPC
  <1>16. CASE JoinThread
    BY <1>16 DEF JoinThread, OnlyMainPC
  <1>17. CASE CleanUpParseTask
    BY <1>17 DEF CleanUpParseTask, finishParseTask
  <1>18. CASE CleanedUp
    BY <1>18 DEF CleanedUp, OnlyMainPC
  <1>19. CASE LastGC
    BY <1>19 DEF LastGC, Slice
  <1>20. CASE Destroy
    BY <1>20 DEF Destroy, CancelOffThreadIonCompile, ScanThreads
  <1>21. CASE Ended
    BY <1>21 DEF Ended, vars
  <1>22. CASE UNCHANGED vars
    BY <1>22 DEF vars
  <1> QED
    BY <1>1, <1>2, <1>3, <1>4, <1>5, <1>6, <1>7, <1>8, <1>9, <1>10, <1>11, <1>12, <1>13, <1>14,
        <1>15, <1>16, <1>17, <1>18, <1>19, <1>20, <1>21, <1>22 DEF Next, MainStep

-----------------------------------------------------------------------------
(* Parallel asm.js compilation.                                            *)

\* A compilation has the claim from CheckFunctionsParallel()'s begin to its end.
LEMMA OwnerStep ==
    ASSUME ThreadType, ListType, TaskInv, ParseInv, OwnerInv, [Next]_vars
    PROVE  OwnerInv'
  <1> USE DEF Running, NotifyProducers, NotifyOneProducer, NotifyConsumers, Retest, Goto,
          OnlyClient, ionVars, parseVars, asmVars, workerVars, mainVars, MainFree, ThreadType,
          ListType, TaskInv, ParseInv, OwnerInv, ClientPC, Client, AsmPC
  <1>1. ASSUME NEW w \in Worker, WorkerStep(w) PROVE OwnerInv'
    <2>1. CASE BeginAsmJS(w)
      BY <2>1 DEF BeginAsmJS, canStartAsmJSCompile, Begin
    <2>2. CASE BeginIon(w)
      BY <2>2 DEF BeginIon, canStartIonCompile, Begin
    <2>3. CASE BeginParse(w)
      BY <2>3 DEF BeginParse, canStartParseTask, Begin
    <2>4. CASE BeginCompression(w)
      BY <2>4 DEF BeginCompression, Begin
    <2>5. CASE NoWork(w)
      BY <2>5 DEF NoWork, canStartIonCompile, canStartParseTask, canStartCompressionTask
    <2>6. CASE EndAsmJS(w)
      BY <2>6 DEF EndAsmJS, Finished
    <2>7. CASE EndIon(w)
      BY <2>7 DEF EndIon, Finished
    <2>8. CASE EndParse(w)
      BY <2>8 DEF EndParse, Finished
    <2>9. CASE EndCompression(w)
      BY <2>9 DEF EndCompression, Finished
    <2> QED
      BY <1>1, <2>1, <2>2, <2>3, <2>4, <2>5, <2>6, <2>7, <2>8, <2>9 DEF WorkerStep
  <1>2. ASSUME NEW c \in Client, ClientStep(c) PROVE OwnerInv'
    <2>1. CASE SetSource(c)
      BY <2>1 DEF SetSource
    <2>2. CASE ParseAlone(c)
      BY <2>2 DEF ParseAlone
    <2>3. CASE ClaimParallelCompilation(c)
      BY <2>3, NoTaskIsNoClient DEF ClaimParallelCompilation
    <2>4. CASE SubmitFunction(c)
      BY <2>4 DEF SubmitFunction, HasLifo
    <2>5. CASE NeedFinished(c)
      BY <2>5 DEF NeedFinished, HasLifo
    <2>6. CASE GetFinishedCompilation(c)
      BY <2>6 DEF GetFinishedCompilation
    <2>7. CASE CancelOutstandingJobs(c)
      BY <2>7 DEF CancelOutstandingJobs
    <2>8. CASE ReleaseParallelCompilation(c)
      BY <2>8, NoTaskIsNoClient DEF ReleaseParallelCompilation
    <2>9. CASE CompleteCompression(c)
      BY <2>9 DEF CompleteCompression, compressionInProgress
    <2> QED
      BY <1>2, <2>1, <2>2, <2>3, <2>4, <2>5, <2>6, <2>7, <2>8, <2>9 DEF ClientStep
  <1>3. ASSUME NEW b \in IonTask, StartOffThreadIonCompile(b) PROVE OwnerInv'
    BY <1>3 DEF StartOffThreadIonCompile
  <1>4. ASSUME NEW t \in ParseTask,
               StartOffThreadParseScript(t) \/ FinishOffThreadScript(t)
        PROVE  OwnerInv'
    <2>1. CASE StartOffThreadParseScript(t)
      BY <2>1 DEF StartOffThreadParseScript, Submitted, activeGCInAtomsZone
    <2>2. CASE FinishOffThreadScript(t)
      BY <2>2 DEF FinishOffThreadScript, finishParseTask
    <2> QED
      BY <1>4, <2>1, <2>2
  <1>5. CASE StartCompilation
    BY <1>5 DEF StartCompilation
  <1>6. CASE AttachFinishedCompilations
    BY <1>6 DEF AttachFinishedCompilations
  <1>7. CASE Cancel
    BY <1>7 DEF Cancel, CancelOffThreadIonCompile, ScanThreads
  <1>8. CASE ScheduleGC
    BY <1>8 DEF ScheduleGC
  <1>9. CASE GCSlice
    BY <1>9 DEF GCSlice, Slice, keepAtoms
  <1>10. CASE GCFinish
    BY <1>10 DEF GCFinish, Slice
  <1>11. CASE CancelWoken
    BY <1>11 DEF CancelWoken, ScanThreads
  <1>12. CASE CancelReturns
    BY <1>12 DEF CancelReturns
  <1>13. CASE EnqueuePendingParseTasksAfterGC
    BY <1>13 DEF EnqueuePendingParseTasksAfterGC
  <1>14. CASE WaitForOffThreadParsingToFinish
    BY <1>14 DEF WaitForOffThreadParsingToFinish, OnlyMainPC
  <1>15. CASE TerminateThread
    BY <1>15 DEF TerminateThread, OnlyMainPC
  <1>16. CASE JoinThread
    BY <1>16 DEF JoinThread, OnlyMainPC
  <1>17. CASE CleanUpParseTask
    BY <1>17 DEF CleanUpParseTask, finishParseTask
  <1>18. CASE CleanedUp
    BY <1>18 DEF CleanedUp, OnlyMainPC
  <1>19. CASE LastGC
    BY <1>19 DEF LastGC, Slice
  <1>20. CASE Destroy
    BY <1>20 DEF Destroy, CancelOffThreadIonCompile, ScanThreads
  <1>21. CASE Ended
    BY <1>21 DEF Ended, vars
  <1>22. CASE UNCHANGED vars
    BY <1>22 DEF vars
  <1> QED
    BY <1>1, <1>2, <1>3, <1>4, <1>5, <1>6, <1>7, <1>8, <1>9, <1>10, <1>11, <1>12, <1>13, <1>14,
        <1>15, <1>16, <1>17, <1>18, <1>19, <1>20, <1>21, <1>22 DEF Next, MainStep

\* A step of a client of asm.js.
AsmClientStep(c) ==
    \/ ClaimParallelCompilation(c) \/ SubmitFunction(c) \/ GetFinishedCompilation(c)
    \/ CancelOutstandingJobs(c) \/ ReleaseParallelCompilation(c)

\* The workers that compile asm.js are the same ones, and nothing is counted.
SameCompilers == Running("asmJS")' = Running("asmJS")
AsmFrame == SameCompilers /\ UNCHANGED asmVars

\* The steps that the counters of asm.js see.
AsmStep ==
    \/ \E w \in Worker : BeginAsmJS(w) \/ EndAsmJS(w)
    \/ \E c \in Client : AsmClientStep(c) /\ SameCompilers
    \/ AsmFrame

\* Every other step leaves the counters alone and no worker begins or ends a
\* function.
LEMMA AsmCases ==
    ASSUME ThreadType, [Next]_vars
    PROVE  AsmStep
  <1> USE DEF Running, NotifyProducers, NotifyOneProducer, OnlyClient, asmVars, workerVars,
          ThreadType, WorkerPC, AsmStep, AsmFrame, SameCompilers
  <1>1. ASSUME NEW w \in Worker, WorkerStep(w) PROVE AsmStep
    <2>1. CASE BeginAsmJS(w)
      BY <2>1
    <2>2. CASE BeginIon(w)
      BY <2>2 DEF BeginIon, canStartIonCompile, Begin
    <2>3. CASE BeginParse(w)
      BY <2>3 DEF BeginParse, canStartParseTask, Begin
    <2>4. CASE BeginCompression(w)
      BY <2>4 DEF BeginCompression, Begin
    <2>5. CASE NoWork(w)
      BY <2>5 DEF NoWork, canStartIonCompile, canStartParseTask, canStartCompressionTask
    <2>6. CASE EndAsmJS(w)
      BY <2>6
    <2>7. CASE EndIon(w)
      BY <2>7 DEF EndIon, Finished
    <2>8. CASE EndParse(w)
      BY <2>8 DEF EndParse, Finished
    <2>9. CASE EndCompression(w)
      BY <2>9 DEF EndCompression, Finished
    <2> QED
      BY <1>1, <2>1, <2>2, <2>3, <2>4, <2>5, <2>6, <2>7, <2>8, <2>9 DEF WorkerStep
  <1>2. ASSUME NEW c \in Client, ClientStep(c) PROVE AsmStep
    <2>1. CASE SetSource(c)
      BY <2>1 DEF SetSource
    <2>2. CASE ParseAlone(c)
      BY <2>2 DEF ParseAlone
    <2>3. CASE ClaimParallelCompilation(c)
      <3>1. SameCompilers
        BY <2>3 DEF ClaimParallelCompilation
      <3> QED
        BY <2>3, <3>1 DEF AsmClientStep
    <2>4. CASE SubmitFunction(c)
      <3>1. SameCompilers
        BY <2>4 DEF SubmitFunction
      <3> QED
        BY <2>4, <3>1 DEF AsmClientStep
    <2>5. CASE NeedFinished(c)
      BY <2>5 DEF NeedFinished, HasLifo
    <2>6. CASE GetFinishedCompilation(c)
      <3>1. SameCompilers
        BY <2>6 DEF GetFinishedCompilation
      <3> QED
        BY <2>6, <3>1 DEF AsmClientStep
    <2>7. CASE CancelOutstandingJobs(c)
      <3>1. SameCompilers
        BY <2>7 DEF CancelOutstandingJobs
      <3> QED
        BY <2>7, <3>1 DEF AsmClientStep
    <2>8. CASE ReleaseParallelCompilation(c)
      <3>1. SameCompilers
        BY <2>8 DEF ReleaseParallelCompilation
      <3> QED
        BY <2>8, <3>1 DEF AsmClientStep
    <2>9. CASE CompleteCompression(c)
      BY <2>9 DEF CompleteCompression, compressionInProgress
    <2> QED
      BY <1>2, <2>1, <2>2, <2>3, <2>4, <2>5, <2>6, <2>7, <2>8, <2>9 DEF ClientStep
  <1>3. ASSUME NEW b \in IonTask, StartOffThreadIonCompile(b) PROVE AsmStep
    BY <1>3 DEF StartOffThreadIonCompile
  <1>4. ASSUME NEW t \in ParseTask,
               StartOffThreadParseScript(t) \/ FinishOffThreadScript(t)
        PROVE  AsmStep
    <2>1. CASE StartOffThreadParseScript(t)
      BY <2>1 DEF StartOffThreadParseScript, Submitted, activeGCInAtomsZone
    <2>2. CASE FinishOffThreadScript(t)
      BY <2>2 DEF FinishOffThreadScript, finishParseTask
    <2> QED
      BY <1>4, <2>1, <2>2
  <1>5. CASE StartCompilation
    BY <1>5 DEF StartCompilation
  <1>6. CASE AttachFinishedCompilations
    BY <1>6 DEF AttachFinishedCompilations
  <1>7. CASE Cancel
    BY <1>7 DEF Cancel, CancelOffThreadIonCompile, ScanThreads
  <1>8. CASE ScheduleGC
    BY <1>8 DEF ScheduleGC
  <1>9. CASE GCSlice
    BY <1>9 DEF GCSlice, Slice, keepAtoms
  <1>10. CASE GCFinish
    BY <1>10 DEF GCFinish, Slice
  <1>11. CASE CancelWoken
    BY <1>11 DEF CancelWoken, ScanThreads
  <1>12. CASE CancelReturns
    BY <1>12 DEF CancelReturns
  <1>13. CASE EnqueuePendingParseTasksAfterGC
    BY <1>13 DEF EnqueuePendingParseTasksAfterGC
  <1>14. CASE WaitForOffThreadParsingToFinish
    BY <1>14 DEF WaitForOffThreadParsingToFinish, OnlyMainPC
  <1>15. CASE TerminateThread
    BY <1>15 DEF TerminateThread, OnlyMainPC
  <1>16. CASE JoinThread
    BY <1>16 DEF JoinThread, OnlyMainPC
  <1>17. CASE CleanUpParseTask
    BY <1>17 DEF CleanUpParseTask, finishParseTask
  <1>18. CASE CleanedUp
    BY <1>18 DEF CleanedUp, OnlyMainPC
  <1>19. CASE LastGC
    BY <1>19 DEF LastGC, Slice
  <1>20. CASE Destroy
    BY <1>20 DEF Destroy, CancelOffThreadIonCompile, ScanThreads
  <1>21. CASE Ended
    BY <1>21 DEF Ended, vars
  <1>22. CASE UNCHANGED vars
    BY <1>22 DEF vars
  <1> QED
    BY <1>1, <1>2, <1>3, <1>4, <1>5, <1>6, <1>7, <1>8, <1>9, <1>10, <1>11, <1>12, <1>13, <1>14,
        <1>15, <1>16, <1>17, <1>18, <1>19, <1>20, <1>21, <1>22 DEF Next, MainStep

\* Beginning a function adds a worker to those that compile one, and ending it
\* takes the worker away.
LEMMA CompilersCount ==
    ASSUME ThreadType, NEW w \in Worker
    PROVE  /\ BeginAsmJS(w) => Cardinality(Running("asmJS"))' = Cardinality(Running("asmJS")) + 1
           /\ EndAsmJS(w) => Cardinality(Running("asmJS"))' = Cardinality(Running("asmJS")) - 1
  <1> DEFINE R == Running("asmJS")
  <1>0. IsFiniteSet(R) /\ Cardinality(R) \in Nat
    BY RunningIsFinite
  <1>1. ASSUME BeginAsmJS(w) PROVE R' = R \cup {w} /\ w \notin R
    BY <1>1 DEF BeginAsmJS, Begin, Running, ThreadType
  <1>2. ASSUME EndAsmJS(w) PROVE R' = R \ {w} /\ w \in R
    BY <1>2 DEF EndAsmJS, Finished, Running, ThreadType
  <1>3. Cardinality(R)' = Cardinality(R')
    OBVIOUS
  <1> HIDE DEF R
  <1>4. ASSUME BeginAsmJS(w) PROVE Cardinality(R') = Cardinality(R) + 1
    BY <1>0, <1>1, <1>4, FS_AddElement
  <1>5. ASSUME EndAsmJS(w) PROVE Cardinality(R') = Cardinality(R) - 1
    BY <1>0, <1>2, <1>5, FS_RemoveElement
  <1> QED
    BY <1>3, <1>4, <1>5 DEF R

\* What a step of asm.js does to the counters and to the workers that compile.
LEMMA CountStep ==
    ASSUME ThreadType, MainType, CountType, OwnerInv, CountInv, LifoInv, [Next]_vars
    PROVE  CountType' /\ CountInv' /\ LifoInv'
  <1> DEFINE n == Cardinality(Running("asmJS"))
  <1>0. n \in Nat
    BY RunningIsFinite
  <1>s. SameCompilers => n' = n
    BY DEF SameCompilers
  <1>p. AsmJobs \in Nat /\ numParallelJobs \in Nat /\ numParallelJobs >= 1
    BY WorkerAssumption DEF numParallelJobs
  <1>1. ASSUME NEW w \in Worker, BeginAsmJS(w) PROVE CountType' /\ CountInv' /\ LifoInv'
    <2>1. n' = n + 1
      BY <1>1, CompilersCount
    <2> HIDE DEF n
    <2> QED
      BY <1>0, <1>1, <1>p, <2>1 DEF BeginAsmJS, canStartAsmJSCompile, CountType, CountInv, LifoInv, n
  <1>2. ASSUME NEW w \in Worker, EndAsmJS(w) PROVE CountType' /\ CountInv' /\ LifoInv'
    <2>1. n' = n - 1
      BY <1>2, CompilersCount
    <2> HIDE DEF n
    <2> QED
      BY <1>0, <1>2, <1>p, <2>1 DEF EndAsmJS, CountType, CountInv, LifoInv, n
  <1>3. ASSUME NEW c \in Client, ClaimParallelCompilation(c), SameCompilers
        PROVE  CountType' /\ CountInv' /\ LifoInv'
    <2> HIDE DEF n
    <2> QED
      BY <1>0, <1>s, <1>3, <1>p, NoTaskIsNoClient
         DEF ClaimParallelCompilation, MainType, CountType, CountInv, LifoInv, OwnerInv, AsmPC, n
  <1>4. ASSUME NEW c \in Client, SubmitFunction(c), SameCompilers
        PROVE  CountType' /\ CountInv' /\ LifoInv'
    <2>1. n' = n
      BY <1>4, <1>s
    <2>2. asmOwner # NoTask /\ UNCHANGED asmOwner
      BY <1>4, NoTaskIsNoClient DEF SubmitFunction, OwnerInv, AsmPC
    <2> HIDE DEF n
    <2>3. CASE UNCHANGED <<asmJSWorklist, outstandingJobs, dispatched, haveTask>>
      BY <1>0, <1>4, <2>1, <2>2, <2>3 DEF SubmitFunction, CountType, CountInv, LifoInv, n
    <2>4. CASE /\ asmJSWorklist' = asmJSWorklist + 1 /\ outstandingJobs' = outstandingJobs + 1
               /\ dispatched' = dispatched + 1 /\ haveTask' = FALSE
      <3>1. CountType' /\ CountInv'
        BY <1>0, <1>4, <2>1, <2>2, <2>4 DEF SubmitFunction, CountType, CountInv, n
      <3>2. dispatched' <= AsmJobs
        BY <1>4, <1>p, <2>4 DEF SubmitFunction, CountType
      <3>3. CASE haveTask
        BY <1>p, <2>4, <3>1, <3>2, <3>3 DEF CountType, LifoInv
      <3>4. CASE ~haveTask
        <4>1. dispatched < numParallelJobs
          BY <1>4, <3>4 DEF SubmitFunction, HasLifo
        <4> QED
          BY <1>p, <2>4, <3>1, <3>2, <3>4, <4>1 DEF CountType, LifoInv
      <3> QED
        BY <3>3, <3>4
    <2> QED
      BY <1>4, <2>3, <2>4 DEF SubmitFunction
  <1>5. ASSUME NEW c \in Client, GetFinishedCompilation(c), SameCompilers
        PROVE  CountType' /\ CountInv' /\ LifoInv'
    <2> HIDE DEF n
    <2> QED
      BY <1>0, <1>s, <1>5, <1>p
         DEF GetFinishedCompilation, MainType, CountType, CountInv, LifoInv, OwnerInv, AsmPC, n
  <1>6. ASSUME NEW c \in Client, CancelOutstandingJobs(c), SameCompilers
        PROVE  CountType' /\ CountInv' /\ LifoInv'
    <2> HIDE DEF n
    <2> QED
      BY <1>0, <1>s, <1>6, <1>p
         DEF CancelOutstandingJobs, MainType, CountType, CountInv, LifoInv, OwnerInv, AsmPC, n
  <1>7. ASSUME NEW c \in Client, ReleaseParallelCompilation(c), SameCompilers
        PROVE  CountType' /\ CountInv' /\ LifoInv'
    <2> HIDE DEF n
    <2> QED
      BY <1>0, <1>s, <1>7, <1>p
         DEF ReleaseParallelCompilation, MainType, CountType, CountInv, LifoInv, OwnerInv, AsmPC, n
  <1>8. ASSUME AsmFrame PROVE CountType' /\ CountInv' /\ LifoInv'
    BY <1>s, <1>8 DEF AsmFrame, asmVars, CountType, CountInv, LifoInv
  <1> QED
    BY <1>1, <1>2, <1>3, <1>4, <1>5, <1>6, <1>7, <1>8, AsmCases DEF AsmStep, AsmClientStep

-----------------------------------------------------------------------------
(* The invariant, and what it implies.                                     *)

\* At first the threads look for work and there is none.
LEMMA InvInit == Init => IInv
  <1> SUFFICES ASSUME Init PROVE IInv
    OBVIOUS
  <1>1. ThreadType
    BY DEF Init, ThreadType, WorkerPC, ClientPC
  <1>2. ListType /\ MainType
    <2>1. ListType
      BY DEF Init, ListType
    <2>2. cancels \in 0..MaxCancels /\ slices \in 0..MaxSlices
      BY Parameters DEF Init
    <2> QED
      BY <2>1, <2>2, Parameters DEF Init, MainType, MainPC
  <1>3. CountType
    BY DEF Init, CountType
  <1>4. TaskInv /\ CancelInv /\ CompressionInv /\ AtomsInv /\ TokensAreFinished
    BY DEF Init, TaskInv, CancelInv, CompressionInv, AtomsInv, TokensAreFinished, Running
  <1>5. ParseInv
    BY DEF Init, ParseInv, Running, Client
  <1>6. OwnerInv
    BY NoTaskIsNoClient DEF Init, OwnerInv, AsmPC
  <1>7. CountInv
    <2>1. Running("asmJS") = {}
      BY DEF Init, Running
    <2>2. Cardinality(Running("asmJS")) = 0
      BY <2>1, FS_EmptySet
    <2> QED
      BY <2>2 DEF Init, CountInv
  <1>8. LifoInv
    BY WorkerAssumption DEF Init, LifoInv, numParallelJobs
  <1> QED
    BY <1>1, <1>2, <1>3, <1>4, <1>5, <1>6, <1>7, <1>8 DEF IInv

\* The invariant is inductive.
LEMMA InvNext == IInv /\ [Next]_vars => IInv'
  <1> SUFFICES ASSUME IInv, [Next]_vars PROVE IInv'
    OBVIOUS
  <1> USE DEF IInv
  <1>1. ThreadType' /\ ListType' /\ MainType'
    BY ThreadStep, ListStep, MainStepType
  <1>2. TaskInv' /\ CancelInv' /\ ParseInv'
    BY TaskStep, CancelStep, ParseStep
  <1>3. CompressionInv' /\ AtomsInv' /\ TokensAreFinished'
    BY CompressionStep, AtomsStep, TokensStep
  <1>4. OwnerInv'
    BY OwnerStep
  <1>5. CountType' /\ CountInv' /\ LifoInv'
    BY CountStep
  <1> QED
    BY <1>1, <1>2, <1>3, <1>4, <1>5

\* IInv holds in every reachable state, whatever the number of threads, builders,
\* scripts and functions.
THEOREM Invariant == Spec => []IInv
  BY InvInit, InvNext, PTL DEF Spec

\* The program counters, the tasks and the lists have their types, and no counter
\* of asm.js exceeds the functions of a module.
THEOREM TypeCorrect == Spec => []TypeOK
  <1>1. IInv => TypeOK
    <2> SUFFICES ASSUME IInv PROVE TypeOK
      OBVIOUS
    <2> DEFINE n == Cardinality(Running("asmJS"))
    <2>1. n \in Nat
      BY RunningIsFinite
    <2> HIDE DEF n
    <2>2. /\ asmJSWorklist \in 0..AsmJobs /\ asmJSFinishedList \in 0..AsmJobs
          /\ numAsmJSFailedJobs \in 0..AsmJobs /\ dispatched \in 0..AsmJobs
          /\ outstandingJobs \in 0..AsmJobs
      BY <2>1, Parameters DEF IInv, CountType, CountInv, LifoInv, n
    <2>3. \A s \in {parseWorklist, parseFinishedList, parseWaitingOnGC, called, collected,
                    usedByExclusiveThread} : s \subseteq ParseTask
      BY DEF IInv, ListType
    <2> QED
      BY <2>2, <2>3 DEF IInv, ThreadType, ListType, MainType, TypeOK
  <1> QED
    BY <1>1, Invariant, PTL

\* Nothing of a cancelled compilation is left when CancelOffThreadIonCompile()
\* returns, so that its caller may free the script's code.
THEOREM Cancellation == Spec => []CancelIsComplete
  <1>1. IInv => CancelIsComplete
    BY DEF IInv, CancelInv, CancelIsComplete
  <1> QED
    BY <1>1, Invariant, PTL

\* No worker and no list refers to the SourceCompressionTask of a compilation that
\* is over, whose stack frame held it.
THEOREM CompressionEnds == Spec => []CompressionIsOver
  <1>1. IInv => CompressionIsOver
    BY DEF IInv, CompressionInv, CompressionIsOver
  <1> QED
    BY <1>1, Invariant, PTL

\* outstandingJobs counts what the workers can reach, and CheckFunctionsParallel()
\* gives up its claim only when that is nothing.
THEOREM OutstandingJobs == Spec => []OutstandingJobsExact
  <1>1. IInv => OutstandingJobsExact
    <2> SUFFICES ASSUME IInv PROVE OutstandingJobsExact
      OBVIOUS
    <2> DEFINE n == Cardinality(Running("asmJS"))
    <2>1. n \in Nat
      BY RunningIsFinite
    <2> HIDE DEF n
    <2> QED
      BY <2>1 DEF IInv, CountType, CountInv, OutstandingJobsExact, n
  <1> QED
    BY <1>1, Invariant, PTL

\* At most numParallelJobs functions have a LifoAlloc at a time, so that
\* CheckFunction() never wants one more than were made.
THEOREM Lifos == Spec => []LifosSuffice
  <1>1. IInv => LifosSuffice
    BY DEF IInv, LifoInv, LifosSuffice
  <1> QED
    BY <1>1, Invariant, PTL

\* The token of a script whose callback was called is in the finished list until
\* the embedder, or the destruction of the runtime, collects it.
THEOREM Tokens == Spec => []TokensAreFinished
  <1>1. IInv => TokensAreFinished
    BY DEF IInv
  <1> QED
    BY <1>1, Invariant, PTL

\* No script is parsed, or can be, while the atoms are collected.
THEOREM AtomsGC == Spec => []AtomsGCExcludesParsing
  <1>1. IInv => AtomsGCExcludesParsing
    BY DEF IInv, AtomsInv, AtomsGCExcludesParsing, Running
  <1> QED
    BY <1>1, Invariant, PTL

-----------------------------------------------------------------------------
(* Nobody waits in vain: the condition variables lose no notification.     *)

\* Idle workers: while all of them wait there is nothing they could take up.
IdleInv ==
    (\A w \in Worker : workerPC[w] = "producerWait") =>
        /\ ionWorklist = {} /\ parseWorklist = {} /\ compressionWorklist = {}
        /\ ~canStartAsmJSCompile

\* While functions are left to dispatch, all LifoAllocs made so far are in use,
\* and a compilation that wants a finished function has made all it may and has
\* none to reuse.  Cancelled functions are taken back before the others' end.
ReuseInv ==
    \A c \in Client :
        /\ clientPC[c] \in {"asmSubmit", "asmGet", "asmGetWait"} /\ dispatched < AsmJobs =>
              /\ dispatched < numParallelJobs => ~haveTask /\ outstandingJobs = dispatched
              /\ dispatched >= numParallelJobs =>
                    outstandingJobs = IF haveTask THEN numParallelJobs - 1 ELSE numParallelJobs
        /\ clientPC[c] \in {"asmGet", "asmGetWait"} =>
              /\ outstandingJobs > 0
              /\ dispatched < AsmJobs => ~haveTask /\ dispatched >= numParallelJobs
        /\ clientPC[c] \in {"asmCancelTest", "asmCancelWait"} =>
              outstandingJobs > 0 /\ asmJSWorklist = 0

\* Whoever waits for work to finish waits for work that has not: it is in a
\* worklist or with a worker, whose end will notify.
ConsumerInv ==
    /\ \A c \in Client :
          /\ clientPC[c] = "completeWait" => compressionInProgress(c)
          /\ clientPC[c] \in {"asmGetWait", "asmCancelWait"} =>
                numAsmJSFailedJobs = 0 /\ asmJSFinishedList = 0
    /\ mainPC = "cancelWait" => workerPC[cursor] = "ion" /\ task[cursor] \in target
    /\ mainPC = "parseWait" => parseWorklist # {} \/ Running("parse") # {}
    /\ mainPC = "join" => terminate[cursor] /\ workerPC[cursor] # "producerWait"

\* ~JSRuntime() past the wait for the parse tasks, and past the threads' ends.
PastParses ==
    \/ mainPC \in {"destroy", "join", "drain", "lastGC", "ended"}
    \/ mainPC = "enqueue" /\ destroying
PastThreads == PastParses /\ mainPC \notin {"destroy", "join"}

\* The threads are ended one after the other, when no compilation is left.
ExitInv ==
    /\ mainPC = "running" => ~destroying
    /\ (mainPC \in {"parseTest", "parseWait"} \/ PastParses) => destroying
    /\ mainPC \notin {"cancelTest", "cancelWait", "cancelled", "destroy", "join"} => cursor = 1
    /\ destroying => clientPC[Main] \in {"none", "done"}
    /\ PastParses => \A c \in Client : clientPC[c] \in {"none", "done"}
    /\ PastParses => Running("parse") = {}
    /\ mainPC \in {"destroy", "join"} => parseWorklist = {}
    /\ \A w \in Worker :
          /\ ~PastParses => ~terminate[w] /\ workerPC[w] # "exited"
          /\ PastThreads \/ (PastParses /\ w < cursor) => workerPC[w] = "exited"

LiveInv == IInv /\ IdleInv /\ ReuseInv /\ ConsumerInv /\ ExitInv

\* Without a claim there is no function of asm.js anywhere.
LEMMA NoneCounted ==
    CountType /\ CountInv /\ asmOwner = NoTask => asmJSWorklist = 0
  <1> DEFINE n == Cardinality(Running("asmJS"))
  <1>1. n \in Nat
    BY RunningIsFinite
  <1> HIDE DEF n
  <1> QED
    BY <1>1 DEF CountType, CountInv, n

\* Whoever adds to a worklist wakes a worker that waits, and a worker looks
\* through all worklists before it waits.
LEMMA IdleStep ==
    ASSUME ThreadType, CountType, CountInv, IdleInv, ReuseInv, [Next]_vars
    PROVE  IdleInv'
  <1> USE DEF Running, NotifyProducers, NotifyOneProducer, NotifyConsumers, Retest, Goto,
          OnlyClient, ionVars, parseVars, asmVars, workerVars, mainVars, MainFree, ThreadType,
          CountType, IdleInv, ReuseInv, WorkerPC, canStartAsmJSCompile
  <1>1. ASSUME NEW w \in Worker, WorkerStep(w) PROVE IdleInv'
    <2>1. CASE BeginAsmJS(w)
      BY <2>1, Parameters DEF BeginAsmJS, Begin
    <2>2. CASE BeginIon(w)
      BY <2>2, Parameters DEF BeginIon, canStartIonCompile, Begin
    <2>3. CASE BeginParse(w)
      BY <2>3, Parameters DEF BeginParse, canStartParseTask, Begin
    <2>4. CASE BeginCompression(w)
      BY <2>4, Parameters DEF BeginCompression, Begin
    <2>5. CASE NoWork(w)
      BY <2>5, Parameters DEF NoWork, canStartIonCompile, canStartParseTask,
          canStartCompressionTask
    <2>6. CASE EndAsmJS(w)
      BY <2>6, Parameters DEF EndAsmJS, Finished
    <2>7. CASE EndIon(w)
      BY <2>7, Parameters DEF EndIon, Finished
    <2>8. CASE EndParse(w)
      BY <2>8, Parameters DEF EndParse, Finished
    <2>9. CASE EndCompression(w)
      BY <2>9, Parameters DEF EndCompression, Finished
    <2> QED
      BY <1>1, <2>1, <2>2, <2>3, <2>4, <2>5, <2>6, <2>7, <2>8, <2>9 DEF WorkerStep
  <1>2. ASSUME NEW c \in Client, ClientStep(c) PROVE IdleInv'
    <2>1. CASE SetSource(c)
      BY <2>1, Parameters DEF SetSource
    <2>2. CASE ParseAlone(c)
      BY <2>2, Parameters DEF ParseAlone
    <2>3. CASE ClaimParallelCompilation(c)
      BY <2>3, NoneCounted DEF ClaimParallelCompilation
    <2>4. CASE SubmitFunction(c)
      BY <2>4, Parameters DEF SubmitFunction, HasLifo
    <2>5. CASE NeedFinished(c)
      BY <2>5, Parameters DEF NeedFinished, HasLifo
    <2>6. CASE GetFinishedCompilation(c)
      BY <2>6, Parameters DEF GetFinishedCompilation
    <2>7. CASE CancelOutstandingJobs(c)
      BY <2>7, Parameters DEF CancelOutstandingJobs
    <2>8. CASE ReleaseParallelCompilation(c)
      BY <2>8, Parameters DEF ReleaseParallelCompilation
    <2>9. CASE CompleteCompression(c)
      BY <2>9, Parameters DEF CompleteCompression, compressionInProgress
    <2> QED
      BY <1>2, <2>1, <2>2, <2>3, <2>4, <2>5, <2>6, <2>7, <2>8, <2>9 DEF ClientStep
  <1>3. ASSUME NEW b \in IonTask, StartOffThreadIonCompile(b) PROVE IdleInv'
    BY <1>3, Parameters DEF StartOffThreadIonCompile
  <1>4. ASSUME NEW t \in ParseTask,
               StartOffThreadParseScript(t) \/ FinishOffThreadScript(t)
        PROVE  IdleInv'
    <2>1. CASE StartOffThreadParseScript(t)
      BY <2>1, Parameters DEF StartOffThreadParseScript, Submitted, activeGCInAtomsZone
    <2>2. CASE FinishOffThreadScript(t)
      BY <2>2, Parameters DEF FinishOffThreadScript, finishParseTask
    <2> QED
      BY <1>4, <2>1, <2>2
  <1>5. CASE StartCompilation
    BY <1>5, Parameters DEF StartCompilation
  <1>6. CASE AttachFinishedCompilations
    BY <1>6, Parameters DEF AttachFinishedCompilations
  <1>7. CASE Cancel
    BY <1>7, Parameters DEF Cancel, CancelOffThreadIonCompile, ScanThreads
  <1>8. CASE ScheduleGC
    BY <1>8, Parameters DEF ScheduleGC
  <1>9. CASE GCSlice
    BY <1>9, Parameters DEF GCSlice, Slice, keepAtoms
  <1>10. CASE GCFinish
    BY <1>10, Parameters DEF GCFinish, Slice
  <1>11. CASE CancelWoken
    BY <1>11, Parameters DEF CancelWoken, ScanThreads
  <1>12. CASE CancelReturns
    BY <1>12, Parameters DEF CancelReturns
  <1>13. CASE EnqueuePendingParseTasksAfterGC
    BY <1>13, Parameters DEF EnqueuePendingParseTasksAfterGC
  <1>14. CASE WaitForOffThreadParsingToFinish
    BY <1>14, Parameters DEF WaitForOffThreadParsingToFinish, OnlyMainPC
  <1>15. CASE TerminateThread
    BY <1>15, Parameters DEF TerminateThread, OnlyMainPC
  <1>16. CASE JoinThread
    BY <1>16, Parameters DEF JoinThread, OnlyMainPC
  <1>17. CASE CleanUpParseTask
    BY <1>17, Parameters DEF CleanUpParseTask, finishParseTask
  <1>18. CASE CleanedUp
    BY <1>18, Parameters DEF CleanedUp, OnlyMainPC
  <1>19. CASE LastGC
    BY <1>19, Parameters DEF LastGC, Slice
  <1>20. CASE Destroy
    BY <1>20, Parameters DEF Destroy, CancelOffThreadIonCompile, ScanThreads
  <1>21. CASE Ended
    BY <1>21, Parameters DEF Ended, vars
  <1>22. CASE UNCHANGED vars
    BY <1>22 DEF vars
  <1> QED
    BY <1>1, <1>2, <1>3, <1>4, <1>5, <1>6, <1>7, <1>8, <1>9, <1>10, <1>11, <1>12, <1>13, <1>14,
        <1>15, <1>16, <1>17, <1>18, <1>19, <1>20, <1>21, <1>22 DEF Next, MainStep

\* The destruction of the runtime ends the threads after the last compilation.
LEMMA ExitStep ==
    ASSUME ThreadType, ListType, MainType, TaskInv, ParseInv, OwnerInv, ExitInv, [Next]_vars
    PROVE  ExitInv'
  <1> USE DEF Running, NotifyProducers, NotifyOneProducer, NotifyConsumers, Retest, Goto,
          OnlyClient, ionVars, parseVars, asmVars, workerVars, mainVars, MainFree, ThreadType,
          ListType, MainType, TaskInv, ParseInv, ExitInv, PastParses, PastThreads, ClientPC,
          WorkerPC, MainPC, Client
  <1>1. ASSUME NEW w \in Worker, WorkerStep(w) PROVE ExitInv'
    <2>1. CASE BeginAsmJS(w)
      BY <2>1 DEF BeginAsmJS, canStartAsmJSCompile, Begin
    <2>2. CASE BeginIon(w)
      BY <2>2 DEF BeginIon, canStartIonCompile, Begin
    <2>3. CASE BeginParse(w)
      BY <2>3, WorkerAssumption DEF BeginParse, canStartParseTask, Begin
    <2>4. CASE BeginCompression(w)
      BY <2>4 DEF BeginCompression, Begin
    <2>5. CASE NoWork(w)
      BY <2>5 DEF NoWork, canStartIonCompile, canStartParseTask, canStartCompressionTask
    <2>6. CASE EndAsmJS(w)
      BY <2>6 DEF EndAsmJS, Finished
    <2>7. CASE EndIon(w)
      BY <2>7 DEF EndIon, Finished
    <2>8. CASE EndParse(w)
      BY <2>8 DEF EndParse, Finished
    <2>9. CASE EndCompression(w)
      BY <2>9 DEF EndCompression, Finished
    <2> QED
      BY <1>1, <2>1, <2>2, <2>3, <2>4, <2>5, <2>6, <2>7, <2>8, <2>9 DEF WorkerStep
  <1>2. ASSUME NEW c \in Client, ClientStep(c) PROVE ExitInv'
    <2>1. CASE SetSource(c)
      BY <2>1 DEF SetSource
    <2>2. CASE ParseAlone(c)
      BY <2>2 DEF ParseAlone
    <2>3. CASE ClaimParallelCompilation(c)
      BY <2>3 DEF ClaimParallelCompilation
    <2>4. CASE SubmitFunction(c)
      BY <2>4 DEF SubmitFunction, HasLifo
    <2>5. CASE NeedFinished(c)
      BY <2>5 DEF NeedFinished, HasLifo
    <2>6. CASE GetFinishedCompilation(c)
      BY <2>6 DEF GetFinishedCompilation
    <2>7. CASE CancelOutstandingJobs(c)
      BY <2>7 DEF CancelOutstandingJobs
    <2>8. CASE ReleaseParallelCompilation(c)
      BY <2>8 DEF ReleaseParallelCompilation
    <2>9. CASE CompleteCompression(c)
      BY <2>9 DEF CompleteCompression, compressionInProgress
    <2> QED
      BY <1>2, <2>1, <2>2, <2>3, <2>4, <2>5, <2>6, <2>7, <2>8, <2>9 DEF ClientStep
  <1>3. ASSUME NEW b \in IonTask, StartOffThreadIonCompile(b) PROVE ExitInv'
    BY <1>3 DEF StartOffThreadIonCompile
  <1>4. ASSUME NEW t \in ParseTask,
               StartOffThreadParseScript(t) \/ FinishOffThreadScript(t)
        PROVE  ExitInv'
    <2>1. CASE StartOffThreadParseScript(t)
      BY <2>1 DEF StartOffThreadParseScript, Submitted, activeGCInAtomsZone
    <2>2. CASE FinishOffThreadScript(t)
      BY <2>2 DEF FinishOffThreadScript, finishParseTask
    <2> QED
      BY <1>4, <2>1, <2>2
  <1>5. CASE StartCompilation
    BY <1>5 DEF StartCompilation
  <1>6. CASE AttachFinishedCompilations
    BY <1>6 DEF AttachFinishedCompilations
  <1>7. CASE Cancel
    BY <1>7 DEF Cancel, CancelOffThreadIonCompile, ScanThreads
  <1>8. CASE ScheduleGC
    BY <1>8 DEF ScheduleGC
  <1>9. CASE GCSlice
    BY <1>9 DEF GCSlice, Slice, keepAtoms
  <1>10. CASE GCFinish
    BY <1>10 DEF GCFinish, Slice
  <1>11. CASE CancelWoken
    BY <1>11 DEF CancelWoken, ScanThreads
  <1>12. CASE CancelReturns
    BY <1>12 DEF CancelReturns
  <1>13. CASE EnqueuePendingParseTasksAfterGC
    BY <1>13 DEF EnqueuePendingParseTasksAfterGC
  <1>14. CASE WaitForOffThreadParsingToFinish
    <2>1. CASE mainPC' = "parseWait"
      BY <1>14, <2>1 DEF WaitForOffThreadParsingToFinish, OnlyMainPC
    <2>2. CASE mainPC' = "destroy"
      <3>1. Running("parse") = {} /\ parseWorklist = {} /\ destroying /\ cursor = 1
        BY <1>14, <2>2 DEF WaitForOffThreadParsingToFinish, OnlyMainPC
      <3>2. \A c \in Client : clientPC[c] \in {"none", "done"}
        BY <3>1
      <3>3. \A w \in Worker : ~(w < 1)
        BY WorkerAssumption DEF Worker
      <3> QED
        BY <1>14, <2>2, <3>1, <3>2, <3>3 DEF WaitForOffThreadParsingToFinish, OnlyMainPC
    <2> QED
      BY <1>14, <2>1, <2>2 DEF WaitForOffThreadParsingToFinish, OnlyMainPC
  <1>15. CASE TerminateThread
    BY <1>15 DEF TerminateThread, OnlyMainPC
  <1>16. CASE JoinThread
    <2>1. CASE cursor = NumThreads
      <3>1. \A w \in Worker : w = cursor \/ w < cursor
        BY <2>1, WorkerAssumption DEF Worker
      <3> QED
        BY <1>16, <2>1, <3>1, Parameters DEF JoinThread, OnlyMainPC
    <2>2. CASE cursor # NumThreads
      <3>1. \A w \in Worker : w < cursor + 1 => w = cursor \/ w < cursor
        BY Parameters
      <3> QED
        BY <1>16, <2>2, <3>1 DEF JoinThread, OnlyMainPC
    <2> QED
      BY <2>1, <2>2
  <1>17. CASE CleanUpParseTask
    BY <1>17 DEF CleanUpParseTask, finishParseTask
  <1>18. CASE CleanedUp
    BY <1>18 DEF CleanedUp, OnlyMainPC
  <1>19. CASE LastGC
    BY <1>19 DEF LastGC, Slice
  <1>20. CASE Destroy
    BY <1>20 DEF Destroy, CancelOffThreadIonCompile, ScanThreads
  <1>21. CASE Ended
    BY <1>21 DEF Ended, vars
  <1>22. CASE UNCHANGED vars
    BY <1>22 DEF vars
  <1> QED
    BY <1>1, <1>2, <1>3, <1>4, <1>5, <1>6, <1>7, <1>8, <1>9, <1>10, <1>11, <1>12, <1>13, <1>14,
        <1>15, <1>16, <1>17, <1>18, <1>19, <1>20, <1>21, <1>22 DEF Next, MainStep

\* A notification follows the end of every piece of work, and whoever waits
\* tests the condition under the lock that the end of the work needs.
LEMMA ConsumerStep ==
    ASSUME ThreadType, ListType, MainType, TaskInv, ParseInv, CompressionInv, OwnerInv,
           CountType, ConsumerInv, ExitInv, [Next]_vars
    PROVE  ConsumerInv'
  <1> USE DEF Running, NotifyProducers, NotifyOneProducer, NotifyConsumers, Retest, Goto,
          OnlyClient, ionVars, parseVars, asmVars, workerVars, mainVars, MainFree, ThreadType,
          ListType, MainType, TaskInv, ParseInv, ConsumerInv, ExitInv, ClientPC, WorkerPC,
          MainPC, Client, compressionInProgress
  <1>1. ASSUME NEW w \in Worker, WorkerStep(w) PROVE ConsumerInv'
    <2>1. CASE BeginAsmJS(w)
      BY <2>1 DEF BeginAsmJS, canStartAsmJSCompile, Begin
    <2>2. CASE BeginIon(w)
      BY <2>2 DEF BeginIon, canStartIonCompile, Begin
    <2>3. CASE BeginParse(w)
      BY <2>3 DEF BeginParse, canStartParseTask, Begin
    <2>4. CASE BeginCompression(w)
      BY <2>4 DEF BeginCompression, Begin
    <2>5. CASE NoWork(w)
      BY <2>5 DEF NoWork, canStartIonCompile, canStartParseTask, canStartCompressionTask
    <2>6. CASE EndAsmJS(w)
      BY <2>6 DEF EndAsmJS, Finished
    <2>7. CASE EndIon(w)
      BY <2>7 DEF EndIon, Finished
    <2>8. CASE EndParse(w)
      BY <2>8 DEF EndParse, Finished
    <2>9. CASE EndCompression(w)
      BY <2>9 DEF EndCompression, Finished
    <2> QED
      BY <1>1, <2>1, <2>2, <2>3, <2>4, <2>5, <2>6, <2>7, <2>8, <2>9 DEF WorkerStep
  <1>2. ASSUME NEW c \in Client, ClientStep(c) PROVE ConsumerInv'
    <2>1. CASE SetSource(c)
      BY <2>1 DEF SetSource
    <2>2. CASE ParseAlone(c)
      BY <2>2 DEF ParseAlone
    <2>3. CASE ClaimParallelCompilation(c)
      BY <2>3 DEF ClaimParallelCompilation
    <2>4. CASE SubmitFunction(c)
      BY <2>4 DEF SubmitFunction, HasLifo
    <2>5. CASE NeedFinished(c)
      BY <2>5 DEF NeedFinished, HasLifo
    <2>6. CASE GetFinishedCompilation(c)
      BY <2>6 DEF GetFinishedCompilation
    <2>7. CASE CancelOutstandingJobs(c)
      BY <2>7 DEF CancelOutstandingJobs
    <2>8. CASE ReleaseParallelCompilation(c)
      BY <2>8 DEF ReleaseParallelCompilation
    <2>9. CASE CompleteCompression(c)
      BY <2>9 DEF CompleteCompression
    <2> QED
      BY <1>2, <2>1, <2>2, <2>3, <2>4, <2>5, <2>6, <2>7, <2>8, <2>9 DEF ClientStep
  <1>3. ASSUME NEW b \in IonTask, StartOffThreadIonCompile(b) PROVE ConsumerInv'
    BY <1>3 DEF StartOffThreadIonCompile
  <1>4. ASSUME NEW t \in ParseTask,
               StartOffThreadParseScript(t) \/ FinishOffThreadScript(t)
        PROVE  ConsumerInv'
    <2>1. CASE StartOffThreadParseScript(t)
      BY <2>1 DEF StartOffThreadParseScript, Submitted, activeGCInAtomsZone
    <2>2. CASE FinishOffThreadScript(t)
      BY <2>2 DEF FinishOffThreadScript, finishParseTask
    <2> QED
      BY <1>4, <2>1, <2>2
  <1>5. CASE StartCompilation
    BY <1>5 DEF StartCompilation
  <1>6. CASE AttachFinishedCompilations
    BY <1>6 DEF AttachFinishedCompilations
  <1>7. CASE Cancel
    <2>1. PICK targets \in SUBSET IonTask : CancelOffThreadIonCompile(targets)
      BY <1>7 DEF Cancel
    <2> QED
      BY <1>7, <2>1, ScanStep, Parameters DEF Cancel, CancelOffThreadIonCompile
  <1>8. CASE ScheduleGC
    BY <1>8 DEF ScheduleGC
  <1>9. CASE GCSlice
    BY <1>9 DEF GCSlice, Slice, keepAtoms
  <1>10. CASE GCFinish
    BY <1>10 DEF GCFinish, Slice
  <1>11. CASE CancelWoken
    BY <1>11, ScanStep DEF CancelWoken
  <1>12. CASE CancelReturns
    BY <1>12 DEF CancelReturns
  <1>13. CASE EnqueuePendingParseTasksAfterGC
    BY <1>13 DEF EnqueuePendingParseTasksAfterGC
  <1>14. CASE WaitForOffThreadParsingToFinish
    BY <1>14 DEF WaitForOffThreadParsingToFinish, OnlyMainPC
  <1>15. CASE TerminateThread
    BY <1>15 DEF TerminateThread, OnlyMainPC
  <1>16. CASE JoinThread
    BY <1>16 DEF JoinThread, OnlyMainPC
  <1>17. CASE CleanUpParseTask
    BY <1>17 DEF CleanUpParseTask, finishParseTask
  <1>18. CASE CleanedUp
    BY <1>18 DEF CleanedUp, OnlyMainPC
  <1>19. CASE LastGC
    BY <1>19 DEF LastGC, Slice
  <1>20. CASE Destroy
    BY <1>20, ScanStep, Parameters DEF Destroy, CancelOffThreadIonCompile
  <1>21. CASE Ended
    BY <1>21 DEF Ended, vars
  <1>22. CASE UNCHANGED vars
    BY <1>22 DEF vars
  <1> QED
    BY <1>1, <1>2, <1>3, <1>4, <1>5, <1>6, <1>7, <1>8, <1>9, <1>10, <1>11, <1>12, <1>13, <1>14,
        <1>15, <1>16, <1>17, <1>18, <1>19, <1>20, <1>21, <1>22 DEF Next, MainStep

\* The compilation that has the claim dispatches a function into each LifoAlloc
\* it may make before it wants one back.
LEMMA ReuseStep ==
    ASSUME ThreadType, MainType, CountType, TaskInv, ParseInv, OwnerInv, LifoInv, ReuseInv,
           [Next]_vars
    PROVE  ReuseInv'
  <1> USE DEF Running, NotifyProducers, NotifyOneProducer, NotifyConsumers, Retest, Goto,
          OnlyClient, ionVars, parseVars, asmVars, workerVars, mainVars, MainFree, ThreadType,
          MainType, CountType, TaskInv, ParseInv, OwnerInv, ReuseInv, AsmPC, ClientPC, Client
  <1>p. AsmJobs \in Nat /\ numParallelJobs \in Nat /\ numParallelJobs >= 1
    BY WorkerAssumption DEF numParallelJobs
  <1>1. ASSUME NEW w \in Worker, WorkerStep(w) PROVE ReuseInv'
    <2>1. CASE BeginAsmJS(w)
      BY <2>1, <1>p DEF BeginAsmJS, canStartAsmJSCompile, Begin
    <2>2. CASE BeginIon(w)
      BY <2>2, <1>p DEF BeginIon, canStartIonCompile, Begin
    <2>3. CASE BeginParse(w)
      BY <2>3, <1>p DEF BeginParse, canStartParseTask, Begin
    <2>4. CASE BeginCompression(w)
      BY <2>4, <1>p DEF BeginCompression, Begin
    <2>5. CASE NoWork(w)
      BY <2>5, <1>p DEF NoWork, canStartIonCompile, canStartParseTask, canStartCompressionTask
    <2>6. CASE EndAsmJS(w)
      BY <2>6, <1>p DEF EndAsmJS, Finished
    <2>7. CASE EndIon(w)
      BY <2>7, <1>p DEF EndIon, Finished
    <2>8. CASE EndParse(w)
      BY <2>8, <1>p DEF EndParse, Finished
    <2>9. CASE EndCompression(w)
      BY <2>9, <1>p DEF EndCompression, Finished
    <2> QED
      BY <1>1, <2>1, <2>2, <2>3, <2>4, <2>5, <2>6, <2>7, <2>8, <2>9 DEF WorkerStep
  <1>2. ASSUME NEW c \in Client, ClientStep(c) PROVE ReuseInv'
    <2>1. CASE SetSource(c)
      BY <2>1, <1>p DEF SetSource
    <2>2. CASE ParseAlone(c)
      BY <2>2, <1>p DEF ParseAlone
    <2>3. CASE ClaimParallelCompilation(c)
      BY <2>3, <1>p, NoTaskIsNoClient DEF ClaimParallelCompilation
    <2>4. CASE SubmitFunction(c)
      BY <2>4, <1>p DEF SubmitFunction, HasLifo
    <2>5. CASE NeedFinished(c)
      BY <2>5, <1>p DEF NeedFinished, HasLifo
    <2>6. CASE GetFinishedCompilation(c)
      BY <2>6, <1>p DEF GetFinishedCompilation
    <2>7. CASE CancelOutstandingJobs(c)
      BY <2>7, <1>p DEF CancelOutstandingJobs
    <2>8. CASE ReleaseParallelCompilation(c)
      BY <2>8, <1>p DEF ReleaseParallelCompilation
    <2>9. CASE CompleteCompression(c)
      BY <2>9, <1>p DEF CompleteCompression, compressionInProgress
    <2> QED
      BY <1>2, <2>1, <2>2, <2>3, <2>4, <2>5, <2>6, <2>7, <2>8, <2>9 DEF ClientStep
  <1>3. ASSUME NEW b \in IonTask, StartOffThreadIonCompile(b) PROVE ReuseInv'
    BY <1>3 DEF StartOffThreadIonCompile
  <1>4. ASSUME NEW t \in ParseTask,
               StartOffThreadParseScript(t) \/ FinishOffThreadScript(t)
        PROVE  ReuseInv'
    <2>1. CASE StartOffThreadParseScript(t)
      BY <2>1 DEF StartOffThreadParseScript, Submitted, activeGCInAtomsZone
    <2>2. CASE FinishOffThreadScript(t)
      BY <2>2 DEF FinishOffThreadScript, finishParseTask
    <2> QED
      BY <1>4, <2>1, <2>2
  <1>5. CASE StartCompilation
    BY <1>5 DEF StartCompilation
  <1>6. CASE AttachFinishedCompilations
    BY <1>6 DEF AttachFinishedCompilations
  <1>7. CASE Cancel
    BY <1>7 DEF Cancel, CancelOffThreadIonCompile, ScanThreads
  <1>8. CASE ScheduleGC
    BY <1>8 DEF ScheduleGC
  <1>9. CASE GCSlice
    BY <1>9 DEF GCSlice, Slice, keepAtoms
  <1>10. CASE GCFinish
    BY <1>10 DEF GCFinish, Slice
  <1>11. CASE CancelWoken
    BY <1>11 DEF CancelWoken, ScanThreads
  <1>12. CASE CancelReturns
    BY <1>12 DEF CancelReturns
  <1>13. CASE EnqueuePendingParseTasksAfterGC
    BY <1>13 DEF EnqueuePendingParseTasksAfterGC
  <1>14. CASE WaitForOffThreadParsingToFinish
    BY <1>14 DEF WaitForOffThreadParsingToFinish, OnlyMainPC
  <1>15. CASE TerminateThread
    BY <1>15 DEF TerminateThread, OnlyMainPC
  <1>16. CASE JoinThread
    BY <1>16 DEF JoinThread, OnlyMainPC
  <1>17. CASE CleanUpParseTask
    BY <1>17 DEF CleanUpParseTask, finishParseTask
  <1>18. CASE CleanedUp
    BY <1>18 DEF CleanedUp, OnlyMainPC
  <1>19. CASE LastGC
    BY <1>19 DEF LastGC, Slice
  <1>20. CASE Destroy
    BY <1>20 DEF Destroy, CancelOffThreadIonCompile, ScanThreads
  <1>21. CASE Ended
    BY <1>21 DEF Ended, vars
  <1>22. CASE UNCHANGED vars
    BY <1>22 DEF vars
  <1> QED
    BY <1>1, <1>2, <1>3, <1>4, <1>5, <1>6, <1>7, <1>8, <1>9, <1>10, <1>11, <1>12, <1>13, <1>14,
        <1>15, <1>16, <1>17, <1>18, <1>19, <1>20, <1>21, <1>22 DEF Next, MainStep

\* At first nobody waits.
LEMMA LiveInit == Init => LiveInv
  <1> SUFFICES ASSUME Init PROVE LiveInv
    OBVIOUS
  <1>1. IdleInv
    BY DEF Init, IdleInv, canStartAsmJSCompile
  <1>2. ReuseInv /\ ConsumerInv
    BY DEF Init, ReuseInv, ConsumerInv
  <1>3. ExitInv
    BY WorkerAssumption DEF Init, ExitInv, PastParses, PastThreads, Running, Client, Worker
  <1> QED
    BY <1>1, <1>2, <1>3, InvInit DEF LiveInv

\* The invariant with what it says about the waits is inductive too.
LEMMA LiveNext == LiveInv /\ [Next]_vars => LiveInv'
  <1> SUFFICES ASSUME LiveInv, [Next]_vars PROVE LiveInv'
    OBVIOUS
  <1>1. IInv'
    BY InvNext DEF LiveInv
  <1>2. IdleInv' /\ ReuseInv' /\ ConsumerInv' /\ ExitInv'
    BY IdleStep, ReuseStep, ConsumerStep, ExitStep DEF LiveInv, IInv
  <1> QED
    BY <1>1, <1>2 DEF LiveInv

\* Somebody waits for the workers: for a function, for a compression, for the end
\* of a compilation to cancel, or for the scripts.
SomebodyWaits ==
    \/ \E c \in Client : clientPC[c] \in {"asmGetWait", "asmCancelWait", "completeWait"}
    \/ mainPC \in {"cancelWait", "parseWait"}

\* Whoever waits is served: some worker is at work or about to look for some, and
\* the worker that the main thread joins has been woken and told to end.
WaitersAreServed ==
    /\ SomebodyWaits => \E w \in Worker : workerPC[w] \notin {"producerWait", "exited"}
    /\ mainPC = "join" => terminate[cursor] /\ workerPC[cursor] # "producerWait"

\* No notification of a producer or a consumer is lost: it never happens that a
\* compilation or the main thread waits while all workers sleep or have ended.
THEOREM NoLostWakeup == Spec => []WaitersAreServed
  <1>1. LiveInv => WaitersAreServed
    <2> SUFFICES ASSUME LiveInv, SomebodyWaits,
                        \A w \in Worker : workerPC[w] \in {"producerWait", "exited"}
                 PROVE  FALSE
      BY DEF WaitersAreServed, LiveInv, ConsumerInv
    <2> USE DEF LiveInv, IInv
    <2>1. ~PastParses
      BY DEF SomebodyWaits, ExitInv, PastParses
    <2>2. \A w \in Worker : workerPC[w] = "producerWait"
      BY <2>1 DEF ExitInv
    <2>3. \A kind \in {"ion", "asmJS", "parse", "compression"} : Running(kind) = {}
      BY <2>2 DEF Running
    <2>4. /\ parseWorklist = {} /\ compressionWorklist = {}
          /\ asmJSWorklist = 0 \/ numAsmJSFailedJobs # 0
      BY <2>2 DEF IdleInv, canStartAsmJSCompile, CountType
    <2>5. CASE mainPC \in {"cancelWait", "parseWait"}
      BY <2>2, <2>3, <2>4, <2>5 DEF ConsumerInv, MainType
    <2>6. ASSUME NEW c \in Client, clientPC[c] = "completeWait" PROVE FALSE
      BY <2>3, <2>4, <2>6 DEF ConsumerInv, compressionInProgress
    <2>7. ASSUME NEW c \in Client, clientPC[c] \in {"asmGetWait", "asmCancelWait"} PROVE FALSE
      <3>1. numAsmJSFailedJobs = 0 /\ asmJSFinishedList = 0 /\ asmJSWorklist = 0
        BY <2>4, <2>7 DEF ConsumerInv
      <3>2. outstandingJobs > 0
        BY <2>7 DEF ReuseInv
      <3>3. Cardinality(Running("asmJS")) = 0
        BY <2>3, FS_EmptySet
      <3> QED
        BY <3>1, <3>2, <3>3 DEF CountInv, CountType
    <2> QED
      BY <2>5, <2>6, <2>7 DEF SomebodyWaits
  <1> QED
    BY <1>1, LiveInit, LiveNext, PTL DEF Spec

=============================================================================
