---------------------------- MODULE WorkerThreads ----------------------------
(***************************************************************************)
(* The worker threads of jsworkers.{h,cpp}, their four worklists, and the  *)
(* threads they serve: the main thread and the parse tasks, which are      *)
(* themselves run by a worker and may block on source compression and on   *)
(* the asm.js functions that other workers compile (jit/AsmJS.cpp).        *)
(*                                                                         *)
(* Everything shared is protected by the worker thread state lock, so a    *)
(* critical section is one step; building a function, parsing and          *)
(* compressing happen between two steps.  The worklists are sets, those of *)
(* asm.js, whose jobs are alike, are counters.                             *)
(***************************************************************************)
EXTENDS Integers, FiniteSets

CONSTANTS
    NumThreads,   \* workerThreadCount(): Max(2, cpuCount())
    IonTask,      \* Ion builders, each submitted at most once
    ParseTask,    \* off-thread scripts, each submitted at most once
    Main,         \* the main thread, as a client of the workers
    AsmJobs,      \* functions of an asm.js module
    Compresses,   \* clients whose source is large enough to compress
    EarlySchedule,  \* may the atoms zone be scheduled long before its GC?
    DestroyAnytime, \* may the runtime be destroyed while a task waits on GC?
    MaxCancels,   \* bound: calls of CancelOffThreadIonCompile() by scripts
    MaxSlices     \* bound: GC slices

ASSUME WorkerAssumption ==
    /\ NumThreads \in Nat /\ NumThreads >= 2
    /\ {AsmJobs, MaxCancels, MaxSlices} \subseteq Nat
    /\ IsFiniteSet(IonTask) /\ IsFiniteSet(ParseTask)
    /\ Main \notin ParseTask
    /\ Compresses \subseteq ParseTask \cup {Main}
    /\ {EarlySchedule, DestroyAnytime} \subseteq BOOLEAN

Worker == 1..NumThreads
Client == ParseTask \cup {Main}
NoTask == "none"
numParallelJobs == NumThreads + 1

ASSUME NoTaskIsNoClient == NoTask \notin Client

VARIABLES
    ionWorklist, ionFinished,    \* finishedOffThreadCompilations()
    parseWorklist, parseFinishedList, parseWaitingOnGC,
    compressionWorklist,
    asmJSWorklist, asmJSFinishedList, numAsmJSFailedJobs,
    asmOwner,         \* who claimed asmJSCompilationInProgress, or NoTask
    outstandingJobs, dispatched, haveTask, \* locals of that client
    workerPC, task,   \* per worker: where it is and what it works on
    terminate,
    clientPC,         \* per client: where it is in its compilation
    mainPC, target, cursor, destroying, \* main thread and its locals
    atomsZone,        \* "idle", "scheduled" or "started" (activeGCInAtomsZone)
    usedByExclusiveThread, \* parse tasks whose zone is marked so
    built, called, collected, \* history: builders submitted, callbacks invoked, tokens finished
    cancels, slices   \* history: for the bounds

ionVars == <<ionWorklist, ionFinished, built>>
parseVars == <<parseWorklist, parseFinishedList, parseWaitingOnGC,
               usedByExclusiveThread, called, collected>>
asmVars == <<asmJSWorklist, asmJSFinishedList, numAsmJSFailedJobs, asmOwner,
             outstandingJobs, dispatched, haveTask>>
workerVars == <<workerPC, task, terminate>>
mainVars == <<mainPC, target, cursor, destroying, atomsZone, cancels, slices>>
vars == <<ionVars, parseVars, asmVars, compressionWorklist, workerVars, clientPC, mainVars>>

WorkerPC == {"top", "producerWait", "ion", "asmJS", "parse", "compression", "exited"}
ClientPC == {"none", "setSource", "parse", "asmSubmit", "asmGet", "asmGetWait",
             "asmCancel", "asmCancelTest", "asmCancelWait", "complete",
             "completeWait", "done"}
MainPC == {"running", "cancelTest", "cancelWait", "cancelled", "parseTest", "parseWait",
           "enqueue", "destroy", "join", "drain", "lastGC", "ended"}

Init ==
    /\ ionWorklist = {} /\ ionFinished = {} /\ built = {}
    /\ parseWorklist = {} /\ parseFinishedList = {} /\ parseWaitingOnGC = {}
    /\ usedByExclusiveThread = {} /\ called = {} /\ collected = {}
    /\ compressionWorklist = {}
    /\ asmJSWorklist = 0 /\ asmJSFinishedList = 0 /\ numAsmJSFailedJobs = 0
    /\ asmOwner = NoTask
    /\ outstandingJobs = 0 /\ dispatched = 0 /\ haveTask = FALSE
    /\ workerPC = [w \in Worker |-> "top"]
    /\ task = [w \in Worker |-> NoTask]
    /\ terminate = [w \in Worker |-> FALSE]
    /\ clientPC = [c \in Client |-> "none"]
    /\ mainPC = "running"
    /\ target = {} /\ cursor = 1 /\ destroying = FALSE
    /\ atomsZone = "idle"
    /\ cancels = 0 /\ slices = 0

Running(kind) == {w \in Worker : workerPC[w] = kind}

\* notifyAll(PRODUCER) and notifyOne(PRODUCER): idle workers look for work.
NotifyProducers ==
    workerPC' = [w \in Worker |->
                    IF workerPC[w] = "producerWait" THEN "top" ELSE workerPC[w]]
NotifyOneProducer ==
    IF Running("producerWait") = {}
    THEN UNCHANGED workerPC
    ELSE \E w \in Running("producerWait") : workerPC' = [workerPC EXCEPT ![w] = "top"]

\* notifyAll(CONSUMER): whoever waits for work to finish tests again.
Retest(pc) == CASE pc = "asmGetWait" -> "asmGet"
                [] pc = "asmCancelWait" -> "asmCancelTest"
                [] pc = "completeWait" -> "complete"
                [] pc = "cancelWait" -> "cancelTest"
                [] pc = "parseWait" -> "parseTest"
                [] OTHER -> pc
NotifyConsumers ==
    /\ clientPC' = [c \in Client |-> Retest(clientPC[c])]
    /\ mainPC' = Retest(mainPC)

-----------------------------------------------------------------------------
(* The worker threads: threadLoop() and the four handle...Workload().  A   *)
(* workload is two steps, taking the task and handing in its result.       *)

canStartAsmJSCompile == asmJSWorklist > 0 /\ numAsmJSFailedJobs = 0
canStartIonCompile == ionWorklist # {} /\ Running("ion") = {}
\* Mutant: parses may run side by side.
canStartParseTask_concurrent == parseWorklist # {}

canStartParseTask == parseWorklist # {} /\ Running("parse") = {}
canStartCompressionTask == compressionWorklist # {}

Begin(w, kind, item) ==
    /\ workerPC' = [workerPC EXCEPT ![w] = kind]
    /\ task' = [task EXCEPT ![w] = item]
    /\ UNCHANGED terminate

BeginAsmJS(w) ==
    /\ workerPC[w] = "top" /\ ~terminate[w]
    /\ canStartAsmJSCompile
    /\ asmJSWorklist' = asmJSWorklist - 1
    /\ Begin(w, "asmJS", NoTask)
    /\ UNCHANGED <<asmJSFinishedList, numAsmJSFailedJobs, asmOwner, outstandingJobs,
                   dispatched, haveTask, ionVars, parseVars, compressionWorklist,
                   clientPC, mainVars>>

BeginIon(w) ==
    /\ workerPC[w] = "top" /\ ~terminate[w]
    /\ ~canStartAsmJSCompile /\ canStartIonCompile
    /\ \E b \in ionWorklist : ionWorklist' = ionWorklist \ {b} /\ Begin(w, "ion", b)
    /\ UNCHANGED <<ionFinished, built, parseVars, asmVars, compressionWorklist,
                   clientPC, mainVars>>

BeginParse(w) ==
    /\ workerPC[w] = "top" /\ ~terminate[w]
    /\ ~canStartAsmJSCompile /\ ~canStartIonCompile /\ canStartParseTask
    /\ \E t \in parseWorklist :
          /\ parseWorklist' = parseWorklist \ {t}
          /\ Begin(w, "parse", t)
          /\ clientPC' = [clientPC EXCEPT ![t] = "setSource"]
    /\ UNCHANGED <<parseFinishedList, parseWaitingOnGC, usedByExclusiveThread, called,
                   collected, ionVars, asmVars, compressionWorklist, mainVars>>

BeginCompression(w) ==
    /\ workerPC[w] = "top" /\ ~terminate[w]
    /\ ~canStartAsmJSCompile /\ ~canStartIonCompile /\ ~canStartParseTask
    /\ \E c \in compressionWorklist :
          /\ compressionWorklist' = compressionWorklist \ {c}
          /\ Begin(w, "compression", c)
    /\ UNCHANGED <<ionVars, parseVars, asmVars, clientPC, mainVars>>

\* Nothing to do: wait(PRODUCER), or leave the loop.
NoWork(w) ==
    /\ workerPC[w] = "top"
    /\ \/ terminate[w] /\ workerPC' = [workerPC EXCEPT ![w] = "exited"]
       \/ /\ ~terminate[w]
          /\ ~canStartAsmJSCompile /\ ~canStartIonCompile
          /\ ~canStartParseTask /\ ~canStartCompressionTask
          /\ workerPC' = [workerPC EXCEPT ![w] = "producerWait"]
    /\ UNCHANGED <<task, terminate, ionVars, parseVars, asmVars, compressionWorklist,
                   clientPC, mainVars>>

Finished(w) ==
    /\ workerPC' = [workerPC EXCEPT ![w] = "top"]
    /\ task' = [task EXCEPT ![w] = NoTask]
    /\ UNCHANGED <<terminate, target, cursor, destroying, atomsZone, cancels, slices>>

\* A function that fails is counted, one that succeeds goes to the finished list.
EndAsmJS(w) ==
    /\ workerPC[w] = "asmJS"
    /\ \/ asmJSFinishedList' = asmJSFinishedList + 1 /\ UNCHANGED numAsmJSFailedJobs
       \/ numAsmJSFailedJobs' = numAsmJSFailedJobs + 1 /\ UNCHANGED asmJSFinishedList
    /\ Finished(w)
    /\ NotifyConsumers
    /\ UNCHANGED <<asmJSWorklist, asmOwner, outstandingJobs, dispatched, haveTask,
                   ionVars, parseVars, compressionWorklist>>

EndIon(w) ==
    /\ workerPC[w] = "ion"
    /\ ionFinished' = ionFinished \cup {task[w]}
    /\ Finished(w)
    /\ NotifyConsumers
    /\ UNCHANGED <<ionWorklist, built, parseVars, asmVars, compressionWorklist>>

\* Mutant: the callback is called before the lock is taken again.
EndParse_callbackFirst(w) ==
    /\ workerPC[w] = "parse" /\ clientPC[task[w]] = "done"
    /\ \/ /\ task[w] \notin called /\ called' = called \cup {task[w]}
          /\ UNCHANGED <<parseFinishedList, workerVars, clientPC, mainVars>>
       \/ /\ task[w] \in called /\ UNCHANGED called
          /\ parseFinishedList' = parseFinishedList \cup {task[w]}
          /\ Finished(w)
          /\ NotifyConsumers
    /\ UNCHANGED <<parseWorklist, parseWaitingOnGC, usedByExclusiveThread, collected,
                   ionVars, asmVars, compressionWorklist>>

\* The callback is called with the lock held and gives the token to the embedder.
EndParse(w) ==
    /\ workerPC[w] = "parse" /\ clientPC[task[w]] = "done"
    /\ called' = called \cup {task[w]}
    /\ parseFinishedList' = parseFinishedList \cup {task[w]}
    /\ Finished(w)
    /\ NotifyConsumers
    /\ UNCHANGED <<parseWorklist, parseWaitingOnGC, usedByExclusiveThread, collected,
                   ionVars, asmVars, compressionWorklist>>

EndCompression(w) ==
    /\ workerPC[w] = "compression"
    /\ Finished(w)
    /\ NotifyConsumers
    /\ UNCHANGED <<ionVars, parseVars, asmVars, compressionWorklist>>

WorkerStep(w) ==
    \/ BeginAsmJS(w) \/ BeginIon(w) \/ BeginParse(w) \/ BeginCompression(w) \/ NoWork(w)
    \/ EndAsmJS(w) \/ EndIon(w) \/ EndParse(w) \/ EndCompression(w)


-----------------------------------------------------------------------------
(* A compilation, on the main thread or on the worker of a parse task: it  *)
(* may have its source compressed, may compile one asm.js module, and      *)
(* finally waits for the compression.                                      *)

Goto(c, pc) == clientPC' = [clientPC EXCEPT ![c] = pc]
OnlyClient == UNCHANGED <<ionVars, parseVars, task, terminate, mainVars>>

\* ScriptSource::setSourceCopy() hands the source to StartOffThreadCompression().
SetSource(c) ==
    /\ clientPC[c] = "setSource"
    /\ IF c \in Compresses
       THEN compressionWorklist' = compressionWorklist \cup {c} /\ NotifyProducers
       ELSE UNCHANGED <<compressionWorklist, workerPC>>
    /\ Goto(c, "parse")
    /\ OnlyClient /\ UNCHANGED asmVars

\* No asm.js module, one that fails to parse, or one compiled sequentially
\* because another compilation holds the claim.
ParseAlone(c) ==
    /\ clientPC[c] = "parse"
    /\ Goto(c, "complete")
    /\ OnlyClient /\ UNCHANGED <<asmVars, compressionWorklist, workerPC>>

\* CheckFunctionsParallel() claims asmJSCompilationInProgress.
ClaimParallelCompilation(c) ==
    /\ clientPC[c] = "parse"
    /\ asmOwner = NoTask
    /\ asmOwner' = c
    /\ numAsmJSFailedJobs' = 0 /\ outstandingJobs' = 0 /\ dispatched' = 0
    /\ haveTask' = FALSE
    /\ Goto(c, "asmSubmit")
    /\ OnlyClient
    /\ UNCHANGED <<asmJSWorklist, asmJSFinishedList, compressionWorklist, workerPC>>

\* Mutant: one function too many gets a fresh LifoAlloc.
HasLifo_offByOne == haveTask \/ dispatched <= numParallelJobs

HasLifo == haveTask \/ dispatched < numParallelJobs

\* CheckFunction() on the next function, then StartOffThreadAsmJSCompile().
SubmitFunction(c) ==
    /\ clientPC[c] = "asmSubmit"
    /\ dispatched < AsmJobs /\ HasLifo
    /\ \/ /\ numAsmJSFailedJobs = 0
          /\ asmJSWorklist' = asmJSWorklist + 1
          /\ outstandingJobs' = outstandingJobs + 1
          /\ dispatched' = dispatched + 1
          /\ haveTask' = FALSE
          /\ NotifyOneProducer
          /\ UNCHANGED clientPC
       \/ \* the function does not check, or an earlier one failed
          /\ Goto(c, "asmCancel")
          /\ UNCHANGED <<asmJSWorklist, outstandingJobs, dispatched, haveTask, workerPC>>
    /\ OnlyClient
    /\ UNCHANGED <<asmJSFinishedList, numAsmJSFailedJobs, asmOwner, compressionWorklist>>

\* No LifoAlloc left, or all dispatched: collect a finished function.
NeedFinished(c) ==
    /\ clientPC[c] = "asmSubmit"
    /\ IF dispatched < AsmJobs THEN ~HasLifo ELSE outstandingJobs > 0
    /\ Goto(c, "asmGet")
    /\ OnlyClient /\ UNCHANGED <<asmVars, compressionWorklist, workerPC>>

\* GetFinishedCompilation(), then GenerateCode(), which may fail.
GetFinishedCompilation(c) ==
    /\ clientPC[c] = "asmGet"
    /\ \/ /\ numAsmJSFailedJobs > 0
          /\ Goto(c, "asmCancel")
          /\ UNCHANGED <<asmJSFinishedList, outstandingJobs, haveTask>>
       \/ /\ numAsmJSFailedJobs = 0 /\ asmJSFinishedList > 0
          /\ asmJSFinishedList' = asmJSFinishedList - 1
          /\ outstandingJobs' = outstandingJobs - 1
          /\ \/ Goto(c, "asmSubmit") /\ haveTask' = TRUE
             \/ Goto(c, "asmCancel") /\ UNCHANGED haveTask
       \/ /\ numAsmJSFailedJobs = 0 /\ asmJSFinishedList = 0
          /\ Goto(c, "asmGetWait")
          /\ UNCHANGED <<asmJSFinishedList, outstandingJobs, haveTask>>
    /\ OnlyClient
    /\ UNCHANGED <<asmJSWorklist, numAsmJSFailedJobs, asmOwner, dispatched,
                   compressionWorklist, workerPC>>

\* Mutant: failed functions are forgotten without being counted.
CancelOutstandingJobs_failedLost(c) ==
    /\ clientPC[c] \in {"asmCancel", "asmCancelTest"}
    /\ outstandingJobs > 0
    /\ asmJSWorklist' = IF clientPC[c] = "asmCancel" THEN 0 ELSE asmJSWorklist
    /\ asmJSFinishedList' = 0 /\ numAsmJSFailedJobs' = 0
    /\ outstandingJobs' = outstandingJobs - (asmJSWorklist - asmJSWorklist')
                            - asmJSFinishedList
    /\ Goto(c, IF outstandingJobs' > 0 THEN "asmCancelWait" ELSE "asmCancel")
    /\ OnlyClient
    /\ UNCHANGED <<asmOwner, dispatched, haveTask, compressionWorklist, workerPC>>

\* CancelOutstandingJobs(): pending, finished and failed functions are taken
\* back at once, those a worker is compiling are waited for.
CancelOutstandingJobs(c) ==
    /\ clientPC[c] \in {"asmCancel", "asmCancelTest"}
    /\ outstandingJobs > 0
    /\ asmJSWorklist' = IF clientPC[c] = "asmCancel" THEN 0 ELSE asmJSWorklist
    /\ asmJSFinishedList' = 0 /\ numAsmJSFailedJobs' = 0
    /\ outstandingJobs' = outstandingJobs - (asmJSWorklist - asmJSWorklist')
                            - asmJSFinishedList - numAsmJSFailedJobs
    /\ Goto(c, IF outstandingJobs' > 0 THEN "asmCancelWait" ELSE "asmCancel")
    /\ OnlyClient
    /\ UNCHANGED <<asmOwner, dispatched, haveTask, compressionWorklist, workerPC>>

\* CheckFunctionsParallel() returns: ~ParallelCompilationGuard().
ReleaseParallelCompilation(c) ==
    /\ \/ clientPC[c] = "asmSubmit" /\ dispatched = AsmJobs
       \/ clientPC[c] = "asmCancel"
    /\ outstandingJobs = 0
    /\ asmOwner' = NoTask
    /\ Goto(c, "complete")
    /\ OnlyClient
    /\ UNCHANGED <<asmJSWorklist, asmJSFinishedList, numAsmJSFailedJobs, outstandingJobs,
                   dispatched, haveTask, compressionWorklist, workerPC>>

\* Mutant: only the worklist is searched.
compressionInProgress_queued(c) == c \in compressionWorklist

compressionInProgress(c) ==
    \/ c \in compressionWorklist
    \/ \E w \in Running("compression") : task[w] = c

\* SourceCompressionTask::complete(), and the end of the compilation.
CompleteCompression(c) ==
    /\ clientPC[c] = "complete"
    /\ Goto(c, IF compressionInProgress(c) THEN "completeWait" ELSE "done")
    /\ OnlyClient /\ UNCHANGED <<asmVars, compressionWorklist, workerPC>>

ClientStep(c) ==
    \/ SetSource(c) \/ ParseAlone(c) \/ ClaimParallelCompilation(c)
    \/ SubmitFunction(c) \/ NeedFinished(c) \/ GetFinishedCompilation(c)
    \/ CancelOutstandingJobs(c) \/ ReleaseParallelCompilation(c)
    \/ CompleteCompression(c)

-----------------------------------------------------------------------------
(* The main thread.                                                        *)

\* Free to start something: neither blocked nor in the middle of a compilation.
MainFree == mainPC = "running" /\ clientPC[Main] \in {"none", "done"}

StartCompilation ==
    /\ MainFree /\ clientPC[Main] = "none"
    /\ Goto(Main, "setSource")
    /\ UNCHANGED <<ionVars, parseVars, asmVars, compressionWorklist, workerVars, mainVars>>

\* Mutant: no worker is woken.
StartOffThreadIonCompile_silent(b) ==
    /\ MainFree /\ b \notin built
    /\ ionWorklist' = ionWorklist \cup {b}
    /\ built' = built \cup {b}
    /\ UNCHANGED <<ionFinished, parseVars, asmVars, compressionWorklist, workerVars,
                   clientPC, mainVars>>

StartOffThreadIonCompile(b) ==
    /\ MainFree /\ b \notin built
    /\ ionWorklist' = ionWorklist \cup {b}
    /\ built' = built \cup {b}
    /\ NotifyProducers
    /\ UNCHANGED <<ionFinished, parseVars, asmVars, compressionWorklist, task, terminate,
                   clientPC, mainVars>>

AttachFinishedCompilations ==
    /\ MainFree
    /\ \E b \in ionFinished : ionFinished' = ionFinished \ {b}
    /\ UNCHANGED <<ionWorklist, built, parseVars, asmVars, compressionWorklist, workerVars,
                   clientPC, mainVars>>

\* The loop over the threads from "from" on: wait for the first one that
\* compiles a target, or drop the targets from the finished list.
ScanThreads(targets, finished, from) ==
    LET busy == {w \in Running("ion") : w >= from /\ task[w] \in targets}
    IN IF busy = {}
       THEN /\ mainPC' = "cancelled"
            /\ ionFinished' = finished \ targets
            /\ UNCHANGED cursor
       ELSE /\ mainPC' = "cancelWait"
            /\ ionFinished' = finished
            /\ cursor' = CHOOSE w \in busy : \A v \in busy : w <= v

\* Cancel one script's compilation, or the compartment's (~JSRuntime, GC).
CancelOffThreadIonCompile(targets) ==
    /\ target' = targets
    /\ ionWorklist' = ionWorklist \ targets
    /\ ScanThreads(targets, ionFinished \cup (ionWorklist \cap targets), 1)
    /\ UNCHANGED <<built, parseVars, asmVars, compressionWorklist, workerVars, clientPC,
                   atomsZone, slices>>

Cancel ==
    /\ MainFree /\ cancels < MaxCancels
    /\ \E targets \in {{b} : b \in built} \cup {IonTask} : CancelOffThreadIonCompile(targets)
    /\ cancels' = cancels + 1
    /\ UNCHANGED destroying

\* Mutant: any notification is taken for the end of the compilation.
CancelWoken_once ==
    /\ mainPC = "cancelTest"
    /\ ScanThreads(target, ionFinished, cursor + 1)
    /\ UNCHANGED <<ionWorklist, built, parseVars, asmVars, compressionWorklist, workerVars,
                   clientPC, target, destroying, atomsZone, cancels, slices>>

CancelWoken ==
    /\ mainPC = "cancelTest"
    /\ ScanThreads(target, ionFinished, cursor)
    /\ UNCHANGED <<ionWorklist, built, parseVars, asmVars, compressionWorklist, workerVars,
                   clientPC, target, destroying, atomsZone, cancels, slices>>

CancelReturns ==
    /\ mainPC = "cancelled"
    /\ mainPC' = IF destroying THEN "parseTest" ELSE "running"
    /\ target' = {} /\ cursor' = 1
    /\ UNCHANGED <<ionVars, parseVars, asmVars, compressionWorklist, workerVars, clientPC,
                   destroying, atomsZone, cancels, slices>>

Submitted == parseWaitingOnGC \cup parseWorklist \cup called
                \cup {task[w] : w \in Running("parse")}
\* Mutant: a collection that has begun is overlooked.
activeGCInAtomsZone_scheduled == atomsZone = "scheduled"

activeGCInAtomsZone == atomsZone # "idle"

StartOffThreadParseScript(t) ==
    /\ MainFree /\ t \notin Submitted
    /\ IF activeGCInAtomsZone
       THEN /\ parseWaitingOnGC' = parseWaitingOnGC \cup {t}
            /\ UNCHANGED <<parseWorklist, usedByExclusiveThread, workerPC>>
       ELSE /\ usedByExclusiveThread' = usedByExclusiveThread \cup {t}
            /\ parseWorklist' = parseWorklist \cup {t}
            /\ NotifyProducers
            /\ UNCHANGED parseWaitingOnGC
    /\ UNCHANGED <<parseFinishedList, called, collected, ionVars, asmVars,
                   compressionWorklist, task, terminate, clientPC, mainVars>>

\* finishParseTask(): the token must be in the finished list.
finishParseTask(t) ==
    /\ parseFinishedList' = parseFinishedList \ {t}
    /\ usedByExclusiveThread' = usedByExclusiveThread \ {t}
    /\ collected' = collected \cup {t}
    /\ UNCHANGED <<parseWorklist, parseWaitingOnGC, called, ionVars, asmVars,
                   compressionWorklist, workerVars, clientPC, target, cursor, destroying,
                   atomsZone, cancels, slices>>

\* The embedder passes on the token its callback received.
FinishOffThreadScript(t) ==
    /\ MainFree /\ t \in called \ collected
    /\ finishParseTask(t)
    /\ UNCHANGED mainPC

\* TriggerGC() schedules every zone, the atoms zone too, for a GC to come.
ScheduleGC ==
    /\ MainFree /\ EarlySchedule /\ atomsZone = "idle" /\ slices < MaxSlices
    /\ atomsZone' = "scheduled"
    /\ UNCHANGED <<ionVars, parseVars, asmVars, compressionWorklist, workerVars, clientPC,
                   mainPC, target, cursor, destroying, cancels, slices>>

\* keepAtoms()
keepAtoms == usedByExclusiveThread # {}

Slice(pc, zone) ==
    /\ mainPC' = pc /\ atomsZone' = zone
    /\ UNCHANGED <<ionVars, parseVars, asmVars, compressionWorklist, workerVars, clientPC,
                   target, cursor, destroying, cancels>>

\* A slice that leaves the collection unfinished; BeginMarkPhase() lets a full
\* one collect atoms.  The end of a slice unschedules the zones.
GCSlice ==
    /\ MainFree /\ slices < MaxSlices
    /\ slices' = slices + 1
    /\ \/ atomsZone # "started" /\ ~keepAtoms /\ Slice("running", "started")
       \/ atomsZone = "scheduled" /\ Slice("running", "idle")

\* The slice that ends a collection, of atoms or not.
GCFinish ==
    /\ MainFree /\ (activeGCInAtomsZone \/ parseWaitingOnGC # {})
    /\ Slice("enqueue", "idle")
    /\ UNCHANGED slices

\* Mutant: no worker is woken.
EnqueuePendingParseTasksAfterGC_silent ==
    /\ mainPC = "enqueue"
    /\ mainPC' = IF destroying THEN "ended" ELSE "running"
    /\ usedByExclusiveThread' = usedByExclusiveThread \cup parseWaitingOnGC
    /\ parseWorklist' = IF parseWaitingOnGC = {} THEN parseWorklist ELSE parseWaitingOnGC
    /\ parseWaitingOnGC' = {}
    /\ UNCHANGED <<parseFinishedList, called, collected, ionVars, asmVars,
                   compressionWorklist, workerVars, clientPC, target, cursor,
                   destroying, atomsZone, cancels, slices>>

EnqueuePendingParseTasksAfterGC ==
    /\ mainPC = "enqueue"
    /\ mainPC' = IF destroying THEN "ended" ELSE "running"
    /\ IF parseWaitingOnGC = {}
       THEN UNCHANGED <<parseWorklist, parseWaitingOnGC, usedByExclusiveThread, workerPC>>
       ELSE /\ usedByExclusiveThread' = usedByExclusiveThread \cup parseWaitingOnGC
            /\ parseWorklist' = parseWaitingOnGC
            /\ parseWaitingOnGC' = parseWorklist
            /\ NotifyProducers
    /\ UNCHANGED <<parseFinishedList, called, collected, ionVars, asmVars,
                   compressionWorklist, task, terminate, clientPC, target, cursor,
                   destroying, atomsZone, cancels, slices>>

-----------------------------------------------------------------------------
(* ~JSRuntime(): cancel all Ion compilations, wait for the parse tasks,    *)
(* WorkerThreadState::cleanup(), and a last full GC.                       *)

OnlyMainPC(from, to) ==
    /\ mainPC = from /\ mainPC' = to
    /\ UNCHANGED <<ionVars, parseVars, asmVars, compressionWorklist, clientPC, target,
                   destroying, atomsZone, cancels, slices>>

Destroy ==
    /\ MainFree /\ (DestroyAnytime \/ parseWaitingOnGC = {})
    /\ CancelOffThreadIonCompile(IonTask)
    /\ destroying' = TRUE
    /\ UNCHANGED cancels

WaitForOffThreadParsingToFinish ==
    /\ OnlyMainPC("parseTest",
           IF parseWorklist = {} /\ Running("parse") = {} THEN "destroy" ELSE "parseWait")
    /\ UNCHANGED <<workerVars, cursor>>

\* Mutant: a single worker is woken, maybe not this one.
TerminateThread_one ==
    /\ OnlyMainPC("destroy", "join")
    /\ terminate' = [terminate EXCEPT ![cursor] = TRUE]
    /\ NotifyOneProducer
    /\ UNCHANGED <<task, cursor>>

\* WorkerThread::destroy(), for one thread after the other.
TerminateThread ==
    /\ OnlyMainPC("destroy", "join")
    /\ terminate' = [terminate EXCEPT ![cursor] = TRUE]
    /\ NotifyProducers
    /\ UNCHANGED <<task, cursor>>

\* Mutant: the loop runs one thread too far.
JoinThread_offByOne ==
    /\ workerPC[cursor] = "exited"
    /\ OnlyMainPC("join", IF cursor > NumThreads THEN "drain" ELSE "destroy")
    /\ cursor' = cursor + 1
    /\ UNCHANGED workerVars

JoinThread ==
    /\ workerPC[cursor] = "exited"
    /\ OnlyMainPC("join", IF cursor = NumThreads THEN "drain" ELSE "destroy")
    /\ cursor' = IF cursor = NumThreads THEN 1 ELSE cursor + 1
    /\ UNCHANGED workerVars

CleanUpParseTask ==
    /\ mainPC = "drain"
    /\ \E t \in parseFinishedList : finishParseTask(t)
    /\ UNCHANGED mainPC

CleanedUp ==
    /\ parseFinishedList = {}
    /\ OnlyMainPC("drain", "lastGC")
    /\ UNCHANGED <<workerVars, cursor>>

LastGC ==
    /\ mainPC = "lastGC"
    /\ Slice("enqueue", "idle")
    /\ UNCHANGED slices

Ended == mainPC = "ended" /\ UNCHANGED vars

-----------------------------------------------------------------------------
\* Steps the main thread takes without the program or the embedder choosing to.
MainStep ==
    \/ CancelWoken \/ CancelReturns \/ EnqueuePendingParseTasksAfterGC
    \/ WaitForOffThreadParsingToFinish \/ TerminateThread \/ JoinThread
    \/ CleanUpParseTask \/ CleanedUp \/ LastGC

Next ==
    \/ \E w \in Worker : WorkerStep(w)
    \/ \E c \in Client : ClientStep(c)
    \/ \E b \in IonTask : StartOffThreadIonCompile(b)
    \/ \E t \in ParseTask : StartOffThreadParseScript(t) \/ FinishOffThreadScript(t)
    \/ StartCompilation \/ AttachFinishedCompilations \/ Cancel
    \/ ScheduleGC \/ GCSlice \/ GCFinish
    \/ MainStep \/ Destroy \/ Ended

Spec == Init /\ [][Next]_vars

(* Threads are scheduled, compilations end, and the embedder finishes the  *)
(* incremental collections it begins.                                      *)
FairSpec ==
    /\ Spec
    /\ \A w \in Worker : WF_vars(WorkerStep(w))
    /\ \A c \in Client : WF_vars(ClientStep(c))
    /\ WF_vars(MainStep) /\ WF_vars(GCFinish)

-----------------------------------------------------------------------------
(* Correctness.                                                            *)

TypeOK ==
    /\ ionWorklist \subseteq IonTask /\ ionFinished \subseteq IonTask
    /\ built \subseteq IonTask /\ target \subseteq IonTask
    /\ \A s \in {parseWorklist, parseFinishedList, parseWaitingOnGC, called, collected,
                 usedByExclusiveThread} : s \subseteq ParseTask
    /\ compressionWorklist \subseteq Client
    /\ {asmJSWorklist, asmJSFinishedList, numAsmJSFailedJobs, dispatched} \subseteq 0..AsmJobs
    /\ outstandingJobs \in 0..AsmJobs
    /\ haveTask \in BOOLEAN /\ destroying \in BOOLEAN
    /\ asmOwner \in Client \cup {NoTask}
    /\ workerPC \in [Worker -> WorkerPC]
    /\ task \in [Worker -> IonTask \cup Client \cup {NoTask}]
    /\ terminate \in [Worker -> BOOLEAN]
    /\ clientPC \in [Client -> ClientPC]
    /\ mainPC \in MainPC /\ cursor \in Worker
    /\ atomsZone \in {"idle", "scheduled", "started"}
    /\ cancels \in 0..MaxCancels /\ slices \in 0..MaxSlices

\* Once the callback has given its token away, the embedder may finish the
\* script: the task is in the finished list until then (finishParseTask()
\* asserts that it finds the token).
TokensAreFinished == called = parseFinishedList \cup collected

\* When CancelOffThreadIonCompile() returns, no queue, worker or result of a
\* cancelled script is left: its caller goes on to free the script's code.
CancelIsComplete ==
    mainPC = "cancelled" =>
        target \cap (ionWorklist \cup ionFinished \cup {task[w] : w \in Running("ion")}) = {}

\* The group's outstandingJobs, decremented in six places without a common
\* owner, counts exactly the functions that workers can still reach; and
\* CheckFunctionsParallel() returns, and frees the LifoAllocs of its tasks, only
\* when there is none.
OutstandingJobsExact ==
    LET reachable == asmJSWorklist + asmJSFinishedList + Cardinality(Running("asmJS"))
    IN IF asmOwner # NoTask THEN outstandingJobs = reachable + numAsmJSFailedJobs
                            ELSE reachable = 0

\* At most numParallelJobs LifoAllocs are in use at once.
LifosSuffice == outstandingJobs + (IF haveTask THEN 1 ELSE 0) <= numParallelJobs

\* A SourceCompressionTask lives on its compilation's stack: when the
\* compilation is over, neither the worklist nor a worker refers to it.
CompressionIsOver ==
    \A c \in Client : clientPC[c] = "done" =>
        c \notin compressionWorklist \cup {task[w] : w \in Running("compression")}

\* No thread parses, creating atoms without barriers, while atoms are collected.
AtomsGCExcludesParsing ==
    atomsZone = "started" => parseWorklist = {} /\ Running("parse") = {}

\* JS_ASSERT(state.parseWorklist.empty()) in EnqueuePendingParseTasksAfterGC().
EnqueueFindsNoParse ==
    mainPC = "enqueue" /\ parseWaitingOnGC # {} => parseWorklist = {}

\* JS_ASSERT(!numExclusiveThreads) in ~JSRuntime(): all parse tasks are over.
NoExclusiveThreadsAtEnd == mainPC = "ended" => usedByExclusiveThread = {}

\* A submitted script is parsed and its callback invoked, whether a GC of atoms
\* held it back or not, and although its worker may wait for other workers.
CallbackIsInvoked == \A t \in ParseTask : t \in Submitted ~> t \in called

\* A submitted builder is compiled or cancelled.
BuildersFinish == \A b \in IonTask : b \in ionWorklist ~> b \notin ionWorklist

\* The main thread's compilation, which waits for the workers' asm.js and
\* compression work, ends: the workers are never all waiting themselves.
CompilationEnds == clientPC[Main] = "setSource" ~> clientPC[Main] = "done"

\* The destruction of the runtime gets past every worker: it cancels, waits for
\* the parses, wakes and joins the idle workers.
DestructionEnds == destroying ~> mainPC = "ended"

=============================================================================
