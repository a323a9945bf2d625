------------------------------ MODULE ForkJoin ------------------------------
(***************************************************************************)
(* ForkJoin(kernel, mode, numSlices) of vm/ForkJoin.cpp.                   *)
(*                                                                         *)
(* The main thread (ForkJoinOperation) compiles the kernel and what it     *)
(* calls, running warm-up calls of the kernel while it waits; it then runs *)
(* the slices as a job of the thread pool (ForkJoinShared); when a slice   *)
(* bails out it recovers and tries again, and after MAX_BAILOUTS attempts  *)
(* calls the kernel sequentially.  The kernel is arbitrary: in parallel it *)
(* may run for ever, ask for a collection, bail out or fail.  The pool is  *)
(* taken by its promise (ParallelJob), with the names of the threads.      *)
(***************************************************************************)
EXTENDS Integers, Sequences, SequencesExt

CONSTANTS
    NumWorkers,       \* threads of the pool, besides the main thread
    MaxSlices,        \* bound on numSlices
    Callee,           \* scripts that the kernel calls
    Mode,             \* modes to try: "normal", "compile", "parallel", ...
    Zone,             \* zones a slice may ask to collect
    MAX_BAILOUTS,     \* 3 in the code
    stallThreshold,   \* 3 in the code
    MaxUses,          \* bound: use count of a script without baseline code
    MaxEvents         \* bound: interrupts from outside, and collections that
                      \* discard code

ASSUME ForkJoinAssumption ==
    /\ NumWorkers \in Nat /\ MaxSlices \in Nat \ {0}
    /\ Mode \subseteq {"normal", "compile", "parallel", "recover", "bailout"}
    /\ MAX_BAILOUTS \in Nat \ {0} /\ stallThreshold \in Nat \ {0}
    /\ MaxUses \in Nat /\ MaxEvents \in Nat
    /\ {"none", "full"} \cap Zone = {} /\ {"none", "kernel"} \cap Callee = {}

Kernel == "kernel"
Script == {Kernel} \cup Callee
Main == NumWorkers                       \* the main thread's index
Thread == 0..NumWorkers
NoSlice == MaxSlices
Slice == 0..(MaxSlices - 1)

VARIABLES
    \* ForkJoinOperation
    mode, numSlices,
    pc,           \* what the main thread is doing
    status,       \* ExecutionStatus, "none" until it is decided
    bailouts, warmupSlice,
    cur,          \* slice whose warm-up or sequential call is under way
    answered,     \* slices for which the kernel has answered true (history)
    worklist,     \* scripts to compile
    data,         \* WorklistData of each script in worklist
    index,        \* position of the walk over worklist
    waiting,      \* the walk met a compilation or a script without types
    \* scripts
    code,         \* parallel code: "none", "compiling" or "finished" (by a
                  \* helper, not attached), or "present"
    baseline,     \* scripts with baseline code
    uses,         \* use counts of the others
    \* the runtime
    interrupt,    \* an operation callback is due
    scheduled,    \* zones to collect at the next interrupt (gcIsNeeded)
    due,          \* zones the slices of the job asked to collect (history)
    budget,       \* events left to the environment
    \* ForkJoinShared and the pool
    abort, fatal,
    request,      \* what gcRequested_ and gcZone_ ask for
    blamed,       \* scripts that the bailout records of the threads blame
    todo,         \* slices of the job not yet claimed
    work,         \* the slice each thread works on
    at,           \* where each thread is in its callback
    mainActive    \* isMainThreadActive()

opVars == <<mode, numSlices, bailouts, warmupSlice, answered>>
listVars == <<worklist, data, index, waiting>>
codeVars == <<code, baseline, uses>>
rtVars == <<interrupt, scheduled, due, budget>>
sharedVars == <<abort, fatal, request, blamed>>
poolVars == <<todo, work, at, mainActive>>
vars == <<opVars, pc, status, cur, listVars, codeVars, rtVars, sharedVars,
          poolVars>>

HasCode(s) == code[s] = "present"   \* hasParallelIonScript()

NoData == [calleesEnqueued |-> FALSE, useCount |-> 0, stallCount |-> 0]
Full == "full"                     \* gcZone_ is null: a collection of all zones
ZonesOf(req) == IF req = Full THEN Zone ELSE IF req = "none" THEN {} ELSE {req}

Init ==
    /\ mode \in Mode /\ numSlices \in 1..MaxSlices
    /\ pc = "idle" /\ status = "none"
    /\ bailouts = 0 /\ warmupSlice = 0
    /\ cur = NoSlice /\ answered = {}
    /\ worklist = <<>> /\ data = [s \in Script |-> NoData]
    /\ index = 1 /\ waiting = FALSE
    /\ code \in [Script -> {"none", "present"}]
    /\ baseline = {s \in Script : HasCode(s)}
    /\ uses = [s \in Script |-> 0]
    /\ interrupt = FALSE /\ scheduled = {} /\ due = {}
    /\ budget = MaxEvents
    /\ abort = FALSE /\ fatal = FALSE /\ request = "none"
    /\ blamed = {}
    /\ todo = {} /\ work = [t \in Thread |-> NoSlice]
    /\ at = [t \in Thread |-> "idle"] /\ mainActive = FALSE

-----------------------------------------------------------------------------
(* The end of the operation.                                               *)

\* What the modes for tests require of a run.
AsExpected(st) ==
    CASE mode \in {"normal", "compile"} -> TRUE
      [] mode = "parallel" -> st = "parallel" /\ bailouts = 0
      [] mode = "recover"  -> st # "sequential" /\ bailouts > 0
      [] mode = "bailout"  -> st # "parallel"

\* The operation returns; ParallelTestsShouldPass() decides whether a surprise
\* is an error.
Over(st) ==
    /\ pc' = "over"
    /\ status' \in IF AsExpected(st) THEN {st} ELSE {st, "fatal"}

Stopped == pc = "over" /\ UNCHANGED vars

-----------------------------------------------------------------------------
(* Calls of the kernel on the main thread.                                 *)

\* ExecuteSequentially() calls the kernel on the slices from the current one.
BeginCall ==
    /\ pc \in {"warmup", "recoverWarmup", "sequential"}
    /\ cur = NoSlice
    /\ warmupSlice < numSlices
    /\ cur' = warmupSlice
    /\ UNCHANGED <<opVars, pc, status, listVars, codeVars, rtVars, sharedVars,
                   poolVars>>

\* Running JavaScript polls the interrupt flag, so none is pending at the end.
\* A warm-up that completes its slice is followed by one of the next slice; a
\* sequential run takes every slice in turn.
EndCall(answer) ==
    /\ cur # NoSlice /\ ~interrupt
    /\ answer \/ pc # "sequential"
    /\ cur' = NoSlice
    /\ answered' = IF answer THEN answered \cup {cur} ELSE answered
    /\ warmupSlice' = IF answer THEN warmupSlice + 1 ELSE warmupSlice
    /\ pc' = CASE pc = "warmup"        -> "warm"
               [] pc = "recoverWarmup" -> "recoverWarm"
               [] pc = "sequential"    -> "sequential"
    /\ UNCHANGED <<mode, numSlices, bailouts, status, listVars, codeVars, rtVars,
                   sharedVars, poolVars>>

\* The kernel throws, or the operation callback ends the script.
Throw ==
    /\ cur # NoSlice
    /\ cur' = NoSlice
    /\ Over("fatal")
    /\ UNCHANGED <<opVars, listVars, codeVars, rtVars, sharedVars, poolVars>>

\* sequentialExecution(): all slices, from the first one.
FallBack ==
    /\ pc' = "sequential"
    /\ warmupSlice' = 0
    /\ UNCHANGED <<mode, numSlices, bailouts, answered, status, cur>>

SequentialDone ==
    /\ pc = "sequential" /\ cur = NoSlice /\ warmupSlice = numSlices
    /\ Over("sequential")
    /\ UNCHANGED <<opVars, cur, listVars, codeVars, rtVars, sharedVars, poolVars>>

\* The interpreter counts the calls of a script and then compiles it with the
\* baseline compiler.
Interpret(s) ==
    /\ cur # NoSlice /\ s \notin baseline
    /\ \/ uses[s] < MaxUses /\ uses' = [uses EXCEPT ![s] = @ + 1]
          /\ UNCHANGED baseline
       \/ baseline' = baseline \cup {s} /\ uses' = [uses EXCEPT ![s] = 0]
    /\ UNCHANGED <<opVars, pc, status, cur, listVars, code, rtVars, sharedVars,
                   poolVars>>

\* A step that leaves the code kept, unless a collection discards code: all
\* parallel code and compilations under way, and the baseline code of scripts that
\* are not running; all scripts count their uses afresh.
OnStack == IF cur = NoSlice THEN {{}} ELSE {{Kernel}, Script}   \* as may be
MayDiscard(kept) ==
    \/ code' = kept /\ UNCHANGED <<baseline, uses, budget>>
    \/ /\ budget > 0 /\ budget' = budget - 1
       /\ code' = [s \in Script |-> "none"]
       /\ \E active \in OnStack : baseline' = baseline \cap active
       /\ uses' = [s \in Script |-> 0]

\* js_InvokeOperationCallback(): the collections that are due, then
\* AttachFinishedCompilations().
HandleInterrupt ==
    /\ interrupt' = FALSE
    /\ scheduled' = {} /\ UNCHANGED due
    /\ MayDiscard([s \in Script |-> IF code[s] = "finished" THEN "present" ELSE code[s]])

\* js_HandleExecutionInterrupt(), which may end the script.
HandleExecutionInterrupt(then) ==
    \/ ~interrupt /\ pc' = then /\ UNCHANGED <<status, codeVars, rtVars>>
    \/ interrupt /\ HandleInterrupt /\ pc' = then /\ UNCHANGED status
    \/ interrupt /\ Over("fatal") /\ UNCHANGED <<codeVars, rtVars>>

PollInCall ==
    /\ cur # NoSlice /\ interrupt
    /\ HandleInterrupt
    /\ UNCHANGED <<opVars, pc, status, cur, listVars, sharedVars, poolVars>>

-----------------------------------------------------------------------------
(* Compilation.                                                            *)

Listed == {worklist[i] : i \in DOMAIN worklist}

Call ==
    /\ pc = "idle"
    /\ pc' = "enqueue"
    /\ UNCHANGED <<opVars, status, cur, listVars, codeVars, rtVars, sharedVars,
                   poolVars>>

\* apply() up to the loop: kernels that cannot be compiled run sequentially, one
\* already compiled with its callees needs no compilation.  Its flag
\* hasUncompiledCallTarget says whether they are; nothing else reads it, so it is
\* a choice here, whatever sets it (link(), PropagateAbortPar()) or clears it.
EnqueueInitialScript ==
    /\ pc = "enqueue"
    /\ \/ HasCode(Kernel) /\ UNCHANGED <<worklist, data>>
       \/ worklist' = <<Kernel>> /\ data' = [data EXCEPT ![Kernel] = NoData]
    /\ \/ FallBack
       \/ mode \in {"parallel", "recover"} /\ worklist' # <<>>
          /\ Over("fatal") /\ UNCHANGED <<opVars, cur>>
       \/ pc' = "attempt" /\ UNCHANGED <<opVars, status, cur>>
    /\ UNCHANGED <<index, waiting, codeVars, rtVars, sharedVars, poolVars>>

\* Mutant: one attempt too many.
Attempt_oneMore ==
    /\ pc = "attempt"
    /\ IF bailouts <= MAX_BAILOUTS
       THEN /\ pc' = "walk"
            /\ blamed' = {}
            /\ UNCHANGED <<opVars, status, cur>>
       ELSE FallBack /\ UNCHANGED blamed
    /\ UNCHANGED <<listVars, codeVars, rtVars, abort, fatal, request, poolVars>>

\* while (bailouts < MAX_BAILOUTS), at its head.
Attempt ==
    /\ pc = "attempt"
    /\ IF bailouts < MAX_BAILOUTS
       THEN /\ pc' = "walk"
            /\ blamed' = {}
            /\ UNCHANGED <<opVars, status, cur>>
       ELSE FallBack /\ UNCHANGED blamed
    /\ UNCHANGED <<listVars, codeVars, rtVars, abort, fatal, request, poolVars>>

InWalk == pc = "walk" /\ index <= Len(worklist)
NextEntry == index' = index + 1 /\ UNCHANGED pc

\* A script without baseline code: wait for it as long as it is being called,
\* and for stallThreshold rounds when it is not.
GatherTypes ==
    /\ InWalk /\ worklist[index] \notin baseline
    /\ LET s == worklist[index]
           stalls == IF data[s].stallCount < stallThreshold   \* else it does not matter
                     THEN data[s].stallCount + 1 ELSE stallThreshold
       IN IF data[s].useCount < uses[s]
          THEN /\ data' = [data EXCEPT ![s].useCount = uses[s], ![s].stallCount = 0]
               /\ waiting' = TRUE
          ELSE /\ data' = [data EXCEPT ![s].stallCount = stalls]
               /\ waiting' = (waiting \/ stalls < stallThreshold)
    /\ NextEntry
    /\ UNCHANGED <<opVars, status, cur, worklist, codeVars, rtVars, sharedVars,
                   poolVars>>

\* CanEnterInParallel() answers Method_Skipped for a script that a helper
\* compiles, and may hand the script to one.
CompileOffThread ==
    /\ InWalk /\ worklist[index] \in baseline
    /\ ~HasCode(worklist[index])
    /\ code' = [code EXCEPT ![worklist[index]] = IF @ = "none" THEN "compiling" ELSE @]
    /\ waiting' = TRUE
    /\ NextEntry
    /\ UNCHANGED <<opVars, status, cur, worklist, data, baseline, uses,
                   rtVars, sharedVars, poolVars>>

\* The other answers end the operation, as do call targets that cannot be
\* compiled or are expected to bail out.  The worklist is of no more use.
CannotCompile ==
    /\ InWalk /\ worklist[index] \in baseline
    /\ HasCode(worklist[index]) \/ code[worklist[index]] = "none"
    /\ \/ FallBack
       \/ Over("fatal") /\ UNCHANGED <<opVars, cur>>
    /\ worklist' = <<>> /\ data' = [s \in Script |-> NoData]
    /\ index' = 1 /\ waiting' = FALSE
    /\ UNCHANGED <<codeVars, rtVars, sharedVars, poolVars>>

\* The script is compiled, now or before; its call targets are enqueued, which
\* may collect garbage.
Compiled ==
    /\ InWalk /\ worklist[index] \in baseline
    /\ LET s == worklist[index]
           targets == IF s = Kernel /\ ~data[s].calleesEnqueued THEN Callee ELSE {}
           fresh == targets \ Listed
       IN /\ HasCode(s) \/ code[s] = "none"
          /\ MayDiscard([code EXCEPT ![s] = "present"])
          /\ worklist' = worklist \o SetToSeq(fresh)
          /\ data' = [x \in Script |-> IF x \in fresh THEN NoData
                      ELSE IF x = s THEN [data[x] EXCEPT !.calleesEnqueued = TRUE]
                      ELSE data[x]]
    /\ NextEntry
    /\ UNCHANGED <<opVars, status, cur, waiting, interrupt, scheduled, due, sharedVars,
                   poolVars>>

\* The end of the walk: a warm-up while there is something to wait for; else
\* start again if a collection took code away.
Missing == {s \in Listed : ~HasCode(s) /\ data[s].stallCount < stallThreshold}

EndWalk ==
    /\ pc = "walk" /\ index > Len(worklist)
    /\ index' = 1 /\ waiting' = FALSE
    /\ IF waiting THEN pc' = "warmup" /\ UNCHANGED data
       ELSE IF Missing # {}
       THEN /\ data' = [s \in Script |-> IF s \in Missing THEN NoData ELSE data[s]]
            /\ UNCHANGED pc
       ELSE /\ pc' = IF mode = "normal" THEN "compiled" ELSE "stopCompiling"
            /\ UNCHANGED data
    /\ UNCHANGED <<opVars, status, cur, worklist, codeVars, rtVars, sharedVars,
                   poolVars>>

\* In the modes for tests no helper may raise an interrupt in the attempt:
\* StopAllOffThreadCompilations().
StopCompiling ==
    /\ pc = "stopCompiling"
    /\ pc' = "handleInterrupt"
    /\ code' = [s \in Script |-> IF HasCode(s) THEN code[s] ELSE "none"]
    /\ UNCHANGED <<opVars, status, cur, listVars, baseline, uses, rtVars, sharedVars,
                   poolVars>>

InterruptBeforeAttempt ==
    /\ pc = "handleInterrupt"
    /\ HandleExecutionInterrupt("compiled")
    /\ UNCHANGED <<opVars, cur, listVars, sharedVars, poolVars>>

\* The worklist is done with: compiled scripts and scripts not worth waiting for.
ClearWorklist ==
    /\ pc = "compiled"
    /\ pc' = "execute"
    /\ worklist' = <<>> /\ data' = [s \in Script |-> NoData]
    /\ UNCHANGED <<opVars, status, cur, index, waiting, codeVars, rtVars, sharedVars,
                   poolVars>>

\* Mutant: without work left, compile mode does not look at the interrupt that
\* attaches what the helpers have finished.
AfterWarmup_deaf ==
    /\ \/ pc \in {"warm", "recoverWarm"}
       \/ pc \in {"warmup", "recoverWarmup"} /\ cur = NoSlice /\ warmupSlice = numSlices
    /\ LET recovering == pc \in {"recoverWarmup", "recoverWarm"}
           then == IF recovering THEN "attempt" ELSE "walk"
       IN IF warmupSlice = numSlices /\ (recovering \/ mode # "compile")
          THEN Over("warmup") ELSE pc' = then /\ UNCHANGED status
    /\ UNCHANGED <<opVars, cur, listVars, codeVars, rtVars, sharedVars, poolVars>>

\* warmupExecution() after its call, or without one when every slice has been
\* completed by warm-ups: all the work is done, but compile mode goes on until
\* the compilations are finished.
AfterWarmup ==
    /\ \/ pc \in {"warm", "recoverWarm"}
       \/ pc \in {"warmup", "recoverWarmup"} /\ cur = NoSlice /\ warmupSlice = numSlices
    /\ LET recovering == pc \in {"recoverWarmup", "recoverWarm"}
           then == IF recovering THEN "attempt" ELSE "walk"
       IN IF warmupSlice < numSlices THEN
             pc' = then /\ UNCHANGED <<status, codeVars, rtVars>>
          ELSE IF recovering \/ mode # "compile" THEN
             Over("warmup") /\ UNCHANGED <<codeVars, rtVars>>
          ELSE HandleExecutionInterrupt(then)
    /\ UNCHANGED <<opVars, cur, listVars, sharedVars, poolVars>>

-----------------------------------------------------------------------------
(* The parallel section.                                                   *)

\* parallelExecution() and ForkJoinShared::execute() up to executeJob().
\* ForkJoinActivation finishes an incremental collection, which may discard
\* code.  Lack of memory is fatal, for execute() and for executeJob().
Execute ==
    /\ pc = "execute"
    /\ MayDiscard(code)
    /\ \/ Over("fatal") /\ UNCHANGED <<todo, mainActive>>
       \/ /\ interrupt /\ pc' = "recover"
          /\ UNCHANGED <<status, todo, mainActive>>
       \/ /\ ~interrupt /\ pc' = "job"
          /\ todo' = 0..(numSlices - 1) /\ mainActive' = TRUE
          /\ UNCHANGED status
    /\ UNCHANGED <<opVars, cur, listVars, interrupt, scheduled, due, sharedVars, work,
                   at>>

\* What a thread does in its callback leaves the operation alone.
InJob == pc = "job" /\ UNCHANGED <<opVars, pc, status, cur, listVars, baseline, uses>>
Goto(t, where) == at' = [at EXCEPT ![t] = where]

Claim(t) ==
    /\ pc = "job" /\ at[t] = "idle"
    /\ t = Main => mainActive
    /\ \E s \in todo :
          /\ todo' = todo \ {s}
          /\ work' = [work EXCEPT ![t] = s]
    /\ Goto(t, "enter")
    /\ UNCHANGED <<opVars, pc, status, cur, listVars, codeVars, rtVars, sharedVars,
                   mainActive>>

\* executeFromWorker() and executePortion(): the thread's data may be lacking,
\* the kernel's code may have been collected.
EnterPortion(t) ==
    /\ InJob /\ at[t] = "enter"
    /\ \/ t # Main /\ Goto(t, "setFatal")
       \/ Goto(t, IF HasCode(Kernel) THEN "kernel" ELSE "setAbort")
    /\ UNCHANGED <<code, rtVars, sharedVars, todo, work, mainActive>>

\* setAbortFlag(), after which the portion is over, or, when it was called by
\* requestGC(), goes on until it next looks at the flag.
SetAbortFlag(t) ==
    /\ InJob /\ at[t] \in {"setAbort", "setFatal", "requested"}
    /\ abort' = TRUE
    /\ fatal' = (fatal \/ at[t] = "setFatal")
    /\ interrupt' = TRUE
    /\ Goto(t, IF at[t] = "requested" THEN "kernel" ELSE "failed")
    /\ UNCHANGED <<code, scheduled, due, budget, request, blamed, todo, work,
                   mainActive>>

\* The pool's abortJob(): the slices left are dropped, and the thread waits
\* until there are none, so that it claims no other slice of the job.
AbortJob(t) ==
    /\ InJob /\ at[t] = "failed"
    /\ todo' = {}
    /\ work' = [work EXCEPT ![t] = NoSlice]
    /\ Goto(t, "stopped")
    /\ UNCHANGED <<code, rtVars, sharedVars, mainActive>>

\* The kernel answers, and executeFromWorker() returns !abort_.
Complete(t) ==
    /\ pc = "job" /\ at[t] = "kernel"
    /\ answered' = answered \cup {work[t]}
    /\ IF abort THEN Goto(t, "failed") /\ UNCHANGED work
       ELSE Goto(t, "idle") /\ work' = [work EXCEPT ![t] = NoSlice]
    /\ UNCHANGED <<mode, numSlices, bailouts, warmupSlice, pc, status, cur, listVars,
                   codeVars, rtVars, sharedVars, todo, mainActive>>

\* The call of the kernel fails in script s, which is at fault or is not.
Bail(t, s, atFault) ==
    /\ HasCode(s)
    /\ Goto(t, "setAbort")
    /\ blamed' = IF atFault THEN blamed \cup {s} ELSE blamed

\* Compiled code gives up; only an illegal write spares the script.
BailOut(t) ==
    /\ InJob /\ at[t] = "kernel"
    /\ \E s \in Script, atFault \in BOOLEAN : Bail(t, s, atFault)
    /\ UNCHANGED <<code, rtVars, abort, fatal, request, todo, work, mainActive>>

\* setPendingAbortFatal() stores the flag without the lock: a setAbortFlag()
\* that has read it before and writes it after undoes the store.
BailOutFatally(t) ==
    /\ InJob /\ at[t] = "kernel"
    /\ fatal' \in {TRUE} \cup
          (IF \E u \in Thread \ {t} : at[u] \in {"setAbort", "requested"}
           THEN {fatal} ELSE {})
    /\ \E s \in Script : Bail(t, s, TRUE)
    /\ UNCHANGED <<code, rtVars, abort, request, todo, work, mainActive>>

\* Mutant: workers leave the interrupt to the main thread.
CheckFails_mainOnly(t) ==
    interrupt /\ (abort \/ t = Main)

\* check(), which compiled code calls at every loop and call.  The thread that
\* finds the interrupt is not at fault; one that follows an abort leaves a cause
\* unset, and its script is blamed.
CheckFails(t) ==
    interrupt /\ (abort \/ t = Main \/ ~mainActive)

Check(t) ==
    /\ InJob /\ at[t] = "kernel"
    /\ CheckFails(t)
    /\ \E s \in Script : Bail(t, s, abort)
    /\ UNCHANGED <<code, rtVars, abort, fatal, request, todo, work, mainActive>>

\* Mutant: the last request is the one that counts.
Merged_last(zone) == zone

\* requestGC() and requestZoneGC(): two requests for different zones make one
\* for all of them.
Merged(zone) == IF zone = Full \/ (request # "none" /\ request # zone) THEN Full ELSE zone

RequestGC(t) ==
    /\ InJob /\ at[t] = "kernel"
    /\ \E zone \in Zone \cup {Full} :
          /\ request' = Merged(zone)
          /\ due' = due \cup ZonesOf(zone)
    /\ Goto(t, "requested")
    /\ UNCHANGED <<code, interrupt, scheduled, budget, abort, fatal, blamed, todo,
                   work, mainActive>>

\* The main thread finds no slice left to claim.
MainLeaves ==
    /\ InJob /\ mainActive
    /\ at[Main] \in {"idle", "stopped"} /\ todo = {}
    /\ mainActive' = FALSE
    /\ UNCHANGED <<code, rtVars, sharedVars, todo, work, at>>

\* Mutant: the section ends well although a slice has been given up.
Join_abortIgnored ==
    /\ pc = "job" /\ ~mainActive /\ todo = {}
    /\ \A t \in Thread : at[t] \in {"idle", "stopped"}
    /\ at' = [t \in Thread |-> "idle"]
    /\ scheduled' = scheduled \cup ZonesOf(request)
    /\ interrupt' = (interrupt \/ request # "none")
    /\ request' = "none" /\ due' = {}
    /\ abort' = FALSE /\ fatal' = FALSE
    /\ IF fatal THEN Over("fatal") ELSE Over("parallel")
    /\ UNCHANGED <<opVars, cur, listVars, codeVars, budget, blamed, todo, work,
                   mainActive>>

\* The pool's barrier, then the rest of execute(): the requests are passed on
\* by TriggerGC() or TriggerZoneGC(), then the flags decide.
AllThreadsOut == \A t \in Thread : at[t] \in {"idle", "stopped"}
Join ==
    /\ pc = "job" /\ ~mainActive /\ todo = {}
    /\ AllThreadsOut
    /\ at' = [t \in Thread |-> "idle"]
    /\ scheduled' = scheduled \cup ZonesOf(request)
    /\ interrupt' = (interrupt \/ request # "none")
    /\ request' = "none" /\ due' = {}
    /\ abort' = FALSE /\ fatal' = FALSE       \* ForkJoinShared is no more
    /\ IF ~abort THEN Over("parallel")
       ELSE IF fatal THEN Over("fatal")
       ELSE pc' = "recover" /\ UNCHANGED status
    /\ UNCHANGED <<opVars, cur, listVars, codeVars, budget, blamed, todo, work,
                   mainActive>>

\* recoverFromBailout() up to its warm-up: the kernel is listed again, and so are
\* the scripts that bailouts blame, whose code is invalidated.
Invalid == {s \in blamed : HasCode(s)}
Recover ==
    /\ pc = "recover"
    /\ bailouts' = bailouts + 1
    /\ worklist' = <<Kernel>> \o SetToSeq(Invalid \ {Kernel})
    /\ data' = [s \in Script |-> IF s \in Invalid \cup {Kernel} THEN NoData ELSE data[s]]
    /\ code' = [s \in Script |-> IF s \in Invalid THEN "none" ELSE code[s]]
    /\ \/ pc' = "recoverWarmup" /\ UNCHANGED status
       \/ Over("fatal")
    /\ UNCHANGED <<mode, numSlices, warmupSlice, answered, cur, index, waiting, baseline,
                   uses, rtVars, sharedVars, poolVars>>

-----------------------------------------------------------------------------
(* The environment.                                                        *)

Interrupt ==
    /\ pc \notin {"idle", "over"} /\ budget > 0
    /\ interrupt' = TRUE
    /\ budget' = budget - 1
    /\ UNCHANGED <<opVars, pc, status, cur, listVars, codeVars, scheduled, due,
                   sharedVars, poolVars>>

HelperFinishes(s) ==
    /\ code[s] = "compiling"
    /\ code' = [code EXCEPT ![s] = "finished"]
    /\ interrupt' = TRUE
    /\ UNCHANGED <<opVars, pc, status, cur, listVars, baseline, uses, scheduled, due,
                   budget, sharedVars, poolVars>>

MainStep ==
    \/ Call \/ EnqueueInitialScript \/ Attempt \/ GatherTypes \/ CompileOffThread
    \/ CannotCompile \/ Compiled \/ EndWalk \/ StopCompiling
    \/ InterruptBeforeAttempt \/ ClearWorklist \/ AfterWarmup
    \/ BeginCall \/ (\E answer \in BOOLEAN : EndCall(answer)) \/ PollInCall
    \/ SequentialDone \/ Execute \/ MainLeaves \/ Join \/ Recover

\* The steps the pool and the polling of compiled code take by themselves, and
\* those that are up to the kernel.
ThreadStep(t) ==
    Claim(t) \/ EnterPortion(t) \/ SetAbortFlag(t) \/ AbortJob(t) \/ Check(t)
KernelStep(t) == Complete(t) \/ BailOut(t) \/ BailOutFatally(t) \/ RequestGC(t)

Next ==
    \/ MainStep \/ Throw \/ Interrupt \/ Stopped
    \/ \E s \in Script : Interpret(s) \/ HelperFinishes(s)
    \/ \E t \in Thread : ThreadStep(t) \/ KernelStep(t)

Spec == Init /\ [][Next]_vars

\* The threads are scheduled, warm-up calls return and helpers finish their
\* compilations.  Nothing is assumed of a parallel call of the kernel but that
\* compiled code comes to a poll again and again, whatever it does in between.
Fairness ==
    /\ WF_vars(MainStep)
    /\ \A s \in Script : WF_vars(HelperFinishes(s))
    /\ \A t \in Thread : WF_vars(ThreadStep(t)) /\ SF_vars(Check(t))
FairSpec == Spec /\ Fairness

-----------------------------------------------------------------------------
(* Properties.                                                             *)

\* Every variable of the operation, of the section and of its threads keeps its
\* type: at most MAX_BAILOUTS attempts, and warm-ups of existing slices only.
TypeOK ==
    /\ numSlices \in 1..MaxSlices /\ bailouts \in 0..MAX_BAILOUTS
    /\ warmupSlice \in 0..numSlices /\ answered \subseteq 0..(numSlices - 1)
    /\ cur \in Slice \cup {NoSlice}
    /\ status \in {"none", "fatal", "sequential", "parallel", "warmup"}
    /\ code \in [Script -> {"none", "compiling", "finished", "present"}]
    /\ baseline \subseteq Script /\ uses \in [Script -> 0..MaxUses]
    /\ scheduled \subseteq Zone /\ due \subseteq Zone
    /\ request \in Zone \cup {"none", Full}
    /\ blamed \subseteq Script
    /\ todo \subseteq Slice /\ work \in [Thread -> Slice \cup {NoSlice}]
    /\ at \in [Thread -> {"idle", "enter", "kernel", "requested", "setAbort",
                          "setFatal", "failed", "stopped"}]
    /\ interrupt \in BOOLEAN /\ mainActive \in BOOLEAN
    /\ abort \in BOOLEAN /\ fatal \in BOOLEAN

\* What ForkJoin() promises to the self-hosted operations (KernelCalls):
\* warm-up and sequential calls run alone, no slice is called twice at once,
\* and the operation succeeds only when every slice has been completed, by
\* whichever mixture of warm-ups, attempts and sequential calls.
ForkedSlices == IF pc = "idle" THEN {} ELSE 0..(numSlices - 1)
Outcome ==
    IF pc = "idle" THEN "idle"
    ELSE IF status = "fatal" THEN "fatal"
    ELSE IF pc = "over" THEN "done" ELSE "running"
CallOf(s) ==
    IF s = cur THEN IF pc = "sequential" THEN "seq" ELSE "warmup"
    ELSE IF \E t \in Thread : work[t] = s /\ at[t] \in {"kernel", "requested"}
    THEN "par" ELSE "none"
Promise == INSTANCE KernelCalls WITH
    slices <- ForkedSlices, outcome <- Outcome,
    call <- [s \in Slice |-> CallOf(s)], complete <- answered
ImplementsKernelCalls == Promise!KSpec

\* A collection that a slice asked for is not lost, nor narrowed to a zone when
\* several were asked for: at the end of the section it is scheduled.
RequestsHonoured == [][pc = "job" /\ pc' # "job" => due \subseteq scheduled']_vars

\* An interrupt ends the section even if the kernel never returns, also when
\* the main thread has left it and only workers are still running.
SectionEnds == (pc = "job" /\ interrupt) ~> pc # "job"

\* "We can't block forever": the walk over the worklist comes to an end, in
\* compile mode too, where warm-ups with no work left wait for the helpers.
WalkEnds == pc = "walk" ~> pc \in {"execute", "sequential", "over"}

=============================================================================
