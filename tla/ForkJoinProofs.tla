--------------------------- MODULE ForkJoinProofs ---------------------------
(***************************************************************************)
(* Safety of ForkJoin() for every number of workers, slices and zones,     *)
(* every kernel, mode and bound: IInv is inductive, TypeOK follows, the    *)
(* collections that slices ask for are scheduled, and the operation calls  *)
(* its kernel as KernelCalls promises.                                     *)
(***************************************************************************)
EXTENDS ForkJoin, TLAPS

-----------------------------------------------------------------------------
(* The inductive invariant.                                                *)

\* Positions inside the loop over attempts, and all positions.
InAttempt == {"walk", "warmup", "warm", "stopCompiling", "handleInterrupt",
              "compiled", "execute", "job", "recover"}
Position == InAttempt \cup {"idle", "enqueue", "attempt", "recoverWarmup",
                            "recoverWarm", "sequential", "over"}
Calling == {"warmup", "recoverWarmup", "sequential"}
OpSlice == 0..(numSlices - 1)

\* The operation: an attempt is begun only while bailouts are left, and the
\* outcome is decided at the end.
ControlInv ==
    /\ pc \in Position
    /\ pc \in InAttempt => bailouts < MAX_BAILOUTS
    /\ status # "none" => pc = "over"
    /\ pc = "idle" => answered = {}

\* A call on the main thread is of the slice at warmupSlice, and all slices
\* before that one are complete.
CallInv ==
    /\ cur # NoSlice => pc \in Calling /\ cur = warmupSlice /\ cur < numSlices
    /\ 0..(warmupSlice - 1) \subseteq answered

\* Outside of a parallel section nothing is left of one.
QuietInv ==
    pc # "job" =>
        /\ todo = {} /\ ~mainActive /\ ~abort /\ ~fatal
        /\ request = "none" /\ due = {}
        /\ \A t \in Thread : at[t] = "idle"

\* A slice of the section is to do or with one thread, and a thread that has
\* none is idle or has given up the job.
PlaceInv ==
    /\ todo \subseteq OpSlice
    /\ \A t \in Thread :
          /\ work[t] = NoSlice <=> at[t] \in {"idle", "stopped"}
          /\ work[t] # NoSlice => work[t] \in OpSlice /\ work[t] \notin todo
    /\ \A t, u \in Thread : t # u /\ work[t] # NoSlice => work[t] # work[u]

\* A slice that is neither complete nor to do nor with a thread is one that was
\* given up, and then the section has been aborted.
CoverInv ==
    /\ \A t \in Thread : at[t] \in {"failed", "stopped"} => abort
    /\ pc = "job" /\ ~abort =>
          \A s \in OpSlice : s \in answered \/ s \in todo \/ \E t \in Thread : work[t] = s

\* What is asked for covers what each slice asked for.
RequestInv == due \subseteq ZonesOf(request)

IInv == /\ TypeOK /\ ControlInv /\ CallInv /\ QuietInv /\ PlaceInv /\ CoverInv
        /\ RequestInv

-----------------------------------------------------------------------------
(* The steps of the main thread outside of parallel sections.              *)

\* What an operation that ends leaves behind.
LEMMA OverFrame ==
    ASSUME NEW st \in {"fatal", "sequential", "parallel", "warmup"}, Over(st)
    PROVE  pc' = "over" /\ status' \in {st, "fatal"}
  BY DEF Over

\* The actions of Next, sorted by what they can disturb: those outside of a
\* parallel section, those inside, and those of the environment.
Preparing ==
    \/ Call \/ EnqueueInitialScript \/ Attempt \/ GatherTypes \/ CompileOffThread
    \/ CannotCompile \/ Compiled \/ EndWalk \/ StopCompiling
    \/ InterruptBeforeAttempt \/ ClearWorklist \/ AfterWarmup \/ Recover
OnMain ==
    \/ BeginCall \/ (\E answer \in BOOLEAN : EndCall(answer)) \/ PollInCall
    \/ Throw \/ SequentialDone \/ \E s \in Script : Interpret(s)
Outside == Interrupt \/ \E s \in Script : HelperFinishes(s)

\* Every step is one of these.
LEMMA NextCases ==
    ASSUME [Next]_vars
    PROVE  \/ Preparing \/ OnMain \/ Outside \/ Execute \/ MainLeaves \/ Join
           \/ \E t \in Thread : ThreadStep(t) \/ KernelStep(t)
           \/ UNCHANGED vars
  BY DEF Next, MainStep, Preparing, OnMain, Outside, Stopped

-----------------------------------------------------------------------------
(* Types.                                                                  *)

Code == {"none", "compiling", "finished", "present"}
Status == {"none", "fatal", "sequential", "parallel", "warmup"}

\* The initial state is well typed.
LEMMA TypeInit == Init => TypeOK
  <1> SUFFICES ASSUME Init PROVE TypeOK
    OBVIOUS
  <1>1. code \in [Script -> Code] /\ baseline \subseteq Script
    BY DEF Init, Code
  <1>2. uses \in [Script -> 0..MaxUses] /\ NoSlice \in Slice \cup {NoSlice}
    BY ForkJoinAssumption DEF Init
  <1>3. /\ blamed = {}
        /\ work \in [Thread -> Slice \cup {NoSlice}] /\ todo = {}
        /\ at \in [Thread -> {"idle"}]
    BY DEF Init
  <1>4. /\ numSlices \in 1..MaxSlices /\ bailouts \in 0..MAX_BAILOUTS
        /\ warmupSlice \in 0..numSlices /\ answered = {} /\ cur = NoSlice
    BY ForkJoinAssumption DEF Init
  <1> QED
    BY <1>1, <1>2, <1>3, <1>4 DEF Init, TypeOK, Code

\* Scripts stay well typed where a collection may discard their code.
ScriptTypes ==
    /\ code \in [Script -> Code] /\ baseline \subseteq Script
    /\ uses \in [Script -> 0..MaxUses]
LEMMA DiscardType ==
    ASSUME TypeOK, NEW kept \in [Script -> Code], MayDiscard(kept)
    PROVE  ScriptTypes'
  <1>1. CASE code' = kept /\ UNCHANGED <<baseline, uses>>
    BY <1>1 DEF ScriptTypes, TypeOK
  <1>2. CASE /\ code' = [s \in Script |-> "none"]
             /\ \E active \in OnStack : baseline' = baseline \cap active
             /\ uses' = [s \in Script |-> 0]
    BY <1>2, ForkJoinAssumption DEF ScriptTypes, TypeOK, Code
  <1> QED
    BY <1>1, <1>2 DEF MayDiscard

\* Falling back and ending leave all but the operation's own state alone.
LEMMA FallBackType ==
    ASSUME TypeOK, FallBack
    PROVE  /\ warmupSlice' \in 0..numSlices' /\ status' \in Status
           /\ UNCHANGED <<numSlices, bailouts, answered, cur>>
  BY ForkJoinAssumption DEF FallBack, TypeOK, Status

\* An operation ends with a status.
LEMMA OverType ==
    ASSUME NEW st \in Status \ {"none"}, Over(st)
    PROVE  status' \in Status
  BY DEF Over, Status

\* js_InvokeOperationCallback() leaves scripts and requests well typed,
LEMMA InterruptType ==
    ASSUME TypeOK, HandleInterrupt
    PROVE  /\ ScriptTypes'
           /\ interrupt' \in BOOLEAN /\ scheduled' \subseteq Zone /\ due' \subseteq Zone
  <1>1. [s \in Script |-> IF code[s] = "finished" THEN "present" ELSE code[s]] \in [Script -> Code]
    BY DEF TypeOK, Code
  <1> QED
    BY <1>1, DiscardType DEF HandleInterrupt, TypeOK

\* and so does js_HandleExecutionInterrupt(), whether or not it ends the script.
LEMMA ExecutionInterruptType ==
    ASSUME TypeOK, NEW then, HandleExecutionInterrupt(then)
    PROVE  /\ ScriptTypes' /\ status' \in Status
           /\ interrupt' \in BOOLEAN /\ scheduled' \subseteq Zone /\ due' \subseteq Zone
  <1>1. CASE UNCHANGED <<status, codeVars, rtVars>>
    BY <1>1 DEF TypeOK, codeVars, rtVars, ScriptTypes, Code, Status
  <1>2. CASE HandleInterrupt /\ UNCHANGED status
    BY <1>2, InterruptType DEF TypeOK, Status
  <1>3. CASE Over("fatal") /\ UNCHANGED <<codeVars, rtVars>>
    <2>1. status' \in Status
      BY <1>3, OverType DEF Status
    <2> QED
      BY <1>3, <2>1 DEF TypeOK, codeVars, rtVars, ScriptTypes, Code
  <1> QED
    BY <1>1, <1>2, <1>3 DEF HandleExecutionInterrupt

\* Types are kept; that a warm-up stays within the slices needs where its call
\* is, that a completed slice exists needs where the threads' slices are.
LEMMA TypeStep == TypeOK /\ ControlInv /\ CallInv /\ PlaceInv /\ [Next]_vars => TypeOK'
  <1> SUFFICES ASSUME TypeOK, ControlInv, CallInv, PlaceInv, [Next]_vars
               PROVE  TypeOK'
    OBVIOUS
  <1> USE ForkJoinAssumption
      DEF TypeOK, opVars, listVars, codeVars, rtVars, sharedVars, poolVars
  <1>1. CASE Preparing
    <2>1. CASE Call
      BY <2>1 DEF Call
    <2>2. CASE EnqueueInitialScript
      <3>1. warmupSlice' \in 0..numSlices' /\ status' \in Status
            /\ UNCHANGED <<numSlices, bailouts, answered, cur>>
        <4>1. CASE FallBack
          BY <4>1, FallBackType
        <4>2. CASE Over("fatal") /\ UNCHANGED <<opVars, cur>>
          BY <4>2, OverType DEF Status
        <4>3. CASE UNCHANGED <<opVars, status, cur>>
          BY <4>3 DEF Status
        <4> QED
          BY <2>2, <4>1, <4>2, <4>3 DEF EnqueueInitialScript
      <3> QED
        BY <2>2, <3>1 DEF EnqueueInitialScript, Status
    <2>3. CASE Attempt
      <3>1. warmupSlice' \in 0..numSlices' /\ status' \in Status
            /\ UNCHANGED <<numSlices, bailouts, answered, cur>>
        BY <2>3, FallBackType DEF Attempt, Status
      <3>2. blamed' \subseteq Script
        BY <2>3 DEF Attempt
      <3> QED
        BY <2>3, <3>1, <3>2 DEF Attempt, Status
    <2>4. CASE GatherTypes
      BY <2>4 DEF GatherTypes, NextEntry
    <2>5. CASE CompileOffThread
      BY <2>5 DEF CompileOffThread, NextEntry
    <2>6. CASE CannotCompile
      <3>1. warmupSlice' \in 0..numSlices' /\ status' \in Status
            /\ UNCHANGED <<numSlices, bailouts, answered, cur>>
        <4>1. CASE FallBack
          BY <4>1, FallBackType
        <4>2. CASE Over("fatal") /\ UNCHANGED <<opVars, cur>>
          BY <4>2, OverType DEF Status
        <4> QED
          BY <2>6, <4>1, <4>2 DEF CannotCompile
      <3> QED
        BY <2>6, <3>1 DEF CannotCompile, Status
    <2>7. CASE Compiled
      <3>1. \A s : [code EXCEPT ![s] = "present"] \in [Script -> Code]
        BY DEF Code
      <3>2. ScriptTypes'
        BY <2>7, <3>1, DiscardType DEF Compiled
      <3> QED
        BY <2>7, <3>2 DEF Compiled, NextEntry, ScriptTypes, Code
    <2>8. CASE EndWalk
      BY <2>8 DEF EndWalk
    <2>9. CASE StopCompiling
      BY <2>9 DEF StopCompiling
    <2>10. CASE InterruptBeforeAttempt
      BY <2>10, ExecutionInterruptType DEF InterruptBeforeAttempt, ScriptTypes, Code, Status
    <2>11. CASE ClearWorklist
      BY <2>11 DEF ClearWorklist
    <2>12. CASE AfterWarmup
      <3>1. /\ ScriptTypes' /\ status' \in Status
            /\ interrupt' \in BOOLEAN /\ scheduled' \subseteq Zone /\ due' \subseteq Zone
        <4>1. CASE UNCHANGED <<status, codeVars, rtVars>>
          BY <4>1 DEF ScriptTypes, Code, Status
        <4>2. CASE Over("warmup") /\ UNCHANGED <<codeVars, rtVars>>
          <5>1. status' \in Status
            BY <4>2, OverType DEF Status
          <5> QED
            BY <4>2, <5>1 DEF ScriptTypes, Code
        <4>3. CASE \E then : HandleExecutionInterrupt(then)
          BY <4>3, ExecutionInterruptType
        <4> QED
          BY <2>12, <4>1, <4>2, <4>3 DEF AfterWarmup
      <3> QED
        BY <2>12, <3>1 DEF AfterWarmup, ScriptTypes, Code, Status
    <2>13. CASE Recover
      <3>1. bailouts' \in 0..MAX_BAILOUTS
        BY <2>13 DEF Recover, ControlInv, InAttempt
      <3>2. status' \in Status
        BY <2>13, OverType DEF Recover, Status
      <3>3. code' \in [Script -> Code]
        BY <2>13 DEF Recover, Code
      <3> QED
        BY <2>13, <3>1, <3>2, <3>3 DEF Recover, Code, Status
    <2> QED
      BY <1>1, <2>1, <2>2, <2>3, <2>4, <2>5, <2>6, <2>7, <2>8, <2>9, <2>10, <2>11, <2>12,
         <2>13 DEF Preparing
  <1>2. CASE OnMain
    <2>1. CASE BeginCall
      BY <2>1 DEF BeginCall, Slice
    <2>2. ASSUME NEW answer \in BOOLEAN, EndCall(answer) PROVE TypeOK'
      BY <2>2 DEF EndCall, CallInv
    <2>3. CASE PollInCall
      BY <2>3, InterruptType DEF PollInCall, ScriptTypes, Code
    <2>4. CASE Throw
      BY <2>4, OverFrame DEF Throw
    <2>5. CASE SequentialDone
      BY <2>5, OverFrame DEF SequentialDone
    <2>6. ASSUME NEW s \in Script, Interpret(s) PROVE TypeOK'
      BY <2>6 DEF Interpret
    <2> QED
      BY <1>2, <2>1, <2>2, <2>3, <2>4, <2>5, <2>6 DEF OnMain
  <1>3. CASE Outside
    BY <1>3 DEF Outside, Interrupt, HelperFinishes
  <1>4. CASE Execute
    <2>1. ScriptTypes'
      BY <1>4, DiscardType DEF Execute, Code
    <2>2. status' \in Status
      BY <1>4, OverType DEF Execute, Status
    <2>3. todo' \subseteq Slice /\ mainActive' \in BOOLEAN
      <3>1. 0..(numSlices - 1) \subseteq Slice
        BY DEF Slice
      <3> QED
        BY <1>4, <3>1 DEF Execute
    <2> QED
      BY <1>4, <2>1, <2>2, <2>3 DEF Execute, ScriptTypes, Code, Status
  <1>5. CASE MainLeaves
    BY <1>5 DEF MainLeaves, InJob
  <1>6. CASE Join
    BY <1>6, OverFrame DEF Join, ZonesOf
  <1>7. ASSUME NEW t \in Thread, ThreadStep(t) \/ KernelStep(t) PROVE TypeOK'
    <2> USE DEF InJob, Goto
    <2>1. CASE Claim(t)
      BY <2>1 DEF Claim
    <2>2. CASE EnterPortion(t)
      BY <2>2 DEF EnterPortion
    <2>3. CASE SetAbortFlag(t)
      BY <2>3 DEF SetAbortFlag
    <2>4. CASE AbortJob(t)
      BY <2>4 DEF AbortJob
    <2>5. CASE Check(t)
      BY <2>5 DEF Check, Bail
    <2>6. CASE Complete(t)
      BY <2>6 DEF Complete, PlaceInv, OpSlice
    <2>7. CASE BailOut(t)
      BY <2>7 DEF BailOut, Bail
    <2>8. CASE BailOutFatally(t)
      BY <2>8 DEF BailOutFatally, Bail
    <2>9. CASE RequestGC(t)
      BY <2>9 DEF RequestGC, Merged, ZonesOf, Full
    <2> QED
      BY <1>7, <2>1, <2>2, <2>3, <2>4, <2>5, <2>6, <2>7, <2>8, <2>9
      DEF ThreadStep, KernelStep
  <1>8. CASE UNCHANGED vars
    BY <1>8 DEF vars
  <1> QED
    BY <1>1, <1>2, <1>3, <1>4, <1>5, <1>6, <1>7, <1>8, NextCases

-----------------------------------------------------------------------------
(* The operation.                                                          *)

\* The operation begins with all its attempts left,
LEMMA ControlInit == Init => ControlInv
  BY ForkJoinAssumption DEF Init, ControlInv, Position, InAttempt

\* and counts a bailout each time it recovers from one.
LEMMA ControlStep == TypeOK /\ ControlInv /\ CallInv /\ [Next]_vars => ControlInv'
  <1> SUFFICES ASSUME TypeOK, ControlInv, CallInv, [Next]_vars
               PROVE  ControlInv'
    OBVIOUS
  <1> USE DEF ControlInv, Position, InAttempt, opVars
  <1>o. ASSUME NEW st \in Status \ {"none"}, Over(st), UNCHANGED bailouts PROVE ControlInv'
    BY <1>o DEF Over
  <1>1. CASE Preparing
    <2>1. CASE Call
      BY <2>1 DEF Call
    <2>2. CASE EnqueueInitialScript
      BY <2>2, <1>o DEF EnqueueInitialScript, FallBack, Status
    <2>3. CASE Attempt
      BY <2>3 DEF Attempt, FallBack
    <2>4. CASE GatherTypes \/ CompileOffThread \/ Compiled
      BY <2>4 DEF GatherTypes, CompileOffThread, Compiled, NextEntry, InWalk
    <2>5. CASE CannotCompile
      BY <2>5, <1>o DEF CannotCompile, FallBack, InWalk, Status
    <2>6. CASE EndWalk
      BY <2>6 DEF EndWalk
    <2>7. CASE StopCompiling \/ ClearWorklist
      BY <2>7 DEF StopCompiling, ClearWorklist
    <2>8. CASE InterruptBeforeAttempt
      BY <2>8, <1>o DEF InterruptBeforeAttempt, HandleExecutionInterrupt, Status
    <2>9. CASE AfterWarmup
      <3>1. CASE \E st \in Status \ {"none"} : Over(st)
        BY <2>9, <3>1, <1>o DEF AfterWarmup
      <3>2. CASE /\ pc' = IF pc \in {"recoverWarmup", "recoverWarm"} THEN "attempt" ELSE "walk"
                 /\ UNCHANGED status
        BY <2>9, <3>2 DEF AfterWarmup
      <3> QED
        BY <2>9, <3>1, <3>2 DEF AfterWarmup, HandleExecutionInterrupt, Status
    <2>10. CASE Recover
      <3>1. CASE Over("fatal")
        BY <2>10, <3>1 DEF Recover, Over
      <3>2. CASE pc' = "recoverWarmup" /\ UNCHANGED status
        BY <2>10, <3>2 DEF Recover
      <3> QED
        BY <2>10, <3>1, <3>2 DEF Recover
    <2> QED
      BY <1>1, <2>1, <2>2, <2>3, <2>4, <2>5, <2>6, <2>7, <2>8, <2>9, <2>10 DEF Preparing
  <1>2. CASE OnMain
    <2>1. CASE BeginCall
      BY <2>1 DEF BeginCall
    <2>2. ASSUME NEW answer \in BOOLEAN, EndCall(answer) PROVE ControlInv'
      BY <2>2 DEF EndCall, CallInv, Calling
    <2>3. CASE PollInCall \/ \E s \in Script : Interpret(s)
      BY <2>3 DEF PollInCall, Interpret
    <2>4. CASE Throw \/ SequentialDone
      BY <2>4, <1>o DEF Throw, SequentialDone, Status
    <2> QED
      BY <1>2, <2>1, <2>2, <2>3, <2>4 DEF OnMain
  <1>3. CASE Outside
    BY <1>3 DEF Outside, Interrupt, HelperFinishes
  <1>4. CASE Execute
    <2>1. CASE Over("fatal")
      BY <1>4, <2>1, <1>o DEF Execute, Status
    <2> QED
      BY <1>4, <2>1 DEF Execute
  <1>5. CASE MainLeaves
    BY <1>5 DEF MainLeaves, InJob
  <1>6. CASE Join
    BY <1>6, <1>o DEF Join, Status
  <1>7. ASSUME NEW t \in Thread, ThreadStep(t) \/ KernelStep(t) PROVE ControlInv'
    <2>1. pc = "job" /\ UNCHANGED <<pc, status, bailouts>>
      BY <1>7 DEF ThreadStep, KernelStep, InJob, Claim, EnterPortion, SetAbortFlag, AbortJob,
                  Check, Complete, BailOut, BailOutFatally, RequestGC
    <2> QED
      BY <2>1
  <1>8. CASE UNCHANGED vars
    BY <1>8 DEF vars
  <1> QED
    BY <1>1, <1>2, <1>3, <1>4, <1>5, <1>6, <1>7, <1>8, NextCases

\* What the threads do in a section leaves the operation alone, but that slices
\* are completed.
LEMMA ThreadFrame ==
    ASSUME NEW t \in Thread, ThreadStep(t) \/ KernelStep(t)
    PROVE  /\ pc = "job" /\ UNCHANGED <<pc, status, cur, numSlices, warmupSlice>>
           /\ answered \subseteq answered'
  BY DEF ThreadStep, KernelStep, InJob, opVars, Claim, EnterPortion, SetAbortFlag, AbortJob,
         Check, Complete, BailOut, BailOutFatally, RequestGC

\* No slice has been warmed up at first,
LEMMA CallInit == Init => CallInv
  BY DEF Init, CallInv

\* and warm-ups and sequential calls take them in turn, from the first.
LEMMA CallStep == TypeOK /\ CallInv /\ [Next]_vars => CallInv'
  <1> SUFFICES ASSUME TypeOK, CallInv, [Next]_vars
               PROVE  CallInv'
    OBVIOUS
  <1> USE DEF CallInv, Calling, opVars
  <1>f. ASSUME pc \notin Calling, FallBack PROVE CallInv'
    BY <1>f DEF FallBack
  <1>u. ASSUME UNCHANGED <<cur, numSlices, warmupSlice>>, answered \subseteq answered',
               cur = NoSlice \/ pc' = pc
        PROVE  CallInv'
    BY <1>u
  <1>1. CASE Preparing
    <2>1. pc \notin Calling \/ cur = NoSlice
      BY <1>1 DEF Preparing, Call, EnqueueInitialScript, Attempt, GatherTypes,
         CompileOffThread, CannotCompile, Compiled, EndWalk, StopCompiling,
         InterruptBeforeAttempt, ClearWorklist, AfterWarmup, Recover, InWalk
    <2>2. \/ UNCHANGED <<cur, numSlices, warmupSlice, answered>>
          \/ FallBack /\ (EnqueueInitialScript \/ Attempt \/ CannotCompile)
      BY <1>1 DEF Preparing, Call, EnqueueInitialScript, Attempt, GatherTypes,
         CompileOffThread, CannotCompile, Compiled, EndWalk, StopCompiling,
         InterruptBeforeAttempt, ClearWorklist, AfterWarmup, Recover
    <2>3. EnqueueInitialScript \/ Attempt \/ CannotCompile => pc \notin Calling
      BY DEF EnqueueInitialScript, Attempt, CannotCompile, InWalk
    <2> QED
      BY <2>1, <2>2, <2>3, <1>f, <1>u
  <1>2. CASE OnMain
    <2>1. CASE BeginCall
      BY <2>1, ForkJoinAssumption DEF BeginCall, TypeOK, NoSlice
    <2>2. ASSUME NEW answer \in BOOLEAN, EndCall(answer) PROVE CallInv'
      <3>1. cur' = NoSlice /\ UNCHANGED numSlices
        BY <2>2 DEF EndCall
      <3>2. CASE answer
        <4>1. warmupSlice' = warmupSlice + 1 /\ answered' = answered \cup {warmupSlice}
          BY <2>2, <3>2 DEF EndCall
        <4>2. 0..((warmupSlice + 1) - 1) \subseteq answered \cup {warmupSlice}
          BY DEF TypeOK
        <4> QED
          BY <3>1, <4>1, <4>2
      <3>3. CASE ~answer
        BY <2>2, <3>1, <3>3 DEF EndCall
      <3> QED
        BY <3>2, <3>3
    <2>3. CASE PollInCall \/ \E s \in Script : Interpret(s)
      BY <2>3 DEF PollInCall, Interpret
    <2>4. CASE Throw \/ SequentialDone
      BY <2>4 DEF Throw, SequentialDone
    <2> QED
      BY <1>2, <2>1, <2>2, <2>3, <2>4 DEF OnMain
  <1>3. CASE Outside
    BY <1>3 DEF Outside, Interrupt, HelperFinishes
  <1>4. CASE Execute \/ MainLeaves \/ Join
    BY <1>4 DEF Execute, MainLeaves, Join, InJob
  <1>5. CASE \E t \in Thread : ThreadStep(t) \/ KernelStep(t)
    BY <1>5, ThreadFrame, <1>u
  <1>6. CASE UNCHANGED vars
    BY <1>6 DEF vars
  <1> QED
    BY <1>1, <1>2, <1>3, <1>4, <1>5, <1>6, NextCases

-----------------------------------------------------------------------------
(* The parallel section.                                                   *)

SectionVars == <<todo, work, at, mainActive, abort, fatal, request, due, numSlices>>

\* Outside of a section the main thread leaves the section's state alone.
LEMMA QuietFrame ==
    ASSUME CallInv, Preparing \/ OnMain
    PROVE  pc # "job" /\ pc' # "job" /\ UNCHANGED SectionVars
  <1> USE DEF SectionVars, opVars, rtVars, sharedVars, poolVars
  <1>o. ASSUME NEW st, Over(st) PROVE pc' = "over"
    BY <1>o DEF Over
  <1>1. CASE Call \/ EnqueueInitialScript \/ Attempt
    BY <1>1, <1>o DEF Call, EnqueueInitialScript, Attempt, FallBack
  <1>2. CASE GatherTypes \/ CompileOffThread \/ Compiled \/ CannotCompile \/ EndWalk
    BY <1>2, <1>o DEF GatherTypes, CompileOffThread, Compiled, CannotCompile, EndWalk,
       FallBack, InWalk, NextEntry
  <1>3. CASE StopCompiling \/ ClearWorklist
    BY <1>3 DEF StopCompiling, ClearWorklist
  <1>4. ASSUME NEW then, then # "job", HandleExecutionInterrupt(then)
        PROVE  pc' # "job" /\ UNCHANGED due
    BY <1>4, <1>o DEF HandleExecutionInterrupt, HandleInterrupt
  <1>5. CASE InterruptBeforeAttempt
    BY <1>5, <1>4 DEF InterruptBeforeAttempt
  <1>6. CASE AfterWarmup
    <2>1. pc # "job" /\ UNCHANGED <<todo, work, at, mainActive, abort, fatal, request, numSlices>>
      BY <1>6 DEF AfterWarmup
    <2>2. pc' # "job" /\ UNCHANGED due
      BY <1>6, <1>4, <1>o DEF AfterWarmup
    <2> QED
      BY <2>1, <2>2
  <1>7. CASE Recover
    BY <1>7, <1>o DEF Recover
  <1>8. CASE OnMain
    <2>1. CASE BeginCall
      BY <2>1 DEF BeginCall
    <2>2. ASSUME NEW answer \in BOOLEAN, EndCall(answer)
          PROVE  pc # "job" /\ pc' # "job" /\ UNCHANGED SectionVars
      BY <2>2 DEF EndCall, CallInv, Calling
    <2>3. CASE PollInCall \/ \E s \in Script : Interpret(s)
      BY <2>3 DEF PollInCall, HandleInterrupt, Interpret, CallInv, Calling
    <2>4. CASE Throw \/ SequentialDone
      BY <2>4, <1>o DEF Throw, SequentialDone, CallInv, Calling
    <2> QED
      BY <1>8, <2>1, <2>2, <2>3, <2>4 DEF OnMain
  <1> QED
    BY <1>1, <1>2, <1>3, <1>5, <1>6, <1>7, <1>8 DEF Preparing

\* Nor does the environment touch a section.
LEMMA OutsideFrame ==
    ASSUME Outside \/ UNCHANGED vars
    PROVE  UNCHANGED SectionVars /\ UNCHANGED <<pc, answered>>
  BY DEF Outside, Interrupt, HelperFinishes, vars, SectionVars, opVars, rtVars, sharedVars,
         poolVars

\* At first there is no section.
LEMMA SectionInit == Init => QuietInv /\ PlaceInv /\ CoverInv /\ RequestInv
  BY DEF Init, QuietInv, PlaceInv, CoverInv, RequestInv, ZonesOf

\* Join ends a section only when nothing is left of it.
LEMMA QuietStep == TypeOK /\ CallInv /\ QuietInv /\ [Next]_vars => QuietInv'
  <1> SUFFICES ASSUME TypeOK, CallInv, QuietInv, [Next]_vars
               PROVE  QuietInv'
    OBVIOUS
  <1>1. CASE Preparing \/ OnMain
    BY <1>1, QuietFrame DEF QuietInv, SectionVars
  <1>2. CASE Outside \/ UNCHANGED vars
    BY <1>2, OutsideFrame DEF QuietInv, SectionVars
  <1>3. CASE Execute
    BY <1>3 DEF Execute, QuietInv, sharedVars
  <1>4. CASE MainLeaves
    BY <1>4 DEF MainLeaves, InJob, QuietInv
  <1>5. CASE Join
    BY <1>5 DEF Join, QuietInv
  <1>6. CASE \E t \in Thread : ThreadStep(t) \/ KernelStep(t)
    BY <1>6, ThreadFrame DEF QuietInv
  <1> QED
    BY <1>1, <1>2, <1>3, <1>4, <1>5, <1>6, NextCases

\* requestGC() and requestZoneGC() widen what is asked for.
LEMMA RequestStep == TypeOK /\ CallInv /\ RequestInv /\ [Next]_vars => RequestInv'
  <1> SUFFICES ASSUME TypeOK, CallInv, RequestInv, [Next]_vars
               PROVE  RequestInv'
    OBVIOUS
  <1>1. CASE UNCHANGED <<request, due>>
    BY <1>1 DEF RequestInv, ZonesOf
  <1>2. CASE Join
    BY <1>2 DEF Join, RequestInv, ZonesOf
  <1>3. ASSUME NEW t \in Thread, RequestGC(t) PROVE RequestInv'
    <2>1. PICK zone \in Zone \cup {Full} :
            request' = Merged(zone) /\ due' = due \cup ZonesOf(zone)
      BY <1>3 DEF RequestGC
    <2>2. Full \notin Zone /\ "none" \notin Zone
      BY ForkJoinAssumption DEF Full
    <2>3. request \in Zone \cup {"none", Full} /\ due \subseteq Zone
      BY DEF TypeOK
    <2>4. CASE request' = Full
      BY <2>1, <2>2, <2>3, <2>4 DEF RequestInv, ZonesOf
    <2>5. CASE request' # Full
      <3>1. request' = zone /\ zone \in Zone /\ (request = "none" \/ request = zone)
        BY <2>1, <2>5 DEF Merged
      <3> QED
        BY <2>1, <2>2, <2>3, <3>1 DEF RequestInv, ZonesOf, Full
    <2> QED
      BY <2>4, <2>5
  <1>4. \/ UNCHANGED <<request, due>> \/ Join
        \/ \E t \in Thread : RequestGC(t)
    <2>1. CASE Preparing \/ OnMain
      BY <2>1, QuietFrame DEF SectionVars
    <2>2. CASE Outside \/ UNCHANGED vars
      BY <2>2, OutsideFrame DEF SectionVars
    <2>3. CASE Execute \/ MainLeaves
      BY <2>3 DEF Execute, MainLeaves, sharedVars, rtVars
    <2>4. ASSUME NEW t \in Thread, ThreadStep(t) \/ KernelStep(t), ~RequestGC(t)
          PROVE  UNCHANGED <<request, due>>
      BY <2>4 DEF ThreadStep, KernelStep, Claim, EnterPortion, SetAbortFlag, AbortJob,
         Check, Complete, BailOut, BailOutFatally, sharedVars, rtVars
    <2> QED
      BY <2>1, <2>2, <2>3, <2>4, NextCases
  <1> QED
    BY <1>1, <1>2, <1>3, <1>4

\* A slice moves from to do to a thread, and from the thread it is completed or
\* given up.
LEMMA PlaceStep ==
    TypeOK /\ CallInv /\ QuietInv /\ PlaceInv /\ [Next]_vars => PlaceInv'
  <1> SUFFICES ASSUME TypeOK, CallInv, QuietInv, PlaceInv, [Next]_vars
               PROVE  PlaceInv'
    OBVIOUS
  <1> USE DEF PlaceInv, OpSlice
  <1>1. CASE Preparing \/ OnMain
    BY <1>1, QuietFrame DEF SectionVars
  <1>2. CASE Outside \/ UNCHANGED vars
    BY <1>2, OutsideFrame DEF SectionVars
  <1>3. CASE Execute
    <2>1. \A t \in Thread : work[t] = NoSlice
      BY <1>3 DEF Execute, QuietInv
    <2> QED
      BY <1>3, <2>1 DEF Execute, opVars
  <1>4. CASE MainLeaves
    BY <1>4 DEF MainLeaves, InJob, opVars
  <1>5. CASE Join
    <2>1. \A t \in Thread : work[t] = NoSlice
      BY <1>5 DEF Join, AllThreadsOut
    <2> QED
      BY <1>5, <2>1 DEF Join, opVars
  <1>6. ASSUME NEW t \in Thread, ThreadStep(t) \/ KernelStep(t) PROVE PlaceInv'
    <2>f. UNCHANGED numSlices
      BY <1>6, ThreadFrame
    <2>t. at \in [Thread -> {"idle", "enter", "kernel", "requested", "setAbort",
                          "setFatal", "failed", "stopped"}]
          /\ work \in [Thread -> Slice \cup {NoSlice}]
      BY DEF TypeOK
    <2>n. NoSlice \notin OpSlice
      BY ForkJoinAssumption DEF NoSlice, TypeOK
    <2> USE <2>t DEF Goto
    <2>1. CASE Claim(t)
      <3>1. PICK s \in todo : todo' = todo \ {s} /\ work' = [work EXCEPT ![t] = s]
        BY <2>1 DEF Claim
      <3>2. at' = [at EXCEPT ![t] = "enter"]
        BY <2>1 DEF Claim
      <3> QED
        BY <2>f, <2>n, <3>1, <3>2
    <2>2. CASE UNCHANGED <<todo, work>> /\ at[t] \notin {"idle", "stopped"}
               /\ \E where \in {"enter", "kernel", "requested", "setAbort", "setFatal",
                                "failed"} : at' = [at EXCEPT ![t] = where]
      BY <2>2, <2>f
    <2>3. CASE \E where \in {"idle", "stopped"} :
                  /\ at' = [at EXCEPT ![t] = where]
                  /\ work' = [work EXCEPT ![t] = NoSlice]
                  /\ todo' \subseteq todo
      BY <2>3, <2>f
    <2>4. CASE EnterPortion(t)
      BY <2>2, <2>4 DEF EnterPortion
    <2>5. CASE SetAbortFlag(t)
      BY <2>2, <2>5 DEF SetAbortFlag
    <2>6. CASE AbortJob(t)
      BY <2>3, <2>6 DEF AbortJob
    <2>7. CASE Check(t) \/ BailOut(t) \/ BailOutFatally(t)
      BY <2>2, <2>7 DEF Check, BailOut, BailOutFatally, Bail
    <2>8. CASE Complete(t)
      BY <2>2, <2>3, <2>8 DEF Complete
    <2>9. CASE RequestGC(t)
      BY <2>2, <2>9 DEF RequestGC
    <2> QED
      BY <1>6, <2>1, <2>4, <2>5, <2>6, <2>7, <2>8, <2>9 DEF ThreadStep, KernelStep
  <1> QED
    BY <1>1, <1>2, <1>3, <1>4, <1>5, <1>6, NextCases

\* A thread that leaves a slice unfinished aborts the section before it gives up
\* the slices to do, and one that finishes a slice records it.
LEMMA CoverStep ==
    TypeOK /\ CallInv /\ QuietInv /\ PlaceInv /\ CoverInv /\ [Next]_vars => CoverInv'
  <1> SUFFICES ASSUME TypeOK, CallInv, QuietInv, PlaceInv, CoverInv, [Next]_vars
               PROVE  CoverInv'
    OBVIOUS
  <1> USE DEF CoverInv, OpSlice
  <1>1. CASE Preparing \/ OnMain
    BY <1>1, QuietFrame DEF SectionVars, QuietInv
  <1>2. CASE Outside \/ UNCHANGED vars
    BY <1>2, OutsideFrame DEF SectionVars
  <1>3. CASE Execute
    <2>1. ~abort' /\ UNCHANGED <<at, numSlices, answered>> /\ \A u \in Thread : at[u] = "idle"
      BY <1>3 DEF Execute, QuietInv, opVars, sharedVars
    <2>2. pc' = "job" => todo' = OpSlice
      BY <1>3 DEF Execute, Over
    <2> QED
      BY <2>1, <2>2
  <1>4. CASE MainLeaves
    BY <1>4 DEF MainLeaves, InJob, opVars, sharedVars
  <1>5. CASE Join
    BY <1>5 DEF Join, Over
  <1>6. ASSUME NEW t \in Thread, ThreadStep(t) \/ KernelStep(t) PROVE CoverInv'
    <2>f. pc = "job" /\ UNCHANGED <<pc, numSlices>> /\ answered \subseteq answered'
      BY <1>6, ThreadFrame
    <2>t. at \in [Thread -> {"idle", "enter", "kernel", "requested", "setAbort",
                          "setFatal", "failed", "stopped"}]
          /\ work \in [Thread -> Slice \cup {NoSlice}]
      BY DEF TypeOK
    <2> USE <2>t DEF Goto, sharedVars
    <2>1. CASE Claim(t)
      <3>1. PICK s \in todo : todo' = todo \ {s} /\ work' = [work EXCEPT ![t] = s]
        BY <2>1 DEF Claim
      <3>2. at' = [at EXCEPT ![t] = "enter"] /\ abort' = abort /\ at[t] = "idle"
        BY <2>1 DEF Claim
      <3>3. work[t] = NoSlice /\ NoSlice \notin OpSlice
        BY <3>2, ForkJoinAssumption DEF PlaceInv, NoSlice, TypeOK
      <3> QED
        BY <2>f, <3>1, <3>2, <3>3
    <2>2. CASE UNCHANGED <<todo, work, abort>>
               /\ \E where \in {"enter", "kernel", "requested", "setAbort", "setFatal"} :
                     at' = [at EXCEPT ![t] = where]
      BY <2>2, <2>f
    <2>3. CASE EnterPortion(t)
      BY <2>2, <2>3 DEF EnterPortion
    <2>4. CASE SetAbortFlag(t)
      BY <2>4 DEF SetAbortFlag
    <2>5. CASE AbortJob(t)
      <3>1. abort /\ abort' = abort /\ at' = [at EXCEPT ![t] = "stopped"]
        BY <2>5 DEF AbortJob
      <3> QED
        BY <3>1
    <2>6. CASE Check(t) \/ BailOut(t) \/ BailOutFatally(t)
      BY <2>2, <2>6 DEF Check, BailOut, BailOutFatally, Bail
    <2>7. CASE Complete(t)
      <3>1. abort' = abort /\ todo' = todo /\ answered' = answered \cup {work[t]}
        BY <2>7 DEF Complete
      <3>2. CASE abort
        BY <2>7, <3>1, <3>2 DEF Complete
      <3>3. CASE ~abort
        <4>1. at' = [at EXCEPT ![t] = "idle"] /\ work' = [work EXCEPT ![t] = NoSlice]
          BY <2>7, <3>3 DEF Complete
        <4> QED
          BY <2>f, <3>1, <3>3, <4>1
      <3> QED
        BY <3>2, <3>3
    <2>8. CASE RequestGC(t)
      BY <2>2, <2>8 DEF RequestGC
    <2> QED
      BY <1>6, <2>1, <2>3, <2>4, <2>5, <2>6, <2>7, <2>8 DEF ThreadStep, KernelStep
  <1> QED
    BY <1>1, <1>2, <1>3, <1>4, <1>5, <1>6, NextCases

-----------------------------------------------------------------------------
(* Theorems.                                                               *)

\* The invariant holds of every behaviour of ForkJoin().
THEOREM Invariant == Spec => []IInv
  <1>1. Init => IInv
    BY TypeInit, ControlInit, CallInit, SectionInit DEF IInv
  <1>2. IInv /\ [Next]_vars => IInv'
    BY TypeStep, ControlStep, CallStep, QuietStep, PlaceStep, CoverStep, RequestStep DEF IInv
  <1> QED
    BY <1>1, <1>2, PTL DEF Spec

\* Types, and at most MAX_BAILOUTS attempts, for every instance.
THEOREM TypeCorrect == Spec => []TypeOK
  <1>1. IInv => TypeOK
    BY DEF IInv
  <1> QED
    BY <1>1, Invariant, PTL

\* execute() passes every collection that requestGC() and requestZoneGC() were
\* asked for on to the runtime when the section is over.
THEOREM RequestsAreHonoured == Spec => RequestsHonoured
  <1>1. ASSUME IInv, [Next]_vars, pc = "job", pc' # "job"
        PROVE  due \subseteq scheduled'
    <2>1. CASE Join
      BY <1>1, <2>1 DEF Join, IInv, RequestInv
    <2>2. CASE MainLeaves
      BY <1>1, <2>2 DEF MainLeaves, InJob
    <2>3. ~(Preparing \/ OnMain)
      BY <1>1, QuietFrame DEF IInv
    <2>4. ~(Outside \/ UNCHANGED vars)
      BY <1>1, OutsideFrame
    <2>5. ~Execute
      BY <1>1 DEF Execute
    <2>6. ~\E t \in Thread : ThreadStep(t) \/ KernelStep(t)
      BY <1>1, ThreadFrame
    <2> QED
      BY <1>1, <2>1, <2>2, <2>3, <2>4, <2>5, <2>6, NextCases
  <1>2. IInv /\ [Next]_vars => [pc = "job" /\ pc' # "job" => due \subseteq scheduled']_vars
    BY <1>1
  <1> QED
    BY <1>2, Invariant, PTL DEF Spec, RequestsHonoured

-----------------------------------------------------------------------------
(* ForkJoin() implements KernelCalls.                                      *)

\* No call of the kernel is under way.
NoCall == cur = NoSlice /\ \A t \in Thread : at[t] \notin {"kernel", "requested"}
Running == pc \notin {"idle", "over"} /\ status = "none"

\* Then no slice has one in the promise's sense,
LEMMA NoCallFacts ==
    /\ NoCall => \A s \in Slice : CallOf(s) = "none"
    /\ NoCall' => \A s \in Slice : CallOf(s)' = "none"
  BY ForkJoinAssumption DEF NoCall, CallOf, Slice, NoSlice

\* and while the operation runs its slices are those of the promise.
LEMMA RunningFacts ==
    /\ Running => Outcome = "running" /\ ForkedSlices = OpSlice
    /\ Running' => Outcome' = "running" /\ ForkedSlices' = OpSlice'
  BY DEF Running, Outcome, ForkedSlices, OpSlice

\* What the promise sees is all that it is about.
LEMMA Stutters ==
    ASSUME UNCHANGED <<ForkedSlices, Outcome, answered>>,
           \A s \in Slice : CallOf(s)' = CallOf(s)
    PROVE  UNCHANGED Promise!kvars
  BY DEF Promise!kvars, Slice

\* A step that begins and ends no call and goes on with the operation.
LEMMA GoesOn ==
    ASSUME Running, Running', UNCHANGED <<numSlices, answered>>,
           \A s \in Slice : CallOf(s)' = CallOf(s)
    PROVE  UNCHANGED Promise!kvars
  BY RunningFacts, Stutters DEF OpSlice

\* The end of the operation, when no call is under way.
LEMMA Ends ==
    ASSUME Running, NoCall, NoCall', UNCHANGED <<numSlices, answered>>,
           NEW st \in Status \ {"none"}, Over(st),
           st # "fatal" => answered = OpSlice
    PROVE  Promise!Succeed \/ Promise!Fail
  <1>1. /\ Outcome = "running" /\ ForkedSlices = OpSlice
        /\ \A s \in Slice : CallOf(s) = "none" /\ CallOf(s)' = "none"
    BY RunningFacts, NoCallFacts
  <1>2. pc' = "over" /\ status' \in {st, "fatal"}
    BY DEF Over
  <1>3. ForkedSlices' = ForkedSlices
    BY <1>2 DEF ForkedSlices, Running
  <1>4. Promise!InCall = {}
    BY <1>1 DEF Promise!InCall, Promise!Slice, Slice
  <1>5. [s \in Slice |-> CallOf(s)]' = [s \in Slice |-> CallOf(s)]
    BY <1>1 DEF Slice
  <1>6. CASE status' = "fatal"
    <2>1. Outcome' = "fatal"
      BY <1>2, <1>6 DEF Outcome
    <2> QED
      BY <1>1, <1>3, <1>4, <1>5, <2>1 DEF Promise!Fail
  <1>7. CASE status' # "fatal"
    <2>1. Outcome' = "done" /\ answered = ForkedSlices
      BY <1>1, <1>2, <1>7 DEF Outcome
    <2> QED
      BY <1>1, <1>3, <1>4, <1>5, <2>1 DEF Promise!Succeed
  <1> QED
    BY <1>6, <1>7

\* Warm-ups past the last slice have completed all of them.
LEMMA WarmupComplete ==
    ASSUME TypeOK, CallInv, ~(warmupSlice < numSlices)
    PROVE  answered = OpSlice
  <1>1. warmupSlice = numSlices
    BY ForkJoinAssumption DEF TypeOK
  <1> QED
    BY <1>1 DEF TypeOK, CallInv, OpSlice

\* Compiling, warming up and recovering begin or end the operation, or stutter.
LEMMA RefinesPreparing ==
    ASSUME IInv, Preparing
    PROVE  [Promise!KNext]_(Promise!kvars)
  <1>i. TypeOK /\ ControlInv /\ CallInv /\ QuietInv
    BY DEF IInv
  <1>q. pc # "job" /\ pc' # "job" /\ UNCHANGED SectionVars
    BY <1>i, QuietFrame
  <1>c. cur = NoSlice
    BY <1>i DEF CallInv, Calling, Preparing, Call, EnqueueInitialScript, Attempt, GatherTypes,
         CompileOffThread, CannotCompile, Compiled, EndWalk, StopCompiling,
         InterruptBeforeAttempt, ClearWorklist, AfterWarmup, Recover, InWalk
  <1>u. UNCHANGED <<cur, answered>>
    BY DEF Preparing, Call, EnqueueInitialScript, Attempt, GatherTypes,
         CompileOffThread, CannotCompile, Compiled, EndWalk, StopCompiling,
         InterruptBeforeAttempt, ClearWorklist, AfterWarmup, Recover, FallBack, opVars
  <1>n. NoCall /\ NoCall' /\ UNCHANGED numSlices
    BY <1>i, <1>q, <1>c, <1>u DEF NoCall, QuietInv, SectionVars
  <1>s. \A s \in Slice : CallOf(s)' = CallOf(s)
    BY <1>n, NoCallFacts
  <1>1. CASE Call
    <2>1. status = "none" /\ status' = status /\ pc = "idle" /\ pc' = "enqueue" /\ answered = {}
      BY <1>1, <1>i DEF Call, ControlInv
    <2>2. /\ ForkedSlices' = 0..(numSlices - 1)
          /\ Outcome = "idle" /\ Outcome' = "running"
      BY <1>n, <2>1 DEF ForkedSlices, Outcome
    <2>3. [s \in Slice |-> CallOf(s)]' = [s \in Slice |-> CallOf(s)]
      BY <1>s DEF Slice
    <2>4. Promise!Start(numSlices)
      BY <1>i, <1>u, <2>1, <2>2, <2>3 DEF Promise!Start, TypeOK
    <2> QED
      BY <1>i, <2>4 DEF Promise!KNext, TypeOK
  <1>2. CASE ~Call
    <2>1. Running
      BY <1>2, <1>i DEF Running, ControlInv, Preparing, EnqueueInitialScript, Attempt,
         GatherTypes, CompileOffThread, CannotCompile, Compiled, EndWalk, StopCompiling,
         InterruptBeforeAttempt, ClearWorklist, AfterWarmup, Recover, InWalk
    <2>2. \/ pc' \notin {"idle", "over"} /\ status' = status
          \/ Over("fatal")
          \/ Over("warmup") /\ ~(warmupSlice < numSlices)
      <3>1. CASE EnqueueInitialScript \/ Attempt \/ CannotCompile
        BY <3>1 DEF EnqueueInitialScript, Attempt, CannotCompile, FallBack
      <3>2. CASE GatherTypes \/ CompileOffThread \/ Compiled
        BY <3>2 DEF GatherTypes, CompileOffThread, Compiled, NextEntry, InWalk
      <3>3. CASE EndWalk \/ StopCompiling \/ ClearWorklist
        BY <3>3 DEF EndWalk, StopCompiling, ClearWorklist
      <3>4. CASE InterruptBeforeAttempt
        BY <3>4 DEF InterruptBeforeAttempt, HandleExecutionInterrupt
      <3>5. CASE AfterWarmup
        BY <3>5 DEF AfterWarmup, HandleExecutionInterrupt
      <3>6. CASE Recover
        BY <3>6 DEF Recover
      <3> QED
        BY <1>2, <3>1, <3>2, <3>3, <3>4, <3>5, <3>6 DEF Preparing
    <2>3. CASE pc' \notin {"idle", "over"} /\ status' = status
      <3>1. Running'
        BY <2>1, <2>3 DEF Running
      <3> QED
        BY <1>n, <1>s, <1>u, <2>1, <3>1, GoesOn
    <2>4. CASE Over("fatal")
      <3>1. Promise!Succeed \/ Promise!Fail
        BY <1>n, <1>u, <2>1, <2>4, Ends DEF Status
      <3> QED
        BY <3>1 DEF Promise!KNext
    <2>5. CASE Over("warmup") /\ ~(warmupSlice < numSlices)
      <3>1. answered = OpSlice
        BY <1>i, <2>5, WarmupComplete
      <3>2. Promise!Succeed \/ Promise!Fail
        BY <1>n, <1>u, <2>1, <2>5, <3>1, Ends DEF Status
      <3> QED
        BY <3>2 DEF Promise!KNext
    <2> QED
      BY <2>2, <2>3, <2>4, <2>5
  <1> QED
    BY <1>1, <1>2

\* Warm-up and sequential calls begin, return and throw as promised.
LEMMA RefinesOnMain ==
    ASSUME IInv, OnMain
    PROVE  [Promise!KNext]_(Promise!kvars)
  <1>i. TypeOK /\ ControlInv /\ CallInv /\ QuietInv
    BY DEF IInv
  <1>q. /\ pc # "job" /\ pc' # "job" /\ UNCHANGED <<at, work, numSlices>>
        /\ \A t \in Thread : at[t] = "idle"
    BY <1>i, QuietFrame DEF QuietInv, SectionVars
  <1>r. pc \in Calling => Running
    BY <1>i DEF Calling, Running, ControlInv
  <1>n. NoSlice \notin Slice
    BY ForkJoinAssumption DEF NoSlice, Slice
  \* What is under way is the call of cur.
  <1>k. /\ \A s \in Slice : CallOf(s) = IF s = cur
                            THEN IF pc = "sequential" THEN "seq" ELSE "warmup" ELSE "none"
        /\ \A s \in Slice : CallOf(s)' = IF s = cur'
                            THEN IF pc' = "sequential" THEN "seq" ELSE "warmup" ELSE "none"
    BY <1>q DEF CallOf
  <1>1. CASE BeginCall
    <2>1. /\ pc \in Calling /\ Running /\ Running' /\ pc' = pc /\ UNCHANGED answered
          /\ cur = NoSlice /\ cur' = warmupSlice /\ warmupSlice \in OpSlice
      BY <1>1, <1>i, <1>r DEF BeginCall, Calling, Running, opVars, TypeOK, OpSlice
    <2>2. warmupSlice \in Slice
      <3>1. OpSlice \subseteq Slice
        BY <1>i, ForkJoinAssumption DEF TypeOK, OpSlice, Slice
      <3> QED
        BY <2>1, <3>1
    <2>3. PICK kind \in {"seq", "warmup"} :
            kind = IF pc = "sequential" THEN "seq" ELSE "warmup"
      OBVIOUS
    <2>4. \A s \in Slice : /\ CallOf(s) = "none"
                           /\ CallOf(s)' = IF s = warmupSlice THEN kind ELSE "none"
      BY <1>k, <1>n, <2>1, <2>3
    <2>5. [s \in Slice |-> CallOf(s)]'
            = [[s \in Slice |-> CallOf(s)] EXCEPT ![warmupSlice] = kind]
      BY <2>4 DEF Slice
    <2>6. /\ Outcome = "running" /\ Outcome' = "running"
          /\ ForkedSlices = OpSlice /\ ForkedSlices' = ForkedSlices
      BY <1>q, <2>1, RunningFacts DEF OpSlice
    <2>7. Promise!InCall = {}
      BY <2>4 DEF Promise!InCall, Promise!Slice, Slice
    <2>8. Promise!Begin(warmupSlice, kind)
      BY <2>1, <2>2, <2>4, <2>5, <2>6, <2>7 DEF Promise!Begin
    <2>9. kind \in Promise!CallMode /\ warmupSlice \in Promise!Slice
      BY <2>2, <2>3 DEF Promise!CallMode, Promise!Alone, Promise!Slice, Slice
    <2> QED
      BY <2>8, <2>9 DEF Promise!KNext
  <1>2. ASSUME NEW answer \in BOOLEAN, EndCall(answer) PROVE Promise!KNext
    <2>1. /\ pc \in Calling /\ Running /\ Running' /\ cur' = NoSlice
          /\ answered' = IF answer THEN answered \cup {cur} ELSE answered
          /\ answer \/ pc # "sequential"
      BY <1>2, <1>i, <1>r DEF EndCall, Calling, Running, CallInv
    <2>2. cur \in Slice
      BY <1>2, <1>i DEF EndCall, TypeOK
    <2>3. \A s \in Slice : /\ CallOf(s)' = "none" /\ (s # cur => CallOf(s) = "none")
                           /\ s = cur => CallOf(s) # "none"
                                         /\ (answer \/ CallOf(s) = "warmup")
      BY <1>k, <1>n, <2>1
    <2>4. [s \in Slice |-> CallOf(s)]'
            = [[s \in Slice |-> CallOf(s)] EXCEPT ![cur] = "none"]
      BY <2>2, <2>3 DEF Slice
    <2>5. Outcome' = Outcome /\ ForkedSlices' = ForkedSlices
      BY <1>q, <2>1, RunningFacts DEF OpSlice
    <2>6. cur \in Promise!InCall
      BY <2>2, <2>3 DEF Promise!InCall, Promise!Slice, Slice
    <2>7. Promise!Return(cur, answer)
      BY <2>1, <2>2, <2>3, <2>4, <2>5, <2>6 DEF Promise!Return
    <2> QED
      BY <2>2, <2>7 DEF Promise!KNext, Promise!Slice, Slice
  <1>3. CASE PollInCall \/ \E s \in Script : Interpret(s)
    <2>1. Running /\ Running' /\ UNCHANGED <<cur, pc, answered>>
      BY <1>3, <1>i, <1>r DEF PollInCall, Interpret, CallInv, Running, opVars
    <2> QED
      BY <1>q, <1>k, <2>1, GoesOn
  <1>4. CASE Throw
    <2>1. /\ pc \in Calling /\ Running /\ cur' = NoSlice /\ UNCHANGED answered
          /\ cur \in Slice /\ pc' = "over" /\ status' = "fatal"
      BY <1>4, <1>i, <1>r DEF Throw, CallInv, Over, opVars, TypeOK
    <2>2. \A s \in Slice : /\ CallOf(s)' = "none" /\ (s # cur => CallOf(s) = "none")
                           /\ s = cur => CallOf(s) \in {"seq", "warmup"}
      BY <1>k, <1>n, <2>1
    <2>3. [s \in Slice |-> CallOf(s)]'
            = [[s \in Slice |-> CallOf(s)] EXCEPT ![cur] = "none"]
      BY <2>1, <2>2 DEF Slice
    <2>4. Outcome' = "fatal" /\ ForkedSlices' = ForkedSlices
      BY <1>q, <2>1 DEF Outcome, ForkedSlices, Running
    <2>5. Promise!Throw(cur)
      BY <2>1, <2>2, <2>3, <2>4 DEF Promise!Throw, Promise!Alone
    <2> QED
      BY <2>1, <2>5 DEF Promise!KNext, Promise!Slice, Slice
  <1>5. CASE SequentialDone
    <2>1. /\ Running /\ NoCall /\ NoCall' /\ UNCHANGED <<numSlices, answered>>
          /\ warmupSlice = numSlices /\ Over("sequential")
      BY <1>5, <1>i, <1>q, <1>r DEF SequentialDone, Calling, NoCall, opVars
    <2>2. answered = OpSlice
      BY <1>i, <2>1, WarmupComplete DEF TypeOK
    <2>3. Promise!Succeed \/ Promise!Fail
      BY <2>1, <2>2, Ends DEF Status
    <2> QED
      BY <2>3 DEF Promise!KNext
  <1> QED
    BY <1>1, <1>2, <1>3, <1>4, <1>5 DEF OnMain

\* In a section the calls under way are those of the threads.
InKernel == {"kernel", "requested"}
LEMMA SectionCalls ==
    /\ cur = NoSlice => \A s \in Slice :
          CallOf(s) = IF \E t \in Thread : work[t] = s /\ at[t] \in InKernel
                      THEN "par" ELSE "none"
    /\ cur' = NoSlice => \A s \in Slice :
          CallOf(s)' = IF \E t \in Thread : work'[t] = s /\ at'[t] \in InKernel
                       THEN "par" ELSE "none"
  BY ForkJoinAssumption DEF CallOf, Slice, NoSlice, InKernel

\* The section begins without a call and ends, if at all, without one.
LEMMA RefinesSection ==
    ASSUME IInv, Execute \/ MainLeaves \/ Join
    PROVE  [Promise!KNext]_(Promise!kvars)
  <1>i. TypeOK /\ ControlInv /\ CallInv /\ QuietInv /\ PlaceInv /\ CoverInv
    BY DEF IInv
  <1>r. /\ Running /\ cur = NoSlice /\ cur' = NoSlice /\ UNCHANGED <<numSlices, answered>>
    BY <1>i DEF Running, ControlInv, CallInv, Calling, Execute, MainLeaves, InJob, Join, opVars
  <1>1. CASE Execute
    <2>1. UNCHANGED at /\ \A t \in Thread : at[t] = "idle"
      BY <1>1, <1>i DEF Execute, QuietInv
    <2>2. NoCall /\ NoCall'
      BY <1>r, <2>1 DEF NoCall
    <2>3. CASE Over("fatal")
      <3>1. Promise!Succeed \/ Promise!Fail
        BY <1>r, <2>2, <2>3, Ends DEF Status
      <3> QED
        BY <3>1 DEF Promise!KNext
    <2>4. CASE pc' \in {"recover", "job"} /\ status' = status
      <3>1. Running'
        BY <1>r, <2>4 DEF Running
      <3>2. \A s \in Slice : CallOf(s)' = CallOf(s)
        BY <2>2, NoCallFacts
      <3> QED
        BY <1>r, <3>1, <3>2, GoesOn
    <2> QED
      BY <1>1, <2>3, <2>4 DEF Execute
  <1>2. CASE MainLeaves
    <2>1. Running' /\ UNCHANGED <<pc, cur, at, work>>
      BY <1>2, <1>r DEF MainLeaves, InJob, Running
    <2>2. \A s \in Slice : CallOf(s)' = CallOf(s)
      BY <1>r, <2>1, SectionCalls
    <2> QED
      BY <1>r, <2>1, <2>2, GoesOn
  <1>3. CASE Join
    <2>1. NoCall /\ NoCall'
      BY <1>3, <1>r DEF NoCall, Join, AllThreadsOut
    \* Every slice has been completed, unless one was given up.
    <2>2. ~abort => answered = OpSlice
      <3>1. todo = {} /\ pc = "job" /\ \A t \in Thread : work[t] = NoSlice
        BY <1>3, <1>i DEF Join, AllThreadsOut, PlaceInv
      <3>2. NoSlice \notin OpSlice
        BY <1>i, ForkJoinAssumption DEF TypeOK, OpSlice, NoSlice
      <3>3. ~abort => OpSlice \subseteq answered
        BY <1>i, <3>1, <3>2 DEF CoverInv
      <3> QED
        BY <1>i, <3>3 DEF TypeOK, OpSlice
    <2>3. \/ Over("parallel") /\ ~abort
          \/ Over("fatal")
          \/ pc' = "recover" /\ status' = status
      BY <1>3 DEF Join
    <2>4. CASE Over("parallel") /\ ~abort
      <3>1. Promise!Succeed \/ Promise!Fail
        BY <1>r, <2>1, <2>2, <2>4, Ends DEF Status
      <3> QED
        BY <3>1 DEF Promise!KNext
    <2>5. CASE Over("fatal")
      <3>1. Promise!Succeed \/ Promise!Fail
        BY <1>r, <2>1, <2>5, Ends DEF Status
      <3> QED
        BY <3>1 DEF Promise!KNext
    <2>6. CASE pc' = "recover" /\ status' = status
      <3>1. Running'
        BY <1>r, <2>6 DEF Running
      <3>2. \A s \in Slice : CallOf(s)' = CallOf(s)
        BY <2>1, NoCallFacts
      <3> QED
        BY <1>r, <3>1, <3>2, GoesOn
    <2> QED
      BY <2>3, <2>4, <2>5, <2>6
  <1> QED
    BY <1>1, <1>2, <1>3

\* A thread begins, ends or gives up a call only of the slice it works on.
LEMMA RefinesThread ==
    ASSUME IInv, NEW t \in Thread, ThreadStep(t) \/ KernelStep(t)
    PROVE  [Promise!KNext]_(Promise!kvars)
  <1> USE DEF InKernel
  <1>i. TypeOK /\ ControlInv /\ CallInv /\ PlaceInv
    BY DEF IInv
  <1>f. pc = "job" /\ UNCHANGED <<pc, status, cur, numSlices>>
    BY ThreadFrame
  <1>r. Running /\ Running' /\ cur = NoSlice /\ cur' = NoSlice
    BY <1>i, <1>f DEF Running, ControlInv, CallInv, Calling
  <1>o. /\ Outcome = "running" /\ Outcome' = "running"
        /\ ForkedSlices = OpSlice /\ ForkedSlices' = ForkedSlices
    BY <1>f, <1>r, RunningFacts DEF OpSlice
  <1>s. OpSlice \subseteq Slice /\ NoSlice \notin Slice
    BY <1>i, ForkJoinAssumption DEF TypeOK, OpSlice, Slice, NoSlice
  \* Steps that neither begin nor end a call.
  <1>g. ASSUME UNCHANGED answered,
               \A u \in Thread : at[u] \in InKernel \/ at'[u] \in InKernel =>
                  /\ work'[u] = work[u]
                  /\ at[u] \in InKernel <=> at'[u] \in InKernel
        PROVE  UNCHANGED Promise!kvars
    <2>1. \A s \in Slice : CallOf(s)' = CallOf(s)
      BY <1>r, <1>g, SectionCalls
    <2> QED
      BY <1>f, <1>r, <1>g, <2>1, GoesOn
  \* The call of a thread's slice, and those of the others.
  <1>w. /\ at[t] \notin {"idle", "stopped"} => work[t] \in OpSlice /\ work[t] \in Slice
        /\ \A u \in Thread : u # t /\ work[u] = work[t] => work[t] = NoSlice
    BY <1>i, <1>s DEF PlaceInv
  \* Only the call of t changes when t begins or leaves its call.
  <1>c. ASSUME at[t] \notin {"idle", "stopped"},
               \A u \in Thread \ {t} : at'[u] = at[u] /\ work'[u] = work[u],
               NEW mode1 \in {"par", "none"},
               IF mode1 = "par" THEN at'[t] \in InKernel /\ work'[t] = work[t]
               ELSE at'[t] \notin InKernel
        PROVE  [s \in Slice |-> CallOf(s)]'
                 = [[s \in Slice |-> CallOf(s)] EXCEPT ![work[t]] = mode1]
    <2>1. ASSUME NEW s \in Slice PROVE CallOf(s)' = IF s = work[t] THEN mode1 ELSE CallOf(s)
      <3>1. CASE s = work[t]
        <4>1. \A u \in Thread \ {t} : work'[u] # s
          BY <1>s, <1>w, <1>c, <3>1
        <4>2. CASE mode1 = "par"
          BY <1>r, <1>c, <3>1, <4>2, SectionCalls
        <4>3. CASE mode1 = "none"
          BY <1>r, <1>c, <3>1, <4>1, <4>3, SectionCalls
        <4> QED
          BY <4>2, <4>3
      <3>2. CASE s # work[t]
        <4>1. \A u \in Thread : /\ work[u] = s /\ at[u] \in InKernel
                                   => work'[u] = s /\ at'[u] \in InKernel
          BY <1>c, <3>2
        <4>2. \A u \in Thread : /\ work'[u] = s /\ at'[u] \in InKernel
                                   => work[u] = s /\ at[u] \in InKernel
          BY <1>c, <3>2
        <4> QED
          BY <1>r, <3>2, <4>1, <4>2, SectionCalls
      <3> QED
        BY <3>1, <3>2
    <2> QED
      BY <2>1, <1>w, <1>c DEF Slice
  <1>t. at \in [Thread -> {"idle", "enter", "kernel", "requested", "setAbort",
                          "setFatal", "failed", "stopped"}]
        /\ work \in [Thread -> Slice \cup {NoSlice}]
    BY <1>i DEF TypeOK
  <1>k. at[t] \in InKernel => CallOf(work[t]) = "par" /\ work[t] \in Promise!InCall
    BY <1>r, <1>w, SectionCalls DEF Promise!InCall, Promise!Slice, Slice
  <1>1. CASE Claim(t)
    <2>1. UNCHANGED answered /\ at[t] = "idle" /\ at' = [at EXCEPT ![t] = "enter"]
          /\ \E s : work' = [work EXCEPT ![t] = s]
      BY <1>1 DEF Claim, Goto, opVars
    <2> QED
      BY <1>t, <2>1, <1>g
  <1>2. CASE AbortJob(t)
    <2>1. UNCHANGED answered /\ at[t] = "failed" /\ at' = [at EXCEPT ![t] = "stopped"]
          /\ work' = [work EXCEPT ![t] = NoSlice]
      BY <1>2 DEF AbortJob, InJob, Goto, opVars
    <2> QED
      BY <1>t, <2>1, <1>g
  <1>3. CASE SetAbortFlag(t)
    <2>1. /\ UNCHANGED <<answered, work>> /\ at[t] \in {"setAbort", "setFatal", "requested"}
          /\ at' = [at EXCEPT ![t] = IF at[t] = "requested" THEN "kernel" ELSE "failed"]
      BY <1>3 DEF SetAbortFlag, InJob, Goto, opVars
    <2> QED
      BY <1>t, <2>1, <1>g
  <1>4. CASE RequestGC(t)
    <2>1. /\ UNCHANGED <<answered, work>> /\ at[t] = "kernel"
          /\ at' = [at EXCEPT ![t] = "requested"]
      BY <1>4 DEF RequestGC, InJob, Goto, opVars
    <2> QED
      BY <1>t, <2>1, <1>g
  <1>5. CASE EnterPortion(t)
    <2>1. /\ UNCHANGED <<answered, work>> /\ at[t] = "enter"
          /\ \E where \in {"setFatal", "setAbort", "kernel"} : at' = [at EXCEPT ![t] = where]
      BY <1>5 DEF EnterPortion, InJob, Goto, opVars
    <2>2. CASE at'[t] # "kernel"
      BY <1>t, <2>1, <2>2, <1>g
    <2>3. CASE at'[t] = "kernel"
      <3>1. [s \in Slice |-> CallOf(s)]'
              = [[s \in Slice |-> CallOf(s)] EXCEPT ![work[t]] = "par"]
        BY <1>t, <2>1, <2>3, <1>c
      <3>2. CallOf(work[t]) = "none" /\ \A s \in Slice : CallOf(s) \in {"none", "par"}
        <4>1. \A u \in Thread : work[u] = work[t] => at[u] \notin InKernel
          BY <1>s, <1>w, <2>1
        <4> QED
          BY <1>r, <1>w, <2>1, <4>1, SectionCalls
      <3>3. Promise!Begin(work[t], "par")
        BY <1>o, <1>w, <2>1, <3>1, <3>2 DEF Promise!Begin, Promise!InCall, Promise!Slice, Slice
      <3>4. "par" \in Promise!CallMode /\ work[t] \in Promise!Slice
        BY <1>w, <2>1 DEF Promise!CallMode, Promise!Slice, Slice
      <3> QED
        BY <3>3, <3>4 DEF Promise!KNext
    <2> QED
      BY <2>2, <2>3
  <1>6. CASE Complete(t)
    <2>1. /\ at[t] = "kernel" /\ answered' = answered \cup {work[t]}
          /\ \E where \in {"failed", "idle"} : at' = [at EXCEPT ![t] = where]
          /\ work' = work \/ work' = [work EXCEPT ![t] = NoSlice]
      BY <1>6 DEF Complete, Goto
    <2>2. [s \in Slice |-> CallOf(s)]'
            = [[s \in Slice |-> CallOf(s)] EXCEPT ![work[t]] = "none"]
      BY <1>t, <2>1, <1>c
    <2>3. Promise!Return(work[t], TRUE)
      BY <1>o, <1>k, <2>1, <2>2 DEF Promise!Return
    <2>4. work[t] \in Promise!Slice
      BY <1>w, <2>1 DEF Promise!Slice, Slice
    <2> QED
      BY <2>3, <2>4 DEF Promise!KNext
  <1>7. CASE Check(t) \/ BailOut(t) \/ BailOutFatally(t)
    <2>1. /\ at[t] = "kernel" /\ UNCHANGED <<answered, work>>
          /\ at' = [at EXCEPT ![t] = "setAbort"]
      BY <1>7 DEF Check, BailOut, BailOutFatally, Bail, Goto, InJob, opVars
    <2>2. [s \in Slice |-> CallOf(s)]'
            = [[s \in Slice |-> CallOf(s)] EXCEPT ![work[t]] = "none"]
      BY <1>t, <2>1, <1>c
    <2>3. Promise!Bailout(work[t])
      BY <1>o, <1>k, <1>w, <2>1, <2>2 DEF Promise!Bailout
    <2>4. work[t] \in Promise!Slice
      BY <1>w, <2>1 DEF Promise!Slice, Slice
    <2> QED
      BY <2>3, <2>4 DEF Promise!KNext
  <1> QED
    BY <1>1, <1>2, <1>3, <1>4, <1>5, <1>6, <1>7 DEF ThreadStep, KernelStep

\* Interrupts and helpers are not part of the promise.
LEMMA RefinesOutside ==
    ASSUME Outside \/ UNCHANGED vars
    PROVE  UNCHANGED Promise!kvars
  <1>1. UNCHANGED <<pc, status, cur, work, at, numSlices, answered>>
    BY DEF Outside, Interrupt, HelperFinishes, vars, opVars, poolVars
  <1>2. \A s \in Slice : CallOf(s)' = CallOf(s)
    BY <1>1 DEF CallOf
  <1> QED
    BY <1>1, <1>2, Stutters DEF ForkedSlices, Outcome

\* Whatever mixture of warm-ups, attempts and sequential calls ForkJoin() goes
\* through, it calls its kernel as the self-hosted operations rely on.
THEOREM Refinement == Spec => ImplementsKernelCalls
  <1>1. Init => Promise!KInit
    BY ForkJoinAssumption
       DEF Init, ForkedSlices, Outcome, CallOf, Promise!KInit, Promise!Slice, Slice, NoSlice,
           Thread
  <1>2. IInv /\ [Next]_vars => [Promise!KNext]_(Promise!kvars)
    BY NextCases, RefinesPreparing, RefinesOnMain, RefinesSection, RefinesThread,
       RefinesOutside
  <1> QED
    BY <1>1, <1>2, Invariant, PTL DEF Spec, ImplementsKernelCalls, Promise!KSpec

=============================================================================
