------------------------- MODULE ParallelArrayProofs -------------------------
(***************************************************************************)
(* Proofs about ParallelArray: the inductive invariant IInv, and from it   *)
(* the type invariant, the soundness of the checkpoints and that every     *)
(* operation returns what its sequential fallback returns.                 *)
(*                                                                         *)
(* The step lemmas, one or two for each conjunct of IInv, distinguish the  *)
(* steps as NextSteps sorts them: entering a call (Enter), its work        *)
(* (Work), its end (Quit), and what is done outside of the kernels.        *)
(***************************************************************************)
EXTENDS ParallelArrayLemmas

-----------------------------------------------------------------------------
(* The inductive invariant.                                                *)

Forked == stage \in {"fork1", "fork2"}

\* Types.
Types ==
    /\ input \in Inputs
    /\ slices \in SUBSET Slice /\ complete \subseteq slices
    /\ outcome \in {"idle", "running", "done", "fatal"}
    /\ stage \in {"start", "fork1", "fork2", "returned"}
    /\ call \in [Slice -> CallMode \cup {"none"}]
    /\ info \in [DOMAIN info -> [start : Nat, end : Nat, pos : Nat]]
    /\ DOMAIN info \subseteq Slice
    /\ \A s \in DOMAIN info : info[s].start <= info[s].end
    /\ \A i \in DOMAIN buffer : buffer[i] \in Seq(Int)
    /\ conflicts \in [Slice -> SUBSET (0..(MaxLength - 1))]
    /\ counts \in [Slice -> 0..MaxLength]
    /\ frame \in [Slice -> Values]

\* Which calls can be under way, and when.
Control ==
    /\ stage = "start" => /\ outcome = "idle"
                          /\ conflicts = [s \in Slice |-> {}]
                          /\ counts = [s \in Slice |-> 0]
    /\ Forked => /\ outcome # "idle"
                 /\ slices = 0..(NumSlices - 1) /\ DOMAIN info = slices
                 /\ ~TooSmall
    /\ stage = "fork2" => kind \in {"scan", "filter"}
    /\ stage = "returned" => outcome # "running"
    /\ outcome # "running" => InCall = {}
    /\ outcome = "done" => complete = slices
    /\ InCall \subseteq slices
    /\ \A s, t \in InCall : call[s] \in Alone => s = t

\* The arrays the operation works on.
Arrays ==
    Forked =>
    /\ buffer \in [CASE kind = "range" -> 0..(outLength - 1)
                     [] kernel = "copy" -> 0..(Cardinality(input.keep) - 1)
                     [] OTHER -> 0..(length - 1)
                   -> Seq(Int)]
    /\ sub \in [slices -> IF kind = "vector" THEN [0..(outLength - 1) -> Seq(Int)] ELSE Seq(Int)]
    /\ survivors \in [0..(Chunks - 1) -> SUBSET Nat]

\* A slice and its position.
From(s) == IF kind = "range" THEN 0 ELSE Bound(s)
To(s) == CASE kind = "range" -> length
           [] kernel = "phase2" -> At(Bound(s + 1))
           [] OTHER -> Bound(s + 1)
Position(s) ==
    /\ info[s].start = From(s) /\ info[s].end = To(s)
    /\ info[s].pos <= info[s].end
    /\ info[s].pos >= IF kernel = "phase2" THEN Lo(s) ELSE info[s].start
    /\ s \in complete => \/ info[s].pos = info[s].end
                         \/ kernel = "phase2" /\ s = 0
                         \/ kernel = "range"
    /\ kernel = "copy" => info[s].pos = info[s].end
Positions == Forked => \A s \in slices : Position(s)

\* A call under way.
Frame(s) ==
    LET f == frame[s] IN
    /\ f.pos <= f.last /\ f.last <= info[s].end
    /\ IF kernel = "copy" THEN f.pos >= info[s].start /\ f.last = info[s].end
       ELSE IF kernel = "range" THEN f.pos >= info[s].pos
       ELSE f.pos = info[s].pos
    /\ kernel \in {"reduce", "scan"} => info[s].start < f.last
    /\ ~ByIndex => IF f.pos < f.last THEN f.pos * ChunkSize <= f.i /\ f.i <= ChunkEnd(f.pos)
                   ELSE f.i = f.pos * ChunkSize
Frames == \A s \in InCall : Frame(s)

\* Whether slice s is in the middle of a chunk, and the element it has reached.
InChunk(s) == s \in InCall /\ frame[s].pos < frame[s].last
Reached(s) == IF InChunk(s) THEN frame[s].i ELSE At(info[s].pos)

MapInv(s) ==
    kernel \in {"map", "build"} => \A i \in Lo(s)..(Reached(s) - 1) : buffer[i] = Elem(i)

ReduceInv(s) ==
    kernel = "reduce" =>
    /\ info[s].start < info[s].pos => sub[s] = Run(Lo(s), At(info[s].pos) - 1)
    /\ InChunk(s) /\ Lo(s) < frame[s].i => frame[s].acc = Run(Lo(s), frame[s].i - 1)

ScanInv(s) ==
    kernel = "scan" =>
    /\ \A i \in Lo(s)..(Reached(s) - 1) : buffer[i] = Run(Lo(s), i)
    /\ InChunk(s) /\ frame[s].pos * ChunkSize < frame[s].i =>
          frame[s].acc = Run(Lo(s), frame[s].i - 1)

Phase2Inv(s) ==
    kernel = "phase2" =>
    /\ \A i \in Lo(s)..(At(Bound(s + 1)) - 1) :
          buffer[i] = IF s = 0 \/ i < info[s].pos THEN Run(0, i) ELSE Run(Lo(s), i)
    /\ sub[s] = Run(0, At(Bound(s + 1)) - 1)

RankOf(n) == Rank(input.keep, n)
ChunkSurvivors(c) == input.keep \cap ((c * ChunkSize)..(ChunkEnd(c) - 1))

FilterInv(s) ==
    kernel \in {"filter", "copy"} =>
    /\ counts[s] = RankOf(info[s].pos * ChunkSize) - RankOf(Lo(s))
    /\ \A c \in info[s].start..(info[s].pos - 1) : survivors[c] = ChunkSurvivors(c)
    /\ kernel = "filter" /\ InChunk(s) =>
          /\ frame[s].bits = input.keep \cap ((frame[s].pos * ChunkSize)..(frame[s].i - 1))
          /\ frame[s].count = RankOf(frame[s].i) - RankOf(Lo(s))

Copied(s, n) ==
    \A h \in input.keep : Lo(s) <= h /\ h < n => buffer[RankOf(h)] = Elem(h)
CopyInv(s) ==
    kernel = "copy" =>
    /\ s \in InCall => frame[s].count = RankOf(frame[s].i) /\ Copied(s, frame[s].i)
    /\ s \in complete => Copied(s, Lo(s + 1))

\* Elements a, ..., b - 1 of a scatter are not for slice s.
Skipped(s, a, b) == \A i \in a..(b - 1) : CheckedTarget(i) /\ targets[i] \notin OutputPart(s)

RangeInv(s) ==
    kernel = "range" =>
    /\ conflicts[0] \cap OutputPart(s) = Targets(0, info[s].pos) \cap OutputPart(s)
    /\ \A i \in 0..(info[s].pos - 1) :
          /\ CheckedTarget(i)
          /\ ~MayCollide /\ targets[i] \in OutputPart(s) =>
                \A h \in 0..(i - 1) : targets[h] # targets[i]
    /\ ~SeqThrows => \A t \in OutputPart(s) : buffer[t] = SeqStates[info[s].pos].buffer[t]
    /\ s \in InCall => Skipped(s, info[s].pos, frame[s].pos)
    /\ s \in complete => Skipped(s, info[s].pos, length)

\* What slice s of a scatter has put into its own buffer at t: combined with
\* what the slices before it have there, it is what the sequential loop has.
Local(s, t) ==
    LET before == SeqStates[Bound(s)].buffer[t]
        now == SeqStates[info[s].pos].buffer[t]
    IN now = IF t \notin conflicts[s] THEN before
             ELSE IF t \in Targets(0, Bound(s)) THEN Collide(sub[s][t], before)
             ELSE sub[s][t]
VectorInv(s) ==
    kernel = "vector" =>
    /\ conflicts[s] = Targets(Bound(s), info[s].pos)
    /\ \A i \in Bound(s)..(info[s].pos - 1) :
          CheckedTarget(i) /\ (~MayCollide => \A h \in Bound(s)..(i - 1) : targets[h] # targets[i])
    /\ ~SeqThrows => \A t \in 0..(outLength - 1) : Local(s, t)
    /\ s = 0 => \A t \in 0..(outLength - 1) : t \notin conflicts[0] => sub[0][t] = Default

SliceData(s) == /\ MapInv(s) /\ ReduceInv(s) /\ ScanInv(s) /\ Phase2Inv(s)
                /\ FilterInv(s) /\ CopyInv(s) /\ RangeInv(s) /\ VectorInv(s)
Data == Forked => \A s \in slices : SliceData(s)

Errors == outcome = "fatal" => IsScatter /\ SeqThrows

IInv == /\ Types /\ Control /\ Arrays /\ Positions /\ Frames /\ Data /\ Errors
        /\ ResultIsSequential

-----------------------------------------------------------------------------
(* Steps.                                                                  *)

\* The end of a call, however it ends; the work of a call.
Quit(s) == Leave(s) \/ BailOut(s) \/ ScatterError(s)
NextIndex(s) == Phase2Element(s) \/ RangeElement(s) \/ VectorElement(s)
NextChunk(s) == ChunkDone(s) \/ ReduceChunk(s) \/ FilterChunk(s)
NextElement(s) ==
    MapElement(s) \/ ReduceElement(s) \/ ScanElement(s) \/ FilterElement(s) \/ CopyElement(s)
Work(s) == NextIndex(s) \/ NextChunk(s) \/ NextElement(s) \/ CopyChunk(s) \/ RangeSkip(s)

\* What returns the operation's result, and what begins the second phase.
Finish == FallBack \/ ReturnBuffer \/ ReduceSlices \/ MergeBuffers \/ Propagate
          \/ (CompressSurvivors /\ stage' = "returned")
SecondPhase == ScanIntermediates \/ (CompressSurvivors /\ stage' = "fork2")

\* The steps, sorted.
LEMMA NextSteps ==
  ASSUME [Next]_vars
  PROVE  \/ UNCHANGED vars \/ Fork \/ ForkJoinDone \/ SecondPhase \/ Finish
         \/ \E s \in Slice : \/ \E mode \in CallMode : Enter(s, mode)
                             \/ Work(s) \/ Quit(s)
<1>1. CompressSurvivors => stage' \in {"returned", "fork2"}
  BY DEF CompressSurvivors, Finished
<1>2. \A s : KernelStep(s) => Work(s) \/ Quit(s)
  BY Zenon DEF KernelStep, Work, Quit, NextIndex, NextChunk, NextElement
<1>3. Terminated => UNCHANGED vars
  BY DEF Terminated
<1> QED
  BY <1>1, <1>2, <1>3, Zenon DEF Next, Finish, SecondPhase, Quit

\* What is a function of the input changes only with it.
LEMMA SameInput ==
  ASSUME input' = input
  PROVE  /\ kind' = kind /\ length' = length /\ outLength' = outLength
         /\ targets' = targets /\ MayCollide' = MayCollide
         /\ NumSlices' = NumSlices /\ Chunks' = Chunks /\ Items' = Items
         /\ TooSmall' = TooSmall /\ IsScatter' = IsScatter
         /\ SeqThrows' = SeqThrows /\ SeqStates' = SeqStates
         /\ Sequential' = Sequential
         /\ \A s : /\ Bound(s)' = Bound(s) /\ Lo(s)' = Lo(s) /\ OutputPart(s)' = OutputPart(s)
                   /\ From(s)' = From(s)
         /\ \A c : /\ At(c)' = At(c) /\ ChunkEnd(c)' = ChunkEnd(c) /\ RankOf(c)' = RankOf(c)
                   /\ ChunkSurvivors(c)' = ChunkSurvivors(c)
                   /\ CheckedTarget(c)' = CheckedTarget(c)
         /\ \A a, b : Targets(a, b)' = Targets(a, b)
<1>1. kind' = kind /\ length' = length /\ outLength' = outLength
      /\ targets' = targets /\ MayCollide' = MayCollide /\ NumWorkers' = NumWorkers
  BY DEF kind, length, outLength, targets, MayCollide, NumWorkers
<1>2. Chunks' = Chunks
  BY <1>1 DEF Chunks
<1>3. \A n, c : ComputeNumSlices(n, c)' = ComputeNumSlices(n, c)
  BY <1>1 DEF ComputeNumSlices
<1>4. NumSlices' = NumSlices
  BY <1>1, <1>2 DEF NumSlices, ComputeNumSlices
<1>5. Items' = Items
  BY <1>1, <1>2 DEF Items
<1>6. TooSmall' = TooSmall /\ IsScatter' = IsScatter
  BY <1>1, <1>2 DEF TooSmall, IsScatter
<1>7. \A s : Bound(s)' = Bound(s)
  BY <1>4, <1>5 DEF Bound
<1>8. \A s : Lo(s)' = Lo(s)
  BY <1>4, <1>5 DEF Lo, Bound
<1>9. \A s : From(s)' = From(s)
  BY <1>1, <1>4, <1>5 DEF From, Bound
<1>10. \A s : OutputPart(s)' = OutputPart(s)
  BY <1>1, <1>4 DEF OutputPart
<1>11. \A c : At(c)' = At(c) /\ ChunkEnd(c)' = ChunkEnd(c) /\ RankOf(c)' = RankOf(c)
              /\ CheckedTarget(c)' = CheckedTarget(c)
  BY <1>1 DEF At, ChunkEnd, RankOf, CheckedTarget
<1>12. \A c : ChunkSurvivors(c)' = ChunkSurvivors(c)
  BY <1>1 DEF ChunkSurvivors, ChunkEnd
<1>13. \A a, b : Targets(a, b)' = Targets(a, b)
  BY <1>1 DEF Targets
<1>14. SeqThrows' = SeqThrows
  BY <1>1 DEF SeqThrows, Bad, CheckedTarget
<1>15. SeqStates' = SeqStates
  BY <1>1 DEF SeqStates, ScatterOne, CheckedTarget
<1>16. Sequential' = Sequential
  BY DEF Sequential, ScatterSeq, length, outLength, ScatterOne, targets, CheckedTarget,
         MayCollide, kind, Kept
<1> QED
  BY <1>1, <1>2, <1>4, <1>5, <1>6, <1>7, <1>8, <1>9, <1>10, <1>11, <1>12, <1>13, <1>14,
     <1>15, <1>16

\* The kernel changes only with the stage.
LEMMA SameKernel ==
  ASSUME input' = input, stage' = stage
  PROVE  /\ kernel' = kernel /\ ByIndex' = ByIndex /\ Forked' = Forked
         /\ \A s : To(s)' = To(s)
<1>1. kind' = kind /\ \A s : Bound(s)' = Bound(s)
  BY SameInput
<1>2. length' = length /\ \A c : At(c)' = At(c)
  BY SameInput
<1>3. kernel' = kernel
  BY <1>1 DEF kernel
<1>4. ByIndex' = ByIndex /\ Forked' = Forked
  BY <1>3 DEF ByIndex, Forked
<1>5. NumSlices' = NumSlices /\ Items' = Items
  BY SameInput
<1>6. \A s : To(s)' = To(s)
  BY <1>1, <1>2, <1>3, <1>5 DEF To, At, Bound
<1> QED
  BY <1>3, <1>4, <1>6

\* The kernels of each kind.
LEMMA Kernels ==
  ASSUME input \in Inputs, Forked, stage = "fork2" => kind \in {"scan", "filter"}
  PROVE  /\ stage = "fork1" => kernel = kind
         /\ stage = "fork2" => kernel \in {"phase2", "copy"}
         /\ kernel = "phase2" <=> stage = "fork2" /\ kind = "scan"
         /\ kernel = "copy" <=> stage = "fork2" /\ kind = "filter"
         /\ kernel \in Kind \cup {"phase2", "copy"}
  BY Arguments DEF kernel, Forked, Kind

\* Calls are under way only while ForkJoin() runs.
LEMMA Running ==
  ASSUME Types, Control, NEW s \in InCall
  PROVE  /\ outcome = "running" /\ Forked /\ s \in slices /\ s \in Slice
         /\ slices = 0..(NumSlices - 1) /\ DOMAIN info = slices /\ ~TooSmall
         /\ stage = "fork2" => kind \in {"scan", "filter"}
         /\ call[s] # "none"
  BY DEF Types, Control, Forked, InCall

\* A call ends.
LEMMA QuitSteps ==
  ASSUME Types, Control, NEW s \in Slice, Quit(s)
  PROVE  /\ s \in InCall /\ InCall' = InCall \ {s}
         /\ call' = [call EXCEPT ![s] = "none"]
         /\ frame' = [frame EXCEPT ![s] = NoFrame]
         /\ UNCHANGED <<input, stage, info, buffer, sub, conflicts, counts, survivors,
                        result, slices>>
         /\ complete' = complete
            \/ /\ complete' = complete \cup {s} /\ ~InLoop(s)
               /\ kernel = "copy" \/ NothingToDo(s) \/ frame[s].last = info[s].end
         /\ outcome' = outcome \/ (outcome' = "fatal" /\ call[s] \in Alone /\ ScatterError(s))
<1>0. call \in [Slice -> CallMode \cup {"none"}] /\ "none" \notin CallMode
  BY DEF Types, CallMode, Alone
<1> DEFINE R == /\ s \in InCall
                /\ call' = [call EXCEPT ![s] = "none"]
                /\ frame' = [frame EXCEPT ![s] = NoFrame]
                /\ UNCHANGED <<input, stage, info, buffer, sub, conflicts, counts, survivors,
                               result, slices>>
                /\ complete' = complete
                   \/ /\ complete' = complete \cup {s} /\ ~InLoop(s)
                      /\ kernel = "copy" \/ NothingToDo(s) \/ frame[s].last = info[s].end
                /\ outcome' = outcome
                   \/ (outcome' = "fatal" /\ call[s] \in Alone /\ ScatterError(s))
<1>1. ASSUME Leave(s) PROVE R
  <2>1. s \in InCall /\ ~InLoop(s)
        /\ Return(s, kernel = "copy" \/ NothingToDo(s) \/ frame[s].last = info[s].end)
        /\ frame' = [frame EXCEPT ![s] = NoFrame]
        /\ UNCHANGED <<input, stage, info, buffer, sub, conflicts, counts, survivors, result>>
    BY <1>1, Zenon DEF Leave
  <2>2. /\ call' = [call EXCEPT ![s] = "none"] /\ slices' = slices /\ outcome' = outcome
        /\ complete' = complete
           \/ /\ complete' = complete \cup {s}
              /\ kernel = "copy" \/ NothingToDo(s) \/ frame[s].last = info[s].end
    BY <2>1 DEF Return
  <2> QED
    BY <2>1, <2>2
<1>2. ASSUME BailOut(s) PROVE R
  BY <1>0, <1>2 DEF BailOut, Bailout, Unwind, InCall, CallMode, Alone
<1>3. ASSUME ScatterError(s) PROVE R
  <2>1. ThrowError(s)
    BY <1>3, Zenon DEF ScatterError
  <2>2. CASE Bailout(s) /\ Unwind(s)
    BY <1>0, <2>2 DEF Bailout, Unwind, InCall, CallMode, Alone
  <2>3. CASE Throw(s) /\ Unwind(s)
    BY <1>0, <1>3, <2>3 DEF Throw, Unwind, InCall, CallMode, Alone
  <2> QED
    BY <2>1, <2>2, <2>3, Zenon DEF ThrowError
<1>4. R
  BY <1>1, <1>2, <1>3, Zenon DEF Quit
<1>5. InCall' = InCall \ {s}
  BY <1>0, <1>4 DEF InCall
<1> QED
  BY <1>4, <1>5

\* A call begins.
LEMMA EnterSteps ==
  ASSUME Types, Control, NEW s \in Slice, NEW mode \in CallMode, Enter(s, mode)
  PROVE  /\ Forked /\ outcome = "running"
         /\ s \in slices /\ s \notin InCall /\ InCall' = InCall \cup {s}
         /\ call' = [call EXCEPT ![s] = mode]
         /\ \A t \in InCall : call[t] = "par" /\ mode = "par"
         /\ \A t \in Slice \ {s} : frame'[t] = frame[t] /\ call'[t] = call[t]
         /\ DOMAIN frame' = Slice
         /\ frame'[s] = [pos |-> IF kernel = "copy" THEN info[s].start ELSE info[s].pos,
                         last |-> StopAt(s, mode),
                         i |-> (IF kernel = "copy" THEN info[s].start ELSE info[s].pos) * ChunkSize,
                         acc |-> IF kernel = "reduce" THEN sub[s] ELSE Hole,
                         bits |-> {},
                         count |-> IF kernel = "copy" THEN CountBefore(s) ELSE counts[s]]
         /\ frame' = [frame EXCEPT ![s] = frame'[s]]
         /\ UNCHANGED <<input, stage, info, buffer, sub, conflicts, counts, survivors,
                        result, slices, outcome, complete>>
<1>0. /\ call \in [Slice -> CallMode \cup {"none"}] /\ "none" \notin CallMode
      /\ frame \in [Slice -> Values]
  BY DEF Types, CallMode, Alone
<1>1. /\ stage \in {"fork1", "fork2"} /\ Begin(s, mode)
      /\ UNCHANGED <<input, stage, info, buffer, sub, conflicts, counts, survivors, result>>
  BY Zenon DEF Enter
<1> DEFINE from == IF kernel = "copy" THEN info[s].start ELSE info[s].pos
           last == StopAt(s, mode)
           acc == IF kernel = "reduce" THEN sub[s] ELSE Hole
           count == IF kernel = "copy" THEN CountBefore(s) ELSE counts[s]
           r == [pos |-> from, last |-> last, i |-> from * ChunkSize,
                 acc |-> acc, bits |-> {}, count |-> count]
<1>2. frame' = [frame EXCEPT ![s] = r]
  <2>1. frame' = [frame EXCEPT ![s] =
            [NoFrame EXCEPT !.pos = from, !.last = last, !.i = from * ChunkSize,
                            !.acc = acc, !.count = count]]
    BY DEF Enter
  <2> HIDE DEF from, last, acc, count
  <2>2. [NoFrame EXCEPT !.pos = from, !.last = last, !.i = from * ChunkSize,
                        !.acc = acc, !.count = count] = r
    <3> SUFFICES ASSUME NEW x,
                        x = [NoFrame EXCEPT !.pos = from, !.last = last, !.i = from * ChunkSize,
                                            !.acc = acc, !.count = count]
                 PROVE  x = r
      OBVIOUS
    <3> QED
      BY DEF NoFrame
  <2> QED
    BY <2>1, <2>2, Zenon
<1>3. /\ outcome = "running" /\ s \in slices /\ call[s] = "none"
      /\ \A t \in InCall : call[t] = "par" /\ mode = "par"
      /\ call' = [call EXCEPT ![s] = mode]
      /\ UNCHANGED <<slices, outcome, complete>>
  BY <1>1 DEF Begin
<1> HIDE DEF r
<1>4. frame'[s] = r /\ DOMAIN frame' = Slice /\ \A t \in Slice \ {s} : frame'[t] = frame[t]
  BY <1>0, <1>2
<1>5. InCall' = InCall \cup {s} /\ s \notin InCall /\ \A t \in Slice \ {s} : call'[t] = call[t]
  BY <1>0, <1>3 DEF InCall
<1> QED
  BY <1>1, <1>2, <1>3, <1>4, <1>5 DEF r, Forked

\* A call works: it changes only its own locals and its slice's position.
LEMMA WorkSteps ==
  ASSUME Types, NEW s \in Slice, Work(s)
  PROVE  /\ s \in InCall /\ InLoop(s) /\ InCall' = InCall
         /\ UNCHANGED <<kvars, input, stage, result>>
         /\ \A t \in Slice \ {s} : frame'[t] = frame[t]
         /\ \A t \in Slice \ {s} : t \in DOMAIN info => info'[t] = info[t]
         /\ DOMAIN info' = DOMAIN info /\ DOMAIN frame' = Slice
         /\ NextElement(s) \/ CopyChunk(s) \/ RangeSkip(s) => info' = info
         /\ NextChunk(s) \/ NextIndex(s) => Advance(s)
<1>0. frame \in [Slice -> Values]
  BY DEF Types
<1>1. InLoop(s) => s \in InCall
  BY DEF InLoop
<1>2. NextElement(s) \/ CopyChunk(s) \/ RangeSkip(s) => info' = info
  BY Zenon DEF NextElement, MapElement, ReduceElement, ScanElement, FilterElement, CopyElement,
     CopyChunk, RangeSkip
<1>3. NextChunk(s) \/ NextIndex(s) => Advance(s)
  BY Zenon DEF NextIndex, Phase2Element, RangeElement, VectorElement,
     NextChunk, ChunkDone, ReduceChunk, FilterChunk
<1>4. CASE NextIndex(s)
  <2>1. InLoop(s) /\ Advance(s) /\ UNCHANGED <<kvars, input, stage, result>>
    BY <1>4, Zenon DEF NextIndex, Phase2Element, RangeElement, VectorElement
  <2>2. InCall' = InCall
    BY <2>1 DEF kvars, InCall
  <2>3. /\ \A t \in Slice \ {s} : frame'[t] = frame[t]
        /\ \A t \in Slice \ {s} : t \in DOMAIN info => info'[t] = info[t]
        /\ DOMAIN info' = DOMAIN info /\ DOMAIN frame' = Slice
    BY <1>0, <2>1 DEF Advance
  <2> QED
    BY <1>1, <1>2, <1>3, <2>1, <2>2, <2>3, Zenon
<1>5. CASE NextChunk(s)
  <2>1. InLoop(s) /\ Advance(s) /\ UNCHANGED <<kvars, input, stage, result>>
    BY <1>5, Zenon DEF NextChunk, ChunkDone, ReduceChunk, FilterChunk, AtChunkEnd
  <2>2. InCall' = InCall
    BY <2>1 DEF kvars, InCall
  <2>3. /\ \A t \in Slice \ {s} : frame'[t] = frame[t]
        /\ \A t \in Slice \ {s} : t \in DOMAIN info => info'[t] = info[t]
        /\ DOMAIN info' = DOMAIN info /\ DOMAIN frame' = Slice
    BY <1>0, <2>1 DEF Advance
  <2> QED
    BY <1>1, <1>2, <1>3, <2>1, <2>2, <2>3, Zenon
<1>6. CASE NextElement(s)
  <2>1. InLoop(s) /\ UNCHANGED <<kvars, input, stage, result>> /\ info' = info
    BY <1>6, Zenon DEF NextElement, MapElement, ReduceElement, ScanElement, FilterElement,
                       CopyElement, AtElement
  <2>2. DOMAIN frame' = Slice /\ \A t \in Slice \ {s} : frame'[t] = frame[t]
    BY <1>0, <1>6 DEF NextElement, MapElement, ReduceElement, ScanElement, FilterElement,
                       CopyElement
  <2>3. InCall' = InCall
    BY <2>1 DEF kvars, InCall
  <2> QED
    BY <1>1, <1>2, <1>3, <2>1, <2>2, <2>3, Zenon
<1>7. CASE CopyChunk(s) \/ RangeSkip(s)
  <2>1. InLoop(s) /\ UNCHANGED <<kvars, input, stage, result>> /\ info' = info
    BY <1>7, Zenon DEF CopyChunk, RangeSkip, AtChunkEnd
  <2>2. DOMAIN frame' = Slice /\ \A t \in Slice \ {s} : frame'[t] = frame[t]
    BY <1>0, <1>7 DEF CopyChunk, RangeSkip
  <2>3. InCall' = InCall
    BY <2>1 DEF kvars, InCall
  <2> QED
    BY <1>1, <1>2, <1>3, <2>1, <2>2, <2>3, Zenon
<1> QED
  BY <1>4, <1>5, <1>6, <1>7, Zenon DEF Work

\* The bounds Fork gives the slices.
LEMMA ForkBounds ==
  ASSUME input \in Inputs, Fork
  PROVE  /\ kind = "range" =>
               info' = [s \in 0..(NumSlices - 1) |-> [start |-> 0, end |-> length, pos |-> 0]]
         /\ kind # "range" =>
               info' = [s \in 0..(NumSlices - 1) |-> [start |-> Bound(s), end |-> Bound(s + 1),
                                                      pos |-> Bound(s)]]
         /\ input' = input /\ stage = "start" /\ stage' = "fork1" /\ ~TooSmall /\ ~EmptyReduce
         /\ slices' = 0..(NumSlices - 1) /\ outcome' = "running" /\ complete' = {}
         /\ call' = call
         /\ UNCHANGED <<conflicts, counts, frame, result>>
<1>1. NumSlices \in Nat \ {0} /\ Items \in Nat
  BY SliceCount
<1>2. /\ input' = input /\ stage = "start" /\ stage' = "fork1" /\ ~TooSmall /\ ~EmptyReduce
      /\ Start(NumSlices) /\ UNCHANGED <<conflicts, counts, frame, result>>
  BY Zenon DEF Fork
<1>3. /\ slices' = 0..(NumSlices - 1) /\ outcome' = "running" /\ complete' = {}
      /\ call' = call
  BY <1>2 DEF Start
<1>4. kind = "range" =>
        info' = [s \in 0..(NumSlices - 1) |-> [start |-> 0, end |-> length, pos |-> 0]]
  BY DEF Fork
<1>5. kind # "range" => info' = ComputeAllSliceBounds(Items, NumSlices)
  BY DEF Fork, Items
<1>6. kind # "range" =>
        info' = [s \in 0..(NumSlices - 1) |-> [start |-> Bound(s), end |-> Bound(s + 1),
                                               pos |-> Bound(s)]]
  BY <1>1, <1>5, AllSliceBounds DEF Bound
<1> QED
  BY <1>2, <1>3, <1>4, <1>6

\* The steps that end the operation, and those that begin the second phase.
LEMMA FinishSteps ==
  ASSUME Types, Control, Finish
  PROVE  /\ stage' = "returned" /\ outcome # "running"
         /\ UNCHANGED <<kvars, input, info, buffer, sub, conflicts, counts, survivors, frame>>
<1>1. CASE FallBack
  <2>1. stage = "start" /\ stage' = "returned"
        /\ UNCHANGED <<kvars, input, info, buffer, sub, conflicts, counts, survivors, frame>>
    BY <1>1, Zenon DEF FallBack
  <2> QED
    BY <2>1 DEF Control
<1>2. ASSUME NEW r, Finished(r), outcome # "running"
      PROVE  /\ stage' = "returned" /\ outcome # "running"
             /\ UNCHANGED <<kvars, input, info, buffer, sub, conflicts, counts, survivors, frame>>
  BY <1>2, Zenon DEF Finished
<1>3. CASE ReturnBuffer
  BY <1>2, <1>3 DEF ReturnBuffer
<1>4. CASE ReduceSlices
  BY <1>2, <1>4 DEF ReduceSlices
<1>5. CASE MergeBuffers
  <2>1. outcome = "done" /\ \E r : Finished(r)
    BY <1>5, Zenon DEF MergeBuffers
  <2> QED
    BY <1>2, <2>1
<1>6. CASE Propagate
  BY <1>2, <1>6 DEF Propagate
<1>7. CASE CompressSurvivors /\ stage' = "returned"
  <2>1. outcome = "done" /\ Finished(Returned(NewDenseArray(0, Hole)))
    BY <1>7 DEF CompressSurvivors
  <2> QED
    BY <1>2, <2>1
<1> QED
  BY <1>1, <1>3, <1>4, <1>5, <1>6, <1>7, Zenon DEF Finish

\* The second phase of a scan or a filter begins: ForkJoin() is called again.
LEMMA SecondPhaseSteps ==
  ASSUME SecondPhase
  PROVE  /\ input' = input /\ stage = "fork1" /\ stage' = "fork2"
         /\ outcome = "done" /\ outcome' = "running" /\ complete' = {} /\ call' = call
         /\ slices' = 0..(NumSlices - 1)
         /\ UNCHANGED <<conflicts, counts, survivors, frame, result>>
         /\ \/ ScanIntermediates /\ kind = "scan" /\ UNCHANGED buffer
            \/ CompressSurvivors /\ kind = "filter" /\ UNCHANGED <<info, sub>>
<1>1. CASE ScanIntermediates
  BY <1>1 DEF ScanIntermediates, Start
<1>2. CASE CompressSurvivors /\ stage' = "fork2"
  <2>1. CountBefore(NumSlices) # 0
    BY <1>2 DEF CompressSurvivors, Finished
  <2> QED
    BY <1>2, <2>1 DEF CompressSurvivors, Start
<1> QED
  BY <1>1, <1>2 DEF SecondPhase

\* ForkJoin() returns when every slice is complete.
LEMMA ForkJoinDoneSteps ==
  ASSUME ForkJoinDone
  PROVE  /\ UNCHANGED avars /\ UNCHANGED <<slices, call, complete>>
         /\ outcome = "running" /\ outcome' = "done" /\ InCall = {} /\ complete = slices
  BY DEF ForkJoinDone, Succeed

\* The type of a step's control.
LEMMA ControlStep ==
  ASSUME Types, Control, [Next]_vars
  PROVE  Control'
<1>1. input \in Inputs /\ call \in [Slice -> CallMode \cup {"none"}]
  BY DEF Types
<1>2. CASE UNCHANGED vars
  <2>1. UNCHANGED <<input, stage, outcome, conflicts, counts, slices, call, complete, info>>
    BY <1>2 DEF vars, avars, kvars
  <2>2. UNCHANGED <<InCall, NumSlices, TooSmall, kind, Forked>>
    BY <2>1, SameInput, SameKernel DEF InCall
  <2> QED
    BY <2>1, <2>2 DEF Control
<1>3. CASE Fork
  <2>1. /\ input' = input /\ stage = "start" /\ stage' = "fork1" /\ ~TooSmall
        /\ slices' = 0..(NumSlices - 1) /\ outcome' = "running" /\ complete' = {}
        /\ call' = call
    BY <1>1, <1>3, ForkBounds
  <2>2. DOMAIN info' = slices'
    BY <1>1, <1>3, <2>1, ForkBounds
  <2>3. InCall' = {}
    BY <2>1 DEF Control, InCall
  <2>4. UNCHANGED <<NumSlices, TooSmall, kind>>
    BY <2>1, SameInput
  <2> QED
    BY <2>1, <2>2, <2>3, <2>4 DEF Control, Forked
<1>4. CASE ForkJoinDone
  <2>1. /\ UNCHANGED <<input, stage, conflicts, counts, slices, call, complete, info>>
        /\ outcome = "running" /\ outcome' = "done" /\ InCall = {} /\ complete = slices
    BY <1>4, ForkJoinDoneSteps DEF avars
  <2>2. UNCHANGED <<InCall, NumSlices, TooSmall, kind, Forked>>
    BY <2>1, SameInput, SameKernel DEF InCall
  <2> QED
    BY <2>1, <2>2 DEF Control
<1>5. CASE SecondPhase
  <2>1. /\ input' = input /\ stage = "fork1" /\ stage' = "fork2"
        /\ outcome = "done" /\ outcome' = "running" /\ complete' = {} /\ call' = call
        /\ slices' = 0..(NumSlices - 1) /\ kind \in {"scan", "filter"}
    BY <1>5, SecondPhaseSteps
  <2>2. DOMAIN info' = 0..(NumSlices - 1)
    <3>1. CASE ScanIntermediates
      BY <3>1 DEF ScanIntermediates
    <3>2. CASE info' = info
      BY <2>1, <3>2 DEF Control, Forked
    <3> QED
      BY <1>5, <3>1, <3>2, SecondPhaseSteps
  <2>3. InCall' = {}
    BY <2>1 DEF Control, InCall
  <2>4. UNCHANGED <<NumSlices, TooSmall, kind>>
    BY <2>1, SameInput
  <2> QED
    BY <2>1, <2>2, <2>3, <2>4 DEF Control, Forked
<1>6. CASE Finish
  <2>1. /\ stage' = "returned" /\ outcome # "running"
        /\ UNCHANGED <<kvars, input>>
    BY <1>6, FinishSteps, Zenon
  <2>2. UNCHANGED <<InCall, slices, call, complete, outcome>>
    BY <2>1 DEF InCall, kvars
  <2> QED
    BY <2>1, <2>2 DEF Control, Forked
<1>7. ASSUME NEW s \in Slice, NEW mode \in CallMode, Enter(s, mode)
      PROVE  Control'
  <2>1. /\ Forked /\ outcome = "running"
        /\ s \in slices /\ s \notin InCall /\ InCall' = InCall \cup {s}
        /\ call' = [call EXCEPT ![s] = mode]
        /\ \A t \in InCall : call[t] = "par" /\ mode = "par"
        /\ \A t \in Slice \ {s} : call'[t] = call[t]
        /\ UNCHANGED <<input, stage, info, conflicts, counts, slices, outcome, complete>>
    BY <1>7, EnterSteps
  <2>2. UNCHANGED <<NumSlices, TooSmall, kind, Forked>>
    BY <2>1, SameInput, SameKernel
  <2>3. \A t, u \in InCall' : call'[t] \in Alone => t = u
    BY <1>1, <2>1 DEF Alone, InCall
  <2> QED
    BY <2>1, <2>2, <2>3 DEF Control
<1>8. ASSUME NEW s \in Slice, Work(s)
      PROVE  Control'
  <2>1. s \in InCall /\ InCall' = InCall /\ UNCHANGED <<kvars, input, stage, result>>
        /\ DOMAIN info' = DOMAIN info
    BY <1>8, WorkSteps
  <2>2. Forked /\ stage # "start"
    BY <2>1, Running DEF Forked
  <2>3. UNCHANGED <<NumSlices, TooSmall, kind, Forked, slices, call, outcome, complete>>
    BY <2>1, SameInput, SameKernel DEF kvars
  <2> QED
    BY <2>1, <2>2, <2>3 DEF Control
<1>9. ASSUME NEW s \in Slice, Quit(s)
      PROVE  Control'
  <2>1. /\ s \in InCall /\ InCall' = InCall \ {s}
        /\ call' = [call EXCEPT ![s] = "none"]
        /\ UNCHANGED <<input, stage, info, conflicts, counts, slices>>
        /\ outcome' = outcome \/ (outcome' = "fatal" /\ call[s] \in Alone)
    BY <1>9, QuitSteps
  <2>2. Forked /\ outcome = "running" /\ stage # "start"
    BY <2>1, Running DEF Forked
  <2>3. UNCHANGED <<NumSlices, TooSmall, kind, Forked>>
    BY <2>1, SameInput, SameKernel
  <2>4. \A t \in Slice \ {s} : call'[t] = call[t]
    BY <1>1, <2>1
  <2>5. outcome' # "running" => InCall' = {}
    BY <2>1, <2>2 DEF Control
  <2>6. InCall' \subseteq Slice \ {s}
    BY <2>1 DEF InCall
  <2> QED
    BY <2>1, <2>2, <2>3, <2>4, <2>5, <2>6 DEF Control
<1> QED
  BY <1>2, <1>3, <1>4, <1>5, <1>6, <1>7, <1>8, <1>9, NextSteps

-----------------------------------------------------------------------------
(* Positions, and the calls under way.                                     *)

\* The numbers of a slice and of its call are natural.
LEMMA Numerals ==
  ASSUME Types, Control, Forked, NEW s \in slices
  PROVE  /\ s \in Slice /\ s \in 0..(NumSlices - 1) /\ s \in DOMAIN info
         /\ info[s].start \in Nat /\ info[s].end \in Nat /\ info[s].pos \in Nat
         /\ frame[s].pos \in Nat /\ frame[s].last \in Nat /\ frame[s].i \in Nat
         /\ frame[s].count \in Nat /\ frame[s].acc \in Seq(Int)
         /\ counts[s] \in 0..MaxLength /\ ChunkSize \in Nat \ {0} /\ length \in Nat
         /\ Lo(s) \in Nat /\ Bound(s) \in 0..Items /\ Bound(s + 1) \in 0..Items
         /\ Bound(s) <= Bound(s + 1) /\ Items \in Nat /\ NumSlices \in Nat \ {0}
<1>1. input \in Inputs /\ slices = 0..(NumSlices - 1) /\ DOMAIN info = slices
      /\ slices \subseteq Slice
  BY DEF Types, Control
<1>2. NumSlices \in Nat \ {0} /\ Items \in Nat
  BY <1>1, SliceCount
<1>3. s \in Slice /\ s \in 0..NumSlices /\ s + 1 \in 0..NumSlices /\ s <= s + 1
  BY <1>1, <1>2
<1>4. Bound(s) \in 0..Items /\ Bound(s + 1) \in 0..Items
  BY <1>1, <1>3, Bounds
<1>5. Bound(s) <= Bound(s + 1)
  BY <1>1, <1>3, Bounds
<1>6. ChunkSize \in Nat \ {0} /\ length \in Nat
  BY <1>1, Arguments
<1>7. Lo(s) \in Nat
  BY <1>2, <1>4, <1>6 DEF Lo
<1>8. info[s] \in [start : Nat, end : Nat, pos : Nat] /\ frame[s] \in Values
      /\ counts[s] \in 0..MaxLength
  BY <1>1, <1>3 DEF Types
<1> QED
  BY <1>1, <1>2, <1>3, <1>4, <1>5, <1>6, <1>7, <1>8 DEF Values

\* What is not done by index is done by chunks.
LEMMA NotByIndex ==
  ASSUME Types, Control, Forked
  PROVE  /\ ~ByIndex => /\ Items = Chunks /\ kind \notin {"vector", "range"}
                        /\ kernel \in {"map", "build", "reduce", "scan", "filter", "copy"}
         /\ kernel = "phase2" => kind = "scan" /\ Items = Chunks
         /\ kernel \in {"reduce", "scan", "phase2"} =>
               \A s \in slices : Bound(s) < Bound(s + 1)
<1>1. input \in Inputs /\ (stage = "fork2" => kind \in {"scan", "filter"}) /\ ~TooSmall
      /\ slices = 0..(NumSlices - 1)
  BY DEF Types, Control
<1>2. /\ stage = "fork1" => kernel = kind
      /\ stage = "fork2" => kernel \in {"phase2", "copy"}
      /\ kernel = "phase2" <=> stage = "fork2" /\ kind = "scan"
      /\ kernel = "copy" <=> stage = "fork2" /\ kind = "filter"
      /\ kernel \in Kind \cup {"phase2", "copy"}
  BY <1>1, Kernels
<1>3. ~ByIndex => kernel \in {"map", "build", "reduce", "scan", "filter", "copy"}
  BY <1>2 DEF ByIndex, Kind
<1>4. ~ByIndex => kind \notin {"vector", "range"}
  BY <1>2, <1>3 DEF Forked
<1>5. kind # "vector" => Items = Chunks
  BY DEF Items
<1>6. kernel \in {"reduce", "scan", "phase2"} => kind \in {"reduce", "scan"}
  BY <1>2 DEF Forked
<1>7. kernel \in {"reduce", "scan", "phase2"} => Items >= NumSlices
  BY <1>1, <1>6, SliceCount
<1>8. kernel \in {"reduce", "scan", "phase2"} => \A s \in slices : Bound(s) < Bound(s + 1)
  BY <1>1, <1>7, Bounds
<1> QED
  BY <1>2, <1>3, <1>4, <1>5, <1>8

\* A call in its loop has not reached its end.
LEMMA LoopRuns ==
  ASSUME Types, Control, NEW s \in InCall, Frame(s), Position(s), InLoop(s)
  PROVE  frame[s].pos < frame[s].last
<1>1. Forked /\ s \in slices
  BY Running
<1>2. frame[s].pos \in Nat /\ frame[s].last \in Nat /\ info[s].start \in Nat
  BY <1>1, Numerals
<1> QED
  BY <1>2 DEF InLoop, FirstChunk, Frame

\* How each kind of work changes the locals of the call and the position.
LEMMA ElementStep ==
  ASSUME Types, Control, NEW s \in Slice, Frames, Positions, NextElement(s)
  PROVE  /\ s \in slices /\ Forked /\ ~ByIndex /\ InChunk(s)
         /\ frame[s].i < ChunkEnd(frame[s].pos)
         /\ frame'[s].pos = frame[s].pos /\ frame'[s].last = frame[s].last
         /\ frame'[s].i = frame[s].i + 1
         /\ info' = info /\ frame[s].pos < frame[s].last
<1>1. Work(s)
  BY DEF Work
<1>2. s \in InCall /\ InLoop(s) /\ info' = info
  BY <1>1, WorkSteps
<1>3. Forked /\ s \in slices
  BY <1>2, Running
<1>4. frame[s].pos < frame[s].last
  BY <1>2, <1>3, LoopRuns DEF Frames, Positions
<1>5. ~ByIndex /\ frame[s].i < ChunkEnd(frame[s].pos)
  BY DEF NextElement, MapElement, ReduceElement, ScanElement, FilterElement, CopyElement,
         AtElement
<1>6. frame \in [Slice -> Values]
  BY DEF Types
<1>7. /\ frame'[s].pos = frame[s].pos /\ frame'[s].last = frame[s].last
      /\ frame'[s].i = frame[s].i + 1
  BY <1>6 DEF NextElement, MapElement, ReduceElement, ScanElement, FilterElement, CopyElement,
              Values
<1> QED
  BY <1>2, <1>3, <1>4, <1>5, <1>7 DEF InChunk

\* A kernel stores SLICE_POS and goes to its next chunk or index.
LEMMA AdvanceStep ==
  ASSUME Types, Control, NEW s \in Slice, Frames, Positions, NextChunk(s) \/ NextIndex(s)
  PROVE  /\ s \in slices /\ Forked /\ InChunk(s) /\ frame[s].pos < frame[s].last
         /\ frame'[s].pos = frame[s].pos + 1 /\ frame'[s].last = frame[s].last
         /\ frame'[s].i = (frame[s].pos + 1) * ChunkSize
         /\ frame'[s].acc = frame[s].acc /\ frame'[s].count = frame[s].count
         /\ frame'[s].bits = {}
         /\ info'[s].start = info[s].start /\ info'[s].end = info[s].end
         /\ info'[s].pos = frame[s].pos + 1
         /\ info' = [info EXCEPT ![s].pos = frame[s].pos + 1]
         /\ NextChunk(s) => /\ kernel \in {"map", "build", "scan", "reduce", "filter"} /\ ~ByIndex
                            /\ frame[s].i = ChunkEnd(frame[s].pos)
         /\ NextIndex(s) => kernel \in {"phase2", "range", "vector"} /\ ByIndex
<1>1. Work(s)
  BY DEF Work
<1>2. s \in InCall /\ InLoop(s) /\ Advance(s)
  BY <1>1, WorkSteps
<1>3. Forked /\ s \in slices /\ s \in DOMAIN info
  BY <1>2, Running
<1>4. frame[s].pos < frame[s].last
  BY <1>2, <1>3, LoopRuns DEF Frames, Positions
<1>5. NextChunk(s) => /\ kernel \in {"map", "build", "scan", "reduce", "filter"} /\ ~ByIndex
                      /\ frame[s].i = ChunkEnd(frame[s].pos)
  BY DEF NextChunk, ChunkDone, ReduceChunk, FilterChunk, AtChunkEnd
<1>6. NextIndex(s) => kernel \in {"phase2", "range", "vector"} /\ ByIndex
  BY DEF NextIndex, Phase2Element, RangeElement, VectorElement, ByIndex
<1>7. /\ frame \in [Slice -> Values]
      /\ info \in [DOMAIN info -> [start : Nat, end : Nat, pos : Nat]]
  BY DEF Types
<1>8. /\ frame'[s].pos = frame[s].pos + 1 /\ frame'[s].last = frame[s].last
      /\ frame'[s].i = (frame[s].pos + 1) * ChunkSize
      /\ frame'[s].acc = frame[s].acc /\ frame'[s].count = frame[s].count
      /\ frame'[s].bits = {}
  BY <1>2, <1>7 DEF Advance, Values
<1>9. /\ info'[s].start = info[s].start /\ info'[s].end = info[s].end
      /\ info'[s].pos = frame[s].pos + 1
      /\ info' = [info EXCEPT ![s].pos = frame[s].pos + 1]
  BY <1>2, <1>3, <1>7 DEF Advance
<1> QED
  BY <1>2, <1>3, <1>4, <1>5, <1>6, <1>8, <1>9 DEF InChunk

\* copySurvivorsInSlice goes to its next chunk, or a slice of a scatter skips an
\* element, and SLICE_POS is not stored.
LEMMA SkipStep ==
  ASSUME Types, Control, NEW s \in Slice, Frames, Positions, CopyChunk(s) \/ RangeSkip(s)
  PROVE  /\ s \in slices /\ Forked /\ InChunk(s) /\ frame[s].pos < frame[s].last
         /\ frame'[s].pos = frame[s].pos + 1 /\ frame'[s].last = frame[s].last
         /\ frame'[s].count = frame[s].count
         /\ info' = info
         /\ CopyChunk(s) => /\ kernel = "copy" /\ ~ByIndex
                            /\ frame[s].i = ChunkEnd(frame[s].pos)
                            /\ frame'[s].i = (frame[s].pos + 1) * ChunkSize
         /\ RangeSkip(s) => kernel = "range" /\ ByIndex
<1>1. Work(s)
  BY DEF Work
<1>2. s \in InCall /\ InLoop(s) /\ info' = info
  BY <1>1, WorkSteps
<1>3. Forked /\ s \in slices
  BY <1>2, Running
<1>4. frame[s].pos < frame[s].last
  BY <1>2, <1>3, LoopRuns DEF Frames, Positions
<1>5. frame \in [Slice -> Values]
  BY DEF Types
<1>6. /\ frame'[s].pos = frame[s].pos + 1 /\ frame'[s].last = frame[s].last
      /\ frame'[s].count = frame[s].count
      /\ CopyChunk(s) => frame'[s].i = (frame[s].pos + 1) * ChunkSize
  BY <1>5 DEF CopyChunk, RangeSkip, Values
<1>7. /\ CopyChunk(s) => kernel = "copy" /\ ~ByIndex /\ frame[s].i = ChunkEnd(frame[s].pos)
      /\ RangeSkip(s) => kernel = "range" /\ ByIndex
  BY DEF CopyChunk, RangeSkip, AtChunkEnd, ByIndex
<1> QED
  BY <1>2, <1>3, <1>4, <1>6, <1>7 DEF InChunk

\* A chunk before the end of a slice is a chunk of the array.
LEMMA ChunkOfSlice ==
  ASSUME Types, Control, Forked, NEW s \in slices, Position(s), ~ByIndex,
         NEW c \in Nat, c < info[s].end
  PROVE  /\ c \in 0..(Chunks - 1) /\ c * ChunkSize \in Nat /\ At(c) = c * ChunkSize
         /\ ChunkEnd(c) = At(c + 1) /\ c * ChunkSize < ChunkEnd(c) /\ ChunkEnd(c) <= length
         /\ ChunkEnd(c) \in Nat
<1>1. input \in Inputs /\ Bound(s + 1) \in 0..Items /\ Items \in Nat /\ length \in Nat
  BY Numerals DEF Types
<1>2. Items = Chunks /\ kernel \in {"map", "build", "reduce", "scan", "filter", "copy"}
      /\ kind # "range"
  BY NotByIndex
<1>3. info[s].end = Bound(s + 1)
  BY <1>2 DEF Position, To
<1>4. c \in 0..(Chunks - 1)
  BY <1>1, <1>2, <1>3
<1>5. At(c + 1) \in 0..length
  BY <1>1, ChunkEnds
<1>6. /\ c * ChunkSize \in Nat /\ At(c) = c * ChunkSize
      /\ ChunkEnd(c) = At(c + 1) /\ c * ChunkSize < ChunkEnd(c) /\ ChunkEnd(c) <= length
  BY <1>1, <1>4, ChunkEnds
<1> QED
  BY <1>1, <1>4, <1>5, <1>6

\* How far a call goes: not back, not past the end of its slice, and at least
\* to the first chunk of a reduction or a scan.
LEMMA StopAtBounds ==
  ASSUME Types, Control, Forked, NEW s \in slices, Position(s), NEW mode
  PROVE  /\ StopAt(s, mode) \in Nat
         /\ StopAt(s, mode) >= info[s].pos /\ StopAt(s, mode) <= info[s].end
         /\ kernel = "copy" => StopAt(s, mode) = info[s].end
         /\ kernel \in {"reduce", "scan"} => info[s].start < StopAt(s, mode)
<1>1. /\ info[s].start \in Nat /\ info[s].end \in Nat /\ info[s].pos \in Nat
      /\ ChunkSize \in Nat \ {0}
  BY Numerals
<1>2. info[s].pos <= info[s].end
  BY DEF Position
<1>3. /\ StopAt(s, mode) \in Nat
      /\ StopAt(s, mode) >= info[s].pos /\ StopAt(s, mode) <= info[s].end
      /\ kernel = "copy" => StopAt(s, mode) = info[s].end
  BY <1>1, <1>2 DEF StopAt, MinOf
<1>4. ASSUME kernel \in {"reduce", "scan"}
      PROVE  info[s].start < StopAt(s, mode)
  <2>1. ~ByIndex /\ kernel # "copy" /\ kernel # "phase2"
    BY <1>4 DEF ByIndex
  <2>2. Bound(s) < Bound(s + 1)
    BY <1>4, NotByIndex
  <2>3. kind # "range"
    BY <2>1, NotByIndex
  <2>4. info[s].start < info[s].end /\ info[s].start <= info[s].pos
    BY <2>1, <2>2, <2>3 DEF Position, From, To
  <2>5. StopAt(s, mode) \in {info[s].end, info[s].pos + 2}
    BY <1>4, <2>1 DEF StopAt
  <2> QED
    BY <1>1, <2>4, <2>5
<1> QED
  BY <1>3, <1>4

\* A call goes on as it was if nothing it depends on changes.
LEMMA SameFrame ==
  ASSUME NEW t, Frame(t), input' = input, stage' = stage,
         info'[t] = info[t], frame'[t] = frame[t]
  PROVE  Frame(t)'
<1>1. kernel' = kernel /\ ByIndex' = ByIndex
  BY SameKernel
<1>2. \A c : ChunkEnd(c)' = ChunkEnd(c)
  BY SameInput
<1>3. length' = length
  BY SameInput
<1> QED
  BY <1>1, <1>2, <1>3 DEF Frame, ChunkEnd

\* A call begins at the position of its slice, or for copySurvivorsInSlice at its
\* start, and does not go past the end.
LEMMA EnterFrame ==
  ASSUME Types, Control, Positions, NEW s \in Slice, NEW mode \in CallMode, Enter(s, mode)
  PROVE  Frame(s)'
<1>1. /\ Forked /\ s \in slices /\ input' = input /\ stage' = stage /\ info' = info
  BY EnterSteps
<1> DEFINE from == IF kernel = "copy" THEN info[s].start ELSE info[s].pos
<1>2. frame'[s].pos = from /\ frame'[s].last = StopAt(s, mode)
      /\ frame'[s].i = from * ChunkSize
  <2> DEFINE acc == IF kernel = "reduce" THEN sub[s] ELSE Hole
             count == IF kernel = "copy" THEN CountBefore(s) ELSE counts[s]
  <2>1. frame'[s] = [pos |-> from, last |-> StopAt(s, mode), i |-> from * ChunkSize,
                     acc |-> acc, bits |-> {}, count |-> count]
    BY EnterSteps, Zenon
  <2> HIDE DEF from, acc, count
  <2> QED
    BY <2>1
<1>3. Position(s)
  BY <1>1 DEF Positions
<1>4. /\ StopAt(s, mode) \in Nat
      /\ StopAt(s, mode) >= info[s].pos /\ StopAt(s, mode) <= info[s].end
      /\ kernel = "copy" => StopAt(s, mode) = info[s].end
      /\ kernel \in {"reduce", "scan"} => info[s].start < StopAt(s, mode)
  BY <1>1, <1>3, StopAtBounds
<1>5. /\ info[s].start \in Nat /\ info[s].end \in Nat /\ info[s].pos \in Nat
      /\ ChunkSize \in Nat \ {0}
  BY <1>1, Numerals
<1>6. info[s].start <= info[s].end
  BY <1>1, Numerals DEF Types
<1>7. from \in Nat /\ from <= StopAt(s, mode)
  BY <1>4, <1>5, <1>6
<1>8. ~ByIndex /\ from < StopAt(s, mode) => from * ChunkSize <= ChunkEnd(from)
                                            /\ from * ChunkSize \in Nat
  <2> SUFFICES ASSUME ~ByIndex, from < StopAt(s, mode)
               PROVE  from * ChunkSize <= ChunkEnd(from) /\ from * ChunkSize \in Nat
    OBVIOUS
  <2> HIDE DEF from
  <2>1. from < info[s].end
    BY <1>4, <1>5, <1>7
  <2>2. from * ChunkSize \in Nat /\ from * ChunkSize < ChunkEnd(from) /\ ChunkEnd(from) \in Nat
    BY <1>1, <1>3, <1>7, <2>1, ChunkOfSlice
  <2> QED
    BY <2>2
<1>9. kernel' = kernel /\ ByIndex' = ByIndex /\ ChunkEnd(from)' = ChunkEnd(from)
  <2>1. kernel' = kernel /\ ByIndex' = ByIndex
    BY <1>1, SameKernel
  <2>2. length' = length
    BY <1>1, SameInput
  <2> QED
    BY <1>1, <2>1, <2>2 DEF ChunkEnd
<1> QED
  <2>1. /\ from <= StopAt(s, mode) /\ StopAt(s, mode) <= info[s].end
        /\ IF kernel = "copy" THEN from >= info[s].start /\ StopAt(s, mode) = info[s].end
           ELSE IF kernel = "range" THEN from >= info[s].pos
           ELSE from = info[s].pos
        /\ kernel \in {"reduce", "scan"} => info[s].start < StopAt(s, mode)
    BY <1>4, <1>5, <1>7
  <2>2. ~ByIndex => IF from < StopAt(s, mode)
                    THEN from * ChunkSize <= from * ChunkSize /\ from * ChunkSize <= ChunkEnd(from)
                    ELSE from * ChunkSize = from * ChunkSize
    BY <1>8
  <2>3. length' = length
    BY <1>1, SameInput
  <2> HIDE DEF from
  <2> QED
    BY <1>1, <1>2, <1>9, <2>1, <2>2, <2>3 DEF Frame, ChunkEnd

\* The work of a call keeps it inside its slice and at its place in a chunk.
LEMMA WorkFrame ==
  ASSUME Types, Control, Positions, Frames, NEW s \in Slice, Work(s)
  PROVE  Frame(s)'
<1>1. s \in InCall /\ input' = input /\ stage' = stage
  BY WorkSteps
<1>2. Forked /\ s \in slices
  BY <1>1, Running
<1>3. Frame(s) /\ Position(s)
  BY <1>1, <1>2 DEF Frames, Positions
<1>4. /\ info[s].start \in Nat /\ info[s].end \in Nat /\ info[s].pos \in Nat
      /\ frame[s].pos \in Nat /\ frame[s].last \in Nat /\ frame[s].i \in Nat
      /\ ChunkSize \in Nat \ {0}
  BY <1>2, Numerals
<1>5. /\ kernel' = kernel /\ ByIndex' = ByIndex
      /\ \A c : ChunkEnd(c)' = ChunkEnd(c)
  <2>1. kernel' = kernel /\ ByIndex' = ByIndex
    BY <1>1, SameKernel
  <2>2. \A c : ChunkEnd(c)' = ChunkEnd(c)
    BY <1>1, SameInput
  <2> QED
    BY <2>1, <2>2
<1>6. length' = length
  BY <1>1, SameInput
<1>7. CASE NextElement(s)
  <2>1. /\ ~ByIndex /\ frame[s].i < ChunkEnd(frame[s].pos)
        /\ frame'[s].pos = frame[s].pos /\ frame'[s].last = frame[s].last
        /\ frame'[s].i = frame[s].i + 1
        /\ info' = info /\ frame[s].pos < frame[s].last
    BY <1>7, ElementStep
  <2>2. frame[s].pos < info[s].end
    BY <1>3, <1>4, <2>1 DEF Frame
  <2>3. ChunkEnd(frame[s].pos) \in Nat /\ frame[s].pos * ChunkSize \in Nat
    BY <1>2, <1>3, <1>4, <2>1, <2>2, ChunkOfSlice
  <2>4. frame[s].pos * ChunkSize <= frame[s].i
    BY <1>3, <2>1 DEF Frame
  <2>5. frame[s].pos * ChunkSize <= frame[s].i + 1 /\ frame[s].i + 1 <= ChunkEnd(frame[s].pos)
    BY <1>4, <2>1, <2>3, <2>4
  <2> QED
    BY <1>1, <1>3, <1>5, <1>6, <2>1, <2>5 DEF Frame, ChunkEnd
<1>8. CASE NextChunk(s) \/ NextIndex(s)
  <2>1. /\ frame[s].pos < frame[s].last
        /\ frame'[s].pos = frame[s].pos + 1 /\ frame'[s].last = frame[s].last
        /\ frame'[s].i = (frame[s].pos + 1) * ChunkSize
        /\ info'[s].start = info[s].start /\ info'[s].end = info[s].end
        /\ info'[s].pos = frame[s].pos + 1
        /\ kernel # "copy"
    BY <1>8, AdvanceStep
  <2>2. frame[s].pos + 1 <= frame[s].last /\ frame[s].last <= info[s].end
        /\ (kernel \in {"reduce", "scan"} => info[s].start < frame[s].last)
    BY <1>3, <1>4, <2>1 DEF Frame
  <2> DEFINE p == frame[s].pos + 1
  <2>3. ~ByIndex /\ p < frame[s].last => p * ChunkSize <= p * ChunkSize /\ p * ChunkSize <= ChunkEnd(p)
    <3> SUFFICES ASSUME ~ByIndex, p < frame[s].last
                 PROVE  p * ChunkSize <= p * ChunkSize /\ p * ChunkSize <= ChunkEnd(p)
      OBVIOUS
    <3>1. p \in Nat /\ p < info[s].end
      BY <1>4, <2>2
    <3> HIDE DEF p
    <3>2. p * ChunkSize \in Nat /\ p * ChunkSize < ChunkEnd(p) /\ ChunkEnd(p) \in Nat
      BY <1>2, <1>3, <3>1, ChunkOfSlice
    <3> QED
      BY <3>2
  <2>4. /\ p <= frame[s].last /\ frame[s].last <= info[s].end
        /\ frame'[s].pos = p /\ frame'[s].i = p * ChunkSize /\ info'[s].pos = p /\ p \in Nat
    BY <1>4, <2>1, <2>2
  <2> HIDE DEF p
  <2> QED
    BY <1>1, <1>5, <1>6, <2>1, <2>2, <2>3, <2>4 DEF Frame, ChunkEnd
<1>9. CASE CopyChunk(s) \/ RangeSkip(s)
  <2>1. /\ frame[s].pos < frame[s].last
        /\ frame'[s].pos = frame[s].pos + 1 /\ frame'[s].last = frame[s].last
        /\ info' = info
        /\ CopyChunk(s) => /\ kernel = "copy" /\ ~ByIndex
                           /\ frame'[s].i = (frame[s].pos + 1) * ChunkSize
        /\ RangeSkip(s) => kernel = "range" /\ ByIndex
    BY <1>9, SkipStep
  <2> DEFINE p == frame[s].pos + 1
  <2>2. p <= frame[s].last /\ frame[s].last <= info[s].end /\ p \in Nat
    BY <1>3, <1>4, <2>1 DEF Frame
  <2>3. ASSUME CopyChunk(s)
        PROVE  p < frame[s].last => p * ChunkSize <= p * ChunkSize /\ p * ChunkSize <= ChunkEnd(p)
    <3> SUFFICES ASSUME p < frame[s].last
                 PROVE  p * ChunkSize <= p * ChunkSize /\ p * ChunkSize <= ChunkEnd(p)
      OBVIOUS
    <3>1. p < info[s].end
      BY <1>4, <2>2
    <3> HIDE DEF p
    <3>2. p * ChunkSize \in Nat /\ p * ChunkSize < ChunkEnd(p) /\ ChunkEnd(p) \in Nat
      BY <1>2, <1>3, <2>1, <2>2, <2>3, <3>1, ChunkOfSlice
    <3> QED
      BY <3>2
  <2>4. CopyChunk(s) => p >= info[s].start /\ frame[s].last = info[s].end
    BY <1>3, <1>4, <2>1 DEF Frame
  <2>5. RangeSkip(s) => p >= info[s].pos
    BY <1>3, <1>4, <2>1 DEF Frame
  <2>6. frame'[s].pos = p
    BY <2>1
  <2>7. CopyChunk(s) => frame'[s].i = p * ChunkSize
    BY <2>1
  <2> HIDE DEF p
  <2> QED
    BY <1>1, <1>5, <1>6, <1>9, <2>1, <2>2, <2>3, <2>4, <2>5, <2>6, <2>7 DEF Frame, ChunkEnd
<1> QED
  BY <1>7, <1>8, <1>9, Zenon DEF Work

\* Calls under way stay inside their slices.
LEMMA FrameStep ==
  ASSUME Types, Control, Positions, Frames, [Next]_vars
  PROVE  Frames'
<1>1. CASE UNCHANGED vars
  <2>1. UNCHANGED <<input, stage, frame, info, call>>
    BY <1>1 DEF vars, avars, kvars
  <2>2. InCall' = InCall
    BY <2>1 DEF InCall
  <2>3. \A t \in InCall : Frame(t) => Frame(t)'
    BY <2>1, SameFrame
  <2> QED
    BY <2>2, <2>3 DEF Frames
<1>2. ASSUME InCall' = {} PROVE Frames'
  BY <1>2 DEF Frames
<1>3. CASE Fork
  <2>1. stage = "start" /\ call' = call
    BY <1>3, ForkBounds DEF Types
  <2> QED
    BY <1>2, <2>1 DEF Control, InCall
<1>4. CASE ForkJoinDone
  <2>1. InCall = {} /\ call' = call
    BY <1>4, ForkJoinDoneSteps
  <2> QED
    BY <1>2, <2>1 DEF InCall
<1>5. CASE SecondPhase
  <2>1. outcome = "done" /\ call' = call
    BY <1>5, SecondPhaseSteps
  <2> QED
    BY <1>2, <2>1 DEF Control, InCall
<1>6. CASE Finish
  <2>1. outcome # "running" /\ call' = call
    BY <1>6, FinishSteps DEF kvars
  <2> QED
    BY <1>2, <2>1 DEF Control, InCall
<1>7. ASSUME NEW s \in Slice, NEW mode \in CallMode, Enter(s, mode)
      PROVE  Frames'
  <2>1. /\ InCall' = InCall \cup {s} /\ s \notin InCall
        /\ \A t \in Slice \ {s} : frame'[t] = frame[t]
        /\ UNCHANGED <<input, stage, info>>
    BY <1>7, EnterSteps
  <2>2. \A t \in InCall : Frame(t) => Frame(t)'
    BY <2>1, SameFrame DEF InCall
  <2>3. Frame(s)'
    BY <1>7, EnterFrame
  <2> QED
    BY <2>1, <2>2, <2>3 DEF Frames
<1>8. ASSUME NEW s \in Slice, Work(s)
      PROVE  Frames'
  <2>1. /\ s \in InCall /\ InCall' = InCall /\ UNCHANGED <<input, stage>>
        /\ \A t \in Slice \ {s} : frame'[t] = frame[t]
        /\ \A t \in Slice \ {s} : t \in DOMAIN info => info'[t] = info[t]
    BY <1>8, WorkSteps
  <2>2. \A t \in InCall : t \in DOMAIN info
    BY Running
  <2>3. \A t \in InCall \ {s} : Frame(t) => Frame(t)'
    BY <2>1, <2>2, SameFrame DEF InCall
  <2>4. Frame(s)'
    BY <1>8, WorkFrame
  <2> QED
    BY <2>1, <2>3, <2>4 DEF Frames
<1>9. ASSUME NEW s \in Slice, Quit(s)
      PROVE  Frames'
  <2>1. /\ s \in InCall /\ InCall' = InCall \ {s}
        /\ frame' = [frame EXCEPT ![s] = NoFrame]
        /\ UNCHANGED <<input, stage, info>>
    BY <1>9, QuitSteps
  <2>2. \A t \in InCall \ {s} : frame'[t] = frame[t]
    BY <2>1 DEF InCall, Types
  <2>3. \A t \in InCall \ {s} : Frame(t) => Frame(t)'
    BY <2>1, <2>2, SameFrame DEF InCall
  <2> QED
    BY <2>1, <2>3 DEF Frames
<1> QED
  BY <1>1, <1>3, <1>4, <1>5, <1>6, <1>7, <1>8, <1>9, NextSteps

\* A position stays as it was if nothing it depends on changes.
LEMMA SamePosition ==
  ASSUME NEW t, Position(t), input' = input, stage' = stage,
         info'[t] = info[t], t \in complete' => t \in complete
  PROVE  Position(t)'
<1>1. kernel' = kernel /\ To(t)' = To(t)
  BY SameKernel
<1>2. From(t)' = From(t) /\ Lo(t)' = Lo(t)
  BY SameInput
<1> QED
  BY <1>1, <1>2 DEF Position

\* ComputeAllSliceBounds() places every slice at its start.
LEMMA ForkPosition ==
  ASSUME input \in Inputs, Fork, NEW s \in 0..(NumSlices - 1)
  PROVE  /\ Position(s)' /\ info'[s].pos = IF kind = "range" THEN 0 ELSE Bound(s)
         /\ kernel' = kind
<1>1. /\ kind = "range" =>
            info' = [t \in 0..(NumSlices - 1) |-> [start |-> 0, end |-> length, pos |-> 0]]
      /\ kind # "range" =>
            info' = [t \in 0..(NumSlices - 1) |-> [start |-> Bound(t), end |-> Bound(t + 1),
                                                   pos |-> Bound(t)]]
      /\ input' = input /\ stage' = "fork1" /\ complete' = {}
  BY ForkBounds
<1>2. kind \in Kind /\ length \in Nat
  BY Arguments
<1>3. kind' = kind /\ length' = length /\ \A t : Bound(t)' = Bound(t)
  BY <1>1, SameInput
<1>4. NumSlices' = NumSlices /\ Items' = Items
  BY <1>1, SameInput
<1>5. kernel' = kind /\ kind \notin {"phase2", "copy"}
  BY <1>1, <1>2, <1>3 DEF kernel, Kind
<1>6. NumSlices \in Nat \ {0} /\ s \in 0..NumSlices /\ s + 1 \in 0..NumSlices /\ s <= s + 1
  BY SliceCount
<1>7. Bound(s) \in Nat /\ Bound(s + 1) \in Nat /\ Bound(s) <= Bound(s + 1)
  <2>1. Bound(s) \in 0..Items /\ Bound(s + 1) \in 0..Items
    BY <1>6, Bounds
  <2>2. Bound(s) <= Bound(s + 1)
    BY <1>6, Bounds
  <2> QED
    BY <2>1, <2>2, SliceCount
<1>8. From(s)' = IF kind = "range" THEN 0 ELSE Bound(s)
  BY <1>3, <1>4 DEF From, Bound
<1>9. To(s)' = IF kind = "range" THEN length ELSE Bound(s + 1)
  BY <1>3, <1>4, <1>5 DEF To, Bound
<1>10. CASE kind = "range"
  <2>1. info'[s] = [start |-> 0, end |-> length, pos |-> 0]
    BY <1>1, <1>10
  <2> QED
    BY <1>1, <1>2, <1>5, <1>8, <1>9, <1>10, <2>1 DEF Position
<1>11. CASE kind # "range"
  <2>1. info'[s] = [start |-> Bound(s), end |-> Bound(s + 1), pos |-> Bound(s)]
    BY <1>1, <1>11
  <2> QED
    BY <1>1, <1>2, <1>5, <1>7, <1>8, <1>9, <1>11, <2>1 DEF Position
<1> QED
  BY <1>5, <1>10, <1>11

\* Where the slices of a scan end, in elements: only the last may end inside
\* its chunk.
LEMMA ScanEnds ==
  ASSUME input \in Inputs, kind \in {"reduce", "scan"}, ~TooSmall,
         NEW s \in 0..(NumSlices - 1)
  PROVE  /\ At(Bound(s)) = Lo(s) /\ Lo(s) \in Nat /\ At(Bound(s + 1)) \in Nat
         /\ Lo(s) < At(Bound(s + 1)) /\ At(Bound(s + 1)) <= length
         /\ s # NumSlices - 1 => At(Bound(s + 1)) = Lo(s + 1) /\ Bound(s + 1) < Chunks
         /\ s = NumSlices - 1 => At(Bound(s + 1)) = length /\ Bound(s + 1) = Chunks
<1>1. Items = Chunks /\ Chunks >= NumSlices /\ Chunks \in Nat /\ NumSlices \in Nat \ {0}
  BY SliceCount
<1>2. length \in Nat /\ ChunkSize \in Nat \ {0}
  BY Arguments
<1>3. \A t \in 0..(NumSlices - 1) : Bound(t) < Bound(t + 1)
  BY <1>1, Bounds
<1>4. \A t \in 0..NumSlices : Bound(t) \in 0..Items
  BY Bounds
<1>5. s \in 0..NumSlices /\ s + 1 \in 0..NumSlices
  BY <1>1
<1>6. Bound(s) \in 0..(Chunks - 1) /\ Bound(s + 1) \in Nat /\ Bound(s) + 1 <= Bound(s + 1)
      /\ Bound(s) + 1 \in Nat
  BY <1>1, <1>3, <1>4, <1>5
<1>7. At(Bound(s)) = Lo(s) /\ Lo(s) \in Nat
  BY <1>6, ChunkEnds DEF Lo
<1>8. At(Bound(s + 1)) \in 0..length
  BY <1>6, ChunkEnds
<1>9. Lo(s) < At(Bound(s + 1))
  <2>1. Bound(s) * ChunkSize < ChunkEnd(Bound(s)) /\ ChunkEnd(Bound(s)) = At(Bound(s) + 1)
    BY <1>6, ChunkEnds
  <2>2. At(Bound(s) + 1) <= At(Bound(s + 1)) /\ At(Bound(s) + 1) \in 0..length
    BY <1>6, ChunkEnds
  <2> QED
    BY <1>2, <1>7, <1>8, <2>1, <2>2 DEF Lo
<1>10. ASSUME s # NumSlices - 1
       PROVE  At(Bound(s + 1)) = Lo(s + 1) /\ Bound(s + 1) < Chunks
  <2>1. s + 1 \in 0..(NumSlices - 1) /\ (s + 1) + 1 \in 0..NumSlices
    BY <1>1, <1>10
  <2>2. Bound(s + 1) < Bound((s + 1) + 1) /\ Bound((s + 1) + 1) \in 0..Items
    BY <1>3, <1>4, <2>1
  <2>3. Bound(s + 1) \in 0..(Chunks - 1)
    BY <1>1, <1>6, <2>2
  <2> QED
    BY <1>1, <2>3, ChunkEnds DEF Lo
<1>11. ASSUME s = NumSlices - 1
       PROVE  At(Bound(s + 1)) = length /\ Bound(s + 1) = Chunks
  <2>1. s + 1 = NumSlices
    BY <1>1, <1>11
  <2>2. Bound(s + 1) = Chunks
    BY <1>1, <2>1, Bounds
  <2> QED
    BY <2>2, ChunkEnds
<1> QED
  BY <1>2, <1>7, <1>8, <1>9, <1>10, <1>11

\* The positions of the second phase of a scan.
LEMMA Phase2Position ==
  ASSUME Types, Control, Positions, ScanIntermediates, NEW s \in slices
  PROVE  /\ Position(s)' /\ info'[s].pos = Lo(s) /\ kernel' = "phase2"
         /\ info[s].end = Bound(s + 1) /\ info[s].pos = Bound(s + 1)
         /\ info[s].start = Bound(s) /\ kernel = "scan"
<1>1. /\ input' = input /\ stage = "fork1" /\ kind = "scan" /\ stage' = "fork2"
      /\ outcome = "done" /\ complete' = {}
      /\ info' = [t \in 0..(NumSlices - 1) |->
                 [start |-> info[t].start,
                  pos |-> info[t].start * ChunkSize,
                  end |-> IF t = NumSlices - 1
                          THEN MinOf(info[t].end * ChunkSize, length)
                          ELSE info[t].end * ChunkSize]]
  BY DEF ScanIntermediates, Start
<1>2. Forked /\ slices = 0..(NumSlices - 1) /\ ~TooSmall /\ complete = slices
      /\ input \in Inputs
  BY <1>1 DEF Control, Forked, Types
<1>3. kind' = kind /\ kernel = "scan" /\ kernel' = "phase2"
  BY <1>1, SameInput DEF kernel
<1>4. Position(s)
  BY <1>2 DEF Positions
<1>5. info[s].start = Bound(s) /\ info[s].end = Bound(s + 1) /\ info[s].pos = info[s].end
  BY <1>1, <1>2, <1>3, <1>4 DEF Position, From, To
<1>6. /\ At(Bound(s)) = Lo(s) /\ Lo(s) \in Nat /\ At(Bound(s + 1)) \in Nat
      /\ Lo(s) < At(Bound(s + 1)) /\ At(Bound(s + 1)) <= length
      /\ s # NumSlices - 1 => At(Bound(s + 1)) = Lo(s + 1)
  BY <1>1, <1>2, ScanEnds
<1>7. info'[s].start = Bound(s) /\ info'[s].pos = Lo(s) /\ info'[s].end = At(Bound(s + 1))
  <2>1. info'[s] = [start |-> Bound(s), pos |-> Bound(s) * ChunkSize,
                    end |-> IF s = NumSlices - 1
                            THEN MinOf(Bound(s + 1) * ChunkSize, length)
                            ELSE Bound(s + 1) * ChunkSize]
    BY <1>1, <1>2, <1>5
  <2>2. s = NumSlices - 1 => info'[s].end = At(Bound(s + 1))
    BY <2>1 DEF At
  <2>3. s # NumSlices - 1 => info'[s].end = Lo(s + 1)
    BY <2>1 DEF Lo
  <2>4. info'[s].start = Bound(s) /\ info'[s].pos = Lo(s)
    BY <2>1 DEF Lo
  <2> QED
    BY <1>6, <2>2, <2>3, <2>4
<1>8. Bound(s) <= Lo(s) /\ Bound(s) \in Nat
  <2>1. Bound(s) \in Nat /\ ChunkSize \in Nat \ {0}
    BY <1>2, Numerals
  <2> QED
    BY <2>1 DEF Lo
<1>9. From(s)' = Bound(s) /\ Lo(s)' = Lo(s)
  <2>1. From(s)' = From(s) /\ Lo(s)' = Lo(s)
    BY <1>1, SameInput
  <2> QED
    BY <1>1, <2>1 DEF From
<1>10. To(s)' = At(Bound(s + 1))
  <2>1. length' = length /\ NumSlices' = NumSlices /\ Items' = Items
    BY <1>1, SameInput
  <2> QED
    BY <1>1, <1>3, <2>1 DEF To, At, Bound
<1>11. Position(s)'
  BY <1>1, <1>3, <1>6, <1>7, <1>8, <1>9, <1>10 DEF Position
<1> QED
  BY <1>3, <1>5, <1>7, <1>11

\* The positions of the second phase of a filter.
LEMMA CopyPosition ==
  ASSUME Types, Control, Positions, CompressSurvivors, stage' = "fork2", NEW s \in slices
  PROVE  /\ Position(s)' /\ info' = info /\ kernel' = "copy" /\ kernel = "filter"
         /\ info[s].end = Bound(s + 1) /\ info[s].pos = Bound(s + 1)
         /\ info[s].start = Bound(s)
<1>0. SecondPhase
  BY DEF SecondPhase
<1>1. /\ input' = input /\ stage = "fork1" /\ kind = "filter" /\ outcome = "done"
      /\ complete' = {} /\ info' = info
  BY <1>0, SecondPhaseSteps DEF CompressSurvivors, ScanIntermediates
<1>2. Forked /\ complete = slices
  BY <1>1 DEF Control, Forked
<1>3. kind' = kind /\ kernel = "filter" /\ kernel' = "copy"
  BY <1>1, SameInput DEF kernel
<1>4. Position(s)
  BY <1>2 DEF Positions
<1>5. info[s].start = Bound(s) /\ info[s].end = Bound(s + 1) /\ info[s].pos = info[s].end
  BY <1>1, <1>2, <1>3, <1>4 DEF Position, From, To
<1>6. From(s)' = Bound(s) /\ To(s)' = Bound(s + 1)
  <2>1. NumSlices' = NumSlices /\ Items' = Items
    BY <1>1, SameInput
  <2> QED
    BY <1>1, <1>3, <2>1 DEF From, To, Bound
<1>7. Position(s)'
  BY <1>1, <1>3, <1>4, <1>5, <1>6 DEF Position
<1> QED
  BY <1>1, <1>3, <1>5, <1>7

\* The position moves on, inside the slice, and a complete slice stays so.
LEMMA AdvancePosition ==
  ASSUME Types, Control, Positions, Frames, NEW s \in Slice, NextChunk(s) \/ NextIndex(s)
  PROVE  Position(s)'
<1>1. /\ s \in slices /\ Forked /\ frame[s].pos < frame[s].last
      /\ info'[s].start = info[s].start /\ info'[s].end = info[s].end
      /\ info'[s].pos = frame[s].pos + 1
      /\ kernel # "copy"
  BY AdvanceStep
<1>2. s \in InCall /\ input' = input /\ stage' = stage /\ complete' = complete
  BY WorkSteps DEF Work, kvars
<1>3. Position(s) /\ Frame(s)
  BY <1>1, <1>2 DEF Positions, Frames
<1>4. /\ info[s].start \in Nat /\ info[s].end \in Nat /\ info[s].pos \in Nat
      /\ frame[s].pos \in Nat /\ frame[s].last \in Nat /\ Lo(s) \in Nat
  BY <1>1, Numerals
<1>5. /\ info[s].pos <= frame[s].pos /\ frame[s].pos + 1 <= info[s].end
      /\ kernel # "range" => info[s].pos = frame[s].pos
  BY <1>1, <1>3, <1>4 DEF Frame
<1>6. kernel' = kernel /\ To(s)' = To(s)
  BY <1>2, SameKernel
<1>7. From(s)' = From(s) /\ Lo(s)' = Lo(s)
  BY <1>2, SameInput
<1> DEFINE low == IF kernel = "phase2" THEN Lo(s) ELSE info[s].start
<1>8. info[s].start = From(s) /\ info[s].end = To(s) /\ info[s].pos >= low
      /\ (s \in complete => \/ info[s].pos = info[s].end
                            \/ kernel = "phase2" /\ s = 0
                            \/ kernel = "range")
  BY <1>3 DEF Position
<1>9. s \in complete => (kernel = "phase2" /\ s = 0) \/ kernel = "range"
  BY <1>4, <1>5, <1>8
<1>10. frame[s].pos + 1 >= low /\ frame[s].pos + 1 <= info[s].end
  BY <1>4, <1>5, <1>8
<1> QED
  BY <1>1, <1>2, <1>6, <1>7, <1>8, <1>9, <1>10 DEF Position

\* A call that answers true has completed its slice.
LEMMA QuitPosition ==
  ASSUME Types, Control, Positions, Frames, NEW s \in Slice, Quit(s)
  PROVE  Position(s)'
<1>1. /\ s \in InCall
      /\ UNCHANGED <<input, stage, info>>
      /\ complete' = complete
         \/ /\ complete' = complete \cup {s} /\ ~InLoop(s)
            /\ kernel = "copy" \/ NothingToDo(s) \/ frame[s].last = info[s].end
  BY QuitSteps
<1>2. Forked /\ s \in slices
  BY <1>1, Running
<1>3. Position(s) /\ Frame(s)
  BY <1>1, <1>2 DEF Positions, Frames
<1>4. /\ info[s].end \in Nat /\ info[s].pos \in Nat
      /\ frame[s].pos \in Nat /\ frame[s].last \in Nat
  BY <1>2, Numerals
<1>5. kernel' = kernel /\ To(s)' = To(s)
  BY <1>1, SameKernel
<1>6. From(s)' = From(s) /\ Lo(s)' = Lo(s)
  BY <1>1, SameInput
<1>7. s \in complete' => \/ info[s].pos = info[s].end
                         \/ kernel = "phase2" /\ s = 0
                         \/ kernel = "range"
  <2>1. s \in complete => \/ info[s].pos = info[s].end
                          \/ kernel = "phase2" /\ s = 0
                          \/ kernel = "range"
    BY <1>3 DEF Position
  <2>2. kernel = "copy" => info[s].pos = info[s].end
    BY <1>3 DEF Position
  <2>3. NothingToDo(s) => kernel = "copy" \/ (kernel = "phase2" /\ s = 0)
    BY DEF NothingToDo
  <2>4. ASSUME ~InLoop(s), ~NothingToDo(s), frame[s].last = info[s].end, kernel \notin {"copy", "range"}
        PROVE  info[s].pos = info[s].end
    <3>1. ~(frame[s].pos < frame[s].last)
      BY <1>1, <2>4 DEF InLoop
    <3>2. frame[s].pos <= frame[s].last /\ frame[s].pos = info[s].pos
      BY <1>3, <2>4 DEF Frame
    <3> QED
      BY <1>4, <2>4, <3>1, <3>2
  <2> QED
    BY <1>1, <2>1, <2>2, <2>3, <2>4
<1> QED
  BY <1>1, <1>3, <1>5, <1>6, <1>7 DEF Position

\* Slices keep their bounds, and positions stay inside them.
LEMMA PositionStep ==
  ASSUME Types, Control, Positions, Frames, [Next]_vars
  PROVE  Positions'
<1>0. input \in Inputs
  BY DEF Types
<1>1. ASSUME UNCHANGED <<input, stage, info, complete, slices>> PROVE Positions'
  <2>1. \A t \in slices : Position(t) => Position(t)'
    BY <1>1, SamePosition
  <2>2. Forked' = Forked
    BY <1>1, SameKernel
  <2> QED
    BY <1>1, <2>1, <2>2 DEF Positions
<1>2. CASE UNCHANGED vars
  BY <1>1, <1>2 DEF vars, avars, kvars
<1>3. CASE Fork
  <2>1. slices' = 0..(NumSlices - 1)
    BY <1>0, <1>3, ForkBounds
  <2>2. \A t \in 0..(NumSlices - 1) : Position(t)'
    BY <1>0, <1>3, ForkPosition
  <2> QED
    BY <2>1, <2>2 DEF Positions
<1>4. CASE ForkJoinDone
  BY <1>1, <1>4, ForkJoinDoneSteps DEF avars
<1>5. CASE SecondPhase
  <2>1. slices' = 0..(NumSlices - 1) /\ stage = "fork1" /\ stage' = "fork2"
    BY <1>5, SecondPhaseSteps
  <2>2. slices' = slices
    BY <2>1 DEF Control, Forked
  <2>3. CASE ScanIntermediates
    <3>1. \A t \in slices : Position(t)'
      BY <2>3, Phase2Position
    <3> QED
      BY <2>2, <3>1 DEF Positions
  <2>4. CASE CompressSurvivors
    <3>1. \A t \in slices : Position(t)'
      BY <2>1, <2>4, CopyPosition
    <3> QED
      BY <2>2, <3>1 DEF Positions
  <2> QED
    BY <1>5, <2>3, <2>4 DEF SecondPhase
<1>6. CASE Finish
  <2>1. stage' = "returned"
    BY <1>6, FinishSteps
  <2> QED
    BY <2>1 DEF Positions, Forked
<1>7. ASSUME NEW s \in Slice, NEW mode \in CallMode, Enter(s, mode)
      PROVE  Positions'
  BY <1>1, <1>7, EnterSteps
<1>8. ASSUME NEW s \in Slice, Work(s)
      PROVE  Positions'
  <2>1. /\ s \in InCall /\ UNCHANGED <<kvars, input, stage>>
        /\ \A t \in Slice \ {s} : t \in DOMAIN info => info'[t] = info[t]
        /\ NextElement(s) \/ CopyChunk(s) \/ RangeSkip(s) => info' = info
    BY <1>8, WorkSteps
  <2>2. UNCHANGED <<slices, complete>>
    BY <2>1 DEF kvars
  <2>3. CASE info' = info
    BY <1>1, <2>1, <2>2, <2>3
  <2>4. CASE NextChunk(s) \/ NextIndex(s)
    <3>1. Position(s)'
      BY <2>4, AdvancePosition
    <3>2. Forked /\ slices \subseteq Slice /\ DOMAIN info = slices
      BY <2>1, Running DEF Types
    <3>3. \A t \in slices \ {s} : Position(t) => Position(t)'
      BY <2>1, <2>2, <3>2, SamePosition
    <3> QED
      BY <2>2, <3>1, <3>2, <3>3 DEF Positions
  <2> QED
    BY <1>8, <2>1, <2>3, <2>4 DEF Work
<1>9. ASSUME NEW s \in Slice, Quit(s)
      PROVE  Positions'
  <2>1. /\ s \in InCall /\ UNCHANGED <<input, stage, info, slices>>
        /\ complete' \subseteq complete \cup {s}
    BY <1>9, QuitSteps
  <2>2. Forked
    BY <2>1, Running
  <2>3. \A t \in slices \ {s} : Position(t) => Position(t)'
    BY <2>1, SamePosition
  <2>4. Position(s)'
    BY <1>9, QuitPosition
  <2> QED
    BY <2>1, <2>2, <2>3, <2>4 DEF Positions
<1> QED
  BY <1>2, <1>3, <1>4, <1>5, <1>6, <1>7, <1>8, <1>9, NextSteps

-----------------------------------------------------------------------------
(* Elements of the slices.                                                 *)

\* count[n], the sum of what the slices before n count.
LEMMA CountsAddUp ==
  ASSUME NEW n \in Nat, NEW r \in [0..n -> Nat], r[0] = 0,
         \A t \in 1..n : r[t] = r[t - 1] + counts[t - 1]
  PROVE  CountBefore(n) = r[n]
<1> DEFINE Solves(c) == c = [t \in 0..n |-> IF t = 0 THEN 0 ELSE c[t - 1] + counts[t - 1]]
           count == CHOOSE c : Solves(c)
<1>1. Solves(r)
  <2>1. \A t \in 0..n : r[t] = IF t = 0 THEN 0 ELSE r[t - 1] + counts[t - 1]
    <3> SUFFICES ASSUME NEW t \in 0..n
                 PROVE  r[t] = IF t = 0 THEN 0 ELSE r[t - 1] + counts[t - 1]
      OBVIOUS
    <3>1. t = 0 \/ t \in 1..n
      OBVIOUS
    <3> QED
      BY <3>1
  <2> QED
    BY <2>1
<1>2. Solves(count)
  <2> HIDE DEF Solves
  <2> QED
    BY <1>1
<1>3. CountBefore(n) = count[n]
  BY DEF CountBefore
<1> HIDE DEF count
<1>4. \A i \in 0..n : count[i] = r[i]
  <2> DEFINE T == {i \in 0..n : count[i] = r[i]}
  <2>1. 0 \in T
    BY <1>2
  <2>2. \A i \in 0..(n - 1) : i \in T => i + 1 \in T
    <3> SUFFICES ASSUME NEW i \in 0..(n - 1), count[i] = r[i]
                 PROVE  i + 1 \in 0..n /\ count[i + 1] = r[i + 1]
      BY Zenon
    <3>1. i + 1 \in 1..n /\ i + 1 \in 0..n /\ i + 1 # 0 /\ (i + 1) - 1 = i
      OBVIOUS
    <3>2. count[i + 1] = count[i] + counts[i]
      BY <1>2, <3>1
    <3>3. r[i + 1] = r[i] + counts[i]
      BY <3>1
    <3> QED
      BY <3>1, <3>2, <3>3
  <2> HIDE DEF T
  <2>3. \A i \in 0..n : i \in T
    BY <2>1, <2>2, IntervalInduction
  <2> QED
    BY <2>3 DEF T
<1> QED
  BY <1>3, <1>4

\* Whether i is an element of slice s.
InSlice(s, i) == Lo(s) <= i /\ i < At(Bound(s + 1))

\* Slices have no element in common.
LEMMA SlicesDisjoint ==
  ASSUME input \in Inputs, NEW s \in 0..(NumSlices - 1), NEW t \in 0..(NumSlices - 1), s # t,
         NEW i \in Int
  PROVE  ~(InSlice(s, i) /\ InSlice(t, i))
<1>1. NumSlices \in Nat \ {0} /\ Items \in Nat /\ length \in Nat /\ ChunkSize \in Nat \ {0}
  BY SliceCount, Arguments
<1>2. ASSUME NEW a \in 0..(NumSlices - 1), NEW b \in 0..(NumSlices - 1), a < b
      PROVE  At(Bound(a + 1)) <= Lo(b) /\ Lo(b) \in Nat /\ At(Bound(a + 1)) \in Nat
  <2>1. a + 1 \in 0..NumSlices /\ b \in 0..NumSlices /\ a + 1 <= b
    BY <1>1, <1>2
  <2>2. Bound(a + 1) <= Bound(b)
    BY <2>1, Bounds
  <2>3. Bound(a + 1) \in 0..Items /\ Bound(b) \in 0..Items
    BY <2>1, Bounds
  <2>4. Bound(a + 1) \in Nat /\ Bound(b) \in Nat
    BY <1>1, <2>3
  <2>5. At(Bound(a + 1)) \in 0..length /\ At(Bound(a + 1)) <= Bound(a + 1) * ChunkSize
    BY <2>4, ChunkEnds
  <2>6. Bound(a + 1) * ChunkSize <= Bound(b) * ChunkSize
    BY <2>2, <2>4, ChunkEnds
  <2>7. Bound(b) * ChunkSize \in Nat /\ Bound(a + 1) * ChunkSize \in Nat
    BY <1>1, <2>4
  <2> QED
    BY <1>1, <2>5, <2>6, <2>7 DEF Lo
<1>3. CASE s < t
  BY <1>2, <1>3 DEF InSlice
<1>4. CASE t < s
  BY <1>2, <1>4 DEF InSlice
<1> QED
  BY <1>1, <1>3, <1>4

\* Where the call of a slice is.
LEMMA Inside ==
  ASSUME Types, Control, Positions, Frames, Forked, NEW s \in slices, ~ByIndex, kernel # "copy"
  PROVE  /\ At(info[s].pos) \in Nat /\ Reached(s) \in Nat
         /\ At(info[s].pos) <= Reached(s) /\ Reached(s) <= At(Bound(s + 1))
         /\ At(Bound(s + 1)) <= length /\ At(Bound(s + 1)) \in Nat
         /\ InChunk(s) => /\ frame[s].pos = info[s].pos /\ frame[s].pos \in 0..(Chunks - 1)
                          /\ frame[s].pos < Bound(s + 1) /\ Bound(s) <= frame[s].pos
                          /\ Lo(s) <= frame[s].pos * ChunkSize /\ frame[s].pos * ChunkSize \in Nat
                          /\ frame[s].pos * ChunkSize <= frame[s].i
                          /\ frame[s].i <= ChunkEnd(frame[s].pos)
                          /\ ChunkEnd(frame[s].pos) = At(frame[s].pos + 1)
                          /\ At(frame[s].pos) = frame[s].pos * ChunkSize
         /\ info[s].start = Bound(s) /\ info[s].end = Bound(s + 1)
<1>1. /\ s \in Slice /\ s \in 0..(NumSlices - 1)
      /\ info[s].start \in Nat /\ info[s].end \in Nat /\ info[s].pos \in Nat
      /\ frame[s].pos \in Nat /\ frame[s].last \in Nat /\ frame[s].i \in Nat
      /\ ChunkSize \in Nat \ {0} /\ length \in Nat /\ Lo(s) \in Nat
      /\ Bound(s) \in 0..Items /\ Bound(s + 1) \in 0..Items /\ Items \in Nat
  BY Numerals
<1>2. kernel # "phase2" /\ kind # "range" /\ kernel # "range"
  BY NotByIndex DEF ByIndex
<1>3. Position(s) /\ input \in Inputs
  BY DEF Positions, Types
<1>4. info[s].start = Bound(s) /\ info[s].end = Bound(s + 1)
      /\ info[s].start <= info[s].pos /\ info[s].pos <= info[s].end
  BY <1>2, <1>3 DEF Position, From, To
<1>5. Bound(s + 1) \in Nat /\ At(Bound(s + 1)) \in 0..length
  BY <1>1, <1>3, ChunkEnds
<1>6. At(info[s].pos) \in 0..length /\ At(info[s].pos) <= At(Bound(s + 1))
  BY <1>1, <1>3, <1>4, <1>5, ChunkEnds
<1>7. CASE ~InChunk(s)
  BY <1>1, <1>4, <1>5, <1>6, <1>7 DEF Reached
<1>8. CASE InChunk(s)
  <2>1. Frame(s) /\ frame[s].pos < frame[s].last
    BY <1>8 DEF InChunk, Frames
  <2>2. frame[s].pos = info[s].pos /\ frame[s].last <= info[s].end
        /\ frame[s].pos * ChunkSize <= frame[s].i /\ frame[s].i <= ChunkEnd(frame[s].pos)
    BY <1>2, <2>1 DEF Frame
  <2>3. frame[s].pos < info[s].end
    BY <1>1, <2>1, <2>2
  <2>4. /\ frame[s].pos \in 0..(Chunks - 1)
        /\ At(frame[s].pos) = frame[s].pos * ChunkSize
        /\ ChunkEnd(frame[s].pos) = At(frame[s].pos + 1)
        /\ ChunkEnd(frame[s].pos) \in Nat /\ frame[s].pos * ChunkSize \in Nat
    BY <1>1, <1>3, <2>3, ChunkOfSlice
  <2>5. At(frame[s].pos + 1) <= At(Bound(s + 1))
    <3>1. frame[s].pos + 1 \in Nat /\ frame[s].pos + 1 <= Bound(s + 1)
      BY <1>1, <1>4, <1>5, <2>3
    <3> QED
      BY <1>3, <1>5, <3>1, ChunkEnds
  <2>6. Lo(s) <= frame[s].pos * ChunkSize
    <3>1. Bound(s) \in Nat /\ Bound(s) <= frame[s].pos
      BY <1>1, <1>4, <2>2
    <3> QED
      BY <1>1, <1>3, <3>1, ChunkEnds DEF Lo
  <2> QED
    BY <1>1, <1>4, <1>5, <1>6, <1>8, <2>2, <2>3, <2>4, <2>5, <2>6 DEF Reached
<1> QED
  BY <1>7, <1>8

\* The work of each kernel.
LEMMA WorkOfKernel ==
  ASSUME NEW s, Work(s)
  PROVE  /\ kernel \in {"map", "build"} => MapElement(s) \/ ChunkDone(s)
         /\ kernel = "reduce" => ReduceElement(s) \/ ReduceChunk(s)
         /\ kernel = "scan" => ScanElement(s) \/ ChunkDone(s)
         /\ kernel = "phase2" => Phase2Element(s)
         /\ kernel = "filter" => FilterElement(s) \/ FilterChunk(s)
         /\ kernel = "copy" => CopyElement(s) \/ CopyChunk(s)
         /\ kernel = "range" => RangeSkip(s) \/ RangeElement(s)
         /\ kernel = "vector" => VectorElement(s)
         /\ kernel \in {"map", "build", "reduce", "scan", "phase2", "filter", "copy", "range",
                        "vector"}
  BY DEF Work, NextIndex, NextChunk, NextElement, MapElement, ReduceElement, ScanElement,
         FilterElement, CopyElement, ChunkDone, ReduceChunk, FilterChunk, CopyChunk,
         Phase2Element, RangeSkip, RangeElement, VectorElement

\* What a step does not touch.
LEMMA SameData ==
  ASSUME NEW s, SliceData(s),
         UNCHANGED <<input, stage, buffer, sub, conflicts, counts, survivors>>,
         info'[s] = info[s], frame'[s] = frame[s],
         s \in InCall' <=> s \in InCall, s \in complete' => s \in complete
  PROVE  SliceData(s)'
<1>1. kernel' = kernel
  BY SameKernel
<1>2. length' = length /\ outLength' = outLength /\ targets' = targets
      /\ SeqThrows' = SeqThrows /\ SeqStates' = SeqStates /\ MayCollide' = MayCollide
  BY SameInput
<1>3. Lo(s)' = Lo(s) /\ Lo(s + 1)' = Lo(s + 1) /\ Bound(s)' = Bound(s)
      /\ Bound(s + 1)' = Bound(s + 1) /\ OutputPart(s)' = OutputPart(s)
  BY SameInput
<1>4. InChunk(s)' = InChunk(s)
  BY DEF InChunk
<1>5. At(info[s].pos)' = At(info[s].pos) /\ At(Bound(s + 1))' = At(Bound(s + 1))
  BY <1>2, <1>3 DEF At
<1>6. Reached(s)' = Reached(s)
  BY <1>4, <1>5 DEF Reached
<1>7. MapInv(s)'
  <2>1. MapInv(s)
    BY DEF SliceData
  <2> QED
    BY <1>1, <1>3, <1>6, <2>1 DEF MapInv
<1>8. ReduceInv(s)'
  <2>1. ReduceInv(s)
    BY DEF SliceData
  <2> QED
    BY <1>1, <1>3, <1>4, <1>5, <2>1 DEF ReduceInv
<1>9. ScanInv(s)'
  <2>1. ScanInv(s)
    BY DEF SliceData
  <2> QED
    BY <1>1, <1>3, <1>4, <1>6, <2>1 DEF ScanInv
<1>10. Phase2Inv(s)'
  <2>1. Phase2Inv(s)
    BY DEF SliceData
  <2> QED
    BY <1>1, <1>3, <1>5, <2>1 DEF Phase2Inv
<1>11. FilterInv(s)'
  <2>1. FilterInv(s)
    BY DEF SliceData
  <2>2. \A c : ChunkSurvivors(c)' = ChunkSurvivors(c)
    BY SameInput
  <2>3. \A n : RankOf(n)' = RankOf(n)
    BY SameInput
  <2>4. RankOf(info[s].pos * ChunkSize)' = RankOf(info[s].pos * ChunkSize)
        /\ RankOf(frame[s].i)' = RankOf(frame[s].i) /\ RankOf(Lo(s))' = RankOf(Lo(s))
    BY <1>3 DEF RankOf
  <2> QED
    BY <1>1, <1>3, <1>4, <2>1, <2>2, <2>4 DEF FilterInv
<1>12. CopyInv(s)'
  <2>1. CopyInv(s)
    BY DEF SliceData
  <2>2. \A n : RankOf(n)' = RankOf(n)
    BY SameInput
  <2>3. Copied(s, Lo(s + 1)) => Copied(s, Lo(s + 1))'
    BY <1>3, <2>2 DEF Copied
  <2>4. Copied(s, frame[s].i) => Copied(s, frame[s].i)'
    BY <1>3, <2>2 DEF Copied
  <2>5. RankOf(frame[s].i)' = RankOf(frame[s].i)
    BY DEF RankOf
  <2> QED
    BY <1>1, <2>1, <2>3, <2>4, <2>5 DEF CopyInv
<1>13. RangeInv(s)'
  <2>1. RangeInv(s)
    BY DEF SliceData
  <2>2. Targets(0, info[s].pos)' = Targets(0, info[s].pos)
    BY <1>2 DEF Targets
  <2>3. \A c : CheckedTarget(c)' = CheckedTarget(c)
    BY SameInput
  <2>4. Skipped(s, info[s].pos, frame[s].pos) => Skipped(s, info[s].pos, frame[s].pos)'
    BY <1>2, <1>3, <2>3 DEF Skipped
  <2>5. Skipped(s, info[s].pos, length) => Skipped(s, info[s].pos, length)'
    BY <1>2, <1>3, <2>3 DEF Skipped
  <2> QED
    BY <1>1, <1>2, <1>3, <2>1, <2>2, <2>3, <2>4, <2>5 DEF RangeInv
<1>14. VectorInv(s)'
  <2>1. VectorInv(s)
    BY DEF SliceData
  <2>2. Targets(Bound(s), info[s].pos)' = Targets(Bound(s), info[s].pos)
        /\ Targets(0, Bound(s))' = Targets(0, Bound(s))
    BY <1>2, <1>3 DEF Targets
  <2>3. \A c : CheckedTarget(c)' = CheckedTarget(c)
    BY SameInput
  <2>4. \A t : Local(s, t)' = Local(s, t)
    BY <1>2, <1>3, <2>2 DEF Local
  <2> QED
    BY <1>1, <1>2, <1>3, <2>1, <2>2, <2>3, <2>4 DEF VectorInv
<1> QED
  BY <1>7, <1>8, <1>9, <1>10, <1>11, <1>12, <1>13, <1>14 DEF SliceData

\* Ranks of the elements a filter keeps.
LEMMA KeepRanks ==
  ASSUME input \in Inputs
  PROVE  /\ RankOf(0) = 0 /\ RankOf(length) = Cardinality(input.keep)
         /\ \A n \in Nat : RankOf(n) \in 0..length
         /\ \A n \in Nat : RankOf(n + 1) = RankOf(n) + (IF n \in input.keep THEN 1 ELSE 0)
         /\ \A n \in Nat : RankOf(MinOf(n, length)) = RankOf(n)
         /\ \A a, b \in Nat : a <= b =>
               /\ Cardinality(input.keep \cap (a..(b - 1))) = RankOf(b) - RankOf(a)
               /\ RankOf(a) <= RankOf(b)
         /\ \A g \in input.keep : g \in Nat /\ g < length
                                  /\ RankOf(g) \in 0..(Cardinality(input.keep) - 1)
         /\ \A g, h \in input.keep : g # h => RankOf(g) # RankOf(h)
         /\ \A g, h \in Nat : RankOf(g) = RankOf(h) =>
               \A i \in input.keep : ~(g <= i /\ i < h)
         /\ \A j \in 0..(Cardinality(input.keep) - 1) : \E i \in input.keep : RankOf(i) = j
         /\ RankOf(Chunks * ChunkSize) = Cardinality(input.keep)
         /\ Cardinality(input.keep) \in Nat
<1>1. length \in Nat /\ input.keep \in SUBSET (0..(length - 1))
  BY Arguments
<1> DEFINE keep == input.keep
           m == length
<1>2. m \in Nat /\ keep \in SUBSET (0..(m - 1)) /\ \A n : RankOf(n) = Rank(keep, n)
  BY <1>1 DEF RankOf
<1> HIDE DEF keep, m
<1>3. /\ RankOf(0) = 0
      /\ RankOf(m) = Cardinality(keep)
      /\ \A n \in Nat : RankOf(n) \in 0..m
      /\ \A n \in Nat : RankOf(n + 1) = RankOf(n) + (IF n \in keep THEN 1 ELSE 0)
      /\ \A n \in Nat : RankOf(MinOf(n, m)) = RankOf(n)
      /\ \A a, b \in Nat : a <= b =>
            Cardinality(keep \cap (a..(b - 1))) = RankOf(b) - RankOf(a)
  <2>1. /\ Rank(keep, 0) = 0
        /\ Rank(keep, m) = Cardinality(keep)
        /\ \A n \in Nat : Rank(keep, n) \in 0..m
        /\ \A n \in Nat : Rank(keep, n + 1) = Rank(keep, n) + (IF n \in keep THEN 1 ELSE 0)
        /\ \A n \in Nat : Rank(keep, MinOf(n, m)) = Rank(keep, n)
        /\ \A a, b \in Nat : a <= b =>
              Cardinality(keep \cap (a..(b - 1))) = Rank(keep, b) - Rank(keep, a)
    BY <1>2, Ranks
  <2>2. \A n : RankOf(n) = Rank(keep, n)
    BY <1>2
  <2> QED
    BY <2>1, <2>2
<1>4. /\ \A a, b \in Nat : a <= b => RankOf(a) <= RankOf(b)
      /\ \A g \in keep : g \in Nat /\ RankOf(g) \in 0..(Cardinality(keep) - 1)
      /\ \A g, h \in keep : g # h => RankOf(g) # RankOf(h)
      /\ \A g, h \in Nat : RankOf(g) = RankOf(h) =>
            \A i \in keep : ~(g <= i /\ i < h)
      /\ \A j \in 0..(Cardinality(keep) - 1) : \E i \in keep : RankOf(i) = j
  BY <1>2, RanksNumber, Zenon
<1>5. \A g \in keep : g < m
  BY <1>2
<1>6. RankOf(Chunks * ChunkSize) = Cardinality(keep)
  <2>1. Chunks \in Nat /\ ChunkSize \in Nat \ {0}
    BY SliceCount, Arguments
  <2>2. Chunks * ChunkSize \in Nat
    BY <2>1
  <2>3. MinOf(Chunks * ChunkSize, m) = m
    BY ChunkEnds DEF At, m
  <2> QED
    BY <1>3, <2>2, <2>3
<1>7. Cardinality(keep) \in Nat
  BY <1>2, <1>3
<1> QED
  BY <1>3, <1>4, <1>5, <1>6, <1>7, Zenon DEF keep, m

\* The survivors in the slices before s, when all of them have been counted.
LEMMA CountBefores ==
  ASSUME Types, Control, Positions, Data, Forked,
         kernel = "copy" \/ (kernel = "filter" /\ complete = slices),
         NEW s \in 0..NumSlices
  PROVE  /\ CountBefore(s) = RankOf(Lo(s))
         /\ s < NumSlices => /\ counts[s] = RankOf(Lo(s + 1)) - RankOf(Lo(s))
                             /\ Lo(s + 1) \in Nat
         /\ Lo(s) \in Nat
<1>1. input \in Inputs /\ slices = 0..(NumSlices - 1)
  BY DEF Types, Control
<1>2. NumSlices \in Nat \ {0} /\ Items \in Nat /\ ChunkSize \in Nat \ {0} /\ s \in Nat
  BY <1>1, SliceCount, Arguments
<1>3. \A t \in 0..NumSlices : Lo(t) \in Nat
  <2> SUFFICES ASSUME NEW t \in 0..NumSlices PROVE Lo(t) \in Nat
    OBVIOUS
  <2>1. Bound(t) \in 0..Items
    BY <1>1, Bounds
  <2> QED
    BY <1>2, <2>1 DEF Lo
<1>4. \A t \in 0..(NumSlices - 1) : counts[t] = RankOf(Lo(t + 1)) - RankOf(Lo(t))
  <2> SUFFICES ASSUME NEW t \in 0..(NumSlices - 1)
               PROVE  counts[t] = RankOf(Lo(t + 1)) - RankOf(Lo(t))
    OBVIOUS
  <2>1. Position(t) /\ SliceData(t)
    BY <1>1 DEF Positions, Data
  <2>2. ~ByIndex
    BY DEF ByIndex
  <2>3. kind # "range"
    BY <2>2, NotByIndex
  <2>4. info[t].pos = Bound(t + 1)
    BY <1>1, <2>1, <2>3 DEF Position, To
  <2>5. counts[t] = RankOf(info[t].pos * ChunkSize) - RankOf(Lo(t))
    BY <2>1 DEF SliceData, FilterInv
  <2>6. info[t].pos * ChunkSize = Lo(t + 1)
    BY <2>4 DEF Lo
  <2> QED
    BY <2>5, <2>6
<1>5. \A t \in 0..NumSlices : RankOf(Lo(t)) \in Nat
  <2>1. \A n \in Nat : RankOf(n) \in 0..length
    BY <1>1, KeepRanks
  <2>2. length \in Nat
    BY <1>1, Arguments
  <2> QED
    BY <1>3, <2>1, <2>2
<1> DEFINE r == [t \in 0..s |-> RankOf(Lo(t))]
<1>6. r \in [0..s -> Nat]
  BY <1>2, <1>5
<1>7. r[0] = 0
  <2>1. Bound(0) = 0
    BY <1>1, Bounds
  <2>2. Lo(0) = 0
    BY <1>2, <2>1 DEF Lo
  <2>3. RankOf(0) = 0
    BY <1>1, KeepRanks
  <2>4. r[0] = RankOf(Lo(0))
    BY <1>2
  <2> QED
    BY <2>2, <2>3, <2>4
<1>8. \A t \in 1..s : r[t] = r[t - 1] + counts[t - 1]
  <2> SUFFICES ASSUME NEW t \in 1..s PROVE r[t] = r[t - 1] + counts[t - 1]
    OBVIOUS
  <2>1. t - 1 \in 0..(NumSlices - 1) /\ (t - 1) + 1 = t /\ t \in 0..s /\ t - 1 \in 0..s
        /\ t \in 0..NumSlices /\ t - 1 \in 0..NumSlices
    BY <1>2
  <2>2. counts[t - 1] = RankOf(Lo(t)) - RankOf(Lo(t - 1))
    BY <1>4, <2>1
  <2>3. RankOf(Lo(t)) \in Nat /\ RankOf(Lo(t - 1)) \in Nat
    BY <1>5, <2>1
  <2> QED
    BY <2>1, <2>2, <2>3
<1>9. CountBefore(s) = RankOf(Lo(s))
  <2>1. r[s] = RankOf(Lo(s))
    BY <1>2
  <2> HIDE DEF r
  <2> QED
    BY <1>2, <1>6, <1>7, <1>8, <2>1, CountsAddUp
<1>10. s < NumSlices => s \in 0..(NumSlices - 1) /\ s + 1 \in 0..NumSlices
  BY <1>2
<1> QED
  BY <1>3, <1>4, <1>9, <1>10

\* What is about the input only does not change while a phase lasts.
LEMMA SameTerms ==
  ASSUME input' = input, stage' = stage, NEW s
  PROVE  /\ kernel' = kernel /\ length' = length /\ outLength' = outLength
         /\ targets' = targets /\ MayCollide' = MayCollide
         /\ SeqThrows' = SeqThrows /\ SeqStates' = SeqStates
         /\ Lo(s)' = Lo(s) /\ Lo(s + 1)' = Lo(s + 1) /\ Bound(s)' = Bound(s)
         /\ Bound(s + 1)' = Bound(s + 1) /\ OutputPart(s)' = OutputPart(s)
         /\ At(Bound(s + 1))' = At(Bound(s + 1)) /\ Targets(0, Bound(s))' = Targets(0, Bound(s))
         /\ \A c : ChunkSurvivors(c)' = ChunkSurvivors(c) /\ CheckedTarget(c)' = CheckedTarget(c)
                   /\ RankOf(c)' = RankOf(c)
<1>1. kernel' = kernel
  BY SameKernel
<1>2. length' = length /\ outLength' = outLength /\ targets' = targets
      /\ SeqThrows' = SeqThrows /\ SeqStates' = SeqStates /\ MayCollide' = MayCollide
  BY SameInput
<1>3. Lo(s)' = Lo(s) /\ Lo(s + 1)' = Lo(s + 1) /\ Bound(s)' = Bound(s)
      /\ Bound(s + 1)' = Bound(s + 1) /\ OutputPart(s)' = OutputPart(s)
  BY SameInput
<1>4. At(Bound(s + 1))' = At(Bound(s + 1)) /\ Targets(0, Bound(s))' = Targets(0, Bound(s))
  BY <1>2, <1>3 DEF At, Targets
<1>5. \A c : ChunkSurvivors(c)' = ChunkSurvivors(c) /\ CheckedTarget(c)' = CheckedTarget(c)
             /\ RankOf(c)' = RankOf(c)
  BY SameInput
<1> QED
  BY <1>1, <1>2, <1>3, <1>4, <1>5

\* A call that begins has what the calls before it have left.
LEMMA EnterData ==
  ASSUME Types, Control, Positions, Frames, Data,
         NEW s \in Slice, NEW mode \in CallMode, Enter(s, mode)
  PROVE  SliceData(s)'
<1> DEFINE from == IF kernel = "copy" THEN info[s].start ELSE info[s].pos
<1>1. /\ Forked /\ s \in slices /\ s \notin InCall /\ InCall' = InCall \cup {s}
      /\ UNCHANGED <<input, stage, info, buffer, sub, conflicts, counts, survivors, complete>>
  BY EnterSteps
<1>2. /\ frame'[s].pos = from
      /\ frame'[s].i = from * ChunkSize
      /\ frame'[s].acc = (IF kernel = "reduce" THEN sub[s] ELSE Hole)
      /\ frame'[s].count = (IF kernel = "copy" THEN CountBefore(s) ELSE counts[s])
      /\ frame'[s].bits = {}
      /\ frame'[s].last = StopAt(s, mode)
  <2> DEFINE acc == IF kernel = "reduce" THEN sub[s] ELSE Hole
             count == IF kernel = "copy" THEN CountBefore(s) ELSE counts[s]
  <2>1. frame'[s] = [pos |-> from, last |-> StopAt(s, mode), i |-> from * ChunkSize,
                     acc |-> acc, bits |-> {}, count |-> count]
    BY EnterSteps, Zenon
  <2> HIDE DEF from, acc, count
  <2>2. /\ frame'[s].pos = from
        /\ frame'[s].i = from * ChunkSize
        /\ frame'[s].acc = acc
        /\ frame'[s].count = count
        /\ frame'[s].bits = {}
        /\ frame'[s].last = StopAt(s, mode)
    BY <2>1
  <2> QED
    BY <2>2 DEF acc, count
<1>3. SliceData(s) /\ Position(s) /\ input \in Inputs
  BY <1>1 DEF Data, Positions, Types
<1>4. /\ s \in 0..(NumSlices - 1)
      /\ info[s].start \in Nat /\ info[s].end \in Nat /\ info[s].pos \in Nat
      /\ ChunkSize \in Nat \ {0} /\ length \in Nat /\ Lo(s) \in Nat
      /\ Bound(s) \in 0..Items /\ Bound(s + 1) \in 0..Items /\ Items \in Nat
      /\ NumSlices \in Nat \ {0} /\ counts[s] \in 0..MaxLength
  BY <1>1, Numerals
<1>5. /\ kernel' = kernel /\ length' = length /\ outLength' = outLength
      /\ targets' = targets /\ MayCollide' = MayCollide
      /\ SeqThrows' = SeqThrows /\ SeqStates' = SeqStates
      /\ Lo(s)' = Lo(s) /\ Lo(s + 1)' = Lo(s + 1) /\ Bound(s)' = Bound(s)
      /\ Bound(s + 1)' = Bound(s + 1) /\ OutputPart(s)' = OutputPart(s)
      /\ At(Bound(s + 1))' = At(Bound(s + 1)) /\ Targets(0, Bound(s))' = Targets(0, Bound(s))
      /\ \A c : ChunkSurvivors(c)' = ChunkSurvivors(c) /\ CheckedTarget(c)' = CheckedTarget(c)
                /\ RankOf(c)' = RankOf(c)
  BY <1>1, SameTerms
<1>6. At(info[s].pos)' = At(info[s].pos)
  BY <1>1, <1>5 DEF At
<1>7. Reached(s) = At(info[s].pos) /\ ~InChunk(s)
  BY <1>1 DEF Reached, InChunk
<1>8. ASSUME kernel \in {"map", "build", "reduce", "scan", "filter"}
      PROVE  /\ info[s].start = Bound(s)
             /\ Reached(s)' = Reached(s)
             /\ InChunk(s)' => /\ frame'[s].i = At(info[s].pos)
                               /\ info[s].pos * ChunkSize = At(info[s].pos)
                               /\ frame'[s].pos * ChunkSize = frame'[s].i
                               /\ frame'[s].i \in Nat
                               /\ Lo(s) <= frame'[s].i
                               /\ Lo(s) < frame'[s].i => info[s].start < info[s].pos
  <2>1. ~ByIndex /\ kernel # "copy" /\ kernel # "phase2"
    BY <1>8 DEF ByIndex
  <2>2. kind # "range"
    BY <1>1, <2>1, NotByIndex
  <2>3. info[s].start = Bound(s) /\ info[s].end = Bound(s + 1)
        /\ info[s].start <= info[s].pos /\ info[s].pos <= info[s].end
    BY <1>3, <2>1, <2>2 DEF Position, From, To
  <2>4. frame'[s].pos = info[s].pos /\ frame'[s].i = info[s].pos * ChunkSize
    BY <1>2, <2>1
  <2>5. ASSUME InChunk(s)'
        PROVE  /\ info[s].pos * ChunkSize = At(info[s].pos) /\ info[s].pos * ChunkSize \in Nat
               /\ Lo(s) <= info[s].pos * ChunkSize
               /\ Lo(s) < info[s].pos * ChunkSize => info[s].start < info[s].pos
    <3>1. frame'[s].pos < frame'[s].last /\ Frame(s)'
      <4>1. Frame(s)'
        BY EnterFrame
      <4> QED
        BY <2>5, <4>1 DEF InChunk
    <3>2. StopAt(s, mode) \in Nat /\ StopAt(s, mode) <= info[s].end
      BY <1>1, <1>3, StopAtBounds
    <3>3. info[s].pos < info[s].end
      BY <1>2, <1>4, <2>4, <3>1, <3>2
    <3>4. info[s].pos * ChunkSize = At(info[s].pos) /\ info[s].pos * ChunkSize \in Nat
      BY <1>1, <1>3, <1>4, <2>1, <3>3, ChunkOfSlice
    <3>5. Bound(s) * ChunkSize <= info[s].pos * ChunkSize
      BY <1>3, <1>4, <2>3, ChunkEnds
    <3>6. Lo(s) < info[s].pos * ChunkSize => info[s].start # info[s].pos
      BY <1>4, <2>3 DEF Lo
    <3> QED
      BY <1>4, <2>3, <3>4, <3>5, <3>6 DEF Lo
  <2>6. Reached(s)' = Reached(s)
    <3>1. CASE InChunk(s)'
      <4>1. Reached(s)' = frame'[s].i
        BY <3>1 DEF Reached
      <4> QED
        BY <1>7, <2>4, <2>5, <3>1, <4>1
    <3>2. CASE ~InChunk(s)'
      <4>1. Reached(s)' = At(info[s].pos)'
        BY <3>2 DEF Reached
      <4> QED
        BY <1>6, <1>7, <4>1
    <3> QED
      BY <3>1, <3>2
  <2> QED
    BY <2>3, <2>4, <2>5, <2>6
<1> HIDE DEF from
<1>9. MapInv(s)'
  <2>1. MapInv(s)
    BY <1>3 DEF SliceData
  <2> QED
    BY <1>1, <1>5, <1>8, <2>1 DEF MapInv
<1>10. ReduceInv(s)'
  <2> SUFFICES ASSUME kernel = "reduce"
               PROVE  /\ info[s].start < info[s].pos =>
                            sub[s] = Run(Lo(s), At(info[s].pos) - 1)
                      /\ InChunk(s)' /\ Lo(s) < frame'[s].i =>
                            frame'[s].acc = Run(Lo(s), frame'[s].i - 1)
    BY <1>1, <1>5, <1>6 DEF ReduceInv
  <2>1. ReduceInv(s)
    BY <1>3 DEF SliceData
  <2>2. info[s].start < info[s].pos => sub[s] = Run(Lo(s), At(info[s].pos) - 1)
    BY <2>1 DEF ReduceInv
  <2> QED
    BY <1>2, <1>8, <2>2
<1>11. ScanInv(s)'
  <2> SUFFICES ASSUME kernel = "scan"
               PROVE  /\ \A i \in Lo(s)..(Reached(s)' - 1) : buffer[i] = Run(Lo(s), i)
                      /\ InChunk(s)' => ~(frame'[s].pos * ChunkSize < frame'[s].i)
    BY <1>1, <1>5 DEF ScanInv
  <2>1. ScanInv(s)
    BY <1>3 DEF SliceData
  <2>2. Reached(s)' = Reached(s)
        /\ (InChunk(s)' => frame'[s].pos * ChunkSize = frame'[s].i /\ frame'[s].i \in Nat)
    BY <1>8
  <2> QED
    BY <2>1, <2>2 DEF ScanInv
<1>12. Phase2Inv(s)'
  <2>1. Phase2Inv(s)
    BY <1>3 DEF SliceData
  <2> QED
    BY <1>1, <1>5, <2>1 DEF Phase2Inv
<1>13. FilterInv(s)'
  <2>1. FilterInv(s)
    BY <1>3 DEF SliceData
  <2>2. ASSUME kernel = "filter", InChunk(s)'
        PROVE  /\ frame'[s].bits = input.keep \cap ((frame'[s].pos * ChunkSize)..(frame'[s].i - 1))
               /\ frame'[s].count = RankOf(frame'[s].i) - RankOf(Lo(s))
    <3>1. /\ frame'[s].pos * ChunkSize = frame'[s].i /\ frame'[s].i \in Nat
          /\ frame'[s].i = info[s].pos * ChunkSize
      BY <1>8, <2>2
    <3>2. (frame'[s].pos * ChunkSize)..(frame'[s].i - 1) = {}
      BY <3>1
    <3>3. counts[s] = RankOf(info[s].pos * ChunkSize) - RankOf(Lo(s))
      BY <2>1, <2>2 DEF FilterInv
    <3> QED
      BY <1>2, <2>2, <3>1, <3>2, <3>3
  <2>3. RankOf(info[s].pos * ChunkSize)' = RankOf(info[s].pos * ChunkSize)
        /\ RankOf(frame[s].i)' = RankOf(frame'[s].i) /\ RankOf(Lo(s))' = RankOf(Lo(s))
    BY <1>1, <1>5 DEF RankOf
  <2> QED
    BY <1>1, <1>5, <2>1, <2>2, <2>3 DEF FilterInv
<1>14. CopyInv(s)'
  <2>1. CopyInv(s)
    BY <1>3 DEF SliceData
  <2> SUFFICES ASSUME kernel = "copy"
               PROVE  /\ frame'[s].count = RankOf(frame'[s].i) /\ Copied(s, frame[s].i)'
                      /\ s \in complete => Copied(s, Lo(s + 1))'
    <3>1. RankOf(frame[s].i)' = RankOf(frame'[s].i)
      BY <1>1 DEF RankOf
    <3> QED
      BY <1>1, <1>5, <3>1 DEF CopyInv
  <2>2. s \in complete => Copied(s, Lo(s + 1))'
    BY <1>1, <1>5, <2>1 DEF CopyInv, Copied
  <2>3. kind # "range"
    BY <1>1, NotByIndex DEF ByIndex
  <2>4. frame'[s].i = Lo(s)
    BY <1>2, <1>3, <2>3 DEF Position, From, Lo, from
  <2>5. frame'[s].count = RankOf(frame'[s].i)
    <3>1. s \in 0..NumSlices
      BY <1>4
    <3>2. CountBefore(s) = RankOf(Lo(s))
      BY <1>1, <3>1, CountBefores
    <3> QED
      BY <1>2, <2>4, <3>2
  <2>6. Copied(s, frame[s].i)'
    <3>1. \A h \in input.keep : ~(Lo(s) <= h /\ h < Lo(s))
      <4>1. \A h \in input.keep : h \in Nat
        BY <1>3, KeepRanks
      <4> QED
        BY <1>4, <4>1
    <3> QED
      BY <1>1, <1>5, <2>4, <3>1 DEF Copied
  <2> QED
    BY <2>2, <2>5, <2>6
<1>15. RangeInv(s)'
  <2>1. RangeInv(s)
    BY <1>3 DEF SliceData
  <2> SUFFICES ASSUME kernel = "range" PROVE RangeInv(s)'
    BY <1>5 DEF RangeInv
  <2>2. Targets(0, info[s].pos)' = Targets(0, info[s].pos)
    BY <1>1, <1>5 DEF Targets
  <2>3. Skipped(s, info[s].pos, length) => Skipped(s, info[s].pos, length)'
    BY <1>1, <1>5 DEF Skipped
  <2>4. Skipped(s, info[s].pos, frame[s].pos)'
    <3>1. frame'[s].pos = info[s].pos
      BY <1>2 DEF from
    <3>2. info[s].pos..(info[s].pos - 1) = {}
      BY <1>4
    <3> QED
      BY <1>1, <3>1, <3>2 DEF Skipped
  <2> QED
    BY <1>1, <1>5, <2>1, <2>2, <2>3, <2>4 DEF RangeInv
<1>16. VectorInv(s)'
  <2>1. VectorInv(s)
    BY <1>3 DEF SliceData
  <2>2. Targets(Bound(s), info[s].pos)' = Targets(Bound(s), info[s].pos)
    BY <1>1, <1>5 DEF Targets
  <2>4. \A t : Local(s, t)' = Local(s, t)
    BY <1>1, <1>5 DEF Local
  <2> QED
    BY <1>1, <1>5, <2>1, <2>2, <2>4 DEF VectorInv
<1> QED
  BY <1>9, <1>10, <1>11, <1>12, <1>13, <1>14, <1>15, <1>16 DEF SliceData

\* A call that ends, in whatever way, leaves its slice fit for the next call.
LEMMA QuitData ==
  ASSUME Types, Control, Positions, Frames, Data, NEW s \in Slice, Quit(s)
  PROVE  SliceData(s)'
<1>1. /\ s \in InCall /\ InCall' = InCall \ {s}
      /\ UNCHANGED <<input, stage, info, buffer, sub, conflicts, counts, survivors>>
      /\ complete' = complete
         \/ /\ complete' = complete \cup {s} /\ ~InLoop(s)
            /\ kernel = "copy" \/ NothingToDo(s) \/ frame[s].last = info[s].end
  BY QuitSteps
<1>2. Forked /\ s \in slices
  BY <1>1, Running
<1>3. SliceData(s) /\ Position(s) /\ Frame(s) /\ input \in Inputs
  BY <1>1, <1>2 DEF Data, Positions, Frames, Types
<1>4. /\ s \in 0..(NumSlices - 1)
      /\ info[s].start \in Nat /\ info[s].end \in Nat /\ info[s].pos \in Nat
      /\ frame[s].pos \in Nat /\ frame[s].last \in Nat /\ frame[s].i \in Nat
      /\ ChunkSize \in Nat \ {0} /\ length \in Nat /\ Lo(s) \in Nat
      /\ Bound(s) \in 0..Items /\ Bound(s + 1) \in 0..Items /\ Items \in Nat
      /\ NumSlices \in Nat \ {0} /\ counts[s] \in 0..MaxLength
  BY <1>2, Numerals
<1>5. /\ kernel' = kernel /\ length' = length /\ outLength' = outLength
      /\ targets' = targets /\ MayCollide' = MayCollide
      /\ SeqThrows' = SeqThrows /\ SeqStates' = SeqStates
      /\ Lo(s)' = Lo(s) /\ Lo(s + 1)' = Lo(s + 1) /\ Bound(s)' = Bound(s)
      /\ Bound(s + 1)' = Bound(s + 1) /\ OutputPart(s)' = OutputPart(s)
      /\ At(Bound(s + 1))' = At(Bound(s + 1)) /\ Targets(0, Bound(s))' = Targets(0, Bound(s))
      /\ \A c : ChunkSurvivors(c)' = ChunkSurvivors(c) /\ CheckedTarget(c)' = CheckedTarget(c)
                /\ RankOf(c)' = RankOf(c)
  BY <1>1, SameTerms
<1>6. At(info[s].pos)' = At(info[s].pos) /\ ~InChunk(s)'
  BY <1>1, <1>5 DEF At, InChunk
<1>7. kernel \in {"map", "build", "scan"} => Reached(s)' \in Nat /\ Reached(s)' <= Reached(s)
                                            /\ Reached(s) \in Nat
  <2> SUFFICES ASSUME kernel \in {"map", "build", "scan"}
               PROVE  Reached(s)' \in Nat /\ Reached(s)' <= Reached(s) /\ Reached(s) \in Nat
    OBVIOUS
  <2>1. ~ByIndex /\ kernel # "copy"
    BY DEF ByIndex
  <2>2. Reached(s)' = At(info[s].pos)
    BY <1>6 DEF Reached
  <2>3. At(info[s].pos) \in Nat /\ Reached(s) \in Nat /\ At(info[s].pos) <= Reached(s)
    BY <1>2, <2>1, Inside
  <2> QED
    BY <2>2, <2>3
<1>9. MapInv(s)'
  <2>1. MapInv(s)
    BY <1>3 DEF SliceData
  <2> QED
    BY <1>1, <1>4, <1>5, <1>7, <2>1 DEF MapInv
<1>10. ReduceInv(s)'
  <2>1. ReduceInv(s)
    BY <1>3 DEF SliceData
  <2> QED
    BY <1>1, <1>5, <1>6, <2>1 DEF ReduceInv
<1>11. ScanInv(s)'
  <2>1. ScanInv(s)
    BY <1>3 DEF SliceData
  <2> QED
    BY <1>1, <1>4, <1>5, <1>6, <1>7, <2>1 DEF ScanInv
<1>12. Phase2Inv(s)'
  <2>1. Phase2Inv(s)
    BY <1>3 DEF SliceData
  <2> QED
    BY <1>1, <1>5, <2>1 DEF Phase2Inv
<1>13. FilterInv(s)'
  <2>1. FilterInv(s)
    BY <1>3 DEF SliceData
  <2>3. RankOf(info[s].pos * ChunkSize)' = RankOf(info[s].pos * ChunkSize)
        /\ RankOf(Lo(s))' = RankOf(Lo(s))
    BY <1>1, <1>5 DEF RankOf
  <2> QED
    BY <1>1, <1>5, <1>6, <2>1, <2>3 DEF FilterInv
<1>14. CopyInv(s)'
  <2>1. CopyInv(s)
    BY <1>3 DEF SliceData
  <2> SUFFICES ASSUME kernel = "copy", s \in complete' PROVE Copied(s, Lo(s + 1))
    BY <1>1, <1>5 DEF CopyInv, Copied
  <2>2. CASE s \in complete
    BY <2>1, <2>2 DEF CopyInv
  <2>3. CASE s \notin complete
    <3>1. ~InLoop(s)
      BY <1>1, <2>3
    <3>2. frame[s].count = RankOf(frame[s].i) /\ Copied(s, frame[s].i)
      BY <1>1, <2>1 DEF CopyInv
    <3>3. info[s].end = Bound(s + 1) /\ frame[s].last = info[s].end
          /\ ~ByIndex /\ frame[s].pos <= frame[s].last
      <4>1. kind # "range" /\ ~ByIndex
        BY <1>2, NotByIndex DEF ByIndex
      <4> QED
        BY <1>3, <4>1 DEF Position, To, Frame
    <3>4. CASE NothingToDo(s)
      <4>1. frame[s].count = CountBefore(s) + counts[s]
        BY <3>4 DEF NothingToDo
      <4>2. /\ CountBefore(s) = RankOf(Lo(s))
            /\ counts[s] = RankOf(Lo(s + 1)) - RankOf(Lo(s))
            /\ Lo(s + 1) \in Nat
        <5>1. s \in 0..NumSlices /\ s < NumSlices
          BY <1>4
        <5> QED
          BY <1>2, <5>1, CountBefores
      <4>3. RankOf(Lo(s)) \in Nat /\ RankOf(Lo(s + 1)) \in Nat
        <5>1. \A n \in Nat : RankOf(n) \in 0..length
          BY <1>3, KeepRanks
        <5> QED
          BY <1>4, <4>2, <5>1
      <4>4. RankOf(frame[s].i) = RankOf(Lo(s + 1))
        BY <3>2, <4>1, <4>2, <4>3
      <4>5. \A i \in input.keep : ~(frame[s].i <= i /\ i < Lo(s + 1))
        <5>1. \A g, h \in Nat : RankOf(g) = RankOf(h) =>
                 \A i \in input.keep : ~(g <= i /\ i < h)
          BY <1>3, KeepRanks
        <5> QED
          BY <1>4, <4>2, <4>4, <5>1
      <4>6. \A i \in input.keep : i \in Nat
        BY <1>3, KeepRanks
      <4> QED
        BY <1>4, <3>2, <4>2, <4>5, <4>6 DEF Copied
    <3>5. CASE ~NothingToDo(s)
      <4>1. ~(frame[s].pos < frame[s].last)
        BY <1>1, <3>1, <3>5 DEF InLoop
      <4>2. frame[s].pos = frame[s].last
        BY <1>4, <3>3, <4>1
      <4>3. frame[s].i = frame[s].pos * ChunkSize
        BY <1>3, <3>3, <4>1 DEF Frame
      <4>4. frame[s].i = Lo(s + 1)
        BY <3>3, <4>2, <4>3 DEF Lo
      <4> QED
        BY <3>2, <4>4
    <3> QED
      BY <3>4, <3>5
  <2> QED
    BY <2>2, <2>3
<1>15. RangeInv(s)'
  <2>1. RangeInv(s)
    BY <1>3 DEF SliceData
  <2> SUFFICES ASSUME kernel = "range" PROVE RangeInv(s)'
    BY <1>5 DEF RangeInv
  <2>2. Targets(0, info[s].pos)' = Targets(0, info[s].pos)
    BY <1>1, <1>5 DEF Targets
  <2>3. Skipped(s, info[s].pos, length) => Skipped(s, info[s].pos, length)'
    BY <1>1, <1>5 DEF Skipped
  <2>4. s \in complete' => Skipped(s, info[s].pos, length)
    <3>1. CASE s \in complete
      BY <2>1, <3>1 DEF RangeInv
    <3>2. CASE s \in complete' /\ s \notin complete
      <4>1. ~InLoop(s) /\ ~NothingToDo(s) /\ frame[s].last = info[s].end
        BY <1>1, <3>2 DEF NothingToDo
      <4>2. frame[s].pos <= frame[s].last
        BY <1>3 DEF Frame
      <4>3. frame[s].pos = frame[s].last
        BY <1>1, <1>4, <4>1, <4>2 DEF InLoop
      <4>4. info[s].end = length
        <5>1. kind = "range"
          BY <1>2 DEF kernel, Forked
        <5> QED
          BY <1>3, <5>1 DEF Position, To
      <4>5. Skipped(s, info[s].pos, frame[s].pos)
        BY <1>1, <2>1 DEF RangeInv
      <4> QED
        BY <4>1, <4>3, <4>4, <4>5
    <3> QED
      BY <3>1, <3>2
  <2> QED
    BY <1>1, <1>5, <2>1, <2>2, <2>3, <2>4 DEF RangeInv
<1>16. VectorInv(s)'
  <2>1. VectorInv(s)
    BY <1>3 DEF SliceData
  <2>2. Targets(Bound(s), info[s].pos)' = Targets(Bound(s), info[s].pos)
    BY <1>1, <1>5 DEF Targets
  <2>4. \A t : Local(s, t)' = Local(s, t)
    BY <1>1, <1>5 DEF Local
  <2> QED
    BY <1>1, <1>5, <2>1, <2>2, <2>4 DEF VectorInv
<1> QED
  BY <1>9, <1>10, <1>11, <1>12, <1>13, <1>14, <1>15, <1>16 DEF SliceData

-----------------------------------------------------------------------------
(* The work of the calls, kernel by kernel.                                *)

\* Work on one slice leaves the progress of the others alone.
LEMMA OtherSlice ==
  ASSUME Types, Control, NEW t \in Slice, Work(t), NEW s \in slices, s # t
  PROVE  /\ info'[s] = info[s] /\ frame'[s] = frame[s]
         /\ InChunk(s)' = InChunk(s) /\ Reached(s)' = Reached(s)
         /\ InCall' = InCall /\ complete' = complete /\ input' = input /\ stage' = stage
         /\ Forked /\ t \in slices /\ t \in InCall
<1>1. /\ t \in InCall /\ InCall' = InCall
      /\ UNCHANGED <<kvars, input, stage, result>>
      /\ \A u \in Slice \ {t} : frame'[u] = frame[u]
      /\ \A u \in Slice \ {t} : u \in DOMAIN info => info'[u] = info[u]
  BY WorkSteps
<1>2. Forked /\ t \in slices /\ DOMAIN info = slices /\ slices \subseteq Slice
  BY <1>1, Running DEF Types
<1>3. info'[s] = info[s] /\ frame'[s] = frame[s]
  BY <1>1, <1>2
<1>4. InChunk(s)' = InChunk(s)
  BY <1>1, <1>3 DEF InChunk
<1>5. length' = length
  BY <1>1, SameInput
<1>6. Reached(s)' = Reached(s)
  BY <1>3, <1>4, <1>5 DEF Reached, At
<1> QED
  BY <1>1, <1>2, <1>3, <1>4, <1>6 DEF kvars

\* Work goes through the elements of a slice one by one.
LEMMA WorkReached ==
  ASSUME Types, Control, Positions, Frames, NEW s \in Slice, Work(s), ~ByIndex, kernel # "copy"
  PROVE  /\ s \in slices /\ Forked /\ InChunk(s)
         /\ UNCHANGED <<input, stage>>
         /\ Reached(s) = frame[s].i
         /\ NextElement(s) => /\ Reached(s)' = frame[s].i + 1 /\ InChunk(s)'
                              /\ InSlice(s, frame[s].i) /\ info' = info
                              /\ frame[s].i < ChunkEnd(frame[s].pos)
         /\ NextChunk(s) => /\ frame[s].i = At(frame[s].pos + 1)
                            /\ Reached(s)' = frame[s].i
                            /\ At(info[s].pos)' = frame[s].i
                            /\ info'[s].pos = frame[s].pos + 1 /\ info'[s].start = info[s].start
                            /\ InChunk(s)' => frame'[s].i = frame[s].i
                                              /\ frame[s].i = (frame[s].pos + 1) * ChunkSize
         /\ NextElement(s) \/ NextChunk(s)
<1>1. NextElement(s) \/ NextChunk(s)
  BY DEF Work, ByIndex, NextIndex, Phase2Element, RangeElement, VectorElement, CopyChunk, RangeSkip
<1>2. /\ s \in InCall /\ InCall' = InCall /\ UNCHANGED <<kvars, input, stage>>
  BY WorkSteps
<1>3. Forked /\ s \in slices
  BY <1>2, Running
<1>4. InChunk(s)
  BY <1>1, ElementStep, AdvanceStep
<1>5. /\ Reached(s) \in Nat /\ Reached(s) <= At(Bound(s + 1)) /\ At(Bound(s + 1)) \in Nat
      /\ frame[s].pos = info[s].pos /\ frame[s].pos \in 0..(Chunks - 1)
      /\ frame[s].pos < Bound(s + 1)
      /\ Lo(s) <= frame[s].pos * ChunkSize /\ frame[s].pos * ChunkSize \in Nat
      /\ frame[s].pos * ChunkSize <= frame[s].i
      /\ frame[s].i <= ChunkEnd(frame[s].pos)
      /\ ChunkEnd(frame[s].pos) = At(frame[s].pos + 1)
      /\ info[s].end = Bound(s + 1)
  BY <1>3, <1>4, Inside
<1>6. /\ info[s].end \in Nat /\ frame[s].pos \in Nat /\ frame[s].last \in Nat
      /\ frame[s].i \in Nat /\ Lo(s) \in Nat
  BY <1>3, Numerals
<1>7. Reached(s) = frame[s].i
  BY <1>4 DEF Reached
<1>8. ASSUME NextElement(s)
      PROVE  /\ Reached(s)' = frame[s].i + 1 /\ InChunk(s)'
             /\ InSlice(s, frame[s].i) /\ info' = info
             /\ frame[s].i < ChunkEnd(frame[s].pos)
  <2>1. /\ frame[s].i < ChunkEnd(frame[s].pos)
        /\ frame'[s].pos = frame[s].pos /\ frame'[s].last = frame[s].last
        /\ frame'[s].i = frame[s].i + 1
        /\ info' = info
    BY <1>8, ElementStep
  <2>2. InChunk(s)'
    BY <1>2, <1>4, <2>1 DEF InChunk
  <2>3. At(frame[s].pos + 1) <= At(Bound(s + 1)) /\ At(frame[s].pos + 1) \in Nat
    <3>1. input \in Inputs /\ frame[s].pos + 1 \in Nat /\ frame[s].pos + 1 <= Bound(s + 1)
          /\ Bound(s + 1) \in Nat
      BY <1>5, <1>6 DEF Types
    <3>2. At(frame[s].pos + 1) \in 0..length
      BY <3>1, ChunkEnds
    <3> QED
      BY <3>1, <3>2, ChunkEnds
  <2>4. InSlice(s, frame[s].i)
    BY <1>5, <1>6, <2>1, <2>3 DEF InSlice
  <2> QED
    BY <2>1, <2>2, <2>4 DEF Reached
<1>9. ASSUME NextChunk(s)
      PROVE  /\ frame[s].i = At(frame[s].pos + 1)
             /\ Reached(s)' = frame[s].i
             /\ At(info[s].pos)' = frame[s].i
             /\ info'[s].pos = frame[s].pos + 1 /\ info'[s].start = info[s].start
             /\ InChunk(s)' => frame'[s].i = frame[s].i
                               /\ frame[s].i = (frame[s].pos + 1) * ChunkSize
  <2>1. /\ frame'[s].pos = frame[s].pos + 1 /\ frame'[s].last = frame[s].last
        /\ frame'[s].i = (frame[s].pos + 1) * ChunkSize
        /\ info'[s].pos = frame[s].pos + 1 /\ info'[s].start = info[s].start
        /\ frame[s].i = ChunkEnd(frame[s].pos)
    BY <1>9, AdvanceStep
  <2>2. frame[s].i = At(frame[s].pos + 1)
    BY <1>5, <2>1
  <2>3. At(info[s].pos)' = At(frame[s].pos + 1)
    <3>1. length' = length
      BY <1>2, SameInput
    <3> QED
      BY <2>1, <3>1 DEF At
  <2>4. InChunk(s)' => (frame[s].pos + 1) * ChunkSize = At(frame[s].pos + 1)
    <3> SUFFICES ASSUME InChunk(s)'
                 PROVE  (frame[s].pos + 1) * ChunkSize = At(frame[s].pos + 1)
      OBVIOUS
    <3>1. frame[s].pos + 1 < frame[s].last
      BY <2>1 DEF InChunk
    <3>2. frame[s].last <= info[s].end
      BY <1>2 DEF Frames, Frame
    <3>3. frame[s].pos + 1 < info[s].end /\ frame[s].pos + 1 \in Nat
      BY <1>6, <3>1, <3>2
    <3>4. Position(s)
      BY <1>3 DEF Positions
    <3> QED
      BY <1>3, <3>3, <3>4, ChunkOfSlice
  <2>5. Reached(s)' = At(frame[s].pos + 1)
    <3>1. CASE InChunk(s)'
      <4>1. Reached(s)' = frame'[s].i
        BY <3>1 DEF Reached
      <4> QED
        BY <2>1, <2>4, <3>1, <4>1
    <3>2. CASE ~InChunk(s)'
      <4>1. Reached(s)' = At(info[s].pos)'
        BY <3>2 DEF Reached
      <4> QED
        BY <2>3, <4>1
    <3> QED
      BY <3>1, <3>2
  <2> QED
    BY <2>1, <2>2, <2>3, <2>4, <2>5
<1> QED
  BY <1>1, <1>2, <1>3, <1>4, <1>7, <1>8, <1>9

\* mapSlice and constructSlice write the elements in order.
LEMMA MapWork ==
  ASSUME Types, Control, Arrays, Positions, Frames, Data, NEW t \in Slice, Work(t),
         NEW s \in slices, kernel \in {"map", "build"}
  PROVE  MapInv(s)'
<1>0. ~ByIndex /\ kernel # "copy"
  BY DEF ByIndex
<1>1. /\ t \in slices /\ Forked /\ UNCHANGED <<input, stage>>
      /\ Reached(t) = frame[t].i
      /\ MapElement(t) => /\ Reached(t)' = frame[t].i + 1 /\ InSlice(t, frame[t].i)
      /\ ChunkDone(t) => Reached(t)' = Reached(t)
      /\ MapElement(t) \/ ChunkDone(t)
  <2>1. /\ t \in slices /\ Forked /\ UNCHANGED <<input, stage>>
        /\ Reached(t) = frame[t].i
        /\ NextElement(t) => /\ Reached(t)' = frame[t].i + 1 /\ InSlice(t, frame[t].i)
        /\ NextChunk(t) => Reached(t)' = frame[t].i
    BY <1>0, WorkReached
  <2>2. MapElement(t) \/ ChunkDone(t)
    BY WorkOfKernel
  <2> QED
    BY <2>1, <2>2 DEF NextElement, NextChunk
<1>2. MapInv(s) /\ input \in Inputs
  BY <1>1 DEF Data, SliceData, Types
<1>3. kernel' = kernel /\ Lo(s)' = Lo(s)
  BY <1>1, SameTerms
<1>4. /\ Lo(s) \in Nat /\ Reached(s) \in Nat /\ Reached(s) <= At(Bound(s + 1))
      /\ At(Bound(s + 1)) <= length /\ At(Bound(s + 1)) \in Nat /\ frame[t].i \in Nat
      /\ length \in Nat
  BY <1>0, <1>1, Inside, Numerals
<1>5. CASE ChunkDone(t)
  <2>1. buffer' = buffer
    BY <1>5 DEF ChunkDone
  <2>2. Reached(s)' = Reached(s)
    BY <1>1, <1>5, OtherSlice
  <2> QED
    BY <1>2, <1>3, <2>1, <2>2 DEF MapInv
<1>6. CASE MapElement(t)
  <2>1. buffer' = [buffer EXCEPT ![frame[t].i] = Elem(frame[t].i)]
    BY <1>6 DEF MapElement
  <2>2. DOMAIN buffer = 0..(length - 1)
    <3>1. kind # "range"
      BY <1>0, <1>1, NotByIndex
    <3> QED
      BY <1>0, <1>1, <3>1 DEF Arrays
  <2>3. CASE s = t
    <3>1. Reached(s)' = frame[s].i + 1 /\ Reached(s) = frame[s].i
      BY <1>1, <1>6, <2>3
    <3>2. \A i \in Lo(s)..((frame[s].i + 1) - 1) : buffer'[i] = Elem(i)
      <4> SUFFICES ASSUME NEW i \in Lo(s)..((frame[s].i + 1) - 1) PROVE buffer'[i] = Elem(i)
        OBVIOUS
      <4>1. CASE i = frame[s].i
        <5>1. i \in DOMAIN buffer
          BY <1>1, <1>4, <1>6, <2>2, <2>3, <4>1 DEF InSlice
        <5> QED
          BY <2>1, <2>3, <4>1, <5>1
      <4>2. CASE i # frame[s].i
        <5>1. i \in Lo(s)..(Reached(s) - 1)
          BY <1>4, <2>3, <3>1, <4>2
        <5>2. buffer[i] = Elem(i)
          BY <1>2, <5>1 DEF MapInv
        <5> QED
          BY <2>1, <2>3, <4>2, <5>2
      <4> QED
        BY <4>1, <4>2
    <3>3. \A i \in Lo(s)..(Reached(s)' - 1) : buffer'[i] = Elem(i)
      BY <3>1, <3>2
    <3> QED
      BY <1>3, <3>3 DEF MapInv
  <2>4. CASE s # t
    <3>1. Reached(s)' = Reached(s)
      BY <2>4, OtherSlice
    <3>2. \A i \in Lo(s)..(Reached(s) - 1) : i # frame[t].i
      <4> SUFFICES ASSUME NEW i \in Lo(s)..(Reached(s) - 1) PROVE i # frame[t].i
        OBVIOUS
      <4>1. InSlice(s, i)
        BY <1>4 DEF InSlice
      <4>2. InSlice(t, frame[t].i)
        BY <1>1, <1>6
      <4>3. s \in 0..(NumSlices - 1) /\ t \in 0..(NumSlices - 1) /\ i \in Int
        BY <1>1 DEF Control
      <4> QED
        BY <1>2, <2>4, <4>1, <4>2, <4>3, SlicesDisjoint
    <3>3. \A i \in Lo(s)..(Reached(s) - 1) : buffer'[i] = buffer[i]
      BY <2>1, <3>2
    <3> QED
      BY <1>2, <1>3, <3>1, <3>3 DEF MapInv
  <2> QED
    BY <2>3, <2>4
<1> QED
  BY <1>1, <1>5, <1>6

\* Only the first element of a slice begins a new accumulator.
LEMMA FirstElement ==
  ASSUME Types, Control, Positions, Frames, NEW s \in Slice, Work(s), kernel \in {"reduce", "scan"}
  PROVE  /\ FirstChunk(s) /\ frame[s].i = frame[s].pos * ChunkSize => frame[s].i = Lo(s)
         /\ ~(FirstChunk(s) /\ frame[s].i = frame[s].pos * ChunkSize) => Lo(s) < frame[s].i
         /\ frame[s].i \in Nat /\ Lo(s) \in Nat /\ Lo(s) <= frame[s].i
         /\ frame[s].pos * ChunkSize \in Nat /\ frame[s].pos * ChunkSize <= frame[s].i
         /\ NextChunk(s) => Lo(s) < frame[s].i
<1>0. ~ByIndex /\ kernel # "copy"
  BY DEF ByIndex
<1>1. /\ s \in slices /\ Forked /\ InChunk(s)
  BY <1>0, WorkReached
<1>2. /\ frame[s].pos \in 0..(Chunks - 1)
      /\ Bound(s) <= frame[s].pos
      /\ Lo(s) <= frame[s].pos * ChunkSize /\ frame[s].pos * ChunkSize \in Nat
      /\ frame[s].pos * ChunkSize <= frame[s].i
      /\ info[s].start = Bound(s)
      /\ ChunkEnd(frame[s].pos) = At(frame[s].pos + 1)
  BY <1>0, <1>1, Inside
<1>3. frame[s].pos \in Nat /\ frame[s].i \in Nat /\ Lo(s) \in Nat /\ Bound(s) \in 0..Items
      /\ ChunkSize \in Nat \ {0} /\ Items \in Nat
  BY <1>1, Numerals
<1>4. FirstChunk(s) <=> frame[s].pos = Bound(s)
  BY <1>2 DEF FirstChunk
<1>5. frame[s].pos # Bound(s) => Lo(s) < frame[s].pos * ChunkSize
  <2> SUFFICES ASSUME frame[s].pos # Bound(s) PROVE Lo(s) < frame[s].pos * ChunkSize
    OBVIOUS
  <2>1. Bound(s) \in Nat /\ Bound(s) + 1 <= frame[s].pos /\ Bound(s) + 1 \in Nat
    BY <1>2, <1>3
  <2>2. (Bound(s) + 1) * ChunkSize <= frame[s].pos * ChunkSize
    BY <1>3, <2>1, ChunkEnds DEF Types
  <2>3. (Bound(s) + 1) * ChunkSize = Bound(s) * ChunkSize + ChunkSize
    BY <1>3, <2>1
  <2>4. Bound(s) * ChunkSize \in Nat
    BY <1>3, <2>1
  <2> QED
    BY <1>2, <1>3, <2>2, <2>3, <2>4 DEF Lo
<1>6. NextChunk(s) => frame[s].pos * ChunkSize < frame[s].i
  <2> SUFFICES ASSUME NextChunk(s) PROVE frame[s].pos * ChunkSize < frame[s].i
    OBVIOUS
  <2>1. frame[s].i = ChunkEnd(frame[s].pos)
    BY AdvanceStep
  <2>2. frame[s].pos * ChunkSize < ChunkEnd(frame[s].pos)
    BY <1>2, ChunkEnds DEF Types
  <2> QED
    BY <2>1, <2>2
<1>7. FirstChunk(s) => Lo(s) = frame[s].pos * ChunkSize
  BY <1>4 DEF Lo
<1> QED
  BY <1>2, <1>3, <1>4, <1>5, <1>6, <1>7

\* reduceSlice accumulates the elements from the start of the slice.
LEMMA ReduceWork ==
  ASSUME Types, Control, Arrays, Positions, Frames, Data, NEW t \in Slice, Work(t),
         NEW s \in slices, kernel = "reduce"
  PROVE  ReduceInv(s)'
<1>0. ~ByIndex /\ kernel # "copy"
  BY DEF ByIndex
<1>1. /\ t \in slices /\ Forked /\ InChunk(t) /\ UNCHANGED <<input, stage>>
      /\ Reached(t) = frame[t].i
      /\ ReduceElement(t) => /\ Reached(t)' = frame[t].i + 1 /\ info' = info
      /\ ReduceChunk(t) => /\ At(info[t].pos)' = frame[t].i
                           /\ InChunk(t)' => frame'[t].i = frame[t].i
      /\ ReduceElement(t) \/ ReduceChunk(t)
      /\ ReduceElement(t) => NextElement(t)
      /\ ReduceChunk(t) => NextChunk(t)
  <2>1. /\ t \in slices /\ Forked /\ InChunk(t) /\ UNCHANGED <<input, stage>>
        /\ Reached(t) = frame[t].i
        /\ NextElement(t) => /\ Reached(t)' = frame[t].i + 1 /\ info' = info
        /\ NextChunk(t) => /\ At(info[t].pos)' = frame[t].i
                           /\ InChunk(t)' => frame'[t].i = frame[t].i
    BY <1>0, WorkReached
  <2>2. ReduceElement(t) \/ ReduceChunk(t)
    BY WorkOfKernel
  <2> QED
    BY <2>1, <2>2 DEF NextElement, NextChunk
<1>2. ReduceInv(s) /\ input \in Inputs
  BY <1>1 DEF Data, SliceData, Types
<1>3. kernel' = kernel /\ Lo(s)' = Lo(s) /\ length' = length
  BY <1>1, SameTerms
<1>4. /\ FirstChunk(t) /\ frame[t].i = frame[t].pos * ChunkSize => frame[t].i = Lo(t)
      /\ ~(FirstChunk(t) /\ frame[t].i = frame[t].pos * ChunkSize) => Lo(t) < frame[t].i
      /\ frame[t].i \in Nat /\ Lo(t) \in Nat /\ Lo(t) <= frame[t].i
      /\ NextChunk(t) => Lo(t) < frame[t].i
  BY FirstElement
<1>5. frame \in [Slice -> Values] /\ kind = "reduce"
  BY <1>1 DEF Types, kernel, Forked
<1>6. sub \in [slices -> Seq(Int)]
  BY <1>1, <1>5 DEF Arrays
<1>7. CASE ReduceElement(t)
  <2>1. sub' = sub /\ info' = info
    BY <1>7 DEF ReduceElement
  <2>2. At(info[s].pos)' = At(info[s].pos)
    BY <1>3, <2>1 DEF At
  <2>3. CASE s # t
    <3>1. InChunk(s)' = InChunk(s) /\ frame'[s] = frame[s]
      BY <2>3, OtherSlice
    <3> QED
      BY <1>2, <1>3, <2>1, <2>2, <3>1 DEF ReduceInv
  <2>4. CASE s = t
    <3> DEFINE i == frame[s].i
               v == IF FirstChunk(s) /\ i = frame[s].pos * ChunkSize
                    THEN Elem(i) ELSE Func(frame[s].acc, Elem(i))
    <3>1. frame'[s].acc = v /\ frame'[s].i = i + 1
      BY <1>5, <1>7, <2>4 DEF ReduceElement, Values
    <3>2. v = Run(Lo(s), i)
      <4>1. CASE FirstChunk(s) /\ i = frame[s].pos * ChunkSize
        BY <1>4, <2>4, <4>1, ElemIsRun
      <4>2. CASE ~(FirstChunk(s) /\ i = frame[s].pos * ChunkSize)
        <5>1. frame[s].acc = Run(Lo(s), i - 1)
          BY <1>1, <1>2, <1>4, <2>4, <4>2 DEF ReduceInv
        <5>2. Func(Run(Lo(s), i - 1), Elem(i)) = Run(Lo(s), i)
          BY <1>4, <2>4, RunGrows
        <5> QED
          BY <4>2, <5>1, <5>2
      <4> QED
        BY <4>1, <4>2
    <3>3. (i + 1) - 1 = i
      BY <1>4, <2>4
    <3> HIDE DEF i, v
    <3> QED
      BY <1>2, <1>3, <2>1, <2>2, <3>1, <3>2, <3>3 DEF ReduceInv
  <2> QED
    BY <2>3, <2>4
<1>8. CASE ReduceChunk(t)
  <2>1. sub' = [sub EXCEPT ![t] = frame[t].acc]
    BY <1>8 DEF ReduceChunk
  <2>2. CASE s # t
    <3>1. InChunk(s)' = InChunk(s) /\ frame'[s] = frame[s] /\ info'[s] = info[s]
      BY <2>2, OtherSlice
    <3>2. sub'[s] = sub[s]
      BY <2>1, <2>2
    <3>3. At(info[s].pos)' = At(info[s].pos)
      BY <1>3, <3>1 DEF At
    <3> QED
      BY <1>2, <1>3, <3>1, <3>2, <3>3 DEF ReduceInv
  <2>3. CASE s = t
    <3>1. sub'[s] = frame[s].acc
      BY <1>1, <1>6, <2>1, <2>3
    <3>2. frame[s].acc = Run(Lo(s), frame[s].i - 1)
      BY <1>1, <1>2, <1>4, <1>8, <2>3 DEF ReduceInv
    <3>3. frame'[s].acc = frame[s].acc
      BY <1>1, <1>8, <2>3, AdvanceStep
    <3> QED
      BY <1>1, <1>3, <1>8, <2>3, <3>1, <3>2, <3>3 DEF ReduceInv
  <2> QED
    BY <2>2, <2>3
<1> QED
  BY <1>1, <1>7, <1>8

\* What phase 1 of a scan writes.
LEMMA ScanValue ==
  ASSUME Types, Control, Arrays, Positions, Frames, Data, NEW s \in Slice, ScanElement(s)
  PROVE  /\ buffer' = [buffer EXCEPT ![frame[s].i] = Run(Lo(s), frame[s].i)]
         /\ frame' = [frame EXCEPT ![s].acc = Run(Lo(s), frame[s].i), ![s].i = frame[s].i + 1]
         /\ DOMAIN buffer = 0..(length - 1)
         /\ Run(Lo(s), frame[s].i) \in Seq(Int)
<1> DEFINE i == frame[s].i
           accumulator == IF i > frame[s].pos * ChunkSize THEN frame[s].acc ELSE buffer[i - 1]
           v == IF FirstChunk(s) /\ i = frame[s].pos * ChunkSize
                THEN Elem(i) ELSE Func(accumulator, Elem(i))
<1>1. /\ kernel = "scan"
      /\ buffer' = [buffer EXCEPT ![i] = v]
      /\ frame' = [frame EXCEPT ![s].acc = v, ![s].i = i + 1]
  BY DEF ScanElement
<1>2. Work(s) /\ ~ByIndex /\ kernel # "copy"
  BY <1>1 DEF Work, NextElement, ByIndex
<1>3. s \in slices /\ Forked /\ InChunk(s) /\ Reached(s) = frame[s].i
  BY <1>2, WorkReached
<1>4. /\ FirstChunk(s) /\ i = frame[s].pos * ChunkSize => i = Lo(s)
      /\ ~(FirstChunk(s) /\ i = frame[s].pos * ChunkSize) => Lo(s) < i
      /\ i \in Nat /\ Lo(s) \in Nat /\ Lo(s) <= i
      /\ frame[s].pos * ChunkSize \in Nat /\ frame[s].pos * ChunkSize <= i
  BY <1>1, <1>2, FirstElement
<1>5. ScanInv(s)
  BY <1>3 DEF Data, SliceData
<1>6. v = Run(Lo(s), i)
  <2>1. CASE FirstChunk(s) /\ i = frame[s].pos * ChunkSize
    BY <1>4, <2>1, ElemIsRun
  <2>2. CASE ~(FirstChunk(s) /\ i = frame[s].pos * ChunkSize)
    <3>1. accumulator = Run(Lo(s), i - 1)
      <4>1. CASE i > frame[s].pos * ChunkSize
        BY <1>1, <1>3, <1>4, <1>5, <4>1 DEF ScanInv
      <4>2. CASE ~(i > frame[s].pos * ChunkSize)
        <5>1. i - 1 \in Lo(s)..(Reached(s) - 1)
          BY <1>3, <1>4, <2>2
        <5>2. buffer[i - 1] = Run(Lo(s), i - 1)
          BY <1>1, <1>5, <5>1 DEF ScanInv
        <5> QED
          BY <4>2, <5>2
      <4> QED
        BY <4>1, <4>2
    <3>2. Func(Run(Lo(s), i - 1), Elem(i)) = Run(Lo(s), i)
      BY <1>4, RunGrows
    <3> QED
      BY <2>2, <3>1, <3>2
  <2> QED
    BY <2>1, <2>2
<1>7. DOMAIN buffer = 0..(length - 1)
  <2>1. kind # "range"
    BY <1>2, <1>3, NotByIndex
  <2> QED
    BY <1>2, <1>3, <2>1 DEF Arrays
<1>8. Run(Lo(s), i) \in Seq(Int)
  <2>1. Lo(s) \in Int /\ i \in Int /\ Lo(s) <= i + 1
    BY <1>4
  <2> QED
    BY <2>1, RunType
<1> HIDE DEF v
<1> QED
  BY <1>1, <1>6, <1>7, <1>8

\* phase1 of a scan writes the runs from the start of the slice.
LEMMA ScanWork ==
  ASSUME Types, Control, Arrays, Positions, Frames, Data, NEW t \in Slice, Work(t),
         NEW s \in slices, kernel = "scan"
  PROVE  ScanInv(s)'
<1>0. ~ByIndex /\ kernel # "copy"
  BY DEF ByIndex
<1>1. /\ t \in slices /\ Forked /\ InChunk(t) /\ UNCHANGED <<input, stage>>
      /\ Reached(t) = frame[t].i
      /\ ScanElement(t) => Reached(t)' = frame[t].i + 1 /\ InSlice(t, frame[t].i)
      /\ ChunkDone(t) => /\ Reached(t)' = Reached(t)
                         /\ InChunk(t)' => frame'[t].i = frame[t].i
                                           /\ frame[t].i = (frame[t].pos + 1) * ChunkSize
      /\ ScanElement(t) \/ ChunkDone(t)
      /\ ScanElement(t) => NextElement(t)
      /\ ChunkDone(t) => NextChunk(t)
  <2>1. /\ t \in slices /\ Forked /\ InChunk(t) /\ UNCHANGED <<input, stage>>
        /\ Reached(t) = frame[t].i
        /\ NextElement(t) => Reached(t)' = frame[t].i + 1 /\ InSlice(t, frame[t].i)
        /\ NextChunk(t) => /\ Reached(t)' = frame[t].i
                           /\ InChunk(t)' => frame'[t].i = frame[t].i
                                             /\ frame[t].i = (frame[t].pos + 1) * ChunkSize
    BY <1>0, WorkReached
  <2>2. ScanElement(t) \/ ChunkDone(t)
    BY WorkOfKernel
  <2> QED
    BY <2>1, <2>2 DEF NextElement, NextChunk
<1>2. ScanInv(s) /\ input \in Inputs
  BY <1>1 DEF Data, SliceData, Types
<1>3. kernel' = kernel /\ Lo(s)' = Lo(s)
  BY <1>1, SameTerms
<1>4. /\ Lo(s) \in Nat /\ Reached(s) \in Nat /\ Reached(s) <= At(Bound(s + 1))
      /\ At(Bound(s + 1)) <= length /\ At(Bound(s + 1)) \in Nat /\ frame[t].i \in Nat
      /\ frame[t].pos \in Nat /\ ChunkSize \in Nat \ {0}
      /\ length \in Nat
  BY <1>0, <1>1, Inside, Numerals
<1>5. CASE ChunkDone(t)
  <2>1. buffer' = buffer
    BY <1>5 DEF ChunkDone
  <2>2. CASE s # t
    <3>1. Reached(s)' = Reached(s) /\ InChunk(s)' = InChunk(s) /\ frame'[s] = frame[s]
      BY <2>2, OtherSlice
    <3> QED
      BY <1>2, <1>3, <2>1, <3>1 DEF ScanInv
  <2>3. CASE s = t
    <3>1. Reached(s)' = Reached(s)
      BY <1>1, <1>5, <2>3
    <3>2. frame'[s].pos = frame[s].pos + 1
      BY <1>1, <1>5, <2>3, AdvanceStep
    <3>3. InChunk(s)' => ~(frame'[s].pos * ChunkSize < frame'[s].i)
      <4> SUFFICES ASSUME InChunk(s)' PROVE ~(frame'[s].pos * ChunkSize < frame'[s].i)
        OBVIOUS
      <4>1. frame'[s].i = (frame[s].pos + 1) * ChunkSize /\ frame'[s].i = frame[s].i
        BY <1>1, <1>5, <2>3
      <4>2. frame'[s].pos * ChunkSize = frame[s].i
        BY <3>2, <4>1
      <4> QED
        BY <1>4, <2>3, <4>1, <4>2
    <3> QED
      BY <1>2, <1>3, <2>1, <3>1, <3>3 DEF ScanInv
  <2> QED
    BY <2>2, <2>3
<1>6. CASE ScanElement(t)
  <2>1. /\ buffer' = [buffer EXCEPT ![frame[t].i] = Run(Lo(t), frame[t].i)]
        /\ frame' = [frame EXCEPT ![t].acc = Run(Lo(t), frame[t].i), ![t].i = frame[t].i + 1]
        /\ DOMAIN buffer = 0..(length - 1)
    BY <1>6, ScanValue
  <2>3. CASE s = t
    <3>1. Reached(s)' = frame[s].i + 1 /\ Reached(s) = frame[s].i
      BY <1>1, <1>6, <2>3
    <3>2. \A i \in Lo(s)..((frame[s].i + 1) - 1) : buffer'[i] = Run(Lo(s), i)
      <4> SUFFICES ASSUME NEW i \in Lo(s)..((frame[s].i + 1) - 1) PROVE buffer'[i] = Run(Lo(s), i)
        OBVIOUS
      <4>1. CASE i = frame[s].i
        <5>1. i \in DOMAIN buffer
          BY <1>1, <1>4, <1>6, <2>1, <2>3, <4>1 DEF InSlice
        <5> QED
          BY <2>1, <2>3, <4>1, <5>1
      <4>2. CASE i # frame[s].i
        <5>1. i \in Lo(s)..(Reached(s) - 1)
          BY <1>4, <2>3, <3>1, <4>2
        <5>2. buffer[i] = Run(Lo(s), i)
          BY <1>2, <5>1 DEF ScanInv
        <5> QED
          BY <2>1, <2>3, <4>2, <5>2
      <4> QED
        BY <4>1, <4>2
    <3>3. \A i \in Lo(s)..(Reached(s)' - 1) : buffer'[i] = Run(Lo(s), i)
      BY <3>1, <3>2
    <3>4. frame'[s].acc = Run(Lo(s), frame[s].i) /\ frame'[s].i = frame[s].i + 1
      <4>1. frame \in [Slice -> Values]
        BY DEF Types
      <4> QED
        BY <2>1, <2>3, <4>1 DEF Values
    <3>5. (frame[s].i + 1) - 1 = frame[s].i
      BY <1>4, <2>3
    <3>6. frame'[s].acc = Run(Lo(s), frame'[s].i - 1)
      BY <3>4, <3>5
    <3> QED
      BY <1>3, <3>3, <3>6 DEF ScanInv
  <2>4. CASE s # t
    <3>1. Reached(s)' = Reached(s) /\ InChunk(s)' = InChunk(s) /\ frame'[s] = frame[s]
      BY <2>4, OtherSlice
    <3>2. \A i \in Lo(s)..(Reached(s) - 1) : i # frame[t].i
      <4> SUFFICES ASSUME NEW i \in Lo(s)..(Reached(s) - 1) PROVE i # frame[t].i
        OBVIOUS
      <4>1. InSlice(s, i)
        BY <1>4 DEF InSlice
      <4>2. InSlice(t, frame[t].i)
        BY <1>1, <1>6
      <4>3. s \in 0..(NumSlices - 1) /\ t \in 0..(NumSlices - 1) /\ i \in Int
        BY <1>1 DEF Control
      <4> QED
        BY <1>2, <2>4, <4>1, <4>2, <4>3, SlicesDisjoint
    <3>3. \A i \in Lo(s)..(Reached(s) - 1) : buffer'[i] = buffer[i]
      BY <2>1, <3>2
    <3> QED
      BY <1>2, <1>3, <3>1, <3>3 DEF ScanInv
  <2> QED
    BY <2>3, <2>4
<1> QED
  BY <1>1, <1>5, <1>6

\* phase2 of a scan puts the intermediate before each element once.
LEMMA Phase2Work ==
  ASSUME Types, Control, Arrays, Positions, Frames, Data, NEW t \in Slice, Work(t),
         NEW s \in slices, kernel = "phase2"
  PROVE  Phase2Inv(s)'
<1>1. Phase2Element(t) /\ InLoop(t) /\ t \in InCall /\ UNCHANGED <<input, stage>>
  BY WorkOfKernel, WorkSteps
<1>2. /\ t \in slices /\ Forked /\ frame[t].pos < frame[t].last
      /\ info'[t].pos = frame[t].pos + 1
  BY <1>1, AdvanceStep DEF NextIndex
<1>3. /\ kind = "scan" /\ ~TooSmall /\ input \in Inputs /\ stage = "fork2"
      /\ s \in 0..(NumSlices - 1) /\ t \in 0..(NumSlices - 1) /\ NumSlices \in Nat
  BY <1>2, Kernels, Numerals DEF Control, Types
<1>4. /\ \A u \in slices : Position(u) /\ Phase2Inv(u)
      /\ Frame(t)
  BY <1>1, <1>2 DEF Positions, Frames, Data, SliceData
<1>5. /\ info[t].pos = frame[t].pos /\ frame[t].last <= info[t].end
      /\ info[t].end = At(Bound(t + 1)) /\ Lo(t) <= info[t].pos
  BY <1>2, <1>3, <1>4 DEF Frame, Position, To
<1>6. /\ frame[t].pos \in Nat /\ frame[t].last \in Nat /\ info[t].end \in Nat
      /\ Lo(t) \in Nat /\ Lo(s) \in Nat /\ length \in Nat
  BY <1>2, Numerals
<1>7. /\ Lo(s) < At(Bound(s + 1)) /\ At(Bound(s + 1)) \in Nat /\ At(Bound(s + 1)) <= length
      /\ At(Bound(t + 1)) <= length
  BY <1>3, ScanEnds
<1>8. InSlice(t, frame[t].pos) /\ frame[t].pos \in 0..(length - 1)
  BY <1>2, <1>5, <1>6, <1>7 DEF InSlice
<1>9. t # 0
  BY <1>1 DEF InLoop, NothingToDo, Phase2Element
<1>10. sub[t - 1] = Run(0, Lo(t) - 1)
  <2>1. t - 1 \in 0..(NumSlices - 1) /\ (t - 1) + 1 = t /\ t - 1 # NumSlices - 1
        /\ t - 1 \in slices
    BY <1>2, <1>3, <1>9 DEF Control
  <2>2. sub[t - 1] = Run(0, At(Bound((t - 1) + 1)) - 1)
    BY <1>4, <2>1 DEF Phase2Inv
  <2>3. At(Bound((t - 1) + 1)) = Lo((t - 1) + 1)
    BY <1>3, <2>1, ScanEnds
  <2> QED
    BY <2>1, <2>2, <2>3
<1>11. /\ buffer' = [buffer EXCEPT ![frame[t].pos] = Func(sub[t - 1], buffer[frame[t].pos])]
       /\ sub' = sub
  BY <1>1 DEF Phase2Element
<1>12. DOMAIN buffer = 0..(length - 1)
  BY <1>2, <1>3 DEF Arrays
<1>13. /\ kernel' = kernel /\ Lo(s)' = Lo(s) /\ At(Bound(s + 1))' = At(Bound(s + 1))
  BY <1>1, SameTerms
<1>14. \A i \in Lo(s)..(At(Bound(s + 1)) - 1) :
          buffer'[i] = IF s = 0 \/ i < info'[s].pos THEN Run(0, i) ELSE Run(Lo(s), i)
  <2> SUFFICES ASSUME NEW i \in Lo(s)..(At(Bound(s + 1)) - 1)
               PROVE  buffer'[i] = IF s = 0 \/ i < info'[s].pos THEN Run(0, i) ELSE Run(Lo(s), i)
    OBVIOUS
  <2>0. i \in Nat
    BY <1>6, <1>7
  <2>1. buffer[i] = IF s = 0 \/ i < info[s].pos THEN Run(0, i) ELSE Run(Lo(s), i)
    BY <1>4 DEF Phase2Inv
  <2>2. CASE s # t
    <3>1. i # frame[t].pos
      <4>1. InSlice(s, i)
        BY <1>6, <1>7 DEF InSlice
      <4> QED
        BY <1>3, <1>8, <2>0, <2>2, <4>1, SlicesDisjoint
    <3>2. info'[s] = info[s]
      BY <2>2, OtherSlice
    <3> QED
      BY <1>11, <2>1, <3>1, <3>2
  <2>3. CASE s = t /\ i # frame[t].pos
    <3>1. i < info'[s].pos <=> i < info[s].pos
      BY <1>2, <1>5, <1>6, <2>0, <2>3
    <3> QED
      BY <1>11, <2>1, <2>3, <3>1
  <2>4. CASE s = t /\ i = frame[t].pos
    <3>1. buffer[i] = Run(Lo(t), i)
      BY <1>5, <1>6, <1>9, <2>1, <2>4
    <3>2. buffer'[i] = Func(Run(0, Lo(t) - 1), Run(Lo(t), i))
      BY <1>8, <1>10, <1>11, <1>12, <2>4, <3>1
    <3>3. Func(Run(0, Lo(t) - 1), Run((Lo(t) - 1) + 1, i)) = Run(0, i)
      <4>1. 0 \in Int /\ Lo(t) - 1 \in Int /\ i \in Int /\ 0 <= (Lo(t) - 1) + 1 /\ Lo(t) - 1 <= i
        BY <1>5, <1>6, <2>4
      <4> QED
        BY <4>1, RunsAdjoin
    <3>4. (Lo(t) - 1) + 1 = Lo(t)
      BY <1>6
    <3>5. i < info'[s].pos
      BY <1>2, <1>6, <2>4
    <3> QED
      BY <3>2, <3>3, <3>4, <3>5
  <2> QED
    BY <2>2, <2>3, <2>4
<1>15. sub[s] = Run(0, At(Bound(s + 1)) - 1)
  BY <1>4 DEF Phase2Inv
<1> QED
  BY <1>11, <1>13, <1>14, <1>15 DEF Phase2Inv

\* findSurvivorsInSlice records the bits and the number of the survivors.
LEMMA FilterWork ==
  ASSUME Types, Control, Arrays, Positions, Frames, Data, NEW t \in Slice, Work(t),
         NEW s \in slices, kernel = "filter"
  PROVE  FilterInv(s)'
<1>0. ~ByIndex /\ kernel # "copy"
  BY DEF ByIndex
<1>1. /\ t \in slices /\ Forked /\ InChunk(t) /\ UNCHANGED <<input, stage>>
      /\ FilterElement(t) => NextElement(t) /\ info' = info /\ frame[t].i < ChunkEnd(frame[t].pos)
      /\ FilterChunk(t) => /\ NextChunk(t) /\ frame[t].i = At(frame[t].pos + 1)
                           /\ info'[t].pos = frame[t].pos + 1 /\ info'[t].start = info[t].start
                           /\ InChunk(t)' => frame'[t].i = frame[t].i
                                             /\ frame[t].i = (frame[t].pos + 1) * ChunkSize
      /\ FilterElement(t) \/ FilterChunk(t)
  <2>1. /\ t \in slices /\ Forked /\ InChunk(t) /\ UNCHANGED <<input, stage>>
        /\ NextElement(t) => info' = info /\ frame[t].i < ChunkEnd(frame[t].pos)
        /\ NextChunk(t) => /\ frame[t].i = At(frame[t].pos + 1)
                           /\ info'[t].pos = frame[t].pos + 1 /\ info'[t].start = info[t].start
                           /\ InChunk(t)' => frame'[t].i = frame[t].i
                                             /\ frame[t].i = (frame[t].pos + 1) * ChunkSize
    BY <1>0, WorkReached
  <2>2. FilterElement(t) \/ FilterChunk(t)
    BY WorkOfKernel
  <2> QED
    BY <2>1, <2>2 DEF NextElement, NextChunk
<1>2. FilterInv(s) /\ FilterInv(t) /\ input \in Inputs
  BY <1>1 DEF Data, SliceData, Types
<1>3. /\ kernel' = kernel /\ Lo(s)' = Lo(s)
      /\ \A c : ChunkSurvivors(c)' = ChunkSurvivors(c) /\ RankOf(c)' = RankOf(c)
  BY <1>1, SameTerms
<1>4. \A u \in slices :
         /\ frame[u].i \in Nat /\ frame[u].pos \in Nat /\ ChunkSize \in Nat \ {0}
         /\ info[u].pos \in Nat /\ info[u].start \in Nat
         /\ Lo(u) \in Nat /\ length \in Nat /\ info[u].start = Bound(u)
         /\ info[u].end = Bound(u + 1) /\ info[u].pos <= info[u].end
         /\ Bound(u) \in 0..Items /\ Bound(u + 1) \in 0..Items /\ Items \in Nat
  <2> SUFFICES ASSUME NEW u \in slices
               PROVE  /\ frame[u].i \in Nat /\ frame[u].pos \in Nat /\ ChunkSize \in Nat \ {0}
                      /\ info[u].pos \in Nat /\ info[u].start \in Nat
                      /\ Lo(u) \in Nat /\ length \in Nat /\ info[u].start = Bound(u)
                      /\ info[u].end = Bound(u + 1) /\ info[u].pos <= info[u].end
                      /\ Bound(u) \in 0..Items /\ Bound(u + 1) \in 0..Items /\ Items \in Nat
    OBVIOUS
  <2>1. info[u].start = Bound(u) /\ info[u].end = Bound(u + 1)
    BY <1>0, <1>1, Inside
  <2>2. info[u].pos <= info[u].end
    BY <1>1 DEF Positions, Position
  <2> QED
    BY <1>1, <2>1, <2>2, Numerals
<1>5. /\ frame[t].pos = info[t].pos /\ frame[t].pos \in 0..(Chunks - 1)
      /\ frame[t].pos < Bound(t + 1) /\ Bound(t) <= frame[t].pos
      /\ frame[t].pos * ChunkSize \in Nat
      /\ frame[t].pos * ChunkSize <= frame[t].i
      /\ ChunkEnd(frame[t].pos) = At(frame[t].pos + 1)
  BY <1>0, <1>1, Inside
<1>6. /\ frame[t].bits = input.keep \cap ((frame[t].pos * ChunkSize)..(frame[t].i - 1))
      /\ frame[t].count = RankOf(frame[t].i) - RankOf(Lo(t))
  BY <1>1, <1>2 DEF FilterInv
<1>7. frame \in [Slice -> Values] /\ t \in Slice
  BY DEF Types
<1>8. RankOf(info[s].pos * ChunkSize)' = RankOf(info'[s].pos * ChunkSize)
      /\ RankOf(frame[s].i)' = RankOf(frame'[s].i) /\ RankOf(Lo(s))' = RankOf(Lo(s))
  BY <1>1, <1>3 DEF RankOf
<1>9. CASE FilterElement(t)
  <2>1. info' = info /\ counts' = counts /\ survivors' = survivors
    BY <1>9 DEF FilterElement
  <2>2. CASE s # t
    <3>1. InChunk(s)' = InChunk(s) /\ frame'[s] = frame[s]
      BY <2>2, OtherSlice
    <3> QED
      BY <1>1, <1>2, <1>3, <1>8, <2>1, <3>1 DEF FilterInv
  <2>3. CASE s = t
    <3> DEFINE i == frame[t].i
    <3>1. /\ frame'[t].i = i + 1 /\ frame'[t].pos = frame[t].pos
          /\ frame'[t].bits = IF i \in input.keep THEN frame[t].bits \cup {i} ELSE frame[t].bits
          /\ frame'[t].count = IF i \in input.keep THEN frame[t].count + 1 ELSE frame[t].count
      BY <1>7, <1>9 DEF FilterElement, Values
    <3>2. i \in Nat /\ i + 1 \in Nat
      BY <1>1, <1>4
    <3>3. RankOf(i + 1) = RankOf(i) + (IF i \in input.keep THEN 1 ELSE 0)
      BY <1>2, <3>2, KeepRanks
    <3>4. RankOf(i) \in 0..length /\ RankOf(Lo(t)) \in 0..length /\ length \in Nat
      BY <1>1, <1>2, <1>4, <3>2, KeepRanks
    <3>5. frame'[t].count = RankOf(i + 1) - RankOf(Lo(t))
      BY <1>6, <3>1, <3>3, <3>4
    <3>6. frame'[t].bits = input.keep \cap ((frame[t].pos * ChunkSize)..((i + 1) - 1))
      <4>1. \A h \in input.keep : h \in Nat
        BY <1>2, KeepRanks
      <4> DEFINE p == frame[t].pos * ChunkSize
      <4>2. p \in Nat /\ p <= i
        BY <1>5
      <4>3. \A h \in input.keep : h \in p..((i + 1) - 1) <=> h \in p..(i - 1) \/ h = i
        BY <3>2, <4>1, <4>2
      <4>4. frame[t].bits = input.keep \cap (p..(i - 1))
        BY <1>6
      <4> HIDE DEF p, i
      <4>5. CASE i \in input.keep
        <5>1. frame'[t].bits = (input.keep \cap (p..(i - 1))) \cup {i}
          BY <3>1, <4>4, <4>5
        <5> QED
          BY <4>3, <4>5, <5>1 DEF p
      <4>6. CASE i \notin input.keep
        <5>1. frame'[t].bits = input.keep \cap (p..(i - 1))
          BY <3>1, <4>4, <4>6
        <5> QED
          BY <4>3, <4>6, <5>1 DEF p
      <4> QED
        BY <4>5, <4>6
    <3> HIDE DEF i
    <3> QED
      BY <1>1, <1>2, <1>3, <1>8, <2>1, <2>3, <3>1, <3>5, <3>6 DEF FilterInv
  <2> QED
    BY <2>2, <2>3
<1>10. CASE FilterChunk(t)
  <2>1. /\ survivors' = [survivors EXCEPT ![frame[t].pos] = frame[t].bits]
        /\ counts' = [counts EXCEPT ![t] = frame[t].count]
    BY <1>10 DEF FilterChunk
  <2>2. survivors \in [0..(Chunks - 1) -> SUBSET Nat] /\ counts \in [Slice -> 0..MaxLength]
    BY <1>1 DEF Arrays, Types
  <2>3. survivors'[frame[t].pos] = ChunkSurvivors(frame[t].pos)
    <3>1. frame[t].i = ChunkEnd(frame[t].pos)
      BY <1>1, <1>5, <1>10
    <3> QED
      BY <1>5, <1>6, <2>1, <2>2, <3>1 DEF ChunkSurvivors
  <2>4. \A c : c # frame[t].pos => survivors'[c] = survivors[c]
    BY <2>1, <2>2
  <2>5. CASE s # t
    <3>1. InChunk(s)' = InChunk(s) /\ frame'[s] = frame[s] /\ info'[s] = info[s]
      BY <2>5, OtherSlice
    <3>2. counts'[s] = counts[s]
      BY <2>1, <2>5
    <3>3. \A c \in info[s].start..(info[s].pos - 1) : c # frame[t].pos
      <4> SUFFICES ASSUME frame[t].pos \in info[s].start..(info[s].pos - 1) PROVE FALSE
        OBVIOUS
      <4>1. Bound(s) <= frame[t].pos /\ frame[t].pos < Bound(s + 1)
        BY <1>4
      <4>2. s \in 0..(NumSlices - 1) /\ t \in 0..(NumSlices - 1) /\ NumSlices \in Nat
        BY <1>1, Numerals
      <4>3. \A a, b \in 0..NumSlices : a <= b => Bound(a) <= Bound(b)
        BY <1>2, Bounds
      <4>4. CASE s < t
        <5>1. Bound(s + 1) <= Bound(t)
          BY <4>2, <4>3, <4>4
        <5> QED
          BY <1>1, <1>4, <1>5, <4>1, <5>1
      <4>5. CASE t < s
        <5>1. Bound(t + 1) <= Bound(s)
          BY <4>2, <4>3, <4>5
        <5> QED
          BY <1>1, <1>4, <1>5, <4>1, <5>1
      <4> QED
        BY <2>5, <4>2, <4>4, <4>5
    <3>4. \A c \in info[s].start..(info[s].pos - 1) : survivors'[c] = survivors[c]
      BY <2>4, <3>3
    <3> QED
      BY <1>1, <1>2, <1>3, <1>8, <3>1, <3>2, <3>4 DEF FilterInv
  <2>6. CASE s = t
    <3>1. info'[s].start = info[s].start /\ info'[s].pos = frame[s].pos + 1
          /\ frame[s].i = At(frame[s].pos + 1)
      BY <1>1, <1>10, <2>6
    <3>2. frame'[s].count = frame[s].count /\ frame'[s].bits = {}
          /\ frame'[s].pos = frame[s].pos + 1
      BY <1>1, <1>10, <2>6, AdvanceStep
    <3>3. counts'[s] = frame[s].count
      BY <2>1, <2>2, <2>6
    <3>4. RankOf(frame[s].i) = RankOf((frame[s].pos + 1) * ChunkSize)
      <4>1. \A n \in Nat : RankOf(MinOf(n, length)) = RankOf(n)
        BY <1>2, KeepRanks
      <4>2. (frame[s].pos + 1) * ChunkSize \in Nat
        BY <1>4
      <4> QED
        BY <3>1, <4>1, <4>2 DEF At
    <3>5. counts'[s] = RankOf(info'[s].pos * ChunkSize) - RankOf(Lo(s))
      BY <1>6, <2>6, <3>1, <3>3, <3>4
    <3>6. \A c \in info[s].start..((frame[s].pos + 1) - 1) : survivors'[c] = ChunkSurvivors(c)
      <4> SUFFICES ASSUME NEW c \in info[s].start..((frame[s].pos + 1) - 1)
                   PROVE  survivors'[c] = ChunkSurvivors(c)
        OBVIOUS
      <4>1. CASE c = frame[s].pos
        BY <2>3, <2>6, <4>1
      <4>2. CASE c # frame[s].pos
        <5>1. c \in info[s].start..(info[s].pos - 1)
          BY <1>4, <1>5, <2>6, <4>2
        <5>2. survivors[c] = ChunkSurvivors(c)
          BY <1>2, <5>1 DEF FilterInv
        <5> QED
          BY <2>4, <2>6, <4>2, <5>2
      <4> QED
        BY <4>1, <4>2
    <3>7. InChunk(s)' =>
            /\ frame'[s].bits = input.keep \cap ((frame'[s].pos * ChunkSize)..(frame'[s].i - 1))
            /\ frame'[s].count = RankOf(frame'[s].i) - RankOf(Lo(s))
      <4> SUFFICES ASSUME InChunk(s)'
                   PROVE  /\ frame'[s].bits = input.keep \cap ((frame'[s].pos * ChunkSize)..(frame'[s].i - 1))
                          /\ frame'[s].count = RankOf(frame'[s].i) - RankOf(Lo(s))
        OBVIOUS
      <4>1. frame'[s].i = frame[s].i /\ frame[s].i = frame'[s].pos * ChunkSize
        BY <1>1, <1>10, <2>6, <3>2
      <4>2. (frame'[s].pos * ChunkSize)..(frame'[s].i - 1) = {}
        BY <1>4, <4>1
      <4> QED
        BY <1>6, <2>6, <3>2, <4>1, <4>2
    <3> QED
      BY <1>1, <1>3, <1>8, <3>1, <3>5, <3>6, <3>7 DEF FilterInv
  <2> QED
    BY <2>5, <2>6
<1> QED
  BY <1>1, <1>9, <1>10

\* Where a call of copySurvivorsInSlice is, and that it reads what the first
\* phase has recorded.
LEMMA CopyPlace ==
  ASSUME Types, Control, Arrays, Positions, Frames, Data, NEW s \in Slice, Work(s), kernel = "copy"
  PROVE  /\ s \in slices /\ s \in InCall /\ Forked /\ UNCHANGED <<input, stage, info, survivors, counts>>
         /\ InCall' = InCall /\ complete' = complete
         /\ frame[s].i \in Nat /\ frame[s].pos \in 0..(Chunks - 1) /\ ChunkSize \in Nat \ {0}
         /\ frame[s].pos * ChunkSize \in Nat /\ frame[s].pos * ChunkSize <= frame[s].i
         /\ frame[s].i <= ChunkEnd(frame[s].pos)
         /\ ChunkEnd(frame[s].pos) = At(frame[s].pos + 1) /\ ChunkEnd(frame[s].pos) <= length
         /\ survivors[frame[s].pos] = ChunkSurvivors(frame[s].pos)
         /\ CopyElement(s) \/ CopyChunk(s)
<1>0. ~ByIndex
  BY DEF ByIndex
<1>1. CopyElement(s) \/ CopyChunk(s)
  BY WorkOfKernel
<1>2. /\ s \in slices /\ Forked /\ InChunk(s) /\ info' = info
      /\ frame[s].pos < frame[s].last
  BY <1>1, ElementStep, SkipStep DEF NextElement
<1>3. /\ s \in InCall /\ InCall' = InCall /\ UNCHANGED <<kvars, input, stage>>
  BY WorkSteps
<1>4. survivors' = survivors /\ counts' = counts
  BY <1>1 DEF CopyElement, CopyChunk
<1>5. Position(s) /\ Frame(s) /\ FilterInv(s) /\ input \in Inputs
  BY <1>2, <1>3 DEF Positions, Frames, Data, SliceData, Types
<1>6. /\ frame[s].last = info[s].end /\ info[s].start <= frame[s].pos
      /\ frame[s].pos * ChunkSize <= frame[s].i /\ frame[s].i <= ChunkEnd(frame[s].pos)
      /\ info[s].pos = info[s].end
  BY <1>0, <1>2, <1>5 DEF Frame, Position
<1>7. /\ frame[s].i \in Nat /\ frame[s].pos \in Nat /\ ChunkSize \in Nat \ {0}
      /\ info[s].start \in Nat /\ info[s].end \in Nat
  BY <1>2, Numerals
<1>8. /\ frame[s].pos \in 0..(Chunks - 1) /\ frame[s].pos * ChunkSize \in Nat
      /\ ChunkEnd(frame[s].pos) = At(frame[s].pos + 1) /\ ChunkEnd(frame[s].pos) <= length
  BY <1>0, <1>2, <1>5, <1>6, <1>7, ChunkOfSlice
<1>9. survivors[frame[s].pos] = ChunkSurvivors(frame[s].pos)
  <2>1. frame[s].pos \in info[s].start..(info[s].pos - 1)
    BY <1>2, <1>6, <1>7
  <2> QED
    BY <1>5, <2>1 DEF FilterInv
<1> QED
  BY <1>1, <1>2, <1>3, <1>4, <1>6, <1>7, <1>8, <1>9 DEF kvars

\* copySurvivorsInSlice leaves what findSurvivorsInSlice has recorded.
LEMMA CopyFilterWork ==
  ASSUME Types, Control, Arrays, Positions, Frames, Data, NEW t \in Slice, Work(t),
         NEW s \in slices, kernel = "copy"
  PROVE  FilterInv(s)'
<1>1. UNCHANGED <<input, stage, info, survivors, counts>> /\ Forked
  BY CopyPlace
<1>2. FilterInv(s)
  BY <1>1 DEF Data, SliceData
<1>3. /\ kernel' = kernel /\ Lo(s)' = Lo(s)
      /\ \A c : ChunkSurvivors(c)' = ChunkSurvivors(c) /\ RankOf(c)' = RankOf(c)
  BY <1>1, SameTerms
<1>4. RankOf(info[s].pos * ChunkSize)' = RankOf(info[s].pos * ChunkSize)
      /\ RankOf(Lo(s))' = RankOf(Lo(s))
  BY <1>1, <1>3 DEF RankOf
<1> QED
  BY <1>1, <1>2, <1>3, <1>4 DEF FilterInv

\* copySurvivorsInSlice puts each survivor where its rank says, in the part of
\* the output of its own slice.
LEMMA CopyWork ==
  ASSUME Types, Control, Arrays, Positions, Frames, Data, NEW t \in Slice, Work(t),
         NEW s \in slices, kernel = "copy"
  PROVE  CopyInv(s)'
<1>1. /\ t \in slices /\ t \in InCall /\ Forked /\ UNCHANGED <<input, stage, info, survivors, counts>>
      /\ InCall' = InCall /\ complete' = complete
      /\ frame[t].i \in Nat /\ frame[t].pos \in 0..(Chunks - 1) /\ ChunkSize \in Nat \ {0}
      /\ frame[t].pos * ChunkSize \in Nat /\ frame[t].pos * ChunkSize <= frame[t].i
      /\ frame[t].i <= ChunkEnd(frame[t].pos)
      /\ ChunkEnd(frame[t].pos) = At(frame[t].pos + 1) /\ ChunkEnd(frame[t].pos) <= length
      /\ survivors[frame[t].pos] = ChunkSurvivors(frame[t].pos)
      /\ CopyElement(t) \/ CopyChunk(t)
  BY CopyPlace
<1>2. CopyInv(s) /\ CopyInv(t) /\ input \in Inputs
  BY <1>1 DEF Data, SliceData, Types
<1>3. /\ kernel' = kernel /\ Lo(s)' = Lo(s) /\ Lo(s + 1)' = Lo(s + 1)
      /\ \A c : RankOf(c)' = RankOf(c)
  BY <1>1, SameTerms
<1>4. frame[t].count = RankOf(frame[t].i) /\ Copied(t, frame[t].i)
  BY <1>1, <1>2 DEF CopyInv
<1>5. frame \in [Slice -> Values]
  BY DEF Types
<1>6. RankOf(frame[s].i)' = RankOf(frame'[s].i)
  BY <1>1 DEF RankOf
<1>7. \A h \in input.keep : h \in Nat /\ h < length
                            /\ RankOf(h) \in 0..(Cardinality(input.keep) - 1)
  BY <1>2, KeepRanks
<1>8. \A g, h \in input.keep : g # h => RankOf(g) # RankOf(h)
  BY <1>2, KeepRanks
<1>9. DOMAIN buffer = 0..(Cardinality(input.keep) - 1)
  <2>1. kind # "range"
    BY <1>1, NotByIndex DEF ByIndex
  <2> QED
    BY <1>1, <2>1 DEF Arrays
<1>10. CASE CopyChunk(t)
  <2>1. buffer' = buffer
    BY <1>10 DEF CopyChunk
  <2>2. /\ frame[t].i = ChunkEnd(frame[t].pos)
        /\ frame'[t].count = frame[t].count
        /\ frame'[t].i = (frame[t].pos + 1) * ChunkSize
    BY <1>10, SkipStep
  <2>3. \A n : Copied(s, n) => Copied(s, n)'
    BY <1>1, <1>3, <2>1 DEF Copied
  <2>4. CASE s # t
    <3>1. frame'[s] = frame[s]
      BY <2>4, OtherSlice
    <3>2. Copied(s, frame[s].i) => Copied(s, frame[s].i)'
      BY <1>1, <1>3, <2>1, <3>1 DEF Copied
    <3>3. Copied(s, Lo(s + 1)) => Copied(s, Lo(s + 1))'
      BY <1>1, <1>3, <2>1 DEF Copied
    <3> QED
      BY <1>1, <1>2, <1>3, <1>6, <3>1, <3>2, <3>3 DEF CopyInv
  <2>5. CASE s = t
    <3> DEFINE n == (frame[t].pos + 1) * ChunkSize
    <3>1. n \in Nat /\ frame[t].i = MinOf(n, length)
      BY <1>1, <2>2 DEF At
    <3>2. RankOf(MinOf(n, length)) = RankOf(n)
      BY <1>2, <3>1, KeepRanks
    <3>3. frame'[t].count = RankOf(frame'[t].i)
      BY <1>4, <2>2, <3>1, <3>2
    <3>4. \A h \in input.keep : Lo(t) <= h /\ h < n => buffer[RankOf(h)] = Elem(h)
      <4> SUFFICES ASSUME NEW h \in input.keep, Lo(t) <= h, h < n
                   PROVE  buffer[RankOf(h)] = Elem(h)
        OBVIOUS
      <4>1. h < frame[t].i
        BY <1>7, <3>1 DEF MinOf
      <4> QED
        BY <1>4, <4>1 DEF Copied
    <3>5. Copied(t, frame[t].i)'
      BY <1>1, <1>3, <2>1, <2>2, <2>5, <3>4 DEF Copied
    <3>6. Copied(t, Lo(t + 1)) => Copied(t, Lo(t + 1))'
      BY <1>1, <1>3, <2>1, <2>5 DEF Copied
    <3> QED
      BY <1>1, <1>2, <1>3, <1>6, <2>5, <3>3, <3>5, <3>6 DEF CopyInv
  <2> QED
    BY <2>4, <2>5
<1>11. CASE CopyElement(t)
  <2> DEFINE i == frame[t].i
  <2>1. i < ChunkEnd(frame[t].pos) /\ frame'[t].i = i + 1
    BY <1>11, ElementStep DEF NextElement
  <2>2. i \in survivors[frame[t].pos] <=> i \in input.keep
    <3>1. i \in (frame[t].pos * ChunkSize)..(ChunkEnd(frame[t].pos) - 1)
      <4>1. ChunkEnd(frame[t].pos) \in Int
        <5>1. frame[t].pos + 1 \in Nat /\ length \in Nat
          BY <1>1, <1>2, SliceCount, Arguments
        <5>2. At(frame[t].pos + 1) \in 0..length
          BY <1>2, <5>1, ChunkEnds
        <5> QED
          BY <1>1, <5>1, <5>2
      <4> QED
        BY <1>1, <2>1, <4>1
    <3> QED
      BY <1>1, <3>1 DEF ChunkSurvivors
  <2>3. buffer' = IF i \in input.keep THEN [buffer EXCEPT ![RankOf(i)] = Elem(i)] ELSE buffer
    BY <1>4, <1>11, <2>2 DEF CopyElement
  <2>4. frame'[t].count = IF i \in input.keep THEN RankOf(i) + 1 ELSE RankOf(i)
    BY <1>4, <1>5, <1>11, <2>2 DEF CopyElement, Values
  <2>5. frame'[t].count = RankOf(i + 1)
    <3>1. RankOf(i + 1) = RankOf(i) + (IF i \in input.keep THEN 1 ELSE 0)
      BY <1>1, <1>2, KeepRanks
    <3>2. RankOf(i) \in 0..length /\ length \in Nat
      BY <1>1, <1>2, KeepRanks, Arguments
    <3> QED
      BY <2>4, <3>1, <3>2
  <2>6. \A h \in input.keep : buffer[RankOf(h)] = Elem(h) \/ h = i => buffer'[RankOf(h)] = Elem(h)
    <3> SUFFICES ASSUME NEW h \in input.keep, buffer[RankOf(h)] = Elem(h) \/ h = i
                 PROVE  buffer'[RankOf(h)] = Elem(h)
      OBVIOUS
    <3>1. RankOf(h) \in DOMAIN buffer
      BY <1>7, <1>9
    <3>2. CASE h = i
      BY <2>3, <3>1, <3>2
    <3>3. CASE h # i
      <4>1. i \in input.keep => RankOf(h) # RankOf(i)
        BY <1>8, <3>3
      <4> QED
        BY <2>3, <3>3, <4>1
    <3> QED
      BY <3>2, <3>3
  <2>7. Copied(s, Lo(s + 1)) => Copied(s, Lo(s + 1))'
    BY <1>1, <1>3, <2>6 DEF Copied
  <2>8. CASE s # t
    <3>1. frame'[s] = frame[s]
      BY <2>8, OtherSlice
    <3>2. Copied(s, frame[s].i) => Copied(s, frame[s].i)'
      BY <1>1, <1>3, <2>6, <3>1 DEF Copied
    <3> QED
      BY <1>1, <1>2, <1>3, <1>6, <2>7, <3>1, <3>2 DEF CopyInv
  <2>9. CASE s = t
    <3>1. \A h \in input.keep : Lo(t) <= h /\ h < i + 1 => buffer'[RankOf(h)] = Elem(h)
      <4> SUFFICES ASSUME NEW h \in input.keep, Lo(t) <= h, h < i + 1
                   PROVE  buffer'[RankOf(h)] = Elem(h)
        OBVIOUS
      <4>1. h < i \/ h = i
        <5>1. h \in Nat /\ i \in Nat
          BY <1>1, <1>7
        <5> HIDE DEF i
        <5> QED
          BY <5>1
      <4>2. h < i => buffer[RankOf(h)] = Elem(h)
        BY <1>4 DEF Copied
      <4> QED
        BY <2>6, <4>1, <4>2
    <3>2. Copied(t, frame[t].i)'
      BY <1>1, <1>3, <2>1, <2>9, <3>1 DEF Copied
    <3> QED
      BY <1>1, <1>2, <1>3, <1>6, <2>1, <2>5, <2>7, <2>9, <3>2 DEF CopyInv
  <2> QED
    BY <2>8, <2>9
<1> QED
  BY <1>1, <1>10, <1>11

\* Targets of elements in a row.
LEMMA TargetsSplit ==
  ASSUME NEW a \in Nat, NEW b \in Nat, NEW c \in Nat, a <= b, b <= c
  PROVE  /\ Targets(a, c) = Targets(a, b) \cup Targets(b, c)
         /\ Targets(a, a) = {}
         /\ Targets(a, a + 1) = {targets[a]}
<1>1. \A i : i \in a..(c - 1) <=> i \in a..(b - 1) \/ i \in b..(c - 1)
  OBVIOUS
<1>2. a..(a - 1) = {} /\ \A i : i \in a..((a + 1) - 1) <=> i = a
  OBVIOUS
<1>3. Targets(a, c) = Targets(a, b) \cup Targets(b, c)
  BY <1>1, Zenon DEF Targets
<1>4. Targets(a, a) = {}
  BY <1>2 DEF Targets
<1>5. Targets(a, a + 1) = {targets[a]}
  <2>1. a..((a + 1) - 1) = {a}
    OBVIOUS
  <2>2. Targets(a, a + 1) = {targets[i] : i \in {a}}
    BY <2>1 DEF Targets
  <2> QED
    BY <2>2
<1> QED
  BY <1>3, <1>4, <1>5

\* Elements that have other targets do not change a place of the output.
LEMMA SkippedKeeps ==
  ASSUME input \in Inputs, IsScatter, ~SeqThrows, NEW a \in Nat, NEW b \in 0..length, a <= b,
         NEW y \in 0..(outLength - 1), \A i \in a..(b - 1) : targets[i] # y
  PROVE  SeqStates[b].buffer[y] = SeqStates[a].buffer[y]
<1>1. length \in Nat
  BY Arguments
<1> DEFINE n == b - a
           T == {k \in 0..n : SeqStates[a + k].buffer[y] = SeqStates[a].buffer[y]}
<1>2. n \in Nat /\ a + 0 = a /\ a + n = b
  BY <1>1
<1>3. 0 \in T
  BY <1>2
<1>4. ASSUME NEW k \in 0..(n - 1), k \in T
      PROVE  k + 1 \in T
  <2>1. a + k \in 0..(length - 1) /\ a + k \in a..(b - 1) /\ k + 1 \in 0..n
        /\ (a + k) + 1 = a + (k + 1)
    BY <1>1
  <2>2. SeqStates[(a + k) + 1].buffer[y] = Placed(a + k, y, Targets(0, a + k), SeqStates[a + k].buffer[y])
    BY <2>1, SeqBuffer
  <2>3. targets[a + k] # y
    BY <2>1
  <2>4. SeqStates[a + (k + 1)].buffer[y] = SeqStates[a + k].buffer[y]
    BY <2>1, <2>2, <2>3 DEF Placed
  <2>5. SeqStates[a + k].buffer[y] = SeqStates[a].buffer[y]
    BY <1>4
  <2> QED
    BY <2>1, <2>4, <2>5
<1> HIDE DEF T
<1>5. \A k \in 0..n : k \in T
  <2> HIDE DEF n
  <2> QED
    BY <1>2, <1>3, <1>4, IntervalInduction
<1>6. n \in T
  BY <1>2, <1>5
<1> QED
  BY <1>2, <1>6 DEF T

\* The parts of the output of the divide-output-range strategy.
LEMMA OutputParts ==
  ASSUME input \in Inputs
  PROVE  /\ \A s \in 0..(NumSlices - 1) : OutputPart(s) \subseteq 0..(outLength - 1)
         /\ \A s, t \in 0..(NumSlices - 1) : s # t => OutputPart(s) \cap OutputPart(t) = {}
         /\ \A y \in 0..(outLength - 1) : \E s \in 0..(NumSlices - 1) : y \in OutputPart(s)
<1>1. outLength \in Nat /\ NumSlices \in Nat \ {0}
  BY Arguments, SliceCount
<1> DEFINE S(s) == SliceStart(outLength, NumSlices, s)
<1>2. \A s \in 0..(NumSlices - 1) : OutputPart(s) = S(s)..(S(s + 1) - 1)
  <2> SUFFICES ASSUME NEW s \in 0..(NumSlices - 1) PROVE OutputPart(s) = S(s)..(S(s + 1) - 1)
    OBVIOUS
  <2>1. ComputeSliceBounds(outLength, s, NumSlices) = [start |-> S(s), end |-> S(s + 1)]
    BY <1>1, OneSliceBounds
  <2> HIDE DEF S
  <2> QED
    BY <2>1 DEF OutputPart
<1>3. /\ \A s \in 0..NumSlices : S(s) \in 0..outLength
      /\ \A s, t \in 0..NumSlices : s <= t => S(s) <= S(t)
  BY <1>1, SliceStarts
<1>4. \A y \in 0..(outLength - 1) : \E s \in 0..(NumSlices - 1) : S(s) <= y /\ y < S(s + 1)
  BY <1>1, InSomeSlice
<1> HIDE DEF S
<1>5. \A s \in 0..(NumSlices - 1) : s \in 0..NumSlices /\ s + 1 \in 0..NumSlices
  BY <1>1
<1>6. \A s \in 0..(NumSlices - 1) : S(s) \in 0..outLength /\ S(s + 1) \in 0..outLength
  BY <1>3, <1>5
<1>7. \A s \in 0..(NumSlices - 1) : OutputPart(s) \subseteq 0..(outLength - 1)
  BY <1>1, <1>2, <1>6
<1>8. ASSUME NEW s \in 0..(NumSlices - 1), NEW t \in 0..(NumSlices - 1), s < t
      PROVE  OutputPart(s) \cap OutputPart(t) = {}
  <2>1. S(s + 1) <= S(t)
    <3>1. s + 1 \in 0..NumSlices /\ t \in 0..NumSlices /\ s + 1 <= t
      BY <1>1, <1>8
    <3> QED
      BY <1>3, <3>1
  <2> QED
    BY <1>1, <1>2, <1>6, <2>1
<1>9. \A s, t \in 0..(NumSlices - 1) : s # t => OutputPart(s) \cap OutputPart(t) = {}
  <2> SUFFICES ASSUME NEW s \in 0..(NumSlices - 1), NEW t \in 0..(NumSlices - 1), s # t
               PROVE  OutputPart(s) \cap OutputPart(t) = {}
    OBVIOUS
  <2>1. CASE s < t
    BY <1>8, <2>1
  <2>2. CASE t < s
    BY <1>8, <2>2
  <2> QED
    BY <1>1, <2>1, <2>2
<1>10. \A y \in 0..(outLength - 1) : \E s \in 0..(NumSlices - 1) : y \in OutputPart(s)
  <2> SUFFICES ASSUME NEW y \in 0..(outLength - 1)
               PROVE  \E s \in 0..(NumSlices - 1) : y \in OutputPart(s)
    OBVIOUS
  <2>1. PICK s \in 0..(NumSlices - 1) : S(s) <= y /\ y < S(s + 1)
    BY <1>4
  <2>2. y \in S(s)..(S(s + 1) - 1)
    BY <1>1, <1>6, <2>1
  <2> QED
    BY <1>2, <2>2
<1> QED
  BY <1>7, <1>9, <1>10

\* Where a call of a scatter is.
LEMMA ScatterPlace ==
  ASSUME Types, Control, Arrays, Positions, Frames, NEW s \in InCall, InLoop(s),
         kernel \in {"range", "vector"}
  PROVE  /\ s \in slices /\ s \in 0..(NumSlices - 1) /\ Forked /\ IsScatter /\ kind = kernel
         /\ input \in Inputs
         /\ info[s].pos \in Nat /\ info[s].pos <= frame[s].pos
         /\ frame[s].pos \in 0..(length - 1) /\ frame[s].pos \in Nat
         /\ kernel = "vector" => /\ info[s].pos = frame[s].pos /\ Bound(s) <= info[s].pos
                                 /\ frame[s].pos < Bound(s + 1)
         /\ length \in Nat /\ outLength \in Nat /\ Bound(s) \in 0..length
         /\ targets \in [0..(length - 1) -> Nat]
<1>1. Forked /\ s \in slices /\ input \in Inputs
  BY Running DEF Types
<1>2. kind = kernel
  BY <1>1, Kernels DEF Control, Forked
<1>3. Position(s) /\ Frame(s)
  BY <1>1 DEF Positions, Frames
<1>4. frame[s].pos < frame[s].last
  BY <1>3, LoopRuns
<1>5. /\ s \in 0..(NumSlices - 1) /\ info[s].pos \in Nat /\ info[s].end \in Nat
      /\ frame[s].pos \in Nat /\ frame[s].last \in Nat /\ length \in Nat /\ outLength \in Nat
      /\ Bound(s) \in 0..Items /\ Bound(s + 1) \in 0..Items
  BY <1>1, Numerals, Arguments
<1>6. info[s].pos <= frame[s].pos /\ frame[s].pos < info[s].end
      /\ (kernel = "vector" => info[s].pos = frame[s].pos)
  BY <1>3, <1>4, <1>5 DEF Frame
<1>7. kernel = "vector" => Items = length
  BY <1>2 DEF Items
<1>8. /\ kernel = "range" => info[s].end = length
      /\ kernel = "vector" => info[s].start = Bound(s) /\ info[s].end = Bound(s + 1)
                              /\ Bound(s) <= info[s].pos
  BY <1>2, <1>3 DEF Position, From, To
<1>9. frame[s].pos \in 0..(length - 1)
  BY <1>5, <1>6, <1>7, <1>8
<1>10. Bound(s) \in 0..length
  <2>1. \A n \in Nat : ComputeNumChunks(n) <= n
    BY NumChunks
  <2>2. Items <= length /\ Items \in Nat
    BY <1>1, <1>5, <2>1, SliceCount DEF Items, Chunks
  <2> QED
    BY <1>5, <2>2
<1>11. targets \in [0..(length - 1) -> Nat]
  BY <1>1, <1>2, Arguments
<1> QED
  BY <1>1, <1>2, <1>5, <1>6, <1>8, <1>9, <1>10, <1>11 DEF IsScatter

\* A slice of the divide-output-range strategy changes its part of the output as
\* the sequential loop does, and no other part.
LEMMA RangeWork ==
  ASSUME Types, Control, Arrays, Positions, Frames, Data, NEW t \in Slice, Work(t),
         NEW s \in slices, kernel = "range"
  PROVE  RangeInv(s)'
<1>1. /\ RangeSkip(t) \/ RangeElement(t)
      /\ t \in InCall /\ InLoop(t) /\ InCall' = InCall
      /\ UNCHANGED <<kvars, input, stage>>
  BY WorkOfKernel, WorkSteps
<1>2. /\ t \in slices /\ t \in 0..(NumSlices - 1) /\ Forked /\ IsScatter /\ kind = "range"
      /\ input \in Inputs
      /\ info[t].pos \in Nat /\ info[t].pos <= frame[t].pos
      /\ frame[t].pos \in 0..(length - 1) /\ frame[t].pos \in Nat
      /\ length \in Nat /\ outLength \in Nat
      /\ targets \in [0..(length - 1) -> Nat]
  BY <1>1, ScatterPlace
<1>3. RangeInv(s) /\ s \in 0..(NumSlices - 1) /\ info[s].pos \in Nat
  BY <1>2, Numerals DEF Data, SliceData
<1>4. /\ kernel' = kernel /\ length' = length /\ outLength' = outLength
      /\ targets' = targets /\ MayCollide' = MayCollide
      /\ SeqThrows' = SeqThrows /\ SeqStates' = SeqStates /\ OutputPart(s)' = OutputPart(s)
      /\ \A c : CheckedTarget(c)' = CheckedTarget(c)
  BY <1>1, SameTerms
<1>5. complete' = complete
  BY <1>1 DEF kvars
<1>6. frame \in [Slice -> Values] /\ conflicts \in [Slice -> SUBSET (0..(MaxLength - 1))]
      /\ 0 \in Slice
  <2>1. 0 \in Slice
    BY <1>2, Arguments DEF Slice
  <2> QED
    BY <2>1 DEF Types
<1>7. CASE RangeSkip(t)
  <2>1. /\ info' = info /\ buffer' = buffer /\ conflicts' = conflicts
        /\ frame'[t].pos = frame[t].pos + 1
        /\ CheckedTarget(frame[t].pos) /\ targets[frame[t].pos] \notin OutputPart(t)
    BY <1>6, <1>7 DEF RangeSkip, Values
  <2>2. Targets(0, info[s].pos)' = Targets(0, info[s].pos)
    BY <1>4, <2>1 DEF Targets
  <2>3. Skipped(s, info[s].pos, length) => Skipped(s, info[s].pos, length)'
    BY <1>4, <2>1 DEF Skipped
  <2>4. s \in InCall => Skipped(s, info[s].pos, frame[s].pos)'
    <3> SUFFICES ASSUME s \in InCall PROVE Skipped(s, info[s].pos, frame[s].pos)'
      OBVIOUS
    <3>1. Skipped(s, info[s].pos, frame[s].pos)
      BY <1>3 DEF RangeInv
    <3>2. CASE s # t
      <4>1. frame'[s] = frame[s]
        BY <3>2, OtherSlice
      <4> QED
        BY <1>4, <2>1, <3>1, <4>1 DEF Skipped
    <3>3. CASE s = t
      <4>1. \A i \in info[t].pos..((frame[t].pos + 1) - 1) :
               CheckedTarget(i) /\ targets[i] \notin OutputPart(t)
        <5> SUFFICES ASSUME NEW i \in info[t].pos..((frame[t].pos + 1) - 1)
                     PROVE  CheckedTarget(i) /\ targets[i] \notin OutputPart(t)
          OBVIOUS
        <5>1. i = frame[t].pos \/ i \in info[t].pos..(frame[t].pos - 1)
          BY <1>2
        <5> QED
          BY <2>1, <3>1, <3>3, <5>1 DEF Skipped
      <4> QED
        BY <1>4, <2>1, <3>3, <4>1 DEF Skipped
    <3> QED
      BY <3>2, <3>3
  <2> QED
    BY <1>1, <1>3, <1>4, <1>5, <2>1, <2>2, <2>3, <2>4 DEF RangeInv
<1>8. CASE RangeElement(t)
  <2> DEFINE i == frame[t].pos
             x == targets[i]
             p == info[t].pos
  <2>1. /\ CheckedTarget(i) /\ x \in OutputPart(t)
        /\ x \in conflicts[0] => MayCollide
        /\ buffer' = [buffer EXCEPT ![x] = IF x \in conflicts[0] THEN Collide(Elem(i), @) ELSE Elem(i)]
        /\ conflicts' = [conflicts EXCEPT ![0] = @ \cup {x}]
    BY <1>8, Zenon DEF RangeElement
  <2>2. /\ info'[t].pos = i + 1 /\ frame'[t].pos = i + 1
    BY <1>8, AdvanceStep DEF NextIndex
  <2>3. conflicts'[0] = conflicts[0] \cup {x}
    BY <1>6, <2>1
  <2>4. OutputPart(t) \subseteq 0..(outLength - 1)
    BY <1>2, OutputParts
  <2>5. CASE s # t
    <3>1. frame'[s] = frame[s] /\ info'[s] = info[s]
      BY <2>5, OtherSlice
    <3>2. OutputPart(s) \cap OutputPart(t) = {}
      BY <1>2, <1>3, <2>5, OutputParts
    <3>3. x \notin OutputPart(s)
      BY <2>1, <3>2
    <3>4. Targets(0, info[s].pos)' = Targets(0, info[s].pos)
      BY <1>4, <3>1 DEF Targets
    <3>5. Skipped(s, info[s].pos, length) => Skipped(s, info[s].pos, length)'
      BY <1>4, <3>1 DEF Skipped
    <3>6. Skipped(s, info[s].pos, frame[s].pos) => Skipped(s, info[s].pos, frame[s].pos)'
      BY <1>4, <3>1 DEF Skipped
    <3>7. conflicts'[0] \cap OutputPart(s) = conflicts[0] \cap OutputPart(s)
      BY <2>3, <3>3
    <3>8. \A y \in OutputPart(s) : buffer'[y] = buffer[y]
      BY <2>1, <3>3
    <3> QED
      BY <1>1, <1>3, <1>4, <1>5, <3>1, <3>4, <3>5, <3>6, <3>7, <3>8 DEF RangeInv
  <2>6. CASE s = t
    <3>0. RangeInv(t)
      BY <1>3, <2>6
    <3>1. Skipped(t, p, i)
      BY <1>1, <3>0 DEF RangeInv
    <3>2. t \notin complete
      <4> SUFFICES ASSUME Skipped(t, p, length) PROVE FALSE
        BY <3>0 DEF RangeInv
      <4>1. i \in p..(length - 1)
        BY <1>2
      <4> QED
        BY <2>1, <4>1 DEF Skipped
    <3>3. /\ Targets(0, i + 1) = Targets(0, i) \cup {x}
          /\ Targets(0, i) = Targets(0, p) \cup Targets(p, i)
      <4>1. /\ 0 \in Nat /\ i \in Nat /\ p \in Nat /\ i + 1 \in Nat /\ 0 <= i /\ i <= i + 1 /\ p <= i
            /\ 0 <= p
        BY <1>2
      <4>2. Targets(0, i + 1) = Targets(0, i) \cup Targets(i, i + 1)
        BY <4>1, TargetsSplit
      <4>3. Targets(i, i + 1) = {x}
        BY <4>1, TargetsSplit
      <4>4. Targets(0, i) = Targets(0, p) \cup Targets(p, i)
        BY <4>1, TargetsSplit
      <4> QED
        BY <4>2, <4>3, <4>4
    <3>4. Targets(p, i) \cap OutputPart(t) = {}
      BY <3>1 DEF Skipped, Targets
    <3>5. conflicts[0] \cap OutputPart(t) = Targets(0, p) \cap OutputPart(t)
      BY <3>0 DEF RangeInv
    <3>6. conflicts'[0] \cap OutputPart(t) = Targets(0, i + 1) \cap OutputPart(t)
      BY <2>3, <3>3, <3>4, <3>5
    <3>7. x \in conflicts[0] <=> x \in Targets(0, i)
      BY <2>1, <3>3, <3>4, <3>5
    <3>8. \A j \in 0..((i + 1) - 1) :
             /\ CheckedTarget(j)
             /\ ~MayCollide /\ targets[j] \in OutputPart(t) =>
                   \A h \in 0..(j - 1) : targets[h] # targets[j]
      <4> SUFFICES ASSUME NEW j \in 0..((i + 1) - 1)
                   PROVE  /\ CheckedTarget(j)
                          /\ ~MayCollide /\ targets[j] \in OutputPart(t) =>
                                \A h \in 0..(j - 1) : targets[h] # targets[j]
        OBVIOUS
      <4>1. CASE j \in 0..(p - 1)
        BY <3>0, <4>1 DEF RangeInv
      <4>2. CASE j \in p..(i - 1)
        BY <3>1, <4>2 DEF Skipped
      <4>3. CASE j = i
        <5>1. ~MayCollide => x \notin Targets(0, i)
          BY <2>1, <3>7
        <5>2. ~MayCollide => \A h \in 0..(i - 1) : targets[h] # targets[i]
          BY <5>1 DEF Targets
        <5> QED
          BY <2>1, <4>3, <5>2
      <4>4. j \in 0..(p - 1) \/ j \in p..(i - 1) \/ j = i
        BY <1>2
      <4> QED
        BY <4>1, <4>2, <4>3, <4>4
    <3>9. ~SeqThrows => \A y \in OutputPart(t) : buffer'[y] = SeqStates[i + 1].buffer[y]
      <4> SUFFICES ASSUME ~SeqThrows, NEW y \in OutputPart(t)
                   PROVE  buffer'[y] = SeqStates[i + 1].buffer[y]
        OBVIOUS
      <4>1. y \in 0..(outLength - 1)
        BY <2>4
      <4>2. buffer[y] = SeqStates[p].buffer[y]
        BY <3>0 DEF RangeInv
      <4>3. SeqStates[i].buffer[y] = SeqStates[p].buffer[y]
        <5>1. \A j \in p..(i - 1) : targets[j] # y
          BY <3>1 DEF Skipped
        <5>2. p \in Nat /\ i \in 0..length /\ p <= i
          BY <1>2
        <5> HIDE DEF p, i
        <5> QED
          BY <1>2, <4>1, <5>1, <5>2, SkippedKeeps
      <4>4. SeqStates[i + 1].buffer[y] = Placed(i, y, Targets(0, i), SeqStates[i].buffer[y])
        BY <1>2, <4>1, SeqBuffer
      <4>5. y \in DOMAIN buffer
        BY <1>2, <4>1 DEF Arrays
      <4>6. buffer'[y] = IF y = x THEN IF x \in conflicts[0] THEN Collide(Elem(i), buffer[y]) ELSE Elem(i)
                         ELSE buffer[y]
        BY <2>1, <4>5
      <4> HIDE DEF i, p
      <4> QED
        BY <3>7, <4>2, <4>3, <4>4, <4>6 DEF Placed
    <3>10. Skipped(t, i + 1, i + 1)
      <4>1. (i + 1)..((i + 1) - 1) = {}
        BY <1>2
      <4> QED
        BY <4>1 DEF Skipped
    <3>11. Targets(0, info[t].pos)' = Targets(0, i + 1)
      BY <1>4, <2>2 DEF Targets
    <3>12. Skipped(t, info[t].pos, frame[t].pos)'
      BY <1>4, <2>2, <2>6, <3>10 DEF Skipped
    <3> HIDE DEF i, p, x
    <3> QED
      BY <1>1, <1>4, <1>5, <2>2, <2>6, <3>2, <3>6, <3>8, <3>9, <3>11, <3>12 DEF RangeInv
  <2> QED
    BY <2>5, <2>6
<1> QED
  BY <1>1, <1>7, <1>8

\* A slice of the divide-scatter-vector strategy keeps in its own buffer what the
\* sequential loop adds to the slices before it.
LEMMA VectorWork ==
  ASSUME Types, Control, Arrays, Positions, Frames, Data, NEW t \in Slice, Work(t),
         NEW s \in slices, kernel = "vector"
  PROVE  VectorInv(s)'
<1>1. /\ VectorElement(t)
      /\ t \in InCall /\ InLoop(t) /\ InCall' = InCall
      /\ UNCHANGED <<kvars, input, stage>>
  BY WorkOfKernel, WorkSteps
<1>2. /\ t \in slices /\ t \in 0..(NumSlices - 1) /\ Forked /\ IsScatter /\ kind = "vector"
      /\ input \in Inputs
      /\ info[t].pos \in Nat
      /\ frame[t].pos \in 0..(length - 1) /\ frame[t].pos \in Nat
      /\ info[t].pos = frame[t].pos /\ Bound(t) <= info[t].pos
      /\ length \in Nat /\ outLength \in Nat /\ Bound(t) \in 0..length
      /\ targets \in [0..(length - 1) -> Nat]
  BY <1>1, ScatterPlace
<1>3. VectorInv(s)
  BY <1>2 DEF Data, SliceData
<1>4. /\ kernel' = kernel /\ length' = length /\ outLength' = outLength
      /\ targets' = targets /\ MayCollide' = MayCollide
      /\ SeqThrows' = SeqThrows /\ SeqStates' = SeqStates /\ Bound(s)' = Bound(s)
      /\ Targets(0, Bound(s))' = Targets(0, Bound(s))
      /\ \A c : CheckedTarget(c)' = CheckedTarget(c)
  BY <1>1, SameTerms
<1>5. conflicts \in [Slice -> SUBSET (0..(MaxLength - 1))]
      /\ sub \in [slices -> [0..(outLength - 1) -> Seq(Int)]]
  BY <1>2 DEF Types, Arrays
<1> DEFINE i == frame[t].pos
           x == targets[i]
           B == Bound(t)
<1>6. /\ CheckedTarget(i)
      /\ x \in conflicts[t] => MayCollide
      /\ sub' = [sub EXCEPT ![t][x] = IF x \in conflicts[t] THEN Collide(Elem(i), @) ELSE Elem(i)]
      /\ conflicts' = [conflicts EXCEPT ![t] = @ \cup {x}]
  BY <1>1, Zenon DEF VectorElement
<1>7. info'[t].pos = i + 1
  BY <1>1, AdvanceStep DEF NextIndex
<1>8. x \in 0..(outLength - 1)
  BY <1>2, <1>6 DEF CheckedTarget
<1>9. CASE s # t
  <2>1. info'[s] = info[s] /\ sub'[s] = sub[s] /\ conflicts'[s] = conflicts[s]
    BY <1>5, <1>6, <1>9, OtherSlice
  <2>2. Targets(Bound(s), info[s].pos)' = Targets(Bound(s), info[s].pos)
    BY <1>4, <2>1 DEF Targets
  <2>3. \A y : Local(s, y)' = Local(s, y)
    BY <1>4, <2>1 DEF Local
  <2> QED
    BY <1>3, <1>4, <2>1, <2>2, <2>3 DEF VectorInv
<1>10. CASE s = t
  <2>0. VectorInv(t)
    BY <1>3, <1>10
  <2>1. conflicts[t] = Targets(B, i)
    BY <1>2, <2>0 DEF VectorInv
  <2>2. conflicts'[t] = conflicts[t] \cup {x}
    BY <1>5, <1>6
  <2>3. /\ Targets(B, i + 1) = Targets(B, i) \cup {x}
        /\ Targets(0, i) = Targets(0, B) \cup Targets(B, i)
    <3>1. /\ 0 \in Nat /\ i \in Nat /\ B \in Nat /\ i + 1 \in Nat /\ B <= i /\ i <= i + 1 /\ 0 <= B
      BY <1>2
    <3>2. Targets(B, i + 1) = Targets(B, i) \cup Targets(i, i + 1)
      BY <3>1, TargetsSplit
    <3>3. Targets(i, i + 1) = {x}
      BY <3>1, TargetsSplit
    <3>4. Targets(0, i) = Targets(0, B) \cup Targets(B, i)
      BY <3>1, TargetsSplit
    <3> QED
      BY <3>2, <3>3, <3>4
  <2>4. \A j \in B..((i + 1) - 1) :
           CheckedTarget(j) /\ (~MayCollide => \A h \in B..(j - 1) : targets[h] # targets[j])
    <3> SUFFICES ASSUME NEW j \in B..((i + 1) - 1)
                 PROVE  CheckedTarget(j) /\ (~MayCollide => \A h \in B..(j - 1) : targets[h] # targets[j])
      OBVIOUS
    <3>1. CASE j = i
      <4>1. ~MayCollide => \A h \in B..(i - 1) : targets[h] # targets[i]
        BY <1>6, <2>1 DEF Targets
      <4> QED
        BY <1>6, <3>1, <4>1
    <3>2. CASE j \in B..(info[t].pos - 1)
      BY <2>0, <3>2 DEF VectorInv
    <3>3. j = i \/ j \in B..(info[t].pos - 1)
      BY <1>2
    <3> QED
      BY <3>1, <3>2, <3>3
  <2>5. \A y \in 0..(outLength - 1) :
           sub'[t][y] = IF y = x THEN IF x \in conflicts[t] THEN Collide(Elem(i), sub[t][y]) ELSE Elem(i)
                        ELSE sub[t][y]
    <3> HIDE DEF x, i
    <3> QED
      BY <1>2, <1>5, <1>6
  <2>6. t = 0 => \A y \in 0..(outLength - 1) : y \notin conflicts'[0] => sub'[0][y] = Default
    BY <2>0, <2>2, <2>5 DEF VectorInv
  <2>7. ~SeqThrows => \A y \in 0..(outLength - 1) : Local(t, y)'
    <3> SUFFICES ASSUME ~SeqThrows, NEW y \in 0..(outLength - 1) PROVE Local(t, y)'
      BY <1>4
    <3> DEFINE before == SeqStates[B].buffer[y]
               now == SeqStates[i].buffer[y]
               next == SeqStates[i + 1].buffer[y]
    <3>1. now = IF y \notin conflicts[t] THEN before
                ELSE IF y \in Targets(0, B) THEN Collide(sub[t][y], before)
                ELSE sub[t][y]
      <4>1. Local(t, y)
        BY <2>0 DEF VectorInv
      <4> QED
        BY <1>2, <4>1 DEF Local
    <3>2. next = Placed(i, y, Targets(0, i), now)
      BY <1>2, SeqBuffer
    <3>3. before \in Seq(Int) /\ sub[t][y] \in Seq(Int) /\ Elem(i) \in Seq(Int)
      <4>1. SeqStates[B].buffer \in [0..(outLength - 1) -> Seq(Int)]
        BY <1>2, SeqBuffer
      <4>2. Elem(i) \in Seq(Int)
        BY <1>2, ElemIsRun
      <4> QED
        BY <1>2, <1>5, <4>1, <4>2
    <3>4. next = IF y \notin conflicts'[t] THEN before
                 ELSE IF y \in Targets(0, B) THEN Collide(sub'[t][y], before)
                 ELSE sub'[t][y]
      <4> HIDE DEF before, now, next
      <4>1. CASE y # x
        BY <2>2, <2>5, <3>1, <3>2, <4>1 DEF Placed
      <4>2. CASE y = x /\ x \notin conflicts[t]
        BY <2>1, <2>2, <2>3, <2>5, <3>1, <3>2, <4>2 DEF Placed
      <4>3. CASE y = x /\ x \in conflicts[t]
        <5>1. next = Collide(Elem(i), now)
          BY <2>1, <2>3, <3>2, <4>3 DEF Placed
        <5>2. sub'[t][y] = Collide(Elem(i), sub[t][y]) /\ y \in conflicts'[t]
          BY <2>2, <2>5, <4>3
        <5>3. Collide(Collide(Elem(i), sub[t][y]), before) = Collide(Elem(i), Collide(sub[t][y], before))
          BY <3>3, FuncAssociative DEF Collide
        <5> QED
          BY <3>1, <4>3, <5>1, <5>2, <5>3
      <4> QED
        BY <4>1, <4>2, <4>3
    <3> QED
      BY <1>4, <1>7, <1>10, <3>4 DEF Local
  <2>8. Targets(Bound(t), info[t].pos)' = Targets(B, i + 1)
    BY <1>4, <1>7, <1>10 DEF Targets
  <2> HIDE DEF i, x
  <2> QED
    BY <1>4, <1>7, <1>10, <2>1, <2>2, <2>3, <2>4, <2>6, <2>7, <2>8 DEF VectorInv
<1> QED
  BY <1>9, <1>10

\* Work keeps what is known of every slice.
LEMMA WorkData ==
  ASSUME Types, Control, Arrays, Positions, Frames, Data, NEW t \in Slice, Work(t),
         NEW s \in slices
  PROVE  SliceData(s)'
<1>1. UNCHANGED <<input, stage>>
  BY WorkSteps
<1>2. kernel' = kernel
  BY <1>1, SameKernel
<1>3. MapInv(s)'
  BY <1>2, MapWork DEF MapInv
<1>4. ReduceInv(s)'
  BY <1>2, ReduceWork DEF ReduceInv
<1>5. ScanInv(s)'
  BY <1>2, ScanWork DEF ScanInv
<1>6. Phase2Inv(s)'
  BY <1>2, Phase2Work DEF Phase2Inv
<1>7. FilterInv(s)'
  BY <1>2, FilterWork, CopyFilterWork DEF FilterInv
<1>8. CopyInv(s)'
  BY <1>2, CopyWork DEF CopyInv
<1>9. RangeInv(s)'
  BY <1>2, RangeWork DEF RangeInv
<1>10. VectorInv(s)'
  BY <1>2, VectorWork DEF VectorInv
<1> QED
  BY <1>3, <1>4, <1>5, <1>6, <1>7, <1>8, <1>9, <1>10 DEF SliceData

-----------------------------------------------------------------------------
(* The beginnings of the phases.                                           *)

\* What ForkJoin() is given: nothing has been done yet.
LEMMA ForkData ==
  ASSUME Types, Control, Fork, NEW s \in 0..(NumSlices - 1)
  PROVE  SliceData(s)'
<1>0. input \in Inputs
  BY DEF Types
<1>1. /\ input' = input /\ stage = "start" /\ stage' = "fork1" /\ complete' = {}
      /\ call' = call /\ UNCHANGED <<conflicts, counts, frame>>
  BY <1>0, ForkBounds
<1>2. InCall' = {}
  BY <1>1 DEF Control, InCall
<1>3. Position(s)' /\ info'[s].pos = (IF kind = "range" THEN 0 ELSE Bound(s)) /\ kernel' = kind
  BY <1>0, ForkPosition
<1>4. /\ kind' = kind /\ length' = length /\ outLength' = outLength
      /\ targets' = targets /\ MayCollide' = MayCollide
      /\ SeqThrows' = SeqThrows /\ SeqStates' = SeqStates
      /\ Lo(s)' = Lo(s) /\ Bound(s)' = Bound(s) /\ OutputPart(s)' = OutputPart(s)
      /\ From(s)' = From(s)
      /\ \A c : ChunkSurvivors(c)' = ChunkSurvivors(c) /\ CheckedTarget(c)' = CheckedTarget(c)
                /\ RankOf(c)' = RankOf(c)
  BY <1>1, SameInput
<1>5. /\ NumSlices \in Nat \ {0} /\ length \in Nat /\ outLength \in Nat /\ ChunkSize \in Nat \ {0}
      /\ s \in 0..NumSlices /\ kind \in Kind
  BY <1>0, SliceCount, Arguments
<1>6. Bound(s) \in Nat /\ Lo(s) \in Nat
  <2>1. Bound(s) \in 0..Items /\ Items \in Nat
    BY <1>0, <1>5, Bounds, SliceCount
  <2> QED
    BY <1>5, <2>1 DEF Lo
<1>7. conflicts' = [t \in Slice |-> {}] /\ counts' = [t \in Slice |-> 0]
      /\ s \in Slice /\ 0 \in Slice
  <2>1. NumSlices \in 1..MaxSlices
    BY <1>0, SliceCount
  <2> QED
    BY <1>1, <2>1, KernelAssumption DEF Control, KernelAssumption, Slice
<1>8. ~InChunk(s)' /\ info'[s].start = From(s)
  BY <1>2, <1>3, <1>4 DEF InChunk, Position
<1>9. kind # "range" => Reached(s)' <= Lo(s) /\ Reached(s)' \in Int
  <2>1. Reached(s)' = At(info[s].pos)'
    BY <1>8 DEF Reached
  <2>2. At(info[s].pos)' = MinOf(info'[s].pos * ChunkSize, length)
    BY <1>4 DEF At
  <2> QED
    BY <1>3, <1>5, <1>6, <2>1, <2>2 DEF Lo, MinOf
<1>10. MapInv(s)' /\ ScanInv(s)'
  <2>1. kind # "range" => Lo(s)'..(Reached(s)' - 1) = {}
    BY <1>4, <1>6, <1>9
  <2> QED
    BY <1>3, <1>8, <2>1 DEF MapInv, ScanInv
<1>11. ReduceInv(s)'
  BY <1>3, <1>6, <1>8 DEF ReduceInv, From
<1>12. Phase2Inv(s)' /\ CopyInv(s)'
  BY <1>3, <1>5 DEF Phase2Inv, CopyInv, Kind
<1>13. FilterInv(s)'
  <2> SUFFICES ASSUME kernel' \in {"filter", "copy"} PROVE FilterInv(s)'
    BY DEF FilterInv
  <2>1. info'[s].pos = Bound(s) /\ info'[s].start = Bound(s)
    BY <1>3, <1>8 DEF From
  <2>2. RankOf(info[s].pos * ChunkSize)' = RankOf(Lo(s)) /\ RankOf(Lo(s))' = RankOf(Lo(s))
    BY <1>1, <1>4, <2>1 DEF RankOf, Lo
  <2>3. RankOf(Lo(s)) \in Int
    <3>1. RankOf(Lo(s)) \in 0..length
      BY <1>0, <1>6, KeepRanks
    <3> QED
      BY <3>1
  <2>4. counts'[s] = 0
    BY <1>7
  <2>5. info'[s].start..(info'[s].pos - 1) = {}
    BY <1>6, <2>1
  <2> QED
    BY <1>8, <2>2, <2>3, <2>4, <2>5 DEF FilterInv
<1>14. RangeInv(s)'
  <2> SUFFICES ASSUME kernel' = "range" PROVE RangeInv(s)'
    BY DEF RangeInv
  <2>1. info'[s].pos = 0 /\ conflicts'[0] = {} /\ s \notin InCall' /\ s \notin complete'
        /\ kind = "range"
    BY <1>1, <1>2, <1>3, <1>7
  <2>2. Targets(0, info[s].pos)' = {} /\ 0..(info'[s].pos - 1) = {}
    BY <2>1 DEF Targets
  <2>3. buffer' = NewDenseArray(outLength, Default)
    BY <2>1 DEF Fork
  <2>4. SeqStates[0].buffer = NewDenseArray(outLength, Default)
    BY <1>0, <2>1, SeqStatesStep DEF IsScatter
  <2> QED
    BY <1>4, <2>1, <2>2, <2>3, <2>4 DEF RangeInv
<1>15. VectorInv(s)'
  <2> SUFFICES ASSUME kernel' = "vector" PROVE VectorInv(s)'
    BY DEF VectorInv
  <2>1. info'[s].pos = Bound(s) /\ conflicts'[s] = {} /\ kind = "vector" /\ Bound(s)' = Bound(s)
    BY <1>3, <1>4, <1>7
  <2>2. Bound(s)..(info'[s].pos - 1) = {}
    BY <1>6, <2>1
  <2>3. Targets(Bound(s), info[s].pos)' = {}
    BY <2>1, <2>2 DEF Targets
  <2>4. \A t : Local(s, t)'
    BY <1>4, <2>1 DEF Local
  <2>5. sub' = [t \in 0..(NumSlices - 1) |->
                  NewDenseArray(outLength, IF t = 0 THEN Default ELSE Hole)]
    BY <2>1 DEF Fork
  <2>6. s = 0 => \A t \in 0..(outLength - 1) : sub'[0][t] = Default
    BY <1>5, <2>5 DEF NewDenseArray
  <2> QED
    BY <1>4, <2>1, <2>2, <2>3, <2>4, <2>6 DEF VectorInv
<1> QED
  BY <1>10, <1>11, <1>12, <1>13, <1>14, <1>15 DEF SliceData

\* The runs of the first slices of a reduction or a scan adjoin: their
\* reduction is the run from the first element.
LEMMA SlicesAdjoin ==
  ASSUME input \in Inputs, kind \in {"reduce", "scan"}, ~TooSmall,
         NEW n \in 0..(NumSlices - 1), NEW f,
         \A t \in 0..n : f[t] = Run(Lo(t), At(Bound(t + 1)) - 1)
  PROVE  Reduction(f, n) = Run(0, At(Bound(n + 1)) - 1)
<1>1. NumSlices \in Nat \ {0} /\ ChunkSize \in Nat \ {0}
  BY SliceCount, Arguments
<1>2. \A t \in 0..(NumSlices - 1) :
         /\ At(Bound(t)) = Lo(t) /\ At(Bound(t)) \in Nat /\ At(Bound(t + 1)) \in Nat
         /\ At(Bound(t)) < At(Bound(t + 1))
  BY ScanEnds
<1>3. \A t \in 0..n : t \in 0..(NumSlices - 1) /\ t + 1 \in 0..(n + 1)
  BY <1>1
<1> DEFINE b == [t \in 0..(n + 1) |-> At(Bound(t))]
<1>4. \A t \in 0..n : b[t] = Lo(t) /\ b[t + 1] = At(Bound(t + 1)) /\ b[t] < b[t + 1]
  BY <1>2, <1>3
<1>5. b \in [0..(n + 1) -> Nat]
  <2>1. \A t \in 0..(n + 1) : At(Bound(t)) \in Nat
    <3> SUFFICES ASSUME NEW t \in 0..(n + 1) PROVE At(Bound(t)) \in Nat
      OBVIOUS
    <3>1. CASE t \in 0..n
      BY <1>2, <1>3, <3>1
    <3>2. CASE t = n + 1
      BY <1>2, <1>3, <3>2
    <3> QED
      BY <3>1, <3>2
  <2> QED
    BY <2>1
<1>6. b[0] = 0 /\ b[n + 1] = At(Bound(n + 1)) /\ n \in Nat
  <2>1. Bound(0) = 0 /\ At(0) = 0
    BY Bounds, ChunkEnds
  <2> QED
    BY <2>1
<1> HIDE DEF b
<1>7. \A t \in 0..n : f[t] = Run(b[t], b[t + 1] - 1)
  BY <1>4
<1>8. \A t \in 0..n : b[t] < b[t + 1]
  BY <1>4
<1>9. Reduction(f, n) = Run(b[0], b[n + 1] - 1)
  BY <1>5, <1>6, <1>7, <1>8, ReductionOfRuns
<1> QED
  BY <1>6, <1>9

\* Phase 2 of a scan begins: the buffer holds the scan of each slice, and the
\* intermediate of a slice is the reduction up to its end.
LEMMA Phase2Data ==
  ASSUME Types, Control, Positions, Data, ScanIntermediates, NEW s \in slices
  PROVE  SliceData(s)'
<1>1. /\ input' = input /\ stage = "fork1" /\ kind = "scan" /\ stage' = "fork2"
      /\ outcome = "done" /\ buffer' = buffer
      /\ sub' = [t \in 0..(NumSlices - 1) |->
                   Reduction([u \in 0..t |-> buffer[finalElement(u)]], t)]
  BY DEF ScanIntermediates
<1>2. /\ Forked /\ slices = 0..(NumSlices - 1) /\ ~TooSmall /\ input \in Inputs /\ InCall = {}
  BY <1>1 DEF Control, Forked, Types
<1>3. \A t \in slices : /\ info'[t].pos = Lo(t) /\ kernel' = "phase2"
                        /\ info[t].end = Bound(t + 1) /\ info[t].pos = Bound(t + 1)
                        /\ kernel = "scan"
  BY Phase2Position
<1>4. \A t \in slices :
         /\ Lo(t) \in Nat /\ At(Bound(t + 1)) \in Nat /\ Lo(t) < At(Bound(t + 1))
  BY <1>1, <1>2, ScanEnds
<1>5. \A t \in slices : \A i \in Lo(t)..(At(Bound(t + 1)) - 1) : buffer[i] = Run(Lo(t), i)
  <2> SUFFICES ASSUME NEW t \in slices
               PROVE  \A i \in Lo(t)..(At(Bound(t + 1)) - 1) : buffer[i] = Run(Lo(t), i)
    OBVIOUS
  <2>1. ScanInv(t) /\ kernel = "scan"
    BY <1>2, <1>3 DEF Data, SliceData
  <2>2. Reached(t) = At(Bound(t + 1))
    BY <1>2, <1>3 DEF Reached, InChunk
  <2> QED
    BY <2>1, <2>2 DEF ScanInv
<1>6. \A t \in slices : buffer[finalElement(t)] = Run(Lo(t), At(Bound(t + 1)) - 1)
  <2> SUFFICES ASSUME NEW t \in slices
               PROVE  buffer[finalElement(t)] = Run(Lo(t), At(Bound(t + 1)) - 1)
    OBVIOUS
  <2>1. finalElement(t) = At(Bound(t + 1)) - 1
    BY <1>3 DEF finalElement, At
  <2>2. At(Bound(t + 1)) - 1 \in Lo(t)..(At(Bound(t + 1)) - 1)
    BY <1>4
  <2> QED
    BY <1>5, <2>1, <2>2
<1>7. sub'[s] = Run(0, At(Bound(s + 1)) - 1)
  <2> DEFINE f == [u \in 0..s |-> buffer[finalElement(u)]]
  <2>1. sub'[s] = Reduction(f, s) /\ s \in 0..(NumSlices - 1)
    BY <1>1, <1>2
  <2>2. \A t \in 0..s : f[t] = Run(Lo(t), At(Bound(t + 1)) - 1)
    <3>1. \A t \in 0..s : t \in slices
      <4>1. NumSlices \in Nat
        BY <1>2, SliceCount
      <4> QED
        BY <1>2, <4>1
    <3> QED
      BY <1>6, <3>1
  <2> HIDE DEF f
  <2> QED
    BY <1>1, <1>2, <2>1, <2>2, SlicesAdjoin
<1>8. kernel' = "phase2" /\ info'[s].pos = Lo(s)
  BY <1>3
<1>9. Lo(s)' = Lo(s) /\ At(Bound(s + 1))' = At(Bound(s + 1))
  <2>1. Lo(s)' = Lo(s) /\ Bound(s + 1)' = Bound(s + 1) /\ length' = length
    BY <1>1, SameInput
  <2> QED
    BY <2>1 DEF At
<1>10. s = 0 => Lo(s) = 0
  <2>1. Bound(0) = 0 /\ ChunkSize \in Nat
    BY <1>2, Bounds, Arguments
  <2> QED
    BY <2>1 DEF Lo
<1>11. Phase2Inv(s)'
  <2>1. \A i \in Lo(s)..(At(Bound(s + 1)) - 1) :
           buffer'[i] = IF s = 0 \/ i < info'[s].pos THEN Run(0, i) ELSE Run(Lo(s), i)
    <3> SUFFICES ASSUME NEW i \in Lo(s)..(At(Bound(s + 1)) - 1)
                 PROVE  buffer'[i] = IF s = 0 \/ i < info'[s].pos THEN Run(0, i) ELSE Run(Lo(s), i)
      OBVIOUS
    <3>1. buffer'[i] = Run(Lo(s), i)
      BY <1>1, <1>5
    <3>2. ~(i < info'[s].pos)
      BY <1>4, <1>8
    <3> QED
      BY <1>10, <3>1, <3>2
  <2> QED
    BY <1>7, <1>8, <1>9, <2>1 DEF Phase2Inv
<1>12. MapInv(s)' /\ ReduceInv(s)' /\ ScanInv(s)' /\ FilterInv(s)' /\ CopyInv(s)' /\ RangeInv(s)'
       /\ VectorInv(s)'
  BY <1>8 DEF MapInv, ReduceInv, ScanInv, FilterInv, CopyInv, RangeInv, VectorInv
<1> QED
  BY <1>11, <1>12 DEF SliceData

\* The second phase of a filter begins with what the first has counted.
LEMMA CopyData ==
  ASSUME Types, Control, Positions, Data, CompressSurvivors, stage' = "fork2", NEW s \in slices
  PROVE  SliceData(s)'
<1>1. /\ input' = input /\ stage = "fork1" /\ outcome = "done" /\ call' = call /\ complete' = {}
      /\ UNCHANGED <<counts, survivors>>
  <2>1. SecondPhase
    BY DEF SecondPhase
  <2> QED
    BY <2>1, SecondPhaseSteps
<1>2. Forked /\ InCall' = {} /\ InCall = {}
  BY <1>1 DEF Control, Forked, InCall
<1>3. info' = info /\ kernel' = "copy" /\ kernel = "filter"
  BY CopyPosition
<1>4. FilterInv(s)
  BY <1>2 DEF Data, SliceData
<1>5. /\ Lo(s)' = Lo(s)
      /\ \A c : ChunkSurvivors(c)' = ChunkSurvivors(c) /\ RankOf(c)' = RankOf(c)
  BY <1>1, SameInput
<1>6. RankOf(info[s].pos * ChunkSize)' = RankOf(info[s].pos * ChunkSize)
      /\ RankOf(Lo(s))' = RankOf(Lo(s))
  BY <1>1, <1>3, <1>5 DEF RankOf
<1>7. FilterInv(s)'
  BY <1>1, <1>3, <1>4, <1>5, <1>6 DEF FilterInv
<1>8. CopyInv(s)'
  BY <1>1, <1>2 DEF CopyInv
<1>9. MapInv(s)' /\ ReduceInv(s)' /\ ScanInv(s)' /\ Phase2Inv(s)' /\ RangeInv(s)' /\ VectorInv(s)'
  BY <1>3 DEF MapInv, ReduceInv, ScanInv, Phase2Inv, RangeInv, VectorInv
<1> QED
  BY <1>7, <1>8, <1>9 DEF SliceData

\* What is known of the slices is kept.
LEMMA DataStep ==
  ASSUME Types, Control, Arrays, Positions, Frames, Data, [Next]_vars
  PROVE  Data'
<1>1. ASSUME UNCHANGED <<input, stage, slices, info, buffer, sub, conflicts, counts, survivors,
                         frame, call, complete>>
      PROVE  Data'
  <2>1. InCall' = InCall /\ Forked' = Forked
    BY <1>1, SameKernel DEF InCall
  <2>2. \A t \in slices : SliceData(t) => SliceData(t)'
    BY <1>1, <2>1, SameData
  <2> QED
    BY <1>1, <2>1, <2>2 DEF Data
<1>2. CASE UNCHANGED vars
  BY <1>1, <1>2 DEF vars, avars, kvars
<1>3. CASE Fork
  <2>1. slices' = 0..(NumSlices - 1)
    BY <1>3, ForkBounds DEF Types
  <2> QED
    BY <1>3, <2>1, ForkData DEF Data
<1>4. CASE ForkJoinDone
  BY <1>1, <1>4, ForkJoinDoneSteps DEF avars
<1>5. CASE SecondPhase
  <2>1. slices' = 0..(NumSlices - 1) /\ stage = "fork1" /\ stage' = "fork2"
    BY <1>5, SecondPhaseSteps
  <2>2. slices' = slices
    BY <2>1 DEF Control, Forked
  <2>3. \A t \in slices : SliceData(t)'
    BY <1>5, <2>1, Phase2Data, CopyData DEF SecondPhase
  <2> QED
    BY <2>2, <2>3 DEF Data
<1>6. CASE Finish
  <2>1. stage' = "returned"
    BY <1>6, FinishSteps
  <2> QED
    BY <2>1 DEF Data, Forked
<1>7. ASSUME NEW s \in Slice, NEW mode \in CallMode, Enter(s, mode)
      PROVE  Data'
  <2>1. /\ Forked /\ InCall' = InCall \cup {s}
        /\ \A t \in Slice \ {s} : frame'[t] = frame[t]
        /\ UNCHANGED <<input, stage, info, buffer, sub, conflicts, counts, survivors, slices,
                       complete>>
    BY <1>7, EnterSteps
  <2>2. SliceData(s)'
    BY <1>7, EnterData
  <2>3. \A t \in slices \ {s} : SliceData(t) => SliceData(t)'
    <3> SUFFICES ASSUME NEW t \in slices \ {s}, SliceData(t) PROVE SliceData(t)'
      OBVIOUS
    <3>1. frame'[t] = frame[t] /\ (t \in InCall' <=> t \in InCall)
      BY <2>1 DEF Types
    <3> QED
      BY <2>1, <3>1, SameData
  <2> QED
    BY <2>1, <2>2, <2>3 DEF Data
<1>8. ASSUME NEW s \in Slice, Work(s)
      PROVE  Data'
  <2>1. UNCHANGED kvars
    BY <1>8, WorkSteps
  <2>2. \A t \in slices : SliceData(t)'
    BY <1>8, WorkData
  <2> QED
    BY <2>1, <2>2 DEF Data, kvars
<1>9. ASSUME NEW s \in Slice, Quit(s)
      PROVE  Data'
  <2>1. /\ s \in InCall /\ InCall' = InCall \ {s} /\ complete' \subseteq complete \cup {s}
        /\ frame' = [frame EXCEPT ![s] = NoFrame]
        /\ UNCHANGED <<input, stage, info, buffer, sub, conflicts, counts, survivors, slices>>
    BY <1>9, QuitSteps
  <2>2. SliceData(s)'
    BY <1>9, QuitData
  <2>3. Forked
    BY <2>1, Running
  <2>4. \A t \in slices \ {s} : SliceData(t) => SliceData(t)'
    <3> SUFFICES ASSUME NEW t \in slices \ {s}, SliceData(t) PROVE SliceData(t)'
      OBVIOUS
    <3>1. frame'[t] = frame[t] /\ (t \in InCall' <=> t \in InCall)
          /\ (t \in complete' => t \in complete)
      BY <2>1 DEF Types
    <3> QED
      BY <2>1, <3>1, SameData
  <2> QED
    BY <2>1, <2>2, <2>3, <2>4 DEF Data
<1> QED
  BY <1>2, <1>3, <1>4, <1>5, <1>6, <1>7, <1>8, <1>9, NextSteps

-----------------------------------------------------------------------------
(* The arrays.                                                             *)

\* Writing into an array.
LEMMA Written ==
  ASSUME NEW D, NEW R, NEW f \in [D -> R], NEW i, NEW v, i \in D => v \in R
  PROVE  [f EXCEPT ![i] = v] \in [D -> R]
  OBVIOUS

\* Calls write sequences.
LEMMA WorkArrays ==
  ASSUME Types, Control, Arrays, Positions, Frames, Data, NEW s \in Slice, Work(s)
  PROVE  Arrays'
<1>1. /\ s \in InCall /\ InLoop(s) /\ UNCHANGED <<kvars, input, stage>>
  BY WorkSteps
<1>2. Forked /\ s \in slices /\ input \in Inputs /\ slices = 0..(NumSlices - 1)
  BY <1>1, Running DEF Types
<1>3. /\ frame[s].pos \in Nat /\ frame[s].i \in Nat /\ frame[s].acc \in Seq(Int)
  BY <1>2, Numerals
<1>4. frame[s].bits \subseteq Nat
  <2>1. frame[s] \in Values
    BY <1>1 DEF Types, InCall
  <2>2. MaxLength \in Nat
    BY <1>2, Arguments
  <2> QED
    BY <2>1, <2>2 DEF Values
<1>5. \A i \in Nat : Elem(i) \in Seq(Int)
  BY ElemIsRun
<1>6. \A p, q \in Seq(Int) : Func(p, q) \in Seq(Int)
  BY FuncAssociative
<1> DEFINE D == CASE kind = "range" -> 0..(outLength - 1)
                  [] kernel = "copy" -> 0..(Cardinality(input.keep) - 1)
                  [] OTHER -> 0..(length - 1)
           R == IF kind = "vector" THEN [0..(outLength - 1) -> Seq(Int)] ELSE Seq(Int)
           C == 0..(Chunks - 1)
           NewBuffer == buffer' \in [D -> Seq(Int)]
           NewSub == sub' \in [slices -> R]
           NewSurvivors == survivors' \in [C -> SUBSET Nat]
<1>7. buffer \in [D -> Seq(Int)] /\ sub \in [slices -> R] /\ survivors \in [C -> SUBSET Nat]
  BY <1>2 DEF Arrays
<1>8. SUFFICES NewBuffer /\ NewSub /\ NewSurvivors
  <2>1. kernel' = kernel /\ kind' = kind /\ outLength' = outLength /\ length' = length
        /\ Chunks' = Chunks /\ slices' = slices
    BY <1>1, SameKernel, SameInput DEF kvars
  <2> QED
    BY <1>1, <2>1, Zenon DEF Arrays
<1>9. kind = "vector" => R = [0..(outLength - 1) -> Seq(Int)]
  OBVIOUS
<1>10. kind # "vector" => R = Seq(Int)
  OBVIOUS
<1> HIDE DEF D, R, C
<1>11. CASE MapElement(s)
  <2>1. buffer' = [buffer EXCEPT ![frame[s].i] = Elem(frame[s].i)]
        /\ UNCHANGED <<sub, survivors>>
    BY <1>11 DEF MapElement
  <2> QED
    BY <1>3, <1>5, <1>7, <2>1, Written
<1>12. CASE ChunkDone(s) \/ ReduceElement(s) \/ FilterElement(s) \/ CopyChunk(s) \/ RangeSkip(s)
  <2>1. UNCHANGED <<buffer, sub, survivors>>
    BY <1>12, Zenon DEF ChunkDone, ReduceElement, FilterElement, CopyChunk, RangeSkip
  <2> QED
    BY <1>7, <2>1
<1>13. CASE ReduceChunk(s)
  <2>1. sub' = [sub EXCEPT ![s] = frame[s].acc] /\ UNCHANGED <<buffer, survivors>>
        /\ kernel = "reduce"
    BY <1>13 DEF ReduceChunk
  <2>2. kind # "vector"
    BY <1>2, <2>1, NotByIndex DEF ByIndex
  <2> QED
    BY <1>3, <1>7, <1>10, <2>1, <2>2, Written
<1>14. CASE ScanElement(s)
  <2>1. buffer' = [buffer EXCEPT ![frame[s].i] = Run(Lo(s), frame[s].i)]
        /\ Run(Lo(s), frame[s].i) \in Seq(Int)
    BY <1>14, ScanValue
  <2>2. UNCHANGED <<sub, survivors>>
    BY <1>14 DEF ScanElement
  <2> QED
    BY <1>7, <2>1, <2>2, Written
<1>15. CASE Phase2Element(s)
  <2>1. buffer' = [buffer EXCEPT ![frame[s].pos] = Func(sub[s - 1], buffer[frame[s].pos])]
        /\ UNCHANGED <<sub, survivors>> /\ kernel = "phase2"
    BY <1>15 DEF Phase2Element
  <2>2. kind # "vector"
    BY <1>2, <2>1, NotByIndex
  <2>3. s # 0
    BY <1>1, <2>1 DEF InLoop, NothingToDo
  <2>4. s - 1 \in slices
    <3>1. NumSlices \in Nat
      BY <1>2, SliceCount
    <3> QED
      BY <1>2, <2>3, <3>1
  <2>5. sub[s - 1] \in Seq(Int)
    BY <1>7, <1>10, <2>2, <2>4
  <2>6. frame[s].pos \in D => Func(sub[s - 1], buffer[frame[s].pos]) \in Seq(Int)
    BY <1>6, <1>7, <2>5
  <2> QED
    BY <1>7, <2>1, <2>6, Written
<1>16. CASE RangeElement(s)
  <2> DEFINE i == frame[s].pos
             t == targets[i]
             v == IF t \in conflicts[0] THEN Collide(Elem(i), buffer[t]) ELSE Elem(i)
  <2>1. buffer' = [buffer EXCEPT ![t] = v] /\ UNCHANGED <<sub, survivors>>
    BY <1>16 DEF RangeElement
  <2>2. t \in D => v \in Seq(Int)
    BY <1>3, <1>5, <1>6, <1>7 DEF Collide
  <2> HIDE DEF v, t
  <2> QED
    BY <1>7, <2>1, <2>2, Written
<1>17. CASE VectorElement(s)
  <2> DEFINE i == frame[s].pos
             t == targets[i]
             v == IF t \in conflicts[s] THEN Collide(Elem(i), sub[s][t]) ELSE Elem(i)
  <2>1. sub' = [sub EXCEPT ![s][t] = v] /\ UNCHANGED <<buffer, survivors>> /\ kernel = "vector"
    BY <1>17 DEF VectorElement
  <2>2. kind = "vector"
    BY <1>2, <2>1, Kernels DEF Control, Forked
  <2>3. sub[s] \in [0..(outLength - 1) -> Seq(Int)]
    BY <1>2, <1>7, <1>9, <2>2
  <2>4. t \in 0..(outLength - 1) => v \in Seq(Int)
    BY <1>3, <1>5, <1>6, <2>3 DEF Collide
  <2> HIDE DEF v, t
  <2>5. [sub[s] EXCEPT ![t] = v] \in R
    BY <1>9, <2>2, <2>3, <2>4, Written
  <2>6. sub' = [sub EXCEPT ![s] = [sub[s] EXCEPT ![t] = v]]
    BY <2>1
  <2> QED
    BY <1>7, <2>1, <2>5, <2>6, Written
<1>18. CASE FilterChunk(s)
  <2>1. survivors' = [survivors EXCEPT ![frame[s].pos] = frame[s].bits]
        /\ UNCHANGED <<buffer, sub>>
    BY <1>18 DEF FilterChunk
  <2> QED
    BY <1>4, <1>7, <2>1, Written
<1>19. CASE CopyElement(s)
  <2>1. /\ buffer' = buffer \/ buffer' = [buffer EXCEPT ![frame[s].count] = Elem(frame[s].i)]
        /\ UNCHANGED <<sub, survivors>>
    BY <1>19 DEF CopyElement
  <2>2. [buffer EXCEPT ![frame[s].count] = Elem(frame[s].i)] \in [D -> Seq(Int)]
    BY <1>3, <1>5, <1>7, Written
  <2> QED
    BY <1>7, <2>1, <2>2
<1> QED
  BY <1>11, <1>12, <1>13, <1>14, <1>15, <1>16, <1>17, <1>18, <1>19, Zenon
  DEF Work, NextIndex, NextChunk, NextElement

\* The arrays that Fork allocates.
LEMMA ForkArrays ==
  ASSUME Types, Fork
  PROVE  Arrays'
<1>0. input \in Inputs
  BY DEF Types
<1>1. input' = input /\ stage' = "fork1" /\ slices' = 0..(NumSlices - 1)
  BY <1>0, ForkBounds
<1>2. /\ kind' = kind /\ outLength' = outLength /\ length' = length /\ Chunks' = Chunks
  BY <1>1, SameInput
<1>3. kind \in Kind /\ kernel' = kind
  BY <1>0, <1>1, <1>2, Arguments DEF kernel
<1>4. /\ buffer' = (IF kind = "range" THEN NewDenseArray(outLength, Default)
                                      ELSE NewDenseArray(length, Hole))
      /\ sub' = (IF kind = "vector"
                 THEN [s \in 0..(NumSlices - 1) |->
                         NewDenseArray(outLength, IF s = 0 THEN Default ELSE Hole)]
                 ELSE NewDenseArray(NumSlices, Hole))
      /\ survivors' = NewDenseArray(Chunks, {})
  BY DEF Fork
<1>5. Hole \in Seq(Int) /\ Default \in Seq(Int)
  BY DEF Hole, Default
<1>6. \A n, v, R : v \in R => NewDenseArray(n, v) \in [0..(n - 1) -> R]
  BY DEF NewDenseArray
<1>7. /\ buffer' \in [IF kind = "range" THEN 0..(outLength - 1) ELSE 0..(length - 1) -> Seq(Int)]
      /\ survivors' \in [0..(Chunks - 1) -> SUBSET Nat]
  BY <1>4, <1>5, <1>6
<1>8. sub' \in [slices' -> IF kind = "vector" THEN [0..(outLength - 1) -> Seq(Int)] ELSE Seq(Int)]
  <2>1. CASE kind = "vector"
    BY <1>1, <1>4, <1>5, <1>6, <2>1
  <2>2. CASE kind # "vector"
    BY <1>1, <1>4, <1>5, <1>6, <2>2
  <2> QED
    BY <2>1, <2>2
<1>9. kernel' # "copy"
  BY <1>3 DEF Kind
<1> QED
  BY <1>2, <1>7, <1>8, <1>9 DEF Arrays

\* The arrays of the second phases: as many places as the filter keeps.
LEMMA SecondPhaseArrays ==
  ASSUME Types, Control, Arrays, Positions, Data, SecondPhase
  PROVE  Arrays'
<1>1. /\ input' = input /\ stage = "fork1" /\ stage' = "fork2" /\ outcome = "done"
      /\ slices' = 0..(NumSlices - 1) /\ survivors' = survivors
      /\ \/ ScanIntermediates /\ kind = "scan" /\ UNCHANGED buffer
         \/ CompressSurvivors /\ kind = "filter" /\ UNCHANGED <<info, sub>>
  BY SecondPhaseSteps
<1>2. Forked /\ slices' = slices /\ complete = slices /\ input \in Inputs /\ kernel = kind
  BY <1>1, Kernels DEF Control, Forked, Types
<1>3. /\ kind' = kind /\ outLength' = outLength /\ length' = length /\ Chunks' = Chunks
  BY <1>1, SameInput
<1>4. /\ kernel # "copy" /\ kind \notin {"range", "vector"}
      /\ buffer \in [0..(length - 1) -> Seq(Int)] /\ sub \in [slices -> Seq(Int)]
      /\ survivors \in [0..(Chunks - 1) -> SUBSET Nat]
  BY <1>1, <1>2 DEF Arrays
<1>5. CASE ScanIntermediates
  <2>1. kernel' = "phase2"
    BY <1>1, <1>3, <1>5 DEF kernel, ScanIntermediates
  <2>2. \A s \in slices : sub'[s] \in Seq(Int)
    <3> SUFFICES ASSUME NEW s \in slices PROVE sub'[s] \in Seq(Int)
      OBVIOUS
    <3>1. Phase2Inv(s)'
      BY <1>5, Phase2Data DEF SliceData
    <3>2. sub'[s] = Run(0, At(Bound(s + 1))' - 1)
      BY <2>1, <3>1 DEF Phase2Inv
    <3>3. At(Bound(s + 1))' = At(Bound(s + 1))
      <4>1. Bound(s + 1)' = Bound(s + 1)
        BY <1>1, SameInput
      <4> QED
        BY <1>3, <4>1 DEF At
    <3>4. At(Bound(s + 1)) \in Nat
      BY <1>1, <1>2, <1>5, ScanEnds DEF Control, ScanIntermediates
    <3>5. At(Bound(s + 1)) - 1 \in Int /\ 0 <= (At(Bound(s + 1)) - 1) + 1
      BY <3>4
    <3>6. Run(0, At(Bound(s + 1)) - 1) \in Seq(Int)
      BY <3>5, RunType
    <3> QED
      BY <3>2, <3>3, <3>6
  <2>3. DOMAIN sub' = 0..(NumSlices - 1) /\ sub' = [s \in slices |-> sub'[s]]
    BY <1>1, <1>2, <1>5 DEF ScanIntermediates
  <2>4. sub' \in [slices -> Seq(Int)]
    BY <2>2, <2>3
  <2>5. buffer' = buffer
    BY <1>5 DEF ScanIntermediates
  <2> QED
    BY <1>1, <1>2, <1>3, <1>4, <2>1, <2>4, <2>5 DEF Arrays
<1>6. CASE CompressSurvivors /\ kind = "filter" /\ UNCHANGED <<info, sub>>
  <2>1. kernel' = "copy"
    BY <1>1, <1>3, <1>6 DEF kernel
  <2>2. NumSlices \in 0..NumSlices
    BY <1>2, SliceCount
  <2>3. CountBefore(NumSlices) = RankOf(Lo(NumSlices))
    BY <1>2, <1>6, <2>2, CountBefores
  <2>4. Lo(NumSlices) = Chunks * ChunkSize
    BY <1>2, <1>6, Bounds DEF Lo, Items
  <2>5. CountBefore(NumSlices) = Cardinality(input.keep)
    BY <1>2, <2>3, <2>4, KeepRanks
  <2>6. buffer' = NewDenseArray(CountBefore(NumSlices), Hole)
    BY <1>1, <1>6 DEF CompressSurvivors, Finished
  <2>7. buffer' \in [0..(Cardinality(input.keep) - 1) -> Seq(Int)]
    BY <2>5, <2>6 DEF NewDenseArray, Hole
  <2> QED
    BY <1>1, <1>2, <1>3, <1>4, <1>6, <2>1, <2>7 DEF Arrays
<1> QED
  BY <1>1, <1>5, <1>6

\* The arrays keep their types.
LEMMA ArraysStep ==
  ASSUME Types, Control, Arrays, Positions, Frames, Data, [Next]_vars
  PROVE  Arrays'
<1>1. ASSUME UNCHANGED <<input, stage, slices, buffer, sub, survivors>>
      PROVE  Arrays'
  <2>1. /\ kernel' = kernel /\ kind' = kind /\ outLength' = outLength /\ length' = length
        /\ Chunks' = Chunks /\ Forked' = Forked
    BY <1>1, SameKernel, SameInput
  <2> QED
    BY <1>1, <2>1 DEF Arrays
<1>2. CASE UNCHANGED vars
  BY <1>1, <1>2 DEF vars, avars, kvars
<1>3. CASE Fork
  BY <1>3, ForkArrays
<1>4. CASE ForkJoinDone
  BY <1>1, <1>4, ForkJoinDoneSteps DEF avars
<1>5. CASE SecondPhase
  BY <1>5, SecondPhaseArrays
<1>6. CASE Finish
  <2>1. stage' = "returned"
    BY <1>6, FinishSteps
  <2> QED
    BY <2>1 DEF Arrays, Forked
<1>7. ASSUME NEW s \in Slice, NEW mode \in CallMode, Enter(s, mode)
      PROVE  Arrays'
  BY <1>1, <1>7, EnterSteps
<1>8. ASSUME NEW s \in Slice, Work(s)
      PROVE  Arrays'
  BY <1>8, WorkArrays
<1>9. ASSUME NEW s \in Slice, Quit(s)
      PROVE  Arrays'
  BY <1>1, <1>9, QuitSteps
<1> QED
  BY <1>2, <1>3, <1>4, <1>5, <1>6, <1>7, <1>8, <1>9, NextSteps

-----------------------------------------------------------------------------
(* Types.                                                                  *)

\* The locals of a call under way keep their types.
LEMMA WorkFrameType ==
  ASSUME Types, Control, Arrays, Positions, Frames, Data, NEW s \in Slice, Work(s)
  PROVE  frame' \in [Slice -> Values]
<1>1. frame \in [Slice -> Values] /\ frame[s] \in Values
  BY DEF Types
<1>2. /\ s \in InCall /\ \A t \in Slice \ {s} : frame'[t] = frame[t]
  BY WorkSteps
<1>3. Forked /\ s \in slices /\ input \in Inputs
  BY <1>2, Running DEF Types
<1>4. /\ frame[s].pos \in Nat /\ frame[s].last \in Nat /\ frame[s].i \in Nat
      /\ frame[s].count \in Nat /\ frame[s].acc \in Seq(Int)
      /\ frame[s].bits \in SUBSET (0..(MaxLength - 1)) /\ ChunkSize \in Nat
  BY <1>1, <1>3, Numerals DEF Values
<1>5. (frame[s].pos + 1) * ChunkSize \in Nat /\ frame[s].pos + 1 \in Nat /\ frame[s].i + 1 \in Nat
      /\ frame[s].count + 1 \in Nat
  BY <1>4
<1>6. Elem(frame[s].i) \in Seq(Int) /\ Func(frame[s].acc, Elem(frame[s].i)) \in Seq(Int)
  <2>1. Elem(frame[s].i) \in Seq(Int)
    <3>1. frame[s].i \in Int
      BY <1>4
    <3> QED
      BY <3>1, ElemIsRun
  <2> QED
    BY <1>4, <2>1, FuncAssociative
<1>7. CASE MapElement(s)
  BY <1>1, <1>4, <1>5, <1>7 DEF MapElement, Values
<1>8. CASE ReduceElement(s)
  <2> DEFINE acc == IF FirstChunk(s) /\ frame[s].i = frame[s].pos * ChunkSize
                    THEN Elem(frame[s].i) ELSE Func(frame[s].acc, Elem(frame[s].i))
  <2>1. frame' = [frame EXCEPT ![s].acc = acc, ![s].i = frame[s].i + 1]
    <3>1. frame' = [frame EXCEPT ![s].acc = acc, ![s].i = @ + 1]
      BY <1>8 DEF ReduceElement
    <3> HIDE DEF acc
    <3> QED
      BY <1>1, <3>1 DEF Values
  <2>2. acc \in Seq(Int)
    BY <1>6
  <2> HIDE DEF acc
  <2> QED
    BY <1>1, <1>4, <1>5, <2>1, <2>2 DEF Values
<1>9. CASE ScanElement(s)
  <2>1. /\ frame' = [frame EXCEPT ![s].acc = Run(Lo(s), frame[s].i), ![s].i = frame[s].i + 1]
        /\ Run(Lo(s), frame[s].i) \in Seq(Int)
    BY <1>9, ScanValue
  <2> QED
    BY <1>1, <1>4, <1>5, <2>1 DEF Values
<1>10. CASE FilterElement(s)
  <2> DEFINE i == frame[s].i
             bits == IF i \in input.keep THEN frame[s].bits \cup {i} ELSE frame[s].bits
             count == IF i \in input.keep THEN frame[s].count + 1 ELSE frame[s].count
  <2>1. frame' = [frame EXCEPT ![s].bits = bits, ![s].count = count, ![s].i = i + 1]
    BY <1>1, <1>10 DEF FilterElement, Values
  <2>2. bits \in SUBSET (0..(MaxLength - 1))
    <3>1. input.keep \subseteq 0..(length - 1) /\ length <= MaxLength
          /\ length \in Nat /\ MaxLength \in Nat
      BY <1>3, Arguments
    <3> QED
      BY <1>4, <3>1
  <2>3. count \in Nat
    BY <1>4
  <2> HIDE DEF bits, count
  <2> QED
    BY <1>1, <1>4, <1>5, <2>1, <2>2, <2>3 DEF Values
<1>11. CASE CopyElement(s)
  <2> DEFINE count == IF frame[s].i \in survivors[frame[s].pos]
                      THEN frame[s].count + 1 ELSE frame[s].count
  <2>1. frame' = [frame EXCEPT ![s].count = count, ![s].i = frame[s].i + 1]
    BY <1>1, <1>11 DEF CopyElement, Values
  <2>2. count \in Nat
    BY <1>4
  <2> HIDE DEF count
  <2> QED
    BY <1>1, <1>4, <1>5, <2>1, <2>2 DEF Values
<1>12. CASE NextChunk(s) \/ NextIndex(s)
  <2>1. Advance(s)
    BY <1>12, WorkSteps DEF Work
  <2>2. frame' = [frame EXCEPT ![s].pos = frame[s].pos + 1,
                               ![s].i = (frame[s].pos + 1) * ChunkSize,
                               ![s].bits = {}]
    BY <1>1, <2>1 DEF Advance, Values
  <2> QED
    BY <1>1, <1>4, <1>5, <2>2 DEF Values
<1>13. CASE CopyChunk(s)
  BY <1>1, <1>4, <1>5, <1>13 DEF CopyChunk, Values
<1>14. CASE RangeSkip(s)
  BY <1>1, <1>4, <1>5, <1>14 DEF RangeSkip, Values
<1> QED
  BY <1>7, <1>8, <1>9, <1>10, <1>11, <1>12, <1>13, <1>14, Zenon DEF Work, NextElement

\* What a call records keeps its type.
LEMMA WorkTypes ==
  ASSUME Types, Control, Arrays, Positions, Frames, Data, NEW s \in Slice, Work(s)
  PROVE  /\ info' \in [DOMAIN info' -> [start : Nat, end : Nat, pos : Nat]]
         /\ DOMAIN info' = DOMAIN info
         /\ conflicts' \in [Slice -> SUBSET (0..(MaxLength - 1))]
         /\ counts' \in [Slice -> 0..MaxLength]
<1>1. /\ s \in InCall /\ InLoop(s) /\ DOMAIN info' = DOMAIN info
      /\ NextElement(s) \/ CopyChunk(s) \/ RangeSkip(s) => info' = info
  BY WorkSteps
<1>2. /\ info \in [DOMAIN info -> [start : Nat, end : Nat, pos : Nat]]
      /\ conflicts \in [Slice -> SUBSET (0..(MaxLength - 1))]
      /\ counts \in [Slice -> 0..MaxLength] /\ input \in Inputs
  BY DEF Types
<1>3. Forked /\ s \in slices /\ s \in DOMAIN info
  BY <1>1, Running
<1>4. info' \in [DOMAIN info' -> [start : Nat, end : Nat, pos : Nat]]
  <2>1. CASE info' = info
    BY <1>2, <2>1
  <2>2. CASE NextChunk(s) \/ NextIndex(s)
    <3>1. info' = [info EXCEPT ![s].pos = frame[s].pos + 1] /\ frame[s].pos \in Nat
      BY <1>3, <2>2, AdvanceStep, Numerals
    <3> QED
      BY <1>2, <1>3, <3>1
  <2> QED
    BY <1>1, <2>1, <2>2 DEF Work
<1>5. conflicts' \in [Slice -> SUBSET (0..(MaxLength - 1))]
  <2>1. CASE RangeElement(s) \/ VectorElement(s)
    <3>1. kernel \in {"range", "vector"} /\ CheckedTarget(frame[s].pos)
          /\ \E u : conflicts' = [conflicts EXCEPT ![u] = @ \cup {targets[frame[s].pos]}]
      BY <2>1 DEF RangeElement, VectorElement
    <3>2. frame[s].pos \in 0..(length - 1) /\ targets \in [0..(length - 1) -> Nat]
      BY <1>1, <3>1, ScatterPlace
    <3>3. targets[frame[s].pos] \in Nat /\ targets[frame[s].pos] < outLength
      BY <3>1, <3>2 DEF CheckedTarget
    <3>4. outLength \in Nat /\ outLength <= MaxLength /\ MaxLength \in Nat
      BY <1>2, Arguments
    <3>5. targets[frame[s].pos] \in 0..(MaxLength - 1)
      BY <3>3, <3>4
    <3> QED
      BY <1>2, <3>1, <3>5
  <2>2. CASE ~(RangeElement(s) \/ VectorElement(s))
    <3>1. conflicts' = conflicts
      BY <2>2, Zenon DEF Work, NextIndex, NextChunk, NextElement, MapElement, ReduceElement,
         ScanElement, FilterElement, CopyElement, ChunkDone, ReduceChunk, FilterChunk,
         CopyChunk, Phase2Element, RangeSkip
    <3> QED
      BY <1>2, <3>1
  <2> QED
    BY <2>1, <2>2
<1>6. counts' \in [Slice -> 0..MaxLength]
  <2>1. CASE FilterChunk(s)
    <3>1. counts' = [counts EXCEPT ![s] = frame[s].count] /\ kernel = "filter" /\ NextChunk(s)
      BY <2>1 DEF FilterChunk, NextChunk
    <3>2. InChunk(s)
      BY <3>1, AdvanceStep
    <3>3. frame[s].count = RankOf(frame[s].i) - RankOf(Lo(s))
      BY <1>3, <3>1, <3>2 DEF Data, SliceData, FilterInv
    <3>4. frame[s].i \in Nat /\ Lo(s) \in Nat /\ frame[s].count \in Nat
      BY <1>3, Numerals
    <3>5. RankOf(frame[s].i) \in 0..length /\ RankOf(Lo(s)) \in 0..length
      BY <1>2, <3>4, KeepRanks
    <3>6. length \in Nat /\ length <= MaxLength /\ MaxLength \in Nat
      BY <1>2, Arguments
    <3>7. frame[s].count \in 0..MaxLength
      BY <3>3, <3>4, <3>5, <3>6
    <3> QED
      BY <1>2, <3>1, <3>7
  <2>2. CASE ~FilterChunk(s)
    <3>1. counts' = counts
      BY <2>2, Zenon DEF Work, NextIndex, NextChunk, NextElement, MapElement, ReduceElement,
         ScanElement, FilterElement, CopyElement, ChunkDone, ReduceChunk, RangeElement,
         VectorElement, CopyChunk, Phase2Element, RangeSkip
    <3> QED
      BY <1>2, <3>1
  <2> QED
    BY <2>1, <2>2
<1> QED
  BY <1>1, <1>4, <1>5, <1>6

\* A call begins with values of the right types.
LEMMA EnterFrameType ==
  ASSUME Types, Control, Arrays, Positions, Frames, Data,
         NEW s \in Slice, NEW mode \in CallMode, Enter(s, mode)
  PROVE  frame' \in [Slice -> Values]
<1> DEFINE from == IF kernel = "copy" THEN info[s].start ELSE info[s].pos
           acc == IF kernel = "reduce" THEN sub[s] ELSE Hole
           count == IF kernel = "copy" THEN CountBefore(s) ELSE counts[s]
           r == [pos |-> from, last |-> StopAt(s, mode), i |-> from * ChunkSize,
                 acc |-> acc, bits |-> {}, count |-> count]
<1>1. /\ Forked /\ s \in slices
      /\ \A t \in Slice \ {s} : frame'[t] = frame[t]
      /\ DOMAIN frame' = Slice /\ frame' = [frame EXCEPT ![s] = frame'[s]]
  BY EnterSteps
<1>2. frame'[s] = r
  BY EnterSteps, Zenon
<1>3. frame \in [Slice -> Values] /\ input \in Inputs
  BY DEF Types
<1>4. /\ info[s].start \in Nat /\ info[s].pos \in Nat /\ ChunkSize \in Nat \ {0}
      /\ counts[s] \in 0..MaxLength /\ s \in 0..(NumSlices - 1) /\ NumSlices \in Nat \ {0}
  BY <1>1, Numerals
<1>5. StopAt(s, mode) \in Nat
  BY <1>1, StopAtBounds DEF Positions
<1>6. from \in Nat /\ from * ChunkSize \in Nat
  BY <1>4
<1>7. acc \in Seq(Int)
  <2>1. kernel = "reduce" => kind # "vector"
    BY <1>1, NotByIndex DEF ByIndex
  <2>2. kernel = "reduce" => sub[s] \in Seq(Int)
    BY <1>1, <2>1 DEF Arrays
  <2>3. Hole \in Seq(Int)
    BY DEF Hole
  <2> QED
    BY <2>2, <2>3
<1>8. count \in Nat
  <2>1. CASE kernel = "copy"
    <3>1. s \in 0..NumSlices
      BY <1>4
    <3>2. CountBefore(s) = RankOf(Lo(s)) /\ Lo(s) \in Nat
      BY <1>1, <2>1, <3>1, CountBefores
    <3>3. RankOf(Lo(s)) \in 0..length
      BY <1>3, <3>2, KeepRanks
    <3> QED
      BY <2>1, <3>2, <3>3
  <2>2. CASE kernel # "copy"
    BY <1>4, <2>2
  <2> QED
    BY <2>1, <2>2
<1> HIDE DEF from, acc, count
<1>9. r \in Values
  BY <1>5, <1>6, <1>7, <1>8 DEF Values
<1> HIDE DEF r
<1> QED
  BY <1>1, <1>2, <1>3, <1>9

\* The information Fork gives the slices, and that of phase 2 of a scan.
LEMMA PhaseInfo ==
  ASSUME Types, Control, Positions, Fork \/ ScanIntermediates
  PROVE  /\ info' \in [DOMAIN info' -> [start : Nat, end : Nat, pos : Nat]]
         /\ DOMAIN info' = 0..(NumSlices - 1)
         /\ \A s \in DOMAIN info' : info'[s].start <= info'[s].end
<1>1. input \in Inputs
  BY DEF Types
<1>2. NumSlices \in Nat \ {0} /\ Items \in Nat /\ length \in Nat /\ ChunkSize \in Nat \ {0}
  BY <1>1, SliceCount, Arguments
<1>3. \A s \in 0..(NumSlices - 1) :
         Bound(s) \in Nat /\ Bound(s + 1) \in Nat /\ Bound(s) <= Bound(s + 1)
  <2> SUFFICES ASSUME NEW s \in 0..(NumSlices - 1)
               PROVE  Bound(s) \in Nat /\ Bound(s + 1) \in Nat /\ Bound(s) <= Bound(s + 1)
    OBVIOUS
  <2>1. s \in 0..NumSlices /\ s + 1 \in 0..NumSlices /\ s <= s + 1
    BY <1>2
  <2>2. Bound(s) \in 0..Items /\ Bound(s + 1) \in 0..Items
    BY <1>1, <2>1, Bounds
  <2>3. Bound(s) <= Bound(s + 1)
    BY <1>1, <2>1, Bounds
  <2> QED
    BY <1>2, <2>2, <2>3
<1>4. CASE Fork
  <2>1. CASE kind = "range"
    <3>1. info' = [s \in 0..(NumSlices - 1) |-> [start |-> 0, end |-> length, pos |-> 0]]
      BY <1>1, <1>4, <2>1, ForkBounds
    <3> QED
      BY <1>2, <3>1
  <2>2. CASE kind # "range"
    <3>1. info' = [s \in 0..(NumSlices - 1) |->
                     [start |-> Bound(s), end |-> Bound(s + 1), pos |-> Bound(s)]]
      BY <1>1, <1>4, <2>2, ForkBounds
    <3> QED
      BY <1>3, <3>1
  <2> QED
    BY <2>1, <2>2
<1>5. CASE ScanIntermediates
  <2>1. /\ stage = "fork1"
        /\ info' = [t \in 0..(NumSlices - 1) |->
                 [start |-> info[t].start,
                  pos |-> info[t].start * ChunkSize,
                  end |-> IF t = NumSlices - 1
                          THEN MinOf(info[t].end * ChunkSize, length)
                          ELSE info[t].end * ChunkSize]]
    BY <1>5 DEF ScanIntermediates
  <2>2. slices = 0..(NumSlices - 1) /\ DOMAIN info = slices
    BY <2>1 DEF Control, Forked
  <2>3. \A s \in slices : info[s].start \in Nat /\ info[s].end \in Nat
    BY <2>2 DEF Types
  <2>4. \A n \in Nat : n * ChunkSize \in Nat /\ MinOf(n * ChunkSize, length) \in Nat
    BY <1>2 DEF MinOf
  <2>5. \A s \in slices :
           /\ info'[s] = [start |-> info[s].start,
                          pos |-> info[s].start * ChunkSize,
                          end |-> IF s = NumSlices - 1
                                  THEN MinOf(info[s].end * ChunkSize, length)
                                  ELSE info[s].end * ChunkSize]
    BY <2>1, <2>2
  <2>6. \A s \in slices : /\ info'[s] \in [start : Nat, end : Nat, pos : Nat]
                          /\ info'[s].start = info[s].start
    <3> SUFFICES ASSUME NEW s \in slices
                 PROVE  /\ info'[s] \in [start : Nat, end : Nat, pos : Nat]
                        /\ info'[s].start = info[s].start
      OBVIOUS
    <3> DEFINE e == IF s = NumSlices - 1 THEN MinOf(info[s].end * ChunkSize, length)
                    ELSE info[s].end * ChunkSize
    <3>1. info'[s] = [start |-> info[s].start, pos |-> info[s].start * ChunkSize, end |-> e]
      BY <2>5
    <3>2. e \in Nat /\ info[s].start \in Nat /\ info[s].start * ChunkSize \in Nat
      BY <2>3, <2>4
    <3> HIDE DEF e
    <3> QED
      BY <3>1, <3>2
  <2>7. DOMAIN info' = slices /\ info' = [s \in slices |-> info'[s]]
    BY <2>1, <2>2
  <2>8. \A s \in slices : info'[s].start <= info'[s].end
    <3> SUFFICES ASSUME NEW s \in slices PROVE info'[s].start <= info'[s].end
      OBVIOUS
    <3>1. info'[s].pos = Lo(s) /\ info[s].start = Bound(s) /\ Position(s)'
      BY <1>5, Phase2Position
    <3>2. info'[s].pos <= info'[s].end
      BY <3>1 DEF Position
    <3>3. info'[s].start = Bound(s)
      BY <2>6, <3>1
    <3>4. Bound(s) <= Lo(s) /\ Lo(s) \in Nat
      BY <1>2, <1>3, <2>2 DEF Lo
    <3>5. info'[s].end \in Nat /\ Bound(s) \in Nat
      BY <1>3, <2>2, <2>6
    <3> QED
      BY <3>1, <3>2, <3>3, <3>4, <3>5
  <2> QED
    BY <2>2, <2>6, <2>7, <2>8
<1> QED
  BY <1>4, <1>5

\* Every step keeps the types.
LEMMA TypesStep ==
  ASSUME Types, Control, Arrays, Positions, Frames, Data, [Next]_vars
  PROVE  Types'
<1>0. /\ input \in Inputs
      /\ slices \in SUBSET Slice /\ complete \subseteq slices
      /\ outcome \in {"idle", "running", "done", "fatal"}
      /\ stage \in {"start", "fork1", "fork2", "returned"}
      /\ call \in [Slice -> CallMode \cup {"none"}]
      /\ info \in [DOMAIN info -> [start : Nat, end : Nat, pos : Nat]]
      /\ DOMAIN info \subseteq Slice
      /\ \A s \in DOMAIN info : info[s].start <= info[s].end
      /\ \A i \in DOMAIN buffer : buffer[i] \in Seq(Int)
      /\ conflicts \in [Slice -> SUBSET (0..(MaxLength - 1))]
      /\ counts \in [Slice -> 0..MaxLength]
      /\ frame \in [Slice -> Values]
  BY DEF Types
<1>1. Arrays' /\ Control'
  BY ArraysStep, ControlStep
<1>2. Forked' => \A i \in DOMAIN buffer' : buffer'[i] \in Seq(Int)
  BY <1>1 DEF Arrays
<1>3. CASE UNCHANGED vars
  BY <1>0, <1>3 DEF vars, avars, kvars, Types
<1>4. NumSlices \in 1..MaxSlices /\ 0..(NumSlices - 1) \subseteq Slice
  <2>1. NumSlices \in 1..MaxSlices
    BY <1>0, SliceCount
  <2> QED
    BY <2>1, KernelAssumption DEF KernelAssumption, Slice
<1>5. CASE Fork
  <2>1. /\ input' = input /\ stage' = "fork1" /\ slices' = 0..(NumSlices - 1)
        /\ outcome' = "running" /\ complete' = {} /\ call' = call
        /\ UNCHANGED <<conflicts, counts, frame>>
    BY <1>0, <1>5, ForkBounds
  <2>2. /\ info' \in [DOMAIN info' -> [start : Nat, end : Nat, pos : Nat]]
        /\ DOMAIN info' = 0..(NumSlices - 1)
        /\ \A s \in DOMAIN info' : info'[s].start <= info'[s].end
    BY <1>5, PhaseInfo
  <2> QED
    BY <1>0, <1>2, <1>4, <2>1, <2>2, Zenon DEF Types, Forked
<1>6. CASE ForkJoinDone
  BY <1>0, <1>6, ForkJoinDoneSteps DEF avars, Types
<1>7. CASE SecondPhase
  <2>1. /\ input' = input /\ stage = "fork1" /\ stage' = "fork2"
        /\ outcome' = "running" /\ complete' = {} /\ call' = call
        /\ slices' = 0..(NumSlices - 1)
        /\ UNCHANGED <<conflicts, counts, frame>>
        /\ ScanIntermediates \/ info' = info
    BY <1>7, SecondPhaseSteps
  <2>2. /\ info' \in [DOMAIN info' -> [start : Nat, end : Nat, pos : Nat]]
        /\ DOMAIN info' \subseteq Slice
        /\ \A s \in DOMAIN info' : info'[s].start <= info'[s].end
    <3>1. CASE ScanIntermediates
      BY <1>4, <3>1, PhaseInfo
    <3>2. CASE info' = info
      BY <1>0, <3>2
    <3> QED
      BY <2>1, <3>1, <3>2
  <2> QED
    BY <1>0, <1>2, <1>4, <2>1, <2>2, Zenon DEF Types, Forked
<1>8. CASE Finish
  <2>1. /\ stage' = "returned"
        /\ UNCHANGED <<kvars, input, info, buffer, sub, conflicts, counts, survivors, frame>>
    BY <1>8, FinishSteps
  <2> QED
    BY <1>0, <2>1 DEF Types, kvars
<1>9. ASSUME NEW s \in Slice, NEW mode \in CallMode, Enter(s, mode)
      PROVE  Types'
  <2>1. /\ call' = [call EXCEPT ![s] = mode]
        /\ UNCHANGED <<input, stage, info, buffer, sub, conflicts, counts, survivors,
                       slices, outcome, complete>>
    BY <1>9, EnterSteps
  <2>2. frame' \in [Slice -> Values]
    BY <1>9, EnterFrameType
  <2>3. call' \in [Slice -> CallMode \cup {"none"}]
    BY <1>0, <2>1
  <2> QED
    BY <1>0, <2>1, <2>2, <2>3 DEF Types
<1>10. ASSUME NEW s \in Slice, Work(s)
       PROVE  Types'
  <2>1. /\ s \in InCall /\ UNCHANGED <<kvars, input, stage>>
        /\ \A t \in Slice \ {s} : t \in DOMAIN info => info'[t] = info[t]
        /\ NextElement(s) \/ CopyChunk(s) \/ RangeSkip(s) => info' = info
    BY <1>10, WorkSteps
  <2>2. /\ info' \in [DOMAIN info' -> [start : Nat, end : Nat, pos : Nat]]
        /\ DOMAIN info' = DOMAIN info
        /\ conflicts' \in [Slice -> SUBSET (0..(MaxLength - 1))]
        /\ counts' \in [Slice -> 0..MaxLength]
    BY <1>10, WorkTypes
  <2>3. frame' \in [Slice -> Values]
    BY <1>10, WorkFrameType
  <2>4. Forked
    BY <2>1, Running
  <2>5. Forked'
    BY <2>1, <2>4, SameKernel
  <2>6. info'[s].start = info[s].start /\ info'[s].end = info[s].end
    BY <1>10, <2>1, AdvanceStep DEF Work
  <2>7. \A t \in DOMAIN info' : info'[t].start <= info'[t].end
    BY <1>0, <2>1, <2>2, <2>6
  <2> QED
    BY <1>0, <1>2, <2>1, <2>2, <2>3, <2>5, <2>7 DEF Types, kvars
<1>11. ASSUME NEW s \in Slice, Quit(s)
       PROVE  Types'
  <2>1. /\ s \in InCall /\ call' = [call EXCEPT ![s] = "none"]
        /\ frame' = [frame EXCEPT ![s] = NoFrame]
        /\ UNCHANGED <<input, stage, info, buffer, sub, conflicts, counts, survivors, slices>>
        /\ complete' \subseteq complete \cup {s}
        /\ outcome' \in {outcome, "fatal"}
    BY <1>11, QuitSteps
  <2>2. s \in slices
    BY <2>1, Running
  <2>3. NoFrame \in Values
    BY DEF NoFrame, Values, Hole
  <2>4. frame' \in [Slice -> Values] /\ call' \in [Slice -> CallMode \cup {"none"}]
    BY <1>0, <2>1, <2>3
  <2> QED
    BY <1>0, <2>1, <2>2, <2>4 DEF Types
<1> QED
  BY <1>3, <1>5, <1>6, <1>7, <1>8, <1>9, <1>10, <1>11, NextSteps

-----------------------------------------------------------------------------
(* Errors.                                                                 *)

\* An element at which a scatter stops makes the sequential scatter throw.
LEMMA ErrorIsBad ==
  ASSUME Types, Control, Arrays, Positions, Frames, Data, NEW s \in Slice, ScatterError(s)
  PROVE  IsScatter /\ SeqThrows
<1> DEFINE i == frame[s].pos
<1>1. /\ kernel \in {"range", "vector"} /\ InLoop(s)
      /\ \/ ~CheckedTarget(i)
         \/ /\ kernel = "range" => targets[i] \in conflicts[0] /\ targets[i] \in OutputPart(s)
            /\ kernel = "vector" => targets[i] \in conflicts[s]
            /\ ~MayCollide
  BY DEF ScatterError
<1>2. s \in InCall
  BY <1>1 DEF InLoop
<1>3. /\ s \in slices /\ Forked /\ IsScatter
      /\ info[s].pos \in Nat /\ info[s].pos <= i
      /\ i \in 0..(length - 1)
      /\ kernel = "vector" => info[s].pos = i
      /\ length \in Nat /\ Bound(s) \in 0..length
  BY <1>1, <1>2, ScatterPlace
<1>4. Bad(i)
  <2>1. CASE ~CheckedTarget(i)
    BY <2>1 DEF Bad
  <2>2. CASE kernel = "range" /\ targets[i] \in conflicts[0] /\ targets[i] \in OutputPart(s)
             /\ ~MayCollide
    <3>1. conflicts[0] \cap OutputPart(s) = Targets(0, info[s].pos) \cap OutputPart(s)
      BY <1>3, <2>2 DEF Data, SliceData, RangeInv
    <3>2. targets[i] \in Targets(0, info[s].pos)
      BY <2>2, <3>1, Zenon
    <3>3. PICK h \in 0..(info[s].pos - 1) : targets[i] = targets[h]
      BY <3>2 DEF Targets
    <3>4. h \in 0..(i - 1)
      BY <1>3
    <3> QED
      BY <2>2, <3>3, <3>4 DEF Bad
  <2>3. CASE kernel = "vector" /\ targets[i] \in conflicts[s] /\ ~MayCollide
    <3>1. conflicts[s] = Targets(Bound(s), info[s].pos)
      BY <1>3, <2>3 DEF Data, SliceData, VectorInv
    <3>2. targets[i] \in Targets(Bound(s), info[s].pos)
      BY <2>3, <3>1
    <3>3. PICK h \in Bound(s)..(info[s].pos - 1) : targets[i] = targets[h]
      BY <3>2 DEF Targets
    <3>4. h \in 0..(i - 1)
      BY <1>3
    <3> QED
      BY <2>3, <3>3, <3>4 DEF Bad
  <2> QED
    BY <1>1, <2>1, <2>2, <2>3
<1> QED
  BY <1>3, <1>4 DEF SeqThrows

\* An exception leaves the operation only if the sequential code throws.
LEMMA ErrorsStep ==
  ASSUME Types, Control, Arrays, Positions, Frames, Data, Errors, [Next]_vars
  PROVE  Errors'
<1>1. ASSUME input' = input, outcome' = outcome
      PROVE  Errors'
  BY <1>1, SameInput DEF Errors
<1>2. CASE UNCHANGED vars
  BY <1>1, <1>2 DEF vars, avars, kvars
<1>3. CASE Fork
  <2>1. outcome' = "running"
    BY <1>3, ForkBounds DEF Types
  <2> QED
    BY <2>1 DEF Errors
<1>4. CASE ForkJoinDone
  BY <1>4, ForkJoinDoneSteps DEF Errors
<1>5. CASE SecondPhase
  BY <1>5, SecondPhaseSteps DEF Errors
<1>6. CASE Finish
  BY <1>1, <1>6, FinishSteps DEF kvars
<1>7. ASSUME NEW s \in Slice, NEW mode \in CallMode, Enter(s, mode)
      PROVE  Errors'
  BY <1>1, <1>7, EnterSteps
<1>8. ASSUME NEW s \in Slice, Work(s)
      PROVE  Errors'
  BY <1>1, <1>8, WorkSteps DEF kvars
<1>9. ASSUME NEW s \in Slice, Quit(s)
      PROVE  Errors'
  <2>1. input' = input /\ (outcome' = outcome \/ ScatterError(s))
    BY <1>9, QuitSteps
  <2>2. CASE ScatterError(s)
    BY <2>1, <2>2, ErrorIsBad, SameInput DEF Errors
  <2> QED
    BY <1>1, <2>1, <2>2
<1> QED
  BY <1>2, <1>3, <1>4, <1>5, <1>6, <1>7, <1>8, <1>9, NextSteps

-----------------------------------------------------------------------------
(* Results.                                                                *)

\* Every element is in a slice.
LEMMA InASlice ==
  ASSUME input \in Inputs, kind # "vector", NEW i \in 0..(length - 1)
  PROVE  \E s \in 0..(NumSlices - 1) : InSlice(s, i)
<1> DEFINE c == i \div ChunkSize
<1>1. /\ ChunkSize \in Nat \ {0} /\ length \in Nat /\ i \in Nat /\ i < length
      /\ NumSlices \in Nat \ {0} /\ Chunks \in Nat /\ Items = Chunks
  BY Arguments, SliceCount DEF Items
<1>2. c \in Nat /\ c * ChunkSize <= i /\ i < (c + 1) * ChunkSize
  <2>1. c \in Nat /\ i % ChunkSize \in 0..(ChunkSize - 1) /\ i = ChunkSize * c + (i % ChunkSize)
    BY <1>1, Division
  <2> HIDE DEF c
  <2>2. (c + 1) * ChunkSize = ChunkSize * c + ChunkSize /\ c * ChunkSize = ChunkSize * c
        /\ ChunkSize * c \in Nat
    BY <1>1, <2>1, Distribute
  <2> QED
    BY <1>1, <2>1, <2>2
<1> HIDE DEF c
<1>3. c < Chunks
  <2> SUFFICES ASSUME Chunks <= c PROVE FALSE
    BY <1>1, <1>2
  <2>1. At(Chunks) = length /\ At(Chunks) <= Chunks * ChunkSize
    BY <1>1, ChunkEnds
  <2>2. Chunks * ChunkSize <= c * ChunkSize
    BY <1>1, <1>2, ChunkEnds
  <2>3. Chunks * ChunkSize \in Nat /\ c * ChunkSize \in Nat
    BY <1>1, <1>2
  <2> QED
    BY <1>1, <1>2, <2>1, <2>2, <2>3
<1>4. PICK s \in 0..(NumSlices - 1) : Bound(s) <= c /\ c < Bound(s + 1)
  <2>1. c \in 0..(Chunks - 1)
    BY <1>1, <1>2, <1>3
  <2> QED
    BY <1>1, <2>1, InSomeSlice DEF Bound
<1>5. Bound(s) \in Nat /\ Bound(s + 1) \in Nat /\ c + 1 <= Bound(s + 1) /\ c + 1 \in Nat
  <2>1. s \in 0..NumSlices /\ s + 1 \in 0..NumSlices
    BY <1>1
  <2>2. Bound(s) \in 0..Items /\ Bound(s + 1) \in 0..Items
    BY <2>1, Bounds
  <2> QED
    BY <1>1, <1>2, <1>4, <2>2
<1>6. Lo(s) <= i
  <2>1. Bound(s) * ChunkSize <= c * ChunkSize
    BY <1>2, <1>4, <1>5, ChunkEnds
  <2>2. Bound(s) * ChunkSize \in Nat /\ c * ChunkSize \in Nat
    BY <1>1, <1>2, <1>5
  <2> QED
    BY <1>1, <1>2, <2>1, <2>2 DEF Lo
<1>7. i < At(Bound(s + 1))
  <2>1. (c + 1) * ChunkSize <= Bound(s + 1) * ChunkSize
    BY <1>5, ChunkEnds
  <2>2. Bound(s + 1) * ChunkSize \in Nat /\ (c + 1) * ChunkSize \in Nat
    BY <1>1, <1>5
  <2> QED
    BY <1>1, <1>2, <2>1, <2>2 DEF At, MinOf
<1> QED
  BY <1>6, <1>7 DEF InSlice

\* When ForkJoin() is over no call is under way and every slice is complete.
LEMMA WhenDone ==
  ASSUME Types, Control, Positions, Data, Forked, outcome = "done"
  PROVE  /\ InCall = {} /\ complete = slices /\ slices = 0..(NumSlices - 1) /\ ~TooSmall
         /\ input \in Inputs /\ NumSlices \in Nat \ {0}
         /\ stage = "fork1" => kernel = kind
         /\ stage = "fork2" => kind \in {"scan", "filter"}
         /\ stage = "fork2" /\ kind = "scan" => kernel = "phase2"
         /\ stage = "fork2" /\ kind = "filter" => kernel = "copy"
         /\ \A s \in slices : SliceData(s) /\ ~InChunk(s)
         /\ \A s \in slices : kernel \notin {"phase2", "range"} =>
               info[s].pos = Bound(s + 1) /\ info[s].start = Bound(s)
         /\ \A s \in slices : kernel = "phase2" =>
               s = 0 \/ info[s].pos = At(Bound(s + 1))
<1>1. /\ InCall = {} /\ complete = slices /\ slices = 0..(NumSlices - 1) /\ ~TooSmall
      /\ input \in Inputs /\ (stage = "fork2" => kind \in {"scan", "filter"})
  BY DEF Types, Control
<1>2. /\ stage = "fork1" => kernel = kind
      /\ stage = "fork2" /\ kind = "scan" => kernel = "phase2"
      /\ stage = "fork2" /\ kind = "filter" => kernel = "copy"
  BY <1>1, Kernels DEF Forked
<1>3. \A s \in slices : SliceData(s) /\ ~InChunk(s) /\ Position(s)
  BY <1>1 DEF Data, InChunk, Positions
<1>4. kernel \notin {"phase2", "range"} => kind # "range"
  BY <1>1, <1>2 DEF Forked
<1>5. kernel = "phase2" => kind # "range"
  BY NotByIndex
<1> QED
  BY <1>1, <1>2, <1>3, <1>4, <1>5, SliceCount DEF Position, From, To

\* A map or a build has written every element.
LEMMA MapResult ==
  ASSUME Types, Control, Arrays, Positions, Data, outcome = "done", stage = "fork1",
         kind \in {"map", "build"}
  PROVE  Returned(buffer) = Sequential
<1>0. Forked
  BY DEF Forked
<1>1. /\ slices = 0..(NumSlices - 1) /\ input \in Inputs /\ kernel = kind
      /\ \A s \in slices : SliceData(s) /\ ~InChunk(s) /\ info[s].pos = Bound(s + 1)
  BY <1>0, WhenDone
<1>2. buffer \in [0..(length - 1) -> Seq(Int)]
  BY <1>0, <1>1 DEF Arrays
<1>3. \A i \in 0..(length - 1) : buffer[i] = Elem(i)
  <2> SUFFICES ASSUME NEW i \in 0..(length - 1) PROVE buffer[i] = Elem(i)
    OBVIOUS
  <2>1. PICK s \in slices : InSlice(s, i)
    BY <1>1, InASlice
  <2>2. MapInv(s) /\ Reached(s) = At(Bound(s + 1))
    BY <1>1 DEF SliceData, Reached
  <2>3. /\ Lo(s) \in Nat /\ At(Bound(s + 1)) \in Int /\ i \in Int
    <3>1. Lo(s) \in Nat /\ Bound(s + 1) \in 0..Items /\ Items \in Nat
      BY <1>0, Numerals
    <3>2. Bound(s + 1) \in Nat
      BY <3>1
    <3>3. At(Bound(s + 1)) \in 0..length
      BY <1>1, <3>2, ChunkEnds
    <3> QED
      BY <3>1, <3>3
  <2>4. i \in Lo(s)..(Reached(s) - 1)
    BY <2>1, <2>2, <2>3 DEF InSlice
  <2> QED
    BY <1>1, <2>2, <2>4 DEF MapInv
<1>4. buffer = Elems(length)
  BY <1>2, <1>3 DEF Elems
<1>5. Sequential = Returned(Elems(length))
  BY DEF Sequential
<1> QED
  BY <1>4, <1>5

\* The reduction of the first elements is a run.
LEMMA ReductionOfElems ==
  ASSUME NEW n \in Nat, NEW i \in 0..(n - 1)
  PROVE  Reduction(Elems(n), i) = Run(0, i)
<1> DEFINE b == [j \in 0..(i + 1) |-> j]
           f == Elems(n)
<1>1. b \in [0..(i + 1) -> Nat] /\ i \in Nat
  OBVIOUS
<1>2. \A j \in 0..i : b[j] < b[j + 1]
  OBVIOUS
<1>3. \A j \in 0..i : f[j] = Run(b[j], b[j + 1] - 1)
  <2> SUFFICES ASSUME NEW j \in 0..i PROVE f[j] = Run(b[j], b[j + 1] - 1)
    OBVIOUS
  <2>1. f[j] = Elem(j) /\ j \in Int
    BY DEF Elems
  <2>2. b[j] = j /\ b[j + 1] - 1 = j
    OBVIOUS
  <2> HIDE DEF b, f
  <2> QED
    BY <2>1, <2>2, ElemIsRun
<1>4. b[0] = 0 /\ b[i + 1] - 1 = i
  OBVIOUS
<1> HIDE DEF b, f
<1>5. Reduction(f, i) = Run(b[0], b[i + 1] - 1)
  BY <1>1, <1>2, <1>3, ReductionOfRuns
<1> QED
  BY <1>4, <1>5 DEF f

\* The reduction of what the slices have reduced.
LEMMA ReduceResult ==
  ASSUME Types, Control, Arrays, Positions, Data, outcome = "done", stage = "fork1",
         kind = "reduce"
  PROVE  Returned(Reduction(sub, NumSlices - 1)) = Sequential
<1>0. Forked
  BY DEF Forked
<1>1. /\ slices = 0..(NumSlices - 1) /\ input \in Inputs /\ kernel = kind /\ ~TooSmall
      /\ NumSlices \in Nat \ {0}
      /\ \A s \in slices : SliceData(s) /\ ~InChunk(s) /\ info[s].pos = Bound(s + 1)
                           /\ info[s].start = Bound(s)
  BY <1>0, WhenDone
<1>2. \A s \in slices : Bound(s) < Bound(s + 1)
  BY <1>0, <1>1, NotByIndex
<1>3. \A s \in slices : sub[s] = Run(Lo(s), At(Bound(s + 1)) - 1)
  BY <1>1, <1>2 DEF SliceData, ReduceInv
<1>4. NumSlices - 1 \in 0..(NumSlices - 1) /\ (NumSlices - 1) + 1 = NumSlices
  BY <1>1
<1>5. Reduction(sub, NumSlices - 1) = Run(0, At(Bound((NumSlices - 1) + 1)) - 1)
  BY <1>1, <1>3, <1>4, SlicesAdjoin
<1>6. At(Bound((NumSlices - 1) + 1)) = length /\ length \in Nat /\ length > 0
  <2>1. /\ At(Bound((NumSlices - 1) + 1)) = length
        /\ Lo(NumSlices - 1) \in Nat /\ Lo(NumSlices - 1) < At(Bound((NumSlices - 1) + 1))
    BY <1>1, <1>4, ScanEnds
  <2>2. length \in Nat
    BY <1>1, Arguments
  <2> QED
    BY <2>1, <2>2
<1>7. Reduction(Elems(length), length - 1) = Run(0, length - 1)
  BY <1>6, ReductionOfElems
<1>8. Sequential = Returned(Reduction(Elems(length), length - 1))
  BY <1>6 DEF Sequential
<1> QED
  BY <1>5, <1>6, <1>7, <1>8

\* A scan has combined every element with those before it.
LEMMA ScanResult ==
  ASSUME Types, Control, Arrays, Positions, Data, outcome = "done", stage = "fork2",
         kind = "scan"
  PROVE  Returned(buffer) = Sequential
<1>0. Forked
  BY DEF Forked
<1>1. /\ slices = 0..(NumSlices - 1) /\ input \in Inputs /\ kernel = "phase2" /\ ~TooSmall
      /\ NumSlices \in Nat \ {0}
      /\ \A s \in slices : SliceData(s) /\ (s = 0 \/ info[s].pos = At(Bound(s + 1)))
  BY <1>0, WhenDone
<1>2. buffer \in [0..(length - 1) -> Seq(Int)]
  BY <1>0, <1>1 DEF Arrays
<1>3. length \in Nat /\ length > 0
  <2>1. 0 \in 0..(NumSlices - 1)
    BY <1>1
  <2>2. Lo(0) \in Nat /\ Lo(0) < At(Bound(0 + 1)) /\ At(Bound(0 + 1)) <= length
        /\ At(Bound(0 + 1)) \in Nat
    BY <1>1, <2>1, ScanEnds
  <2>3. length \in Nat
    BY <1>1, Arguments
  <2> QED
    BY <2>2, <2>3
<1>4. \A i \in 0..(length - 1) : buffer[i] = Reduction(Elems(length), i)
  <2> SUFFICES ASSUME NEW i \in 0..(length - 1) PROVE buffer[i] = Reduction(Elems(length), i)
    OBVIOUS
  <2>1. PICK s \in slices : InSlice(s, i)
    BY <1>1, InASlice
  <2>2. Lo(s) \in Nat /\ At(Bound(s + 1)) \in Nat
    BY <1>1, ScanEnds
  <2>3. i \in Lo(s)..(At(Bound(s + 1)) - 1) /\ i < At(Bound(s + 1))
    BY <1>3, <2>1, <2>2 DEF InSlice
  <2>4. buffer[i] = Run(0, i)
    BY <1>1, <2>3 DEF SliceData, Phase2Inv
  <2> QED
    BY <1>3, <2>4, ReductionOfElems
<1>5. buffer = [i \in 0..(length - 1) |-> Reduction(Elems(length), i)]
  BY <1>2, <1>4
<1>6. Sequential = Returned([i \in 0..(length - 1) |-> Reduction(Elems(length), i)])
  BY <1>3 DEF Sequential
<1> QED
  BY <1>5, <1>6

\* What a filter keeps, by number.
LEMMA FilterMeans ==
  ASSUME input \in Inputs, kind = "filter"
  PROVE  /\ Sequential.threw = FALSE
         /\ Sequential = Returned(Sequential.value)
         /\ DOMAIN Sequential.value = 0..(Cardinality(input.keep) - 1)
         /\ Sequential.value = [j \in 0..(Cardinality(input.keep) - 1) |-> Sequential.value[j]]
         /\ \A j \in 0..(Cardinality(input.keep) - 1) :
               \E i \in input.keep : RankOf(i) = j /\ Sequential.value[j] = Elem(i)
<1> DEFINE K == 0..(Cardinality(input.keep) - 1)
           choice(j) == CHOOSE i \in input.keep : Cardinality(Kept(i)) = j
           v == [j \in K |-> Elem(choice(j))]
<1>1. Sequential = Returned(v)
  BY DEF Sequential
<1>2. \A i : Cardinality(Kept(i)) = RankOf(i)
  BY DEF Kept, RankOf, Rank
<1>3. \A j \in K : \E i \in input.keep : Cardinality(Kept(i)) = j
  BY <1>2, KeepRanks
<1>4. \A j \in K : choice(j) \in input.keep /\ Cardinality(Kept(choice(j))) = j
  BY <1>3
<1>5. \A j \in K : choice(j) \in input.keep /\ RankOf(choice(j)) = j
  BY <1>2, <1>4
<1> HIDE DEF choice, K
<1>6. \A j \in K : v[j] = Elem(choice(j))
  OBVIOUS
<1>7. \A j \in K : \E i \in input.keep : RankOf(i) = j /\ v[j] = Elem(i)
  BY <1>5, <1>6
<1>8. DOMAIN v = K /\ v = [j \in K |-> v[j]]
  OBVIOUS
<1> HIDE DEF v
<1>9. Sequential.value = v /\ Sequential.threw = FALSE
  BY <1>1 DEF Returned
<1> QED
  BY <1>1, <1>7, <1>8, <1>9 DEF K

\* A filter has copied each survivor to the place of its number.
LEMMA FilterResult ==
  ASSUME Types, Control, Arrays, Positions, Data, outcome = "done", stage = "fork2",
         kind = "filter"
  PROVE  Returned(buffer) = Sequential
<1>0. Forked
  BY DEF Forked
<1>1. /\ slices = 0..(NumSlices - 1) /\ input \in Inputs /\ kernel = "copy"
      /\ complete = slices /\ NumSlices \in Nat \ {0} /\ \A s \in slices : SliceData(s)
  BY <1>0, WhenDone
<1> DEFINE K == 0..(Cardinality(input.keep) - 1)
           w == Sequential.value
<1>2. buffer \in [K -> Seq(Int)]
  BY <1>0, <1>1 DEF Arrays
<1>3. /\ Sequential = Returned(w) /\ w = [j \in K |-> w[j]]
      /\ \A j \in K : \E i \in input.keep : RankOf(i) = j /\ w[j] = Elem(i)
  BY <1>1, FilterMeans
<1>4. \A s \in slices : Copied(s, Lo(s + 1))
  BY <1>1 DEF SliceData, CopyInv
<1> HIDE DEF K, w
<1>5. \A j \in K : buffer[j] = w[j]
  <2> SUFFICES ASSUME NEW j \in K PROVE buffer[j] = w[j]
    OBVIOUS
  <2>1. PICK i \in input.keep : RankOf(i) = j /\ w[j] = Elem(i)
    BY <1>3
  <2>2. i \in 0..(length - 1)
    BY <1>1, Arguments
  <2>3. PICK s \in slices : InSlice(s, i)
    BY <1>1, <2>2, InASlice
  <2>4. Lo(s) <= i /\ i < At(Bound(s + 1))
    BY <2>3 DEF InSlice
  <2>5. At(Bound(s + 1)) \in Int /\ Lo(s + 1) \in Nat /\ At(Bound(s + 1)) <= Lo(s + 1)
    <3>1. Bound(s + 1) \in 0..Items /\ Items \in Nat /\ ChunkSize \in Nat \ {0}
      BY <1>0, Numerals
    <3>2. Bound(s + 1) \in Nat
      BY <3>1
    <3>3. At(Bound(s + 1)) \in 0..length /\ At(Bound(s + 1)) <= Bound(s + 1) * ChunkSize
      BY <1>1, <3>2, ChunkEnds
    <3> QED
      BY <3>1, <3>2, <3>3 DEF Lo
  <2>6. i < Lo(s + 1)
    BY <2>2, <2>4, <2>5
  <2>7. buffer[RankOf(i)] = Elem(i)
    BY <1>4, <2>4, <2>6 DEF Copied
  <2> QED
    BY <2>1, <2>7
<1>6. buffer = w
  BY <1>2, <1>3, <1>5
<1> QED
  BY <1>3, <1>6

\* A filter that keeps nothing returns an empty array.
LEMMA NothingKept ==
  ASSUME Types, Control, Arrays, Positions, Data, outcome = "done", stage = "fork1",
         kind = "filter", CountBefore(NumSlices) = 0
  PROVE  Returned(NewDenseArray(0, Hole)) = Sequential
<1>0. Forked
  BY DEF Forked
<1>1. /\ slices = 0..(NumSlices - 1) /\ input \in Inputs /\ kernel = "filter"
      /\ complete = slices /\ NumSlices \in Nat \ {0}
  BY <1>0, WhenDone
<1>2. CountBefore(NumSlices) = RankOf(Lo(NumSlices))
  <2>1. NumSlices \in 0..NumSlices
    BY <1>1
  <2> QED
    BY <1>0, <1>1, <2>1, CountBefores
<1>3. Lo(NumSlices) = Chunks * ChunkSize
  BY <1>1, Bounds DEF Lo, Items
<1>4. Cardinality(input.keep) = 0
  BY <1>1, <1>2, <1>3, KeepRanks
<1>5. Sequential = Returned(Sequential.value)
      /\ Sequential.value = [j \in 0..(Cardinality(input.keep) - 1) |-> Sequential.value[j]]
  BY <1>1, FilterMeans
<1> DEFINE w == Sequential.value
<1> HIDE DEF w
<1>6. w = [j \in 0..(0 - 1) |-> w[j]]
  BY <1>4, <1>5 DEF w
<1>7. 0..(0 - 1) = {}
  OBVIOUS
<1>8. w = NewDenseArray(0, Hole)
  BY <1>6, <1>7 DEF NewDenseArray
<1> QED
  BY <1>5, <1>8 DEF w

\* A scatter of the divide-output-range strategy has put every element into
\* the part of the output that its target is in, in order.
LEMMA RangeResult ==
  ASSUME Types, Control, Arrays, Positions, Data, outcome = "done", stage = "fork1",
         kind = "range"
  PROVE  Returned(buffer) = Sequential
<1>0. Forked /\ IsScatter
  BY DEF Forked, IsScatter
<1>1. /\ slices = 0..(NumSlices - 1) /\ input \in Inputs /\ kernel = "range"
      /\ complete = slices /\ NumSlices \in Nat \ {0} /\ \A s \in slices : SliceData(s)
  BY <1>0, WhenDone
<1>2. \A s \in slices : RangeInv(s) /\ Skipped(s, info[s].pos, length)
  BY <1>1 DEF SliceData, RangeInv
<1>3. \A s \in slices : info[s].pos \in 0..length
  <2> SUFFICES ASSUME NEW s \in slices PROVE info[s].pos \in 0..length
    OBVIOUS
  <2>1. info[s].pos \in Nat /\ length \in Nat
    BY <1>0, Numerals
  <2>2. info[s].pos <= info[s].end /\ info[s].end = length
    BY <1>0, <1>1 DEF Positions, Position, To
  <2> QED
    BY <2>1, <2>2
<1>4. length \in Nat /\ outLength \in Nat /\ targets \in [0..(length - 1) -> Nat]
  BY <1>0, <1>1, Arguments DEF IsScatter
<1>5. \A s \in slices : \A i \in 0..(length - 1) :
         CheckedTarget(i) /\ (targets[i] \in OutputPart(s) => i \in 0..(info[s].pos - 1))
  <2> SUFFICES ASSUME NEW s \in slices, NEW i \in 0..(length - 1)
               PROVE  CheckedTarget(i)
                      /\ (targets[i] \in OutputPart(s) => i \in 0..(info[s].pos - 1))
    OBVIOUS
  <2>1. i \in 0..(info[s].pos - 1) \/ i \in info[s].pos..(length - 1)
    BY <1>3, <1>4
  <2> QED
    BY <1>1, <1>2, <2>1 DEF RangeInv, Skipped
<1>6. ~SeqThrows
  <2> SUFFICES ASSUME NEW i \in 0..(length - 1) PROVE ~Bad(i)
    BY DEF SeqThrows
  <2>1. 0 \in slices
    BY <1>1
  <2>2. CheckedTarget(i)
    BY <1>5, <2>1
  <2>3. targets[i] \in 0..(outLength - 1)
    BY <1>4, <2>2 DEF CheckedTarget
  <2>4. PICK s \in slices : targets[i] \in OutputPart(s)
    BY <1>1, <2>3, OutputParts
  <2>5. i \in 0..(info[s].pos - 1)
    BY <1>5, <2>4
  <2>6. ~MayCollide => \A h \in 0..(i - 1) : targets[h] # targets[i]
    BY <1>1, <1>2, <2>4, <2>5 DEF RangeInv
  <2> QED
    BY <2>2, <2>6 DEF Bad
<1>7. Sequential = Returned(SeqStates[length].buffer)
  BY <1>0, <1>1, <1>6, SequentialScatter
<1>8. SeqStates[length].buffer \in [0..(outLength - 1) -> Seq(Int)]
  <2>1. length \in 0..length
    BY <1>4
  <2> QED
    BY <1>0, <1>1, <1>6, <2>1, SeqBuffer
<1>9. buffer \in [0..(outLength - 1) -> Seq(Int)]
  BY <1>0, <1>1 DEF Arrays
<1>10. \A y \in 0..(outLength - 1) : buffer[y] = SeqStates[length].buffer[y]
  <2> SUFFICES ASSUME NEW y \in 0..(outLength - 1)
               PROVE  buffer[y] = SeqStates[length].buffer[y]
    OBVIOUS
  <2>1. PICK s \in slices : y \in OutputPart(s)
    BY <1>1, OutputParts
  <2>2. buffer[y] = SeqStates[info[s].pos].buffer[y]
    BY <1>1, <1>2, <1>6, <2>1 DEF RangeInv
  <2>3. \A i \in info[s].pos..(length - 1) : targets[i] # y
    BY <1>2, <2>1 DEF Skipped
  <2>4. info[s].pos \in Nat /\ info[s].pos <= length /\ length \in 0..length
    BY <1>3, <1>4
  <2>5. SeqStates[length].buffer[y] = SeqStates[info[s].pos].buffer[y]
    BY <1>0, <1>1, <1>6, <2>3, <2>4, SkippedKeeps
  <2> QED
    BY <2>2, <2>5
<1>11. buffer = SeqStates[length].buffer
  <2> DEFINE w == SeqStates[length].buffer
             D == 0..(outLength - 1)
  <2>1. buffer \in [D -> Seq(Int)] /\ w \in [D -> Seq(Int)] /\ \A y \in D : buffer[y] = w[y]
    BY <1>8, <1>9, <1>10
  <2> HIDE DEF w, D
  <2>2. buffer = w
    BY <2>1
  <2> QED
    BY <2>2 DEF w
<1> QED
  BY <1>7, <1>11

-----------------------------------------------------------------------------
(* The merge of the buffers of a scatter.                                  *)

\* What mergeBuffers() has made of the slices 0, ..., s.
MergeStates ==
    LET st[s \in 0..(NumSlices - 1)] ==
            IF s = 0 THEN [threw |-> FALSE, written |-> conflicts[0], buffer |-> sub[0]]
            ELSE MergeOne(st[s - 1], s)
    IN st
MergeState == [threw : BOOLEAN, written : SUBSET Nat, buffer : [0..(outLength - 1) -> Seq(Int)]]

\* One turn of its loop.
LEMMA OneMerge ==
  ASSUME NEW st \in MergeState, NEW s, MayCollide \in BOOLEAN,
         conflicts[s] \in SUBSET Nat, sub[s] \in [0..(outLength - 1) -> Seq(Int)]
  PROVE  MergeOne(st, s) \in MergeState
<1>1. /\ st.threw \in BOOLEAN /\ st.written \in SUBSET Nat
      /\ st.buffer \in [0..(outLength - 1) -> Seq(Int)]
  BY DEF MergeState
<1> DEFINE D == 0..(outLength - 1)
           v(j) == IF j \notin conflicts[s] THEN st.buffer[j]
                   ELSE IF j \in st.written THEN Collide(sub[s][j], st.buffer[j])
                   ELSE sub[s][j]
           threw == st.threw \/ (st.written \cap conflicts[s] # {} /\ ~MayCollide)
           written == st.written \cup conflicts[s]
           b == [j \in D |-> v(j)]
<1>2. \A j \in D : v(j) \in Seq(Int)
  <2> SUFFICES ASSUME NEW j \in D PROVE v(j) \in Seq(Int)
    OBVIOUS
  <2>1. st.buffer[j] \in Seq(Int) /\ sub[s][j] \in Seq(Int)
    BY <1>1
  <2>2. Collide(sub[s][j], st.buffer[j]) \in Seq(Int)
    BY <2>1, FuncAssociative DEF Collide
  <2> QED
    BY <2>1, <2>2
<1>3. MergeOne(st, s) = [threw |-> threw, written |-> written, buffer |-> b]
  BY DEF MergeOne
<1> HIDE DEF v
<1>4. b \in [D -> Seq(Int)]
  BY <1>2
<1>5. threw \in BOOLEAN /\ written \in SUBSET Nat
  BY <1>1
<1> HIDE DEF b, threw, written
<1> QED
  BY <1>3, <1>4, <1>5 DEF MergeState

\* The recursion has a solution, so its equations hold.
LEMMA MergeStatesStep ==
  ASSUME Types, Control, Arrays, Forked, kind = "vector"
  PROVE  /\ \A s \in 0..(NumSlices - 1) : MergeStates[s] \in MergeState
         /\ MergeStates[0] = [threw |-> FALSE, written |-> conflicts[0], buffer |-> sub[0]]
         /\ \A s \in 1..(NumSlices - 1) : MergeStates[s] = MergeOne(MergeStates[s - 1], s)
<1> DEFINE n == NumSlices - 1
           init == [threw |-> FALSE, written |-> conflicts[0], buffer |-> sub[0]]
           G == [s \in 1..n |-> [st \in MergeState |-> MergeOne(st, s)]]
           Solves(st) == st = [s \in 0..n |-> IF s = 0 THEN init ELSE MergeOne(st[s - 1], s)]
<1>1. /\ input \in Inputs /\ slices = 0..n /\ slices \subseteq Slice
      /\ conflicts \in [Slice -> SUBSET (0..(MaxLength - 1))]
      /\ sub \in [slices -> [0..(outLength - 1) -> Seq(Int)]]
  BY DEF Types, Control, Arrays
<1>2. n \in Nat /\ MayCollide \in BOOLEAN
  BY <1>1, SliceCount, Arguments
<1>3. \A s \in 0..n : /\ conflicts[s] \in SUBSET Nat
                      /\ sub[s] \in [0..(outLength - 1) -> Seq(Int)]
  BY <1>1
<1> HIDE DEF n
<1>4. init \in MergeState
  BY <1>2, <1>3 DEF MergeState
<1>5. \A s \in 1..n : \A st \in MergeState : MergeOne(st, s) \in MergeState
  BY <1>2, <1>3, OneMerge
<1>6. \A s \in 1..n : \A st \in MergeState : G[s][st] = MergeOne(st, s)
  OBVIOUS
<1> HIDE DEF init, G
<1>7. PICK f : Recursive(f, n, MergeState, init, G)
  BY <1>2, <1>4, <1>5, <1>6, Recursion
<1>8. /\ f \in [0..n -> MergeState] /\ f[0] = init
      /\ \A i \in 1..n : f[i] = G[i][f[i - 1]]
  BY <1>7 DEF Recursive
<1>9. \A i \in 1..n : f[i - 1] \in MergeState
  BY <1>2, <1>8
<1>10. Solves(f)
  <2>1. \A s \in 0..n : f[s] = IF s = 0 THEN init ELSE MergeOne(f[s - 1], s)
    <3> SUFFICES ASSUME NEW s \in 0..n
                 PROVE  f[s] = IF s = 0 THEN init ELSE MergeOne(f[s - 1], s)
      OBVIOUS
    <3>1. CASE s = 0
      BY <1>8, <3>1
    <3>2. CASE s # 0
      <4>1. s \in 1..n
        BY <1>2, <3>2
      <4>2. f[s] = G[s][f[s - 1]] /\ f[s - 1] \in MergeState
        BY <1>8, <1>9, <4>1
      <4> QED
        BY <1>6, <3>2, <4>1, <4>2
    <3> QED
      BY <3>1, <3>2
  <2> QED
    BY <1>8, <2>1
<1>11. MergeStates = CHOOSE st : Solves(st)
  BY DEF MergeStates, init, n
<1>12. Solves(MergeStates)
  <2> HIDE DEF Solves
  <2> QED
    BY <1>10, <1>11
<1>13. MergeStates[0] = init
       /\ \A s \in 1..n : MergeStates[s] = MergeOne(MergeStates[s - 1], s)
  BY <1>2, <1>12
<1>14. \A s \in 0..n : MergeStates[s] \in MergeState
  <2> DEFINE T == {s \in 0..n : MergeStates[s] \in MergeState}
  <2>1. 0 \in T
    BY <1>2, <1>4, <1>13
  <2>2. \A i \in 0..(n - 1) : i \in T => i + 1 \in T
    <3> SUFFICES ASSUME NEW i \in 0..(n - 1), MergeStates[i] \in MergeState
                 PROVE  i + 1 \in 0..n /\ MergeStates[i + 1] \in MergeState
      BY Zenon
    <3>1. i + 1 \in 1..n /\ i + 1 \in 0..n /\ (i + 1) - 1 = i
      BY <1>2
    <3>2. MergeStates[i + 1] = MergeOne(MergeStates[i], i + 1)
      BY <1>13, <3>1
    <3> QED
      BY <1>5, <3>1, <3>2
  <2> HIDE DEF T
  <2>3. \A s \in 0..n : s \in T
    BY <1>2, <2>1, <2>2, IntervalInduction
  <2> QED
    BY <2>3 DEF T
<1> QED
  BY <1>13, <1>14 DEF n, init

\* What the slices of a scatter have done, when it is done.
LEMMA ScatterDone ==
  ASSUME Types, Control, Arrays, Positions, Data, outcome = "done", stage = "fork1",
         kind = "vector", NEW s \in 0..(NumSlices - 1)
  PROVE  /\ conflicts[s] = Targets(Bound(s), Bound(s + 1))
         /\ \A i \in Bound(s)..(Bound(s + 1) - 1) :
               CheckedTarget(i) /\ (~MayCollide => \A h \in Bound(s)..(i - 1) : targets[h] # targets[i])
         /\ ~SeqThrows => \A y \in 0..(outLength - 1) :
               LET before == SeqStates[Bound(s)].buffer[y] IN
               SeqStates[Bound(s + 1)].buffer[y] =
                  IF y \notin conflicts[s] THEN before
                  ELSE IF y \in Targets(0, Bound(s)) THEN Collide(sub[s][y], before)
                  ELSE sub[s][y]
         /\ s = 0 => \A y \in 0..(outLength - 1) : y \notin conflicts[0] => sub[0][y] = Default
         /\ Bound(s) \in Nat /\ Bound(s + 1) \in Nat /\ Bound(s) <= Bound(s + 1)
         /\ Bound(s + 1) <= length
<1>0. Forked
  BY DEF Forked
<1>1. /\ s \in slices /\ input \in Inputs /\ kernel = "vector"
      /\ VectorInv(s) /\ info[s].pos = Bound(s + 1)
  BY <1>0, WhenDone DEF SliceData
<1>2. /\ Bound(s) \in Nat /\ Bound(s + 1) \in Nat /\ Bound(s) <= Bound(s + 1)
      /\ Bound(s + 1) <= length
  <2>1. /\ Bound(s) \in 0..Items /\ Bound(s + 1) \in 0..Items /\ Bound(s) <= Bound(s + 1)
        /\ Items \in Nat
    BY <1>0, <1>1, Numerals
  <2>2. Items = length
    BY DEF Items
  <2> QED
    BY <2>1, <2>2
<1> QED
  BY <1>1, <1>2 DEF VectorInv, Local

\* What the merge of the slices 0, ..., s amounts to.
Merged(s) ==
    /\ MergeStates[s].written = Targets(0, Bound(s + 1))
    /\ MergeStates[s].threw <=> \E i \in 0..(Bound(s + 1) - 1) : Bad(i)
    /\ ~SeqThrows => \A y \in 0..(outLength - 1) :
          MergeStates[s].buffer[y] = SeqStates[Bound(s + 1)].buffer[y]

\* The first slice's buffer is merged with nothing.
LEMMA FirstMerged ==
  ASSUME Types, Control, Arrays, Positions, Data, outcome = "done", stage = "fork1",
         kind = "vector"
  PROVE  Merged(0)
<1>0. Forked /\ IsScatter /\ input \in Inputs
  BY DEF Forked, IsScatter, Types
<1>1. NumSlices \in Nat \ {0} /\ 0 \in 0..(NumSlices - 1) /\ 0 + 1 = 1
  BY <1>0, SliceCount
<1>2. Bound(0) = 0
  BY <1>0, Bounds
<1>3. MergeStates[0] = [threw |-> FALSE, written |-> conflicts[0], buffer |-> sub[0]]
  BY <1>0, MergeStatesStep
<1>4. /\ conflicts[0] = Targets(0, Bound(1))
      /\ \A i \in 0..(Bound(1) - 1) :
            CheckedTarget(i) /\ (~MayCollide => \A h \in 0..(i - 1) : targets[h] # targets[i])
      /\ ~SeqThrows => \A y \in 0..(outLength - 1) :
            SeqStates[Bound(1)].buffer[y] =
               IF y \notin conflicts[0] THEN SeqStates[0].buffer[y]
               ELSE IF y \in Targets(0, 0) THEN Collide(sub[0][y], SeqStates[0].buffer[y])
               ELSE sub[0][y]
      /\ \A y \in 0..(outLength - 1) : y \notin conflicts[0] => sub[0][y] = Default
  BY <1>1, <1>2, ScatterDone
<1>5. Targets(0, 0) = {}
  BY TargetsSplit
<1>6. ~ \E i \in 0..(Bound(1) - 1) : Bad(i)
  BY <1>4 DEF Bad
<1>7. ASSUME ~SeqThrows, NEW y \in 0..(outLength - 1)
      PROVE  MergeStates[0].buffer[y] = SeqStates[Bound(1)].buffer[y]
  <2>1. SeqStates[0].buffer[y] = Default
    BY <1>0, <1>7, SeqBuffer
  <2> QED
    BY <1>3, <1>4, <1>5, <1>7, <2>1
<1> QED
  BY <1>1, <1>3, <1>4, <1>6, <1>7 DEF Merged

\* Each slice is merged with what the slices before it have left.
LEMMA NextMerged ==
  ASSUME Types, Control, Arrays, Positions, Data, outcome = "done", stage = "fork1",
         kind = "vector", NEW p \in 0..(NumSlices - 2), Merged(p)
  PROVE  Merged(p + 1)
<1> DEFINE s == p + 1
           m == Bound(s)
           n == Bound(s + 1)
           st == MergeStates[p]
           sn == MergeStates[s]
<1>0. Forked /\ IsScatter /\ input \in Inputs
  BY DEF Forked, IsScatter, Types
<1>1. NumSlices \in Nat \ {0} /\ s \in 1..(NumSlices - 1) /\ s \in 0..(NumSlices - 1)
      /\ s - 1 = p /\ s # 0
  BY <1>0, SliceCount
<1> HIDE DEF s
<1>2. sn = MergeOne(st, s)
  BY <1>0, <1>1, MergeStatesStep
<1>3. /\ st.written = Targets(0, m)
      /\ st.threw <=> \E i \in 0..(m - 1) : Bad(i)
      /\ ~SeqThrows => \A y \in 0..(outLength - 1) : st.buffer[y] = SeqStates[m].buffer[y]
  BY DEF Merged, s
<1>4. /\ conflicts[s] = Targets(m, n)
      /\ \A i \in m..(n - 1) :
            CheckedTarget(i) /\ (~MayCollide => \A h \in m..(i - 1) : targets[h] # targets[i])
      /\ ~SeqThrows => \A y \in 0..(outLength - 1) :
            SeqStates[n].buffer[y] =
               IF y \notin conflicts[s] THEN SeqStates[m].buffer[y]
               ELSE IF y \in Targets(0, m) THEN Collide(sub[s][y], SeqStates[m].buffer[y])
               ELSE sub[s][y]
      /\ m \in Nat /\ n \in Nat /\ m <= n
  BY <1>1, ScatterDone
<1> HIDE DEF m, n
<1>5. sn.written = Targets(0, n)
  <2>1. Targets(0, n) = Targets(0, m) \cup Targets(m, n)
    BY <1>4, TargetsSplit
  <2> QED
    BY <1>2, <1>3, <1>4, <2>1 DEF MergeOne
<1>6. sn.threw <=> st.threw \/ (st.written \cap conflicts[s] # {} /\ ~MayCollide)
  <2> DEFINE threw == st.threw \/ (st.written \cap conflicts[s] # {} /\ ~MayCollide)
             written == st.written \cup conflicts[s]
             b == [j \in 0..(outLength - 1) |->
                     IF j \notin conflicts[s] THEN st.buffer[j]
                     ELSE IF j \in st.written THEN Collide(sub[s][j], st.buffer[j])
                     ELSE sub[s][j]]
  <2>1. sn = [threw |-> threw, written |-> written, buffer |-> b]
    BY <1>2 DEF MergeOne
  <2> HIDE DEF threw, written, b, sn
  <2>2. sn.threw = threw
    BY <2>1
  <2> QED
    BY <2>2, Zenon DEF threw
<1> HIDE DEF st, sn
<1>7. \A i \in m..(n - 1) :
         Bad(i) <=> ~MayCollide /\ \E h \in 0..(m - 1) : targets[h] = targets[i]
  <2> SUFFICES ASSUME NEW i \in m..(n - 1)
               PROVE  Bad(i) <=> ~MayCollide /\ \E h \in 0..(m - 1) : targets[h] = targets[i]
    OBVIOUS
  <2>1. CheckedTarget(i) /\ (~MayCollide => \A h \in m..(i - 1) : targets[h] # targets[i])
    BY <1>4
  <2>2. \A h : h \in 0..(i - 1) <=> h \in 0..(m - 1) \/ h \in m..(i - 1)
    BY <1>4
  <2> QED
    BY <2>1, <2>2, Zenon DEF Bad
<1>8. (\E i \in m..(n - 1) : \E h \in 0..(m - 1) : targets[h] = targets[i])
      <=> Targets(0, m) \cap Targets(m, n) # {}
  BY DEF Targets
<1>9. (\E i \in m..(n - 1) : Bad(i)) <=> st.written \cap conflicts[s] # {} /\ ~MayCollide
  <2>1. st.written \cap conflicts[s] = Targets(0, m) \cap Targets(m, n)
    BY <1>3, <1>4
  <2> QED
    BY <1>7, <1>8, <2>1, Zenon
<1>10. sn.threw <=> \E i \in 0..(n - 1) : Bad(i)
  <2>1. \A i : i \in 0..(n - 1) <=> i \in 0..(m - 1) \/ i \in m..(n - 1)
    BY <1>4
  <2> QED
    BY <1>3, <1>6, <1>9, <2>1, Zenon
<1>11. ASSUME ~SeqThrows, NEW y \in 0..(outLength - 1)
       PROVE  sn.buffer[y] = SeqStates[n].buffer[y]
  <2>1. sn.buffer[y] = IF y \notin conflicts[s] THEN st.buffer[y]
                       ELSE IF y \in st.written THEN Collide(sub[s][y], st.buffer[y])
                       ELSE sub[s][y]
    BY <1>2 DEF MergeOne
  <2> QED
    BY <1>3, <1>4, <1>11, <2>1
<1> QED
  BY <1>5, <1>10, <1>11 DEF Merged, s, n, sn

\* A scatter of the divide-scatter-vector strategy, merged: it throws if the
\* sequential one does, and else each place has what the sequential one puts there.
LEMMA VectorResult ==
  ASSUME Types, Control, Arrays, Positions, Data, outcome = "done", stage = "fork1",
         kind = "vector"
  PROVE  LET merged == MergeStates[NumSlices - 1]
         IN (IF merged.threw THEN Threw ELSE Returned(merged.buffer)) = Sequential
<1> DEFINE n == NumSlices - 1
           merged == MergeStates[n]
<1>0. Forked /\ IsScatter /\ input \in Inputs
  BY DEF Forked, IsScatter, Types
<1>1. NumSlices \in Nat \ {0} /\ n \in Nat /\ n + 1 = NumSlices /\ n - 1 = NumSlices - 2
      /\ n \in 0..n /\ length \in Nat
  BY <1>0, SliceCount, Arguments
<1>2. Bound(n + 1) = length
  BY <1>0, <1>1, Bounds DEF Items
<1>3. merged \in MergeState
  BY <1>0, <1>1, MergeStatesStep
<1> HIDE DEF n
<1>4. Merged(n)
  <2> DEFINE T == {s \in 0..n : Merged(s)}
  <2>1. 0 \in T
    BY <1>1, FirstMerged
  <2>2. \A s \in 0..(n - 1) : s \in T => s + 1 \in T
    <3> SUFFICES ASSUME NEW s \in 0..(n - 1), Merged(s)
                 PROVE  s + 1 \in 0..n /\ Merged(s + 1)
      BY Zenon
    <3> QED
      BY <1>1, NextMerged
  <2> HIDE DEF T
  <2>3. \A s \in 0..n : s \in T
    BY <1>1, <2>1, <2>2, IntervalInduction
  <2> QED
    BY <1>1, <2>3 DEF T
<1>5. Sequential = IF SeqThrows THEN Threw ELSE Returned(SeqStates[length].buffer)
  BY <1>0, SequentialScatter
<1>6. merged.threw <=> SeqThrows
  BY <1>2, <1>4 DEF Merged, SeqThrows
<1>7. ASSUME ~SeqThrows PROVE merged.buffer = SeqStates[length].buffer
  <2> DEFINE b == merged.buffer
             w == SeqStates[length].buffer
             D == 0..(outLength - 1)
  <2>1. length \in 0..length
    BY <1>1
  <2>2. w \in [D -> Seq(Int)]
    BY <1>0, <1>7, <2>1, SeqBuffer
  <2>3. b \in [D -> Seq(Int)]
    BY <1>3 DEF MergeState
  <2>4. \A y \in D : b[y] = w[y]
    BY <1>2, <1>4, <1>7 DEF Merged
  <2> HIDE DEF b, w, D
  <2>5. b = w
    BY <2>2, <2>3, <2>4
  <2> QED
    BY <2>5 DEF b, w
<1> QED
  BY <1>5, <1>6, <1>7 DEF n

\* What an operation returns after its last ForkJoin() is what its sequential
\* fallback returns.
LEMMA FinishResult ==
  ASSUME Types, Control, Arrays, Positions, Data, Errors, Finish
  PROVE  result' = Sequential
<1>0. input \in Inputs
  BY DEF Types
<1>1. CASE FallBack
  BY <1>1 DEF FallBack
<1>2. CASE ReturnBuffer
  <2>1. /\ outcome = "done" /\ result' = Returned(buffer)
        /\ \/ stage = "fork1" /\ kind \in {"map", "build", "range"}
           \/ stage = "fork2"
    BY <1>2 DEF ReturnBuffer, Finished
  <2>2. CASE stage = "fork1" /\ kind \in {"map", "build"}
    BY <2>1, <2>2, MapResult
  <2>3. CASE stage = "fork1" /\ kind = "range"
    BY <2>1, <2>3, RangeResult
  <2>4. CASE stage = "fork2" /\ kind = "scan"
    BY <2>1, <2>4, ScanResult
  <2>5. CASE stage = "fork2" /\ kind = "filter"
    BY <2>1, <2>5, FilterResult
  <2>6. stage = "fork2" => kind \in {"scan", "filter"}
    BY DEF Control
  <2> QED
    BY <2>1, <2>2, <2>3, <2>4, <2>5, <2>6
<1>3. CASE ReduceSlices
  <2>1. /\ outcome = "done" /\ stage = "fork1" /\ kind = "reduce"
        /\ result' = Returned(Reduction(sub, NumSlices - 1))
    BY <1>3 DEF ReduceSlices, Finished
  <2> QED
    BY <2>1, ReduceResult
<1>4. CASE MergeBuffers
  <2> DEFINE merged == MergeStates[NumSlices - 1]
  <2>1. outcome = "done" /\ stage = "fork1" /\ kind = "vector"
    BY <1>4 DEF MergeBuffers
  <2>2. result' = IF merged.threw THEN Threw ELSE Returned(merged.buffer)
    BY <1>4, Zenon DEF MergeBuffers, Finished, MergeStates
  <2> QED
    BY <2>1, <2>2, VectorResult
<1>5. CASE Propagate
  <2>1. outcome = "fatal" /\ result' = Threw
    BY <1>5 DEF Propagate, Finished
  <2>2. IsScatter /\ SeqThrows
    BY <2>1 DEF Errors
  <2> QED
    BY <1>0, <2>1, <2>2, SequentialScatter
<1>6. CASE CompressSurvivors /\ stage' = "returned"
  <2>1. outcome = "done" /\ stage = "fork1" /\ kind = "filter"
    BY <1>6 DEF CompressSurvivors
  <2>2. CountBefore(NumSlices) = 0 /\ result' = Returned(NewDenseArray(0, Hole))
    BY <1>6 DEF CompressSurvivors, Finished
  <2> QED
    BY <2>1, <2>2, NothingKept
<1> QED
  BY <1>1, <1>2, <1>3, <1>4, <1>5, <1>6, Zenon DEF Finish

\* An operation that has returned does nothing more, and it returns by no
\* other step.
LEMMA ResultStep ==
  ASSUME Types, Control, Arrays, Positions, Data, Errors, ResultIsSequential, [Next]_vars
  PROVE  ResultIsSequential'
<1>1. ASSUME input' = input, stage' = stage, result' = result
      PROVE  ResultIsSequential'
  BY <1>1, SameInput DEF ResultIsSequential
<1>2. CASE UNCHANGED vars
  BY <1>1, <1>2 DEF vars, avars
<1>3. CASE Fork
  <2>1. stage' = "fork1"
    BY <1>3 DEF Fork
  <2> QED
    BY <2>1 DEF ResultIsSequential
<1>4. CASE ForkJoinDone
  BY <1>1, <1>4 DEF ForkJoinDone, avars
<1>5. CASE SecondPhase
  BY <1>5, SecondPhaseSteps DEF ResultIsSequential
<1>6. CASE Finish
  <2>1. result' = Sequential
    BY <1>6, FinishResult
  <2>2. Sequential' = Sequential
    BY <1>6, FinishSteps, SameInput
  <2> QED
    BY <2>1, <2>2 DEF ResultIsSequential
<1>7. ASSUME NEW s \in Slice, NEW mode \in CallMode, Enter(s, mode)
      PROVE  ResultIsSequential'
  BY <1>1, <1>7 DEF Enter
<1>8. ASSUME NEW s \in Slice, Work(s)
      PROVE  ResultIsSequential'
  BY <1>1, <1>8, WorkSteps
<1>9. ASSUME NEW s \in Slice, Quit(s)
      PROVE  ResultIsSequential'
  BY <1>1, <1>9, QuitSteps
<1> QED
  BY <1>2, <1>3, <1>4, <1>5, <1>6, <1>7, <1>8, <1>9, NextSteps

-----------------------------------------------------------------------------
(* The theorems.                                                           *)

\* Before the operation begins nothing has been forked.
LEMMA InitInv == Init => IInv
<1> SUFFICES ASSUME Init PROVE IInv
  OBVIOUS
<1>1. /\ input \in Inputs /\ stage = "start" /\ info = [s \in {} |-> 0]
      /\ buffer = <<>> /\ conflicts = [s \in Slice |-> {}]
      /\ counts = [s \in Slice |-> 0] /\ frame = [s \in Slice |-> NoFrame]
      /\ slices = {} /\ outcome = "idle" /\ complete = {}
      /\ call = [s \in Slice |-> "none"]
  BY DEF Init, KInit
<1>2. InCall = {} /\ ~Forked
  BY <1>1 DEF InCall, Forked
<1>3. Types
  <2>1. MaxLength \in Nat
    BY ArrayAssumption DEF ArrayAssumption
  <2>2. NoFrame \in Values
    BY DEF NoFrame, Values, Hole
  <2>3. frame \in [Slice -> Values]
    BY <1>1, <2>2
  <2>4. DOMAIN info = {} /\ info \in [DOMAIN info -> [start : Nat, end : Nat, pos : Nat]]
    BY <1>1
  <2>5. DOMAIN buffer = {}
    BY <1>1
  <2>6. counts \in [Slice -> 0..MaxLength] /\ conflicts \in [Slice -> SUBSET (0..(MaxLength - 1))]
    BY <1>1, <2>1
  <2> QED
    BY <1>1, <2>3, <2>4, <2>5, <2>6 DEF Types
<1>4. Control
  BY <1>1, <1>2 DEF Control
<1> QED
  BY <1>1, <1>2, <1>3, <1>4
  DEF IInv, Arrays, Positions, Frames, Data, Errors, ResultIsSequential

\* Every step keeps each part of the invariant.
LEMMA StepInv == IInv /\ [Next]_vars => IInv'
<1> SUFFICES ASSUME IInv, [Next]_vars PROVE IInv'
  OBVIOUS
<1>1. Types /\ Control /\ Arrays /\ Positions /\ Frames /\ Data /\ Errors /\ ResultIsSequential
  BY DEF IInv
<1>2. Types'
  BY <1>1, TypesStep
<1>3. Control'
  BY <1>1, ControlStep
<1>4. Arrays'
  BY <1>1, ArraysStep
<1>5. Positions'
  BY <1>1, PositionStep
<1>6. Frames'
  BY <1>1, FrameStep
<1>7. Data'
  BY <1>1, DataStep
<1>8. Errors'
  BY <1>1, ErrorsStep
<1>9. ResultIsSequential'
  BY <1>1, ResultStep
<1> QED
  BY <1>2, <1>3, <1>4, <1>5, <1>6, <1>7, <1>8, <1>9 DEF IInv

\* The invariant of the operations, whatever the calls of their kernels do.
THEOREM Invariant == Spec => []IInv
<1> QED
  BY InitInv, StepInv, PTL DEF Spec

\* Types: buffers are total on their index sets, and a call under way works
\* inside the bounds of its slice.
THEOREM TypeCorrect == Spec => []TypeOK
<1>1. IInv => TypeOK
  <2> SUFFICES ASSUME IInv PROVE TypeOK
    OBVIOUS
  <2>1. Types /\ Control /\ Frames
    BY DEF IInv
  <2>2. ASSUME NEW s \in InCall
        PROVE  frame[s].pos <= info[s].end /\ frame[s].last <= info[s].end
    <3>1. Forked /\ s \in slices
      BY <2>1, Running
    <3>2. frame[s].pos \in Nat /\ frame[s].last \in Nat /\ info[s].end \in Nat
      BY <2>1, <3>1, Numerals
    <3>3. frame[s].pos <= frame[s].last /\ frame[s].last <= info[s].end
      BY <2>1 DEF Frames, Frame
    <3> QED
      BY <3>2, <3>3
  <2> QED
    BY <2>1, <2>2 DEF Types, TypeOK
<1> QED
  BY <1>1, Invariant, PTL

\* What a call has recorded is right whenever the call can be given up.
LEMMA CheckpointsHold ==
  ASSUME Types, Control, Positions, Frames, Data, Forked, NEW s \in slices
  PROVE  CheckpointSound(s)
<1> DEFINE pos == info[s].pos
           start == info[s].start
           lo == start * ChunkSize
           hi == MinOf(pos * ChunkSize, length)
           top == IF s + 1 \in DOMAIN info THEN info[s + 1].start * ChunkSize ELSE length
<1>1. /\ input \in Inputs /\ SliceData(s) /\ Position(s)
      /\ slices = 0..(NumSlices - 1) /\ DOMAIN info = slices /\ ~TooSmall
      /\ (stage = "fork2" => kind \in {"scan", "filter"})
  BY DEF Types, Control, Data, Positions
<1>2. /\ pos \in Nat /\ start \in Nat /\ Lo(s) \in Nat /\ Bound(s) \in 0..Items
      /\ Bound(s + 1) \in 0..Items /\ ChunkSize \in Nat \ {0} /\ length \in Nat
      /\ NumSlices \in Nat \ {0} /\ s \in 0..(NumSlices - 1) /\ Chunks \in Nat
  BY <1>1, Numerals, SliceCount
<1>3. /\ hi = At(pos) /\ At(pos) \in 0..length /\ At(pos) <= pos * ChunkSize
      /\ pos * ChunkSize \in Nat /\ hi \in Nat /\ lo \in Nat
  <2>1. \A c \in Nat : At(c) \in 0..length /\ At(c) <= c * ChunkSize
    BY <1>1, ChunkEnds, Zenon
  <2>2. \A c \in Nat : c * ChunkSize \in Nat
    BY <1>2
  <2>3. hi = At(pos)
    BY DEF At
  <2> HIDE DEF pos, start, hi
  <2> QED
    BY <1>2, <2>1, <2>2, <2>3
<1>4. kernel \in {"map", "build", "reduce", "scan", "filter", "phase2"} =>
         /\ kind # "range" /\ Items = Chunks /\ start = Bound(s) /\ lo = Lo(s)
  <2>1. kernel \in {"map", "build", "reduce", "scan", "filter", "phase2"} =>
           kind # "range" /\ Items = Chunks
    <3>1. kernel \in {"map", "build", "reduce", "scan", "filter"} => ~ByIndex
      BY DEF ByIndex
    <3> QED
      BY <3>1, NotByIndex
  <2> QED
    BY <1>1, <2>1 DEF Position, From, Lo
<1>5. kernel \in {"map", "build", "reduce", "scan", "filter"} =>
         start <= pos /\ pos <= Chunks /\ (pos = start => hi <= lo)
  <2> SUFFICES ASSUME kernel \in {"map", "build", "reduce", "scan", "filter"}
               PROVE  start <= pos /\ pos <= Chunks /\ (pos = start => hi <= lo)
    OBVIOUS
  <2>1. start <= pos /\ pos <= info[s].end /\ info[s].end = Bound(s + 1)
    BY <1>1, <1>4 DEF Position, To
  <2> QED
    BY <1>2, <1>3, <1>4, <2>1
<1>6. kernel \in {"map", "build", "scan"} => \A i \in lo..(hi - 1) : i \in Lo(s)..(Reached(s) - 1)
  <2> SUFFICES ASSUME kernel \in {"map", "build", "scan"}
               PROVE  \A i \in lo..(hi - 1) : i \in Lo(s)..(Reached(s) - 1)
    OBVIOUS
  <2>1. CASE ~InChunk(s)
    BY <1>3, <1>4, <2>1 DEF Reached
  <2>2. CASE InChunk(s)
    <3>1. ~ByIndex /\ kernel # "range" /\ kernel # "copy"
      BY DEF ByIndex
    <3>2. frame[s].pos = pos /\ frame[s].pos * ChunkSize <= frame[s].i
      BY <2>2, <3>1 DEF Frames, Frame, InChunk
    <3>3. frame[s].i \in Nat /\ Reached(s) = frame[s].i
      BY <2>2, Numerals DEF Reached
    <3> HIDE DEF hi, pos
    <3> QED
      BY <1>2, <1>3, <1>4, <3>2, <3>3
  <2> QED
    BY <2>1, <2>2
<1>7. kernel \in {"map", "build"} => \A i \in lo..(hi - 1) : buffer[i] = Elem(i)
  BY <1>1, <1>6 DEF SliceData, MapInv
<1>8. kernel = "reduce" /\ lo < hi => sub[s] = Run(lo, hi - 1)
  <2> SUFFICES ASSUME kernel = "reduce", lo < hi PROVE sub[s] = Run(lo, hi - 1)
    OBVIOUS
  <2>1. start < pos
    BY <1>2, <1>3, <1>5
  <2> QED
    BY <1>1, <1>3, <1>4, <2>1 DEF SliceData, ReduceInv
<1>9. kernel = "scan" => \A i \in lo..(hi - 1) : buffer[i] = Run(lo, i)
  BY <1>1, <1>4, <1>6 DEF SliceData, ScanInv
<1>10. kernel = "phase2" => \A i \in lo..(top - 1) :
          buffer[i] = IF s = 0 \/ i < pos THEN Run(0, i) ELSE Run(lo, i)
  <2> SUFFICES ASSUME kernel = "phase2"
               PROVE  \A i \in lo..(top - 1) :
                         buffer[i] = IF s = 0 \/ i < pos THEN Run(0, i) ELSE Run(lo, i)
    OBVIOUS
  <2>1. kind = "scan"
    BY NotByIndex
  <2>2. top = At(Bound(s + 1))
    <3>1. CASE s + 1 \in slices
      <4>1. info[s + 1].start = Bound(s + 1)
        BY <2>1, <3>1 DEF Positions, Position, From
      <4>2. At(Bound(s + 1)) = Lo(s + 1)
        BY <1>1, <2>1, <3>1, ScanEnds
      <4> QED
        BY <1>1, <3>1, <4>1, <4>2 DEF Lo
    <3>2. CASE s + 1 \notin slices
      <4>1. s + 1 = NumSlices
        BY <1>1, <1>2, <3>2
      <4>2. Bound(s + 1) = Chunks
        BY <1>1, <1>4, <4>1, Bounds
      <4> QED
        BY <1>1, <3>2, <4>2, ChunkEnds
    <3> QED
      BY <3>1, <3>2
  <2> QED
    BY <1>1, <1>4, <2>2 DEF SliceData, Phase2Inv
<1>11. kernel = "filter" =>
          /\ counts[s] = Cardinality(input.keep \cap (lo..(hi - 1)))
          /\ \A c \in start..(pos - 1) : survivors[c] =
                input.keep \cap ((c * ChunkSize)..(ChunkEnd(c) - 1))
  <2> SUFFICES ASSUME kernel = "filter"
               PROVE  /\ counts[s] = Cardinality(input.keep \cap (lo..(hi - 1)))
                      /\ \A c \in start..(pos - 1) : survivors[c] =
                            input.keep \cap ((c * ChunkSize)..(ChunkEnd(c) - 1))
    OBVIOUS
  <2>1. counts[s] = RankOf(pos * ChunkSize) - RankOf(lo)
    BY <1>1, <1>4 DEF SliceData, FilterInv
  <2>2. \A c \in start..(pos - 1) : survivors[c] = ChunkSurvivors(c)
    BY <1>1 DEF SliceData, FilterInv
  <2>3. \A n \in Nat : RankOf(MinOf(n, length)) = RankOf(n) /\ RankOf(n) \in 0..length
    BY <1>1, KeepRanks, Zenon
  <2>4. RankOf(hi) = RankOf(pos * ChunkSize) /\ RankOf(lo) \in Nat
    <3>1. RankOf(hi) = RankOf(pos * ChunkSize)
      BY <1>3, <2>3, Zenon
    <3>2. RankOf(lo) \in 0..length
      BY <1>3, <2>3, Zenon
    <3> QED
      BY <1>2, <3>1, <3>2
  <2>5. CASE pos = start
    <3>1. lo..(hi - 1) = {}
      BY <1>3, <1>5, <2>5
    <3>2. counts[s] = 0
      BY <2>1, <2>4, <2>5
    <3>3. input.keep \cap (lo..(hi - 1)) = {}
      BY <3>1
    <3>4. Cardinality({}) = 0
      BY FS_EmptySet
    <3> QED
      BY <2>2, <3>2, <3>3, <3>4 DEF ChunkSurvivors
  <2>6. CASE start < pos
    <3>1. start \in 0..(Chunks - 1)
      BY <1>2, <1>5, <2>6
    <3>2. At(start) = lo /\ At(start) <= At(pos)
      <4>1. /\ \A c \in 0..(Chunks - 1) : At(c) = c * ChunkSize
            /\ \A c, d \in Nat : c <= d => At(c) <= At(d)
        BY <1>1, ChunkEnds, Zenon
      <4>2. start <= pos
        BY <1>2, <2>6
      <4> HIDE DEF start, pos
      <4> QED
        BY <1>2, <3>1, <4>1, <4>2
    <3>3. Cardinality(input.keep \cap (lo..(hi - 1))) = RankOf(hi) - RankOf(lo)
      <4>1. \A a, b \in Nat :
               a <= b => Cardinality(input.keep \cap (a..(b - 1))) = RankOf(b) - RankOf(a)
        BY <1>1, KeepRanks, Zenon
      <4> HIDE DEF lo, hi
      <4> QED
        BY <1>3, <3>2, <4>1
    <3> QED
      BY <2>1, <2>2, <2>4, <3>3 DEF ChunkSurvivors
  <2> QED
    BY <1>2, <1>5, <2>5, <2>6
<1> HIDE DEF lo, hi, top, pos, start
<1> QED
  BY <1>7, <1>8, <1>9, <1>10, <1>11 DEF CheckpointSound, lo, hi, top, pos, start

\* A call may be given up at any point: what the next call of its slice relies
\* on is right all the time.
THEOREM Checkpoints == Spec => []CheckpointsAreSound
<1>1. IInv => CheckpointsAreSound
  BY CheckpointsHold DEF IInv, CheckpointsAreSound, Forked
<1> QED
  BY <1>1, Invariant, PTL

\* Whatever the overlap of the slices, the bailouts and the repeated calls, an
\* operation returns what its sequential fallback returns, or throws as it does.
THEOREM Result == Spec => []ResultIsSequential
<1>1. IInv => ResultIsSequential
  BY DEF IInv
<1> QED
  BY <1>1, Invariant, PTL

=============================================================================
