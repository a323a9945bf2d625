--------------------------- MODULE ParallelArray ---------------------------
(***************************************************************************)
(* The parallel array operations of builtin/Array.js: mapPar, reducePar,   *)
(* scanPar, scatterPar (both strategies), filterPar and buildPar.  Each    *)
(* cuts its work into slices, hands a kernel to ForkJoin() (one or two     *)
(* times) and combines what the slices computed.  KernelCalls says how the *)
(* kernel is called: slices overlap, a call may be given up at any point   *)
(* and be made again, in parallel, as a warm-up or sequentially.           *)
(*                                                                         *)
(* The i-th element of the input is <<i>> and the user's associative       *)
(* function is concatenation, so that a result shows which elements were   *)
(* combined, how often and in which order.  An array is a function on      *)
(* 0..n-1.  Code between two calls of the user's function, and one         *)
(* UnsafePutElements(), is one step.                                       *)
(***************************************************************************)
EXTENDS KernelCalls, FiniteSets, Sequences

CONSTANTS
    ChunkSize,        \* CHUNK_SIZE, 32 in the code
    SlicesPerWorker,  \* SLICES_PER_WORKER, 8 in the code
    MaxWorkers,       \* bound on ForkJoinNumWorkers(), the main thread included
    MaxLength,        \* bound on the length of an array
    Inputs            \* the operations to perform, with their arguments

\* An operation is performed with a number of workers on an array of a
\* length.  A filter keeps the elements in keep.  A scatter has targets and an
\* output length; a target equal to outLength is out of bounds.
Kind == {"map", "build", "reduce", "scan", "filter", "range", "vector"}
NoScatter == [targets |-> <<>>, outLength |-> 0, conflictFunc |-> FALSE]

ASSUME ArrayAssumption ==
    /\ MaxWorkers \in Nat \ {0} /\ ChunkSize \in Nat \ {0}
    /\ SlicesPerWorker \in Nat \ {0} /\ MaxLength \in Nat
    /\ MaxWorkers * SlicesPerWorker <= MaxSlices
    /\ \A op \in Inputs :
          /\ op.kind \in Kind /\ op.workers \in 1..MaxWorkers
          /\ op.length \in 0..MaxLength /\ op.keep \subseteq 0..(op.length - 1)
          /\ op.scatter.outLength \in 0..MaxLength
          /\ op.scatter.conflictFunc \in BOOLEAN
          /\ op.kind \in {"range", "vector"} =>
                op.scatter.targets \in [0..(op.length - 1) -> Nat]

VARIABLES
    input,      \* the operation, its array and its arguments
    stage,      \* "start", "fork1", "fork2" (in a ForkJoin()), "returned"
    info,       \* per slice: its bounds and the position it has reached
    buffer,     \* the output array
    sub,        \* per slice: subreduction, intermediate or local buffer
    conflicts,  \* indices of the output already written, per slice if local
    counts,     \* per slice: survivors of a filter
    survivors,  \* per chunk: which elements survive the filter
    frame,      \* per slice: locals of the call under way
    result      \* what the operation returned or that it threw

avars == <<input, stage, info, buffer, sub, conflicts, counts, survivors,
           frame, result>>
vars == <<kvars, avars>>

-----------------------------------------------------------------------------
(* Values.                                                                 *)

Elem(i) == <<i>>
Hole == <<>>               \* an element of NewDenseArray() not yet written
Default == <<-1>>          \* defaultValue of a scatter
Func(a, b) == a \o b
Returned(v) == [threw |-> FALSE, value |-> v]
Threw == [threw |-> TRUE, value |-> Hole]

MinOf(a, b) == IF a <= b THEN a ELSE b
NewDenseArray(n, v) == [i \in 0..(n - 1) |-> v]

\* Func applied from the left to f[0], ..., f[n].
Reduction(f, n) ==
    LET acc[i \in 0..n] == IF i = 0 THEN f[0] ELSE Func(acc[i - 1], f[i])
    IN acc[n]

Elems(n) == [i \in 0..(n - 1) |-> Elem(i)]

-----------------------------------------------------------------------------
(* The operation's arguments.                                              *)

kind == input.kind
NumWorkers == input.workers
length == input.length
targets == input.scatter.targets
outLength == input.scatter.outLength

-----------------------------------------------------------------------------
(* Division of the work.                                                   *)

ComputeNumChunks(n) ==
    LET full == n \div ChunkSize
    IN IF full * ChunkSize = n THEN full ELSE full + 1

ComputeNumSlices(n, chunks) ==
    IF n # 0 /\ chunks >= NumWorkers * SlicesPerWorker
    THEN NumWorkers * SlicesPerWorker ELSE NumWorkers

\* The first numItems % numSlices slices get one item more.
ComputeAllSliceBounds(numItems, numSlices) ==
    LET width(i) == (numItems \div numSlices)
                    + (IF i < numItems % numSlices THEN 1 ELSE 0)
        counter[i \in 0..numSlices] ==
            IF i = 0 THEN 0 ELSE counter[i - 1] + width(i - 1)
    IN [s \in 0..(numSlices - 1) |->
            [start |-> counter[s], end |-> counter[s + 1], pos |-> counter[s]]]

\* [startIndex, endIndex) of one slice, computed on its own.
ComputeSliceBounds(numItems, s, numSlices) ==
    LET width == numItems \div numSlices
        extra == numItems % numSlices
        startIndex == width * s + MinOf(extra, s)
    IN [start |-> startIndex,
        end |-> startIndex + width + (IF s < extra THEN 1 ELSE 0)]

Chunks == ComputeNumChunks(length)
NumSlices ==
    CASE kind = "range"  -> ComputeNumSlices(outLength, Chunks)
      [] kind = "vector" -> ComputeNumSlices(outLength, ComputeNumChunks(outLength))
      [] OTHER           -> ComputeNumSlices(length, Chunks)

\* Operations that fall back to sequential code when there is little to do.
TooSmall ==
    \/ kind \in {"reduce", "scan"} /\ Chunks < NumWorkers
    \/ kind = "filter" /\ Chunks < NumWorkers * 2

-----------------------------------------------------------------------------
(* The sequential fallbacks: what each operation means.                    *)

Kept(n) == {i \in input.keep : i < n}

\* One turn of the loop of seq(): element i goes to its target.
CheckedTarget(i) == targets[i] < outLength
Collide(x, y) == Func(x, y)      \* conflictFunc, if there is one
MayCollide == input.scatter.conflictFunc
ScatterOne(st, i) ==
    LET t == targets[i]
    IN IF st.threw \/ ~CheckedTarget(i) \/ (t \in st.written /\ ~MayCollide)
       THEN [st EXCEPT !.threw = TRUE]
       ELSE [st EXCEPT
               !.buffer[t] = IF t \in st.written THEN Collide(Elem(i), @)
                                                 ELSE Elem(i),
               !.written = @ \cup {t}]
ScatterSeq ==
    LET st[n \in 0..length] ==
            IF n = 0 THEN [threw |-> FALSE, written |-> {},
                           buffer |-> NewDenseArray(outLength, Default)]
            ELSE ScatterOne(st[n - 1], n - 1)
    IN IF st[length].threw THEN Threw ELSE Returned(st[length].buffer)

Sequential ==
    CASE kind \in {"map", "build"} -> Returned(Elems(length))
      [] kind \in {"reduce", "scan"} /\ length = 0 -> Threw
      [] kind = "reduce" /\ length > 0 ->
            Returned(Reduction(Elems(length), length - 1))
      [] kind = "scan" /\ length > 0 ->
            Returned([i \in 0..(length - 1) |-> Reduction(Elems(length), i)])
      [] kind = "filter" ->
            Returned([j \in 0..(Cardinality(input.keep) - 1) |->
                Elem(CHOOSE i \in input.keep : Cardinality(Kept(i)) = j)])
      [] kind \in {"range", "vector"} -> ScatterSeq

-----------------------------------------------------------------------------
(* The operation, outside of its kernels.                                  *)

NoFrame == [pos |-> 0, last |-> 0, i |-> 0, acc |-> Hole, bits |-> {}, count |-> 0]

Init ==
    /\ KInit
    /\ input \in Inputs
    /\ stage = "start"
    /\ info = [s \in {} |-> 0]
    /\ buffer = <<>> /\ sub = <<>> /\ survivors = <<>>
    /\ conflicts = [s \in Slice |-> {}]
    /\ counts = [s \in Slice |-> 0]
    /\ frame = [s \in Slice |-> NoFrame]
    /\ result = Threw

\* No parallelism: nested in a parallel section, told not to, or too small.
FallBack ==
    /\ stage = "start"
    /\ stage' = "returned"
    /\ result' = Sequential
    /\ UNCHANGED <<kvars, input, info, buffer, sub, conflicts, counts,
                   survivors, frame>>

EmptyReduce == kind \in {"reduce", "scan"} /\ length = 0

Fork ==
    /\ stage = "start"
    /\ ~EmptyReduce /\ ~TooSmall
    /\ Start(NumSlices)
    /\ stage' = "fork1"
    /\ info' = CASE kind = "range" ->
                      [s \in 0..(NumSlices - 1) |->
                          [start |-> 0, end |-> length, pos |-> 0]]
                 [] kind = "vector" -> ComputeAllSliceBounds(length, NumSlices)
                 [] OTHER -> ComputeAllSliceBounds(Chunks, NumSlices)
    /\ buffer' = CASE kind = "range" -> NewDenseArray(outLength, Default)
                   [] OTHER -> NewDenseArray(length, Hole)
    /\ sub' = CASE kind = "vector" ->
                     [s \in 0..(NumSlices - 1) |->
                         NewDenseArray(outLength, IF s = 0 THEN Default ELSE Hole)]
                [] OTHER -> NewDenseArray(NumSlices, Hole)
    /\ survivors' = NewDenseArray(Chunks, {})
    /\ UNCHANGED <<input, conflicts, counts, frame, result>>

Finished(r) ==
    /\ stage' = "returned"
    /\ result' = r
    /\ UNCHANGED <<kvars, input, info, buffer, sub, conflicts, counts,
                   survivors, frame>>

ReturnBuffer ==
    /\ outcome = "done"
    /\ \/ stage = "fork1" /\ kind \in {"map", "build", "range"}
       \/ stage = "fork2"
    /\ Finished(Returned(buffer))

ReduceSlices ==
    /\ outcome = "done" /\ stage = "fork1" /\ kind = "reduce"
    /\ Finished(Returned(Reduction(sub, NumSlices - 1)))

\* The end of slice s in buffer: the last element phase 1 computed for it.
finalElement(s) == MinOf(info[s].end * ChunkSize, length) - 1

\* Intermediates, then the positions of phase 2, which are indices.
ScanIntermediates ==
    /\ outcome = "done" /\ stage = "fork1" /\ kind = "scan"
    /\ sub' = [s \in 0..(NumSlices - 1) |->
                 Reduction([t \in 0..s |-> buffer[finalElement(t)]], s)]
    /\ info' = [s \in 0..(NumSlices - 1) |->
                 [start |-> info[s].start,
                  pos |-> info[s].start * ChunkSize,
                  end |-> IF s = NumSlices - 1
                          THEN MinOf(info[s].end * ChunkSize, length)
                          ELSE info[s].end * ChunkSize]]
    /\ Start(NumSlices)
    /\ stage' = "fork2"
    /\ UNCHANGED <<input, buffer, conflicts, counts, survivors, frame, result>>

\* count[s]: survivors in the slices before s.
CountBefore(s) ==
    LET count[t \in 0..s] == IF t = 0 THEN 0 ELSE count[t - 1] + counts[t - 1]
    IN count[s]

CompressSurvivors ==
    /\ outcome = "done" /\ stage = "fork1" /\ kind = "filter"
    /\ IF CountBefore(NumSlices) = 0
       THEN Finished(Returned(NewDenseArray(0, Hole)))
       ELSE /\ buffer' = NewDenseArray(CountBefore(NumSlices), Hole)
            /\ Start(NumSlices)
            /\ stage' = "fork2"
            /\ UNCHANGED <<input, info, sub, conflicts, counts, survivors,
                           frame, result>>

\* mergeBuffers(): slice s is merged into what slices 0..s-1 left in buffer 0.
MergeOne(st, s) ==
    [threw |-> st.threw \/ (st.written \cap conflicts[s] # {} /\ ~MayCollide),
     written |-> st.written \cup conflicts[s],
     buffer |-> [j \in 0..(outLength - 1) |->
        IF j \notin conflicts[s] THEN st.buffer[j]
        ELSE IF j \in st.written THEN Collide(sub[s][j], st.buffer[j])
        ELSE sub[s][j]]]

MergeBuffers ==
    /\ outcome = "done" /\ stage = "fork1" /\ kind = "vector"
    /\ LET st[s \in 0..(NumSlices - 1)] ==
               IF s = 0 THEN [threw |-> FALSE, written |-> conflicts[0],
                              buffer |-> sub[0]]
               ELSE MergeOne(st[s - 1], s)
           merged == st[NumSlices - 1]
       IN Finished(IF merged.threw THEN Threw ELSE Returned(merged.buffer))

\* An exception in a warm-up or sequential call leaves the operation.
Propagate ==
    /\ outcome = "fatal" /\ stage \in {"fork1", "fork2"}
    /\ Finished(Threw)

Terminated == stage = "returned" /\ UNCHANGED vars

-----------------------------------------------------------------------------
(* Calls of a kernel.                                                      *)

kernel == IF stage = "fork1" THEN kind
          ELSE IF kind = "scan" THEN "phase2" ELSE "copy"

ByIndex == kernel \in {"phase2", "range", "vector"}
ChunkEnd(c) == MinOf(c * ChunkSize + ChunkSize, length)

\* Mutant: a warm-up takes its chunk even when the slice is complete.
StopAtUnclamped(s, mode) ==
    LET b == info[s]
    IN IF mode # "warmup" \/ kernel = "copy" THEN b.end
       ELSE IF ByIndex THEN MinOf(b.end, b.pos + ChunkSize) ELSE b.pos + 1

\* How far a call goes: a warm-up stops after one or two chunks, except that
\* copySurvivorsInSlice ignores its second argument.
StopAt(s, mode) ==
    LET b == info[s]
        upTo(n) == IF b.end > b.pos + n THEN b.pos + n ELSE b.end
    IN IF mode # "warmup" \/ kernel = "copy" THEN b.end
       ELSE IF ByIndex THEN MinOf(b.end, b.pos + ChunkSize)
       ELSE IF kernel \in {"reduce", "scan"} THEN upTo(2)
       ELSE upTo(1)

Enter(s, mode) ==
    /\ stage \in {"fork1", "fork2"}
    /\ Begin(s, mode)
    /\ LET b == info[s]
           from == IF kernel = "copy" THEN b.start ELSE b.pos
       IN frame' = [frame EXCEPT ![s] =
            [NoFrame EXCEPT
                !.pos = from,
                !.last = StopAt(s, mode),
                !.i = from * ChunkSize,
                !.acc = IF kernel = "reduce" THEN sub[s] ELSE Hole,
                !.count = IF kernel = "copy" THEN CountBefore(s) ELSE counts[s]]]
    /\ UNCHANGED <<input, stage, info, buffer, sub, conflicts, counts,
                   survivors, result>>

\* Some calls do not loop at all.
NothingToDo(s) ==
    \/ kernel = "phase2" /\ s = 0
    \/ kernel = "copy" /\ frame[s].count = CountBefore(s) + counts[s]

\* reduce and scan do the first chunk of a slice before they test the end.
FirstChunk(s) ==
    kernel \in {"reduce", "scan"} /\ frame[s].pos = info[s].start

InLoop(s) ==
    /\ s \in InCall
    /\ ~NothingToDo(s)
    /\ frame[s].pos < frame[s].last \/ FirstChunk(s)
AtElement(s) == InLoop(s) /\ ~ByIndex /\ frame[s].i < ChunkEnd(frame[s].pos)
AtChunkEnd(s) == InLoop(s) /\ ~ByIndex /\ frame[s].i = ChunkEnd(frame[s].pos)

Leave(s) ==
    /\ s \in InCall /\ ~InLoop(s)
    /\ Return(s, kernel = "copy" \/ NothingToDo(s) \/ frame[s].last = info[s].end)
    /\ frame' = [frame EXCEPT ![s] = NoFrame]
    /\ UNCHANGED <<input, stage, info, buffer, sub, conflicts, counts,
                   survivors, result>>

\* The call is given up: by a bailout if it runs in parallel, else the
\* exception propagates.
Unwind(s) ==
    /\ frame' = [frame EXCEPT ![s] = NoFrame]
    /\ UNCHANGED <<input, stage, info, buffer, sub, conflicts, counts,
                   survivors, result>>
BailOut(s) == Bailout(s) /\ Unwind(s)
ThrowError(s) == (Bailout(s) \/ Throw(s)) /\ Unwind(s)

\* SLICE_POS is stored and the loop goes to the next chunk (or index).
Advance(s) ==
    /\ info' = [info EXCEPT ![s].pos = frame[s].pos + 1]
    /\ frame' = [frame EXCEPT ![s].pos = @ + 1,
                              ![s].i = (frame[s].pos + 1) * ChunkSize,
                              ![s].bits = {}]

\* mapSlice, constructSlice
MapElement(s) ==
    /\ kernel \in {"map", "build"} /\ AtElement(s)
    /\ buffer' = [buffer EXCEPT ![frame[s].i] = Elem(frame[s].i)]
    /\ frame' = [frame EXCEPT ![s].i = @ + 1]
    /\ UNCHANGED <<kvars, input, stage, info, sub, conflicts, counts,
                   survivors, result>>

ChunkDone(s) ==
    /\ kernel \in {"map", "build", "scan"} /\ AtChunkEnd(s)
    /\ Advance(s)
    /\ UNCHANGED <<kvars, input, stage, buffer, sub, conflicts, counts,
                   survivors, result>>

\* reduceSlice: the first element of a slice is its first accumulator.
ReduceElement(s) ==
    /\ kernel = "reduce" /\ AtElement(s)
    /\ frame' = [frame EXCEPT
          ![s].acc = IF FirstChunk(s) /\ frame[s].i = frame[s].pos * ChunkSize
                     THEN Elem(frame[s].i) ELSE Func(@, Elem(frame[s].i)),
          ![s].i = @ + 1]
    /\ UNCHANGED <<kvars, input, stage, info, buffer, sub, conflicts, counts,
                   survivors, result>>

ReduceChunk(s) ==
    /\ kernel = "reduce" /\ AtChunkEnd(s)
    /\ sub' = [sub EXCEPT ![s] = frame[s].acc]
    /\ Advance(s)
    /\ UNCHANGED <<kvars, input, stage, buffer, conflicts, counts, survivors,
                   result>>

\* phase1 of a scan: a chunk but the first goes on from the last element of
\* the chunk before it, read from buffer.
ScanElement(s) ==
    LET i == frame[s].i
        accumulator == IF i > frame[s].pos * ChunkSize THEN frame[s].acc
                       ELSE buffer[i - 1]
        v == IF FirstChunk(s) /\ i = frame[s].pos * ChunkSize
             THEN Elem(i) ELSE Func(accumulator, Elem(i))
    IN /\ kernel = "scan" /\ AtElement(s)
       /\ buffer' = [buffer EXCEPT ![i] = v]
       /\ frame' = [frame EXCEPT ![s].acc = v, ![s].i = i + 1]
       /\ UNCHANGED <<kvars, input, stage, info, sub, conflicts, counts,
                      survivors, result>>

\* Mutant: phase 2 records a position per chunk, as the other kernels do.
Phase2ByChunk(s) ==
    /\ kernel = "phase2" /\ InLoop(s)
    /\ buffer' = [buffer EXCEPT ![frame[s].pos] = Func(sub[s - 1], @)]
    /\ frame' = [frame EXCEPT ![s].pos = @ + 1]
    /\ info' = IF (frame[s].pos + 1) % ChunkSize = 0 \/ frame[s].pos + 1 = frame[s].last
               THEN [info EXCEPT ![s].pos = frame[s].pos + 1] ELSE info
    /\ UNCHANGED <<kvars, input, stage, sub, conflicts, counts, survivors,
                   result>>

\* phase2 of a scan updates buffer in place, so it records each index.
Phase2Element(s) ==
    /\ kernel = "phase2" /\ InLoop(s)
    /\ buffer' = [buffer EXCEPT ![frame[s].pos] = Func(sub[s - 1], @)]
    /\ Advance(s)
    /\ UNCHANGED <<kvars, input, stage, sub, conflicts, counts, survivors,
                   result>>

\* fill of the divide-output-range strategy: the slice looks at every target
\* and writes those in its part of the output.
OutputPart(s) ==
    LET b == ComputeSliceBounds(outLength, s, NumSlices)
    IN b.start..(b.end - 1)

RangeSkip(s) ==
    /\ kernel = "range" /\ InLoop(s)
    /\ CheckedTarget(frame[s].pos)
    /\ targets[frame[s].pos] \notin OutputPart(s)
    /\ frame' = [frame EXCEPT ![s].pos = @ + 1]
    /\ UNCHANGED <<kvars, input, stage, info, buffer, sub, conflicts, counts,
                   survivors, result>>

RangeElement(s) ==
    LET i == frame[s].pos
        t == targets[i]
    IN /\ kernel = "range" /\ InLoop(s)
       /\ CheckedTarget(i) /\ t \in OutputPart(s)
       /\ t \in conflicts[0] => MayCollide
       /\ buffer' = [buffer EXCEPT ![t] =
              IF t \in conflicts[0] THEN Collide(Elem(i), @) ELSE Elem(i)]
       /\ conflicts' = [conflicts EXCEPT ![0] = @ \cup {t}]
       /\ Advance(s)
       /\ UNCHANGED <<kvars, input, stage, sub, counts, survivors, result>>

\* Mutant: the scatter proceeds by chunks, so that elements are replayed.
VectorByChunk(s) ==
    LET i == frame[s].pos
        t == targets[i]
    IN /\ kernel = "vector" /\ InLoop(s)
       /\ CheckedTarget(i)
       /\ t \in conflicts[s] => MayCollide
       /\ sub' = [sub EXCEPT ![s][t] =
              IF t \in conflicts[s] THEN Collide(Elem(i), @) ELSE Elem(i)]
       /\ conflicts' = [conflicts EXCEPT ![s] = @ \cup {t}]
       /\ frame' = [frame EXCEPT ![s].pos = @ + 1]
       /\ info' = IF i + 1 = frame[s].last
                  THEN [info EXCEPT ![s].pos = i + 1] ELSE info
       /\ UNCHANGED <<kvars, input, stage, buffer, counts, survivors, result>>

\* fill of the divide-scatter-vector strategy, into the slice's own buffer.
VectorElement(s) ==
    LET i == frame[s].pos
        t == targets[i]
    IN /\ kernel = "vector" /\ InLoop(s)
       /\ CheckedTarget(i)
       /\ t \in conflicts[s] => MayCollide
       /\ sub' = [sub EXCEPT ![s][t] =
              IF t \in conflicts[s] THEN Collide(Elem(i), @) ELSE Elem(i)]
       /\ conflicts' = [conflicts EXCEPT ![s] = @ \cup {t}]
       /\ Advance(s)
       /\ UNCHANGED <<kvars, input, stage, buffer, counts, survivors, result>>

\* checkTarget() or collide() throws.
ScatterError(s) ==
    LET i == frame[s].pos
        t == targets[i]
        written == IF kernel = "range" THEN conflicts[0] ELSE conflicts[s]
    IN /\ kernel \in {"range", "vector"} /\ InLoop(s)
       /\ \/ ~CheckedTarget(i)
          \/ /\ t \in written /\ ~MayCollide
             /\ kernel = "range" => t \in OutputPart(s)
       /\ ThrowError(s)

\* findSurvivorsInSlice
FilterElement(s) ==
    LET i == frame[s].i
        keep == i \in input.keep
    IN /\ kernel = "filter" /\ AtElement(s)
       /\ frame' = [frame EXCEPT
             ![s].bits = IF keep THEN @ \cup {i} ELSE @,
             ![s].count = IF keep THEN @ + 1 ELSE @,
             ![s].i = i + 1]
       /\ UNCHANGED <<kvars, input, stage, info, buffer, sub, conflicts,
                      counts, survivors, result>>

FilterChunk(s) ==
    /\ kernel = "filter" /\ AtChunkEnd(s)
    /\ survivors' = [survivors EXCEPT ![frame[s].pos] = frame[s].bits]
    /\ counts' = [counts EXCEPT ![s] = frame[s].count]
    /\ Advance(s)
    /\ UNCHANGED <<kvars, input, stage, buffer, sub, conflicts, result>>

\* copySurvivorsInSlice: it records no progress, a repeated call starts again.
\* The bits of a chunk are examined up to the last survivor of the slice.
CopyElement(s) ==
    LET i == frame[s].i
        c == frame[s].pos
        keep == i \in survivors[c]
    IN /\ kernel = "copy" /\ AtElement(s)
       /\ buffer' = IF keep THEN [buffer EXCEPT ![frame[s].count] = Elem(i)]
                    ELSE buffer
       /\ frame' = [frame EXCEPT ![s].count = IF keep THEN @ + 1 ELSE @,
                                 ![s].i = i + 1]
       /\ UNCHANGED <<kvars, input, stage, info, sub, conflicts, counts,
                      survivors, result>>

CopyChunk(s) ==
    /\ kernel = "copy" /\ AtChunkEnd(s)
    /\ frame' = [frame EXCEPT ![s].pos = @ + 1,
                              ![s].i = (frame[s].pos + 1) * ChunkSize]
    /\ UNCHANGED <<kvars, input, stage, info, buffer, sub, conflicts, counts,
                   survivors, result>>

KernelStep(s) ==
    \/ MapElement(s) \/ ReduceElement(s) \/ ScanElement(s)
    \/ FilterElement(s) \/ CopyElement(s) \/ Phase2Element(s)
    \/ RangeSkip(s) \/ RangeElement(s) \/ VectorElement(s) \/ ScatterError(s)
    \/ ChunkDone(s) \/ ReduceChunk(s) \/ FilterChunk(s) \/ CopyChunk(s)

ForkJoinDone == Succeed /\ UNCHANGED avars

Next ==
    \/ FallBack \/ Fork \/ ForkJoinDone \/ ReturnBuffer \/ ReduceSlices
    \/ ScanIntermediates \/ CompressSurvivors \/ MergeBuffers \/ Propagate
    \/ Terminated
    \/ \E s \in Slice :
          \/ \E mode \in CallMode : Enter(s, mode)
          \/ KernelStep(s) \/ Leave(s) \/ BailOut(s)

Spec == Init /\ [][Next]_vars

-----------------------------------------------------------------------------
(* Properties.                                                             *)

Values == [pos : Nat, last : Nat, i : Nat, count : Nat,
           bits : SUBSET (0..(MaxLength - 1)), acc : Seq(Int)]

\* Types.  Buffers are total on their index sets, and a call under way works
\* inside the bounds of its slice.
TypeOK ==
    /\ slices \in SUBSET Slice
    /\ outcome \in {"idle", "running", "done", "fatal"}
    /\ call \in [Slice -> CallMode \cup {"none"}]
    /\ complete \subseteq slices
    /\ stage \in {"start", "fork1", "fork2", "returned"}
    /\ DOMAIN info \subseteq Slice
    /\ \A s \in DOMAIN info : info[s].start <= info[s].end
    /\ \A i \in DOMAIN buffer : buffer[i] \in Seq(Int)
    /\ conflicts \in [Slice -> SUBSET (0..(MaxLength - 1))]
    /\ counts \in [Slice -> 0..MaxLength]
    /\ frame \in [Slice -> Values]
    /\ \A s \in InCall : frame[s].pos <= info[s].end /\ frame[s].last <= info[s].end

\* Whatever the overlap of the slices, the bailouts, the calls repeated after
\* them, the warm-ups and the sequential calls, a parallel operation returns
\* what its sequential fallback returns, or throws when that throws: no
\* element is lost, combined twice or combined out of order.
ResultIsSequential == stage = "returned" => result = Sequential

\* The elements a, ..., b combined.
Run(a, b) == [j \in 1..(b - a + 1) |-> a + j - 1]

\* What a call leaves behind up to its recorded position is all that the next
\* call of the slice relies on ("lest we should bail"), so it must be right
\* whenever a call can be given up.  In phase 2 of a scan, which updates the
\* buffer in place, an element is combined with the intermediate exactly when
\* it lies before the position.
CheckpointSound(s) ==
    LET lo == info[s].start * ChunkSize
        hi == MinOf(info[s].pos * ChunkSize, length)
        top == IF s + 1 \in DOMAIN info THEN info[s + 1].start * ChunkSize
               ELSE length
    IN /\ kernel \in {"map", "build"} =>
              \A i \in lo..(hi - 1) : buffer[i] = Elem(i)
       /\ kernel = "reduce" /\ lo < hi => sub[s] = Run(lo, hi - 1)
       /\ kernel = "scan" => \A i \in lo..(hi - 1) : buffer[i] = Run(lo, i)
       /\ kernel = "phase2" => \A i \in lo..(top - 1) :
              buffer[i] = IF s = 0 \/ i < info[s].pos THEN Run(0, i) ELSE Run(lo, i)
       /\ kernel = "filter" =>
              /\ counts[s] = Cardinality(input.keep \cap (lo..(hi - 1)))
              /\ \A c \in info[s].start..(info[s].pos - 1) : survivors[c] =
                    input.keep \cap ((c * ChunkSize)..(ChunkEnd(c) - 1))
CheckpointsAreSound ==
    stage \in {"fork1", "fork2"} => \A s \in slices : CheckpointSound(s)

=============================================================================
