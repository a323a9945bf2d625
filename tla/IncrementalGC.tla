--------------------------- MODULE IncrementalGC ---------------------------
(***************************************************************************)
(* The incremental mark and sweep collector of jsgc.cpp and gc/Marking.cpp *)
(* and the program that runs between its slices.                           *)
(*                                                                         *)
(* A collection marks the zones it was asked to collect in slices of       *)
(* limited length.  Between them the program changes the heap, under read  *)
(* and write barriers.  Zones are then swept group by group, in an order   *)
(* that follows the wrappers between them: of the cells held by the        *)
(* embedder only (gray roots), each is marked when its group's turn comes. *)
(* A collection whose conditions change is reset and done over.            *)
(*                                                                         *)
(* A cell has one field.  A field that points to another zone makes its    *)
(* cell a cross-compartment wrapper; a zone has one compartment.  An arena *)
(* holds one cell.  Weak maps, atoms and the nursery are left out.         *)
(***************************************************************************)
EXTENDS Integers, FiniteSets, Sequences, SequencesExt

CONSTANTS
    Zone, Cell,
    ZoneOf,      \* the zone of each cell
    Null,
    InitialHeaps, \* the heaps to begin with
    MaxCycles,   \* bound: collections begun, those begun again included
    MaxOps       \* bound: steps of the program

ASSUME GCAssumption ==
    /\ IsFiniteSet(Cell) /\ IsFiniteSet(Zone) /\ Zone # {}
    /\ ZoneOf \in [Cell -> Zone] /\ Null \notin Cell
    /\ InitialHeaps \subseteq [used : SUBSET Cell, field : [Cell -> Cell \cup {Null}],
                               roots : SUBSET Cell, grayRoots : SUBSET Cell]
    /\ \A heap \in InitialHeaps :
          /\ heap.roots \cup heap.grayRoots \subseteq heap.used
          /\ \A c \in Cell : heap.field[c] # Null => {c, heap.field[c]} \subseteq heap.used
    /\ MaxCycles \in Nat /\ MaxOps \in Nat

VARIABLES
    \* the heap
    used,         \* allocated cells
    field,        \* what the field of each cell points to
    wrappers,     \* cells in crossCompartmentWrappers
    roots,        \* cells that the program holds
    grayRoots,    \* cells that the embedder holds
    \* the collector
    mark,         \* "white" (not marked), "gray" or "black"
    zoneState,    \* gcState of each zone
    needsBarrier, \* zones in which the barriers work
    scheduled,    \* zones with gcScheduled
    phase,        \* gcIncrementalState: "none", "mark" or "sweep"
    pc,           \* "program" between slices, "cycle" at a GCCycle(), else
                  \* what a slice is doing: "mark" or "sweep"
    limited,      \* gcIsIncremental: the slice has a budget
    firstSlice,   \* the slice began the collection (initialState is not MARK)
    lastMark,     \* gcLastMarkSlice
    repeat,       \* the collection is being reset, another follows
    stack,        \* cells on the mark stack
    delayed,      \* cells allocated in arenas with allocatedDuringIncremental
    grayBuffer,   \* buffered gray roots
    buffered,     \* hasBufferedGrayRoots()
    incoming,     \* gcIncomingGrayPointers of all compartments
    groups,       \* gcZoneGroups from the current one
    abortSweep,   \* gcAbortSweepAfterCurrentGroup
    toSweep,      \* dead cells queued for finalization
    background,   \* of these, the ones left to the helper thread
    garbage,      \* cells out of reach since the collection began (history)
    cycles, ops   \* what is left of the bounds

heapVars == <<used, field, wrappers, roots, grayRoots>>
sliceVars == <<limited, firstSlice, lastMark, repeat>>
grayVars == <<grayBuffer, buffered, incoming>>
sweepVars == <<groups, abortSweep, toSweep, background>>
markVars == <<mark, stack, delayed>>
bounds == <<cycles, ops>>
vars == <<heapVars, markVars, zoneState, needsBarrier, scheduled, phase, pc,
          sliceVars, grayVars, sweepVars, garbage, bounds>>

-----------------------------------------------------------------------------
(* Graphs: cells along fields, zones along wrappers.                       *)

IsWrapper(c) == field[c] # Null /\ ZoneOf[field[c]] # ZoneOf[c]

\* All that can be reached from the cells of start through cells of within.
Spread(start, within) ==
    LET upTo[n \in Nat] ==
            IF n = 0 THEN start \cap within
            ELSE upTo[n-1] \cup ({field[c] : c \in upTo[n-1]} \cap within)
    IN upTo[Cardinality(Cell)]

Reach(start) == Spread(start, Cell)
In(zones) == {c \in Cell : ZoneOf[c] \in zones}
WithMark(m, color) == {c \in used : m[c] = color}
Paint(m, cells, color) == [c \in Cell |-> IF c \in cells THEN color ELSE m[c]]

ZonesIn(state) == {z \in Zone : zoneState[z] = state}
Started == Zone \ ZonesIn("NoGC")            \* wasGCStarted()

Init ==
    /\ \E heap \in InitialHeaps :
          /\ used = heap.used /\ field = heap.field
          /\ roots = heap.roots /\ grayRoots = heap.grayRoots
    /\ wrappers = {c \in used : IsWrapper(c)}
    /\ mark = [c \in Cell |-> "white"]
    /\ zoneState = [z \in Zone |-> "NoGC"]
    /\ needsBarrier = {} /\ scheduled = {}
    /\ phase = "none" /\ pc = "program"
    /\ limited = FALSE /\ firstSlice = FALSE /\ lastMark = FALSE /\ repeat = FALSE
    /\ stack = {} /\ delayed = {}
    /\ grayBuffer = {} /\ buffered = FALSE /\ incoming = {}
    /\ groups = <<>> /\ abortSweep = FALSE
    /\ toSweep = {} /\ background = {} /\ garbage = {}
    /\ cycles = MaxCycles /\ ops = MaxOps

-----------------------------------------------------------------------------
(* The program.                                                            *)

\* The program matters between the slices of a collection and while the helper
\* thread sweeps; other heaps are initial states.
ProgramStep ==
    /\ pc = "program" /\ ops > 0
    /\ phase # "none" \/ background # {}
    /\ ops' = ops - 1
    /\ UNCHANGED <<zoneState, needsBarrier, scheduled, phase, pc, sliceVars,
                   grayBuffer, buffered, sweepVars, cycles>>

\* Mutant: a write or read without its barrier.
Barrier_forgotten(c) == UNCHANGED <<mark, stack>>

\* BarrieredCell::writeBarrierPre() and readBarrier(): mark the cell.
Barrier(c) ==
    IF c # Null /\ ZoneOf[c] \in needsBarrier /\ mark[c] = "white"
    THEN /\ mark' = [mark EXCEPT ![c] = "black"]
         /\ stack' = stack \cup {c}
    ELSE UNCHANGED <<mark, stack>>

Read(c) ==
    /\ ProgramStep
    /\ c \in roots /\ field[c] \notin roots \cup {Null}
    /\ roots' = roots \cup {field[c]}
    /\ UNCHANGED <<used, field, wrappers, grayRoots, markVars, incoming, garbage>>

Write(c, value) ==
    /\ ProgramStep
    /\ c \in roots /\ ~IsWrapper(c) /\ value # field[c]
    /\ value = Null \/ (value \in roots /\ ZoneOf[value] = ZoneOf[c])
    /\ Barrier(field[c])
    /\ field' = [field EXCEPT ![c] = value]
    /\ UNCHANGED <<used, wrappers, roots, grayRoots, delayed, incoming, garbage>>

Drop(c) ==
    /\ ProgramStep
    /\ roots' = roots \ {c} /\ roots' # roots
    /\ UNCHANGED <<used, field, wrappers, grayRoots, markVars, incoming, garbage>>

\* A cell of an arena that the collector has to mark as a whole, if marking is
\* under way in the zone.
Allocate(c) ==
    /\ c \notin used
    /\ used' = used \cup {c}
    /\ roots' = roots \cup {c}
    /\ mark' = [mark EXCEPT ![c] = "white"]
    /\ delayed' = IF ZoneOf[c] \in needsBarrier THEN delayed \cup {c} ELSE delayed

New(c) ==
    /\ ProgramStep
    /\ Allocate(c)
    /\ UNCHANGED <<field, wrappers, grayRoots, stack, incoming, garbage>>

\* JSCompartment::wrap() for a cell of another zone: the wrapper in the map, a
\* weak reference behind a read barrier, or a new one.
Wrap(target, w) ==
    /\ ProgramStep
    /\ target \in roots /\ target \notin wrappers
    /\ ZoneOf[w] # ZoneOf[target]
    /\ LET existing == {v \in wrappers : field[v] = target /\ ZoneOf[v] = ZoneOf[w]}
       IN IF existing # {}
          THEN /\ w \in existing /\ w \notin roots
               /\ Barrier(w)
               /\ roots' = roots \cup {w}
               /\ garbage' = garbage \ Reach({w})
               /\ UNCHANGED <<used, field, wrappers, delayed>>
          ELSE /\ Allocate(w)
               /\ field' = [field EXCEPT ![w] = target]
               /\ wrappers' = wrappers \cup {w}
               /\ UNCHANGED <<stack, garbage>>
    /\ UNCHANGED <<grayRoots, incoming>>

\* Mutant: a wrapper that is cut stays on the list of its target's compartment.
RemoveFromGrayList_forgotten(w) == UNCHANGED incoming

RemoveFromGrayList(w) == incoming' = incoming \ {w}

\* NukeCrossCompartmentWrappers().
Nuke(w) ==
    /\ ProgramStep
    /\ w \in wrappers
    /\ wrappers' = wrappers \ {w}
    /\ RemoveFromGrayList(w)
    /\ Barrier(field[w])
    /\ field' = [field EXCEPT ![w] = Null]
    /\ garbage' = garbage \ Reach({w})
    /\ UNCHANGED <<used, roots, grayRoots, delayed>>

\* ExposeGCThingToActiveJS(): the embedder hands out a cell that it holds.  A
\* gray cell becomes black, and all gray cells that it reaches.
Ungray(c) ==
    LET exposed == Spread({c}, WithMark(mark, "gray"))
    IN mark' = Paint(mark, exposed, "black") /\ UNCHANGED stack

Expose(c) ==
    /\ ProgramStep
    /\ c \in grayRoots \ roots
    /\ IF ZoneOf[c] \in needsBarrier THEN Barrier(c) ELSE Ungray(c)
    /\ roots' = roots \cup {c}
    /\ UNCHANGED <<used, field, wrappers, grayRoots, delayed, incoming, garbage>>

Hold(c) ==
    /\ ProgramStep
    /\ c \in roots \ grayRoots
    /\ grayRoots' = grayRoots \cup {c}
    /\ UNCHANGED <<used, field, wrappers, roots, markVars, incoming, garbage>>

LetGo(c) ==
    /\ ProgramStep
    /\ grayRoots' = grayRoots \ {c} /\ grayRoots' # grayRoots
    /\ UNCHANGED <<used, field, wrappers, roots, markVars, incoming, garbage>>

-----------------------------------------------------------------------------
(* The beginning and the end of a slice.                                   *)

\* Collect(): some zones are scheduled, and those with barriers always, "to
\* avoid resets".
Collect ==
    /\ pc = "program"
    /\ \E wanted \in SUBSET Zone : scheduled' = wanted \cup needsBarrier
    /\ cycles > 0 \/ (phase # "none" /\ scheduled' = Started)
    /\ pc' = "cycle"
    /\ UNCHANGED <<heapVars, markVars, zoneState, needsBarrier, phase, sliceVars,
                   grayVars, sweepVars, garbage, bounds>>

\* ~AutoGCSlice() and ~AutoGCSession(), then, if the slice ended a collection
\* that was reset, the new one.
EndSlice(state, again) ==
    /\ needsBarrier' = {z \in Zone : state[z] = "Mark"}
    /\ scheduled' = IF again THEN scheduled ELSE {}
    /\ pc' = IF again THEN "cycle" ELSE "program"

\* DrainMarkStack() and SweepPhase() return when the budget is used up.
Yield ==
    /\ pc \in {"mark", "sweep"} /\ limited
    /\ EndSlice(zoneState, FALSE)
    /\ UNCHANGED <<heapVars, markVars, zoneState, phase, sliceVars, grayVars,
                   sweepVars, garbage, bounds>>

\* GCCycle() goes on with the collection under way.  It waits for the helper.
Continue(budget) ==
    /\ pc = "cycle" /\ background = {}
    /\ phase # "none" /\ scheduled = Started
    /\ pc' = phase
    /\ limited' = budget /\ firstSlice' = FALSE
    /\ needsBarrier' = {}
    /\ UNCHANGED <<heapVars, markVars, zoneState, scheduled, phase, lastMark, repeat,
                   grayVars, sweepVars, garbage, bounds>>

\* ResetIncrementalGC(): incremental collection was not asked for, or is not
\* safe, or other zones are scheduled than those being collected.  In the
\* middle of marking, forget it; in the middle of sweeping, finish the current
\* group of zones.
Reset ==
    /\ pc = "cycle" /\ background = {}
    /\ phase # "none" /\ cycles > 0
    /\ stack' = {} /\ delayed' = {}
    /\ needsBarrier' = {}
    /\ IF phase = "mark"
       THEN /\ zoneState' = [z \in Zone |-> "NoGC"]
            /\ grayBuffer' = {} /\ buffered' = FALSE
            /\ incoming' = {}
            /\ phase' = "none"
            /\ garbage' = {}
            /\ UNCHANGED <<pc, sliceVars, abortSweep>>
       ELSE /\ abortSweep' = TRUE /\ repeat' = TRUE
            /\ limited' = FALSE /\ firstSlice' = FALSE
            /\ pc' = "sweep"
            /\ UNCHANGED <<zoneState, grayVars, phase, lastMark, garbage>>
    /\ UNCHANGED <<heapVars, mark, scheduled, groups, toSweep, background, bounds>>

\* Mutant: the wrappers of the zones being collected are roots too.
BlackRoots_allWrappers(zones) ==
    (roots \cup {field[w] : w \in wrappers}) \cap In(zones)

\* MarkRuntime(): the cells that the program holds and what the wrappers of the
\* zones not collected point to.
BlackRoots(zones) ==
    (roots \cup {field[w] : w \in wrappers \ In(zones)}) \cap In(zones)

\* BeginMarkPhase().  With a budget the gray roots are buffered; without, or if
\* the buffer fails, all is done in one slice.
BeginMark(budget) ==
    /\ pc = "cycle" /\ background = {}
    /\ phase = "none" /\ cycles > 0
    /\ cycles' = cycles - 1
    /\ IF scheduled = {}
       THEN /\ pc' = "program"
            /\ UNCHANGED <<markVars, zoneState, phase, sliceVars, grayVars, garbage>>
       ELSE LET marked == BlackRoots(scheduled)
            IN /\ zoneState' = [z \in Zone |-> IF z \in scheduled THEN "Mark" ELSE "NoGC"]
               /\ mark' = Paint(Paint(mark, In(scheduled), "white"), marked, "black")
               /\ stack' = marked /\ delayed' = {}
               /\ \/ budget /\ buffered' = TRUE /\ grayBuffer' = grayRoots \cap In(scheduled)
                  \/ buffered' = FALSE /\ grayBuffer' = {}
               /\ limited' = buffered'
               /\ firstSlice' = TRUE /\ lastMark' = FALSE /\ repeat' = FALSE
               /\ phase' = "mark" /\ pc' = "mark"
               /\ garbage' = (used \cap In(scheduled))
                                \ Reach(roots \cup grayRoots \cup (wrappers \ In(scheduled)))
               /\ UNCHANGED incoming
    /\ scheduled' = IF scheduled = {} THEN {} ELSE scheduled
    /\ UNCHANGED <<heapVars, needsBarrier, sweepVars, ops>>

-----------------------------------------------------------------------------
(* Marking.                                                                *)

Drained == stack = {} /\ delayed = {}

\* processMarkStackTop(): the cell's field is marked if its zone is being marked.
MarkCell(c) ==
    /\ pc \in {"mark", "sweep"}
    /\ c \in stack
    /\ LET child == field[c]
           hit == child # Null /\ zoneState[ZoneOf[child]] = "Mark"
                    /\ mark[child] = "white"
       IN /\ mark' = IF hit THEN [mark EXCEPT ![child] = "black"] ELSE mark
          /\ stack' = (stack \ {c}) \cup (IF hit THEN {child} ELSE {})
    /\ UNCHANGED <<heapVars, delayed, zoneState, needsBarrier, scheduled, phase, pc,
                   sliceVars, grayVars, sweepVars, garbage, bounds>>

\* markDelayedChildren(), when the stack is empty.
MarkArena(c) ==
    /\ pc \in {"mark", "sweep"}
    /\ stack = {} /\ c \in delayed
    /\ delayed' = delayed \ {c}
    /\ mark' = [mark EXCEPT ![c] = "black"]
    /\ stack' = IF mark[c] = "white" THEN {c} ELSE {}
    /\ UNCHANGED <<heapVars, zoneState, needsBarrier, scheduled, phase, pc, sliceVars,
                   grayVars, sweepVars, garbage, bounds>>

-----------------------------------------------------------------------------
(* Sweeping.                                                               *)

\* FindZoneGroups(): strongly connected components of the zones, "to ensure that
\* a wrapper is not swept after what it wraps".
ZoneEdges(m) ==
    {<<ZoneOf[w], ZoneOf[field[w]]>> : w \in
        {w \in wrappers : {ZoneOf[w], ZoneOf[field[w]]} \subseteq Started
                              /\ m[field[w]] # "black"}}
Leads(edges, y) ==
    LET upTo[n \in Nat] ==
            IF n = 0 THEN {y}
            ELSE upTo[n-1] \cup {z \in Zone : \E x \in upTo[n-1] : <<x, z>> \in edges}
    IN upTo[Cardinality(Zone)]
Components(edges) ==
    {{z \in Started : z \in Leads(edges, y) /\ y \in Leads(edges, z)} : y \in Started}
ZoneGroups(edges) ==
    {order \in SetToSeqs(Components(edges)) :
        \A i, j \in DOMAIN order : i > j =>
            ~\E y \in order[i], z \in order[j] : <<y, z>> \in edges}

\* Mutant: what the program has turned black since is not followed.
MarkedBlack_forgotten(group, state) == {}

\* EndMarkingZoneGroup(): what wrappers in the zones already swept point to,
\* first those that the program has turned black, then the gray ones; and the
\* gray roots.  Gray marking stops at the zones still to be marked and leaves
\* the wrapper on their lists.
MarkedBlack(group, state) ==
    LET into == {w \in incoming : ZoneOf[field[w]] \in group /\ mark[w] = "black"}
        marking == In({z \in Zone : state[z] = "Mark"})
    IN Spread({field[w] : w \in into}, marking \cap WithMark(mark, "white"))

MarkedGray(group, m) ==
    LET into == {w \in incoming : ZoneOf[field[w]] \in group /\ m[w] = "gray"}
        held == IF buffered THEN grayBuffer ELSE grayRoots
    IN Spread({field[w] : w \in into} \cup held, In(group) \cap WithMark(m, "white"))

Delayed(gray, group, state, m) ==
    {w \in gray \cap wrappers : /\ ZoneOf[field[w]] \notin group
                                /\ state[ZoneOf[field[w]]] = "Mark"
                                /\ m[field[w]] = "white"}

\* EndMarkingZoneGroup() and BeginSweepingZoneGroup(): the dead cells are queued
\* and the dead entries of the wrapper maps removed.
SweepGroup(order, state) ==
    LET group == Head(order)
        m == Paint(mark, MarkedBlack(group, state), "black")
        gray == MarkedGray(group, m)
        final == Paint(m, gray, "gray")
        dead == In(group) \cap WithMark(final, "white")
    IN /\ groups' = order
       /\ mark' = final
       /\ incoming' = {w \in incoming : ZoneOf[field[w]] \notin group}
                          \cup Delayed(gray, group, state, final)
       /\ wrappers' = {w \in wrappers : ZoneOf[w] \in group => {w, field[w]} \cap dead = {}}
       /\ zoneState' = [z \in Zone |-> IF z \in group THEN "Sweep" ELSE state[z]]
       /\ toSweep' = toSweep \cup dead

\* The end of marking.  After several slices one more is given to what the
\* program has marked meanwhile.
FinishMarking ==
    /\ pc = "mark" /\ Drained
    /\ IF limited /\ ~firstSlice /\ ~lastMark
       THEN /\ lastMark' = TRUE
            /\ EndSlice(zoneState, FALSE)
            /\ UNCHANGED <<wrappers, mark, zoneState, phase, incoming, groups, toSweep>>
       ELSE /\ \E order \in IF limited THEN ZoneGroups(ZoneEdges(mark)) ELSE {<<Started>>} :
                  SweepGroup(order, zoneState)
            /\ phase' = "sweep" /\ pc' = "sweep"
            /\ UNCHANGED <<lastMark, needsBarrier, scheduled>>
    /\ UNCHANGED <<used, field, roots, grayRoots, stack, delayed, limited, firstSlice,
                   repeat, grayBuffer, buffered, abortSweep, background, garbage, bounds>>

Free(c) ==
    /\ used' = used \ {c}
    /\ field' = [field EXCEPT ![c] = Null]
    /\ garbage' = garbage \ {c}
    /\ UNCHANGED <<wrappers, roots, grayRoots>>

\* Foreground finalization, by SweepPhase().
Finalize(c) ==
    /\ pc = "sweep" /\ Drained
    /\ c \in toSweep
    /\ toSweep' = toSweep \ {c}
    /\ Free(c)
    /\ UNCHANGED <<markVars, zoneState, needsBarrier, scheduled, phase, pc, sliceVars,
                   grayVars, groups, abortSweep, background, bounds>>

\* EndSweepingZoneGroup() and GetNextZoneGroup(): without a budget the groups
\* left are one; if the collection is being reset they are given up.  The cells
\* still queued are of kinds that the helper thread finalizes.
Merged(order) == IF limited THEN order ELSE <<UNION Range(order)>>

NextGroup ==
    /\ pc = "sweep" /\ Drained
    /\ Len(groups) > 1 /\ ~abortSweep
    /\ SweepGroup(Merged(Tail(groups)),
                  [z \in Zone |-> IF z \in Head(groups) THEN "Finished" ELSE zoneState[z]])
    /\ UNCHANGED <<used, field, roots, grayRoots, stack, delayed, needsBarrier, scheduled,
                   phase, pc, sliceVars, grayBuffer, buffered, abortSweep, background,
                   garbage, bounds>>

\* EndSweepPhase(), after the last group or a reset.
EndSweep ==
    /\ pc = "sweep" /\ Drained
    /\ Len(groups) = 1 \/ abortSweep
    /\ zoneState' = [z \in Zone |-> "NoGC"]
    /\ groups' = <<>> /\ abortSweep' = FALSE
    /\ grayBuffer' = {} /\ buffered' = FALSE
    /\ incoming' = {}
    /\ phase' = "none"
    /\ background' = toSweep /\ toSweep' = {}
    /\ garbage' = IF abortSweep THEN garbage \ In(UNION Range(Tail(groups))) ELSE garbage
    /\ EndSlice(zoneState', repeat)
    /\ repeat' = FALSE
    /\ UNCHANGED <<heapVars, markVars, limited, firstSlice, lastMark, bounds>>

\* The helper thread.
FinalizeInBackground(c) ==
    /\ c \in background
    /\ background' = background \ {c}
    /\ Free(c)
    /\ UNCHANGED <<markVars, zoneState, needsBarrier, scheduled, phase, pc, sliceVars,
                   grayVars, groups, abortSweep, toSweep, bounds>>

Next ==
    \/ \E c \in Cell : \/ Read(c) \/ Drop(c) \/ New(c) \/ Nuke(c) \/ Expose(c)
                       \/ Hold(c) \/ LetGo(c)
                       \/ \E value \in Cell \cup {Null} : Write(c, value)
                       \/ \E target \in Cell : Wrap(target, c)
                       \/ MarkCell(c) \/ MarkArena(c) \/ Finalize(c)
                       \/ FinalizeInBackground(c)
    \/ Collect \/ Yield \/ Reset \/ FinishMarking \/ NextGroup \/ EndSweep
    \/ \E budget \in BOOLEAN : Continue(budget) \/ BeginMark(budget)

Spec == Init /\ [][Next]_vars

-----------------------------------------------------------------------------
(* Properties.                                                             *)

\* Types.  What the collector keeps lists of (mark stack, wrappers delayed for
\* gray marking, finalization queues) is allocated, and still a wrapper.
TypeOK ==
    /\ used \subseteq Cell /\ field \in [Cell -> Cell \cup {Null}]
    /\ wrappers \subseteq Cell /\ roots \subseteq Cell /\ grayRoots \subseteq Cell
    /\ mark \in [Cell -> {"white", "gray", "black"}]
    /\ zoneState \in [Zone -> {"NoGC", "Mark", "Sweep", "Finished"}]
    /\ needsBarrier \subseteq Zone /\ scheduled \subseteq Zone
    /\ phase \in {"none", "mark", "sweep"} /\ pc \in {"program", "cycle", "mark", "sweep"}
    /\ stack \subseteq used /\ delayed \subseteq used
    /\ grayBuffer \subseteq Cell /\ incoming \subseteq wrappers
    /\ groups \in Seq(SUBSET Zone)
    /\ toSweep \subseteq used /\ background \subseteq used /\ garbage \subseteq used

\* Nothing that the program or the embedder can reach is freed, nor queued to be
\* freed; the wrapper maps, which are weak, hold no freed cell either.
ReachableIsKept ==
    LET held == roots \cup grayRoots \cup wrappers
    IN /\ Reach(roots \cup grayRoots) \cap (toSweep \cup background) = {}
       /\ Reach(held) \subseteq used

\* Cells of the zones being marked.
Marking == In(ZonesIn("Mark"))

\* Wrappers, in zones swept before what they wrap, that the program has turned
\* black since.
Exposed == {w \in incoming : mark[w] = "black"}

\* What marking will still turn black: white cells of zones being marked, found
\* through such cells from the mark stack, the arenas allocated meanwhile and
\* the exposed wrappers.
Due == Spread(delayed \cup {field[c] : c \in stack} \cup {field[w] : w \in Exposed},
              Marking \cap WithMark(mark, "white"))

Blackened == (Marking \cap WithMark(mark, "black")) \cup Due

\* The snapshot at the beginning (Barrier.h: "if an object is reachable in step 2,
\* then we will mark it eventually"): whatever the program does between slices, a
\* cell that it can reach is or will be black while its zone is being marked.
SnapshotIsMarked ==
    (phase # "none" /\ ~abortSweep) => Reach(roots) \cap Marking \subseteq Blackened

\* What was garbage when a collection began, and has stayed so, is gone when the
\* collection is over, or on its way, unless its zone has been given up.
GarbageIsFreed == phase = "none" => garbage \subseteq background

=============================================================================
