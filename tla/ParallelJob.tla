---------------------------- MODULE ParallelJob ----------------------------
(***************************************************************************)
(* What ThreadPool promises to the code that submits a ParallelJob         *)
(* (vm/ThreadPool.h): executeJob() calls the job's callback once for each  *)
(* slice, in any order and concurrently, and returns when no call is left  *)
(* to be made or to finish; after a callback has failed the slices not yet *)
(* handed out may be dropped.  Threads, queues and the barrier are hidden. *)
(***************************************************************************)
CONSTANT Slice

VARIABLES
    running,   \* a job has been submitted and executeJob() has not returned
    todo,      \* slices that still have to be handed out
    active,    \* slices whose callback has been claimed but has not returned
    done,      \* slices whose callback has returned
    failed     \* a callback of the current job asked for an abort

pvars == <<running, todo, active, done, failed>>

Init ==
    /\ running = FALSE
    /\ todo = {} /\ active = {} /\ done = {}
    /\ failed = FALSE

Submit ==
    /\ ~running
    /\ running' = TRUE
    /\ todo' = Slice
    /\ active' = {} /\ done' = {}
    /\ failed' = FALSE

Claim(s) ==
    /\ running /\ s \in todo
    /\ todo' = todo \ {s}
    /\ active' = active \cup {s}
    /\ UNCHANGED <<running, done, failed>>

Finish(s) ==
    /\ running /\ s \in active
    /\ active' = active \ {s}
    /\ done' = done \cup {s}
    /\ failed' \in {failed, TRUE}
    /\ UNCHANGED <<running, todo>>

\* Slices are dropped only after a callback has failed.
Drop ==
    /\ running /\ failed
    /\ todo' \in SUBSET todo
    /\ UNCHANGED <<running, active, done, failed>>

Return ==
    /\ running
    /\ todo = {} /\ active = {}
    /\ running' = FALSE
    /\ UNCHANGED <<todo, active, done, failed>>

Next ==
    \/ Submit \/ Drop \/ Return
    \/ \E s \in Slice : Claim(s) \/ Finish(s)

Spec == Init /\ [][Next]_pvars

\* Without a failure every slice has been run when the job returns; with or
\* without one, nothing runs outside a job.
JobDone ==
    /\ active \cap done = {} /\ active \cap todo = {} /\ todo \cap done = {}
    /\ ~failed => todo \cup active \cup done \in {{}, Slice}
    /\ ~running => todo = {} /\ active = {}

=============================================================================
