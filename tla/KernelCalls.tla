---------------------------- MODULE KernelCalls ----------------------------
(***************************************************************************)
(* What ForkJoin(kernel, mode, numSlices) promises to the self-hosted code *)
(* that calls it (vm/ForkJoin.h): kernel(sliceId, warmup) is called until  *)
(* every slice has answered that it is complete.  A parallel call may be   *)
(* given up half-way, by a bailout, and its slice is then called again; so *)
(* the kernel must keep track of its own progress.  Warm-up and sequential *)
(* calls run alone on the main thread and end only by returning or by an   *)
(* exception, which ends the operation.                                    *)
(***************************************************************************)
EXTENDS Integers

CONSTANT MaxSlices   \* bound on the numSlices an operation may be given
ASSUME KernelAssumption == MaxSlices \in Nat \ {0}

Slice == 0..(MaxSlices - 1)

VARIABLES
    slices,    \* the slices of the operation: 0..(numSlices - 1)
    outcome,   \* of the last ForkJoin(): "idle" before the first, then
               \* "running", and "done" or "fatal" (an exception) at its end
    call,      \* the call under way for each slice, "none" if there is none
    complete   \* slices for which a call of this operation has answered true

kvars == <<slices, outcome, call, complete>>

Alone == {"warmup", "seq"}
CallMode == Alone \cup {"par"}
InCall == {s \in Slice : call[s] # "none"}

KInit ==
    /\ slices = {}
    /\ outcome = "idle"
    /\ call = [s \in Slice |-> "none"]
    /\ complete = {}

Start(numSlices) ==
    /\ numSlices \in 1..MaxSlices
    /\ outcome \in {"idle", "done"}
    /\ outcome' = "running"
    /\ slices' = 0..(numSlices - 1)
    /\ complete' = {}
    /\ UNCHANGED call

\* Calls in parallel overlap with each other only.
Begin(s, mode) ==
    /\ outcome = "running"
    /\ s \in slices /\ call[s] = "none"
    /\ \A t \in InCall : call[t] = "par" /\ mode = "par"
    /\ call' = [call EXCEPT ![s] = mode]
    /\ UNCHANGED <<slices, outcome, complete>>

\* Only a warm-up call may return before its slice is complete.
Return(s, answer) ==
    /\ s \in InCall
    /\ answer \/ call[s] = "warmup"
    /\ call' = [call EXCEPT ![s] = "none"]
    /\ complete' = IF answer THEN complete \cup {s} ELSE complete
    /\ UNCHANGED <<slices, outcome>>

Bailout(s) ==
    /\ call[s] = "par"
    /\ call' = [call EXCEPT ![s] = "none"]
    /\ UNCHANGED <<slices, outcome, complete>>

Throw(s) ==
    /\ call[s] \in Alone
    /\ call' = [call EXCEPT ![s] = "none"]
    /\ outcome' = "fatal"
    /\ UNCHANGED <<slices, complete>>

Succeed ==
    /\ outcome = "running"
    /\ InCall = {} /\ complete = slices
    /\ outcome' = "done"
    /\ UNCHANGED <<slices, call, complete>>

\* A fatal error that no call of the kernel raised, such as lack of memory.
Fail ==
    /\ outcome = "running"
    /\ InCall = {}
    /\ outcome' = "fatal"
    /\ UNCHANGED <<slices, call, complete>>

KNext ==
    \/ \E n \in 1..MaxSlices : Start(n)
    \/ Succeed \/ Fail
    \/ \E s \in Slice :
          \/ \E mode \in CallMode : Begin(s, mode)
          \/ \E answer \in BOOLEAN : Return(s, answer)
          \/ Bailout(s) \/ Throw(s)

KSpec == KInit /\ [][KNext]_kvars

=============================================================================
