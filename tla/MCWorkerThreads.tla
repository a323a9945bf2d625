-------------------------- MODULE MCWorkerThreads --------------------------
(* Small instances of WorkerThreads for TLC. *)
EXTENDS WorkerThreads, TLC

CONSTANTS b1, b2, p1, p2, p3, main

Symmetry == Permutations(IonTask)
=============================================================================
