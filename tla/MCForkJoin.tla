---------------------------- MODULE MCForkJoin -----------------------------
(* ForkJoin on small instances; the constants are in the .cfg file. *)
EXTENDS ForkJoin

\* The normal mode is tried with one slice and with all, compile mode with all,
\* recover mode, which differs in what its outcome must be, with one.
MCInit ==
    /\ Init
    /\ mode = "compile" => numSlices = MaxSlices
    /\ mode = "recover" => numSlices = 1
MCSpec == MCInit /\ [][Next]_vars /\ Fairness
=============================================================================
