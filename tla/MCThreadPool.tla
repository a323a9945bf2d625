--------------------------- MODULE MCThreadPool ---------------------------
(* ThreadPool on small instances; the constants are in the .cfg files. *)
EXTENDS ThreadPool
\* cx->new_ fails for no thread, for the main thread or the first worker, ...
NoFailures == {}
MainOrFirstWorker == {0, 1}
SecondWorker == {2}
=============================================================================
