--------------------------- MODULE MCGCHelperThread ---------------------------
(* GCHelperThread on small instances; the constants are in the .cfg files. *)
EXTENDS GCHelperThread, TLC
\* Chunk addresses are interchangeable.
Symmetry == Permutations(Chunk)
=============================================================================
