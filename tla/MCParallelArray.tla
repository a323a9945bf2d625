-------------------------- MODULE MCParallelArray --------------------------
(* ParallelArray on small instances; the other constants are in the .cfg   *)
(* file.  With two slices per worker, one worker gives slices of up to     *)
(* three chunks, of which a warm-up does one or two, and two workers give  *)
(* two or four slices.                                                     *)
EXTENDS ParallelArray

MCSizes == {[w |-> 1, n |-> 9], [w |-> 2, n |-> 0], [w |-> 2, n |-> 2],
            [w |-> 2, n |-> 5], [w |-> 2, n |-> 7]}

Op(k, w, n, keep, scatter) ==
    [kind |-> k, workers |-> w, length |-> n, keep |-> keep, scatter |-> scatter]

Elementwise ==
    {Op(k, z.w, z.n, {}, NoScatter) :
        k \in {"map", "build", "reduce", "scan"}, z \in MCSizes}

\* Two slices, the first of two chunks; and four slices.
Filters ==
    {Op("filter", 1, 5, keep, NoScatter) : keep \in SUBSET (0..4)}
    \cup {Op("filter", 2, 7, keep, NoScatter) :
            keep \in {{}, {2}, {0, 5, 6}, {1, 2, 3, 4}}}

\* Four slices: many targets over a small output, few over a large one.
WideScatters ==
    {Op("range", 2, 7, {}, [targets |-> [i \in 0..6 |-> i % 3],
                            outLength |-> 3, conflictFunc |-> TRUE]),
     Op("vector", 2, 6, {}, [targets |-> [i \in 0..5 |-> (i % 3) * 3],
                             outLength |-> 7, conflictFunc |-> TRUE])}

\* All the ways of scattering up to three elements over one or two places.
Scatters ==
    UNION {[targets : [0..(n - 1) -> 0..m], outLength : {m},
            conflictFunc : BOOLEAN] : n \in 0..3, m \in 1..2}
ScatterOps ==
    {Op(k, 2, Cardinality(DOMAIN sc.targets), {}, sc) :
        k \in {"range", "vector"}, sc \in Scatters}

MCInputs == Elementwise \cup Filters \cup ScatterOps \cup WideScatters
=============================================================================
