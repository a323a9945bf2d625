-------------------------- MODULE MCIncrementalGC --------------------------
(* IncrementalGC on two zones of two cells. *)
EXTENDS IncrementalGC, TLC

CONSTANTS A, B, a1, a2, b1, b2

MCZoneOf == [c \in Cell |-> IF c \in {a1, a2} THEN A ELSE B]

Heap(edges, live, held) ==
    [used |-> {e[1] : e \in edges} \cup {e[2] : e \in edges} \cup live \cup held,
     field |-> [c \in Cell |-> IF \E e \in edges : e[1] = c
                               THEN (CHOOSE e \in edges : e[1] = c)[2] ELSE Null],
     roots |-> live, grayRoots |-> held]

MCHeaps ==
    { \* the embedder holds a chain that crosses to the other zone
      Heap({<<a1, b1>>, <<b1, b2>>}, {a2}, {a1}),
      \* it holds a cycle through both zones
      Heap({<<a1, a2>>, <<a2, b1>>, <<b1, b2>>, <<b2, a1>>}, {}, {a1}),
      \* the program has a list, and a wrapper of the other zone leads into it
      Heap({<<a1, a2>>, <<b1, a2>>}, {a1}, {b1}),
      \* nothing leads to the wrapper any more
      Heap({<<a1, a2>>, <<b1, a2>>}, {a1}, {}) }

\* Renamings that keep each cell in its zone.
MCSymmetry ==
    {p \in Permutations(Zone \cup Cell) :
        \A c \in Cell : p[c] \in Cell /\ MCZoneOf[p[c]] = p[MCZoneOf[c]]}
=============================================================================
