------------------------ MODULE IncrementalGCProofs ------------------------
(***************************************************************************)
(* Proofs about IncrementalGC: the inductive invariant IInv, and from it   *)
(* the type invariant and the three properties of the collector.           *)
(*                                                                         *)
(* The argument.  While a collection is under way there is a set of cells, *)
(* closed under the fields, that holds all that the program can come to    *)
(* (SafeSet).  In the zones that are being marked it is the cells that are *)
(* black or will be; elsewhere it leaves out at most gray cells of zones   *)
(* already swept.  The barriers keep such a set in being (Onward); the     *)
(* order of the groups and the lists of gray wrappers see to it that no    *)
(* cell that is kept leads to one a group leaves white (NoWayBack, GrayInv)*)
(*                                                                         *)
(* What the recursive functions of the model compute is used as the least  *)
(* set closed under the fields, or the edges; this is proved first, by the *)
(* least number of steps at which they stop growing.                       *)
(***************************************************************************)
EXTENDS IncrementalGC, FiniteSetTheorems, WellFoundedInduction, TLAPS

-----------------------------------------------------------------------------
(* Induction, and what the recursive functions of the model compute.       *)

\* A set of numbers that is not empty has a least element.
LEMMA LeastNumber ==
  ASSUME NEW S \in SUBSET Nat, S # {}
  PROVE  \E n \in S : \A m \in S : n <= m
<1> DEFINE R == OpToRel(<, Nat)
<1>1. \A x, y \in Nat : x < y => <<x, y>> \in R
  BY DEF OpToRel
<1>2. IsWellFoundedOn(R, Nat)
  BY NatLessThanWellFounded
<1> HIDE DEF R
<1>3. PICK n \in S : \A m \in S : ~(<<m, n>> \in R)
  BY <1>2, WFMin
<1>4. \A m \in S : ~(m < n)
  BY <1>1, <1>3, Zenon
<1> QED
  BY <1>4

\* By induction: a set of numbers with 0 and with every successor is Nat.
LEMMA Induction ==
  ASSUME NEW S \in SUBSET Nat, 0 \in S, \A n \in S : n + 1 \in S
  PROVE  S = Nat
<1> SUFFICES ASSUME Nat \ S # {} PROVE FALSE
  OBVIOUS
<1> DEFINE T == Nat \ S
<1>0. T \in SUBSET Nat /\ T # {}
  OBVIOUS
<1>1. PICK n \in T : \A m \in T : n <= m
  <2> HIDE DEF T
  <2> QED
    BY <1>0, LeastNumber
<1>2. n # 0 /\ n - 1 \in Nat
  OBVIOUS
<1>3. n - 1 \in S
  BY <1>1, <1>2
<1>4. (n - 1) + 1 = n
  OBVIOUS
<1> QED
  BY <1>3, <1>4

\* A function on Nat is defined by its first value and a step.
LEMMA Iterate ==
  ASSUME NEW D, NEW S0 \in D, NEW step \in [D -> D]
  PROVE  \E f \in [Nat -> D] : /\ f[0] = S0
                               /\ \A n \in Nat : f[n+1] = step[f[n]]
<1> DEFINE Upto(n, g) == /\ g \in [0..n -> D] /\ g[0] = S0
                         /\ \A k \in 0..(n-1) : g[k+1] = step[g[k]]
<1> DEFINE N == {n \in Nat : \E g \in [0..n -> D] : Upto(n, g)}
<1>1. 0 \in N
  <2> DEFINE g == [k \in 0..0 |-> S0]
  <2>1. Upto(0, g)
    OBVIOUS
  <2> QED
    BY <2>1
<1>2. \A n \in N : n + 1 \in N
  <2> TAKE n \in N
  <2>1. PICK g \in [0..n -> D] : Upto(n, g)
    OBVIOUS
  <2> DEFINE h == [k \in 0..(n+1) |-> IF k = n + 1 THEN step[g[n]] ELSE g[k]]
  <2>2. h \in [0..(n+1) -> D]
    BY <2>1
  <2>3. Upto(n+1, h)
    BY <2>1, <2>2
  <2>4. n + 1 \in N
    <3> HIDE DEF Upto, h
    <3>1. n + 1 \in Nat
      OBVIOUS
    <3> QED
      BY <2>3, <2>2, <3>1
  <2> QED
    BY <2>4
<1>3. N = Nat
  <2> HIDE DEF N
  <2>1. N \in SUBSET Nat
    BY DEF N
  <2> QED BY <1>1, <1>2, <2>1, Induction
<1>4. \A n \in Nat : \E g \in [0..n -> D] : Upto(n, g)
  BY <1>3
<1> DEFINE G == [n \in Nat |-> CHOOSE g \in [0..n -> D] : Upto(n, g)]
<1>5. \A n \in Nat : Upto(n, G[n])
  BY <1>4
<1> DEFINE f == [n \in Nat |-> G[n][n]]
<1> HIDE DEF G
<1>6. \A n \in Nat, k \in Nat : k <= n => G[n][k] = G[k][k]
  <2> SUFFICES ASSUME NEW n \in Nat
               PROVE  \A k \in Nat : k <= n => G[n][k] = G[k][k]
    OBVIOUS
  <2> DEFINE K == {k \in Nat : \A i \in Nat, j \in Nat : k <= i /\ k <= j => G[i][k] = G[j][k]}
  <2>1. 0 \in K
    BY <1>5
  <2>2. \A k \in K : k + 1 \in K
    <3> SUFFICES ASSUME NEW k \in K, NEW i \in Nat, NEW j \in Nat, k + 1 <= i, k + 1 <= j
                 PROVE  G[i][k+1] = G[j][k+1]
      OBVIOUS
    <3>1. Upto(i, G[i]) /\ Upto(j, G[j]) /\ k \in 0..(i-1) /\ k \in 0..(j-1)
      BY <1>5
    <3>2. G[i][k] = G[j][k]
      OBVIOUS
    <3> QED
      BY <3>1, <3>2
  <2>3. K = Nat
    <3> HIDE DEF K
    <3>1. K \in SUBSET Nat
      BY DEF K
    <3> QED BY <2>1, <2>2, <3>1, Induction
  <2> QED
    BY <2>3
<1>7. f \in [Nat -> D]
  BY <1>5
<1>8. f[0] = S0
  BY <1>5
<1>9. \A n \in Nat : f[n+1] = step[f[n]]
  <2> TAKE n \in Nat
  <2>1. G[n+1][n+1] = step[G[n+1][n]]
    BY <1>5
  <2>2. G[n+1][n] = G[n][n]
    BY <1>6
  <2> QED
    BY <2>1, <2>2
<1> QED
  BY <1>7, <1>8, <1>9

\* Sets that grow within a finite set, and never again once they did not, have
\* stopped growing after as many steps as the set has elements.
LEMMA Saturation ==
  ASSUME NEW D, IsFiniteSet(D), NEW f \in [Nat -> SUBSET D],
         \A n \in Nat : f[n] \subseteq f[n+1],
         \A n \in Nat : f[n+1] = f[n] => f[(n+1)+1] = f[n+1]
  PROVE  /\ Cardinality(D) \in Nat
         /\ f[Cardinality(D) + 1] = f[Cardinality(D)]
<1> DEFINE size(n) == Cardinality(f[n])
           N == {n \in Nat : f[n+1] = f[n] \/ size(n) >= n}
<1>1. \A n \in Nat : size(n) \in Nat /\ IsFiniteSet(f[n])
  BY FS_Subset, FS_CardinalityType
<1>2. \A n \in Nat : size(n) <= size(n+1) /\ (size(n+1) = size(n) => f[n+1] = f[n])
  <2> TAKE n \in Nat
  <2>1. f[n] \in SUBSET f[n+1] /\ IsFiniteSet(f[n+1])
    BY <1>1
  <2> QED
    BY <2>1, FS_Subset
<1>3. 0 \in N
  BY <1>1
<1>4. \A n \in N : n + 1 \in N
  <2> HIDE DEF size
  <2> TAKE n \in N
  <2>1. n \in Nat /\ n + 1 \in Nat /\ size(n) \in Nat /\ size(n+1) \in Nat
    BY <1>1
  <2>2. CASE f[n+1] = f[n]
    BY <2>1, <2>2
  <2>3. CASE f[n+1] # f[n]
    BY <1>2, <2>1, <2>3
  <2> QED
    BY <2>2, <2>3
<1>5. N = Nat
  <2> HIDE DEF N
  <2>1. N \in SUBSET Nat
    BY DEF N
  <2> QED
    BY <1>3, <1>4, <2>1, Induction
<1> DEFINE d == Cardinality(D)
<1>6. d \in Nat
  BY FS_CardinalityType
<1>7. CASE size(d) >= d
  <2>1. f[d] \in SUBSET D /\ f[d+1] \in SUBSET D
    BY <1>6
  <2>2. size(d) <= d /\ (d = size(d) => D = f[d])
    BY <2>1, FS_Subset
  <2>3. D = f[d]
    <3> HIDE DEF size, d
    <3> QED
      BY <1>1, <1>6, <1>7, <2>2
  <2>4. f[d] \subseteq f[d+1]
    BY <1>6
  <2> QED
    BY <2>1, <2>3, <2>4, <1>6
<1>8. d \in N
  BY <1>5, <1>6
<1> QED
  BY <1>6, <1>7, <1>8

\* Spread() along any function.
Follow(next, start, within) ==
    LET upTo[n \in Nat] ==
            IF n = 0 THEN start \cap within
            ELSE upTo[n-1] \cup ({next[c] : c \in upTo[n-1]} \cap within)
    IN upTo[Cardinality(Cell)]

\* What is followed from a start holds the start, is closed, and lies in every set
\* that does and is.
LEMMA FollowIsLeastClosed ==
  ASSUME NEW next, NEW start, NEW within \in SUBSET Cell, GCAssumption
  PROVE  /\ Follow(next, start, within) \subseteq within
         /\ start \cap within \subseteq Follow(next, start, within)
         /\ \A c \in Follow(next, start, within) :
               next[c] \in within => next[c] \in Follow(next, start, within)
         /\ \A S : /\ start \cap within \subseteq S
                   /\ \A c \in S \cap within : next[c] \in within => next[c] \in S
                   => Follow(next, start, within) \subseteq S
<1> DEFINE first == start \cap within
           step == [s \in SUBSET Cell |-> s \cup ({next[c] : c \in s} \cap within)]
           upTo[n \in Nat] ==
             IF n = 0 THEN start \cap within
             ELSE upTo[n-1] \cup ({next[c] : c \in upTo[n-1]} \cap within)
<1>1. first \in SUBSET Cell /\ step \in [SUBSET Cell -> SUBSET Cell]
  OBVIOUS
<1>2. PICK f \in [Nat -> SUBSET Cell] :
         f[0] = first /\ \A n \in Nat : f[n+1] = step[f[n]]
  <2> DEFINE D == SUBSET Cell
  <2>1. first \in D /\ step \in [D -> D]
    BY <1>1
  <2> HIDE DEF D, step, first
  <2>2. \E f \in [Nat -> D] : f[0] = first /\ \A n \in Nat : f[n+1] = step[f[n]]
    BY <2>1, Iterate
  <2> QED
    BY <2>2 DEF D
<1>3. f = [n \in Nat |-> IF n = 0 THEN start \cap within
                         ELSE f[n-1] \cup ({next[c] : c \in f[n-1]} \cap within)]
  <2>1. \A n \in Nat : n # 0 => n - 1 \in Nat /\ (n - 1) + 1 = n
    OBVIOUS
  <2>2. \A n \in Nat : n # 0 => f[n] = f[n-1] \cup ({next[c] : c \in f[n-1]} \cap within)
    BY <1>2, <2>1
  <2> QED
    BY <1>2, <2>2
<1>4. upTo = [n \in Nat |-> IF n = 0 THEN start \cap within
                            ELSE upTo[n-1] \cup ({next[c] : c \in upTo[n-1]} \cap within)]
  BY <1>3 DEF upTo
<1> HIDE DEF upTo
<1>5. upTo[0] = first /\ \A n \in Nat : upTo[n+1] = upTo[n] \cup ({next[c] : c \in upTo[n]} \cap within)
  <2>1. \A n \in Nat : n + 1 # 0 /\ n + 1 \in Nat /\ (n + 1) - 1 = n
    OBVIOUS
  <2> QED
    BY <1>4, <2>1
<1>6. upTo \in [Nat -> SUBSET Cell] /\ \A n \in Nat : upTo[n] \subseteq within
  <2> DEFINE N == {n \in Nat : upTo[n] \subseteq within}
  <2>1. 0 \in N /\ \A n \in N : n + 1 \in N
    BY <1>5
  <2>2. N = Nat
    <3> HIDE DEF N
    <3>1. N \in SUBSET Nat
      BY DEF N
    <3> QED
      BY <2>1, <3>1, Induction
  <2>3. \E D : upTo = [n \in Nat |-> IF n = 0 THEN start \cap within ELSE D[n]]
    <3> DEFINE D == [n \in Nat |-> upTo[n-1] \cup ({next[c] : c \in upTo[n-1]} \cap within)]
    <3>1. upTo = [n \in Nat |-> IF n = 0 THEN start \cap within ELSE D[n]]
      BY <1>4
    <3> QED
      BY <3>1
  <2>4. upTo = [n \in Nat |-> upTo[n]]
    BY <2>3
  <2> QED
    BY <2>2, <2>4
<1> DEFINE d == Cardinality(Cell)
<1>7. d \in Nat /\ upTo[d+1] = upTo[d]
  <2>1. \A n \in Nat : upTo[n] \subseteq upTo[n+1]
    BY <1>5
  <2>2. \A n \in Nat : upTo[n+1] = upTo[n] => upTo[(n+1)+1] = upTo[n+1]
    <3> TAKE n \in Nat
    <3> DEFINE k == n + 1
    <3>1. k \in Nat
      OBVIOUS
    <3>2. upTo[k+1] = upTo[k] \cup ({next[c] : c \in upTo[k]} \cap within)
      BY <1>5, <3>1
    <3>3. upTo[n+1] = upTo[n] \cup ({next[c] : c \in upTo[n]} \cap within)
      BY <1>5
    <3> HIDE DEF upTo
    <3> QED
      BY <3>2, <3>3
  <2>3. IsFiniteSet(Cell)
    BY DEF GCAssumption
  <2> QED
    BY <1>6, <2>1, <2>2, <2>3, Saturation
<1>8. Follow(next, start, within) = upTo[d]
  BY DEF Follow, upTo
<1> HIDE DEF d
<1>9. upTo[d] \subseteq within
  BY <1>6, <1>7
<1>10. \A n \in Nat : start \cap within \subseteq upTo[n]
  <2> DEFINE N == {n \in Nat : start \cap within \subseteq upTo[n]}
  <2>1. 0 \in N /\ \A n \in N : n + 1 \in N
    BY <1>5
  <2>2. N = Nat
    <3> HIDE DEF N
    <3>1. N \in SUBSET Nat
      BY DEF N
    <3> QED
      BY <2>1, <3>1, Induction
  <2> QED
    BY <2>2
<1>11. \A c \in upTo[d] : next[c] \in within => next[c] \in upTo[d]
  BY <1>5, <1>7
<1>12. ASSUME NEW S, start \cap within \subseteq S,
              \A c \in S \cap within : next[c] \in within => next[c] \in S
       PROVE  upTo[d] \subseteq S
  <2> DEFINE N == {n \in Nat : upTo[n] \subseteq S}
  <2>1. 0 \in N
    BY <1>5, <1>12
  <2>2. \A n \in N : n + 1 \in N
    BY <1>5, <1>6, <1>12
  <2>3. N = Nat
    <3> HIDE DEF N
    <3>1. N \in SUBSET Nat
      BY DEF N
    <3> QED
      BY <2>1, <2>2, <3>1, Induction
  <2> QED
    BY <1>7, <2>3
<1> QED
  BY <1>7, <1>8, <1>9, <1>10, <1>11, <1>12

\* What the model's Spread() computes, before and after a step.
LEMMA SpreadIsFollow ==
  /\ \A start, within : Spread(start, within) = Follow(field, start, within)
  /\ \A start, within : Spread(start, within)' = Follow(field', start, within)
  BY DEF Spread, Follow

\* Leads() holds the zone it starts from, is closed along edges, and lies in
\* every set of zones that does and is.
LEMMA LeadsIsLeastClosed ==
  ASSUME NEW edges, NEW y \in Zone, GCAssumption
  PROVE  /\ Leads(edges, y) \subseteq Zone
         /\ y \in Leads(edges, y)
         /\ \A x \in Leads(edges, y), z \in Zone : <<x, z>> \in edges => z \in Leads(edges, y)
         /\ \A S : /\ y \in S
                   /\ \A x \in S \cap Zone, z \in Zone : <<x, z>> \in edges => z \in S
                   => Leads(edges, y) \subseteq S
<1> DEFINE onward(s) == {z \in Zone : \E x \in s : <<x, z>> \in edges}
           step == [s \in SUBSET Zone |-> s \cup onward(s)]
           upTo[n \in Nat] ==
             IF n = 0 THEN {y}
             ELSE upTo[n-1] \cup {z \in Zone : \E x \in upTo[n-1] : <<x, z>> \in edges}
<1>1. {y} \in SUBSET Zone /\ step \in [SUBSET Zone -> SUBSET Zone]
  OBVIOUS
<1>2. PICK f \in [Nat -> SUBSET Zone] :
         f[0] = {y} /\ \A n \in Nat : f[n+1] = step[f[n]]
  <2> DEFINE D == SUBSET Zone
  <2>1. {y} \in D /\ step \in [D -> D]
    BY <1>1
  <2> HIDE DEF D, step
  <2>2. \E f \in [Nat -> D] : f[0] = {y} /\ \A n \in Nat : f[n+1] = step[f[n]]
    BY <2>1, Iterate
  <2> QED
    BY <2>2 DEF D
<1>3. f = [n \in Nat |-> IF n = 0 THEN {y} ELSE f[n-1] \cup onward(f[n-1])]
  <2>1. \A n \in Nat : n # 0 => n - 1 \in Nat /\ (n - 1) + 1 = n
    OBVIOUS
  <2>2. \A n \in Nat : n # 0 => f[n] = f[n-1] \cup onward(f[n-1])
    BY <1>2, <2>1
  <2> HIDE DEF onward
  <2> QED
    BY <1>2, <2>2
<1>4. upTo = [n \in Nat |-> IF n = 0 THEN {y} ELSE upTo[n-1] \cup onward(upTo[n-1])]
  BY <1>3 DEF upTo
<1> HIDE DEF upTo
<1>5. upTo[0] = {y} /\ \A n \in Nat : upTo[n+1] = upTo[n] \cup onward(upTo[n])
  <2>1. \A n \in Nat : n + 1 # 0 /\ n + 1 \in Nat /\ (n + 1) - 1 = n
    OBVIOUS
  <2> HIDE DEF onward
  <2> QED
    BY <1>4, <2>1
<1>6. upTo \in [Nat -> SUBSET Zone]
  <2> DEFINE N == {n \in Nat : upTo[n] \subseteq Zone}
  <2>1. 0 \in N /\ \A n \in N : n + 1 \in N
    BY <1>5
  <2>2. N = Nat
    <3> HIDE DEF N
    <3>1. N \in SUBSET Nat
      BY DEF N
    <3> QED
      BY <2>1, <3>1, Induction
  <2>3. upTo = [n \in Nat |-> upTo[n]]
    <3> HIDE DEF onward
    <3> DEFINE D == [n \in Nat |-> upTo[n-1] \cup onward(upTo[n-1])]
    <3>1. upTo = [n \in Nat |-> IF n = 0 THEN {y} ELSE D[n]]
      BY <1>4
    <3> QED
      BY <3>1
  <2> QED
    BY <2>2, <2>3
<1> DEFINE d == Cardinality(Zone)
<1>7. d \in Nat /\ upTo[d+1] = upTo[d]
  <2> HIDE DEF onward
  <2>1. \A n \in Nat : upTo[n] \subseteq upTo[n+1]
    BY <1>5
  <2>2. \A n \in Nat : upTo[n+1] = upTo[n] => upTo[(n+1)+1] = upTo[n+1]
    <3> TAKE n \in Nat
    <3> DEFINE k == n + 1
    <3>1. k \in Nat
      OBVIOUS
    <3>2. upTo[k+1] = upTo[k] \cup onward(upTo[k])
      BY <1>5, <3>1
    <3>3. upTo[n+1] = upTo[n] \cup onward(upTo[n])
      BY <1>5
    <3> QED
      BY <3>2, <3>3
  <2>3. IsFiniteSet(Zone)
    BY DEF GCAssumption
  <2> QED
    BY <1>6, <2>1, <2>2, <2>3, Saturation
<1>8. Leads(edges, y) = upTo[d]
  BY DEF Leads, upTo
<1> HIDE DEF d
<1>9. upTo[d] \subseteq Zone
  BY <1>6, <1>7
<1>10. y \in upTo[d]
  <2> DEFINE N == {n \in Nat : y \in upTo[n]}
  <2>1. 0 \in N /\ \A n \in N : n + 1 \in N
    BY <1>5
  <2>2. N = Nat
    <3> HIDE DEF N
    <3>1. N \in SUBSET Nat
      BY DEF N
    <3> QED
      BY <2>1, <3>1, Induction
  <2> QED
    BY <1>7, <2>2
<1>11. \A x \in upTo[d], z \in Zone : <<x, z>> \in edges => z \in upTo[d]
  BY <1>5, <1>7
<1>12. ASSUME NEW S, y \in S,
              \A x \in S \cap Zone, z \in Zone : <<x, z>> \in edges => z \in S
       PROVE  upTo[d] \subseteq S
  <2> DEFINE N == {n \in Nat : upTo[n] \subseteq S}
  <2>1. 0 \in N
    BY <1>5, <1>12
  <2>2. \A n \in N : n + 1 \in N
    <3> TAKE n \in N
    <3>1. upTo[n] \subseteq S \cap Zone
      BY <1>6
    <3>2. onward(upTo[n]) \subseteq S
      BY <1>12, <3>1
    <3> HIDE DEF onward
    <3> QED
      BY <1>5, <3>1, <3>2
  <2>3. N = Nat
    <3> HIDE DEF N
    <3>1. N \in SUBSET Nat
      BY DEF N
    <3> QED
      BY <2>1, <2>2, <3>1, Induction
  <2> QED
    BY <1>7, <2>3
<1> QED
  BY <1>8, <1>9, <1>10, <1>11, <1>12

\* What a zone leads to leads nowhere else.
LEMMA LeadsIsTransitive ==
  ASSUME NEW edges, NEW x \in Zone, NEW y \in Zone, GCAssumption, y \in Leads(edges, x)
  PROVE  Leads(edges, y) \subseteq Leads(edges, x)
<1> DEFINE S == Leads(edges, x)
<1>1. y \in S /\ \A v \in S \cap Zone, z \in Zone : <<v, z>> \in edges => z \in S
  BY LeadsIsLeastClosed
<1> HIDE DEF S
<1>2. Leads(edges, y) \subseteq S
  BY <1>1, LeadsIsLeastClosed
<1> QED
  BY <1>2 DEF S

\* FindZoneGroups() puts each zone being collected into one group.
LEMMA GroupsPartition ==
  ASSUME NEW edges, NEW order \in ZoneGroups(edges), GCAssumption, Started # {}
  PROVE  /\ order \in Seq(SUBSET Zone) /\ order # <<>>
         /\ UNION Range(order) = Started
         /\ \A i, j \in DOMAIN order : i # j => order[i] \cap order[j] = {}
<1> DEFINE C == Components(edges)
           n == Cardinality(C)
           Joined(y) == {z \in Started : z \in Leads(edges, y) /\ y \in Leads(edges, z)}
<1>1. Started \subseteq Zone /\ IsFiniteSet(Zone)
  BY DEF Started, GCAssumption
<1>2. IsFiniteSet(C) /\ C # {}
  <2>1. IsFiniteSet(SUBSET Zone)
    BY <1>1, FS_SUBSET
  <2>2. C \in SUBSET SUBSET Zone
    BY <1>1 DEF Components
  <2>3. C # {}
    <3>1. PICK y \in Started : TRUE
      OBVIOUS
    <3>2. Joined(y) \in C
      BY DEF Components
    <3> QED
      BY <3>2
  <2> QED
    BY <2>1, <2>2, <2>3, FS_Subset
<1>3. n \in Nat /\ n # 0
  BY <1>2, FS_CardinalityType, FS_EmptySet
<1>4. order \in [1..n -> C] /\ \A i, j \in 1..n : i # j => order[i] # order[j]
  BY DEF ZoneGroups, SetToSeqs
<1>5. \A c \in C : \E i \in 1..n : order[i] = c
  <2>1. order \in Injection(1..n, C)
    BY <1>4 DEF Injection, IsInjective
  <2>2. Cardinality(1..n) = n
    BY <1>3, FS_Interval
  <2>3. order \in Surjection(1..n, C)
    <3> HIDE DEF n
    <3>1. Cardinality(1..n) = Cardinality(C)
      BY <2>2 DEF n
    <3> QED
      BY <1>2, <2>1, <3>1, FS_Injection
  <2> QED
    BY <2>3 DEF Surjection
<1>6. \A c \in C : c \subseteq Started
  BY DEF Components
<1>7. \A y \in Started : y \in Joined(y) /\ Joined(y) \in C
  BY <1>1, LeadsIsLeastClosed DEF Components
<1>8. \A c, d \in C : c \cap d # {} => c = d
  <2> SUFFICES ASSUME NEW c \in C, NEW d \in C, NEW z \in c \cap d
               PROVE  c = d
    OBVIOUS
  <2>1. PICK x \in Started : c = Joined(x)
    BY DEF Components
  <2>2. PICK y \in Started : d = Joined(y)
    BY DEF Components
  <2>3. z \in Started /\ x \in Zone /\ y \in Zone /\ z \in Zone
    BY <1>1, <2>1
  <2>4. /\ z \in Leads(edges, x) /\ x \in Leads(edges, z)
        /\ z \in Leads(edges, y) /\ y \in Leads(edges, z)
    BY <2>1, <2>2
  <2>5. /\ Leads(edges, x) = Leads(edges, z)
        /\ Leads(edges, y) = Leads(edges, z)
    <3>1. \A v, u \in Zone : u \in Leads(edges, v) => Leads(edges, u) \subseteq Leads(edges, v)
      BY LeadsIsTransitive
    <3> QED
      BY <2>3, <2>4, <3>1
  <2>6. \A v \in Started : z \in Leads(edges, v) /\ v \in Leads(edges, z)
                              => Leads(edges, v) = Leads(edges, z)
    <3>1. \A v, u \in Zone : u \in Leads(edges, v) => Leads(edges, u) \subseteq Leads(edges, v)
      BY LeadsIsTransitive
    <3> QED
      BY <1>1, <2>3, <3>1
  <2>7. \A v \in Started : v \in Leads(edges, z) => /\ (x \in Leads(edges, v) <=> z \in Leads(edges, v))
                                                    /\ (y \in Leads(edges, v) <=> z \in Leads(edges, v))
    <3> SUFFICES ASSUME NEW v \in Started
                 PROVE  /\ (x \in Leads(edges, v) <=> z \in Leads(edges, v))
                        /\ (y \in Leads(edges, v) <=> z \in Leads(edges, v))
      OBVIOUS
    <3>1. \A u \in Leads(edges, v) : Leads(edges, u) \subseteq Leads(edges, v)
      BY <1>1, LeadsIsLeastClosed, LeadsIsTransitive
    <3> QED
      BY <2>4, <2>5, <3>1
  <2> QED
    BY <2>1, <2>2, <2>5, <2>7
<1>9. DOMAIN order = 1..n /\ order \in Seq(SUBSET Zone) /\ order # <<>>
  <2>1. \A i \in 1..n : order[i] \in SUBSET Zone
    BY <1>1, <1>4, <1>6
  <2> HIDE DEF n, C
  <2> QED
    BY <1>3, <1>4, <2>1
<1>10. UNION Range(order) = Started
  <2> HIDE DEF n, C, Joined
  <2> QED
    BY <1>4, <1>5, <1>6, <1>7, <1>9 DEF Range
<1>11. \A i, j \in DOMAIN order : i # j => order[i] \cap order[j] = {}
  <2> HIDE DEF n, C, Joined
  <2> QED
    BY <1>4, <1>8, <1>9
<1> QED
  BY <1>9, <1>10, <1>11

-----------------------------------------------------------------------------
(* The inductive invariant.                                                *)

\* Cells of zones swept in this collection, cells queued to be freed, and the
\* cells that are not.
Swept == In(ZonesIn("Sweep") \cup ZonesIn("Finished"))
Dead == toSweep \cup background
Kept == used \ Dead

UnderWay == phase # "none" /\ ~abortSweep

\* What each phase leaves empty.
Control ==
    /\ pc \in {"mark", "sweep"} => phase = pc
    /\ phase = "none" =>
          /\ \A z \in Zone : zoneState[z] = "NoGC"
          /\ stack = {} /\ delayed = {} /\ incoming = {} /\ toSweep = {}
          /\ groups = <<>> /\ ~abortSweep
    /\ phase = "mark" =>
          /\ \A z \in Zone : zoneState[z] \in {"NoGC", "Mark"}
          /\ incoming = {} /\ toSweep = {} /\ groups = <<>> /\ ~abortSweep
          /\ \E z \in Zone : zoneState[z] = "Mark"
    /\ phase # "none" => background = {}
    /\ abortSweep => pc = "sweep" /\ ~limited /\ Drained
    /\ pc \in {"program", "cycle"} => needsBarrier = ZonesIn("Mark")

\* The groups while sweeping: the first is being swept, the zones of the others
\* are still being marked.
GroupInv ==
    phase = "sweep" =>
        /\ groups # <<>>
        /\ \A z \in Zone : zoneState[z] = "Sweep" <=> z \in Head(groups)
        /\ \A z \in Zone : zoneState[z] = "Mark" <=> z \in UNION Range(Tail(groups))
        /\ \A i, j \in DOMAIN groups : i # j => groups[i] \cap groups[j] = {}

\* What the collector keeps lists of is of the zones, and the color, it should be.
ListInv ==
    /\ stack \subseteq Marking \cap WithMark(mark, "black")
    /\ delayed \subseteq Marking
    /\ \A c \in used \cap Marking : mark[c] # "gray"
    /\ \A c \in Cell \ used : field[c] = Null
    /\ toSweep \subseteq Swept
    /\ \A w \in incoming : w \in Swept /\ field[w] \in Marking /\ mark[w] # "white"

\* What is not queued to be freed leads to nothing that is.
KeptInv ==
    /\ \A c \in Kept : field[c] \in Kept \cup {Null}
    /\ roots \cup grayRoots \subseteq Kept
    /\ wrappers = {c \in Kept : IsWrapper(c)}

\* A set of cells, closed under the fields, that holds all that the program can
\* come to.  Where marking is under way it is or will be black; elsewhere it holds
\* all but the gray cells of zones that were swept.  The other wrappers of zones
\* being marked lead to no cell outside of it that marking could miss.
SafeSet(T) ==
    /\ T \subseteq Kept /\ roots \subseteq T /\ Blackened \subseteq T
    /\ \A c \in Kept \ Marking : (c \in Swept => mark[c] # "gray") => c \in T
    /\ \A c \in T : field[c] \in T \cup {Null}
    /\ T \cap Marking \subseteq Blackened
    /\ \A c \in used \cap Marking : field[c] \notin Marking => field[c] \in T \cup {Null}
    /\ buffered => grayRoots \cap Marking \subseteq grayBuffer \cup T
SafeInv == UnderWay => \E T \in SUBSET Cell : SafeSet(T)

\* A gray cell that leads to a zone still being marked is on that zone's list.
GrayInv ==
    UnderWay =>
        \A c \in Kept \cap Swept : mark[c] = "gray" /\ field[c] \in Marking
                                       => c \in incoming \/ field[c] \in Blackened

\* No white cell of a group leads to a white cell of an earlier one.
NoWayBack(order) ==
    \A i, j \in DOMAIN order : \A w \in wrappers :
        /\ j < i /\ ZoneOf[w] \in order[i] /\ ZoneOf[field[w]] \in order[j]
        /\ field[w] \in Marking /\ mark[w] = "white" /\ mark[field[w]] = "white"
        => w \in delayed
OrderInv == UnderWay => NoWayBack(groups)

\* What was garbage when the collection began and has stayed so is not marked.
GarbageInv ==
    /\ phase = "none" => garbage \subseteq background
    /\ phase # "none" => garbage \subseteq Marking \cup toSweep
    /\ garbage \cap (roots \cup grayRoots \cup grayBuffer \cup delayed) = {}
    /\ \A c \in used \ garbage : field[c] \notin garbage
    /\ \A c \in garbage \cap Marking : mark[c] = "white"

IInv ==
    /\ TypeOK /\ Control /\ GroupInv /\ ListInv /\ KeptInv
    /\ SafeInv /\ GrayInv /\ OrderInv /\ GarbageInv

-----------------------------------------------------------------------------
(* What a step does to what is still to be marked.                         *)

\* found is the least set that holds start, and is closed under next, in within.
Least(found, next, start, within) ==
    /\ found \subseteq within
    /\ start \cap within \subseteq found
    /\ \A c \in found : next[c] \in within => next[c] \in found
    /\ \A S : /\ start \cap within \subseteq S
              /\ \A c \in S \cap within : next[c] \in within => next[c] \in S
              => found \subseteq S

DueStart == delayed \cup {field[c] : c \in stack} \cup {field[w] : w \in Exposed}
ToMark == Marking \cap WithMark(mark, "white")

\* What is followed from a start is the least closed set that holds it.
LEMMA FollowIsLeast ==
  ASSUME NEW next, NEW start, NEW within \in SUBSET Cell, GCAssumption
  PROVE  Least(Follow(next, start, within), next, start, within)
  BY FollowIsLeastClosed DEF Least

\* So is what is still to be marked, before and after a step.
LEMMA DueIsLeast ==
  /\ TypeOK => Least(Due, field, DueStart, ToMark)
  /\ TypeOK' => Least(Due', field', DueStart', ToMark')
<1>1. TypeOK => ToMark \in SUBSET Cell
  BY DEF TypeOK, ToMark, WithMark
<1>2. TypeOK' => ToMark' \in SUBSET Cell
  BY DEF TypeOK, ToMark, WithMark
<1>3. Due = Follow(field, DueStart, ToMark)
  BY DEF Due, Spread, Follow, DueStart, ToMark
<1>4. Due' = Follow(field', DueStart', ToMark')
  BY DEF Due, Spread, Follow, DueStart, ToMark
<1> QED
  BY <1>1, <1>2, <1>3, <1>4, FollowIsLeast, GCAssumption

\* A step that does not sweep, in a zone being marked: cells only turn from white
\* to black, and then onto the stack; what leaves the lists that marking starts
\* from, or leads elsewhere than before, has turned what it led to black.
Onward ==
    /\ zoneState' = zoneState
    /\ \A c \in used \cap Marking :
          /\ c \in used'
          /\ mark'[c] = mark[c] \/ (mark[c] = "white" /\ mark'[c] = "black" /\ c \in stack')
          /\ field[c] \in ToMark => field'[c] = field[c] \/ mark'[field[c]] = "black"
    /\ \A c \in stack : field[c] \in ToMark =>
          (c \in stack' /\ field'[c] = field[c]) \/ mark'[field[c]] = "black"
    /\ \A c \in delayed : mark[c] = "white" => c \in delayed' \/ mark'[c] = "black"
    /\ \A w \in Exposed : field[w] \in ToMark =>
          (w \in Exposed' /\ field'[w] = field[w]) \/ mark'[field[w]] = "black"

\* What is or will be black remains so.
LEMMA OnwardKeepsBlackened ==
  ASSUME TypeOK, TypeOK', ListInv, Onward
  PROVE  Blackened \subseteq Blackened'
<1> DEFINE black == Marking' \cap WithMark(mark', "black")
           S == Blackened'
<1>1. Marking' = Marking
  BY DEF Onward, Marking, In, ZonesIn
<1>2. Least(Due, field, DueStart, ToMark) /\ Least(Due', field', DueStart', ToMark')
  BY DueIsLeast
<1>3. S = {c \in used' \cap Marking : mark'[c] = "black"} \cup Due'
  BY <1>1 DEF Blackened, WithMark, TypeOK
<1>4. ToMark = {c \in used \cap Marking : mark[c] = "white"}
  BY DEF ToMark, WithMark, Marking, In, TypeOK
<1>4a. ToMark' = {c \in used' \cap Marking : mark'[c] = "white"}
  BY <1>1 DEF ToMark, WithMark, TypeOK
<1> HIDE DEF S
<1>5. \A c \in ToMark : c \in used' /\ mark'[c] \in {"white", "black"}
  BY <1>4 DEF Onward
<1>6. \A c \in ToMark : c \in S \/ c \in ToMark'
  BY <1>3, <1>4, <1>4a, <1>5
<1>7. DueStart \cap ToMark \subseteq S
  <2> SUFFICES ASSUME NEW c \in DueStart \cap ToMark
               PROVE  c \in S
    OBVIOUS
  <2>1. c \in DueStart' \/ mark'[c] = "black"
    BY <1>4 DEF DueStart, Onward
  <2> QED
    BY <1>2, <1>3, <1>4, <1>5, <1>6, <2>1 DEF Least
<1>8. ASSUME NEW c \in S \cap ToMark, field[c] \in ToMark
      PROVE  field[c] \in S
  <2>1. CASE mark'[field[c]] = "black"
    BY <1>3, <1>4, <1>5, <1>8, <2>1
  <2>2. CASE mark'[field[c]] # "black"
    <3>1. field'[c] = field[c] /\ field[c] \in ToMark'
      BY <1>4, <1>4a, <1>5, <1>8, <2>2 DEF Onward
    <3>2. CASE mark'[c] = "white"
      <4>1. c \in Due'
        BY <1>3, <3>2
      <4> QED
        BY <1>2, <1>3, <3>1, <4>1 DEF Least
    <3>3. CASE mark'[c] # "white"
      <4>1. c \in stack'
        BY <1>4, <1>5, <3>3 DEF Onward
      <4>2. field[c] \in DueStart'
        BY <3>1, <4>1 DEF DueStart
      <4> QED
        BY <1>2, <1>3, <3>1, <4>2 DEF Least
    <3> QED
      BY <3>2, <3>3
  <2> QED
    BY <2>1, <2>2
<1>9. Due \subseteq S
  BY <1>2, <1>7, <1>8 DEF Least
<1>10. \A c \in used \cap Marking : mark[c] = "black" => c \in used' /\ mark'[c] = "black"
  BY DEF Onward
<1>11. Marking \cap WithMark(mark, "black") \subseteq S
  BY <1>3, <1>10 DEF WithMark
<1> QED
  BY <1>9, <1>11 DEF Blackened, S

-----------------------------------------------------------------------------
(* Sweeping a group.                                                       *)

\* The first of a sequence of groups, and the others.
LEMMA GroupSequence ==
  ASSUME NEW order \in Seq(SUBSET Zone), order # <<>>
  PROVE  /\ 1 \in DOMAIN order /\ Head(order) = order[1] /\ DOMAIN order \subseteq Nat
         /\ Head(order) \subseteq Zone /\ Tail(order) \in Seq(SUBSET Zone)
         /\ \A i \in DOMAIN Tail(order) : /\ i + 1 \in DOMAIN order /\ i + 1 # 1
                                          /\ Tail(order)[i] = order[i+1]
         /\ \A i \in DOMAIN order : i # 1 => /\ i - 1 \in DOMAIN Tail(order)
                                             /\ 1 < i /\ Tail(order)[i-1] = order[i]
         /\ \A z : z \in UNION Range(order) <=> \E i \in DOMAIN order : z \in order[i]
         /\ \A z : z \in UNION Range(order)
                      <=> z \in Head(order) \/ z \in UNION Range(Tail(order))
         /\ \A z : z \in UNION Range(Tail(order))
                      <=> \E i \in DOMAIN order : i # 1 /\ z \in order[i]
<1>1. /\ 1 \in DOMAIN order /\ Head(order) = order[1] /\ DOMAIN order \subseteq Nat
      /\ Head(order) \subseteq Zone /\ Tail(order) \in Seq(SUBSET Zone)
  OBVIOUS
<1>2. \A i \in DOMAIN Tail(order) : /\ i + 1 \in DOMAIN order /\ i + 1 # 1
                                    /\ Tail(order)[i] = order[i+1]
  OBVIOUS
<1>3. \A i \in DOMAIN order : i # 1 => /\ i - 1 \in DOMAIN Tail(order) /\ 1 < i
                                       /\ Tail(order)[i-1] = order[i]
  OBVIOUS
<1>4. /\ \A z : z \in UNION Range(order) <=> \E i \in DOMAIN order : z \in order[i]
      /\ \A z : z \in UNION Range(Tail(order))
                   <=> \E i \in DOMAIN Tail(order) : z \in Tail(order)[i]
  BY DEF Range
<1>5. \A z : z \in UNION Range(Tail(order)) <=> \E i \in DOMAIN order : i # 1 /\ z \in order[i]
  <2> TAKE z
  <2>1. ASSUME NEW i \in DOMAIN Tail(order), z \in Tail(order)[i]
        PROVE  \E j \in DOMAIN order : j # 1 /\ z \in order[j]
    BY <1>2, <2>1
  <2>2. ASSUME NEW i \in DOMAIN order, i # 1, z \in order[i]
        PROVE  \E j \in DOMAIN Tail(order) : z \in Tail(order)[j]
    BY <1>3, <2>2
  <2> QED
    BY <1>4, <2>1, <2>2
<1>6. \A z : z \in UNION Range(order) <=> z \in Head(order) \/ z \in UNION Range(Tail(order))
  BY <1>1, <1>4, <1>5
<1> QED
  BY <1>1, <1>2, <1>3, <1>4, <1>5, <1>6

\* What SweepGroup() is given: the zones to be swept, group by group, are those
\* still being marked, and no white cell leads back.
Sweepable(order, state) ==
    /\ order \in Seq(SUBSET Zone) /\ order # <<>>
    /\ \A i, j \in DOMAIN order : i # j => order[i] \cap order[j] = {}
    /\ state \in [Zone -> {"NoGC", "Mark", "Finished"}]
    /\ \A z \in Zone : state[z] = "Mark" <=> zoneState[z] = "Mark"
    /\ \A z \in Zone : state[z] = "NoGC" <=> zoneState[z] = "NoGC"
    /\ \A z \in Zone : state[z] = "Mark" <=> z \in UNION Range(order)
    /\ NoWayBack(order)

\* The steps that sweep a group.
SweepStep(order, state) ==
    /\ SweepGroup(order, state) /\ Drained
    /\ phase # "none" /\ ~abortSweep
    /\ phase' = "sweep" /\ pc' = "sweep"
    /\ UNCHANGED <<used, field, roots, grayRoots, stack, delayed, needsBarrier, scheduled,
                   limited, firstSlice, repeat, lastMark, grayBuffer, buffered, abortSweep,
                   background, garbage, bounds>>

\* The end of marking is a pause, or sweeps the first of the groups that
\* FindZoneGroups() has put in order.
LEMMA FinishMarkingSweeps ==
  ASSUME TypeOK, Control, FinishMarking
  PROVE  \/ /\ EndSlice(zoneState, FALSE)
            /\ UNCHANGED <<heapVars, markVars, zoneState, phase, limited, firstSlice, repeat,
                           grayVars, sweepVars, garbage, bounds>>
            /\ lastMark' = TRUE
         \/ \E order : Sweepable(order, zoneState) /\ SweepStep(order, zoneState)
<1>1. CASE limited /\ ~firstSlice /\ ~lastMark
  BY <1>1 DEF FinishMarking, heapVars, markVars, grayVars, sweepVars
<1>2. CASE ~(limited /\ ~firstSlice /\ ~lastMark)
  <2>1. PICK order \in IF limited THEN ZoneGroups(ZoneEdges(mark)) ELSE {<<Started>>} :
               SweepGroup(order, zoneState)
    BY <1>2 DEF FinishMarking
  <2>2. phase = "mark" /\ Started = ZonesIn("Mark") /\ Started # {} /\ Started \subseteq Zone
    BY DEF FinishMarking, Control, Started, ZonesIn, TypeOK
  <2>3. SweepStep(order, zoneState)
    BY <1>2, <2>1, <2>2 DEF FinishMarking, SweepStep, Control
  <2>4. /\ order \in Seq(SUBSET Zone) /\ order # <<>> /\ UNION Range(order) = Started
        /\ \A i, j \in DOMAIN order : i # j => order[i] \cap order[j] = {}
    <3>1. CASE limited
      BY <2>1, <2>2, <3>1, GroupsPartition, GCAssumption
    <3>2. CASE ~limited
      <4>1. order = <<Started>>
        BY <2>1, <3>2
      <4> QED
        BY <2>2, <4>1 DEF Range
    <3> QED
      BY <3>1, <3>2
  <2>5. NoWayBack(order)
    <3> SUFFICES ASSUME NEW i \in DOMAIN order, NEW j \in DOMAIN order, NEW w \in wrappers,
                        j < i, ZoneOf[w] \in order[i], ZoneOf[field[w]] \in order[j],
                        field[w] \in Marking, mark[w] = "white", mark[field[w]] = "white"
                 PROVE  FALSE
      BY DEF NoWayBack
    <3>1. CASE limited
      <4>1. order[i] \subseteq Started /\ order[j] \subseteq Started
        BY <2>4, GroupSequence
      <4>2. <<ZoneOf[w], ZoneOf[field[w]]>> \in ZoneEdges(mark)
        BY <4>1 DEF ZoneEdges
      <4>3. i > j
        BY <2>4, GroupSequence
      <4> QED
        BY <2>1, <3>1, <4>2, <4>3 DEF ZoneGroups
    <3>2. CASE ~limited
      <4>1. order = <<Started>>
        BY <2>1, <3>2
      <4> QED
        BY <4>1
    <3> QED
      BY <3>1, <3>2
  <2>6. zoneState \in [Zone -> {"NoGC", "Mark", "Finished"}]
    BY <2>2 DEF Control, TypeOK
  <2>7. Sweepable(order, zoneState)
    BY <2>2, <2>4, <2>5, <2>6 DEF Sweepable, ZonesIn
  <2> QED
    BY <2>3, <2>7
<1> QED
  BY <1>1, <1>2

AfterHead == [z \in Zone |-> IF z \in Head(groups) THEN "Finished" ELSE zoneState[z]]

\* The next group, or all that are left, is swept likewise.
LEMMA NextGroupSweeps ==
  ASSUME TypeOK, Control, GroupInv, OrderInv, NextGroup
  PROVE  \E order : Sweepable(order, AfterHead) /\ SweepStep(order, AfterHead)
<1> DEFINE order == Merged(Tail(groups))
           rest == UNION Range(Tail(groups))
<1>1. phase = "sweep" /\ groups # <<>> /\ groups \in Seq(SUBSET Zone) /\ Len(groups) > 1 /\ ~abortSweep
  BY DEF NextGroup, Control, GroupInv, TypeOK
<1>2. SweepStep(order, AfterHead)
  BY <1>1 DEF NextGroup, SweepStep, AfterHead, sliceVars
<1>3. /\ \A z \in Zone : zoneState[z] = "Sweep" <=> z \in Head(groups)
      /\ \A z \in Zone : zoneState[z] = "Mark" <=> z \in rest
  BY <1>1 DEF GroupInv
<1>4. /\ Tail(groups) \in Seq(SUBSET Zone) /\ Tail(groups) # <<>>
      /\ rest \subseteq Zone
      /\ \A i, j \in DOMAIN Tail(groups) : i # j => Tail(groups)[i] \cap Tail(groups)[j] = {}
  <2>1. /\ Tail(groups) \in Seq(SUBSET Zone) /\ Tail(groups) # <<>>
    BY <1>1
  <2>2. rest \subseteq Zone
    BY <2>1 DEF Range
  <2>3. \A i, j \in DOMAIN Tail(groups) : i # j => Tail(groups)[i] \cap Tail(groups)[j] = {}
    <3> TAKE i, j \in DOMAIN Tail(groups)
    <3>1. /\ i + 1 \in DOMAIN groups /\ Tail(groups)[i] = groups[i+1] /\ i \in Nat
          /\ j + 1 \in DOMAIN groups /\ Tail(groups)[j] = groups[j+1] /\ j \in Nat
      BY <1>1, <2>1, GroupSequence
    <3>2. i # j => i + 1 # j + 1
      BY <3>1
    <3> QED
      BY <1>1, <3>1, <3>2 DEF GroupInv
  <2> QED
    BY <2>1, <2>2, <2>3
<1>5. /\ order \in Seq(SUBSET Zone) /\ order # <<>> /\ UNION Range(order) = rest
      /\ \A i, j \in DOMAIN order : i # j => order[i] \cap order[j] = {}
  <2>1. CASE limited
    BY <1>4, <2>1 DEF Merged
  <2>2. CASE ~limited
    <3>1. order = <<rest>>
      BY <2>2 DEF Merged
    <3> HIDE DEF order, rest
    <3> QED
      BY <1>4, <3>1 DEF Range
  <2> QED
    BY <2>1, <2>2
<1>6. NoWayBack(order)
  <2>1. CASE limited
    <3>1. order = Tail(groups)
      BY <2>1 DEF Merged
    <3> SUFFICES ASSUME NEW i \in DOMAIN order, NEW j \in DOMAIN order, NEW w \in wrappers,
                        j < i, ZoneOf[w] \in order[i], ZoneOf[field[w]] \in order[j],
                        field[w] \in Marking, mark[w] = "white", mark[field[w]] = "white"
                 PROVE  w \in delayed
      BY DEF NoWayBack
    <3>2. /\ i + 1 \in DOMAIN groups /\ order[i] = groups[i+1] /\ i \in Nat
          /\ j + 1 \in DOMAIN groups /\ order[j] = groups[j+1] /\ j \in Nat
      <4> HIDE DEF order
      <4>1. i \in DOMAIN Tail(groups) /\ j \in DOMAIN Tail(groups)
        BY <3>1
      <4>2. /\ \A k \in DOMAIN Tail(groups) : k + 1 \in DOMAIN groups /\ Tail(groups)[k] = groups[k+1]
            /\ DOMAIN Tail(groups) \subseteq Nat
        BY <1>1, <1>4, GroupSequence
      <4> QED
        BY <3>1, <4>1, <4>2
    <3>3. j + 1 < i + 1
      BY <3>2
    <3>4. NoWayBack(groups)
      BY <1>1 DEF OrderInv, UnderWay
    <3> QED
      BY <3>2, <3>3, <3>4 DEF NoWayBack
  <2>2. CASE ~limited
    <3>1. order = <<rest>>
      BY <2>2 DEF Merged
    <3>2. \A i, j \in DOMAIN order : ~(j < i)
      <4> HIDE DEF order, rest
      <4> QED
        BY <3>1
    <3> QED
      BY <3>2 DEF NoWayBack
  <2> QED
    BY <2>1, <2>2
<1>7. /\ AfterHead \in [Zone -> {"NoGC", "Mark", "Finished"}]
      /\ \A z \in Zone : AfterHead[z] = "Mark" <=> zoneState[z] = "Mark"
      /\ \A z \in Zone : AfterHead[z] = "NoGC" <=> zoneState[z] = "NoGC"
  BY <1>3 DEF AfterHead, TypeOK
<1>8. Sweepable(order, AfterHead)
  <2> HIDE DEF order, rest
  <2> QED
    BY <1>3, <1>5, <1>6, <1>7 DEF Sweepable
<1> QED
  BY <1>2, <1>8

\* The cells that a group leaves white.
Queued(order) == {c \in used : ZoneOf[c] \in Head(order) /\ mark'[c] = "white"}

\* What SweepGroup() does, with the cells that it turns black and gray.
GroupSwept(order, state, black, gray) ==
    /\ Least(black, field,
             {field[w] : w \in {w \in Exposed : ZoneOf[field[w]] \in Head(order)}}, ToMark)
    /\ Least(gray, field,
             {field[w] : w \in {w \in incoming : ZoneOf[field[w]] \in Head(order)
                                                    /\ mark[w] = "gray"}}
                \cup (IF buffered THEN grayBuffer ELSE grayRoots),
             (ToMark \cap In(Head(order))) \ black)
    /\ mark' = [c \in Cell |-> IF c \in gray THEN "gray"
                               ELSE IF c \in black THEN "black" ELSE mark[c]]
    /\ zoneState' = [z \in Zone |-> IF z \in Head(order) THEN "Sweep" ELSE state[z]]
    /\ groups' = order
    /\ toSweep' = toSweep \cup Queued(order)
    /\ wrappers' = {w \in wrappers : ZoneOf[w] \in Head(order)
                                        => w \notin Queued(order) /\ field[w] \notin Queued(order)}
    /\ incoming' = {w \in incoming : ZoneOf[field[w]] \notin Head(order)}
          \cup {w \in gray \cap wrappers :
                   field[w] \in Marking /\ ZoneOf[field[w]] \notin Head(order)
                       /\ mark'[field[w]] = "white"}

\* The black and the gray cells of EndMarkingZoneGroup() are least sets.
LEMMA SweepMarks ==
  ASSUME TypeOK, ListInv, KeptInv, NEW order, NEW state, Sweepable(order, state),
         SweepStep(order, state)
  PROVE  \E black, gray \in SUBSET Cell : GroupSwept(order, state, black, gray)
<1> DEFINE group == Head(order)
           black == MarkedBlack(group, state)
           m == Paint(mark, black, "black")
           gray == MarkedGray(group, m)
           final == Paint(m, gray, "gray")
           dead == In(group) \cap WithMark(final, "white")
           within == (ToMark \cap In(group)) \ black
           start == {field[w] : w \in {w \in incoming : ZoneOf[field[w]] \in group
                                                           /\ mark[w] = "gray"}}
                       \cup (IF buffered THEN grayBuffer ELSE grayRoots)
<1>0. /\ groups' = order /\ mark' = final
      /\ incoming' = {w \in incoming : ZoneOf[field[w]] \notin group}
                          \cup Delayed(gray, group, state, final)
      /\ wrappers' = {w \in wrappers : ZoneOf[w] \in group => {w, field[w]} \cap dead = {}}
      /\ zoneState' = [z \in Zone |-> IF z \in group THEN "Sweep" ELSE state[z]]
      /\ toSweep' = toSweep \cup dead
  BY DEF SweepStep, SweepGroup
<1>1. ToMark \in SUBSET Cell /\ ToMark \subseteq Marking
  BY DEF ToMark, WithMark, TypeOK
<1>2. In({z \in Zone : state[z] = "Mark"}) = Marking
  BY DEF Sweepable, Marking, ZonesIn
<1>3. black = Follow(field, {field[w] : w \in {w \in Exposed : ZoneOf[field[w]] \in group}}, ToMark)
  <2>1. {w \in incoming : ZoneOf[field[w]] \in group /\ mark[w] = "black"}
           = {w \in Exposed : ZoneOf[field[w]] \in group}
    BY DEF Exposed
  <2> QED
    BY <1>2, <2>1 DEF MarkedBlack, Spread, Follow, ToMark
<1>4. Least(black, field, {field[w] : w \in {w \in Exposed : ZoneOf[field[w]] \in group}}, ToMark)
  BY <1>1, <1>3, FollowIsLeast, GCAssumption
<1>5. black \in SUBSET Cell /\ black \subseteq ToMark
  BY <1>1, <1>4 DEF Least
<1> HIDE DEF black
<1>6. m = [c \in Cell |-> IF c \in black THEN "black" ELSE mark[c]]
  BY DEF Paint
<1> HIDE DEF m
<1>7. \A w \in incoming : w \in Cell /\ m[w] = mark[w]
  <2>1. \A w \in incoming : w \in Cell /\ w \notin Marking
    BY DEF ListInv, Swept, Marking, In, ZonesIn, TypeOK
  <2> QED
    BY <1>1, <1>5, <1>6, <2>1
<1>8. In(group) \cap WithMark(m, "white") = within
  <2>1. \A c \in In(group) : c \in Cell /\ c \in Marking
    <3>1. \A z \in group : z \in Zone /\ zoneState[z] = "Mark"
      BY GroupSequence DEF Sweepable
    <3> QED
      BY <3>1 DEF In, Marking, ZonesIn
  <2>2. ToMark = {c \in used \cap Marking : mark[c] = "white"}
    BY DEF ToMark, WithMark
  <2>3. WithMark(m, "white") = {c \in used : m[c] = "white"}
    BY DEF WithMark
  <2>4. used \subseteq Cell
    BY DEF TypeOK
  <2> HIDE DEF group
  <2> QED
    BY <1>6, <2>1, <2>2, <2>3, <2>4
<1>9. gray = Follow(field, start, within)
  <2>1. {w \in incoming : ZoneOf[field[w]] \in group /\ m[w] = "gray"}
           = {w \in incoming : ZoneOf[field[w]] \in group /\ mark[w] = "gray"}
    BY <1>7
  <2>2. {field[w] : w \in {w \in incoming : ZoneOf[field[w]] \in group /\ m[w] = "gray"}}
           \cup (IF buffered THEN grayBuffer ELSE grayRoots) = start
    BY <2>1
  <2>3. gray = Follow(field, {field[w] : w \in {w \in incoming : ZoneOf[field[w]] \in group
                                                                   /\ m[w] = "gray"}}
                                \cup (IF buffered THEN grayBuffer ELSE grayRoots),
                      In(group) \cap WithMark(m, "white"))
    BY DEF MarkedGray, Spread, Follow
  <2> HIDE DEF start, within, group
  <2> QED
    BY <1>8, <2>2, <2>3
<1>10. Least(gray, field, start, within)
  <2>1. within \in SUBSET Cell
    BY <1>1
  <2> HIDE DEF start, within, gray
  <2> QED
    BY <1>9, <2>1, FollowIsLeast, GCAssumption
<1>11. gray \in SUBSET Cell /\ gray \subseteq within
  <2>1. within \in SUBSET Cell
    BY <1>1
  <2> HIDE DEF start, within, gray
  <2> QED
    BY <1>10, <2>1 DEF Least
<1> HIDE DEF gray
<1>12. final = [c \in Cell |-> IF c \in gray THEN "gray"
                               ELSE IF c \in black THEN "black" ELSE mark[c]]
  BY <1>6 DEF Paint
<1>13. dead = Queued(order)
  <2>1. dead = {c \in used : c \in In(group) /\ final[c] = "white"}
    BY DEF WithMark
  <2> HIDE DEF final
  <2> QED
    BY <1>0, <2>1 DEF Queued, In, TypeOK
<1>14. Delayed(gray, group, state, final)
          = {w \in gray \cap wrappers : field[w] \in Marking /\ ZoneOf[field[w]] \notin group
                                           /\ mark'[field[w]] = "white"}
  <2>1. \A w \in wrappers : field[w] \in Cell /\ ZoneOf[field[w]] \in Zone
    BY GCAssumption DEF KeptInv, IsWrapper, TypeOK, GCAssumption
  <2>2. \A w \in wrappers : state[ZoneOf[field[w]]] = "Mark" <=> field[w] \in Marking
    BY <2>1 DEF Sweepable, Marking, In, ZonesIn
  <2> HIDE DEF final, group
  <2> QED
    BY <1>0, <2>2 DEF Delayed
<1> HIDE DEF final, dead
<1>15. GroupSwept(order, state, black, gray)
  BY <1>0, <1>4, <1>10, <1>12, <1>13, <1>14 DEF GroupSwept
<1> QED
  BY <1>5, <1>11, <1>15

\* The zones, colors and lists afterwards.
LEMMA SweepFacts ==
  ASSUME TypeOK, Control, ListInv, KeptInv, NEW order, NEW state, Sweepable(order, state),
         SweepStep(order, state), NEW black \in SUBSET Cell, NEW gray \in SUBSET Cell,
         GroupSwept(order, state, black, gray)
  PROVE  /\ \A c \in black : c \in used \cap Marking /\ mark[c] = "white"
         /\ \A c \in gray : /\ c \in used \cap Marking /\ mark[c] = "white"
                            /\ c \notin black /\ ZoneOf[c] \in Head(order)
         /\ \A c \in Cell : ZoneOf[c] \in Head(order) => c \in Marking
         /\ Marking' = {c \in Marking : ZoneOf[c] \notin Head(order)}
         /\ Swept' = Swept \cup In(Head(order))
         /\ Queued(order) = {c \in used \cap Marking : /\ ZoneOf[c] \in Head(order)
                                                       /\ mark[c] = "white"
                                                       /\ c \notin black \cup gray}
         /\ Dead' = Dead \cup Queued(order) /\ Kept' = Kept \ Queued(order)
         /\ Dead \cap Marking = {} /\ used \cap Marking \subseteq Kept
         /\ Swept \cap Marking = {}
         /\ stack = {} /\ delayed = {} /\ used' = used /\ field' = field
<1>1. /\ \A c \in black : c \in used \cap Marking /\ mark[c] = "white"
      /\ \A c \in gray : /\ c \in used \cap Marking /\ mark[c] = "white"
                         /\ c \notin black /\ ZoneOf[c] \in Head(order)
  BY DEF GroupSwept, Least, ToMark, WithMark, In
<1>2. \A c \in Cell : ZoneOf[c] \in Head(order) => c \in Marking
  <2>1. \A z \in Head(order) : z \in Zone /\ zoneState[z] = "Mark"
    BY GroupSequence DEF Sweepable
  <2> QED
    BY <2>1 DEF Marking, In, ZonesIn
<1>3. ZoneOf \in [Cell -> Zone]
  BY GCAssumption DEF GCAssumption
<1>4. Marking' = {c \in Marking : ZoneOf[c] \notin Head(order)}
  <2>1. \A z \in Zone : zoneState'[z] = "Mark" <=> zoneState[z] = "Mark" /\ z \notin Head(order)
    BY DEF GroupSwept, Sweepable
  <2> QED
    BY <1>3, <2>1 DEF Marking, In, ZonesIn
<1>5. Swept' = Swept \cup In(Head(order))
  <2>1. \A z \in Zone : zoneState'[z] \in {"Sweep", "Finished"}
                           <=> zoneState[z] \in {"Sweep", "Finished"} \/ z \in Head(order)
    <3>1. \A z \in Zone : zoneState[z] \in {"NoGC", "Mark", "Sweep", "Finished"}
      BY DEF TypeOK
    <3>2. \A z \in Zone : z \in Head(order) => zoneState[z] = "Mark"
      BY GroupSequence DEF Sweepable
    <3> QED
      BY <3>1, <3>2 DEF GroupSwept, Sweepable
  <2> QED
    BY <1>3, <2>1 DEF Swept, In, ZonesIn
<1>6. /\ stack = {} /\ delayed = {} /\ used' = used /\ field' = field /\ background' = background
  BY DEF SweepStep, Drained
<1>7. Queued(order) = {c \in used \cap Marking : /\ ZoneOf[c] \in Head(order)
                                                 /\ mark[c] = "white"
                                                 /\ c \notin black \cup gray}
  <2>1. used \subseteq Cell
    BY DEF TypeOK
  <2> QED
    BY <1>2, <2>1 DEF Queued, GroupSwept
<1>8. Dead' = Dead \cup Queued(order) /\ Kept' = Kept \ Queued(order)
  BY <1>6 DEF GroupSwept, Dead, Kept
<1>9. Swept \cap Marking = {}
  BY DEF Swept, Marking, In, ZonesIn
<1>10. Dead \cap Marking = {} /\ used \cap Marking \subseteq Kept
  <2>1. background = {}
    BY DEF Control, SweepStep
  <2>2. Dead \subseteq Swept
    BY <2>1 DEF Dead, ListInv
  <2> QED
    BY <1>9, <2>2 DEF Kept
<1> QED
  BY <1>1, <1>2, <1>4, <1>5, <1>6, <1>7, <1>8, <1>9, <1>10

\* Nothing safe is queued, and what is or will be black in the other groups remains so.
LEMMA SweepIsSafe ==
  ASSUME TypeOK, Control, ListInv, KeptInv, NEW order, NEW state, Sweepable(order, state),
         SweepStep(order, state), NEW black \in SUBSET Cell, NEW gray \in SUBSET Cell,
         GroupSwept(order, state, black, gray), TypeOK', 
         NEW T \in SUBSET Cell, SafeSet(T)
  PROVE  /\ T \cap Queued(order) = {}
         /\ T \cap Marking' \subseteq Blackened'
         /\ Blackened' \subseteq T /\ black \subseteq T
<1>1. /\ \A c \in black : c \in used \cap Marking /\ mark[c] = "white"
      /\ \A c \in gray : /\ c \in used \cap Marking /\ mark[c] = "white"
                         /\ c \notin black /\ ZoneOf[c] \in Head(order)
      /\ \A c \in Cell : ZoneOf[c] \in Head(order) => c \in Marking
      /\ Marking' = {c \in Marking : ZoneOf[c] \notin Head(order)}
      /\ Swept' = Swept \cup In(Head(order))
      /\ Queued(order) = {c \in used \cap Marking : /\ ZoneOf[c] \in Head(order)
                                                    /\ mark[c] = "white"
                                                    /\ c \notin black \cup gray}
      /\ Dead' = Dead \cup Queued(order) /\ Kept' = Kept \ Queued(order)
      /\ Dead \cap Marking = {} /\ used \cap Marking \subseteq Kept
      /\ Swept \cap Marking = {}
      /\ stack = {} /\ delayed = {} /\ used' = used /\ field' = field
  BY SweepFacts
<1>2. /\ Least(Due, field, DueStart, ToMark) /\ Least(Due', field', DueStart', ToMark')
      /\ Least(black, field,
               {field[w] : w \in {w \in Exposed : ZoneOf[field[w]] \in Head(order)}}, ToMark)
  BY DueIsLeast DEF GroupSwept
<1>3. /\ ToMark = {c \in used \cap Marking : mark[c] = "white"}
      /\ ToMark' = {c \in ToMark : ZoneOf[c] \notin Head(order) /\ c \notin black}
  <2>1. ToMark = {c \in used \cap Marking : mark[c] = "white"}
    BY DEF ToMark, WithMark
  <2>2. ToMark' = {c \in used' \cap Marking' : mark'[c] = "white"}
    BY DEF ToMark, WithMark
  <2>3. \A c \in used \cap Marking : ZoneOf[c] \notin Head(order) =>
           mark'[c] = IF c \in black THEN "black" ELSE mark[c]
    BY <1>1 DEF GroupSwept, TypeOK
  <2> QED
    BY <1>1, <2>1, <2>2, <2>3
<1>4. DueStart = {field[w] : w \in Exposed} /\ DueStart' = {field[w] : w \in Exposed'}
  <2>1. stack' = {} /\ delayed' = {}
    BY <1>1 DEF SweepStep
  <2> QED
    BY <1>1, <2>1 DEF DueStart
<1>5. \A w \in Exposed : ZoneOf[field[w]] \notin Head(order) => w \in Exposed'
  <2>1. \A w \in incoming : w \in Cell /\ w \notin Marking
    BY <1>1 DEF ListInv, TypeOK
  <2>2. \A w \in incoming : mark'[w] = mark[w]
    BY <1>1, <2>1 DEF GroupSwept
  <2> QED
    BY <2>2 DEF GroupSwept, Exposed
<1>6. \A w \in Exposed' : w \in Exposed
  <2>1. \A w \in incoming : w \in Cell /\ w \notin Marking
    BY <1>1 DEF ListInv, TypeOK
  <2>2. \A w \in incoming : mark'[w] = mark[w]
    BY <1>1, <2>1 DEF GroupSwept
  <2>3. \A w \in gray : mark'[w] = "gray"
    BY DEF GroupSwept
  <2> QED
    BY <2>2, <2>3 DEF GroupSwept, Exposed
<1>7. Due \subseteq black \cup Due'
  <2> DEFINE S == black \cup Due'
  <2>1. DueStart \cap ToMark \subseteq S
    <3> SUFFICES ASSUME NEW w \in Exposed, field[w] \in ToMark
                 PROVE  field[w] \in S
      BY <1>4
    <3>1. CASE ZoneOf[field[w]] \in Head(order)
      BY <1>2, <3>1 DEF Least
    <3>2. CASE ZoneOf[field[w]] \notin Head(order)
      <4>1. field[w] \in DueStart'
        BY <1>4, <1>5, <3>2
      <4>2. field[w] \in black \/ field[w] \in ToMark'
        BY <1>3, <3>2
      <4> QED
        BY <1>2, <4>1, <4>2 DEF Least
    <3> QED
      BY <3>1, <3>2
  <2>2. ASSUME NEW c \in S \cap ToMark, field[c] \in ToMark
        PROVE  field[c] \in S
    <3>1. CASE c \in black
      BY <1>2, <2>2, <3>1 DEF Least
    <3>2. CASE c \in Due' /\ field[c] \in ToMark'
      BY <1>1, <1>2, <3>2 DEF Least
    <3>3. CASE c \in Due' /\ field[c] \notin ToMark' /\ field[c] \notin black
      <4>1. ZoneOf[field[c]] \in Head(order)
        BY <1>3, <2>2, <3>3
      <4>2. c \in ToMark' /\ c \in Kept /\ mark[c] = "white" /\ mark[field[c]] = "white"
        BY <1>1, <1>2, <1>3, <2>2, <3>3 DEF Least
      <4>3. ZoneOf[c] \notin Head(order) /\ ZoneOf[c] \in Zone /\ zoneState[ZoneOf[c]] = "Mark"
        BY <1>3, <4>2, GCAssumption DEF Marking, In, ZonesIn, GCAssumption
      <4>4. c \in wrappers
        <5>1. field[c] # Null
          BY <1>3, <2>2, GCAssumption DEF GCAssumption, TypeOK
        <5> QED
          BY <4>1, <4>2, <4>3, <5>1 DEF KeptInv, IsWrapper
      <4>5. PICK i \in DOMAIN order : i # 1 /\ ZoneOf[c] \in order[i]
        BY <4>3, GroupSequence DEF Sweepable
      <4>6. 1 \in DOMAIN order /\ Head(order) = order[1] /\ 1 < i
        BY <4>5, GroupSequence DEF Sweepable
      <4>7. field[c] \in Marking
        BY <1>3, <2>2
      <4> QED
        BY <1>1, <4>1, <4>2, <4>4, <4>5, <4>6, <4>7 DEF Sweepable, NoWayBack
    <3> QED
      BY <3>1, <3>2, <3>3
  <2> HIDE DEF S
  <2>3. Due \subseteq S
    BY <1>2, <2>1, <2>2 DEF Least
  <2> QED
    BY <2>3 DEF S
<1>8. Due' \subseteq Due
  <2>1. DueStart' \cap ToMark' \subseteq Due
    BY <1>2, <1>3, <1>4, <1>6 DEF Least
  <2>2. \A c \in Due \cap ToMark' : field'[c] \in ToMark' => field'[c] \in Due
    BY <1>1, <1>2, <1>3 DEF Least
  <2> QED
    BY <1>2, <2>1, <2>2 DEF Least
<1>9. black \subseteq Due
  <2>1. {field[w] : w \in {w \in Exposed : ZoneOf[field[w]] \in Head(order)}} \cap ToMark \subseteq Due
    BY <1>2, <1>4 DEF Least
  <2>2. \A c \in Due \cap ToMark : field[c] \in ToMark => field[c] \in Due
    BY <1>2 DEF Least
  <2> QED
    BY <1>2, <2>1, <2>2 DEF Least
<1>10. Blackened = {c \in used \cap Marking : mark[c] = "black"} \cup Due
  BY DEF Blackened, WithMark
<1>11. Blackened' = {c \in used \cap Marking' : mark'[c] = "black"} \cup Due'
  BY <1>1 DEF Blackened, WithMark
<1>12. \A c \in used \cap Marking : mark'[c] = "black" <=> mark[c] = "black" \/ c \in black
  BY <1>1 DEF GroupSwept, TypeOK
<1>13. Blackened' \subseteq T /\ black \subseteq T
  BY <1>1, <1>8, <1>9, <1>10, <1>11, <1>12 DEF SafeSet
<1>14. T \cap Marking' \subseteq Blackened'
  BY <1>1, <1>7, <1>10, <1>11, <1>12 DEF SafeSet
<1>15. T \cap Queued(order) = {}
  <2> SUFFICES ASSUME NEW c \in T, c \in Queued(order) PROVE FALSE
    OBVIOUS
  <2>1. c \in Marking /\ mark[c] = "white" /\ c \notin black /\ ZoneOf[c] \in Head(order)
    BY <1>1
  <2>2. c \in Due
    BY <1>10, <2>1 DEF SafeSet
  <2>3. c \in Due' /\ c \in ToMark'
    BY <1>2, <1>7, <2>1, <2>2 DEF Least
  <2> QED
    BY <1>3, <2>1, <2>3
<1> QED
  BY <1>13, <1>14, <1>15

\* Types.
LEMMA SweepTypes ==
  ASSUME TypeOK, Control, ListInv, KeptInv, NEW order, NEW state, Sweepable(order, state),
         SweepStep(order, state), NEW black \in SUBSET Cell, NEW gray \in SUBSET Cell,
         GroupSwept(order, state, black, gray)
  PROVE  TypeOK'
<1>1. /\ \A c \in black : c \in used \cap Marking /\ mark[c] = "white"
      /\ \A c \in gray : /\ c \in used \cap Marking /\ mark[c] = "white"
                         /\ c \notin black /\ ZoneOf[c] \in Head(order)
      /\ \A c \in Cell : ZoneOf[c] \in Head(order) => c \in Marking
      /\ Marking' = {c \in Marking : ZoneOf[c] \notin Head(order)}
      /\ Swept' = Swept \cup In(Head(order))
      /\ Queued(order) = {c \in used \cap Marking : /\ ZoneOf[c] \in Head(order)
                                                    /\ mark[c] = "white"
                                                    /\ c \notin black \cup gray}
      /\ Dead' = Dead \cup Queued(order) /\ Kept' = Kept \ Queued(order)
      /\ Dead \cap Marking = {} /\ used \cap Marking \subseteq Kept
      /\ Swept \cap Marking = {}
      /\ stack = {} /\ delayed = {} /\ used' = used /\ field' = field
  BY SweepFacts
<1>2. ZoneOf \in [Cell -> Zone]
  BY GCAssumption DEF GCAssumption
<1>3. incoming' \subseteq wrappers'
  <2>1. \A w \in incoming : w \in Swept /\ w \in wrappers /\ w \in Cell
    BY DEF ListInv, TypeOK
  <2>2. \A w \in incoming : ZoneOf[w] \notin Head(order)
    BY <1>1, <2>1
  <2>3. \A w \in gray : w \notin Queued(order)
    BY <1>1
  <2>4. \A w \in wrappers : ZoneOf[field[w]] \notin Head(order) => field[w] \notin Queued(order)
    BY <1>1
  <2> QED
    BY <2>1, <2>2, <2>3, <2>4 DEF GroupSwept
<1>4. zoneState' \in [Zone -> {"NoGC", "Mark", "Sweep", "Finished"}]
  BY DEF GroupSwept, Sweepable
<1>5. mark' \in [Cell -> {"white", "gray", "black"}]
  BY DEF GroupSwept, TypeOK
<1>6. groups' \in Seq(SUBSET Zone)
  BY DEF GroupSwept, Sweepable
<1>7. wrappers' \subseteq Cell /\ toSweep' \subseteq used'
  BY <1>1 DEF GroupSwept, TypeOK
<1> QED
  BY <1>1, <1>3, <1>4, <1>5, <1>6, <1>7 DEF TypeOK, SweepStep

\* Phase and groups.
LEMMA SweepControl ==
  ASSUME TypeOK, Control, ListInv, KeptInv, NEW order, NEW state, Sweepable(order, state),
         SweepStep(order, state), NEW black \in SUBSET Cell, NEW gray \in SUBSET Cell,
         GroupSwept(order, state, black, gray)
  PROVE  Control' /\ GroupInv'
<1>1. /\ \A c \in black : c \in used \cap Marking /\ mark[c] = "white"
      /\ \A c \in gray : /\ c \in used \cap Marking /\ mark[c] = "white"
                         /\ c \notin black /\ ZoneOf[c] \in Head(order)
      /\ \A c \in Cell : ZoneOf[c] \in Head(order) => c \in Marking
      /\ Marking' = {c \in Marking : ZoneOf[c] \notin Head(order)}
      /\ Swept' = Swept \cup In(Head(order))
      /\ Queued(order) = {c \in used \cap Marking : /\ ZoneOf[c] \in Head(order)
                                                    /\ mark[c] = "white"
                                                    /\ c \notin black \cup gray}
      /\ Dead' = Dead \cup Queued(order) /\ Kept' = Kept \ Queued(order)
      /\ Dead \cap Marking = {} /\ used \cap Marking \subseteq Kept
      /\ Swept \cap Marking = {}
      /\ stack = {} /\ delayed = {} /\ used' = used /\ field' = field
  BY SweepFacts
<1>2. Control'
  BY <1>1 DEF Control, SweepStep
<1>3. /\ \A z \in Zone : zoneState'[z] = "Sweep" <=> z \in Head(order)
      /\ \A z \in Zone : zoneState'[z] = "Mark" <=> z \in UNION Range(Tail(order))
  <2>1. \A z : z \in Head(order) => z \notin UNION Range(Tail(order))
    <3> SUFFICES ASSUME NEW z \in Head(order), z \in UNION Range(Tail(order))
                 PROVE  FALSE
      OBVIOUS
    <3>1. PICK i \in DOMAIN order : i # 1 /\ z \in order[i]
      BY GroupSequence DEF Sweepable
    <3>2. 1 \in DOMAIN order /\ Head(order) = order[1]
      BY GroupSequence DEF Sweepable
    <3> QED
      BY <3>1, <3>2 DEF Sweepable
  <2>2. \A z : z \in UNION Range(order) <=> z \in Head(order) \/ z \in UNION Range(Tail(order))
    BY GroupSequence DEF Sweepable
  <2> QED
    BY <2>1, <2>2 DEF GroupSwept, Sweepable
<1> QED
  BY <1>2, <1>3 DEF GroupInv, GroupSwept, Sweepable

\* Lists.
LEMMA SweepLists ==
  ASSUME TypeOK, Control, ListInv, KeptInv, NEW order, NEW state, Sweepable(order, state),
         SweepStep(order, state), NEW black \in SUBSET Cell, NEW gray \in SUBSET Cell,
         GroupSwept(order, state, black, gray)
  PROVE  ListInv'
<1>1. /\ \A c \in black : c \in used \cap Marking /\ mark[c] = "white"
      /\ \A c \in gray : /\ c \in used \cap Marking /\ mark[c] = "white"
                         /\ c \notin black /\ ZoneOf[c] \in Head(order)
      /\ \A c \in Cell : ZoneOf[c] \in Head(order) => c \in Marking
      /\ Marking' = {c \in Marking : ZoneOf[c] \notin Head(order)}
      /\ Swept' = Swept \cup In(Head(order))
      /\ Queued(order) = {c \in used \cap Marking : /\ ZoneOf[c] \in Head(order)
                                                    /\ mark[c] = "white"
                                                    /\ c \notin black \cup gray}
      /\ Dead' = Dead \cup Queued(order) /\ Kept' = Kept \ Queued(order)
      /\ Dead \cap Marking = {} /\ used \cap Marking \subseteq Kept
      /\ Swept \cap Marking = {}
      /\ stack = {} /\ delayed = {} /\ used' = used /\ field' = field
  BY SweepFacts
<1>2. stack' = {} /\ delayed' = {}
  BY <1>1 DEF SweepStep
<1>3. \A c \in used' \cap Marking' : mark'[c] # "gray"
  BY <1>1 DEF GroupSwept, ListInv, TypeOK
<1>4. \A c \in Cell \ used' : field'[c] = Null
  BY <1>1 DEF ListInv
<1>5. toSweep' \subseteq Swept'
  <2>1. Queued(order) \subseteq In(Head(order))
    BY DEF Queued, In, TypeOK
  <2> QED
    BY <1>1, <2>1 DEF GroupSwept, ListInv
<1>6. ASSUME NEW w \in incoming'
      PROVE  w \in Swept' /\ field'[w] \in Marking' /\ mark'[w] # "white"
  <2>1. CASE w \in incoming /\ ZoneOf[field[w]] \notin Head(order)
    <3>1. w \in Cell /\ w \in Swept /\ w \notin Marking /\ field[w] \in Marking /\ mark[w] # "white"
      BY <1>1, <2>1 DEF ListInv, TypeOK
    <3>2. mark'[w] = mark[w]
      BY <1>1, <3>1 DEF GroupSwept
    <3> QED
      BY <1>1, <2>1, <3>1, <3>2
  <2>2. CASE w \in gray /\ field[w] \in Marking /\ ZoneOf[field[w]] \notin Head(order)
    <3>1. w \in In(Head(order)) /\ mark'[w] = "gray"
      BY <1>1, <2>2 DEF In, GroupSwept
    <3> QED
      BY <1>1, <2>2, <3>1
  <2> QED
    BY <1>6, <2>1, <2>2 DEF GroupSwept
<1> QED
  BY <1>2, <1>3, <1>4, <1>5, <1>6 DEF ListInv

\* Nothing that is kept leads to a cell that is queued.
LEMMA SweepKept ==
  ASSUME TypeOK, Control, ListInv, KeptInv, GrayInv, NEW order, NEW state, Sweepable(order, state),
         SweepStep(order, state), NEW black \in SUBSET Cell, NEW gray \in SUBSET Cell,
         GroupSwept(order, state, black, gray),
         TypeOK', NEW T \in SUBSET Cell, SafeSet(T)
  PROVE  KeptInv'
<1>1. /\ \A c \in black : c \in used \cap Marking /\ mark[c] = "white"
      /\ \A c \in gray : /\ c \in used \cap Marking /\ mark[c] = "white"
                         /\ c \notin black /\ ZoneOf[c] \in Head(order)
      /\ \A c \in Cell : ZoneOf[c] \in Head(order) => c \in Marking
      /\ Marking' = {c \in Marking : ZoneOf[c] \notin Head(order)}
      /\ Swept' = Swept \cup In(Head(order))
      /\ Queued(order) = {c \in used \cap Marking : /\ ZoneOf[c] \in Head(order)
                                                    /\ mark[c] = "white"
                                                    /\ c \notin black \cup gray}
      /\ Dead' = Dead \cup Queued(order) /\ Kept' = Kept \ Queued(order)
      /\ Dead \cap Marking = {} /\ used \cap Marking \subseteq Kept
      /\ Swept \cap Marking = {}
      /\ stack = {} /\ delayed = {} /\ used' = used /\ field' = field
  BY SweepFacts
<1>2. /\ T \cap Queued(order) = {}
      /\ T \cap Marking' \subseteq Blackened'
      /\ Blackened' \subseteq T /\ black \subseteq T
  BY SweepIsSafe
<1>3. Blackened \subseteq T /\ roots \subseteq T /\ UnderWay
  BY DEF SafeSet, UnderWay, SweepStep
<1>4. Least(gray, field,
            {field[w] : w \in {w \in incoming : ZoneOf[field[w]] \in Head(order)
                                                   /\ mark[w] = "gray"}}
               \cup (IF buffered THEN grayBuffer ELSE grayRoots),
            (ToMark \cap In(Head(order))) \ black)
  BY DEF GroupSwept
<1>5. \A c \in Queued(order) : c \in (ToMark \cap In(Head(order))) \ black
  BY <1>1 DEF ToMark, WithMark, In, TypeOK
<1>6. ASSUME NEW c \in Kept', field[c] \in Queued(order)
      PROVE  FALSE
  <2>1. c \in Kept /\ c \in used /\ c \in Cell /\ field[c] \notin T
    BY <1>1, <1>2, <1>6 DEF Kept, TypeOK
  <2>2. c \notin T
    BY <1>6, <2>1, GCAssumption DEF SafeSet, GCAssumption, Queued, TypeOK
  <2>3. CASE c \notin Marking
    <3>1. c \in Swept /\ mark[c] = "gray"
      BY <2>1, <2>2, <2>3 DEF SafeSet
    <3>2. c \in incoming
      BY <1>1, <1>3, <1>6, <2>1, <3>1 DEF GrayInv
    <3>3. ZoneOf[field[c]] \in Head(order)
      BY <1>1, <1>6
    <3>4. field[c] \in gray
      BY <1>4, <1>5, <1>6, <3>1, <3>2, <3>3 DEF Least
    <3> QED
      BY <1>1, <1>6, <3>4
  <2>4. CASE c \in Marking /\ ZoneOf[c] \in Head(order)
    <3>1. c \in gray
      <4>1. mark[c] # "black"
        BY <1>3, <2>1, <2>2, <2>4 DEF Blackened, WithMark
      <4>2. mark[c] = "white"
        BY <2>1, <2>4, <4>1 DEF ListInv, TypeOK
      <4> QED
        BY <1>1, <1>2, <2>1, <2>2, <2>4, <4>2
    <3>2. field[c] \in gray
      BY <1>4, <1>5, <1>6, <3>1 DEF Least
    <3> QED
      BY <1>1, <1>6, <3>2
  <2>5. CASE c \in Marking /\ ZoneOf[c] \notin Head(order)
    <3>1. mark[c] = "white"
      <4>1. mark[c] # "black"
        BY <1>3, <2>1, <2>2, <2>5 DEF Blackened, WithMark
      <4> QED
        BY <2>1, <2>5, <4>1 DEF ListInv, TypeOK
    <3>2. ZoneOf[field[c]] \in Head(order) /\ field[c] \in Marking /\ mark[field[c]] = "white"
      BY <1>1, <1>6
    <3>3. ZoneOf[c] \in Zone /\ zoneState[ZoneOf[c]] = "Mark"
      BY <2>1, <2>5, GCAssumption DEF Marking, In, ZonesIn, GCAssumption
    <3>4. c \in wrappers
      <4>1. field[c] # Null
        BY <3>2, GCAssumption DEF GCAssumption, Marking, In
      <4> QED
        BY <2>1, <2>5, <3>2, <4>1 DEF KeptInv, IsWrapper
    <3>5. PICK i \in DOMAIN order : i # 1 /\ ZoneOf[c] \in order[i]
      BY <2>5, <3>3, GroupSequence DEF Sweepable
    <3>6. 1 \in DOMAIN order /\ Head(order) = order[1] /\ 1 < i
      BY <3>5, GroupSequence DEF Sweepable
    <3> QED
      BY <1>1, <3>1, <3>2, <3>4, <3>5, <3>6 DEF Sweepable, NoWayBack
  <2> QED
    BY <2>3, <2>4, <2>5
<1>7. \A c \in Kept' : field'[c] \in Kept' \cup {Null}
  BY <1>1, <1>6 DEF KeptInv
<1>8. roots' \cup grayRoots' \subseteq Kept'
  <2>1. roots' = roots /\ grayRoots' = grayRoots
    BY DEF SweepStep
  <2>2. grayRoots \cap Queued(order) = {}
    <3> SUFFICES ASSUME NEW c \in grayRoots, c \in Queued(order) PROVE FALSE
      OBVIOUS
    <3>1. c \notin gray /\ c \notin T /\ c \in Marking
      BY <1>1, <1>2
    <3>2. CASE buffered
      <4>1. c \in grayBuffer
        BY <3>1, <3>2 DEF SafeSet
      <4> QED
        BY <1>4, <1>5, <3>1, <3>2, <4>1 DEF Least
    <3>3. CASE ~buffered
      BY <1>4, <1>5, <3>1, <3>3 DEF Least
    <3> QED
      BY <3>2, <3>3
  <2> QED
    BY <1>1, <1>2, <1>3, <2>1, <2>2 DEF KeptInv
<1>9. wrappers' = {c \in Kept' : IsWrapper(c)'}
  <2>1. \A c : IsWrapper(c)' <=> IsWrapper(c)
    BY <1>1 DEF IsWrapper
  <2>2. wrappers' \subseteq {c \in Kept' : IsWrapper(c)}
    <3>1. \A w \in Queued(order) : ZoneOf[w] \in Head(order)
      BY <1>1
    <3> QED
      BY <1>1, <3>1 DEF GroupSwept, KeptInv
  <2>3. ASSUME NEW c \in Kept', IsWrapper(c)
        PROVE  c \in wrappers'
    <3>1. c \in wrappers /\ c \notin Queued(order) /\ field[c] \notin Queued(order)
      BY <1>1, <1>6, <2>3 DEF KeptInv
    <3> QED
      BY <3>1 DEF GroupSwept
  <2> QED
    BY <2>1, <2>2, <2>3
<1> QED
  BY <1>7, <1>8, <1>9 DEF KeptInv

\* What was safe still is.
LEMMA SweepSafe ==
  ASSUME TypeOK, Control, ListInv, KeptInv, NEW order, NEW state, Sweepable(order, state),
         SweepStep(order, state), NEW black \in SUBSET Cell, NEW gray \in SUBSET Cell,
         GroupSwept(order, state, black, gray),
         TypeOK', NEW T \in SUBSET Cell, SafeSet(T)
  PROVE  SafeSet(T)'
<1>1. /\ \A c \in black : c \in used \cap Marking /\ mark[c] = "white"
      /\ \A c \in gray : /\ c \in used \cap Marking /\ mark[c] = "white"
                         /\ c \notin black /\ ZoneOf[c] \in Head(order)
      /\ \A c \in Cell : ZoneOf[c] \in Head(order) => c \in Marking
      /\ Marking' = {c \in Marking : ZoneOf[c] \notin Head(order)}
      /\ Swept' = Swept \cup In(Head(order))
      /\ Queued(order) = {c \in used \cap Marking : /\ ZoneOf[c] \in Head(order)
                                                    /\ mark[c] = "white"
                                                    /\ c \notin black \cup gray}
      /\ Dead' = Dead \cup Queued(order) /\ Kept' = Kept \ Queued(order)
      /\ Dead \cap Marking = {} /\ used \cap Marking \subseteq Kept
      /\ Swept \cap Marking = {}
      /\ stack = {} /\ delayed = {} /\ used' = used /\ field' = field
  BY SweepFacts
<1>2. /\ T \cap Queued(order) = {}
      /\ T \cap Marking' \subseteq Blackened'
      /\ Blackened' \subseteq T /\ black \subseteq T
  BY SweepIsSafe
<1>3. T \subseteq Kept' /\ roots' \subseteq T
  BY <1>1, <1>2 DEF SafeSet, SweepStep
<1>4. ASSUME NEW c \in Kept' \ Marking', c \in Swept' => mark'[c] # "gray"
      PROVE  c \in T
  <2>1. c \in Kept /\ c \in used /\ c \in Cell /\ c \notin Queued(order)
    BY <1>1, <1>4 DEF Kept, TypeOK
  <2>2. CASE ZoneOf[c] \in Head(order)
    <3>1. c \in Marking /\ c \in Swept'
      BY <1>1, <2>1, <2>2 DEF In
    <3>2. c \notin gray
      BY <1>4, <3>1 DEF GroupSwept
    <3>3. mark[c] = "black" \/ c \in black
      BY <1>1, <2>1, <2>2, <3>1, <3>2 DEF ListInv, TypeOK
    <3>4. c \in Blackened \/ c \in T
      BY <1>2, <2>1, <3>1, <3>3 DEF Blackened, WithMark
    <3> QED
      BY <3>4 DEF SafeSet
  <2>3. CASE ZoneOf[c] \notin Head(order)
    <3>1. c \notin Marking
      BY <1>1, <1>4, <2>3
    <3>2. mark'[c] = mark[c] /\ (c \in Swept => c \in Swept')
      BY <1>1, <2>1, <3>1 DEF GroupSwept
    <3> QED
      BY <1>4, <2>1, <3>1, <3>2 DEF SafeSet
  <2> QED
    BY <2>2, <2>3
<1>5. \A c \in T : field'[c] \in T \cup {Null}
  BY <1>1 DEF SafeSet
<1>6. ASSUME NEW c \in used' \cap Marking', field'[c] \notin Marking'
      PROVE  field'[c] \in T \cup {Null}
  <2>1. /\ c \in used \cap Marking /\ c \in Cell /\ c \in Kept
        /\ ZoneOf[c] \notin Head(order) /\ field'[c] = field[c]
    BY <1>1, <1>6 DEF TypeOK
  <2>2. CASE field[c] \notin Marking
    BY <2>1, <2>2 DEF SafeSet
  <2>3. CASE field[c] \in Marking
    <3>1. ZoneOf[field[c]] \in Head(order) /\ field[c] \in Kept /\ field[c] # Null
      BY <1>1, <1>6, <2>1, <2>3, GCAssumption DEF GCAssumption, Marking, In, KeptInv
    <3>2. CASE c \in T
      BY <2>1, <3>2 DEF SafeSet
    <3>3. CASE field[c] \notin T /\ c \notin T
      <4>1. mark[c] = "white" /\ mark[field[c]] = "white"
        <5>1. mark[c] # "black" /\ mark[field[c]] # "black"
          BY <2>1, <2>3, <3>1, <3>3 DEF Blackened, WithMark, SafeSet, Kept
        <5> QED
          BY <2>1, <2>3, <3>1, <5>1 DEF ListInv, TypeOK, Kept
      <4>2. c \in wrappers
        BY <2>1, <3>1 DEF KeptInv, IsWrapper
      <4>3. ZoneOf[c] \in Zone /\ zoneState[ZoneOf[c]] = "Mark"
        BY <2>1, GCAssumption DEF Marking, In, ZonesIn, GCAssumption
      <4>4. PICK i \in DOMAIN order : i # 1 /\ ZoneOf[c] \in order[i]
        BY <2>1, <4>3, GroupSequence DEF Sweepable
      <4>5. 1 \in DOMAIN order /\ Head(order) = order[1] /\ 1 < i
        BY <4>4, GroupSequence DEF Sweepable
      <4> QED
        BY <1>1, <2>3, <3>1, <4>1, <4>2, <4>4, <4>5 DEF Sweepable, NoWayBack
    <3> QED
      BY <2>1, <3>2, <3>3
  <2> QED
    BY <2>2, <2>3
<1>7. buffered' => grayRoots' \cap Marking' \subseteq grayBuffer' \cup T
  BY <1>1 DEF SafeSet, SweepStep
<1> QED
  BY <1>2, <1>3, <1>4, <1>5, <1>6, <1>7 DEF SafeSet

\* The gray cells of the group that lead on are on a list.
LEMMA SweepGray ==
  ASSUME TypeOK, Control, ListInv, KeptInv, GrayInv, NEW order, NEW state, Sweepable(order, state),
         SweepStep(order, state), NEW black \in SUBSET Cell, NEW gray \in SUBSET Cell,
         GroupSwept(order, state, black, gray),
         TypeOK', NEW T \in SUBSET Cell, SafeSet(T)
  PROVE  GrayInv'
<1>1. /\ \A c \in black : c \in used \cap Marking /\ mark[c] = "white"
      /\ \A c \in gray : /\ c \in used \cap Marking /\ mark[c] = "white"
                         /\ c \notin black /\ ZoneOf[c] \in Head(order)
      /\ \A c \in Cell : ZoneOf[c] \in Head(order) => c \in Marking
      /\ Marking' = {c \in Marking : ZoneOf[c] \notin Head(order)}
      /\ Swept' = Swept \cup In(Head(order))
      /\ Queued(order) = {c \in used \cap Marking : /\ ZoneOf[c] \in Head(order)
                                                    /\ mark[c] = "white"
                                                    /\ c \notin black \cup gray}
      /\ Dead' = Dead \cup Queued(order) /\ Kept' = Kept \ Queued(order)
      /\ Dead \cap Marking = {} /\ used \cap Marking \subseteq Kept
      /\ Swept \cap Marking = {}
      /\ stack = {} /\ delayed = {} /\ used' = used /\ field' = field
  BY SweepFacts
<1>2. /\ T \cap Marking' \subseteq Blackened'
  BY SweepIsSafe
<1>3. Blackened \subseteq T /\ UnderWay
  BY DEF SafeSet, UnderWay, SweepStep
<1> SUFFICES ASSUME NEW c \in Kept' \cap Swept', mark'[c] = "gray", field'[c] \in Marking'
             PROVE  c \in incoming' \/ field'[c] \in Blackened'
  BY DEF GrayInv
<1>4. c \in Kept /\ c \in Cell /\ c \in used /\ field'[c] = field[c] /\ field[c] \in Marking
      /\ ZoneOf[field[c]] \notin Head(order)
  BY <1>1 DEF Kept, TypeOK
<1>5. CASE ZoneOf[c] \in Head(order)
  <2>1. c \in Marking /\ c \in gray
    BY <1>1, <1>4, <1>5 DEF GroupSwept, ListInv
  <2>2. CASE mark'[field[c]] = "white"
    <3>1. c \in wrappers
      BY <1>4, <1>5, GCAssumption DEF KeptInv, IsWrapper, GCAssumption, Marking, In
    <3> QED
      BY <1>4, <2>1, <2>2, <3>1 DEF GroupSwept
  <2>3. CASE mark'[field[c]] # "white"
    <3>1. field[c] \in used
      BY <1>4, GCAssumption DEF KeptInv, Kept, GCAssumption, Marking, In
    <3>2. field[c] \notin gray
      BY <1>1, <1>4
    <3>3. mark'[field[c]] = "black"
      BY <1>1, <1>4, <2>3, <3>1, <3>2 DEF GroupSwept, ListInv, TypeOK
    <3> QED
      BY <1>1, <1>4, <3>1, <3>3 DEF Blackened, WithMark
  <2> QED
    BY <2>2, <2>3
<1>6. CASE ZoneOf[c] \notin Head(order)
  <2>1. c \in Swept /\ c \notin Marking
    BY <1>1, <1>4, <1>6 DEF In
  <2>2. mark[c] = "gray"
    BY <1>1, <1>4, <2>1 DEF GroupSwept
  <2>3. CASE c \in incoming
    BY <1>4, <2>3 DEF GroupSwept
  <2>4. CASE field[c] \in Blackened
    BY <1>2, <1>3, <1>4, <2>4
  <2> QED
    BY <1>3, <1>4, <2>1, <2>2, <2>3, <2>4 DEF GrayInv
<1> QED
  BY <1>5, <1>6

\* Nor does a white cell lead back among the groups that are left.
LEMMA SweepOrder ==
  ASSUME TypeOK, Control, ListInv, KeptInv, NEW order, NEW state, Sweepable(order, state),
         SweepStep(order, state), NEW black \in SUBSET Cell, NEW gray \in SUBSET Cell,
         GroupSwept(order, state, black, gray)
  PROVE  OrderInv'
<1>1. /\ \A c \in black : c \in used \cap Marking /\ mark[c] = "white"
      /\ \A c \in gray : /\ c \in used \cap Marking /\ mark[c] = "white"
                         /\ c \notin black /\ ZoneOf[c] \in Head(order)
      /\ \A c \in Cell : ZoneOf[c] \in Head(order) => c \in Marking
      /\ Marking' = {c \in Marking : ZoneOf[c] \notin Head(order)}
      /\ Swept' = Swept \cup In(Head(order))
      /\ Queued(order) = {c \in used \cap Marking : /\ ZoneOf[c] \in Head(order)
                                                    /\ mark[c] = "white"
                                                    /\ c \notin black \cup gray}
      /\ Dead' = Dead \cup Queued(order) /\ Kept' = Kept \ Queued(order)
      /\ Dead \cap Marking = {} /\ used \cap Marking \subseteq Kept
      /\ Swept \cap Marking = {}
      /\ stack = {} /\ delayed = {} /\ used' = used /\ field' = field
  BY SweepFacts
<1> SUFFICES ASSUME NEW i \in DOMAIN order, NEW j \in DOMAIN order, NEW w \in wrappers',
                    j < i, ZoneOf[w] \in order[i], ZoneOf[field'[w]] \in order[j],
                    field'[w] \in Marking', mark'[w] = "white", mark'[field'[w]] = "white"
             PROVE  FALSE
  BY DEF OrderInv, NoWayBack, GroupSwept
<1>2. w \in wrappers /\ w \in Cell /\ field'[w] = field[w] /\ field[w] \in Marking /\ field[w] \in Cell
  BY <1>1 DEF GroupSwept, TypeOK, Marking, In
<1>3. mark[w] = "white" /\ mark[field[w]] = "white"
  BY <1>2 DEF GroupSwept
<1> QED
  BY <1>1, <1>2, <1>3 DEF Sweepable, NoWayBack

\* Garbage of the group is queued.
LEMMA SweepGarbage ==
  ASSUME TypeOK, Control, ListInv, KeptInv, GarbageInv, NEW order, NEW state, Sweepable(order, state),
         SweepStep(order, state), NEW black \in SUBSET Cell, NEW gray \in SUBSET Cell,
         GroupSwept(order, state, black, gray)
  PROVE  GarbageInv'
<1>1. /\ \A c \in black : c \in used \cap Marking /\ mark[c] = "white"
      /\ \A c \in gray : /\ c \in used \cap Marking /\ mark[c] = "white"
                         /\ c \notin black /\ ZoneOf[c] \in Head(order)
      /\ \A c \in Cell : ZoneOf[c] \in Head(order) => c \in Marking
      /\ Marking' = {c \in Marking : ZoneOf[c] \notin Head(order)}
      /\ Swept' = Swept \cup In(Head(order))
      /\ Queued(order) = {c \in used \cap Marking : /\ ZoneOf[c] \in Head(order)
                                                    /\ mark[c] = "white"
                                                    /\ c \notin black \cup gray}
      /\ Dead' = Dead \cup Queued(order) /\ Kept' = Kept \ Queued(order)
      /\ Dead \cap Marking = {} /\ used \cap Marking \subseteq Kept
      /\ Swept \cap Marking = {}
      /\ stack = {} /\ delayed = {} /\ used' = used /\ field' = field
  BY SweepFacts
<1>2. /\ Least(black, field,
               {field[w] : w \in {w \in Exposed : ZoneOf[field[w]] \in Head(order)}}, ToMark)
      /\ Least(gray, field,
               {field[w] : w \in {w \in incoming : ZoneOf[field[w]] \in Head(order)
                                                      /\ mark[w] = "gray"}}
                  \cup (IF buffered THEN grayBuffer ELSE grayRoots),
               (ToMark \cap In(Head(order))) \ black)
  BY DEF GroupSwept
<1>3. phase # "none" /\ garbage' = garbage
  BY DEF SweepStep
<1>4. \A w \in incoming : w \in used \ garbage
  <2>1. \A w \in incoming : w \in Swept /\ w \notin Marking /\ w \in Kept
    BY <1>1 DEF ListInv, TypeOK, KeptInv
  <2> QED
    BY <1>3, <2>1 DEF GarbageInv, Kept, Dead
<1>5. \A w \in incoming : field[w] \notin garbage
  BY <1>4 DEF GarbageInv
<1>6. \A c \in ToMark \ garbage : field[c] \notin garbage
  BY DEF GarbageInv, ToMark, WithMark
<1> DEFINE S == ToMark \ garbage
<1>7. black \subseteq S
  <2>1. {field[w] : w \in {w \in Exposed : ZoneOf[field[w]] \in Head(order)}} \cap ToMark \subseteq S
    BY <1>5 DEF Exposed
  <2>2. \A c \in S \cap ToMark : field[c] \in ToMark => field[c] \in S
    BY <1>6
  <2> HIDE DEF S
  <2> QED
    BY <1>2, <2>1, <2>2 DEF Least
<1>8. gray \subseteq S
  <2> DEFINE within == (ToMark \cap In(Head(order))) \ black
  <2>1. ({field[w] : w \in {w \in incoming : ZoneOf[field[w]] \in Head(order)
                                                      /\ mark[w] = "gray"}}
                  \cup (IF buffered THEN grayBuffer ELSE grayRoots)) \cap within \subseteq S
    BY <1>5 DEF GarbageInv
  <2>2. \A c \in S \cap within : field[c] \in within => field[c] \in S
    BY <1>6
  <2>3. Least(gray, field, {field[w] : w \in {w \in incoming : ZoneOf[field[w]] \in Head(order)
                                                      /\ mark[w] = "gray"}}
                  \cup (IF buffered THEN grayBuffer ELSE grayRoots), within)
    BY <1>2
  <2> HIDE DEF S, within
  <2> QED
    BY <2>1, <2>2, <2>3 DEF Least
<1>9. \A c \in garbage : c \in Marking => /\ mark[c] = "white" /\ c \notin black \cup gray
                                           /\ c \in used /\ c \in Cell
  BY <1>7, <1>8 DEF GarbageInv, TypeOK
<1>10. garbage' \subseteq Marking' \cup toSweep'
  BY <1>1, <1>3, <1>9 DEF GarbageInv, GroupSwept
<1>11. \A c \in garbage' \cap Marking' : mark'[c] = "white"
  BY <1>1, <1>3, <1>9 DEF GroupSwept
<1> QED
  BY <1>1, <1>3, <1>10, <1>11 DEF GarbageInv, SweepStep

-----------------------------------------------------------------------------
(* Steps between which no zone changes its state.                          *)

\* A step that leaves the heap, the marks and the zones alone.
Still == UNCHANGED <<heapVars, markVars, zoneState, phase, grayVars, sweepVars, garbage>>

\* Such a step keeps the invariant if it keeps the rules of control.
LEMMA StillKeepsInvariant ==
  ASSUME IInv, Still, TypeOK', Control'
  PROVE  IInv'
<1> USE DEF IInv, Still, heapVars, markVars, grayVars, sweepVars
<1>1. /\ Marking' = Marking /\ Swept' = Swept /\ Kept' = Kept /\ UnderWay' = UnderWay
  BY DEF Marking, Swept, Kept, Dead, In, ZonesIn, UnderWay
<1>2. ToMark' = ToMark /\ DueStart' = DueStart
  BY <1>1 DEF ToMark, WithMark, DueStart, Exposed
<1>3. Due' = Follow(field', DueStart', ToMark') /\ Due = Follow(field, DueStart, ToMark)
  BY DEF Due, Spread, Follow, DueStart, ToMark
<1>4. Due' = Due
  BY <1>2, <1>3
<1>5. Blackened' = Blackened
  BY <1>1, <1>4 DEF Blackened, WithMark
<1>6. GroupInv'
  BY DEF GroupInv
<1>7. ListInv'
  BY <1>1 DEF ListInv, WithMark
<1>8. KeptInv'
  BY <1>1 DEF KeptInv, IsWrapper
<1>9. SafeInv'
  BY <1>1, <1>5 DEF SafeInv, SafeSet
<1>10. GrayInv'
  BY <1>1, <1>5 DEF GrayInv
<1>11. OrderInv'
  BY <1>1 DEF OrderInv, NoWayBack
<1>12. GarbageInv'
  BY <1>1 DEF GarbageInv
<1> QED
  BY <1>6, <1>7, <1>8, <1>9, <1>10, <1>11, <1>12

\* T, safe before a step, is safe after it with the cells of N and all that is
\* still to be marked.
SafelyExtends(T, N) ==
    /\ T \cup N \subseteq Kept' /\ roots' \subseteq T \cup N
    /\ \A c \in used' \cap Marking : mark'[c] = "black" => c \in T \cup N
    /\ \A c \in Kept' \ Marking : (c \in Swept => mark'[c] # "gray") => c \in T \cup N
    /\ \A c \in T \cup N : field'[c] \in T \cup N \cup Due' \cup {Null}
    /\ N \cap Marking \subseteq Blackened'
    /\ \A c \in used' \cap Marking : field'[c] \notin Marking => field'[c] \in T \cup N \cup {Null}
    /\ buffered => grayRoots' \cap Marking \subseteq grayBuffer \cup T \cup N

\* The gray cells that lead on after a step did so before it.
NoNewGray ==
    \A c \in Kept' \cap Swept : mark'[c] = "gray" /\ field'[c] \in Marking =>
        c \in Kept /\ mark[c] = "gray" /\ field'[c] = field[c] /\ (c \in incoming => c \in incoming')

\* So did the white wrappers, but for new ones.
NoNewWayBack ==
    \A w \in wrappers' :
        /\ w \in Marking /\ field'[w] \in Marking
        /\ mark'[w] = "white" /\ mark'[field'[w]] = "white" /\ w \notin delayed'
        => /\ w \in wrappers /\ w \notin delayed /\ field'[w] = field[w]
           /\ mark[w] = "white" /\ mark[field[w]] = "white"

\* A step that only marks onward keeps the invariant, if it keeps the simple parts
\* of it and each safe set can be extended to what the step makes reachable.
LEMMA OnwardKeepsInvariant ==
  ASSUME IInv, Onward, TypeOK', Control', ListInv', KeptInv', GarbageInv',
         UNCHANGED <<phase, abortSweep, groups, buffered, grayBuffer>>,
         NoNewGray, NoNewWayBack,
         UnderWay => \A T \in SUBSET Cell :
                        SafeSet(T) => \E N \in SUBSET Cell : SafelyExtends(T, N)
  PROVE  IInv'
<1> USE DEF IInv
<1>1. /\ Marking' = Marking /\ Swept' = Swept /\ UnderWay' = UnderWay
  BY DEF Marking, Swept, In, ZonesIn, UnderWay, Onward
<1>2. Blackened \subseteq Blackened'
  BY OnwardKeepsBlackened
<1>3. Least(Due', field', DueStart', ToMark')
  BY DueIsLeast
<1>4. ToMark' = {c \in used' \cap Marking : mark'[c] = "white"}
  BY <1>1 DEF ToMark, WithMark
<1>5. Blackened' = {c \in used' \cap Marking : mark'[c] = "black"} \cup Due'
  BY <1>1 DEF Blackened, WithMark
<1>6. ASSUME UnderWay
      PROVE  \E S \in SUBSET Cell : SafeSet(S)'
  <2>1. PICK T \in SUBSET Cell : SafeSet(T)
    BY <1>6 DEF SafeInv
  <2>2. PICK N \in SUBSET Cell : SafelyExtends(T, N)
    BY <1>6, <2>1
  <2>3. PICK S : S = T \cup N \cup Due'
    OBVIOUS
  <2>4. Due' \subseteq ToMark'
    BY <1>3 DEF Least
  <2>5. used' \cap Marking \subseteq Kept' /\ ToMark' \subseteq Kept' /\ ToMark' \subseteq Cell
    <3>1. phase # "none" /\ background' = {}
      BY <1>6 DEF UnderWay, Control
    <3>2. Dead' \cap Marking = {}
      BY <1>1, <3>1 DEF Dead, ListInv, Swept, Marking, In, ZonesIn
    <3> QED
      BY <1>4, <3>2 DEF Kept, TypeOK
  <2>6. S \subseteq Kept' /\ roots' \subseteq S /\ Blackened' \subseteq S
    BY <1>5, <2>2, <2>3, <2>4, <2>5 DEF SafelyExtends
  <2>7. \A c \in Kept' \ Marking' : (c \in Swept' => mark'[c] # "gray") => c \in S
    BY <1>1, <2>2, <2>3 DEF SafelyExtends
  <2>8. \A c \in used' \cap Marking' : field'[c] \notin Marking' => field'[c] \in S \cup {Null}
    BY <1>1, <2>2, <2>3 DEF SafelyExtends
  <2>9. ASSUME NEW c \in S
        PROVE  field'[c] \in S \cup {Null}
    <3>1. CASE c \in T \cup N
      BY <2>2, <2>3, <3>1 DEF SafelyExtends
    <3>2. CASE c \in Due'
      <4>1. c \in used' \cap Marking /\ c \in Kept'
        BY <1>4, <2>4, <2>5, <3>2
      <4>2. CASE field'[c] \notin Marking
        BY <1>1, <2>8, <4>1, <4>2
      <4>3. CASE field'[c] \in Marking
        <5>1. field'[c] \in used' /\ field'[c] \in Cell
          BY <4>1, <4>3, GCAssumption DEF KeptInv, Kept, GCAssumption, Marking, In
        <5>2. CASE mark'[field'[c]] = "white"
          BY <1>3, <1>4, <2>3, <3>2, <4>3, <5>1, <5>2 DEF Least
        <5>3. CASE mark'[field'[c]] # "white"
          BY <1>1, <1>5, <2>6, <4>3, <5>1, <5>3 DEF ListInv, TypeOK
        <5> QED
          BY <5>2, <5>3
      <4> QED
        BY <4>2, <4>3
    <3> QED
      BY <2>3, <2>9, <3>1, <3>2
  <2>10. S \cap Marking' \subseteq Blackened'
    BY <1>1, <1>2, <1>5, <2>1, <2>2, <2>3 DEF SafeSet, SafelyExtends
  <2>11. buffered' => grayRoots' \cap Marking' \subseteq grayBuffer' \cup S
    BY <1>1, <2>2, <2>3 DEF SafelyExtends
  <2>12. SafeSet(S)'
    BY <2>6, <2>7, <2>8, <2>9, <2>10, <2>11 DEF SafeSet
  <2>13. S \in SUBSET Cell
    BY <2>3, <2>4, <2>5
  <2> QED
    BY <2>12, <2>13
<1>7. SafeInv'
  BY <1>1, <1>6 DEF SafeInv
<1>8. GrayInv'
  BY <1>1, <1>2 DEF GrayInv, NoNewGray
<1>9. OrderInv'
  <2> SUFFICES ASSUME UnderWay, NEW i \in DOMAIN groups, NEW j \in DOMAIN groups, NEW w \in wrappers',
                      j < i, ZoneOf[w] \in groups[i], ZoneOf[field'[w]] \in groups[j],
                      field'[w] \in Marking', mark'[w] = "white", mark'[field'[w]] = "white",
                      w \notin delayed'
               PROVE  FALSE
    BY <1>1 DEF OrderInv, NoWayBack
  <2>1. w \in Marking
    <3>1. phase = "sweep" /\ groups \in Seq(SUBSET Zone) /\ groups # <<>>
      BY DEF Control, UnderWay, GroupInv, TypeOK
    <3>2. ZoneOf[w] \in UNION Range(Tail(groups))
      <4>1. i # 1
        BY <3>1, GroupSequence
      <4> QED
        BY <3>1, <4>1, GroupSequence
    <3>3. w \in Cell /\ ZoneOf[w] \in Zone
      BY GCAssumption DEF TypeOK, GCAssumption
    <3>4. zoneState[ZoneOf[w]] = "Mark"
      BY <3>1, <3>2, <3>3 DEF GroupInv
    <3> QED
      BY <3>3, <3>4 DEF Marking, In, ZonesIn
  <2>2. /\ w \in wrappers /\ w \notin delayed /\ field'[w] = field[w]
        /\ mark[w] = "white" /\ mark[field[w]] = "white"
    BY <1>1, <2>1 DEF NoNewWayBack
  <2> QED
    BY <1>1, <2>2 DEF OrderInv, NoWayBack
<1>10. GroupInv'
  BY DEF GroupInv, Onward
<1> QED
  BY <1>7, <1>8, <1>9, <1>10


-----------------------------------------------------------------------------
(* The program.                                                            *)

\* What holds in the steps of the program: no zone changes its state, and the
\* barriers work in the zones that are being marked.
LEMMA ProgramFacts ==
  ASSUME IInv, ProgramStep
  PROVE  /\ ZoneOf \in [Cell -> Zone] /\ Null \notin Cell
         /\ Marking' = Marking /\ Swept' = Swept /\ Dead' = Dead
         /\ \A c \in Cell : ZoneOf[c] \in needsBarrier <=> c \in Marking
         /\ Swept \cap Marking = {} /\ used \cap Marking \subseteq Kept
         /\ Kept \subseteq used /\ used \subseteq Cell /\ Kept' = used' \ Dead
         /\ Kept = used \ Dead
         /\ ListInv' /\ incoming' \subseteq incoming => Control'
<1>1. ZoneOf \in [Cell -> Zone] /\ Null \notin Cell
  BY GCAssumption DEF GCAssumption
<1>2. UNCHANGED <<zoneState, needsBarrier, phase, pc, limited, toSweep, background, groups, abortSweep>>
  BY DEF ProgramStep, sliceVars, sweepVars
<1>3. Marking' = Marking /\ Swept' = Swept /\ Dead' = Dead
  BY <1>2 DEF Marking, Swept, Dead, In, ZonesIn
<1>4. \A c \in Cell : ZoneOf[c] \in needsBarrier <=> c \in Marking
  BY <1>1 DEF ProgramStep, IInv, Control, Marking, In
<1>5. Swept \cap Marking = {}
  BY DEF Swept, Marking, In, ZonesIn
<1>6. used \cap Marking \subseteq Kept
  <2>1. CASE phase = "none"
    BY <1>1, <2>1 DEF IInv, Control, Marking, In, ZonesIn
  <2>2. CASE phase # "none"
    BY <1>5, <2>2 DEF IInv, Control, Kept, Dead, ListInv
  <2> QED
    BY <2>1, <2>2
<1>7. Kept \subseteq used /\ used \subseteq Cell /\ Kept' = used' \ Dead
      /\ Kept = used \ Dead
  BY <1>3 DEF Kept, IInv, TypeOK
<1>8. ASSUME ListInv', incoming' \subseteq incoming
      PROVE  Control'
  <2>1. ASSUME phase = "none" PROVE stack' = {} /\ delayed' = {} /\ incoming' = {}
    <3>1. Marking = {}
      BY <1>1, <2>1 DEF IInv, Control, Marking, In, ZonesIn
    <3> QED
      BY <1>3, <1>8, <2>1, <3>1 DEF ListInv, IInv, Control
  <2>2. pc = "program" /\ ~abortSweep
    BY DEF ProgramStep, IInv, Control
  <2>3. phase = "mark" => incoming' = {}
    BY <1>8 DEF IInv, Control
  <2> QED
    BY <1>2, <2>1, <2>2, <2>3 DEF IInv, Control, ZonesIn
<1> QED
  BY <1>1, <1>3, <1>4, <1>5, <1>6, <1>7, <1>8

\* A barrier turns at most its own cell black, and then onto the stack.
LEMMA BarrierFacts ==
  ASSUME IInv, ProgramStep, NEW x \in Cell \cup {Null}, Barrier(x)
  PROVE  /\ mark' \in [Cell -> {"white", "gray", "black"}]
         /\ \A y \in Cell : \/ mark'[y] = mark[y]
                            \/ /\ y = x /\ y \in Marking /\ y \in stack'
                               /\ mark[y] = "white" /\ mark'[y] = "black"
         /\ stack \subseteq stack'
         /\ \A y \in stack' : y \in stack \/ (y = x /\ y \in Marking /\ mark'[y] = "black")
         /\ x \in Marking => mark'[x] # "white"
<1>1. /\ \A y \in Cell : ZoneOf[y] \in needsBarrier <=> y \in Marking
      /\ Null \notin Cell
  BY ProgramFacts
<1>2. mark \in [Cell -> {"white", "gray", "black"}] /\ Marking \subseteq Cell
  BY DEF IInv, TypeOK, Marking, In
<1>3. CASE x # Null /\ ZoneOf[x] \in needsBarrier /\ mark[x] = "white"
  <2>1. mark' = [mark EXCEPT ![x] = "black"] /\ stack' = stack \cup {x} /\ x \in Marking
    BY <1>1, <1>3 DEF Barrier
  <2> QED
    BY <1>1, <1>2, <1>3, <2>1
<1>4. CASE ~(x # Null /\ ZoneOf[x] \in needsBarrier /\ mark[x] = "white")
  <2>1. mark' = mark /\ stack' = stack
    BY <1>4 DEF Barrier
  <2> QED
    BY <1>1, <1>2, <1>4, <2>1
<1> QED
  BY <1>3, <1>4

\* What is black, or new in an arena to be marked, counts as blackened.
LEMMA BlackenedCells ==
  ASSUME TypeOK'
  PROVE  /\ \A T : SafeSet(T) => \A c \in used \cap Marking : mark[c] = "black" => c \in T
         /\ \A c \in used' \cap Marking' : mark'[c] = "black" => c \in Blackened'
         /\ \A c \in delayed' \cap used' \cap Marking' : mark'[c] = "white" => c \in Due'
         /\ Due' \subseteq Blackened'
<1>1. /\ \A T : SafeSet(T) => \A c \in used \cap Marking : mark[c] = "black" => c \in T
      /\ \A c \in used' \cap Marking' : mark'[c] = "black" => c \in Blackened'
      /\ Due' \subseteq Blackened'
  BY DEF SafeSet, Blackened, WithMark
<1>2. Least(Due', field', DueStart', ToMark')
  BY DueIsLeast
<1>3. ASSUME NEW c \in delayed' \cap used' \cap Marking', mark'[c] = "white"
      PROVE  c \in Due'
  <2>1. c \in DueStart' /\ c \in ToMark'
    BY <1>3 DEF DueStart, ToMark, WithMark
  <2> QED
    BY <1>2, <2>1 DEF Least
<1> QED
  BY <1>1, <1>3

\* Reading a field.
LEMMA ReadKeepsInvariant ==
  ASSUME IInv, NEW c \in Cell, Read(c)
  PROVE  IInv'
<1> USE DEF IInv
<1>1. /\ ZoneOf \in [Cell -> Zone] /\ Null \notin Cell
      /\ Marking' = Marking /\ Swept' = Swept /\ Dead' = Dead
      /\ \A x \in Cell : ZoneOf[x] \in needsBarrier <=> x \in Marking
      /\ Swept \cap Marking = {} /\ used \cap Marking \subseteq Kept
      /\ Kept \subseteq used /\ used \subseteq Cell /\ Kept' = used' \ Dead
      /\ Kept = used \ Dead
      /\ ListInv' /\ incoming' \subseteq incoming => Control'
  BY ProgramFacts DEF Read
<1>2. UNCHANGED <<zoneState, needsBarrier, scheduled, phase, pc, limited, firstSlice, lastMark,
                 repeat, grayBuffer, buffered, groups, abortSweep, toSweep, background>>
  BY DEF Read, ProgramStep, sliceVars, sweepVars
<1>3. TypeOK'
  BY <1>1, <1>2 DEF Read, markVars, TypeOK
<1>4. ListInv'
  BY <1>1, <1>2 DEF Read, markVars, ListInv, WithMark, TypeOK
<1>5. KeptInv'
  BY <1>1, <1>2 DEF Read, markVars, KeptInv, IsWrapper, TypeOK
<1>6. GarbageInv'
  <2>1. c \in Kept /\ c \notin garbage
    BY DEF Read, KeptInv, GarbageInv
  <2>2. field[c] \notin garbage
    BY <1>1, <2>1 DEF GarbageInv
  <2> QED
    BY <1>1, <1>2, <2>2 DEF Read, markVars, GarbageInv
<1>7. Onward
  BY <1>1, <1>2 DEF Read, markVars, Onward, ToMark, WithMark, Exposed, ListInv, TypeOK
<1>8. NoNewGray
  BY <1>1, <1>2 DEF Read, markVars, NoNewGray, ListInv, TypeOK
<1>9. NoNewWayBack
  BY <1>1, <1>2 DEF Read, markVars, NoNewWayBack, TypeOK
<1>10. Control'
  BY <1>1, <1>4 DEF Read, ListInv, TypeOK
<1>11. ASSUME UnderWay, NEW T \in SUBSET Cell, SafeSet(T)
       PROVE  \E N \in SUBSET Cell : SafelyExtends(T, N)
  <2> DEFINE N == {}
  <2>1. /\ \A x \in used \cap Marking : mark[x] = "black" => x \in T
        /\ \A x \in used' \cap Marking' : mark'[x] = "black" => x \in Blackened'
        /\ \A x \in delayed' \cap used' \cap Marking' : mark'[x] = "white" => x \in Due'
        /\ Due' \subseteq Blackened'
    BY <1>3, <1>11, BlackenedCells
  <2>2. SafelyExtends(T, N)
    BY <1>1, <1>2, <1>4, <1>5, <1>11, <2>1 DEF Read, markVars, SafelyExtends, SafeSet, TypeOK, KeptInv
  <2>3. N \in SUBSET Cell
    BY <1>1 DEF TypeOK
  <2> QED
    BY <2>2, <2>3
<1> QED
  BY <1>2, <1>3, <1>4, <1>5, <1>6, <1>7, <1>8, <1>9, <1>10, <1>11, OnwardKeepsInvariant

\* Letting go of a cell.
LEMMA DropKeepsInvariant ==
  ASSUME IInv, NEW c \in Cell, Drop(c)
  PROVE  IInv'
<1> USE DEF IInv
<1>1. /\ ZoneOf \in [Cell -> Zone] /\ Null \notin Cell
      /\ Marking' = Marking /\ Swept' = Swept /\ Dead' = Dead
      /\ \A x \in Cell : ZoneOf[x] \in needsBarrier <=> x \in Marking
      /\ Swept \cap Marking = {} /\ used \cap Marking \subseteq Kept
      /\ Kept \subseteq used /\ used \subseteq Cell /\ Kept' = used' \ Dead
      /\ Kept = used \ Dead
      /\ ListInv' /\ incoming' \subseteq incoming => Control'
  BY ProgramFacts DEF Drop
<1>2. UNCHANGED <<zoneState, needsBarrier, scheduled, phase, pc, limited, firstSlice, lastMark,
                 repeat, grayBuffer, buffered, groups, abortSweep, toSweep, background>>
  BY DEF Drop, ProgramStep, sliceVars, sweepVars
<1>3. TypeOK'
  BY <1>1, <1>2 DEF Drop, markVars, TypeOK
<1>4. ListInv'
  BY <1>1, <1>2 DEF Drop, markVars, ListInv, WithMark, TypeOK
<1>5. KeptInv'
  BY <1>1, <1>2 DEF Drop, markVars, KeptInv, IsWrapper, TypeOK
<1>6. GarbageInv'
  BY <1>1, <1>2 DEF Drop, markVars, GarbageInv, TypeOK
<1>7. Onward
  BY <1>1, <1>2 DEF Drop, markVars, Onward, ToMark, WithMark, Exposed, ListInv, TypeOK
<1>8. NoNewGray
  BY <1>1, <1>2 DEF Drop, markVars, NoNewGray, ListInv, TypeOK
<1>9. NoNewWayBack
  BY <1>1, <1>2 DEF Drop, markVars, NoNewWayBack, TypeOK
<1>10. Control'
  BY <1>1, <1>4 DEF Drop, ListInv, TypeOK
<1>11. ASSUME UnderWay, NEW T \in SUBSET Cell, SafeSet(T)
       PROVE  \E N \in SUBSET Cell : SafelyExtends(T, N)
  <2> DEFINE N == {}
  <2>1. /\ \A x \in used \cap Marking : mark[x] = "black" => x \in T
        /\ \A x \in used' \cap Marking' : mark'[x] = "black" => x \in Blackened'
        /\ \A x \in delayed' \cap used' \cap Marking' : mark'[x] = "white" => x \in Due'
        /\ Due' \subseteq Blackened'
    BY <1>3, <1>11, BlackenedCells
  <2>2. SafelyExtends(T, N)
    BY <1>1, <1>2, <1>4, <1>5, <1>11, <2>1 DEF Drop, markVars, SafelyExtends, SafeSet, TypeOK, KeptInv
  <2>3. N \in SUBSET Cell
    BY <1>1 DEF TypeOK
  <2> QED
    BY <2>2, <2>3
<1> QED
  BY <1>2, <1>3, <1>4, <1>5, <1>6, <1>7, <1>8, <1>9, <1>10, <1>11, OnwardKeepsInvariant

\* The embedder takes hold of a cell.
LEMMA HoldKeepsInvariant ==
  ASSUME IInv, NEW c \in Cell, Hold(c)
  PROVE  IInv'
<1> USE DEF IInv
<1>1. /\ ZoneOf \in [Cell -> Zone] /\ Null \notin Cell
      /\ Marking' = Marking /\ Swept' = Swept /\ Dead' = Dead
      /\ \A x \in Cell : ZoneOf[x] \in needsBarrier <=> x \in Marking
      /\ Swept \cap Marking = {} /\ used \cap Marking \subseteq Kept
      /\ Kept \subseteq used /\ used \subseteq Cell /\ Kept' = used' \ Dead
      /\ Kept = used \ Dead
      /\ ListInv' /\ incoming' \subseteq incoming => Control'
  BY ProgramFacts DEF Hold
<1>2. UNCHANGED <<zoneState, needsBarrier, scheduled, phase, pc, limited, firstSlice, lastMark,
                 repeat, grayBuffer, buffered, groups, abortSweep, toSweep, background>>
  BY DEF Hold, ProgramStep, sliceVars, sweepVars
<1>3. TypeOK'
  BY <1>1, <1>2 DEF Hold, markVars, TypeOK
<1>4. ListInv'
  BY <1>1, <1>2 DEF Hold, markVars, ListInv, WithMark, TypeOK
<1>5. KeptInv'
  BY <1>1, <1>2 DEF Hold, markVars, KeptInv, IsWrapper, TypeOK
<1>6. GarbageInv'
  BY <1>1, <1>2 DEF Hold, markVars, GarbageInv, TypeOK
<1>7. Onward
  BY <1>1, <1>2 DEF Hold, markVars, Onward, ToMark, WithMark, Exposed, ListInv, TypeOK
<1>8. NoNewGray
  BY <1>1, <1>2 DEF Hold, markVars, NoNewGray, ListInv, TypeOK
<1>9. NoNewWayBack
  BY <1>1, <1>2 DEF Hold, markVars, NoNewWayBack, TypeOK
<1>10. Control'
  BY <1>1, <1>4 DEF Hold, ListInv, TypeOK
<1>11. ASSUME UnderWay, NEW T \in SUBSET Cell, SafeSet(T)
       PROVE  \E N \in SUBSET Cell : SafelyExtends(T, N)
  <2> DEFINE N == {}
  <2>1. /\ \A x \in used \cap Marking : mark[x] = "black" => x \in T
        /\ \A x \in used' \cap Marking' : mark'[x] = "black" => x \in Blackened'
        /\ \A x \in delayed' \cap used' \cap Marking' : mark'[x] = "white" => x \in Due'
        /\ Due' \subseteq Blackened'
    BY <1>3, <1>11, BlackenedCells
  <2>2. SafelyExtends(T, N)
    BY <1>1, <1>2, <1>4, <1>5, <1>11, <2>1 DEF Hold, markVars, SafelyExtends, SafeSet, TypeOK, KeptInv
  <2>3. N \in SUBSET Cell
    BY <1>1 DEF TypeOK
  <2> QED
    BY <2>2, <2>3
<1> QED
  BY <1>2, <1>3, <1>4, <1>5, <1>6, <1>7, <1>8, <1>9, <1>10, <1>11, OnwardKeepsInvariant

\* The embedder lets go of a cell.
LEMMA LetGoKeepsInvariant ==
  ASSUME IInv, NEW c \in Cell, LetGo(c)
  PROVE  IInv'
<1> USE DEF IInv
<1>1. /\ ZoneOf \in [Cell -> Zone] /\ Null \notin Cell
      /\ Marking' = Marking /\ Swept' = Swept /\ Dead' = Dead
      /\ \A x \in Cell : ZoneOf[x] \in needsBarrier <=> x \in Marking
      /\ Swept \cap Marking = {} /\ used \cap Marking \subseteq Kept
      /\ Kept \subseteq used /\ used \subseteq Cell /\ Kept' = used' \ Dead
      /\ Kept = used \ Dead
      /\ ListInv' /\ incoming' \subseteq incoming => Control'
  BY ProgramFacts DEF LetGo
<1>2. UNCHANGED <<zoneState, needsBarrier, scheduled, phase, pc, limited, firstSlice, lastMark,
                 repeat, grayBuffer, buffered, groups, abortSweep, toSweep, background>>
  BY DEF LetGo, ProgramStep, sliceVars, sweepVars
<1>3. TypeOK'
  BY <1>1, <1>2 DEF LetGo, markVars, TypeOK
<1>4. ListInv'
  BY <1>1, <1>2 DEF LetGo, markVars, ListInv, WithMark, TypeOK
<1>5. KeptInv'
  BY <1>1, <1>2 DEF LetGo, markVars, KeptInv, IsWrapper, TypeOK
<1>6. GarbageInv'
  BY <1>1, <1>2 DEF LetGo, markVars, GarbageInv, TypeOK
<1>7. Onward
  BY <1>1, <1>2 DEF LetGo, markVars, Onward, ToMark, WithMark, Exposed, ListInv, TypeOK
<1>8. NoNewGray
  BY <1>1, <1>2 DEF LetGo, markVars, NoNewGray, ListInv, TypeOK
<1>9. NoNewWayBack
  BY <1>1, <1>2 DEF LetGo, markVars, NoNewWayBack, TypeOK
<1>10. Control'
  BY <1>1, <1>4 DEF LetGo, ListInv, TypeOK
<1>11. ASSUME UnderWay, NEW T \in SUBSET Cell, SafeSet(T)
       PROVE  \E N \in SUBSET Cell : SafelyExtends(T, N)
  <2> DEFINE N == {}
  <2>1. /\ \A x \in used \cap Marking : mark[x] = "black" => x \in T
        /\ \A x \in used' \cap Marking' : mark'[x] = "black" => x \in Blackened'
        /\ \A x \in delayed' \cap used' \cap Marking' : mark'[x] = "white" => x \in Due'
        /\ Due' \subseteq Blackened'
    BY <1>3, <1>11, BlackenedCells
  <2>2. SafelyExtends(T, N)
    BY <1>1, <1>2, <1>4, <1>5, <1>11, <2>1 DEF LetGo, markVars, SafelyExtends, SafeSet, TypeOK, KeptInv
  <2>3. N \in SUBSET Cell
    BY <1>1 DEF TypeOK
  <2> QED
    BY <2>2, <2>3
<1> QED
  BY <1>2, <1>3, <1>4, <1>5, <1>6, <1>7, <1>8, <1>9, <1>10, <1>11, OnwardKeepsInvariant

\* A new cell.
LEMMA NewKeepsInvariant ==
  ASSUME IInv, NEW c \in Cell, New(c)
  PROVE  IInv'
<1> USE DEF IInv
<1>1. /\ ZoneOf \in [Cell -> Zone] /\ Null \notin Cell
      /\ Marking' = Marking /\ Swept' = Swept /\ Dead' = Dead
      /\ \A x \in Cell : ZoneOf[x] \in needsBarrier <=> x \in Marking
      /\ Swept \cap Marking = {} /\ used \cap Marking \subseteq Kept
      /\ Kept \subseteq used /\ used \subseteq Cell /\ Kept' = used' \ Dead
      /\ Kept = used \ Dead
      /\ ListInv' /\ incoming' \subseteq incoming => Control'
  BY ProgramFacts DEF New
<1>2. UNCHANGED <<zoneState, needsBarrier, scheduled, phase, pc, limited, firstSlice, lastMark,
                 repeat, grayBuffer, buffered, groups, abortSweep, toSweep, background>>
  BY DEF New, ProgramStep, sliceVars, sweepVars
<1>2a. /\ c \notin used /\ used' = used \cup {c} /\ roots' = roots \cup {c}
       /\ mark' = [mark EXCEPT ![c] = "white"] /\ stack' = stack /\ incoming' = incoming
       /\ field[c] = Null /\ c \notin Kept
       /\ UNCHANGED <<field, wrappers, grayRoots, garbage>>
       /\ IF c \in Marking THEN delayed' = delayed \cup {c} ELSE delayed' = delayed
  BY <1>1 DEF New, Allocate, ListInv
<1>2b. /\ mark \in [Cell -> {"white", "gray", "black"}] /\ mark'[c] = "white"
       /\ \A x \in Cell : x # c => mark'[x] = mark[x]
       /\ \A x \in used : x # c /\ mark'[x] = mark[x]
       /\ \A x \in Kept : field[x] # c
       /\ \A x \in Marking \cap used : field[x] # c
       /\ Kept' = Kept \cup {c}
       /\ \A w \in wrappers : w \in Kept /\ w # c /\ field[w] # c
  <2>1. \A x \in Kept : field[x] # c
    BY <1>1, <1>2a DEF KeptInv
  <2> QED
    BY <1>1, <1>2a, <2>1 DEF TypeOK, Dead, KeptInv
<1>3. TypeOK'
  BY <1>1, <1>2, <1>2a, <1>2b DEF TypeOK
<1>4. ListInv'
  <2>1. stack' \subseteq Marking' \cap WithMark(mark, "black")'
    BY <1>1, <1>2a, <1>2b DEF ListInv, WithMark
  <2>2. delayed' \subseteq Marking'
    BY <1>1, <1>2a DEF ListInv
  <2>3. \A x \in used' \cap Marking' : mark'[x] # "gray"
    BY <1>1, <1>2a, <1>2b DEF ListInv
  <2>4. \A x \in Cell \ used' : field'[x] = Null
    BY <1>1, <1>2a DEF ListInv
  <2>5. toSweep' \subseteq Swept'
    BY <1>1, <1>2 DEF ListInv
  <2>6. \A w \in incoming' : w \in Swept' /\ field'[w] \in Marking' /\ mark'[w] # "white"
    BY <1>1, <1>2a, <1>2b DEF ListInv, TypeOK
  <2> QED
    BY <2>1, <2>2, <2>3, <2>4, <2>5, <2>6 DEF ListInv
<1>5. KeptInv'
  <2>1. \A x \in Kept' : field'[x] \in Kept' \cup {Null}
    BY <1>1, <1>2a, <1>2b DEF KeptInv
  <2>2. roots' \cup grayRoots' \subseteq Kept'
    BY <1>1, <1>2a, <1>2b DEF KeptInv
  <2>3. wrappers' = {x \in Kept' : IsWrapper(x)'}
    BY <1>1, <1>2a, <1>2b DEF KeptInv, IsWrapper
  <2> QED
    BY <2>1, <2>2, <2>3 DEF KeptInv
<1>6. GarbageInv'
  BY <1>1, <1>2, <1>2a, <1>2b DEF GarbageInv, TypeOK
<1>7. Onward
  BY <1>1, <1>2, <1>2a, <1>2b DEF Onward, ToMark, WithMark, Exposed, ListInv, TypeOK
<1>8. NoNewGray
  BY <1>1, <1>2, <1>2a, <1>2b DEF NoNewGray, ListInv, TypeOK
<1>9. NoNewWayBack
  BY <1>1, <1>2a, <1>2b DEF NoNewWayBack, Marking, In
<1>10. Control'
  BY <1>1, <1>4 DEF New, ListInv, TypeOK
<1>11. ASSUME UnderWay, NEW T \in SUBSET Cell, SafeSet(T)
       PROVE  \E N \in SUBSET Cell : SafelyExtends(T, N)
  <2> DEFINE N == {c}
  <2>1. /\ \A x \in used \cap Marking : mark[x] = "black" => x \in T
        /\ \A x \in used' \cap Marking' : mark'[x] = "black" => x \in Blackened'
        /\ \A x \in delayed' \cap used' \cap Marking' : mark'[x] = "white" => x \in Due'
        /\ Due' \subseteq Blackened'
    BY <1>3, <1>11, BlackenedCells
  <2>2. SafelyExtends(T, N)
    BY <1>1, <1>2, <1>4, <1>5, <1>2a, <1>2b, <1>11, <2>1
       DEF SafelyExtends, SafeSet, TypeOK, KeptInv
  <2>3. N \in SUBSET Cell
    BY <1>1 DEF TypeOK
  <2> QED
    BY <2>2, <2>3
<1> QED
  BY <1>2, <1>3, <1>4, <1>5, <1>6, <1>7, <1>8, <1>9, <1>10, <1>11, OnwardKeepsInvariant

\* Writing a field.
LEMMA WriteKeepsInvariant ==
  ASSUME IInv, NEW c \in Cell, NEW value \in Cell \cup {Null}, Write(c, value)
  PROVE  IInv'
<1> USE DEF IInv
<1>1. /\ ZoneOf \in [Cell -> Zone] /\ Null \notin Cell
      /\ Marking' = Marking /\ Swept' = Swept /\ Dead' = Dead
      /\ \A x \in Cell : ZoneOf[x] \in needsBarrier <=> x \in Marking
      /\ Swept \cap Marking = {} /\ used \cap Marking \subseteq Kept
      /\ Kept \subseteq used /\ used \subseteq Cell /\ Kept' = used' \ Dead
      /\ Kept = used \ Dead
      /\ ListInv' /\ incoming' \subseteq incoming => Control'
  BY ProgramFacts DEF Write
<1>2. UNCHANGED <<zoneState, needsBarrier, scheduled, phase, pc, limited, firstSlice, lastMark,
                 repeat, grayBuffer, buffered, groups, abortSweep, toSweep, background>>
  BY DEF Write, ProgramStep, sliceVars, sweepVars
<1>2a. /\ c \in roots /\ c \in Kept /\ ~IsWrapper(c) /\ c \notin wrappers /\ c \notin garbage
       /\ field[c] \in Kept \cup {Null} /\ field[c] \notin garbage
       /\ value = Null \/ (value \in roots /\ ZoneOf[value] = ZoneOf[c] /\ value \in Kept
                              /\ value \notin garbage)
       /\ Barrier(field[c])
       /\ UNCHANGED <<used, wrappers, roots, grayRoots, delayed, incoming, garbage>>
  <2>1. c \in roots /\ ~IsWrapper(c) /\ c \in Kept /\ c \notin garbage /\ c \notin wrappers
    BY DEF Write, KeptInv, GarbageInv
  <2>2. field[c] \notin garbage
    BY <1>1, <2>1 DEF GarbageInv
  <2> QED
    BY <2>1, <2>2 DEF Write, KeptInv, GarbageInv
<1>2b. /\ field'[c] = value /\ \A x \in Cell : x # c => field'[x] = field[x]
       /\ field' \in [Cell -> Cell \cup {Null}]
       /\ value = Null \/ (value \in Marking <=> c \in Marking)
       /\ \A x \in Cell : ~(IsWrapper(x)') \/ x # c
       /\ \A x \in Cell : x # c => (IsWrapper(x)' <=> IsWrapper(x))
       /\ field[c] \in Marking /\ field[c] # Null => c \in Marking
  <2>1. /\ field'[c] = value /\ \A x \in Cell : x # c => field'[x] = field[x]
        /\ field' \in [Cell -> Cell \cup {Null}]
    BY DEF Write, TypeOK
  <2>2. value = Null \/ (value \in Marking <=> c \in Marking)
    BY <1>1, <1>2a DEF Marking, In
  <2>3. field[c] \in Marking /\ field[c] # Null => c \in Marking
    BY <1>1, <1>2a DEF Marking, In, IsWrapper
  <2> QED
    BY <1>1, <1>2a, <2>1, <2>2, <2>3 DEF IsWrapper
<1>2c. /\ Marking \subseteq Cell /\ mark \in [Cell -> {"white", "gray", "black"}]
       /\ mark' \in [Cell -> {"white", "gray", "black"}]
       /\ \A y \in Cell : \/ mark'[y] = mark[y]
                          \/ /\ y = field[c] /\ y \in Marking /\ y \in stack'
                             /\ mark[y] = "white" /\ mark'[y] = "black"
       /\ stack \subseteq stack'
       /\ \A y \in stack' : y \in stack \/ (y = field[c] /\ y \in Marking /\ mark'[y] = "black")
       /\ field[c] \in Marking => mark'[field[c]] # "white"
  BY <1>1, <1>2a, BarrierFacts DEF Write, TypeOK, KeptInv, Kept, Marking, In
<1>3. TypeOK'
  <2>1. stack' \subseteq used' /\ delayed' \subseteq used'
    <3>1. stack \subseteq used /\ delayed \subseteq used
      BY DEF TypeOK
    <3> QED
      BY <1>1, <1>2a, <1>2c, <3>1
  <2> QED
    BY <1>1, <1>2, <1>2a, <1>2b, <1>2c, <2>1 DEF TypeOK
<1>4. ListInv'
  <2>1. stack' \subseteq Marking' \cap WithMark(mark, "black")'
    <3>1. \A y \in stack : y \in Marking /\ y \in used /\ y \in Cell /\ mark[y] = "black"
      BY <1>1 DEF ListInv, WithMark
    <3>2. \A y \in stack' : y \in Marking /\ y \in used' /\ mark'[y] = "black"
      BY <1>1, <3>1, <1>2a, <1>2b, <1>2c
    <3> QED
      BY <1>1, <3>2 DEF WithMark
  <2>2. delayed' \subseteq Marking'
    BY <1>1, <1>2, <1>2a, <1>2b, <1>2c DEF ListInv
  <2>3. \A x \in used' \cap Marking' : mark'[x] # "gray"
    BY <1>1, <1>2, <1>2a, <1>2b, <1>2c DEF ListInv, TypeOK
  <2>4. \A x \in Cell \ used' : field'[x] = Null
    BY <1>1, <1>2, <1>2a, <1>2b, <1>2c DEF ListInv
  <2>5. toSweep' \subseteq Swept'
    BY <1>1, <1>2 DEF ListInv
  <2>6. \A v \in incoming' : v \in Swept' /\ field'[v] \in Marking' /\ mark'[v] # "white"
    BY <1>1, <1>2, <1>2a, <1>2b, <1>2c DEF ListInv, TypeOK
  <2> QED
    BY <2>1, <2>2, <2>3, <2>4, <2>5, <2>6 DEF ListInv
<1>5. KeptInv'
  <2>1. \A x \in Kept' : field'[x] \in Kept' \cup {Null}
    BY <1>1, <1>2, <1>2a, <1>2b, <1>2c DEF KeptInv
  <2>2. roots' \cup grayRoots' \subseteq Kept'
    BY <1>1, <1>2, <1>2a, <1>2b, <1>2c DEF KeptInv
  <2>3. wrappers' = {x \in Kept' : IsWrapper(x)'}
    BY <1>1, <1>2, <1>2a, <1>2b, <1>2c DEF KeptInv, IsWrapper
  <2> QED
    BY <2>1, <2>2, <2>3 DEF KeptInv
<1>6. GarbageInv'
  <2>1. /\ phase' = "none" => garbage' \subseteq background'
        /\ phase' # "none" => garbage' \subseteq Marking' \cup toSweep'
    BY <1>1, <1>2, <1>2a, <1>2b, <1>2c DEF GarbageInv
  <2>2. garbage' \cap (roots' \cup grayRoots' \cup grayBuffer' \cup delayed') = {}
    BY <1>1, <1>2, <1>2a, <1>2b, <1>2c DEF GarbageInv
  <2>3. \A x \in used' \ garbage' : field'[x] \notin garbage'
    BY <1>1, <1>2, <1>2a, <1>2b, <1>2c DEF GarbageInv, TypeOK
  <2>4. \A x \in garbage' \cap Marking' : mark'[x] = "white"
    BY <1>1, <1>2, <1>2a, <1>2b, <1>2c DEF GarbageInv, TypeOK
  <2> QED
    BY <2>1, <2>2, <2>3, <2>4 DEF GarbageInv
<1>7. Onward
  <2>1. \A x \in used \cap Marking :
          /\ x \in used'
          /\ mark'[x] = mark[x] \/ (mark[x] = "white" /\ mark'[x] = "black" /\ x \in stack')
    BY <1>1, <1>2, <1>2a, <1>2b, <1>2c DEF TypeOK
  <2>2. \A x \in Cell : field[x] \in ToMark => field'[x] = field[x] \/ mark'[field[x]] = "black"
    BY <1>1, <1>2, <1>2a, <1>2b, <1>2c DEF ToMark, WithMark, TypeOK
  <2>3. \A x \in stack : x \in stack' /\ x \in Cell
    BY <1>1, <1>2, <1>2a, <1>2b, <1>2c DEF TypeOK
  <2>4. \A x \in delayed : x \in delayed'
    BY <1>1, <1>2, <1>2a, <1>2b, <1>2c
  <2>5. \A v \in Exposed :
           v \in Cell /\ (v \in Exposed' \/ (field[v] \in ToMark => mark'[field[v]] = "black"))
    <3>1. \A v \in incoming : v \in Cell /\ v \in wrappers /\ v \notin Marking
      BY <1>1 DEF TypeOK, ListInv
    <3> QED
      BY <1>1, <3>1, <1>2a, <1>2b, <1>2c DEF Exposed, ToMark, WithMark, TypeOK
  <2> QED
    BY <1>1, <1>2, <2>1, <2>2, <2>3, <2>4, <2>5 DEF Onward, TypeOK
<1>8. NoNewGray
  <2> SUFFICES ASSUME NEW x \in Kept', x \in Swept, mark'[x] = "gray", field'[x] \in Marking
               PROVE  /\ x \in Kept /\ mark[x] = "gray" /\ field'[x] = field[x]
                      /\ x \in incoming => x \in incoming'
    BY DEF NoNewGray
  <2>1. x \in Cell /\ x \notin Marking /\ field'[x] \in Cell
    BY <1>1, <1>3 DEF TypeOK, Marking, In
  <2> QED
    BY <1>1, <1>2, <2>1, <1>2a, <1>2b, <1>2c
<1>9. NoNewWayBack
  <2> SUFFICES ASSUME NEW v \in wrappers', v \in Marking, field'[v] \in Marking,
                      mark'[v] = "white", mark'[field'[v]] = "white", v \notin delayed'
               PROVE  /\ v \in wrappers /\ v \notin delayed /\ field'[v] = field[v]
                      /\ mark[v] = "white" /\ mark[field[v]] = "white"
    BY DEF NoNewWayBack
  <2>1. v \in Cell /\ field'[v] \in Cell
    BY <1>1, <1>3 DEF TypeOK, Marking, In
  <2> QED
    BY <1>1, <1>2, <2>1, <1>2a, <1>2b, <1>2c DEF TypeOK
<1>10. Control'
  BY <1>1, <1>4 DEF Write, ListInv, TypeOK
<1>11. ASSUME UnderWay, NEW T \in SUBSET Cell, SafeSet(T)
       PROVE  \E N \in SUBSET Cell : SafelyExtends(T, N)
  <2> DEFINE N == {}
  <2>1. /\ \A x \in used \cap Marking : mark[x] = "black" => x \in T
        /\ \A x \in used' \cap Marking' : mark'[x] = "black" => x \in Blackened'
        /\ \A x \in delayed' \cap used' \cap Marking' : mark'[x] = "white" => x \in Due'
        /\ Due' \subseteq Blackened'
    BY <1>3, <1>11, BlackenedCells
  <2>2. SafelyExtends(T, N)
    BY <1>1, <1>2, <1>4, <1>5, <1>2a, <1>2b, <1>2c, <1>11, <2>1
       DEF SafelyExtends, SafeSet, TypeOK, KeptInv
  <2>3. N \in SUBSET Cell
    BY <1>1 DEF TypeOK
  <2> QED
    BY <2>2, <2>3
<1> QED
  BY <1>2, <1>3, <1>4, <1>5, <1>6, <1>7, <1>8, <1>9, <1>10, <1>11, OnwardKeepsInvariant

\* What can be reached from a cell.
LEMMA ReachFacts ==
  ASSUME NEW c \in Cell
  PROVE  /\ Reach({c}) \subseteq Cell /\ c \in Reach({c})
         /\ \A x \in Reach({c}) : field[x] \in Cell => field[x] \in Reach({c})
<1>1. Reach({c}) = Follow(field, {c}, Cell)
  BY SpreadIsFollow DEF Reach
<1>2. /\ Follow(field, {c}, Cell) \subseteq Cell
      /\ {c} \cap Cell \subseteq Follow(field, {c}, Cell)
      /\ \A x \in Follow(field, {c}, Cell) : field[x] \in Cell => field[x] \in Follow(field, {c}, Cell)
  BY FollowIsLeastClosed, GCAssumption
<1> QED
  BY <1>1, <1>2

\* The wrapper that the map holds.
LEMMA WrapFoundKeepsInvariant ==
  ASSUME IInv, NEW w \in Cell, NEW target \in Cell, Wrap(target, w),
         {v \in wrappers : field[v] = target /\ ZoneOf[v] = ZoneOf[w]} # {}
  PROVE  IInv'
<1> USE DEF IInv
<1>1. /\ ZoneOf \in [Cell -> Zone] /\ Null \notin Cell
      /\ Marking' = Marking /\ Swept' = Swept /\ Dead' = Dead
      /\ \A x \in Cell : ZoneOf[x] \in needsBarrier <=> x \in Marking
      /\ Swept \cap Marking = {} /\ used \cap Marking \subseteq Kept
      /\ Kept \subseteq used /\ used \subseteq Cell /\ Kept' = used' \ Dead
      /\ Kept = used \ Dead
      /\ ListInv' /\ incoming' \subseteq incoming => Control'
  BY ProgramFacts DEF Wrap
<1>2. UNCHANGED <<zoneState, needsBarrier, scheduled, phase, pc, limited, firstSlice, lastMark,
                 repeat, grayBuffer, buffered, groups, abortSweep, toSweep, background>>
  BY DEF Wrap, ProgramStep, sliceVars, sweepVars
<1>2a. /\ w \in wrappers /\ w \in Kept /\ field[w] = target /\ target \in roots /\ target \in Kept
       /\ roots' = roots \cup {w}
       /\ garbage' \subseteq garbage /\ w \notin garbage'
       /\ \A x \in Cell : x \in garbage \ garbage' /\ field[x] \in Cell => field[x] \notin garbage'
       /\ UNCHANGED <<used, field, wrappers, grayRoots, delayed, incoming>>
       /\ Null \notin garbage /\ garbage \subseteq Cell
  <2>1. /\ w \in wrappers /\ field[w] = target /\ target \in roots /\ roots' = roots \cup {w}
        /\ garbage' = garbage \ Reach({w})
        /\ UNCHANGED <<used, field, wrappers, grayRoots, delayed, incoming>>
    BY DEF Wrap
  <2>2. /\ w \in Reach({w})
        /\ \A x \in Reach({w}) : field[x] \in Cell => field[x] \in Reach({w})
    BY ReachFacts
  <2>3. Null \notin garbage /\ garbage \subseteq Cell
    BY <1>1 DEF TypeOK
  <2> QED
    BY <2>1, <2>2, <2>3 DEF KeptInv
<1>2b. /\ Marking \subseteq Cell /\ mark \in [Cell -> {"white", "gray", "black"}]
       /\ mark' \in [Cell -> {"white", "gray", "black"}]
       /\ \A y \in Cell : \/ mark'[y] = mark[y]
                          \/ /\ y = w /\ y \in Marking /\ y \in stack'
                             /\ mark[y] = "white" /\ mark'[y] = "black"
       /\ stack \subseteq stack'
       /\ \A y \in stack' : y \in stack \/ (y = w /\ y \in Marking /\ mark'[y] = "black")
       /\ w \in Marking => mark'[w] # "white"
  BY <1>1, <1>2a, BarrierFacts DEF Wrap, TypeOK, KeptInv, Kept, Marking, In
<1>3. TypeOK'
  <2>1. stack' \subseteq used' /\ delayed' \subseteq used'
    <3>1. stack \subseteq used /\ delayed \subseteq used
      BY DEF TypeOK
    <3> QED
      BY <1>1, <1>2a, <1>2b, <3>1
  <2> QED
    BY <1>1, <1>2, <1>2a, <1>2b, <2>1 DEF TypeOK
<1>4. ListInv'
  <2>1. stack' \subseteq Marking' \cap WithMark(mark, "black")'
    <3>1. \A y \in stack : y \in Marking /\ y \in used /\ y \in Cell /\ mark[y] = "black"
      BY <1>1 DEF ListInv, WithMark
    <3>2. \A y \in stack' : y \in Marking /\ y \in used' /\ mark'[y] = "black"
      BY <1>1, <3>1, <1>2a, <1>2b
    <3> QED
      BY <1>1, <3>2 DEF WithMark
  <2>2. delayed' \subseteq Marking'
    BY <1>1, <1>2, <1>2a, <1>2b DEF ListInv
  <2>3. \A x \in used' \cap Marking' : mark'[x] # "gray"
    BY <1>1, <1>2, <1>2a, <1>2b DEF ListInv, TypeOK
  <2>4. \A x \in Cell \ used' : field'[x] = Null
    BY <1>1, <1>2, <1>2a, <1>2b DEF ListInv
  <2>5. toSweep' \subseteq Swept'
    BY <1>1, <1>2 DEF ListInv
  <2>6. \A v \in incoming' : v \in Swept' /\ field'[v] \in Marking' /\ mark'[v] # "white"
    BY <1>1, <1>2, <1>2a, <1>2b DEF ListInv, TypeOK
  <2> QED
    BY <2>1, <2>2, <2>3, <2>4, <2>5, <2>6 DEF ListInv
<1>5. KeptInv'
  <2>1. \A x \in Kept' : field'[x] \in Kept' \cup {Null}
    BY <1>1, <1>2, <1>2a, <1>2b DEF KeptInv
  <2>2. roots' \cup grayRoots' \subseteq Kept'
    BY <1>1, <1>2, <1>2a, <1>2b DEF KeptInv
  <2>3. wrappers' = {x \in Kept' : IsWrapper(x)'}
    BY <1>1, <1>2, <1>2a, <1>2b DEF KeptInv, IsWrapper
  <2> QED
    BY <2>1, <2>2, <2>3 DEF KeptInv
<1>6. GarbageInv'
  <2>1. /\ phase' = "none" => garbage' \subseteq background'
        /\ phase' # "none" => garbage' \subseteq Marking' \cup toSweep'
    BY <1>1, <1>2, <1>2a, <1>2b DEF GarbageInv
  <2>2. garbage' \cap (roots' \cup grayRoots' \cup grayBuffer' \cup delayed') = {}
    BY <1>1, <1>2, <1>2a, <1>2b DEF GarbageInv
  <2>3. \A x \in used' \ garbage' : field'[x] \notin garbage'
    BY <1>1, <1>2, <1>2a, <1>2b DEF GarbageInv, TypeOK
  <2>4. \A x \in garbage' \cap Marking' : mark'[x] = "white"
    BY <1>1, <1>2, <1>2a, <1>2b DEF GarbageInv, TypeOK
  <2> QED
    BY <2>1, <2>2, <2>3, <2>4 DEF GarbageInv
<1>7. Onward
  <2>1. \A x \in used \cap Marking :
          /\ x \in used'
          /\ mark'[x] = mark[x] \/ (mark[x] = "white" /\ mark'[x] = "black" /\ x \in stack')
    BY <1>1, <1>2, <1>2a, <1>2b DEF TypeOK
  <2>2. \A x \in Cell : field[x] \in ToMark => field'[x] = field[x] \/ mark'[field[x]] = "black"
    BY <1>1, <1>2, <1>2a, <1>2b DEF ToMark, WithMark, TypeOK
  <2>3. \A x \in stack : x \in stack' /\ x \in Cell
    BY <1>1, <1>2, <1>2a, <1>2b DEF TypeOK
  <2>4. \A x \in delayed : x \in delayed'
    BY <1>1, <1>2, <1>2a, <1>2b
  <2>5. \A v \in Exposed :
           v \in Cell /\ (v \in Exposed' \/ (field[v] \in ToMark => mark'[field[v]] = "black"))
    <3>1. \A v \in incoming : v \in Cell /\ v \in wrappers /\ v \notin Marking
      BY <1>1 DEF TypeOK, ListInv
    <3> QED
      BY <1>1, <3>1, <1>2a, <1>2b DEF Exposed, ToMark, WithMark, TypeOK
  <2> QED
    BY <1>1, <1>2, <2>1, <2>2, <2>3, <2>4, <2>5 DEF Onward, TypeOK
<1>8. NoNewGray
  <2> SUFFICES ASSUME NEW x \in Kept', x \in Swept, mark'[x] = "gray", field'[x] \in Marking
               PROVE  /\ x \in Kept /\ mark[x] = "gray" /\ field'[x] = field[x]
                      /\ x \in incoming => x \in incoming'
    BY DEF NoNewGray
  <2>1. x \in Cell /\ x \notin Marking /\ field'[x] \in Cell
    BY <1>1, <1>3 DEF TypeOK, Marking, In
  <2> QED
    BY <1>1, <1>2, <2>1, <1>2a, <1>2b
<1>9. NoNewWayBack
  <2> SUFFICES ASSUME NEW v \in wrappers', v \in Marking, field'[v] \in Marking,
                      mark'[v] = "white", mark'[field'[v]] = "white", v \notin delayed'
               PROVE  /\ v \in wrappers /\ v \notin delayed /\ field'[v] = field[v]
                      /\ mark[v] = "white" /\ mark[field[v]] = "white"
    BY DEF NoNewWayBack
  <2>1. v \in Cell /\ field'[v] \in Cell
    BY <1>1, <1>3 DEF TypeOK, Marking, In
  <2> QED
    BY <1>1, <1>2, <2>1, <1>2a, <1>2b DEF TypeOK
<1>10. Control'
  BY <1>1, <1>4 DEF Wrap, ListInv, TypeOK
<1>11. ASSUME UnderWay, NEW T \in SUBSET Cell, SafeSet(T)
       PROVE  \E N \in SUBSET Cell : SafelyExtends(T, N)
  <2> DEFINE N == {w}
  <2>1. /\ \A x \in used \cap Marking : mark[x] = "black" => x \in T
        /\ \A x \in used' \cap Marking' : mark'[x] = "black" => x \in Blackened'
        /\ \A x \in delayed' \cap used' \cap Marking' : mark'[x] = "white" => x \in Due'
        /\ Due' \subseteq Blackened'
    BY <1>3, <1>11, BlackenedCells
  <2>2. /\ T \subseteq Kept /\ roots \subseteq T
        /\ \A x \in Kept \ Marking : (x \in Swept => mark[x] # "gray") => x \in T
        /\ \A x \in T : field[x] \in T \cup {Null}
        /\ \A x \in used \cap Marking : field[x] \notin Marking => field[x] \in T \cup {Null}
        /\ buffered => grayRoots \cap Marking \subseteq grayBuffer \cup T
        /\ T \in SUBSET Cell /\ Blackened \subseteq T
    BY <1>11 DEF SafeSet
  <2>4. T \cup N \subseteq Kept' /\ roots' \subseteq T \cup N
    BY <1>1, <1>2, <1>5, <2>2, <1>2a, <1>2b DEF KeptInv
  <2>5. \A x \in used' \cap Marking : mark'[x] = "black" => x \in T \cup N
    BY <1>1, <1>2, <2>1, <2>2, <1>2a, <1>2b DEF TypeOK
  <2>6. \A x \in Kept' \ Marking : (x \in Swept => mark'[x] # "gray") => x \in T \cup N
    <3>1. Kept \subseteq Cell
      BY <1>1
    <3> QED
      BY <1>1, <1>2, <2>2, <3>1, <1>2a, <1>2b
  <2>7. \A x \in T \cup N : field'[x] \in T \cup N \cup Due' \cup {Null}
    BY <1>1, <1>2, <2>2, <1>2a, <1>2b
  <2>8. N \cap Marking \subseteq Blackened'
    BY <1>1, <1>2, <2>1, <1>2a, <1>2b DEF ListInv, TypeOK
  <2>9. \A x \in used' \cap Marking : field'[x] \notin Marking => field'[x] \in T \cup N \cup {Null}
    BY <1>1, <1>2, <2>2, <1>2a, <1>2b
  <2>10. buffered => grayRoots' \cap Marking \subseteq grayBuffer \cup T \cup N
    BY <1>1, <1>2, <2>2, <1>2a, <1>2b
  <2>11. N \in SUBSET Cell
    BY <1>1, <2>2, <1>2a, <1>2b
  <2> QED
    BY <2>4, <2>5, <2>6, <2>7, <2>8, <2>9, <2>10, <2>11 DEF SafelyExtends
<1> QED
  BY <1>2, <1>3, <1>4, <1>5, <1>6, <1>7, <1>8, <1>9, <1>10, <1>11, OnwardKeepsInvariant

\* A new wrapper.
LEMMA WrapNewKeepsInvariant ==
  ASSUME IInv, NEW w \in Cell, NEW target \in Cell, Wrap(target, w),
         {v \in wrappers : field[v] = target /\ ZoneOf[v] = ZoneOf[w]} = {}
  PROVE  IInv'
<1> USE DEF IInv
<1>1. /\ ZoneOf \in [Cell -> Zone] /\ Null \notin Cell
      /\ Marking' = Marking /\ Swept' = Swept /\ Dead' = Dead
      /\ \A x \in Cell : ZoneOf[x] \in needsBarrier <=> x \in Marking
      /\ Swept \cap Marking = {} /\ used \cap Marking \subseteq Kept
      /\ Kept \subseteq used /\ used \subseteq Cell /\ Kept' = used' \ Dead
      /\ Kept = used \ Dead
      /\ ListInv' /\ incoming' \subseteq incoming => Control'
  BY ProgramFacts DEF Wrap
<1>2. UNCHANGED <<zoneState, needsBarrier, scheduled, phase, pc, limited, firstSlice, lastMark,
                 repeat, grayBuffer, buffered, groups, abortSweep, toSweep, background>>
  BY DEF Wrap, ProgramStep, sliceVars, sweepVars
<1>2a. /\ w \notin used /\ used' = used \cup {w} /\ roots' = roots \cup {w}
       /\ mark' = [mark EXCEPT ![w] = "white"] /\ stack' = stack /\ incoming' = incoming
       /\ field[w] = Null /\ w \notin Kept
       /\ UNCHANGED <<grayRoots, garbage>> /\ wrappers' = wrappers \cup {w}
       /\ field' = [field EXCEPT ![w] = target] /\ target \in roots /\ ZoneOf[w] # ZoneOf[target]
       /\ IF w \in Marking THEN delayed' = delayed \cup {w} ELSE delayed' = delayed
  BY <1>1 DEF Wrap, Allocate, ListInv
<1>2b. /\ field'[w] = target /\ \A x \in Cell : x # w => field'[x] = field[x]
       /\ field' \in [Cell -> Cell \cup {Null}] /\ IsWrapper(w)'
       /\ \A x \in Cell : x # w => (IsWrapper(x)' <=> IsWrapper(x))
       /\ target \in Kept /\ target \notin garbage /\ garbage \subseteq used
       /\ mark \in [Cell -> {"white", "gray", "black"}] /\ mark'[w] = "white"
       /\ \A x \in Cell : x # w => mark'[x] = mark[x]
       /\ \A x \in used : x # w /\ mark'[x] = mark[x]
       /\ \A x \in Kept : field[x] # w
       /\ \A x \in Marking \cap used : field[x] # w
       /\ Kept' = Kept \cup {w}
       /\ \A x \in wrappers : x \in Kept /\ x # w /\ field[x] # w
  <2>1. \A x \in Kept : field[x] # w
    BY <1>1, <1>2a DEF KeptInv
  <2>2. /\ field'[w] = target /\ \A x \in Cell : x # w => field'[x] = field[x]
        /\ field' \in [Cell -> Cell \cup {Null}]
    BY <1>2a DEF TypeOK
  <2>3. target \in Kept /\ target \notin garbage /\ garbage \subseteq used
    BY <1>2a DEF KeptInv, GarbageInv, TypeOK
  <2> QED
    BY <1>1, <1>2a, <2>1, <2>2, <2>3 DEF TypeOK, Dead, KeptInv, IsWrapper
<1>3. TypeOK'
  <2>1. stack' \subseteq used' /\ delayed' \subseteq used'
    <3>1. stack \subseteq used /\ delayed \subseteq used
      BY DEF TypeOK
    <3> QED
      BY <1>1, <1>2a, <1>2b, <3>1
  <2> QED
    BY <1>1, <1>2, <1>2a, <1>2b, <2>1 DEF TypeOK
<1>4. ListInv'
  <2>1. stack' \subseteq Marking' \cap WithMark(mark, "black")'
    <3>1. \A y \in stack : y \in Marking /\ y \in used /\ y \in Cell /\ mark[y] = "black"
      BY <1>1 DEF ListInv, WithMark
    <3>2. \A y \in stack' : y \in Marking /\ y \in used' /\ mark'[y] = "black"
      BY <1>1, <3>1, <1>2a, <1>2b
    <3> QED
      BY <1>1, <3>2 DEF WithMark
  <2>2. delayed' \subseteq Marking'
    BY <1>1, <1>2, <1>2a, <1>2b DEF ListInv
  <2>3. \A x \in used' \cap Marking' : mark'[x] # "gray"
    BY <1>1, <1>2, <1>2a, <1>2b DEF ListInv, TypeOK
  <2>4. \A x \in Cell \ used' : field'[x] = Null
    BY <1>1, <1>2, <1>2a, <1>2b DEF ListInv
  <2>5. toSweep' \subseteq Swept'
    BY <1>1, <1>2 DEF ListInv
  <2>6. \A v \in incoming' : v \in Swept' /\ field'[v] \in Marking' /\ mark'[v] # "white"
    BY <1>1, <1>2, <1>2a, <1>2b DEF ListInv, TypeOK
  <2> QED
    BY <2>1, <2>2, <2>3, <2>4, <2>5, <2>6 DEF ListInv
<1>5. KeptInv'
  <2>1. \A x \in Kept' : field'[x] \in Kept' \cup {Null}
    BY <1>1, <1>2, <1>2a, <1>2b DEF KeptInv
  <2>2. roots' \cup grayRoots' \subseteq Kept'
    BY <1>1, <1>2, <1>2a, <1>2b DEF KeptInv
  <2>3. wrappers' = {x \in Kept' : IsWrapper(x)'}
    BY <1>1, <1>2, <1>2a, <1>2b DEF KeptInv, IsWrapper
  <2> QED
    BY <2>1, <2>2, <2>3 DEF KeptInv
<1>6. GarbageInv'
  <2>1. /\ phase' = "none" => garbage' \subseteq background'
        /\ phase' # "none" => garbage' \subseteq Marking' \cup toSweep'
    BY <1>1, <1>2, <1>2a, <1>2b DEF GarbageInv
  <2>2. garbage' \cap (roots' \cup grayRoots' \cup grayBuffer' \cup delayed') = {}
    BY <1>1, <1>2, <1>2a, <1>2b DEF GarbageInv
  <2>3. \A x \in used' \ garbage' : field'[x] \notin garbage'
    BY <1>1, <1>2, <1>2a, <1>2b DEF GarbageInv, TypeOK
  <2>4. \A x \in garbage' \cap Marking' : mark'[x] = "white"
    BY <1>1, <1>2, <1>2a, <1>2b DEF GarbageInv, TypeOK
  <2> QED
    BY <2>1, <2>2, <2>3, <2>4 DEF GarbageInv
<1>7. Onward
  <2>1. \A x \in used \cap Marking :
          /\ x \in used'
          /\ mark'[x] = mark[x] \/ (mark[x] = "white" /\ mark'[x] = "black" /\ x \in stack')
    BY <1>1, <1>2, <1>2a, <1>2b DEF TypeOK
  <2>2. \A x \in Cell : field[x] \in ToMark => field'[x] = field[x] \/ mark'[field[x]] = "black"
    BY <1>1, <1>2, <1>2a, <1>2b DEF ToMark, WithMark, TypeOK
  <2>3. \A x \in stack : x \in stack' /\ x \in Cell
    BY <1>1, <1>2, <1>2a, <1>2b DEF TypeOK
  <2>4. \A x \in delayed : x \in delayed'
    BY <1>1, <1>2, <1>2a, <1>2b
  <2>5. \A v \in Exposed :
           v \in Cell /\ (v \in Exposed' \/ (field[v] \in ToMark => mark'[field[v]] = "black"))
    <3>1. \A v \in incoming : v \in Cell /\ v \in wrappers /\ v \notin Marking
      BY <1>1 DEF TypeOK, ListInv
    <3> QED
      BY <1>1, <3>1, <1>2a, <1>2b DEF Exposed, ToMark, WithMark, TypeOK
  <2> QED
    BY <1>1, <1>2, <2>1, <2>2, <2>3, <2>4, <2>5 DEF Onward, TypeOK
<1>8. NoNewGray
  <2> SUFFICES ASSUME NEW x \in Kept', x \in Swept, mark'[x] = "gray", field'[x] \in Marking
               PROVE  /\ x \in Kept /\ mark[x] = "gray" /\ field'[x] = field[x]
                      /\ x \in incoming => x \in incoming'
    BY DEF NoNewGray
  <2>1. x \in Cell /\ x \notin Marking /\ field'[x] \in Cell
    BY <1>1, <1>3 DEF TypeOK, Marking, In
  <2> QED
    BY <1>1, <1>2, <2>1, <1>2a, <1>2b
<1>9. NoNewWayBack
  <2> SUFFICES ASSUME NEW v \in wrappers', v \in Marking, field'[v] \in Marking,
                      mark'[v] = "white", mark'[field'[v]] = "white", v \notin delayed'
               PROVE  /\ v \in wrappers /\ v \notin delayed /\ field'[v] = field[v]
                      /\ mark[v] = "white" /\ mark[field[v]] = "white"
    BY DEF NoNewWayBack
  <2>1. v \in Cell /\ field'[v] \in Cell
    BY <1>1, <1>3 DEF TypeOK, Marking, In
  <2> QED
    BY <1>1, <1>2, <2>1, <1>2a, <1>2b DEF TypeOK
<1>10. Control'
  BY <1>1, <1>2a, <1>4
<1>11. ASSUME UnderWay, NEW T \in SUBSET Cell, SafeSet(T)
       PROVE  \E N \in SUBSET Cell : SafelyExtends(T, N)
  <2> DEFINE N == {w}
  <2>1. /\ \A x \in used \cap Marking : mark[x] = "black" => x \in T
        /\ \A x \in used' \cap Marking' : mark'[x] = "black" => x \in Blackened'
        /\ \A x \in delayed' \cap used' \cap Marking' : mark'[x] = "white" => x \in Due'
        /\ Due' \subseteq Blackened'
    BY <1>3, <1>11, BlackenedCells
  <2>2. /\ T \subseteq Kept /\ roots \subseteq T
        /\ \A x \in Kept \ Marking : (x \in Swept => mark[x] # "gray") => x \in T
        /\ \A x \in T : field[x] \in T \cup {Null}
        /\ \A x \in used \cap Marking : field[x] \notin Marking => field[x] \in T \cup {Null}
        /\ buffered => grayRoots \cap Marking \subseteq grayBuffer \cup T
        /\ T \in SUBSET Cell /\ Blackened \subseteq T
    BY <1>11 DEF SafeSet
  <2>4. T \cup N \subseteq Kept' /\ roots' \subseteq T \cup N
    BY <1>1, <1>2, <1>5, <2>2, <1>2a, <1>2b DEF KeptInv
  <2>5. \A x \in used' \cap Marking : mark'[x] = "black" => x \in T \cup N
    BY <1>1, <1>2, <2>1, <2>2, <1>2a, <1>2b DEF TypeOK
  <2>6. \A x \in Kept' \ Marking : (x \in Swept => mark'[x] # "gray") => x \in T \cup N
    <3>1. Kept \subseteq Cell
      BY <1>1
    <3> QED
      BY <1>1, <1>2, <2>2, <3>1, <1>2a, <1>2b
  <2>7. \A x \in T \cup N : field'[x] \in T \cup N \cup Due' \cup {Null}
    BY <1>1, <1>2, <2>2, <1>2a, <1>2b
  <2>8. N \cap Marking \subseteq Blackened'
    BY <1>1, <1>2, <2>1, <1>2a, <1>2b DEF ListInv, TypeOK
  <2>9. \A x \in used' \cap Marking : field'[x] \notin Marking => field'[x] \in T \cup N \cup {Null}
    BY <1>1, <1>2, <2>2, <1>2a, <1>2b
  <2>10. buffered => grayRoots' \cap Marking \subseteq grayBuffer \cup T \cup N
    BY <1>1, <1>2, <2>2, <1>2a, <1>2b
  <2>11. N \in SUBSET Cell
    BY <1>1, <2>2, <1>2a, <1>2b
  <2> QED
    BY <2>4, <2>5, <2>6, <2>7, <2>8, <2>9, <2>10, <2>11 DEF SafelyExtends
<1> QED
  BY <1>2, <1>3, <1>4, <1>5, <1>6, <1>7, <1>8, <1>9, <1>10, <1>11, OnwardKeepsInvariant

\* Cutting a wrapper.
LEMMA NukeKeepsInvariant ==
  ASSUME IInv, NEW w \in Cell, Nuke(w)
  PROVE  IInv'
<1> USE DEF IInv
<1>1. /\ ZoneOf \in [Cell -> Zone] /\ Null \notin Cell
      /\ Marking' = Marking /\ Swept' = Swept /\ Dead' = Dead
      /\ \A x \in Cell : ZoneOf[x] \in needsBarrier <=> x \in Marking
      /\ Swept \cap Marking = {} /\ used \cap Marking \subseteq Kept
      /\ Kept \subseteq used /\ used \subseteq Cell /\ Kept' = used' \ Dead
      /\ Kept = used \ Dead
      /\ ListInv' /\ incoming' \subseteq incoming => Control'
  BY ProgramFacts DEF Nuke
<1>2. UNCHANGED <<zoneState, needsBarrier, scheduled, phase, pc, limited, firstSlice, lastMark,
                 repeat, grayBuffer, buffered, groups, abortSweep, toSweep, background>>
  BY DEF Nuke, ProgramStep, sliceVars, sweepVars
<1>2a. /\ w \in wrappers /\ w \in Kept /\ field[w] \in Kept /\ field[w] \in Cell
       /\ garbage' \subseteq garbage /\ w \notin garbage' /\ field[w] \notin garbage'
       /\ \A x \in Cell : x \in garbage \ garbage' /\ field[x] \in Cell => field[x] \notin garbage'
       /\ wrappers' = wrappers \ {w} /\ incoming' = incoming \ {w}
       /\ UNCHANGED <<used, roots, grayRoots, delayed>>
       /\ Null \notin garbage /\ garbage \subseteq Cell /\ Null \notin wrappers
  <2>1. /\ w \in wrappers /\ wrappers' = wrappers \ {w} /\ incoming' = incoming \ {w}
        /\ garbage' = garbage \ Reach({w})
        /\ UNCHANGED <<used, roots, grayRoots, delayed>>
    BY DEF Nuke, RemoveFromGrayList
  <2>2. /\ w \in Reach({w})
        /\ \A x \in Reach({w}) : field[x] \in Cell => field[x] \in Reach({w})
    BY ReachFacts
  <2>3. Null \notin garbage /\ garbage \subseteq Cell /\ Null \notin wrappers
    BY <1>1 DEF TypeOK
  <2>4. w \in Kept /\ field[w] \in Kept /\ field[w] \in Cell
    BY <1>1, <2>1 DEF KeptInv, IsWrapper
  <2> QED
    BY <2>1, <2>2, <2>3, <2>4
<1>2b. /\ field'[w] = Null /\ \A x \in Cell : x # w => field'[x] = field[x]
       /\ field' \in [Cell -> Cell \cup {Null}]
       /\ \A x \in Cell : x # w => (IsWrapper(x)' <=> IsWrapper(x))
       /\ ~(IsWrapper(w)') /\ field[w] # w
  <2>1. /\ field'[w] = Null /\ \A x \in Cell : x # w => field'[x] = field[x]
        /\ field' \in [Cell -> Cell \cup {Null}]
    BY DEF Nuke, TypeOK
  <2>2. field[w] # w
    BY <1>2a DEF KeptInv, IsWrapper
  <2> QED
    BY <2>1, <2>2 DEF IsWrapper
<1>2c. /\ Marking \subseteq Cell /\ mark \in [Cell -> {"white", "gray", "black"}]
       /\ mark' \in [Cell -> {"white", "gray", "black"}]
       /\ \A y \in Cell : \/ mark'[y] = mark[y]
                          \/ /\ y = field[w] /\ y \in Marking /\ y \in stack'
                             /\ mark[y] = "white" /\ mark'[y] = "black"
       /\ stack \subseteq stack'
       /\ \A y \in stack' : y \in stack \/ (y = field[w] /\ y \in Marking /\ mark'[y] = "black")
       /\ field[w] \in Marking => mark'[field[w]] # "white"
  BY <1>1, <1>2a, BarrierFacts DEF Nuke, TypeOK, KeptInv, Kept, Marking, In
<1>3. TypeOK'
  <2>1. stack' \subseteq used' /\ delayed' \subseteq used'
    <3>1. stack \subseteq used /\ delayed \subseteq used
      BY DEF TypeOK
    <3> QED
      BY <1>1, <1>2a, <1>2b, <1>2c, <3>1
  <2> QED
    BY <1>1, <1>2, <1>2a, <1>2b, <1>2c, <2>1 DEF TypeOK
<1>4. ListInv'
  <2>1. stack' \subseteq Marking' \cap WithMark(mark, "black")'
    <3>1. \A y \in stack : y \in Marking /\ y \in used /\ y \in Cell /\ mark[y] = "black"
      BY <1>1 DEF ListInv, WithMark
    <3>2. \A y \in stack' : y \in Marking /\ y \in used' /\ mark'[y] = "black"
      BY <1>1, <3>1, <1>2a, <1>2b, <1>2c
    <3> QED
      BY <1>1, <3>2 DEF WithMark
  <2>2. delayed' \subseteq Marking'
    BY <1>1, <1>2, <1>2a, <1>2b, <1>2c DEF ListInv
  <2>3. \A x \in used' \cap Marking' : mark'[x] # "gray"
    BY <1>1, <1>2, <1>2a, <1>2b, <1>2c DEF ListInv, TypeOK
  <2>4. \A x \in Cell \ used' : field'[x] = Null
    BY <1>1, <1>2, <1>2a, <1>2b, <1>2c DEF ListInv
  <2>5. toSweep' \subseteq Swept'
    BY <1>1, <1>2 DEF ListInv
  <2>6. \A v \in incoming' : v \in Swept' /\ field'[v] \in Marking' /\ mark'[v] # "white"
    BY <1>1, <1>2, <1>2a, <1>2b, <1>2c DEF ListInv, TypeOK
  <2> QED
    BY <2>1, <2>2, <2>3, <2>4, <2>5, <2>6 DEF ListInv
<1>5. KeptInv'
  <2>1. \A x \in Kept' : field'[x] \in Kept' \cup {Null}
    BY <1>1, <1>2, <1>2a, <1>2b, <1>2c DEF KeptInv
  <2>2. roots' \cup grayRoots' \subseteq Kept'
    BY <1>1, <1>2, <1>2a, <1>2b, <1>2c DEF KeptInv
  <2>3. wrappers' = {x \in Kept' : IsWrapper(x)'}
    BY <1>1, <1>2, <1>2a, <1>2b, <1>2c DEF KeptInv, IsWrapper
  <2> QED
    BY <2>1, <2>2, <2>3 DEF KeptInv
<1>6. GarbageInv'
  <2>1. /\ phase' = "none" => garbage' \subseteq background'
        /\ phase' # "none" => garbage' \subseteq Marking' \cup toSweep'
    BY <1>1, <1>2, <1>2a, <1>2b, <1>2c DEF GarbageInv
  <2>2. garbage' \cap (roots' \cup grayRoots' \cup grayBuffer' \cup delayed') = {}
    BY <1>1, <1>2, <1>2a, <1>2b, <1>2c DEF GarbageInv
  <2>3. \A x \in used' \ garbage' : field'[x] \notin garbage'
    BY <1>1, <1>2, <1>2a, <1>2b, <1>2c DEF GarbageInv, TypeOK
  <2>4. \A x \in garbage' \cap Marking' : mark'[x] = "white"
    BY <1>1, <1>2, <1>2a, <1>2b, <1>2c DEF GarbageInv, TypeOK
  <2> QED
    BY <2>1, <2>2, <2>3, <2>4 DEF GarbageInv
<1>7. Onward
  <2>1. \A x \in used \cap Marking :
          /\ x \in used'
          /\ mark'[x] = mark[x] \/ (mark[x] = "white" /\ mark'[x] = "black" /\ x \in stack')
    BY <1>1, <1>2, <1>2a, <1>2b, <1>2c DEF TypeOK
  <2>2. \A x \in Cell : field[x] \in ToMark => field'[x] = field[x] \/ mark'[field[x]] = "black"
    BY <1>1, <1>2, <1>2a, <1>2b, <1>2c DEF ToMark, WithMark, TypeOK
  <2>3. \A x \in stack : x \in stack' /\ x \in Cell
    BY <1>1, <1>2, <1>2a, <1>2b, <1>2c DEF TypeOK
  <2>4. \A x \in delayed : x \in delayed'
    BY <1>1, <1>2, <1>2a, <1>2b, <1>2c
  <2>5. \A v \in Exposed :
           v \in Cell /\ (v \in Exposed' \/ (field[v] \in ToMark => mark'[field[v]] = "black"))
    <3>1. \A v \in incoming : v \in Cell /\ v \in wrappers /\ v \notin Marking
      BY <1>1 DEF TypeOK, ListInv
    <3> QED
      BY <1>1, <3>1, <1>2a, <1>2b, <1>2c DEF Exposed, ToMark, WithMark, TypeOK
  <2> QED
    BY <1>1, <1>2, <2>1, <2>2, <2>3, <2>4, <2>5 DEF Onward, TypeOK
<1>8. NoNewGray
  <2> SUFFICES ASSUME NEW x \in Kept', x \in Swept, mark'[x] = "gray", field'[x] \in Marking
               PROVE  /\ x \in Kept /\ mark[x] = "gray" /\ field'[x] = field[x]
                      /\ x \in incoming => x \in incoming'
    BY DEF NoNewGray
  <2>1. x \in Cell /\ x \notin Marking /\ field'[x] \in Cell
    BY <1>1, <1>3 DEF TypeOK, Marking, In
  <2> QED
    BY <1>1, <1>2, <2>1, <1>2a, <1>2b, <1>2c
<1>9. NoNewWayBack
  <2> SUFFICES ASSUME NEW v \in wrappers', v \in Marking, field'[v] \in Marking,
                      mark'[v] = "white", mark'[field'[v]] = "white", v \notin delayed'
               PROVE  /\ v \in wrappers /\ v \notin delayed /\ field'[v] = field[v]
                      /\ mark[v] = "white" /\ mark[field[v]] = "white"
    BY DEF NoNewWayBack
  <2>1. v \in Cell /\ field'[v] \in Cell
    BY <1>1, <1>3 DEF TypeOK, Marking, In
  <2> QED
    BY <1>1, <1>2, <2>1, <1>2a, <1>2b, <1>2c DEF TypeOK
<1>10. Control'
  BY <1>1, <1>2a, <1>4
<1>11. ASSUME UnderWay, NEW T \in SUBSET Cell, SafeSet(T)
       PROVE  \E N \in SUBSET Cell : SafelyExtends(T, N)
  <2> DEFINE N == {x \in {field[w]} : x \in Marking /\ mark'[x] = "black"}
  <2>1. /\ \A x \in used \cap Marking : mark[x] = "black" => x \in T
        /\ \A x \in used' \cap Marking' : mark'[x] = "black" => x \in Blackened'
        /\ \A x \in delayed' \cap used' \cap Marking' : mark'[x] = "white" => x \in Due'
        /\ Due' \subseteq Blackened'
    BY <1>3, <1>11, BlackenedCells
  <2>2. /\ T \subseteq Kept /\ roots \subseteq T
        /\ \A x \in Kept \ Marking : (x \in Swept => mark[x] # "gray") => x \in T
        /\ \A x \in T : field[x] \in T \cup {Null}
        /\ \A x \in used \cap Marking : field[x] \notin Marking => field[x] \in T \cup {Null}
        /\ buffered => grayRoots \cap Marking \subseteq grayBuffer \cup T
        /\ T \in SUBSET Cell /\ Blackened \subseteq T
    BY <1>11 DEF SafeSet
  <2>3. \A x \in N : /\ x \in used' /\ x \in Marking /\ mark'[x] = "black" /\ x \in Kept
                     /\ field'[x] \in Marking =>
                          field'[x] \in T \cup N \cup Due'
    <3> SUFFICES ASSUME NEW x \in N
                 PROVE  /\ x \in used' /\ x \in Marking /\ mark'[x] = "black" /\ x \in Kept
                        /\ field'[x] \in Marking => field'[x] \in T \cup N \cup Due'
      OBVIOUS
    <3>1. x \in used' /\ x \in Marking /\ mark'[x] = "black" /\ x \in Kept /\ x \in Cell
      BY <1>1, <1>2, <1>2a, <1>2b, <1>2c
    <3>2. ASSUME field'[x] \in Marking
          PROVE  field'[x] \in T \cup N \cup Due'
      <4>1. field'[x] = field[x] /\ field[x] \in Kept /\ field[x] \in Cell /\ field[x] \in used
        BY <1>1, <3>1, <3>2, <1>2a, <1>2b, <1>2c DEF KeptInv
      <4>2. CASE mark[x] = "black"
        BY <2>1, <2>2, <3>1, <3>2, <4>1, <4>2, <1>1, <1>2a, <1>2b, <1>2c
      <4>3. CASE mark[x] # "black" /\ mark'[field[x]] = "white"
        <5>1. Least(Due', field', DueStart', ToMark')
          BY <1>3, DueIsLeast
        <5>2. x \in stack'
          BY <3>1, <4>3, <1>2a, <1>2b, <1>2c
        <5>3. field'[x] \in DueStart'
          BY <5>2 DEF DueStart
        <5>4. field'[x] \in ToMark'
          BY <1>1, <3>2, <4>1, <4>3, <1>2a, <1>2b, <1>2c DEF ToMark, WithMark
        <5> QED
          BY <5>1, <5>3, <5>4 DEF Least
      <4>4. CASE mark[x] # "black" /\ mark'[field[x]] # "white"
        <5>1. mark[field[x]] # "gray"
          BY <1>1, <3>2, <4>1 DEF ListInv
        <5>2. mark[field[x]] = "black" \/ field[x] \in N
          BY <1>1, <3>2, <4>1, <4>4, <5>1, <1>2a, <1>2b, <1>2c DEF TypeOK
        <5> QED
          BY <1>1, <2>1, <3>2, <4>1, <5>2
      <4> QED
        BY <4>2, <4>3, <4>4
    <3> QED
      BY <3>1, <3>2
  <2>4. T \cup N \subseteq Kept' /\ roots' \subseteq T \cup N
    BY <1>1, <1>2, <1>5, <2>2, <1>2a, <1>2b, <1>2c, <2>3 DEF KeptInv
  <2>5. \A x \in used' \cap Marking : mark'[x] = "black" => x \in T \cup N
    BY <1>1, <1>2, <2>1, <2>2, <1>2a, <1>2b, <1>2c, <2>3 DEF TypeOK
  <2>6. \A x \in Kept' \ Marking : (x \in Swept => mark'[x] # "gray") => x \in T \cup N
    <3>1. Kept \subseteq Cell
      BY <1>1
    <3> QED
      BY <1>1, <1>2, <2>2, <3>1, <1>2a, <1>2b, <1>2c, <2>3
  <2>7. \A x \in T \cup N : field'[x] \in T \cup N \cup Due' \cup {Null}
    BY <1>1, <1>2, <2>2, <1>2a, <1>2b, <1>2c, <2>3 DEF KeptInv
  <2>8. N \cap Marking \subseteq Blackened'
    BY <1>1, <1>2, <2>1, <1>2a, <1>2b, <1>2c, <2>3 DEF ListInv, TypeOK
  <2>9. \A x \in used' \cap Marking : field'[x] \notin Marking => field'[x] \in T \cup N \cup {Null}
    BY <1>1, <1>2, <2>2, <1>2a, <1>2b, <1>2c, <2>3
  <2>10. buffered => grayRoots' \cap Marking \subseteq grayBuffer \cup T \cup N
    BY <1>1, <1>2, <2>2, <1>2a, <1>2b, <1>2c, <2>3
  <2>11. N \in SUBSET Cell
    BY <1>1, <2>2, <1>2a, <1>2b, <1>2c, <2>3
  <2> QED
    BY <2>4, <2>5, <2>6, <2>7, <2>8, <2>9, <2>10, <2>11 DEF SafelyExtends
<1> QED
  BY <1>2, <1>3, <1>4, <1>5, <1>6, <1>7, <1>8, <1>9, <1>10, <1>11, OnwardKeepsInvariant

\* Handing out a cell of a zone that is being marked.
LEMMA ExposeMarkingKeepsInvariant ==
  ASSUME IInv, NEW c \in Cell, Expose(c), ZoneOf[c] \in needsBarrier
  PROVE  IInv'
<1> USE DEF IInv
<1>1. /\ ZoneOf \in [Cell -> Zone] /\ Null \notin Cell
      /\ Marking' = Marking /\ Swept' = Swept /\ Dead' = Dead
      /\ \A x \in Cell : ZoneOf[x] \in needsBarrier <=> x \in Marking
      /\ Swept \cap Marking = {} /\ used \cap Marking \subseteq Kept
      /\ Kept \subseteq used /\ used \subseteq Cell /\ Kept' = used' \ Dead
      /\ Kept = used \ Dead
      /\ ListInv' /\ incoming' \subseteq incoming => Control'
  BY ProgramFacts DEF Expose
<1>2. UNCHANGED <<zoneState, needsBarrier, scheduled, phase, pc, limited, firstSlice, lastMark,
                 repeat, grayBuffer, buffered, groups, abortSweep, toSweep, background>>
  BY DEF Expose, ProgramStep, sliceVars, sweepVars
<1>2a. /\ c \in grayRoots /\ c \in Kept /\ c \notin garbage /\ c \in Marking
       /\ roots' = roots \cup {c}
       /\ UNCHANGED <<used, field, wrappers, grayRoots, delayed, incoming, garbage>>
  BY <1>1 DEF Expose, KeptInv, GarbageInv
<1>2b. /\ Marking \subseteq Cell /\ mark \in [Cell -> {"white", "gray", "black"}]
       /\ mark' \in [Cell -> {"white", "gray", "black"}]
       /\ \A y \in Cell : \/ mark'[y] = mark[y]
                          \/ /\ y = c /\ y \in Marking /\ y \in stack'
                             /\ mark[y] = "white" /\ mark'[y] = "black"
       /\ stack \subseteq stack'
       /\ \A y \in stack' : y \in stack \/ (y = c /\ y \in Marking /\ mark'[y] = "black")
       /\ c \in Marking => mark'[c] # "white"
  BY <1>1, <1>2a, BarrierFacts DEF Expose, TypeOK, KeptInv, Kept, Marking, In
<1>2c. mark'[c] = "black"
  BY <1>1, <1>2a, <1>2b DEF ListInv
<1>3. TypeOK'
  <2>1. stack' \subseteq used' /\ delayed' \subseteq used'
    <3>1. stack \subseteq used /\ delayed \subseteq used
      BY DEF TypeOK
    <3> QED
      BY <1>1, <1>2a, <1>2b, <1>2c, <3>1
  <2> QED
    BY <1>1, <1>2, <1>2a, <1>2b, <1>2c, <2>1 DEF TypeOK
<1>4. ListInv'
  <2>1. stack' \subseteq Marking' \cap WithMark(mark, "black")'
    <3>1. \A y \in stack : y \in Marking /\ y \in used /\ y \in Cell /\ mark[y] = "black"
      BY <1>1 DEF ListInv, WithMark
    <3>2. \A y \in stack' : y \in Marking /\ y \in used' /\ mark'[y] = "black"
      BY <1>1, <3>1, <1>2a, <1>2b, <1>2c
    <3> QED
      BY <1>1, <3>2 DEF WithMark
  <2>2. delayed' \subseteq Marking'
    BY <1>1, <1>2, <1>2a, <1>2b, <1>2c DEF ListInv
  <2>3. \A x \in used' \cap Marking' : mark'[x] # "gray"
    BY <1>1, <1>2, <1>2a, <1>2b, <1>2c DEF ListInv, TypeOK
  <2>4. \A x \in Cell \ used' : field'[x] = Null
    BY <1>1, <1>2, <1>2a, <1>2b, <1>2c DEF ListInv
  <2>5. toSweep' \subseteq Swept'
    BY <1>1, <1>2 DEF ListInv
  <2>6. \A v \in incoming' : v \in Swept' /\ field'[v] \in Marking' /\ mark'[v] # "white"
    BY <1>1, <1>2, <1>2a, <1>2b, <1>2c DEF ListInv, TypeOK
  <2> QED
    BY <2>1, <2>2, <2>3, <2>4, <2>5, <2>6 DEF ListInv
<1>5. KeptInv'
  <2>1. \A x \in Kept' : field'[x] \in Kept' \cup {Null}
    BY <1>1, <1>2, <1>2a, <1>2b, <1>2c DEF KeptInv
  <2>2. roots' \cup grayRoots' \subseteq Kept'
    BY <1>1, <1>2, <1>2a, <1>2b, <1>2c DEF KeptInv
  <2>3. wrappers' = {x \in Kept' : IsWrapper(x)'}
    BY <1>1, <1>2, <1>2a, <1>2b, <1>2c DEF KeptInv, IsWrapper
  <2> QED
    BY <2>1, <2>2, <2>3 DEF KeptInv
<1>6. GarbageInv'
  <2>1. /\ phase' = "none" => garbage' \subseteq background'
        /\ phase' # "none" => garbage' \subseteq Marking' \cup toSweep'
    BY <1>1, <1>2, <1>2a, <1>2b, <1>2c DEF GarbageInv
  <2>2. garbage' \cap (roots' \cup grayRoots' \cup grayBuffer' \cup delayed') = {}
    BY <1>1, <1>2, <1>2a, <1>2b, <1>2c DEF GarbageInv
  <2>3. \A x \in used' \ garbage' : field'[x] \notin garbage'
    BY <1>1, <1>2, <1>2a, <1>2b, <1>2c DEF GarbageInv, TypeOK
  <2>4. \A x \in garbage' \cap Marking' : mark'[x] = "white"
    BY <1>1, <1>2, <1>2a, <1>2b, <1>2c DEF GarbageInv, TypeOK
  <2> QED
    BY <2>1, <2>2, <2>3, <2>4 DEF GarbageInv
<1>7. Onward
  <2>1. \A x \in used \cap Marking :
          /\ x \in used'
          /\ mark'[x] = mark[x] \/ (mark[x] = "white" /\ mark'[x] = "black" /\ x \in stack')
    BY <1>1, <1>2, <1>2a, <1>2b, <1>2c DEF TypeOK
  <2>2. \A x \in Cell : field[x] \in ToMark => field'[x] = field[x] \/ mark'[field[x]] = "black"
    BY <1>1, <1>2, <1>2a, <1>2b, <1>2c DEF ToMark, WithMark, TypeOK
  <2>3. \A x \in stack : x \in stack' /\ x \in Cell
    BY <1>1, <1>2, <1>2a, <1>2b, <1>2c DEF TypeOK
  <2>4. \A x \in delayed : x \in delayed'
    BY <1>1, <1>2, <1>2a, <1>2b, <1>2c
  <2>5. \A v \in Exposed :
           v \in Cell /\ (v \in Exposed' \/ (field[v] \in ToMark => mark'[field[v]] = "black"))
    <3>1. \A v \in incoming : v \in Cell /\ v \in wrappers /\ v \notin Marking
      BY <1>1 DEF TypeOK, ListInv
    <3> QED
      BY <1>1, <3>1, <1>2a, <1>2b, <1>2c DEF Exposed, ToMark, WithMark, TypeOK
  <2> QED
    BY <1>1, <1>2, <2>1, <2>2, <2>3, <2>4, <2>5 DEF Onward, TypeOK
<1>8. NoNewGray
  <2> SUFFICES ASSUME NEW x \in Kept', x \in Swept, mark'[x] = "gray", field'[x] \in Marking
               PROVE  /\ x \in Kept /\ mark[x] = "gray" /\ field'[x] = field[x]
                      /\ x \in incoming => x \in incoming'
    BY DEF NoNewGray
  <2>1. x \in Cell /\ x \notin Marking /\ field'[x] \in Cell
    BY <1>1, <1>3 DEF TypeOK, Marking, In
  <2> QED
    BY <1>1, <1>2, <2>1, <1>2a, <1>2b, <1>2c
<1>9. NoNewWayBack
  <2> SUFFICES ASSUME NEW v \in wrappers', v \in Marking, field'[v] \in Marking,
                      mark'[v] = "white", mark'[field'[v]] = "white", v \notin delayed'
               PROVE  /\ v \in wrappers /\ v \notin delayed /\ field'[v] = field[v]
                      /\ mark[v] = "white" /\ mark[field[v]] = "white"
    BY DEF NoNewWayBack
  <2>1. v \in Cell /\ field'[v] \in Cell
    BY <1>1, <1>3 DEF TypeOK, Marking, In
  <2> QED
    BY <1>1, <1>2, <2>1, <1>2a, <1>2b, <1>2c DEF TypeOK
<1>10. Control'
  BY <1>1, <1>4 DEF Expose, ListInv, TypeOK
<1>11. ASSUME UnderWay, NEW T \in SUBSET Cell, SafeSet(T)
       PROVE  \E N \in SUBSET Cell : SafelyExtends(T, N)
  <2> DEFINE N == {c}
  <2>1. /\ \A x \in used \cap Marking : mark[x] = "black" => x \in T
        /\ \A x \in used' \cap Marking' : mark'[x] = "black" => x \in Blackened'
        /\ \A x \in delayed' \cap used' \cap Marking' : mark'[x] = "white" => x \in Due'
        /\ Due' \subseteq Blackened'
    BY <1>3, <1>11, BlackenedCells
  <2>2. /\ T \subseteq Kept /\ roots \subseteq T
        /\ \A x \in Kept \ Marking : (x \in Swept => mark[x] # "gray") => x \in T
        /\ \A x \in T : field[x] \in T \cup {Null}
        /\ \A x \in used \cap Marking : field[x] \notin Marking => field[x] \in T \cup {Null}
        /\ buffered => grayRoots \cap Marking \subseteq grayBuffer \cup T
        /\ T \in SUBSET Cell /\ Blackened \subseteq T
    BY <1>11 DEF SafeSet
  <2>3. \A x \in N : /\ x \in used' /\ x \in Marking /\ mark'[x] = "black" /\ x \in Kept
                     /\ field'[x] \in Marking =>
                          field'[x] \in T \cup N \cup Due'
    <3> SUFFICES ASSUME NEW x \in N
                 PROVE  /\ x \in used' /\ x \in Marking /\ mark'[x] = "black" /\ x \in Kept
                        /\ field'[x] \in Marking => field'[x] \in T \cup N \cup Due'
      OBVIOUS
    <3>1. x \in used' /\ x \in Marking /\ mark'[x] = "black" /\ x \in Kept /\ x \in Cell
      BY <1>1, <1>2, <1>2a, <1>2b, <1>2c
    <3>2. ASSUME field'[x] \in Marking
          PROVE  field'[x] \in T \cup N \cup Due'
      <4>1. field'[x] = field[x] /\ field[x] \in Kept /\ field[x] \in Cell /\ field[x] \in used
        BY <1>1, <3>1, <3>2, <1>2a, <1>2b, <1>2c DEF KeptInv
      <4>2. CASE mark[x] = "black"
        BY <2>1, <2>2, <3>1, <3>2, <4>1, <4>2, <1>1, <1>2a, <1>2b, <1>2c
      <4>3. CASE mark[x] # "black" /\ mark'[field[x]] = "white"
        <5>1. Least(Due', field', DueStart', ToMark')
          BY <1>3, DueIsLeast
        <5>2. x \in stack'
          BY <3>1, <4>3, <1>2a, <1>2b, <1>2c
        <5>3. field'[x] \in DueStart'
          BY <5>2 DEF DueStart
        <5>4. field'[x] \in ToMark'
          BY <1>1, <3>2, <4>1, <4>3, <1>2a, <1>2b, <1>2c DEF ToMark, WithMark
        <5> QED
          BY <5>1, <5>3, <5>4 DEF Least
      <4>4. CASE mark[x] # "black" /\ mark'[field[x]] # "white"
        <5>1. mark[field[x]] # "gray"
          BY <1>1, <3>2, <4>1 DEF ListInv
        <5>2. mark[field[x]] = "black" \/ field[x] \in N
          BY <1>1, <3>2, <4>1, <4>4, <5>1, <1>2a, <1>2b, <1>2c DEF TypeOK
        <5> QED
          BY <1>1, <2>1, <3>2, <4>1, <5>2
      <4> QED
        BY <4>2, <4>3, <4>4
    <3> QED
      BY <3>1, <3>2
  <2>4. T \cup N \subseteq Kept' /\ roots' \subseteq T \cup N
    BY <1>1, <1>2, <1>5, <2>2, <1>2a, <1>2b, <1>2c, <2>3 DEF KeptInv
  <2>5. \A x \in used' \cap Marking : mark'[x] = "black" => x \in T \cup N
    BY <1>1, <1>2, <2>1, <2>2, <1>2a, <1>2b, <1>2c, <2>3 DEF TypeOK
  <2>6. \A x \in Kept' \ Marking : (x \in Swept => mark'[x] # "gray") => x \in T \cup N
    <3>1. Kept \subseteq Cell
      BY <1>1
    <3> QED
      BY <1>1, <1>2, <2>2, <3>1, <1>2a, <1>2b, <1>2c, <2>3
  <2>7. \A x \in T \cup N : field'[x] \in T \cup N \cup Due' \cup {Null}
    BY <1>1, <1>2, <2>2, <1>2a, <1>2b, <1>2c, <2>3 DEF KeptInv
  <2>8. N \cap Marking \subseteq Blackened'
    BY <1>1, <1>2, <2>1, <1>2a, <1>2b, <1>2c, <2>3 DEF ListInv, TypeOK
  <2>9. \A x \in used' \cap Marking : field'[x] \notin Marking => field'[x] \in T \cup N \cup {Null}
    BY <1>1, <1>2, <2>2, <1>2a, <1>2b, <1>2c, <2>3
  <2>10. buffered => grayRoots' \cap Marking \subseteq grayBuffer \cup T \cup N
    BY <1>1, <1>2, <2>2, <1>2a, <1>2b, <1>2c, <2>3
  <2>11. N \in SUBSET Cell
    BY <1>1, <2>2, <1>2a, <1>2b, <1>2c, <2>3
  <2> QED
    BY <2>4, <2>5, <2>6, <2>7, <2>8, <2>9, <2>10, <2>11 DEF SafelyExtends
<1> QED
  BY <1>2, <1>3, <1>4, <1>5, <1>6, <1>7, <1>8, <1>9, <1>10, <1>11, OnwardKeepsInvariant

\* Handing out another cell: with it all gray cells that it reaches become black.
LEMMA ExposeGrayKeepsInvariant ==
  ASSUME IInv, NEW c \in Cell, Expose(c), ZoneOf[c] \notin needsBarrier
  PROVE  IInv'
<1> USE DEF IInv
<1>1. /\ ZoneOf \in [Cell -> Zone] /\ Null \notin Cell
      /\ Marking' = Marking /\ Swept' = Swept /\ Dead' = Dead
      /\ \A x \in Cell : ZoneOf[x] \in needsBarrier <=> x \in Marking
      /\ Swept \cap Marking = {} /\ used \cap Marking \subseteq Kept
      /\ Kept \subseteq used /\ used \subseteq Cell /\ Kept' = used' \ Dead
      /\ Kept = used \ Dead
      /\ ListInv' /\ incoming' \subseteq incoming => Control'
  BY ProgramFacts DEF Expose
<1>2. UNCHANGED <<zoneState, needsBarrier, scheduled, phase, pc, limited, firstSlice, lastMark,
                 repeat, grayBuffer, buffered, groups, abortSweep, toSweep, background>>
  BY DEF Expose, ProgramStep, sliceVars, sweepVars
<1>2a. DEFINE exposed == Spread({c}, WithMark(mark, "gray"))
<1>2b. /\ c \in grayRoots /\ c \in Kept /\ c \notin garbage /\ c \notin Marking
       /\ roots' = roots \cup {c} /\ stack' = stack
       /\ mark' = [x \in Cell |-> IF x \in exposed THEN "black" ELSE mark[x]]
       /\ UNCHANGED <<used, field, wrappers, grayRoots, delayed, incoming, garbage>>
  BY <1>1 DEF Expose, KeptInv, GarbageInv, Ungray, Paint
<1>2c. WithMark(mark, "gray") \in SUBSET Cell
  BY <1>1 DEF WithMark
<1>2d. Least(exposed, field, {c}, WithMark(mark, "gray"))
  BY <1>2c, SpreadIsFollow, FollowIsLeast, GCAssumption
<1> HIDE DEF exposed
<1>2e. \A x \in exposed : x \in used /\ x \in Cell /\ mark[x] = "gray" /\ x \notin Marking
  BY <1>1, <1>2d DEF Least, WithMark, ListInv
<1>2f. exposed \subseteq Kept
  <2>1. \A x \in Kept \cap WithMark(mark, "gray") :
           field[x] \in WithMark(mark, "gray") => field[x] \in Kept
    BY <1>1, <1>2c DEF KeptInv
  <2> QED
    BY <1>2d, <1>2b, <2>1 DEF Least
<1>2g. \A x \in exposed : field[x] \in used /\ mark[field[x]] = "gray" => field[x] \in exposed
  BY <1>2d DEF Least, WithMark
<1>2h. c \in exposed \/ mark[c] # "gray"
  BY <1>1, <1>2d, <1>2b DEF Least, WithMark
<1>2i. /\ c \in grayRoots /\ c \in Kept /\ c \notin garbage /\ c \notin Marking
       /\ roots' = roots \cup {c} /\ stack' = stack
       /\ UNCHANGED <<used, field, wrappers, grayRoots, delayed, incoming, garbage>>
       /\ mark \in [Cell -> {"white", "gray", "black"}]
       /\ mark' \in [Cell -> {"white", "gray", "black"}]
  BY <1>2b DEF TypeOK
<1>2j. \A x \in Cell : \/ mark'[x] = mark[x] /\ x \notin exposed
                       \/ /\ x \in exposed /\ mark[x] = "gray" /\ mark'[x] = "black"
                          /\ x \notin Marking /\ x \in Kept
  BY <1>2b, <1>2e, <1>2f
<1>3. TypeOK'
  <2>1. stack' \subseteq used' /\ delayed' \subseteq used'
    <3>1. stack \subseteq used /\ delayed \subseteq used
      BY DEF TypeOK
    <3> QED
      BY <1>1, <1>2i, <1>2j, <3>1
  <2> QED
    BY <1>1, <1>2, <1>2i, <1>2j, <2>1 DEF TypeOK
<1>4. ListInv'
  <2>1. stack' \subseteq Marking' \cap WithMark(mark, "black")'
    <3>1. \A y \in stack : y \in Marking /\ y \in used /\ y \in Cell /\ mark[y] = "black"
      BY <1>1 DEF ListInv, WithMark
    <3>2. \A y \in stack' : y \in Marking /\ y \in used' /\ mark'[y] = "black"
      BY <1>1, <3>1, <1>2i, <1>2j
    <3> QED
      BY <1>1, <3>2 DEF WithMark
  <2>2. delayed' \subseteq Marking'
    BY <1>1, <1>2, <1>2i, <1>2j DEF ListInv
  <2>3. \A x \in used' \cap Marking' : mark'[x] # "gray"
    BY <1>1, <1>2, <1>2i, <1>2j DEF ListInv, TypeOK
  <2>4. \A x \in Cell \ used' : field'[x] = Null
    BY <1>1, <1>2, <1>2i, <1>2j DEF ListInv
  <2>5. toSweep' \subseteq Swept'
    BY <1>1, <1>2 DEF ListInv
  <2>6. \A v \in incoming' : v \in Swept' /\ field'[v] \in Marking' /\ mark'[v] # "white"
    BY <1>1, <1>2, <1>2i, <1>2j DEF ListInv, TypeOK
  <2> QED
    BY <2>1, <2>2, <2>3, <2>4, <2>5, <2>6 DEF ListInv
<1>5. KeptInv'
  <2>1. \A x \in Kept' : field'[x] \in Kept' \cup {Null}
    BY <1>1, <1>2, <1>2i, <1>2j DEF KeptInv
  <2>2. roots' \cup grayRoots' \subseteq Kept'
    BY <1>1, <1>2, <1>2i, <1>2j DEF KeptInv
  <2>3. wrappers' = {x \in Kept' : IsWrapper(x)'}
    BY <1>1, <1>2, <1>2i, <1>2j DEF KeptInv, IsWrapper
  <2> QED
    BY <2>1, <2>2, <2>3 DEF KeptInv
<1>6. GarbageInv'
  <2>1. /\ phase' = "none" => garbage' \subseteq background'
        /\ phase' # "none" => garbage' \subseteq Marking' \cup toSweep'
    BY <1>1, <1>2, <1>2i, <1>2j DEF GarbageInv
  <2>2. garbage' \cap (roots' \cup grayRoots' \cup grayBuffer' \cup delayed') = {}
    BY <1>1, <1>2, <1>2i, <1>2j DEF GarbageInv
  <2>3. \A x \in used' \ garbage' : field'[x] \notin garbage'
    BY <1>1, <1>2, <1>2i, <1>2j DEF GarbageInv, TypeOK
  <2>4. \A x \in garbage' \cap Marking' : mark'[x] = "white"
    BY <1>1, <1>2, <1>2i, <1>2j DEF GarbageInv, TypeOK
  <2> QED
    BY <2>1, <2>2, <2>3, <2>4 DEF GarbageInv
<1>7. Onward
  <2>1. \A x \in used \cap Marking :
          /\ x \in used'
          /\ mark'[x] = mark[x] \/ (mark[x] = "white" /\ mark'[x] = "black" /\ x \in stack')
    BY <1>1, <1>2, <1>2i, <1>2j DEF TypeOK
  <2>2. \A x \in Cell : field[x] \in ToMark => field'[x] = field[x] \/ mark'[field[x]] = "black"
    BY <1>1, <1>2, <1>2i, <1>2j DEF ToMark, WithMark, TypeOK
  <2>3. \A x \in stack : x \in stack' /\ x \in Cell
    BY <1>1, <1>2, <1>2i, <1>2j DEF TypeOK
  <2>4. \A x \in delayed : x \in delayed'
    BY <1>1, <1>2, <1>2i, <1>2j
  <2>5. \A v \in Exposed :
           v \in Cell /\ (v \in Exposed' \/ (field[v] \in ToMark => mark'[field[v]] = "black"))
    <3>1. \A v \in incoming : v \in Cell /\ v \in wrappers /\ v \notin Marking
      BY <1>1 DEF TypeOK, ListInv
    <3> QED
      BY <1>1, <3>1, <1>2i, <1>2j DEF Exposed, ToMark, WithMark, TypeOK
  <2> QED
    BY <1>1, <1>2, <2>1, <2>2, <2>3, <2>4, <2>5 DEF Onward, TypeOK
<1>8. NoNewGray
  <2> SUFFICES ASSUME NEW x \in Kept', x \in Swept, mark'[x] = "gray", field'[x] \in Marking
               PROVE  /\ x \in Kept /\ mark[x] = "gray" /\ field'[x] = field[x]
                      /\ x \in incoming => x \in incoming'
    BY DEF NoNewGray
  <2>1. x \in Cell /\ x \notin Marking /\ field'[x] \in Cell
    BY <1>1, <1>3 DEF TypeOK, Marking, In
  <2> QED
    BY <1>1, <1>2, <2>1, <1>2i, <1>2j
<1>9. NoNewWayBack
  <2> SUFFICES ASSUME NEW v \in wrappers', v \in Marking, field'[v] \in Marking,
                      mark'[v] = "white", mark'[field'[v]] = "white", v \notin delayed'
               PROVE  /\ v \in wrappers /\ v \notin delayed /\ field'[v] = field[v]
                      /\ mark[v] = "white" /\ mark[field[v]] = "white"
    BY DEF NoNewWayBack
  <2>1. v \in Cell /\ field'[v] \in Cell
    BY <1>1, <1>3 DEF TypeOK, Marking, In
  <2> QED
    BY <1>1, <1>2, <2>1, <1>2i, <1>2j DEF TypeOK
<1>10. Control'
  BY <1>1, <1>4 DEF Expose, ListInv, TypeOK
<1>11. ASSUME UnderWay, NEW T \in SUBSET Cell, SafeSet(T)
       PROVE  \E N \in SUBSET Cell : SafelyExtends(T, N)
  <2> DEFINE N == {c} \cup exposed
  <2>1. /\ \A x \in used \cap Marking : mark[x] = "black" => x \in T
        /\ \A x \in used' \cap Marking' : mark'[x] = "black" => x \in Blackened'
        /\ \A x \in delayed' \cap used' \cap Marking' : mark'[x] = "white" => x \in Due'
        /\ Due' \subseteq Blackened'
    BY <1>3, <1>11, BlackenedCells
  <2>2. /\ T \subseteq Kept /\ roots \subseteq T
        /\ \A x \in Kept \ Marking : (x \in Swept => mark[x] # "gray") => x \in T
        /\ \A x \in T : field[x] \in T \cup {Null}
        /\ \A x \in used \cap Marking : field[x] \notin Marking => field[x] \in T \cup {Null}
        /\ buffered => grayRoots \cap Marking \subseteq grayBuffer \cup T
        /\ T \in SUBSET Cell /\ Blackened \subseteq T
    BY <1>11 DEF SafeSet
  <2>3. \A x \in {c} \cup exposed : field'[x] \in T \cup exposed \cup Due' \cup {Null}
    <3> SUFFICES ASSUME NEW x \in {c} \cup exposed, field[x] # Null
                 PROVE  field[x] \in T \cup exposed \cup Due'
      BY <1>2i
    <3>1. x \in Kept /\ x \in Cell /\ x \notin Marking /\ field[x] \in Kept /\ field[x] \in Cell
      BY <1>1, <1>2i, <1>2f, <1>2e DEF KeptInv
    <3>2. CASE x \notin exposed \/ x \notin Swept
      BY <1>2i, <1>2h, <2>2, <3>1, <3>2
    <3>3. CASE field[x] \notin Marking
      BY <1>1, <1>2g, <2>2, <3>1, <3>2, <3>3
    <3>4. CASE field[x] \in Marking /\ x \in exposed /\ x \in Swept
      <4>1. CASE field[x] \in Blackened
        BY <2>2, <4>1
      <4>2. CASE x \in incoming
        <5>1. Least(Due', field', DueStart', ToMark')
          BY <1>3, DueIsLeast
        <5>2. field[x] \in DueStart'
          BY <1>2i, <1>2j, <3>1, <3>4, <4>2 DEF DueStart, Exposed
        <5>3. CASE mark[field[x]] = "white"
          <6>1. field[x] \in ToMark'
            BY <1>1, <1>2i, <1>2j, <3>1, <3>4, <5>3 DEF ToMark, WithMark
          <6> QED
            BY <5>1, <5>2, <6>1 DEF Least
        <5>4. CASE mark[field[x]] # "white"
          BY <1>1, <1>2i, <2>1, <3>1, <3>4, <5>4 DEF ListInv
        <5> QED
          BY <5>3, <5>4
      <4>3. x \in incoming \/ field[x] \in Blackened
        BY <1>2e, <1>11, <3>1, <3>4 DEF GrayInv
      <4> QED
        BY <4>1, <4>2, <4>3
    <3> QED
      BY <3>2, <3>3, <3>4
  <2>4. T \cup N \subseteq Kept' /\ roots' \subseteq T \cup N
    BY <1>1, <1>2, <1>5, <2>2, <1>2i, <1>2j, <1>2f, <1>2e, <2>3 DEF KeptInv
  <2>5. \A x \in used' \cap Marking : mark'[x] = "black" => x \in T \cup N
    BY <1>1, <1>2, <2>1, <2>2, <1>2i, <1>2j, <1>2f, <1>2e, <2>3 DEF TypeOK
  <2>6. \A x \in Kept' \ Marking : (x \in Swept => mark'[x] # "gray") => x \in T \cup N
    <3>1. Kept \subseteq Cell
      BY <1>1
    <3> QED
      BY <1>1, <1>2, <2>2, <3>1, <1>2i, <1>2j, <1>2f, <1>2e, <2>3
  <2>7. \A x \in T \cup N : field'[x] \in T \cup N \cup Due' \cup {Null}
    BY <1>1, <1>2, <2>2, <1>2i, <1>2j, <1>2f, <1>2e, <2>3
  <2>8. N \cap Marking \subseteq Blackened'
    BY <1>1, <1>2, <2>1, <1>2i, <1>2j, <1>2f, <1>2e, <2>3 DEF ListInv, TypeOK
  <2>9. \A x \in used' \cap Marking : field'[x] \notin Marking => field'[x] \in T \cup N \cup {Null}
    BY <1>1, <1>2, <2>2, <1>2i, <1>2j, <1>2f, <1>2e, <2>3
  <2>10. buffered => grayRoots' \cap Marking \subseteq grayBuffer \cup T \cup N
    BY <1>1, <1>2, <2>2, <1>2i, <1>2j, <1>2f, <1>2e, <2>3
  <2>11. N \in SUBSET Cell
    BY <1>1, <2>2, <1>2i, <1>2j, <1>2f, <1>2e, <2>3
  <2> QED
    BY <2>4, <2>5, <2>6, <2>7, <2>8, <2>9, <2>10, <2>11 DEF SafelyExtends
<1> QED
  BY <1>2, <1>3, <1>4, <1>5, <1>6, <1>7, <1>8, <1>9, <1>10, <1>11, OnwardKeepsInvariant

-----------------------------------------------------------------------------
(* Marking and finalization.                                               *)

\* During a collection only cells of zones already swept are queued to be freed.
LEMMA CollectorFacts ==
  ASSUME IInv, phase # "none"
  PROVE  /\ ZoneOf \in [Cell -> Zone] /\ Null \notin Cell
         /\ Marking \subseteq Cell /\ Swept \subseteq Cell /\ Swept \cap Marking = {}
         /\ background = {} /\ Dead = toSweep /\ Dead \subseteq Swept
         /\ used \cap Marking \subseteq Kept /\ Kept = used \ toSweep /\ Kept \subseteq used
         /\ used \subseteq Cell
<1>1. ZoneOf \in [Cell -> Zone] /\ Null \notin Cell
  BY GCAssumption DEF GCAssumption
<1>2. Marking \subseteq Cell /\ Swept \subseteq Cell /\ Swept \cap Marking = {}
  BY DEF Swept, Marking, In, ZonesIn
<1>3. background = {} /\ Dead = toSweep /\ Dead \subseteq Swept
  BY DEF IInv, Control, ListInv, Dead
<1> QED
  BY <1>1, <1>2, <1>3 DEF Kept, IInv, TypeOK

\* Marking through the field of a cell.
LEMMA MarkCellKeepsInvariant ==
  ASSUME IInv, NEW c \in Cell, MarkCell(c)
  PROVE  IInv'
<1> USE DEF IInv
<1>1. /\ ZoneOf \in [Cell -> Zone] /\ Null \notin Cell
      /\ Marking \subseteq Cell /\ Swept \subseteq Cell /\ Swept \cap Marking = {}
      /\ background = {} /\ Dead = toSweep /\ Dead \subseteq Swept
      /\ used \cap Marking \subseteq Kept /\ Kept = used \ toSweep /\ Kept \subseteq used
      /\ used \subseteq Cell
  BY CollectorFacts DEF MarkCell, Control
<1>2. /\ UNCHANGED <<wrappers, roots, grayRoots, zoneState, needsBarrier, scheduled, phase, pc,
                    limited, firstSlice, lastMark, repeat, grayBuffer, buffered, incoming,
                    groups, abortSweep, background>>
      /\ Marking' = Marking /\ Swept' = Swept /\ phase # "none" /\ pc \in {"mark", "sweep"}
      /\ phase = pc
  <2>1. /\ UNCHANGED <<wrappers, roots, grayRoots, zoneState, needsBarrier, scheduled, phase, pc,
                    limited, firstSlice, lastMark, repeat, grayBuffer, buffered, incoming,
                    groups, abortSweep, background>>
        /\ pc \in {"mark", "sweep"}
    BY DEF MarkCell, heapVars, markVars, sliceVars, grayVars, sweepVars, Free
  <2> QED
    BY <2>1 DEF Marking, Swept, In, ZonesIn, Control
<1>2a. /\ c \in stack /\ c \in Marking /\ c \in used /\ c \in Kept /\ mark[c] = "black"
       /\ c \notin garbage /\ field[c] \in Kept \cup {Null} /\ field[c] \notin garbage
       /\ UNCHANGED <<used, field, delayed, toSweep, garbage>>
       /\ Kept' = Kept
  <2>1. /\ c \in stack /\ c \in Marking /\ c \in used /\ c \in Kept /\ mark[c] = "black"
        /\ UNCHANGED <<used, field, delayed, toSweep, background, garbage>>
    BY <1>1 DEF MarkCell, ListInv, WithMark, heapVars, sweepVars
  <2>2. c \notin garbage /\ field[c] \notin garbage
    BY <2>1 DEF GarbageInv
  <2> QED
    BY <2>1, <2>2 DEF KeptInv, Kept, Dead
<1>2b. /\ mark \in [Cell -> {"white", "gray", "black"}]
       /\ mark' \in [Cell -> {"white", "gray", "black"}]
       /\ \A y \in Cell : \/ mark'[y] = mark[y]
                          \/ /\ y = field[c] /\ y \in Marking /\ y \in stack'
                             /\ mark[y] = "white" /\ mark'[y] = "black"
       /\ \A y \in stack : y # c => y \in stack'
       /\ \A y \in stack' : y \in stack \/ (y = field[c] /\ y \in Marking /\ mark'[y] = "black")
       /\ field[c] \in Marking => mark'[field[c]] # "white"
  <2>1. mark \in [Cell -> {"white", "gray", "black"}]
    BY DEF TypeOK
  <2>2. field[c] # Null => /\ field[c] \in Cell
                           /\ (zoneState[ZoneOf[field[c]]] = "Mark" <=> field[c] \in Marking)
    BY <1>1, <1>2a DEF Marking, In, ZonesIn
  <2>3. CASE field[c] # Null /\ field[c] \in Marking /\ mark[field[c]] = "white"
    <3>1. mark' = [mark EXCEPT ![field[c]] = "black"] /\ stack' = (stack \ {c}) \cup {field[c]}
      BY <2>2, <2>3 DEF MarkCell
    <3> QED
      BY <2>1, <2>2, <2>3, <3>1
  <2>4. CASE ~(field[c] # Null /\ field[c] \in Marking /\ mark[field[c]] = "white")
    <3>1. mark' = mark /\ stack' = stack \ {c}
      BY <2>2, <2>4 DEF MarkCell
    <3> QED
      BY <1>1, <2>1, <2>2, <2>4, <3>1
  <2> QED
    BY <2>3, <2>4
<1>3. TypeOK'
  <2>1. stack' \subseteq used' /\ delayed' \subseteq used'
    <3>1. stack \subseteq used /\ delayed \subseteq used
      BY DEF TypeOK
    <3> QED
      BY <1>1, <1>2a, <1>2b, <3>1
  <2> QED
    BY <1>1, <1>2, <1>2a, <1>2b, <2>1 DEF TypeOK
<1>4. ListInv'
  <2>1. stack' \subseteq Marking' \cap WithMark(mark, "black")'
    <3>1. \A y \in stack : y \in Marking /\ y \in used /\ y \in Cell /\ mark[y] = "black"
      BY <1>1 DEF ListInv, WithMark
    <3>2. \A y \in stack' : y \in Marking /\ y \in used' /\ mark'[y] = "black"
      BY <1>1, <3>1, <1>2a, <1>2b
    <3> QED
      BY <1>1, <3>2 DEF WithMark
  <2>2. delayed' \subseteq Marking'
    BY <1>1, <1>2, <1>2a, <1>2b DEF ListInv
  <2>3. \A x \in used' \cap Marking' : mark'[x] # "gray"
    BY <1>1, <1>2, <1>2a, <1>2b DEF ListInv, TypeOK
  <2>4. \A x \in Cell \ used' : field'[x] = Null
    BY <1>1, <1>2, <1>2a, <1>2b DEF ListInv
  <2>5. toSweep' \subseteq Swept'
    BY <1>1, <1>2, <1>2a, <1>2b DEF ListInv
  <2>6. \A v \in incoming' : v \in Swept' /\ field'[v] \in Marking' /\ mark'[v] # "white"
    BY <1>1, <1>2, <1>2a, <1>2b DEF ListInv, TypeOK
  <2> QED
    BY <2>1, <2>2, <2>3, <2>4, <2>5, <2>6 DEF ListInv
<1>5. KeptInv'
  <2>1. \A x \in Kept' : field'[x] \in Kept' \cup {Null}
    BY <1>1, <1>2, <1>2a, <1>2b DEF KeptInv
  <2>2. roots' \cup grayRoots' \subseteq Kept'
    BY <1>1, <1>2, <1>2a, <1>2b DEF KeptInv
  <2>3. wrappers' = {x \in Kept' : IsWrapper(x)'}
    BY <1>1, <1>2, <1>2a, <1>2b DEF KeptInv, IsWrapper
  <2> QED
    BY <2>1, <2>2, <2>3 DEF KeptInv
<1>6. GarbageInv'
  <2>1. /\ phase' = "none" => garbage' \subseteq background'
        /\ phase' # "none" => garbage' \subseteq Marking' \cup toSweep'
    BY <1>1, <1>2, <1>2a, <1>2b DEF GarbageInv
  <2>2. garbage' \cap (roots' \cup grayRoots' \cup grayBuffer' \cup delayed') = {}
    BY <1>1, <1>2, <1>2a, <1>2b DEF GarbageInv
  <2>3. \A x \in used' \ garbage' : field'[x] \notin garbage'
    BY <1>1, <1>2, <1>2a, <1>2b DEF GarbageInv, TypeOK
  <2>4. \A x \in garbage' \cap Marking' : mark'[x] = "white"
    BY <1>1, <1>2, <1>2a, <1>2b DEF GarbageInv, TypeOK
  <2> QED
    BY <2>1, <2>2, <2>3, <2>4 DEF GarbageInv
<1>7. Onward
  <2>1. \A x \in used \cap Marking :
          /\ x \in used'
          /\ mark'[x] = mark[x] \/ (mark[x] = "white" /\ mark'[x] = "black" /\ x \in stack')
    BY <1>1, <1>2, <1>2a, <1>2b DEF TypeOK
  <2>2. \A x \in Cell : field[x] \in ToMark => field'[x] = field[x] \/ mark'[field[x]] = "black"
    BY <1>1, <1>2, <1>2a, <1>2b DEF ToMark, WithMark, TypeOK
  <2>3. \A x \in stack :
           /\ x \in stack' \/ (field[x] \in ToMark => mark'[field[x]] = "black")
           /\ x \in Cell
    BY <1>1, <1>2, <1>2a, <1>2b DEF TypeOK, ToMark, WithMark
  <2>4. \A x \in delayed : x \in delayed'
    BY <1>1, <1>2, <1>2a, <1>2b
  <2>5. \A v \in Exposed :
           v \in Cell /\ (v \in Exposed' \/ (field[v] \in ToMark => mark'[field[v]] = "black"))
    <3>1. \A v \in incoming : v \in Cell /\ v \in wrappers /\ v \notin Marking
      BY <1>1 DEF TypeOK, ListInv
    <3>2. \A v \in incoming : mark'[v] = mark[v] /\ v \in incoming'
      BY <1>2, <3>1, <1>2a, <1>2b
    <3> QED
      BY <3>1, <3>2 DEF Exposed
  <2> QED
    BY <1>1, <1>2, <2>1, <2>2, <2>3, <2>4, <2>5 DEF Onward, TypeOK
<1>8. NoNewGray
  <2> SUFFICES ASSUME NEW x \in Kept', x \in Swept, mark'[x] = "gray", field'[x] \in Marking
               PROVE  /\ x \in Kept /\ mark[x] = "gray" /\ field'[x] = field[x]
                      /\ x \in incoming => x \in incoming'
    BY DEF NoNewGray
  <2>1. x \in Cell /\ x \notin Marking /\ field'[x] \in Cell
    BY <1>1, <1>3 DEF TypeOK, Marking, In
  <2> QED
    BY <1>1, <1>2, <2>1, <1>2a, <1>2b
<1>9. NoNewWayBack
  <2> SUFFICES ASSUME NEW v \in wrappers', v \in Marking, field'[v] \in Marking,
                      mark'[v] = "white", mark'[field'[v]] = "white", v \notin delayed'
               PROVE  /\ v \in wrappers /\ v \notin delayed /\ field'[v] = field[v]
                      /\ mark[v] = "white" /\ mark[field[v]] = "white"
    BY DEF NoNewWayBack
  <2>1. v \in Cell /\ field'[v] \in Cell
    BY <1>1, <1>3 DEF TypeOK, Marking, In
  <2> QED
    BY <1>1, <1>2, <2>1, <1>2a, <1>2b DEF TypeOK
<1>10. Control'
  BY <1>1, <1>2, <1>2a, <1>2b DEF Control, ZonesIn, Drained
<1>11. ASSUME UnderWay, NEW T \in SUBSET Cell, SafeSet(T)
       PROVE  \E N \in SUBSET Cell : SafelyExtends(T, N)
  <2> DEFINE N == {}
  <2>1. /\ \A x \in used \cap Marking : mark[x] = "black" => x \in T
        /\ \A x \in used' \cap Marking' : mark'[x] = "black" => x \in Blackened'
        /\ \A x \in delayed' \cap used' \cap Marking' : mark'[x] = "white" => x \in Due'
        /\ Due' \subseteq Blackened'
    BY <1>3, <1>11, BlackenedCells
  <2>2. /\ T \subseteq Kept /\ roots \subseteq T
        /\ \A x \in Kept \ Marking : (x \in Swept => mark[x] # "gray") => x \in T
        /\ \A x \in T : field[x] \in T \cup {Null}
        /\ \A x \in used \cap Marking : field[x] \notin Marking => field[x] \in T \cup {Null}
        /\ buffered => grayRoots \cap Marking \subseteq grayBuffer \cup T
        /\ T \in SUBSET Cell /\ Blackened \subseteq T
    BY <1>11 DEF SafeSet
  <2>4. T \cup N \subseteq Kept' /\ roots' \subseteq T \cup N
    BY <1>1, <1>2, <1>5, <2>2, <1>2a, <1>2b DEF KeptInv
  <2>5. \A x \in used' \cap Marking : mark'[x] = "black" => x \in T \cup N
    BY <1>1, <1>2, <2>1, <2>2, <1>2a, <1>2b DEF TypeOK
  <2>6. \A x \in Kept' \ Marking : (x \in Swept => mark'[x] # "gray") => x \in T \cup N
    <3>1. Kept \subseteq Cell
      BY <1>1
    <3> QED
      BY <1>1, <1>2, <2>2, <3>1, <1>2a, <1>2b
  <2>7. \A x \in T \cup N : field'[x] \in T \cup N \cup Due' \cup {Null}
    BY <1>1, <1>2, <2>2, <1>2a, <1>2b
  <2>8. N \cap Marking \subseteq Blackened'
    BY <1>1, <1>2, <2>1, <1>2a, <1>2b DEF ListInv, TypeOK
  <2>9. \A x \in used' \cap Marking : field'[x] \notin Marking => field'[x] \in T \cup N \cup {Null}
    BY <1>1, <1>2, <2>2, <1>2a, <1>2b
  <2>10. buffered => grayRoots' \cap Marking \subseteq grayBuffer \cup T \cup N
    BY <1>1, <1>2, <2>2, <1>2a, <1>2b
  <2>11. N \in SUBSET Cell
    BY <1>1, <2>2, <1>2a, <1>2b
  <2> QED
    BY <2>4, <2>5, <2>6, <2>7, <2>8, <2>9, <2>10, <2>11 DEF SafelyExtends
<1> QED
  BY <1>2, <1>3, <1>4, <1>5, <1>6, <1>7, <1>8, <1>9, <1>10, <1>11, OnwardKeepsInvariant

\* Marking an arena.
LEMMA MarkArenaKeepsInvariant ==
  ASSUME IInv, NEW c \in Cell, MarkArena(c)
  PROVE  IInv'
<1> USE DEF IInv
<1>1. /\ ZoneOf \in [Cell -> Zone] /\ Null \notin Cell
      /\ Marking \subseteq Cell /\ Swept \subseteq Cell /\ Swept \cap Marking = {}
      /\ background = {} /\ Dead = toSweep /\ Dead \subseteq Swept
      /\ used \cap Marking \subseteq Kept /\ Kept = used \ toSweep /\ Kept \subseteq used
      /\ used \subseteq Cell
  BY CollectorFacts DEF MarkArena, Control
<1>2. /\ UNCHANGED <<wrappers, roots, grayRoots, zoneState, needsBarrier, scheduled, phase, pc,
                    limited, firstSlice, lastMark, repeat, grayBuffer, buffered, incoming,
                    groups, abortSweep, background>>
      /\ Marking' = Marking /\ Swept' = Swept /\ phase # "none" /\ pc \in {"mark", "sweep"}
      /\ phase = pc
  <2>1. /\ UNCHANGED <<wrappers, roots, grayRoots, zoneState, needsBarrier, scheduled, phase, pc,
                    limited, firstSlice, lastMark, repeat, grayBuffer, buffered, incoming,
                    groups, abortSweep, background>>
        /\ pc \in {"mark", "sweep"}
    BY DEF MarkArena, heapVars, markVars, sliceVars, grayVars, sweepVars, Free
  <2> QED
    BY <2>1 DEF Marking, Swept, In, ZonesIn, Control
<1>2a. /\ c \in delayed /\ c \in Marking /\ c \in used /\ c \in Kept /\ mark[c] # "gray"
       /\ c \notin garbage /\ stack = {} /\ delayed' = delayed \ {c}
       /\ UNCHANGED <<used, field, toSweep, garbage>>
       /\ Kept' = Kept
  <2>1. /\ c \in delayed /\ c \in Marking /\ c \in used /\ c \in Kept /\ mark[c] # "gray"
        /\ stack = {} /\ delayed' = delayed \ {c} /\ c \notin garbage
        /\ UNCHANGED <<used, field, toSweep, background, garbage>>
    BY <1>1 DEF MarkArena, ListInv, WithMark, heapVars, sweepVars, TypeOK, GarbageInv
  <2> QED
    BY <2>1 DEF Kept, Dead
<1>2b. /\ mark \in [Cell -> {"white", "gray", "black"}]
       /\ mark' \in [Cell -> {"white", "gray", "black"}]
       /\ \A y \in Cell : \/ mark'[y] = mark[y]
                          \/ /\ y = c /\ y \in Marking /\ y \in stack'
                             /\ mark[y] = "white" /\ mark'[y] = "black"
       /\ \A y \in stack' : y = c
       /\ mark'[c] = "black"
  <2>1. mark \in [Cell -> {"white", "gray", "black"}]
    BY DEF TypeOK
  <2>2. mark' = [mark EXCEPT ![c] = "black"] /\ stack' = IF mark[c] = "white" THEN {c} ELSE {}
    BY DEF MarkArena
  <2> QED
    BY <1>2a, <2>1, <2>2
<1>3. TypeOK'
  <2>1. stack' \subseteq used' /\ delayed' \subseteq used'
    <3>1. stack \subseteq used /\ delayed \subseteq used
      BY DEF TypeOK
    <3> QED
      BY <1>1, <1>2a, <1>2b, <3>1
  <2> QED
    BY <1>1, <1>2, <1>2a, <1>2b, <2>1 DEF TypeOK
<1>4. ListInv'
  <2>1. stack' \subseteq Marking' \cap WithMark(mark, "black")'
    <3>1. \A y \in stack : y \in Marking /\ y \in used /\ y \in Cell /\ mark[y] = "black"
      BY <1>1 DEF ListInv, WithMark
    <3>2. \A y \in stack' : y \in Marking /\ y \in used' /\ mark'[y] = "black"
      BY <1>1, <3>1, <1>2a, <1>2b
    <3> QED
      BY <1>1, <3>2 DEF WithMark
  <2>2. delayed' \subseteq Marking'
    BY <1>1, <1>2, <1>2a, <1>2b DEF ListInv
  <2>3. \A x \in used' \cap Marking' : mark'[x] # "gray"
    BY <1>1, <1>2, <1>2a, <1>2b DEF ListInv, TypeOK
  <2>4. \A x \in Cell \ used' : field'[x] = Null
    BY <1>1, <1>2, <1>2a, <1>2b DEF ListInv
  <2>5. toSweep' \subseteq Swept'
    BY <1>1, <1>2, <1>2a, <1>2b DEF ListInv
  <2>6. \A v \in incoming' : v \in Swept' /\ field'[v] \in Marking' /\ mark'[v] # "white"
    BY <1>1, <1>2, <1>2a, <1>2b DEF ListInv, TypeOK
  <2> QED
    BY <2>1, <2>2, <2>3, <2>4, <2>5, <2>6 DEF ListInv
<1>5. KeptInv'
  <2>1. \A x \in Kept' : field'[x] \in Kept' \cup {Null}
    BY <1>1, <1>2, <1>2a, <1>2b DEF KeptInv
  <2>2. roots' \cup grayRoots' \subseteq Kept'
    BY <1>1, <1>2, <1>2a, <1>2b DEF KeptInv
  <2>3. wrappers' = {x \in Kept' : IsWrapper(x)'}
    BY <1>1, <1>2, <1>2a, <1>2b DEF KeptInv, IsWrapper
  <2> QED
    BY <2>1, <2>2, <2>3 DEF KeptInv
<1>6. GarbageInv'
  <2>1. /\ phase' = "none" => garbage' \subseteq background'
        /\ phase' # "none" => garbage' \subseteq Marking' \cup toSweep'
    BY <1>1, <1>2, <1>2a, <1>2b DEF GarbageInv
  <2>2. garbage' \cap (roots' \cup grayRoots' \cup grayBuffer' \cup delayed') = {}
    BY <1>1, <1>2, <1>2a, <1>2b DEF GarbageInv
  <2>3. \A x \in used' \ garbage' : field'[x] \notin garbage'
    BY <1>1, <1>2, <1>2a, <1>2b DEF GarbageInv, TypeOK
  <2>4. \A x \in garbage' \cap Marking' : mark'[x] = "white"
    BY <1>1, <1>2, <1>2a, <1>2b DEF GarbageInv, TypeOK
  <2> QED
    BY <2>1, <2>2, <2>3, <2>4 DEF GarbageInv
<1>7. Onward
  <2>1. \A x \in used \cap Marking :
          /\ x \in used'
          /\ mark'[x] = mark[x] \/ (mark[x] = "white" /\ mark'[x] = "black" /\ x \in stack')
    BY <1>1, <1>2, <1>2a, <1>2b DEF TypeOK
  <2>2. \A x \in Cell : field[x] \in ToMark => field'[x] = field[x] \/ mark'[field[x]] = "black"
    BY <1>1, <1>2, <1>2a, <1>2b DEF ToMark, WithMark, TypeOK
  <2>3. \A x \in stack : x \in stack' /\ x \in Cell
    BY <1>1, <1>2, <1>2a, <1>2b DEF TypeOK
  <2>4. \A x \in delayed : x \in delayed' \/ mark'[x] = "black"
    BY <1>1, <1>2, <1>2a, <1>2b
  <2>5. \A v \in Exposed :
           v \in Cell /\ (v \in Exposed' \/ (field[v] \in ToMark => mark'[field[v]] = "black"))
    <3>1. \A v \in incoming : v \in Cell /\ v \in wrappers /\ v \notin Marking
      BY <1>1 DEF TypeOK, ListInv
    <3>2. \A v \in incoming : mark'[v] = mark[v] /\ v \in incoming'
      BY <1>2, <3>1, <1>2a, <1>2b
    <3> QED
      BY <3>1, <3>2 DEF Exposed
  <2> QED
    BY <1>1, <1>2, <2>1, <2>2, <2>3, <2>4, <2>5 DEF Onward, TypeOK
<1>8. NoNewGray
  <2> SUFFICES ASSUME NEW x \in Kept', x \in Swept, mark'[x] = "gray", field'[x] \in Marking
               PROVE  /\ x \in Kept /\ mark[x] = "gray" /\ field'[x] = field[x]
                      /\ x \in incoming => x \in incoming'
    BY DEF NoNewGray
  <2>1. x \in Cell /\ x \notin Marking /\ field'[x] \in Cell
    BY <1>1, <1>3 DEF TypeOK, Marking, In
  <2> QED
    BY <1>1, <1>2, <2>1, <1>2a, <1>2b
<1>9. NoNewWayBack
  <2> SUFFICES ASSUME NEW v \in wrappers', v \in Marking, field'[v] \in Marking,
                      mark'[v] = "white", mark'[field'[v]] = "white", v \notin delayed'
               PROVE  /\ v \in wrappers /\ v \notin delayed /\ field'[v] = field[v]
                      /\ mark[v] = "white" /\ mark[field[v]] = "white"
    BY DEF NoNewWayBack
  <2>1. v \in Cell /\ field'[v] \in Cell
    BY <1>1, <1>3 DEF TypeOK, Marking, In
  <2> QED
    BY <1>1, <1>2, <2>1, <1>2a, <1>2b DEF TypeOK
<1>10. Control'
  BY <1>1, <1>2, <1>2a, <1>2b DEF Control, ZonesIn, Drained
<1>11. ASSUME UnderWay, NEW T \in SUBSET Cell, SafeSet(T)
       PROVE  \E N \in SUBSET Cell : SafelyExtends(T, N)
  <2> DEFINE N == {}
  <2>1. /\ \A x \in used \cap Marking : mark[x] = "black" => x \in T
        /\ \A x \in used' \cap Marking' : mark'[x] = "black" => x \in Blackened'
        /\ \A x \in delayed' \cap used' \cap Marking' : mark'[x] = "white" => x \in Due'
        /\ Due' \subseteq Blackened'
    BY <1>3, <1>11, BlackenedCells
  <2>2. /\ T \subseteq Kept /\ roots \subseteq T
        /\ \A x \in Kept \ Marking : (x \in Swept => mark[x] # "gray") => x \in T
        /\ \A x \in T : field[x] \in T \cup {Null}
        /\ \A x \in used \cap Marking : field[x] \notin Marking => field[x] \in T \cup {Null}
        /\ buffered => grayRoots \cap Marking \subseteq grayBuffer \cup T
        /\ T \in SUBSET Cell /\ Blackened \subseteq T
    BY <1>11 DEF SafeSet
  <2>3. mark[c] = "white" => c \in T
    <3>1. Least(Due, field, DueStart, ToMark)
      BY DueIsLeast
    <3>2. mark[c] = "white" => c \in DueStart /\ c \in ToMark
      BY <1>2a DEF DueStart, ToMark, WithMark
    <3> QED
      BY <2>2, <3>1, <3>2 DEF Least, Blackened
  <2>4. T \cup N \subseteq Kept' /\ roots' \subseteq T \cup N
    BY <1>1, <1>2, <1>5, <2>2, <1>2a, <1>2b, <2>3 DEF KeptInv
  <2>5. \A x \in used' \cap Marking : mark'[x] = "black" => x \in T \cup N
    BY <1>1, <1>2, <2>1, <2>2, <1>2a, <1>2b, <2>3 DEF TypeOK
  <2>6. \A x \in Kept' \ Marking : (x \in Swept => mark'[x] # "gray") => x \in T \cup N
    <3>1. Kept \subseteq Cell
      BY <1>1
    <3> QED
      BY <1>1, <1>2, <2>2, <3>1, <1>2a, <1>2b, <2>3
  <2>7. \A x \in T \cup N : field'[x] \in T \cup N \cup Due' \cup {Null}
    BY <1>1, <1>2, <2>2, <1>2a, <1>2b, <2>3
  <2>8. N \cap Marking \subseteq Blackened'
    BY <1>1, <1>2, <2>1, <1>2a, <1>2b, <2>3 DEF ListInv, TypeOK
  <2>9. \A x \in used' \cap Marking : field'[x] \notin Marking => field'[x] \in T \cup N \cup {Null}
    BY <1>1, <1>2, <2>2, <1>2a, <1>2b, <2>3
  <2>10. buffered => grayRoots' \cap Marking \subseteq grayBuffer \cup T \cup N
    BY <1>1, <1>2, <2>2, <1>2a, <1>2b, <2>3
  <2>11. N \in SUBSET Cell
    BY <1>1, <2>2, <1>2a, <1>2b, <2>3
  <2> QED
    BY <2>4, <2>5, <2>6, <2>7, <2>8, <2>9, <2>10, <2>11 DEF SafelyExtends
<1> QED
  BY <1>2, <1>3, <1>4, <1>5, <1>6, <1>7, <1>8, <1>9, <1>10, <1>11, OnwardKeepsInvariant

\* Finalization by the collector.
LEMMA FinalizeKeepsInvariant ==
  ASSUME IInv, NEW c \in Cell, Finalize(c)
  PROVE  IInv'
<1> USE DEF IInv
<1>1. /\ ZoneOf \in [Cell -> Zone] /\ Null \notin Cell
      /\ Marking \subseteq Cell /\ Swept \subseteq Cell /\ Swept \cap Marking = {}
      /\ background = {} /\ Dead = toSweep /\ Dead \subseteq Swept
      /\ used \cap Marking \subseteq Kept /\ Kept = used \ toSweep /\ Kept \subseteq used
      /\ used \subseteq Cell
  BY CollectorFacts DEF Finalize, Control
<1>2. /\ UNCHANGED <<wrappers, roots, grayRoots, zoneState, needsBarrier, scheduled, phase, pc,
                    limited, firstSlice, lastMark, repeat, grayBuffer, buffered, incoming,
                    groups, abortSweep, background>>
      /\ Marking' = Marking /\ Swept' = Swept /\ phase # "none" /\ pc \in {"mark", "sweep"}
      /\ phase = pc
  <2>1. /\ UNCHANGED <<wrappers, roots, grayRoots, zoneState, needsBarrier, scheduled, phase, pc,
                    limited, firstSlice, lastMark, repeat, grayBuffer, buffered, incoming,
                    groups, abortSweep, background>>
        /\ pc \in {"mark", "sweep"}
    BY DEF Finalize, heapVars, markVars, sliceVars, grayVars, sweepVars, Free
  <2> QED
    BY <2>1 DEF Marking, Swept, In, ZonesIn, Control
<1>2a. /\ c \in toSweep /\ c \in Swept /\ c \notin Marking /\ c \notin Kept /\ pc = "sweep"
       /\ used' = used \ {c} /\ toSweep' = toSweep \ {c} /\ garbage' = garbage \ {c}
       /\ stack = {} /\ delayed = {}
       /\ UNCHANGED <<mark, stack, delayed>>
       /\ Kept' = Kept
  <2>1. /\ c \in toSweep /\ used' = used \ {c} /\ toSweep' = toSweep \ {c}
        /\ garbage' = garbage \ {c} /\ pc = "sweep" /\ stack = {} /\ delayed = {}
        /\ UNCHANGED <<mark, stack, delayed, background>>
    BY DEF Finalize, Free, markVars, Drained
  <2> QED
    BY <1>1, <2>1 DEF Kept, Dead
<1>2b. /\ field'[c] = Null /\ \A x \in Cell : x # c => field'[x] = field[x]
       /\ field' \in [Cell -> Cell \cup {Null}]
       /\ mark \in [Cell -> {"white", "gray", "black"}]
       /\ \A x \in Kept : x # c /\ field[x] # c
       /\ \A x \in used \cap Marking : x # c /\ field[x] # c
       /\ \A x \in wrappers : x # c
       /\ \A x \in Kept : IsWrapper(x)' <=> IsWrapper(x)
  <2>1. /\ field'[c] = Null /\ \A x \in Cell : x # c => field'[x] = field[x]
        /\ field' \in [Cell -> Cell \cup {Null}]
        /\ mark \in [Cell -> {"white", "gray", "black"}]
    BY DEF Finalize, Free, TypeOK
  <2>2. \A x \in Kept : x # c /\ field[x] # c
    BY <1>1, <1>2a DEF KeptInv
  <2> QED
    BY <1>1, <1>2a, <2>1, <2>2 DEF KeptInv, IsWrapper
<1>3. TypeOK'
  <2>1. stack' \subseteq used' /\ delayed' \subseteq used'
    <3>1. stack \subseteq used /\ delayed \subseteq used
      BY DEF TypeOK
    <3> QED
      BY <1>1, <1>2a, <1>2b, <3>1
  <2> QED
    BY <1>1, <1>2, <1>2a, <1>2b, <2>1 DEF TypeOK
<1>4. ListInv'
  <2>1. stack' \subseteq Marking' \cap WithMark(mark, "black")'
    <3>1. \A y \in stack : y \in Marking /\ y \in used /\ y \in Cell /\ mark[y] = "black"
      BY <1>1 DEF ListInv, WithMark
    <3>2. \A y \in stack' : y \in Marking /\ y \in used' /\ mark'[y] = "black"
      BY <1>1, <3>1, <1>2a, <1>2b
    <3> QED
      BY <1>1, <3>2 DEF WithMark
  <2>2. delayed' \subseteq Marking'
    BY <1>1, <1>2, <1>2a, <1>2b DEF ListInv
  <2>3. \A x \in used' \cap Marking' : mark'[x] # "gray"
    BY <1>1, <1>2, <1>2a, <1>2b DEF ListInv, TypeOK
  <2>4. \A x \in Cell \ used' : field'[x] = Null
    BY <1>1, <1>2, <1>2a, <1>2b DEF ListInv
  <2>5. toSweep' \subseteq Swept'
    BY <1>1, <1>2, <1>2a, <1>2b DEF ListInv
  <2>6. \A v \in incoming' : v \in Swept' /\ field'[v] \in Marking' /\ mark'[v] # "white"
    BY <1>1, <1>2, <1>2a, <1>2b DEF ListInv, TypeOK
  <2> QED
    BY <2>1, <2>2, <2>3, <2>4, <2>5, <2>6 DEF ListInv
<1>5. KeptInv'
  <2>1. \A x \in Kept' : field'[x] \in Kept' \cup {Null}
    BY <1>1, <1>2, <1>2a, <1>2b DEF KeptInv
  <2>2. roots' \cup grayRoots' \subseteq Kept'
    BY <1>1, <1>2, <1>2a, <1>2b DEF KeptInv
  <2>3. wrappers' = {x \in Kept' : IsWrapper(x)'}
    BY <1>1, <1>2, <1>2a, <1>2b DEF KeptInv, IsWrapper
  <2> QED
    BY <2>1, <2>2, <2>3 DEF KeptInv
<1>6. GarbageInv'
  <2>1. /\ phase' = "none" => garbage' \subseteq background'
        /\ phase' # "none" => garbage' \subseteq Marking' \cup toSweep'
    BY <1>1, <1>2, <1>2a, <1>2b DEF GarbageInv
  <2>2. garbage' \cap (roots' \cup grayRoots' \cup grayBuffer' \cup delayed') = {}
    BY <1>1, <1>2, <1>2a, <1>2b DEF GarbageInv
  <2>3. \A x \in used' \ garbage' : field'[x] \notin garbage'
    BY <1>1, <1>2, <1>2a, <1>2b DEF GarbageInv, TypeOK
  <2>4. \A x \in garbage' \cap Marking' : mark'[x] = "white"
    BY <1>1, <1>2, <1>2a, <1>2b DEF GarbageInv, TypeOK
  <2> QED
    BY <2>1, <2>2, <2>3, <2>4 DEF GarbageInv
<1>7. Onward
  <2>1. \A x \in used \cap Marking :
          /\ x \in used'
          /\ mark'[x] = mark[x] \/ (mark[x] = "white" /\ mark'[x] = "black" /\ x \in stack')
    BY <1>1, <1>2, <1>2a, <1>2b DEF TypeOK
  <2>2. \A x \in Cell \ {c} : field[x] \in ToMark => field'[x] = field[x] \/ mark'[field[x]] = "black"
    BY <1>1, <1>2, <1>2a, <1>2b DEF ToMark, WithMark, TypeOK
  <2>3. \A x \in stack : x \in stack' /\ x \in Cell \ {c}
    BY <1>1, <1>2, <1>2a, <1>2b DEF TypeOK
  <2>4. \A x \in delayed : x \in delayed'
    BY <1>1, <1>2, <1>2a, <1>2b
  <2>5. \A v \in Exposed :
           v \in Cell \ {c} /\ (v \in Exposed' \/ (field[v] \in ToMark => mark'[field[v]] = "black"))
    <3>1. \A v \in incoming : v \in Cell \ {c} /\ v \in wrappers /\ v \notin Marking
      BY <1>1, <1>2b DEF TypeOK, ListInv
    <3>2. \A v \in incoming : mark'[v] = mark[v] /\ v \in incoming'
      BY <1>2, <3>1, <1>2a, <1>2b
    <3> QED
      BY <3>1, <3>2 DEF Exposed
  <2> QED
    BY <1>1, <1>2, <2>1, <2>2, <2>3, <2>4, <2>5, <1>2a, <1>2b DEF Onward, TypeOK
<1>8. NoNewGray
  <2> SUFFICES ASSUME NEW x \in Kept', x \in Swept, mark'[x] = "gray", field'[x] \in Marking
               PROVE  /\ x \in Kept /\ mark[x] = "gray" /\ field'[x] = field[x]
                      /\ x \in incoming => x \in incoming'
    BY DEF NoNewGray
  <2>1. x \in Cell /\ x \notin Marking /\ field'[x] \in Cell
    BY <1>1, <1>3 DEF TypeOK, Marking, In
  <2> QED
    BY <1>1, <1>2, <2>1, <1>2a, <1>2b
<1>9. NoNewWayBack
  <2> SUFFICES ASSUME NEW v \in wrappers', v \in Marking, field'[v] \in Marking,
                      mark'[v] = "white", mark'[field'[v]] = "white", v \notin delayed'
               PROVE  /\ v \in wrappers /\ v \notin delayed /\ field'[v] = field[v]
                      /\ mark[v] = "white" /\ mark[field[v]] = "white"
    BY DEF NoNewWayBack
  <2>1. v \in Cell /\ field'[v] \in Cell
    BY <1>1, <1>3 DEF TypeOK, Marking, In
  <2> QED
    BY <1>1, <1>2, <2>1, <1>2a, <1>2b DEF TypeOK
<1>10. Control'
  BY <1>1, <1>2, <1>2a, <1>2b DEF Control, ZonesIn, Drained
<1>11. ASSUME UnderWay, NEW T \in SUBSET Cell, SafeSet(T)
       PROVE  \E N \in SUBSET Cell : SafelyExtends(T, N)
  <2> DEFINE N == {}
  <2>1. /\ \A x \in used \cap Marking : mark[x] = "black" => x \in T
        /\ \A x \in used' \cap Marking' : mark'[x] = "black" => x \in Blackened'
        /\ \A x \in delayed' \cap used' \cap Marking' : mark'[x] = "white" => x \in Due'
        /\ Due' \subseteq Blackened'
    BY <1>3, <1>11, BlackenedCells
  <2>2. /\ T \subseteq Kept /\ roots \subseteq T
        /\ \A x \in Kept \ Marking : (x \in Swept => mark[x] # "gray") => x \in T
        /\ \A x \in T : field[x] \in T \cup {Null}
        /\ \A x \in used \cap Marking : field[x] \notin Marking => field[x] \in T \cup {Null}
        /\ buffered => grayRoots \cap Marking \subseteq grayBuffer \cup T
        /\ T \in SUBSET Cell /\ Blackened \subseteq T
    BY <1>11 DEF SafeSet
  <2>4. T \cup N \subseteq Kept' /\ roots' \subseteq T \cup N
    BY <1>1, <1>2, <1>5, <2>2, <1>2a, <1>2b DEF KeptInv
  <2>5. \A x \in used' \cap Marking : mark'[x] = "black" => x \in T \cup N
    BY <1>1, <1>2, <2>1, <2>2, <1>2a, <1>2b DEF TypeOK
  <2>6. \A x \in Kept' \ Marking : (x \in Swept => mark'[x] # "gray") => x \in T \cup N
    <3>1. Kept \subseteq Cell
      BY <1>1
    <3> QED
      BY <1>1, <1>2, <2>2, <3>1, <1>2a, <1>2b
  <2>7. \A x \in T \cup N : field'[x] \in T \cup N \cup Due' \cup {Null}
    BY <1>1, <1>2, <2>2, <1>2a, <1>2b
  <2>8. N \cap Marking \subseteq Blackened'
    BY <1>1, <1>2, <2>1, <1>2a, <1>2b DEF ListInv, TypeOK
  <2>9. \A x \in used' \cap Marking : field'[x] \notin Marking => field'[x] \in T \cup N \cup {Null}
    BY <1>1, <1>2, <2>2, <1>2a, <1>2b
  <2>10. buffered => grayRoots' \cap Marking \subseteq grayBuffer \cup T \cup N
    BY <1>1, <1>2, <2>2, <1>2a, <1>2b
  <2>11. N \in SUBSET Cell
    BY <1>1, <2>2, <1>2a, <1>2b
  <2> QED
    BY <2>4, <2>5, <2>6, <2>7, <2>8, <2>9, <2>10, <2>11 DEF SafelyExtends
<1> QED
  BY <1>2, <1>3, <1>4, <1>5, <1>6, <1>7, <1>8, <1>9, <1>10, <1>11, OnwardKeepsInvariant

-----------------------------------------------------------------------------
(* The beginning and the end of a slice, and the groups.                   *)

\* Asking for a collection, the end of a slice, the beginning of another, and a
\* collection of no zone.
LEMMA SliceKeepsInvariant ==
  ASSUME IInv,
         \/ UNCHANGED vars
         \/ Collect
         \/ Yield
         \/ \E budget \in BOOLEAN : Continue(budget)
         \/ \E budget \in BOOLEAN : BeginMark(budget) /\ scheduled = {}
         \/ FinishMarking /\ EndSlice(zoneState, FALSE)
               /\ UNCHANGED <<heapVars, markVars, zoneState, phase, limited, firstSlice, repeat,
                              grayVars, sweepVars, garbage, bounds>>
  PROVE  IInv'
<1> USE DEF IInv
<1>1. CASE UNCHANGED vars
  <2>1. Still
    BY <1>1 DEF vars, Still
  <2>2. TypeOK' /\ Control'
    BY <1>1 DEF vars, heapVars, markVars, sliceVars, grayVars, sweepVars, TypeOK, Control, ZonesIn,
                Drained
  <2> QED
    BY <2>1, <2>2, StillKeepsInvariant
<1>2. CASE Collect
  <2>1. Still
    BY <1>2 DEF Collect, Still
  <2>2. TypeOK'
    BY <1>2 DEF Collect, heapVars, markVars, sliceVars, grayVars, sweepVars, TypeOK
  <2>3. Control'
    BY <1>2 DEF Collect, markVars, sliceVars, grayVars, sweepVars, Control, ZonesIn, Drained
  <2> QED
    BY <2>1, <2>2, <2>3, StillKeepsInvariant
<1>3. CASE Yield
  <2>1. Still
    BY <1>3 DEF Yield, Still
  <2>2. TypeOK'
    BY <1>3 DEF Yield, EndSlice, heapVars, markVars, sliceVars, grayVars, sweepVars, TypeOK
  <2>3. Control'
    BY <1>3 DEF Yield, EndSlice, markVars, sliceVars, grayVars, sweepVars, Control, ZonesIn,
                Drained
  <2> QED
    BY <2>1, <2>2, <2>3, StillKeepsInvariant
<1>4. ASSUME NEW budget \in BOOLEAN, Continue(budget)
      PROVE  IInv'
  <2>1. Still
    BY <1>4 DEF Continue, Still
  <2>2. TypeOK'
    BY <1>4 DEF Continue, heapVars, markVars, grayVars, sweepVars, TypeOK
  <2>3. Control'
    BY <1>4 DEF Continue, markVars, grayVars, sweepVars, Control, TypeOK, Drained
  <2> QED
    BY <2>1, <2>2, <2>3, StillKeepsInvariant
<1>5. ASSUME NEW budget \in BOOLEAN, BeginMark(budget), scheduled = {}
      PROVE  IInv'
  <2>1. Still
    BY <1>5 DEF BeginMark, Still
  <2>2. TypeOK'
    BY <1>5 DEF BeginMark, heapVars, markVars, sliceVars, grayVars, sweepVars, TypeOK
  <2>3. Control'
    BY <1>5 DEF BeginMark, markVars, sliceVars, grayVars, sweepVars, Control, ZonesIn, Drained
  <2> QED
    BY <2>1, <2>2, <2>3, StillKeepsInvariant
<1>6. CASE FinishMarking /\ EndSlice(zoneState, FALSE)
               /\ UNCHANGED <<heapVars, markVars, zoneState, phase, limited, firstSlice, repeat,
                              grayVars, sweepVars, garbage, bounds>>
  <2>1. Still
    BY <1>6 DEF Still
  <2>2. TypeOK'
    BY <1>6 DEF EndSlice, heapVars, markVars, grayVars, sweepVars, TypeOK
  <2>3. Control'
    BY <1>6 DEF FinishMarking, EndSlice, markVars, grayVars, sweepVars, Control, ZonesIn, Drained
  <2> QED
    BY <2>1, <2>2, <2>3, StillKeepsInvariant
<1> QED
  BY <1>1, <1>2, <1>3, <1>4, <1>5, <1>6

\* Sweeping a group.
LEMMA GroupKeepsInvariant ==
  ASSUME IInv, NEW order, NEW state, Sweepable(order, state), SweepStep(order, state)
  PROVE  IInv'
<1> USE DEF IInv
<1>1. PICK black, gray \in SUBSET Cell : GroupSwept(order, state, black, gray)
  BY SweepMarks
<1>2. PICK T \in SUBSET Cell : SafeSet(T)
  BY DEF SafeInv, UnderWay, SweepStep
<1>3. TypeOK'
  BY <1>1, SweepTypes
<1>4. Control' /\ GroupInv'
  BY <1>1, SweepControl
<1>5. ListInv'
  BY <1>1, SweepLists
<1>6. KeptInv'
  BY <1>1, <1>2, <1>3, SweepKept
<1>7. SafeSet(T)'
  BY <1>1, <1>2, <1>3, SweepSafe
<1>8. SafeInv'
  BY <1>7 DEF SafeInv
<1>9. GrayInv'
  BY <1>1, <1>2, <1>3, SweepGray
<1>10. OrderInv'
  BY <1>1, SweepOrder
<1>11. GarbageInv'
  BY <1>1, SweepGarbage
<1> QED
  BY <1>3, <1>4, <1>5, <1>6, <1>8, <1>9, <1>10, <1>11

\* The end of marking.
LEMMA FinishMarkingKeepsInvariant ==
  ASSUME IInv, FinishMarking
  PROVE  IInv'
BY FinishMarkingSweeps, SliceKeepsInvariant, GroupKeepsInvariant DEF IInv

\* The next group.
LEMMA NextGroupKeepsInvariant ==
  ASSUME IInv, NextGroup
  PROVE  IInv'
BY NextGroupSweeps, GroupKeepsInvariant DEF IInv

-----------------------------------------------------------------------------
(* The beginning and the end of a collection.                              *)

\* A collection that is reset: the invariant asks nothing more of what it marked.
LEMMA ResetKeepsInvariant ==
  ASSUME IInv, Reset
  PROVE  IInv'
<1> USE DEF IInv
<1>1. /\ pc = "cycle" /\ phase # "none" /\ background = {} /\ ~abortSweep
      /\ phase \in {"none", "mark", "sweep"}
      /\ stack' = {} /\ delayed' = {} /\ needsBarrier' = {}
      /\ UNCHANGED <<used, field, wrappers, roots, grayRoots, mark, scheduled, groups, toSweep,
                     background, bounds>>
  BY DEF Reset, heapVars, Control, TypeOK
<1>2. CASE phase = "mark"
  <2>1. /\ zoneState' = [z \in Zone |-> "NoGC"] /\ grayBuffer' = {} /\ buffered' = FALSE
        /\ incoming' = {} /\ phase' = "none" /\ garbage' = {}
        /\ UNCHANGED <<pc, limited, firstSlice, lastMark, repeat, abortSweep>>
    BY <1>2 DEF Reset, sliceVars
  <2>2. toSweep = {} /\ groups = <<>>
    BY <1>2 DEF Control
  <2>3. Marking' = {} /\ Swept' = {} /\ Kept' = Kept /\ ~(UnderWay') /\ ZonesIn("Mark")' = {}
    BY <1>1, <2>1 DEF Marking, Swept, Kept, Dead, In, ZonesIn, UnderWay
  <2>4. TypeOK'
    BY <1>1, <2>1 DEF TypeOK
  <2>5. Control'
    BY <1>1, <2>1, <2>2, <2>3 DEF Control
  <2>6. GroupInv'
    BY <2>1 DEF GroupInv
  <2>7. ListInv'
    BY <1>1, <2>1, <2>2, <2>3 DEF ListInv
  <2>8. KeptInv'
    BY <1>1, <2>3 DEF KeptInv, IsWrapper
  <2>9. SafeInv' /\ GrayInv' /\ OrderInv'
    BY <2>3 DEF SafeInv, GrayInv, OrderInv
  <2>10. GarbageInv'
    BY <2>1 DEF GarbageInv
  <2> QED
    BY <2>4, <2>5, <2>6, <2>7, <2>8, <2>9, <2>10
<1>3. CASE phase = "sweep"
  <2>1. /\ abortSweep' = TRUE /\ repeat' = TRUE /\ limited' = FALSE /\ firstSlice' = FALSE
        /\ pc' = "sweep"
        /\ UNCHANGED <<zoneState, grayBuffer, buffered, incoming, phase, lastMark, garbage>>
    BY <1>3 DEF Reset, grayVars
  <2>2. Marking' = Marking /\ Swept' = Swept /\ Kept' = Kept /\ ~(UnderWay')
    BY <1>1, <2>1 DEF Marking, Swept, Kept, Dead, In, ZonesIn, UnderWay
  <2>3. TypeOK'
    BY <1>1, <2>1 DEF TypeOK
  <2>4. Control'
    BY <1>1, <1>3, <2>1 DEF Control, Drained
  <2>5. GroupInv'
    BY <1>1, <2>1 DEF GroupInv
  <2>6. ListInv'
    BY <1>1, <2>1, <2>2 DEF ListInv, WithMark
  <2>7. KeptInv'
    BY <1>1, <2>2 DEF KeptInv, IsWrapper
  <2>8. SafeInv' /\ GrayInv' /\ OrderInv'
    BY <2>2 DEF SafeInv, GrayInv, OrderInv
  <2>9. GarbageInv'
    BY <1>1, <2>1, <2>2 DEF GarbageInv
  <2> QED
    BY <2>3, <2>4, <2>5, <2>6, <2>7, <2>8, <2>9
<1> QED
  BY <1>1, <1>2, <1>3

\* The end of sweeping: what is still queued is left to the helper thread.
LEMMA EndSweepKeepsInvariant ==
  ASSUME IInv, EndSweep
  PROVE  IInv'
<1> USE DEF IInv
<1>1. /\ phase = "sweep" /\ background = {} /\ stack = {} /\ delayed = {}
      /\ zoneState' = [z \in Zone |-> "NoGC"] /\ groups' = <<>> /\ abortSweep' = FALSE
      /\ grayBuffer' = {} /\ buffered' = FALSE /\ incoming' = {} /\ phase' = "none"
      /\ background' = toSweep /\ toSweep' = {} /\ repeat' = FALSE
      /\ EndSlice(zoneState', repeat)
      /\ UNCHANGED <<used, field, wrappers, roots, grayRoots, mark, stack, delayed,
                     limited, firstSlice, lastMark, bounds>>
  BY DEF EndSweep, Drained, heapVars, markVars, Control
<1>2. /\ ZoneOf \in [Cell -> Zone] /\ Null \notin Cell
      /\ Marking \subseteq Cell /\ Swept \cap Marking = {} /\ Dead \subseteq Swept
      /\ used \cap Marking \subseteq Kept /\ used \subseteq Cell /\ Kept = used \ toSweep
  BY <1>1, CollectorFacts
<1>3. Marking' = {} /\ Swept' = {} /\ Dead' = Dead /\ Kept' = Kept /\ ~(UnderWay')
      /\ ZonesIn("Mark")' = {}
  BY <1>1 DEF Marking, Swept, Kept, Dead, In, ZonesIn, UnderWay
<1>4. needsBarrier' = {} /\ scheduled' \subseteq Zone /\ pc' \in {"cycle", "program"}
  BY <1>1 DEF EndSlice, TypeOK
<1>5. garbage' \subseteq garbage
  BY DEF EndSweep
<1>6. garbage' \subseteq toSweep
  <2>1. garbage \subseteq Marking \cup toSweep
    BY <1>1 DEF GarbageInv
  <2>2. /\ groups \in Seq(SUBSET Zone) /\ groups # <<>>
        /\ \A z \in Zone : zoneState[z] = "Mark" <=> z \in UNION Range(Tail(groups))
    BY <1>1 DEF GroupInv, TypeOK
  <2>3. \A c \in Marking : c \in In(UNION Range(Tail(groups)))
    BY <1>2, <2>2 DEF Marking, In, ZonesIn
  <2>4. CASE abortSweep
    <3>1. garbage' = garbage \ In(UNION Range(Tail(groups)))
      BY <2>4 DEF EndSweep
    <3> QED
      BY <2>1, <2>3, <3>1
  <2>5. CASE ~abortSweep
    <3>1. Len(groups) = 1
      BY <2>5 DEF EndSweep
    <3>2. \A z : z \in UNION Range(Tail(groups)) <=> \E i \in DOMAIN groups : i # 1 /\ z \in groups[i]
      BY <2>2, GroupSequence
    <3>3. \A i \in DOMAIN groups : i = 1
      BY <2>2, <3>1
    <3>4. Marking = {}
      BY <2>3, <3>2, <3>3 DEF In
    <3> QED
      BY <1>5, <2>1, <3>4
  <2> QED
    BY <2>4, <2>5
<1>7. TypeOK'
  BY <1>1, <1>4, <1>5 DEF TypeOK
<1>8. Control'
  BY <1>1, <1>3, <1>4 DEF Control
<1>9. GroupInv'
  BY <1>1 DEF GroupInv
<1>10. ListInv'
  BY <1>1, <1>3 DEF ListInv
<1>11. KeptInv'
  BY <1>1, <1>3 DEF KeptInv, IsWrapper
<1>12. SafeInv' /\ GrayInv' /\ OrderInv'
  BY <1>3 DEF SafeInv, GrayInv, OrderInv
<1>13. GarbageInv'
  <2>1. garbage' \cap (roots \cup grayRoots) = {}
    BY <1>5 DEF GarbageInv
  <2>2. \A x \in used \ garbage' : field[x] \notin garbage'
    <3> SUFFICES ASSUME NEW x \in used, x \notin garbage', field[x] \in garbage'
                 PROVE  FALSE
      OBVIOUS
    <3>1. CASE x \notin garbage
      BY <1>5, <3>1 DEF GarbageInv
    <3>2. CASE x \in toSweep
      <4>1. field[x] \in Cell /\ field[x] \in toSweep /\ x \in garbage
        BY <1>2, <1>5, <1>6, <3>1 DEF TypeOK
      <4>2. x \notin Marking
        BY <1>1, <1>2, <3>2 DEF Dead
      <4>3. abortSweep /\ garbage' = garbage \ In(UNION Range(Tail(groups)))
        BY <4>1 DEF EndSweep
      <4>4. x \in In(UNION Range(Tail(groups)))
        BY <4>1, <4>3
      <4>5. \A z \in Zone : zoneState[z] = "Mark" <=> z \in UNION Range(Tail(groups))
        BY <1>1 DEF GroupInv
      <4> QED
        BY <1>2, <4>2, <4>4, <4>5 DEF Marking, In, ZonesIn
    <3>3. CASE x \notin toSweep
      BY <1>2, <1>6, <3>3 DEF KeptInv, TypeOK
    <3> QED
      BY <3>1, <3>2, <3>3
  <2> QED
    BY <1>1, <1>3, <1>6, <2>1, <2>2 DEF GarbageInv
<1> QED
  BY <1>7, <1>8, <1>9, <1>10, <1>11, <1>12, <1>13

\* Finalization by the helper thread, between collections.
LEMMA FinalizeInBackgroundKeepsInvariant ==
  ASSUME IInv, NEW c \in Cell, FinalizeInBackground(c)
  PROVE  IInv'
<1> USE DEF IInv
<1>1. /\ c \in background /\ background' = background \ {c} /\ used' = used \ {c}
      /\ field' = [field EXCEPT ![c] = Null] /\ garbage' = garbage \ {c}
      /\ UNCHANGED <<wrappers, roots, grayRoots, mark, stack, delayed, zoneState, needsBarrier,
                     scheduled, phase, pc, limited, firstSlice, lastMark, repeat, grayBuffer,
                     buffered, incoming, groups, abortSweep, toSweep, bounds>>
  BY DEF FinalizeInBackground, Free, markVars, sliceVars, grayVars
<1>2. phase = "none" /\ stack = {} /\ delayed = {} /\ incoming = {} /\ toSweep = {}
      /\ \A z \in Zone : zoneState[z] = "NoGC"
  BY <1>1 DEF Control
<1>3. ZoneOf \in [Cell -> Zone] /\ Null \notin Cell /\ field \in [Cell -> Cell \cup {Null}]
      /\ used \subseteq Cell
  BY GCAssumption DEF GCAssumption, TypeOK
<1>4. Marking' = {} /\ Marking = {} /\ ~(UnderWay')
  BY <1>1, <1>2 DEF Marking, In, ZonesIn, UnderWay
<1>5. Kept' = Kept /\ c \notin Kept
  BY <1>1 DEF Kept, Dead
<1>6. /\ field' \in [Cell -> Cell \cup {Null}]
      /\ \A x \in Cell : x # c => field'[x] = field[x]
      /\ field'[c] = Null
  BY <1>1, <1>3
<1>7. \A x \in Kept : x \in Cell /\ x # c /\ field[x] # c
  BY <1>3, <1>5 DEF KeptInv, Kept
<1>8. TypeOK'
  BY <1>1, <1>2, <1>6 DEF TypeOK
<1>9. Control'
  BY <1>1, <1>2 DEF Control, ZonesIn, Drained
<1>10. GroupInv'
  BY <1>1, <1>2 DEF GroupInv
<1>11. ListInv'
  BY <1>1, <1>2, <1>3, <1>4, <1>6 DEF ListInv
<1>12. KeptInv'
  <2>1. \A x \in Kept : IsWrapper(x)' <=> IsWrapper(x)
    BY <1>6, <1>7 DEF IsWrapper
  <2> QED
    BY <1>1, <1>5, <1>6, <1>7, <2>1 DEF KeptInv
<1>13. SafeInv' /\ GrayInv' /\ OrderInv'
  BY <1>4 DEF SafeInv, GrayInv, OrderInv
<1>14. GarbageInv'
  <2>1. \A x \in used' \ garbage' : field'[x] \notin garbage'
    BY <1>1, <1>3, <1>6 DEF GarbageInv
  <2> QED
    BY <1>1, <1>2, <1>4, <2>1 DEF GarbageInv
<1> QED
  BY <1>8, <1>9, <1>10, <1>11, <1>12, <1>13, <1>14

\* The beginning of a collection.  The safe set is what is or will be black, and all
\* that is held or lies in the zones not collected.
LEMMA BeginMarkKeepsInvariant ==
  ASSUME IInv, NEW budget \in BOOLEAN, BeginMark(budget), scheduled # {}
  PROVE  IInv'
<1> USE DEF IInv
<1>a. DEFINE marked == BlackRoots(scheduled)
             start == roots \cup grayRoots \cup (wrappers \ In(scheduled))
<1>1. /\ phase = "none" /\ background = {} /\ incoming = {} /\ toSweep = {} /\ groups = <<>>
      /\ ~abortSweep
      /\ zoneState' = [z \in Zone |-> IF z \in scheduled THEN "Mark" ELSE "NoGC"]
      /\ stack' = marked /\ delayed' = {}
      /\ \/ buffered' = TRUE /\ grayBuffer' = grayRoots \cap In(scheduled)
         \/ buffered' = FALSE /\ grayBuffer' = {}
      /\ limited' = buffered' /\ firstSlice' = TRUE /\ lastMark' = FALSE /\ repeat' = FALSE
      /\ phase' = "mark" /\ pc' = "mark"
      /\ garbage' = (used \cap In(scheduled)) \ Reach(start)
      /\ UNCHANGED <<used, field, wrappers, roots, grayRoots, incoming, scheduled, needsBarrier,
                     groups, abortSweep, toSweep, background>>
  BY DEF BeginMark, Control, heapVars, sweepVars
<1>2. /\ ZoneOf \in [Cell -> Zone] /\ Null \notin Cell /\ used \subseteq Cell
      /\ scheduled \subseteq Zone /\ field \in [Cell -> Cell \cup {Null}]
      /\ mark \in [Cell -> {"white", "gray", "black"}]
  BY GCAssumption DEF GCAssumption, TypeOK
<1>3. /\ Marking' = In(scheduled) /\ Swept' = {} /\ Dead' = {} /\ Kept = used /\ Kept' = used
      /\ In(scheduled) \subseteq Cell
  BY <1>1, <1>2 DEF Marking, Swept, Dead, Kept, In, ZonesIn
<1>4. \A c \in used : field[c] \in used \cup {Null}
  BY <1>3 DEF KeptInv
<1>5. /\ roots \cup grayRoots \subseteq used /\ wrappers = {c \in used : IsWrapper(c)}
  BY <1>3 DEF KeptInv
<1>6. \A c \in Cell : c \in marked <=>
         c \in Marking' /\ (c \in roots \/ \E w \in wrappers : w \notin Marking' /\ c = field[w])
  BY <1>3 DEF BlackRoots
<1>7. marked \subseteq used /\ marked \subseteq Marking'
  BY <1>2, <1>3, <1>4, <1>5 DEF BlackRoots, IsWrapper
<1> HIDE DEF marked
<1>8. mark' = [c \in Cell |-> IF c \in marked THEN "black"
                              ELSE IF c \in Marking' THEN "white" ELSE mark[c]]
  BY <1>3 DEF BeginMark, Paint, marked
<1>9. TypeOK'
  BY <1>1, <1>2, <1>5, <1>7, <1>8 DEF TypeOK
<1>10. Control'
  <2>1. \A z \in Zone : zoneState'[z] \in {"NoGC", "Mark"}
    BY <1>1
  <2>2. \E z \in Zone : zoneState'[z] = "Mark"
    BY <1>1, <1>2
  <2> QED
    BY <1>1, <2>1, <2>2 DEF Control
<1>11. GroupInv'
  BY <1>1 DEF GroupInv
<1>12. ListInv'
  <2>1. stack' \subseteq Marking' \cap WithMark(mark, "black")'
    BY <1>1, <1>2, <1>7, <1>8 DEF WithMark
  <2>2. \A c \in used' \cap Marking' : mark'[c] # "gray"
    BY <1>1, <1>2, <1>8
  <2> QED
    BY <1>1, <1>3, <2>1, <2>2 DEF ListInv
<1>13. KeptInv'
  BY <1>1, <1>3, <1>4, <1>5 DEF KeptInv, IsWrapper
<1>14. \E T \in SUBSET Cell : SafeSet(T)'
  <2>1. PICK T : T = roots \cup (used \ Marking') \cup Blackened'
    OBVIOUS
  <2>2. /\ Due' \subseteq ToMark' /\ DueStart' \cap ToMark' \subseteq Due'
        /\ \A c \in Due' : field[c] \in ToMark' => field[c] \in Due'
    BY <1>1, <1>9, DueIsLeast DEF Least
  <2>3. ToMark' = {c \in used \cap Marking' : mark'[c] = "white"}
    BY <1>1, <1>2 DEF ToMark, WithMark
  <2>4. Blackened' = {c \in used \cap Marking' : mark'[c] = "black"} \cup Due'
    BY <1>1, <1>2 DEF Blackened, WithMark
  <2>5. Blackened' \subseteq used \cap Marking'
    BY <2>2, <2>3, <2>4
  <2>6. marked \subseteq Blackened'
    BY <1>2, <1>7, <1>8, <2>4
  <2>7. roots \cap Marking' \subseteq marked
    BY <1>2, <1>5, <1>6
  <2>8. T \cap Marking' \subseteq Blackened'
    BY <2>1, <2>6, <2>7
  <2>9. ASSUME NEW c \in T
        PROVE  field[c] \in T \cup {Null}
    <3>1. c \in used
      BY <1>5, <2>1, <2>5, <2>9
    <3>2. CASE field[c] \notin Marking'
      BY <1>4, <2>1, <3>1, <3>2
    <3>3. CASE field[c] \in Marking' /\ c \notin Marking'
      <4>1. field[c] \in used /\ field[c] # Null
        BY <1>2, <1>3, <1>4, <3>1, <3>3
      <4>2. ZoneOf[field[c]] # ZoneOf[c]
        BY <1>2, <1>3, <3>1, <3>3 DEF In
      <4>3. c \in wrappers
        BY <1>5, <3>1, <4>1, <4>2 DEF IsWrapper
      <4> QED
        BY <1>2, <1>6, <2>1, <2>6, <3>3, <4>1, <4>3
    <3>4. CASE field[c] \in Marking' /\ c \in Marking'
      <4>1. field[c] \in used /\ field[c] \in Cell
        BY <1>2, <1>3, <1>4, <3>1, <3>4
      <4>2. c \in Blackened'
        BY <2>8, <2>9, <3>4
      <4>3. mark'[field[c]] \in {"black", "white"}
        BY <1>8, <3>4, <4>1
      <4>4. CASE mark'[field[c]] = "black"
        BY <2>1, <2>4, <3>4, <4>1, <4>4
      <4>5. CASE mark'[field[c]] = "white"
        <5>1. field[c] \in ToMark'
          BY <2>3, <3>4, <4>1, <4>5
        <5>2. CASE c \in Due'
          BY <2>1, <2>2, <2>4, <5>1, <5>2
        <5>3. CASE c \notin Due'
          <6>1. c \in stack'
            BY <1>1, <1>2, <1>8, <2>4, <4>2, <5>3
          <6>2. field[c] \in DueStart'
            BY <1>1, <6>1 DEF DueStart
          <6> QED
            BY <2>1, <2>2, <2>4, <5>1, <6>2
        <5> QED
          BY <5>2, <5>3
      <4> QED
        BY <4>3, <4>4, <4>5
    <3> QED
      BY <3>2, <3>3, <3>4
  <2>10. T \subseteq used /\ T \subseteq Cell
    BY <1>2, <1>5, <2>1, <2>5
  <2>11. \A c \in used \cap Marking' : field[c] \notin Marking' => field[c] \in T \cup {Null}
    BY <1>4, <2>1
  <2>12. buffered' => grayRoots' \cap Marking' \subseteq grayBuffer' \cup T
    BY <1>1, <1>3
  <2>13. SafeSet(T)'
    BY <1>1, <1>3, <2>1, <2>8, <2>9, <2>10, <2>11, <2>12 DEF SafeSet
  <2> QED
    BY <2>10, <2>13
<1>15. SafeInv'
  BY <1>14 DEF SafeInv
<1>16. GrayInv'
  BY <1>3 DEF GrayInv
<1>17. OrderInv'
  BY <1>1 DEF OrderInv, NoWayBack
<1>18. GarbageInv'
  <2>1. /\ start \subseteq Reach(start)
        /\ \A c \in Reach(start) : field[c] \in Cell => field[c] \in Reach(start)
    <3>1. Reach(start) = Follow(field, start, Cell)
      BY SpreadIsFollow DEF Reach
    <3>2. /\ start \cap Cell \subseteq Follow(field, start, Cell)
          /\ \A c \in Follow(field, start, Cell) :
                field[c] \in Cell => field[c] \in Follow(field, start, Cell)
      BY FollowIsLeastClosed, GCAssumption
    <3>3. start \subseteq Cell
      BY <1>2, <1>5
    <3> QED
      BY <3>1, <3>2, <3>3
  <2>2. garbage' = {c \in used \cap Marking' : c \notin Reach(start)}
    BY <1>1, <1>3
  <2>3. garbage' \cap (roots \cup grayRoots) = {}
    BY <2>1, <2>2
  <2>4. \A w \in wrappers : w \notin Marking' => w \in Reach(start)
    BY <1>3, <2>1
  <2> HIDE DEF start
  <2>5. ASSUME NEW c \in used \ garbage', field[c] \in garbage'
        PROVE  FALSE
    <3>1. field[c] \in Cell /\ field[c] \in Marking' /\ field[c] \notin Reach(start)
      BY <1>2, <2>2, <2>5
    <3>2. c \notin Reach(start) /\ c \notin Marking'
      BY <2>1, <2>2, <2>5, <3>1
    <3>3. ZoneOf[field[c]] # ZoneOf[c] /\ field[c] # Null
      BY <1>2, <1>3, <3>1, <3>2 DEF In
    <3> QED
      BY <1>5, <2>4, <3>2, <3>3 DEF IsWrapper
  <2>6. \A c \in garbage' \cap Marking' : mark'[c] = "white"
    <3>1. \A w \in wrappers : w \in Cell
      BY <1>2, <1>5
    <3>2. \A c \in garbage' : c \notin marked
      BY <1>2, <1>6, <2>1, <2>2, <2>3, <2>4
    <3> QED
      BY <1>2, <1>8, <2>2, <3>2
  <2> QED
    BY <1>1, <2>2, <2>3, <2>5, <2>6 DEF GarbageInv
<1> QED
  BY <1>9, <1>10, <1>11, <1>12, <1>13, <1>15, <1>16, <1>17, <1>18

-----------------------------------------------------------------------------
(* The theorems.                                                           *)

\* The heaps to begin with satisfy the invariant.
LEMMA InitEstablishesInvariant ==
  ASSUME Init
  PROVE  IInv
<1>1. PICK heap \in InitialHeaps : /\ used = heap.used /\ field = heap.field
                                   /\ roots = heap.roots /\ grayRoots = heap.grayRoots
  BY DEF Init
<1>2. /\ used \subseteq Cell /\ field \in [Cell -> Cell \cup {Null}]
      /\ roots \cup grayRoots \subseteq used
      /\ \A c \in Cell : field[c] # Null => {c, field[c]} \subseteq used
      /\ Null \notin Cell
  <2>1. /\ heap.used \subseteq Cell /\ heap.field \in [Cell -> Cell \cup {Null}]
        /\ heap.roots \cup heap.grayRoots \subseteq heap.used
        /\ \A c \in Cell : heap.field[c] # Null => {c, heap.field[c]} \subseteq heap.used
        /\ Null \notin Cell
    BY GCAssumption DEF GCAssumption
  <2> QED
    BY <1>1, <2>1
<1>3. /\ wrappers = {c \in used : IsWrapper(c)} /\ phase = "none" /\ pc = "program"
      /\ mark = [c \in Cell |-> "white"] /\ zoneState = [z \in Zone |-> "NoGC"]
      /\ needsBarrier = {} /\ scheduled = {} /\ stack = {} /\ delayed = {}
      /\ grayBuffer = {} /\ incoming = {} /\ groups = <<>> /\ abortSweep = FALSE
      /\ toSweep = {} /\ background = {} /\ garbage = {}
  BY DEF Init
<1>4. Marking = {} /\ Kept = used /\ ZonesIn("Mark") = {} /\ ~UnderWay
  BY <1>2, <1>3 DEF Marking, Kept, Dead, In, ZonesIn, UnderWay
<1>5. TypeOK
  BY <1>2, <1>3 DEF TypeOK
<1>6. Control
  BY <1>3, <1>4 DEF Control
<1>7. GroupInv
  BY <1>3 DEF GroupInv
<1>8. ListInv
  BY <1>2, <1>3, <1>4 DEF ListInv
<1>9. KeptInv
  BY <1>2, <1>3, <1>4 DEF KeptInv
<1>10. SafeInv /\ GrayInv /\ OrderInv
  BY <1>4 DEF SafeInv, GrayInv, OrderInv
<1>11. GarbageInv
  BY <1>3 DEF GarbageInv
<1> QED
  BY <1>5, <1>6, <1>7, <1>8, <1>9, <1>10, <1>11 DEF IInv

\* Every step keeps the invariant.
LEMMA NextKeepsInvariant ==
  ASSUME IInv, [Next]_vars
  PROVE  IInv'
<1>1. CASE UNCHANGED vars
  BY <1>1, SliceKeepsInvariant
<1>2. ASSUME NEW c \in Cell, Read(c) \/ Drop(c) \/ New(c) \/ Hold(c) \/ LetGo(c)
      PROVE  IInv'
  BY <1>2, ReadKeepsInvariant, DropKeepsInvariant, NewKeepsInvariant, HoldKeepsInvariant,
     LetGoKeepsInvariant
<1>3. ASSUME NEW c \in Cell, Nuke(c)
      PROVE  IInv'
  BY <1>3, NukeKeepsInvariant
<1>4. ASSUME NEW c \in Cell, Expose(c)
      PROVE  IInv'
  BY <1>4, ExposeMarkingKeepsInvariant, ExposeGrayKeepsInvariant
<1>5. ASSUME NEW c \in Cell, NEW value \in Cell \cup {Null}, Write(c, value)
      PROVE  IInv'
  BY <1>5, WriteKeepsInvariant
<1>6. ASSUME NEW c \in Cell, NEW target \in Cell, Wrap(target, c)
      PROVE  IInv'
  BY <1>6, WrapFoundKeepsInvariant, WrapNewKeepsInvariant
<1>7. ASSUME NEW c \in Cell, MarkCell(c) \/ MarkArena(c) \/ Finalize(c) \/ FinalizeInBackground(c)
      PROVE  IInv'
  BY <1>7, MarkCellKeepsInvariant, MarkArenaKeepsInvariant, FinalizeKeepsInvariant,
     FinalizeInBackgroundKeepsInvariant
<1>8. CASE Collect \/ Yield
  BY <1>8, SliceKeepsInvariant
<1>9. CASE Reset
  BY <1>9, ResetKeepsInvariant
<1>10. CASE FinishMarking
  BY <1>10, FinishMarkingKeepsInvariant
<1>11. CASE NextGroup
  BY <1>11, NextGroupKeepsInvariant
<1>12. CASE EndSweep
  BY <1>12, EndSweepKeepsInvariant
<1>13. ASSUME NEW budget \in BOOLEAN, Continue(budget)
       PROVE  IInv'
  BY <1>13, SliceKeepsInvariant
<1>14. ASSUME NEW budget \in BOOLEAN, BeginMark(budget)
       PROVE  IInv'
  BY <1>14, SliceKeepsInvariant, BeginMarkKeepsInvariant
<1> QED
  BY <1>1, <1>2, <1>3, <1>4, <1>5, <1>6, <1>7, <1>8, <1>9, <1>10, <1>11, <1>12, <1>13, <1>14
     DEF Next

\* What is reached from within a set that the fields do not leave is in the set.
LEMMA ReachStaysInside ==
  ASSUME NEW S, NEW start \in SUBSET S, \A c \in S : field[c] \in S \cup {Null}
  PROVE  Reach(start) \subseteq S
<1>1. Reach(start) = Follow(field, start, Cell)
  BY SpreadIsFollow DEF Reach
<1>2. Least(Follow(field, start, Cell), field, start, Cell)
  BY FollowIsLeast, GCAssumption
<1>3. Null \notin Cell
  BY GCAssumption DEF GCAssumption
<1>4. \A c \in S : field[c] \in Cell => field[c] \in S
  BY <1>3
<1> QED
  BY <1>1, <1>2, <1>4 DEF Least

\* The inductive invariant of the collector.
THEOREM Invariant == Spec => []IInv
<1>1. Init => IInv
  BY InitEstablishesInvariant
<1>2. IInv /\ [Next]_vars => IInv'
  BY NextKeepsInvariant
<1> QED
  BY <1>1, <1>2, PTL DEF Spec

\* Types: the mark stack, the lists of wrappers and the finalization queues hold
\* allocated cells only.
THEOREM TypeCorrect == Spec => []TypeOK
<1>1. IInv => TypeOK
  BY DEF IInv
<1> QED
  BY <1>1, Invariant, PTL

\* No cell that the program or the embedder can reach is freed or queued to be
\* freed, whatever they do between the slices; nor is the target of a wrapper that
\* is still in the wrapper maps.
THEOREM Reachable == Spec => []ReachableIsKept
<1>1. ASSUME IInv
      PROVE  ReachableIsKept
  <2>1. \A c \in Kept : field[c] \in Kept \cup {Null}
    BY <1>1 DEF IInv, KeptInv
  <2>2. roots \cup grayRoots \in SUBSET Kept /\ roots \cup grayRoots \cup wrappers \in SUBSET Kept
    BY <1>1 DEF IInv, KeptInv
  <2>3. /\ Reach(roots \cup grayRoots) \subseteq Kept
        /\ Reach(roots \cup grayRoots \cup wrappers) \subseteq Kept
    BY <2>1, <2>2, ReachStaysInside
  <2> QED
    BY <2>3 DEF ReachableIsKept, Kept, Dead
<1> QED
  BY <1>1, Invariant, PTL

\* The snapshot: what the program can reach in a zone that is being marked is black
\* or will be.
THEOREM Snapshot == Spec => []SnapshotIsMarked
<1>1. ASSUME IInv
      PROVE  SnapshotIsMarked
  <2> SUFFICES ASSUME phase # "none", ~abortSweep
               PROVE  Reach(roots) \cap Marking \subseteq Blackened
    BY DEF SnapshotIsMarked
  <2>1. PICK T \in SUBSET Cell : SafeSet(T)
    BY <1>1 DEF IInv, SafeInv, UnderWay
  <2>2. /\ roots \subseteq T /\ T \cap Marking \subseteq Blackened
        /\ \A c \in T : field[c] \in T \cup {Null}
    BY <2>1 DEF SafeSet
  <2>3. Reach(roots) \subseteq T
    BY <2>2, ReachStaysInside
  <2> QED
    BY <2>2, <2>3
<1> QED
  BY <1>1, Invariant, PTL

\* What was garbage when a collection began, and stayed so, has been freed when it
\* is over, or been left to the helper thread.
THEOREM Garbage == Spec => []GarbageIsFreed
<1>1. IInv => GarbageIsFreed
  BY DEF IInv, GarbageInv, GarbageIsFreed
<1> QED
  BY <1>1, Invariant, PTL

=============================================================================
