------------------------ MODULE ParallelArrayLemmas ------------------------
(***************************************************************************)
(* What the operators of ParallelArray compute: how the work is cut into   *)
(* chunks and slices, what the function combines, how the survivors of a   *)
(* filter are numbered and what the sequential scatter does.               *)
(***************************************************************************)
EXTENDS ParallelArray, Numbers, FiniteSetTheorems, SequenceTheorems

-----------------------------------------------------------------------------
(* Runs of elements.                                                       *)

\* A run is a sequence of numbers, one for each element.
LEMMA RunType ==
  ASSUME NEW a \in Int, NEW b \in Int, a <= b + 1
  PROVE  /\ Run(a, b) \in Seq(Int)
         /\ Len(Run(a, b)) = b - a + 1
         /\ \A j \in 1..(b - a + 1) : Run(a, b)[j] = a + j - 1
<1>1. b - a + 1 \in Nat
  OBVIOUS
<1>2. \A j \in 1..(b - a + 1) : a + j - 1 \in Int
  OBVIOUS
<1>3. Run(a, b) \in [1..(b - a + 1) -> Int]
  BY <1>2 DEF Run
<1>4. Run(a, b) \in Seq(Int) /\ Len(Run(a, b)) = b - a + 1
  BY <1>1, <1>3
<1> QED
  BY <1>4 DEF Run

\* Two sequences with the same elements are equal.
LEMMA SameSequence ==
  ASSUME NEW p \in Seq(Int), NEW q \in Seq(Int), Len(p) = Len(q),
         \A j \in 1..Len(p) : p[j] = q[j]
  PROVE  p = q
  OBVIOUS

\* An element is a run of its own.
LEMMA ElemIsRun ==
  ASSUME NEW i \in Int
  PROVE  Elem(i) = Run(i, i) /\ Elem(i) \in Seq(Int)
<1>1. Elem(i) \in Seq(Int) /\ Len(Elem(i)) = 1 /\ Elem(i)[1] = i
  BY DEF Elem
<1>2. Run(i, i) \in Seq(Int) /\ Len(Run(i, i)) = 1 /\ Run(i, i)[1] = i
  <2>1. i <= i + 1 /\ i - i + 1 = 1 /\ 1 \in 1..(i - i + 1) /\ i + 1 - 1 = i
    OBVIOUS
  <2>2. /\ Run(i, i) \in Seq(Int)
        /\ Len(Run(i, i)) = i - i + 1
        /\ \A j \in 1..(i - i + 1) : Run(i, i)[j] = i + j - 1
    BY <2>1, RunType
  <2> QED
    BY <2>1, <2>2
<1> QED
  BY <1>1, <1>2, SameSequence

\* The function applied to two adjacent runs gives the run of both.
LEMMA RunsAdjoin ==
  ASSUME NEW a \in Int, NEW b \in Int, NEW c \in Int, a <= b + 1, b <= c
  PROVE  Func(Run(a, b), Run(b + 1, c)) = Run(a, c)
<1> DEFINE p == Run(a, b)
           q == Run(b + 1, c)
           r == Run(a, c)
<1>1. /\ p \in Seq(Int) /\ Len(p) = b - a + 1
      /\ \A j \in 1..(b - a + 1) : p[j] = a + j - 1
  BY RunType, Zenon
<1>2. /\ q \in Seq(Int) /\ Len(q) = c - b
      /\ \A j \in 1..(c - b) : q[j] = b + j
  <2>1. /\ q \in Seq(Int) /\ Len(q) = c - (b + 1) + 1
        /\ \A j \in 1..(c - (b + 1) + 1) : q[j] = (b + 1) + j - 1
    <3>1. b + 1 \in Int /\ b + 1 <= c + 1
      OBVIOUS
    <3> QED
      BY <3>1, RunType, Zenon
  <2> HIDE DEF q
  <2> QED
    BY <2>1
<1>3. /\ r \in Seq(Int) /\ Len(r) = c - a + 1
      /\ \A j \in 1..(c - a + 1) : r[j] = a + j - 1
  <2>1. a <= c + 1
    OBVIOUS
  <2> QED
    BY <2>1, RunType, Zenon
<1> HIDE DEF p, q, r
<1>4. /\ p \o q \in Seq(Int) /\ Len(p \o q) = Len(p) + Len(q)
      /\ \A j \in 1..(Len(p) + Len(q)) :
            (p \o q)[j] = IF j <= Len(p) THEN p[j] ELSE q[j - Len(p)]
  BY <1>1, <1>2, ConcatProperties, Zenon
<1>5. \A j \in 1..Len(r) : (p \o q)[j] = r[j]
  <2> SUFFICES ASSUME NEW j \in 1..(c - a + 1) PROVE (p \o q)[j] = a + j - 1
    BY <1>3
  <2>0. Len(p) \in Int
    BY <1>1
  <2>1. j \in 1..(Len(p) + Len(q))
    BY <1>1, <1>2
  <2>2. (p \o q)[j] = IF j <= Len(p) THEN p[j] ELSE q[j - Len(p)]
    BY <1>4, <2>1
  <2>3. CASE j <= Len(p)
    BY <1>1, <2>2, <2>3
  <2>4. CASE j > Len(p)
    <3>1. j - Len(p) \in 1..(c - b) /\ b + (j - Len(p)) = a + j - 1
      BY <1>1, <2>4
    <3>2. ~(j <= Len(p))
      BY <2>0, <2>4
    <3>3. (p \o q)[j] = q[j - Len(p)]
      BY <2>2, <3>2, Zenon
    <3>4. q[j - Len(p)] = b + (j - Len(p))
      BY <1>2, <3>1, Zenon
    <3> QED
      BY <3>1, <3>3, <3>4, Zenon
  <2>5. j <= Len(p) \/ j > Len(p)
    BY <2>0
  <2> QED
    BY <2>3, <2>4, <2>5, Zenon
<1>6. Len(p \o q) = Len(r)
  BY <1>1, <1>2, <1>3, <1>4
<1>7. p \o q = r
  BY <1>3, <1>4, <1>5, <1>6, SameSequence
<1> QED
  BY <1>7 DEF p, q, r, Func

\* One element more.
LEMMA RunGrows ==
  ASSUME NEW a \in Int, NEW b \in Int, a <= b
  PROVE  Func(Run(a, b - 1), Elem(b)) = Run(a, b)
<1>1. Func(Run(a, b - 1), Run((b - 1) + 1, b)) = Run(a, b)
  BY RunsAdjoin
<1>2. (b - 1) + 1 = b
  OBVIOUS
<1> QED
  BY <1>1, <1>2, ElemIsRun

\* The function is associative.
LEMMA FuncAssociative ==
  ASSUME NEW p \in Seq(Int), NEW q \in Seq(Int), NEW r \in Seq(Int)
  PROVE  /\ Func(p, q) \in Seq(Int)
         /\ Func(Func(p, q), r) = Func(p, Func(q, r))
<1>1. p \o q \in Seq(Int)
  BY ConcatProperties, Zenon
<1>2. (p \o q) \o r = p \o (q \o r)
  <2> SUFFICES ASSUME NEW pq, NEW qr, NEW x, NEW y,
                      pq = p \o q, qr = q \o r, x = pq \o r, y = p \o qr
               PROVE  x = y
    BY Zenon
  <2>0. \A u, v \in Seq(Int) :
           /\ u \o v \in Seq(Int) /\ Len(u \o v) = Len(u) + Len(v)
           /\ \A j \in 1..(Len(u) + Len(v)) :
                 (u \o v)[j] = IF j <= Len(u) THEN u[j] ELSE v[j - Len(u)]
    BY ConcatProperties, Zenon
  <2>1. /\ pq \in Seq(Int) /\ Len(pq) = Len(p) + Len(q)
        /\ \A j \in 1..(Len(p) + Len(q)) :
              pq[j] = IF j <= Len(p) THEN p[j] ELSE q[j - Len(p)]
    BY <2>0, Zenon
  <2>2. /\ qr \in Seq(Int) /\ Len(qr) = Len(q) + Len(r)
        /\ \A j \in 1..(Len(q) + Len(r)) :
              qr[j] = IF j <= Len(q) THEN q[j] ELSE r[j - Len(q)]
    BY <2>0, Zenon
  <2>3. /\ x \in Seq(Int) /\ Len(x) = Len(pq) + Len(r)
        /\ \A j \in 1..(Len(pq) + Len(r)) :
              x[j] = IF j <= Len(pq) THEN pq[j] ELSE r[j - Len(pq)]
    BY <2>0, <2>1, Zenon
  <2>4. /\ y \in Seq(Int) /\ Len(y) = Len(p) + Len(qr)
        /\ \A j \in 1..(Len(p) + Len(qr)) :
              y[j] = IF j <= Len(p) THEN p[j] ELSE qr[j - Len(p)]
    BY <2>0, <2>2, Zenon
  <2>5. Len(p) \in Nat /\ Len(q) \in Nat /\ Len(r) \in Nat
    BY LenProperties, Zenon
  <2>6. Len(x) = Len(y) /\ Len(x) = Len(p) + Len(q) + Len(r)
    BY <2>1, <2>2, <2>3, <2>4, <2>5
  <2>7. ASSUME NEW j \in 1..Len(x) PROVE x[j] = y[j]
    <3>0. j \in 1..(Len(pq) + Len(r)) /\ j \in 1..(Len(p) + Len(qr))
      BY <2>3, <2>4, <2>6
    <3>1. CASE j <= Len(p)
      <4>1. j \in 1..(Len(p) + Len(q)) /\ j <= Len(pq)
        BY <2>1, <2>5, <3>1
      <4>2. x[j] = pq[j] /\ y[j] = p[j]
        BY <2>3, <2>4, <3>0, <3>1, <4>1, Zenon
      <4>3. pq[j] = p[j]
        BY <2>1, <3>1, <4>1, Zenon
      <4> QED
        BY <4>2, <4>3
    <3>2. CASE j > Len(p) /\ j <= Len(p) + Len(q)
      <4>1. j - Len(p) \in 1..(Len(q) + Len(r)) /\ j - Len(p) <= Len(q)
        BY <2>5, <3>2
      <4>2. qr[j - Len(p)] = q[j - Len(p)]
        BY <2>2, <4>1, Zenon
      <4>3. pq[j] = q[j - Len(p)]
        BY <2>1, <2>5, <3>2
      <4>4. x[j] = pq[j] /\ y[j] = qr[j - Len(p)]
        BY <2>1, <2>3, <2>4, <2>5, <3>0, <3>2
      <4> QED
        BY <4>2, <4>3, <4>4
    <3>3. CASE j > Len(p) + Len(q)
      <4>1. j - Len(p) \in 1..(Len(q) + Len(r)) /\ ~(j - Len(p) <= Len(q))
        BY <2>5, <2>6, <3>3
      <4>2. qr[j - Len(p)] = r[(j - Len(p)) - Len(q)]
        BY <2>2, <4>1, Zenon
      <4>3. x[j] = r[j - Len(pq)]
        BY <2>1, <2>3, <2>5, <3>0, <3>3
      <4>4. y[j] = qr[j - Len(p)]
        BY <2>4, <2>5, <3>0, <3>3
      <4>5. (j - Len(p)) - Len(q) = j - Len(pq)
        BY <2>1, <2>5
      <4> QED
        BY <4>2, <4>3, <4>4, <4>5
    <3>4. j <= Len(p) \/ (j > Len(p) /\ j <= Len(p) + Len(q)) \/ j > Len(p) + Len(q)
      BY <2>5
    <3> QED
      BY <3>1, <3>2, <3>3, <3>4
  <2> QED
    BY <2>3, <2>4, <2>6, <2>7, SameSequence
<1> QED
  BY <1>1, <1>2, Zenon DEF Func

\* Reducing the runs between the bounds b[0] < b[1] < ... < b[n + 1] gives the
\* run from the first bound to the last.
LEMMA ReductionOfRuns ==
  ASSUME NEW n \in Nat, NEW b \in [0..(n + 1) -> Nat], NEW f,
         \A i \in 0..n : b[i] < b[i + 1],
         \A i \in 0..n : f[i] = Run(b[i], b[i + 1] - 1)
  PROVE  Reduction(f, n) = Run(b[0], b[n + 1] - 1)
<1> DEFINE Solves(acc) ==
             acc = [i \in 0..n |-> IF i = 0 THEN f[0] ELSE Func(acc[i - 1], f[i])]
           g == [i \in 0..n |-> Run(b[0], b[i + 1] - 1)]
           acc0 == CHOOSE acc : Solves(acc)
<1>0. \A i \in 0..n : b[0] < b[i + 1]
  <2> DEFINE T == {i \in 0..n : b[0] < b[i + 1]}
  <2>1. 0 \in T
    OBVIOUS
  <2>2. \A i \in 0..(n - 1) : i \in T => i + 1 \in T
    <3> SUFFICES ASSUME NEW i \in 0..(n - 1), b[0] < b[i + 1] PROVE b[0] < b[(i + 1) + 1]
      OBVIOUS
    <3>1. i + 1 \in 0..n /\ b[i + 1] \in Nat /\ b[(i + 1) + 1] \in Nat /\ b[0] \in Nat
      OBVIOUS
    <3>2. b[i + 1] < b[(i + 1) + 1]
      BY <3>1
    <3> QED
      BY <3>1, <3>2
  <2> HIDE DEF T
  <2>3. \A i \in 0..n : i \in T
    BY <2>1, <2>2, IntervalInduction
  <2> QED
    BY <2>3 DEF T
<1>1. \A i \in 1..n : Func(Run(b[0], b[i] - 1), f[i]) = Run(b[0], b[i + 1] - 1)
  <2> SUFFICES ASSUME NEW i \in 1..n
               PROVE  Func(Run(b[0], b[i] - 1), f[i]) = Run(b[0], b[i + 1] - 1)
    OBVIOUS
  <2>1. i - 1 \in 0..n /\ (i - 1) + 1 = i /\ i \in 0..n
    OBVIOUS
  <2>2. b[0] < b[i] /\ b[i] < b[i + 1] /\ f[i] = Run(b[i], b[i + 1] - 1)
    BY <1>0, <2>1
  <2>3. b[0] \in Nat /\ b[i] \in Nat /\ b[i + 1] \in Nat
    OBVIOUS
  <2>4. Func(Run(b[0], b[i] - 1), Run((b[i] - 1) + 1, b[i + 1] - 1)) = Run(b[0], b[i + 1] - 1)
    BY <2>2, <2>3, RunsAdjoin
  <2>5. (b[i] - 1) + 1 = b[i]
    BY <2>3
  <2> QED
    BY <2>2, <2>4, <2>5
<1>2. Solves(g)
  <2>1. \A i \in 0..n : g[i] = IF i = 0 THEN f[0] ELSE Func(g[i - 1], f[i])
    <3> SUFFICES ASSUME NEW i \in 0..n
                 PROVE  g[i] = IF i = 0 THEN f[0] ELSE Func(g[i - 1], f[i])
      OBVIOUS
    <3>1. CASE i = 0
      BY <3>1
    <3>2. CASE i # 0
      <4>1. i \in 1..n /\ i - 1 \in 0..n /\ (i - 1) + 1 = i
        BY <3>2
      <4>2. g[i - 1] = Run(b[0], b[i] - 1)
        BY <4>1
      <4> QED
        BY <1>1, <3>2, <4>1, <4>2
    <3> QED
      BY <3>1, <3>2
  <2> QED
    BY <2>1
<1>3. Solves(acc0)
  <2> HIDE DEF Solves, g
  <2> QED
    BY <1>2
<1>4. \A i \in 0..n : acc0[i] = Run(b[0], b[i + 1] - 1)
  <2> HIDE DEF acc0
  <2> DEFINE T == {i \in 0..n : acc0[i] = Run(b[0], b[i + 1] - 1)}
  <2>1. 0 \in T
    BY <1>3
  <2>2. \A i \in 0..(n - 1) : i \in T => i + 1 \in T
    <3> SUFFICES ASSUME NEW i \in 0..(n - 1), acc0[i] = Run(b[0], b[i + 1] - 1)
                 PROVE  i + 1 \in 0..n /\ acc0[i + 1] = Run(b[0], b[(i + 1) + 1] - 1)
      BY Zenon
    <3>1. i + 1 \in 1..n /\ i + 1 \in 0..n /\ i + 1 # 0 /\ (i + 1) - 1 = i
      OBVIOUS
    <3>2. acc0[i + 1] = Func(acc0[i], f[i + 1])
      BY <1>3, <3>1
    <3> QED
      BY <1>1, <3>1, <3>2
  <2> HIDE DEF T
  <2>3. \A i \in 0..n : i \in T
    BY <2>1, <2>2, IntervalInduction
  <2> QED
    BY <2>3 DEF T
<1>5. Reduction(f, n) = acc0[n]
  BY DEF Reduction
<1> HIDE DEF acc0
<1> QED
  BY <1>4, <1>5

-----------------------------------------------------------------------------
(* Chunks and slices.                                                      *)

\* The product of sums, for the provers.
LEMMA Distribute ==
  ASSUME NEW q \in Int, NEW s \in Int, NEW t \in Int
  PROVE  q * (s + t) = q * s + q * t
  OBVIOUS

\* A product does not decrease.
LEMMA ProductMonotone ==
  ASSUME NEW q \in Nat, NEW s \in Int, NEW t \in Int, s <= t
  PROVE  q * s <= q * t
<1>1. t - s \in Nat /\ q * (t - s) \in Nat
  OBVIOUS
<1>2. q * s + q * (t - s) = q * (s + (t - s))
  BY Distribute
<1>3. s + (t - s) = t
  OBVIOUS
<1>4. q * s \in Int /\ q * t \in Int
  OBVIOUS
<1> QED
  BY <1>1, <1>2, <1>3, <1>4

\* The chunks of n elements: all but the last are full, and no chunk is empty.
LEMMA NumChunks ==
  ASSUME NEW n \in Nat
  PROVE  /\ ComputeNumChunks(n) \in Nat
         /\ n <= ComputeNumChunks(n) * ChunkSize
         /\ \A c \in 0..(ComputeNumChunks(n) - 1) : c * ChunkSize < n
         /\ n > 0 => ComputeNumChunks(n) > 0
         /\ ComputeNumChunks(n) <= n
<1> DEFINE q == n \div ChunkSize
           r == n % ChunkSize
           m == ComputeNumChunks(n)
<1>0. ChunkSize \in Nat \ {0}
  BY ArrayAssumption DEF ArrayAssumption
<1>1. q \in Nat /\ r \in 0..(ChunkSize - 1) /\ n = ChunkSize * q + r
  BY <1>0, Division
<1>2. m = IF q * ChunkSize = n THEN q ELSE q + 1
  BY DEF ComputeNumChunks
<1> HIDE DEF q, r, m
<1>3. q * ChunkSize = ChunkSize * q /\ (q + 1) * ChunkSize = ChunkSize * q + ChunkSize
  BY <1>0, <1>1, Distribute
<1>4. m \in Nat /\ n <= m * ChunkSize
  BY <1>0, <1>1, <1>2, <1>3
<1>5. ASSUME NEW c \in 0..(m - 1) PROVE c * ChunkSize < n
  <2>1. CASE q * ChunkSize = n
    <3>1. c + 1 <= q /\ c + 1 \in Int /\ c \in Int
      BY <1>1, <1>2, <2>1
    <3>2. ChunkSize * (c + 1) <= ChunkSize * q
      BY <1>0, <1>1, <3>1, ProductMonotone
    <3>3. ChunkSize * (c + 1) = ChunkSize * c + ChunkSize /\ c * ChunkSize = ChunkSize * c
      BY <1>0, <3>1, Distribute
    <3>4. ChunkSize * c \in Int /\ ChunkSize * q \in Int
      BY <1>0, <1>1, <3>1
    <3> QED
      BY <1>0, <1>1, <1>3, <2>1, <3>2, <3>3, <3>4
  <2>2. CASE q * ChunkSize # n
    <3>1. c <= q /\ c \in Int
      BY <1>1, <1>2, <2>2
    <3>2. ChunkSize * c <= ChunkSize * q /\ c * ChunkSize = ChunkSize * c
      BY <1>0, <1>1, <3>1, ProductMonotone
    <3>4. ChunkSize * c \in Int /\ ChunkSize * q \in Int
      BY <1>0, <1>1, <3>1
    <3> QED
      BY <1>0, <1>1, <1>3, <2>2, <3>2, <3>4
  <2> QED
    BY <2>1, <2>2
<1>6. n > 0 => m > 0
  BY <1>0, <1>1, <1>2, <1>3
<1>7. m <= n
  <2>1. CASE m = 0
    BY <2>1
  <2>2. CASE m # 0
    <3>1. (m - 1) * ChunkSize < n
      BY <1>4, <1>5, <2>2
    <3>2. (m - 1) * 1 <= (m - 1) * ChunkSize
      BY <1>0, <1>4, <2>2, ProductMonotone
    <3>3. (m - 1) * ChunkSize \in Int /\ (m - 1) * 1 = m - 1
      BY <1>0, <1>4, <2>2
    <3> QED
      BY <1>4, <3>1, <3>2, <3>3
  <2> QED
    BY <2>1, <2>2
<1> QED
  BY <1>4, <1>5, <1>6, <1>7 DEF m

\* Where slice s of k begins, when n items are divided; slice s - 1 ends there.
SliceStart(n, k, s) == (n \div k) * s + MinOf(n % k, s)

\* The slices cover the items from the first to the last, in order.  If there
\* are as many items as slices, no slice is empty.
LEMMA SliceStarts ==
  ASSUME NEW n \in Nat, NEW k \in Nat \ {0}
  PROVE  /\ SliceStart(n, k, 0) = 0
         /\ SliceStart(n, k, k) = n
         /\ \A s \in 0..k : SliceStart(n, k, s) \in 0..n
         /\ \A s \in 0..(k - 1) :
               SliceStart(n, k, s + 1) =
                  SliceStart(n, k, s) + ((n \div k) + (IF s < n % k THEN 1 ELSE 0))
         /\ \A s, t \in 0..k : s <= t => SliceStart(n, k, s) <= SliceStart(n, k, t)
         /\ \A s \in 0..(k - 1) : n >= k => SliceStart(n, k, s) < SliceStart(n, k, s + 1)
<1> DEFINE q == n \div k
           r == n % k
<1>1. q \in Nat /\ r \in 0..(k - 1) /\ n = k * q + r
  BY Division
<1>2. \A s : SliceStart(n, k, s) = q * s + MinOf(r, s)
  BY DEF SliceStart
<1> HIDE DEF q, r
<1>3. SliceStart(n, k, 0) = 0
  BY <1>1, <1>2 DEF MinOf
<1>4. SliceStart(n, k, k) = n
  BY <1>1, <1>2 DEF MinOf
<1>5. \A s \in Nat : q * s \in Nat /\ SliceStart(n, k, s) \in Nat
  BY <1>1, <1>2 DEF MinOf
<1>6. ASSUME NEW s \in Nat
      PROVE  SliceStart(n, k, s + 1) =
                SliceStart(n, k, s) + (q + (IF s < r THEN 1 ELSE 0))
  <2>1. q * (s + 1) = q * s + q
    BY <1>1, Distribute
  <2> QED
    BY <1>1, <1>2, <1>5, <2>1 DEF MinOf
<1>7. ASSUME NEW s \in Nat, NEW t \in Nat, s <= t
      PROVE  SliceStart(n, k, s) <= SliceStart(n, k, t)
  <2>1. q * s <= q * t
    BY <1>1, <1>7, ProductMonotone
  <2>2. MinOf(r, s) \in Nat /\ MinOf(r, t) \in Nat /\ MinOf(r, s) <= MinOf(r, t)
    BY <1>1, <1>7 DEF MinOf
  <2>3. q * s \in Nat /\ q * t \in Nat
    BY <1>5
  <2> QED
    BY <1>2, <2>1, <2>2, <2>3
<1>8. \A s \in 0..k : SliceStart(n, k, s) \in 0..n
  BY <1>4, <1>5, <1>7
<1>9. n >= k => q > 0
  BY <1>1
<1>10. \A s \in 0..(k - 1) : n >= k => SliceStart(n, k, s) < SliceStart(n, k, s + 1)
  BY <1>1, <1>5, <1>6, <1>9
<1> QED
  BY <1>3, <1>4, <1>6, <1>7, <1>8, <1>10 DEF q, r

\* Every item is in a slice.
LEMMA InSomeSlice ==
  ASSUME NEW n \in Nat, NEW k \in Nat \ {0}, NEW i \in 0..(n - 1)
  PROVE  \E s \in 0..(k - 1) : SliceStart(n, k, s) <= i /\ i < SliceStart(n, k, s + 1)
<1> DEFINE T == {t \in 0..k : i < SliceStart(n, k, t)}
<1>1. k \in T
  BY SliceStarts
<1>2. T \in SUBSET Nat /\ T # {}
  BY <1>1
<1>3. PICK t \in T : \A u \in T : t <= u
  <2> HIDE DEF T
  <2> QED
    BY <1>2, LeastNumber
<1>4. t # 0
  BY SliceStarts
<1>5. t - 1 \in 0..(k - 1) /\ (t - 1) + 1 = t /\ t - 1 \in 0..k
  BY <1>4
<1>6. t - 1 \notin T
  <2> HIDE DEF T
  <2> QED
    BY <1>2, <1>3
<1>7. SliceStart(n, k, t - 1) \in Nat
  <2>1. \A u \in 0..k : SliceStart(n, k, u) \in 0..n
    BY SliceStarts
  <2> QED
    BY <1>5, <2>1
<1>8. SliceStart(n, k, t - 1) <= i
  BY <1>5, <1>6, <1>7
<1> QED
  BY <1>5, <1>8

\* The two ways of computing the bounds of the slices agree: the loop over all
\* the slices ...
LEMMA AllSliceBounds ==
  ASSUME NEW n \in Nat, NEW k \in Nat \ {0}
  PROVE  ComputeAllSliceBounds(n, k) =
            [s \in 0..(k - 1) |-> [start |-> SliceStart(n, k, s),
                                   end |-> SliceStart(n, k, s + 1),
                                   pos |-> SliceStart(n, k, s)]]
<1> DEFINE width(i) == (n \div k) + (IF i < n % k THEN 1 ELSE 0)
           Solves(c) == c = [i \in 0..k |-> IF i = 0 THEN 0 ELSE c[i - 1] + width(i - 1)]
           g == [i \in 0..k |-> SliceStart(n, k, i)]
           counter == CHOOSE c : Solves(c)
<1>1. \A i \in 1..k : SliceStart(n, k, i) = SliceStart(n, k, i - 1) + width(i - 1)
  <2> SUFFICES ASSUME NEW i \in 1..k
               PROVE  SliceStart(n, k, i) = SliceStart(n, k, i - 1) + width(i - 1)
    OBVIOUS
  <2>1. i - 1 \in 0..(k - 1) /\ (i - 1) + 1 = i
    OBVIOUS
  <2>2. \A s \in 0..(k - 1) : SliceStart(n, k, s + 1) = SliceStart(n, k, s) + width(s)
    BY SliceStarts
  <2> HIDE DEF width
  <2> QED
    BY <2>1, <2>2
<1> HIDE DEF width
<1>2. Solves(g)
  <2>1. \A i \in 0..k : g[i] = IF i = 0 THEN 0 ELSE g[i - 1] + width(i - 1)
    <3> SUFFICES ASSUME NEW i \in 0..k
                 PROVE  g[i] = IF i = 0 THEN 0 ELSE g[i - 1] + width(i - 1)
      OBVIOUS
    <3>1. CASE i = 0
      BY <3>1, SliceStarts
    <3>2. CASE i # 0
      <4>1. i \in 1..k /\ i - 1 \in 0..k
        BY <3>2
      <4> QED
        BY <1>1, <3>2, <4>1
    <3> QED
      BY <3>1, <3>2
  <2> QED
    BY <2>1
<1>3. Solves(counter)
  <2> HIDE DEF Solves, g
  <2> QED
    BY <1>2
<1>4. \A i \in 0..k : counter[i] = SliceStart(n, k, i)
  <2> HIDE DEF counter
  <2> DEFINE T == {i \in 0..k : counter[i] = SliceStart(n, k, i)}
  <2>1. 0 \in T
    BY <1>3, SliceStarts
  <2>2. \A i \in 0..(k - 1) : i \in T => i + 1 \in T
    <3> SUFFICES ASSUME NEW i \in 0..(k - 1), counter[i] = SliceStart(n, k, i)
                 PROVE  i + 1 \in 0..k /\ counter[i + 1] = SliceStart(n, k, i + 1)
      BY Zenon
    <3>1. i + 1 \in 1..k /\ i + 1 \in 0..k /\ i + 1 # 0 /\ (i + 1) - 1 = i
      OBVIOUS
    <3>2. counter[i + 1] = counter[i] + width(i)
      BY <1>3, <3>1
    <3> QED
      BY <1>1, <3>1, <3>2
  <2> HIDE DEF T
  <2>3. \A i \in 0..k : i \in T
    BY <2>1, <2>2, IntervalInduction
  <2> QED
    BY <2>3 DEF T
<1>5. ComputeAllSliceBounds(n, k) =
         [s \in 0..(k - 1) |->
            [start |-> counter[s], end |-> counter[s + 1], pos |-> counter[s]]]
  BY DEF ComputeAllSliceBounds, width
<1>6. \A s \in 0..(k - 1) : s \in 0..k /\ s + 1 \in 0..k
  OBVIOUS
<1> HIDE DEF counter
<1> QED
  BY <1>4, <1>5, <1>6

\* ... and the computation for one slice.
LEMMA OneSliceBounds ==
  ASSUME NEW n \in Nat, NEW k \in Nat \ {0}, NEW s \in 0..(k - 1)
  PROVE  ComputeSliceBounds(n, s, k) =
            [start |-> SliceStart(n, k, s), end |-> SliceStart(n, k, s + 1)]
<1>1. SliceStart(n, k, s + 1) =
         SliceStart(n, k, s) + ((n \div k) + (IF s < n % k THEN 1 ELSE 0))
  BY SliceStarts
<1>2. SliceStart(n, k, s) \in Nat /\ n \div k \in Nat
  BY SliceStarts, Division
<1>3. SliceStart(n, k, s) + (n \div k) + (IF s < n % k THEN 1 ELSE 0) = SliceStart(n, k, s + 1)
  BY <1>1, <1>2
<1> QED
  BY <1>3 DEF ComputeSliceBounds, SliceStart

-----------------------------------------------------------------------------
(* The division of an operation's work.                                    *)

\* What is divided, where slice s begins, and the element at which a chunk,
\* or the array, begins or ends.
Items == IF kind = "vector" THEN length ELSE Chunks
Bound(s) == SliceStart(Items, NumSlices, s)
Lo(s) == Bound(s) * ChunkSize
At(c) == MinOf(c * ChunkSize, length)

\* An operation's arguments, from the assumption on the operations.
LEMMA Arguments ==
  ASSUME input \in Inputs
  PROVE  /\ kind \in Kind
         /\ length \in Nat /\ length <= MaxLength
         /\ outLength \in Nat /\ outLength <= MaxLength
         /\ input.keep \subseteq 0..(length - 1)
         /\ MayCollide \in BOOLEAN
         /\ kind \in {"range", "vector"} => targets \in [0..(length - 1) -> Nat]
         /\ NumWorkers \in 1..MaxWorkers
         /\ MaxLength \in Nat /\ MaxSlices \in Nat \ {0} /\ ChunkSize \in Nat \ {0}
  BY ArrayAssumption, KernelAssumption
  DEF ArrayAssumption, KernelAssumption, kind, length, outLength, MayCollide, targets, NumWorkers

\* The number of slices is at most MaxSlices; there is a chunk for each slice
\* of a reduction or a scan that is done in parallel.
LEMMA SliceCount ==
  ASSUME input \in Inputs
  PROVE  /\ NumSlices \in 1..MaxSlices
         /\ Chunks \in Nat /\ Items \in Nat
         /\ kind \in {"reduce", "scan"} /\ ~TooSmall => Items = Chunks /\ Chunks >= NumSlices
<1> DEFINE w == NumWorkers
           p == NumWorkers * SlicesPerWorker
<1>1. w \in 1..MaxWorkers /\ MaxWorkers \in Nat /\ SlicesPerWorker \in Nat \ {0}
  BY Arguments, ArrayAssumption DEF ArrayAssumption
<1>2. MaxWorkers * SlicesPerWorker <= MaxSlices /\ MaxSlices \in Nat
  BY ArrayAssumption, KernelAssumption DEF ArrayAssumption, KernelAssumption
<1>3. p \in 1..MaxSlices /\ w <= p
  <2>1. SlicesPerWorker * w <= SlicesPerWorker * MaxWorkers
    BY <1>1, ProductMonotone
  <2>2. w * 1 <= w * SlicesPerWorker
    BY <1>1, ProductMonotone
  <2> QED
    BY <1>1, <1>2, <2>1, <2>2
<1>4. \A n, c : ComputeNumSlices(n, c) = IF n # 0 /\ c >= p THEN p ELSE w
  BY DEF ComputeNumSlices
<1>5. NumSlices = ComputeNumSlices(outLength, Chunks)
      \/ NumSlices = ComputeNumSlices(outLength, ComputeNumChunks(outLength))
      \/ NumSlices = ComputeNumSlices(length, Chunks)
  BY DEF NumSlices
<1>6. Chunks \in Nat
  BY Arguments, NumChunks DEF Chunks
<1>7. Items \in Nat
  BY <1>6, Arguments DEF Items
<1>8. kind \in {"reduce", "scan"} => NumSlices = ComputeNumSlices(length, Chunks)
  BY DEF NumSlices
<1> HIDE DEF w, p
<1>9. NumSlices \in 1..MaxSlices
  <2>1. w \in 1..MaxSlices
    BY <1>1, <1>2, <1>3
  <2>2. \A n, c : ComputeNumSlices(n, c) \in 1..MaxSlices
    BY <1>3, <1>4, <2>1
  <2> QED
    BY <1>5, <2>2
<1>10. kind \in {"reduce", "scan"} /\ ~TooSmall => Chunks >= w
  BY <1>1, <1>6 DEF TooSmall, w
<1>11. kind \in {"reduce", "scan"} => Items = Chunks
  BY DEF Items
<1> QED
  BY <1>1, <1>3, <1>4, <1>6, <1>7, <1>8, <1>9, <1>10, <1>11

\* What SliceStarts says of the slices of the operation.
LEMMA Bounds ==
  ASSUME input \in Inputs
  PROVE  /\ Bound(0) = 0 /\ Bound(NumSlices) = Items
         /\ \A s \in 0..NumSlices : Bound(s) \in 0..Items
         /\ \A s, t \in 0..NumSlices : s <= t => Bound(s) <= Bound(t)
         /\ Items >= NumSlices => \A s \in 0..(NumSlices - 1) : Bound(s) < Bound(s + 1)
<1>1. NumSlices \in Nat \ {0} /\ Items \in Nat
  BY SliceCount
<1> QED
  BY <1>1, SliceStarts DEF Bound

\* Chunks cover the elements in order, and none is empty.
LEMMA ChunkEnds ==
  ASSUME input \in Inputs
  PROVE  /\ At(0) = 0 /\ At(Chunks) = length
         /\ \A c \in Nat : At(c) \in 0..length /\ At(c) <= c * ChunkSize
         /\ \A c \in 0..(Chunks - 1) :
               /\ c * ChunkSize \in Nat /\ At(c) = c * ChunkSize
               /\ ChunkEnd(c) = At(c + 1)
               /\ c * ChunkSize < ChunkEnd(c) /\ ChunkEnd(c) <= (c + 1) * ChunkSize
               /\ ChunkEnd(c) <= length
         /\ \A c, d \in Nat : c <= d => At(c) <= At(d) /\ c * ChunkSize <= d * ChunkSize
<1>1. length \in Nat /\ ChunkSize \in Nat \ {0}
  BY Arguments
<1>2. /\ Chunks \in Nat /\ length <= Chunks * ChunkSize
      /\ \A c \in 0..(Chunks - 1) : c * ChunkSize < length
  BY <1>1, NumChunks DEF Chunks
<1>3. \A c \in Nat : c * ChunkSize \in Nat /\ c * ChunkSize = ChunkSize * c
  BY <1>1
<1>4. \A c \in Nat : At(c) \in 0..length /\ At(c) <= c * ChunkSize
  BY <1>1, <1>3 DEF At, MinOf
<1>5. At(0) = 0 /\ At(Chunks) = length
  BY <1>1, <1>2, <1>3 DEF At, MinOf
<1>6. ASSUME NEW c \in 0..(Chunks - 1)
      PROVE  /\ c * ChunkSize \in Nat /\ At(c) = c * ChunkSize
             /\ ChunkEnd(c) = At(c + 1)
             /\ c * ChunkSize < ChunkEnd(c) /\ ChunkEnd(c) <= (c + 1) * ChunkSize
             /\ ChunkEnd(c) <= length
  <2>1. c * ChunkSize < length /\ c * ChunkSize \in Nat /\ c \in Nat
    BY <1>2, <1>3
  <2>2. (c + 1) * ChunkSize = c * ChunkSize + ChunkSize
    BY <1>1, <1>3, <2>1, Distribute
  <2>3. At(c) = c * ChunkSize
    BY <1>1, <2>1 DEF At, MinOf
  <2>4. ChunkEnd(c) = At(c + 1)
    BY <2>2 DEF ChunkEnd, At
  <2>5. c * ChunkSize < ChunkEnd(c) /\ ChunkEnd(c) <= (c + 1) * ChunkSize /\ ChunkEnd(c) <= length
    BY <1>1, <2>1, <2>2 DEF ChunkEnd, MinOf
  <2> QED
    BY <2>1, <2>3, <2>4, <2>5
<1>7. ASSUME NEW c \in Nat, NEW d \in Nat, c <= d
      PROVE  At(c) <= At(d) /\ c * ChunkSize <= d * ChunkSize
  <2>1. ChunkSize * c <= ChunkSize * d
    BY <1>1, <1>7, ProductMonotone
  <2>2. c * ChunkSize <= d * ChunkSize /\ c * ChunkSize \in Nat /\ d * ChunkSize \in Nat
    BY <1>3, <2>1
  <2> QED
    BY <1>1, <2>2 DEF At, MinOf
<1> QED
  BY <1>4, <1>5, <1>6, <1>7

-----------------------------------------------------------------------------
(* Survivors of a filter, numbered.                                        *)

\* How many elements of keep lie before n.
Rank(keep, n) == Cardinality({i \in keep : i < n})

\* Ranks count the elements of keep, of which the array has m.
LEMMA Ranks ==
  ASSUME NEW m \in Nat, NEW keep \in SUBSET (0..(m - 1))
  PROVE  /\ Rank(keep, 0) = 0
         /\ Rank(keep, m) = Cardinality(keep)
         /\ \A n \in Nat : Rank(keep, n) \in 0..m
         /\ \A n \in Nat : Rank(keep, n + 1) = Rank(keep, n) + (IF n \in keep THEN 1 ELSE 0)
         /\ \A n \in Nat : Rank(keep, MinOf(n, m)) = Rank(keep, n)
         /\ \A a, b \in Nat : a <= b =>
               Cardinality(keep \cap (a..(b - 1))) = Rank(keep, b) - Rank(keep, a)
<1> DEFINE Below(n) == {i \in keep : i < n}
<1>0. \A i \in keep : i \in Nat /\ i < m
  OBVIOUS
<1>1. \A n : \A i : i \in Below(n) <=> i \in keep /\ i < n
  OBVIOUS
<1>2. IsFiniteSet(0..(m - 1)) /\ Cardinality(0..(m - 1)) = m
  BY FS_Interval
<1>3. \A A \in SUBSET keep : IsFiniteSet(A) /\ Cardinality(A) \in 0..m
  <2> SUFFICES ASSUME NEW A \in SUBSET keep PROVE IsFiniteSet(A) /\ Cardinality(A) \in 0..m
    OBVIOUS
  <2>1. A \subseteq 0..(m - 1)
    OBVIOUS
  <2>2. IsFiniteSet(A) /\ Cardinality(A) <= Cardinality(0..(m - 1))
    BY <1>2, <2>1, FS_Subset
  <2>3. Cardinality(A) \in Nat
    BY <2>2, FS_CardinalityType
  <2> QED
    BY <1>2, <2>2, <2>3
<1>4. \A n : Rank(keep, n) = Cardinality(Below(n))
  BY DEF Rank
<1>5. Rank(keep, 0) = 0
  <2>1. Below(0) = {}
    <3> HIDE DEF Below
    <3>1. ASSUME NEW i, i \in Below(0) PROVE FALSE
      <4>1. i \in keep /\ i < 0
        BY <1>1, <3>1, Zenon
      <4>2. i \in Nat
        BY <1>0, <4>1, Zenon
      <4> QED
        BY <4>1, <4>2
    <3> QED
      BY <3>1
  <2> QED
    BY <1>4, <2>1, FS_EmptySet
<1>6. Rank(keep, m) = Cardinality(keep)
  <2>1. Below(m) = keep
    BY <1>0
  <2> QED
    BY <1>4, <2>1
<1>7. \A n \in Nat : Rank(keep, n) \in 0..m
  BY <1>3, <1>4
<1>8. ASSUME NEW n \in Nat
      PROVE  Rank(keep, n + 1) = Rank(keep, n) + (IF n \in keep THEN 1 ELSE 0)
  <2>1. CASE n \in keep
    <3>1. Below(n + 1) = Below(n) \cup {n}
      <4>1. \A i \in keep : i < n + 1 <=> i < n \/ i = n
        BY <1>0
      <4> HIDE DEF Below
      <4> QED
        BY <1>1, <2>1, <4>1
    <3>2. n \notin Below(n) /\ IsFiniteSet(Below(n))
      BY <1>3
    <3>3. Cardinality(Below(n) \cup {n}) = Cardinality(Below(n)) + 1
      <4> HIDE DEF Below
      <4> QED
        BY <3>2, FS_AddElement
    <3> HIDE DEF Below
    <3> QED
      BY <1>4, <2>1, <3>1, <3>3
  <2>2. CASE n \notin keep
    <3>1. Below(n + 1) = Below(n)
      <4>1. \A i \in keep : i < n + 1 <=> i < n \/ i = n
        BY <1>0
      <4> HIDE DEF Below
      <4> QED
        BY <1>1, <2>2, <4>1
    <3>2. Cardinality(Below(n)) \in Nat
      BY <1>3
    <3> HIDE DEF Below
    <3> QED
      BY <1>4, <2>2, <3>1, <3>2
  <2> QED
    BY <2>1, <2>2
<1>9. ASSUME NEW n \in Nat
      PROVE  Rank(keep, MinOf(n, m)) = Rank(keep, n)
  <2>1. Below(MinOf(n, m)) = Below(n)
    <3>1. \A i \in keep : i < MinOf(n, m) <=> i < n
      BY <1>0 DEF MinOf
    <3> HIDE DEF Below
    <3>2. \A i : i \in Below(MinOf(n, m)) <=> i \in Below(n)
      BY <1>1, <3>1, Zenon
    <3> QED
      BY <3>2
  <2> QED
    BY <1>4, <2>1
<1>10. ASSUME NEW a \in Nat, NEW b \in Nat, a <= b
      PROVE  Cardinality(keep \cap (a..(b - 1))) = Rank(keep, b) - Rank(keep, a)
  <2> DEFINE A == keep \cap (a..(b - 1))
             B == Below(a)
  <2>1. A \cap B = {} /\ Below(b) = A \cup B
    <3>1. \A i \in keep : /\ ~(i \in a..(b - 1) /\ i < a)
                          /\ i < b <=> i \in a..(b - 1) \/ i < a
      BY <1>0, <1>10
    <3>2. \A i : i \in A <=> i \in keep /\ i \in a..(b - 1)
      OBVIOUS
    <3> HIDE DEF Below, A
    <3>3. \A i : ~(i \in A /\ i \in Below(a))
      BY <1>1, <3>1, <3>2, Zenon
    <3>4. \A i : i \in Below(b) <=> i \in A \/ i \in Below(a)
      BY <1>1, <3>1, <3>2, Zenon
    <3> QED
      BY <3>3, <3>4
  <2>2. IsFiniteSet(A) /\ IsFiniteSet(B) /\ Cardinality(A) \in Nat /\ Cardinality(B) \in Nat
    BY <1>3
  <2> HIDE DEF A, B
  <2>3. Cardinality(A \cup B) = Cardinality(A) + Cardinality(B)
    <3>1. Cardinality(A \cup B) = Cardinality(A) + Cardinality(B) - Cardinality(A \cap B)
      BY <2>2, FS_Union
    <3>2. Cardinality(A \cap B) = 0
      BY <2>1, FS_EmptySet
    <3> QED
      BY <2>2, <3>1, <3>2
  <2>4. Rank(keep, b) = Cardinality(A) + Cardinality(B) /\ Rank(keep, a) = Cardinality(B)
    BY <1>4, <2>1, <2>3 DEF B
  <2>5. Cardinality(A) = Rank(keep, b) - Rank(keep, a)
    BY <2>2, <2>4
  <2> QED
    BY <2>5 DEF A
<1> QED
  BY <1>5, <1>6, <1>7, <1>8, <1>9, <1>10

\* Ranks do not decrease; the ranks of the elements of keep are their numbers,
\* each of them once.
LEMMA RanksNumber ==
  ASSUME NEW m \in Nat, NEW keep \in SUBSET (0..(m - 1))
  PROVE  /\ \A a, b \in Nat : a <= b => Rank(keep, a) <= Rank(keep, b)
         /\ \A g \in keep : g \in Nat /\ Rank(keep, g) \in 0..(Cardinality(keep) - 1)
         /\ \A g, h \in keep : g # h => Rank(keep, g) # Rank(keep, h)
         /\ \A g, h \in Nat : Rank(keep, g) = Rank(keep, h) =>
               \A i \in keep : ~(g <= i /\ i < h)
         /\ \A j \in 0..(Cardinality(keep) - 1) : \E i \in keep : Rank(keep, i) = j
<1>1. \A n \in Nat : Rank(keep, n) \in 0..m
  BY Ranks
<1>2. \A n \in Nat : Rank(keep, n + 1) = Rank(keep, n) + (IF n \in keep THEN 1 ELSE 0)
  BY Ranks
<1>3. Rank(keep, m) = Cardinality(keep) /\ Rank(keep, 0) = 0
  BY Ranks
<1>4. ASSUME NEW a \in Nat, NEW b \in Nat, a <= b
      PROVE  Rank(keep, a) <= Rank(keep, b)
  <2>1. Cardinality(keep \cap (a..(b - 1))) = Rank(keep, b) - Rank(keep, a)
    <3>1. \A c, d \in Nat : c <= d =>
             Cardinality(keep \cap (c..(d - 1))) = Rank(keep, d) - Rank(keep, c)
      BY Ranks
    <3> QED
      BY <1>4, <3>1, Zenon
  <2>2. IsFiniteSet(a..(b - 1)) /\ keep \cap (a..(b - 1)) \subseteq a..(b - 1)
    BY FS_Interval
  <2>3. IsFiniteSet(keep \cap (a..(b - 1)))
    BY <2>2, FS_Subset
  <2>4. Cardinality(keep \cap (a..(b - 1))) \in Nat
    BY <2>3, FS_CardinalityType
  <2> QED
    BY <1>1, <2>1, <2>4
<1>5. ASSUME NEW g \in keep, NEW h \in Nat, g < h
      PROVE  g \in Nat /\ Rank(keep, g) < Rank(keep, h)
  <2>1. g \in Nat /\ g + 1 \in Nat /\ g + 1 <= h
    BY <1>5
  <2>2. Rank(keep, g + 1) = Rank(keep, g) + 1 /\ Rank(keep, g + 1) <= Rank(keep, h)
    BY <1>2, <1>4, <2>1
  <2> QED
    BY <1>1, <2>1, <2>2
<1>6. \A g \in keep : g \in Nat /\ Rank(keep, g) \in 0..(Cardinality(keep) - 1)
  BY <1>1, <1>3, <1>5
<1>7. \A g, h \in keep : g # h => Rank(keep, g) # Rank(keep, h)
  <2> SUFFICES ASSUME NEW g \in keep, NEW h \in keep, g # h PROVE Rank(keep, g) # Rank(keep, h)
    OBVIOUS
  <2>1. g \in Nat /\ h \in Nat /\ Rank(keep, g) \in Nat /\ Rank(keep, h) \in Nat
    BY <1>1
  <2>2. (g < h => Rank(keep, g) < Rank(keep, h)) /\ (h < g => Rank(keep, h) < Rank(keep, g))
    BY <1>5, <2>1
  <2> QED
    BY <2>1, <2>2
<1>8. ASSUME NEW g \in Nat, NEW h \in Nat, Rank(keep, g) = Rank(keep, h), NEW i \in keep,
             g <= i, i < h
      PROVE  FALSE
  <2>1. i \in Nat /\ Rank(keep, i) < Rank(keep, h) /\ Rank(keep, g) <= Rank(keep, i)
    BY <1>4, <1>5, <1>8
  <2>2. Rank(keep, i) \in Nat /\ Rank(keep, g) \in Nat /\ Rank(keep, h) \in Nat
    BY <1>1, <2>1
  <2> QED
    BY <1>8, <2>1, <2>2
<1>9. ASSUME NEW j \in 0..(Cardinality(keep) - 1)
      PROVE  \E i \in keep : Rank(keep, i) = j
  <2> DEFINE T == {n \in Nat : Rank(keep, n) > j}
  <2>1. m \in T
    BY <1>1, <1>3
  <2>2. PICK n \in T : \A u \in T : n <= u
    <3>1. T \in SUBSET Nat /\ T # {}
      BY <2>1
    <3> HIDE DEF T
    <3> QED
      BY <3>1, LeastNumber
  <2>3. n # 0
    BY <1>3
  <2>4. n - 1 \in Nat /\ (n - 1) + 1 = n /\ ~(n <= n - 1)
    BY <2>3
  <2>5. ~(Rank(keep, n - 1) > j)
    BY <2>2, <2>4
  <2>6. Rank(keep, n) = Rank(keep, n - 1) + (IF n - 1 \in keep THEN 1 ELSE 0)
    BY <1>2, <2>4
  <2>7. Rank(keep, n - 1) \in Nat /\ Rank(keep, n) > j
    BY <1>1, <2>4
  <2>8. n - 1 \in keep /\ Rank(keep, n - 1) = j
    BY <2>5, <2>6, <2>7
  <2> QED
    BY <2>8
<1> QED
  BY <1>4, <1>6, <1>7, <1>8, <1>9

-----------------------------------------------------------------------------
(* The sequential scatter.                                                 *)

\* What the loop of seq() has done after its first n turns.
SeqStates ==
    LET st[n \in 0..length] ==
            IF n = 0 THEN [threw |-> FALSE, written |-> {},
                           buffer |-> NewDenseArray(outLength, Default)]
            ELSE ScatterOne(st[n - 1], n - 1)
    IN st

ScatterState == [threw : BOOLEAN, written : SUBSET (0..(outLength - 1)),
                 buffer : [0..(outLength - 1) -> Seq(Int)]]

IsScatter == kind \in {"range", "vector"}

\* Element i makes the scatter throw, if it comes to it.
Bad(i) == \/ ~CheckedTarget(i)
          \/ ~MayCollide /\ \E h \in 0..(i - 1) : targets[h] = targets[i]

Targets(a, b) == {targets[i] : i \in a..(b - 1)}

\* What one element does to place t of the output.
Placed(i, t, written, old) ==
    IF t = targets[i] THEN IF t \in written THEN Collide(Elem(i), old) ELSE Elem(i)
    ELSE old

\* One turn of the loop.
LEMMA OneTurn ==
  ASSUME input \in Inputs, IsScatter, NEW st \in ScatterState, NEW i \in 0..(length - 1)
  PROVE  /\ ScatterOne(st, i) \in ScatterState
         /\ ScatterOne(st, i).threw <=>
               st.threw \/ ~CheckedTarget(i) \/ (targets[i] \in st.written /\ ~MayCollide)
         /\ ~ScatterOne(st, i).threw =>
               /\ ScatterOne(st, i).written = st.written \cup {targets[i]}
               /\ \A t \in 0..(outLength - 1) :
                     ScatterOne(st, i).buffer[t] = Placed(i, t, st.written, st.buffer[t])
<1> DEFINE t == targets[i]
           error == st.threw \/ ~CheckedTarget(i) \/ (t \in st.written /\ ~MayCollide)
           v == IF t \in st.written THEN Collide(Elem(i), st.buffer[t]) ELSE Elem(i)
           s == ScatterOne(st, i)
<1>1. t \in Nat /\ outLength \in Nat /\ i \in Int
  BY Arguments DEF IsScatter
<1>2. CheckedTarget(i) <=> t < outLength
  BY DEF CheckedTarget
<1>3. Elem(i) \in Seq(Int)
  BY <1>1, ElemIsRun
<1>4. /\ st.threw \in BOOLEAN /\ st.written \in SUBSET (0..(outLength - 1))
      /\ st.buffer \in [0..(outLength - 1) -> Seq(Int)]
  BY DEF ScatterState
<1>5. CASE error
  <2>1. s = [st EXCEPT !.threw = TRUE]
    BY <1>5 DEF ScatterOne
  <2>2. s \in ScatterState /\ s.threw
    BY <2>1 DEF ScatterState
  <2> QED
    BY <1>5, <2>2
<1>6. CASE ~error
  <2>1. s = [st EXCEPT !.buffer[t] = IF t \in st.written THEN Collide(Elem(i), @) ELSE Elem(i),
                       !.written = @ \cup {t}]
    BY <1>6 DEF ScatterOne
  <2>2. t \in 0..(outLength - 1)
    BY <1>1, <1>2, <1>6
  <2>3. v \in Seq(Int)
    <3>1. st.buffer[t] \in Seq(Int)
      BY <1>4, <2>2
    <3>2. Collide(Elem(i), st.buffer[t]) \in Seq(Int)
      BY <1>3, <3>1, FuncAssociative DEF Collide
    <3> QED
      BY <1>3, <3>2
  <2>4. s.threw = st.threw /\ s.written = st.written \cup {t}
        /\ s.buffer = [st.buffer EXCEPT ![t] = v]
        /\ s = [threw |-> st.threw, written |-> st.written \cup {t},
                buffer |-> [st.buffer EXCEPT ![t] = v]]
    BY <2>1 DEF ScatterState
  <2> HIDE DEF v, s
  <2>5. [st.buffer EXCEPT ![t] = v] \in [0..(outLength - 1) -> Seq(Int)]
    BY <1>4, <2>2, <2>3
  <2>6. s \in ScatterState
    BY <1>4, <2>2, <2>4, <2>5 DEF ScatterState
  <2>7. \A u \in 0..(outLength - 1) :
           s.buffer[u] = IF u = t THEN v ELSE st.buffer[u]
    BY <1>4, <2>4
  <2>8. \A u \in 0..(outLength - 1) : s.buffer[u] = Placed(i, u, st.written, st.buffer[u])
    BY <2>7 DEF v, Placed
  <2>9. ~s.threw
    BY <1>6, <2>4
  <2> QED
    BY <1>6, <2>4, <2>6, <2>8, <2>9 DEF s
<1> QED
  BY <1>5, <1>6

\* The recursion has a solution, so its equations hold.
LEMMA SeqStatesStep ==
  ASSUME input \in Inputs, IsScatter
  PROVE  /\ SeqStates \in [0..length -> ScatterState]
         /\ SeqStates[0] = [threw |-> FALSE, written |-> {},
                            buffer |-> NewDenseArray(outLength, Default)]
         /\ \A i \in 1..length : SeqStates[i] = ScatterOne(SeqStates[i - 1], i - 1)
<1> DEFINE init == [threw |-> FALSE, written |-> {},
                    buffer |-> NewDenseArray(outLength, Default)]
           G == [i \in 1..length |-> [st \in ScatterState |-> ScatterOne(st, i - 1)]]
           Solves(st) == st = [n \in 0..length |->
                                 IF n = 0 THEN init ELSE ScatterOne(st[n - 1], n - 1)]
<1>1. length \in Nat
  BY Arguments
<1>2. init \in ScatterState
  <2>1. Default \in Seq(Int)
    BY DEF Default
  <2> QED
    BY <2>1 DEF ScatterState, NewDenseArray
<1>3. G \in [1..length -> [ScatterState -> ScatterState]]
  <2> SUFFICES ASSUME NEW st \in ScatterState, NEW i \in 1..length
               PROVE  ScatterOne(st, i - 1) \in ScatterState
    OBVIOUS
  <2>1. i - 1 \in 0..(length - 1)
    BY <1>1
  <2> QED
    BY <2>1, OneTurn
<1>4. \A st \in ScatterState, i \in 1..length : G[i][st] = ScatterOne(st, i - 1)
  OBVIOUS
<1> HIDE DEF init, G
<1>5. PICK f : Recursive(f, length, ScatterState, init, G)
  BY <1>1, <1>2, <1>3, Recursion
<1>6. /\ f \in [0..length -> ScatterState] /\ f[0] = init
      /\ \A i \in 1..length : f[i] = G[i][f[i - 1]]
  BY <1>5 DEF Recursive
<1>7. \A i \in 1..length : f[i - 1] \in ScatterState
  BY <1>1, <1>6
<1>8. Solves(f)
  <2>1. \A n \in 0..length : f[n] = IF n = 0 THEN init ELSE ScatterOne(f[n - 1], n - 1)
    <3> SUFFICES ASSUME NEW n \in 0..length
                 PROVE  f[n] = IF n = 0 THEN init ELSE ScatterOne(f[n - 1], n - 1)
      OBVIOUS
    <3>1. CASE n = 0
      BY <1>6, <3>1
    <3>2. CASE n # 0
      <4>1. n \in 1..length
        BY <3>2
      <4>2. f[n] = G[n][f[n - 1]] /\ f[n - 1] \in ScatterState
        BY <1>6, <1>7, <4>1
      <4> QED
        BY <1>4, <3>2, <4>1, <4>2
    <3> QED
      BY <3>1, <3>2
  <2> QED
    BY <1>6, <2>1
<1>9. SeqStates = CHOOSE st : Solves(st)
  BY DEF SeqStates, init
<1>10. Solves(SeqStates)
  <2> HIDE DEF Solves
  <2> QED
    BY <1>8, <1>9
<1>11. SeqStates[0] = init
       /\ \A i \in 1..length : SeqStates[i] = ScatterOne(SeqStates[i - 1], i - 1)
  BY <1>1, <1>10
<1>12. \A n \in 0..length : SeqStates[n] \in ScatterState
  <2> DEFINE T == {n \in 0..length : SeqStates[n] \in ScatterState}
  <2>1. 0 \in T
    BY <1>1, <1>2, <1>11
  <2>2. \A i \in 0..(length - 1) : i \in T => i + 1 \in T
    <3> SUFFICES ASSUME NEW i \in 0..(length - 1), SeqStates[i] \in ScatterState
                 PROVE  i + 1 \in 0..length /\ SeqStates[i + 1] \in ScatterState
      BY Zenon
    <3>1. i + 1 \in 1..length /\ i + 1 \in 0..length /\ (i + 1) - 1 = i
      BY <1>1
    <3>2. SeqStates[i + 1] = ScatterOne(SeqStates[i], i)
      BY <1>11, <3>1
    <3> QED
      BY <3>1, <3>2, OneTurn
  <2> HIDE DEF T
  <2>3. \A n \in 0..length : n \in T
    BY <1>1, <2>1, <2>2, IntervalInduction
  <2> QED
    BY <2>3 DEF T
<1>13. SeqStates \in [0..length -> ScatterState]
  BY <1>10, <1>12
<1> QED
  BY <1>11, <1>13 DEF init

\* It throws at the first bad element, and not before; until then it has
\* written the targets of the elements it has seen.
LEMMA SeqThrowsWhen ==
  ASSUME input \in Inputs, IsScatter
  PROVE  \A n \in 0..length :
            /\ SeqStates[n].threw <=> \E i \in 0..(n - 1) : Bad(i)
            /\ ~SeqStates[n].threw => SeqStates[n].written = Targets(0, n)
<1> DEFINE P(n) == /\ SeqStates[n].threw <=> \E i \in 0..(n - 1) : Bad(i)
                   /\ ~SeqStates[n].threw => SeqStates[n].written = Targets(0, n)
           T == {n \in 0..length : P(n)}
<1>1. length \in Nat
  BY Arguments
<1>2. 0 \in T
  <2>1. ~SeqStates[0].threw /\ SeqStates[0].written = {}
    BY SeqStatesStep
  <2>2. Targets(0, 0) = {} /\ ~ \E i \in 0..(0 - 1) : Bad(i)
    BY DEF Targets
  <2> QED
    BY <1>1, <2>1, <2>2
<1>3. ASSUME NEW n \in 0..(length - 1), P(n)
      PROVE  n + 1 \in 0..length /\ P(n + 1)
  <2> DEFINE st == SeqStates[n]
             sn == SeqStates[n + 1]
  <2>1. n + 1 \in 1..length /\ n + 1 \in 0..length /\ (n + 1) - 1 = n /\ n \in 0..length
    BY <1>1
  <2>2. sn = ScatterOne(st, n) /\ st \in ScatterState
    BY <2>1, SeqStatesStep
  <2>3. sn.threw <=> st.threw \/ ~CheckedTarget(n) \/ (targets[n] \in st.written /\ ~MayCollide)
    BY <2>2, OneTurn
  <2>4. ~sn.threw => sn.written = st.written \cup {targets[n]}
    BY <2>2, OneTurn
  <2> HIDE DEF st, sn
  <2>5. st.threw <=> \E i \in 0..(n - 1) : Bad(i)
    BY <1>3 DEF st
  <2>6. ~st.threw => st.written = Targets(0, n)
    BY <1>3 DEF st
  <2>7. \A i : i \in 0..((n + 1) - 1) <=> i \in 0..(n - 1) \/ i = n
    OBVIOUS
  <2>8. targets[n] \in Targets(0, n) <=> \E h \in 0..(n - 1) : targets[h] = targets[n]
    BY DEF Targets
  <2>9. sn.threw <=> \E i \in 0..((n + 1) - 1) : Bad(i)
    BY <2>3, <2>5, <2>6, <2>7, <2>8 DEF Bad
  <2>10. Targets(0, n + 1) = Targets(0, n) \cup {targets[n]}
    BY <2>7 DEF Targets
  <2>11. ~sn.threw => sn.written = Targets(0, n + 1)
    BY <2>3, <2>4, <2>6, <2>10
  <2> QED
    BY <2>1, <2>9, <2>11 DEF sn
<1>4. \A i \in 0..(length - 1) : i \in T => i + 1 \in T
  BY <1>3
<1>5. \A n \in 0..length : n \in T
  <2> HIDE DEF T
  <2> QED
    BY <1>1, <1>2, <1>4, IntervalInduction
<1> QED
  BY <1>5

\* Some element is bad.
SeqThrows == \E i \in 0..(length - 1) : Bad(i)

\* It throws if some element is bad, and else it returns what its last turn leaves.
LEMMA SequentialScatter ==
  ASSUME input \in Inputs, IsScatter
  PROVE  Sequential = IF SeqThrows THEN Threw ELSE Returned(SeqStates[length].buffer)
<1>1. Sequential = ScatterSeq
  BY DEF Sequential, IsScatter
<1>2. ScatterSeq = IF SeqStates[length].threw THEN Threw ELSE Returned(SeqStates[length].buffer)
  BY DEF ScatterSeq, SeqStates
<1>3. SeqStates[length].threw <=> SeqThrows
  <2>1. length \in 0..length
    BY Arguments
  <2> QED
    BY <2>1, SeqThrowsWhen DEF SeqThrows
<1> QED
  BY <1>1, <1>2, <1>3

\* If it does not throw, each turn places one element.
LEMMA SeqBuffer ==
  ASSUME input \in Inputs, IsScatter, ~SeqThrows
  PROVE  /\ \A n \in 0..length :
               /\ SeqStates[n].buffer \in [0..(outLength - 1) -> Seq(Int)]
               /\ SeqStates[n].written = Targets(0, n)
         /\ \A t \in 0..(outLength - 1) : SeqStates[0].buffer[t] = Default
         /\ \A n \in 0..(length - 1), t \in 0..(outLength - 1) :
               SeqStates[n + 1].buffer[t] =
                  Placed(n, t, Targets(0, n), SeqStates[n].buffer[t])
<1>1. length \in Nat
  BY Arguments
<1>2. \A n \in 0..length : ~SeqStates[n].threw /\ SeqStates[n].written = Targets(0, n)
  <2> SUFFICES ASSUME NEW n \in 0..length
               PROVE  ~SeqStates[n].threw /\ SeqStates[n].written = Targets(0, n)
    OBVIOUS
  <2>1. \A i \in 0..(n - 1) : i \in 0..(length - 1)
    BY <1>1
  <2>2. SeqStates[n].threw <=> \E i \in 0..(n - 1) : Bad(i)
    BY SeqThrowsWhen
  <2>3. ~SeqStates[n].threw => SeqStates[n].written = Targets(0, n)
    BY SeqThrowsWhen
  <2> QED
    BY <2>1, <2>2, <2>3 DEF SeqThrows
<1>3. \A n \in 0..length : SeqStates[n] \in ScatterState
  BY SeqStatesStep
<1>4. \A n \in 0..length : SeqStates[n].buffer \in [0..(outLength - 1) -> Seq(Int)]
  BY <1>3 DEF ScatterState
<1>5. \A t \in 0..(outLength - 1) : SeqStates[0].buffer[t] = Default
  <2>1. SeqStates[0].buffer = NewDenseArray(outLength, Default)
    BY SeqStatesStep
  <2> QED
    BY <2>1 DEF NewDenseArray
<1>6. ASSUME NEW n \in 0..(length - 1), NEW t \in 0..(outLength - 1)
      PROVE  SeqStates[n + 1].buffer[t] = Placed(n, t, Targets(0, n), SeqStates[n].buffer[t])
  <2>1. n + 1 \in 1..length /\ n + 1 \in 0..length /\ (n + 1) - 1 = n /\ n \in 0..length
    BY <1>1
  <2>2. SeqStates[n + 1] = ScatterOne(SeqStates[n], n) /\ SeqStates[n] \in ScatterState
    BY <2>1, SeqStatesStep
  <2>3. ~SeqStates[n + 1].threw /\ SeqStates[n].written = Targets(0, n)
    BY <1>2, <2>1
  <2> QED
    BY <2>2, <2>3, OneTurn
<1> QED
  BY <1>2, <1>4, <1>5, <1>6

=============================================================================
