------------------------- MODULE StoreManagerProofs -------------------------
(***************************************************************************)
(* Proofs about StoreManager, for every set of models, nodes and calls,    *)
(* all sizes of models, chunks and pools, every placement and however      *)
(* often a server fails: the books of the local stores agree with each     *)
(* other, with the disks and with the lines at the locks.                  *)
(***************************************************************************)
EXTENDS StoreManager, SequenceLemmas

(***************************************************************************)
(* Sums over a pool, and the eviction                                      *)
(***************************************************************************)

\* The two names for the elements of a sequence.
LEMMA RangeIsToSet == \A s : Range(s) = ToSet(s)
BY DEF Range, ToSet

\* f[i] is what the first i of s add up to.
IsSum(f, w, s) ==
    /\ f \in [0 .. Len(s) -> Int]
    /\ f[0] = 0 /\ \A i \in 1 .. Len(s) : f[i] = f[i - 1] + w[s[i]]

\* What Total adds up, position by position.
LEMMA TotalSteps ==
    ASSUME NEW S, NEW s \in Seq(S), NEW w, \A e \in S : w[e] \in Int
    PROVE  \E f : IsSum(f, w, s) /\ Total(w, s) = f[Len(s)]
<1> DEFINE N == Len(s)
           Is(f) == f = [i \in 0 .. N |-> IF i = 0 THEN 0 ELSE f[i - 1] + w[s[i]]]
           turn == [i \in 1 .. N |-> [x \in Int |-> x + w[s[i]]]]
<1>1. N \in Nat
  OBVIOUS
<1>2. \A i \in 1 .. N : w[s[i]] \in Int
  OBVIOUS
<1>3. turn \in [1 .. N -> [Int -> Int]]
  BY <1>2
<1>4. PICK f \in [0 .. N -> Int] :
         f[0] = 0 /\ \A i \in 1 .. N : f[i] = turn[i][f[i - 1]]
  <2>1. 0 \in Int
    OBVIOUS
  <2> HIDE DEF turn, N
  <2>2. PICK f : IsLoop(f, Int, N, 0, turn)
    BY <1>1, <1>3, <2>1, LoopExists, Zenon
  <2>. QED
    BY <2>2 DEF IsLoop
<1>5. \A i \in 1 .. N : f[i] = f[i - 1] + w[s[i]]
  <2> SUFFICES ASSUME NEW i \in 1 .. N PROVE f[i] = f[i - 1] + w[s[i]]
    OBVIOUS
  <2>1. i - 1 \in 0 .. N
    OBVIOUS
  <2>2. f[i - 1] \in Int
    BY <2>1
  <2>. QED
    BY <1>4, <2>2
<1>6. Is(f)
  <2> DEFINE g == [i \in 0 .. N |-> IF i = 0 THEN 0 ELSE f[i - 1] + w[s[i]]]
  <2>1. \A i \in 0 .. N : f[i] = g[i]
    <3> SUFFICES ASSUME NEW i \in 0 .. N PROVE f[i] = g[i]
      OBVIOUS
    <3>1. CASE i = 0
      BY <1>4, <3>1
    <3>2. CASE i # 0
      <4>1. i \in 1 .. N
        BY <3>2
      <4>. QED
        BY <4>1, <1>5
    <3>. QED
      BY <3>1, <3>2
  <2>2. f = g
    BY <2>1
  <2>. QED
    BY <2>2
<1> DEFINE sum == CHOOSE h : Is(h)
<1>7. Is(sum)
  <2> HIDE DEF Is
  <2>. QED
    BY <1>6
<1>8. Total(w, s) = sum[N]
  BY DEF Total
<1>9. /\ sum[0] = 0
      /\ \A i \in 1 .. N : sum[i] = sum[i - 1] + w[s[i]]
  <2> HIDE DEF sum
  <2>1. \A i \in 0 .. N : sum[i] = IF i = 0 THEN 0 ELSE sum[i - 1] + w[s[i]]
    BY <1>7
  <2>. QED
    BY <2>1, <1>1
<1>10. sum \in [0 .. N -> Int]
  <2> DEFINE T == {i \in 0 .. N : sum[i] \in Int}
  <2>1. 0 \in T
    BY <1>9, <1>1
  <2>2. ASSUME NEW i \in 1 .. N, i - 1 \in T PROVE i \in T
    <3>1. sum[i - 1] \in Int /\ w[s[i]] \in Int
      BY <2>2, <1>2
    <3>2. sum[i] = sum[i - 1] + w[s[i]]
      BY <1>9
    <3>. QED
      BY <3>1, <3>2
  <2>3. 0 .. N \subseteq T
    <3> HIDE DEF T, N
    <3>. QED
      BY <2>1, <2>2, <1>1, UpToBound
  <2>4. \A i \in 0 .. N : sum[i] \in Int
    BY <2>3
  <2>5. sum = [i \in 0 .. N |-> IF i = 0 THEN 0 ELSE sum[i - 1] + w[s[i]]]
    <3> HIDE DEF sum
    <3>. QED
      BY <1>7
  <2>6. DOMAIN sum = 0 .. N /\ sum = [i \in 0 .. N |-> sum[i]]
    <3> HIDE DEF sum
    <3>. QED
      BY <2>5
  <2>. QED
    <3> HIDE DEF sum
    <3>. QED
      BY <2>4, <2>6
<1>11. IsSum(sum, w, s)
  <2> HIDE DEF sum
  <2>. QED
    BY <1>9, <1>10 DEF IsSum
<1>. QED
  <2> HIDE DEF sum
  <2>. QED
    BY <1>8, <1>11

\* A model at the end of a pool adds what it has.
LEMMA TotalAppend ==
    ASSUME NEW S, NEW s \in Seq(S), NEW e \in S, NEW w, \A x \in S : w[x] \in Int
    PROVE  Total(w, Append(s, e)) = Total(w, s) + w[e]
<1> DEFINE t == Append(s, e)
           N == Len(s)
<1>1. /\ t \in Seq(S) /\ Len(t) = N + 1 /\ N \in Nat
      /\ \A i \in 1 .. N : t[i] = s[i]
      /\ t[N + 1] = e
  OBVIOUS
<1> HIDE DEF t
<1>21. PICK f : IsSum(f, w, s) /\ Total(w, s) = f[N]
  BY TotalSteps
<1>2. /\ f \in [0 .. N -> Int]
      /\ f[0] = 0 /\ \A i \in 1 .. N : f[i] = f[i - 1] + w[s[i]]
  BY <1>21 DEF IsSum
<1>31. PICK g : IsSum(g, w, t) /\ Total(w, t) = g[Len(t)]
  BY <1>1, TotalSteps
<1>3. /\ g \in [0 .. N + 1 -> Int] /\ Total(w, t) = g[N + 1]
      /\ g[0] = 0 /\ \A i \in 1 .. N + 1 : g[i] = g[i - 1] + w[t[i]]
  BY <1>1, <1>31 DEF IsSum
<1> HIDE DEF N
<1> DEFINE T == {i \in 0 .. N : f[i] = g[i]}
<1>4. 0 \in T
  BY <1>1, <1>2, <1>3
<1>5. ASSUME NEW i \in 1 .. N, i - 1 \in T PROVE i \in T
  <2>1. f[i - 1] = g[i - 1] /\ i \in 1 .. N + 1
    BY <1>1, <1>5
  <2>2. f[i] = f[i - 1] + w[s[i]] /\ g[i] = g[i - 1] + w[t[i]] /\ t[i] = s[i]
    BY <1>1, <1>2, <1>3, <2>1
  <2>. QED
    BY <2>1, <2>2
<1>6. 0 .. N \subseteq T
  <2> HIDE DEF T
  <2>. QED
    BY <1>1, <1>4, <1>5, UpToBound
<1>7. f[N] = g[N] /\ g[N] \in Int
  BY <1>1, <1>3, <1>6
<1>8. g[N + 1] = g[N] + w[e]
  <2>1. N + 1 \in 1 .. N + 1 /\ (N + 1) - 1 = N
    BY <1>1
  <2>. QED
    BY <1>1, <1>3, <2>1
<1>. QED
  BY <1>21, <1>3, <1>7, <1>8 DEF t

\* Nothing adds up to nothing, and a sum of integers is one.
LEMMA TotalType ==
    /\ \A w : Total(w, <<>>) = 0
    /\ \A S, w : \A s \in Seq(S) : (\A x \in S : w[x] \in Int) => Total(w, s) \in Int
<1>1. ASSUME NEW w, NEW s, s = <<>> PROVE Total(w, s) = 0
  <2>1. PICK S : S = {}
    OBVIOUS
  <2>2. s \in Seq(S) /\ Len(s) = 0 /\ \A e \in S : w[e] \in Int
    BY <1>1, <2>1
  <2>3. PICK f : IsSum(f, w, s) /\ Total(w, s) = f[Len(s)]
    BY <2>2, TotalSteps
  <2>. QED
    BY <2>2, <2>3 DEF IsSum
<1>2. ASSUME NEW S, NEW s \in Seq(S), NEW w, \A x \in S : w[x] \in Int
      PROVE  Total(w, s) \in Int
  <2>1. PICK f : IsSum(f, w, s) /\ Total(w, s) = f[Len(s)]
    BY <1>2, TotalSteps
  <2>. QED
    BY <2>1 DEF IsSum
<1>. QED
  BY <1>1, <1>2

\* If what a model has of v is at most c times what it has of w, so it is for
\* the models of a sequence together.
LEMMA TotalBound ==
    ASSUME NEW S, NEW s \in Seq(S), NEW c \in Nat, NEW v, NEW w,
           \A x \in S : v[x] \in Int /\ w[x] \in Int /\ v[x] <= w[x] * c
    PROVE  Total(v, s) <= Total(w, s) * c
<1> DEFINE N == Len(s)
<1>1. N \in Nat /\ \A i \in 1 .. N : s[i] \in S
  OBVIOUS
<1>21. PICK f : IsSum(f, v, s) /\ Total(v, s) = f[N]
  BY TotalSteps
<1>2. /\ f \in [0 .. N -> Int] /\ Total(v, s) = f[N]
      /\ f[0] = 0 /\ \A i \in 1 .. N : f[i] = f[i - 1] + v[s[i]]
  BY <1>21 DEF IsSum
<1>31. PICK g : IsSum(g, w, s) /\ Total(w, s) = g[N]
  BY TotalSteps
<1>3. /\ g \in [0 .. N -> Int] /\ Total(w, s) = g[N]
      /\ g[0] = 0 /\ \A i \in 1 .. N : g[i] = g[i - 1] + w[s[i]]
  BY <1>31 DEF IsSum
<1> HIDE DEF N
<1> DEFINE T == {i \in 0 .. N : f[i] <= g[i] * c}
<1>4. 0 \in T
  BY <1>1, <1>2, <1>3
<1>5. ASSUME NEW i \in 1 .. N, i - 1 \in T PROVE i \in T
  <2> DEFINE a == f[i - 1]
             b == g[i - 1]
             x == v[s[i]]
             y == w[s[i]]
  <2>0. i - 1 \in 0 .. N
    BY <1>1
  <2>1. a \in Int /\ b \in Int /\ x \in Int /\ y \in Int
    BY <1>1, <1>2, <1>3, <2>0
  <2>2. a <= b * c /\ x <= y * c
    BY <1>1, <1>5
  <2>4. f[i] = a + x /\ g[i] = b + y
    BY <1>2, <1>3
  <2> HIDE DEF a, b, x, y
  <2>3. a + x <= (b + y) * c
    <3>1. (b + y) * c = b * c + y * c
      BY <2>1
    <3>2. b * c \in Int /\ y * c \in Int
      BY <2>1
    <3>. QED
      BY <2>1, <2>2, <3>1, <3>2
  <2>. QED
    BY <2>3, <2>4
<1>6. 0 .. N \subseteq T
  <2> HIDE DEF T
  <2>. QED
    BY <1>1, <1>4, <1>5, UpToBound
<1>. QED
  BY <1>1, <1>2, <1>3, <1>6

\* The sum is about what the models of the sequence have, whatever else w says.
LEMMA TotalSame ==
    ASSUME NEW S, NEW s \in Seq(S), NEW v, NEW w, \A x \in S : v[x] \in Int /\ w[x] = v[x]
    PROVE  Total(v, s) = Total(w, s)
<1> DEFINE N == Len(s)
<1>1. N \in Nat /\ \A i \in 1 .. N : s[i] \in S
  OBVIOUS
<1>21. PICK f : IsSum(f, v, s) /\ Total(v, s) = f[N]
  BY TotalSteps
<1>2. /\ f \in [0 .. N -> Int] /\ Total(v, s) = f[N]
      /\ f[0] = 0 /\ \A i \in 1 .. N : f[i] = f[i - 1] + v[s[i]]
  BY <1>21 DEF IsSum
<1>31. PICK g : IsSum(g, w, s) /\ Total(w, s) = g[N]
  BY TotalSteps
<1>3. /\ g \in [0 .. N -> Int] /\ Total(w, s) = g[N]
      /\ g[0] = 0 /\ \A i \in 1 .. N : g[i] = g[i - 1] + w[s[i]]
  BY <1>31 DEF IsSum
<1> HIDE DEF N
<1> DEFINE T == {i \in 0 .. N : f[i] = g[i]}
<1>4. 0 \in T
  BY <1>1, <1>2, <1>3
<1>5. ASSUME NEW i \in 1 .. N, i - 1 \in T PROVE i \in T
  <2>1. f[i - 1] = g[i - 1] /\ s[i] \in S
    BY <1>1, <1>5
  <2>2. v[s[i]] = w[s[i]]
    BY <2>1
  <2>. QED
    BY <1>1, <1>2, <1>3, <2>1, <2>2
<1>6. 0 .. N \subseteq T
  <2> HIDE DEF T
  <2>. QED
    BY <1>1, <1>4, <1>5, UpToBound
<1>. QED
  BY <1>1, <1>2, <1>3, <1>6

\* f[i] is what the eviction has left of the first i models of a pool.
IsEviction(f, n, size) ==
    /\ f \in [0 .. Len(pool[n]) -> [pool : Seq(ToSet(pool[n])), usage : Int]]
    /\ f[0] = [pool |-> <<>>, usage |-> usage[n]]
    /\ \A i \in 1 .. Len(pool[n]) :
          LET r == f[i - 1]
              m == pool[n][i]
          IN  \/ f[i] = [r EXCEPT !.pool = Append(@, m)]
              \/ f[i] = [r EXCEPT !.usage = @ - Needed(disk_models[n][m])]

\* The loop of _lru_eviction looks at every model once.
LEMMA EvictionSteps ==
    ASSUME NEW n \in Nodes, NEW size, pool[n] \in Seq(Models), usage[n] \in Int,
           \A m \in ToSet(pool[n]) : Needed(disk_models[n][m]) \in Int
    PROVE  \E f : IsEviction(f, n, size) /\ Evicted(n, size) = f[Len(pool[n])]
<1> DEFINE N == Len(pool[n])
           S == ToSet(pool[n])
           R == [pool : Seq(S), usage : Int]
           start == [pool |-> <<>>, usage |-> usage[n]]
           Turn1(i, r) == IF Fits(n, r.usage, size) \/ pool[n][i] \in queued_models[n]
                          THEN [r EXCEPT !.pool = Append(@, pool[n][i])]
                          ELSE [r EXCEPT !.usage = @ - Needed(disk_models[n][pool[n][i]])]
           Is(f) == f = [i \in 0 .. N |-> IF i = 0 THEN start ELSE Turn1(i, f[i - 1])]
           turn == [i \in 1 .. N |-> [r \in R |-> Turn1(i, r)]]
<1>1. N \in Nat /\ start \in R
  BY DEF ToSet
<1>2. \A i \in 1 .. N : \A r \in R : Turn1(i, r) \in R
  <2> SUFFICES ASSUME NEW i \in 1 .. N, NEW r \in R PROVE Turn1(i, r) \in R
    OBVIOUS
  <2>1. pool[n][i] \in S
    BY DEF ToSet
  <2>2. Needed(disk_models[n][pool[n][i]]) \in Int
    BY <2>1
  <2>3. Append(r.pool, pool[n][i]) \in Seq(S) /\ r.usage \in Int
    BY <2>1
  <2>4. [r EXCEPT !.pool = Append(@, pool[n][i])] \in R
    BY <2>3
  <2>5. [r EXCEPT !.usage = @ - Needed(disk_models[n][pool[n][i]])] \in R
    BY <2>2, <2>3
  <2>. QED
    BY <2>4, <2>5
<1> HIDE DEF Turn1
<1>3. turn \in [1 .. N -> [R -> R]]
  BY <1>2
<1>4. PICK f : IsLoop(f, R, N, start, turn)
  <2> HIDE DEF turn, N, R, start
  <2>. QED
    BY <1>1, <1>3, LoopExists, Zenon
<1>5. /\ f \in [0 .. N -> R] /\ f[0] = start
      /\ \A i \in 1 .. N : f[i] = Turn1(i, f[i - 1])
  <2> HIDE DEF R, start, N
  <2>1. /\ f \in [0 .. N -> R] /\ f[0] = start
        /\ \A i \in 1 .. N : f[i] = turn[i][f[i - 1]]
    BY <1>4 DEF IsLoop
  <2>2. \A i \in 1 .. N : i - 1 \in 0 .. N
    BY <1>1
  <2>3. ASSUME NEW i \in 1 .. N PROVE f[i] = Turn1(i, f[i - 1])
    <3>1. f[i - 1] \in R
      BY <2>1, <2>2
    <3>. QED
      BY <2>1, <3>1
  <2>. QED
    BY <2>1, <2>3
<1>6. Is(f)
  <2> HIDE DEF R, start, N
  <2> DEFINE g == [i \in 0 .. N |-> IF i = 0 THEN start ELSE Turn1(i, f[i - 1])]
  <2>1. ASSUME NEW i \in 0 .. N PROVE f[i] = g[i]
    <3>1. CASE i = 0
      BY <1>5, <3>1
    <3>2. CASE i # 0
      <4>1. i \in 1 .. N
        BY <1>1, <3>2
      <4>. QED
        BY <4>1, <1>5, <3>2
    <3>. QED
      BY <3>1, <3>2
  <2>2. f = g
    BY <1>5, <2>1
  <2>. QED
    BY <2>2
<1> DEFINE after == CHOOSE h : Is(h)
<1>7. Is(after)
  <2> HIDE DEF Is
  <2>. QED
    BY <1>6
<1>8. Evicted(n, size) = after[N]
  BY DEF Evicted, Turn1
<1> HIDE DEF after, R, start, N
<1>9. /\ after[0] = start
      /\ \A i \in 1 .. N : after[i] = Turn1(i, after[i - 1])
      /\ after = [i \in 0 .. N |-> after[i]]
  <2>1. \A i \in 0 .. N : after[i] = IF i = 0 THEN start ELSE Turn1(i, after[i - 1])
    BY <1>7
  <2>2. after = [i \in 0 .. N |-> after[i]]
    BY <1>7
  <2>3. \A i \in 1 .. N : i \in 0 .. N /\ i # 0
    BY <1>1
  <2>4. after[0] = start
    BY <2>1, <1>1
  <2>5. \A i \in 1 .. N : after[i] = Turn1(i, after[i - 1])
    BY <2>1, <2>3
  <2>. QED
    BY <2>2, <2>4, <2>5
<1>10. after \in [0 .. N -> R]
  <2> DEFINE T == {i \in 0 .. N : after[i] \in R}
  <2>1. 0 \in T
    BY <1>9, <1>1
  <2>2. ASSUME NEW i \in 1 .. N, i - 1 \in T PROVE i \in T
    <3>1. after[i - 1] \in R
      BY <2>2
    <3>2. after[i] \in R
      BY <1>2, <1>9, <3>1
    <3>. QED
      BY <3>2, <1>1
  <2>3. 0 .. N \subseteq T
    <3> HIDE DEF T
    <3>. QED
      BY <2>1, <2>2, <1>1, UpToBound
  <2>4. \A i \in 0 .. N : after[i] \in R
    BY <2>3
  <2>. QED
    BY <2>4, <1>9
<1>11. ASSUME NEW i \in 1 .. N
       PROVE  \/ after[i] = [after[i - 1] EXCEPT !.pool = Append(@, pool[n][i])]
              \/ after[i] = [after[i - 1] EXCEPT !.usage = @ - Needed(disk_models[n][pool[n][i]])]
  BY <1>9 DEF Turn1
<1>12. IsEviction(after, n, size)
  BY <1>9, <1>10, <1>11 DEF IsEviction, N, R, start
<1>. QED
  BY <1>8, <1>12 DEF N

\* What a model needs of a node's memory, by the size its store has.
Chunks(n) == [m \in Models |-> Needed(disk_models[n][m])]

\* After an eviction the books are right for what is left: nothing new is in
\* the pool, no model twice, and what is counted as used is what is needed.
LEMMA EvictionResult ==
    ASSUME NEW n \in Nodes, NEW size, pool[n] \in Seq(Models), IsInjective(pool[n]),
           \A m \in ToSet(pool[n]) : Needed(disk_models[n][m]) \in Nat,
           usage[n] = Total(Chunks(n), pool[n])
    PROVE  /\ Evicted(n, size).pool \in Seq(Models)
           /\ IsInjective(Evicted(n, size).pool)
           /\ ToSet(Evicted(n, size).pool) \subseteq ToSet(pool[n])
           /\ Evicted(n, size).usage = Total(Chunks(n), Evicted(n, size).pool)
           /\ Evicted(n, size).usage \in Int
           /\ Evicted(n, size).usage <= usage[n]
<1> DEFINE N == Len(pool[n])
           S == ToSet(pool[n])
           w == Chunks(n)
           R == [pool : Seq(S), usage : Int]
<1>1. /\ N \in Nat /\ S \subseteq Models /\ pool[n] \in Seq(S)
      /\ \A i \in 1 .. N : pool[n][i] \in S
      /\ \A i, j \in 1 .. N : pool[n][i] = pool[n][j] => i = j
  BY DEF ToSet, IsInjective
<1>2. \A m \in S : w[m] = Needed(disk_models[n][m]) /\ w[m] \in Nat
  BY <1>1 DEF Chunks
<1>3. usage[n] \in Int
  BY <1>1, <1>2, TotalType
<1>4. PICK f : IsEviction(f, n, size) /\ Evicted(n, size) = f[N]
  BY <1>3, EvictionSteps
<1>5. /\ f \in [0 .. N -> R]
      /\ f[0] = [pool |-> <<>>, usage |-> usage[n]]
  BY <1>4 DEF IsEviction
<1>6. ASSUME NEW i \in 1 .. N
      PROVE  \/ f[i] = [f[i - 1] EXCEPT !.pool = Append(@, pool[n][i])]
             \/ f[i] = [f[i - 1] EXCEPT !.usage = @ - Needed(disk_models[n][pool[n][i]])]
  BY <1>4 DEF IsEviction
<1>7. PICK p : IsSum(p, w, pool[n]) /\ Total(w, pool[n]) = p[N]
  <2> HIDE DEF w, S, N
  <2>1. \A m \in S : w[m] \in Int
    BY <1>2
  <2>. QED
    BY <1>1, <2>1, TotalSteps DEF N
<1>8. /\ p \in [0 .. N -> Int] /\ p[0] = 0
      /\ \A i \in 1 .. N : p[i] = p[i - 1] + w[pool[n][i]]
  BY <1>7 DEF IsSum
<1> HIDE DEF w, S, N
<1> DEFINE Good(i) ==
              /\ ToSet(f[i].pool) \subseteq {pool[n][k] : k \in 1 .. i}
              /\ IsInjective(f[i].pool)
              /\ f[i].usage = Total(w, f[i].pool) + (p[N] - p[i])
              /\ f[i].usage <= usage[n]
           T == {i \in 0 .. N : Good(i)}
<1>9. Good(0)
  <2>1. f[0].pool = <<>> /\ f[0].usage = usage[n]
    BY <1>5
  <2>2. Total(w, <<>>) = 0
    BY TotalType
  <2>3. usage[n] = p[N] /\ p[N] \in Int
    BY <1>1, <1>7, <1>8 DEF w
  <2>4. f[0].usage = Total(w, f[0].pool) + (p[N] - p[0])
    BY <2>1, <2>2, <2>3, <1>8
  <2>. QED
    BY <2>1, <2>3, <2>4, EmptyElements
<1>10. ASSUME NEW i \in 1 .. N, i - 1 \in 0 .. N, Good(i - 1) PROVE Good(i)
  <2> DEFINE r == f[i - 1]
             m == pool[n][i]
             q == r.pool
             u == r.usage
  <2>1. q \in Seq(S) /\ u \in Int /\ m \in S
    BY <1>1, <1>5, <1>10
  <2>2. p[i] = p[i - 1] + w[m] /\ w[m] \in Nat /\ p[i - 1] \in Int /\ p[i] \in Int
        /\ w[m] = Needed(disk_models[n][m])
    <3>1. p[i] = p[i - 1] + w[m]
      BY <1>8
    <3>2. i \in 0 .. N /\ p[i - 1] \in Int
      <4>1. p \in [0 .. N -> Int]
        BY <1>8
      <4>2. i \in 0 .. N /\ i - 1 \in 0 .. N
        BY <1>1, <1>10
      <4>. QED
        BY <4>1, <4>2
    <3>3. p[i] \in Int
      BY <1>8, <3>2
    <3>4. w[m] \in Nat /\ w[m] = Needed(disk_models[n][m])
      BY <1>2, <2>1
    <3>. QED
      BY <3>1, <3>2, <3>3, <3>4
  <2>3. m \notin ToSet(q)
    <3>1. \A k \in 1 .. i - 1 : pool[n][k] # m
      BY <1>1
    <3>. QED
      BY <1>10, <3>1
  <2>4. {pool[n][k] : k \in 1 .. i} = {pool[n][k] : k \in 1 .. i - 1} \cup {m}
    <3>1. 1 .. i = 1 .. i - 1 \cup {i}
      BY <1>1
    <3>. QED
      BY <3>1
  <2>5. Total(w, q) \in Int /\ p[N] \in Int
    <3>1. \A x \in S : w[x] \in Int
      BY <1>2
    <3>. QED
      BY <2>1, <3>1, TotalType, <1>1, <1>8
  <2>6. u = Total(w, q) + (p[N] - p[i - 1]) /\ u <= usage[n]
        /\ ToSet(q) \subseteq {pool[n][k] : k \in 1 .. i - 1} /\ IsInjective(q)
    BY <1>10
  <2>7. f[i - 1] \in R
    BY <1>5, <1>10
  <2>8. CASE f[i] = [f[i - 1] EXCEPT !.pool = Append(@, pool[n][i])]
    <3>1. f[i].pool = Append(q, m) /\ f[i].usage = u
      BY <2>7, <2>8
    <3>2. ToSet(Append(q, m)) = ToSet(q) \cup {m} /\ IsInjective(Append(q, m))
      BY <2>1, <2>3, <2>6, AppendElements
    <3>3. Total(w, Append(q, m)) = Total(w, q) + w[m]
      <4>1. \A x \in S : w[x] \in Int
        BY <1>2
      <4> HIDE DEF q, m
      <4>. QED
        BY <2>1, <4>1, TotalAppend
    <3>4. u = Total(w, Append(q, m)) + (p[N] - p[i])
      <4> HIDE DEF q, m, u
      <4>. QED
        BY <2>2, <2>5, <2>6, <3>3, SMTT(30)
    <3>5. ToSet(Append(q, m)) \subseteq {pool[n][k] : k \in 1 .. i}
      BY <2>4, <2>6, <3>2
    <3> HIDE DEF q, m, u
    <3>. QED
      BY <2>6, <3>1, <3>2, <3>4, <3>5
  <2>9. CASE f[i] = [f[i - 1] EXCEPT !.usage = @ - Needed(disk_models[n][pool[n][i]])]
    <3>1. f[i].pool = q /\ f[i].usage = u - w[m]
      BY <2>2, <2>7, <2>9
    <3>2. /\ u - w[m] = Total(w, q) + (p[N] - p[i])
          /\ u - w[m] <= usage[n]
      <4> HIDE DEF q, m, u
      <4>. QED
        BY <2>1, <2>2, <2>5, <2>6, <1>3, SMTT(30)
    <3>3. ToSet(q) \subseteq {pool[n][k] : k \in 1 .. i}
      BY <2>4, <2>6
    <3> HIDE DEF q, m, u
    <3>. QED
      BY <2>6, <3>1, <3>2, <3>3
  <2>. QED
    BY <1>6, <2>8, <2>9
<1>11. Good(N)
  <2> HIDE DEF Good
  <2>1. 0 \in T
    BY <1>1, <1>9
  <2>2. ASSUME NEW i \in 1 .. N, i - 1 \in T PROVE i \in T
    <3>1. i - 1 \in 0 .. N /\ Good(i - 1) /\ i \in 0 .. N
      BY <1>1, <2>2
    <3>2. Good(i)
      BY <1>10, <3>1
    <3>. QED
      BY <3>1, <3>2
  <2>3. 0 .. N \subseteq T
    <3> HIDE DEF T
    <3>. QED
      BY <2>1, <2>2, <1>1, UpToBound
  <2>. QED
    BY <2>3, <1>1
<1>12. f[N] \in R
  BY <1>1, <1>5
<1>13. f[N].pool \in Seq(Models) /\ f[N].usage \in Int
  <2>1. f[N].pool \in Seq(S) /\ f[N].usage \in Int
    BY <1>12
  <2>. QED
    BY <2>1, <1>1
<1>14. ToSet(f[N].pool) \subseteq ToSet(pool[n])
  BY <1>11, <1>1 DEF S
<1>15. f[N].usage = Total(w, f[N].pool)
  <2>1. p[N] \in Int
    BY <1>1, <1>8
  <2>2. Total(w, f[N].pool) \in Int
    <3>1. f[N].pool \in Seq(S) /\ \A x \in S : w[x] \in Int
      BY <1>2, <1>12
    <3>. QED
      BY <3>1, TotalType
  <2>. QED
    BY <2>1, <2>2, <1>11
<1>. QED
  BY <1>4, <1>11, <1>13, <1>14, <1>15 DEF w

(***************************************************************************)
(* The inductive invariant                                                 *)
(***************************************************************************)

Tasks == Calls \cup {Loop}
CallRecords ==
    [kind : {None, "load", "info", "register"},
     pc : {"idle", "load", "local", "info", "read", "download", "register"},
     model : Models \cup {None}, node : Nodes \cup {None}, todo : Seq(Nodes),
     preload : SUBSET Nodes, size : Int \cup {None}]

\* The types of the variables.
Types ==
    /\ connecting \subseteq Nodes /\ local_servers \subseteq Nodes
    /\ pool_chunks \in [Nodes -> Nat]
    /\ disk_models \in [Nodes -> [Models -> Int \cup {None}]]
    /\ queued_models \in [Nodes -> SUBSET Models]
    /\ io_queue \in [Nodes -> Seq(Models)] /\ pool \in [Nodes -> Seq(Models)]
    /\ usage \in [Nodes -> Int]
    /\ loop \in [Nodes -> {"none", "head", "evict", "sleep", "retry"}]
    /\ waiters \in [Nodes -> Seq(Tasks)]
    /\ metadata \in Seq(Calls) /\ reader \in Calls \cup {None}
    /\ model_info \in [Models -> Int \cup {None, Absent}]
    /\ model_storage_info \in [Models -> SUBSET Nodes]
    /\ call \in [Calls -> CallRecords]

\* Before all servers are reached nobody calls, and a node without a local
\* store has empty books.
StartInv ==
    /\ connecting \cap local_servers = {}
    /\ connecting # {} => \A c \in Calls : call[c].pc = "idle"
    /\ \A n \in Nodes \ local_servers :
          /\ loop[n] = "none" /\ waiters[n] = <<>> /\ pool[n] = <<>> /\ usage[n] = 0
          /\ io_queue[n] = <<>> /\ queued_models[n] = {}

\* The books of one store: queue, pool and what is counted as used.
BooksInv(n) ==
    /\ queued_models[n] = ToSet(io_queue[n])
    /\ IsInjective(io_queue[n]) /\ IsInjective(pool[n])
    /\ queued_models[n] \cap ToSet(pool[n]) = {}
    /\ usage[n] = Total(Chunks(n), pool[n]) /\ usage[n] <= pool_chunks[n]
    /\ loop[n] = "evict" => io_queue[n] # <<>>

\* What is on the disks, by what stores and manager say.
DiskInv(n, m) ==
    /\ disk_models[n][m] \in {None, -1, Size[m]}
    /\ m \in ToSet(pool[n]) => disk_models[n][m] = Size[m]
    /\ m \in queued_models[n] => disk_models[n][m] # None
    /\ n \in model_storage_info[m] => disk_models[n][m] # None

\* What is known of a registered model.
InfoInv(m) ==
    /\ model_info[m] \in {Absent, None, -1, Size[m]}
    /\ model_info[m] # Absent => \E n \in Nodes : disk_models[n][m] # None

\* What a call relies on where it is.
CallInv(c) ==
    LET r == call[c] IN
    /\ r.pc \in {"load", "local"} =>
          /\ r.kind \in {"load", "register"} /\ r.model \in Models /\ r.node \in Nodes
          /\ r.kind = "register" => disk_models[r.node][r.model] # None
    /\ r.pc = "local" => r.node \in local_servers
    /\ r.pc = "read" => r.todo # <<>> /\ ToSet(r.todo) \subseteq local_servers
    /\ r.pc \in {"download", "register"} => r.kind = "register"
    /\ (r.pc \in {"download", "register"} \/ (r.pc \in {"load", "local"} /\ r.kind = "register")) =>
          /\ local_servers = Nodes /\ r.todo # <<>> /\ r.model \in Models
          /\ r.size \in {None, -1, Size[r.model]}

\* Call c stands in the line at the lock of n.
StandsAt(c, n) ==
    \/ call[c].pc = "local" /\ call[c].node = n
    \/ call[c].pc \in {"read", "register"} /\ call[c].todo[1] = n

\* Every task stands once in the line it waits in and in no other.
LineInv(n) ==
    /\ IsInjective(waiters[n])
    /\ Loop \in ToSet(waiters[n]) <=> loop[n] \in {"head", "evict"}
    /\ \A c \in Calls : c \in ToSet(waiters[n]) <=> StandsAt(c, n)
MetadataInv ==
    /\ IsInjective(metadata)
    /\ \A c \in Calls : c \in ToSet(metadata) <=> call[c].pc \in {"load", "info"}
    /\ \A c \in Calls : reader = c <=> call[c].pc = "read"

IndInv ==
    /\ Types /\ StartInv
    /\ \A n \in Nodes : BooksInv(n) /\ LineInv(n)
    /\ \A n \in Nodes, m \in Models : DiskInv(n, m)
    /\ \A m \in Models : InfoInv(m)
    /\ \A c \in Calls : CallInv(c)
    /\ MetadataInv

(***************************************************************************)
(* Lemmas about the steps                                                  *)
(***************************************************************************)

\* Chunks that are rounded up hold the bytes, and no more is needed of them
\* than a natural number.
LEMMA NeededType ==
    /\ \A s \in Int : Needed(s) \in Int
    /\ \A s \in Nat : Needed(s) \in Nat /\ s <= Needed(s) * ChunkSize
<1> USE SizeAssumption
<1>1. ASSUME NEW s \in Int PROVE Needed(s) \in Int
  BY DEF Needed
<1>2. ASSUME NEW s \in Nat PROVE Needed(s) \in Nat /\ s <= Needed(s) * ChunkSize
  <2> DEFINE t == s + ChunkSize - 1
  <2>1. t \in Nat /\ ChunkSize \in Nat /\ ChunkSize > 0
    OBVIOUS
  <2>2. t \div ChunkSize \in Nat
    BY <2>1
  <2>3. /\ t = ChunkSize * (t \div ChunkSize) + (t % ChunkSize)
        /\ t % ChunkSize \in 0 .. ChunkSize - 1
    <3> HIDE DEF t
    <3>. QED
      BY <2>1
  <2>4. ChunkSize * (t \div ChunkSize) = (t \div ChunkSize) * ChunkSize
        /\ ChunkSize * (t \div ChunkSize) \in Nat
    <3> HIDE DEF t
    <3>. QED
      BY <2>1, <2>2
  <2>5. s <= ChunkSize * (t \div ChunkSize)
    BY <2>1, <2>3, <2>4
  <2>. QED
    BY <2>2, <2>4, <2>5 DEF Needed
<1>. QED
  BY <1>1, <1>2

\* Who leaves a line at its head, joins it at its end, or does both.
LEMMA LineMoves ==
    ASSUME NEW W, NEW s \in Seq(W), IsInjective(s), NEW t \in W
    PROVE  /\ t \notin ToSet(s) =>
                /\ Append(s, t) \in Seq(W) /\ IsInjective(Append(s, t))
                /\ ToSet(Append(s, t)) = ToSet(s) \cup {t}
           /\ s # <<>> =>
                /\ Tail(s) \in Seq(W) /\ IsInjective(Tail(s)) /\ Head(s) \in ToSet(s)
                /\ ToSet(Tail(s)) = ToSet(s) \ {Head(s)}
           /\ s # <<>> /\ Head(s) = t =>
                /\ Append(Tail(s), t) \in Seq(W) /\ IsInjective(Append(Tail(s), t))
                /\ ToSet(Append(Tail(s), t)) = ToSet(s)
<1>1. t \notin ToSet(s) =>
        /\ Append(s, t) \in Seq(W) /\ IsInjective(Append(s, t))
        /\ ToSet(Append(s, t)) = ToSet(s) \cup {t}
  BY AppendElements
<1>2. s # <<>> =>
        /\ Tail(s) \in Seq(W) /\ IsInjective(Tail(s)) /\ Head(s) \in ToSet(s)
        /\ ToSet(Tail(s)) = ToSet(s) \ {Head(s)}
  BY TailElements
<1>3. ASSUME s # <<>>, Head(s) = t
      PROVE  /\ Append(Tail(s), t) \in Seq(W) /\ IsInjective(Append(Tail(s), t))
             /\ ToSet(Append(Tail(s), t)) = ToSet(s)
  <2>1. PICK u : u = Tail(s)
    OBVIOUS
  <2>2. u \in Seq(W) /\ IsInjective(u) /\ t \notin ToSet(u) /\ ToSet(u) \cup {t} = ToSet(s)
    BY <1>2, <1>3, <2>1
  <2>3. /\ Append(u, t) \in Seq(W) /\ IsInjective(Append(u, t))
        /\ ToSet(Append(u, t)) = ToSet(u) \cup {t}
    BY <2>2, AppendElements
  <2>. QED
    BY <2>1, <2>2, <2>3
<1>. QED
  BY <1>1, <1>2, <1>3

\* What a step of call c does at the line of n: it stays where it is, leaves
\* the line, joins it, or leaves it and joins again.
LineStep(c, n) ==
    \/ waiters'[n] = waiters[n] /\ (StandsAt(c, n)' <=> StandsAt(c, n))
    \/ /\ waiters[n] # <<>> /\ Head(waiters[n]) = c
       /\ waiters'[n] = Tail(waiters[n]) /\ ~StandsAt(c, n)'
    \/ /\ waiters'[n] = Append(waiters[n], c)
       /\ ~StandsAt(c, n) /\ StandsAt(c, n)'
    \/ /\ waiters[n] # <<>> /\ Head(waiters[n]) = c
       /\ waiters'[n] = Append(Tail(waiters[n]), c) /\ StandsAt(c, n)'

\* Such a step leaves the line right.
LEMMA LineByCall ==
    ASSUME IndInv, NEW c \in Calls, NEW n \in Nodes,
           \A d \in Calls \ {c} : call'[d] = call[d],
           loop'[n] = loop[n], LineStep(c, n)
    PROVE  LineInv(n)' /\ waiters'[n] \in Seq(Tasks)
<1>1. LineInv(n) /\ waiters[n] \in Seq(Tasks)
  BY DEF IndInv, Types
<1>2. PICK s : s = waiters[n]
  OBVIOUS
<1>3. PICK t : t = waiters'[n]
  OBVIOUS
<1>4. s \in Seq(Tasks) /\ IsInjective(s) /\ c \in Tasks /\ Loop # c
      /\ (c \in ToSet(s) <=> StandsAt(c, n))
  BY <1>1, <1>2, CallAssumption DEF LineInv, Tasks
<1>5. /\ t \in Seq(Tasks) /\ IsInjective(t)
      /\ c \in ToSet(t) <=> StandsAt(c, n)'
      /\ \A x \in Tasks \ {c} : x \in ToSet(t) <=> x \in ToSet(s)
  <2>1. CASE waiters'[n] = waiters[n] /\ (StandsAt(c, n)' <=> StandsAt(c, n))
    BY <1>2, <1>3, <1>4, <2>1
  <2>2. CASE /\ waiters[n] # <<>> /\ Head(waiters[n]) = c
             /\ waiters'[n] = Tail(waiters[n]) /\ ~StandsAt(c, n)'
    <3>1. t = Tail(s) /\ s # <<>> /\ Head(s) = c
      BY <1>2, <1>3, <2>2
    <3>2. t \in Seq(Tasks) /\ IsInjective(t) /\ ToSet(t) = ToSet(s) \ {c}
      BY <1>4, <3>1, LineMoves
    <3>. QED
      BY <2>2, <3>2
  <2>3. CASE /\ waiters'[n] = Append(waiters[n], c)
             /\ ~StandsAt(c, n) /\ StandsAt(c, n)'
    <3>1. t = Append(s, c) /\ c \notin ToSet(s)
      BY <1>2, <1>3, <1>4, <2>3
    <3>2. t \in Seq(Tasks) /\ IsInjective(t) /\ ToSet(t) = ToSet(s) \cup {c}
      BY <1>4, <3>1, LineMoves
    <3>. QED
      BY <2>3, <3>2
  <2>4. CASE /\ waiters[n] # <<>> /\ Head(waiters[n]) = c
             /\ waiters'[n] = Append(Tail(waiters[n]), c) /\ StandsAt(c, n)'
    <3>1. t = Append(Tail(s), c) /\ s # <<>> /\ Head(s) = c
      BY <1>2, <1>3, <2>4
    <3>2. t \in Seq(Tasks) /\ IsInjective(t) /\ ToSet(t) = ToSet(s) /\ c \in ToSet(s)
      BY <1>4, <3>1, LineMoves
    <3>. QED
      BY <2>4, <3>2
  <2>. QED
    BY <2>1, <2>2, <2>3, <2>4 DEF LineStep
<1>6. Loop \in ToSet(t) <=> loop'[n] \in {"head", "evict"}
  <2>1. Loop \in Tasks \ {c}
    BY <1>4 DEF Tasks
  <2>. QED
    BY <1>1, <1>2, <1>5, <2>1 DEF LineInv
<1>7. ASSUME NEW d \in Calls PROVE d \in ToSet(t) <=> StandsAt(d, n)'
  <2>1. CASE d = c
    BY <1>5, <2>1
  <2>2. CASE d # c
    <3>1. d \in Tasks \ {c} /\ call'[d] = call[d]
      BY <2>2 DEF Tasks
    <3>2. d \in ToSet(t) <=> StandsAt(d, n)
      BY <1>1, <1>2, <1>5, <3>1 DEF LineInv
    <3>3. StandsAt(d, n)' <=> StandsAt(d, n)
      BY <3>1 DEF StandsAt
    <3>. QED
      BY <3>2, <3>3
  <2>. QED
    BY <2>1, <2>2
<1>. QED
  BY <1>3, <1>5, <1>6, <1>7 DEF LineInv

\* The same for metadata_lock, and who holds it.
MetadataStep(c) ==
    /\ \/ /\ metadata' = metadata
          /\ call'[c].pc \in {"load", "info"} <=> call[c].pc \in {"load", "info"}
       \/ /\ metadata # <<>> /\ Head(metadata) = c /\ metadata' = Tail(metadata)
          /\ call'[c].pc \notin {"load", "info"}
       \/ /\ metadata' = Append(metadata, c) /\ call[c].pc \notin {"load", "info"}
          /\ call'[c].pc \in {"load", "info"}
    /\ \/ reader' = reader /\ (call'[c].pc = "read" <=> call[c].pc = "read")
       \/ reader = None /\ reader' = c /\ call'[c].pc = "read"
       \/ call[c].pc = "read" /\ reader' = None /\ call'[c].pc # "read"

\* Such a step leaves that line right, and its holder.
LEMMA MetadataByCall ==
    ASSUME IndInv, NEW c \in Calls,
           \A d \in Calls \ {c} : call'[d] = call[d], MetadataStep(c)
    PROVE  MetadataInv' /\ metadata' \in Seq(Calls) /\ reader' \in Calls \cup {None}
<1>1. MetadataInv /\ metadata \in Seq(Calls) /\ reader \in Calls \cup {None}
  BY DEF IndInv, Types
<1>2. PICK s : s = metadata
  OBVIOUS
<1>3. PICK t : t = metadata'
  OBVIOUS
<1>4. s \in Seq(Calls) /\ IsInjective(s)
      /\ (c \in ToSet(s) <=> call[c].pc \in {"load", "info"})
  BY <1>1, <1>2 DEF MetadataInv
<1>5. /\ t \in Seq(Calls) /\ IsInjective(t)
      /\ c \in ToSet(t) <=> call'[c].pc \in {"load", "info"}
      /\ \A x \in Calls \ {c} : x \in ToSet(t) <=> x \in ToSet(s)
  <2>1. CASE /\ metadata' = metadata
             /\ call'[c].pc \in {"load", "info"} <=> call[c].pc \in {"load", "info"}
    BY <1>2, <1>3, <1>4, <2>1
  <2>2. CASE /\ metadata # <<>> /\ Head(metadata) = c /\ metadata' = Tail(metadata)
             /\ call'[c].pc \notin {"load", "info"}
    <3>1. t = Tail(s) /\ s # <<>> /\ Head(s) = c
      BY <1>2, <1>3, <2>2
    <3>2. t \in Seq(Calls) /\ IsInjective(t) /\ ToSet(t) = ToSet(s) \ {c}
      BY <1>4, <3>1, LineMoves
    <3>. QED
      BY <2>2, <3>2
  <2>3. CASE /\ metadata' = Append(metadata, c) /\ call[c].pc \notin {"load", "info"}
             /\ call'[c].pc \in {"load", "info"}
    <3>1. t = Append(s, c) /\ c \notin ToSet(s)
      BY <1>2, <1>3, <1>4, <2>3
    <3>2. t \in Seq(Calls) /\ IsInjective(t) /\ ToSet(t) = ToSet(s) \cup {c}
      BY <1>4, <3>1, LineMoves
    <3>. QED
      BY <2>3, <3>2
  <2>. QED
    BY <2>1, <2>2, <2>3 DEF MetadataStep
<1>6. ASSUME NEW d \in Calls PROVE d \in ToSet(t) <=> call'[d].pc \in {"load", "info"}
  <2>1. CASE d = c
    BY <1>5, <2>1
  <2>2. CASE d # c
    <3>1. d \in Calls \ {c} /\ call'[d] = call[d]
      BY <2>2
    <3>2. d \in ToSet(t) <=> d \in ToSet(s)
      BY <1>5, <3>1
    <3>. QED
      BY <1>1, <1>2, <3>1, <3>2 DEF MetadataInv
  <2>. QED
    BY <2>1, <2>2
<1>7. None \notin Calls
  BY ValueAssumption
<1>8. \A d \in Calls : reader = d <=> call[d].pc = "read"
  BY <1>1 DEF MetadataInv
<1>9. reader' \in Calls \cup {None}
  BY <1>1 DEF MetadataStep
<1>10. ASSUME NEW d \in Calls PROVE reader' = d <=> call'[d].pc = "read"
  <2>1. CASE d = c
    BY <1>7, <1>8, <2>1 DEF MetadataStep
  <2>2. CASE d # c
    <3>1. call'[d] = call[d]
      BY <2>2
    <3>. QED
      BY <1>7, <1>8, <2>2, <3>1 DEF MetadataStep
  <2>. QED
    BY <2>1, <2>2
<1>. QED
  BY <1>3, <1>5, <1>6, <1>9, <1>10 DEF MetadataInv

\* A call that takes no step relies on what only grows.
LEMMA CallFrame ==
    ASSUME NEW c \in Calls, CallInv(c), call'[c] = call[c],
           local_servers \subseteq local_servers', local_servers' \subseteq Nodes,
           \A n \in Nodes, m \in Models : disk_models[n][m] # None => disk_models'[n][m] # None
    PROVE  CallInv(c)'
<1>1. PICK r : r = call[c]
  OBVIOUS
<1>2. call'[c] = r
  BY <1>1
<1>. QED
  BY <1>1, <1>2 DEF CallInv

\* What holds after a step of call c that leaves stores and loops alone, or
\* lets the disks have more.
LEMMA CallParts ==
    ASSUME IndInv, NEW c \in Calls, NEW r \in CallRecords, call' = [call EXCEPT ![c] = r],
           UNCHANGED <<local_servers, loop>>,
           \A n \in Nodes, m \in Models : disk_models[n][m] # None => disk_models'[n][m] # None,
           waiters' = [n \in Nodes |-> waiters'[n]],
           \A n \in Nodes : LineStep(c, n), MetadataStep(c), CallInv(c)'
    PROVE  /\ call' \in [Calls -> CallRecords] /\ waiters' \in [Nodes -> Seq(Tasks)]
           /\ metadata' \in Seq(Calls) /\ reader' \in Calls \cup {None}
           /\ \A n \in Nodes : LineInv(n)'
           /\ \A n \in Nodes \ local_servers : waiters'[n] = <<>>
           /\ MetadataInv' /\ \A d \in Calls : CallInv(d)'
<1>1. call \in [Calls -> CallRecords] /\ local_servers \subseteq Nodes
  BY DEF IndInv, Types
<1>2. /\ call' \in [Calls -> CallRecords] /\ call'[c] = r
      /\ \A d \in Calls \ {c} : call'[d] = call[d]
  BY <1>1
<1>3. ASSUME NEW n \in Nodes PROVE LineInv(n)' /\ waiters'[n] \in Seq(Tasks)
  <2>1. loop'[n] = loop[n] /\ LineStep(c, n)
    OBVIOUS
  <2>. QED
    BY <1>2, <2>1, LineByCall
<1>4. waiters' \in [Nodes -> Seq(Tasks)]
  <2>1. PICK w : w = waiters'
    OBVIOUS
  <2>2. w = [n \in Nodes |-> w[n]] /\ \A n \in Nodes : w[n] \in Seq(Tasks)
    BY <1>3, <2>1
  <2>. QED
    BY <2>1, <2>2
<1>5. MetadataInv' /\ metadata' \in Seq(Calls) /\ reader' \in Calls \cup {None}
  BY <1>2, MetadataByCall
<1>6. ASSUME NEW d \in Calls PROVE CallInv(d)'
  <2>1. CASE d = c
    BY <2>1
  <2>2. CASE d # c
    <3>1. CallInv(d) /\ call'[d] = call[d]
      BY <1>2, <2>2 DEF IndInv
    <3>2. local_servers \subseteq local_servers' /\ local_servers' \subseteq Nodes
      BY <1>1
    <3>. QED
      BY <3>1, <3>2, CallFrame
  <2>. QED
    BY <2>1, <2>2
<1>7. ASSUME NEW n \in Nodes \ local_servers PROVE waiters'[n] = <<>>
  <2>1. waiters[n] = <<>>
    BY DEF IndInv, StartInv
  <2>2. ~StandsAt(c, n)'
    <3>1. local_servers' # Nodes /\ n \notin local_servers'
      OBVIOUS
    <3>2. call'[c].pc = "local" => call'[c].node # n
      BY <3>1 DEF CallInv
    <3>3. call'[c].pc # "register"
      BY <3>1 DEF CallInv
    <3>4. call'[c].pc = "read" => call'[c].todo[1] # n
      <4>1. PICK s : s = call'[c].todo
        OBVIOUS
      <4>2. s \in Seq(Nodes)
        BY <1>2, <4>1 DEF CallRecords
      <4>3. call'[c].pc = "read" => s # <<>> /\ ToSet(s) \subseteq local_servers'
        BY <4>1 DEF CallInv
      <4>4. s # <<>> => s[1] \in ToSet(s)
        BY <4>2 DEF ToSet
      <4>. QED
        BY <3>1, <4>1, <4>3, <4>4
    <3>. QED
      BY <3>2, <3>3, <3>4 DEF StandsAt
  <2>3. LineStep(c, n)
    OBVIOUS
  <2>. QED
    BY <2>1, <2>2, <2>3 DEF LineStep
<1>. QED
  BY <1>2, <1>3, <1>4, <1>5, <1>6, <1>7

\* A step of call c that only moves it.
LEMMA CallMoves ==
    ASSUME IndInv, NEW c \in Calls, NEW r \in CallRecords, call' = [call EXCEPT ![c] = r],
           connecting = {}, UNCHANGED <<stores, manager>>,
           waiters' = [n \in Nodes |-> waiters'[n]],
           \A n \in Nodes : LineStep(c, n), MetadataStep(c), CallInv(c)'
    PROVE  IndInv'
<1>1. /\ UNCHANGED <<pool_chunks, disk_models, queued_models, io_queue, pool, usage, loop>>
      /\ UNCHANGED <<connecting, local_servers, model_info, model_storage_info>>
  BY DEF stores, manager
<1>2. \A n \in Nodes, m \in Models : disk_models[n][m] # None => disk_models'[n][m] # None
  BY <1>1
<1>3. /\ call' \in [Calls -> CallRecords] /\ waiters' \in [Nodes -> Seq(Tasks)]
      /\ metadata' \in Seq(Calls) /\ reader' \in Calls \cup {None}
      /\ \A n \in Nodes : LineInv(n)'
      /\ \A n \in Nodes \ local_servers : waiters'[n] = <<>>
      /\ MetadataInv' /\ \A d \in Calls : CallInv(d)'
  BY <1>1, <1>2, CallParts
<1>4. Types'
  BY <1>1, <1>3 DEF IndInv, Types
<1>5. StartInv'
  BY <1>1, <1>3 DEF IndInv, StartInv
<1>6. \A n \in Nodes : BooksInv(n)'
  BY <1>1 DEF IndInv, BooksInv, Chunks
<1>7. \A n \in Nodes, m \in Models : DiskInv(n, m)'
  BY <1>1 DEF IndInv, DiskInv
<1>8. \A m \in Models : InfoInv(m)'
  BY <1>1 DEF IndInv, InfoInv
<1>. QED
  BY <1>3, <1>4, <1>5, <1>6, <1>7, <1>8 DEF IndInv

\* What a call is before it begins and when it has ended.
LEMMA IdleType ==
    /\ Idle \in CallRecords /\ Idle.pc = "idle" /\ Idle.todo = <<>> /\ Idle.size = None
    /\ \A c \in Calls, n \in Nodes : call[c] = Idle => ~StandsAt(c, n)
<1>1. <<>> \in Seq(Nodes)
  OBVIOUS
<1>. QED
  BY <1>1 DEF Idle, CallRecords, StandsAt

\* A call that is not idle finds the cluster initialized.
LEMMA Started ==
    ASSUME IndInv, NEW c \in Calls, call[c].pc # "idle"
    PROVE  connecting = {}
BY DEF IndInv, StartInv

\* load_to_host is called.
LEMMA StartLoadStep ==
    ASSUME IndInv, NEW c \in Calls, NEW m \in Models, NEW k \in Nodes, StartLoad(c, k, m)
    PROVE  IndInv'
<1> DEFINE r == [Idle EXCEPT !.kind = "load", !.pc = "load", !.model = m, !.node = k]
<1>1. /\ call' = [call EXCEPT ![c] = r] /\ connecting = {} /\ call[c].pc = "idle"
      /\ metadata' = Append(metadata, c) /\ UNCHANGED <<stores, manager, waiters, reader>>
  BY DEF StartLoad
<1>2. /\ r \in CallRecords /\ r.pc = "load" /\ r.kind = "load" /\ r.model = m
      /\ r.node = k
  BY IdleType DEF Idle, CallRecords
<1> HIDE DEF r
<1>3. call'[c] = r /\ call \in [Calls -> CallRecords] /\ waiters \in [Nodes -> Seq(Tasks)]
  BY <1>1 DEF IndInv, Types
<1>4. waiters' = [n \in Nodes |-> waiters'[n]]
  BY <1>1, <1>3
<1>5. ASSUME NEW n \in Nodes PROVE LineStep(c, n)
  <2>1. ~StandsAt(c, n) /\ ~StandsAt(c, n)'
    BY <1>1, <1>2, <1>3 DEF StandsAt
  <2>. QED
    BY <1>1, <2>1 DEF LineStep
<1>6. MetadataStep(c)
  BY <1>1, <1>2, <1>3 DEF MetadataStep
<1>7. CallInv(c)'
  <2>1. "load" # "register"
    OBVIOUS
  <2>. QED
    BY <1>2, <1>3, <2>1 DEF CallInv
<1>. QED
  BY <1>1, <1>2, <1>4, <1>5, <1>6, <1>7, CallMoves

\* get_store_info is called.
LEMMA StartInfoStep ==
    ASSUME IndInv, NEW c \in Calls, StartInfo(c)
    PROVE  IndInv'
<1> DEFINE r == [Idle EXCEPT !.kind = "info", !.pc = "info"]
<1>1. /\ call' = [call EXCEPT ![c] = r] /\ connecting = {} /\ call[c].pc = "idle"
      /\ metadata' = Append(metadata, c) /\ UNCHANGED <<stores, manager, waiters, reader>>
  BY DEF StartInfo
<1>2. r \in CallRecords /\ r.pc = "info"
  BY IdleType DEF Idle, CallRecords
<1> HIDE DEF r
<1>3. call'[c] = r /\ call \in [Calls -> CallRecords] /\ waiters \in [Nodes -> Seq(Tasks)]
  BY <1>1 DEF IndInv, Types
<1>4. waiters' = [n \in Nodes |-> waiters'[n]]
  BY <1>1, <1>3
<1>5. ASSUME NEW n \in Nodes PROVE LineStep(c, n)
  <2>1. ~StandsAt(c, n) /\ ~StandsAt(c, n)'
    BY <1>1, <1>2, <1>3 DEF StandsAt
  <2>. QED
    BY <1>1, <2>1 DEF LineStep
<1>6. MetadataStep(c)
  BY <1>1, <1>2, <1>3 DEF MetadataStep
<1>7. CallInv(c)'
  BY <1>2, <1>3 DEF CallInv
<1>. QED
  BY <1>1, <1>2, <1>4, <1>5, <1>6, <1>7, CallMoves

\* The store of the node is looked up under metadata_lock.
LEMMA LookUpStep ==
    ASSUME IndInv, NEW c \in Calls, LookUp(c)
    PROVE  IndInv'
<1>1. /\ call[c].pc = "load" /\ reader = None /\ metadata # <<>> /\ Head(metadata) = c
      /\ metadata' = Tail(metadata) /\ UNCHANGED <<stores, manager, reader>>
  BY DEF LookUp, MetadataTurn
<1>2. connecting = {}
  BY <1>1, Started
<1>3. /\ call \in [Calls -> CallRecords] /\ waiters \in [Nodes -> Seq(Tasks)] /\ CallInv(c)
      /\ local_servers \subseteq Nodes
  BY DEF IndInv, Types
<1>4. PICK old : old = call[c]
  OBVIOUS
<1>5. old \in CallRecords /\ old.pc = "load" /\ old.node \in Nodes /\ old.model \in Models
      /\ old.kind \in {"load", "register"}
  BY <1>1, <1>3, <1>4 DEF CallInv
<1>6. UNCHANGED <<local_servers, disk_models>>
  BY <1>1 DEF stores, manager
<1>7. CASE old.node \in local_servers
  <2>1. PICK r : r = [old EXCEPT !.pc = "local"]
    OBVIOUS
  <2>2. call' = [call EXCEPT ![c] = r] /\ waiters' = [waiters EXCEPT ![old.node] = Append(@, c)]
    BY <1>3, <1>4, <1>7, <2>1 DEF LookUp, Join
  <2>3. r \in CallRecords /\ r.pc = "local" /\ r.node = old.node /\ r.model = old.model
        /\ r.kind = old.kind /\ r.todo = old.todo /\ r.size = old.size
    BY <1>5, <2>1 DEF CallRecords
  <2>4. call'[c] = r
    BY <1>3, <2>2
  <2>5. waiters' = [n \in Nodes |-> waiters'[n]]
    BY <1>3, <2>2
  <2>6. ASSUME NEW n \in Nodes PROVE LineStep(c, n)
    <3>1. ~StandsAt(c, n) /\ (StandsAt(c, n)' <=> n = old.node)
      BY <1>1, <2>3, <2>4 DEF StandsAt
    <3>2. waiters'[n] = IF n = old.node THEN Append(waiters[n], c) ELSE waiters[n]
      BY <1>3, <2>2
    <3>. QED
      BY <3>1, <3>2 DEF LineStep
  <2>7. MetadataStep(c)
    BY <1>1, <2>3, <2>4 DEF MetadataStep
  <2>8. CallInv(c)'
    <3>1. /\ old.kind = "register" => disk_models[old.node][old.model] # None
          /\ old.kind = "register" =>
                /\ local_servers = Nodes /\ old.todo # <<>> /\ old.model \in Models
                /\ old.size \in {None, -1, Size[old.model]}
      BY <1>3, <1>4, <1>5 DEF CallInv
    <3>. QED
      BY <1>5, <1>6, <1>7, <2>3, <2>4, <3>1 DEF CallInv
  <2>. QED
    BY <1>1, <1>2, <2>2, <2>3, <2>5, <2>6, <2>7, <2>8, CallMoves
<1>8. CASE old.node \notin local_servers
  <2>1. PICK r : r = Idle
    OBVIOUS
  <2>2. call' = [call EXCEPT ![c] = r] /\ UNCHANGED waiters
    BY <1>4, <1>8, <2>1 DEF LookUp
  <2>3. r \in CallRecords /\ r.pc = "idle"
    BY <2>1, IdleType
  <2>4. call'[c] = r
    BY <1>3, <2>2
  <2>5. waiters' = [n \in Nodes |-> waiters'[n]]
    BY <1>3, <2>2
  <2>6. ASSUME NEW n \in Nodes PROVE LineStep(c, n)
    <3>1. ~StandsAt(c, n) /\ ~StandsAt(c, n)'
      BY <1>1, <2>3, <2>4 DEF StandsAt
    <3>. QED
      BY <2>2, <3>1 DEF LineStep
  <2>7. MetadataStep(c)
    BY <1>1, <2>3, <2>4 DEF MetadataStep
  <2>8. CallInv(c)'
    BY <2>3, <2>4 DEF CallInv
  <2>. QED
    BY <1>1, <1>2, <2>2, <2>3, <2>5, <2>6, <2>7, <2>8, CallMoves
<1>. QED
  BY <1>7, <1>8

\* The stores that get_store_info visits.
LEMMA StoresInOrder ==
    ASSUME NEW S, IsFiniteSet(S)
    PROVE  SetToSeq(S) \in Seq(S)
<1>1. PICK k \in Nat : k = Cardinality(S)
  BY FS_CardinalityType
<1>2. ExistsBijection(1 .. k, S)
  BY <1>1, FS_CardinalityType
<1>3. PICK f \in [1 .. k -> S] : IsInjective(f)
  BY <1>2 DEF ExistsBijection, Bijection, Injection, IsInjective
<1>4. SetToSeq(S) \in [1 .. k -> S]
  BY <1>1, <1>3 DEF SetToSeq
<1>. QED
  BY <1>4

\* get_store_info has metadata_lock and joins the line at the first store.
LEMMA LockInfoStep ==
    ASSUME IndInv, NEW c \in Calls, LockInfo(c)
    PROVE  IndInv'
<1>1. /\ call[c].pc = "info" /\ reader = None /\ metadata # <<>> /\ Head(metadata) = c
      /\ metadata' = Tail(metadata) /\ UNCHANGED <<stores, manager>>
  BY DEF LockInfo, MetadataTurn
<1>2. connecting = {}
  BY <1>1, Started
<1>3. /\ call \in [Calls -> CallRecords] /\ waiters \in [Nodes -> Seq(Tasks)]
      /\ local_servers \subseteq Nodes
  BY DEF IndInv, Types
<1>4. PICK ns : ns = SetToSeq(local_servers)
  OBVIOUS
<1>5. ns \in Seq(local_servers)
  <2>1. PICK S : S = local_servers
    OBVIOUS
  <2>2. IsFiniteSet(S)
    BY <1>3, <2>1, NodesAssumption, FS_Subset
  <2>3. SetToSeq(S) \in Seq(S)
    BY <2>2, StoresInOrder
  <2>. QED
    BY <1>4, <2>1, <2>3
<1>6. UNCHANGED local_servers
  BY <1>1 DEF manager
<1>7. PICK old : old = call[c]
  OBVIOUS
<1>8. old \in CallRecords /\ old.pc = "info"
  BY <1>1, <1>3, <1>7
<1>9. CASE ns # <<>>
  <2>1. PICK r : r = [old EXCEPT !.pc = "read", !.todo = ns]
    OBVIOUS
  <2>2. /\ call' = [call EXCEPT ![c] = r] /\ reader' = c
        /\ waiters' = [waiters EXCEPT ![ns[1]] = Append(@, c)]
    BY <1>3, <1>4, <1>7, <1>9, <2>1 DEF LockInfo, Join
  <2>3. ns \in Seq(Nodes) /\ ns[1] \in local_servers /\ ToSet(ns) \subseteq local_servers
    BY <1>3, <1>5, <1>9 DEF ToSet
  <2>4. r \in CallRecords /\ r.pc = "read" /\ r.todo = ns
    BY <1>8, <2>1, <2>3 DEF CallRecords
  <2>5. call'[c] = r
    BY <1>3, <2>2
  <2>6. waiters' = [n \in Nodes |-> waiters'[n]]
    BY <1>3, <2>2
  <2>7. ASSUME NEW n \in Nodes PROVE LineStep(c, n)
    <3>1. ~StandsAt(c, n) /\ (StandsAt(c, n)' <=> n = ns[1])
      BY <1>1, <2>4, <2>5 DEF StandsAt
    <3>2. waiters'[n] = IF n = ns[1] THEN Append(waiters[n], c) ELSE waiters[n]
      BY <1>3, <2>2, <2>3
    <3>. QED
      BY <3>1, <3>2 DEF LineStep
  <2>8. MetadataStep(c)
    BY <1>1, <2>2, <2>4, <2>5 DEF MetadataStep
  <2>9. CallInv(c)'
    BY <1>6, <1>9, <2>3, <2>4, <2>5 DEF CallInv
  <2>. QED
    BY <1>1, <1>2, <2>2, <2>4, <2>6, <2>7, <2>8, <2>9, CallMoves
<1>10. CASE ns = <<>>
  <2>1. PICK r : r = Idle
    OBVIOUS
  <2>2. call' = [call EXCEPT ![c] = r] /\ UNCHANGED <<reader, waiters>>
    BY <1>4, <1>10, <2>1 DEF LockInfo
  <2>3. r \in CallRecords /\ r.pc = "idle"
    BY <2>1, IdleType
  <2>4. call'[c] = r
    BY <1>3, <2>2
  <2>5. waiters' = [n \in Nodes |-> waiters'[n]]
    BY <1>3, <2>2
  <2>6. ASSUME NEW n \in Nodes PROVE LineStep(c, n)
    <3>1. ~StandsAt(c, n) /\ ~StandsAt(c, n)'
      BY <1>1, <2>3, <2>4 DEF StandsAt
    <3>. QED
      BY <2>2, <3>1 DEF LineStep
  <2>7. MetadataStep(c)
    BY <1>1, <2>2, <2>3, <2>4 DEF MetadataStep
  <2>8. CallInv(c)'
    BY <2>3, <2>4 DEF CallInv
  <2>. QED
    BY <1>1, <1>2, <2>2, <2>3, <2>5, <2>6, <2>7, <2>8, CallMoves
<1>. QED
  BY <1>9, <1>10

\* One store has answered get_store_info.
LEMMA ReadInfoStep ==
    ASSUME IndInv, NEW c \in Calls, ReadInfo(c)
    PROVE  IndInv'
<1>1. /\ call[c].pc = "read" /\ UNCHANGED <<stores, manager, metadata>>
  BY DEF ReadInfo
<1>2. connecting = {}
  BY <1>1, Started
<1>3. /\ call \in [Calls -> CallRecords] /\ waiters \in [Nodes -> Seq(Tasks)]
      /\ local_servers \subseteq Nodes /\ CallInv(c)
  BY DEF IndInv, Types
<1>4. PICK old : old = call[c]
  OBVIOUS
<1>5. PICK s : s = old.todo
  OBVIOUS
<1>6. /\ old \in CallRecords /\ old.pc = "read" /\ s \in Seq(Nodes) /\ s # <<>>
      /\ ToSet(s) \subseteq local_servers
  BY <1>1, <1>3, <1>4, <1>5 DEF CallRecords, CallInv
<1>7. PICK k : k = s[1]
  OBVIOUS
<1>8. k \in Nodes /\ k \in local_servers
  BY <1>6, <1>7, <1>3 DEF ToSet
<1>9. waiters[k] # <<>> /\ Head(waiters[k]) = c
  BY <1>4, <1>5, <1>7 DEF ReadInfo, Turn
<1>10. PICK rest : rest = Tail(s)
  OBVIOUS
<1>11. rest \in Seq(Nodes) /\ ToSet(rest) \subseteq ToSet(s)
  BY <1>6, <1>10 DEF ToSet
<1>12. UNCHANGED local_servers
  BY <1>1 DEF manager
<1>13. CASE rest # <<>>
  <2>1. PICK r : r = [old EXCEPT !.todo = rest]
    OBVIOUS
  <2>2. /\ call' = [call EXCEPT ![c] = r] /\ UNCHANGED reader
        /\ waiters' = [[waiters EXCEPT ![k] = Tail(@)] EXCEPT ![rest[1]] = Append(@, c)]
    BY <1>3, <1>4, <1>5, <1>7, <1>10, <1>13, <2>1 DEF ReadInfo
  <2>3. rest[1] \in Nodes
    BY <1>11, <1>13
  <2>4. r \in CallRecords /\ r.pc = "read" /\ r.todo = rest
    BY <1>6, <1>11, <2>1 DEF CallRecords
  <2>5. call'[c] = r
    BY <1>3, <2>2
  <2>6. waiters' = [n \in Nodes |-> waiters'[n]]
    BY <1>3, <2>2
  <2>7. ASSUME NEW n \in Nodes PROVE LineStep(c, n)
    <3>1. (StandsAt(c, n) <=> n = k) /\ (StandsAt(c, n)' <=> n = rest[1])
      BY <1>1, <1>4, <1>5, <1>7, <2>4, <2>5 DEF StandsAt
    <3>2. CASE k = rest[1]
      <4>1. waiters'[n] = IF n = k THEN Append(Tail(waiters[n]), c) ELSE waiters[n]
        BY <1>3, <1>8, <2>2, <3>2
      <4>. QED
        BY <1>9, <3>1, <3>2, <4>1 DEF LineStep
    <3>3. CASE k # rest[1]
      <4> DEFINE left == [waiters EXCEPT ![k] = Tail(@)]
      <4>2. /\ left \in [Nodes -> {left[m] : m \in Nodes}]
            /\ left[n] = IF n = k THEN Tail(waiters[n]) ELSE waiters[n]
            /\ left[rest[1]] = waiters[rest[1]]
        BY <1>3, <1>8, <2>3, <3>3
      <4>3. waiters' = [left EXCEPT ![rest[1]] = Append(left[rest[1]], c)]
        BY <2>2
      <4> HIDE DEF left
      <4>1. waiters'[n] = IF n = k THEN Tail(waiters[n])
                          ELSE IF n = rest[1] THEN Append(waiters[n], c) ELSE waiters[n]
        BY <2>3, <3>3, <4>2, <4>3
      <4>. QED
        BY <1>9, <3>1, <3>3, <4>1 DEF LineStep
    <3>. QED
      BY <3>2, <3>3
  <2>8. MetadataStep(c)
    BY <1>1, <2>2, <2>4, <2>5 DEF MetadataStep
  <2>9. CallInv(c)'
    BY <1>6, <1>11, <1>12, <1>13, <2>4, <2>5 DEF CallInv
  <2>. QED
    BY <1>1, <1>2, <2>2, <2>4, <2>6, <2>7, <2>8, <2>9, CallMoves
<1>14. CASE rest = <<>>
  <2>1. PICK r : r = Idle
    OBVIOUS
  <2>2. /\ call' = [call EXCEPT ![c] = r] /\ reader' = None
        /\ waiters' = [waiters EXCEPT ![k] = Tail(@)]
    BY <1>4, <1>5, <1>7, <1>10, <1>14, <2>1 DEF ReadInfo, Leave
  <2>3. r \in CallRecords /\ r.pc = "idle"
    BY <2>1, IdleType
  <2>4. call'[c] = r
    BY <1>3, <2>2
  <2>5. waiters' = [n \in Nodes |-> waiters'[n]]
    BY <1>3, <2>2
  <2>6. ASSUME NEW n \in Nodes PROVE LineStep(c, n)
    <3>1. (StandsAt(c, n) <=> n = k) /\ ~StandsAt(c, n)'
      BY <1>1, <1>4, <1>5, <1>7, <2>3, <2>4 DEF StandsAt
    <3>2. waiters'[n] = IF n = k THEN Tail(waiters[n]) ELSE waiters[n]
      BY <1>3, <1>8, <2>2
    <3>. QED
      BY <1>9, <3>1, <3>2 DEF LineStep
  <2>7. MetadataStep(c)
    BY <1>1, <2>2, <2>3, <2>4 DEF MetadataStep
  <2>8. CallInv(c)'
    BY <2>3, <2>4 DEF CallInv
  <2>. QED
    BY <1>1, <1>2, <2>2, <2>3, <2>5, <2>6, <2>7, <2>8, CallMoves
<1>. QED
  BY <1>13, <1>14

\* A download ends.
LEMMA DownloadedStep ==
    ASSUME IndInv, NEW c \in Calls, NEW ok \in BOOLEAN, Downloaded(c, ok)
    PROVE  IndInv'
<1>1. /\ call[c].pc = "download" /\ UNCHANGED <<stores, manager, metadata, reader>>
  BY DEF Downloaded
<1>2. connecting = {}
  BY <1>1, Started
<1>3. /\ call \in [Calls -> CallRecords] /\ waiters \in [Nodes -> Seq(Tasks)]
      /\ local_servers \subseteq Nodes /\ CallInv(c)
  BY DEF IndInv, Types
<1>4. PICK old : old = call[c]
  OBVIOUS
<1>5. PICK s : s = old.todo
  OBVIOUS
<1>6. /\ old \in CallRecords /\ old.pc = "download" /\ s \in Seq(Nodes) /\ s # <<>>
      /\ old.kind = "register" /\ local_servers = Nodes /\ old.model \in Models
      /\ old.size \in {None, -1, Size[old.model]}
  BY <1>1, <1>3, <1>4, <1>5 DEF CallRecords, CallInv
<1>7. PICK k : k = s[1]
  OBVIOUS
<1>8. k \in Nodes
  BY <1>6, <1>7
<1>9. UNCHANGED local_servers
  BY <1>1 DEF manager
<1>10. CASE ok
  <2>1. PICK r : r = [old EXCEPT !.pc = "register"]
    OBVIOUS
  <2>2. call' = [call EXCEPT ![c] = r] /\ waiters' = [waiters EXCEPT ![k] = Append(@, c)]
    BY <1>3, <1>4, <1>5, <1>7, <1>10, <2>1 DEF Downloaded, Join
  <2>3. /\ r \in CallRecords /\ r.pc = "register" /\ r.todo = s /\ r.kind = "register"
        /\ r.model = old.model /\ r.size = old.size
    BY <1>5, <1>6, <2>1 DEF CallRecords
  <2>4. call'[c] = r
    BY <1>3, <2>2
  <2>5. waiters' = [n \in Nodes |-> waiters'[n]]
    BY <1>3, <2>2
  <2>6. ASSUME NEW n \in Nodes PROVE LineStep(c, n)
    <3>1. ~StandsAt(c, n) /\ (StandsAt(c, n)' <=> n = k)
      BY <1>1, <1>7, <2>3, <2>4 DEF StandsAt
    <3>2. waiters'[n] = IF n = k THEN Append(waiters[n], c) ELSE waiters[n]
      BY <1>3, <1>8, <2>2
    <3>. QED
      BY <3>1, <3>2 DEF LineStep
  <2>7. MetadataStep(c)
    BY <1>1, <2>3, <2>4 DEF MetadataStep
  <2>8. CallInv(c)'
    BY <1>6, <1>9, <2>3, <2>4 DEF CallInv
  <2>. QED
    BY <1>1, <1>2, <2>2, <2>3, <2>5, <2>6, <2>7, <2>8, CallMoves
<1>11. CASE ~ok
  <2>1. PICK r : r = Idle
    OBVIOUS
  <2>2. call' = [call EXCEPT ![c] = r] /\ UNCHANGED waiters
    BY <1>11, <2>1 DEF Downloaded
  <2>3. r \in CallRecords /\ r.pc = "idle"
    BY <2>1, IdleType
  <2>4. call'[c] = r
    BY <1>3, <2>2
  <2>5. waiters' = [n \in Nodes |-> waiters'[n]]
    BY <1>3, <2>2
  <2>6. ASSUME NEW n \in Nodes PROVE LineStep(c, n)
    <3>1. ~StandsAt(c, n) /\ ~StandsAt(c, n)'
      BY <1>1, <2>3, <2>4 DEF StandsAt
    <3>. QED
      BY <2>2, <3>1 DEF LineStep
  <2>7. MetadataStep(c)
    BY <1>1, <2>3, <2>4 DEF MetadataStep
  <2>8. CallInv(c)'
    BY <2>3, <2>4 DEF CallInv
  <2>. QED
    BY <1>1, <1>2, <2>2, <2>3, <2>5, <2>6, <2>7, <2>8, CallMoves
<1>. QED
  BY <1>10, <1>11

\* What a step of a loading_loop that puts it at l does at its lock.
LoopMove(n, l) ==
    /\ loop[n] # "none" /\ loop' = [loop EXCEPT ![n] = l]
    /\ \/ /\ loop[n] \notin {"head", "evict"} /\ l \in {"head", "evict"}
          /\ waiters' = [waiters EXCEPT ![n] = Append(@, Loop)]
       \/ /\ waiters[n] # <<>> /\ Head(waiters[n]) = Loop /\ l \notin {"head", "evict"}
          /\ waiters' = [waiters EXCEPT ![n] = Tail(@)]
       \/ /\ waiters[n] # <<>> /\ Head(waiters[n]) = Loop /\ l \in {"head", "evict"}
          /\ waiters' = [waiters EXCEPT ![n] = Append(Tail(@), Loop)]

\* Such a step leaves the lines right.
LEMMA LoopParts ==
    ASSUME IndInv, NEW n \in Nodes, NEW l \in {"head", "evict", "sleep", "retry"},
           LoopMove(n, l), UNCHANGED <<call, manager, metadata, reader>>
    PROVE  /\ waiters' \in [Nodes -> Seq(Tasks)]
           /\ loop' \in [Nodes -> {"none", "head", "evict", "sleep", "retry"}]
           /\ n \in local_servers /\ loop'[n] = l
           /\ \A k \in Nodes \ {n} : loop'[k] = loop[k] /\ waiters'[k] = waiters[k]
           /\ \A k \in Nodes : LineInv(k)'
           /\ MetadataInv'
<1>1. /\ waiters \in [Nodes -> Seq(Tasks)]
      /\ loop \in [Nodes -> {"none", "head", "evict", "sleep", "retry"}]
      /\ MetadataInv
  BY DEF IndInv, Types
<1>2. /\ loop' \in [Nodes -> {"none", "head", "evict", "sleep", "retry"}] /\ loop'[n] = l
      /\ \A k \in Nodes \ {n} : loop'[k] = loop[k]
  BY <1>1 DEF LoopMove
<1>3. n \in local_servers
  BY DEF IndInv, StartInv, LoopMove
<1>4. PICK s : s = waiters[n]
  OBVIOUS
<1>5. /\ s \in Seq(Tasks) /\ IsInjective(s)
      /\ Loop \in ToSet(s) <=> loop[n] \in {"head", "evict"}
      /\ \A c \in Calls : c \in ToSet(s) <=> StandsAt(c, n)
  BY <1>1, <1>4 DEF IndInv, LineInv
<1>6. Loop \in Tasks /\ Loop \notin Calls
  BY CallAssumption DEF Tasks
<1>7. PICK t : /\ waiters' = [waiters EXCEPT ![n] = t]
               /\ t \in Seq(Tasks) /\ IsInjective(t)
               /\ Loop \in ToSet(t) <=> l \in {"head", "evict"}
               /\ \A c \in Calls : c \in ToSet(t) <=> c \in ToSet(s)
  <2>1. CASE /\ loop[n] \notin {"head", "evict"} /\ l \in {"head", "evict"}
             /\ waiters' = [waiters EXCEPT ![n] = Append(@, Loop)]
    <3>1. PICK t : t = Append(s, Loop)
      OBVIOUS
    <3>2. /\ t \in Seq(Tasks) /\ IsInjective(t) /\ ToSet(t) = ToSet(s) \cup {Loop}
      BY <1>5, <1>6, <2>1, <3>1, LineMoves
    <3>3. waiters' = [waiters EXCEPT ![n] = t]
      BY <1>4, <2>1, <3>1
    <3>. QED
      BY <1>6, <2>1, <3>2, <3>3
  <2>2. CASE /\ waiters[n] # <<>> /\ Head(waiters[n]) = Loop /\ l \notin {"head", "evict"}
             /\ waiters' = [waiters EXCEPT ![n] = Tail(@)]
    <3>1. PICK t : t = Tail(s)
      OBVIOUS
    <3>2. /\ t \in Seq(Tasks) /\ IsInjective(t) /\ ToSet(t) = ToSet(s) \ {Loop}
      BY <1>4, <1>5, <1>6, <2>2, <3>1, LineMoves
    <3>3. waiters' = [waiters EXCEPT ![n] = t]
      BY <1>4, <2>2, <3>1
    <3>. QED
      BY <1>6, <2>2, <3>2, <3>3
  <2>3. CASE /\ waiters[n] # <<>> /\ Head(waiters[n]) = Loop /\ l \in {"head", "evict"}
             /\ waiters' = [waiters EXCEPT ![n] = Append(Tail(@), Loop)]
    <3>1. PICK t : t = Append(Tail(s), Loop)
      OBVIOUS
    <3>2. /\ t \in Seq(Tasks) /\ IsInjective(t) /\ ToSet(t) = ToSet(s)
          /\ Loop \in ToSet(s)
      BY <1>4, <1>5, <1>6, <2>3, <3>1, LineMoves
    <3>3. waiters' = [waiters EXCEPT ![n] = t]
      BY <1>4, <2>3, <3>1
    <3>. QED
      BY <1>6, <2>3, <3>2, <3>3
  <2>. QED
    BY <2>1, <2>2, <2>3 DEF LoopMove
<1>8. /\ waiters' \in [Nodes -> Seq(Tasks)] /\ waiters'[n] = t
      /\ \A k \in Nodes \ {n} : waiters'[k] = waiters[k]
  BY <1>1, <1>7
<1>9. ASSUME NEW k \in Nodes PROVE LineInv(k)'
  <2>1. \A c \in Calls : StandsAt(c, k)' <=> StandsAt(c, k)
    BY DEF StandsAt
  <2>2. CASE k = n
    BY <1>2, <1>5, <1>7, <1>8, <2>1, <2>2 DEF LineInv
  <2>3. CASE k # n
    <3>1. loop'[k] = loop[k] /\ waiters'[k] = waiters[k]
      BY <1>2, <1>8, <2>3
    <3>. QED
      BY <2>1, <3>1 DEF IndInv, LineInv
  <2>. QED
    BY <2>2, <2>3
<1>10. MetadataInv'
  BY <1>1 DEF MetadataInv
<1>. QED
  BY <1>2, <1>3, <1>8, <1>9, <1>10

\* The loop looks at its queue, or its second is over.
LEMMA LoopTurns ==
    ASSUME IndInv, NEW n \in Nodes, TakeHead(n) \/ Wake(n)
    PROVE  IndInv'
<1>1. /\ UNCHANGED <<pool_chunks, disk_models, queued_models, io_queue, pool, usage>>
      /\ UNCHANGED <<connecting, local_servers, model_info, model_storage_info>>
      /\ UNCHANGED <<call, manager, metadata, reader>>
  BY DEF TakeHead, Wake, manager
<1>2. PICK l \in {"head", "evict", "sleep", "retry"} :
         LoopMove(n, l) /\ (l = "evict" => io_queue[n] # <<>>)
  <2>1. CASE TakeHead(n)
    <3>1. loop[n] = "head" /\ waiters[n] # <<>> /\ Head(waiters[n]) = Loop
      BY <2>1 DEF TakeHead, Turn
    <3>2. CASE io_queue[n] = <<>>
      BY <2>1, <3>1, <3>2 DEF TakeHead, Leave, LoopMove
    <3>3. CASE io_queue[n] # <<>>
      BY <2>1, <3>1, <3>3 DEF TakeHead, Requeue, LoopMove
    <3>. QED
      BY <3>2, <3>3
  <2>2. CASE Wake(n)
    BY <2>2 DEF Wake, LoopMove
  <2>. QED
    BY <2>1, <2>2
<1>3. /\ waiters' \in [Nodes -> Seq(Tasks)]
      /\ loop' \in [Nodes -> {"none", "head", "evict", "sleep", "retry"}]
      /\ n \in local_servers /\ loop'[n] = l
      /\ \A k \in Nodes \ {n} : loop'[k] = loop[k] /\ waiters'[k] = waiters[k]
      /\ \A k \in Nodes : LineInv(k)'
      /\ MetadataInv'
  BY <1>1, <1>2, LoopParts
<1>4. Types'
  BY <1>1, <1>3 DEF IndInv, Types
<1>5. StartInv'
  BY <1>1, <1>3 DEF IndInv, StartInv
<1>6. ASSUME NEW k \in Nodes PROVE BooksInv(k)'
  <2>1. loop'[k] = "evict" => io_queue[k] # <<>>
    BY <1>2, <1>3 DEF IndInv, BooksInv
  <2>. QED
    BY <1>1, <2>1 DEF IndInv, BooksInv, Chunks
<1>7. \A k \in Nodes, m \in Models : DiskInv(k, m)'
  BY <1>1 DEF IndInv, DiskInv
<1>8. \A m \in Models : InfoInv(m)'
  BY <1>1 DEF IndInv, InfoInv
<1>9. \A c \in Calls : CallInv(c)'
  BY <1>1 DEF IndInv, CallInv
<1>. QED
  BY <1>3, <1>4, <1>5, <1>6, <1>7, <1>8, <1>9 DEF IndInv

\* What a store has of the models in its pool and in its queue: their sizes
\* are known, so that what they need is a number.
LEMMA BooksFacts ==
    ASSUME IndInv, NEW n \in Nodes
    PROVE  /\ pool[n] \in Seq(Models) /\ io_queue[n] \in Seq(Models)
           /\ \A m \in ToSet(pool[n]) : disk_models[n][m] = Size[m]
           /\ \A m \in ToSet(pool[n]) :
                 Chunks(n)[m] = Needed(disk_models[n][m]) /\ Chunks(n)[m] \in Nat
           /\ \A m \in ToSet(io_queue[n]) :
                 /\ disk_models[n][m] \in {-1, Size[m]}
                 /\ Chunks(n)[m] = Needed(disk_models[n][m]) /\ Chunks(n)[m] \in Int
<1>1. /\ pool[n] \in Seq(Models) /\ io_queue[n] \in Seq(Models)
      /\ queued_models[n] = ToSet(io_queue[n])
      /\ \A m \in Models : DiskInv(n, m)
  BY DEF IndInv, Types, BooksInv
<1>2. ToSet(pool[n]) \subseteq Models /\ ToSet(io_queue[n]) \subseteq Models
  BY <1>1, ToSetMember
<1>3. \A m \in Models : Size[m] \in Nat /\ Chunks(n)[m] = Needed(disk_models[n][m])
  BY SizeAssumption DEF Chunks
<1>4. \A m \in ToSet(pool[n]) : disk_models[n][m] = Size[m]
  BY <1>1, <1>2 DEF DiskInv
<1>5. \A m \in ToSet(io_queue[n]) : disk_models[n][m] \in {-1, Size[m]}
  BY <1>1, <1>2 DEF DiskInv
<1>6. ASSUME NEW m \in ToSet(pool[n])
      PROVE  Chunks(n)[m] = Needed(disk_models[n][m]) /\ Chunks(n)[m] \in Nat
  BY <1>2, <1>3, <1>4, NeededType
<1>7. ASSUME NEW m \in ToSet(io_queue[n])
      PROVE  Chunks(n)[m] = Needed(disk_models[n][m]) /\ Chunks(n)[m] \in Int
  <2>1. disk_models[n][m] \in Int
    BY <1>2, <1>3, <1>5
  <2>. QED
    BY <1>2, <1>3, <2>1, NeededType
<1>. QED
  BY <1>1, <1>4, <1>5, <1>6, <1>7

\* Where a step of the loop leaves queue and pool.  left is what the eviction
\* left, m the model at the head of the queue.
EvictEffect(n, left, m) ==
    \/ /\ io_queue' = [io_queue EXCEPT ![n] = Tail(@)]
       /\ queued_models' = [queued_models EXCEPT ![n] = @ \ {m}]
       /\ \/ /\ disk_models[n][m] = Size[m]
             /\ pool' = [pool EXCEPT ![n] = Append(left.pool, m)]
             /\ usage' = [usage EXCEPT ![n] = left.usage + Chunks(n)[m]]
             /\ left.usage + Chunks(n)[m] <= pool_chunks[n]
          \/ /\ pool' = [pool EXCEPT ![n] = left.pool]
             /\ usage' = [usage EXCEPT ![n] = left.usage]
    \/ /\ pool' = [pool EXCEPT ![n] = left.pool]
       /\ usage' = [usage EXCEPT ![n] = left.usage]
       /\ UNCHANGED <<io_queue, queued_models>>

\* The books after EvictAndLoad: those of the eviction, and of the head of the
\* queue if it was loaded.
LEMMA EvictBooks ==
    ASSUME IndInv, NEW n \in Nodes, NEW m, NEW left, loop'[n] # "evict",
           io_queue[n] # <<>>, m = Head(io_queue[n]), left = Evicted(n, disk_models[n][m]),
           EvictEffect(n, left, m), UNCHANGED <<disk_models, pool_chunks>>
    PROVE  /\ io_queue' \in [Nodes -> Seq(Models)] /\ pool' \in [Nodes -> Seq(Models)]
           /\ queued_models' \in [Nodes -> SUBSET Models] /\ usage' \in [Nodes -> Int]
           /\ BooksInv(n)'
           /\ ToSet(pool'[n]) \subseteq ToSet(pool[n]) \cup {m}
           /\ m \in ToSet(pool'[n]) => disk_models[n][m] = Size[m]
           /\ queued_models'[n] \subseteq queued_models[n]
           /\ \A k \in Nodes \ {n} : /\ pool'[k] = pool[k] /\ usage'[k] = usage[k]
                                     /\ io_queue'[k] = io_queue[k]
                                     /\ queued_models'[k] = queued_models[k]
<1>1. /\ io_queue \in [Nodes -> Seq(Models)] /\ pool \in [Nodes -> Seq(Models)]
      /\ queued_models \in [Nodes -> SUBSET Models] /\ usage \in [Nodes -> Int]
      /\ pool_chunks \in [Nodes -> Nat] /\ BooksInv(n)
  BY DEF IndInv, Types
<1>2. /\ pool[n] \in Seq(Models) /\ io_queue[n] \in Seq(Models)
      /\ \A x \in ToSet(pool[n]) : Chunks(n)[x] = Needed(disk_models[n][x]) /\ Chunks(n)[x] \in Nat
      /\ \A x \in ToSet(io_queue[n]) : Chunks(n)[x] = Needed(disk_models[n][x]) /\ Chunks(n)[x] \in Int
  BY BooksFacts
<1>3. /\ queued_models[n] = ToSet(io_queue[n])
      /\ IsInjective(io_queue[n]) /\ IsInjective(pool[n])
      /\ queued_models[n] \cap ToSet(pool[n]) = {}
      /\ usage[n] = Total(Chunks(n), pool[n]) /\ usage[n] <= pool_chunks[n]
      /\ usage[n] \in Int /\ pool_chunks[n] \in Nat
  BY <1>1 DEF BooksInv
<1>4. PICK q : q = io_queue[n]
  OBVIOUS
<1>5. /\ m \in ToSet(q) /\ Tail(q) \in Seq(Models) /\ IsInjective(Tail(q))
      /\ ToSet(Tail(q)) = ToSet(q) \ {m} /\ m \in Models
  BY <1>2, <1>3, <1>4, TailElements, ToSetMember
<1>6. PICK size : size = disk_models[n][m]
  OBVIOUS
<1>7. /\ left.pool \in Seq(Models) /\ IsInjective(left.pool)
      /\ ToSet(left.pool) \subseteq ToSet(pool[n])
      /\ left.usage = Total(Chunks(n), left.pool)
      /\ left.usage \in Int /\ left.usage <= usage[n]
  <2>1. \A x \in ToSet(pool[n]) : Needed(disk_models[n][x]) \in Nat
    BY <1>2
  <2>2. left = Evicted(n, size)
    BY <1>6
  <2>3. /\ Evicted(n, size).pool \in Seq(Models)
        /\ IsInjective(Evicted(n, size).pool)
        /\ ToSet(Evicted(n, size).pool) \subseteq ToSet(pool[n])
        /\ Evicted(n, size).usage = Total(Chunks(n), Evicted(n, size).pool)
        /\ Evicted(n, size).usage \in Int
        /\ Evicted(n, size).usage <= usage[n]
    BY <1>2, <1>3, <2>1, EvictionResult
  <2>. QED
    BY <2>2, <2>3
<1>8. left.usage <= pool_chunks[n]
  <2>1. PICK u, v, most : u = left.usage /\ v = usage[n] /\ most = pool_chunks[n]
    OBVIOUS
  <2>2. u \in Int /\ v \in Int /\ most \in Nat /\ u <= v /\ v <= most
    BY <1>3, <1>7, <2>1
  <2>. QED
    BY <2>1, <2>2
<1>9. m \notin ToSet(left.pool)
  BY <1>3, <1>4, <1>5, <1>7
<1>10. Chunks(n)' = Chunks(n)
  BY DEF Chunks
<1>11. PICK lp : lp = left.pool
  OBVIOUS
<1>12. PICK w : w = Chunks(n)
  OBVIOUS
<1>13. /\ Append(lp, m) \in Seq(Models) /\ IsInjective(Append(lp, m))
       /\ ToSet(Append(lp, m)) = ToSet(lp) \cup {m}
  <2>1. lp \in Seq(Models) /\ IsInjective(lp) /\ m \notin ToSet(lp) /\ m \in Models
    BY <1>5, <1>7, <1>9, <1>11
  <2>. QED
    BY <2>1, AppendElements
<1>14. Total(w, Append(lp, m)) = Total(w, lp) + w[m] /\ w[m] \in Int
  <2>1. PICK S : S = ToSet(lp) \cup {m}
    OBVIOUS
  <2>2. lp \in Seq(S)
    <3>1. lp \in Seq(Models)
      BY <1>7, <1>11
    <3>2. \A i \in 1 .. Len(lp) : lp[i] \in S
      BY <2>1, <3>1, ToSetMember
    <3>. QED
      BY <3>1, <3>2
  <2>3. m \in S
    BY <2>1
  <2>4. ASSUME NEW x \in S PROVE w[x] \in Int
    <3>1. x \in ToSet(pool[n]) \/ x \in ToSet(io_queue[n])
      BY <1>4, <1>5, <1>7, <1>11, <2>1
    <3>2. Chunks(n)[x] \in Int
      BY <1>2, <3>1
    <3>. QED
      BY <1>12, <3>2
  <2>. QED
    BY <2>2, <2>3, <2>4, TotalAppend
<1>15. CASE /\ io_queue' = [io_queue EXCEPT ![n] = Tail(@)]
            /\ queued_models' = [queued_models EXCEPT ![n] = @ \ {m}]
            /\ disk_models[n][m] = Size[m]
            /\ pool' = [pool EXCEPT ![n] = Append(left.pool, m)]
            /\ usage' = [usage EXCEPT ![n] = left.usage + Chunks(n)[m]]
            /\ left.usage + Chunks(n)[m] <= pool_chunks[n]
  <2>1. /\ io_queue' = [io_queue EXCEPT ![n] = Tail(q)]
        /\ pool' = [pool EXCEPT ![n] = Append(lp, m)]
        /\ usage' = [usage EXCEPT ![n] = left.usage + w[m]]
    BY <1>4, <1>11, <1>12, <1>15
  <2>2. /\ io_queue' \in [Nodes -> Seq(Models)] /\ pool' \in [Nodes -> Seq(Models)]
        /\ queued_models' \in [Nodes -> SUBSET Models] /\ usage' \in [Nodes -> Int]
    <3>1. io_queue' \in [Nodes -> Seq(Models)]
      BY <1>1, <1>5, <2>1
    <3>2. pool' \in [Nodes -> Seq(Models)]
      BY <1>1, <1>13, <2>1
    <3>3. queued_models' \in [Nodes -> SUBSET Models]
      BY <1>1, <1>15
    <3>4. PICK u : u = left.usage + w[m]
      OBVIOUS
    <3>5. u \in Int
      <4>1. PICK x, y : x = left.usage /\ y = w[m]
        OBVIOUS
      <4>2. x \in Int /\ y \in Int
        BY <1>7, <1>14, <4>1
      <4>3. x + y \in Int
        BY <4>2
      <4>. QED
        BY <3>4, <4>1, <4>3
    <3>6. usage' \in [Nodes -> Int]
      BY <1>1, <2>1, <3>4, <3>5
    <3>. QED
      BY <3>1, <3>2, <3>3, <3>6
  <2>3. /\ io_queue'[n] = Tail(q) /\ queued_models'[n] = queued_models[n] \ {m}
        /\ pool'[n] = Append(lp, m) /\ usage'[n] = left.usage + w[m]
    BY <1>1, <1>15, <2>1
  <2>4. \A k \in Nodes \ {n} : /\ pool'[k] = pool[k] /\ usage'[k] = usage[k]
                               /\ io_queue'[k] = io_queue[k]
                               /\ queued_models'[k] = queued_models[k]
    BY <1>1, <1>15, <2>1
  <2>5. usage'[n] = Total(w, pool'[n]) /\ usage'[n] <= pool_chunks[n]
    BY <1>7, <1>11, <1>12, <1>14, <1>15, <2>3
  <2>6. queued_models'[n] \cap ToSet(pool'[n]) = {}
    BY <1>3, <1>7, <1>11, <1>13, <2>3
  <2>7. BooksInv(n)'
    BY <1>3, <1>4, <1>5, <1>10, <1>12, <1>13, <2>3, <2>5, <2>6 DEF BooksInv
  <2>8. ToSet(pool'[n]) \subseteq ToSet(pool[n]) \cup {m}
    BY <1>7, <1>11, <1>13, <2>3
  <2>. QED
    BY <1>15, <2>2, <2>3, <2>4, <2>7, <2>8
<1>16. CASE /\ io_queue' = [io_queue EXCEPT ![n] = Tail(@)]
            /\ queued_models' = [queued_models EXCEPT ![n] = @ \ {m}]
            /\ pool' = [pool EXCEPT ![n] = left.pool]
            /\ usage' = [usage EXCEPT ![n] = left.usage]
  <2>1. /\ io_queue' = [io_queue EXCEPT ![n] = Tail(q)]
        /\ pool' = [pool EXCEPT ![n] = lp]
    BY <1>4, <1>11, <1>16
  <2>2. /\ io_queue' \in [Nodes -> Seq(Models)] /\ pool' \in [Nodes -> Seq(Models)]
        /\ queued_models' \in [Nodes -> SUBSET Models] /\ usage' \in [Nodes -> Int]
    <3>1. io_queue' \in [Nodes -> Seq(Models)]
      BY <1>1, <1>5, <2>1
    <3>2. lp \in Seq(Models) /\ left.usage \in Int
      BY <1>7, <1>11
    <3>3. pool' \in [Nodes -> Seq(Models)]
      BY <1>1, <2>1, <3>2
    <3>4. queued_models' \in [Nodes -> SUBSET Models]
      BY <1>1, <1>16
    <3>5. usage' \in [Nodes -> Int]
      BY <1>1, <1>16, <3>2
    <3>. QED
      BY <3>1, <3>3, <3>4, <3>5
  <2>3. /\ io_queue'[n] = Tail(q) /\ queued_models'[n] = queued_models[n] \ {m}
        /\ pool'[n] = lp /\ usage'[n] = left.usage
    BY <1>1, <1>16, <2>1
  <2>4. \A k \in Nodes \ {n} : /\ pool'[k] = pool[k] /\ usage'[k] = usage[k]
                               /\ io_queue'[k] = io_queue[k]
                               /\ queued_models'[k] = queued_models[k]
    BY <1>1, <1>16, <2>1
  <2>5. queued_models'[n] \cap ToSet(pool'[n]) = {}
    BY <1>3, <1>7, <1>11, <2>3
  <2>6. BooksInv(n)'
    BY <1>3, <1>4, <1>5, <1>7, <1>8, <1>10, <1>11, <2>3, <2>5 DEF BooksInv
  <2>. QED
    BY <1>7, <1>9, <1>11, <2>2, <2>3, <2>4, <2>6
<1>17. CASE /\ pool' = [pool EXCEPT ![n] = left.pool]
            /\ usage' = [usage EXCEPT ![n] = left.usage]
            /\ UNCHANGED <<io_queue, queued_models>>
  <2>1. pool' = [pool EXCEPT ![n] = lp]
    BY <1>11, <1>17
  <2>2. /\ io_queue' \in [Nodes -> Seq(Models)] /\ pool' \in [Nodes -> Seq(Models)]
        /\ queued_models' \in [Nodes -> SUBSET Models] /\ usage' \in [Nodes -> Int]
    BY <1>1, <1>7, <1>11, <1>17, <2>1
  <2>3. /\ io_queue'[n] = io_queue[n] /\ queued_models'[n] = queued_models[n]
        /\ pool'[n] = lp /\ usage'[n] = left.usage
    BY <1>1, <1>17, <2>1
  <2>4. \A k \in Nodes \ {n} : /\ pool'[k] = pool[k] /\ usage'[k] = usage[k]
                               /\ io_queue'[k] = io_queue[k]
                               /\ queued_models'[k] = queued_models[k]
    BY <1>1, <1>17, <2>1
  <2>5. queued_models'[n] \cap ToSet(pool'[n]) = {}
    BY <1>3, <1>7, <1>11, <2>3
  <2>6. BooksInv(n)'
    BY <1>3, <1>7, <1>8, <1>10, <1>11, <2>3, <2>5 DEF BooksInv
  <2>. QED
    BY <1>7, <1>9, <1>11, <2>2, <2>3, <2>4, <2>6
<1>. QED
  BY <1>15, <1>16, <1>17 DEF EvictEffect

\* The loop makes room for the head of its queue and loads it, drops it or
\* leaves it where it is.
LEMMA EvictAndLoadStep ==
    ASSUME IndInv, NEW n \in Nodes, NEW ok \in BOOLEAN, EvictAndLoad(n, ok)
    PROVE  IndInv'
<1>1. /\ UNCHANGED <<pool_chunks, disk_models, connecting, local_servers, model_info>>
      /\ UNCHANGED <<model_storage_info, call, manager, metadata, reader>>
      /\ loop[n] = "evict" /\ waiters[n] # <<>> /\ Head(waiters[n]) = Loop
  BY DEF EvictAndLoad, Turn, manager
<1>2. PICK m : m = Head(io_queue[n])
  OBVIOUS
<1>3. PICK left : left = Evicted(n, disk_models[n][m])
  OBVIOUS
<1>4. io_queue[n] # <<>> /\ io_queue[n] \in Seq(Models)
  BY <1>1 DEF IndInv, BooksInv, Types
<1>5. m \in ToSet(io_queue[n])
  BY <1>2, <1>4 DEF ToSet
<1>6. Chunks(n)[m] = Needed(disk_models[n][m]) /\ disk_models[n][m] \in {-1, Size[m]}
  BY <1>5, BooksFacts
<1>7. PICK l \in {"head", "evict", "sleep", "retry"} :
         LoopMove(n, l) /\ l # "evict" /\ EvictEffect(n, left, m)
  <2>1. CASE Fits(n, left.usage, disk_models[n][m])
    <3>1. /\ io_queue' = [io_queue EXCEPT ![n] = Tail(@)]
          /\ queued_models' = [queued_models EXCEPT ![n] = @ \ {m}]
          /\ pool' = [pool EXCEPT ![n] = IF ok THEN Append(left.pool, m) ELSE left.pool]
          /\ usage' = [usage EXCEPT ![n] = IF ok THEN left.usage + Needed(disk_models[n][m])
                                           ELSE left.usage]
          /\ loop' = [loop EXCEPT ![n] = "head"] /\ Requeue(n)
      BY <1>2, <1>3, <2>1 DEF EvictAndLoad
    <3>2. ok => disk_models[n][m] # -1
      BY <1>2, <1>3, <2>1 DEF EvictAndLoad
    <3>3. left.usage + Chunks(n)[m] <= pool_chunks[n]
      BY <1>6, <2>1 DEF Fits
    <3>4. EvictEffect(n, left, m)
      BY <1>6, <3>1, <3>2, <3>3 DEF EvictEffect
    <3>5. LoopMove(n, "head")
      BY <1>1, <3>1 DEF LoopMove, Requeue
    <3>. QED
      BY <3>4, <3>5
  <2>2. CASE ~Fits(n, left.usage, disk_models[n][m])
    <3>1. /\ pool' = [pool EXCEPT ![n] = left.pool]
          /\ usage' = [usage EXCEPT ![n] = left.usage]
          /\ loop' = [loop EXCEPT ![n] = "retry"] /\ Leave(n)
          /\ UNCHANGED <<io_queue, queued_models>>
      BY <1>2, <1>3, <2>2 DEF EvictAndLoad
    <3>2. EvictEffect(n, left, m)
      BY <3>1 DEF EvictEffect
    <3>3. LoopMove(n, "retry")
      BY <1>1, <3>1 DEF LoopMove, Leave
    <3>. QED
      BY <3>2, <3>3
  <2>. QED
    BY <2>1, <2>2
<1>8. /\ waiters' \in [Nodes -> Seq(Tasks)]
      /\ loop' \in [Nodes -> {"none", "head", "evict", "sleep", "retry"}]
      /\ n \in local_servers /\ loop'[n] = l
      /\ \A k \in Nodes \ {n} : loop'[k] = loop[k] /\ waiters'[k] = waiters[k]
      /\ \A k \in Nodes : LineInv(k)'
      /\ MetadataInv'
  BY <1>1, <1>7, LoopParts
<1>9. /\ io_queue' \in [Nodes -> Seq(Models)] /\ pool' \in [Nodes -> Seq(Models)]
      /\ queued_models' \in [Nodes -> SUBSET Models] /\ usage' \in [Nodes -> Int]
      /\ BooksInv(n)'
      /\ ToSet(pool'[n]) \subseteq ToSet(pool[n]) \cup {m}
      /\ m \in ToSet(pool'[n]) => disk_models[n][m] = Size[m]
      /\ queued_models'[n] \subseteq queued_models[n]
      /\ \A k \in Nodes \ {n} : /\ pool'[k] = pool[k] /\ usage'[k] = usage[k]
                                /\ io_queue'[k] = io_queue[k]
                                /\ queued_models'[k] = queued_models[k]
  BY <1>1, <1>2, <1>3, <1>4, <1>7, <1>8, EvictBooks
<1>10. Types'
  BY <1>1, <1>8, <1>9 DEF IndInv, Types
<1>11. StartInv'
  <2>1. StartInv
    BY DEF IndInv
  <2>2. ASSUME NEW k \in Nodes \ local_servers
        PROVE  /\ loop'[k] = "none" /\ waiters'[k] = <<>> /\ pool'[k] = <<>> /\ usage'[k] = 0
               /\ io_queue'[k] = <<>> /\ queued_models'[k] = {}
    <3>1. k \in Nodes \ {n}
      BY <1>8
    <3>. QED
      BY <1>8, <1>9, <2>1, <3>1 DEF StartInv
  <2>. QED
    BY <1>1, <2>1, <2>2 DEF StartInv
<1>12. ASSUME NEW k \in Nodes PROVE BooksInv(k)'
  <2>1. CASE k = n
    BY <1>9, <2>1
  <2>2. CASE k # n
    <3>1. BooksInv(k) /\ k \in Nodes \ {n}
      BY <2>2 DEF IndInv
    <3>2. UNCHANGED <<pool[k], usage[k], io_queue[k], queued_models[k], loop[k], disk_models, pool_chunks>>
      BY <1>1, <1>8, <1>9, <3>1
    <3>. QED
      BY <3>1, <3>2 DEF BooksInv, Chunks
  <2>. QED
    BY <2>1, <2>2
<1>13. ASSUME NEW k \in Nodes, NEW x \in Models PROVE DiskInv(k, x)'
  <2>1. DiskInv(k, x)
    BY DEF IndInv
  <2>2. CASE k = n
    <3>1. /\ x \in ToSet(pool'[n]) => disk_models[n][x] = Size[x]
          /\ x \in queued_models'[n] => x \in queued_models[n]
      BY <1>9, <2>1, <2>2 DEF DiskInv
    <3>. QED
      BY <1>1, <2>1, <2>2, <3>1 DEF DiskInv
  <2>3. CASE k # n
    <3>1. pool'[k] = pool[k] /\ queued_models'[k] = queued_models[k]
      BY <1>9, <2>3
    <3>. QED
      BY <1>1, <2>1, <3>1 DEF DiskInv
  <2>. QED
    BY <2>2, <2>3
<1>14. \A x \in Models : InfoInv(x)'
  BY <1>1 DEF IndInv, InfoInv
<1>15. \A c \in Calls : CallInv(c)'
  BY <1>1 DEF IndInv, CallInv
<1>. QED
  BY <1>8, <1>10, <1>11, <1>12, <1>13, <1>14, <1>15 DEF IndInv

\* A registration goes to its next node or ends with a size that is known.
LEMMA NextNodeResult ==
    ASSUME IndInv, NEW c \in Calls, NEW r \in CallRecords, NextNode(c, r),
           r.kind = "register", r.todo # <<>>, r.model \in Models,
           r.size \in {None, -1, Size[r.model]},
           \A n \in Nodes, m \in Models : disk_models[n][m] # None => disk_models'[n][m] # None,
           NEW k \in Nodes, disk_models'[k][r.model] # None
    PROVE  /\ \E q \in CallRecords :
                /\ call' = [call EXCEPT ![c] = q] /\ q.pc \in {"download", "idle"}
                /\ q.pc = "download" => /\ q.kind = "register" /\ q.todo # <<>>
                                        /\ q.model = r.model /\ q.size = r.size
           /\ model_info' \in [Models -> Int \cup {None, Absent}]
           /\ \A m \in Models : InfoInv(m)'
<1>1. /\ model_info \in [Models -> Int \cup {None, Absent}] /\ Size[r.model] \in Nat
      /\ \A m \in Models : InfoInv(m)
  BY SizeAssumption DEF IndInv, Types
<1>2. CASE Tail(r.todo) # <<>>
  <2>1. PICK t : t = Tail(r.todo)
    OBVIOUS
  <2>2. r.todo \in Seq(Nodes)
    BY DEF CallRecords
  <2>3. t \in Seq(Nodes) /\ t # <<>>
    BY <1>2, <2>1, <2>2
  <2>4. PICK q : q = [r EXCEPT !.pc = "download", !.todo = t]
    OBVIOUS
  <2>5. /\ q \in CallRecords /\ q.pc = "download" /\ q.kind = "register" /\ q.todo = t
        /\ q.model = r.model /\ q.size = r.size
    BY <2>3, <2>4 DEF CallRecords
  <2>6. call' = [call EXCEPT ![c] = q] /\ UNCHANGED model_info
    BY <1>2, <2>1, <2>4 DEF NextNode
  <2>7. \A m \in Models : InfoInv(m)'
    BY <1>1, <2>6 DEF InfoInv
  <2>. QED
    BY <1>1, <2>3, <2>5, <2>6, <2>7
<1>3. CASE Tail(r.todo) = <<>>
  <2>1. PICK q : q = Idle
    OBVIOUS
  <2>2. q \in CallRecords /\ q.pc = "idle"
    BY <2>1, IdleType
  <2>3. call' = [call EXCEPT ![c] = q]
        /\ model_info' = [model_info EXCEPT ![r.model] = r.size]
    BY <1>3, <2>1 DEF NextNode
  <2>4. model_info' \in [Models -> Int \cup {None, Absent}] /\ model_info'[r.model] = r.size
        /\ \A m \in Models \ {r.model} : model_info'[m] = model_info[m]
    BY <1>1, <2>3
  <2>5. ASSUME NEW m \in Models PROVE InfoInv(m)'
    BY <1>1, <2>4 DEF InfoInv
  <2>. QED
    BY <2>2, <2>3, <2>4, <2>5
<1>. QED
  BY <1>2, <1>3

\* A model joins the queue of its store, and the call goes on or ends.
LEMMA LoadToHostStep ==
    ASSUME IndInv, NEW c \in Calls, LoadToHost(c)
    PROVE  IndInv'
<1>1. PICK old : old = call[c]
  OBVIOUS
<1>2. PICK k : k = old.node
  OBVIOUS
<1>3. PICK m : m = Wanted(c)
  OBVIOUS
<1>4. /\ old.pc = "local" /\ waiters[k] # <<>> /\ Head(waiters[k]) = c
      /\ waiters' = [waiters EXCEPT ![k] = Tail(@)]
      /\ UNCHANGED <<pool_chunks, disk_models, pool, usage, loop, connecting, local_servers>>
      /\ UNCHANGED <<model_storage_info, metadata, reader>>
  BY <1>1, <1>2 DEF LoadToHost, Turn, Leave
<1>5. /\ call \in [Calls -> CallRecords] /\ waiters \in [Nodes -> Seq(Tasks)]
      /\ local_servers \subseteq Nodes /\ CallInv(c)
      /\ io_queue \in [Nodes -> Seq(Models)] /\ queued_models \in [Nodes -> SUBSET Models]
      /\ pool \in [Nodes -> Seq(Models)]
  BY DEF IndInv, Types
<1>6. connecting = {}
  BY <1>1, <1>4, Started
<1>7. /\ old \in CallRecords /\ k \in local_servers /\ k \in Nodes /\ old.model \in Models
      /\ old.kind \in {"load", "register"}
      /\ old.kind = "register" =>
            /\ disk_models[k][old.model] # None
            /\ local_servers = Nodes /\ old.todo # <<>>
            /\ old.size \in {None, -1, Size[old.model]}
  BY <1>1, <1>2, <1>4, <1>5 DEF CallInv
<1>8. PICK q \in CallRecords :
         /\ call' = [call EXCEPT ![c] = q] /\ q.pc \in {"download", "idle"}
         /\ q.pc = "download" => /\ q.kind = "register" /\ q.todo # <<>> /\ local_servers = Nodes
                                 /\ q.model \in Models /\ q.size \in {None, -1, Size[q.model]}
         /\ model_info' \in [Models -> Int \cup {None, Absent}]
         /\ \A x \in Models : InfoInv(x)'
  <2>1. CASE old.kind = "register"
    <3>1. NextNode(c, old)
      BY <1>1, <2>1 DEF LoadToHost
    <3>2. \A n \in Nodes, x \in Models : disk_models[n][x] # None => disk_models'[n][x] # None
      BY <1>4
    <3>3. disk_models'[k][old.model] # None
      BY <1>4, <1>7, <2>1
    <3>4. /\ \E q \in CallRecords :
               /\ call' = [call EXCEPT ![c] = q] /\ q.pc \in {"download", "idle"}
               /\ q.pc = "download" => /\ q.kind = "register" /\ q.todo # <<>>
                                       /\ q.model = old.model /\ q.size = old.size
          /\ model_info' \in [Models -> Int \cup {None, Absent}]
          /\ \A x \in Models : InfoInv(x)'
      BY <1>7, <2>1, <3>1, <3>2, <3>3, NextNodeResult
    <3>. QED
      BY <1>7, <2>1, <3>4
  <2>2. CASE old.kind # "register"
    <3>1. PICK q : q = Idle
      OBVIOUS
    <3>2. call' = [call EXCEPT ![c] = q] /\ UNCHANGED model_info
      BY <1>1, <2>2, <3>1 DEF LoadToHost
    <3>3. q \in CallRecords /\ q.pc = "idle"
      BY <3>1, IdleType
    <3>4. \A x \in Models : InfoInv(x)'
      BY <1>4, <3>2 DEF IndInv, InfoInv
    <3>5. model_info' \in [Models -> Int \cup {None, Absent}]
      BY <3>2 DEF IndInv, Types
    <3>. QED
      BY <3>2, <3>3, <3>4, <3>5
  <2>. QED
    BY <2>1, <2>2
<1>9. call'[c] = q
  BY <1>5, <1>8
<1>10. waiters' = [n \in Nodes |-> waiters'[n]]
  BY <1>4, <1>5
<1>11. ASSUME NEW n \in Nodes PROVE LineStep(c, n)
  <2>1. ~StandsAt(c, n)' /\ (StandsAt(c, n) <=> n = k)
    BY <1>1, <1>2, <1>4, <1>8, <1>9 DEF StandsAt
  <2>2. waiters'[n] = IF n = k THEN Tail(waiters[n]) ELSE waiters[n]
    BY <1>4, <1>5
  <2>. QED
    BY <1>4, <2>1, <2>2 DEF LineStep
<1>12. MetadataStep(c)
  BY <1>1, <1>4, <1>8, <1>9 DEF MetadataStep
<1>13. CallInv(c)'
  BY <1>4, <1>8, <1>9 DEF CallInv
<1>14. \A n \in Nodes, x \in Models : disk_models[n][x] # None => disk_models'[n][x] # None
  BY <1>4
<1>15. /\ call' \in [Calls -> CallRecords] /\ waiters' \in [Nodes -> Seq(Tasks)]
       /\ metadata' \in Seq(Calls) /\ reader' \in Calls \cup {None}
       /\ \A n \in Nodes : LineInv(n)'
       /\ \A n \in Nodes \ local_servers : waiters'[n] = <<>>
       /\ MetadataInv' /\ \A d \in Calls : CallInv(d)'
  BY <1>4, <1>8, <1>10, <1>11, <1>12, <1>13, <1>14, CallParts
<1>16. /\ io_queue' \in [Nodes -> Seq(Models)] /\ queued_models' \in [Nodes -> SUBSET Models]
       /\ \A n \in Nodes \ {k} : io_queue'[n] = io_queue[n] /\ queued_models'[n] = queued_models[n]
       /\ BooksInv(k)'
       /\ \A x \in queued_models'[k] : disk_models[k][x] # None
  <2>1. BooksInv(k) /\ Chunks(k)' = Chunks(k) /\ \A x \in Models : DiskInv(k, x)
    BY <1>4, <1>7 DEF Chunks, IndInv
  <2>2. CASE UNCHANGED <<io_queue, queued_models>>
    <3>1. BooksInv(k)'
      BY <1>4, <2>1, <2>2 DEF BooksInv
    <3>2. \A x \in queued_models'[k] : disk_models[k][x] # None
      BY <1>5, <1>7, <2>1, <2>2 DEF DiskInv
    <3>. QED
      BY <1>5, <2>2, <3>1, <3>2
  <2>3. CASE ~UNCHANGED <<io_queue, queued_models>>
    <3>1. /\ m \in Models /\ disk_models[k][m] # None /\ ~Queued(k, m)
          /\ io_queue' = [io_queue EXCEPT ![k] = Append(@, m)]
          /\ queued_models' = [queued_models EXCEPT ![k] = @ \cup {m}]
      BY <1>1, <1>2, <1>3, <2>3 DEF LoadToHost
    <3>2. m \notin ToSet(pool[k]) /\ m \notin queued_models[k]
      BY <3>1, RangeIsToSet DEF Queued
    <3>3. PICK s : s = io_queue[k]
      OBVIOUS
    <3>4. s \in Seq(Models) /\ IsInjective(s) /\ m \notin ToSet(s)
          /\ ToSet(s) = queued_models[k]
      BY <1>5, <1>7, <2>1, <3>2, <3>3 DEF BooksInv
    <3>5. /\ Append(s, m) \in Seq(Models) /\ IsInjective(Append(s, m))
          /\ ToSet(Append(s, m)) = ToSet(s) \cup {m}
      BY <3>1, <3>4, AppendElements
    <3>6. PICK t : t = Append(s, m)
      OBVIOUS
    <3>7. /\ io_queue' = [io_queue EXCEPT ![k] = t] /\ t # <<>>
      BY <3>1, <3>3, <3>4, <3>6
    <3>8. /\ io_queue'[k] = t /\ queued_models'[k] = queued_models[k] \cup {m}
      BY <1>5, <1>7, <3>1, <3>7
    <3>9. BooksInv(k)'
      BY <1>4, <2>1, <3>2, <3>4, <3>5, <3>6, <3>7, <3>8 DEF BooksInv
    <3>10. \A x \in queued_models'[k] : disk_models[k][x] # None
      BY <1>5, <1>7, <2>1, <3>1, <3>8 DEF DiskInv
    <3>. QED
      BY <1>5, <1>7, <3>1, <3>5, <3>6, <3>7, <3>9, <3>10
  <2>. QED
    BY <2>2, <2>3
<1>17. Types'
  BY <1>4, <1>8, <1>15, <1>16 DEF IndInv, Types
<1>18. StartInv'
  <2>1. StartInv
    BY DEF IndInv
  <2>2. ASSUME NEW n \in Nodes \ local_servers
        PROVE  io_queue'[n] = <<>> /\ queued_models'[n] = {} /\ waiters'[n] = <<>>
    <3>1. n \in Nodes \ {k}
      BY <1>7
    <3>. QED
      BY <1>15, <1>16, <2>1, <3>1 DEF StartInv
  <2>. QED
    BY <1>4, <1>6, <2>1, <2>2 DEF StartInv
<1>19. ASSUME NEW n \in Nodes PROVE BooksInv(n)'
  <2>1. CASE n = k
    BY <1>16, <2>1
  <2>2. CASE n # k
    <3>1. BooksInv(n) /\ io_queue'[n] = io_queue[n] /\ queued_models'[n] = queued_models[n]
      BY <1>16, <2>2 DEF IndInv
    <3>. QED
      BY <1>4, <3>1 DEF BooksInv, Chunks
  <2>. QED
    BY <2>1, <2>2
<1>20. ASSUME NEW n \in Nodes, NEW x \in Models PROVE DiskInv(n, x)'
  <2>1. DiskInv(n, x)
    BY DEF IndInv
  <2>2. x \in queued_models'[n] => disk_models[n][x] # None
    BY <1>16, <2>1 DEF DiskInv
  <2>. QED
    BY <1>4, <2>1, <2>2 DEF DiskInv
<1>. QED
  BY <1>8, <1>15, <1>17, <1>18, <1>19, <1>20 DEF IndInv

\* A store that gets the size of one more model counts what it has as before.
LEMMA BooksSame ==
    ASSUME IndInv, NEW n \in Nodes, UNCHANGED <<pool_chunks, queued_models, io_queue, pool, usage, loop>>,
           \A x \in Models : disk_models[n][x] # None => disk_models'[n][x] = disk_models[n][x]
    PROVE  BooksInv(n)'
<1>1. BooksInv(n) /\ pool[n] \in Seq(Models)
  BY DEF IndInv, Types
<1>2. PICK w : w = Chunks(n)
  OBVIOUS
<1>3. PICK v : v = Chunks(n)'
  OBVIOUS
<1>4. PICK s : s = pool[n]
  OBVIOUS
<1>5. s \in Seq(Models)
  BY <1>1, <1>4
<1>6. ASSUME NEW x \in ToSet(s) PROVE x \in Models /\ v[x] = w[x] /\ w[x] \in Int
  <2>1. x \in Models
    BY <1>5, ToSetMember
  <2>2. disk_models[n][x] = Size[x] /\ w[x] \in Nat
    BY <1>2, <1>4, BooksFacts
  <2>3. disk_models[n][x] # None
    BY <2>1, <2>2, SizeAssumption, ValueAssumption
  <2>4. disk_models'[n][x] = disk_models[n][x]
    BY <2>1, <2>3
  <2>5. v[x] = Needed(disk_models'[n][x]) /\ w[x] = Needed(disk_models[n][x])
    BY <1>2, <1>3, <2>1 DEF Chunks
  <2>. QED
    BY <2>1, <2>2, <2>4, <2>5
<1>7. Total(v, s) = Total(w, s)
  <2>1. PICK T : T = ToSet(s)
    OBVIOUS
  <2>2. s \in Seq(T)
    <3>1. \A i \in 1 .. Len(s) : s[i] \in T
      BY <1>5, <2>1, ToSetMember
    <3>. QED
      BY <1>5, <3>1
  <2>3. \A x \in T : v[x] = w[x] /\ v[x] \in Int /\ w[x] \in Int
    BY <1>6, <2>1
  <2>. QED
    BY <2>2, <2>3, TotalSame
<1>. QED
  BY <1>1, <1>2, <1>3, <1>4, <1>7 DEF BooksInv

\* A store registers a model, and the registration goes on.
LEMMA RegisterModelStep ==
    ASSUME IndInv, NEW c \in Calls, NEW ok \in BOOLEAN, RegisterModel(c, ok)
    PROVE  IndInv'
<1>1. PICK old : old = call[c]
  OBVIOUS
<1>2. PICK s : s = old.todo
  OBVIOUS
<1>3. PICK k : k = s[1]
  OBVIOUS
<1>4. PICK m : m = old.model
  OBVIOUS
<1>5. PICK v : v = IF disk_models[k][m] # None THEN None ELSE IF ok THEN Size[m] ELSE -1
  OBVIOUS
<1>6. PICK r : r = [old EXCEPT !.size = v]
  OBVIOUS
<1>7. /\ old.pc = "register" /\ waiters[k] # <<>> /\ Head(waiters[k]) = c
      /\ waiters' = [waiters EXCEPT ![k] = Tail(@)]
      /\ disk_models' = IF disk_models[k][m] # None THEN disk_models
                        ELSE [disk_models EXCEPT ![k][m] = r.size]
      /\ model_storage_info' = [model_storage_info EXCEPT ![m] = @ \cup {k}]
      /\ IF k \in old.preload
         THEN /\ call' = [call EXCEPT ![c] = [r EXCEPT !.pc = "load", !.node = k]]
              /\ metadata' = Append(metadata, c) /\ UNCHANGED model_info
         ELSE NextNode(c, r) /\ UNCHANGED metadata
      /\ UNCHANGED <<pool_chunks, queued_models, io_queue, pool, usage, loop>>
      /\ UNCHANGED <<connecting, local_servers, reader>>
  <2>1. /\ k = call[c].todo[1] /\ m = call[c].model /\ old = call[c]
        /\ r = [call[c] EXCEPT !.size = IF disk_models[k][m] # None THEN None
                                       ELSE IF ok THEN Size[m] ELSE -1]
    BY <1>1, <1>2, <1>3, <1>4, <1>5, <1>6
  <2>2. /\ old.pc = "register" /\ Turn(k, c) /\ Leave(k)
        /\ disk_models' = IF disk_models[k][m] # None THEN disk_models
                          ELSE [disk_models EXCEPT ![k][m] = r.size]
        /\ model_storage_info' = [model_storage_info EXCEPT ![m] = @ \cup {k}]
        /\ UNCHANGED <<pool_chunks, queued_models, io_queue, pool, usage, loop>>
        /\ UNCHANGED <<connecting, local_servers, reader>>
    BY <2>1 DEF RegisterModel
  <2>3. IF k \in old.preload
        THEN /\ call' = [call EXCEPT ![c] = [r EXCEPT !.pc = "load", !.node = k]]
             /\ metadata' = Append(metadata, c) /\ UNCHANGED model_info
        ELSE NextNode(c, r) /\ UNCHANGED metadata
    BY <2>1 DEF RegisterModel
  <2>. QED
    BY <2>2, <2>3 DEF Turn, Leave
<1>8. /\ call \in [Calls -> CallRecords] /\ waiters \in [Nodes -> Seq(Tasks)]
      /\ local_servers \subseteq Nodes /\ CallInv(c)
      /\ disk_models \in [Nodes -> [Models -> Int \cup {None}]]
      /\ model_storage_info \in [Models -> SUBSET Nodes]
      /\ model_info \in [Models -> Int \cup {None, Absent}]
      /\ metadata \in Seq(Calls)
  BY DEF IndInv, Types
<1>9. connecting = {}
  BY <1>1, <1>7, Started
<1>10. /\ old \in CallRecords /\ s \in Seq(Nodes) /\ s # <<>> /\ m \in Models
       /\ old.kind = "register" /\ local_servers = Nodes
  BY <1>1, <1>2, <1>4, <1>7, <1>8 DEF CallInv, CallRecords
<1>11. k \in Nodes
  BY <1>3, <1>10
<1>12. Size[m] \in Nat /\ None \notin Int /\ v \in {None, -1, Size[m]} /\ v \in Int \cup {None}
       /\ (disk_models[k][m] = None => v # None)
  BY <1>5, <1>10, SizeAssumption, ValueAssumption
<1>13. /\ r \in CallRecords /\ r.kind = "register" /\ r.todo = s /\ r.model = m /\ r.size = v
       /\ r.pc = "register"
  BY <1>2, <1>4, <1>6, <1>7, <1>10, <1>12 DEF CallRecords
<1>14. /\ disk_models' \in [Nodes -> [Models -> Int \cup {None}]]
       /\ disk_models'[k][m] # None /\ disk_models'[k][m] \in {disk_models[k][m], v}
       /\ \A n \in Nodes, x \in Models :
             /\ disk_models[n][x] # None => disk_models'[n][x] = disk_models[n][x]
             /\ n # k \/ x # m => disk_models'[n][x] = disk_models[n][x]
  <2>1. CASE disk_models[k][m] # None
    BY <1>7, <1>8, <2>1
  <2>2. CASE disk_models[k][m] = None
    <3>1. disk_models' = [disk_models EXCEPT ![k][m] = v]
      BY <1>7, <1>13, <2>2
    <3>2. PICK row : row = [disk_models[k] EXCEPT ![m] = v]
      OBVIOUS
    <3>3. disk_models' = [disk_models EXCEPT ![k] = row]
      BY <3>1, <3>2
    <3>4. row \in [Models -> Int \cup {None}] /\ row[m] = v
          /\ \A x \in Models \ {m} : row[x] = disk_models[k][x]
      BY <1>8, <1>10, <1>11, <1>12, <3>2
    <3>5. disk_models' \in [Nodes -> [Models -> Int \cup {None}]] /\ disk_models'[k] = row
          /\ \A n \in Nodes \ {k} : disk_models'[n] = disk_models[n]
      BY <1>8, <1>11, <3>3, <3>4
    <3>. QED
      BY <1>12, <2>2, <3>4, <3>5
  <2>. QED
    BY <2>1, <2>2
<1>15. \A n \in Nodes, x \in Models : disk_models[n][x] # None => disk_models'[n][x] # None
  BY <1>14
<1>16. PICK q \in CallRecords :
         /\ call' = [call EXCEPT ![c] = q]
         /\ \/ /\ q.pc = "load" /\ q.kind = "register" /\ q.node = k /\ q.model = m
               /\ q.todo = s /\ q.size = v /\ metadata' = Append(metadata, c)
            \/ /\ q.pc \in {"download", "idle"} /\ UNCHANGED metadata
               /\ q.pc = "download" => /\ q.kind = "register" /\ q.todo # <<>>
                                       /\ q.model = m /\ q.size = v
         /\ model_info' \in [Models -> Int \cup {None, Absent}]
         /\ \A x \in Models : InfoInv(x)'
  <2>1. CASE k \in old.preload
    <3>1. PICK q : q = [r EXCEPT !.pc = "load", !.node = k]
      OBVIOUS
    <3>2. /\ q \in CallRecords /\ q.pc = "load" /\ q.kind = "register" /\ q.node = k
          /\ q.model = m /\ q.todo = s /\ q.size = v
      BY <1>11, <1>13, <3>1 DEF CallRecords
    <3>3. call' = [call EXCEPT ![c] = q] /\ UNCHANGED model_info /\ metadata' = Append(metadata, c)
      BY <1>7, <2>1, <3>1
    <3>4. ASSUME NEW x \in Models PROVE InfoInv(x)'
      <4>1. InfoInv(x)
        BY DEF IndInv
      <4>. QED
        BY <1>15, <3>3, <4>1 DEF InfoInv
    <3>. QED
      BY <1>8, <3>2, <3>3, <3>4
  <2>2. CASE k \notin old.preload
    <3>1. NextNode(c, r) /\ UNCHANGED metadata
      BY <1>7, <2>2
    <3>2. disk_models'[k][r.model] # None /\ r.todo # <<>> /\ r.model \in Models
          /\ r.size \in {None, -1, Size[r.model]}
      BY <1>10, <1>12, <1>13, <1>14
    <3>3. /\ \E q \in CallRecords :
               /\ call' = [call EXCEPT ![c] = q] /\ q.pc \in {"download", "idle"}
               /\ q.pc = "download" => /\ q.kind = "register" /\ q.todo # <<>>
                                       /\ q.model = r.model /\ q.size = r.size
          /\ model_info' \in [Models -> Int \cup {None, Absent}]
          /\ \A x \in Models : InfoInv(x)'
      BY <1>11, <1>13, <1>15, <3>1, <3>2, NextNodeResult
    <3>. QED
      BY <1>13, <3>1, <3>3
  <2>. QED
    BY <2>1, <2>2
<1>17. call'[c] = q
  BY <1>8, <1>16
<1>18. waiters' = [n \in Nodes |-> waiters'[n]]
  BY <1>7, <1>8
<1>19. ASSUME NEW n \in Nodes PROVE LineStep(c, n)
  <2>1. ~StandsAt(c, n)' /\ (StandsAt(c, n) <=> n = k)
    BY <1>1, <1>2, <1>3, <1>7, <1>16, <1>17 DEF StandsAt
  <2>2. waiters'[n] = IF n = k THEN Tail(waiters[n]) ELSE waiters[n]
    BY <1>7, <1>8
  <2>. QED
    BY <1>7, <2>1, <2>2 DEF LineStep
<1>20. MetadataStep(c)
  BY <1>1, <1>7, <1>16, <1>17 DEF MetadataStep
<1>21. CallInv(c)'
  BY <1>7, <1>10, <1>11, <1>12, <1>14, <1>16, <1>17 DEF CallInv
<1>22. /\ call' \in [Calls -> CallRecords] /\ waiters' \in [Nodes -> Seq(Tasks)]
       /\ metadata' \in Seq(Calls) /\ reader' \in Calls \cup {None}
       /\ \A n \in Nodes : LineInv(n)'
       /\ \A n \in Nodes \ local_servers : waiters'[n] = <<>>
       /\ MetadataInv' /\ \A d \in Calls : CallInv(d)'
  BY <1>7, <1>15, <1>16, <1>18, <1>19, <1>20, <1>21, CallParts
<1>23. model_storage_info' \in [Models -> SUBSET Nodes]
       /\ \A x \in Models : model_storage_info'[x] =
             IF x = m THEN model_storage_info[m] \cup {k} ELSE model_storage_info[x]
  BY <1>7, <1>8, <1>10, <1>11
<1>24. Types'
  BY <1>7, <1>14, <1>16, <1>22, <1>23 DEF IndInv, Types
<1>25. StartInv'
  <2>1. StartInv
    BY DEF IndInv
  <2>. QED
    BY <1>7, <1>9, <1>10, <2>1 DEF StartInv
<1>26. ASSUME NEW n \in Nodes PROVE BooksInv(n)'
  BY <1>7, <1>14, BooksSame
<1>27. ASSUME NEW n \in Nodes, NEW x \in Models PROVE DiskInv(n, x)'
  <2>1. DiskInv(n, x) /\ Size[x] \in Nat
    BY SizeAssumption DEF IndInv
  <2>2. disk_models'[n][x] \in {None, -1, Size[x]}
    <3>1. CASE n = k /\ x = m
      BY <1>12, <1>14, <2>1, <3>1 DEF DiskInv
    <3>2. CASE n # k \/ x # m
      BY <1>14, <2>1, <3>2 DEF DiskInv
    <3>. QED
      BY <3>1, <3>2
  <2>3. x \in ToSet(pool'[n]) => disk_models'[n][x] = Size[x]
    BY <1>7, <1>12, <1>14, <2>1 DEF DiskInv
  <2>4. x \in queued_models'[n] => disk_models'[n][x] # None
    BY <1>7, <1>14, <2>1 DEF DiskInv
  <2>5. n \in model_storage_info'[x] => disk_models'[n][x] # None
    <3>1. CASE n = k /\ x = m
      BY <1>14, <3>1
    <3>2. CASE n # k \/ x # m
      BY <1>14, <1>23, <2>1, <3>2 DEF DiskInv
    <3>. QED
      BY <3>1, <3>2
  <2>. QED
    BY <2>2, <2>3, <2>4, <2>5 DEF DiskInv
<1>. QED
  BY <1>16, <1>22, <1>24, <1>25, <1>26, <1>27 DEF IndInv

\* A line in which the loading_loop stands alone.
LEMMA LoopAlone ==
    <<Loop>> \in Seq(Tasks) /\ IsInjective(<<Loop>>) /\ ToSet(<<Loop>>) = {Loop}
<1>1. Loop \in Tasks
  BY DEF Tasks
<1>2. ToSet(<<Loop>>) = {Loop}
  BY DEF ToSet
<1>3. IsInjective(<<Loop>>)
  BY DEF IsInjective
<1>. QED
  BY <1>1, <1>2, <1>3

\* Local stores that are new find empty books and begin with their loop at the
\* lock.
LEMMA NewStoresParts ==
    ASSUME IndInv, NEW ns, ns \subseteq Nodes \ local_servers, NEW chunks \in Nat,
           NewStores(ns, chunks), UNCHANGED <<disk_models, queued_models, io_queue, pool, usage>>,
           \A d \in Calls, n \in Nodes : StandsAt(d, n)' <=> StandsAt(d, n)
    PROVE  /\ local_servers' \subseteq Nodes /\ local_servers' = local_servers \cup ns
           /\ pool_chunks' \in [Nodes -> Nat] /\ waiters' \in [Nodes -> Seq(Tasks)]
           /\ loop' \in [Nodes -> {"none", "head", "evict", "sleep", "retry"}]
           /\ \A n \in Nodes : LineInv(n)' /\ BooksInv(n)'
           /\ \A n \in Nodes \ local_servers' :
                 /\ loop'[n] = "none" /\ waiters'[n] = <<>> /\ pool'[n] = <<>> /\ usage'[n] = 0
                 /\ io_queue'[n] = <<>> /\ queued_models'[n] = {}
<1>1. /\ local_servers \subseteq Nodes /\ pool_chunks \in [Nodes -> Nat]
      /\ waiters \in [Nodes -> Seq(Tasks)]
      /\ loop \in [Nodes -> {"none", "head", "evict", "sleep", "retry"}]
      /\ StartInv
  BY DEF IndInv, Types
<1>2. /\ local_servers' = local_servers \cup ns
      /\ pool_chunks' = [n \in Nodes |-> IF n \in ns THEN chunks ELSE pool_chunks[n]]
      /\ loop' = [n \in Nodes |-> IF n \in ns THEN "head" ELSE loop[n]]
      /\ waiters' = [n \in Nodes |-> IF n \in ns THEN <<Loop>> ELSE waiters[n]]
  BY DEF NewStores
<1>3. pool_chunks' \in [Nodes -> Nat]
  BY <1>1, <1>2
<1>4. loop' \in [Nodes -> {"none", "head", "evict", "sleep", "retry"}]
  BY <1>1, <1>2
<1>5. waiters' \in [Nodes -> Seq(Tasks)]
  BY <1>1, <1>2, LoopAlone
<1>6. ASSUME NEW n \in Nodes PROVE LineInv(n)'
  <2>1. LineInv(n) /\ \A d \in Calls : StandsAt(d, n)' <=> StandsAt(d, n)
    BY DEF IndInv
  <2>2. CASE n \in ns
    <3>1. waiters'[n] = <<Loop>> /\ loop'[n] = "head"
      BY <1>2, <2>2
    <3>2. waiters[n] = <<>>
      BY <1>1, <2>2 DEF StartInv
    <3>3. \A d \in Calls : ~StandsAt(d, n)'
      BY <2>1, <3>2, EmptyElements DEF LineInv
    <3>4. PICK s : s = <<Loop>>
      OBVIOUS
    <3>5. waiters'[n] = s /\ IsInjective(s) /\ ToSet(s) = {Loop}
      BY <3>1, <3>4, LoopAlone
    <3>. QED
      BY <3>1, <3>3, <3>5, CallAssumption DEF LineInv
  <2>3. CASE n \notin ns
    <3>1. waiters'[n] = waiters[n] /\ loop'[n] = loop[n]
      BY <1>2, <2>3
    <3>. QED
      BY <2>1, <3>1 DEF LineInv
  <2>. QED
    BY <2>2, <2>3
<1>7. ASSUME NEW n \in Nodes PROVE BooksInv(n)'
  <2>1. BooksInv(n) /\ Chunks(n)' = Chunks(n)
    BY DEF IndInv, Chunks
  <2>2. CASE n \in ns
    <3>1. loop'[n] = "head" /\ pool_chunks'[n] = chunks /\ usage[n] = 0
      BY <1>1, <1>2, <2>2 DEF StartInv
    <3>. QED
      BY <2>1, <3>1 DEF BooksInv
  <2>3. CASE n \notin ns
    <3>1. loop'[n] = loop[n] /\ pool_chunks'[n] = pool_chunks[n]
      BY <1>2, <2>3
    <3>. QED
      BY <2>1, <3>1 DEF BooksInv
  <2>. QED
    BY <2>2, <2>3
<1>8. ASSUME NEW n \in Nodes \ local_servers'
      PROVE  /\ loop'[n] = "none" /\ waiters'[n] = <<>> /\ pool'[n] = <<>> /\ usage'[n] = 0
             /\ io_queue'[n] = <<>> /\ queued_models'[n] = {}
  <2>1. n \in Nodes \ local_servers /\ n \notin ns
    BY <1>2
  <2>. QED
    BY <1>1, <1>2, <2>1 DEF StartInv
<1>. QED
  BY <1>1, <1>2, <1>3, <1>4, <1>5, <1>6, <1>7, <1>8

\* The server of one more node is reached.
LEMMA ConnectStep ==
    ASSUME IndInv, NEW k \in Nodes, Connect(k)
    PROVE  IndInv'
<1>1. /\ k \in connecting /\ connecting' = connecting \ {k}
      /\ NewStores({k}, MemPoolSize \div ChunkSize)
      /\ UNCHANGED <<disk_models, queued_models, io_queue, pool, usage, metadata, reader>>
      /\ UNCHANGED <<model_info, model_storage_info, call>>
  BY DEF Connect
<1>2. MemPoolSize \div ChunkSize \in Nat
  BY SizeAssumption
<1>3. PICK ns : ns = {k}
  OBVIOUS
<1>4. PICK chunks \in Nat : chunks = MemPoolSize \div ChunkSize
  BY <1>2
<1>5. StartInv
  BY DEF IndInv
<1>6. ns \subseteq Nodes \ local_servers /\ NewStores(ns, chunks)
  BY <1>1, <1>3, <1>4, <1>5 DEF StartInv
<1>7. \A d \in Calls, n \in Nodes : StandsAt(d, n)' <=> StandsAt(d, n)
  BY <1>1 DEF StandsAt
<1>8. /\ local_servers' \subseteq Nodes /\ local_servers' = local_servers \cup ns
      /\ pool_chunks' \in [Nodes -> Nat] /\ waiters' \in [Nodes -> Seq(Tasks)]
      /\ loop' \in [Nodes -> {"none", "head", "evict", "sleep", "retry"}]
      /\ \A n \in Nodes : LineInv(n)' /\ BooksInv(n)'
      /\ \A n \in Nodes \ local_servers' :
            /\ loop'[n] = "none" /\ waiters'[n] = <<>> /\ pool'[n] = <<>> /\ usage'[n] = 0
            /\ io_queue'[n] = <<>> /\ queued_models'[n] = {}
  BY <1>1, <1>6, <1>7, NewStoresParts
<1>9. Types'
  BY <1>1, <1>8 DEF IndInv, Types
<1>10. \A c \in Calls : call[c].pc = "idle"
  BY <1>1, <1>5 DEF StartInv
<1>11. StartInv'
  BY <1>1, <1>3, <1>5, <1>8, <1>10 DEF StartInv
<1>12. \A n \in Nodes, x \in Models : DiskInv(n, x)'
  BY <1>1 DEF IndInv, DiskInv
<1>13. \A x \in Models : InfoInv(x)'
  BY <1>1 DEF IndInv, InfoInv
<1>14. ASSUME NEW c \in Calls PROVE CallInv(c)'
  BY <1>1, <1>10 DEF CallInv
<1>15. MetadataInv'
  BY <1>1 DEF IndInv, MetadataInv
<1>. QED
  BY <1>8, <1>9, <1>11, <1>12, <1>13, <1>14, <1>15 DEF IndInv

\* A registration begins: every worker has a local store now.
LEMMA StartRegisterStep ==
    ASSUME IndInv, NEW c \in Calls, NEW m \in Models, NEW p \in Placements,
           StartRegister(c, m, p.local_disk, p.memory_pool)
    PROVE  IndInv'
<1>1. PICK r : r = [Idle EXCEPT !.kind = "register", !.pc = "download", !.model = m,
                                !.todo = p.local_disk, !.preload = p.memory_pool]
  OBVIOUS
<1>2. /\ connecting = {} /\ call[c].pc = "idle"
      /\ model_storage_info' = [model_storage_info EXCEPT ![m] = {}]
      /\ NewStores(Nodes \ local_servers, 1 \div ChunkSize)
      /\ call' = [call EXCEPT ![c] = r]
      /\ UNCHANGED <<disk_models, queued_models, io_queue, pool, usage, connecting, model_info>>
      /\ UNCHANGED <<metadata, reader>>
  BY <1>1 DEF StartRegister
<1>3. 1 \div ChunkSize \in Nat
  BY SizeAssumption
<1>4. PICK ns : ns = Nodes \ local_servers
  OBVIOUS
<1>5. PICK chunks \in Nat : chunks = 1 \div ChunkSize
  BY <1>3
<1>6. PICK s : s = p.local_disk
  OBVIOUS
<1>7. s \in Seq(Nodes) /\ s # <<>> /\ p.memory_pool \subseteq Nodes
  BY <1>6, PlacementsAssumption
<1>8. /\ r \in CallRecords /\ r.pc = "download" /\ r.kind = "register" /\ r.todo = s
      /\ r.model = m /\ r.size = None
  BY <1>1, <1>6, <1>7, IdleType DEF Idle, CallRecords
<1>9. /\ call \in [Calls -> CallRecords] /\ local_servers \subseteq Nodes
      /\ model_storage_info \in [Models -> SUBSET Nodes]
  BY DEF IndInv, Types
<1>10. /\ call' \in [Calls -> CallRecords] /\ call'[c] = r
       /\ \A d \in Calls \ {c} : call'[d] = call[d]
  BY <1>2, <1>8, <1>9
<1>11. ASSUME NEW d \in Calls, NEW n \in Nodes PROVE StandsAt(d, n)' <=> StandsAt(d, n)
  <2>1. CASE d = c
    BY <1>2, <1>8, <1>10, <2>1 DEF StandsAt
  <2>2. CASE d # c
    <3>1. call'[d] = call[d]
      BY <1>10, <2>2
    <3>. QED
      BY <3>1 DEF StandsAt
  <2>. QED
    BY <2>1, <2>2
<1>12. NewStores(ns, chunks) /\ ns \subseteq Nodes \ local_servers
  BY <1>2, <1>4, <1>5
<1>13. /\ local_servers' \subseteq Nodes /\ local_servers' = local_servers \cup ns
       /\ pool_chunks' \in [Nodes -> Nat] /\ waiters' \in [Nodes -> Seq(Tasks)]
       /\ loop' \in [Nodes -> {"none", "head", "evict", "sleep", "retry"}]
       /\ \A n \in Nodes : LineInv(n)' /\ BooksInv(n)'
       /\ \A n \in Nodes \ local_servers' :
             /\ loop'[n] = "none" /\ waiters'[n] = <<>> /\ pool'[n] = <<>> /\ usage'[n] = 0
             /\ io_queue'[n] = <<>> /\ queued_models'[n] = {}
  BY <1>2, <1>11, <1>12, NewStoresParts
<1>14. local_servers' = Nodes
  BY <1>4, <1>9, <1>13
<1>15. model_storage_info' \in [Models -> SUBSET Nodes]
       /\ \A x \in Models : model_storage_info'[x] = IF x = m THEN {} ELSE model_storage_info[x]
  BY <1>2, <1>9
<1>16. Types'
  BY <1>2, <1>10, <1>13, <1>15 DEF IndInv, Types
<1>17. StartInv'
  BY <1>2, <1>13 DEF IndInv, StartInv
<1>18. ASSUME NEW n \in Nodes, NEW x \in Models PROVE DiskInv(n, x)'
  BY <1>2, <1>15 DEF IndInv, DiskInv
<1>19. \A x \in Models : InfoInv(x)'
  BY <1>2 DEF IndInv, InfoInv
<1>20. ASSUME NEW d \in Calls PROVE CallInv(d)'
  <2>1. CASE d = c
    BY <1>7, <1>8, <1>10, <1>14, <2>1 DEF CallInv
  <2>2. CASE d # c
    <3>1. CallInv(d) /\ call'[d] = call[d]
      BY <1>10, <2>2 DEF IndInv
    <3>2. \A n \in Nodes, x \in Models : disk_models[n][x] # None => disk_models'[n][x] # None
      BY <1>2
    <3>. QED
      BY <1>13, <3>1, <3>2, CallFrame
  <2>. QED
    BY <2>1, <2>2
<1>21. MetadataInv'
  <2>1. MetadataInv
    BY DEF IndInv
  <2>2. \A d \in Calls : /\ call'[d].pc \in {"load", "info"} <=> call[d].pc \in {"load", "info"}
                         /\ call'[d].pc = "read" <=> call[d].pc = "read"
    BY <1>2, <1>8, <1>10
  <2>. QED
    BY <1>2, <2>1, <2>2 DEF MetadataInv
<1>. QED
  BY <1>13, <1>16, <1>17, <1>18, <1>19, <1>20, <1>21 DEF IndInv

\* A registration is refused after it reset the storage information.
LEMMA RefuseRegisterStep ==
    ASSUME IndInv, NEW m \in Models, RefuseRegister(m)
    PROVE  IndInv'
<1>1. /\ model_storage_info' = [model_storage_info EXCEPT ![m] = {}]
      /\ UNCHANGED <<pool_chunks, disk_models, queued_models, io_queue, pool, usage, loop>>
      /\ UNCHANGED <<connecting, local_servers, model_info, waiters, metadata, reader, call>>
  BY DEF RefuseRegister, stores, locks
<1>2. model_storage_info \in [Models -> SUBSET Nodes]
  BY DEF IndInv, Types
<1>3. model_storage_info' \in [Models -> SUBSET Nodes]
      /\ \A x \in Models : model_storage_info'[x] = IF x = m THEN {} ELSE model_storage_info[x]
  BY <1>1, <1>2
<1>4. Types'
  BY <1>1, <1>3 DEF IndInv, Types
<1>5. StartInv'
  BY <1>1 DEF IndInv, StartInv
<1>6. \A n \in Nodes : BooksInv(n)'
  BY <1>1 DEF IndInv, BooksInv, Chunks
<1>7. \A n \in Nodes : LineInv(n)'
  BY <1>1 DEF IndInv, LineInv, StandsAt
<1>8. \A n \in Nodes, x \in Models : DiskInv(n, x)'
  BY <1>1, <1>3 DEF IndInv, DiskInv
<1>9. \A x \in Models : InfoInv(x)'
  BY <1>1 DEF IndInv, InfoInv
<1>10. \A c \in Calls : CallInv(c)'
  BY <1>1 DEF IndInv, CallInv
<1>11. MetadataInv'
  BY <1>1 DEF IndInv, MetadataInv
<1>. QED
  BY <1>4, <1>5, <1>6, <1>7, <1>8, <1>9, <1>10, <1>11 DEF IndInv

\* Before the cluster is initialized the stores are empty and the lines too.
LEMMA InitInv == Init => IndInv
<1> SUFFICES ASSUME Init PROVE IndInv
  OBVIOUS
<1>1. /\ connecting \in SUBSET Nodes /\ local_servers = {}
      /\ pool_chunks = [n \in Nodes |-> 0]
      /\ disk_models = [n \in Nodes |-> [m \in Models |-> None]]
      /\ queued_models = [n \in Nodes |-> {}] /\ io_queue = [n \in Nodes |-> <<>>]
      /\ pool = [n \in Nodes |-> <<>>] /\ usage = [n \in Nodes |-> 0]
      /\ loop = [n \in Nodes |-> "none"] /\ waiters = [n \in Nodes |-> <<>>]
      /\ metadata = <<>> /\ reader = None
      /\ model_info = [m \in Models |-> Absent]
      /\ model_storage_info = [m \in Models |-> {}]
      /\ call = [c \in Calls |-> Idle]
  BY DEF Init
<1>2. \A c \in Calls : call[c] = Idle /\ call[c].pc = "idle"
  BY <1>1, IdleType
<1>3. call \in [Calls -> CallRecords]
  BY <1>1, IdleType
<1>4. /\ \A S : <<>> \in Seq(S)
      /\ ToSet(<<>>) = {} /\ IsInjective(<<>>)
  BY EmptyElements
<1>5. Types
  <2>1. pool_chunks \in [Nodes -> Nat] /\ disk_models \in [Nodes -> [Models -> Int \cup {None}]]
    BY <1>1
  <2>2. queued_models \in [Nodes -> SUBSET Models] /\ usage \in [Nodes -> Int]
        /\ loop \in [Nodes -> {"none", "head", "evict", "sleep", "retry"}]
    BY <1>1
  <2>3. /\ io_queue \in [Nodes -> Seq(Models)] /\ pool \in [Nodes -> Seq(Models)]
        /\ waiters \in [Nodes -> Seq(Tasks)] /\ metadata \in Seq(Calls)
    BY <1>1, <1>4
  <2>4. model_info \in [Models -> Int \cup {None, Absent}]
        /\ model_storage_info \in [Models -> SUBSET Nodes]
    BY <1>1
  <2>. QED
    BY <1>1, <1>3, <2>1, <2>2, <2>3, <2>4 DEF Types
<1>6. StartInv
  BY <1>1, <1>2 DEF StartInv
<1>7. ASSUME NEW n \in Nodes PROVE BooksInv(n)
  <2>1. /\ pool[n] = <<>> /\ io_queue[n] = <<>> /\ queued_models[n] = {} /\ usage[n] = 0
        /\ pool_chunks[n] = 0 /\ loop[n] = "none"
    BY <1>1
  <2>2. Total(Chunks(n), <<>>) = 0
    BY TotalType
  <2>. QED
    BY <1>4, <2>1, <2>2 DEF BooksInv
<1>8. ASSUME NEW n \in Nodes PROVE LineInv(n)
  <2>1. waiters[n] = <<>> /\ loop[n] = "none"
    BY <1>1
  <2>2. \A c \in Calls : ~StandsAt(c, n)
    BY <1>2 DEF StandsAt
  <2>. QED
    BY <1>4, <2>1, <2>2 DEF LineInv
<1>9. ASSUME NEW n \in Nodes, NEW m \in Models PROVE DiskInv(n, m)
  BY <1>1, <1>4 DEF DiskInv
<1>10. \A m \in Models : InfoInv(m)
  BY <1>1 DEF InfoInv
<1>11. \A c \in Calls : CallInv(c)
  BY <1>2 DEF CallInv
<1>12. MetadataInv
  BY <1>1, <1>2, <1>4, ValueAssumption DEF MetadataInv
<1>. QED
  BY <1>5, <1>6, <1>7, <1>8, <1>9, <1>10, <1>11, <1>12 DEF IndInv

\* Every step of manager and stores keeps the invariant.
LEMMA NextInv == IndInv /\ [Next]_vars => IndInv'
<1> SUFFICES ASSUME IndInv, [Next]_vars PROVE IndInv'
  OBVIOUS
<1>1. ASSUME NEW n \in Nodes, Connect(n) PROVE IndInv'
  BY <1>1, ConnectStep
<1>2. ASSUME NEW n \in Nodes, TakeHead(n) \/ Wake(n) PROVE IndInv'
  BY <1>2, LoopTurns
<1>3. ASSUME NEW n \in Nodes, NEW ok \in BOOLEAN, EvictAndLoad(n, ok) PROVE IndInv'
  BY <1>3, EvictAndLoadStep
<1>4. ASSUME NEW c \in Calls, LookUp(c) PROVE IndInv'
  BY <1>4, LookUpStep
<1>5. ASSUME NEW c \in Calls, LoadToHost(c) PROVE IndInv'
  BY <1>5, LoadToHostStep
<1>6. ASSUME NEW c \in Calls, LockInfo(c) PROVE IndInv'
  BY <1>6, LockInfoStep
<1>7. ASSUME NEW c \in Calls, ReadInfo(c) PROVE IndInv'
  BY <1>7, ReadInfoStep
<1>8. ASSUME NEW c \in Calls, StartInfo(c) PROVE IndInv'
  BY <1>8, StartInfoStep
<1>9. ASSUME NEW c \in Calls, NEW ok \in BOOLEAN, Downloaded(c, ok) PROVE IndInv'
  BY <1>9, DownloadedStep
<1>10. ASSUME NEW c \in Calls, NEW ok \in BOOLEAN, RegisterModel(c, ok) PROVE IndInv'
  BY <1>10, RegisterModelStep
<1>11. ASSUME NEW c \in Calls, NEW n \in Nodes, NEW m \in Models, StartLoad(c, n, m) PROVE IndInv'
  BY <1>11, StartLoadStep
<1>12. ASSUME NEW c \in Calls, NEW m \in Models, NEW p \in Placements,
              StartRegister(c, m, p.local_disk, p.memory_pool)
       PROVE  IndInv'
  BY <1>12, StartRegisterStep
<1>13. ASSUME NEW m \in Models, RefuseRegister(m) PROVE IndInv'
  BY <1>13, RefuseRegisterStep
<1>14. CASE UNCHANGED vars
  <2>1. /\ UNCHANGED <<pool_chunks, disk_models, queued_models, io_queue, pool, usage, loop>>
        /\ UNCHANGED <<connecting, local_servers, model_info, model_storage_info>>
        /\ UNCHANGED <<waiters, metadata, reader, call>>
    BY <1>14 DEF vars, stores, manager, locks
  <2>2. Types' /\ StartInv' /\ MetadataInv'
    BY <2>1 DEF IndInv, Types, StartInv, MetadataInv
  <2>3. \A n \in Nodes : BooksInv(n)' /\ LineInv(n)'
    BY <2>1 DEF IndInv, BooksInv, Chunks, LineInv, StandsAt
  <2>4. \A n \in Nodes, m \in Models : DiskInv(n, m)'
    BY <2>1 DEF IndInv, DiskInv
  <2>5. \A m \in Models : InfoInv(m)'
    BY <2>1 DEF IndInv, InfoInv
  <2>6. \A c \in Calls : CallInv(c)'
    BY <2>1 DEF IndInv, CallInv
  <2>. QED
    BY <2>2, <2>3, <2>4, <2>5, <2>6 DEF IndInv
<1>. QED
  BY <1>1, <1>2, <1>3, <1>4, <1>5, <1>6, <1>7, <1>8, <1>9, <1>10, <1>11, <1>12, <1>13, <1>14
     DEF Next

(***************************************************************************)
(* The theorems                                                            *)
(***************************************************************************)

\* IndInv holds whatever is called at the same time and whatever fails.
THEOREM Invariance == Spec => []IndInv
BY InitInv, NextInv, PTL DEF Spec

\* What the books of the stores say of each other follows.
LEMMA BooksFromInv == IndInv => UsageIsPool /\ QueueIsQueued
<1> SUFFICES ASSUME IndInv PROVE UsageIsPool /\ QueueIsQueued
  OBVIOUS
<1>1. ASSUME NEW n \in Nodes
      PROVE  /\ usage[n] = PoolSize(n) /\ usage[n] <= pool_chunks[n]
             /\ Total(Size, pool[n]) <= pool_chunks[n] * ChunkSize
  <2>1. /\ usage[n] = Total(Chunks(n), pool[n]) /\ usage[n] <= pool_chunks[n]
        /\ usage[n] \in Int /\ pool_chunks[n] \in Nat
    BY DEF IndInv, BooksInv, Types
  <2>2. usage[n] = PoolSize(n)
    BY <2>1 DEF PoolSize, Chunks
  <2>3. PICK w : w = Chunks(n)
    OBVIOUS
  <2>4. PICK s : s = pool[n]
    OBVIOUS
  <2>5. PICK S : S = ToSet(s)
    OBVIOUS
  <2>6. s \in Seq(S)
    <3>1. s \in Seq(Models)
      BY <2>4, BooksFacts
    <3>2. \A i \in 1 .. Len(s) : s[i] \in S
      BY <2>5, <3>1, ToSetMember
    <3>. QED
      BY <3>1, <3>2
  <2>7. \A x \in S : /\ Size[x] \in Int /\ w[x] \in Int /\ w[x] >= 0
                     /\ Size[x] <= w[x] * ChunkSize
    <3>1. ASSUME NEW x \in S
          PROVE  Size[x] \in Nat /\ w[x] \in Nat /\ Size[x] <= w[x] * ChunkSize
      <4>1. x \in Models /\ s \in Seq(Models)
        BY <2>4, <2>5, BooksFacts, ToSetMember
      <4>2. /\ disk_models[n][x] = Size[x] /\ w[x] = Needed(disk_models[n][x])
            /\ w[x] \in Nat
        BY <2>3, <2>4, <2>5, BooksFacts
      <4>3. Size[x] \in Nat
        BY <4>1, SizeAssumption
      <4>. QED
        BY <4>2, <4>3, NeededType
    <3>. QED
      BY <3>1
  <2>8. Total(Size, s) <= Total(w, s) * ChunkSize
    <3>1. ChunkSize \in Nat /\ \A x \in S : /\ Size[x] \in Int /\ w[x] \in Int
                                            /\ Size[x] <= w[x] * ChunkSize
      BY <2>7, SizeAssumption
    <3>. QED
      BY <2>6, <3>1, TotalBound
  <2>9. ASSUME NEW u \in Int, NEW p \in Int, NEW c \in Nat, u <= p PROVE u * c <= p * c
    <3>1. p - u \in Nat /\ (p - u) * c \in Nat
      BY <2>9
    <3>2. (p - u) * c = p * c - u * c
      OBVIOUS
    <3>3. u * c \in Int /\ p * c \in Int
      OBVIOUS
    <3>. QED
      BY <3>1, <3>2, <3>3
  <2>10. usage[n] * ChunkSize <= pool_chunks[n] * ChunkSize /\ ChunkSize \in Nat
    BY <2>1, <2>9, SizeAssumption
  <2>11. Total(Size, s) \in Int
    BY <2>6, <2>7, TotalType
  <2>12. usage[n] * ChunkSize \in Int /\ pool_chunks[n] * ChunkSize \in Int
    BY <2>1, <2>10
  <2>13. Total(Size, s) <= usage[n] * ChunkSize
    BY <2>1, <2>3, <2>4, <2>8
  <2>14. Total(Size, s) <= pool_chunks[n] * ChunkSize
    BY <2>10, <2>11, <2>12, <2>13
  <2>. QED
    BY <2>1, <2>2, <2>4, <2>14
<1>2. ASSUME NEW n \in Nodes
      PROVE  /\ queued_models[n] = Range(io_queue[n])
             /\ IsInjective(io_queue[n]) /\ IsInjective(pool[n])
             /\ queued_models[n] \cap Range(pool[n]) = {}
  BY RangeIsToSet DEF IndInv, BooksInv
<1>. QED
  BY <1>1, <1>2 DEF UsageIsPool, QueueIsQueued

\* So does what is said of the disks and of the lines.
LEMMA RestFromInv == IndInv => TypeOK /\ StoredIsOnDisk /\ EveryWaiterWaits
<1> SUFFICES ASSUME IndInv PROVE TypeOK /\ StoredIsOnDisk /\ EveryWaiterWaits
  OBVIOUS
<1>1. /\ Types /\ MetadataInv
      /\ \A n \in Nodes : BooksInv(n) /\ LineInv(n)
      /\ \A n \in Nodes, m \in Models : DiskInv(n, m)
      /\ \A m \in Models : InfoInv(m)
      /\ \A c \in Calls : CallInv(c)
  BY DEF IndInv
<1>2. TypeOK
  <2>1. ASSUME NEW n \in Nodes
        PROVE  /\ loop[n] \in {"none", "head", "evict", "sleep", "retry"}
               /\ queued_models[n] \subseteq Models /\ Range(pool[n]) \subseteq Models
               /\ Range(waiters[n]) \subseteq Calls \cup {Loop}
               /\ \A m \in Models : disk_models[n][m] \in {None, -1, Size[m]}
    <3>1. pool[n] \in Seq(Models) /\ waiters[n] \in Seq(Tasks)
          /\ loop[n] \in {"none", "head", "evict", "sleep", "retry"}
          /\ queued_models[n] \subseteq Models
      BY <1>1 DEF Types
    <3>2. Range(pool[n]) = ToSet(pool[n]) /\ Range(waiters[n]) = ToSet(waiters[n])
      BY RangeIsToSet
    <3>3. ToSet(pool[n]) \subseteq Models
      BY <3>1, ToSetMember
    <3>4. ToSet(waiters[n]) \subseteq Tasks
      BY <3>1, ToSetMember
    <3>5. \A m \in Models : disk_models[n][m] \in {None, -1, Size[m]}
      BY <1>1 DEF DiskInv
    <3>. QED
      BY <3>1, <3>2, <3>3, <3>4, <3>5 DEF Tasks
  <2>2. Range(metadata) \subseteq Calls
    <3>1. metadata \in Seq(Calls) /\ Range(metadata) = ToSet(metadata)
      BY <1>1, RangeIsToSet DEF Types
    <3>. QED
      BY <3>1, ToSetMember
  <2>3. \A c \in Calls : call[c].pc \in {"idle", "load", "local", "info", "read", "download", "register"}
    BY <1>1 DEF Types, CallRecords
  <2>4. \A m \in Models : model_info[m] \in {Absent, None, -1, Size[m]}
    BY <1>1 DEF InfoInv
  <2>5. /\ connecting \subseteq Nodes /\ local_servers \subseteq Nodes
        /\ reader \in Calls \cup {None} /\ \A m \in Models : model_storage_info[m] \subseteq Nodes
    BY <1>1 DEF Types
  <2>. QED
    BY <2>1, <2>2, <2>3, <2>4, <2>5 DEF TypeOK
<1>3. StoredIsOnDisk
  <2>1. ASSUME NEW m \in Models
        PROVE  /\ model_info[m] # Absent => \E n \in Nodes : disk_models[n][m] # None
               /\ \A n \in model_storage_info[m] : disk_models[n][m] # None
               /\ \A n \in Nodes : m \in Range(pool[n]) => disk_models[n][m] = Size[m]
    <3>1. model_storage_info[m] \subseteq Nodes
      BY <1>1 DEF Types
    <3>2. \A n \in Nodes : Range(pool[n]) = ToSet(pool[n])
      BY RangeIsToSet
    <3>. QED
      BY <1>1, <3>1, <3>2 DEF InfoInv, DiskInv
  <2>. QED
    BY <2>1 DEF StoredIsOnDisk
<1>4. EveryWaiterWaits
  <2>1. ASSUME NEW c \in Calls
        PROVE  /\ call[c].pc \in {"local", "read", "register"} <=>
                     \E n \in Nodes : c \in Range(waiters[n])
               /\ call[c].pc \in {"load", "info"} <=> c \in Range(metadata)
               /\ reader = c <=> call[c].pc = "read"
    <3>1. \A n \in Nodes : c \in Range(waiters[n]) <=> StandsAt(c, n)
      BY <1>1, RangeIsToSet DEF LineInv
    <3>2. call[c].pc \in {"local", "read", "register"} => \E n \in Nodes : StandsAt(c, n)
      <4>1. CASE call[c].pc = "local"
        BY <1>1, <4>1 DEF CallInv, StandsAt
      <4>2. CASE call[c].pc \in {"read", "register"}
        <5>1. PICK s : s = call[c].todo
          OBVIOUS
        <5>2. s \in Seq(Nodes)
          BY <1>1, <5>1 DEF Types, CallRecords
        <5>3. s # <<>>
          BY <1>1, <4>2, <5>1 DEF CallInv
        <5>4. s[1] \in Nodes
          BY <5>2, <5>3
        <5>. QED
          BY <4>2, <5>1, <5>4 DEF StandsAt
      <4>. QED
        BY <4>1, <4>2
    <3>3. (\E n \in Nodes : StandsAt(c, n)) => call[c].pc \in {"local", "read", "register"}
      BY DEF StandsAt
    <3>4. call[c].pc \in {"load", "info"} <=> c \in Range(metadata)
      BY <1>1, RangeIsToSet DEF MetadataInv
    <3>5. reader = c <=> call[c].pc = "read"
      BY <1>1 DEF MetadataInv
    <3>. QED
      BY <3>1, <3>2, <3>3, <3>4, <3>5
  <2>. QED
    BY <2>1 DEF EveryWaiterWaits
<1>. QED
  BY <1>2, <1>3, <1>4

\* The books of every store are those of its queue and its pool, within the
\* pool its server has, what manager and stores say of the disks is true, and
\* every call stands in the one line it waits in, for any nodes, models, sizes
\* and placements, any calls at the same time and any failures.
THEOREM BooksAlwaysAgree == Spec => []BooksAgree
<1>1. IndInv => BooksAgree
  BY BooksFromInv, RestFromInv DEF BooksAgree
<1>. QED
  BY <1>1, Invariance, PTL
=============================================================================
