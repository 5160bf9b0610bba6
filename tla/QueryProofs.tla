---------------------------- MODULE QueryProofs -----------------------------
(***************************************************************************)
(* Proofs about the queries: what a breadth-first search and a scan find,  *)
(* for every graph and every request, that the folder tree is whole, that  *)
(* the Cypher lexer reads every character, and that the rows of a Cypher   *)
(* query are the matches of its pattern.  The first part is induction: the *)
(* prover has no induction rule it can use, but from the library's theorem *)
(* that every set of numbers has a least element follow induction over a   *)
(* set, and that a recursive function exists.                              *)
(***************************************************************************)
EXTENDS Queries, Traversal, WellFoundedInduction, FiniteSetTheorems, FunctionTheorems, TLAPS

-----------------------------------------------------------------------------
(* Induction and recursion.                                                *)

\* A set of numbers that is not empty has a least element.
LEMMA LeastElement ==
  ASSUME NEW T, T \subseteq Nat, T # {}
  PROVE  \E m \in T : \A n \in T : m <= n
<1> DEFINE R == OpToRel(<, Nat)
<1>1. IsWellFoundedOn(R, Nat) BY Zenon, NatLessThanWellFounded
<1>2. \A x, y \in Nat : x < y => <<x, y>> \in R BY DEF OpToRel
<1> HIDE DEF R
<1>3. PICK m \in T : \A y \in T : ~ (<<y, m>> \in R) BY Zenon, <1>1, WFMin
<1>4. ASSUME NEW n \in T PROVE m <= n
  <2>1. m \in Nat /\ n \in Nat OBVIOUS
  <2>2. ~ (n < m) BY Zenon, <1>2, <1>3, <2>1
  <2> QED BY <2>1, <2>2
<1> QED BY <1>4

\* A set that holds 0 and with a number the next one holds them all.
LEMMA SetInduction ==
  ASSUME NEW S, 0 \in S, \A n \in Nat : n \in S => n + 1 \in S
  PROVE  Nat \subseteq S
<1> SUFFICES ASSUME \E n \in Nat : n \notin S PROVE FALSE OBVIOUS
<1> DEFINE T == {n \in Nat : n \notin S}
<1>1. T \subseteq Nat /\ T # {} OBVIOUS
<1>2. PICK m \in T : \A n \in T : m <= n
  <2> HIDE DEF T
  <2> QED BY Zenon, <1>1, LeastElement
<1>3. m # 0 /\ m \in Nat /\ m - 1 \in Nat /\ (m - 1) + 1 = m OBVIOUS
<1>4. m - 1 \notin S BY <1>3
<1>5. m - 1 \in T BY <1>3, <1>4
<1> QED BY <1>2, <1>3, <1>5

\* A function over the numbers may be given by its first value and a step.
LEMMA Recursion ==
  ASSUME NEW D, NEW a \in D, NEW next \in [D -> D]
  PROVE  \E f \in [Nat -> D] : f[0] = a /\ \A k \in Nat : f[k + 1] = next[f[k]]
<1> DEFINE Good(n, g) == g \in [0..n -> D] /\ g[0] = a /\ \A k \in 0..n : k < n => g[k + 1] = next[g[k]]
           T == {n \in Nat : \E g : Good(n, g)}
<1>1. 0 \in T
  <2>1. Good(0, [k \in 0..0 |-> a]) OBVIOUS
  <2> QED BY Zenon, <2>1
<1>2. ASSUME NEW n \in Nat, n \in T PROVE n + 1 \in T
  <2>1. PICK g : Good(n, g) BY <1>2
  <2> DEFINE h == [k \in 0..(n + 1) |-> IF k = n + 1 THEN next[g[n]] ELSE g[k]]
  <2>2. g[n] \in D BY <2>1
  <2>3. h \in [0..(n + 1) -> D] BY <2>1, <2>2
  <2>4. h[0] = a BY <2>1
  <2>5. ASSUME NEW k \in 0..(n + 1), k < n + 1 PROVE h[k + 1] = next[h[k]]
    <3>1. h[k] = g[k] BY <2>5
    <3>2. CASE k = n BY <3>1, <3>2
    <3>3. CASE k < n BY <2>1, <3>1, <3>3
    <3> QED BY <3>2, <3>3, <2>5
  <2>6. Good(n + 1, h) BY <2>3, <2>4, <2>5
  <2> QED BY <2>6
<1>3. Nat \subseteq T
  <2> HIDE DEF T
  <2> QED BY <1>1, <1>2, SetInduction
<1> DEFINE G(n) == CHOOSE g : Good(n, g)
<1>4. \A n \in Nat : Good(n, G(n))
  <2> TAKE n \in Nat
  <2>1. \E g : Good(n, g) BY <1>3
  <2> HIDE DEF Good
  <2> QED BY <2>1, Zenon
<1> HIDE DEF G
<1>5. ASSUME NEW m \in Nat, NEW n \in Nat, m <= n PROVE \A k \in 0..m : G(m)[k] = G(n)[k]
  <2> DEFINE U == {k \in Nat : k <= m => G(m)[k] = G(n)[k]}
  <2>1. Good(m, G(m)) /\ Good(n, G(n)) BY <1>4
  <2>2. 0 \in U BY <2>1
  <2>3. ASSUME NEW k \in Nat, k \in U PROVE k + 1 \in U
    <3>1. CASE k + 1 <= m
      <4>1. G(m)[k] = G(n)[k] BY <2>3, <3>1
      <4>2. G(m)[k + 1] = next[G(m)[k]] BY <2>1, <3>1
      <4>3. G(n)[k + 1] = next[G(n)[k]] BY <2>1, <3>1, <1>5
      <4> QED BY <4>1, <4>2, <4>3
    <3>2. CASE ~(k + 1 <= m) BY <3>2
    <3> QED BY <3>1, <3>2
  <2>4. Nat \subseteq U
    <3> HIDE DEF U
    <3> QED BY <2>2, <2>3, SetInduction
  <2> QED BY <2>4
<1> DEFINE f == [n \in Nat |-> G(n)[n]]
<1>6. f \in [Nat -> D]
  <2>1. \A n \in Nat : G(n)[n] \in D BY <1>4
  <2> QED BY <2>1
<1>7. f[0] = a BY <1>4
<1>8. ASSUME NEW k \in Nat PROVE f[k + 1] = next[f[k]]
  <2>1. Good(k + 1, G(k + 1)) BY <1>4
  <2>2. G(k + 1)[k + 1] = next[G(k + 1)[k]] BY <2>1
  <2>3. G(k)[k] = G(k + 1)[k] BY <1>5
  <2> QED BY <2>2, <2>3
<1> QED BY Zenon, <1>6, <1>7, <1>8

-----------------------------------------------------------------------------
(* What a number of steps leads to.                                        *)

LEMMA GrowFacts ==
  ASSUME NEW R, NEW X
  PROVE  \A n : n \in Grow(R, X) <=> n \in X \/ \E p \in R : p[1] \in X /\ p[2] = n
BY DEF Grow

\* The recursion of Within is well founded.
LEMMA WithinUnfolds ==
  ASSUME NEW R, NEW S
  PROVE  /\ Within(R, S)[0] = S
         /\ \A k \in Nat : Within(R, S)[k + 1] = Grow(R, Within(R, S)[k])
<1> DEFINE D == SUBSET (S \cup {p[2] : p \in R})
           next == [X \in D |-> Grow(R, X)]
<1>1. S \in D OBVIOUS
<1>2. next \in [D -> D] BY DEF Grow
<1>3. PICK f \in [Nat -> D] : f[0] = S /\ \A k \in Nat : f[k + 1] = next[f[k]]
  <2> HIDE DEF D, next
  <2> QED BY <1>1, <1>2, Recursion
<1>4. f = [k \in Nat |-> IF k = 0 THEN S ELSE Grow(R, f[k - 1])]
  <2>1. \A k \in Nat : k # 0 => f[k] = Grow(R, f[k - 1])
    <3> TAKE k \in Nat
    <3> HAVE k # 0
    <3>1. k - 1 \in Nat /\ (k - 1) + 1 = k OBVIOUS
    <3>2. f[k] = next[f[k - 1]] BY <3>1, <1>3
    <3> QED BY <3>1, <3>2
  <2>2. \A k \in Nat : f[k] = IF k = 0 THEN S ELSE Grow(R, f[k - 1]) BY <2>1, <1>3
  <2> QED BY <1>3, <2>2
<1> HIDE DEF D, next
<1>5. \E W : W = [k \in Nat |-> IF k = 0 THEN S ELSE Grow(R, W[k - 1])] BY <1>4
<1>6. Within(R, S) = [k \in Nat |-> IF k = 0 THEN S ELSE Grow(R, Within(R, S)[k - 1])]
  BY <1>5, Zenon DEF Within
<1>7. \A k \in Nat : Within(R, S)[k] = IF k = 0 THEN S ELSE Grow(R, Within(R, S)[k - 1]) BY <1>6
<1> QED BY <1>7

\* More steps lead further.
LEMMA WithinGrows ==
  ASSUME NEW R, NEW S, NEW j \in Nat, NEW k \in Nat, j <= k
  PROVE  Within(R, S)[j] \subseteq Within(R, S)[k]
<1> DEFINE U == {i \in Nat : j <= i => Within(R, S)[j] \subseteq Within(R, S)[i]}
<1>1. \A i \in Nat : Within(R, S)[i] \subseteq Within(R, S)[i + 1] BY WithinUnfolds, GrowFacts
<1>2. 0 \in U OBVIOUS
<1>3. ASSUME NEW i \in Nat, i \in U PROVE i + 1 \in U
  <2>1. CASE j <= i BY <1>1, <1>3, <2>1
  <2>2. CASE j = i + 1 BY <2>2
  <2>3. CASE j > i + 1 BY <2>3
  <2> QED BY <2>1, <2>2, <2>3
<1>4. Nat \subseteq U
  <2> HIDE DEF U
  <2> QED BY <1>2, <1>3, SetInduction
<1> QED BY <1>4

\* Where R leads at all, and after how many steps a node is first met.
Reachable(R, S) == UNION {Within(R, S)[k] : k \in Nat}
Depth(R, S, n) == CHOOSE k \in Nat : \A j \in Nat : n \in Within(R, S)[j] <=> k <= j

LEMMA DepthFacts ==
  ASSUME NEW R, NEW S, NEW n \in Reachable(R, S)
  PROVE  /\ Depth(R, S, n) \in Nat
         /\ \A j \in Nat : n \in Within(R, S)[j] <=> Depth(R, S, n) <= j
<1> DEFINE T == {k \in Nat : n \in Within(R, S)[k]}
<1>1. T \subseteq Nat /\ T # {} BY DEF Reachable
<1>2. PICK m \in T : \A k \in T : m <= k
  <2> HIDE DEF T
  <2> QED BY Zenon, <1>1, LeastElement
<1>3. ASSUME NEW j \in Nat PROVE n \in Within(R, S)[j] <=> m <= j
  <2>1. CASE m <= j
    <3>1. Within(R, S)[m] \subseteq Within(R, S)[j] BY <2>1, WithinGrows
    <3> QED BY <2>1, <3>1
  <2>2. CASE ~ (m <= j) BY <1>2, <2>2
  <2> QED BY <2>1, <2>2
<1>4. \E k \in Nat : \A j \in Nat : n \in Within(R, S)[j] <=> k <= j BY <1>3
<1> QED BY <1>4, Zenon DEF Depth

\* There are no steps to where it starts.
LEMMA DepthOfStart ==
  ASSUME NEW R, NEW S
  PROVE  \A n \in S : n \in Reachable(R, S) /\ Depth(R, S, n) = 0
<1> TAKE n \in S
<1>1. n \in Within(R, S)[0] BY WithinUnfolds
<1>2. n \in Reachable(R, S) BY <1>1 DEF Reachable
<1>3. Depth(R, S, n) \in Nat /\ Depth(R, S, n) <= 0 BY <1>1, <1>2, DepthFacts
<1> QED BY <1>2, <1>3

\* A step leads at most one level further.
LEMMA DepthOfNext ==
  ASSUME NEW R, NEW S, NEW m \in Reachable(R, S), NEW n, <<m, n>> \in R
  PROVE  n \in Reachable(R, S) /\ Depth(R, S, n) <= Depth(R, S, m) + 1
<1> DEFINE d == Depth(R, S, m)
<1>1. d \in Nat /\ m \in Within(R, S)[d] BY DepthFacts
<1> HIDE DEF d
<1>2. n \in Grow(R, Within(R, S)[d]) BY <1>1, GrowFacts
<1>3. n \in Within(R, S)[d + 1] BY <1>1, <1>2, WithinUnfolds
<1>4. n \in Reachable(R, S) BY <1>1, <1>3 DEF Reachable
<1>5. Depth(R, S, n) <= d + 1 BY <1>1, <1>3, <1>4, DepthFacts
<1> QED BY <1>4, <1>5 DEF d

\* What is not where it starts has a predecessor one level before it.
LEMMA DepthOfPrevious ==
  ASSUME NEW R, R \subseteq {<<p[1], p[2]>> : p \in R}, NEW S, NEW n \in Reachable(R, S), n \notin S
  PROVE  \E m \in Reachable(R, S) : <<m, n>> \in R /\ Depth(R, S, n) = Depth(R, S, m) + 1
<1> DEFINE d == Depth(R, S, n)
<1>1. d \in Nat /\ \A j \in Nat : n \in Within(R, S)[j] <=> d <= j BY DepthFacts
<1> HIDE DEF d
<1>2. d # 0 BY <1>1, WithinUnfolds
<1>3. d - 1 \in Nat /\ (d - 1) + 1 = d BY <1>1, <1>2
<1>4. n \in Grow(R, Within(R, S)[d - 1]) BY <1>1, <1>3, WithinUnfolds
<1>5. n \notin Within(R, S)[d - 1] BY <1>1, <1>3
<1>6. PICK p \in R : p[1] \in Within(R, S)[d - 1] /\ p[2] = n BY <1>4, <1>5, GrowFacts
<1>7. p[1] \in Reachable(R, S) BY <1>3, <1>6 DEF Reachable
<1>8. Depth(R, S, p[1]) \in Nat /\ Depth(R, S, p[1]) <= d - 1 BY <1>3, <1>6, <1>7, DepthFacts
<1>9. <<p[1], n>> \in R
  <2>1. PICK q \in R : p = <<q[1], q[2]>> OBVIOUS
  <2>2. <<p[1], p[2]>> = p BY <2>1
  <2> QED BY <1>6, <2>2
<1>10. d <= Depth(R, S, p[1]) + 1 BY <1>7, <1>9, DepthOfNext DEF d
<1>11. d = Depth(R, S, p[1]) + 1 BY <1>1, <1>8, <1>10
<1> QED BY <1>7, <1>9, <1>11 DEF d

\* Where all steps end in N, so does any number of them.
LEMMA WithinStays ==
  ASSUME NEW R, NEW S, NEW N, S \subseteq N, \A p \in R : p[2] \in N, NEW k \in Nat
  PROVE  Within(R, S)[k] \subseteq N
<1> DEFINE U == {i \in Nat : Within(R, S)[i] \subseteq N}
<1>1. 0 \in U BY WithinUnfolds
<1>2. ASSUME NEW i \in Nat, i \in U PROVE i + 1 \in U BY <1>2, WithinUnfolds, GrowFacts
<1>3. Nat \subseteq U
  <2> HIDE DEF U
  <2> QED BY <1>1, <1>2, SetInduction
<1> QED BY <1>3

\* A finite set is searched in as many steps as it has members.
LEMMA WithinSettles ==
  ASSUME NEW R, NEW S, NEW N, IsFiniteSet(N), S \subseteq N, \A p \in R : p[2] \in N
  PROVE  Reachable(R, S) = Within(R, S)[Cardinality(N)]
<1> DEFINE W(k) == Within(R, S)[k]
           Small == {k \in Nat : k <= Cardinality(W(k)) \/ \E j \in Nat : j < k /\ W(j + 1) = W(j)}
<1>1. \A k \in Nat : W(k) \subseteq N BY WithinStays
<1>2. \A k \in Nat : IsFiniteSet(W(k)) /\ Cardinality(W(k)) \in Nat /\ Cardinality(W(k)) <= Cardinality(N)
  <2> TAKE k \in Nat
  <2>1. W(k) \in SUBSET N BY <1>1
  <2> HIDE DEF W
  <2> QED BY <2>1, FS_Subset, FS_CardinalityType
<1>3. Cardinality(N) \in Nat BY FS_CardinalityType
<1>4. Nat \subseteq Small
  <2>1. 0 \in Small BY <1>2
  <2>2. ASSUME NEW k \in Nat, k \in Small PROVE k + 1 \in Small
    <3>1. CASE \E j \in Nat : j < k /\ W(j + 1) = W(j) BY <3>1
    <3>2. CASE W(k + 1) = W(k) BY <3>2
    <3>3. CASE k <= Cardinality(W(k)) /\ W(k + 1) # W(k)
      <4>1. W(k) \subseteq W(k + 1) BY WithinGrows
      <4>2. Cardinality(W(k)) <= Cardinality(W(k + 1)) /\ Cardinality(W(k)) # Cardinality(W(k + 1))
        <5>1. W(k) \in SUBSET W(k + 1) BY <4>1
        <5>2. IsFiniteSet(W(k + 1)) BY <1>2
        <5>3. W(k) # W(k + 1) BY <3>3
        <5> HIDE DEF W
        <5> QED BY <5>1, <5>2, <5>3, FS_Subset
      <4>3. k + 1 <= Cardinality(W(k + 1)) BY <1>2, <3>3, <4>2
      <4> QED BY <4>3
    <3> QED BY <2>2, <3>1, <3>2, <3>3
  <2> HIDE DEF Small
  <2> QED BY <2>1, <2>2, SetInduction
\* One level that adds nothing is the last.
<1>5. ASSUME NEW j \in Nat, W(j + 1) = W(j), NEW k \in Nat, j <= k PROVE W(k) = W(j)
  <2> DEFINE V == {i \in Nat : j <= i => W(i) = W(j)}
  <2>1. 0 \in V OBVIOUS
  <2>2. ASSUME NEW i \in Nat, i \in V PROVE i + 1 \in V
    <3>1. CASE j <= i
      <4>1. W(i) = W(j) BY <2>2, <3>1
      <4>2. W(i + 1) = Grow(R, W(i)) /\ W(j + 1) = Grow(R, W(j)) BY WithinUnfolds
      <4> QED BY <4>1, <4>2, <1>5
    <3>2. CASE j = i + 1 BY <3>2
    <3>3. CASE j > i + 1 BY <3>3
    <3> QED BY <3>1, <3>2, <3>3
  <2>3. Nat \subseteq V
    <3> HIDE DEF V
    <3> QED BY <2>1, <2>2, SetInduction
  <2> QED BY <1>5, <2>3
<1>6. \A k \in Nat : W(k) \subseteq W(Cardinality(N))
  <2>1. CASE \E j \in Nat : j < Cardinality(N) + 1 /\ W(j + 1) = W(j)
    <3>1. PICK j \in Nat : j <= Cardinality(N) /\ W(j + 1) = W(j) BY <1>3, <2>1
    <3>2. W(Cardinality(N)) = W(j) BY <1>3, <1>5, <3>1
    <3>3. \A k \in Nat : j <= k => W(k) = W(j) BY <1>5, <3>1
    <3>4. \A k \in Nat : k <= j => W(k) \subseteq W(j) BY <3>1, WithinGrows
    <3>5. \A k \in Nat : k <= j \/ j <= k BY <3>1
    <3> HIDE DEF W
    <3> QED BY <3>2, <3>3, <3>4, <3>5
  <2>2. CASE ~ \E j \in Nat : j < Cardinality(N) + 1 /\ W(j + 1) = W(j)
    <3>1. Cardinality(N) + 1 \in Small BY <1>3, <1>4
    <3>2. Cardinality(N) + 1 <= Cardinality(W(Cardinality(N) + 1)) BY <2>2, <3>1
    <3>3. Cardinality(W(Cardinality(N) + 1)) <= Cardinality(N) BY <1>2, <1>3
    <3>4. Cardinality(W(Cardinality(N) + 1)) \in Nat BY <1>2, <1>3
    <3> HIDE DEF W
    <3> QED BY <1>3, <3>2, <3>3, <3>4
  <2> QED BY <2>1, <2>2
<1> QED BY <1>3, <1>6 DEF Reachable

-----------------------------------------------------------------------------
(* Ids in order.                                                           *)

\* InOrder lists a finite set of numbers, each once, the smaller first.
LEMMA InOrderFacts ==
  ASSUME NEW S, S \subseteq Nat, IsFiniteSet(S)
  PROVE  /\ InOrder(S) \in [1..Cardinality(S) -> S]
         /\ Cardinality(S) \in Nat
         /\ \A x \in S : \E i \in 1..Cardinality(S) : InOrder(S)[i] = x
         /\ \A i, j \in 1..Cardinality(S) : i < j => InOrder(S)[i] < InOrder(S)[j]
<1> DEFINE n == Cardinality(S)
           Below(x) == {y \in S : y < x}
           r == [x \in S |-> Cardinality(Below(x))]
<1>1. n \in Nat BY FS_CardinalityType
<1>2. ASSUME NEW x \in S
      PROVE  IsFiniteSet(Below(x)) /\ Cardinality(Below(x)) \in 0..(n - 1)
  <2>1. Below(x) \in SUBSET S /\ Below(x) # S BY <1>2
  <2>2. IsFiniteSet(Below(x)) /\ Cardinality(Below(x)) <= n /\ (Cardinality(Below(x)) = n => Below(x) = S)
    <3> HIDE DEF Below
    <3> QED BY <2>1, FS_Subset
  <2>3. Cardinality(Below(x)) \in Nat BY <2>2, FS_CardinalityType
  <2> QED BY <1>1, <2>1, <2>2, <2>3
<1>3. ASSUME NEW x \in S, NEW y \in S, x < y PROVE r[x] < r[y]
  <2>1. x \in Nat /\ y \in Nat OBVIOUS
  <2>2. Below(x) \in SUBSET Below(y) /\ Below(x) # Below(y)
    <3>1. \A z \in S : z \in Nat /\ (z < x => z < y) BY <1>3, <2>1
    <3>2. x \in Below(y) /\ x \notin Below(x) BY <1>3, <2>1
    <3> QED BY Zenon, <3>1, <3>2
  <2>3. Cardinality(Below(x)) <= Cardinality(Below(y)) /\ Cardinality(Below(x)) # Cardinality(Below(y))
    <3>1. IsFiniteSet(Below(y)) BY <1>2
    <3> HIDE DEF Below
    <3> QED BY <2>2, <3>1, FS_Subset
  <2>4. Cardinality(Below(x)) \in Nat /\ Cardinality(Below(y)) \in Nat BY <1>1, <1>2
  <2> QED BY <2>3, <2>4
<1>4. \A x, y \in S : r[x] = r[y] => x = y
  <2>1. \A x \in S : r[x] \in Nat BY <1>1, <1>2
  <2> HIDE DEF r
  <2> QED BY <1>3, <2>1
<1>5. r \in [S -> 0..(n - 1)] BY <1>2
<1>6. r \in Surjection(S, 0..(n - 1))
  <2>1. r \in Injection(S, 0..(n - 1))
    <3> HIDE DEF r, n
    <3> QED BY Zenon, <1>4, <1>5, Fun_IsInj
  <2>2. IsFiniteSet(0..(n - 1)) /\ Cardinality(0..(n - 1)) = n
    <3>1. 0 \in Int /\ n - 1 \in Int BY <1>1
    <3>2. IsFiniteSet(0..(n - 1)) /\ Cardinality(0..(n - 1)) = IF 0 > n - 1 THEN 0 ELSE (n - 1) - 0 + 1
      <4> HIDE DEF n
      <4> QED BY <3>1, FS_Interval
    <3> QED BY <1>1, <3>2
  <2> HIDE DEF r
  <2> QED BY <2>1, <2>2, FS_Injection
<1>7. \A i \in 1..n : \E x \in S : r[x] = i - 1
  <2>1. \A t \in 0..(n - 1) : \E x \in S : r[x] = t
    <3> HIDE DEF r, n
    <3> QED BY Zenon, <1>6, Fun_SurjectionProperties
  <2>2. \A i \in 1..n : i - 1 \in 0..(n - 1) BY <1>1
  <2> HIDE DEF r, n
  <2> QED BY <2>1, <2>2
<1>8. ASSUME NEW i \in 1..n PROVE InOrder(S)[i] \in S /\ r[InOrder(S)[i]] = i - 1
  <2>1. InOrder(S)[i] = CHOOSE x \in S : Cardinality(Below(x)) = i - 1 BY Zenon DEF InOrder
  <2>2. \E x \in S : Cardinality(Below(x)) = i - 1 BY <1>7
  <2>3. InOrder(S)[i] \in S /\ Cardinality(Below(InOrder(S)[i])) = i - 1
    <3> HIDE DEF Below
    <3> QED BY <2>1, <2>2, Zenon
  <2> QED BY <2>3
<1>9. InOrder(S) \in [1..n -> S]
  <2>1. InOrder(S) = [i \in 1..n |-> InOrder(S)[i]]
    <3> DEFINE e(i) == CHOOSE x \in S : Cardinality(Below(x)) = i - 1
    <3>1. InOrder(S) = [i \in 1..n |-> e(i)] BY Zenon DEF InOrder
    <3> HIDE DEF e
    <3> QED BY <3>1
  <2> HIDE DEF n
  <2> QED BY Zenon, <1>8, <2>1
<1>10. \A x \in S : \E i \in 1..n : InOrder(S)[i] = x
  <2> TAKE x \in S
  <2>1. r[x] + 1 \in 1..n /\ (r[x] + 1) - 1 = r[x] BY <1>1, <1>5
  <2>2. InOrder(S)[r[x] + 1] \in S /\ r[InOrder(S)[r[x] + 1]] = r[x]
    <3> HIDE DEF r, n
    <3> QED BY <1>8, <2>1
  <2> HIDE DEF r, n
  <2> QED BY Zenon, <1>4, <2>1, <2>2
<1>11. ASSUME NEW i \in 1..n, NEW j \in 1..n, i < j PROVE InOrder(S)[i] < InOrder(S)[j]
  <2> DEFINE a == InOrder(S)[i]
             b == InOrder(S)[j]
  <2>1. a \in S /\ r[a] = i - 1 /\ b \in S /\ r[b] = j - 1 BY <1>8
  <2>2. i - 1 < j - 1 BY <1>11
  <2>3. a \in Nat /\ b \in Nat BY Zenon, <2>1
  <2>4. ~ (b < a) /\ a # b
    <3>1. r[a] \in Nat /\ r[b] \in Nat BY <1>1, <1>5, <2>1
    <3>2. r[a] < r[b] BY <2>1, <2>2
    <3> HIDE DEF r, a, b
    <3> QED BY <1>3, <2>1, <3>1, <3>2
  <2> HIDE DEF a, b
  <2>5. a < b BY <2>3, <2>4
  <2> QED BY <2>5 DEF a, b
<1> QED BY <1>1, <1>9, <1>10, <1>11

-----------------------------------------------------------------------------
(* Breadth-first search.  q lists the nodes in the order they were met;    *)
(* those before head were expanded, unless they are lim or more steps      *)
(* away, and of the node at head the successors `left` are still to be     *)
(* looked at.                                                              *)

Pairs(R) == \A p \in R : p = <<p[1], p[2]>>
Met(q, n) == \E i \in 1..Len(q) : q[i] = n

Search(R, S, lim, q, head, left) ==
  /\ q \in Seq(Reachable(R, S)) /\ \A n \in S : Met(q, n)
  /\ head \in 1..(Len(q) + 1)
  /\ \A i, j \in 1..Len(q) : i <= j => Depth(R, S, q[i]) <= Depth(R, S, q[j])
  /\ \A j \in 1..Len(q) :
       /\ Depth(R, S, q[j]) <= lim
       /\ head <= Len(q) => Depth(R, S, q[j]) <= Depth(R, S, q[head]) + 1
  /\ \A i \in 1..Len(q) : \A n :
       i < head /\ Depth(R, S, q[i]) < lim /\ <<q[i], n>> \in R => Met(q, n)
  /\ \A n : head <= Len(q) /\ Depth(R, S, q[head]) < lim /\ <<q[head], n>> \in R => Met(q, n) \/ n \in left
  /\ \A n \in Reachable(R, S) : head <= Len(q) /\ Depth(R, S, n) <= Depth(R, S, q[head]) => Met(q, n)

LEMMA PairFacts == ASSUME NEW R, NEW N, \A p \in R : p[2] \in N PROVE \A m, n : <<m, n>> \in R => n \in N
<1> TAKE m, n
<1> HAVE <<m, n>> \in R
<1>1. <<m, n>>[2] = n OBVIOUS
<1> QED BY <1>1

\* A list that one more node is appended to has met that one besides.
LEMMA AppendMet ==
  ASSUME NEW T, NEW q \in Seq(T), NEW id
  PROVE  \A n : Met(Append(q, id), n) <=> Met(q, n) \/ n = id
<1>1. Len(Append(q, id)) = Len(q) + 1 /\ Len(q) \in Nat OBVIOUS
<1>2. Append(q, id)[Len(q) + 1] = id /\ \A i \in 1..Len(q) : Append(q, id)[i] = q[i] OBVIOUS
<1> QED BY <1>1, <1>2 DEF Met

LEMMA Prepended ==
  ASSUME NEW T, NEW q \in Seq(T), NEW m \in T
  PROVE  /\ <<m>> \o q \in Seq(T) /\ Len(<<m>> \o q) = Len(q) + 1
         /\ (<<m>> \o q)[1] = m /\ \A i \in 1..Len(q) : (<<m>> \o q)[i + 1] = q[i]
<1>1. <<m>> \in Seq(T) /\ Len(<<m>>) = 1 OBVIOUS
<1>2. <<m>> \o q \in Seq(T) /\ Len(<<m>> \o q) = Len(q) + 1 BY <1>1
<1>3. (<<m>> \o q)[1] = m OBVIOUS
<1>4. \A i \in 1..Len(q) : (<<m>> \o q)[i + 1] = q[i] OBVIOUS
<1> QED BY <1>2, <1>3, <1>4

\* It starts with the nodes of S.
LEMMA SearchStarts ==
  ASSUME NEW R, NEW S, NEW lim \in Nat, NEW q \in Seq(S), \A n \in S : Met(q, n),
         NEW left, \A n : Len(q) >= 1 /\ <<q[1], n>> \in R => n \in left
  PROVE  Search(R, S, lim, q, 1, left)
<1>1. \A i \in 1..Len(q) : q[i] \in S OBVIOUS
<1>2. \A i \in 1..Len(q) : q[i] \in Reachable(R, S) /\ Depth(R, S, q[i]) = 0 BY <1>1, DepthOfStart
<1>3. q \in Seq(Reachable(R, S)) BY <1>2
<1>4. \A n \in Reachable(R, S) : Depth(R, S, n) <= 0 => n \in S
  <2> TAKE n \in Reachable(R, S)
  <2> HAVE Depth(R, S, n) <= 0
  <2>1. n \in Within(R, S)[0] BY DepthFacts
  <2> QED BY <2>1, WithinUnfolds
<1> QED BY <1>2, <1>3, <1>4 DEF Search

\* A successor that was not met is one level further than the node at head.
LEMMA SearchAdds ==
  ASSUME NEW R, NEW S, NEW lim \in Nat, NEW q, NEW head, NEW left, NEW id,
         Search(R, S, lim, q, head, left), head <= Len(q), Depth(R, S, q[head]) < lim,
         <<q[head], id>> \in R, ~ Met(q, id)
  PROVE  /\ id \in Reachable(R, S) /\ Depth(R, S, id) = Depth(R, S, q[head]) + 1
         /\ Search(R, S, lim, Append(q, id), head, left \ {id})
<1> DEFINE D(n) == Depth(R, S, n)
           more == Append(q, id)
<1>1. q \in Seq(Reachable(R, S)) /\ head \in 1..Len(q) BY DEF Search
<1>2. \A i \in 1..Len(q) : q[i] \in Reachable(R, S) /\ D(q[i]) \in Nat BY <1>1, DepthFacts
<1>3. id \in Reachable(R, S) /\ D(id) \in Nat /\ D(id) <= D(q[head]) + 1 BY <1>1, <1>2, DepthOfNext, DepthFacts
<1>4. ~ (D(id) <= D(q[head])) BY <1>1, <1>3 DEF Search
<1>5. D(id) = D(q[head]) + 1 BY <1>1, <1>2, <1>3, <1>4
<1>6. more \in Seq(Reachable(R, S)) /\ Len(more) = Len(q) + 1 BY <1>1, <1>3
<1>7. more[Len(q) + 1] = id /\ \A i \in 1..Len(q) : more[i] = q[i] BY <1>1, <1>3
<1>8. \A n : Met(q, n) => Met(more, n) BY <1>1, <1>6, <1>7 DEF Met
<1>9. Met(more, id) BY <1>1, <1>6, <1>7 DEF Met
<1> HIDE DEF D, more
<1>10. \A n \in S : Met(more, n) BY <1>8 DEF Search
<1>11. head \in 1..(Len(more) + 1) /\ more[head] = q[head] BY <1>1, <1>6, <1>7
<1>12. \A i \in 1..Len(more) : (i \in 1..Len(q) /\ more[i] = q[i]) \/ (i = Len(q) + 1 /\ more[i] = id) BY <1>1, <1>6, <1>7
<1>13. \A j \in 1..Len(q) : D(q[j]) <= lim /\ D(q[j]) <= D(q[head]) + 1 BY <1>1 DEF Search, D
<1>14. \A j \in 1..Len(more) : D(more[j]) <= lim /\ D(more[j]) <= D(more[head]) + 1
  <2> TAKE j \in 1..Len(more)
  <2>1. CASE j \in 1..Len(q) /\ more[j] = q[j] BY <1>11, <1>13, <2>1
  <2>2. CASE j = Len(q) + 1 /\ more[j] = id
    <3>1. D(id) <= lim BY <1>1, <1>2, <1>5 DEF D
    <3>2. D(id) <= D(q[head]) + 1 BY <1>3, <1>5
    <3> QED BY <1>11, <2>2, <3>1, <3>2
  <2> QED BY <1>12, <2>1, <2>2
<1>15. ASSUME NEW i \in 1..Len(more), NEW j \in 1..Len(more), i <= j PROVE D(more[i]) <= D(more[j])
  <2>1. CASE i \in 1..Len(q) /\ j \in 1..Len(q) BY <1>7, <1>15, <2>1 DEF Search, D
  <2>2. CASE j = Len(q) + 1
    <3>1. D(more[i]) <= D(q[head]) + 1 BY <1>11, <1>14
    <3> QED BY <1>5, <1>7, <2>2, <3>1
  <2>3. i \in 1..Len(q) \/ j = Len(q) + 1 BY <1>1, <1>6, <1>15
  <2>4. j \in 1..Len(q) \/ j = Len(q) + 1 BY <1>12
  <2> QED BY <2>1, <2>2, <2>3, <2>4
<1>16. ASSUME NEW i \in 1..Len(more), NEW n, i < head, D(more[i]) < lim, <<more[i], n>> \in R PROVE Met(more, n)
  <2>1. i \in 1..Len(q) /\ more[i] = q[i] BY <1>1, <1>7, <1>16
  <2>2. Met(q, n) BY <1>16, <2>1 DEF Search, D
  <2> QED BY <1>8, <2>2
<1>17. \A n : <<more[head], n>> \in R => Met(more, n) \/ n \in left \ {id}
  <2> TAKE n
  <2> HAVE <<more[head], n>> \in R
  <2>1. Met(q, n) \/ n \in left BY <1>1, <1>11 DEF Search
  <2> QED BY <1>8, <1>9, <2>1
<1>18. \A n \in Reachable(R, S) : D(n) <= D(more[head]) => Met(more, n) BY <1>1, <1>8, <1>11 DEF Search, D
<1>19. Search(R, S, lim, more, head, left \ {id})
  BY <1>6, <1>10, <1>11, <1>14, <1>15, <1>16, <1>17, <1>18 DEF Search, D
<1> QED BY <1>3, <1>5, <1>19 DEF D, more

\* One that was met, or is none, may be left aside.
LEMMA SearchSkips ==
  ASSUME NEW R, NEW S, NEW lim \in Nat, NEW q, NEW head, NEW left, NEW id,
         Search(R, S, lim, q, head, left),
         Met(q, id) \/ (head <= Len(q) => <<q[head], id>> \notin R)
  PROVE  Search(R, S, lim, q, head, left \ {id})
BY Zenon DEF Search

\* A node all of whose successors were met, or that is not expanded, is done with.
LEMMA SearchMoves ==
  ASSUME NEW R, Pairs(R), NEW S, NEW lim \in Nat, NEW q, NEW head, NEW left, NEW next,
         Search(R, S, lim, q, head, left), head <= Len(q),
         left = {} \/ ~ (Depth(R, S, q[head]) < lim),
         \A n : head + 1 <= Len(q) /\ <<q[head + 1], n>> \in R => n \in next
  PROVE  Search(R, S, lim, q, head + 1, next)
<1> DEFINE D(n) == Depth(R, S, n)
<1>1. q \in Seq(Reachable(R, S)) /\ head \in 1..Len(q) BY DEF Search
<1>2. \A i \in 1..Len(q) : q[i] \in Reachable(R, S) /\ D(q[i]) \in Nat BY <1>1, DepthFacts
<1>3. \A n : D(q[head]) < lim /\ <<q[head], n>> \in R => Met(q, n) BY DEF Search
<1>4. ASSUME NEW i \in 1..Len(q), NEW n, i < head + 1, D(q[i]) < lim, <<q[i], n>> \in R PROVE Met(q, n)
  <2>1. CASE i = head BY <1>3, <1>4, <2>1
  <2>2. CASE i < head BY <1>4, <2>2 DEF Search
  <2> QED BY <1>1, <1>4, <2>1, <2>2
<1>5. head + 1 \in 1..(Len(q) + 1) BY <1>1
<1>6. ASSUME head + 1 <= Len(q)
      PROVE  /\ head + 1 \in 1..Len(q)
             /\ D(q[head]) <= D(q[head + 1]) /\ D(q[head + 1]) <= D(q[head]) + 1 /\ D(q[head + 1]) <= lim
  <2>1. head + 1 \in 1..Len(q) /\ head <= head + 1 BY <1>1, <1>6
  <2> QED BY <1>1, <2>1 DEF Search
<1>7. ASSUME NEW j \in 1..Len(q), head + 1 <= Len(q) PROVE D(q[j]) <= D(q[head + 1]) + 1
  <2>1. D(q[j]) <= D(q[head]) + 1 BY <1>1 DEF Search
  <2>2. D(q[head]) <= D(q[head + 1]) /\ head + 1 \in 1..Len(q) BY <1>6, <1>7
  <2>3. D(q[j]) \in Nat /\ D(q[head]) \in Nat /\ D(q[head + 1]) \in Nat BY <1>1, <1>2, <2>2
  <2> HIDE DEF D
  <2> QED BY <2>1, <2>2, <2>3
<1>8. ASSUME NEW n \in Reachable(R, S), head + 1 <= Len(q), D(n) <= D(q[head + 1]) PROVE Met(q, n)
  <2>1. CASE D(n) <= D(q[head]) BY <1>1, <2>1 DEF Search
  <2>2. CASE ~ (D(n) <= D(q[head]))
    <3>1. D(n) \in Nat /\ D(q[head]) \in Nat /\ D(q[head + 1]) \in Nat BY Zenon, <1>1, <1>2, <1>6, <1>8, DepthFacts
    <3>2. D(n) = D(q[head]) + 1 /\ D(q[head + 1]) = D(n) /\ D(q[head]) < lim
      <4>1. D(q[head + 1]) <= D(q[head]) + 1 /\ D(q[head + 1]) <= lim BY <1>6, <1>8
      <4> HIDE DEF D
      <4> QED BY <1>8, <2>2, <3>1, <4>1
    <3>3. n \notin S
      <4>1. D(n) # 0 BY <3>1, <3>2
      <4> QED BY <4>1, DepthOfStart
    <3>4. PICK m \in Reachable(R, S) : <<m, n>> \in R /\ D(n) = D(m) + 1
      <4>1. R \subseteq {<<p[1], p[2]>> : p \in R} BY DEF Pairs
      <4> QED BY Zenon, <3>3, <4>1, DepthOfPrevious
    <3>5. D(m) \in Nat BY DepthFacts
    <3>6. D(m) = D(q[head]) BY <3>1, <3>2, <3>4, <3>5
    <3>7. Met(q, m)
      <4>1. D(m) <= D(q[head]) BY <3>1, <3>5, <3>6
      <4> QED BY <1>1, <4>1 DEF Search
    <3>8. PICK i \in 1..Len(q) : q[i] = m BY <3>7 DEF Met
    <3>9. i < head + 1
      <4>1. SUFFICES ASSUME head + 1 <= i PROVE FALSE BY <1>1
      <4>2. D(q[head + 1]) <= D(q[i]) BY <1>6, <1>8, <4>1 DEF Search
      <4> HIDE DEF D
      <4> QED BY <3>1, <3>2, <3>6, <3>8, <4>2
    <3> QED BY <1>4, <3>2, <3>4, <3>6, <3>8, <3>9
  <2> QED BY <2>1, <2>2
<1>9. \A n \in S : Met(q, n) BY DEF Search
<1>10. \A i, j \in 1..Len(q) : i <= j => D(q[i]) <= D(q[j]) BY DEF Search
<1>11. \A j \in 1..Len(q) : D(q[j]) <= lim BY DEF Search
<1> QED BY <1>1, <1>4, <1>5, <1>7, <1>8, <1>9, <1>10, <1>11 DEF Search

\* When the list is at its end, it holds what lim steps lead to, and nothing else.
LEMMA SearchEnds ==
  ASSUME NEW R, Pairs(R), NEW S, NEW lim \in Nat, NEW q, NEW head, NEW left,
         Search(R, S, lim, q, head, left), head > Len(q)
  PROVE  \A n : n \in Within(R, S)[lim] <=> Met(q, n)
<1> DEFINE D(n) == Depth(R, S, n)
           Missed == {n \in Within(R, S)[lim] : ~ Met(q, n)}
           T == {D(n) : n \in Missed}
<1>1. q \in Seq(Reachable(R, S)) /\ head = Len(q) + 1 BY DEF Search
<1>2. \A n \in Within(R, S)[lim] : n \in Reachable(R, S) /\ D(n) \in Nat /\ D(n) <= lim
  <2>1. \A n \in Within(R, S)[lim] : n \in Reachable(R, S) BY DEF Reachable
  <2> QED BY <2>1, DepthFacts
<1>3. ASSUME NEW n, Met(q, n) PROVE n \in Within(R, S)[lim]
  <2>1. PICK i \in 1..Len(q) : q[i] = n BY <1>3 DEF Met
  <2>2. n \in Reachable(R, S) /\ D(n) <= lim BY <1>1, <2>1 DEF Search
  <2> QED BY <2>2, DepthFacts
<1>4. Missed = {}
  <2> SUFFICES ASSUME Missed # {} PROVE FALSE OBVIOUS
  <2>1. T \subseteq Nat /\ T # {} BY <1>2
  <2>2. PICK d \in T : \A e \in T : d <= e
    <3> HIDE DEF T
    <3> QED BY Zenon, <2>1, LeastElement
  <2>3. PICK n \in Missed : D(n) = d OBVIOUS
  <2>4. n \notin S BY <2>3 DEF Search
  <2>5. n \in Reachable(R, S) /\ D(n) \in Nat /\ D(n) <= lim BY <1>2, <2>3
  <2>6. PICK m \in Reachable(R, S) : <<m, n>> \in R /\ D(n) = D(m) + 1
    <3>1. R \subseteq {<<p[1], p[2]>> : p \in R} BY DEF Pairs
    <3> QED BY Zenon, <2>4, <2>5, <3>1, DepthOfPrevious
  <2>7. D(m) \in Nat /\ D(m) < lim /\ ~ (d <= D(m)) BY <2>3, <2>5, <2>6, DepthFacts
  <2>8. m \in Within(R, S)[lim] BY <2>6, <2>7, DepthFacts
  <2>9. Met(q, m) BY <2>2, <2>7, <2>8
  <2>10. PICK i \in 1..Len(q) : q[i] = m BY <2>9 DEF Met
  <2>11. Met(q, n) BY <1>1, <2>6, <2>7, <2>10 DEF Search
  <2> QED BY <2>3, <2>11
<1> QED BY <1>3, <1>4

\* A behaviour is one call of one query.
LEMMA SameQuestion == [Next]_vars => asked' = asked
<1>1. Next => asked' = asked BY Zenon DEF Next
<1>2. UNCHANGED vars => asked' = asked BY DEF vars
<1> QED BY <1>1, <1>2

-----------------------------------------------------------------------------
(* The call path: the search ends where it has met the target, and the     *)
(* walk back takes one level off with each predecessor.                    *)

\* The instance has operators of its own for those of Traversal and FiniteSets.
LEMMA PathNames ==
  /\ \A R, S : Path!Within(R, S) = Within(R, S)
  /\ \A S : (Path!IsFiniteSet(S) <=> IsFiniteSet(S)) /\ Path!Cardinality(S) = Cardinality(S)
BY DEF Path!Within, Path!Grow, Within, Grow, Path!IsFiniteSet, IsFiniteSet, Path!Cardinality, Cardinality

\* More levels than a call path can have.
PathLevels == Cardinality(PathIDs) + 1

\* Each node that was seen, except the source a, has a predecessor one level before it.
PathTree(R, a) ==
  /\ a \in r5 /\ r5 \subseteq Reachable(R, {a}) /\ DOMAIN r6 = r5 \ {a}
  /\ \A n \in DOMAIN r6 :
       r6[n] \in r5 /\ <<r6[n], n>> \in R /\ Depth(R, {a}, n) = Depth(R, {a}, r6[n]) + 1

\* The search has not met the target b, and has seen what it has queued.
PathSearch(R, a, b) ==
  /\ Search(R, {a}, PathLevels, r3, r4, IF pc = "scan" THEN r7 ELSE PathIDs)
  /\ \A n : n \in r5 <=> Met(r3, n)
  /\ b \notin r5

\* The path so far ends at the target b, and is as long as the levels it crosses.
PathTail(R, a, b) ==
  /\ b \in Reachable(R, {a}) /\ r8 \in Seq(Reachable(R, {a})) /\ Len(r8) >= 1 /\ r8[Len(r8)] = b
  /\ \A i \in 1..(Len(r8) - 1) : <<r8[i], r8[i + 1]>> \in R
  /\ Depth(R, {a}, r8[1]) + Len(r8) = Depth(R, {a}, b) + 1

PathWork(R, a, b) ==
  /\ pc \in {"head", "scan", "walk"} => PathTree(R, a)
  /\ pc = "scan" => r4 <= Len(r3)
  /\ pc \in {"head", "scan"} => PathSearch(R, a, b)
  /\ pc \in {"walk", "found"} => PathTail(R, a, b)
  /\ pc = "walk" => r8[1] \in r5
  /\ pc = "found" => r8[1] = a
  /\ pc = "none" => b \notin Reachable(R, {a})
  /\ pc = "start" => r3 = <<>> /\ r4 = 1 /\ r5 = {} /\ DOMAIN r6 = {} /\ r7 = {} /\ r8 = <<>>

PathInv == graph \in PathGraphs /\ Path!TypeOK /\ PathWork(Path!Calls, r1, r2)

\* What the assumption says of one graph.
LEMMA CallsFacts ==
  ASSUME graph \in PathGraphs, Path!PathAssumption
  PROVE  /\ IsFiniteSet(PathIDs) /\ Cardinality(PathIDs) \in Nat /\ PathLevels \in Nat
         /\ graph.live \subseteq graph.known /\ graph.known \subseteq PathIDs
         /\ Pairs(Path!Calls)
         /\ \A a, b : <<a, b>> \in Path!Calls <=> Path!HasCallEdge(a, b) /\ b \in graph.live
         /\ \A a, b : <<a, b>> \in Path!Calls => b \in Path!Successors(a)
         /\ \A a : Path!Successors(a) \subseteq PathIDs
<1>1. IsFiniteSet(PathIDs) /\ graph.live \subseteq graph.known /\ graph.known \subseteq PathIDs
  BY PathNames DEF Path!PathAssumption
<1>2. Cardinality(PathIDs) \in Nat /\ PathLevels \in Nat BY <1>1, FS_CardinalityType DEF PathLevels
<1>3. Pairs(Path!Calls) BY DEF Path!Calls, Pairs
<1>4. \A a, b : <<a, b>> \in Path!Calls <=> Path!HasCallEdge(a, b) /\ b \in graph.live
  BY DEF Path!Calls, Path!HasCallEdge
<1>5. \A a, b : Path!HasCallEdge(a, b) => b \in Path!Successors(a) BY DEF Path!HasCallEdge, Path!Successors
<1>6. \A a : Path!Successors(a) \subseteq PathIDs
  <2>1. \A e \in graph.edges : e.to \in graph.known BY DEF Path!PathAssumption
  <2> QED BY <1>1, <2>1 DEF Path!Successors
<1> QED BY <1>1, <1>2, <1>3, <1>4, <1>5, <1>6

LEMMA CallsReach ==
  ASSUME graph \in PathGraphs, Path!PathAssumption
  PROVE  \A p \in Path!Calls : p[2] \in PathIDs
<1>1. \A e \in graph.edges : e.to \in PathIDs BY DEF Path!PathAssumption
<1> QED BY <1>1 DEF Path!Calls

\* No node is as many levels away as there are PathLevels.
LEMMA PathIsShort ==
  ASSUME NEW R, NEW a \in PathIDs, IsFiniteSet(PathIDs), \A p \in R : p[2] \in PathIDs
  PROVE  /\ Reachable(R, {a}) = Within(R, {a})[Cardinality(PathIDs)]
         /\ Reachable(R, {a}) \subseteq Within(R, {a})[PathLevels]
         /\ \A n \in Reachable(R, {a}) : Depth(R, {a}, n) \in Nat /\ Depth(R, {a}, n) < PathLevels
<1>1. Reachable(R, {a}) = Within(R, {a})[Cardinality(PathIDs)] BY WithinSettles
<1>2. Cardinality(PathIDs) \in Nat BY FS_CardinalityType
<1>3. \A n \in Reachable(R, {a}) : Depth(R, {a}, n) \in Nat /\ Depth(R, {a}, n) <= Cardinality(PathIDs)
  BY <1>1, <1>2, DepthFacts
<1>4. Reachable(R, {a}) \subseteq Within(R, {a})[PathLevels]
  <2>1. PathLevels \in Nat /\ Cardinality(PathIDs) <= PathLevels BY <1>2 DEF PathLevels
  <2> QED BY <1>1, <1>2, <2>1, WithinGrows
<1>5. \A n \in Reachable(R, {a}) : Depth(R, {a}, n) < PathLevels BY <1>2, <1>3 DEF PathLevels
<1> QED BY Zenon, <1>1, <1>3, <1>4, <1>5

LEMMA OneInSeq == ASSUME NEW L PROVE <<>> \in Seq(L) /\ \A x \in L : <<x>> \in Seq(L)
OBVIOUS

LEMMA PathInit == asked = "path" /\ Init /\ Path!PathAssumption => PathInv
<1> SUFFICES ASSUME asked = "path", Path!Init, Path!PathAssumption PROVE PathInv BY DEF Init
<1> USE DEF Path!Init
<1>1. graph \in PathGraphs /\ r1 \in PathIDs /\ r2 \in PathIDs /\ pc = "start" OBVIOUS
<1>2. graph.live \subseteq graph.known /\ graph.known \subseteq PathIDs BY <1>1, CallsFacts
<1>3. DOMAIN r6 = {} OBVIOUS
<1>4. Path!TypeOK BY <1>1, <1>2, <1>3 DEF Path!TypeOK
<1>5. PathWork(Path!Calls, r1, r2) BY <1>1, <1>3 DEF PathWork
<1> QED BY <1>1, <1>4, <1>5 DEF PathInv

LEMMA PathStart ==
  ASSUME PathInv, Path!PathAssumption, Path!Start PROVE PathInv'
<1> USE DEF Path!Start
<1>1. PICK R : R = Path!Calls OBVIOUS
<1>2. PICK a \in PathIDs : a = r1 BY DEF PathInv, Path!TypeOK
<1>3. PICK b \in PathIDs : b = r2 BY DEF PathInv, Path!TypeOK
<1>4. graph \in PathGraphs /\ r3 = <<>> /\ r4 = 1 /\ r5 = {} /\ DOMAIN r6 = {} /\ r7 = {} /\ r8 = <<>>
  BY DEF PathInv, PathWork
<1>5. (Path!Calls)' = R BY <1>1 DEF Path!Calls
<1>6. graph' = graph /\ r1' = a /\ r2' = b /\ r4' = 1 /\ r6' = r6 /\ r7' = {} BY <1>2, <1>3, <1>4
<1>7. a \in Reachable(R, {a}) /\ Depth(R, {a}, a) = 0 BY DepthOfStart
<1> HIDE DEF Path!Start
<1> DEFINE L == graph.live
<1>L. L \subseteq graph.known /\ graph.known \subseteq PathIDs BY DEF PathInv, Path!TypeOK
<1>S. <<>> \in Seq(L) /\ \A x \in L : <<x>> \in Seq(L)
  <2> HIDE DEF L
  <2> QED BY OneInSeq
<1>T. /\ r3' \in Seq(L) /\ r5' \subseteq L /\ r8' \in Seq(L)
      /\ pc' \in {"start", "head", "scan", "walk", "found", "none", "unknown"}
      => (Path!TypeOK)'
  <2> SUFFICES ASSUME r3' \in Seq(L), r5' \subseteq L, r8' \in Seq(L),
                      pc' \in {"start", "head", "scan", "walk", "found", "none", "unknown"}
               PROVE  (Path!TypeOK)'
    OBVIOUS
  <2>1. 1 \in 1..(Len(r3') + 1) OBVIOUS
  <2>2. graph'.live = L /\ DOMAIN r6' = {} BY <1>4, <1>6
  <2> QED BY <1>4, <1>6, <1>L, <2>1, <2>2 DEF Path!TypeOK
<1>8. CASE pc' = "unknown" /\ r3' = <<>> /\ r5' = {} /\ r8' = <<>>
  <2>1. (Path!TypeOK)' BY <1>8, <1>S, <1>T
  <2>2. PathWork(R, a, b)' BY <1>8 DEF PathWork
  <2> QED BY <1>4, <1>5, <1>6, <2>1, <2>2 DEF PathInv
<1>9. CASE a = b /\ a \in graph.live /\ pc' = "found" /\ r8' = <<a>> /\ r3' = <<>> /\ r5' = {}
  <2>1. (Path!TypeOK)' BY <1>9, <1>S, <1>T
  <2>2. PathTail(R, a, b)' BY <1>7, <1>9 DEF PathTail
  <2>3. PathWork(R, a, b)' BY <1>9, <2>2 DEF PathWork
  <2> QED BY <1>4, <1>5, <1>6, <2>1, <2>3 DEF PathInv
<1>10. CASE a # b /\ a \in graph.live /\ pc' = "head" /\ r3' = <<a>> /\ r5' = {a} /\ r8' = <<>>
  <2>1. (Path!TypeOK)' BY <1>10, <1>S, <1>T
  <2>2. PathTree(R, a)' BY <1>4, <1>6, <1>7, <1>10 DEF PathTree
  <2>3. \A n : n \in r5' <=> Met(r3', n) BY <1>10 DEF Met
  <2>4. Search(R, {a}, PathLevels, r3', 1, PathIDs)
    <3>1. r3' \in Seq({a}) /\ (\A n \in {a} : Met(r3', n)) BY <1>10, <2>3
    <3>2. \A n : <<r3'[1], n>> \in R => n \in PathIDs BY <1>1, <1>4, CallsFacts
    <3>3. PathLevels \in Nat BY <1>4, CallsFacts
    <3> QED BY <3>1, <3>2, <3>3, SearchStarts
  <2>5. PathSearch(R, a, b)' BY <1>6, <1>10, <2>3, <2>4 DEF PathSearch
  <2>6. PathWork(R, a, b)' BY <1>10, <2>2, <2>5 DEF PathWork
  <2> QED BY <1>4, <1>5, <1>6, <2>1, <2>6 DEF PathInv
<1> QED BY <1>2, <1>3, <1>4, <1>8, <1>9, <1>10 DEF Path!Start

\* The node at head is turned to: what it calls is still to be looked at.
LEMMA PathExpand ==
  ASSUME PathInv, Path!PathAssumption, Path!Expand PROVE PathInv'
<1>1. PICK R, a, b : R = Path!Calls /\ a = r1 /\ b = r2 OBVIOUS
<1>2. /\ pc = "head" /\ pc' = "scan" /\ r4 <= Len(r3) /\ r7' = Path!Successors(r3[r4])
      /\ graph' = graph /\ r1' = r1 /\ r2' = r2 /\ r3' = r3 /\ r4' = r4 /\ r5' = r5 /\ r6' = r6 /\ r8' = r8
  BY DEF Path!Expand
<1>3. graph \in PathGraphs /\ Path!TypeOK /\ PathTree(R, a) /\ PathSearch(R, a, b)
  BY <1>1, <1>2 DEF PathInv, PathWork
<1>4. (Path!Calls)' = R BY <1>1, <1>2 DEF Path!Calls
<1>5. r7' \subseteq PathIDs BY <1>2, <1>3, CallsFacts
<1>6. (Path!TypeOK)' BY <1>2, <1>3, <1>5 DEF Path!TypeOK
<1>7. PathTree(R, a)' BY Zenon, <1>2, <1>3 DEF PathTree
<1>8. Search(R, {a}, PathLevels, r3, r4, r7')
  <2>1. \A n : <<r3[r4], n>> \in R => n \in r7' BY <1>1, <1>2, <1>3, CallsFacts
  <2>2. Search(R, {a}, PathLevels, r3, r4, PathIDs) BY <1>2, <1>3 DEF PathSearch
  <2> QED BY Zenon, <2>1, <2>2 DEF Search
<1>9. PathSearch(R, a, b)' BY <1>2, <1>3, <1>8 DEF PathSearch
<1>10. PathWork(R, a, b)' BY <1>2, <1>7, <1>9 DEF PathWork
<1> QED BY <1>1, <1>2, <1>3, <1>4, <1>6, <1>10 DEF PathInv

\* The list is at its end without the target: it is out of reach.
LEMMA PathGiveUp ==
  ASSUME PathInv, Path!PathAssumption, Path!GiveUp PROVE PathInv'
<1>1. PICK R, a, b : R = Path!Calls /\ a = r1 /\ b = r2 OBVIOUS
<1>2. /\ pc = "head" /\ pc' = "none" /\ r4 > Len(r3) /\ graph' = graph /\ r1' = r1 /\ r2' = r2
      /\ r3' = r3 /\ r4' = r4 /\ r5' = r5 /\ r6' = r6 /\ r7' = r7 /\ r8' = r8
  BY DEF Path!GiveUp
<1>3. graph \in PathGraphs /\ Path!TypeOK /\ PathSearch(R, a, b) BY <1>1, <1>2 DEF PathInv, PathWork
<1>4. (Path!Calls)' = R BY <1>1, <1>2 DEF Path!Calls
<1>5. (Path!TypeOK)' BY <1>2, <1>3 DEF Path!TypeOK
<1>6. b \notin Reachable(R, {a})
  <2>1. \A n : n \in Within(R, {a})[PathLevels] <=> Met(r3, n)
    <3>1. Pairs(R) /\ PathLevels \in Nat BY <1>1, <1>3, CallsFacts
    <3>2. Search(R, {a}, PathLevels, r3, r4, PathIDs) BY <1>2, <1>3 DEF PathSearch
    <3> QED BY <1>2, <3>1, <3>2, SearchEnds
  <2>2. ~ Met(r3, b) BY <1>3 DEF PathSearch
  <2>3. Reachable(R, {a}) \subseteq Within(R, {a})[PathLevels]
    <3>1. a \in PathIDs /\ IsFiniteSet(PathIDs) BY <1>1, <1>3, CallsFacts DEF Path!TypeOK
    <3>2. \A p \in R : p[2] \in PathIDs BY <1>1, <1>3, CallsReach
    <3> QED BY <3>1, <3>2, PathIsShort
  <2> QED BY <2>1, <2>2, <2>3
<1>7. PathWork(R, a, b)' BY <1>2, <1>6 DEF PathWork
<1> QED BY <1>1, <1>2, <1>3, <1>4, <1>5, <1>7 DEF PathInv

\* All that the node at head calls was looked at.
LEMMA PathScanned ==
  ASSUME PathInv, Path!PathAssumption, Path!Scanned PROVE PathInv'
<1>1. PICK R, a, b : R = Path!Calls /\ a = r1 /\ b = r2 OBVIOUS
<1>2. /\ pc = "scan" /\ pc' = "head" /\ r7 = {} /\ r4' = r4 + 1 /\ graph' = graph /\ r1' = r1 /\ r2' = r2
      /\ r3' = r3 /\ r5' = r5 /\ r6' = r6 /\ r7' = r7 /\ r8' = r8
  BY DEF Path!Scanned
<1>3. graph \in PathGraphs /\ Path!TypeOK /\ PathTree(R, a) /\ PathSearch(R, a, b) /\ r4 <= Len(r3)
  BY <1>1, <1>2 DEF PathInv, PathWork
<1>4. (Path!Calls)' = R BY <1>1, <1>2 DEF Path!Calls
<1>5. PathTree(R, a)' BY Zenon, <1>2, <1>3 DEF PathTree
<1>6. Search(R, {a}, PathLevels, r3, r4 + 1, PathIDs)
  <2>1. Search(R, {a}, PathLevels, r3, r4, {}) BY <1>2, <1>3 DEF PathSearch
  <2>2. \A n : r4 + 1 <= Len(r3) /\ <<r3[r4 + 1], n>> \in R => n \in PathIDs BY <1>1, <1>3, CallsFacts
  <2>3. Pairs(R) /\ PathLevels \in Nat BY <1>1, <1>3, CallsFacts
  <2> QED BY <1>3, <2>1, <2>2, <2>3, SearchMoves
<1>7. PathSearch(R, a, b)' BY <1>2, <1>3, <1>6 DEF PathSearch
<1>8. (Path!TypeOK)'
  <2>1. r4' \in 1..(Len(r3) + 1) BY <1>2, <1>6 DEF Search
  <2> QED BY <1>2, <1>3, <2>1 DEF Path!TypeOK
<1>9. PathWork(R, a, b)' BY <1>2, <1>5, <1>7 DEF PathWork
<1> QED BY <1>1, <1>2, <1>3, <1>4, <1>8, <1>9 DEF PathInv

\* A node that is called is passed over, put in the list, or is the target.
LEMMA PathVisit ==
  ASSUME PathInv, Path!PathAssumption, Path!Visit PROVE PathInv'
<1>1. PICK R, a, b : R = Path!Calls /\ a = r1 /\ b = r2 OBVIOUS
<1>2. PICK id \in r7 :
        /\ r7' = r7 \ {id}
        /\ IF Path!Skipped(id, r3[r4])
           THEN UNCHANGED <<pc, r3, r5, r6, r8>>
           ELSE /\ r5' = r5 \cup {id}
                /\ r6' = [n \in DOMAIN r6 \cup {id} |-> IF n = id THEN r3[r4] ELSE r6[n]]
                /\ IF id = r2
                   THEN pc' = "walk" /\ r8' = <<r2>> /\ UNCHANGED r3
                   ELSE r3' = Append(r3, id) /\ UNCHANGED <<pc, r8>>
  BY Zenon DEF Path!Visit, Path!Enqueue
<1>3. pc = "scan" /\ graph' = graph /\ r1' = r1 /\ r2' = r2 /\ r4' = r4 BY DEF Path!Visit
<1>4. graph \in PathGraphs /\ Path!TypeOK /\ PathTree(R, a) /\ PathSearch(R, a, b) /\ r4 <= Len(r3)
  BY <1>1, <1>3 DEF PathInv, PathWork
<1>5. (Path!Calls)' = R BY <1>1, <1>3 DEF Path!Calls
<1>6. Search(R, {a}, PathLevels, r3, r4, r7) BY <1>3, <1>4 DEF PathSearch
<1>7. Pairs(R) /\ PathLevels \in Nat BY <1>1, <1>4, CallsFacts
<1>8. r4 \in 1..Len(r3) /\ r3[r4] \in Reachable(R, {a}) /\ r3[r4] \in r5 BY <1>4, <1>6 DEF Search, PathSearch, Met
<1> DEFINE L == graph.live
<1>9. r3 \in Seq(L) /\ r5 \subseteq L /\ r8 \in Seq(L) /\ r7 \subseteq PathIDs /\ DOMAIN r6 \subseteq r5
      /\ (\A n \in DOMAIN r6 : r6[n] \in r5) /\ a \in PathIDs /\ b \in PathIDs
      /\ L \subseteq graph.known /\ graph.known \subseteq PathIDs
  BY <1>1, <1>4 DEF Path!TypeOK
<1>10. CASE Path!Skipped(id, r3[r4])
  <2>1. pc' = pc /\ r3' = r3 /\ r5' = r5 /\ r6' = r6 /\ r8' = r8 /\ r7' = r7 \ {id} BY <1>2, <1>10
  <2>2. Met(r3, id) \/ <<r3[r4], id>> \notin R
    <3>1. CASE id \in r5 BY <1>4, <3>1 DEF PathSearch
    <3>2. CASE ~ (Path!HasCallEdge(r3[r4], id) /\ id \in graph.live) BY <1>1, <1>4, <3>2, CallsFacts
    <3> QED BY <1>10, <3>1, <3>2 DEF Path!Skipped
  <2>3. Search(R, {a}, PathLevels, r3, r4, r7 \ {id}) BY <1>6, <1>7, <2>2, SearchSkips
  <2>4. PathSearch(R, a, b)' BY <1>3, <1>4, <2>1, <2>3 DEF PathSearch
  <2>5. PathTree(R, a)' BY Zenon, <1>4, <2>1 DEF PathTree
  <2>6. (Path!TypeOK)' BY <1>3, <1>4, <2>1 DEF Path!TypeOK
  <2>7. PathWork(R, a, b)' BY <1>3, <1>4, <2>1, <2>4, <2>5 DEF PathWork
  <2> QED BY <1>1, <1>3, <1>4, <1>5, <2>6, <2>7 DEF PathInv
<1>11. CASE ~ Path!Skipped(id, r3[r4])
  <2>1. <<r3[r4], id>> \in R /\ id \notin r5 /\ id \in L BY <1>1, <1>4, <1>11, CallsFacts DEF Path!Skipped
  <2>2. ~ Met(r3, id) BY <1>4, <2>1 DEF PathSearch
  <2>3. Depth(R, {a}, r3[r4]) < PathLevels
    <3>1. IsFiniteSet(PathIDs) BY <1>4, CallsFacts
    <3>2. \A p \in R : p[2] \in PathIDs BY <1>1, <1>4, CallsReach
    <3> QED BY Zenon, <1>8, <1>9, <3>1, <3>2, PathIsShort
  <2>4. /\ id \in Reachable(R, {a}) /\ Depth(R, {a}, id) = Depth(R, {a}, r3[r4]) + 1
        /\ Search(R, {a}, PathLevels, Append(r3, id), r4, r7 \ {id})
    BY Zenon, <1>6, <1>7, <1>4, <2>1, <2>2, <2>3, SearchAdds
  <2>5. r5' = r5 \cup {id} /\ DOMAIN r6' = DOMAIN r6 \cup {id} /\ r6'[id] = r3[r4]
        /\ \A n \in DOMAIN r6 : n # id => r6'[n] = r6[n]
    BY <1>2, <1>11
  <2>6. PathTree(R, a)'
    <3>1. a \in r5 /\ r5 \subseteq Reachable(R, {a}) /\ DOMAIN r6 = r5 \ {a} BY Zenon, <1>4 DEF PathTree
    <3>2. a \in r5' /\ r5' \subseteq Reachable(R, {a}) /\ DOMAIN r6' = r5' \ {a} BY Zenon, <2>1, <2>4, <2>5, <3>1
    <3>3. ASSUME NEW n \in DOMAIN r6'
          PROVE  r6'[n] \in r5' /\ <<r6'[n], n>> \in R /\ Depth(R, {a}, n) = Depth(R, {a}, r6'[n]) + 1
      <4>1. CASE n = id BY <1>8, <2>1, <2>4, <2>5, <4>1
      <4>2. CASE n # id
        <5>1. n \in DOMAIN r6 /\ r6'[n] = r6[n] BY <2>5, <3>3, <4>2
        <5> QED BY Zenon, <1>4, <2>5, <5>1 DEF PathTree
      <4> QED BY <4>1, <4>2
    <3> QED BY <3>2, <3>3 DEF PathTree
  <2>7. DOMAIN r6' \subseteq r5' /\ (\A n \in DOMAIN r6' : r6'[n] \in r5') BY Zenon, <2>6 DEF PathTree
  <2>8. CASE id = r2
    <3>1. pc' = "walk" /\ r8' = <<b>> /\ r3' = r3 /\ r7' = r7 \ {id} BY <1>1, <1>2, <1>11, <2>8
    <3>2. PathTail(R, a, b)'
      <4>1. b \in Reachable(R, {a}) /\ <<b>> \in Seq(Reachable(R, {a})) /\ Len(<<b>>) = 1 /\ <<b>>[1] = b
        BY <1>1, <2>4, <2>8, OneInSeq
      <4>2. \A i \in 1..(Len(r8') - 1) : <<r8'[i], r8'[i + 1]>> \in R BY <3>1
      <4>3. Depth(R, {a}, b) + 1 = Depth(R, {a}, b) + 1 OBVIOUS
      <4> QED BY <3>1, <4>1, <4>2, <4>3 DEF PathTail
    <3>3. r8'[1] \in r5' BY <1>1, <2>5, <2>8, <3>1
    <3>4. PathWork(R, a, b)' BY <2>6, <3>1, <3>2, <3>3 DEF PathWork
    <3>5. r8' \in Seq(L)
      <4> HIDE DEF L
      <4> QED BY <1>1, <2>1, <2>8, <3>1, OneInSeq
    <3>6. (Path!TypeOK)' BY <1>3, <1>4, <1>9, <2>1, <2>5, <2>7, <3>1, <3>5 DEF Path!TypeOK
    <3> QED BY <1>1, <1>3, <1>4, <1>5, <3>4, <3>6 DEF PathInv
  <2>9. CASE id # r2
    <3>1. pc' = "scan" /\ r8' = r8 /\ r3' = Append(r3, id) /\ r7' = r7 \ {id} BY <1>2, <1>3, <1>11, <2>9
    <3>2. \A n : Met(Append(r3, id), n) <=> Met(r3, n) \/ n = id BY <1>9, AppendMet
    <3>3. PathSearch(R, a, b)'
      <4>1. \A n : n \in r5' <=> Met(r3', n) BY <1>4, <2>5, <3>1, <3>2 DEF PathSearch
      <4>2. b \notin r5' BY <1>1, <1>4, <2>5, <2>9 DEF PathSearch
      <4>3. Search(R, {a}, PathLevels, r3', r4', IF pc' = "scan" THEN r7' ELSE PathIDs) BY <1>3, <2>4, <3>1
      <4> QED BY <4>1, <4>2, <4>3 DEF PathSearch
    <3>4. r3' \in Seq(L) /\ Len(r3') = Len(r3) + 1
      <4> HIDE DEF L
      <4> QED BY <1>9, <2>1, <3>1
    <3>5. Len(r3) \in Nat /\ r4' \in 1..(Len(r3') + 1) /\ r4' <= Len(r3') BY <1>3, <1>8, <1>9, <3>4
    <3>6. PathWork(R, a, b)' BY <2>6, <3>1, <3>3, <3>5 DEF PathWork
    <3>7. (Path!TypeOK)' BY <1>3, <1>4, <1>9, <2>1, <2>5, <2>7, <3>1, <3>4, <3>5 DEF Path!TypeOK
    <3> QED BY <1>1, <1>3, <1>4, <1>5, <3>6, <3>7 DEF PathInv
  <2> QED BY <2>8, <2>9
<1> QED BY <1>10, <1>11

\* The walk back goes one level up with each node.
LEMMA PathWalk ==
  ASSUME PathInv, Path!PathAssumption, Path!Walk PROVE PathInv'
<1>1. PICK R, a, b : R = Path!Calls /\ a = r1 /\ b = r2 OBVIOUS
<1>2. /\ pc = "walk" /\ graph' = graph /\ r1' = r1 /\ r2' = r2 /\ r3' = r3 /\ r4' = r4
      /\ r5' = r5 /\ r6' = r6 /\ r7' = r7
      /\ IF r8[1] = r1 THEN pc' = "found" /\ r8' = r8
         ELSE IF r8[1] \notin DOMAIN r6 THEN pc' = "none" /\ r8' = r8
         ELSE r8' = <<r6[r8[1]]>> \o r8 /\ pc' = pc
  BY DEF Path!Walk
<1>3. graph \in PathGraphs /\ Path!TypeOK /\ PathTree(R, a) /\ PathTail(R, a, b) /\ r8[1] \in r5
  BY <1>1, <1>2 DEF PathInv, PathWork
<1>4. (Path!Calls)' = R BY <1>1, <1>2 DEF Path!Calls
<1>5. PathTree(R, a)' BY Zenon, <1>2, <1>3 DEF PathTree
<1>6. CASE r8[1] = r1
  <2>1. pc' = "found" /\ r8' = r8 BY <1>2, <1>6
  <2>2. PathTail(R, a, b)' BY <1>3, <2>1 DEF PathTail
  <2>3. PathWork(R, a, b)' BY <1>1, <1>6, <2>1, <2>2 DEF PathWork
  <2>4. (Path!TypeOK)' BY <1>2, <1>3, <2>1 DEF Path!TypeOK
  <2> QED BY <1>1, <1>2, <1>3, <1>4, <2>3, <2>4 DEF PathInv
<1>7. CASE r8[1] # r1
  <2> DEFINE m == r6[r8[1]]
             T == Reachable(R, {a})
             L == graph.live
             D(n) == Depth(R, {a}, n)
  <2>1. /\ r8[1] \in DOMAIN r6 /\ m \in r5 /\ <<m, r8[1]>> \in R /\ D(r8[1]) = D(m) + 1
        /\ m \in T
    BY Zenon, <1>1, <1>3, <1>7 DEF PathTree
  <2>2. r8' = <<m>> \o r8 /\ pc' = "walk" BY <1>2, <1>7, <2>1
  <2>3. r8 \in Seq(L) /\ m \in L BY <1>3, <2>1 DEF Path!TypeOK
  <2>4. r8 \in Seq(T) /\ b \in T /\ Len(r8) >= 1 /\ r8[Len(r8)] = b /\ D(r8[1]) + Len(r8) = D(b) + 1
        /\ \A i \in 1..(Len(r8) - 1) : <<r8[i], r8[i + 1]>> \in R
    BY <1>3 DEF PathTail
  <2>5. D(m) \in Nat /\ D(b) \in Nat BY <2>1, <2>4, DepthFacts
  <2> HIDE DEF m, T, L, D
  <2>6. /\ <<m>> \o r8 \in Seq(T) /\ <<m>> \o r8 \in Seq(L) /\ Len(<<m>> \o r8) = Len(r8) + 1
        /\ (<<m>> \o r8)[1] = m /\ \A i \in 1..Len(r8) : (<<m>> \o r8)[i + 1] = r8[i]
    BY <2>1, <2>3, <2>4, Prepended
  <2>7. Len(r8) \in Nat BY <2>4
  <2>8. ASSUME NEW i \in 1..(Len(r8') - 1) PROVE <<r8'[i], r8'[i + 1]>> \in R
    <3>1. i \in 1..Len(r8) BY <2>2, <2>6, <2>7
    <3>2. r8'[i + 1] = r8[i] BY <2>2, <2>6, <3>1
    <3>3. CASE i = 1 BY Zenon, <2>1, <2>2, <2>6, <3>2, <3>3
    <3>4. CASE i # 1
      <4>1. i - 1 \in 1..Len(r8) /\ (i - 1) + 1 = i /\ i - 1 \in 1..(Len(r8) - 1) BY <2>7, <3>1, <3>4
      <4>2. r8'[i] = r8[i - 1] BY <2>2, <2>6, <4>1
      <4> QED BY <2>4, <3>2, <4>1, <4>2
    <3> QED BY <3>3, <3>4
  <2>9. Len(r8') >= 1 /\ r8'[Len(r8')] = b BY <2>2, <2>4, <2>6, <2>7
  <2>10. D(r8'[1]) + Len(r8') = D(b) + 1 BY <2>1, <2>2, <2>4, <2>5, <2>6, <2>7
  <2>11. PathTail(R, a, b)' BY <2>2, <2>4, <2>6, <2>8, <2>9, <2>10 DEF PathTail, T, D
  <2>12. r8'[1] \in r5' BY <1>2, <2>1, <2>2, <2>6
  <2>13. PathWork(R, a, b)' BY <1>5, <2>2, <2>11, <2>12 DEF PathWork
  <2>14. (Path!TypeOK)' BY <1>2, <1>3, <2>2, <2>6 DEF Path!TypeOK, L
  <2> QED BY <1>1, <1>2, <1>3, <1>4, <2>13, <2>14 DEF PathInv
<1> QED BY <1>6, <1>7

LEMMA PathNext ==
  ASSUME PathInv, Path!PathAssumption, [Path!Next]_(Path!vars) PROVE PathInv'
<1>1. CASE Path!Next BY <1>1, PathStart, PathExpand, PathGiveUp, PathVisit, PathScanned, PathWalk DEF Path!Next
<1>2. CASE UNCHANGED Path!vars
  <2>1. PICK R, a, b : R = Path!Calls /\ a = r1 /\ b = r2 OBVIOUS
  <2>2. /\ graph' = graph /\ r1' = r1 /\ r2' = r2 /\ pc' = pc /\ r3' = r3 /\ r4' = r4
        /\ r5' = r5 /\ r6' = r6 /\ r7' = r7 /\ r8' = r8
    BY <1>2 DEF Path!vars
  <2>3. (Path!Calls)' = R BY <2>1, <2>2 DEF Path!Calls
  <2>4. PathWork(R, a, b)' BY Zenon, <2>1, <2>2 DEF PathInv, PathWork, PathTree, PathSearch, PathTail
  <2>5. (Path!TypeOK)' BY <2>2 DEF PathInv, Path!TypeOK
  <2> QED BY <2>1, <2>2, <2>3, <2>4, <2>5 DEF PathInv
<1> QED BY <1>1, <1>2

\* What the invariant says of a search that has ended.
LEMMA PathAnswers ==
  ASSUME PathInv, Path!PathAssumption
  PROVE  Path!TypeOK /\ Path!PathIsCalls /\ Path!PathIsShortest /\ Path!NoneIffUnreachable
<1>1. PICK R, a, b : R = Path!Calls /\ a = r1 /\ b = r2 OBVIOUS
<1>2. graph \in PathGraphs /\ Path!TypeOK /\ a \in PathIDs BY <1>1 DEF PathInv, Path!TypeOK
<1>3. IsFiniteSet(PathIDs) BY <1>2, CallsFacts
<1>4. Path!Reach = Within(R, {a}) BY <1>1, PathNames DEF Path!Reach
<1>5. Path!Everywhere = Reachable(R, {a})
  <2>1. Path!Everywhere = Within(R, {a})[Cardinality(PathIDs)] BY <1>4, PathNames DEF Path!Everywhere
  <2>2. \A p \in R : p[2] \in PathIDs BY <1>1, <1>2, CallsReach
  <2> QED BY <1>2, <1>3, <2>1, <2>2, PathIsShort
<1>6. ASSUME pc = "found"
      PROVE  PathTail(R, a, b) /\ r8[1] = a /\ Depth(R, {a}, a) = 0 /\ Len(r8) = Depth(R, {a}, b) + 1
  <2>1. PathTail(R, a, b) /\ r8[1] = a BY <1>1, <1>6 DEF PathInv, PathWork
  <2>2. Depth(R, {a}, a) = 0 BY DepthOfStart
  <2>3. Depth(R, {a}, b) \in Nat /\ Len(r8) \in Nat BY <2>1, DepthFacts DEF PathTail
  <2> QED BY <2>1, <2>2, <2>3 DEF PathTail
<1>7. Path!PathIsCalls
  <2> SUFFICES ASSUME pc = "found" PROVE Path!PathIsCalls BY DEF Path!PathIsCalls
  <2>1. r8[1] = r1 /\ r8[Len(r8)] = r2 BY <1>1, <1>6 DEF PathTail
  <2>2. ASSUME NEW i \in 1..(Len(r8) - 1)
        PROVE  /\ r8[i + 1] \in graph.live
               /\ \E e \in graph.edges : e.from = r8[i] /\ e.to = r8[i + 1] /\ e.type = "CALLS"
               /\ Path!EdgeType(i) = "CALLS"
    <3>1. <<r8[i], r8[i + 1]>> \in R BY Zenon, <1>6 DEF PathTail
    <3>2. Path!HasCallEdge(r8[i], r8[i + 1]) /\ r8[i + 1] \in graph.live BY <1>1, <1>2, <3>1, CallsFacts
    <3>3. i < Len(r8)
      <4>1. Len(r8) \in Nat BY <1>6 DEF PathTail
      <4> QED BY <4>1
    <3> QED BY <3>2, <3>3 DEF Path!HasCallEdge, Path!EdgeType
  <2> QED BY <2>1, <2>2 DEF Path!PathIsCalls
<1>8. Path!PathIsShortest
  <2> SUFFICES ASSUME pc = "found", NEW k \in 0..(Len(r8) - 2) PROVE r2 \notin Within(R, {a})[k]
    BY Zenon, <1>4 DEF Path!PathIsShortest
  <2>1. b \in Reachable(R, {a}) BY <1>6 DEF PathTail
  <2>2. Depth(R, {a}, b) \in Nat BY <2>1, DepthFacts
  <2>3. k \in Nat /\ ~ (Depth(R, {a}, b) <= k) BY <1>6, <2>2
  <2> QED BY <1>1, <2>1, <2>3, DepthFacts
<1>9. Path!NoneIffUnreachable
  <2>1. pc = "none" => b \notin Reachable(R, {a}) BY <1>1 DEF PathInv, PathWork
  <2>2. pc = "found" => b \in Reachable(R, {a}) BY <1>6 DEF PathTail
  <2> QED BY <1>1, <1>5, <2>1, <2>2 DEF Path!NoneIffUnreachable
<1> QED BY <1>2, <1>7, <1>8, <1>9

\* FindPath: for every graph, source and target, and whatever the order of the maps, the
\* answer is a shortest call path between live nodes, or that there is none.
THEOREM PathsAreShortest == Spec => []PathIsShortestCalls
<1> DEFINE Inv == asked = "path" => PathInv
<1> USE Inputs DEF Inputs
<1>1. Init => Inv BY PathInit
<1>2. Inv /\ [Next]_vars => Inv'
  <2> SUFFICES ASSUME asked' = "path", Inv, [Next]_vars PROVE PathInv'
    OBVIOUS
  <2>1. asked = "path" BY SameQuestion
  <2>2. [Path!Next]_(Path!vars)
    <3> HIDE DEF Inv, Inputs
    <3> QED BY <2>1 DEF Next, vars, Rest5, Path!vars
  <2> QED BY <2>1, <2>2, PathNext
<1>3. Inv => PathIsShortestCalls BY PathAnswers DEF PathIsShortestCalls
<1> QED BY <1>1, <1>2, <1>3, PTL DEF Spec

-----------------------------------------------------------------------------
(* The blast radius: the search along the dependents, cut at the limit.    *)

LEMMA BlastNames ==
  /\ \A R, S : Radius!Within(R, S) = Within(R, S)
  /\ \A S : (Radius!IsFiniteSet(S) <=> IsFiniteSet(S)) /\ Radius!Cardinality(S) = Cardinality(S)
  /\ \A S : Radius!InOrder(S) = InOrder(S)
BY DEF Radius!Within, Radius!Grow, Within, Grow, Radius!IsFiniteSet, IsFiniteSet, Radius!Cardinality, Cardinality,
       Radius!InOrder, InOrder

\* The nodes of a queue, and the ids of a list.
Nodes(q) == [i \in 1..Len(q) |-> q[i].node]
Queue(q, T) == Len(q) \in Nat /\ \A i \in 1..Len(q) : q[i].node \in T
Ids(s) == {s[i] : i \in 1..Len(s)}

\* What has been seen so far: the nodes of the queue, each with its true distance.
BlastSeen(R, S) ==
  /\ \A n : n \in DOMAIN r5 <=> Met(Nodes(r2), n)
  /\ \A n \in DOMAIN r5 : n \in Reachable(R, S) /\ r5[n] = Depth(R, S, n)
  /\ \A i \in 1..Len(r2) : r2[i].distance = Depth(R, S, r2[i].node)
  /\ r1.maxNodes > 0 => Cardinality(DOMAIN r5 \ S) <= r1.maxNodes

BlastSearch(R, S) ==
  /\ Search(R, S, r1.maxDepth, Nodes(r2), r3, IF pc = "scan" THEN Ids(r4) ELSE BlastIDs)
  /\ BlastSeen(R, S) /\ ~ r6
  /\ pc = "scan" =>
       /\ r3 <= Len(r2) /\ Depth(R, S, r2[r3].node) < r1.maxDepth
       /\ \A n \in Ids(r4) : n \in graph.live => <<r2[r3].node, n>> \in R

\* The nodes within the limit; if it was reached, of those there are, the nearest.
BlastResult(R, S) ==
  LET All == Within(R, S)[r1.maxDepth] IN
  /\ S \subseteq DOMAIN r5 /\ DOMAIN r5 \subseteq All
  /\ \A n \in DOMAIN r5 : r5[n] = Depth(R, S, n)
  /\ ~ r6 => DOMAIN r5 = All /\ (r1.maxNodes > 0 => Cardinality(All \ S) <= r1.maxNodes)
  /\ r6 => /\ DOMAIN r5 # All /\ r1.maxNodes > 0 /\ Cardinality(DOMAIN r5 \ S) = r1.maxNodes
           /\ \A n \in DOMAIN r5, m \in All \ DOMAIN r5 : Depth(R, S, n) <= Depth(R, S, m)

Asks == r1.maxDepth > 0 /\ r1.sources # <<>>

BlastWork(R, S) ==
  /\ pc = "start" => r2 = <<>> /\ r3 = 1 /\ r4 = <<>> /\ DOMAIN r5 = {} /\ r6 = FALSE
  /\ pc \in {"head", "scan"} => Asks /\ S \subseteq graph.live /\ BlastSearch(R, S)
  /\ pc = "done" /\ Asks => BlastResult(R, S)
  /\ pc = "done" /\ ~ Asks => ~ r6

BlastInv == Radius!TypeOK /\ BlastWork(Radius!DependsOn, Radius!SourceIDs)

\* What the assumption says of one graph and one request.
LEMMA RequestFacts ==
  ASSUME r1 \in BlastRequests, Radius!QueryAssumption
  PROVE  /\ r1.sources \in Seq(BlastIDs) /\ r1.maxDepth \in Int /\ r1.maxNodes \in Int
         /\ Radius!SourceIDs = Ids(r1.sources) /\ Radius!SourceIDs \subseteq BlastIDs
<1>1. r1.sources \in Seq(BlastIDs) /\ r1.maxDepth \in Int /\ r1.maxNodes \in Int BY DEF Radius!QueryAssumption
<1>2. PICK s \in Seq(BlastIDs) : s = r1.sources BY <1>1
<1>3. DOMAIN s = 1..Len(s) /\ \A i \in 1..Len(s) : s[i] \in BlastIDs OBVIOUS
<1>4. Radius!SourceIDs = {s[i] : i \in DOMAIN s} BY <1>2 DEF Radius!SourceIDs, Radius!Range
<1>5. Radius!SourceIDs = Ids(s) BY <1>3, <1>4 DEF Ids
<1>6. Ids(s) \subseteq BlastIDs BY <1>3 DEF Ids
<1> QED BY <1>1, <1>2, <1>5, <1>6

LEMMA DependsFacts ==
  ASSUME graph \in BlastGraphs, Radius!QueryAssumption
  PROVE  /\ BlastIDs \subseteq Nat /\ IsFiniteSet(BlastIDs) /\ graph.live \subseteq BlastIDs
         /\ Pairs(Radius!DependsOn)
         /\ \A p \in Radius!DependsOn : p[2] \in graph.live
         /\ \A a, b : <<a, b>> \in Radius!DependsOn => b \in graph.live
<1>1. BlastIDs \subseteq Nat /\ IsFiniteSet(BlastIDs) /\ graph.live \subseteq BlastIDs
  BY BlastNames DEF Radius!QueryAssumption
<1>2. Pairs(Radius!DependsOn) BY DEF Radius!DependsOn, Pairs
<1>3. \A p \in Radius!DependsOn : p[2] \in graph.live BY DEF Radius!DependsOn
<1>4. \A a, b : <<a, b>> \in Radius!DependsOn => b \in graph.live BY DEF Radius!DependsOn
<1> QED BY <1>1, <1>2, <1>3, <1>4

\* The ids in order are a list of them.
LEMMA InOrderIds ==
  ASSUME NEW T, T \subseteq Nat, IsFiniteSet(T), NEW N, T \subseteq N
  PROVE  InOrder(T) \in Seq(N) /\ Ids(InOrder(T)) = T
<1>1. /\ InOrder(T) \in [1..Cardinality(T) -> T] /\ Cardinality(T) \in Nat
      /\ \A x \in T : \E i \in 1..Cardinality(T) : InOrder(T)[i] = x
  BY Zenon, InOrderFacts
<1>2. InOrder(T) \in Seq(N) /\ Len(InOrder(T)) = Cardinality(T)
  <2>1. InOrder(T) \in [1..Cardinality(T) -> N] BY Zenon, <1>1
  <2> QED BY <1>1, <2>1
<1> QED BY Zenon, <1>1, <1>2 DEF Ids

LEMMA InboundFacts ==
  ASSUME graph \in BlastGraphs, Radius!QueryAssumption, NEW a
  PROVE  /\ Radius!InboundIDs(a) \in Seq(BlastIDs)
         /\ \A n : <<a, n>> \in Radius!DependsOn <=> n \in Ids(Radius!InboundIDs(a)) /\ n \in graph.live
<1> DEFINE T == {e.from : e \in {x \in graph.edges : x.to = a /\ Radius!IsDependencyEdge(x.type)}}
<1>1. T \subseteq BlastIDs /\ BlastIDs \subseteq Nat /\ IsFiniteSet(BlastIDs)
  <2>1. \A e \in graph.edges : e.from \in graph.live BY DEF Radius!QueryAssumption
  <2> QED BY <2>1, DependsFacts
<1>2. IsFiniteSet(T)
  <2>1. T \in SUBSET BlastIDs BY <1>1
  <2> HIDE DEF T
  <2> QED BY Zenon, <1>1, <2>1, FS_Subset
<1>3. Radius!InboundIDs(a) = InOrder(T) BY BlastNames DEF Radius!InboundIDs
<1>4. InOrder(T) \in Seq(BlastIDs) /\ Ids(InOrder(T)) = T
  <2> HIDE DEF T
  <2>1. T \subseteq Nat BY <1>1
  <2> QED BY Zenon, <1>1, <1>2, <2>1, InOrderIds
<1>6. \A n : <<a, n>> \in Radius!DependsOn <=> n \in T /\ n \in graph.live BY DEF Radius!DependsOn
<1> QED BY <1>3, <1>4, <1>6

\* The queue starts with the sources, each once.
LEMMA SeedsFacts ==
  ASSUME r1 \in BlastRequests, Radius!QueryAssumption
  PROVE  /\ Radius!Seeds \in Seq([node : BlastIDs, distance : Nat])
         /\ \A i \in 1..Len(Radius!Seeds) : Radius!Seeds[i].node \in Radius!SourceIDs /\ Radius!Seeds[i].distance = 0
         /\ \A n \in Radius!SourceIDs : \E i \in 1..Len(Radius!Seeds) : Radius!Seeds[i].node = n
<1>1. PICK s \in Seq(BlastIDs) : s = r1.sources BY RequestFacts
<1>2. DOMAIN s = 1..Len(s) /\ Len(s) \in Nat /\ \A i \in 1..Len(s) : s[i] \in BlastIDs OBVIOUS
<1>3. Radius!SourceIDs = Ids(s) BY <1>1, RequestFacts
<1> DEFINE T == {i \in DOMAIN s : \A j \in 1..(i - 1) : s[j] # s[i]}
           f == InOrder(T)
           k == Cardinality(T)
<1>4. T \subseteq Nat /\ IsFiniteSet(T)
  <2>1. T \in SUBSET (1..Len(s)) BY <1>2
  <2>2. IsFiniteSet(1..Len(s))
    <3>1. 1 \in Int /\ Len(s) \in Int BY <1>2
    <3> QED BY <3>1, FS_Interval
  <2>3. IsFiniteSet(T)
    <3> HIDE DEF T
    <3> QED BY Zenon, <2>1, <2>2, FS_Subset
  <2> QED BY <1>2, <2>3
<1>5. f \in [1..k -> T] /\ k \in Nat /\ \A x \in T : \E i \in 1..k : f[i] = x
  <2> HIDE DEF T
  <2> QED BY Zenon, <1>4, InOrderFacts
<1>6. Radius!FirstUses = f BY <1>1, BlastNames DEF Radius!FirstUses
<1>7. Radius!Seeds = [i \in 1..k |-> [node |-> s[f[i]], distance |-> 0]]
  <2>1. DOMAIN f = 1..k
    <3> HIDE DEF f, T, k
    <3> QED BY <1>5
  <2> HIDE DEF f, T, k
  <2> QED BY <1>1, <1>6, <2>1 DEF Radius!Seeds
<1>8. \A i \in 1..k : f[i] \in 1..Len(s)
  <2>1. T \subseteq 1..Len(s) BY <1>2
  <2> HIDE DEF f, T, k
  <2> QED BY Zenon, <1>5, <2>1
<1>9. ASSUME NEW n \in Ids(s) PROVE \E i \in 1..k : s[f[i]] = n
  <2> DEFINE U == {i \in 1..Len(s) : s[i] = n}
  <2>1. U \subseteq Nat /\ U # {} BY <1>2 DEF Ids
  <2>2. PICK m \in U : \A i \in U : m <= i
    <3> HIDE DEF U
    <3> QED BY Zenon, <2>1, LeastElement
  <2>3. m \in T
    <3>1. m \in 1..Len(s) /\ s[m] = n OBVIOUS
    <3>2. ASSUME NEW j \in 1..(m - 1) PROVE s[j] # s[m]
      <4>1. j \in 1..Len(s) /\ ~ (m <= j) BY <1>2, <3>1
      <4> QED BY <2>2, <3>1, <4>1
    <3> QED BY <1>2, <3>1, <3>2
  <2>4. PICK i \in 1..k : f[i] = m
    <3> HIDE DEF f, T, k
    <3> QED BY <1>5, <2>3
  <2> QED BY Zenon, <2>4
<1> HIDE DEF f, T, k
<1>10. \A i \in 1..k : [node |-> s[f[i]], distance |-> 0] \in [node : BlastIDs, distance : Nat] BY <1>2, <1>8
<1>11. Radius!Seeds \in Seq([node : BlastIDs, distance : Nat]) /\ Len(Radius!Seeds) = k BY <1>5, <1>7, <1>10
<1>12. \A i \in 1..k : s[f[i]] \in Ids(s) BY <1>8 DEF Ids
<1>13. \A i \in 1..k : Radius!Seeds[i].node = s[f[i]] /\ Radius!Seeds[i].distance = 0 BY <1>7
<1>14. \A n \in Radius!SourceIDs : \E i \in 1..Len(Radius!Seeds) : Radius!Seeds[i].node = n
  <2> TAKE n \in Radius!SourceIDs
  <2>1. PICK i \in 1..k : s[f[i]] = n BY <1>3, <1>9
  <2>2. Radius!Seeds[i].node = n /\ i \in 1..Len(Radius!Seeds) BY <1>11, <1>13, <2>1
  <2> QED BY <2>2
<1>15. \A i \in 1..Len(Radius!Seeds) : Radius!Seeds[i].node \in Radius!SourceIDs /\ Radius!Seeds[i].distance = 0
  BY <1>3, <1>11, <1>12, <1>13
<1> QED BY <1>11, <1>14, <1>15

LEMMA NodesFacts ==
  ASSUME NEW T, NEW q, Queue(q, T)
  PROVE  /\ Nodes(q) \in Seq(T) /\ Len(Nodes(q)) = Len(q)
         /\ \A i \in 1..Len(q) : Nodes(q)[i] = q[i].node /\ q[i].node \in T
<1>1. Nodes(q) \in [1..Len(q) -> T] /\ Len(q) \in Nat BY DEF Nodes, Queue
<1>2. Nodes(q) \in Seq(T) /\ Len(Nodes(q)) = Len(q) BY <1>1
<1> QED BY <1>2 DEF Nodes, Queue

LEMMA NodesAppend ==
  ASSUME NEW Q, NEW T, \A x \in Q : x.node \in T, NEW q \in Seq(Q), NEW x \in Q
  PROVE  Nodes(Append(q, x)) = Append(Nodes(q), x.node)
<1> DEFINE m == Append(q, x)
           k == Append(Nodes(q), x.node)
           f == [i \in 1..(Len(q) + 1) |-> IF i = Len(q) + 1 THEN x.node ELSE q[i].node]
<1>1. m \in Seq(Q) /\ Len(m) = Len(q) + 1 /\ Len(q) \in Nat
      /\ m[Len(q) + 1] = x /\ \A i \in 1..Len(q) : m[i] = q[i]
  OBVIOUS
<1>2. Nodes(m) = f
  <2> HIDE DEF m
  <2>1. \A i \in 1..(Len(q) + 1) : i # Len(q) + 1 => i \in 1..Len(q) BY <1>1
  <2>2. \A i \in 1..(Len(q) + 1) : m[i].node = IF i = Len(q) + 1 THEN x.node ELSE q[i].node BY <1>1, <2>1
  <2> QED BY <1>1, <2>2 DEF Nodes
<1>3. Nodes(q) \in Seq(T) /\ Len(Nodes(q)) = Len(q) /\ \A i \in 1..Len(q) : Nodes(q)[i] = q[i].node
  <2>1. Queue(q, T) BY DEF Queue
  <2> QED BY <2>1, NodesFacts
<1>4. x.node \in T OBVIOUS
<1>5. k \in Seq(T) /\ Len(k) = Len(q) + 1 /\ k[Len(q) + 1] = x.node /\ \A i \in 1..Len(q) : k[i] = Nodes(q)[i]
  BY <1>3, <1>4
<1>6. k = f
  <2>1. DOMAIN k = 1..(Len(q) + 1) /\ k = [i \in DOMAIN k |-> k[i]] BY <1>1, <1>5
  <2>2. \A i \in 1..(Len(q) + 1) : i # Len(q) + 1 => i \in 1..Len(q) BY <1>1
  <2>3. \A i \in 1..(Len(q) + 1) : k[i] = IF i = Len(q) + 1 THEN x.node ELSE q[i].node
    BY <1>1, <1>3, <1>5, <2>2
  <2> HIDE DEF k
  <2> QED BY <2>1, <2>3
<1> QED BY <1>2, <1>6

\* Taking the first of a list away leaves the others.
LEMMA TailIds ==
  ASSUME NEW N, NEW s \in Seq(N), s # <<>>
  PROVE  /\ Tail(s) \in Seq(N) /\ Head(s) \in Ids(s) /\ Head(s) \in N
         /\ Ids(s) \ {Head(s)} \subseteq Ids(Tail(s)) /\ Ids(Tail(s)) \subseteq Ids(s)
<1>1. Len(s) \in Nat /\ Len(s) > 0 /\ Head(s) = s[1] /\ s[1] \in N OBVIOUS
<1>2. Tail(s) \in Seq(N) /\ Len(Tail(s)) = Len(s) - 1 /\ \A i \in 1..(Len(s) - 1) : Tail(s)[i] = s[i + 1]
  OBVIOUS
<1>3. ASSUME NEW i \in 1..Len(s), i # 1 PROVE s[i] \in Ids(Tail(s))
  <2>1. i - 1 \in 1..(Len(s) - 1) /\ (i - 1) + 1 = i BY <1>1, <1>3
  <2>2. Tail(s)[i - 1] = s[i] BY <1>2, <2>1
  <2> QED BY <1>2, <2>1, <2>2 DEF Ids
<1>4. ASSUME NEW i \in 1..Len(Tail(s)) PROVE Tail(s)[i] \in Ids(s)
  <2>1. i + 1 \in 1..Len(s) /\ Tail(s)[i] = s[i + 1] BY <1>1, <1>2
  <2> QED BY <2>1 DEF Ids
<1>5. 1 \in 1..Len(s) BY <1>1
<1> QED BY <1>1, <1>2, <1>3, <1>4, <1>5 DEF Ids

\* Only what leads on from the node at head counts.
LEMMA SearchSees ==
  ASSUME NEW R, NEW S, NEW lim, NEW q, NEW head, NEW left, NEW next, Search(R, S, lim, q, head, left),
         \A n : head <= Len(q) /\ <<q[head], n>> \in R /\ n \in left => n \in next
  PROVE  Search(R, S, lim, q, head, next)
BY DEF Search

LEMMA BlastInit == asked = "blast" /\ Init /\ Radius!QueryAssumption => BlastInv
<1> SUFFICES ASSUME asked = "blast", Radius!Init, Radius!QueryAssumption PROVE BlastInv BY DEF Init
<1>1. graph \in BlastGraphs /\ r1 \in BlastRequests /\ pc = "start" /\ r2 = <<>> /\ r3 = 1 /\ r4 = <<>>
      /\ DOMAIN r5 = {} /\ r6 = FALSE
  BY DEF Radius!Init
<1>2. Radius!TypeOK
  <2>1. r2 \in Seq([node : BlastIDs, distance : Nat]) /\ r3 \in 1..(Len(r2) + 1) /\ r4 \in Seq(BlastIDs) BY <1>1
  <2> QED BY Zenon, <1>1, <2>1 DEF Radius!TypeOK
<1>3. BlastWork(Radius!DependsOn, Radius!SourceIDs) BY <1>1 DEF BlastWork
<1> QED BY <1>2, <1>3 DEF BlastInv

LEMMA BlastReject ==
  ASSUME BlastInv, Radius!QueryAssumption, Radius!Reject PROVE BlastInv'
<1>1. PICK R, S : R = Radius!DependsOn /\ S = Radius!SourceIDs OBVIOUS
<1>2. /\ pc = "start" /\ graph' = graph /\ r1' = r1 /\ r2' = r2 /\ r3' = r3 /\ r4' = r4 /\ r5' = r5 /\ r6' = r6
      /\ pc' = IF r1.maxDepth <= 0 \/ r1.sources = <<>> THEN "done" ELSE "failed"
  BY DEF Radius!Reject
<1>3. Radius!TypeOK /\ r6 = FALSE BY <1>2 DEF BlastInv, BlastWork
<1>4. (Radius!TypeOK)' BY <1>2, <1>3 DEF Radius!TypeOK
<1>5. r1.maxDepth \in Int BY <1>3, RequestFacts DEF Radius!TypeOK
<1>6. pc' = "failed" \/ (pc' = "done" /\ ~ Asks) BY <1>2, <1>5 DEF Asks
<1>7. Asks' = Asks BY <1>2 DEF Asks
<1>8. BlastWork(R, S)' BY <1>2, <1>3, <1>6, <1>7 DEF BlastWork
<1>9. (Radius!DependsOn)' = R /\ (Radius!SourceIDs)' = S BY <1>1, <1>2 DEF Radius!DependsOn, Radius!SourceIDs
<1> QED BY <1>4, <1>8, <1>9 DEF BlastInv

LEMMA BlastStart ==
  ASSUME BlastInv, Radius!QueryAssumption, Radius!Start PROVE BlastInv'
<1>1. PICK R, S : R = Radius!DependsOn /\ S = Radius!SourceIDs OBVIOUS
<1>2. PICK lim : lim = r1.maxDepth OBVIOUS
<1>3. /\ pc = "start" /\ pc' = "head" /\ lim > 0 /\ r1.sources # <<>> /\ S \subseteq graph.live
      /\ graph' = graph /\ r1' = r1 /\ r2' = Radius!Seeds /\ r3' = r3 /\ r4' = r4
      /\ r5' = [id \in S |-> 0] /\ r6' = r6
  BY <1>1, <1>2 DEF Radius!Start
<1>4. Radius!TypeOK /\ r3 = 1 /\ r6 = FALSE /\ graph \in BlastGraphs /\ r1 \in BlastRequests
  BY <1>3 DEF BlastInv, BlastWork, Radius!TypeOK
<1>5. r1.maxDepth \in Int /\ r1.maxNodes \in Int /\ S \subseteq BlastIDs BY <1>1, <1>4, RequestFacts
<1>6. lim \in Nat BY <1>2, <1>3, <1>5
<1>7. /\ r2' \in Seq([node : BlastIDs, distance : Nat])
      /\ \A i \in 1..Len(r2') : r2'[i].node \in S /\ r2'[i].distance = 0
      /\ \A n \in S : \E i \in 1..Len(r2') : r2'[i].node = n
  BY <1>1, <1>3, <1>4, SeedsFacts
<1>8. PICK q : q = r2' OBVIOUS
<1>9. /\ Nodes(q) \in Seq(BlastIDs) /\ Len(Nodes(q)) = Len(q)
      /\ \A i \in 1..Len(q) : Nodes(q)[i] = q[i].node
  <2>1. Queue(q, BlastIDs) BY <1>5, <1>7, <1>8 DEF Queue
  <2> QED BY <2>1, NodesFacts
<1>10. Nodes(q) \in Seq(S)
  <2>1. \A i \in 1..Len(Nodes(q)) : Nodes(q)[i] \in S BY <1>7, <1>8, <1>9
  <2> QED BY <1>9, <2>1
<1>11. \A n : n \in S <=> Met(Nodes(q), n) BY <1>7, <1>8, <1>9 DEF Met
<1>12. Search(R, S, lim, Nodes(q), 1, BlastIDs)
  <2>1. \A n : <<Nodes(q)[1], n>> \in R => n \in BlastIDs BY <1>1, <1>4, DependsFacts
  <2> QED BY <1>6, <1>10, <1>11, <2>1, SearchStarts
<1>13. DOMAIN r5' = S /\ \A n \in S : r5'[n] = 0 BY <1>3
<1>14. BlastSeen(R, S)'
  <2>1. \A n \in S : n \in Reachable(R, S) /\ Depth(R, S, n) = 0 BY DepthOfStart
  <2>2. \A i \in 1..Len(r2') : r2'[i].distance = Depth(R, S, r2'[i].node) BY <1>7, <2>1
  <2>3. r1.maxNodes > 0 => Cardinality(DOMAIN r5' \ S) <= r1.maxNodes
    <3>1. DOMAIN r5' \ S = {} BY <1>13
    <3> QED BY <1>5, <3>1, FS_EmptySet
  <2>4. \A n : n \in DOMAIN r5' <=> Met(Nodes(r2'), n) BY <1>8, <1>11, <1>13
  <2> QED BY <1>3, <1>13, <2>1, <2>2, <2>3, <2>4 DEF BlastSeen
<1>15. BlastSearch(R, S)' BY <1>2, <1>3, <1>4, <1>8, <1>12, <1>14 DEF BlastSearch
<1>16. BlastWork(R, S)' BY <1>2, <1>3, <1>15 DEF BlastWork, Asks
<1>17. (Radius!TypeOK)'
  <2>1. DOMAIN r5' \subseteq BlastIDs /\ \A n \in DOMAIN r5' : r5'[n] \in Nat BY <1>5, <1>13
  <2>2. 1 \in 1..(Len(r2') + 1) BY <1>7
  <2> QED BY <1>3, <1>4, <1>7, <2>1, <2>2 DEF Radius!TypeOK
<1>18. (Radius!DependsOn)' = R /\ (Radius!SourceIDs)' = S BY <1>1, <1>3 DEF Radius!DependsOn, Radius!SourceIDs
<1> QED BY <1>16, <1>17, <1>18 DEF BlastInv

LEMMA QueueTyped ==
  ASSUME NEW T, NEW q \in Seq([node : T, distance : Nat])
  PROVE  Queue(q, T) /\ \A i \in 1..Len(q) : q[i].distance \in Nat
<1> DEFINE Q == [node : T, distance : Nat]
<1>1. q \in Seq(Q) /\ \A x \in Q : x.node \in T /\ x.distance \in Nat OBVIOUS
<1> HIDE DEF Q
<1> QED BY <1>1 DEF Queue

\* What the invariant says while the search is on.
LEMMA BlastOngoing ==
  ASSUME BlastInv, Radius!QueryAssumption, pc \in {"head", "scan"},
         NEW R, NEW S, R = Radius!DependsOn, S = Radius!SourceIDs
  PROVE  /\ Radius!TypeOK /\ Asks /\ S \subseteq graph.live /\ BlastSearch(R, S) /\ graph \in BlastGraphs
         /\ r1.maxDepth \in Nat /\ r1.maxNodes \in Int /\ Pairs(R) /\ IsFiniteSet(BlastIDs)
         /\ S \subseteq BlastIDs /\ \A p \in R : p[2] \in BlastIDs
         /\ r2 \in Seq([node : BlastIDs, distance : Nat]) /\ Len(r2) \in Nat
         /\ Nodes(r2) \in Seq(BlastIDs) /\ Len(Nodes(r2)) = Len(r2)
         /\ \A i \in 1..Len(r2) : Nodes(r2)[i] = r2[i].node /\ r2[i].distance \in Nat
<1>1. Radius!TypeOK /\ Asks /\ S \subseteq graph.live /\ BlastSearch(R, S) BY DEF BlastInv, BlastWork
<1>2. graph \in BlastGraphs /\ r1 \in BlastRequests /\ r2 \in Seq([node : BlastIDs, distance : Nat])
  BY <1>1 DEF Radius!TypeOK
<1>3. r1.maxDepth \in Int /\ r1.maxNodes \in Int /\ S \subseteq BlastIDs BY <1>2, RequestFacts
<1>4. r1.maxDepth \in Nat BY <1>1, <1>3 DEF Asks
<1>5. Pairs(R) /\ IsFiniteSet(BlastIDs) /\ \A p \in R : p[2] \in BlastIDs BY <1>2, DependsFacts
<1>6. Queue(r2, BlastIDs) /\ \A i \in 1..Len(r2) : r2[i].distance \in Nat BY Zenon, <1>2, QueueTyped
<1>7. Len(r2) \in Nat BY <1>6 DEF Queue
<1>8. Nodes(r2) \in Seq(BlastIDs) /\ Len(Nodes(r2)) = Len(r2) /\ \A i \in 1..Len(r2) : Nodes(r2)[i] = r2[i].node
  BY <1>6, NodesFacts
<1> QED BY Zenon, <1>1, <1>2, <1>3, <1>4, <1>5, <1>6, <1>7, <1>8

\* A node within the limit is turned to; one at the limit is passed.
LEMMA BlastAdvance ==
  ASSUME BlastInv, Radius!QueryAssumption, Radius!Advance PROVE BlastInv'
<1>1. PICK R, S : R = Radius!DependsOn /\ S = Radius!SourceIDs OBVIOUS
<1>2. /\ pc = "head" /\ r3 <= Len(r2) /\ graph' = graph /\ r1' = r1 /\ r2' = r2 /\ r5' = r5 /\ r6' = r6
      /\ IF r2[r3].distance < r1.maxDepth
         THEN r4' = Radius!InboundIDs(r2[r3].node) /\ pc' = "scan" /\ r3' = r3
         ELSE r3' = r3 + 1 /\ r4' = r4 /\ pc' = pc
  BY DEF Radius!Advance, Radius!Expands
<1>3. /\ Radius!TypeOK /\ Asks /\ S \subseteq graph.live /\ BlastSearch(R, S) /\ graph \in BlastGraphs
      /\ r1.maxDepth \in Nat /\ Pairs(R) /\ \A p \in R : p[2] \in BlastIDs
      /\ Len(r2) \in Nat /\ Len(Nodes(r2)) = Len(r2) /\ \A i \in 1..Len(r2) : Nodes(r2)[i] = r2[i].node
  BY <1>1, <1>2, BlastOngoing
<1>4. Search(R, S, r1.maxDepth, Nodes(r2), r3, BlastIDs) /\ BlastSeen(R, S) /\ ~ r6 BY <1>2, <1>3 DEF BlastSearch
<1>5. (Radius!DependsOn)' = R /\ (Radius!SourceIDs)' = S BY <1>1, <1>2 DEF Radius!DependsOn, Radius!SourceIDs
<1>6. r3 \in 1..Len(r2) /\ r2[r3].distance = Depth(R, S, r2[r3].node) /\ Nodes(r2)[r3] = r2[r3].node
  BY <1>2, <1>3, <1>4 DEF Search, BlastSeen
<1>7. BlastSeen(R, S)' /\ Asks' BY <1>2, <1>3, <1>4 DEF BlastSeen, Asks
<1>8. CASE r2[r3].distance < r1.maxDepth
  <2>1. r4' = Radius!InboundIDs(r2[r3].node) /\ pc' = "scan" /\ r3' = r3 BY <1>2, <1>8
  <2>2. r4' \in Seq(BlastIDs) /\ \A n : <<r2[r3].node, n>> \in R <=> n \in Ids(r4') /\ n \in graph.live
    BY <1>1, <1>3, <2>1, InboundFacts
  <2>3. Search(R, S, r1.maxDepth, Nodes(r2), r3, Ids(r4')) BY <1>4, <1>6, <2>2, SearchSees
  <2>4. BlastSearch(R, S)' BY <1>2, <1>4, <1>6, <1>7, <1>8, <2>1, <2>2, <2>3 DEF BlastSearch
  <2>5. (Radius!TypeOK)' BY <1>2, <1>3, <2>1, <2>2 DEF Radius!TypeOK
  <2>6. BlastWork(R, S)' BY <1>2, <1>3, <1>7, <2>1, <2>4 DEF BlastWork
  <2> QED BY <1>5, <2>5, <2>6 DEF BlastInv
<1>9. CASE ~ (r2[r3].distance < r1.maxDepth)
  <2>1. r3' = r3 + 1 /\ r4' = r4 /\ pc' = "head" BY <1>2, <1>9
  <2>2. \A n : <<Nodes(r2)[r3 + 1], n>> \in R => n \in BlastIDs BY <1>3, PairFacts
  <2>3. Search(R, S, r1.maxDepth, Nodes(r2), r3 + 1, BlastIDs)
    <3>1. r3 <= Len(Nodes(r2)) /\ ~ (Depth(R, S, Nodes(r2)[r3]) < r1.maxDepth) BY <1>2, <1>3, <1>6, <1>9
    <3> QED BY <1>3, <1>4, <2>2, <3>1, SearchMoves
  <2>4. BlastSearch(R, S)' BY <1>2, <1>4, <1>7, <2>1, <2>3 DEF BlastSearch
  <2>5. r3' \in 1..(Len(r2) + 1) BY <1>3, <1>6, <2>1
  <2>6. (Radius!TypeOK)' BY <1>2, <1>3, <2>1, <2>5 DEF Radius!TypeOK
  <2>7. BlastWork(R, S)' BY <1>2, <1>3, <1>7, <2>1, <2>4 DEF BlastWork
  <2> QED BY <1>5, <2>6, <2>7 DEF BlastInv
<1> QED BY <1>8, <1>9

\* Every dependent of the node at head was looked at.
LEMMA BlastScanned ==
  ASSUME BlastInv, Radius!QueryAssumption, Radius!Scanned PROVE BlastInv'
<1>1. PICK R, S : R = Radius!DependsOn /\ S = Radius!SourceIDs OBVIOUS
<1>2. /\ pc = "scan" /\ pc' = "head" /\ r4 = <<>> /\ r3' = r3 + 1 /\ graph' = graph /\ r1' = r1 /\ r2' = r2
      /\ r4' = r4 /\ r5' = r5 /\ r6' = r6
  BY DEF Radius!Scanned
<1>3. /\ Radius!TypeOK /\ Asks /\ S \subseteq graph.live /\ BlastSearch(R, S) /\ graph \in BlastGraphs
      /\ r1.maxDepth \in Nat /\ Pairs(R) /\ \A p \in R : p[2] \in BlastIDs
      /\ Len(r2) \in Nat /\ Len(Nodes(r2)) = Len(r2)
  BY <1>1, <1>2, BlastOngoing
<1>4. Search(R, S, r1.maxDepth, Nodes(r2), r3, {}) /\ BlastSeen(R, S) /\ ~ r6 /\ r3 <= Len(r2)
  <2>1. Ids(r4) = {} BY <1>2 DEF Ids
  <2> QED BY Zenon, <1>2, <1>3, <2>1 DEF BlastSearch
<1>5. (Radius!DependsOn)' = R /\ (Radius!SourceIDs)' = S BY <1>1, <1>2 DEF Radius!DependsOn, Radius!SourceIDs
<1>6. BlastSeen(R, S)' /\ Asks' BY <1>2, <1>3, <1>4 DEF BlastSeen, Asks
<1>7. \A n : <<Nodes(r2)[r3 + 1], n>> \in R => n \in BlastIDs BY <1>3, PairFacts
<1>8. Search(R, S, r1.maxDepth, Nodes(r2), r3 + 1, BlastIDs) BY <1>3, <1>4, <1>7, SearchMoves
<1>9. BlastSearch(R, S)' BY <1>2, <1>4, <1>6, <1>8 DEF BlastSearch
<1>10. r3' \in 1..(Len(r2) + 1) BY <1>2, <1>3, <1>4, <1>8 DEF Search
<1>11. (Radius!TypeOK)' BY <1>2, <1>3, <1>10 DEF Radius!TypeOK
<1>12. BlastWork(R, S)' BY <1>2, <1>3, <1>6, <1>9 DEF BlastWork
<1> QED BY <1>5, <1>11, <1>12 DEF BlastInv

\* The queue is at its end: everything within the depth was met.
LEMMA BlastFinish ==
  ASSUME BlastInv, Radius!QueryAssumption, Radius!Finish PROVE BlastInv'
<1>1. PICK R, S : R = Radius!DependsOn /\ S = Radius!SourceIDs OBVIOUS
<1>2. /\ pc = "head" /\ pc' = "done" /\ r3 > Len(r2) /\ graph' = graph /\ r1' = r1 /\ r2' = r2 /\ r3' = r3
      /\ r4' = r4 /\ r5' = r5 /\ r6' = r6
  BY DEF Radius!Finish
<1>3. /\ Radius!TypeOK /\ Asks /\ BlastSearch(R, S) /\ r1.maxDepth \in Nat /\ Pairs(R)
      /\ Len(Nodes(r2)) = Len(r2)
  BY <1>1, <1>2, BlastOngoing
<1>4. Search(R, S, r1.maxDepth, Nodes(r2), r3, BlastIDs) /\ BlastSeen(R, S) /\ ~ r6 BY <1>2, <1>3 DEF BlastSearch
<1>5. (Radius!DependsOn)' = R /\ (Radius!SourceIDs)' = S BY <1>1, <1>2 DEF Radius!DependsOn, Radius!SourceIDs
<1>6. \A n : n \in Within(R, S)[r1.maxDepth] <=> Met(Nodes(r2), n) BY <1>2, <1>3, <1>4, SearchEnds
<1>7. DOMAIN r5 = Within(R, S)[r1.maxDepth] BY Zenon, <1>4, <1>6 DEF BlastSeen
<1>8. S \subseteq DOMAIN r5 BY <1>4 DEF Search, BlastSeen
<1>9. BlastResult(R, S)' BY <1>2, <1>4, <1>7, <1>8 DEF BlastSeen, BlastResult
<1>10. BlastWork(R, S)' BY <1>2, <1>3, <1>9 DEF BlastWork, Asks
<1>11. (Radius!TypeOK)' BY <1>2, <1>3 DEF Radius!TypeOK
<1> QED BY <1>5, <1>10, <1>11 DEF BlastInv

\* A dependent is passed over, added, or one too many.
LEMMA BlastVisit ==
  ASSUME BlastInv, Radius!QueryAssumption, Radius!Visit PROVE BlastInv'
<1>1. PICK R, S : R = Radius!DependsOn /\ S = Radius!SourceIDs OBVIOUS
<1>2. PICK id, m, lim : id = Head(r4) /\ m = r2[r3].node /\ lim = r1.maxDepth OBVIOUS
<1> DEFINE D(n) == Depth(R, S, n)
           nd == [node |-> id, distance |-> r2[r3].distance + 1]
<1>3. /\ pc = "scan" /\ r4 # <<>> /\ r4' = Tail(r4) /\ graph' = graph /\ r1' = r1 /\ r3' = r3
      /\ IF Radius!Skipped(id, r2[r3].distance + 1)
         THEN pc' = pc /\ r2' = r2 /\ r5' = r5 /\ r6' = r6
         ELSE IF Radius!Full
         THEN pc' = "done" /\ r6' = TRUE /\ r2' = r2 /\ r5' = r5
         ELSE /\ r5' = [n \in DOMAIN r5 \cup {id} |-> IF n = id THEN r2[r3].distance + 1 ELSE r5[n]]
              /\ r2' = Append(r2, nd) /\ pc' = pc /\ r6' = r6
  BY <1>2 DEF Radius!Visit, Radius!Enqueue
<1>4. /\ Radius!TypeOK /\ Asks /\ S \subseteq graph.live /\ BlastSearch(R, S) /\ graph \in BlastGraphs
      /\ lim \in Nat /\ r1.maxNodes \in Int /\ Pairs(R) /\ IsFiniteSet(BlastIDs) /\ \A p \in R : p[2] \in BlastIDs
      /\ Len(r2) \in Nat /\ Nodes(r2) \in Seq(BlastIDs) /\ Len(Nodes(r2)) = Len(r2)
      /\ r2 \in Seq([node : BlastIDs, distance : Nat])
      /\ \A i \in 1..Len(r2) : Nodes(r2)[i] = r2[i].node /\ r2[i].distance \in Nat
  BY Zenon, <1>1, <1>2, <1>3, BlastOngoing
<1>5. (Radius!DependsOn)' = R /\ (Radius!SourceIDs)' = S BY <1>1, <1>3 DEF Radius!DependsOn, Radius!SourceIDs
<1>6. /\ Search(R, S, lim, Nodes(r2), r3, Ids(r4)) /\ BlastSeen(R, S) /\ ~ r6 /\ r3 <= Len(r2) /\ D(m) < lim
      /\ \A n \in Ids(r4) : n \in graph.live => <<m, n>> \in R
  BY <1>2, <1>3, <1>4 DEF BlastSearch
<1>7. /\ r3 \in 1..Len(r2) /\ r2[r3].distance = D(m) /\ Nodes(r2)[r3] = m /\ m \in Reachable(R, S) /\ D(m) \in Nat
  <2>1. r3 \in 1..Len(r2) /\ Nodes(r2)[r3] = m BY <1>2, <1>4, <1>6 DEF Search
  <2>2. m \in Reachable(R, S) BY <1>4, <1>6, <2>1 DEF Search
  <2> QED BY <1>2, <1>6, <2>1, <2>2, DepthFacts DEF BlastSeen
<1>8. /\ r4' \in Seq(BlastIDs) /\ id \in Ids(r4) /\ id \in BlastIDs /\ Ids(r4) \ {id} \subseteq Ids(r4')
      /\ Ids(r4') \subseteq Ids(r4)
  <2>1. r4 \in Seq(BlastIDs) BY <1>4 DEF Radius!TypeOK
  <2> QED BY <1>2, <1>3, <2>1, TailIds
<1>9. \A n \in Ids(r4') : n \in graph.live => <<m, n>> \in R BY <1>6, <1>8
<1>10. /\ \A n : n \in DOMAIN r5 <=> Met(Nodes(r2), n)
       /\ \A n \in DOMAIN r5 : n \in Reachable(R, S) /\ r5[n] = D(n) /\ D(n) \in Nat
       /\ S \subseteq DOMAIN r5
  BY <1>6, DepthFacts DEF BlastSeen, Search
<1>11. CASE Radius!Skipped(id, r2[r3].distance + 1)
  <2>1. pc' = pc /\ r2' = r2 /\ r5' = r5 /\ r6' = r6 BY <1>3, <1>11
  <2>2. Met(Nodes(r2), id) \/ <<Nodes(r2)[r3], id>> \notin R
    <3>1. CASE id \in DOMAIN r5 BY <1>10, <3>1
    <3>2. CASE id \notin graph.live BY <1>1, <1>4, <3>2, DependsFacts
    <3> QED BY <1>1, <1>10, <1>11, <3>1, <3>2 DEF Radius!Skipped
  <2>3. Search(R, S, lim, Nodes(r2), r3, Ids(r4) \ {id}) BY Zenon, <1>4, <1>6, <2>2, SearchSkips
  <2>4. Search(R, S, lim, Nodes(r2), r3, Ids(r4')) BY <1>8, <2>3, SearchSees
  <2>5. BlastSeen(R, S)' BY <1>3, <1>6, <2>1 DEF BlastSeen
  <2>6. BlastSearch(R, S)' BY <1>2, <1>3, <1>6, <1>9, <2>1, <2>4, <2>5 DEF BlastSearch
  <2>7. BlastWork(R, S)' BY <1>3, <1>4, <2>1, <2>6 DEF BlastWork, Asks
  <2>8. (Radius!TypeOK)' BY <1>3, <1>4, <1>8, <2>1 DEF Radius!TypeOK
  <2> QED BY <1>5, <2>7, <2>8 DEF BlastInv
<1>12. CASE ~ Radius!Skipped(id, r2[r3].distance + 1)
  <2>1. id \notin S /\ id \in graph.live /\ ~ (id \in DOMAIN r5 /\ r5[id] <= D(m) + 1)
    BY <1>1, <1>7, <1>12 DEF Radius!Skipped
  <2>2. <<m, id>> \in R BY <1>6, <1>8, <2>1
  <2>3. id \notin DOMAIN r5
    <3>1. D(id) <= D(m) + 1 BY <1>7, <2>2, DepthOfNext
    <3> QED BY <1>10, <2>1, <3>1
  <2>4. /\ id \in Reachable(R, S) /\ D(id) = D(m) + 1
        /\ Search(R, S, lim, Append(Nodes(r2), id), r3, Ids(r4) \ {id})
    <3>1. PICK q : q = Nodes(r2) OBVIOUS
    <3>2. /\ Search(R, S, lim, q, r3, Ids(r4)) /\ r3 <= Len(q) /\ Depth(R, S, q[r3]) < lim
          /\ <<q[r3], id>> \in R /\ ~ Met(q, id) /\ q[r3] = m
      BY Zenon, <1>4, <1>6, <1>7, <1>10, <2>2, <2>3, <3>1
    <3>3. /\ id \in Reachable(R, S) /\ D(id) = Depth(R, S, q[r3]) + 1
          /\ Search(R, S, lim, Append(q, id), r3, Ids(r4) \ {id})
      BY Zenon, <1>4, <3>2, SearchAdds
    <3> QED BY <3>1, <3>2, <3>3
  <2>5. IsFiniteSet(DOMAIN r5 \ S) /\ Cardinality(DOMAIN r5 \ S) \in Nat
    <3>1. DOMAIN r5 \ S \in SUBSET BlastIDs BY <1>4 DEF Radius!TypeOK
    <3> QED BY <1>4, <3>1, FS_Subset, FS_CardinalityType
  <2>6. CASE Radius!Full
    <3>1. pc' = "done" /\ r6' = TRUE /\ r2' = r2 /\ r5' = r5 BY <1>3, <1>12, <2>6
    <3>2. r1.maxNodes > 0 /\ Cardinality(DOMAIN r5 \ S) = r1.maxNodes
      <4>1. r1.maxNodes > 0 /\ Cardinality(DOMAIN r5 \ S) >= r1.maxNodes
        BY <1>1, <2>6, BlastNames DEF Radius!Full, Radius!ResultIDs
      <4>2. Cardinality(DOMAIN r5 \ S) <= r1.maxNodes BY <1>6, <4>1 DEF BlastSeen
      <4> QED BY <1>4, <2>5, <4>1, <4>2
    <3>3. \A n \in DOMAIN r5 : D(n) <= lim /\ D(n) <= D(m) + 1
      <4> TAKE n \in DOMAIN r5
      <4>1. PICK i \in 1..Len(Nodes(r2)) : Nodes(r2)[i] = n BY <1>10 DEF Met
      <4> QED BY <1>4, <1>6, <1>7, <4>1 DEF Search
    <3>4. DOMAIN r5 \subseteq Within(R, S)[lim] BY <1>4, <1>10, <3>3, DepthFacts
    <3>5. id \in Within(R, S)[lim] /\ id \notin DOMAIN r5
      <4>1. D(id) <= lim BY <1>4, <1>6, <1>7, <2>4
      <4> QED BY <1>4, <2>3, <2>4, <4>1, DepthFacts
    <3>6. ASSUME NEW n \in DOMAIN r5, NEW k \in Within(R, S)[lim] \ DOMAIN r5 PROVE D(n) <= D(k)
      <4>1. k \in Reachable(R, S) BY <1>4 DEF Reachable
      <4>2. ~ Met(Nodes(r2), k) BY <1>10
      <4>3. ~ (D(k) <= D(m)) BY <1>4, <1>6, <1>7, <4>1, <4>2 DEF Search
      <4>4. D(k) \in Nat BY <4>1, DepthFacts
      <4>5. D(n) \in Nat /\ D(n) <= D(m) + 1 BY <1>10, <3>3
      <4> HIDE DEF D
      <4> QED BY <1>7, <4>3, <4>4, <4>5
    <3>7. BlastResult(R, S)' BY <1>2, <1>3, <1>10, <3>1, <3>2, <3>4, <3>5, <3>6 DEF BlastResult
    <3>8. BlastWork(R, S)' BY <1>3, <1>4, <3>1, <3>7 DEF BlastWork, Asks
    <3>9. (Radius!TypeOK)' BY <1>3, <1>4, <1>8, <3>1 DEF Radius!TypeOK
    <3> QED BY <1>5, <3>8, <3>9 DEF BlastInv
  <2>7. CASE ~ Radius!Full
    <3>1. /\ pc' = "scan" /\ r6' = r6 /\ r2' = Append(r2, nd) /\ DOMAIN r5' = DOMAIN r5 \cup {id} /\ r5'[id] = D(m) + 1
          /\ \A n \in DOMAIN r5 : r5'[n] = r5[n]
      BY <1>3, <1>7, <1>12, <2>3, <2>7
    <3>2. Nodes(r2') = Append(Nodes(r2), id) /\ r2' \in Seq([node : BlastIDs, distance : Nat])
          /\ Len(r2') = Len(r2) + 1 /\ r2'[Len(r2) + 1] = nd /\ \A i \in 1..Len(r2) : r2'[i] = r2[i]
      <4> DEFINE Q == [node : BlastIDs, distance : Nat]
      <4>1. nd \in Q /\ nd.node = id BY <1>4, <1>7, <1>8
      <4>2. r2 \in Seq(Q) /\ \A x \in Q : x.node \in BlastIDs BY <1>4
      <4> HIDE DEF Q, nd
      <4>3. Nodes(r2') = Append(Nodes(r2), id) BY Zenon, <3>1, <4>1, <4>2, NodesAppend
      <4>4. r2' \in Seq(Q) /\ Len(r2') = Len(r2) + 1 /\ r2'[Len(r2) + 1] = nd /\ \A i \in 1..Len(r2) : r2'[i] = r2[i]
        BY <3>1, <4>1, <4>2
      <4> QED BY <4>3, <4>4 DEF Q
    <3>3. \A n : Met(Nodes(r2'), n) <=> Met(Nodes(r2), n) \/ n = id BY <1>4, <3>2, AppendMet
    <3>4. r1.maxNodes > 0 => Cardinality(DOMAIN r5' \ S) <= r1.maxNodes
      <4> SUFFICES ASSUME r1.maxNodes > 0 PROVE Cardinality(DOMAIN r5' \ S) <= r1.maxNodes OBVIOUS
      <4>1. ~ (Cardinality(DOMAIN r5 \ S) >= r1.maxNodes)
        BY <1>1, <2>7, BlastNames DEF Radius!Full, Radius!ResultIDs
      <4>2. DOMAIN r5' \ S = (DOMAIN r5 \ S) \cup {id} /\ id \notin DOMAIN r5 \ S BY <2>1, <2>3, <3>1
      <4>3. Cardinality(DOMAIN r5' \ S) = Cardinality(DOMAIN r5 \ S) + 1 BY <2>5, <4>2, FS_AddElement
      <4> QED BY <1>4, <2>5, <4>1, <4>3
    <3>5. \A i \in 1..Len(r2') : r2'[i].distance = D(r2'[i].node)
      <4> TAKE i \in 1..Len(r2')
      <4>1. CASE i \in 1..Len(r2) BY Zenon, <1>6, <3>2, <4>1 DEF BlastSeen
      <4>2. CASE i = Len(r2) + 1
        <5>1. r2'[i] = nd BY <3>2, <4>2
        <5>2. r2'[i].distance = D(m) + 1 /\ r2'[i].node = id BY <1>7, <5>1
        <5> QED BY <2>4, <5>2
      <4> QED BY <1>4, <3>2, <4>1, <4>2
    <3>6. \A n \in DOMAIN r5' : n \in Reachable(R, S) /\ r5'[n] = D(n) BY <1>10, <2>4, <3>1
    <3>7. \A n : n \in DOMAIN r5' <=> Met(Nodes(r2'), n) BY <1>10, <3>1, <3>3
    <3>8. BlastSeen(R, S)' BY <1>3, <3>4, <3>5, <3>6, <3>7 DEF BlastSeen
    <3>9. Search(R, S, lim, Nodes(r2'), r3, Ids(r4')) BY <1>8, <2>4, <3>2, SearchSees
    <3>10. r3 <= Len(r2') /\ r2'[r3] = r2[r3] BY <1>4, <1>7, <3>2
    <3>11. BlastSearch(R, S)' BY Zenon, <1>2, <1>3, <1>6, <1>9, <3>1, <3>8, <3>9, <3>10 DEF BlastSearch
    <3>12. BlastWork(R, S)' BY <1>3, <1>4, <3>1, <3>11 DEF BlastWork, Asks
    <3>13. (Radius!TypeOK)'
      <4>1. DOMAIN r5' \subseteq BlastIDs /\ \A n \in DOMAIN r5' : r5'[n] \in Nat
        BY <1>4, <1>7, <1>8, <3>1 DEF Radius!TypeOK
      <4>2. r3 \in 1..(Len(r2') + 1) BY <1>4, <1>7, <3>2
      <4> QED BY <1>3, <1>4, <1>8, <3>1, <3>2, <4>1, <4>2 DEF Radius!TypeOK
    <3> QED BY <1>5, <3>12, <3>13 DEF BlastInv
  <2> QED BY <2>6, <2>7
<1> QED BY <1>11, <1>12

LEMMA BlastNext ==
  ASSUME BlastInv, Radius!QueryAssumption, [Radius!Next]_(Radius!vars) PROVE BlastInv'
<1>1. CASE Radius!Next
  BY <1>1, BlastReject, BlastStart, BlastAdvance, BlastFinish, BlastVisit, BlastScanned DEF Radius!Next
<1>2. CASE UNCHANGED Radius!vars
  <2>1. PICK R, S : R = Radius!DependsOn /\ S = Radius!SourceIDs OBVIOUS
  <2>2. /\ graph' = graph /\ r1' = r1 /\ pc' = pc /\ r2' = r2 /\ r3' = r3 /\ r4' = r4 /\ r5' = r5 /\ r6' = r6
    BY <1>2 DEF Radius!vars
  <2>3. (Radius!DependsOn)' = R /\ (Radius!SourceIDs)' = S BY <2>1, <2>2 DEF Radius!DependsOn, Radius!SourceIDs
  <2>4. Asks' = Asks /\ BlastSearch(R, S)' = BlastSearch(R, S) /\ BlastResult(R, S)' = BlastResult(R, S)
    BY <2>2 DEF Asks, BlastSearch, BlastSeen, BlastResult
  <2>5. BlastWork(R, S)' BY <2>1, <2>2, <2>4 DEF BlastInv, BlastWork
  <2>6. (Radius!TypeOK)' BY <2>2 DEF BlastInv, Radius!TypeOK
  <2> QED BY <2>3, <2>5, <2>6 DEF BlastInv
<1> QED BY <1>1, <1>2

\* What the invariant says of a search that has ended.
LEMMA BlastAnswers ==
  ASSUME BlastInv, Radius!QueryAssumption
  PROVE  Radius!TypeOK /\ Radius!ExactUnlessTruncated /\ Radius!TruncatedIffCut /\ Radius!NearestKept
<1>1. PICK R, S, lim : R = Radius!DependsOn /\ S = Radius!SourceIDs /\ lim = r1.maxDepth OBVIOUS
<1>2. Radius!TypeOK /\ graph \in BlastGraphs /\ r1 \in BlastRequests BY DEF BlastInv, Radius!TypeOK
<1>3. lim \in Int /\ r1.maxNodes \in Int /\ IsFiniteSet(BlastIDs) /\ S \subseteq BlastIDs
  BY <1>1, <1>2, RequestFacts, DependsFacts
<1>4. Radius!Hops = Within(R, S) BY <1>1, BlastNames DEF Radius!Hops
<1>5. Radius!Dependents(lim) = Within(R, S)[lim] \ S /\ Radius!ResultIDs = DOMAIN r5 \ S
  BY <1>1, <1>4 DEF Radius!Dependents, Radius!ResultIDs
<1> SUFFICES ASSUME pc = "done", r6 \/ Asks
             PROVE  Radius!ExactUnlessTruncated /\ Radius!TruncatedIffCut /\ Radius!NearestKept
  BY <1>2 DEF Radius!ExactUnlessTruncated, Radius!TruncatedIffCut, Radius!NearestKept, Asks
<1>6. Asks /\ BlastResult(R, S) BY <1>1 DEF BlastInv, BlastWork
<1>7. lim \in Nat BY <1>1, <1>3, <1>6 DEF Asks
<1> DEFINE All == Within(R, S)[lim]
<1>8. /\ S \subseteq DOMAIN r5 /\ DOMAIN r5 \subseteq All
      /\ \A n \in DOMAIN r5 : r5[n] = Depth(R, S, n)
      /\ ~ r6 => DOMAIN r5 = All /\ (r1.maxNodes > 0 => Cardinality(All \ S) <= r1.maxNodes)
      /\ r6 => /\ DOMAIN r5 # All /\ r1.maxNodes > 0 /\ Cardinality(DOMAIN r5 \ S) = r1.maxNodes
               /\ \A n \in DOMAIN r5, m \in All \ DOMAIN r5 : Depth(R, S, n) <= Depth(R, S, m)
  BY <1>1, <1>6 DEF BlastResult
<1>9. \A n \in All : Radius!Distance(n) = Depth(R, S, n)
  <2> TAKE n \in All
  <2>1. n \in Reachable(R, S) BY <1>7 DEF Reachable
  <2>2. PICK d : d = Depth(R, S, n) OBVIOUS
  <2>3. d \in Nat /\ \A j \in Nat : n \in Within(R, S)[j] <=> d <= j BY <2>1, <2>2, DepthFacts
  <2>4. d \in 0..lim BY <1>7, <2>3
  <2>5. \A k \in 0..lim : (n \in Within(R, S)[k] /\ \A j \in 0..(k - 1) : n \notin Within(R, S)[j]) <=> k = d
    <3> TAKE k \in 0..lim
    <3>1. k \in Nat BY <1>7
    <3>2. (\A j \in 0..(k - 1) : n \notin Within(R, S)[j]) => k <= d
      <4> HAVE \A j \in 0..(k - 1) : n \notin Within(R, S)[j]
      <4>1. CASE d <= k - 1
        <5>1. d \in 0..(k - 1) BY <2>3, <3>1, <4>1
        <5> QED BY <2>3, <5>1
      <4>2. CASE ~ (d <= k - 1) BY <2>3, <3>1, <4>2
      <4> QED BY <4>1, <4>2
    <3>3. n \in Within(R, S)[k] <=> d <= k BY <2>3, <3>1
    <3>4. k = d => \A j \in 0..(k - 1) : n \notin Within(R, S)[j] BY <2>3, <3>1
    <3> QED BY <2>3, <3>1, <3>2, <3>3, <3>4
  <2>6. Radius!Distance(n) = CHOOSE k \in 0..lim :
          n \in Within(R, S)[k] /\ \A j \in 0..(k - 1) : n \notin Within(R, S)[j]
    BY <1>1, <1>4 DEF Radius!Distance
  <2>7. Radius!Distance(n) = CHOOSE k \in 0..lim : k = d BY <2>5, <2>6, Zenon
  <2>8. Radius!Distance(n) = d BY <2>4, <2>7
  <2> QED BY <2>2, <2>8
<1> HIDE DEF All
<1>10. IsFiniteSet(All \ S) /\ Cardinality(All \ S) \in Nat
  <2>1. All \in SUBSET BlastIDs
    <3>1. \A p \in R : p[2] \in BlastIDs BY <1>1, <1>2, DependsFacts
    <3> QED BY Zenon, <1>3, <1>7, <3>1, WithinStays DEF All
  <2>2. All \ S \in SUBSET BlastIDs BY <2>1
  <2> QED BY <1>3, <2>2, FS_Subset, FS_CardinalityType
<1>11. Radius!ExactUnlessTruncated
  <2> SUFFICES ASSUME ~ r6 PROVE Radius!ExactUnlessTruncated BY DEF Radius!ExactUnlessTruncated
  <2>1. DOMAIN r5 = All BY <1>8
  <2>2. Radius!ResultIDs = Radius!Dependents(lim) BY <1>5, <2>1 DEF All
  <2>3. \A n \in Radius!ResultIDs : r5[n] = Radius!Distance(n) BY <1>5, <1>8, <1>9, <2>1
  <2> QED BY <1>1, <2>2, <2>3 DEF Radius!ExactUnlessTruncated
<1>12. Radius!TruncatedIffCut
  <2>1. CASE ~ r6
    <3>1. r1.maxNodes > 0 => ~ (Cardinality(All \ S) > r1.maxNodes) BY <1>3, <1>8, <1>10, <2>1
    <3> QED BY <1>1, <1>5, <2>1, <3>1, BlastNames DEF Radius!TruncatedIffCut, All
  <2>2. CASE r6
    <3>1. DOMAIN r5 \ S \in SUBSET (All \ S) /\ DOMAIN r5 \ S # All \ S BY <1>8, <2>2
    <3>2. Cardinality(DOMAIN r5 \ S) <= Cardinality(All \ S) /\ Cardinality(DOMAIN r5 \ S) # Cardinality(All \ S)
      BY <1>10, <3>1, FS_Subset
    <3>3. Cardinality(All \ S) > r1.maxNodes /\ r1.maxNodes > 0 BY <1>3, <1>8, <1>10, <2>2, <3>2
    <3> QED BY <1>1, <1>2, <1>5, <2>2, <3>3, BlastNames DEF Radius!TruncatedIffCut, All
  <2> QED BY <2>1, <2>2
<1>13. Radius!NearestKept
  <2> SUFFICES ASSUME r6 PROVE Radius!NearestKept BY DEF Radius!NearestKept
  <2>1. Cardinality(Radius!ResultIDs) = r1.maxNodes BY <1>5, <1>8
  <2>2. \A n \in Radius!ResultIDs : n \in Radius!Dependents(lim) /\ r5[n] = Radius!Distance(n)
    BY <1>5, <1>8, <1>9 DEF All
  <2>3. \A n \in Radius!ResultIDs, m \in Radius!Dependents(lim) \ Radius!ResultIDs :
          Radius!Distance(n) <= Radius!Distance(m)
    <3> TAKE n \in Radius!ResultIDs, m \in Radius!Dependents(lim) \ Radius!ResultIDs
    <3>1. n \in DOMAIN r5 /\ n \in All /\ m \in All /\ m \notin DOMAIN r5 BY <1>5, <1>8 DEF All
    <3>2. Depth(R, S, n) <= Depth(R, S, m) BY <1>8, <3>1
    <3> QED BY <1>9, <3>1, <3>2
  <2> QED BY <1>1, <2>1, <2>2, <2>3, BlastNames DEF Radius!NearestKept
<1> QED BY <1>11, <1>12, <1>13

\* GetBlastRadiusDepth: for every graph, source list, depth and limit the result is the live
\* nodes within the depth, each with its true distance, or of those the nearest, and the
\* flag says which.
THEOREM BlastRadiusExact == Spec => []BlastRadiusIsExact
<1> DEFINE Inv == asked = "blast" => BlastInv
<1> USE Inputs DEF Inputs
<1>1. Init => Inv BY BlastInit
<1>2. Inv /\ [Next]_vars => Inv'
  <2> SUFFICES ASSUME asked' = "blast", Inv, [Next]_vars PROVE BlastInv'
    OBVIOUS
  <2>1. asked = "blast" BY SameQuestion
  <2>2. [Radius!Next]_(Radius!vars)
    <3> HIDE DEF Inv, Inputs
    <3> QED BY <2>1 DEF Next, vars, Rest5, Radius!vars
  <2> QED BY <2>1, <2>2, BlastNext
<1>3. Inv => BlastRadiusIsExact BY BlastAnswers DEF BlastRadiusIsExact
<1> QED BY <1>1, <1>2, <1>3, PTL DEF Spec

-----------------------------------------------------------------------------
(* The scans: a page holds the smallest of what was met, in order, in      *)
(* whatever order it is met.                                               *)

Increasing(f, k) == \A i, j \in 1..k : i < j => f[i] < f[j]

\* f[1] to f[k] are the first lim members of A.
Page(f, k, A, lim) ==
  /\ k \in Nat /\ k <= lim /\ Increasing(f, k)
  /\ \A i \in 1..k : f[i] \in A
  /\ \A a \in A : (\E i \in 1..k : f[i] = a) \/ (k = lim /\ \A i \in 1..k : f[i] < a)

\* Where appendBoundedNodeResult puts a number: behind all that are smaller.
LEMMA PlaceFacts ==
  ASSUME NEW rs \in Seq(Nat), Increasing(rs, Len(rs)), NEW n \in Nat
  PROVE  LET at == Cardinality({i \in 1..Len(rs) : rs[i] < n}) + 1
         IN  /\ at \in 1..(Len(rs) + 1)
             /\ \A i \in 1..Len(rs) : rs[i] < n <=> i < at
<1> DEFINE T == {k \in 1..(Len(rs) + 1) : k <= Len(rs) => ~ (rs[k] < n)}
<1>1. Len(rs) \in Nat /\ \A i \in 1..Len(rs) : rs[i] \in Nat OBVIOUS
<1>2. T \subseteq Nat /\ Len(rs) + 1 \in T BY <1>1
<1>T. \A k : k \in T <=> k \in 1..(Len(rs) + 1) /\ (k <= Len(rs) => ~ (rs[k] < n)) OBVIOUS
<1> HIDE DEF T
<1>3. PICK m \in T : \A k \in T : m <= k BY Zenon, <1>2, LeastElement
<1>4. m \in 1..(Len(rs) + 1) /\ (m <= Len(rs) => ~ (rs[m] < n)) BY <1>T
<1>5. ASSUME NEW i \in 1..Len(rs) PROVE rs[i] < n <=> i < m
  <2>1. i < m => rs[i] < n
    <3>1. i \in 1..(Len(rs) + 1) /\ i <= Len(rs) BY <1>1
    <3>2. i < m => i \notin T BY <1>1, <1>3, <1>4
    <3> QED BY <1>T, <3>1, <3>2
  <2>2. ASSUME i >= m PROVE ~ (rs[i] < n)
    <3>1. m <= Len(rs) /\ ~ (rs[m] < n) BY <1>1, <1>4, <2>2
    <3>2. i = m \/ rs[m] < rs[i] BY <1>1, <1>4, <2>2, <3>1 DEF Increasing
    <3>3. rs[m] \in Nat /\ rs[i] \in Nat BY <1>1, <1>4, <3>1
    <3>4. CASE i = m BY <3>1, <3>4
    <3>5. CASE rs[m] < rs[i]
      <4>1. PICK x \in Nat, y \in Nat : x = rs[m] /\ y = rs[i] BY <3>3
      <4>2. ~ (x < n) /\ x < y BY <3>1, <3>5, <4>1
      <4>3. ~ (y < n) BY <4>2
      <4> QED BY <4>1, <4>3
    <3> QED BY <3>2, <3>4, <3>5
  <2> QED BY <1>1, <1>4, <2>1, <2>2
<1>6. {i \in 1..Len(rs) : rs[i] < n} = 1..(m - 1)
  <2>1. \A i : i \in 1..(m - 1) <=> i \in 1..Len(rs) /\ i < m BY <1>1, <1>4
  <2>2. \A i : i \in {j \in 1..Len(rs) : rs[j] < n} <=> i \in 1..(m - 1) BY <1>5, <2>1
  <2> QED BY <2>2
<1>7. Cardinality(1..(m - 1)) = m - 1
  <2>1. 1 \in Int /\ m - 1 \in Int BY <1>4
  <2>2. Cardinality(1..(m - 1)) = IF 1 > m - 1 THEN 0 ELSE (m - 1) - 1 + 1 BY <2>1, FS_Interval
  <2> QED BY <1>4, <2>2
<1>8. Cardinality({i \in 1..Len(rs) : rs[i] < n}) + 1 = m
  <2>1. m \in Int BY <1>4
  <2>2. Cardinality({i \in 1..Len(rs) : rs[i] < n}) = m - 1 BY Zenon, <1>6, <1>7
  <2> QED BY <2>1, <2>2
<1> QED BY Zenon, <1>4, <1>5, <1>8

LEMMA Chained ==
  ASSUME NEW A, NEW f \in Seq(A), NEW c \in Seq(A)
  PROVE  /\ f \o c \in Seq(A) /\ Len(f \o c) = Len(f) + Len(c)
         /\ \A i \in 1..Len(f) : (f \o c)[i] = f[i]
         /\ \A i \in 1..Len(c) : (f \o c)[Len(f) + i] = c[i]
<1>1. f \o c \in Seq(A) OBVIOUS
<1>2. Len(f \o c) = Len(f) + Len(c) OBVIOUS
<1>3. \A i \in 1..Len(f) : (f \o c)[i] = f[i] OBVIOUS
<1>4. \A i \in 1..Len(c) : (f \o c)[Len(f) + i] = c[i] OBVIOUS
<1> QED BY <1>1, <1>2, <1>3, <1>4

\* A sequence with one more member.
With(rs, n, at) == SubSeq(rs, 1, at - 1) \o <<n>> \o SubSeq(rs, at, Len(rs))
OneMore(rs, n, at, more) ==
  /\ Len(more) = Len(rs) + 1 /\ more[at] = n
  /\ \A i \in 1..Len(rs) : IF i < at THEN more[i] = rs[i] ELSE more[i + 1] = rs[i]

LEMMA Inserted ==
  ASSUME NEW A, NEW rs \in Seq(A), NEW n \in A, NEW at \in 1..(Len(rs) + 1),
         NEW more, more = With(rs, n, at)
  PROVE  more \in Seq(A) /\ OneMore(rs, n, at, more)
<1> DEFINE b == SubSeq(rs, 1, at - 1)
           c == SubSeq(rs, at, Len(rs))
<1>1. Len(rs) \in Nat /\ \A i \in 1..Len(rs) : rs[i] \in A OBVIOUS
<1>2. b \in Seq(A) /\ Len(b) = at - 1 /\ \A i \in 1..(at - 1) : b[i] = rs[i] BY <1>1
<1>3. c \in Seq(A) /\ Len(c) = Len(rs) - at + 1 /\ \A i \in 1..(Len(rs) - at + 1) : c[i] = rs[at + i - 1] BY <1>1
<1>M. more = b \o <<n>> \o c BY DEF With
<1> HIDE DEF b, c
<1>4. /\ more \in Seq(A) /\ Len(more) = Len(b) + 1 + Len(c)
      /\ \A i \in 1..Len(b) : more[i] = b[i]
      /\ more[Len(b) + 1] = n
      /\ \A i \in 1..Len(c) : more[Len(b) + 1 + i] = c[i]
  <2> DEFINE f == b \o <<n>>
  <2>1. /\ f \in Seq(A) /\ Len(f) = Len(b) + 1 /\ f[Len(b) + 1] = n
        /\ \A i \in 1..Len(b) : f[i] = b[i] /\ i \in 1..Len(f)
    BY <1>2
  <2> HIDE DEF f
  <2>2. /\ f \o c \in Seq(A) /\ Len(f \o c) = Len(f) + Len(c)
        /\ \A i \in 1..Len(f) : (f \o c)[i] = f[i]
        /\ \A i \in 1..Len(c) : (f \o c)[Len(f) + i] = c[i]
    <3>1. f \in Seq(A) /\ c \in Seq(A) BY <1>3, <2>1
    <3> QED BY <3>1, Chained
  <2>3. Len(b) + 1 \in 1..Len(f) BY <1>2, <2>1
  <2>4. more = f \o c BY <1>M DEF f
  <2> QED BY Zenon, <2>1, <2>2, <2>3, <2>4
<1>5. Len(more) = Len(rs) + 1 /\ more[at] = n BY <1>1, <1>2, <1>3, <1>4
<1>6. ASSUME NEW i \in 1..Len(rs), i < at PROVE more[i] = rs[i]
  <2>1. i \in 1..(at - 1) BY <1>1, <1>6
  <2>2. 1..Len(b) = 1..(at - 1) BY <1>2
  <2>3. b[i] = rs[i] BY <1>2, <2>1
  <2>4. more[i] = b[i] BY <1>4, <2>1, <2>2
  <2> QED BY <2>3, <2>4
<1>7. ASSUME NEW i \in 1..Len(rs), ~ (i < at) PROVE more[i + 1] = rs[i]
  <2> DEFINE j == i - at + 1
  <2>1. j \in 1..Len(c) /\ Len(b) + 1 + j = i + 1 /\ at + j - 1 = i BY <1>1, <1>2, <1>3, <1>7
  <2>2. c[j] = rs[at + j - 1] BY Zenon, <1>3, <2>1
  <2>3. more[Len(b) + 1 + j] = c[j] BY Zenon, <1>4, <2>1
  <2> QED BY <2>1, <2>2, <2>3
<1> QED BY <1>4, <1>5, <1>6, <1>7 DEF OneMore

\* With one more number, the page is that of one more: if it is in the page, or the page is
\* full and it is behind it, the page is the same.
LEMMA PageKept ==
  ASSUME NEW A, A \subseteq Nat, NEW lim \in Nat, NEW f, NEW k, Page(f, k, A, lim), NEW n \in Nat,
         (\E i \in 1..k : f[i] = n) \/ (k = lim /\ \A i \in 1..k : f[i] < n)
  PROVE  Page(f, k, A \cup {n}, lim)
BY DEF Page

\* g is f with n before the first number above it.
Widened(f, k, n, at, g) ==
  /\ at \in 1..(k + 1) /\ g[at] = n
  /\ \A i \in 1..k : IF i < at THEN f[i] < n /\ g[i] = f[i] ELSE n < f[i] /\ g[i + 1] = f[i]

LEMMA WidenedFacts ==
  ASSUME NEW A, A \subseteq Nat, NEW n \in Nat, NEW k \in Nat, NEW f, \A i \in 1..k : f[i] \in A,
         Increasing(f, k), NEW at, NEW g, Widened(f, k, n, at, g)
  PROVE  /\ \A i \in 1..(k + 1) : g[i] \in A \cup {n}
         /\ Increasing(g, k + 1)
<1>1. /\ at \in 1..(k + 1) /\ g[at] = n
      /\ \A i \in 1..k : IF i < at THEN f[i] < n /\ g[i] = f[i] ELSE n < f[i] /\ g[i + 1] = f[i]
  BY DEF Widened
<1>2. ASSUME NEW i \in 1..(k + 1), i < at PROVE i \in 1..k /\ g[i] = f[i] /\ f[i] < n
  <2>1. i \in 1..k BY <1>1, <1>2
  <2> QED BY <1>1, <1>2, <2>1
<1>3. ASSUME NEW i \in 1..(k + 1), i > at PROVE i - 1 \in 1..k /\ g[i] = f[i - 1] /\ n < f[i - 1]
  <2>1. i - 1 \in 1..k /\ ~ (i - 1 < at) /\ (i - 1) + 1 = i BY <1>1, <1>3
  <2>2. n < f[i - 1] /\ g[(i - 1) + 1] = f[i - 1] BY <1>1, <2>1
  <2> QED BY <2>1, <2>2
<1>4. \A i \in 1..(k + 1) : i < at \/ i = at \/ i > at BY <1>1
<1>5. \A i \in 1..(k + 1) : g[i] \in A \cup {n} BY <1>1, <1>2, <1>3, <1>4
<1>6. ASSUME NEW i \in 1..(k + 1), NEW j \in 1..(k + 1), i < j PROVE g[i] < g[j]
  <2>1. CASE i < at /\ j < at BY <1>2, <1>6, <2>1 DEF Increasing
  <2>2. CASE i < at /\ j = at BY <1>1, <1>2, <2>2
  <2>3. CASE i < at /\ j > at
    <3>1. g[i] = f[i] /\ f[i] < n /\ g[j] = f[j - 1] /\ n < f[j - 1] /\ i \in 1..k /\ j - 1 \in 1..k
      BY <1>2, <1>3, <2>3
    <3>2. f[i] \in Nat /\ f[j - 1] \in Nat BY Zenon, <3>1
    <3> QED BY <3>1, <3>2
  <2>4. CASE i = at /\ j > at BY <1>1, <1>3, <2>4
  <2>5. CASE i > at /\ j > at
    <3>1. g[i] = f[i - 1] /\ g[j] = f[j - 1] /\ i - 1 \in 1..k /\ j - 1 \in 1..k BY <1>3, <2>5
    <3>2. i - 1 < j - 1 BY <1>6
    <3> QED BY <3>1, <3>2 DEF Increasing
  <2>6. /\ ~ (i = at /\ j = at) /\ ~ (i = at /\ j < at) /\ ~ (i > at /\ j = at) /\ ~ (i > at /\ j < at)
    BY <1>1, <1>6
  <2> QED BY <1>4, <2>1, <2>2, <2>3, <2>4, <2>5, <2>6
<1> QED BY <1>5, <1>6 DEF Increasing

\* Otherwise it is put in its place, and the last one is dropped if there is one too many.
LEMMA PageGrows ==
  ASSUME NEW A, A \subseteq Nat, NEW lim \in Nat, NEW n \in Nat, NEW f, NEW k, Page(f, k, A, lim),
         NEW at, NEW g, Widened(f, k, n, at, g), ~ (k = lim /\ at > lim)
  PROVE  Page(g, IF k = lim THEN k ELSE k + 1, A \cup {n}, lim)
<1>1. /\ k \in Nat /\ k <= lim /\ Increasing(f, k) /\ \A i \in 1..k : f[i] \in A
      /\ \A a \in A : (\E i \in 1..k : f[i] = a) \/ (k = lim /\ \A i \in 1..k : f[i] < a)
  BY DEF Page
<1>2. /\ at \in 1..(k + 1) /\ g[at] = n
      /\ \A i \in 1..k : IF i < at THEN f[i] < n /\ g[i] = f[i] ELSE n < f[i] /\ g[i + 1] = f[i]
  BY DEF Widened
<1>3. (\A i \in 1..(k + 1) : g[i] \in A \cup {n}) /\ Increasing(g, k + 1) BY Zenon, <1>1, WidenedFacts
<1>4. CASE k # lim
  <2>1. k + 1 \in Nat /\ k + 1 <= lim BY <1>1, <1>4
  <2>2. ASSUME NEW a \in A PROVE \E i \in 1..(k + 1) : g[i] = a
    <3>1. PICK i \in 1..k : f[i] = a BY <1>1, <1>4
    <3>2. i \in 1..(k + 1) /\ i + 1 \in 1..(k + 1) /\ (g[i] = a \/ g[i + 1] = a) BY <1>1, <1>2, <3>1
    <3> QED BY <3>2
  <2>3. \A a \in A \cup {n} : \E i \in 1..(k + 1) : g[i] = a BY <1>2, <2>2
  <2>4. Page(g, k + 1, A \cup {n}, lim) BY <1>3, <2>1, <2>3 DEF Page
  <2> QED BY <1>4, <2>4
<1>5. CASE k = lim
  <2>1. at \in 1..k /\ k \in 1..k BY <1>1, <1>2, <1>5
  <2>2. \A i \in 1..k : i \in 1..(k + 1) BY <1>1
  <2>3. Increasing(g, k) /\ \A i \in 1..k : g[i] \in A \cup {n} BY <1>3, <2>2 DEF Increasing
  <2>4. \A i \in 1..k : g[i] < f[k]
    <3>1. g[k + 1] = f[k] BY <1>2, <2>1
    <3>2. k + 1 \in 1..(k + 1) /\ \A i \in 1..k : i < k + 1 BY <1>1
    <3> QED BY <1>3, <2>2, <3>1, <3>2 DEF Increasing
  <2>5. (\A i \in 1..k : f[i] \in Nat /\ g[i] \in Nat) /\ f[k] \in Nat BY Zenon, <1>1, <2>1, <2>3
  <2>6. ASSUME NEW a \in A PROVE (\E i \in 1..k : g[i] = a) \/ \A i \in 1..k : g[i] < a
    <3>1. CASE \A i \in 1..k : f[i] < a
      <4>1. f[k] < a /\ a \in Nat BY <2>1, <3>1
      <4>2. ASSUME NEW i \in 1..k PROVE g[i] < a
        <5>1. g[i] < f[k] /\ g[i] \in Nat /\ f[k] \in Nat BY <2>4, <2>5
        <5> QED BY <4>1, <5>1
      <4> QED BY <4>2
    <3>2. CASE \E i \in 1..k : f[i] = a
      <4>1. PICK i \in 1..k : f[i] = a BY <3>2
      <4>2. CASE i = k BY <2>4, <4>1, <4>2
      <4>3. CASE i # k
        <5>1. i + 1 \in 1..k BY <1>1, <4>3
        <5>2. g[i] = a \/ g[i + 1] = a BY <1>2, <4>1
        <5> QED BY <5>1, <5>2
      <4> QED BY <4>2, <4>3
    <3> QED BY <1>1, <3>1, <3>2
  <2>7. \A a \in A \cup {n} : (\E i \in 1..k : g[i] = a) \/ (k = lim /\ \A i \in 1..k : g[i] < a)
    BY <1>2, <1>5, <2>1, <2>6
  <2>8. Page(g, k, A \cup {n}, lim) BY <1>1, <2>3, <2>7 DEF Page
  <2> QED BY <1>5, <2>8
<1> QED BY <1>4, <1>5

\* A page is what the list in order begins with.
Begins(f, k, A) == \A i \in 1..k : i <= Cardinality(A) /\ f[i] = InOrder(A)[i]

LEMMA PageBegins ==
  ASSUME NEW A, A \subseteq Nat, IsFiniteSet(A), NEW lim \in Nat, NEW f, NEW k, Page(f, k, A, lim)
  PROVE  /\ k = IF Cardinality(A) < lim THEN Cardinality(A) ELSE lim
         /\ Begins(f, k, A)
<1> DEFINE n == Cardinality(A)
           o == InOrder(A)
<1>1. /\ k \in Nat /\ k <= lim /\ Increasing(f, k) /\ \A i \in 1..k : f[i] \in A
      /\ \A a \in A : (\E i \in 1..k : f[i] = a) \/ (k = lim /\ \A i \in 1..k : f[i] < a)
  BY DEF Page
<1>2. /\ o \in [1..n -> A] /\ n \in Nat
      /\ \A x \in A : \E i \in 1..n : o[i] = x
      /\ \A i, j \in 1..n : i < j => o[i] < o[j]
  BY Zenon, InOrderFacts
<1> HIDE DEF n, o
<1>3. \A i \in 1..n : o[i] \in A /\ o[i] \in Nat BY Zenon, <1>2
<1>4. \A i \in 1..k : f[i] \in Nat BY Zenon, <1>1
<1>5. ASSUME NEW i \in 1..k, \A j \in 1..k : j < i => j <= n /\ f[j] = o[j]
      PROVE  i <= n /\ f[i] = o[i]
  <2>1. PICK m \in 1..n : o[m] = f[i] BY Zenon, <1>1, <1>2
  <2>2. ASSUME m < i PROVE FALSE
    <3>1. m \in 1..k /\ f[m] = o[m] BY <1>1, <1>5, <2>2
    <3>2. f[m] < f[i] BY <1>1, <2>2, <3>1 DEF Increasing
    <3> QED BY <1>4, <2>1, <3>1, <3>2
  <2>3. ASSUME m > i PROVE FALSE
    <3>1. i \in 1..n BY <1>1, <1>2, <2>3
    <3>2. o[i] < f[i] /\ o[i] \in A BY <1>2, <1>3, <2>1, <2>3, <3>1
    <3>3. ~ (f[i] < o[i]) BY <1>3, <1>4, <3>1, <3>2
    <3>4. PICK j \in 1..k : f[j] = o[i] BY Zenon, <1>1, <3>2, <3>3
    <3>5. j < i
      <4>1. i < j => f[i] < f[j] BY <1>1 DEF Increasing
      <4>2. i # j /\ ~ (i < j) BY <1>3, <1>4, <3>1, <3>2, <3>4, <4>1
      <4> QED BY <4>2
    <3>6. j \in 1..n /\ f[j] = o[j] BY <1>5, <3>5
    <3>7. o[j] < o[i] BY <1>2, <3>1, <3>5, <3>6
    <3> QED BY <1>3, <3>1, <3>4, <3>6, <3>7
  <2>4. m = i BY <2>2, <2>3
  <2> QED BY <2>1, <2>4
<1>6. \A i \in 1..k : i <= n /\ f[i] = o[i]
  <2> DEFINE U == {i \in Nat : \A j \in 1..k : j <= i => j <= n /\ f[j] = o[j]}
  <2>1. 0 \in U OBVIOUS
  <2>2. ASSUME NEW i \in Nat, i \in U PROVE i + 1 \in U
    <3>1. ASSUME NEW j \in 1..k, j <= i + 1 PROVE j <= n /\ f[j] = o[j]
      <4>1. CASE j <= i BY <2>2, <4>1
      <4>2. CASE j = i + 1
        <5>1. \A h \in 1..k : h < j => h <= n /\ f[h] = o[h] BY <2>2, <4>2
        <5> QED BY <1>5, <5>1
      <4> QED BY <3>1, <4>1, <4>2
    <3> QED BY <3>1
  <2>3. Nat \subseteq U
    <3> HIDE DEF U
    <3> QED BY <2>1, <2>2, SetInduction
  <2> QED BY <1>1, <2>3
<1>7. k <= n
  <2>1. k = 0 \/ k \in 1..k BY <1>1
  <2> QED BY <1>2, <1>6, <2>1
<1>8. k < n => k = lim
  <2> SUFFICES ASSUME k < n PROVE k = lim OBVIOUS
  <2>1. k + 1 \in 1..n BY <1>1, <1>2
  <2>2. \A i \in 1..k : f[i] # o[k + 1]
    <3> TAKE i \in 1..k
    <3>1. i \in 1..n /\ i < k + 1 /\ f[i] = o[i] BY <1>1, <1>2, <1>6
    <3>2. o[i] < o[k + 1] BY <1>2, <2>1, <3>1
    <3> QED BY <1>3, <2>1, <3>1, <3>2
  <2> QED BY <1>1, <1>3, <2>1, <2>2
<1>9. k = IF n < lim THEN n ELSE lim BY <1>1, <1>2, <1>7, <1>8
<1> QED BY <1>6, <1>9 DEF Begins, n, o

LEMMA PageSame ==
  ASSUME NEW A, NEW lim, NEW f, NEW k, Page(f, k, A, lim), NEW g, \A i \in 1..k : g[i] = f[i]
  PROVE  Page(g, k, A, lim)
BY DEF Page, Increasing

LEMMA SeqRange ==
  ASSUME NEW X, NEW s \in Seq(X), NEW Y, \A i \in 1..Len(s) : s[i] \in Y PROVE s \in Seq(Y)
OBVIOUS

\* The instance has operators of its own for those of the modules it extends.
LEMMA ScanNames ==
  /\ \A S : (Scans!IsFiniteSet(S) <=> IsFiniteSet(S)) /\ Scans!Cardinality(S) = Cardinality(S)
  /\ \A S : Scans!InOrder(S) = InOrder(S)
  /\ \A rs, i, n : Scans!InsertAt(rs, i, n) = With(rs, n, i)
  /\ \A rs : Scans!Front(rs) = SubSeq(rs, 1, Len(rs) - 1)
BY DEF Scans!IsFiniteSet, IsFiniteSet, Scans!Cardinality, Cardinality, Scans!InOrder, InOrder,
       Scans!InsertAt, With, Scans!Front

\* appendBoundedNodeResult keeps the page that of what was met.
LEMMA Appended ==
  ASSUME NEW A, A \subseteq Nat, SearchLimit \in Nat, NEW rs \in Seq(Nat),
         Page(rs, Len(rs), A, SearchLimit), NEW n \in Nat
  PROVE  /\ Scans!AppendBounded(rs, n) \in Seq(Nat)
         /\ Page(Scans!AppendBounded(rs, n), Len(Scans!AppendBounded(rs, n)), A \cup {n}, SearchLimit)
<1> DEFINE k == Len(rs)
           at == Scans!Position(rs, n)
           more == Scans!InsertAt(rs, at, n)
           B == A \cup {n}
<1>1. at = Cardinality({i \in 1..Len(rs) : rs[i] < n}) + 1
  <2>1. DOMAIN rs = 1..Len(rs) OBVIOUS
  <2> QED BY Zenon, <2>1, ScanNames DEF Scans!Position
<1>2. more = With(rs, n, at) BY ScanNames
<1>3. Scans!AppendBounded(rs, n) =
        IF (at <= k /\ rs[at] = n) \/ (k = SearchLimit /\ at > SearchLimit) THEN rs
        ELSE IF Len(more) > SearchLimit THEN SubSeq(more, 1, Len(more) - 1) ELSE more
  <2>1. Scans!Front(more) = SubSeq(more, 1, Len(more) - 1)
    <3> HIDE DEF more
    <3> QED BY ScanNames
  <2> QED BY <2>1 DEF Scans!AppendBounded
<1> HIDE DEF at, more
<1>4. k \in Nat /\ k <= SearchLimit /\ Increasing(rs, k) /\ \A i \in 1..k : rs[i] \in Nat BY DEF Page
<1>5. at \in 1..(k + 1) /\ \A i \in 1..k : rs[i] < n <=> i < at
  <2>1. Increasing(rs, Len(rs)) BY <1>4
  <2> QED BY Zenon, <1>1, <2>1, PlaceFacts
<1>6. CASE (at <= k /\ rs[at] = n) \/ (k = SearchLimit /\ at > SearchLimit)
  <2>1. (\E i \in 1..k : rs[i] = n) \/ (k = SearchLimit /\ \A i \in 1..k : rs[i] < n)
    <3>1. CASE at <= k /\ rs[at] = n
      <4>1. at \in 1..k BY <1>4, <1>5, <3>1
      <4> QED BY <3>1, <4>1
    <3>2. CASE k = SearchLimit /\ at > SearchLimit
      <4>1. \A i \in 1..k : i < at BY <1>4, <1>5, <3>2
      <4> QED BY <1>5, <3>2, <4>1
    <3> QED BY <1>6, <3>1, <3>2
  <2>2. Page(rs, k, B, SearchLimit) BY Zenon, <2>1, PageKept
  <2> QED BY <1>3, <1>6, <2>2
<1>7. CASE ~ (at <= k /\ rs[at] = n) /\ ~ (k = SearchLimit /\ at > SearchLimit)
  <2>1. /\ more \in Seq(Nat) /\ Len(more) = k + 1 /\ more[at] = n
        /\ \A i \in 1..k : IF i < at THEN more[i] = rs[i] ELSE more[i + 1] = rs[i]
    <3>1. at \in 1..(Len(rs) + 1) BY <1>5
    <3>2. more \in Seq(Nat) /\ OneMore(rs, n, at, more) BY Zenon, <1>2, <3>1, Inserted
    <3> QED BY <3>2 DEF OneMore
  <2>2. ASSUME NEW i \in 1..k, ~ (i < at) PROVE n < rs[i]
    <3>1. at \in 1..k BY <1>4, <1>5, <2>2
    <3>2. rs[at] \in Nat /\ ~ (rs[at] < n) /\ rs[at] # n
      <4>1. ~ (at < at) /\ at <= k BY <1>4, <1>5, <3>1
      <4> QED BY <1>4, <1>5, <1>7, <3>1, <4>1
    <3>3. i = at \/ rs[at] < rs[i]
      <4>1. i = at \/ at < i BY <1>4, <1>5, <2>2
      <4> QED BY <1>4, <3>1, <4>1 DEF Increasing
    <3>4. rs[i] \in Nat BY <1>4
    <3> QED BY <3>2, <3>3, <3>4
  <2>3. Widened(rs, k, n, at, more) BY Zenon, <1>5, <2>1, <2>2 DEF Widened
  <2>4. Page(more, IF k = SearchLimit THEN k ELSE k + 1, B, SearchLimit) BY Zenon, <1>7, <2>3, PageGrows
  <2>5. CASE k = SearchLimit
    <3>1. Len(more) > SearchLimit /\ Len(more) - 1 = k BY <1>4, <2>1, <2>5
    <3> DEFINE cut == SubSeq(more, 1, Len(more) - 1)
    <3>2. Scans!AppendBounded(rs, n) = cut BY <1>3, <1>7, <3>1
    <3>3. cut \in Seq(Nat) /\ Len(cut) = k /\ \A i \in 1..k : cut[i] = more[i]
      <4>1. k \in Nat /\ more \in Seq(Nat) /\ Len(more) = k + 1 BY <1>4, <2>1
      <4> HIDE DEF k
      <4> QED BY <4>1
    <3> HIDE DEF cut
    <3>4. Page(cut, k, B, SearchLimit) BY <2>4, <2>5, <3>3, PageSame
    <3> QED BY <3>2, <3>3, <3>4
  <2>6. CASE k # SearchLimit
    <3>1. ~ (Len(more) > SearchLimit) BY <1>4, <2>1, <2>6
    <3>2. Scans!AppendBounded(rs, n) = more BY <1>3, <1>7, <3>1
    <3> QED BY <2>1, <2>4, <2>6, <3>2
  <2> QED BY <2>5, <2>6
<1> QED BY <1>6, <1>7

-----------------------------------------------------------------------------
(* The scans: what the loop has met so far is in the answer, and nothing   *)
(* else.                                                                   *)

\* What a scan looks for: the matches, the nodes that join, the connections each loop finds.
\* They are constant during a scan.
ScanM == r1.matches \cap graph.live
ScanJ == {n \in ScanIDs : Scans!Joins(n)}
ScanT == Scans!Targets(r1.node)
ScanO == [x \in ScanIDs |-> Scans!OutTurn(r1.node, x)]
ScanI == [x \in ScanIDs |-> Scans!InTurn(r1.node, x)]

\* What a search, a join and the concurrency graph loop over.
Loop == IF r1.kind = "search" THEN graph.live
        ELSE IF r1.kind \in {"dependencies", "concurrency"} THEN ScanT ELSE Scans!Sources

JoinKinds == {"dependencies", "dependents", "implementations"}

SearchWork(M) ==
  /\ pc \in {"ask", "failed"} => r3 = <<>>
  /\ pc \in {"scan", "done"} => Page(r3, Len(r3), M \ r2, SearchLimit)

JoinWork(L, J) ==
  pc \in {"scan", "done"} => \A n : n \in r4 <=> n \in L /\ n \notin r2 /\ n \in J

FlowWork(T, S, O, I) ==
  /\ pc = "scan" => \A c : c \in r4 <=> \E x \in T \ r2 : c \in O[x]
  /\ pc \in {"inbound", "done"} => \A c : c \in r4 <=> (\E x \in T : c \in O[x]) \/ (\E x \in S \ r2 : c \in I[x])

ScanState(L, S) ==
  /\ graph \in ScanGraphs /\ r1.kind \in Scans!Kinds
  /\ r1.kind = "search" => r1.matches \in ScanSearches
  /\ pc \in {"ask", "scan", "inbound", "done", "failed"} /\ r2 \subseteq ScanIDs
  /\ r3 \in Seq(Nat) /\ (r1.kind # "search" => r3 = <<>>)
  /\ r1.kind = "search" \/ pc \in {"ask", "failed"} => r4 = {}
  /\ pc = "scan" => r2 \subseteq L
  /\ pc = "inbound" => r1.kind = "concurrency" /\ r2 \subseteq S
  /\ pc = "done" => r2 = {}

ScanWork(M, L, S, T, J, O, I) ==
  /\ ScanState(L, S)
  /\ r1.kind = "search" => SearchWork(M)
  /\ r1.kind \in JoinKinds => JoinWork(L, J)
  /\ r1.kind = "concurrency" => FlowWork(T, S, O, I)

ScanInv == ScanWork(ScanM, Loop, Scans!Sources, ScanT, ScanJ, ScanO, ScanI)

\* What the assumption says of one graph.
LEMMA ScanFacts ==
  ASSUME graph \in ScanGraphs, Scans!ReadAssumption, Scans!ScanAssumption
  PROVE  /\ IsFiniteSet(ScanIDs) /\ ScanIDs \subseteq Nat /\ SearchLimit \in Nat
         /\ graph.live \subseteq ScanIDs
         /\ \A e \in graph.edges : e.from \in graph.live /\ e.to \in ScanIDs
         /\ \A e \in graph.edges : e.type = "SPAWNS" => ScanType[e.to] = "GOROUTINE"
         /\ Scans!Sources \subseteq ScanIDs /\ \A n : Scans!Targets(n) \subseteq ScanIDs
<1>1. /\ IsFiniteSet(ScanIDs) /\ ScanIDs \subseteq Nat /\ SearchLimit \in Nat /\ graph.live \subseteq ScanIDs
      /\ \A e \in graph.edges : e.from \in graph.live /\ e.to \in ScanIDs
      /\ \A e \in graph.edges : e.type = "SPAWNS" => ScanType[e.to] = "GOROUTINE"
  BY ScanNames DEF Scans!ReadAssumption, Scans!ScanAssumption
<1>2. Scans!Sources \subseteq ScanIDs BY <1>1 DEF Scans!Sources
<1>3. \A n : Scans!Targets(n) \subseteq ScanIDs BY <1>1 DEF Scans!Targets
<1> QED BY <1>1, <1>2, <1>3

\* The graph and the query stay, and with them what is looked for.
LEMMA ScanStays ==
  ASSUME graph' = graph, r1' = r1
  PROVE  /\ ScanM' = ScanM /\ Loop' = Loop /\ (Scans!Sources)' = Scans!Sources /\ ScanT' = ScanT
         /\ ScanJ' = ScanJ /\ ScanO' = ScanO /\ ScanI' = ScanI
<1> USE DEF Scans!Joined, Scans!EdgesOf
<1>1. (Scans!Sources)' = Scans!Sources BY DEF Scans!Sources
<1>2. ScanT' = ScanT BY DEF ScanT, Scans!Targets
<1>3. ScanM' = ScanM BY DEF ScanM
<1>4. Loop' = Loop BY <1>1, <1>2 DEF Loop
<1>5. ScanJ' = ScanJ BY DEF ScanJ, Scans!Joins
<1>6. ScanO' = ScanO BY DEF ScanO, Scans!OutTurn, Scans!CalledFrom, Scans!SpawnedFrom, Scans!OutboundOf
<1>7. ScanI' = ScanI BY DEF ScanI, Scans!InTurn
<1> QED BY <1>1, <1>2, <1>3, <1>4, <1>5, <1>6, <1>7

LEMMA ScanInit == asked = "scan" /\ Init => ScanInv
<1> SUFFICES ASSUME asked = "scan", Scans!Init PROVE ScanInv BY DEF Init
<1> USE DEF Scans!Init
<1>1. r1.kind \in Scans!Kinds /\ (r1.kind = "search" => r1.matches \in ScanSearches) BY DEF Scans!Kinds
<1>2. ScanState(Loop, Scans!Sources) BY <1>1 DEF ScanState
<1>3. SearchWork(ScanM) /\ JoinWork(Loop, ScanJ) /\ FlowWork(ScanT, Scans!Sources, ScanO, ScanI)
  BY DEF SearchWork, JoinWork, FlowWork
<1> QED BY <1>2, <1>3 DEF ScanInv, ScanWork

\* The loop starts with everything before it.
LEMMA ScanAsk ==
  ASSUME ScanInv, Scans!ReadAssumption, Scans!ScanAssumption, Scans!Ask PROVE ScanInv'
<1>1. PICK M, L, S, T, J, O, I :
        /\ M = ScanM /\ L = Loop /\ S = Scans!Sources /\ T = ScanT
        /\ J = ScanJ /\ O = ScanO /\ I = ScanI
  OBVIOUS
<1>2. /\ graph' = graph /\ r1' = r1 /\ r3' = r3 /\ r4' = r4 /\ pc = "ask" /\ pc' \in {"scan", "failed"}
      /\ r1.kind = "search" => r2' = graph.live
      /\ r1.kind \in {"dependencies", "concurrency"} => r2' = Scans!Targets(r1.node)
      /\ r1.kind \in {"dependents", "implementations"} => r2' = Scans!Sources
  BY DEF Scans!Ask
<1>3. ScanState(L, S) /\ (r1.kind = "search" => SearchWork(M)) BY <1>1 DEF ScanInv, ScanWork
<1>4. r2' = L /\ L \subseteq ScanIDs
  <2>1. r1.kind \in Scans!Kinds /\ graph \in ScanGraphs BY <1>3 DEF ScanState
  <2>2. r2' = L BY <1>1, <1>2, <2>1 DEF Loop, ScanT, Scans!Kinds
  <2>3. L \subseteq ScanIDs BY <1>1, <2>1, ScanFacts DEF Loop, ScanT
  <2> QED BY <2>2, <2>3
<1>5. ScanState(L, S)' BY <1>2, <1>3, <1>4 DEF ScanState
<1>6. r4' = {} BY <1>2, <1>3 DEF ScanState
<1>7. ASSUME r1.kind = "search" PROVE SearchWork(M)'
  <2>1. r3' = <<>> BY <1>2, <1>3, <1>7 DEF SearchWork
  <2>2. M \ r2' = {}
    <3>1. L = graph.live BY <1>1, <1>7 DEF Loop
    <3> QED BY <1>1, <1>4, <3>1 DEF ScanM
  <2>3. SearchLimit \in Nat BY <1>3, ScanFacts DEF ScanState
  <2>4. Page(r3', Len(r3'), M \ r2', SearchLimit)
    <3>1. Len(r3') = 0 BY <2>1
    <3> QED BY <2>2, <2>3, <3>1 DEF Page, Increasing
  <2> QED BY <1>2, <2>1, <2>4 DEF SearchWork
<1>8. JoinWork(L, J)' BY <1>2, <1>4, <1>6 DEF JoinWork
<1>9. ASSUME r1.kind = "concurrency" PROVE FlowWork(T, S, O, I)'
  <2>1. L = T BY <1>1, <1>9 DEF Loop
  <2> QED BY <1>2, <1>4, <1>6, <2>1 DEF FlowWork
<1>10. ScanWork(M, L, S, T, J, O, I)' BY <1>2, <1>5, <1>7, <1>8, <1>9 DEF ScanWork
<1> QED BY <1>1, <1>2, <1>10, ScanStays DEF ScanInv

LEMMA ScanSearchTurn ==
  ASSUME ScanInv, Scans!ReadAssumption, Scans!ScanAssumption, NEW n \in r2, Scans!SearchTurn(n) PROVE ScanInv'
<1>1. PICK M, L, S, T, J, O, I :
        /\ M = ScanM /\ L = Loop /\ S = Scans!Sources /\ T = ScanT
        /\ J = ScanJ /\ O = ScanO /\ I = ScanI
  OBVIOUS
<1>2. /\ graph' = graph /\ r1' = r1 /\ r4' = r4 /\ pc = "scan" /\ pc' = "scan" /\ r1.kind = "search"
      /\ r2' = r2 \ {n}
      /\ r3' = IF n \in r1.matches THEN Scans!AppendBounded(r3, n) ELSE r3
  BY DEF Scans!SearchTurn, Scans!Matches
<1>3. ScanState(L, S) /\ Page(r3, Len(r3), M \ r2, SearchLimit)
  BY <1>1, <1>2 DEF ScanInv, ScanWork, SearchWork
<1>4. n \in graph.live /\ n \in Nat /\ M \subseteq Nat /\ SearchLimit \in Nat
  <2>1. graph \in ScanGraphs /\ r2 \subseteq L BY <1>2, <1>3 DEF ScanState
  <2>2. L = graph.live BY <1>1, <1>2 DEF Loop
  <2>3. M \subseteq graph.live BY <1>1 DEF ScanM
  <2> QED BY <2>1, <2>2, <2>3, ScanFacts
<1>5. r3 \in Seq(Nat) BY <1>3 DEF ScanState
<1>6. r3' \in Seq(Nat) /\ Page(r3', Len(r3'), M \ r2', SearchLimit)
  <2>1. CASE n \in r1.matches
    <3>1. M \ r2' = (M \ r2) \cup {n} BY <1>1, <1>2, <1>4, <2>1 DEF ScanM
    <3>2. (M \ r2) \subseteq Nat BY <1>4
    <3>3. /\ Scans!AppendBounded(r3, n) \in Seq(Nat)
          /\ Page(Scans!AppendBounded(r3, n), Len(Scans!AppendBounded(r3, n)), (M \ r2) \cup {n}, SearchLimit)
      BY Zenon, <1>3, <1>4, <1>5, <3>2, Appended
    <3> QED BY Zenon, <1>2, <2>1, <3>1, <3>3
  <2>2. CASE n \notin r1.matches
    <3>1. M \ r2' = M \ r2 BY <1>1, <1>2, <2>2 DEF ScanM
    <3> QED BY Zenon, <1>2, <1>3, <1>5, <2>2, <3>1
  <2> QED BY <2>1, <2>2
<1>7. ScanState(L, S)' BY <1>2, <1>3, <1>6 DEF ScanState
<1>8. ScanWork(M, L, S, T, J, O, I)' BY <1>2, <1>6, <1>7 DEF ScanWork, SearchWork, JoinKinds
<1> QED BY <1>1, <1>2, <1>8, ScanStays DEF ScanInv

LEMMA ScanJoinTurn ==
  ASSUME ScanInv, NEW n \in r2, Scans!JoinTurn(n) PROVE ScanInv'
<1>1. PICK M, L, S, T, J, O, I :
        /\ M = ScanM /\ L = Loop /\ S = Scans!Sources /\ T = ScanT
        /\ J = ScanJ /\ O = ScanO /\ I = ScanI
  OBVIOUS
<1>2. /\ graph' = graph /\ r1' = r1 /\ r3' = r3 /\ pc = "scan" /\ pc' = "scan" /\ r1.kind \in JoinKinds
      /\ r2' = r2 \ {n}
      /\ r4' = IF Scans!Joins(n) THEN r4 \cup {n} ELSE r4
  BY DEF Scans!JoinTurn, JoinKinds
<1>3. ScanState(L, S) /\ JoinWork(L, J)
  BY <1>1, <1>2 DEF ScanInv, ScanWork
<1>4. n \in L /\ (n \in J <=> Scans!Joins(n))
  <2>1. r2 \subseteq L /\ r2 \subseteq ScanIDs BY <1>2, <1>3 DEF ScanState
  <2> QED BY <1>1, <2>1 DEF ScanJ
<1>5. JoinWork(L, J)' BY <1>2, <1>3, <1>4 DEF JoinWork
<1>6. ScanState(L, S)' BY <1>2, <1>3 DEF ScanState, JoinKinds
<1>7. ScanWork(M, L, S, T, J, O, I)' BY <1>2, <1>5, <1>6 DEF ScanWork, JoinKinds
<1> QED BY <1>1, <1>2, <1>7, ScanStays DEF ScanInv

LEMMA ScanConcurrencyTurn ==
  ASSUME ScanInv, NEW n \in r2, Scans!ConcurrencyTurn(n) PROVE ScanInv'
<1>1. PICK M, L, S, T, J, O, I :
        /\ M = ScanM /\ L = Loop /\ S = Scans!Sources /\ T = ScanT
        /\ J = ScanJ /\ O = ScanO /\ I = ScanI
  OBVIOUS
<1>2. /\ graph' = graph /\ r1' = r1 /\ r3' = r3 /\ pc' = pc /\ r1.kind = "concurrency" /\ r2' = r2 \ {n}
      /\ \/ pc = "scan" /\ r4' = r4 \cup Scans!OutTurn(r1.node, n)
         \/ pc = "inbound" /\ r4' = r4 \cup Scans!InTurn(r1.node, n)
  BY DEF Scans!ConcurrencyTurn
<1>3. ScanState(L, S) /\ FlowWork(T, S, O, I) BY <1>1, <1>2 DEF ScanInv, ScanWork
<1>4. r2 \subseteq ScanIDs /\ O[n] = Scans!OutTurn(r1.node, n) /\ I[n] = Scans!InTurn(r1.node, n)
  <2>1. r2 \subseteq ScanIDs BY <1>3 DEF ScanState
  <2>2. \A x \in ScanIDs : O[x] = Scans!OutTurn(r1.node, x) /\ I[x] = Scans!InTurn(r1.node, x)
    BY <1>1 DEF ScanO, ScanI
  <2> QED BY <2>1, <2>2
<1>5. CASE pc = "scan"
  <2>1. r4' = r4 \cup O[n] /\ n \in T BY <1>1, <1>2, <1>3, <1>4, <1>5 DEF ScanState, Loop
  <2>2. \A c : c \in r4 <=> \E x \in T \ r2 : c \in O[x] BY <1>3, <1>5 DEF FlowWork
  <2>3. \A x : x \in T \ r2' <=> x \in T \ r2 \/ x = n BY <1>2, <2>1
  <2>4. \A c : c \in r4' <=> \E x \in T \ r2' : c \in O[x] BY <2>1, <2>2, <2>3
  <2>5. FlowWork(T, S, O, I)' BY <1>2, <1>5, <2>4 DEF FlowWork
  <2>6. ScanState(L, S)' BY <1>2, <1>3, <1>5 DEF ScanState
  <2> QED BY <1>1, <1>2, <2>5, <2>6, ScanStays DEF ScanInv, ScanWork, JoinKinds
<1>6. CASE pc = "inbound"
  <2>1. r4' = r4 \cup I[n] /\ n \in S BY <1>2, <1>3, <1>4, <1>6 DEF ScanState
  <2>2. \A c : c \in r4 <=> (\E x \in T : c \in O[x]) \/ (\E x \in S \ r2 : c \in I[x])
    BY <1>3, <1>6 DEF FlowWork
  <2>3. \A x : x \in S \ r2' <=> x \in S \ r2 \/ x = n BY <1>2, <2>1
  <2>4. \A c : c \in r4' <=> (\E x \in T : c \in O[x]) \/ (\E x \in S \ r2' : c \in I[x]) BY <2>1, <2>2, <2>3
  <2>5. FlowWork(T, S, O, I)' BY <1>2, <1>6, <2>4 DEF FlowWork
  <2>6. ScanState(L, S)' BY <1>2, <1>3, <1>6 DEF ScanState
  <2> QED BY <1>1, <1>2, <2>5, <2>6, ScanStays DEF ScanInv, ScanWork, JoinKinds
<1> QED BY <1>2, <1>5, <1>6

\* The second loop of the concurrency graph starts where the first has met everything.
LEMMA ScanNextLoop ==
  ASSUME ScanInv, Scans!ReadAssumption, Scans!ScanAssumption, Scans!NextLoop PROVE ScanInv'
<1>1. PICK M, L, S, T, J, O, I :
        /\ M = ScanM /\ L = Loop /\ S = Scans!Sources /\ T = ScanT
        /\ J = ScanJ /\ O = ScanO /\ I = ScanI
  OBVIOUS
<1>2. /\ graph' = graph /\ r1' = r1 /\ r3' = r3 /\ r4' = r4 /\ r1.kind = "concurrency"
      /\ pc = "scan" /\ pc' = "inbound" /\ r2 = {} /\ r2' = S
  BY <1>1 DEF Scans!NextLoop
<1>3. ScanState(L, S) /\ FlowWork(T, S, O, I) BY <1>1, <1>2 DEF ScanInv, ScanWork
<1>4. FlowWork(T, S, O, I)' BY <1>2, <1>3 DEF FlowWork
<1>5. S \subseteq ScanIDs BY <1>1, <1>3, ScanFacts DEF ScanState
<1>6. ScanState(L, S)' BY <1>2, <1>3, <1>5 DEF ScanState
<1> QED BY <1>1, <1>2, <1>4, <1>6, ScanStays DEF ScanInv, ScanWork, JoinKinds

LEMMA ScanFinish ==
  ASSUME ScanInv, Scans!Finish PROVE ScanInv'
<1>1. PICK M, L, S, T, J, O, I :
        /\ M = ScanM /\ L = Loop /\ S = Scans!Sources /\ T = ScanT
        /\ J = ScanJ /\ O = ScanO /\ I = ScanI
  OBVIOUS
<1>2. /\ graph' = graph /\ r1' = r1 /\ r2' = r2 /\ r3' = r3 /\ r4' = r4 /\ r2 = {}
      /\ pc = (IF r1.kind = "concurrency" THEN "inbound" ELSE "scan") /\ pc' = "done"
  BY DEF Scans!Finish
<1>3. /\ ScanState(L, S)
      /\ r1.kind = "search" => SearchWork(M)
      /\ r1.kind \in JoinKinds => JoinWork(L, J)
      /\ r1.kind = "concurrency" => FlowWork(T, S, O, I)
  BY <1>1 DEF ScanInv, ScanWork
<1>4. ScanState(L, S)' BY <1>2, <1>3 DEF ScanState
<1>5. r1.kind = "search" => SearchWork(M)' BY <1>2, <1>3 DEF SearchWork
<1>6. r1.kind \in JoinKinds => JoinWork(L, J)' BY <1>2, <1>3 DEF JoinWork, JoinKinds
<1>7. r1.kind = "concurrency" => FlowWork(T, S, O, I)' BY <1>2, <1>3 DEF FlowWork
<1> QED BY <1>1, <1>2, <1>4, <1>5, <1>6, <1>7, ScanStays DEF ScanInv, ScanWork

LEMMA ScanNext ==
  ASSUME ScanInv, Scans!ReadAssumption, Scans!ScanAssumption, [Scans!Next]_(Scans!vars) PROVE ScanInv'
<1>1. CASE Scans!Next
  BY <1>1, ScanAsk, ScanNextLoop, ScanFinish, ScanSearchTurn, ScanJoinTurn, ScanConcurrencyTurn DEF Scans!Next
<1>2. CASE UNCHANGED Scans!vars
  <2>1. PICK M, L, S, T, J, O, I :
          /\ M = ScanM /\ L = Loop /\ S = Scans!Sources /\ T = ScanT
          /\ J = ScanJ /\ O = ScanO /\ I = ScanI
    OBVIOUS
  <2>2. graph' = graph /\ r1' = r1 /\ r2' = r2 /\ r3' = r3 /\ r4' = r4 /\ pc' = pc BY <1>2 DEF Scans!vars
  <2>3. ScanWork(M, L, S, T, J, O, I) BY <2>1 DEF ScanInv
  <2>4. ScanWork(M, L, S, T, J, O, I)' BY <2>2, <2>3 DEF ScanWork, ScanState, SearchWork, JoinWork, FlowWork
  <2> QED BY <2>1, <2>2, <2>4, ScanStays DEF ScanInv
<1> QED BY <1>1, <1>2

-----------------------------------------------------------------------------
(* What a scan that has ended has found.                                   *)

\* An edge to a goroutine or channel that is reported, and a connection that comes in.
Reported(e) == e.to \in graph.live /\ Scans!IsConcurrencyNode(e.to) /\ Scans!IsConcurrencyEdge(e.type)
ComesIn(e) ==
  /\ e.from \in graph.live /\ Scans!IsConcurrencyNode(e.from)
  /\ Scans!IsConcurrencyEdge(e.type) \/ (e.type = "CALLS" /\ ScanType[e.from] = "GOROUTINE")

\* Of a node that the loop meets: whether a call of it, or its goroutine, is followed.
Followed(x) == x \notin graph.live \/ ~ Scans!IsConcurrencyNode(x)
Entered(x) == Followed(x) \/ ScanType[x] = "GOROUTINE"

LEMMA ConnectionFacts ==
  /\ \A d1, d2, e1, e2 : Scans!Connection(d1, e1) = Scans!Connection(d2, e2)
                           <=> d1 = d2 /\ e1.from = e2.from /\ e1.to = e2.to /\ e1.type = e2.type
  /\ \A d, e : LET c == Scans!Connection(d, e) IN c.direction = d /\ c.from = e.from /\ c.to = e.to
BY DEF Scans!Connection

LEMMA OutboundFacts ==
  \A x, d, c : c \in Scans!OutboundOf(x, d) <=>
    \E e \in graph.edges : c = Scans!Connection(d, e) /\ e.from = x /\ Reported(e)
BY DEF Scans!OutboundOf, Reported

LEMMA SpawnedFacts ==
  \A n, x, c : c \in Scans!SpawnedFrom(n, x) <=>
    /\ Scans!Joined(n, x, {"SPAWNS"})
    /\ \E e \in graph.edges :
         /\ c = Scans!Connection("via_goroutine", e) /\ Reported(e)
         /\ e.from = x \/ (e.from \in ScanIDs /\ Scans!Joined(x, e.from, {"CALLS"}))
<1> TAKE n, x, c
<1>1. CASE ~ Scans!Joined(n, x, {"SPAWNS"}) BY <1>1 DEF Scans!SpawnedFrom
<1>2. CASE Scans!Joined(n, x, {"SPAWNS"})
  <2>1. c \in Scans!SpawnedFrom(n, x) <=>
          \/ c \in Scans!OutboundOf(x, "via_goroutine")
          \/ \E y \in ScanIDs : c \in Scans!CalledFrom(x, y, "via_goroutine")
    BY <1>2 DEF Scans!SpawnedFrom
  <2>2. \A y : c \in Scans!CalledFrom(x, y, "via_goroutine") <=>
                 Scans!Joined(x, y, {"CALLS"}) /\ c \in Scans!OutboundOf(y, "via_goroutine")
    BY DEF Scans!CalledFrom
  <2>3. \A y : c \in Scans!OutboundOf(y, "via_goroutine") <=>
                 \E e \in graph.edges : c = Scans!Connection("via_goroutine", e) /\ e.from = y /\ Reported(e)
    BY OutboundFacts
  <2> QED BY <1>2, <2>1, <2>2, <2>3
<1> QED BY <1>1, <1>2

LEMMA OutTurnFacts ==
  \A n, x, c : c \in Scans!OutTurn(n, x) <=>
    \/ \E e \in graph.edges :
         c = Scans!Connection("outbound", e) /\ e.from = n /\ e.to = x /\ Reported(e)
    \/ /\ Followed(x) /\ Scans!Joined(n, x, {"CALLS"})
       /\ \E e \in graph.edges : c = Scans!Connection("via_call", e) /\ e.from = x /\ Reported(e)
    \/ Entered(x) /\ c \in Scans!SpawnedFrom(n, x)
<1> TAKE n, x, c
<1>1. CASE Followed(x)
  <2>1. c \in Scans!OutTurn(n, x) <=> c \in Scans!CalledFrom(n, x, "via_call") \/ c \in Scans!SpawnedFrom(n, x)
    BY <1>1 DEF Scans!OutTurn, Followed
  <2>2. c \in Scans!CalledFrom(n, x, "via_call") <=>
          /\ Scans!Joined(n, x, {"CALLS"})
          /\ \E e \in graph.edges : c = Scans!Connection("via_call", e) /\ e.from = x /\ Reported(e)
    <3>1. c \in Scans!CalledFrom(n, x, "via_call") <=>
            Scans!Joined(n, x, {"CALLS"}) /\ c \in Scans!OutboundOf(x, "via_call")
      BY DEF Scans!CalledFrom
    <3> QED BY <3>1, OutboundFacts
  <2>3. \A e : e.to = x => ~ Reported(e) BY <1>1 DEF Followed, Reported
  <2> QED BY <1>1, <2>1, <2>2, <2>3 DEF Entered
<1>2. CASE ~ Followed(x)
  <2>1. c \in Scans!OutTurn(n, x) <=>
          \/ \E e \in Scans!EdgesOf(n, x) : c = Scans!Connection("outbound", e) /\ Scans!IsConcurrencyEdge(e.type)
          \/ ScanType[x] = "GOROUTINE" /\ c \in Scans!SpawnedFrom(n, x)
    BY <1>2 DEF Scans!OutTurn, Followed
  <2>2. \A e : e \in Scans!EdgesOf(n, x) /\ Scans!IsConcurrencyEdge(e.type)
                 <=> e \in graph.edges /\ e.from = n /\ e.to = x /\ Reported(e)
    BY <1>2 DEF Scans!EdgesOf, Followed, Reported
  <2> QED BY <1>2, <2>1, <2>2 DEF Entered
<1> QED BY <1>1, <1>2

LEMMA InTurnFacts ==
  \A n, x, c : c \in Scans!InTurn(n, x) <=>
    \E e \in graph.edges : c = Scans!Connection("inbound", e) /\ e.to = n /\ e.from = x /\ ComesIn(e)
<1> TAKE n, x, c
<1>1. CASE Followed(x)
  <2>1. Scans!InTurn(n, x) = {} BY <1>1 DEF Scans!InTurn, Followed
  <2>2. \A e : e.from = x => ~ ComesIn(e) BY <1>1 DEF Followed, ComesIn
  <2> QED BY <2>1, <2>2
<1>2. CASE ~ Followed(x)
  <2>1. c \in Scans!InTurn(n, x) <=>
          \E e \in Scans!EdgesOf(x, n) :
            /\ c = Scans!Connection("inbound", e)
            /\ Scans!IsConcurrencyEdge(e.type) \/ (e.type = "CALLS" /\ ScanType[x] = "GOROUTINE")
    BY <1>2 DEF Scans!InTurn, Followed
  <2> QED BY <1>2, <2>1 DEF Scans!EdgesOf, Followed, ComesIn
<1> QED BY <1>1, <1>2

\* What the concurrency graph has collected.
LEMMA FlowFacts ==
  ASSUME ScanInv, pc = "done", r1.kind = "concurrency", Scans!ReadAssumption, Scans!ScanAssumption
  PROVE  \A c : c \in r4 <=> \/ \E x \in ScanIDs : x \in ScanT /\ c \in Scans!OutTurn(r1.node, x)
                             \/ \E x \in ScanIDs : x \in Scans!Sources /\ c \in Scans!InTurn(r1.node, x)
<1>1. graph \in ScanGraphs /\ r2 = {} /\ FlowWork(ScanT, Scans!Sources, ScanO, ScanI)
  BY DEF ScanInv, ScanWork, ScanState
<1>2. Scans!Sources \subseteq ScanIDs /\ ScanT \subseteq ScanIDs BY <1>1, ScanFacts DEF ScanT
<1>3. \A c : c \in r4 <=> (\E x \in ScanT : c \in ScanO[x]) \/ (\E x \in Scans!Sources : c \in ScanI[x])
  BY <1>1 DEF FlowWork
<1>4. \A x \in ScanIDs : ScanO[x] = Scans!OutTurn(r1.node, x) /\ ScanI[x] = Scans!InTurn(r1.node, x)
  BY DEF ScanO, ScanI
<1> QED BY <1>2, <1>3, <1>4

LEMMA EveryChannelIsFound ==
  ASSUME ScanInv, Scans!ReadAssumption, Scans!ScanAssumption
  PROVE  Scans!EveryChannelFound
<1> SUFFICES ASSUME pc = "done", r1.kind = "concurrency" PROVE Scans!EveryChannelFound BY DEF Scans!EveryChannelFound
<1>1. PICK n : n = r1.node OBVIOUS
<1>2. \A c : c \in r4 <=> \/ \E x \in ScanIDs : x \in ScanT /\ c \in Scans!OutTurn(n, x)
                          \/ \E x \in ScanIDs : x \in Scans!Sources /\ c \in Scans!InTurn(n, x)
  BY <1>1, FlowFacts
<1>3. /\ \A e \in graph.edges : e.from \in ScanIDs /\ e.to \in ScanIDs
      /\ \A e \in graph.edges : e.type = "SPAWNS" => ScanType[e.to] = "GOROUTINE"
  BY ScanFacts DEF ScanInv, ScanWork, ScanState
<1>4. \A x : x \in ScanT <=> \E e \in graph.edges : e.from = n /\ e.to = x
  BY <1>1 DEF ScanT, Scans!Targets
<1>5. \A x : x \in Scans!Sources <=> \E e \in graph.edges : e.from = x BY DEF Scans!Sources
<1>6. \A x, y, types : Scans!Joined(x, y, types) <=> \E e \in graph.edges : e.from = x /\ e.to = y /\ e.type \in types
  BY DEF Scans!Joined, Scans!EdgesOf
<1>7. \A e1, e2 : e1.to = e2.to /\ e1.type = e2.type => (Reported(e1) <=> Reported(e2)) BY DEF Reported
<1>8. \A e1, e2 : e1.from = e2.from /\ e1.type = e2.type => (ComesIn(e1) <=> ComesIn(e2)) BY DEF ComesIn
<1>9. ASSUME NEW e \in graph.edges
      PROVE  Scans!Connection("outbound", e) \in r4 <=> e.from = n /\ Reported(e)
  <2>1. \A x : Scans!Connection("outbound", e) \in Scans!OutTurn(n, x) <=> e.from = n /\ e.to = x /\ Reported(e)
    <3> TAKE x
    <3>1. Scans!Connection("outbound", e) \notin Scans!SpawnedFrom(n, x) BY SpawnedFacts, ConnectionFacts
    <3>2. \A f : Scans!Connection("outbound", e) # Scans!Connection("via_call", f) BY ConnectionFacts
    <3>3. Scans!Connection("outbound", e) \in Scans!OutTurn(n, x) <=>
            \E f \in graph.edges :
              Scans!Connection("outbound", e) = Scans!Connection("outbound", f) /\ f.from = n /\ f.to = x /\ Reported(f)
      BY <3>1, <3>2, OutTurnFacts
    <3> QED BY <1>7, <3>3, ConnectionFacts
  <2>2. \A x : Scans!Connection("outbound", e) \notin Scans!InTurn(n, x) BY InTurnFacts, ConnectionFacts
  <2> QED BY <1>2, <1>3, <1>4, <2>1, <2>2
<1>10. ASSUME NEW e \in graph.edges
       PROVE  Scans!Connection("via_call", e) \in r4 <=>
                Followed(e.from) /\ Scans!Joined(n, e.from, {"CALLS"}) /\ Reported(e)
  <2>1. \A x : Scans!Connection("via_call", e) \in Scans!OutTurn(n, x) <=>
                 Followed(x) /\ Scans!Joined(n, x, {"CALLS"}) /\ e.from = x /\ Reported(e)
    <3> TAKE x
    <3>1. Scans!Connection("via_call", e) \notin Scans!SpawnedFrom(n, x) BY SpawnedFacts, ConnectionFacts
    <3>2. \A f : Scans!Connection("via_call", e) # Scans!Connection("outbound", f) BY ConnectionFacts
    <3>3. Scans!Connection("via_call", e) \in Scans!OutTurn(n, x) <=>
            /\ Followed(x) /\ Scans!Joined(n, x, {"CALLS"})
            /\ \E f \in graph.edges :
                 Scans!Connection("via_call", e) = Scans!Connection("via_call", f) /\ f.from = x /\ Reported(f)
      BY <3>1, <3>2, OutTurnFacts
    <3> QED BY <1>7, <3>3, ConnectionFacts
  <2>2. \A x : Scans!Connection("via_call", e) \notin Scans!InTurn(n, x) BY InTurnFacts, ConnectionFacts
  <2>3. Scans!Joined(n, e.from, {"CALLS"}) => e.from \in ScanT BY <1>4, <1>6
  <2> QED BY <1>2, <1>3, <2>1, <2>2, <2>3
<1>11. ASSUME NEW e \in graph.edges
       PROVE  Scans!Connection("via_goroutine", e) \in r4 <=>
                /\ Reported(e)
                /\ \E x \in ScanIDs : /\ Scans!Joined(n, x, {"SPAWNS"})
                                      /\ e.from = x \/ Scans!Joined(x, e.from, {"CALLS"})
  <2>1. \A x : Scans!Connection("via_goroutine", e) \in Scans!OutTurn(n, x) <=>
                 /\ Entered(x) /\ Scans!Joined(n, x, {"SPAWNS"}) /\ Reported(e)
                 /\ e.from = x \/ Scans!Joined(x, e.from, {"CALLS"})
    <3> TAKE x
    <3>1. Scans!Connection("via_goroutine", e) \in Scans!SpawnedFrom(n, x) <=>
            /\ Scans!Joined(n, x, {"SPAWNS"}) /\ Reported(e)
            /\ e.from = x \/ Scans!Joined(x, e.from, {"CALLS"})
      <4>1. Scans!Connection("via_goroutine", e) \in Scans!SpawnedFrom(n, x) <=>
              /\ Scans!Joined(n, x, {"SPAWNS"})
              /\ \E f \in graph.edges :
                   /\ Scans!Connection("via_goroutine", e) = Scans!Connection("via_goroutine", f) /\ Reported(f)
                   /\ f.from = x \/ (f.from \in ScanIDs /\ Scans!Joined(x, f.from, {"CALLS"}))
        BY SpawnedFacts
      <4>2. \A f : Scans!Connection("via_goroutine", e) = Scans!Connection("via_goroutine", f)
                     => e.from = f.from /\ (Reported(e) <=> Reported(f))
        BY <1>7, ConnectionFacts
      <4> QED BY <1>3, <4>1, <4>2
    <3>2. \A f : /\ Scans!Connection("via_goroutine", e) # Scans!Connection("outbound", f)
                 /\ Scans!Connection("via_goroutine", e) # Scans!Connection("via_call", f)
      BY ConnectionFacts
    <3> QED BY <3>1, <3>2, OutTurnFacts
  <2>2. \A x : Scans!Connection("via_goroutine", e) \notin Scans!InTurn(n, x) BY InTurnFacts, ConnectionFacts
  <2>3. \A x : Scans!Joined(n, x, {"SPAWNS"}) => x \in ScanT /\ Entered(x) BY <1>3, <1>4, <1>6 DEF Entered
  <2> QED BY <1>2, <2>1, <2>2, <2>3
<1>12. ASSUME NEW e \in graph.edges
       PROVE  Scans!Connection("inbound", e) \in r4 <=> e.to = n /\ ComesIn(e)
  <2>1. \A x : Scans!Connection("inbound", e) \in Scans!InTurn(n, x) <=> e.to = n /\ e.from = x /\ ComesIn(e)
    <3> TAKE x
    <3>1. Scans!Connection("inbound", e) \in Scans!InTurn(n, x) <=>
            \E f \in graph.edges :
              Scans!Connection("inbound", e) = Scans!Connection("inbound", f) /\ f.to = n /\ f.from = x /\ ComesIn(f)
      BY InTurnFacts
    <3> QED BY <1>8, <3>1, ConnectionFacts
  <2>2. ASSUME NEW x PROVE Scans!Connection("inbound", e) \notin Scans!OutTurn(n, x)
    <3>1. Scans!Connection("inbound", e) \notin Scans!SpawnedFrom(n, x) BY SpawnedFacts, ConnectionFacts
    <3>2. \A f : /\ Scans!Connection("inbound", e) # Scans!Connection("outbound", f)
                 /\ Scans!Connection("inbound", e) # Scans!Connection("via_call", f)
      BY ConnectionFacts
    <3> QED BY <3>1, <3>2, OutTurnFacts
  <2> QED BY <1>2, <1>3, <1>5, <2>1, <2>2
<1>13. ASSUME NEW e \in graph.edges, NEW d \in {"outbound", "via_call", "via_goroutine"}
       PROVE  Scans!Connection(d, e) \in r4 <=> e.from \in Scans!Runs(n, d) /\ Reported(e)
  <2>1. CASE d = "outbound"
    <3>1. Scans!Runs(n, d) = {n} BY <2>1 DEF Scans!Runs
    <3> QED BY <1>9, <2>1, <3>1
  <2>2. CASE d = "via_call"
    <3>1. e.from \in Scans!Runs(n, d) <=> Followed(e.from) /\ Scans!Joined(n, e.from, {"CALLS"})
      BY <1>3, <2>2 DEF Scans!Runs, Scans!Calls, Followed
    <3> QED BY <1>10, <2>2, <3>1
  <2>3. CASE d = "via_goroutine"
    <3>1. e.from \in Scans!Runs(n, d) <=>
            \E x \in ScanIDs : Scans!Joined(n, x, {"SPAWNS"}) /\ (e.from = x \/ Scans!Joined(x, e.from, {"CALLS"}))
      BY <1>3, <2>3 DEF Scans!Runs, Scans!Starts
    <3> QED BY <1>11, <2>3, <3>1
  <2> QED BY <2>1, <2>2, <2>3
<1> QED BY <1>1, <1>12, <1>13 DEF Scans!EveryChannelFound, Reported, ComesIn

LEMMA ScanTyped ==
  ASSUME ScanInv, Scans!ReadAssumption, Scans!ScanAssumption
  PROVE  Scans!TypeOK
<1>1. /\ graph \in ScanGraphs /\ pc \in {"ask", "scan", "inbound", "done", "failed"} /\ r2 \subseteq ScanIDs
      /\ r3 \in Seq(Nat) /\ r1.kind \in Scans!Kinds /\ (r1.kind # "search" => r3 = <<>>)
      /\ r1.kind = "search" \/ pc \in {"ask", "failed"} => r4 = {}
      /\ pc = "inbound" => r1.kind = "concurrency"
  BY DEF ScanInv, ScanWork, ScanState
<1>2. ScanIDs \subseteq Nat /\ SearchLimit \in Nat /\ graph.live \subseteq ScanIDs BY <1>1, ScanFacts
<1>3. r3 \in Seq(ScanIDs) /\ Len(r3) <= SearchLimit
  <2>1. CASE r3 = <<>>
    <3>1. Len(r3) = 0 BY <2>1
    <3> QED BY <1>2, <2>1, <3>1
  <2>2. CASE r3 # <<>>
    <3>1. Page(r3, Len(r3), ScanM \ r2, SearchLimit)
      <4>1. r1.kind = "search" BY <1>1, <2>2
      <4>2. SearchWork(ScanM) BY <4>1 DEF ScanInv, ScanWork
      <4>3. pc \in {"scan", "done"} BY <1>1, <2>2, <4>1, <4>2 DEF SearchWork
      <4> QED BY <4>2, <4>3 DEF SearchWork
    <3>2. ScanM \ r2 \subseteq ScanIDs BY <1>2 DEF ScanM
    <3>3. Len(r3) <= SearchLimit /\ \A i \in 1..Len(r3) : r3[i] \in ScanIDs BY <3>1, <3>2 DEF Page
    <3>4. r3 \in Seq(ScanIDs) BY <1>1, <3>3, SeqRange
    <3> QED BY <3>3, <3>4
  <2> QED BY <2>1, <2>2
<1>4. ASSUME r1.kind = "concurrency" PROVE Scans!FlowNodes \subseteq graph.live
  <2>1. ASSUME NEW c \in r4 PROVE (IF c.direction = "inbound" THEN c.from ELSE c.to) \in graph.live
    <3>1. pc \in {"scan", "inbound", "done"} /\ FlowWork(ScanT, Scans!Sources, ScanO, ScanI)
      BY <1>1, <1>4, <2>1 DEF ScanInv, ScanWork
    <3>2. (\E x \in ScanT : c \in ScanO[x]) \/ (\E x \in Scans!Sources : c \in ScanI[x])
      BY <2>1, <3>1 DEF FlowWork
    <3>3. ScanT \subseteq ScanIDs /\ Scans!Sources \subseteq ScanIDs BY <1>1, ScanFacts DEF ScanT
    <3>4. \/ \E x : c \in Scans!OutTurn(r1.node, x)
          \/ \E x : c \in Scans!InTurn(r1.node, x)
      <4>1. \A x \in ScanIDs : ScanO[x] = Scans!OutTurn(r1.node, x) /\ ScanI[x] = Scans!InTurn(r1.node, x)
        BY DEF ScanO, ScanI
      <4> QED BY <3>2, <3>3, <4>1
    <3>5. CASE \E x : c \in Scans!OutTurn(r1.node, x)
      <4>1. PICK x : c \in Scans!OutTurn(r1.node, x) BY <3>5
      <4>2. \E e \in graph.edges, d \in {"outbound", "via_call", "via_goroutine"} :
              c = Scans!Connection(d, e) /\ Reported(e)
        BY <4>1, OutTurnFacts, SpawnedFacts
      <4>3. PICK e \in graph.edges, d \in {"outbound", "via_call", "via_goroutine"} :
              c = Scans!Connection(d, e) /\ Reported(e)
        BY <4>2
      <4>4. c.direction = d /\ c.to = e.to BY <4>3, ConnectionFacts
      <4> QED BY <4>3, <4>4 DEF Reported
    <3>6. CASE \E x : c \in Scans!InTurn(r1.node, x)
      <4>1. PICK e \in graph.edges : c = Scans!Connection("inbound", e) /\ ComesIn(e) BY <3>6, InTurnFacts
      <4>2. c.direction = "inbound" /\ c.from = e.from BY <4>1, ConnectionFacts
      <4> QED BY <4>1, <4>2 DEF ComesIn
    <3> QED BY <3>4, <3>5, <3>6
  <2> QED BY <2>1 DEF Scans!FlowNodes
<1>5. ASSUME r1.kind \in {"dependencies", "dependents", "implementations"} PROVE r4 \subseteq graph.live
  <2>1. pc \in {"ask", "failed", "scan", "done"} BY <1>1, <1>5
  <2>2. pc \in {"scan", "done"} => r4 \subseteq ScanJ BY <1>5 DEF ScanInv, ScanWork, JoinWork, JoinKinds
  <2>3. ScanJ \subseteq graph.live BY DEF ScanJ, Scans!Joins
  <2> QED BY <1>1, <2>1, <2>2, <2>3
<1> QED BY <1>1, <1>3, <1>4, <1>5 DEF Scans!TypeOK

LEMMA SearchGivesFirstPage ==
  ASSUME ScanInv, Scans!ReadAssumption, Scans!ScanAssumption
  PROVE  Scans!SearchIsFirstPage
<1> SUFFICES ASSUME pc = "done", r1.kind = "search" PROVE Scans!SearchIsFirstPage BY Zenon DEF Scans!SearchIsFirstPage
<1>1. PICK M : M = ScanM OBVIOUS
<1>2. graph \in ScanGraphs /\ r2 = {} /\ r3 \in Seq(Nat) /\ SearchWork(M) BY <1>1 DEF ScanInv, ScanWork, ScanState
<1>3. M \subseteq Nat /\ IsFiniteSet(M) /\ SearchLimit \in Nat
  <2>1. M \subseteq ScanIDs /\ ScanIDs \subseteq Nat /\ IsFiniteSet(ScanIDs) /\ SearchLimit \in Nat
    BY <1>1, <1>2, ScanFacts DEF ScanM
  <2> QED BY Zenon, <2>1, FS_Subset
<1>4. PICK n, o, k : n = Cardinality(M) /\ o = InOrder(M) /\ k = Len(r3) BY Zenon
<1>5. Page(r3, k, M, SearchLimit)
  <2>1. M \ r2 = M BY <1>2
  <2> QED BY <1>2, <1>4, <2>1 DEF SearchWork
<1>6. /\ k = IF n < SearchLimit THEN n ELSE SearchLimit
      /\ \A i \in 1..k : i <= n /\ r3[i] = o[i]
  <2>1. k = IF Cardinality(M) < SearchLimit THEN Cardinality(M) ELSE SearchLimit
    BY Zenon, <1>3, <1>5, PageBegins
  <2>2. Begins(r3, k, M) BY Zenon, <1>3, <1>5, PageBegins
  <2> QED BY <1>4, <2>1, <2>2 DEF Begins
<1>7. o \in [1..n -> M] /\ n \in Nat BY Zenon, <1>3, <1>4, InOrderFacts
<1>8. o \in Seq(M) /\ Len(o) = n BY <1>7
<1>9. r3 = SubSeq(o, 1, k)
  <2>1. k \in Nat /\ k <= n BY <1>3, <1>6, <1>7
  <2>2. SubSeq(o, 1, k) \in Seq(M) /\ Len(SubSeq(o, 1, k)) = k BY <1>8, <2>1
  <2>3. \A i \in 1..k : SubSeq(o, 1, k)[i] = o[i] BY <1>8, <2>1
  <2>4. PICK s : s = SubSeq(o, 1, k) BY Zenon
  <2>5. s \in Seq(M) /\ Len(s) = k /\ \A i \in 1..k : s[i] = r3[i] BY <1>6, <2>2, <2>3, <2>4
  <2>6. r3 = s BY <1>2, <1>4, <2>5
  <2> QED BY <2>4, <2>6
<1>10. Scans!InOrder(r1.matches \cap graph.live) = o BY <1>1, <1>4, ScanNames DEF ScanM
<1> QED BY Zenon, <1>6, <1>8, <1>9, <1>10 DEF Scans!SearchIsFirstPage

LEMMA DirectionsDoAgree ==
  ASSUME ScanInv, Scans!ReadAssumption, Scans!ScanAssumption
  PROVE  Scans!DirectionsAgree
<1> SUFFICES ASSUME pc = "done", r1.kind \in {"dependencies", "dependents"}, NEW m \in graph.live
             PROVE  m \in r4 <=> \E e \in graph.edges :
                      /\ {e.from, e.to} = {m, r1.node} /\ e.type \in Scans!DependencyTypes
                      /\ r1.kind = "dependents" => e.to = r1.node
                      /\ r1.kind = "dependencies" => e.from = r1.node
  BY Zenon DEF Scans!DirectionsAgree
<1>1. graph \in ScanGraphs /\ r2 = {} /\ JoinWork(Loop, ScanJ)
  BY DEF ScanInv, ScanWork, ScanState, JoinKinds
<1>2. m \in ScanIDs BY <1>1, ScanFacts
<1>3. m \in r4 <=> m \in Loop /\ Scans!Joins(m) BY <1>1, <1>2 DEF JoinWork, ScanJ
<1>4. CASE r1.kind = "dependencies"
  <2>1. Scans!Joins(m) <=> \E e \in graph.edges : e.from = r1.node /\ e.to = m /\ e.type \in Scans!DependencyTypes
    BY <1>4 DEF Scans!Joins, Scans!Joined, Scans!EdgesOf
  <2>2. Scans!Joins(m) => m \in Loop BY <1>4, <2>1 DEF Loop, ScanT, Scans!Targets
  <2> QED BY <1>3, <1>4, <2>1, <2>2
<1>5. CASE r1.kind = "dependents"
  <2>1. Scans!Joins(m) <=> \E e \in graph.edges : e.from = m /\ e.to = r1.node /\ e.type \in Scans!DependencyTypes
    BY <1>5 DEF Scans!Joins, Scans!Joined, Scans!EdgesOf
  <2>2. Scans!Joins(m) => m \in Loop BY <1>5, <2>1 DEF Loop, Scans!Sources
  <2> QED BY <1>3, <1>5, <2>1, <2>2
<1> QED BY Zenon, <1>4, <1>5

\* Search, dependencies, dependents and the concurrency graph: for every graph, every query
\* and every order in which a Go map is walked, the answer holds what is asked for and
\* nothing else, and of a search the first page in order.
THEOREM ScansAreComplete == Spec => []ScansMissNothing
<1> DEFINE Inv == asked = "scan" => ScanInv
<1> USE Inputs DEF Inputs
<1>1. Init => Inv BY ScanInit
<1>2. Inv /\ [Next]_vars => Inv'
  <2> SUFFICES ASSUME asked' = "scan", Inv, [Next]_vars PROVE ScanInv'
    OBVIOUS
  <2>1. asked = "scan" BY SameQuestion
  <2>2. [Scans!Next]_(Scans!vars)
    <3> HIDE DEF Inv, Inputs
    <3> QED BY <2>1 DEF Next, vars, Rest5, Scans!vars
  <2> QED BY <2>1, <2>2, ScanNext
<1>3. Inv => ScansMissNothing
  BY ScanTyped, SearchGivesFirstPage, DirectionsDoAgree, EveryChannelIsFound DEF ScansMissNothing
<1> QED BY <1>1, <1>2, <1>3, PTL DEF Spec


-----------------------------------------------------------------------------
(* The folder tree: a way is a path of children that ends where it meets   *)
(* itself.  The calls in progress are a way from the root, each with a     *)
(* number of children taken; what is listed so far are the ways that are   *)
(* not pending, and the next call is the way that follows in the preorder. *)

LEMMA TreeNames == \A S : (Tree!IsFiniteSet(S) <=> IsFiniteSet(S)) /\ Tree!Cardinality(S) = Cardinality(S)
BY DEF Tree!IsFiniteSet, IsFiniteSet, Tree!Cardinality, Cardinality

\* Of a finite set in strict order, the i-th element has i - 1 before it.
LEMMA Positions ==
  ASSUME NEW S, IsFiniteSet(S), NEW below \in [S -> SUBSET S],
         \A x, y \in S : x \in below[y] => below[x] \subseteq below[y],
         \A x \in S : x \notin below[x],
         \A x, y \in S : x # y => x \in below[y] \/ y \in below[x]
  PROVE  /\ Cardinality(S) \in Nat
         /\ \A x \in S : Cardinality(below[x]) \in 0..(Cardinality(S) - 1)
         /\ \A x, y \in S : x \in below[y] <=> Cardinality(below[x]) < Cardinality(below[y])
         /\ \A x, y \in S : Cardinality(below[x]) = Cardinality(below[y]) => x = y
         /\ \A i \in 1..Cardinality(S) : \E x \in S : Cardinality(below[x]) = i - 1
<1> DEFINE n == Cardinality(S)
           r == [x \in S |-> Cardinality(below[x])]
<1>1. n \in Nat BY FS_CardinalityType
<1>2. ASSUME NEW x \in S
      PROVE  IsFiniteSet(below[x]) /\ Cardinality(below[x]) \in 0..(n - 1)
  <2>1. below[x] \in SUBSET S /\ below[x] # S BY <1>2
  <2>2. IsFiniteSet(below[x]) /\ Cardinality(below[x]) <= n /\ (Cardinality(below[x]) = n => below[x] = S)
    BY <2>1, FS_Subset
  <2>3. Cardinality(below[x]) \in Nat BY <2>2, FS_CardinalityType
  <2> QED BY <1>1, <2>1, <2>2, <2>3
<1>3. ASSUME NEW x \in S, NEW y \in S, x \in below[y] PROVE r[x] < r[y]
  <2>1. below[x] \in SUBSET below[y] /\ below[x] # below[y] BY <1>3
  <2>2. IsFiniteSet(below[y]) BY <1>2
  <2>3. Cardinality(below[x]) <= Cardinality(below[y]) /\ Cardinality(below[x]) # Cardinality(below[y])
    BY <2>1, <2>2, FS_Subset
  <2>4. Cardinality(below[x]) \in Nat /\ Cardinality(below[y]) \in Nat BY <1>1, <1>2
  <2> QED BY <2>3, <2>4
<1>4. r \in [S -> 0..(n - 1)] BY <1>2
<1> HIDE DEF r, n
<1>5. \A x, y \in S : r[x] \in Nat /\ r[y] \in Nat
  <2>1. 0..(n - 1) \subseteq Nat BY <1>1
  <2> QED BY <1>4, <2>1
<1>6. \A x, y \in S : r[x] = r[y] => x = y BY <1>3, <1>5
<1>7. \A x, y \in S : x \in below[y] <=> r[x] < r[y]
  <2> TAKE x, y \in S
  <2>1. CASE x = y BY <1>5, <2>1
  <2>2. CASE x \in below[y] BY <1>3, <2>2
  <2>3. CASE x # y /\ x \notin below[y]
    <3>1. r[y] < r[x] BY <1>3, <2>3
    <3> QED BY <1>5, <2>3, <3>1
  <2> QED BY <2>1, <2>2, <2>3
<1>8. r \in Surjection(S, 0..(n - 1))
  <2>1. r \in Injection(S, 0..(n - 1)) BY Zenon, <1>4, <1>6, Fun_IsInj
  <2>2. IsFiniteSet(0..(n - 1)) /\ Cardinality(0..(n - 1)) = n
    <3>1. 0 \in Int /\ n - 1 \in Int BY <1>1
    <3>2. IsFiniteSet(0..(n - 1)) /\ Cardinality(0..(n - 1)) = IF 0 > n - 1 THEN 0 ELSE (n - 1) - 0 + 1
      BY <3>1, FS_Interval
    <3> QED BY <1>1, <3>2
  <2> QED BY <2>1, <2>2, FS_Injection DEF n
<1>9. \A i \in 1..n : \E x \in S : r[x] = i - 1
  <2>1. \A t \in 0..(n - 1) : \E x \in S : r[x] = t BY Zenon, <1>8 DEF Surjection
  <2>2. \A i \in 1..n : i - 1 \in 0..(n - 1) BY <1>1
  <2> QED BY <2>1, <2>2
<1>10. \A x \in S : r[x] = Cardinality(below[x]) BY DEF r
<1> QED BY <1>1, <1>4, <1>6, <1>7, <1>9, <1>10 DEF n

\* compareRepositoryStructureNodes is a strict order.
LEMMA BeforeOrders ==
  ASSUME Tree!StructureAssumption
  PROVE  /\ \A a \in TreeIDs : ~ Tree!Before(a, a)
         /\ \A a, b, c \in TreeIDs : Tree!Before(a, b) /\ Tree!Before(b, c) => Tree!Before(a, c)
         /\ \A a, b \in TreeIDs : a # b => Tree!Before(a, b) \/ Tree!Before(b, a)
<1>1. \A a \in TreeIDs : a \in Nat /\ Tree!Rank(a) \in Int BY DEF Tree!StructureAssumption, Tree!Rank, Tree!Ranks
<1> QED BY <1>1 DEF Tree!Before

\* The children in order, each once.
LEMMA ChildrenFacts ==
  ASSUME Tree!StructureAssumption, graph \in TreeGraphs, NEW n
  PROVE  /\ Tree!ChildSet(n) \subseteq graph.live /\ Tree!ChildSet(n) \subseteq TreeIDs
         /\ IsFiniteSet(Tree!ChildSet(n)) /\ Cardinality(Tree!ChildSet(n)) \in Nat
         /\ Tree!Children(n) \in [1..Cardinality(Tree!ChildSet(n)) -> Tree!ChildSet(n)]
         /\ \A m \in Tree!ChildSet(n) : \E i \in 1..Cardinality(Tree!ChildSet(n)) : Tree!Children(n)[i] = m
         /\ \A i, j \in 1..Cardinality(Tree!ChildSet(n)) :
              i < j => Tree!Before(Tree!Children(n)[i], Tree!Children(n)[j])
<1> DEFINE S == Tree!ChildSet(n)
           below == [m \in S |-> {k \in S : Tree!Before(k, m)}]
           at(i) == CHOOSE m \in S : Cardinality({k \in S : Tree!Before(k, m)}) = i - 1
<1>1. Tree!Children(n) = [i \in 1..Cardinality(S) |-> at(i)]
  BY Zenon DEF Tree!Children, Tree!Sorted, Tree!Cardinality, Cardinality
<1>2. S \subseteq graph.live /\ S \subseteq TreeIDs BY DEF Tree!ChildSet, Tree!StructureAssumption
<1>3. IsFiniteSet(S) BY <1>2, TreeNames, FS_Subset DEF Tree!StructureAssumption
<1> HIDE DEF S
<1>4. below \in [S -> SUBSET S] OBVIOUS
<1>5. /\ \A x, y \in S : x \in below[y] => below[x] \subseteq below[y]
      /\ \A x \in S : x \notin below[x]
      /\ \A x, y \in S : x # y => x \in below[y] \/ y \in below[x]
  BY <1>2, BeforeOrders
<1>6. \A x \in S : below[x] = {k \in S : Tree!Before(k, x)} OBVIOUS
<1>7. \A x, y \in S : x \in below[y] <=> Tree!Before(x, y) OBVIOUS
<1> HIDE DEF below
<1>8. /\ Cardinality(S) \in Nat
      /\ \A x \in S : Cardinality(below[x]) \in 0..(Cardinality(S) - 1)
      /\ \A x, y \in S : x \in below[y] <=> Cardinality(below[x]) < Cardinality(below[y])
      /\ \A x, y \in S : Cardinality(below[x]) = Cardinality(below[y]) => x = y
      /\ \A i \in 1..Cardinality(S) : \E x \in S : Cardinality(below[x]) = i - 1
  BY <1>3, <1>4, <1>5, Positions
<1>9. ASSUME NEW i \in 1..Cardinality(S)
      PROVE  Tree!Children(n)[i] = at(i) /\ at(i) \in S /\ Cardinality(below[at(i)]) = i - 1
  <2>1. Tree!Children(n)[i] = at(i)
    <3> HIDE DEF at
    <3> QED BY <1>1
  <2>2. \E x \in S : Cardinality({k \in S : Tree!Before(k, x)}) = i - 1 BY <1>6, <1>8
  <2>3. at(i) \in S /\ Cardinality({k \in S : Tree!Before(k, at(i))}) = i - 1 BY <2>2, Zenon
  <2> HIDE DEF at
  <2> QED BY <1>6, <2>1, <2>3
<1> HIDE DEF at
<1>10. Tree!Children(n) \in [1..Cardinality(S) -> S] BY <1>1, <1>9
<1>11. ASSUME NEW m \in S PROVE \E i \in 1..Cardinality(S) : Tree!Children(n)[i] = m
  <2> DEFINE i == Cardinality(below[m]) + 1
  <2>1. i \in 1..Cardinality(S) /\ i - 1 = Cardinality(below[m]) BY <1>8
  <2> HIDE DEF i
  <2>2. at(i) \in S /\ Cardinality(below[at(i)]) = Cardinality(below[m]) BY <1>9, <2>1
  <2>3. at(i) = m BY <1>8, <2>2
  <2> QED BY <1>9, <2>1, <2>3
<1>12. ASSUME NEW i \in 1..Cardinality(S), NEW j \in 1..Cardinality(S), i < j
       PROVE  Tree!Before(Tree!Children(n)[i], Tree!Children(n)[j])
  <2>1. Cardinality(below[at(i)]) < Cardinality(below[at(j)]) BY <1>9, <1>12
  <2> QED BY <1>7, <1>8, <1>9, <2>1
<1> QED BY <1>2, <1>3, <1>8, <1>10, <1>11, <1>12 DEF S

\* The ways of k steps that go on from a node not met before only, and those within a depth.
IsWay(K, p) == \A i \in 1..(Len(p) - 1) : p[i + 1] \in K[p[i]] /\ \A j \in 1..(i - 1) : p[j] # p[i]
WaysOf(K, r, k) == {p \in Seq(DOMAIN K) : Len(p) = k + 1 /\ p[1] = r /\ IsWay(K, p)}
Ways(K, r, d) == UNION {WaysOf(K, r, k) : k \in 0..d}

LEMMA AppendAny ==
  ASSUME NEW N, NEW p \in Seq(N), NEW m
  PROVE  /\ Len(Append(p, m)) = Len(p) + 1 /\ Append(p, m)[Len(p) + 1] = m
         /\ \A i \in 1..Len(p) : Append(p, m)[i] = p[i]
OBVIOUS

LEMMA AllButLast ==
  ASSUME NEW N, NEW p \in Seq(N), Len(p) # 0
  PROVE  /\ SubSeq(p, 1, Len(p) - 1) \in Seq(N) /\ Len(SubSeq(p, 1, Len(p) - 1)) = Len(p) - 1
         /\ \A i \in 1..(Len(p) - 1) : SubSeq(p, 1, Len(p) - 1)[i] = p[i]
<1> DEFINE n == Len(p) - 1
<1>1. n \in Nat /\ n <= Len(p) /\ \A i \in 1..Len(p) : p[i] \in N OBVIOUS
<1> HIDE DEF n
<1>2. SubSeq(p, 1, n) = [i \in 1..n |-> p[i]] BY <1>1
<1>3. \A i \in 1..n : i \in 1..Len(p) BY <1>1
<1>4. SubSeq(p, 1, n) \in Seq(N) /\ Len(SubSeq(p, 1, n)) = n BY <1>1, <1>2, <1>3
<1>5. \A i \in 1..n : SubSeq(p, 1, n)[i] = p[i] BY <1>2
<1> QED BY <1>4, <1>5 DEF n

\* A way, and one step more.
LEMMA WayAppend ==
  ASSUME NEW N, NEW K \in [N -> SUBSET N], NEW p \in Seq(N), Len(p) # 0, NEW m \in N
  PROVE  IsWay(K, Append(p, m)) <=>
           IsWay(K, p) /\ m \in K[p[Len(p)]] /\ \A j \in 1..(Len(p) - 1) : p[j] # p[Len(p)]
<1> DEFINE q == Append(p, m)
           n == Len(p)
<1>1. n \in Nat /\ n # 0 /\ Len(q) = n + 1 /\ q[n + 1] = m /\ \A i \in 1..n : q[i] = p[i] OBVIOUS
<1> HIDE DEF q, n
<1>2. 1..((n + 1) - 1) = 1..(n - 1) \cup {n} /\ \A i \in 1..(n - 1) : i \in 1..n /\ i + 1 \in 1..n BY <1>1
<1>3. n \in 1..n /\ \A j \in 1..(n - 1) : j \in 1..n BY <1>1
<1>4. \A i \in 1..(n - 1) : \A j \in 1..(i - 1) : j \in 1..n BY <1>1
<1>5. IsWay(K, q) <=> /\ \A i \in 1..(n - 1) : q[i + 1] \in K[q[i]] /\ \A j \in 1..(i - 1) : q[j] # q[i]
                      /\ q[n + 1] \in K[q[n]] /\ \A j \in 1..(n - 1) : q[j] # q[n]
  BY <1>1, <1>2 DEF IsWay
<1>6. IsWay(K, p) <=> \A i \in 1..(n - 1) : p[i + 1] \in K[p[i]] /\ \A j \in 1..(i - 1) : p[j] # p[i] BY DEF IsWay, n
<1> QED BY <1>1, <1>2, <1>3, <1>4, <1>5, <1>6 DEF q, n

\* Those ways that go on, one step longer.
Fresh(p) == ~ \E i \in 1..(Len(p) - 1) : p[i] = p[Len(p)]
Onward(K, p) == {Append(p, m) : m \in K[p[Len(p)]]}
Longer(K, W) == UNION {Onward(K, p) : p \in {q \in W : Fresh(q)}}

LEMMA LongerHolds == \A K, W, w : w \in Longer(K, W) <=> \E p \in W : Fresh(p) /\ w \in Onward(K, p)
BY Zenon DEF Longer

LEMMA WaysFrom ==
  ASSUME NEW N, NEW K \in [N -> SUBSET N], NEW r \in N
  PROVE  /\ WaysOf(K, r, 0) = {<<r>>}
         /\ \A k \in Nat : WaysOf(K, r, k + 1) = Longer(K, WaysOf(K, r, k))
<1>1. DOMAIN K = N OBVIOUS
<1>2. WaysOf(K, r, 0) = {<<r>>}
  <2>1. <<r>> \in Seq(N) /\ Len(<<r>>) = 0 + 1 /\ <<r>>[1] = r OBVIOUS
  <2>2. IsWay(K, <<r>>) BY <2>1 DEF IsWay
  <2>3. \A p \in Seq(N) : Len(p) = 0 + 1 /\ p[1] = r => p = <<r>> OBVIOUS
  <2>4. <<r>> \in WaysOf(K, r, 0) BY Zenon, <1>1, <2>1, <2>2 DEF WaysOf
  <2>5. \A p \in WaysOf(K, r, 0) : p = <<r>> BY Zenon, <1>1, <2>3 DEF WaysOf
  <2> QED BY Zenon, <2>4, <2>5
<1>3. ASSUME NEW k \in Nat
      PROVE  WaysOf(K, r, k + 1) = Longer(K, WaysOf(K, r, k))
  <2>1. ASSUME NEW w \in WaysOf(K, r, k + 1)
        PROVE  \E p \in WaysOf(K, r, k) : /\ ~ \E i \in 1..(Len(p) - 1) : p[i] = p[Len(p)]
                                          /\ \E m \in K[p[Len(p)]] : w = Append(p, m)
    <3> DEFINE p == SubSeq(w, 1, k + 1)
               m == w[k + 2]
    <3>1. w \in Seq(N) /\ Len(w) = k + 2 /\ w[1] = r /\ IsWay(K, w) BY <1>1 DEF WaysOf
    <3>2. p \in Seq(N) /\ Len(p) = k + 1 /\ p[1] = r /\ m \in N BY <3>1
    <3>3. w = Append(p, m) BY <3>1
    <3> HIDE DEF p, m
    <3>4. IsWay(K, p) /\ m \in K[p[Len(p)]] /\ \A j \in 1..(Len(p) - 1) : p[j] # p[Len(p)] BY <3>1, <3>2, <3>3, WayAppend
    <3>5. p \in WaysOf(K, r, k) BY <1>1, <3>2, <3>4 DEF WaysOf
    <3> QED BY <3>3, <3>4, <3>5
  <2>2. ASSUME NEW p \in WaysOf(K, r, k), ~ \E i \in 1..(Len(p) - 1) : p[i] = p[Len(p)], NEW m \in K[p[Len(p)]]
        PROVE  Append(p, m) \in WaysOf(K, r, k + 1)
    <3>1. p \in Seq(N) /\ Len(p) = k + 1 /\ p[1] = r /\ IsWay(K, p) BY <1>1 DEF WaysOf
    <3>2. p[Len(p)] \in N /\ m \in N BY <3>1
    <3>3. IsWay(K, Append(p, m)) BY <2>2, <3>1, <3>2, WayAppend
    <3>4. Append(p, m) \in Seq(N) /\ Len(Append(p, m)) = (k + 1) + 1 /\ Append(p, m)[1] = r BY <3>1, <3>2
    <3> QED BY Zenon, <1>1, <3>3, <3>4 DEF WaysOf
  <2>3. \A w : w \in WaysOf(K, r, k + 1) <=> \E p \in WaysOf(K, r, k) : Fresh(p) /\ w \in Onward(K, p)
    BY Zenon, <2>1, <2>2 DEF Fresh, Onward
  <2> QED BY Zenon, <2>3, LongerHolds
<1> QED BY Zenon, <1>2, <1>3

LEMMA FiniteImage ==
  ASSUME NEW S, IsFiniteSet(S), NEW f, NEW T, \A t \in T : \E x \in S : f[x] = t
  PROVE  IsFiniteSet(T)
<1> DEFINE R == {f[x] : x \in S}
           g == [x \in S |-> f[x]]
<1>1. g \in [S -> R] /\ \A y \in R : \E x \in S : g[x] = y OBVIOUS
<1>2. T \subseteq R OBVIOUS
<1> HIDE DEF g, R
<1>3. g \in Surjection(S, R) BY Zenon, <1>1 DEF Surjection
<1>4. IsFiniteSet(R) BY Zenon, <1>3, FS_Surjection
<1> QED BY Zenon, <1>2, <1>4, FS_Subset

\* They are finitely many.
LEMMA WaysAreFinite ==
  ASSUME NEW N, IsFiniteSet(N), NEW K \in [N -> SUBSET N], NEW r \in N, NEW d \in Nat
  PROVE  IsFiniteSet(Ways(K, r, d))
<1> DEFINE T == {k \in Nat : IsFiniteSet(WaysOf(K, r, k))}
<1>1. 0 \in T
  <2>1. IsFiniteSet({<<r>>}) BY Zenon, FS_Singleton
  <2>2. WaysOf(K, r, 0) = {<<r>>} BY WaysFrom
  <2> QED BY Zenon, <2>1, <2>2
<1>2. ASSUME NEW k \in Nat, k \in T PROVE k + 1 \in T
  <2> DEFINE W == WaysOf(K, r, k)
             f == [x \in W \X N |-> Append(x[1], x[2])]
  <2>1. IsFiniteSet(W \X N) BY Zenon, <1>2, FS_Product
  <2>2. ASSUME NEW w \in WaysOf(K, r, k + 1) PROVE \E x \in W \X N : f[x] = w
    <3>1. WaysOf(K, r, k + 1) = Longer(K, W) BY WaysFrom
    <3>2. PICK p \in W : w \in Onward(K, p) BY Zenon, <3>1, LongerHolds
    <3>3. PICK m \in K[p[Len(p)]] : w = Append(p, m) BY <3>2 DEF Onward
    <3>4. m \in N
      <4>1. p \in Seq(N) /\ Len(p) = k + 1 BY DEF WaysOf
      <4>2. p[Len(p)] \in N BY <4>1
      <4> QED BY <4>2
    <3> HIDE DEF W
    <3>5. <<p, m>> \in W \X N BY <3>4
    <3>6. f[<<p, m>>] = Append(p, m) BY <3>5
    <3> HIDE DEF f
    <3>7. f[<<p, m>>] = w BY <3>3, <3>6
    <3> DEFINE x == <<p, m>>
    <3>8. x \in W \X N /\ f[x] = w BY <3>5, <3>7
    <3> HIDE DEF x
    <3> QED BY Zenon, <3>8
  <2>3. IsFiniteSet(WaysOf(K, r, k + 1))
    <3> HIDE DEF W, f
    <3>1. \A w \in WaysOf(K, r, k + 1) : \E x \in W \X N : f[x] = w BY <2>2
    <3> DEFINE X == W \X N
               V == WaysOf(K, r, k + 1)
    <3>2. IsFiniteSet(X) /\ \A w \in V : \E x \in X : f[x] = w BY Zenon, <2>1, <3>1
    <3> HIDE DEF X, V
    <3>3. IsFiniteSet(V) BY <3>2, FiniteImage
    <3> QED BY <3>3 DEF V
  <2> QED BY <2>3
<1>3. Nat \subseteq T
  <2> HIDE DEF T
  <2> QED BY Zenon, <1>1, <1>2, SetInduction
<1> DEFINE U == {k \in Nat : IsFiniteSet(Ways(K, r, k))}
<1>4. 0 \in U
  <2>1. \A k : k \in 0..0 <=> k = 0 OBVIOUS
  <2>2. Ways(K, r, 0) = WaysOf(K, r, 0) BY Zenon, <2>1 DEF Ways
  <2> QED BY Zenon, <1>1, <2>2
<1>5. ASSUME NEW k \in Nat, k \in U PROVE k + 1 \in U
  <2>1. 0..(k + 1) = 0..k \cup {k + 1} OBVIOUS
  <2>2. Ways(K, r, k + 1) = Ways(K, r, k) \cup WaysOf(K, r, k + 1) BY Zenon, <2>1 DEF Ways
  <2>3. k + 1 \in T BY <1>3
  <2>4. IsFiniteSet(Ways(K, r, k) \cup WaysOf(K, r, k + 1)) BY Zenon, <1>5, <2>3, FS_Union
  <2>5. IsFiniteSet(Ways(K, r, k + 1)) BY Zenon, <2>2, <2>4
  <2> QED BY <2>5
<1>6. Nat \subseteq U
  <2> HIDE DEF U
  <2> QED BY Zenon, <1>4, <1>5, SetInduction
<1> QED BY Zenon, <1>6

\* Each set of K is listed by O in a strict order, B its predecessors.
Listing(N, K, O, B) ==
  /\ K \in [N -> SUBSET N]
  /\ \A n \in N : /\ O[n] \in Seq(K[n])
                  /\ \A m \in K[n] : \E k \in 1..Len(O[n]) : O[n][k] = m
                  /\ \A i, j \in 1..Len(O[n]) : i < j => O[n][i] \in B[O[n][j]]
  /\ \A n \in N : n \notin B[n]

\* The calls in progress are those for the nodes of P, of whose children c are begun.
Climb(N, K, O, r, P, c) ==
  /\ P \in Seq(N) /\ (Len(P) # 0 => P[1] = r)
  /\ c \in [1..Len(P) -> Nat] /\ \A i \in 1..Len(P) : c[i] <= Len(O[P[i]])
  /\ \A i \in 1..(Len(P) - 1) : c[i] # 0 /\ P[i + 1] = O[P[i]][c[i]]
  /\ \A i, j \in 1..Len(P) : i < j => P[i] # P[j]

\* A way that begins with a child that is not begun yet.
Agree(p, q, i) == i <= Len(p) /\ i <= Len(q) /\ \A j \in 1..i : p[j] = q[j]
Beyond(O, P, c, p, i) == i < Len(p) /\ Agree(p, P, i) /\ \E k \in 1..Len(O[P[i]]) : c[i] < k /\ p[i + 1] = O[P[i]][k]
Pending(O, P, c, p) == \E i \in 1..Len(P) : Beyond(O, P, c, p, i)

\* The preorder of the ways.
Ahead(B, p, q) ==
  \/ Len(p) < Len(q) /\ Agree(p, q, Len(p))
  \/ \E i \in 1..Len(p) : i <= Len(q) /\ p[i] \in B[q[i]] /\ \A j \in 1..(i - 1) : p[j] = q[j]

\* What is listed, position by position.
LEMMA ListingFacts ==
  ASSUME NEW N, NEW K, NEW O, NEW B, Listing(N, K, O, B), NEW n \in N
  PROVE  /\ K[n] \subseteq N /\ Len(O[n]) \in Nat
         /\ \A k \in 1..Len(O[n]) : O[n][k] \in K[n] /\ O[n][k] \in N
         /\ \A m \in K[n] : \E k \in 1..Len(O[n]) : O[n][k] = m
         /\ \A i, j \in 1..Len(O[n]) : i < j => O[n][i] \in B[O[n][j]] /\ O[n][i] # O[n][j]
<1>1. K[n] \subseteq N /\ O[n] \in Seq(K[n]) BY DEF Listing
<1>2. \A k \in 1..Len(O[n]) : O[n][k] \in K[n] BY <1>1
<1>3. \A i, j \in 1..Len(O[n]) : i < j => O[n][i] \in B[O[n][j]] BY DEF Listing
<1>4. \A m \in K[n] : \E k \in 1..Len(O[n]) : O[n][k] = m BY DEF Listing
<1>5. \A m \in N : m \notin B[m] BY Zenon DEF Listing
<1>6. \A i, j \in 1..Len(O[n]) : i < j => O[n][i] # O[n][j] BY <1>1, <1>2, <1>3, <1>5
<1> QED BY <1>1, <1>2, <1>3, <1>4, <1>6

LEMMA ListedOnce ==
  ASSUME NEW N, NEW K, NEW O, NEW B, Listing(N, K, O, B)
  PROVE  \A n \in N : \A i, j \in 1..Len(O[n]) : i < j => O[n][i] # O[n][j]
BY ListingFacts

\* Every way within the depth, element by element.
LEMMA WayFacts ==
  ASSUME NEW N, NEW K \in [N -> SUBSET N], NEW r \in N, NEW d \in Nat
  PROVE  \A p : p \in Ways(K, r, d) <=> p \in Seq(N) /\ Len(p) \in 1..(d + 1) /\ p[1] = r /\ IsWay(K, p)
<1>1. DOMAIN K = N OBVIOUS
<1> TAKE p
<1>2. ASSUME p \in Ways(K, r, d)
      PROVE  p \in Seq(N) /\ Len(p) \in 1..(d + 1) /\ p[1] = r /\ IsWay(K, p)
  <2>1. PICK k \in 0..d : p \in WaysOf(K, r, k) BY <1>2 DEF Ways
  <2>2. p \in Seq(N) /\ Len(p) = k + 1 /\ p[1] = r /\ IsWay(K, p) BY <1>1, <2>1 DEF WaysOf
  <2> QED BY <2>2
<1>3. ASSUME p \in Seq(N) /\ Len(p) \in 1..(d + 1) /\ p[1] = r /\ IsWay(K, p)
      PROVE  p \in Ways(K, r, d)
  <2> DEFINE k == Len(p) - 1
  <2>1. k \in 0..d /\ Len(p) = k + 1 BY <1>3
  <2> HIDE DEF k
  <2>2. p \in WaysOf(K, r, k) BY Zenon, <1>1, <1>3, <2>1 DEF WaysOf
  <2> QED BY Zenon, <2>1, <2>2 DEF Ways
<1> QED BY <1>2, <1>3

\* The calls in progress make a way, and so does the one that comes next.
LEMMA ClimbIsWay ==
  ASSUME NEW N, NEW K, NEW O, NEW B, Listing(N, K, O, B), NEW r, NEW P, NEW c, Climb(N, K, O, r, P, c), Len(P) # 0,
         NEW m \in K[P[Len(P)]]
  PROVE  IsWay(K, P) /\ IsWay(K, Append(P, m)) /\ m \in N
<1>1. P \in Seq(N) /\ Len(P) \in Nat /\ \A i \in 1..Len(P) : P[i] \in N BY DEF Climb
<1>2. ASSUME NEW i \in 1..(Len(P) - 1)
      PROVE  P[i + 1] \in K[P[i]] /\ \A j \in 1..(i - 1) : P[j] # P[i]
  <2>1. c[i] # 0 /\ P[i + 1] = O[P[i]][c[i]] /\ c[i] \in Nat /\ c[i] <= Len(O[P[i]]) /\ P[i] \in N BY <1>1 DEF Climb
  <2>2. P[i + 1] \in K[P[i]] BY <2>1, ListingFacts
  <2>3. \A j \in 1..(i - 1) : P[j] # P[i]
    <3>1. i \in 1..Len(P) /\ \A j \in 1..(i - 1) : j \in 1..Len(P) /\ j < i BY <1>1
    <3>2. \A a, b \in 1..Len(P) : a < b => P[a] # P[b] BY DEF Climb
    <3> QED BY <3>1, <3>2
  <2> QED BY <2>2, <2>3
<1>3. IsWay(K, P) BY <1>2 DEF IsWay
<1>4. P[Len(P)] \in N /\ \A j \in 1..(Len(P) - 1) : P[j] # P[Len(P)]
  <2>1. Len(P) \in 1..Len(P) /\ \A j \in 1..(Len(P) - 1) : j \in 1..Len(P) /\ j < Len(P) BY <1>1
  <2>2. \A i, j \in 1..Len(P) : i < j => P[i] # P[j] BY DEF Climb
  <2> QED BY <1>1, <2>1, <2>2
<1>5. m \in N BY <1>4, ListingFacts
<1>6. K \in [N -> SUBSET N] BY DEF Listing
<1>7. IsWay(K, Append(P, m)) BY <1>1, <1>3, <1>4, <1>5, <1>6, WayAppend
<1> QED BY <1>3, <1>5, <1>7

\* The next call is for a way that is pending, and what is not pending is ahead of it.
LEMMA NextIsLast ==
  ASSUME NEW N, NEW K, NEW O, NEW B, Listing(N, K, O, B), NEW r \in N, NEW P, NEW c, Climb(N, K, O, r, P, c),
         Len(P) # 0, c[Len(P)] < Len(O[P[Len(P)]]), NEW d \in Nat, Len(P) <= d
  PROVE  LET w == Append(P, O[P[Len(P)]][c[Len(P)] + 1])
         IN  /\ w \in Ways(K, r, d) /\ Pending(O, P, c, w)
             /\ \A p \in Ways(K, r, d) : ~ Pending(O, P, c, p) => Ahead(B, p, w)
<1> DEFINE n == Len(P)
           k0 == c[n] + 1
           m == O[P[n]][k0]
           w == Append(P, m)
<1>1. K \in [N -> SUBSET N] BY DEF Listing
<1>2. P \in Seq(N) /\ n \in Nat /\ n # 0 /\ n \in 1..n /\ n <= d /\ P[1] = r /\ \A i \in 1..n : P[i] \in N BY DEF Climb
<1>3. \A i \in 1..n : c[i] \in Nat /\ c[i] <= Len(O[P[i]]) BY DEF Climb
<1>4. P[n] \in N BY <1>2
<1>5. k0 \in 1..Len(O[P[n]]) /\ c[n] < k0
  <2>1. Len(O[P[n]]) \in Nat BY <1>4, ListingFacts
  <2> QED BY <1>2, <1>3, <2>1
<1>6. m \in K[P[n]] BY <1>4, <1>5, ListingFacts
<1> HIDE DEF m
<1>7. IsWay(K, w) /\ m \in N BY <1>2, <1>6, ClimbIsWay
<1>8. w \in Seq(N) /\ Len(w) = n + 1 /\ w[n + 1] = m /\ \A i \in 1..n : w[i] = P[i] BY <1>2, <1>7
<1> HIDE DEF w
<1>9. w \in Ways(K, r, d)
  <2>1. Len(w) \in 1..(d + 1) /\ w[1] = r BY <1>2, <1>8
  <2> QED BY <1>1, <1>7, <1>8, <2>1, WayFacts
<1>10. Pending(O, P, c, w)
  <2>1. n < Len(w) /\ Agree(w, P, n) BY <1>2, <1>8 DEF Agree
  <2>2. c[n] < k0 /\ w[n + 1] = O[P[n]][k0] BY <1>5, <1>8 DEF m
  <2> HIDE DEF k0
  <2>3. Beyond(O, P, c, w, n) BY <1>5, <2>1, <2>2 DEF Beyond
  <2> HIDE DEF n
  <2> QED BY Zenon, <1>2, <2>3 DEF Pending, n
<1>11. ASSUME NEW p \in Ways(K, r, d), ~ Pending(O, P, c, p) PROVE Ahead(B, p, w)
  <2>1. p \in Seq(N) /\ Len(p) \in 1..(d + 1) /\ Len(p) \in Nat /\ p[1] = r /\ IsWay(K, p) BY <1>1, WayFacts
  <2>2. \A i \in 1..(Len(p) - 1) : p[i + 1] \in K[p[i]] BY <2>1 DEF IsWay
  <2>3. ASSUME NEW i \in 1..n, i < Len(p), Agree(p, P, i)
        PROVE  \E k \in 1..Len(O[P[i]]) : p[i + 1] = O[P[i]][k] /\ k <= c[i]
    <3>1. i \in 1..(Len(p) - 1) /\ p[i] = P[i] /\ P[i] \in N BY <1>2, <2>1, <2>3 DEF Agree
    <3>2. p[i + 1] \in K[P[i]] BY <2>2, <3>1
    <3> DEFINE L == O[P[i]]
    <3>3. \A x \in K[P[i]] : \E k \in 1..Len(L) : L[k] = x
      <4>1. \A a \in N : \A x \in K[a] : \E k \in 1..Len(O[a]) : O[a][k] = x BY DEF Listing
      <4> QED BY Zenon, <3>1, <4>1
    <3>4. PICK k \in 1..Len(L) : L[k] = p[i + 1] BY Zenon, <3>2, <3>3
    <3>5. ~ (c[i] < k)
      <4>1. ~ Beyond(O, P, c, p, i) BY Zenon, <1>11, <2>3 DEF Pending
      <4> QED BY Zenon, <2>3, <3>4, <4>1 DEF Beyond
    <3>6. k <= c[i] BY <1>3, <3>5
    <3> QED BY Zenon, <3>4, <3>6
  <2> DEFINE T == {i \in Nat : i \in 1..n /\ i \in 1..Len(p) /\ p[i] # P[i]}
  <2>4. CASE T = {}
    <3>1. \A i \in 1..n : i <= Len(p) => p[i] = P[i] BY <1>2, <2>1, <2>4
    <3>2. CASE Len(p) <= n
      <4>1. Len(p) < Len(w) /\ Agree(p, w, Len(p)) BY <1>2, <1>8, <2>1, <3>1, <3>2 DEF Agree
      <4> QED BY <4>1 DEF Ahead
    <3>3. CASE n < Len(p)
      <4>1. Agree(p, P, n) BY <1>2, <2>1, <3>1, <3>3 DEF Agree
      <4>2. PICK k \in 1..Len(O[P[n]]) : p[n + 1] = O[P[n]][k] /\ k <= c[n] BY <1>2, <2>3, <3>3, <4>1
      <4>3. k < k0 BY <1>2, <1>3, <4>2
      <4>4. O[P[n]][k] \in B[O[P[n]][k0]]
        <5> HIDE DEF k0
        <5> QED BY <1>4, <1>5, <4>2, <4>3, ListingFacts
      <4>5. p[n + 1] \in B[w[n + 1]] BY Zenon, <1>8, <4>2, <4>4 DEF m
      <4>6. n + 1 \in 1..Len(p) /\ n + 1 <= Len(w) /\ \A j \in 1..((n + 1) - 1) : p[j] = w[j]
        BY <1>2, <1>8, <2>1, <3>1, <3>3
      <4> QED BY Zenon, <4>5, <4>6 DEF Ahead
    <3> QED BY <1>2, <2>1, <3>2, <3>3
  <2>5. CASE T # {}
    <3>1. T \subseteq Nat OBVIOUS
    <3>2. PICK i \in T : \A j \in T : i <= j
      <4> HIDE DEF T
      <4> QED BY <2>5, <3>1, LeastElement
    <3>3. i \in 1..n /\ i \in 1..Len(p) /\ p[i] # P[i] BY <3>2
    <3>4. i # 1 BY <1>2, <2>1, <3>3
    <3> DEFINE h == i - 1
    <3>5. h \in 1..n /\ h < Len(p) /\ h \in 1..(n - 1) /\ h + 1 = i BY <1>2, <2>1, <3>3, <3>4
    <3>6. \A j \in 1..h : p[j] = P[j]
      <4> TAKE j \in 1..h
      <4>1. j \in 1..n /\ j \in 1..Len(p) /\ j \in Nat /\ j < i BY <1>2, <2>1, <3>3, <3>5
      <4>2. j \notin T BY <3>2, <3>3, <4>1
      <4> QED BY <4>1, <4>2
    <3> HIDE DEF T, h
    <3>7. Agree(p, P, h) BY <1>2, <2>1, <3>5, <3>6 DEF Agree
    <3>8. PICK k \in 1..Len(O[P[h]]) : p[h + 1] = O[P[h]][k] /\ k <= c[h] BY <2>3, <3>5, <3>7
    <3>9. c[h] # 0 /\ P[h + 1] = O[P[h]][c[h]] BY <3>5 DEF Climb
    <3>10. P[h] \in N /\ c[h] \in Nat /\ c[h] <= Len(O[P[h]]) BY <1>2, <1>3, <3>5
    <3>11. k # c[h] BY <3>3, <3>5, <3>8, <3>9
    <3>12. k < c[h] /\ c[h] \in 1..Len(O[P[h]])
      <4>1. Len(O[P[h]]) \in Nat BY <3>10, ListingFacts
      <4> QED BY <3>8, <3>9, <3>10, <3>11, <4>1
    <3>13. O[P[h]][k] \in B[O[P[h]][c[h]]] BY <3>10, <3>12, <3>8, ListingFacts
    <3>14. w[i] = P[i] BY <1>8, <3>3
    <3>15. p[i] \in B[w[i]] BY Zenon, <3>5, <3>8, <3>9, <3>13, <3>14
    <3>16. i <= Len(w) /\ \A j \in 1..(i - 1) : p[j] = w[j] BY <1>2, <1>8, <3>3, <3>6 DEF h
    <3> QED BY Zenon, <3>3, <3>15, <3>16 DEF Ahead
  <2> QED BY <2>4, <2>5
<1>12. \A p \in Ways(K, r, d) : ~ Pending(O, P, c, p) => Ahead(B, p, w) BY Zenon, <1>11
<1> QED BY Zenon, <1>9, <1>10, <1>12 DEF w, m

\* Once a child is begun, the ways through it are pending no more.
LEMMA NextBegins ==
  ASSUME NEW N, NEW K, NEW O, NEW B, Listing(N, K, O, B), NEW r \in N, NEW P, NEW c, Climb(N, K, O, r, P, c),
         Len(P) # 0, c[Len(P)] < Len(O[P[Len(P)]]), NEW p \in Seq(N)
  PROVE  LET w == Append(P, O[P[Len(P)]][c[Len(P)] + 1])
             c2 == [c EXCEPT ![Len(P)] = @ + 1]
         IN  /\ Pending(O, P, c, p) <=> Pending(O, P, c2, p) \/ Agree(p, w, Len(P) + 1)
             /\ Agree(p, w, Len(P) + 1) => ~ Pending(O, P, c2, p)
<1> DEFINE n == Len(P)
           k0 == c[n] + 1
           m == O[P[n]][k0]
           w == Append(P, m)
           c2 == [c EXCEPT ![n] = @ + 1]
<1>1. P \in Seq(N) /\ n \in Nat /\ n # 0 /\ n \in 1..n /\ \A i \in 1..n : P[i] \in N BY DEF Climb
<1>2. \A i \in 1..n : c[i] \in Nat /\ c[i] <= Len(O[P[i]]) BY DEF Climb
<1>3. P[n] \in N BY <1>1
<1>4. k0 \in 1..Len(O[P[n]]) /\ c[n] < k0 /\ k0 = c[n] + 1 /\ Len(O[P[n]]) \in Nat
  <2>1. Len(O[P[n]]) \in Nat BY <1>3, ListingFacts
  <2> QED BY <1>1, <1>2, <2>1
<1>5. m \in N BY <1>3, <1>4, ListingFacts
<1>6. w \in Seq(N) /\ Len(w) = n + 1 /\ w[n + 1] = m /\ \A i \in 1..n : w[i] = P[i]
  <2> HIDE DEF m
  <2> QED BY <1>1, <1>5
<1>7. c2[n] = k0 /\ \A i \in 1..n : i # n => c2[i] = c[i] BY <1>1 DEF Climb
<1>8. Len(p) \in Nat OBVIOUS
<1>9. \A x \in N : \A a, b \in 1..Len(O[x]) : a < b => O[x][a] # O[x][b] BY Zenon, ListedOnce
<1>10. ASSUME NEW i \in 1..(n - 1), n < Len(p), Agree(p, P, n) PROVE ~ Beyond(O, P, c2, p, i)
  <2>1. i \in 1..n /\ i + 1 \in 1..n /\ i # n BY <1>1
  <2>2. p[i + 1] = P[i + 1] BY <1>10, <2>1 DEF Agree
  <2>3. c[i] # 0 /\ P[i + 1] = O[P[i]][c[i]] BY DEF Climb
  <2>4. P[i] \in N /\ c[i] \in Nat /\ c[i] <= Len(O[P[i]]) /\ c2[i] = c[i] BY <1>1, <1>2, <1>7, <2>1
  <2>5. Len(O[P[i]]) \in Nat BY <2>4, ListingFacts
  <2>6. c[i] \in 1..Len(O[P[i]]) BY <2>3, <2>4, <2>5
  <2>7. \A a, b \in 1..Len(O[P[i]]) : a < b => O[P[i]][a] # O[P[i]][b] BY Zenon, <1>9, <2>4
  <2>8. \A k \in 1..Len(O[P[i]]) : c[i] < k => O[P[i]][k] # p[i + 1] BY Zenon, <2>2, <2>3, <2>6, <2>7
  <2> QED BY Zenon, <2>4, <2>8 DEF Beyond
<1> HIDE DEF m, w, c2, k0
<1>11. Agree(p, w, n + 1) <=> n < Len(p) /\ Agree(p, P, n) /\ p[n + 1] = m
  <2>1. n + 1 <= Len(p) <=> n < Len(p) BY <1>1, <1>8
  <2>2. n < Len(p) => n <= Len(p) BY <1>1, <1>8
  <2>3. 1..(n + 1) = 1..n \cup {n + 1} /\ n + 1 <= Len(w) /\ n <= Len(P) BY <1>1, <1>6
  <2> QED BY Zenon, <1>6, <2>1, <2>2, <2>3 DEF Agree
<1>12. Beyond(O, P, c, p, n) <=> Beyond(O, P, c2, p, n) \/ Agree(p, w, n + 1)
  <2>1. \A k \in 1..Len(O[P[n]]) : c[n] < k <=> k = k0 \/ k0 < k BY <1>1, <1>2, <1>4
  <2>2. \A k \in 1..Len(O[P[n]]) : c[n] < k <=> k = k0 \/ c2[n] < k BY Zenon, <1>7, <2>1
  <2>3. (\E k \in 1..Len(O[P[n]]) : c[n] < k /\ p[n + 1] = O[P[n]][k])
          <=> (\E k \in 1..Len(O[P[n]]) : c2[n] < k /\ p[n + 1] = O[P[n]][k]) \/ p[n + 1] = m
    BY Zenon, <1>4, <2>2 DEF m
  <2> HIDE DEF n
  <2> QED BY Zenon, <1>11, <2>3 DEF Beyond
<1>13. Agree(p, w, n + 1) => ~ Beyond(O, P, c2, p, n)
  <2>1. \A k \in 1..Len(O[P[n]]) : c2[n] < k => O[P[n]][k] # m BY Zenon, <1>3, <1>4, <1>7, <1>9 DEF m
  <2> QED BY Zenon, <1>11, <2>1 DEF Beyond
<1>14. \A i \in 1..n : i # n => (Beyond(O, P, c, p, i) <=> Beyond(O, P, c2, p, i)) BY Zenon, <1>7 DEF Beyond
<1>15. Pending(O, P, c, p) <=> Pending(O, P, c2, p) \/ Agree(p, w, n + 1)
  BY Zenon, <1>1, <1>12, <1>14 DEF Pending
<1>16. Agree(p, w, n + 1) => ~ Pending(O, P, c2, p)
  <2>1. \A i \in 1..n : i = n \/ i \in 1..(n - 1) BY <1>1
  <2> QED BY Zenon, <1>10, <1>11, <1>13, <2>1 DEF Pending
<1> QED BY Zenon, <1>15, <1>16 DEF w, m, c2, k0

\* A call that goes no deeper adds its own way only.
LEMMA LeafTaken ==
  ASSUME NEW N, NEW K, NEW O, NEW B, Listing(N, K, O, B), NEW r \in N, NEW P, NEW c, Climb(N, K, O, r, P, c),
         Len(P) # 0, c[Len(P)] < Len(O[P[Len(P)]]), NEW d \in Nat, Len(P) <= d,
         Len(P) >= d \/ \E i \in 1..Len(P) : P[i] = O[P[Len(P)]][c[Len(P)] + 1]
  PROVE  LET w == Append(P, O[P[Len(P)]][c[Len(P)] + 1])
             c2 == [c EXCEPT ![Len(P)] = @ + 1]
         IN  \A p \in Ways(K, r, d) : ~ Pending(O, P, c2, p) <=> ~ Pending(O, P, c, p) \/ p = w
<1> DEFINE n == Len(P)
           m == O[P[n]][c[n] + 1]
           w == Append(P, m)
           c2 == [c EXCEPT ![n] = @ + 1]
<1>1. K \in [N -> SUBSET N] BY DEF Listing
<1>2. P \in Seq(N) /\ n \in Nat /\ n # 0 BY DEF Climb
<1>3. w \in Ways(K, r, d) BY NextIsLast
<1> SUFFICES ASSUME NEW p \in Ways(K, r, d) PROVE ~ Pending(O, P, c2, p) <=> ~ Pending(O, P, c, p) \/ p = w
  OBVIOUS
<1>4. p \in Seq(N) /\ Len(p) \in 1..(d + 1) /\ IsWay(K, p) BY <1>1, WayFacts
<1>5. w \in Seq(N)
  <2> HIDE DEF w
  <2> QED BY <1>1, <1>3, WayFacts
<1>6. /\ Pending(O, P, c, p) <=> Pending(O, P, c2, p) \/ Agree(p, w, n + 1)
      /\ Agree(p, w, n + 1) => ~ Pending(O, P, c2, p)
  BY <1>4, NextBegins
<1>7. Len(w) = n + 1 /\ w[n + 1] = m /\ \A i \in 1..n : w[i] = P[i]
  <2> HIDE DEF m
  <2> QED BY <1>2, AppendAny
<1> HIDE DEF m, w, c2
<1>8. p = w => Agree(p, w, n + 1) BY <1>2, <1>7 DEF Agree
<1>9. ASSUME Agree(p, w, n + 1) PROVE p = w
  <2>1. n + 1 <= Len(p) /\ \A j \in 1..(n + 1) : p[j] = w[j] BY <1>9 DEF Agree
  <2>2. ~ (n + 1 < Len(p))
    <3>1. CASE n >= d BY <1>2, <1>4, <3>1
    <3>2. CASE \E i \in 1..n : P[i] = m
      <4>1. PICK i \in 1..n : P[i] = m BY <3>2
      <4>2. ASSUME n + 1 < Len(p) PROVE FALSE
        <5>1. n + 1 \in 1..(Len(p) - 1) /\ i \in 1..((n + 1) - 1) BY <1>2, <1>4, <4>2
        <5>2. p[i] # p[n + 1] BY Zenon, <1>4, <5>1 DEF IsWay
        <5>3. p[i] = w[i] /\ p[n + 1] = w[n + 1] BY <1>2, <2>1
        <5> QED BY Zenon, <1>7, <4>1, <5>2, <5>3
      <4> QED BY <4>2
    <3> QED BY <3>1, <3>2 DEF m
  <2>3. Len(p) = n + 1 BY <1>2, <1>4, <2>1, <2>2
  <2> QED BY <1>2, <1>4, <1>5, <1>7, <2>1, <2>3
<1>10. ~ Pending(O, P, c2, p) <=> ~ Pending(O, P, c, p) \/ p = w BY Zenon, <1>6, <1>8, <1>9
<1> QED BY <1>10 DEF w, c2, m

\* The children taken of each call when one more has been made.
Deeper(c, n) == [i \in 1..(n + 1) |-> IF i = n + 1 THEN 0 ELSE IF i = n THEN c[i] + 1 ELSE c[i]]

\* So does one that goes deeper: the ways through it are pending again, further on.
LEMMA CallMade ==
  ASSUME NEW N, NEW K, NEW O, NEW B, Listing(N, K, O, B), NEW r \in N, NEW P, NEW c, Climb(N, K, O, r, P, c),
         Len(P) # 0, c[Len(P)] < Len(O[P[Len(P)]]), NEW d \in Nat, Len(P) <= d,
         \A i \in 1..Len(P) : P[i] # O[P[Len(P)]][c[Len(P)] + 1]
  PROVE  LET w == Append(P, O[P[Len(P)]][c[Len(P)] + 1])
         IN  /\ Climb(N, K, O, r, w, Deeper(c, Len(P)))
             /\ \A p \in Ways(K, r, d) : ~ Pending(O, w, Deeper(c, Len(P)), p) <=> ~ Pending(O, P, c, p) \/ p = w
<1> DEFINE n == Len(P)
           m == O[P[n]][c[n] + 1]
           w == Append(P, m)
           c2 == [c EXCEPT ![n] = @ + 1]
           c3 == Deeper(c, n)
<1>1. K \in [N -> SUBSET N] BY DEF Listing
<1>2. P \in Seq(N) /\ n \in Nat /\ n # 0 /\ P[1] = r /\ n \in 1..n /\ \A i \in 1..n : P[i] \in N BY DEF Climb
<1>3. c \in [1..n -> Nat] /\ \A i \in 1..n : c[i] \in Nat /\ c[i] <= Len(O[P[i]]) BY DEF Climb
<1>4. \A i \in 1..(n - 1) : c[i] # 0 /\ P[i + 1] = O[P[i]][c[i]] BY DEF Climb
<1>5. \A i, j \in 1..n : i < j => P[i] # P[j] BY DEF Climb
<1>6. w \in Ways(K, r, d) BY NextIsLast
<1>7. w \in Seq(N) /\ IsWay(K, w)
  <2> HIDE DEF w
  <2> QED BY <1>1, <1>6, WayFacts
<1>8. Len(w) = n + 1 /\ w[n + 1] = m /\ \A i \in 1..n : w[i] = P[i]
  <2> HIDE DEF m
  <2> QED BY <1>2, AppendAny
<1>9. c3 \in [1..(n + 1) -> Nat] /\ c3[n + 1] = 0 /\ c3[n] = c[n] + 1 /\ \A i \in 1..(n - 1) : c3[i] = c[i]
  <2>1. n + 1 \in 1..(n + 1) /\ n \in 1..(n + 1) /\ n # n + 1 BY <1>2
  <2>2. \A i \in 1..(n - 1) : i \in 1..(n + 1) /\ i # n /\ i # n + 1 BY <1>2
  <2>3. \A i \in 1..(n + 1) : (IF i = n + 1 THEN 0 ELSE IF i = n THEN c[i] + 1 ELSE c[i]) \in Nat
    <3> TAKE i \in 1..(n + 1)
    <3>1. CASE i = n + 1 BY <3>1
    <3>2. CASE i = n BY <1>2, <1>3, <3>2
    <3>3. CASE i # n /\ i # n + 1
      <4>1. i \in 1..n BY <1>2, <3>3
      <4> QED BY <1>3, <3>3, <4>1
    <3> QED BY <3>1, <3>2, <3>3
  <2>4. c3 \in [1..(n + 1) -> Nat] BY <2>3 DEF Deeper
  <2>5. c3[n + 1] = 0 /\ c3[n] = c[n] + 1 /\ \A i \in 1..(n - 1) : c3[i] = c[i] BY <2>1, <2>2 DEF Deeper
  <2> QED BY Zenon, <2>4, <2>5
<1>10. \A i \in 1..n : c2[i] = c3[i]
  <2>1. c2[n] = c[n] + 1 /\ \A i \in 1..n : i # n => c2[i] = c[i] BY <1>2, <1>3
  <2>2. \A i \in 1..n : i # n => i \in 1..(n - 1) BY <1>2
  <2> HIDE DEF c2, c3
  <2> QED BY Zenon, <1>9, <2>1, <2>2
<1>11. \A i \in 1..n : P[i] # m OBVIOUS
<1> HIDE DEF c2, c3
<1>12. \A x \in N : Len(O[x]) \in Nat BY ListingFacts
<1>13. c[n] < Len(O[P[n]]) OBVIOUS
<1>14. m = O[P[n]][c3[n]] BY <1>9
<1> HIDE DEF m, w
<1>15. m \in N
  <2>1. n + 1 \in 1..Len(w) BY <1>2, <1>8
  <2>2. w[n + 1] \in N BY <1>7, <2>1
  <2> QED BY <1>8, <2>2
<1>16. Climb(N, K, O, r, w, c3)
  <2>1. w \in Seq(N) /\ Len(w) # 0 /\ w[1] = r BY <1>2, <1>7, <1>8
  <2>2. ASSUME NEW i \in 1..(n + 1) PROVE c3[i] <= Len(O[w[i]])
    <3>1. CASE i = n + 1
      <4>1. Len(O[m]) \in Nat BY <1>12, <1>15
      <4> QED BY <1>8, <1>9, <3>1, <4>1
    <3>2. CASE i = n
      <4>1. Len(O[P[n]]) \in Nat /\ w[n] = P[n] BY <1>2, <1>8, <1>12
      <4> QED BY <1>2, <1>3, <1>9, <1>13, <3>2, <4>1
    <3>3. CASE i \in 1..(n - 1)
      <4>1. i \in 1..n BY <1>2, <3>3
      <4> QED BY <1>3, <1>8, <1>9, <3>3, <4>1
    <3> QED BY <1>2, <3>1, <3>2, <3>3
  <2>3. ASSUME NEW i \in 1..n PROVE c3[i] # 0 /\ w[i + 1] = O[w[i]][c3[i]]
    <3>1. CASE i = n BY <1>2, <1>3, <1>8, <1>9, <1>14, <3>1
    <3>2. CASE i \in 1..(n - 1)
      <4>1. i \in 1..n /\ i + 1 \in 1..n BY <1>2, <3>2
      <4> QED BY <1>4, <1>8, <1>9, <3>2, <4>1
    <3> QED BY <1>2, <3>1, <3>2
  <2>4. \A i, j \in 1..(n + 1) : i < j => w[i] # w[j]
    <3> TAKE i, j \in 1..(n + 1)
    <3>1. CASE j \in 1..n /\ i < j
      <4>1. i \in 1..n BY <1>2, <3>1
      <4> QED BY Zenon, <1>5, <1>8, <3>1, <4>1
    <3>2. CASE j = n + 1 /\ i < j
      <4>1. i \in 1..n BY <1>2, <3>2
      <4> QED BY Zenon, <1>8, <1>11, <3>2, <4>1
    <3> QED BY <1>2, <3>1, <3>2
  <2>5. Len(w) = n + 1 /\ 1..(Len(w) - 1) = 1..n BY <1>2, <1>8
  <2> QED BY Zenon, <1>9, <2>1, <2>2, <2>3, <2>4, <2>5 DEF Climb
<1>17. ASSUME NEW p \in Ways(K, r, d) PROVE ~ Pending(O, w, c3, p) <=> ~ Pending(O, P, c, p) \/ p = w
  <2>1. p \in Seq(N) /\ Len(p) \in Nat /\ IsWay(K, p) BY <1>1, WayFacts
  <2>2. /\ Pending(O, P, c, p) <=> Pending(O, P, c2, p) \/ Agree(p, w, n + 1)
        /\ Agree(p, w, n + 1) => ~ Pending(O, P, c2, p)
    BY <2>1, NextBegins DEF w, m, c2
  <2>3. p = w => Agree(p, w, n + 1) BY <1>2, <1>8 DEF Agree
  <2>4. \A i \in 1..n : Beyond(O, w, c3, p, i) <=> Beyond(O, P, c2, p, i)
    <3> TAKE i \in 1..n
    <3>1. i <= Len(w) /\ i <= Len(P) /\ \A j \in 1..i : j \in 1..n BY <1>2, <1>8
    <3>2. Agree(p, w, i) <=> Agree(p, P, i) BY Zenon, <1>8, <3>1 DEF Agree
    <3>3. w[i] = P[i] /\ c3[i] = c2[i] BY <1>8, <1>10
    <3> QED BY Zenon, <3>2, <3>3 DEF Beyond
  <2>5. Beyond(O, w, c3, p, n + 1) <=> Agree(p, w, n + 1) /\ p # w
    <3>1. ASSUME Agree(p, w, n + 1), Len(p) = n + 1 PROVE p = w
      <4>1. \A j \in 1..(n + 1) : p[j] = w[j] BY <3>1 DEF Agree
      <4> QED BY <1>2, <1>7, <1>8, <2>1, <3>1, <4>1
    <3>2. ASSUME Agree(p, w, n + 1), n + 1 < Len(p)
          PROVE  \E k \in 1..Len(O[w[n + 1]]) : c3[n + 1] < k /\ p[(n + 1) + 1] = O[w[n + 1]][k]
      <4>1. n + 1 \in 1..(Len(p) - 1) /\ n + 1 \in 1..(n + 1) BY <1>2, <2>1, <3>2
      <4>2. p[n + 1] = m BY Zenon, <1>8, <3>2, <4>1 DEF Agree
      <4>3. p[(n + 1) + 1] \in K[m] BY Zenon, <2>1, <4>1, <4>2 DEF IsWay
      <4>4. PICK k \in 1..Len(O[m]) : O[m][k] = p[(n + 1) + 1] 
        <5>1. \A x \in K[m] : \E k \in 1..Len(O[m]) : O[m][k] = x BY Zenon, <1>15 DEF Listing
        <5> QED BY Zenon, <4>3, <5>1
      <4>5. c3[n + 1] < k BY <1>9
      <4> QED BY Zenon, <1>8, <4>4, <4>5
    <3>3. p = w => ~ (n + 1 < Len(p)) BY <1>2, <1>8
    <3>4. Agree(p, w, n + 1) => n + 1 < Len(p) \/ Len(p) = n + 1 BY <1>2, <2>1 DEF Agree
    <3> HIDE DEF n
    <3> QED BY Zenon, <3>1, <3>2, <3>3, <3>4 DEF Beyond
  <2>6. 1..Len(w) = 1..n \cup {n + 1} BY <1>2, <1>8
  <2>7. Pending(O, w, c3, p) <=> Pending(O, P, c2, p) \/ (Agree(p, w, n + 1) /\ p # w)
    BY Zenon, <2>4, <2>5, <2>6 DEF Pending
  <2> QED BY Zenon, <2>2, <2>3, <2>7
<1>18. \A p \in Ways(K, r, d) : ~ Pending(O, w, c3, p) <=> ~ Pending(O, P, c, p) \/ p = w BY Zenon, <1>17
<1> QED BY Zenon, <1>16, <1>18 DEF w, m, c3

LEMMA LeafClimbs ==
  ASSUME NEW N, NEW K, NEW O, NEW B, Listing(N, K, O, B), NEW r \in N, NEW P, NEW c, Climb(N, K, O, r, P, c),
         Len(P) # 0, c[Len(P)] < Len(O[P[Len(P)]])
  PROVE  Climb(N, K, O, r, P, [c EXCEPT ![Len(P)] = @ + 1])
<1> DEFINE n == Len(P)
           c2 == [c EXCEPT ![n] = @ + 1]
<1>1. P \in Seq(N) /\ n \in Nat /\ n # 0 /\ P[1] = r /\ n \in 1..n /\ \A i \in 1..n : P[i] \in N BY DEF Climb
<1>2. c \in [1..n -> Nat] /\ \A i \in 1..n : c[i] \in Nat /\ c[i] <= Len(O[P[i]]) BY DEF Climb
<1>3. \A i \in 1..(n - 1) : c[i] # 0 /\ P[i + 1] = O[P[i]][c[i]] BY DEF Climb
<1>4. \A i, j \in 1..n : i < j => P[i] # P[j] BY DEF Climb
<1>5. c2 \in [1..n -> Nat] /\ c2[n] = c[n] + 1 /\ \A i \in 1..n : i # n => c2[i] = c[i] BY <1>1, <1>2
<1>6. Len(O[P[n]]) \in Nat BY <1>1, ListingFacts
<1>7. c[n] < Len(O[P[n]]) OBVIOUS
<1> HIDE DEF c2, n
<1>8. c2[n] <= Len(O[P[n]]) BY <1>1, <1>2, <1>5, <1>6, <1>7
<1>9. \A i \in 1..n : c2[i] <= Len(O[P[i]]) BY Zenon, <1>2, <1>5, <1>8
<1>10. \A i \in 1..(n - 1) : i \in 1..n /\ i # n BY <1>1
<1>11. \A i \in 1..(n - 1) : c2[i] # 0 /\ P[i + 1] = O[P[i]][c2[i]] BY Zenon, <1>3, <1>5, <1>10
<1>12. Climb(N, K, O, r, P, c2) BY Zenon, <1>1, <1>4, <1>5, <1>9, <1>11 DEF Climb, n
<1> QED BY <1>12 DEF c2, n

\* A call that has been through its children leaves nothing pending.
LEMMA CallEnds ==
  ASSUME NEW N, NEW K, NEW O, NEW B, Listing(N, K, O, B), NEW r \in N, NEW P, NEW c, Climb(N, K, O, r, P, c),
         Len(P) # 0, c[Len(P)] = Len(O[P[Len(P)]])
  PROVE  LET P4 == SubSeq(P, 1, Len(P) - 1)
             c4 == [i \in 1..(Len(P) - 1) |-> c[i]]
         IN  /\ Climb(N, K, O, r, P4, c4)
             /\ \A p \in Seq(N) : Pending(O, P4, c4, p) <=> Pending(O, P, c, p)
<1> DEFINE n == Len(P)
           P4 == SubSeq(P, 1, n - 1)
           c4 == [i \in 1..(n - 1) |-> c[i]]
<1>1. P \in Seq(N) /\ n \in Nat /\ n # 0 /\ P[1] = r /\ n \in 1..n /\ \A i \in 1..n : P[i] \in N BY DEF Climb
<1>2. c \in [1..n -> Nat] /\ \A i \in 1..n : c[i] \in Nat /\ c[i] <= Len(O[P[i]]) BY DEF Climb
<1>3. \A i \in 1..(n - 1) : c[i] # 0 /\ P[i + 1] = O[P[i]][c[i]] BY DEF Climb
<1>4. \A i, j \in 1..n : i < j => P[i] # P[j] BY DEF Climb
<1>5. P4 \in Seq(N) /\ Len(P4) = n - 1 /\ \A i \in 1..(n - 1) : P4[i] = P[i]
  BY Zenon, <1>1, AllButLast
<1>6. \A i \in 1..(n - 1) : i \in 1..n BY <1>1
<1>7. c4 \in [1..(n - 1) -> Nat] /\ \A i \in 1..(n - 1) : c4[i] = c[i] BY <1>2, <1>6
<1>8. Len(O[P[n]]) \in Nat /\ c[n] = Len(O[P[n]]) BY <1>1, ListingFacts
<1> HIDE DEF P4, c4
<1>9. Len(P4) # 0 => P4[1] = r BY <1>1, <1>5
<1>10. \A i \in 1..((n - 1) - 1) : i \in 1..(n - 1) /\ i + 1 \in 1..(n - 1) BY <1>1
<1>11. Climb(N, K, O, r, P4, c4)
  <2>1. \A i \in 1..(n - 1) : c4[i] <= Len(O[P4[i]]) BY Zenon, <1>2, <1>5, <1>6, <1>7
  <2>2. \A i \in 1..((n - 1) - 1) : c4[i] # 0 /\ P4[i + 1] = O[P4[i]][c4[i]] BY Zenon, <1>3, <1>5, <1>7, <1>10
  <2>3. \A i, j \in 1..(n - 1) : i < j => P4[i] # P4[j] BY Zenon, <1>4, <1>5, <1>6
  <2> HIDE DEF n
  <2> QED BY Zenon, <1>5, <1>7, <1>9, <2>1, <2>2, <2>3 DEF Climb
<1>12. ASSUME NEW p \in Seq(N) PROVE Pending(O, P4, c4, p) <=> Pending(O, P, c, p)
  <2>1. \A k \in 1..Len(O[P[n]]) : ~ (c[n] < k) BY <1>8
  <2>2. ~ Beyond(O, P, c, p, n) BY Zenon, <2>1 DEF Beyond
  <2>3. \A i \in 1..(n - 1) : Beyond(O, P4, c4, p, i) <=> Beyond(O, P, c, p, i)
    <3> TAKE i \in 1..(n - 1)
    <3>1. i <= Len(P4) /\ i <= n /\ \A j \in 1..i : j \in 1..(n - 1) BY <1>1, <1>5
    <3>2. Agree(p, P4, i) <=> Agree(p, P, i) BY Zenon, <1>5, <3>1 DEF Agree
    <3>3. P4[i] = P[i] /\ c4[i] = c[i] BY <1>5, <1>7
    <3> QED BY Zenon, <3>2, <3>3 DEF Beyond
  <2>4. 1..Len(P) = 1..Len(P4) \cup {n} /\ 1..Len(P4) = 1..(n - 1) BY <1>1, <1>5
  <2> HIDE DEF n
  <2> QED BY Zenon, <2>2, <2>3, <2>4 DEF Pending
<1> QED BY Zenon, <1>11, <1>12 DEF P4, c4

\* The first call: only the root is not pending.
Started(N, K, O, r, d) ==
  /\ Climb(N, K, O, r, <<r>>, [i \in 1..1 |-> 0])
  /\ \A p \in Ways(K, r, d) : ~ Pending(O, <<r>>, [i \in 1..1 |-> 0], p) <=> p = <<r>>
  /\ <<r>> \in Ways(K, r, d)

LEMMA WalkStarts ==
  ASSUME NEW N, NEW K, NEW O, NEW B, Listing(N, K, O, B), NEW r \in N, NEW d \in Nat
  PROVE  Started(N, K, O, r, d)
<1> DEFINE P == <<r>>
           c == [i \in 1..1 |-> 0]
<1>1. K \in [N -> SUBSET N] BY DEF Listing
<1>2. P \in Seq(N) /\ Len(P) = 1 /\ P[1] = r OBVIOUS
<1>3. c \in [1..1 -> Nat] /\ c[1] = 0 OBVIOUS
<1>4. \A i : i \in 1..1 <=> i = 1 OBVIOUS
<1>5. 1..(1 - 1) = {} OBVIOUS
<1>6. Len(O[r]) \in Nat BY ListingFacts
<1>0. \A p \in Seq(N) : Len(p) = 1 /\ p[1] = r => p = P OBVIOUS
<1> HIDE DEF P, c
<1>7. 0 <= Len(O[r]) BY <1>6
<1>8. \A i, j \in 1..1 : ~ (i < j) OBVIOUS
<1>9. Climb(N, K, O, r, P, c) BY Zenon, <1>2, <1>3, <1>4, <1>5, <1>7, <1>8 DEF Climb
<1>10. ASSUME NEW p \in Ways(K, r, d) PROVE ~ Pending(O, P, c, p) <=> p = P
  <2>1. p \in Seq(N) /\ Len(p) \in 1..(d + 1) /\ Len(p) \in Nat /\ p[1] = r /\ IsWay(K, p) BY <1>1, WayFacts
  <2>2. Len(p) = 1 <=> p = P BY Zenon, <1>0, <1>2, <2>1
  <2>3. Agree(p, P, 1) BY <1>2, <2>1 DEF Agree
  <2>4. ASSUME 1 < Len(p) PROVE \E k \in 1..Len(O[P[1]]) : c[1] < k /\ p[1 + 1] = O[P[1]][k]
    <3>1. 1 \in 1..(Len(p) - 1) BY <2>1, <2>4
    <3>2. p[1 + 1] \in K[r] BY Zenon, <2>1, <3>1 DEF IsWay
    <3>3. \A x \in K[r] : \E k \in 1..Len(O[r]) : O[r][k] = x BY Zenon DEF Listing
    <3>4. PICK k \in 1..Len(O[r]) : O[r][k] = p[1 + 1] BY Zenon, <3>2, <3>3
    <3>5. c[1] < k BY <1>3
    <3> QED BY Zenon, <1>2, <3>4, <3>5
  <2>5. Beyond(O, P, c, p, 1) <=> 1 < Len(p) BY Zenon, <2>3, <2>4 DEF Beyond
  <2>6. Pending(O, P, c, p) <=> 1 < Len(p) BY Zenon, <1>2, <1>4, <2>5 DEF Pending
  <2>7. 1 < Len(p) <=> Len(p) # 1
    <3> DEFINE l == Len(p)
    <3>1. l \in 1..(d + 1) BY <2>1
    <3> HIDE DEF l
    <3>2. 1 < l <=> l # 1 BY <3>1
    <3> QED BY <3>2 DEF l
  <2> QED BY Zenon, <2>2, <2>6, <2>7
<1>11. P \in Ways(K, r, d)
  <2>1. IsWay(K, P) BY <1>2, <1>5 DEF IsWay
  <2>2. Len(P) \in 1..(d + 1) BY <1>2
  <2> QED BY <1>1, <1>2, <2>1, <2>2, WayFacts
<1>12. \A p \in Ways(K, r, d) : ~ Pending(O, P, c, p) <=> p = P BY Zenon, <1>10
<1> QED BY Zenon, <1>9, <1>11, <1>12 DEF Started, P, c

\* Nothing is ahead of itself.
LEMMA AheadDiffers ==
  ASSUME NEW N, NEW K, NEW O, NEW B, Listing(N, K, O, B), NEW p \in Seq(N), NEW q, Ahead(B, p, q)
  PROVE  p # q
<1>1. \A i \in 1..Len(p) : p[i] \notin B[p[i]]
  <2>1. \A i \in 1..Len(p) : p[i] \in N OBVIOUS
  <2> QED BY Zenon, <2>1 DEF Listing
<1>2. ~ (Len(p) < Len(p)) OBVIOUS
<1> QED BY Zenon, <1>1, <1>2 DEF Ahead

\* The sizes of a list without repetition, and of a set that holds it and more.
LEMMA SizeOfList ==
  ASSUME NEW W, NEW t \in Seq(W), \A i, j \in 1..Len(t) : i < j => t[i] # t[j]
  PROVE  Cardinality({t[i] : i \in 1..Len(t)}) = Len(t)
<1> DEFINE R == {t[i] : i \in 1..Len(t)}
           f == [i \in 1..Len(t) |-> t[i]]
<1>1. Len(t) \in Nat OBVIOUS
<1>2. f \in [1..Len(t) -> R] /\ \A y \in R : \E i \in 1..Len(t) : f[i] = y OBVIOUS
<1>3. \A i, j \in 1..Len(t) : f[i] = f[j] => i = j
  <2> SUFFICES ASSUME NEW i \in 1..Len(t), NEW j \in 1..Len(t), t[i] = t[j] PROVE i = j OBVIOUS
  <2>1. ~ (i < j) /\ ~ (j < i) OBVIOUS
  <2> QED BY <1>1, <2>1
<1> HIDE DEF f, R
<1>4. f \in Surjection(1..Len(t), R) BY Zenon, <1>2 DEF Surjection
<1>5. f \in Injection(1..Len(t), R) BY Zenon, <1>2, <1>3, Fun_IsInj
<1>6. IsFiniteSet(1..Len(t)) /\ Cardinality(1..Len(t)) = Len(t)
  <2>1. IsFiniteSet(1..Len(t)) /\ Cardinality(1..Len(t)) = IF 1 > Len(t) THEN 0 ELSE Len(t) - 1 + 1 BY <1>1, FS_Interval
  <2> QED BY <1>1, <2>1
<1>7. Cardinality(R) = Cardinality(1..Len(t)) BY Zenon, <1>4, <1>5, <1>6, FS_Surjection
<1> QED BY <1>6, <1>7 DEF R

LEMMA SizeBeyondList ==
  ASSUME NEW W, IsFiniteSet(W), NEW t \in Seq(W), \A i, j \in 1..Len(t) : i < j => t[i] # t[j],
         NEW k \in Nat, NEW e \in [1..k -> W], \A i, j \in 1..k : e[i] = e[j] => i = j,
         \A i \in 1..Len(t) : \A j \in 1..k : t[i] # e[j]
  PROVE  Cardinality(W) \in Nat /\ Len(t) + k <= Cardinality(W)
<1> DEFINE l == Len(t)
           D == 1..(l + k)
           f == [i \in D |-> IF i <= l THEN t[i] ELSE e[i - l]]
<1>1. l \in Nat /\ l + k \in Nat OBVIOUS
<1>2. \A i \in D : (i <= l => i \in 1..l) /\ (~ (i <= l) => i - l \in 1..k) BY <1>1
<1>3. \A i \in 1..l : t[i] \in W OBVIOUS
<1>4. \A i, j \in 1..l : i < j => t[i] # t[j] OBVIOUS
<1>5. f \in [D -> W]
  <2> HIDE DEF D, l
  <2> QED BY <1>2, <1>3
<1>6. \A i \in D : f[i] = IF i <= l THEN t[i] ELSE e[i - l] OBVIOUS
<1>7. \A i, j \in D : f[i] = f[j] => i = j
  <2> SUFFICES ASSUME NEW i \in D, NEW j \in D, f[i] = f[j] PROVE i = j OBVIOUS
  <2>1. i \in Nat /\ j \in Nat BY <1>1
  <2> HIDE DEF f
  <2>2. CASE i <= l /\ j <= l
    <3>1. i \in 1..l /\ j \in 1..l /\ t[i] = t[j] BY <1>2, <1>6, <2>2
    <3>2. ~ (i < j) /\ ~ (j < i) BY <1>4, <3>1
    <3> QED BY <2>1, <3>2
  <2>3. CASE ~ (i <= l) /\ ~ (j <= l)
    <3>1. i - l \in 1..k /\ j - l \in 1..k /\ e[i - l] = e[j - l] BY <1>2, <1>6, <2>3
    <3>2. i - l = j - l BY <3>1
    <3> QED BY <1>1, <2>1, <3>2
  <2>4. CASE i <= l /\ ~ (j <= l) BY <1>2, <1>6, <2>4
  <2>5. CASE ~ (i <= l) /\ j <= l
    <3>1. j \in 1..l /\ i - l \in 1..k /\ t[j] = e[i - l] BY <1>2, <1>6, <2>5
    <3> QED BY <3>1
  <2> QED BY <2>2, <2>3, <2>4, <2>5
<1> HIDE DEF f
<1>8. f \in Injection(D, W)
  <2> HIDE DEF D
  <2> QED BY Zenon, <1>5, <1>7, Fun_IsInj
<1>9. Cardinality(D) <= Cardinality(W)
  <2> HIDE DEF D
  <2> QED BY Zenon, <1>8, FS_Injection
<1>10. Cardinality(D) = l + k
  <2> DEFINE b == l + k
  <2>1. 1 \in Int /\ b \in Int /\ b \in Nat BY <1>1
  <2> HIDE DEF b
  <2>2. Cardinality(1..b) = IF 1 > b THEN 0 ELSE b - 1 + 1 BY <2>1, FS_Interval
  <2>3. Cardinality(1..b) = b BY <2>1, <2>2
  <2> QED BY <2>3 DEF b
<1>11. Cardinality(W) \in Nat BY FS_CardinalityType
<1> QED BY <1>9, <1>10, <1>11

\* The tree: in preorder, the ways that are not pending.
Laid(K, O, B, r, d, P, c, t) ==
  /\ t \in Seq(Ways(K, r, d)) /\ Len(t) # 0 /\ t[1] = <<r>>
  /\ \A p \in Ways(K, r, d) : ~ Pending(O, P, c, p) <=> \E i \in 1..Len(t) : t[i] = p
  /\ \A i, j \in 1..Len(t) : i < j => Ahead(B, t[i], t[j])

LEMMA LaidAppend ==
  ASSUME NEW K, NEW O, NEW B, NEW r, NEW d, NEW P, NEW c, NEW P2, NEW c2, NEW t, Laid(K, O, B, r, d, P, c, t),
         NEW w \in Ways(K, r, d),
         \A p \in Ways(K, r, d) : ~ Pending(O, P, c, p) => Ahead(B, p, w),
         \A p \in Ways(K, r, d) : ~ Pending(O, P2, c2, p) <=> ~ Pending(O, P, c, p) \/ p = w
  PROVE  Laid(K, O, B, r, d, P2, c2, Append(t, w))
<1> DEFINE W == Ways(K, r, d)
           l == Len(t)
           u == Append(t, w)
<1>1. t \in Seq(W) /\ l \in Nat /\ l # 0 /\ t[1] = <<r>> BY DEF Laid
<1>2. u \in Seq(W) /\ Len(u) = l + 1 /\ u[l + 1] = w /\ \A i \in 1..l : u[i] = t[i]
  <2>1. w \in W OBVIOUS
  <2> HIDE DEF W
  <2> QED BY <1>1, <2>1
<1>3. 1..(l + 1) = 1..l \cup {l + 1} /\ 1 \in 1..l BY <1>1
<1>4. \A i, j \in 1..(l + 1) : i < j => i \in 1..l /\ (j \in 1..l \/ j = l + 1) BY <1>1
<1>5. \A i \in 1..l : t[i] \in W BY <1>1
<1> HIDE DEF u, l, W
<1>6. \A p \in W : ~ Pending(O, P, c, p) <=> \E i \in 1..l : t[i] = p BY Zenon DEF Laid, l, W
<1>7. \A p \in W : ~ Pending(O, P2, c2, p) <=> ~ Pending(O, P, c, p) \/ p = w BY Zenon DEF W
<1>8. \A p \in W : ~ Pending(O, P, c, p) => Ahead(B, p, w) BY Zenon DEF W
<1>9. \A i, j \in 1..l : i < j => Ahead(B, t[i], t[j]) BY Zenon DEF Laid, l
<1>10. \A p \in W : ~ Pending(O, P2, c2, p) <=> \E i \in 1..(l + 1) : u[i] = p BY Zenon, <1>2, <1>3, <1>6, <1>7
<1>11. \A i \in 1..l : Ahead(B, t[i], w) BY Zenon, <1>5, <1>6, <1>8
<1>12. \A i, j \in 1..(l + 1) : i < j => Ahead(B, u[i], u[j]) BY Zenon, <1>2, <1>4, <1>9, <1>11
<1>13. u[1] = <<r>> BY Zenon, <1>1, <1>2, <1>3
<1>14. Len(u) # 0 BY <1>1, <1>2
<1> QED BY Zenon, <1>2, <1>10, <1>12, <1>13, <1>14 DEF Laid, u, W

\* No way is in the tree twice.
LEMMA LaidOnce ==
  ASSUME NEW N, NEW K, NEW O, NEW B, Listing(N, K, O, B), NEW r \in N, NEW d \in Nat, NEW P, NEW c, NEW t,
         Laid(K, O, B, r, d, P, c, t)
  PROVE  \A i, j \in 1..Len(t) : i < j => t[i] # t[j]
<1> SUFFICES ASSUME NEW i \in 1..Len(t), NEW j \in 1..Len(t), i < j PROVE t[i] # t[j] OBVIOUS
<1>1. K \in [N -> SUBSET N] BY DEF Listing
<1>2. t[i] \in Ways(K, r, d) BY DEF Laid
<1>3. t[i] \in Seq(N) BY <1>1, <1>2, WayFacts
<1>4. Ahead(B, t[i], t[j]) BY Zenon DEF Laid
<1> QED BY <1>3, <1>4, AheadDiffers

\* The children of each node, as a set and in order, and what comes before a node.
TreeKids == [n \in TreeIDs |-> Tree!ChildSet(n)]
TreeOrder == [n \in TreeIDs |-> Tree!Children(n)]
TreeBefore == [b \in TreeIDs |-> {a \in TreeIDs : Tree!Before(a, b)}]
TreeWays(r) == Ways(TreeKids, r, Tree!MaxDepth)

LEMMA TreeListing ==
  ASSUME Tree!StructureAssumption, graph \in TreeGraphs
  PROVE  /\ Listing(TreeIDs, TreeKids, TreeOrder, TreeBefore)
         /\ \A n \in TreeIDs : /\ Len(TreeOrder[n]) = Cardinality(Tree!ChildSet(n))
                               /\ TreeKids[n] = Tree!ChildSet(n) /\ TreeKids[n] \subseteq graph.live
                               /\ TreeOrder[n] = Tree!Children(n)
<1>1. \A n \in TreeIDs : TreeKids[n] = Tree!ChildSet(n) /\ TreeOrder[n] = Tree!Children(n) BY DEF TreeKids, TreeOrder
<1>2. TreeKids \in [TreeIDs -> SUBSET TreeIDs]
  <2>1. \A n \in TreeIDs : Tree!ChildSet(n) \subseteq TreeIDs BY ChildrenFacts
  <2> QED BY <2>1 DEF TreeKids
<1>3. \A a, b \in TreeIDs : a \in TreeBefore[b] <=> Tree!Before(a, b) BY DEF TreeBefore
<1>4. ASSUME NEW n \in TreeIDs
      PROVE  /\ TreeOrder[n] \in Seq(TreeKids[n]) /\ Len(TreeOrder[n]) = Cardinality(Tree!ChildSet(n))
             /\ \A m \in TreeKids[n] : \E k \in 1..Len(TreeOrder[n]) : TreeOrder[n][k] = m
             /\ \A i, j \in 1..Len(TreeOrder[n]) : i < j => TreeOrder[n][i] \in TreeBefore[TreeOrder[n][j]]
             /\ TreeKids[n] \subseteq graph.live
  <2> DEFINE C == Cardinality(Tree!ChildSet(n))
             S == Tree!ChildSet(n)
             L == Tree!Children(n)
  <2>1. /\ S \subseteq graph.live /\ S \subseteq TreeIDs /\ C \in Nat /\ L \in [1..C -> S]
        /\ \A m \in S : \E i \in 1..C : L[i] = m
        /\ \A i, j \in 1..C : i < j => Tree!Before(L[i], L[j])
    BY ChildrenFacts
  <2>2. TreeKids[n] = S /\ TreeOrder[n] = L BY <1>1
  <2> HIDE DEF C, S, L
  <2>3. L \in Seq(S) /\ Len(L) = C BY <2>1
  <2>4. \A i \in 1..C : L[i] \in TreeIDs BY <2>1
  <2>5. \A i, j \in 1..C : i < j => L[i] \in TreeBefore[L[j]] BY Zenon, <1>3, <2>1, <2>4
  <2> QED BY Zenon, <2>1, <2>2, <2>3, <2>5 DEF C, S
<1>5. \A n \in TreeIDs : n \notin TreeBefore[n] BY <1>3, BeforeOrders
<1> QED BY Zenon, <1>1, <1>2, <1>4, <1>5 DEF Listing

\* The recursion of PathsFrom is well founded: the tree the query promises is these ways.
LEMMA TreeUnfolds ==
  ASSUME Tree!StructureAssumption, graph \in TreeGraphs, NEW r \in TreeIDs
  PROVE  Tree!Unfolding(r) = TreeWays(r)
<1> DEFINE f == [k \in Nat |-> WaysOf(TreeKids, r, k)]
           paths == Tree!PathsFrom(r)
<1>1. TreeKids \in [TreeIDs -> SUBSET TreeIDs] /\ DOMAIN TreeKids = TreeIDs BY TreeListing DEF Listing
<1>2. /\ WaysOf(TreeKids, r, 0) = {<<r>>}
      /\ \A k \in Nat : WaysOf(TreeKids, r, k + 1) = Longer(TreeKids, WaysOf(TreeKids, r, k))
  BY <1>1, WaysFrom
<1>3. ASSUME NEW k \in Nat PROVE Tree!Longer(WaysOf(TreeKids, r, k)) = Longer(TreeKids, WaysOf(TreeKids, r, k))
  <2> DEFINE W == WaysOf(TreeKids, r, k)
  <2>1. ASSUME NEW p \in W PROVE TreeKids[p[Len(p)]] = Tree!ChildSet(p[Len(p)])
    <3>1. p \in Seq(TreeIDs) /\ Len(p) = k + 1 BY <1>1 DEF WaysOf
    <3>2. p[Len(p)] \in TreeIDs BY <3>1
    <3> QED BY <3>2, TreeListing
  <2>2. \A p : Fresh(p) <=> ~ Tree!Repeats(p) BY Zenon DEF Fresh, Tree!Repeats
  <2>3. \A p \in W : \A w : w \in Onward(TreeKids, p) <=> w \in {Append(p, m) : m \in Tree!ChildSet(p[Len(p)])}
    <3> HIDE DEF W
    <3> QED BY <2>1 DEF Onward
  <2>4. \A w : w \in Tree!Longer(W) <=>
             \E p \in W : ~ Tree!Repeats(p) /\ w \in {Append(p, m) : m \in Tree!ChildSet(p[Len(p)])}
    BY Zenon DEF Tree!Longer
  <2>5. \A w : w \in Longer(TreeKids, W) <=> \E p \in W : Fresh(p) /\ w \in Onward(TreeKids, p) BY Zenon, LongerHolds
  <2>6. \A w : w \in Tree!Longer(W) <=> w \in Longer(TreeKids, W) BY Zenon, <2>2, <2>3, <2>4, <2>5
  <2> QED BY Zenon, <2>6
<1>4. f = [k \in Nat |-> IF k = 0 THEN {<<r>>} ELSE Tree!Longer(f[k - 1])]
  <2>1. ASSUME NEW k \in Nat PROVE WaysOf(TreeKids, r, k) = IF k = 0 THEN {<<r>>} ELSE Tree!Longer(f[k - 1])
    <3>1. CASE k = 0 BY Zenon, <1>2, <3>1
    <3>2. CASE k # 0
      <4>1. k - 1 \in Nat /\ (k - 1) + 1 = k BY <3>2
      <4>2. f[k - 1] = WaysOf(TreeKids, r, k - 1) BY <4>1
      <4>3. WaysOf(TreeKids, r, k) = Longer(TreeKids, WaysOf(TreeKids, r, k - 1)) BY <1>2, <4>1
      <4>4. Tree!Longer(WaysOf(TreeKids, r, k - 1)) = Longer(TreeKids, WaysOf(TreeKids, r, k - 1)) BY <1>3, <4>1
      <4> QED BY Zenon, <3>2, <4>2, <4>3, <4>4
    <3> QED BY <3>1, <3>2
  <2> QED BY Zenon, <2>1
<1> HIDE DEF f
<1>5. paths = [k \in Nat |-> IF k = 0 THEN {<<r>>} ELSE Tree!Longer(paths[k - 1])]
  <2>1. \E p : p = [k \in Nat |-> IF k = 0 THEN {<<r>>} ELSE Tree!Longer(p[k - 1])] BY Zenon, <1>4
  <2> QED BY Zenon, <2>1 DEF Tree!PathsFrom
<1> HIDE DEF paths
<1>6. paths[0] = {<<r>>} /\ \A k \in Nat : paths[k + 1] = Tree!Longer(paths[k])
  <2>1. \A k \in Nat : paths[k] = IF k = 0 THEN {<<r>>} ELSE Tree!Longer(paths[k - 1]) BY Zenon, <1>5
  <2>2. \A k \in Nat : k + 1 \in Nat /\ k + 1 # 0 /\ (k + 1) - 1 = k OBVIOUS
  <2>3. 0 \in Nat OBVIOUS
  <2> QED BY Zenon, <2>1, <2>2, <2>3
<1> DEFINE T == {k \in Nat : paths[k] = WaysOf(TreeKids, r, k)}
<1>7. 0 \in T BY <1>2, <1>6
<1>8. ASSUME NEW k \in Nat, k \in T PROVE k + 1 \in T
  <2>1. paths[k + 1] = WaysOf(TreeKids, r, k + 1) BY Zenon, <1>2, <1>3, <1>6, <1>8
  <2> QED BY <2>1
<1>9. Nat \subseteq T
  <2> HIDE DEF T
  <2> QED BY Zenon, <1>7, <1>8, SetInduction
<1>10. \A k \in 0..Tree!MaxDepth : paths[k] = WaysOf(TreeKids, r, k)
  <2>1. \A k \in 0..Tree!MaxDepth : k \in Nat OBVIOUS
  <2> QED BY <1>9, <2>1
<1>11. Tree!Unfolding(r) = UNION {paths[k] : k \in 0..Tree!MaxDepth} BY Zenon DEF Tree!Unfolding, paths
<1>12. TreeWays(r) = UNION {WaysOf(TreeKids, r, k) : k \in 0..Tree!MaxDepth} BY Zenon DEF TreeWays, Ways
<1> QED BY Zenon, <1>10, <1>11, <1>12

\* Lists with the same elements.
LEMMA SameList ==
  ASSUME NEW S, NEW s \in Seq(S), NEW T, NEW t \in Seq(T), Len(s) = Len(t), \A i \in 1..Len(t) : s[i] = t[i]
  PROVE  s = t
<1>1. s = [i \in 1..Len(s) |-> s[i]] /\ t = [i \in 1..Len(t) |-> t[i]] OBVIOUS
<1> QED BY <1>1

\* What is left of a list when k elements are taken.
Left(L, k) == SubSeq(L, k + 1, Len(L))
LEMMA LeftFacts ==
  ASSUME NEW S, NEW L \in Seq(S), NEW k \in Nat, k <= Len(L)
  PROVE  /\ Left(L, k) \in Seq(S) /\ (Left(L, k) = <<>> <=> k = Len(L)) /\ Left(L, 0) = L
         /\ \A j \in 1..Len(Left(L, k)) : Left(L, k)[j] \in S
         /\ k < Len(L) => Head(Left(L, k)) = L[k + 1] /\ Tail(Left(L, k)) = Left(L, k + 1)
<1> DEFINE n == Len(L)
<1>1. n \in Nat /\ k + 1 \in Nat /\ \A i \in 1..n : L[i] \in S OBVIOUS
<1>2. \A h \in 0..n : /\ Left(L, h) \in Seq(S) /\ Len(Left(L, h)) = n - h
                      /\ \A j \in 1..(n - h) : Left(L, h)[j] = L[h + j]
  <2> TAKE h \in 0..n
  <2>1. SubSeq(L, h + 1, n) = [j \in 1..(n - h) |-> L[h + j]]
    <3>1. SubSeq(L, h + 1, n) = [j \in 1..(1 + n - (h + 1)) |-> L[(h + 1) + j - 1]] BY <1>1
    <3>2. 1 + n - (h + 1) = n - h /\ \A j \in 1..(n - h) : (h + 1) + j - 1 = h + j BY <1>1
    <3> QED BY <3>1, <3>2
  <2>2. n - h \in Nat /\ \A j \in 1..(n - h) : h + j \in 1..n BY <1>1
  <2>3. [j \in 1..(n - h) |-> L[h + j]] \in Seq(S) BY <1>1, <2>2
  <2>4. Len([j \in 1..(n - h) |-> L[h + j]]) = n - h BY <2>2
  <2> DEFINE a == [j \in 1..(n - h) |-> L[h + j]]
  <2>5. \A j \in 1..(n - h) : a[j] = L[h + j] OBVIOUS
  <2>6. Left(L, h) = a BY Zenon, <2>1 DEF Left
  <2> HIDE DEF a
  <2> QED BY Zenon, <2>3, <2>4, <2>5, <2>6 DEF a
<1>3. \A h \in 0..n : \A j \in 1..(n - h) : h + j \in 1..n BY <1>1
<1>4. k \in 0..n /\ 0 \in 0..n /\ (k < n => k + 1 \in 0..n) BY <1>1
<1> HIDE DEF n
<1>5. Left(L, k) = <<>> <=> k = n
  <2>1. \A a \in Seq(S) : a = <<>> <=> Len(a) = 0 OBVIOUS
  <2>2. Left(L, k) \in Seq(S) /\ Len(Left(L, k)) = n - k BY Zenon, <1>2, <1>4
  <2>3. n - k = 0 <=> k = n BY <1>1
  <2> QED BY Zenon, <2>1, <2>2, <2>3
<1>6. Left(L, 0) = L
  <2>1. Left(L, 0) \in Seq(S) /\ Len(Left(L, 0)) = Len(L) /\ \A j \in 1..Len(L) : Left(L, 0)[j] = L[j]
    <3>1. n - 0 = n /\ \A j \in 1..n : 0 + j = j BY <1>1
    <3> QED BY Zenon, <1>2, <1>4, <3>1 DEF n
  <2> QED BY Zenon, <2>1, SameList
<1>7. \A j \in 1..Len(Left(L, k)) : Left(L, k)[j] \in S BY <1>1, <1>2, <1>3, <1>4
<1>8. ASSUME k < n PROVE Head(Left(L, k)) = L[k + 1] /\ Tail(Left(L, k)) = Left(L, k + 1)
  <2> DEFINE a == Left(L, k)
             b == Left(L, k + 1)
  <2>1. a \in Seq(S) /\ Len(a) = n - k /\ \A j \in 1..(n - k) : a[j] = L[k + j] BY <1>2, <1>4
  <2>2. b \in Seq(S) /\ Len(b) = n - (k + 1) /\ \A j \in 1..(n - (k + 1)) : b[j] = L[(k + 1) + j] BY <1>2, <1>4, <1>8
  <2> HIDE DEF a, b
  <2>3. Head(a) = a[1] /\ a[1] = L[k + 1] BY <1>1, <1>8, <2>1
  <2>4. Tail(a) \in Seq(S) /\ Len(Tail(a)) = Len(a) - 1 /\ \A j \in 1..(Len(a) - 1) : Tail(a)[j] = a[j + 1]
    <3>1. a # <<>> BY <1>1, <1>8, <2>1
    <3> QED BY <2>1, <3>1
  <2>5. \A j \in 1..(n - (k + 1)) : j + 1 \in 1..(n - k) /\ k + (j + 1) = (k + 1) + j BY <1>1, <1>8
  <2>6. n - (k + 1) = (n - k) - 1 BY <1>1
  <2>7. \A j \in 1..Len(b) : Tail(a)[j] = b[j]
    <3> TAKE j \in 1..Len(b)
    <3>1. j \in 1..(n - (k + 1)) /\ j \in 1..(Len(a) - 1) BY <2>1, <2>2, <2>6
    <3>2. Tail(a)[j] = a[j + 1] /\ b[j] = L[(k + 1) + j] BY Zenon, <2>2, <2>4, <3>1
    <3>3. a[j + 1] = L[k + (j + 1)] BY Zenon, <2>1, <2>5, <3>1
    <3>4. L[k + (j + 1)] = L[(k + 1) + j] BY Zenon, <2>5, <3>1
    <3> QED BY Zenon, <3>2, <3>3, <3>4
  <2>8. Tail(a) = b
    <3>1. Len(Tail(a)) = Len(b) BY <2>1, <2>2, <2>4, <2>6
    <3> QED BY Zenon, <2>2, <2>4, <2>7, <3>1, SameList
  <2> QED BY <2>3, <2>8 DEF a, b
<1> QED BY <1>2, <1>4, <1>5, <1>6, <1>7, <1>8 DEF n

\* The frames of the calls for the nodes of P.
Frames(O, P, c) == [i \in 1..Len(P) |-> [node |-> P[i], rest |-> Left(O[P[i]], c[i])]]

Framed(N, K, O, P, c, F) ==
  /\ F \in Seq([node : N, rest : Seq(N)]) /\ Len(F) = Len(P) /\ DOMAIN F = 1..Len(P)
  /\ \A i \in 1..Len(P) : F[i] = [node |-> P[i], rest |-> Left(O[P[i]], c[i])]
  /\ \A i \in 1..Len(P) : F[i].node = P[i] /\ F[i].rest = Left(O[P[i]], c[i])
  /\ \A i \in 1..Len(P) : \A j \in 1..Len(Left(O[P[i]], c[i])) : Left(O[P[i]], c[i])[j] \in K[P[i]]
  /\ [i \in DOMAIN F |-> F[i].node] = P

LEMMA FramesFacts ==
  ASSUME NEW N, NEW K, NEW O, NEW B, Listing(N, K, O, B), NEW r, NEW P, NEW c, Climb(N, K, O, r, P, c)
  PROVE  Framed(N, K, O, P, c, Frames(O, P, c))
<1> DEFINE F == Frames(O, P, c)
<1>1. P \in Seq(N) /\ Len(P) \in Nat /\ \A i \in 1..Len(P) : P[i] \in N BY DEF Climb
<1>2. \A i \in 1..Len(P) : c[i] \in Nat /\ c[i] <= Len(O[P[i]]) BY DEF Climb
<1>3. ASSUME NEW i \in 1..Len(P)
      PROVE  /\ Left(O[P[i]], c[i]) \in Seq(N)
             /\ \A j \in 1..Len(Left(O[P[i]], c[i])) : Left(O[P[i]], c[i])[j] \in K[P[i]]
  <2>1. O[P[i]] \in Seq(K[P[i]]) /\ K[P[i]] \subseteq N BY <1>1 DEF Listing
  <2>2. Left(O[P[i]], c[i]) \in Seq(K[P[i]]) BY <1>2, <2>1, LeftFacts
  <2> DEFINE L == Left(O[P[i]], c[i])
  <2> HIDE DEF L
  <2>3. L \in Seq(K[P[i]]) BY <2>2 DEF L
  <2>4. L \in Seq(N) /\ \A j \in 1..Len(L) : L[j] \in K[P[i]] BY <2>1, <2>3
  <2> QED BY <2>4 DEF L
<1>4. DOMAIN F = 1..Len(P) /\ \A i \in 1..Len(P) : F[i] = [node |-> P[i], rest |-> Left(O[P[i]], c[i])] BY DEF Frames
<1>5. F = [i \in 1..Len(P) |-> F[i]] BY DEF Frames
<1> HIDE DEF F
<1>6. \A i \in 1..Len(P) : F[i].node = P[i] /\ F[i].rest = Left(O[P[i]], c[i]) BY <1>4
<1>7. \A i \in 1..Len(P) : F[i] \in [node : N, rest : Seq(N)] BY <1>1, <1>3, <1>4
<1>8. F \in Seq([node : N, rest : Seq(N)]) /\ Len(F) = Len(P) BY <1>1, <1>5, <1>7
<1>9. [i \in DOMAIN F |-> F[i].node] = P
  <2>1. P = [i \in 1..Len(P) |-> P[i]] BY <1>1
  <2> QED BY <1>4, <1>6, <2>1
<1>10. \A i \in 1..Len(P) : \A j \in 1..Len(Left(O[P[i]], c[i])) : Left(O[P[i]], c[i])[j] \in K[P[i]] BY Zenon, <1>3
<1>11. Framed(N, K, O, P, c, F) BY Zenon, <1>4, <1>6, <1>8, <1>9, <1>10 DEF Framed
<1> QED BY Zenon, <1>11 DEF F

\* What the innermost call goes on with, and the frames once it has.
TopFrame(N, K, O, r, P, c) ==
  LET s == Frames(O, P, c)
      L == O[P[Len(P)]]
      k == c[Len(P)]
  IN  /\ s[Len(s)].node = P[Len(P)] /\ (s[Len(s)].rest = <<>> <=> k = Len(L)) /\ k <= Len(L)
      /\ k \in Nat /\ Len(L) \in Nat
      /\ k < Len(L) =>
           /\ Head(s[Len(s)].rest) = L[k + 1]
           /\ Climb(N, K, O, r, P, [c EXCEPT ![Len(P)] = @ + 1]) =>
                [s EXCEPT ![Len(s)].rest = Tail(@)] = Frames(O, P, [c EXCEPT ![Len(P)] = @ + 1])

LEMMA FramesTop ==
  ASSUME NEW N, NEW K, NEW O, NEW B, Listing(N, K, O, B), NEW r, NEW P, NEW c, Climb(N, K, O, r, P, c), Len(P) # 0
  PROVE  TopFrame(N, K, O, r, P, c)
<1> DEFINE n == Len(P)
           s == Frames(O, P, c)
           L == O[P[n]]
           k == c[n]
           c2 == [c EXCEPT ![n] = @ + 1]
<1>1. n \in Nat /\ n \in 1..n /\ P[n] \in N /\ c \in [1..n -> Nat] /\ k \in Nat /\ k <= Len(L) BY DEF Climb
<1>2. L \in Seq(K[P[n]]) /\ Len(L) \in Nat BY <1>1 DEF Listing
<1> HIDE DEF s
<1>0. Framed(N, K, O, P, c, s) BY Zenon, FramesFacts DEF s
<1>3. s \in Seq([node : N, rest : Seq(N)]) /\ Len(s) = n /\ \A i \in 1..n : s[i] = [node |-> P[i], rest |-> Left(O[P[i]], c[i])]
  BY Zenon, <1>0 DEF Framed
<1>4. s[n].node = P[n] /\ s[n].rest = Left(L, k) BY Zenon, <1>0, <1>1 DEF Framed
<1>5. Left(L, k) = <<>> <=> k = Len(L) BY <1>1, <1>2, LeftFacts
<1>6. ASSUME k < Len(L) PROVE Head(Left(L, k)) = L[k + 1] /\ Tail(Left(L, k)) = Left(L, k + 1)
  <2> HIDE DEF L, k
  <2> QED BY <1>1, <1>2, <1>6, LeftFacts
<1>7. c2[n] = k + 1 /\ \A i \in 1..n : i # n => c2[i] = c[i] BY <1>1
<1>8. ASSUME k < Len(L), Climb(N, K, O, r, P, c2) PROVE [s EXCEPT ![n].rest = Tail(@)] = Frames(O, P, c2)
  <2> DEFINE t == Frames(O, P, c2)
             u == [s EXCEPT ![n].rest = Tail(@)]
  <2>1. t \in Seq([node : N, rest : Seq(N)]) /\ Len(t) = n /\ \A i \in 1..n : t[i] = [node |-> P[i], rest |-> Left(O[P[i]], c2[i])]
    <3> HIDE DEF t, c2
    <3>1. Framed(N, K, O, P, c2, t) BY Zenon, <1>8, FramesFacts DEF t
    <3> QED BY Zenon, <3>1 DEF Framed
  <2> HIDE DEF s, t, c2, L, k
  <2>2. DOMAIN s = 1..n BY <1>3
  <2>3. u = [i \in 1..n |-> IF i = n THEN [s[n] EXCEPT !.rest = Tail(@)] ELSE s[i]] BY <2>2
  <2>4. [s[n] EXCEPT !.rest = Tail(@)] = [node |-> P[n], rest |-> Left(L, k + 1)]
    <3> DEFINE a == Left(L, k)
    <3>1. s[n] = [node |-> P[n], rest |-> a] BY <1>1, <1>3 DEF L, k
    <3>2. Tail(a) = Left(L, k + 1) BY <1>6, <1>8
    <3> DEFINE f == s[n]
               p == P[n]
               y == Tail(a)
    <3>3. f = [node |-> p, rest |-> a] BY <3>1
    <3> HIDE DEF a, f, p
    <3>4. f.rest = a BY <3>3
    <3>5. [f EXCEPT !.rest = Tail(@)] = [f EXCEPT !.rest = y] BY <3>4
    <3> HIDE DEF y
    <3>6. [f EXCEPT !.rest = y] = [node |-> p, rest |-> y] BY <3>3
    <3> QED BY Zenon, <3>2, <3>5, <3>6 DEF f, p, y
  <2>5. t[n] = [node |-> P[n], rest |-> Left(L, k + 1)] BY <1>1, <1>7, <2>1 DEF L
  <2>6. \A i \in 1..n : i # n => s[i] = t[i] BY <1>3, <1>7, <2>1
  <2>7. \A i \in 1..n : (IF i = n THEN [s[n] EXCEPT !.rest = Tail(@)] ELSE s[i]) = t[i]
    <3> TAKE i \in 1..n
    <3>1. CASE i = n BY Zenon, <2>4, <2>5, <3>1
    <3>2. CASE i # n BY Zenon, <2>6, <3>2
    <3> QED BY <3>1, <3>2
  <2>8. t = [i \in 1..n |-> t[i]] BY <2>1
  <2>9. u = t BY Zenon, <2>3, <2>7, <2>8
  <2> QED BY <2>9 DEF t
<1> HIDE DEF s, L, k, c2, n
<1> QED BY <1>1, <1>2, <1>3, <1>4, <1>5, <1>6, <1>8 DEF TopFrame, s, L, k, c2, n

\* A call more.
Pushed(O, P, c, m, c3) == Append(Frames(O, P, c), [node |-> m, rest |-> O[m]]) = Frames(O, Append(P, m), c3)

LEMMA FramesPush ==
  ASSUME NEW N, NEW K, NEW O, NEW B, Listing(N, K, O, B), NEW r, NEW P, NEW c, Climb(N, K, O, r, P, c),
         NEW m \in N, NEW c3, Climb(N, K, O, r, Append(P, m), c3), c3[Len(P) + 1] = 0,
         \A i \in 1..Len(P) : c3[i] = c[i]
  PROVE  Pushed(O, P, c, m, c3)
<1> DEFINE n == Len(P)
           w == Append(P, m)
           R == [node : N, rest : Seq(N)]
           s == Frames(O, P, c)
           t == Frames(O, w, c3)
           x == [node |-> m, rest |-> O[m]]
<1>1. P \in Seq(N) /\ n \in Nat BY DEF Climb
<1>2. w \in Seq(N) /\ Len(w) = n + 1 /\ w[n + 1] = m /\ \A i \in 1..n : w[i] = P[i] BY <1>1, AppendAny
<1>3. O[m] \in Seq(K[m]) /\ K[m] \subseteq N BY DEF Listing
<1>4. x \in R /\ Left(O[m], 0) = O[m]
  <2>1. O[m] \in Seq(N) BY <1>3
  <2>2. 0 \in Nat /\ 0 <= Len(O[m]) BY <1>3
  <2> QED BY <2>1, <2>2, LeftFacts
<1> HIDE DEF R, x
<1>5. s \in Seq(R) /\ Len(s) = n /\ \A i \in 1..n : s[i] = [node |-> P[i], rest |-> Left(O[P[i]], c[i])]
  <2> HIDE DEF s
  <2>1. Framed(N, K, O, P, c, s) BY Zenon, FramesFacts DEF s
  <2> QED BY Zenon, <2>1 DEF Framed, R
<1> HIDE DEF w
<1>6. t \in Seq(R) /\ Len(t) = n + 1 /\ \A i \in 1..(n + 1) : t[i] = [node |-> w[i], rest |-> Left(O[w[i]], c3[i])]
  <2> HIDE DEF t
  <2>1. Framed(N, K, O, w, c3, t) BY Zenon, FramesFacts DEF t, w
  <2> QED BY Zenon, <1>2, <2>1 DEF Framed, R
<1> HIDE DEF s, t
<1>7. Append(s, x) \in Seq(R) /\ Len(Append(s, x)) = n + 1 /\ Append(s, x)[n + 1] = x /\ \A i \in 1..n : Append(s, x)[i] = s[i]
  BY <1>4, <1>5
<1>8. 1..(n + 1) = 1..n \cup {n + 1} BY <1>1
<1>9. t[n + 1] = x BY <1>2, <1>4, <1>6, <1>8 DEF x
<1>10. \A i \in 1..n : t[i] = s[i] BY Zenon, <1>2, <1>5, <1>6, <1>8
<1>11. \A i \in 1..(n + 1) : Append(s, x)[i] = t[i] BY Zenon, <1>7, <1>8, <1>9, <1>10
<1>12. Append(s, x) = t BY Zenon, <1>6, <1>7, <1>11, SameList
<1> QED BY Zenon, <1>12 DEF Pushed, s, t, x, w

\* A call less.
LEMMA FramesPop ==
  ASSUME NEW N, NEW K, NEW O, NEW B, Listing(N, K, O, B), NEW r, NEW P, NEW c, Climb(N, K, O, r, P, c), Len(P) # 0,
         NEW P4, NEW c4, Climb(N, K, O, r, P4, c4), Len(P4) = Len(P) - 1,
         \A i \in 1..(Len(P) - 1) : P4[i] = P[i] /\ c4[i] = c[i]
  PROVE  SubSeq(Frames(O, P, c), 1, Len(Frames(O, P, c)) - 1) = Frames(O, P4, c4)
<1> DEFINE n == Len(P)
           R == [node : N, rest : Seq(N)]
           s == Frames(O, P, c)
           t == Frames(O, P4, c4)
           u == SubSeq(s, 1, Len(s) - 1)
<1>1. n \in Nat BY DEF Climb
<1>2. s \in Seq(R) /\ Len(s) = n /\ \A i \in 1..n : s[i] = [node |-> P[i], rest |-> Left(O[P[i]], c[i])]
  <2> HIDE DEF s
  <2>1. Framed(N, K, O, P, c, s) BY Zenon, FramesFacts DEF s
  <2> QED BY Zenon, <2>1 DEF Framed, R
<1>3. t \in Seq(R) /\ Len(t) = n - 1 /\ \A i \in 1..(n - 1) : t[i] = [node |-> P4[i], rest |-> Left(O[P4[i]], c4[i])]
  <2> HIDE DEF t
  <2>1. Framed(N, K, O, P4, c4, t) BY Zenon, FramesFacts DEF t
  <2> QED BY Zenon, <2>1 DEF Framed, R
<1> HIDE DEF s, t, R
<1>4. u \in Seq(R) /\ Len(u) = n - 1 /\ \A i \in 1..(n - 1) : u[i] = s[i]
  <2>1. Len(s) # 0
    <3>1. Len(P) # 0 OBVIOUS
    <3> QED BY <1>2, <3>1
  <2>2. u \in Seq(R) /\ Len(u) = Len(s) - 1 /\ \A i \in 1..(Len(s) - 1) : u[i] = s[i]
    BY Zenon, <1>2, <2>1, AllButLast
  <2> HIDE DEF u
  <2> QED BY <1>2, <2>2
<1>5. \A i \in 1..(n - 1) : i \in 1..n BY <1>1
<1>6. \A i \in 1..(n - 1) : u[i] = t[i] BY Zenon, <1>2, <1>3, <1>4, <1>5
<1> HIDE DEF u
<1>7. Len(u) = Len(t) /\ \A i \in 1..Len(t) : u[i] = t[i] BY <1>3, <1>4, <1>6
<1>8. u = t BY Zenon, <1>3, <1>4, <1>7, SameList
<1> QED BY <1>8 DEF u, s, t

\* The invariant of the walk: the calls in progress are a way from the root, each with the
\* children it has left, and the tree holds the ways that they will not come to any more.
TreeWalks(r, P, c) ==
  /\ r \in Tree!Roots /\ r \in graph.live
  /\ Climb(TreeIDs, TreeKids, TreeOrder, r, P, c) /\ Len(P) <= Tree!MaxDepth
  /\ r2 = Frames(TreeOrder, P, c)
  /\ Laid(TreeKids, TreeOrder, TreeBefore, r, Tree!MaxDepth, P, c, r4)
  /\ pc = "done" <=> Len(P) = 0
TreeIdle == pc \in {"start", "ambiguous", "missing", "invalid"} /\ r2 = <<>> /\ r3 = 0 /\ r4 = <<>>
TreeWorks ==
  /\ pc \in {"walk", "done"} /\ ~ Tree!Ambiguous /\ Tree!ValidRequest /\ r3 = Len(r4) /\ r3 <= Tree!MaxNodes
  /\ \E r, P, c : TreeWalks(r, P, c)
TreeGivesUp ==
  /\ pc = "exceeded" /\ Tree!ValidRequest /\ r3 = Len(r4) /\ r3 \in Nat /\ r3 <= Tree!MaxNodes
  /\ \A i \in DOMAIN r2 : r2[i].node \in graph.live /\ \A j \in DOMAIN r2[i].rest : r2[i].rest[j] \in graph.live
  /\ \E r \in Tree!Roots : r \in graph.live /\ Cardinality(TreeWays(r)) > Tree!MaxNodes
TreeInv == graph \in TreeGraphs /\ (TreeIdle \/ TreeWorks \/ TreeGivesUp)

LEMMA TreeInit == asked = "tree" /\ Init => TreeInv
<1> SUFFICES ASSUME asked = "tree", Init PROVE TreeInv OBVIOUS
<1>1. Tree!Init BY Zenon DEF Init
<1>2. TreeIdle BY Zenon, <1>1 DEF TreeIdle, Tree!Init
<1> QED BY Zenon, <1>1, <1>2 DEF TreeInv, Tree!Init

\* The graph and the request are given.
LEMMA SameTree ==
  ASSUME graph' = graph, r1' = r1
  PROVE  /\ TreeKids' = TreeKids /\ TreeOrder' = TreeOrder /\ Tree!MaxDepth' = Tree!MaxDepth /\ Tree!MaxNodes' = Tree!MaxNodes
         /\ Tree!Roots' = Tree!Roots /\ (Tree!Ambiguous' <=> Tree!Ambiguous) /\ (Tree!ValidRequest' <=> Tree!ValidRequest)
         /\ \A r : TreeWays(r)' = TreeWays(r)
<1>1. TreeKids' = TreeKids BY Zenon DEF TreeKids, Tree!ChildSet, Tree!Includes
<1>2. TreeOrder' = TreeOrder
  <2>1. ASSUME NEW n \in TreeIDs PROVE Tree!Children(n)' = Tree!Children(n)
    <3>1. Tree!ChildSet(n)' = Tree!ChildSet(n) BY Zenon DEF Tree!ChildSet, Tree!Includes
    <3> QED BY Zenon, <3>1 DEF Tree!Children
  <2> QED BY Zenon, <2>1 DEF TreeOrder
<1>3. Tree!MaxDepth' = Tree!MaxDepth /\ Tree!MaxNodes' = Tree!MaxNodes BY Zenon DEF Tree!MaxDepth, Tree!MaxNodes
<1>4. Tree!Roots' = Tree!Roots BY Zenon DEF Tree!Roots, Tree!OfRepo, Tree!FoldersAt, Tree!Workspaces
<1>5. Tree!Workspaces' = Tree!Workspaces BY Zenon DEF Tree!Workspaces
<1>6. Tree!Ambiguous' <=> Tree!Ambiguous BY Zenon, <1>4, <1>5 DEF Tree!Ambiguous
<1>7. Tree!ValidRequest' <=> Tree!ValidRequest BY Zenon, <1>3 DEF Tree!ValidRequest
<1>8. \A r : TreeWays(r)' = TreeWays(r) BY Zenon, <1>1, <1>3 DEF TreeWays
<1> QED BY Zenon, <1>1, <1>2, <1>3, <1>4, <1>6, <1>7, <1>8

\* The request's limits.
LEMMA TreeLimits ==
  ASSUME Tree!StructureAssumption, Tree!ValidRequest
  PROVE  /\ Tree!MaxDepth \in Nat /\ Tree!MaxNodes \in Nat /\ 1 <= Tree!MaxDepth /\ 1 <= Tree!MaxNodes
         /\ LimitMaxNodes \in Nat /\ Tree!MaxNodes <= LimitMaxNodes
BY DEF Tree!StructureAssumption, Tree!ValidRequest

\* The walk in the next state.
LEMMA TreeWalksOn ==
  ASSUME graph' = graph, r1' = r1, NEW r, NEW P, NEW c,
         r \in Tree!Roots, r \in graph.live,
         Climb(TreeIDs, TreeKids, TreeOrder, r, P, c), Len(P) <= Tree!MaxDepth,
         r2' = Frames(TreeOrder, P, c),
         Laid(TreeKids, TreeOrder, TreeBefore, r, Tree!MaxDepth, P, c, r4'),
         pc' \in {"walk", "done"}, pc' = "done" <=> Len(P) = 0,
         ~ Tree!Ambiguous, Tree!ValidRequest, r3' = Len(r4'), r3' <= Tree!MaxNodes
  PROVE  TreeWorks'
<1>1. /\ TreeKids' = TreeKids /\ TreeOrder' = TreeOrder /\ Tree!MaxDepth' = Tree!MaxDepth /\ Tree!MaxNodes' = Tree!MaxNodes
      /\ Tree!Roots' = Tree!Roots /\ (Tree!Ambiguous' <=> Tree!Ambiguous) /\ (Tree!ValidRequest' <=> Tree!ValidRequest)
  BY Zenon, SameTree
<1>2. TreeWalks(r, P, c)' BY Zenon, <1>1 DEF TreeWalks, TreeBefore
<1> QED BY Zenon, <1>1, <1>2 DEF TreeWorks

LEMMA TreeGivesUpNext ==
  ASSUME graph' = graph, r1' = r1, NEW r \in Tree!Roots, r \in graph.live, Cardinality(TreeWays(r)) > Tree!MaxNodes, r2' = r2,
         pc' = "exceeded", Tree!ValidRequest, r3' = Len(r4'), r3' \in Nat, r3' <= Tree!MaxNodes,
         \A i \in DOMAIN r2 : r2[i].node \in graph.live /\ \A j \in DOMAIN r2[i].rest : r2[i].rest[j] \in graph.live
  PROVE  TreeGivesUp'
<1>1. /\ Tree!MaxNodes' = Tree!MaxNodes /\ Tree!Roots' = Tree!Roots /\ (Tree!ValidRequest' <=> Tree!ValidRequest)
      /\ TreeWays(r)' = TreeWays(r)
  BY Zenon, SameTree
<1>2. (\A i \in DOMAIN r2 : r2[i].node \in graph.live /\ \A j \in DOMAIN r2[i].rest : r2[i].rest[j] \in graph.live)'
  BY Zenon
<1> QED BY Zenon, <1>1, <1>2 DEF TreeGivesUp

\* The nodes of the calls in progress, and those they have left, are in the graph.
LEMMA TreeFramesLive ==
  ASSUME Tree!StructureAssumption, graph \in TreeGraphs, NEW r \in graph.live, NEW P, NEW c,
         Climb(TreeIDs, TreeKids, TreeOrder, r, P, c)
  PROVE  LET s == Frames(TreeOrder, P, c)
         IN  \A i \in DOMAIN s : s[i].node \in graph.live /\ \A j \in DOMAIN s[i].rest : s[i].rest[j] \in graph.live
<1> DEFINE s == Frames(TreeOrder, P, c)
<1>1. Listing(TreeIDs, TreeKids, TreeOrder, TreeBefore) /\ \A n \in TreeIDs : TreeKids[n] \subseteq graph.live BY Zenon, TreeListing
<1> HIDE DEF s
<1>2. Framed(TreeIDs, TreeKids, TreeOrder, P, c, s) BY Zenon, <1>1, FramesFacts DEF s
<1>3. P \in Seq(TreeIDs) /\ Len(P) \in Nat /\ \A i \in 1..Len(P) : P[i] \in TreeIDs BY DEF Climb
<1>4. ASSUME NEW i \in 1..Len(P) PROVE P[i] \in graph.live
  <2>1. CASE i = 1
    <3>1. Len(P) # 0 BY <1>3
    <3> QED BY Zenon, <2>1, <3>1 DEF Climb
  <2>2. CASE i # 1
    <3> DEFINE h == i - 1
    <3>1. h \in 1..(Len(P) - 1) /\ h \in 1..Len(P) /\ h + 1 = i BY <1>3, <2>2
    <3> HIDE DEF h
    <3>2. c[h] # 0 /\ P[h + 1] = TreeOrder[P[h]][c[h]] /\ c[h] \in Nat /\ c[h] <= Len(TreeOrder[P[h]]) BY <3>1 DEF Climb
    <3>3. P[h] \in TreeIDs BY <1>3, <3>1
    <3> DEFINE x == P[h]
               k == c[h]
    <3>4. x \in TreeIDs /\ k \in Nat /\ k # 0 /\ k <= Len(TreeOrder[x]) /\ P[i] = TreeOrder[x][k] BY <3>1, <3>2, <3>3
    <3> HIDE DEF x, k
    <3>5. Len(TreeOrder[x]) \in Nat BY <1>1, <3>4, ListingFacts
    <3>6. k \in 1..Len(TreeOrder[x]) BY <3>4, <3>5
    <3>7. TreeOrder[x][k] \in TreeKids[x] BY <1>1, <3>4, <3>6, ListingFacts
    <3> QED BY <1>1, <3>4, <3>7
  <2> QED BY <2>1, <2>2
<1>5. DOMAIN s = 1..Len(P) BY Zenon, <1>2 DEF Framed
<1>6. ASSUME NEW i \in 1..Len(P) PROVE s[i].node \in graph.live /\ \A j \in DOMAIN s[i].rest : s[i].rest[j] \in graph.live
  <2> DEFINE q == Left(TreeOrder[P[i]], c[i])
  <2>1. s[i].node = P[i] /\ s[i].rest = q BY Zenon, <1>2 DEF Framed
  <2>2. \A j \in 1..Len(q) : q[j] \in TreeKids[P[i]] BY Zenon, <1>2 DEF Framed
  <2>3. TreeKids[P[i]] \subseteq graph.live BY <1>1, <1>3
  <2>4. DOMAIN q = 1..Len(q)
    <3> DEFINE L == TreeOrder[P[i]]
    <3>1. L \in Seq(TreeKids[P[i]]) BY Zenon, <1>1, <1>3 DEF Listing
    <3>2. c[i] \in Nat /\ c[i] <= Len(L) BY DEF Climb
    <3> HIDE DEF L
    <3>3. Left(L, c[i]) \in Seq(TreeKids[P[i]]) BY <3>1, <3>2, LeftFacts
    <3> DEFINE z == Left(L, c[i])
    <3> HIDE DEF z
    <3>4. z \in Seq(TreeKids[P[i]]) BY <3>3 DEF z
    <3>5. DOMAIN z = 1..Len(z) BY <3>4
    <3> QED BY <3>5 DEF z, L
  <2> HIDE DEF q
  <2> QED BY <1>4, <2>1, <2>2, <2>3, <2>4
<1> QED BY Zenon, <1>5, <1>6 DEF s

LEMMA TreeRejects ==
  ASSUME Tree!StructureAssumption, TreeInv, Tree!Reject
  PROVE  TreeInv'
<1>1. pc = "start" /\ graph' = graph /\ r2' = r2 /\ r3' = r3 /\ r4' = r4 BY Zenon DEF Tree!Reject
<1>2. pc' \in {"ambiguous", "missing", "invalid"} BY Zenon DEF Tree!Reject
<1>3. TreeIdle
  <2>1. pc # "walk" /\ pc # "done" /\ pc # "exceeded" BY <1>1
  <2> QED BY Zenon, <2>1 DEF TreeInv, TreeWorks, TreeGivesUp
<1>4. TreeIdle' BY Zenon, <1>1, <1>2, <1>3 DEF TreeIdle
<1> QED BY Zenon, <1>1, <1>4 DEF TreeInv

LEMMA TreeReturns ==
  ASSUME Tree!StructureAssumption, TreeInv, Tree!Return
  PROVE  TreeInv'
<1>1. /\ pc = "walk" /\ r2 # <<>> /\ Tree!Top.rest = <<>> /\ r2' = Tree!Popped /\ graph' = graph /\ r1' = r1 /\ r3' = r3 /\ r4' = r4
      /\ pc' = IF Tree!Popped = <<>> THEN "done" ELSE "walk"
  BY Zenon DEF Tree!Return
<1>2. graph \in TreeGraphs BY Zenon DEF TreeInv
<1>3. TreeWorks
  <2>1. pc \notin {"start", "ambiguous", "missing", "invalid"} /\ pc # "exceeded" BY <1>1
  <2> QED BY Zenon, <2>1 DEF TreeInv, TreeIdle, TreeGivesUp
<1>4. PICK r, P, c : TreeWalks(r, P, c) BY Zenon, <1>3 DEF TreeWorks
<1>5. Listing(TreeIDs, TreeKids, TreeOrder, TreeBefore) BY <1>2, TreeListing
<1>6. Tree!MaxDepth \in Nat BY Zenon, <1>3, TreeLimits DEF TreeWorks
<1> DEFINE O == TreeOrder
           d == Tree!MaxDepth
           n == Len(P)
           P4 == SubSeq(P, 1, n - 1)
           c4 == [i \in 1..(n - 1) |-> c[i]]
           s == Frames(O, P, c)
<1>7. /\ r \in Tree!Roots /\ r \in graph.live /\ Climb(TreeIDs, TreeKids, O, r, P, c) /\ n <= d /\ r2 = s
      /\ Laid(TreeKids, O, TreeBefore, r, d, P, c, r4) /\ n # 0
  <2>1. pc # "done" BY <1>1
  <2> QED BY Zenon, <1>4, <2>1 DEF TreeWalks
<1>8. r \in TreeIDs BY <1>2, <1>7 DEF Tree!StructureAssumption
<1>9. Framed(TreeIDs, TreeKids, O, P, c, s) BY Zenon, <1>5, <1>7, FramesFacts
<1>10. c[n] = Len(O[P[n]])
  <2> DEFINE L == O[P[n]]
  <2>1. n \in 1..n /\ P[n] \in TreeIDs /\ c[n] \in Nat /\ c[n] <= Len(L) BY <1>7 DEF Climb
  <2>2. L \in Seq(TreeKids[P[n]]) BY Zenon, <1>5, <2>1 DEF Listing
  <2>3. Len(s) = n /\ s[n].rest = Left(L, c[n]) BY Zenon, <1>9, <2>1 DEF Framed
  <2> HIDE DEF L
  <2>4. Left(L, c[n]) = <<>> <=> c[n] = Len(L) BY <2>1, <2>2, LeftFacts
  <2>5. Tree!Top = s[n] BY Zenon, <1>7, <2>3 DEF Tree!Top
  <2> QED BY Zenon, <1>1, <2>3, <2>4, <2>5 DEF L
<1>11. P \in Seq(TreeIDs) /\ n \in Nat BY <1>7 DEF Climb
<1>12. Climb(TreeIDs, TreeKids, O, r, P4, c4) /\ \A p \in Seq(TreeIDs) : Pending(O, P4, c4, p) <=> Pending(O, P, c, p)
  BY Zenon, <1>5, <1>7, <1>8, <1>10, CallEnds
<1>13. Len(P4) = n - 1 /\ \A i \in 1..(n - 1) : P4[i] = P[i] BY <1>7, <1>11, AllButLast
<1>14. \A i \in 1..(n - 1) : c4[i] = c[i] OBVIOUS
<1> HIDE DEF P4, c4
<1>26. Len(P4) = n - 1 /\ \A i \in 1..(n - 1) : P4[i] = P[i] /\ c4[i] = c[i] BY Zenon, <1>13, <1>14
<1>15. SubSeq(s, 1, Len(s) - 1) = Frames(O, P4, c4) BY <1>5, <1>7, <1>12, <1>26, FramesPop
<1>16. Tree!Popped = Frames(O, P4, c4) BY Zenon, <1>7, <1>15 DEF Tree!Popped
<1>17. Framed(TreeIDs, TreeKids, O, P4, c4, Frames(O, P4, c4)) BY Zenon, <1>5, <1>12, FramesFacts
<1>18. Tree!Popped = <<>> <=> Len(P4) = 0
  <2> DEFINE u == Frames(O, P4, c4)
  <2>1. u \in Seq([node : TreeIDs, rest : Seq(TreeIDs)]) /\ Len(u) = Len(P4) BY Zenon, <1>17 DEF Framed
  <2> HIDE DEF u
  <2>2. u = <<>> <=> Len(P4) = 0 BY <2>1
  <2> QED BY Zenon, <1>16, <2>2 DEF u
<1>19. \A p \in Ways(TreeKids, r, d) : p \in Seq(TreeIDs)
  <2>1. TreeKids \in [TreeIDs -> SUBSET TreeIDs] BY <1>5 DEF Listing
  <2> QED BY Zenon, <1>6, <1>8, <2>1, WayFacts
<1>20. Laid(TreeKids, O, TreeBefore, r, d, P4, c4, r4) BY Zenon, <1>7, <1>12, <1>19 DEF Laid
<1>21. Len(P4) <= d BY <1>6, <1>7, <1>11, <1>13
<1>22. pc' \in {"walk", "done"} /\ (pc' = "done" <=> Len(P4) = 0) BY <1>1, <1>18
<1>23. ~ Tree!Ambiguous /\ Tree!ValidRequest /\ r3' = Len(r4') /\ r3' <= Tree!MaxNodes BY Zenon, <1>1, <1>3 DEF TreeWorks
<1>24. r2' = Frames(TreeOrder, P4, c4) /\ Laid(TreeKids, TreeOrder, TreeBefore, r, Tree!MaxDepth, P4, c4, r4') BY Zenon, <1>1, <1>16, <1>20
<1>25. TreeWorks' BY Zenon, <1>1, <1>7, <1>12, <1>21, <1>22, <1>23, <1>24, TreeWalksOn
<1> QED BY Zenon, <1>1, <1>2, <1>25 DEF TreeInv

\* A call below the innermost one is pending.
LEMMA ChildPending ==
  ASSUME NEW N, NEW K, NEW O, NEW B, Listing(N, K, O, B), NEW r, NEW w, NEW c, Climb(N, K, O, r, w, c), Len(w) # 0,
         c[Len(w)] = 0, NEW k \in 1..Len(O[w[Len(w)]])
  PROVE  Pending(O, w, c, Append(w, O[w[Len(w)]][k]))
<1> DEFINE n == Len(w)
           x == O[w[n]][k]
           p == Append(w, x)
<1>1. w \in Seq(N) /\ n \in Nat /\ n \in 1..n /\ w[n] \in N BY DEF Climb
<1>2. Len(O[w[n]]) \in Nat /\ x \in N BY <1>1, ListingFacts
<1>3. Len(p) = n + 1 /\ p[n + 1] = x /\ \A i \in 1..n : p[i] = w[i]
  <2> HIDE DEF x
  <2> QED BY <1>1, AppendAny
<1> HIDE DEF p
<1>4. n < Len(p) /\ n <= Len(p) /\ n <= n BY <1>1, <1>3
<1>5. Agree(p, w, n) BY Zenon, <1>3, <1>4 DEF Agree
<1>6. c[n] < k BY <1>1, <1>2
<1>7. Beyond(O, w, c, p, n) BY Zenon, <1>3, <1>4, <1>5, <1>6 DEF Beyond
<1> QED BY Zenon, <1>1, <1>7 DEF Pending, p

\* With the children of a call that goes deeper the ways are more than the tree holds.
LEMMA ChildrenCount ==
  ASSUME NEW N, IsFiniteSet(N), NEW K, NEW O, NEW B, Listing(N, K, O, B), NEW r \in N, NEW d \in Nat, NEW w, NEW c, NEW t,
         Climb(N, K, O, r, w, c), Len(w) # 0, Len(w) <= d, c[Len(w)] = 0, Laid(K, O, B, r, d, w, c, t)
  PROVE  Cardinality(Ways(K, r, d)) \in Nat /\ Len(t) + Len(O[w[Len(w)]]) <= Cardinality(Ways(K, r, d))
<1> DEFINE W == Ways(K, r, d)
           n == Len(w)
           L == O[w[n]]
           k == Len(L)
           e == [j \in 1..k |-> Append(w, L[j])]
<1>1. K \in [N -> SUBSET N] BY DEF Listing
<1>2. w \in Seq(N) /\ n \in Nat /\ n \in 1..n /\ w[n] \in N /\ w[1] = r BY DEF Climb
<1>3. k \in Nat /\ \A j \in 1..k : L[j] \in K[w[n]] /\ L[j] \in N BY <1>2, ListingFacts
<1>4. \A i, j \in 1..k : i < j => L[i] # L[j] BY <1>2, ListedOnce
<1>5. ASSUME NEW j \in 1..k PROVE Append(w, L[j]) \in W /\ Pending(O, w, c, Append(w, L[j]))
  <2> DEFINE x == L[j]
             p == Append(w, x)
  <2>1. x \in K[w[n]] /\ x \in N BY <1>3
  <2>2. Pending(O, w, c, p) BY Zenon, ChildPending
  <2> HIDE DEF x
  <2>3. IsWay(K, p) BY <2>1, ClimbIsWay
  <2>4. p \in Seq(N) /\ Len(p) = n + 1 /\ p[1] = r BY <1>2, <2>1
  <2> HIDE DEF p
  <2>5. Len(p) \in 1..(d + 1) BY <1>2, <2>4
  <2>6. p \in W BY <1>1, <2>3, <2>4, <2>5, WayFacts
  <2> QED BY Zenon, <2>2, <2>6 DEF p, x
<1>6. e \in [1..k -> W]
  <2>1. \A j \in 1..k : Append(w, L[j]) \in W BY Zenon, <1>5
  <2> HIDE DEF W, k, L
  <2> QED BY Zenon, <2>1
<1>7. \A j \in 1..k : e[j] = Append(w, L[j]) OBVIOUS
<1>8. \A i, j \in 1..k : e[i] = e[j] => i = j
  <2> SUFFICES ASSUME NEW i \in 1..k, NEW j \in 1..k, e[i] = e[j] PROVE i = j OBVIOUS
  <2> HIDE DEF e
  <2>1. Append(w, L[i]) = Append(w, L[j]) BY Zenon, <1>7
  <2>2. Append(w, L[i])[n + 1] = L[i] /\ Append(w, L[j])[n + 1] = L[j] BY Zenon, <1>2, AppendAny
  <2>3. L[i] = L[j] BY Zenon, <2>1, <2>2
  <2>4. ~ (i < j) /\ ~ (j < i) BY <1>4, <2>3
  <2> QED BY <1>3, <2>4
<1> HIDE DEF e
<1>9. t \in Seq(W) /\ \A p \in W : ~ Pending(O, w, c, p) <=> \E i \in 1..Len(t) : t[i] = p BY Zenon DEF Laid
<1>10. \A i \in 1..Len(t) : \A j \in 1..k : t[i] # e[j] BY Zenon, <1>5, <1>7, <1>9
<1>11. \A i, j \in 1..Len(t) : i < j => t[i] # t[j] BY LaidOnce
<1>12. IsFiniteSet(W) BY <1>1, WaysAreFinite
<1> HIDE DEF W, k, L
<1>13. Cardinality(W) \in Nat /\ Len(t) + k <= Cardinality(W) BY <1>3, <1>6, <1>8, <1>9, <1>10, <1>11, <1>12, SizeBeyondList
<1> QED BY Zenon, <1>13 DEF W, k, L

\* So they are before the next call when the tree is full.
LEMMA NextCount ==
  ASSUME NEW N, IsFiniteSet(N), NEW K, NEW O, NEW B, Listing(N, K, O, B), NEW r \in N, NEW d \in Nat, NEW P, NEW c, NEW t,
         Laid(K, O, B, r, d, P, c, t), NEW w \in Ways(K, r, d), Pending(O, P, c, w)
  PROVE  Cardinality(Ways(K, r, d)) \in Nat /\ Len(t) + 1 <= Cardinality(Ways(K, r, d))
<1> DEFINE W == Ways(K, r, d)
           e == [j \in 1..1 |-> w]
<1>1. K \in [N -> SUBSET N] BY DEF Listing
<1>2. t \in Seq(W) /\ \A p \in W : ~ Pending(O, P, c, p) <=> \E i \in 1..Len(t) : t[i] = p BY Zenon DEF Laid
<1>3. \A i, j \in 1..Len(t) : i < j => t[i] # t[j] BY Zenon, LaidOnce
<1>4. IsFiniteSet(W) BY <1>1, WaysAreFinite
<1>5. w \in W OBVIOUS
<1>6. \A i \in 1..Len(t) : t[i] # w BY Zenon, <1>2, <1>5
<1> HIDE DEF W
<1>7. e \in [1..1 -> W] /\ \A j \in 1..1 : e[j] = w BY <1>5
<1>8. \A i, j \in 1..1 : e[i] = e[j] => i = j OBVIOUS
<1> HIDE DEF e
<1>9. \A i \in 1..Len(t) : \A j \in 1..1 : t[i] # e[j] BY Zenon, <1>6, <1>7
<1>10. Cardinality(W) \in Nat /\ Len(t) + 1 <= Cardinality(W) BY <1>2, <1>3, <1>4, <1>7, <1>8, <1>9, SizeBeyondList
<1> QED BY Zenon, <1>10 DEF W

\* The outcome of the next call below the innermost one.
LEMMA TreeCalls ==
  ASSUME Tree!StructureAssumption, graph \in TreeGraphs, NEW r, NEW P, NEW c, TreeWalks(r, P, c), Len(P) # 0,
         c[Len(P)] < Len(TreeOrder[P[Len(P)]]), ~ Tree!Ambiguous, Tree!ValidRequest, r3 = Len(r4), r3 <= Tree!MaxNodes,
         graph' = graph, r1' = r1,
         NEW m, m = TreeOrder[P[Len(P)]][c[Len(P)] + 1],
         NEW back, back = Frames(TreeOrder, P, [c EXCEPT ![Len(P)] = @ + 1]), Tree!Call(m, back)
  PROVE  TreeInv'
<1> DEFINE O == TreeOrder
           d == Tree!MaxDepth
           n == Len(P)
           w == Append(P, m)
           c2 == [c EXCEPT ![n] = @ + 1]
           c3 == Deeper(c, n)
           W == Ways(TreeKids, r, d)
<1>1. Listing(TreeIDs, TreeKids, O, TreeBefore) /\ TreeKids \in [TreeIDs -> SUBSET TreeIDs] BY TreeListing DEF Listing
<1>2. /\ r \in Tree!Roots /\ r \in graph.live /\ Climb(TreeIDs, TreeKids, O, r, P, c) /\ n <= d /\ r2 = Frames(O, P, c)
      /\ Laid(TreeKids, O, TreeBefore, r, d, P, c, r4) /\ n # 0
  BY Zenon DEF TreeWalks
<1>3. r \in TreeIDs BY <1>2 DEF Tree!StructureAssumption
<1>4. IsFiniteSet(TreeIDs) BY TreeNames DEF Tree!StructureAssumption
<1>5. d \in Nat /\ Tree!MaxNodes \in Nat /\ 1 <= d /\ 1 <= Tree!MaxNodes BY TreeLimits
<1>6. P \in Seq(TreeIDs) /\ n \in Nat /\ n \in 1..n /\ P[n] \in TreeIDs /\ c \in [1..n -> Nat] /\ c[n] \in Nat BY <1>2 DEF Climb
<1>7. r4 \in Seq(W) /\ Len(r4) \in Nat /\ Len(r4) # 0 BY <1>2 DEF Laid
<1>8. m \in TreeIDs /\ m \in TreeKids[P[n]] /\ TreeKids[m] = Tree!ChildSet(m) /\ O[m] = Tree!Children(m)
      /\ Len(O[m]) = Cardinality(Tree!ChildSet(m))
  <2> DEFINE x == P[n]
             k == c[n] + 1
  <2>1. x \in TreeIDs /\ k \in Nat /\ k # 0 /\ c[n] < Len(O[x]) /\ c[n] \in Nat BY <1>6
  <2>2. Len(O[x]) \in Nat
    <3> HIDE DEF x
    <3> QED BY <1>1, <2>1, ListingFacts
  <2>3. k \in 1..Len(O[x]) BY <2>1, <2>2
  <2>4. m = O[x][k] OBVIOUS
  <2> HIDE DEF x, k
  <2>5. O[x][k] \in TreeKids[x] /\ O[x][k] \in TreeIDs BY <1>1, <2>1, <2>3, ListingFacts
  <2>6. m \in TreeIDs /\ m \in TreeKids[x] BY <2>4, <2>5
  <2>7. TreeKids[m] = Tree!ChildSet(m) /\ O[m] = Tree!Children(m) /\ Len(O[m]) = Cardinality(Tree!ChildSet(m))
    BY Zenon, <2>6, TreeListing
  <2> QED BY Zenon, <2>6, <2>7 DEF x
<1>9. w \in W /\ Pending(O, P, c, w) /\ \A p \in W : ~ Pending(O, P, c, p) => Ahead(TreeBefore, p, w)
  BY Zenon, <1>1, <1>2, <1>3, <1>5, NextIsLast
<1>10. Framed(TreeIDs, TreeKids, O, P, c, r2) BY Zenon, <1>1, <1>2, FramesFacts
<1>11. Tree!Path = P /\ Len(r2) = n /\ DOMAIN r2 = 1..n /\ \A i \in 1..n : r2[i].node = P[i] BY Zenon, <1>10 DEF Framed, Tree!Path
<1>12. Tree!Seen(m) <=> \E i \in 1..n : P[i] = m BY Zenon, <1>11 DEF Tree!Seen
<1>13. \A i \in DOMAIN r2 : r2[i].node \in graph.live /\ \A j \in DOMAIN r2[i].rest : r2[i].rest[j] \in graph.live
  BY Zenon, <1>2, TreeFramesLive
<1>14. TreeWays(r) = W BY Zenon DEF TreeWays
<1>15. CASE Tree!Full
  <2>1. pc' = "exceeded" /\ r2' = r2 /\ r3' = r3 /\ r4' = r4 BY Zenon, <1>15 DEF Tree!Call
  <2>2. Cardinality(W) \in Nat /\ Len(r4) + 1 <= Cardinality(W) BY Zenon, <1>1, <1>2, <1>3, <1>4, <1>5, <1>9, NextCount
  <2>3. r3 >= Tree!MaxNodes BY <1>15 DEF Tree!Full
  <2>4. Cardinality(W) > Tree!MaxNodes
    <3> HIDE DEF W
    <3> QED BY <1>5, <1>7, <2>2, <2>3
  <2>5. r3' = Len(r4') /\ r3' \in Nat /\ r3' <= Tree!MaxNodes BY <1>7, <2>1
  <2>6. TreeGivesUp' BY Zenon, <1>2, <1>13, <1>14, <2>1, <2>4, <2>5, TreeGivesUpNext
  <2> QED BY Zenon, <2>6 DEF TreeInv
<1>16. CASE ~ Tree!Full
  <2>1. r3' = r3 + 1 /\ r4' = Append(r4, w) BY Zenon, <1>11, <1>16 DEF Tree!Call
  <2>2. r3 < Tree!MaxNodes BY <1>5, <1>7, <1>16 DEF Tree!Full
  <2>3. r3' = Len(r4') /\ r3' \in Nat /\ r3' <= Tree!MaxNodes
    <3>1. w \in W BY <1>9
    <3> HIDE DEF w, W
    <3> QED BY <1>5, <1>7, <2>1, <2>2, <3>1
  <2>4. CASE Tree!Seen(m) \/ n >= d
    <3>1. r2' = Frames(O, P, c2) /\ pc' = "walk" BY Zenon, <1>11, <1>16, <2>4 DEF Tree!Call
    <3>2. Climb(TreeIDs, TreeKids, O, r, P, c2) BY Zenon, <1>1, <1>2, <1>3, LeafClimbs
    <3>3. \A p \in W : ~ Pending(O, P, c2, p) <=> ~ Pending(O, P, c, p) \/ p = w
      BY Zenon, <1>1, <1>2, <1>3, <1>5, <1>12, <2>4, LeafTaken
    <3>4. Laid(TreeKids, O, TreeBefore, r, d, P, c2, Append(r4, w)) BY Zenon, <1>2, <1>9, <3>3, LaidAppend
    <3>5. pc' \in {"walk", "done"} /\ (pc' = "done" <=> n = 0) BY <1>2, <3>1
    <3> HIDE DEF c2
    <3>6. TreeWorks' BY Zenon, <1>2, <2>1, <2>3, <3>1, <3>2, <3>4, <3>5, TreeWalksOn
    <3> QED BY Zenon, <3>6 DEF TreeInv
  <2>5. CASE ~ (Tree!Seen(m) \/ n >= d)
    <3>1. \A i \in 1..n : P[i] # m BY Zenon, <1>12, <2>5
    <3>2. Climb(TreeIDs, TreeKids, O, r, w, c3) /\ \A p \in W : ~ Pending(O, w, c3, p) <=> ~ Pending(O, P, c, p) \/ p = w
      <4> DEFINE x == O[P[n]][c[n] + 1]
                 v == Append(P, x)
      <4>1. \A i \in 1..n : P[i] # x BY Zenon, <3>1
      <4>2. c[n] < Len(O[P[n]]) OBVIOUS
      <4>3. Climb(TreeIDs, TreeKids, O, r, v, c3) /\ \A p \in W : ~ Pending(O, v, c3, p) <=> ~ Pending(O, P, c, p) \/ p = v
        BY Zenon, <1>1, <1>2, <1>3, <1>5, <4>1, <4>2, CallMade
      <4>4. v = w OBVIOUS
      <4> HIDE DEF v, w, c3
      <4> QED BY Zenon, <4>3, <4>4
    <3>3. Laid(TreeKids, O, TreeBefore, r, d, w, c3, r4') BY Zenon, <1>2, <1>9, <2>1, <3>2, LaidAppend
    <3>4. Len(w) = n + 1 /\ w[n + 1] = m BY <1>6, <1>8
    <3>5. c3[n + 1] = 0 /\ c2 \in [1..n -> Nat] /\ \A i \in 1..n : c3[i] = c2[i]
      <4>1. \A i \in 1..n : i \in 1..(n + 1) /\ i # n + 1 BY <1>6
      <4>2. n + 1 \in 1..(n + 1) BY <1>6
      <4> QED BY <1>6, <4>1, <4>2 DEF Deeper
    <3>6. n + 1 <= d /\ Len(w) <= d /\ Len(w) # 0 BY <1>5, <1>6, <2>5, <3>4
    <3> HIDE DEF c3, w
    <3>7. CASE Tree!Cardinality(Tree!ChildSet(m)) > Tree!MaxNodes - r3'
      <4>1. pc' = "exceeded" /\ r2' = r2 BY Zenon, <1>11, <1>16, <2>5, <3>7 DEF Tree!Call
      <4>2. w[Len(w)] = m /\ c3[Len(w)] = 0 BY Zenon, <3>4, <3>5
      <4>3. Cardinality(W) \in Nat /\ Len(r4') + Len(O[w[Len(w)]]) <= Cardinality(W)
        BY Zenon, <1>1, <1>3, <1>4, <1>5, <3>2, <3>3, <3>6, <4>2, ChildrenCount
      <4>4. Len(O[m]) > Tree!MaxNodes - r3' BY Zenon, <1>8, <3>7, TreeNames
      <4>5. Len(r4') + Len(O[m]) <= Cardinality(W) BY Zenon, <4>2, <4>3
      <4>6. Len(O[m]) \in Nat BY <1>1, <1>8, ListingFacts
      <4>7. Cardinality(W) > Tree!MaxNodes
        <5> HIDE DEF W
        <5> DEFINE x == Cardinality(W)
                   y == Len(O[m])
                   z == Len(r4')
        <5>1. x \in Nat /\ z + y <= x /\ y > Tree!MaxNodes - r3' /\ y \in Nat /\ r3' = z /\ z \in Nat
          BY <2>3, <4>3, <4>4, <4>5, <4>6
        <5> HIDE DEF x, y, z
        <5>2. x > Tree!MaxNodes BY <1>5, <5>1
        <5> QED BY <5>2 DEF x
      <4>8. TreeGivesUp' BY Zenon, <1>2, <1>13, <1>14, <2>3, <4>1, <4>7, TreeGivesUpNext
      <4> QED BY Zenon, <4>8 DEF TreeInv
    <3>8. CASE ~ (Tree!Cardinality(Tree!ChildSet(m)) > Tree!MaxNodes - r3')
      <4>1. r2' = Append(Frames(O, P, c2), [node |-> m, rest |-> Tree!Children(m)]) /\ pc' = "walk"
        BY Zenon, <1>11, <1>16, <2>5, <3>8 DEF Tree!Call
      <4>2. Climb(TreeIDs, TreeKids, O, r, P, c2) BY Zenon, <1>1, <1>2, <1>3, LeafClimbs
      <4>3. r2' = Frames(O, w, c3)
        <5> HIDE DEF c2
        <5>1. Pushed(O, P, c2, m, c3)
          <6>1. Climb(TreeIDs, TreeKids, O, r, Append(P, m), c3) BY Zenon, <3>2 DEF w
          <6>2. m \in TreeIDs BY Zenon, <1>8
          <6>3. c3[Len(P) + 1] = 0 /\ \A i \in 1..Len(P) : c3[i] = c2[i] BY Zenon, <3>5
          <6> QED BY Zenon, <1>1, <4>2, <6>1, <6>2, <6>3, FramesPush
        <5> QED BY Zenon, <1>8, <4>1, <5>1 DEF Pushed, w
      <4>4. pc' \in {"walk", "done"} /\ (pc' = "done" <=> Len(w) = 0) BY <3>6, <4>1
      <4>5. TreeWorks' BY Zenon, <1>2, <2>3, <3>2, <3>3, <3>6, <4>3, <4>4, TreeWalksOn
      <4> QED BY Zenon, <4>5 DEF TreeInv
    <3> QED BY <3>7, <3>8
  <2> QED BY <2>4, <2>5
<1> QED BY <1>15, <1>16

LEMMA TreeVisits ==
  ASSUME Tree!StructureAssumption, TreeInv, Tree!Visit
  PROVE  TreeInv'
<1> DEFINE h == Head(Tree!Top.rest)
           back == [r2 EXCEPT ![Len(r2)].rest = Tail(@)]
<1>1. pc = "walk" /\ Tree!Top.rest # <<>> /\ graph' = graph /\ r1' = r1 /\ Tree!Call(h, back) BY Zenon DEF Tree!Visit
<1> HIDE DEF h, back
<1>2. graph \in TreeGraphs BY Zenon DEF TreeInv
<1>3. TreeWorks
  <2>1. pc \notin {"start", "ambiguous", "missing", "invalid"} /\ pc # "exceeded" BY <1>1
  <2> QED BY Zenon, <2>1 DEF TreeInv, TreeIdle, TreeGivesUp
<1>4. PICK r, P, c : TreeWalks(r, P, c) BY Zenon, <1>3 DEF TreeWorks
<1>5. Listing(TreeIDs, TreeKids, TreeOrder, TreeBefore) BY <1>2, TreeListing
<1> DEFINE O == TreeOrder
           n == Len(P)
           s == Frames(O, P, c)
           L == O[P[n]]
           m == L[c[n] + 1]
           c2 == [c EXCEPT ![n] = @ + 1]
<1>6. /\ r \in Tree!Roots /\ r \in graph.live /\ Climb(TreeIDs, TreeKids, O, r, P, c) /\ r2 = s /\ n # 0
  <2>1. pc # "done" BY <1>1
  <2> QED BY Zenon, <1>4, <2>1 DEF TreeWalks
<1>7. r \in TreeIDs BY <1>2, <1>6 DEF Tree!StructureAssumption
<1>8. /\ s[Len(s)].rest = <<>> <=> c[n] = Len(L)
      /\ c[n] <= Len(L) /\ c[n] \in Nat /\ Len(L) \in Nat
      /\ c[n] < Len(L) => /\ Head(s[Len(s)].rest) = m
                          /\ Climb(TreeIDs, TreeKids, O, r, P, c2) => [s EXCEPT ![Len(s)].rest = Tail(@)] = Frames(O, P, c2)
  <2>1. TopFrame(TreeIDs, TreeKids, O, r, P, c) BY Zenon, <1>5, <1>6, FramesTop
  <2> QED BY Zenon, <2>1 DEF TopFrame
<1>9. Tree!Top = s[Len(s)] BY Zenon, <1>6 DEF Tree!Top
<1>10. c[n] < Len(L)
  <2>1. c[n] # Len(L) BY Zenon, <1>1, <1>8, <1>9
  <2> HIDE DEF L, n
  <2> QED BY <1>8, <2>1
<1>11. Climb(TreeIDs, TreeKids, O, r, P, c2) BY Zenon, <1>5, <1>6, <1>7, <1>10, LeafClimbs
<1>12. h = m BY Zenon, <1>8, <1>9, <1>10 DEF h
<1>13. back = Frames(O, P, c2) BY Zenon, <1>6, <1>8, <1>10, <1>11 DEF back
<1>14. ~ Tree!Ambiguous /\ Tree!ValidRequest /\ r3 = Len(r4) /\ r3 <= Tree!MaxNodes BY Zenon, <1>3 DEF TreeWorks
<1> QED BY Zenon, <1>1, <1>2, <1>4, <1>6, <1>10, <1>12, <1>13, <1>14, TreeCalls

\* The first call.
LEMMA TreeStarts ==
  ASSUME Tree!StructureAssumption, TreeInv, Tree!Start
  PROVE  TreeInv'
<1>1. /\ pc = "start" /\ ~ Tree!Ambiguous /\ Tree!ValidRequest /\ graph' = graph /\ r1' = r1
      /\ \E x \in Tree!Roots \cap graph.live : Tree!Call(x, <<>>)
  BY Zenon DEF Tree!Start
<1>2. graph \in TreeGraphs BY Zenon DEF TreeInv
<1>3. r2 = <<>> /\ r3 = 0 /\ r4 = <<>>
  <2>1. pc \notin {"walk", "done"} /\ pc # "exceeded" BY <1>1
  <2> QED BY Zenon, <2>1 DEF TreeInv, TreeIdle, TreeWorks, TreeGivesUp
<1>4. PICK r \in Tree!Roots \cap graph.live : Tree!Call(r, <<>>) BY Zenon, <1>1
<1>5. r \in Tree!Roots /\ r \in graph.live BY <1>4
<1>6. r \in TreeIDs BY <1>2, <1>5 DEF Tree!StructureAssumption
<1>7. Listing(TreeIDs, TreeKids, TreeOrder, TreeBefore) BY <1>2, TreeListing
<1>8. IsFiniteSet(TreeIDs) BY TreeNames DEF Tree!StructureAssumption
<1> DEFINE O == TreeOrder
           d == Tree!MaxDepth
           P == <<r>>
           c == [i \in 1..1 |-> 0]
           W == Ways(TreeKids, r, d)
           t == <<P>>
<1>9. d \in Nat /\ Tree!MaxNodes \in Nat /\ 1 <= d /\ 1 <= Tree!MaxNodes BY <1>1, TreeLimits
<1>10. Climb(TreeIDs, TreeKids, O, r, P, c) /\ (\A p \in W : ~ Pending(O, P, c, p) <=> p = P) /\ P \in W
  <2>1. Started(TreeIDs, TreeKids, O, r, d) BY Zenon, <1>6, <1>7, <1>9, WalkStarts
  <2> QED BY Zenon, <2>1 DEF Started
<1>11. Len(P) = 1 /\ P[1] = r /\ c[1] = 0 OBVIOUS
<1>12. t \in Seq(W) /\ Len(t) = 1 /\ t[1] = P
  <2> HIDE DEF W, P
  <2> QED BY <1>10
<1>13. \A i : i \in 1..1 <=> i = 1 OBVIOUS
<1> HIDE DEF W, c, t
<1>14. Laid(TreeKids, O, TreeBefore, r, d, P, c, t)
  <2>1. \A p \in W : ~ Pending(O, P, c, p) <=> \E i \in 1..Len(t) : t[i] = p BY Zenon, <1>10, <1>12, <1>13
  <2>2. \A i, j \in 1..Len(t) : i < j => Ahead(TreeBefore, t[i], t[j])
    <3>1. \A i, j \in 1..Len(t) : ~ (i < j) BY <1>12
    <3> QED BY Zenon, <3>1
  <2>3. Len(t) # 0 BY <1>12
  <2> QED BY Zenon, <1>12, <2>1, <2>2, <2>3 DEF Laid, W
<1>15. Tree!Path = <<>> /\ Append(Tree!Path, r) = P /\ Append(r4, P) = t BY <1>3 DEF Tree!Path, t
<1>16. ~ Tree!Full BY <1>3, <1>9 DEF Tree!Full
<1>17. ~ Tree!Seen(r) BY <1>3 DEF Tree!Seen
<1>18. ~ (Len(r2) >= d) BY <1>3, <1>9
<1>19. r3' = r3 + 1 /\ r4' = t BY Zenon, <1>4, <1>15, <1>16 DEF Tree!Call
<1>20. r3' = Len(r4') /\ r3' \in Nat /\ r3' <= Tree!MaxNodes BY <1>3, <1>9, <1>12, <1>19
<1>21. TreeWays(r) = W BY Zenon DEF TreeWays, W
<1>22. O[r] = Tree!Children(r) /\ Len(O[r]) = Cardinality(Tree!ChildSet(r)) BY Zenon, <1>2, <1>6, TreeListing
<1>23. CASE Tree!Cardinality(Tree!ChildSet(r)) > Tree!MaxNodes - r3'
  <2>1. pc' = "exceeded" /\ r2' = r2 BY Zenon, <1>4, <1>16, <1>17, <1>18, <1>23 DEF Tree!Call
  <2>2. Len(P) # 0 /\ Len(P) <= d /\ P[Len(P)] = r BY <1>9, <1>11
  <2>3. c[Len(P)] = 0 BY Zenon, <1>11
  <2> HIDE DEF P
  <2>4. Cardinality(W) \in Nat /\ Len(t) + Len(O[P[Len(P)]]) <= Cardinality(W)
    BY Zenon, <1>6, <1>7, <1>8, <1>9, <1>10, <1>14, <2>2, <2>3, ChildrenCount DEF W
  <2>5. Len(t) + Len(O[r]) <= Cardinality(W) BY Zenon, <2>2, <2>4
  <2>6. Len(O[r]) > Tree!MaxNodes - r3' BY Zenon, <1>22, <1>23, TreeNames
  <2>7. Len(O[r]) \in Nat BY <1>6, <1>7, ListingFacts
  <2>8. Cardinality(W) > Tree!MaxNodes
    <3> DEFINE x == Cardinality(W)
               y == Len(O[r])
               z == Len(t)
    <3>1. x \in Nat /\ z + y <= x /\ y > Tree!MaxNodes - r3' /\ y \in Nat /\ r3' = z /\ z \in Nat
      BY <1>12, <1>19, <1>20, <2>4, <2>5, <2>6, <2>7
    <3> HIDE DEF x, y, z
    <3>2. x > Tree!MaxNodes BY <1>9, <3>1
    <3> QED BY <3>2 DEF x
  <2>9. \A i \in DOMAIN r2 : r2[i].node \in graph.live /\ \A j \in DOMAIN r2[i].rest : r2[i].rest[j] \in graph.live
    BY <1>3
  <2>10. TreeGivesUp' BY Zenon, <1>1, <1>5, <1>20, <1>21, <2>1, <2>8, <2>9, TreeGivesUpNext
  <2> QED BY Zenon, <1>1, <1>2, <2>10 DEF TreeInv
<1>24. CASE ~ (Tree!Cardinality(Tree!ChildSet(r)) > Tree!MaxNodes - r3')
  <2>1. r2' = Append(<<>>, [node |-> r, rest |-> Tree!Children(r)]) /\ pc' = "walk"
    BY Zenon, <1>4, <1>16, <1>17, <1>18, <1>24 DEF Tree!Call
  <2>2. Frames(O, P, c) = <<[node |-> r, rest |-> O[r]]>>
    <3> DEFINE x == [node |-> r, rest |-> O[r]]
    <3>1. O[r] \in Seq(TreeKids[r]) BY Zenon, <1>6, <1>7 DEF Listing
    <3>2. Left(O[r], 0) = O[r]
      <4> DEFINE y == O[r]
      <4>1. y \in Seq(TreeKids[r]) /\ 0 \in Nat /\ 0 <= Len(y) BY <3>1
      <4> HIDE DEF y
      <4>2. Left(y, 0) = y BY <4>1, LeftFacts
      <4> QED BY <4>2 DEF y
    <3>3. \A i \in 1..1 : [node |-> P[i], rest |-> Left(O[P[i]], c[i])] = x BY Zenon, <1>11, <1>13, <3>2
    <3>4. Frames(O, P, c) = [i \in 1..1 |-> x] BY Zenon, <1>11, <3>3 DEF Frames
    <3> HIDE DEF x
    <3>5. <<x>> = [i \in 1..1 |-> x] OBVIOUS
    <3> QED BY Zenon, <3>4, <3>5 DEF x
  <2>3. r2' = Frames(O, P, c)
    <3> DEFINE x == [node |-> r, rest |-> Tree!Children(r)]
    <3>1. Frames(O, P, c) = <<x>> BY Zenon, <1>22, <2>2
    <3>2. r2' = Append(<<>>, x) BY <2>1
    <3> HIDE DEF x
    <3>3. Append(<<>>, x) = <<x>> OBVIOUS
    <3> QED BY Zenon, <3>1, <3>2, <3>3
  <2>4. Len(P) <= d /\ pc' \in {"walk", "done"} /\ (pc' = "done" <=> Len(P) = 0) BY <1>9, <1>11, <2>1
  <2>5. Laid(TreeKids, O, TreeBefore, r, d, P, c, r4') BY Zenon, <1>14, <1>19
  <2> HIDE DEF P
  <2>6. TreeWorks' BY Zenon, <1>1, <1>5, <1>10, <1>20, <2>3, <2>4, <2>5, TreeWalksOn
  <2> QED BY Zenon, <1>1, <1>2, <2>6 DEF TreeInv
<1> QED BY Zenon, <1>23, <1>24

LEMMA TreeNext == asked = "tree" /\ TreeInv /\ [Next]_vars => TreeInv'
<1> SUFFICES ASSUME asked = "tree", TreeInv, [Next]_vars PROVE TreeInv' OBVIOUS
<1>1. Tree!StructureAssumption BY Inputs
<1>2. CASE Next
  <2>1. Tree!Next BY Zenon, <1>2 DEF Next
  <2> QED BY Zenon, <1>1, <2>1, TreeRejects, TreeStarts, TreeVisits, TreeReturns DEF Tree!Next
<1>3. CASE UNCHANGED vars
  <2>1. graph' = graph /\ pc' = pc /\ r1' = r1 /\ r2' = r2 /\ r3' = r3 /\ r4' = r4 BY <1>3 DEF vars
  <2>2. /\ TreeKids' = TreeKids /\ TreeOrder' = TreeOrder /\ Tree!MaxDepth' = Tree!MaxDepth /\ Tree!MaxNodes' = Tree!MaxNodes
        /\ Tree!Roots' = Tree!Roots /\ (Tree!Ambiguous' <=> Tree!Ambiguous) /\ (Tree!ValidRequest' <=> Tree!ValidRequest)
        /\ \A r : TreeWays(r)' = TreeWays(r)
    BY Zenon, <2>1, SameTree
  <2>3. \A r, P, c : TreeWalks(r, P, c) => TreeWalks(r, P, c)' BY Zenon, <2>1, <2>2 DEF TreeWalks, TreeBefore
  <2>4. TreeWorks => TreeWorks' BY Zenon, <2>1, <2>2, <2>3 DEF TreeWorks
  <2>5. TreeIdle => TreeIdle' BY Zenon, <2>1 DEF TreeIdle
  <2>6. TreeGivesUp => TreeGivesUp' BY Zenon, <2>1, <2>2 DEF TreeGivesUp
  <2> QED BY Zenon, <2>1, <2>4, <2>5, <2>6 DEF TreeInv
<1> QED BY <1>2, <1>3

\* A tree that is done holds every way from its root.
LEMMA TreeDone ==
  ASSUME Tree!StructureAssumption, graph \in TreeGraphs, TreeWorks, pc = "done"
  PROVE  \E r \in TreeIDs :
           /\ r \in Tree!Roots /\ r \in graph.live /\ r4 # <<>> /\ r4[1][1] = r
           /\ r4 \in Seq(TreeWays(r)) /\ \A p \in TreeWays(r) : p \in Seq(TreeIDs)
           /\ {r4[i] : i \in DOMAIN r4} = TreeWays(r) /\ Cardinality(TreeWays(r)) = Len(r4)
           /\ \A i, j \in DOMAIN r4 : i < j => Ahead(TreeBefore, r4[i], r4[j])
<1>1. PICK r, P, c : TreeWalks(r, P, c) BY Zenon DEF TreeWorks
<1>2. /\ r \in Tree!Roots /\ r \in graph.live /\ Len(P) = 0
      /\ Laid(TreeKids, TreeOrder, TreeBefore, r, Tree!MaxDepth, P, c, r4)
  BY Zenon, <1>1 DEF TreeWalks
<1>3. r \in TreeIDs BY <1>2 DEF Tree!StructureAssumption
<1>4. Listing(TreeIDs, TreeKids, TreeOrder, TreeBefore) /\ TreeKids \in [TreeIDs -> SUBSET TreeIDs] BY TreeListing DEF Listing
<1>5. Tree!MaxDepth \in Nat BY Zenon, TreeLimits DEF TreeWorks
<1> DEFINE W == TreeWays(r)
<1>6. /\ r4 \in Seq(W) /\ Len(r4) # 0 /\ r4[1] = <<r>>
      /\ \A p \in W : ~ Pending(TreeOrder, P, c, p) <=> \E i \in 1..Len(r4) : r4[i] = p
      /\ \A i, j \in 1..Len(r4) : i < j => Ahead(TreeBefore, r4[i], r4[j])
  BY Zenon, <1>2 DEF Laid, TreeWays
<1>7. \A i, j \in 1..Len(r4) : i < j => r4[i] # r4[j] BY <1>2, <1>3, <1>4, <1>5, LaidOnce
<1>8. \A p \in W : p \in Seq(TreeIDs) BY Zenon, <1>3, <1>4, <1>5, WayFacts DEF TreeWays
<1> HIDE DEF W
<1>9. DOMAIN r4 = 1..Len(r4) /\ r4 # <<>> /\ r4[1][1] = r /\ \A i \in 1..Len(r4) : r4[i] \in W BY <1>6
<1>10. \A p : ~ Pending(TreeOrder, P, c, p)
  <2>1. \A i : i \notin 1..Len(P) BY <1>2
  <2> QED BY Zenon, <2>1 DEF Pending
<1>11. {r4[i] : i \in 1..Len(r4)} = W
  <2>1. \A p : p \in W <=> \E i \in 1..Len(r4) : r4[i] = p BY Zenon, <1>6, <1>9, <1>10
  <2> QED BY Zenon, <2>1
<1>12. Cardinality({r4[i] : i \in 1..Len(r4)}) = Len(r4) BY Zenon, <1>6, <1>7, SizeOfList
<1> QED BY Zenon, <1>2, <1>3, <1>6, <1>8, <1>9, <1>11, <1>12 DEF W

\* The order of the ways is the one the module states.
LEMMA AheadPrecedes ==
  ASSUME NEW p \in Seq(TreeIDs), NEW q \in Seq(TreeIDs), Ahead(TreeBefore, p, q)
  PROVE  Tree!Precedes(p, q)
<1>1. DOMAIN p = 1..Len(p) /\ DOMAIN q = 1..Len(q) /\ Len(p) \in Nat /\ Len(q) \in Nat
      /\ \A i \in 1..Len(q) : q[i] \in TreeIDs
  OBVIOUS
<1>2. CASE Len(p) < Len(q) /\ Agree(p, q, Len(p)) BY Zenon, <1>1, <1>2 DEF Tree!Precedes, Agree
<1>3. CASE \E i \in 1..Len(p) : i <= Len(q) /\ p[i] \in TreeBefore[q[i]] /\ \A j \in 1..(i - 1) : p[j] = q[j]
  <2>1. PICK i \in 1..Len(p) : i <= Len(q) /\ p[i] \in TreeBefore[q[i]] /\ \A j \in 1..(i - 1) : p[j] = q[j] BY Zenon, <1>3
  <2>2. i \in 1..Len(q) BY <1>1, <2>1
  <2>3. \A b \in TreeIDs : \A a \in TreeBefore[b] : Tree!Before(a, b) BY DEF TreeBefore
  <2>4. Tree!Before(p[i], q[i]) BY Zenon, <1>1, <2>1, <2>2, <2>3
  <2>5. i \in DOMAIN p \cap DOMAIN q BY Zenon, <1>1, <2>2
  <2> QED BY Zenon, <2>1, <2>4, <2>5 DEF Tree!Precedes
<1> QED BY Zenon, <1>2, <1>3 DEF Ahead

\* What the invariant says of the four parts of the property.
LEMMA TreeTyped ==
  ASSUME Tree!StructureAssumption, TreeInv
  PROVE  Tree!TypeOK
<1>1. graph \in TreeGraphs BY Zenon DEF TreeInv
<1>2. graph.live \subseteq TreeIDs /\ LimitMaxNodes \in Nat BY <1>1 DEF Tree!StructureAssumption
<1>3. CASE TreeIdle
  <2>1. r2 = <<>> /\ r3 = 0 /\ r4 = <<>> /\ pc \in {"start", "ambiguous", "missing", "invalid"} BY Zenon, <1>3 DEF TreeIdle
  <2>2. r3 = Len(r4) /\ r3 \in 0..LimitMaxNodes /\ DOMAIN r2 = {} BY <1>2, <2>1
  <2>3. pc \in {"start", "walk", "done"} \cup Tree!Failures BY <2>1 DEF Tree!Failures
  <2>4. \A i \in DOMAIN r2 : r2[i].node \in graph.live /\ \A j \in DOMAIN r2[i].rest : r2[i].rest[j] \in graph.live
    BY Zenon, <2>2
  <2> QED BY Zenon, <1>2, <2>2, <2>3, <2>4 DEF Tree!TypeOK
<1>4. CASE TreeWorks
  <2>1. pc \in {"walk", "done"} /\ Tree!ValidRequest /\ r3 = Len(r4) /\ r3 <= Tree!MaxNodes BY Zenon, <1>4 DEF TreeWorks
  <2>2. PICK r, P, c : TreeWalks(r, P, c) BY Zenon, <1>4 DEF TreeWorks
  <2>3. r \in graph.live /\ Climb(TreeIDs, TreeKids, TreeOrder, r, P, c) /\ r2 = Frames(TreeOrder, P, c)
        /\ Laid(TreeKids, TreeOrder, TreeBefore, r, Tree!MaxDepth, P, c, r4)
    BY Zenon, <2>2 DEF TreeWalks
  <2>4. \A i \in DOMAIN r2 : r2[i].node \in graph.live /\ \A j \in DOMAIN r2[i].rest : r2[i].rest[j] \in graph.live
    BY Zenon, <1>1, <2>3, TreeFramesLive
  <2>5. Len(r4) \in Nat BY <2>3 DEF Laid
  <2>6. Tree!MaxNodes \in Nat /\ Tree!MaxNodes <= LimitMaxNodes BY <2>1, TreeLimits
  <2>7. r3 \in 0..LimitMaxNodes BY <1>2, <2>1, <2>5, <2>6
  <2>8. pc \in {"start", "walk", "done"} \cup Tree!Failures BY <2>1
  <2> QED BY Zenon, <1>2, <2>1, <2>4, <2>7, <2>8 DEF Tree!TypeOK
<1>5. CASE TreeGivesUp
  <2>1. /\ pc = "exceeded" /\ Tree!ValidRequest /\ r3 = Len(r4) /\ r3 \in Nat /\ r3 <= Tree!MaxNodes
        /\ \A i \in DOMAIN r2 : r2[i].node \in graph.live /\ \A j \in DOMAIN r2[i].rest : r2[i].rest[j] \in graph.live
    BY Zenon, <1>5 DEF TreeGivesUp
  <2>2. Tree!MaxNodes \in Nat /\ Tree!MaxNodes <= LimitMaxNodes BY <2>1, TreeLimits
  <2>3. r3 \in 0..LimitMaxNodes BY <1>2, <2>1, <2>2
  <2>4. pc \in {"start", "walk", "done"} \cup Tree!Failures BY <2>1 DEF Tree!Failures
  <2> QED BY Zenon, <1>2, <2>1, <2>3, <2>4 DEF Tree!TypeOK
<1> QED BY Zenon, <1>3, <1>4, <1>5 DEF TreeInv

LEMMA TreeWhole ==
  ASSUME Tree!StructureAssumption, TreeInv
  PROVE  Tree!TreeIsUnfolding
<1> SUFFICES ASSUME pc = "done"
             PROVE  /\ {r4[i] : i \in DOMAIN r4} = Tree!Unfolding(r4[1][1])
                    /\ \A i, j \in DOMAIN r4 : i < j => Tree!Precedes(r4[i], r4[j])
  BY Zenon DEF Tree!TreeIsUnfolding
<1>1. graph \in TreeGraphs BY Zenon DEF TreeInv
<1>2. TreeWorks
  <2>1. pc \notin {"start", "ambiguous", "missing", "invalid"} /\ pc # "exceeded" OBVIOUS
  <2> QED BY Zenon, <2>1 DEF TreeInv, TreeIdle, TreeGivesUp
<1>3. PICK r \in TreeIDs :
        /\ r \in Tree!Roots /\ r \in graph.live /\ r4 # <<>> /\ r4[1][1] = r
        /\ r4 \in Seq(TreeWays(r)) /\ \A p \in TreeWays(r) : p \in Seq(TreeIDs)
        /\ {r4[i] : i \in DOMAIN r4} = TreeWays(r) /\ Cardinality(TreeWays(r)) = Len(r4)
        /\ \A i, j \in DOMAIN r4 : i < j => Ahead(TreeBefore, r4[i], r4[j])
  BY Zenon, <1>1, <1>2, TreeDone
<1>4. Tree!Unfolding(r) = TreeWays(r) BY Zenon, <1>1, TreeUnfolds
<1>5. \A i \in DOMAIN r4 : r4[i] \in Seq(TreeIDs)
  <2>1. \A i \in DOMAIN r4 : r4[i] \in TreeWays(r) BY <1>3
  <2> QED BY Zenon, <1>3, <2>1
<1>6. \A i, j \in DOMAIN r4 : i < j => Tree!Precedes(r4[i], r4[j]) BY Zenon, <1>3, <1>5, AheadPrecedes
<1> QED BY Zenon, <1>3, <1>4, <1>6

LEMMA TreeRefused ==
  ASSUME Tree!StructureAssumption, TreeInv
  PROVE  Tree!RefusedIffTooLarge
<1>1. graph \in TreeGraphs BY Zenon DEF TreeInv
<1>2. \A S : Tree!Cardinality(S) = Cardinality(S) BY Zenon, TreeNames
<1>3. CASE TreeIdle
  <2>1. r3 = 0 /\ pc \in {"start", "ambiguous", "missing", "invalid"} BY Zenon, <1>3 DEF TreeIdle
  <2>2. pc # "exceeded" /\ pc # "done" BY <2>1
  <2> QED BY Zenon, <2>1, <2>2 DEF Tree!RefusedIffTooLarge
<1>4. CASE TreeWorks
  <2>1. pc \in {"walk", "done"} /\ r3 = Len(r4) /\ r3 <= Tree!MaxNodes BY Zenon, <1>4 DEF TreeWorks
  <2>2. pc # "exceeded" BY <2>1
  <2>3. ASSUME pc = "done" PROVE Tree!Cardinality(Tree!Unfolding(r4[1][1])) <= Tree!MaxNodes
    <3>1. PICK r \in TreeIDs : r4[1][1] = r /\ Cardinality(TreeWays(r)) = Len(r4) BY Zenon, <1>1, <1>4, <2>3, TreeDone
    <3>2. Tree!Unfolding(r) = TreeWays(r) BY Zenon, <1>1, TreeUnfolds
    <3> QED BY Zenon, <1>2, <2>1, <3>1, <3>2
  <2> QED BY Zenon, <2>1, <2>2, <2>3 DEF Tree!RefusedIffTooLarge
<1>5. CASE TreeGivesUp
  <2>1. pc = "exceeded" /\ r3 <= Tree!MaxNodes BY Zenon, <1>5 DEF TreeGivesUp
  <2>2. pc # "done" BY <2>1
  <2>3. PICK r \in Tree!Roots : r \in graph.live /\ Cardinality(TreeWays(r)) > Tree!MaxNodes BY Zenon, <1>5 DEF TreeGivesUp
  <2>4. r \in TreeIDs BY <1>1, <2>3 DEF Tree!StructureAssumption
  <2>5. Tree!Unfolding(r) = TreeWays(r) BY Zenon, <1>1, <2>4, TreeUnfolds
  <2>6. Tree!Cardinality(Tree!Unfolding(r)) > Tree!MaxNodes BY Zenon, <1>2, <2>3, <2>5
  <2> QED BY Zenon, <2>1, <2>2, <2>3, <2>6 DEF Tree!RefusedIffTooLarge
<1> QED BY Zenon, <1>3, <1>4, <1>5 DEF TreeInv

LEMMA TreeOfOneRepository ==
  ASSUME Tree!StructureAssumption, TreeInv
  PROVE  Tree!NoOtherRepository
<1> SUFFICES ASSUME pc = "done", r1.root = 0
             PROVE  IF r1.repo # None THEN TreeRepo[r4[1][1]] = r1.repo
                    ELSE \/ TreeType[r4[1][1]] = "WORKSPACE" \/ TreeRepo[r4[1][1]] = None
                         \/ \A n \in graph.live \ {r4[1][1]} : TreeType[n] = "FOLDER" => TreeDir[n] # r1.dir
  BY Zenon DEF Tree!NoOtherRepository
<1>1. graph \in TreeGraphs BY Zenon DEF TreeInv
<1>2. TreeWorks
  <2>1. pc \notin {"start", "ambiguous", "missing", "invalid"} /\ pc # "exceeded" OBVIOUS
  <2> QED BY Zenon, <2>1 DEF TreeInv, TreeIdle, TreeGivesUp
<1>3. PICK r \in TreeIDs : r \in Tree!Roots /\ r \in graph.live /\ r4[1][1] = r BY Zenon, <1>1, <1>2, TreeDone
<1>4. ~ Tree!Ambiguous BY Zenon, <1>2 DEF TreeWorks
<1> DEFINE F == Tree!FoldersAt(r1.dir)
<1>5. CASE r1.repo # None
  <2>1. r \in Tree!OfRepo(r1.dir, r1.repo) BY Zenon, <1>3, <1>5 DEF Tree!Roots
  <2>2. TreeRepo[r] = r1.repo BY <2>1 DEF Tree!OfRepo
  <2> QED BY Zenon, <1>3, <1>5, <2>2
<1>6. CASE r1.repo = None
  <2>1. \/ r \in Tree!OfRepo(r1.dir, None) \/ r \in Tree!Workspaces \/ (r \in F /\ Tree!Roots = F)
    BY Zenon, <1>3, <1>6 DEF Tree!Roots
  <2>2. CASE r \in Tree!OfRepo(r1.dir, None)
    <3>1. TreeRepo[r] = None BY <2>2 DEF Tree!OfRepo
    <3> QED BY Zenon, <1>3, <1>6, <3>1
  <2>3. CASE r \in Tree!Workspaces
    <3>1. TreeType[r] = "WORKSPACE" BY <2>3 DEF Tree!Workspaces
    <3> QED BY Zenon, <1>3, <1>6, <3>1
  <2>4. CASE r \in F /\ Tree!Roots = F /\ r \notin Tree!Workspaces
    <3>1. ~ (Cardinality(F) > 1) BY Zenon, <1>3, <1>4, <2>4, TreeNames DEF Tree!Ambiguous
    <3>2. IsFiniteSet(F)
      <4>1. F \subseteq TreeIDs BY <1>1 DEF Tree!StructureAssumption, Tree!FoldersAt
      <4>2. IsFiniteSet(TreeIDs) BY TreeNames DEF Tree!StructureAssumption
      <4> HIDE DEF F
      <4> QED BY <4>1, <4>2, FS_Subset
    <3>3. F = {r}
      <4> HIDE DEF F
      <4>1. r \in F BY <2>4
      <4>2. IsFiniteSet({r}) /\ Cardinality({r}) = 1 BY FS_Singleton
      <4>3. ASSUME NEW n \in F, n # r PROVE FALSE
        <5>1. Cardinality({r} \cup {n}) = 2 /\ {r} \cup {n} \subseteq F BY <4>1, <4>2, <4>3, FS_AddElement
        <5>2. Cardinality({r} \cup {n}) <= Cardinality(F) BY <3>2, <5>1, FS_Subset
        <5>3. Cardinality(F) \in Nat BY <3>2, FS_CardinalityType
        <5> QED BY <3>1, <5>1, <5>2, <5>3
      <4> QED BY <4>1, <4>3
    <3>4. \A n \in graph.live \ {r} : TreeType[n] = "FOLDER" => TreeDir[n] # r1.dir BY <3>3 DEF Tree!FoldersAt
    <3> QED BY Zenon, <1>3, <1>6, <3>4
  <2> QED BY Zenon, <2>1, <2>2, <2>3, <2>4
<1> QED BY Zenon, <1>5, <1>6

\* A tree that GetRepositoryStructure returns holds every included node as often as there are
\* ways to it within the depth, in the order of a listing, and nothing else: folders that
\* contain each other end, folders with two parents are complete below both.  It is refused
\* exactly when it has more than maxNodes nodes, and is never of a repository that was not
\* meant.
THEOREM TreesAreWhole == Spec => []TreeIsUnfolding
<1> DEFINE I == asked = "tree" => TreeInv
<1>1. Init => I BY Zenon, TreeInit
<1>2. I /\ [Next]_vars => I'
  <2> SUFFICES ASSUME I, [Next]_vars, asked' = "tree" PROVE TreeInv' BY Zenon
  <2>1. asked' = asked BY Zenon, SameQuestion
  <2> QED BY Zenon, <2>1, TreeNext
<1>3. I => TreeIsUnfolding
  <2>1. Tree!StructureAssumption BY Inputs
  <2> QED BY Zenon, <2>1, TreeTyped, TreeWhole, TreeRefused, TreeOfOneRepository DEF TreeIsUnfolding
<1> QED BY <1>1, <1>2, <1>3, PTL DEF Spec

-----------------------------------------------------------------------------
(* The lexer: what was read so far is in a token, in a comment or blank.   *)

Modes == {"open", "behind", "comment"} \cup Lexer!Quotes

\* No character is of two kinds; in a lemma of its own, for the prover's sake.
LEMMA Characters ==
  /\ Lexer!LineEnds \subseteq Lexer!Blanks /\ Lexer!Quotes \cap Lexer!Blanks = {}
  /\ {"-", "=", ">", "<", "!"} \cap (Lexer!Blanks \cup Lexer!Quotes) = {}
  /\ DOMAIN Lexer!Sign \cap (Lexer!Blanks \cup Lexer!Quotes) = {} /\ {"-", "<", "!"} \cap DOMAIN Lexer!Sign = {}
  /\ {"open", "behind", "comment"} \cap Lexer!Quotes = {}
<1>1. DOMAIN Lexer!Sign = {"=", "(", ")", "[", "]", ":", ".", ","} BY DEF Lexer!Sign
<1>2. Lexer!LineEnds \subseteq Lexer!Blanks BY Zenon DEF Lexer!LineEnds, Lexer!Blanks
<1>3. Lexer!Quotes \cap Lexer!Blanks = {} BY Zenon DEF Lexer!Quotes, Lexer!Blanks
<1>4. {"-", "=", ">", "<", "!"} \cap Lexer!Blanks = {} BY Zenon DEF Lexer!Blanks
<1>5. {"-", "=", ">", "<", "!"} \cap Lexer!Quotes = {} BY Zenon DEF Lexer!Quotes
<1>6. DOMAIN Lexer!Sign \cap Lexer!Blanks = {} BY <1>1, Zenon DEF Lexer!Blanks
<1>7. DOMAIN Lexer!Sign \cap Lexer!Quotes = {} BY <1>1, Zenon DEF Lexer!Quotes
<1>8. {"-", "<", "!"} \cap DOMAIN Lexer!Sign = {} BY <1>1, Zenon
<1>9. {"open", "behind", "comment"} \cap Lexer!Quotes = {} BY Zenon DEF Lexer!Quotes
<1> HIDE DEF Lexer!Blanks
<1> QED BY <1>2, <1>3, <1>4, <1>5, <1>6, <1>7, <1>8, <1>9, Zenon

\* What a character makes of the mode.
LEMMA ModeStep ==
  ASSUME NEW m \in Modes, NEW i
  PROVE  /\ Lexer!ModeAfter(m, i) \in Modes
         /\ m \in Lexer!Quotes => Lexer!ModeAfter(m, i) = IF r1[i] \in {m, Nul} THEN "behind" ELSE m
         /\ m = "comment" /\ r1[i] \notin Lexer!LineEnds => Lexer!ModeAfter(m, i) = "comment"
         /\ m \notin Lexer!Quotes /\ r1[i] \in Lexer!LineEnds => Lexer!ModeAfter(m, i) = "open"
         /\ m = "open" /\ r1[i] \in Lexer!Blanks => Lexer!ModeAfter(m, i) = "open"
         /\ m = "open" /\ r1[i] = "-" /\ Lexer!Char(i + 1) = "-" => Lexer!ModeAfter(m, i) = "comment"
         /\ m \in {"open", "behind"} /\ r1[i] \in Lexer!Quotes => Lexer!ModeAfter(m, i) = r1[i]
         /\ /\ m \in {"open", "behind"} /\ r1[i] \notin Lexer!LineEnds \cup Lexer!Quotes
            /\ m = "open" => r1[i] \notin Lexer!Blanks /\ ~ (r1[i] = "-" /\ Lexer!Char(i + 1) = "-")
            => Lexer!ModeAfter(m, i) = "behind"
<1> DEFINE c == r1[i]
<1>1. Lexer!ModeAfter(m, i) =
        IF m \in Lexer!Quotes THEN IF c \in {m, Nul} THEN "behind" ELSE m
        ELSE IF c \in Lexer!LineEnds THEN "open"
        ELSE IF m = "comment" \/ (m = "open" /\ c \in Lexer!Blanks) THEN m
        ELSE IF m = "open" /\ c = "-" /\ Lexer!Char(i + 1) = "-" THEN "comment"
        ELSE IF c \in Lexer!Quotes THEN c ELSE "behind"
  BY DEF Lexer!ModeAfter
<1>2. /\ m \in {"open", "behind", "comment"} \/ m \in Lexer!Quotes
      /\ "open" \notin Lexer!Quotes /\ "behind" \notin Lexer!Quotes /\ "comment" \notin Lexer!Quotes
      /\ c \in Lexer!LineEnds => c \in Lexer!Blanks
      /\ c \in Lexer!Quotes => c \notin Lexer!Blanks /\ c # "-"
      /\ c = "-" => c \notin Lexer!Blanks
  BY Characters DEF Modes
<1> QED BY <1>1, <1>2 DEF Modes

\* The recursion of Mode is well founded.
LEMMA ModeUnfolds ==
  ASSUME NEW N \in Nat
  PROVE  \E w : w = [i \in 0..N |-> IF i = 0 THEN "open" ELSE Lexer!ModeAfter(w[i - 1], i)]
<1> DEFINE D == Nat \X Modes
           first == <<0, "open">>
           next == [x \in D |-> <<x[1] + 1, Lexer!ModeAfter(x[2], x[1] + 1)>>]
<1>1. first \in D BY DEF Modes
<1>2. next \in [D -> D]
  <2>1. ASSUME NEW x \in D PROVE <<x[1] + 1, Lexer!ModeAfter(x[2], x[1] + 1)>> \in D
    <3>1. x[1] \in Nat /\ x[2] \in Modes OBVIOUS
    <3>2. Lexer!ModeAfter(x[2], x[1] + 1) \in Modes BY <3>1, ModeStep
    <3> QED BY <3>1, <3>2
  <2> QED BY <2>1
<1>3. PICK f \in [Nat -> D] : f[0] = first /\ \A k \in Nat : f[k + 1] = next[f[k]]
  <2> HIDE DEF D, first, next
  <2> QED BY <1>1, <1>2, Recursion
<1>4. \A k \in Nat : f[k][1] = k
  <2> DEFINE S == {k \in Nat : f[k][1] = k}
  <2>1. 0 \in S BY <1>3
  <2>2. ASSUME NEW k \in Nat, k \in S PROVE k + 1 \in S
    <3>1. f[k] \in D /\ f[k][1] = k BY <1>3, <2>2
    <3>2. f[k + 1] = <<f[k][1] + 1, Lexer!ModeAfter(f[k][2], f[k][1] + 1)>> BY Zenon, <1>3, <3>1
    <3> QED BY <3>1, <3>2
  <2>3. Nat \subseteq S
    <3> HIDE DEF S
    <3> QED BY Zenon, <2>1, <2>2, SetInduction
  <2> QED BY <2>3
<1> DEFINE m == [i \in 0..N |-> f[i][2]]
<1>5. m[0] = "open" BY <1>3
<1>6. ASSUME NEW i \in 1..N PROVE m[i] = Lexer!ModeAfter(m[i - 1], i) /\ m[i] \in Modes
  <2>1. i - 1 \in Nat /\ (i - 1) + 1 = i /\ i - 1 \in 0..N /\ i \in 0..N OBVIOUS
  <2>2. f[i] = next[f[i - 1]] /\ f[i - 1] \in D /\ f[i - 1][1] = i - 1 BY Zenon, <1>3, <1>4, <2>1
  <2>3. f[i] = <<i, Lexer!ModeAfter(f[i - 1][2], i)>> BY <2>1, <2>2
  <2>4. f[i] \in D BY <1>3, <2>1
  <2> QED BY <2>1, <2>3, <2>4
<1> HIDE DEF D, first, next
<1>7. m = [i \in 0..N |-> IF i = 0 THEN "open" ELSE Lexer!ModeAfter(m[i - 1], i)]
  <2>1. \A i \in 0..N : m[i] = IF i = 0 THEN "open" ELSE Lexer!ModeAfter(m[i - 1], i)
    <3> TAKE i \in 0..N
    <3>1. i = 0 \/ i \in 1..N OBVIOUS
    <3> HIDE DEF m
    <3>2. i \in 1..N => m[i] = Lexer!ModeAfter(m[i - 1], i) BY <1>6
    <3>3. i \in 1..N => i # 0 OBVIOUS
    <3> QED BY <1>5, <3>1, <3>2, <3>3
  <2>2. DOMAIN m = 0..N /\ m = [i \in 0..N |-> m[i]] OBVIOUS
  <2> HIDE DEF m
  <2> QED BY Zenon, <2>1, <2>2
<1> HIDE DEF m
<1> QED BY <1>7

\* Mode: its first value, its step, its range.
LEMMA ModeFacts ==
  ASSUME Len(r1) \in Nat
  PROVE  /\ Lexer!Mode[0] = "open" /\ \A i \in 0..Len(r1) : Lexer!Mode[i] \in Modes
         /\ \A i \in 1..Len(r1) : Lexer!Mode[i] = Lexer!ModeAfter(Lexer!Mode[i - 1], i)
<1> DEFINE N == Len(r1)
<1>8. \E w : w = [i \in 0..N |-> IF i = 0 THEN "open" ELSE Lexer!ModeAfter(w[i - 1], i)]
  <2> HIDE DEF N
  <2> QED BY ModeUnfolds DEF N
<1>9. Lexer!Mode = [i \in 0..N |-> IF i = 0 THEN "open" ELSE Lexer!ModeAfter(Lexer!Mode[i - 1], i)]
  BY <1>8, Zenon DEF Lexer!Mode
<1>10. \A i \in 0..N : Lexer!Mode[i] = IF i = 0 THEN "open" ELSE Lexer!ModeAfter(Lexer!Mode[i - 1], i)
  <2> DEFINE w == Lexer!Mode
  <2>1. w = [i \in 0..N |-> IF i = 0 THEN "open" ELSE Lexer!ModeAfter(w[i - 1], i)] BY <1>9
  <2> HIDE DEF w
  <2>2. \A i \in 0..N : w[i] = IF i = 0 THEN "open" ELSE Lexer!ModeAfter(w[i - 1], i) BY <2>1
  <2> QED BY <2>2 DEF w
<1>11. N \in Nat OBVIOUS
<1> DEFINE w == Lexer!Mode
<1> HIDE DEF w, N
<1>12. \A i \in 0..N : w[i] = IF i = 0 THEN "open" ELSE Lexer!ModeAfter(w[i - 1], i) BY <1>10 DEF w
<1>13. w[0] = "open" BY <1>11, <1>12
<1>14. \A i \in 1..N : w[i] = Lexer!ModeAfter(w[i - 1], i) BY <1>11, <1>12
<1>15. \A i \in 0..N : w[i] \in Modes
  <2> DEFINE S == {k \in Nat : k <= N => w[k] \in Modes}
  <2>1. 0 \in S BY <1>13 DEF Modes
  <2>2. ASSUME NEW k \in Nat, k \in S PROVE k + 1 \in S
    <3>1. CASE k + 1 <= N
      <4>1. k + 1 \in 1..N /\ (k + 1) - 1 = k /\ w[k] \in Modes BY <1>11, <2>2, <3>1
      <4>2. w[k + 1] = Lexer!ModeAfter(w[k], k + 1) BY <1>14, <4>1
      <4> QED BY <4>1, <4>2, ModeStep
    <3>2. CASE ~ (k + 1 <= N) BY <3>2
    <3> QED BY <3>1, <3>2
  <2>3. Nat \subseteq S
    <3> HIDE DEF S
    <3> QED BY <2>1, <2>2, SetInduction
  <2> QED BY <1>11, <2>3
<1> QED BY <1>13, <1>14, <1>15 DEF w, N

\* Where a run of characters ends.
LEMMA FirstFacts ==
  ASSUME Len(r1) \in Nat, NEW i \in 1..(Len(r1) + 1), NEW S
  PROVE  LET f == Lexer!FirstIn(S, i)
             g == Lexer!FirstNotIn(S, i)
         IN  /\ f \in i..(Len(r1) + 1) /\ (f <= Len(r1) => r1[f] \in S) /\ \A j \in i..(f - 1) : r1[j] \notin S
             /\ g \in i..(Len(r1) + 1) /\ (g <= Len(r1) => r1[g] \notin S) /\ \A j \in i..(g - 1) : r1[j] \in S
<1> DEFINE N == Len(r1)
           A == {j \in i..(N + 1) : j > N \/ r1[j] \in S}
           B == {j \in i..(N + 1) : j > N \/ r1[j] \notin S}
<1>1. N + 1 \in A /\ N + 1 \in B /\ A \subseteq Nat /\ B \subseteq Nat OBVIOUS
<1>2. ASSUME NEW T, T \subseteq Nat, T # {} PROVE Lexer!Min(T) \in T /\ \A n \in T : Lexer!Min(T) <= n
  BY Zenon, <1>2, LeastElement DEF Lexer!Min
<1>3. Lexer!FirstIn(S, i) = Lexer!Min(A) /\ Lexer!FirstNotIn(S, i) = Lexer!Min(B)
  BY DEF Lexer!FirstIn, Lexer!FirstNotIn
<1>4. Lexer!Min(A) \in A /\ (\A n \in A : Lexer!Min(A) <= n) /\ Lexer!Min(B) \in B /\ (\A n \in B : Lexer!Min(B) <= n)
  <2> HIDE DEF A, B
  <2> QED BY Zenon, <1>1, <1>2
<1> DEFINE f == Lexer!Min(A)
           g == Lexer!Min(B)
<1> HIDE DEF f, g
<1>5. f \in A /\ (\A n \in A : f <= n) /\ g \in B /\ (\A n \in B : g <= n) BY <1>4 DEF f, g
<1>6. f \in i..(N + 1) /\ (f <= N => r1[f] \in S) /\ \A j \in i..(f - 1) : r1[j] \notin S BY <1>5
<1>7. g \in i..(N + 1) /\ (g <= N => r1[g] \notin S) /\ \A j \in i..(g - 1) : r1[j] \in S BY <1>5
<1> QED BY <1>3, <1>6, <1>7 DEF f, g

\* Nothing but blanks since the last end of a line.
LineStart(i) == \A j \in 1..(i - 1) : r1[j] \notin Lexer!Blanks => \E k \in j..(i - 1) : r1[k] \in Lexer!LineEnds
\* Outside strings and comments the two readings agree on where a line starts.
Place(i) == Lexer!Mode[i - 1] \in {"open", "behind"} /\ (Lexer!Mode[i - 1] = "open" <=> LineStart(i))

\* A line starts after its end, and goes on to start over blanks.
LEMMA LineStartStep ==
  ASSUME NEW i \in Nat, i # 0
  PROVE  LineStart(i + 1) <=> r1[i] \in Lexer!LineEnds \/ (LineStart(i) /\ r1[i] \in Lexer!Blanks)
<1>1. ASSUME r1[i] \in Lexer!LineEnds PROVE LineStart(i + 1)
  <2>1. \A j \in 1..i : i \in j..i OBVIOUS
  <2>2. (i + 1) - 1 = i OBVIOUS
  <2> QED BY <1>1, <2>1, <2>2 DEF LineStart
<1>2. ASSUME LineStart(i), r1[i] \in Lexer!Blanks PROVE LineStart(i + 1)
  <2> SUFFICES ASSUME NEW j \in 1..i, r1[j] \notin Lexer!Blanks PROVE \E k \in j..i : r1[k] \in Lexer!LineEnds
    BY DEF LineStart
  <2>1. j \in 1..(i - 1) BY <1>2
  <2>2. PICK k \in j..(i - 1) : r1[k] \in Lexer!LineEnds BY <1>2, <2>1 DEF LineStart
  <2>3. k \in j..i OBVIOUS
  <2> QED BY <2>2, <2>3
<1>3. ASSUME LineStart(i + 1), r1[i] \notin Lexer!LineEnds PROVE r1[i] \in Lexer!Blanks /\ LineStart(i)
  <2>1. \A j \in 1..i : r1[j] \notin Lexer!Blanks => \E k \in j..i : r1[k] \in Lexer!LineEnds
    <3>1. (i + 1) - 1 = i OBVIOUS
    <3> QED BY <1>3, <3>1 DEF LineStart
  <2>2. r1[i] \in Lexer!Blanks
    <3>1. i \in 1..i /\ \A k \in i..i : k = i OBVIOUS
    <3> QED BY <1>3, <2>1, <3>1
  <2>3. ASSUME NEW j \in 1..(i - 1), r1[j] \notin Lexer!Blanks PROVE \E k \in j..(i - 1) : r1[k] \in Lexer!LineEnds
    <3>1. j \in 1..i OBVIOUS
    <3>2. PICK k \in j..i : r1[k] \in Lexer!LineEnds BY <2>1, <2>3, <3>1
    <3>3. k # i BY <1>3, <3>2
    <3>4. k \in j..(i - 1) BY <3>3
    <3> QED BY <3>2, <3>4
  <2> QED BY <2>2, <2>3 DEF LineStart
<1> QED BY <1>1, <1>2, <1>3

\* Where the two readings agree, they agree one character further.
LEMMA PlaceStep ==
  ASSUME Len(r1) \in Nat, NEW i \in 1..Len(r1),
         \/ /\ Place(i) /\ r1[i] \notin Lexer!Quotes
            /\ ~ (Lexer!Mode[i - 1] = "open" /\ r1[i] = "-" /\ Lexer!Char(i + 1) = "-")
         \/ Lexer!Mode[i - 1] = "comment" /\ r1[i] \in Lexer!LineEnds
         \/ /\ Lexer!Mode[i - 1] \in Lexer!Quotes /\ r1[i] \in {Lexer!Mode[i - 1], Nul}
            /\ Nul \notin Lexer!Blanks
  PROVE  Place(i + 1)
<1> DEFINE m == Lexer!Mode[i - 1]
           n == Lexer!Mode[i]
<1>1. m \in Modes /\ n = Lexer!ModeAfter(m, i)
  <2>1. i - 1 \in 0..Len(r1) OBVIOUS
  <2> QED BY <2>1, ModeFacts
<1> HIDE DEF m, n
<1>2. /\ "open" \notin Lexer!Quotes /\ "behind" \notin Lexer!Quotes /\ "comment" \notin Lexer!Quotes
      /\ \A q \in Lexer!Quotes : q \notin Lexer!Blanks
      /\ \A q \in Lexer!LineEnds : q \in Lexer!Blanks
      /\ "open" # "behind"
  BY Characters
<1>3. i \in Nat /\ i # 0 /\ (i + 1) - 1 = i OBVIOUS
<1>4. LineStart(i + 1) <=> r1[i] \in Lexer!LineEnds \/ (LineStart(i) /\ r1[i] \in Lexer!Blanks) BY <1>3, LineStartStep
<1>5. SUFFICES n \in {"open", "behind"} /\ (n = "open" <=> LineStart(i + 1)) BY <1>3 DEF Place, n
<1>6. CASE /\ Place(i) /\ r1[i] \notin Lexer!Quotes
           /\ ~ (m = "open" /\ r1[i] = "-" /\ Lexer!Char(i + 1) = "-")
  <2>1. m \in {"open", "behind"} /\ (m = "open" <=> LineStart(i)) BY <1>6 DEF Place, m
  <2>2. CASE r1[i] \in Lexer!LineEnds
    <3>1. n = "open" BY <1>1, <1>2, <2>1, <2>2, ModeStep
    <3> QED BY <1>4, <2>2, <3>1
  <2>3. CASE r1[i] \notin Lexer!LineEnds /\ m = "open" /\ r1[i] \in Lexer!Blanks
    <3>1. n = "open" BY <1>1, <2>3, ModeStep
    <3> QED BY <1>4, <2>1, <2>3, <3>1
  <2>4. CASE r1[i] \notin Lexer!LineEnds /\ ~ (m = "open" /\ r1[i] \in Lexer!Blanks)
    <3>1. n = "behind" BY <1>1, <1>6, <2>1, <2>4, ModeStep
    <3> QED BY <1>2, <1>4, <2>1, <2>4, <3>1
  <2> QED BY <2>2, <2>3, <2>4
<1>7. CASE m = "comment" /\ r1[i] \in Lexer!LineEnds
  <2>1. n = "open" BY <1>1, <1>2, <1>7, ModeStep
  <2> QED BY <1>4, <1>7, <2>1
<1>8. CASE m \in Lexer!Quotes /\ r1[i] \in {m, Nul} /\ Nul \notin Lexer!Blanks
  <2>1. n = "behind" BY <1>1, <1>8, ModeStep
  <2>2. r1[i] \notin Lexer!Blanks BY <1>2, <1>8
  <2> QED BY <1>2, <1>4, <2>1, <2>2
<1> QED BY <1>6, <1>7, <1>8 DEF m

\* A run over which the mode stays in a set that each of its characters preserves.
LEMMA RunInduction ==
  ASSUME NEW i \in Nat, NEW n \in Nat, NEW S, i \in S,
         \A j \in i..(n - 1) : j \in S => j + 1 \in S
  PROVE  \A j \in i..n : j \in S
<1> DEFINE T == {k \in Nat : i + k <= n => i + k \in S}
<1>1. 0 \in T OBVIOUS
<1>2. ASSUME NEW k \in Nat, k \in T PROVE k + 1 \in T
  <2>1. CASE i + (k + 1) <= n
    <3>1. i + k \in i..(n - 1) /\ (i + k) + 1 = i + (k + 1) /\ i + k <= n BY <2>1
    <3>2. i + k \in S BY <1>2, <3>1
    <3> QED BY <3>1, <3>2
  <2>2. CASE ~ (i + (k + 1) <= n) BY <2>2
  <2> QED BY <2>1, <2>2
<1>3. Nat \subseteq T
  <2> HIDE DEF T
  <2> QED BY <1>1, <1>2, SetInduction
<1> QED
  <2> TAKE j \in i..n
  <2>1. j - i \in Nat /\ i + (j - i) = j /\ j <= n OBVIOUS
  <2> QED BY <1>3, <2>1

\* Over signs, words and numbers the line stays begun.
LEMMA PlainRun ==
  ASSUME Len(r1) \in Nat, NEW i \in 1..Len(r1), NEW n \in (i + 1)..(Len(r1) + 1), Place(i),
         \A j \in i..(n - 1) : r1[j] \notin Lexer!Blanks \cup Lexer!Quotes,
         ~ Lexer!LineCommentStart(i)
  PROVE  Place(n) /\ \A j \in i..(n - 1) : Lexer!Mode[j] # "comment"
<1> DEFINE M == Lexer!Mode
           S == {k \in (i + 1)..n : Place(k) /\ M[k - 1] = "behind"}
<1>1. i \in Nat /\ i + 1 \in Nat /\ n \in Nat /\ Len(r1) \in Nat OBVIOUS
<1>2. \A k \in Nat : (k + 1) - 1 = k OBVIOUS
<1>3. \A j \in i..(n - 1) : j \in 1..Len(r1) /\ j \in Nat /\ j # 0 OBVIOUS
<1>4. ASSUME NEW j \in i..(n - 1), Place(j), ~ (M[j - 1] = "open" /\ r1[j] = "-" /\ Lexer!Char(j + 1) = "-")
      PROVE  j + 1 \in S
  <2>1. j \in 1..Len(r1) /\ r1[j] \notin Lexer!Blanks /\ r1[j] \notin Lexer!Quotes BY <1>3
  <2>2. Place(j + 1) BY <1>4, <2>1, PlaceStep
  <2>3. r1[j] \notin Lexer!LineEnds BY <2>1, Characters
  <2>4. ~ LineStart(j + 1) BY Zenon, <1>3, <2>1, <2>3, LineStartStep
  <2>5. M[j] = "behind" BY <1>2, <1>3, <2>2, <2>4 DEF Place
  <2>6. j + 1 \in (i + 1)..n /\ (j + 1) - 1 = j OBVIOUS
  <2> QED BY <2>2, <2>5, <2>6
<1>5. ~ (M[i - 1] = "open" /\ r1[i] = "-" /\ Lexer!Char(i + 1) = "-")
  <2>1. Lexer!Char(i) = r1[i] BY DEF Lexer!Char
  <2>2. M[i - 1] = "open" => LineStart(i) BY DEF Place
  <2> QED BY <2>1, <2>2 DEF Lexer!LineCommentStart, LineStart
<1>6. i \in i..(n - 1) OBVIOUS
<1>7. i + 1 \in S BY <1>4, <1>5, <1>6
<1>8. ASSUME NEW j \in (i + 1)..(n - 1), j \in S PROVE j + 1 \in S
  <2>1. j \in i..(n - 1) OBVIOUS
  <2>2. Place(j) /\ M[j - 1] # "open" BY <1>8
  <2> QED BY <1>4, <2>1, <2>2
<1>9. \A j \in (i + 1)..n : j \in S
  <2> HIDE DEF S
  <2> QED BY Zenon, <1>1, <1>7, <1>8, RunInduction
<1>10. n \in (i + 1)..n OBVIOUS
<1>11. ASSUME NEW j \in i..(n - 1) PROVE M[j] # "comment"
  <2>1. j + 1 \in (i + 1)..n /\ (j + 1) - 1 = j OBVIOUS
  <2>2. M[j] = "behind" BY Zenon, <1>9, <2>1
  <2> QED BY <2>2
<1> QED BY <1>9, <1>10, <1>11

\* Over blanks a line may end, also that of a comment.
LEMMA BlankRun ==
  ASSUME Len(r1) \in Nat, NEW i \in 1..Len(r1), NEW n \in (i + 1)..(Len(r1) + 1),
         Place(i) \/ (Lexer!Mode[i - 1] = "comment" /\ r1[i] \in Lexer!LineEnds),
         \A j \in i..(n - 1) : r1[j] \in Lexer!Blanks
  PROVE  Place(n) /\ \A j \in i..(n - 1) : Lexer!Mode[j] # "comment"
<1> DEFINE M == Lexer!Mode
           S == {k \in (i + 1)..n : Place(k)}
<1>1. i \in Nat /\ i + 1 \in Nat /\ n \in Nat OBVIOUS
<1>2. \A j \in i..(n - 1) : j \in 1..Len(r1) /\ r1[j] \notin Lexer!Quotes /\ r1[j] # "-" BY Characters
<1>3. i \in i..(n - 1) /\ i + 1 \in (i + 1)..n /\ n \in (i + 1)..n OBVIOUS
<1>4. i + 1 \in S
  <2>1. Place(i + 1) BY <1>2, <1>3, PlaceStep
  <2> QED BY <1>3, <2>1
<1>5. ASSUME NEW j \in (i + 1)..(n - 1), j \in S PROVE j + 1 \in S
  <2>1. j \in i..(n - 1) /\ j + 1 \in (i + 1)..n OBVIOUS
  <2>2. Place(j) BY <1>5
  <2>3. Place(j + 1) BY <1>2, <2>1, <2>2, PlaceStep
  <2> QED BY <2>1, <2>3
<1>6. \A j \in (i + 1)..n : j \in S
  <2> HIDE DEF S
  <2> QED BY Zenon, <1>1, <1>4, <1>5, RunInduction
<1>7. ASSUME NEW j \in i..(n - 1) PROVE M[j] # "comment"
  <2>1. j + 1 \in (i + 1)..n /\ (j + 1) - 1 = j OBVIOUS
  <2>2. M[j] \in {"open", "behind"} BY Zenon, <1>6, <2>1 DEF Place
  <2> QED BY <2>2
<1> QED BY <1>3, <1>6, <1>7

\* A comment goes on up to the end of its line.
LEMMA CommentRun ==
  ASSUME Len(r1) \in Nat, NEW i \in 1..Len(r1), NEW n \in (i + 1)..(Len(r1) + 1), Place(i),
         Lexer!LineCommentStart(i), \A j \in i..(n - 1) : r1[j] \notin Lexer!LineEnds
  PROVE  \A j \in i..(n - 1) : Lexer!Mode[j] = "comment"
<1> DEFINE M == Lexer!Mode
           S == {k \in i..(n - 1) : M[k] = "comment"}
<1>1. i \in Nat /\ n - 1 \in Nat /\ i \in i..(n - 1) OBVIOUS
<1>2. \A j \in i..(n - 1) : j \in 1..Len(r1) OBVIOUS
<1>3. M[i] = "comment"
  <2>1. Lexer!Char(i) = r1[i] BY DEF Lexer!Char
  <2>2. r1[i] = "-" /\ Lexer!Char(i + 1) = "-" /\ LineStart(i) BY <2>1 DEF Lexer!LineCommentStart, LineStart
  <2>3. M[i - 1] = "open" BY <2>2 DEF Place
  <2>4. i - 1 \in 0..Len(r1) OBVIOUS
  <2>5. M[i] = Lexer!ModeAfter(M[i - 1], i) /\ M[i - 1] \in Modes BY <2>4, ModeFacts
  <2> HIDE DEF M
  <2> QED BY <2>2, <2>3, <2>5, ModeStep
<1>4. i \in S BY <1>1, <1>3
<1>5. ASSUME NEW j \in i..((n - 1) - 1), j \in S PROVE j + 1 \in S
  <2>1. j + 1 \in i..(n - 1) /\ j + 1 \in 1..Len(r1) /\ (j + 1) - 1 = j /\ j \in 0..Len(r1) OBVIOUS
  <2>2. M[j + 1] = Lexer!ModeAfter(M[j], j + 1) /\ M[j] \in Modes /\ M[j] = "comment" BY <1>5, <2>1, ModeFacts
  <2>3. r1[j + 1] \notin Lexer!LineEnds BY <2>1
  <2>4. M[j + 1] = "comment"
    <3> HIDE DEF M
    <3> QED BY <2>2, <2>3, ModeStep
  <2> QED BY <2>1, <2>4
<1>6. \A j \in i..(n - 1) : j \in S
  <2> DEFINE z == n - 1
  <2>1. z \in Nat /\ \A j \in i..(z - 1) : j \in S => j + 1 \in S BY <1>1, <1>5
  <2> HIDE DEF S, z
  <2>2. \A j \in i..z : j \in S BY Zenon, <1>1, <1>4, <2>1, RunInduction
  <2> QED BY <2>2 DEF z
<1> QED BY <1>6

\* A string goes on up to its quote or the end.
LEMMA StringRun ==
  ASSUME Len(r1) \in Nat, NEW i \in 1..Len(r1), NEW e \in (i + 1)..(Len(r1) + 1), Place(i),
         r1[i] \in Lexer!Quotes, \A j \in (i + 1)..(e - 1) : r1[j] \notin {r1[i], Nul}
  PROVE  \A j \in i..(e - 1) : Lexer!Mode[j] = r1[i]
<1> DEFINE M == Lexer!Mode
           c == r1[i]
           S == {k \in i..(e - 1) : M[k] = c}
<1>1. i \in Nat /\ e - 1 \in Nat /\ i \in i..(e - 1) OBVIOUS
<1>2. M[i] = c
  <2>1. M[i - 1] \in {"open", "behind"} BY DEF Place
  <2>2. i - 1 \in 0..Len(r1) OBVIOUS
  <2>3. M[i] = Lexer!ModeAfter(M[i - 1], i) /\ M[i - 1] \in Modes BY <2>2, ModeFacts
  <2> DEFINE m == M[i - 1]
  <2>4. m \in Modes /\ m \in {"open", "behind"} BY <2>1, <2>3
  <2> HIDE DEF m
  <2>5. Lexer!ModeAfter(m, i) = r1[i] BY <2>4, ModeStep
  <2> QED BY <2>3, <2>5 DEF m
<1>3. i \in S BY <1>1, <1>2
<1>4. ASSUME NEW j \in i..((e - 1) - 1), j \in S PROVE j + 1 \in S
  <2>1. /\ j + 1 \in i..(e - 1) /\ j + 1 \in (i + 1)..(e - 1) /\ j + 1 \in 1..Len(r1)
        /\ (j + 1) - 1 = j /\ j \in 0..Len(r1)
    OBVIOUS
  <2>2. M[j + 1] = Lexer!ModeAfter(M[j], j + 1) /\ M[j] \in Modes /\ M[j] = c BY <1>4, <2>1, ModeFacts
  <2>3. r1[j + 1] \notin {c, Nul} BY <2>1
  <2>4. M[j + 1] = c
    <3> HIDE DEF M
    <3> QED BY <2>2, <2>3, ModeStep
  <2> QED BY <2>1, <2>4
<1>5. \A j \in i..(e - 1) : j \in S
  <2> HIDE DEF S
  <2> QED BY Zenon, <1>1, <1>3, <1>4, RunInduction
<1> QED BY <1>5

TokenTypes == DOMAIN Lexer!Sign \cup {"!=", "-", "->", "<-", "illegal", "string", "number", "eof", "ident"}
                \cup {Keyword[w] : w \in DOMAIN Keyword}

\* A token goes as far as it can.
Whole(t) ==
  LET c == Lexer!Char(t.next) IN
  /\ t.type = "number" => c \notin Digits
  /\ t.type \in {"ident"} \cup {Keyword[w] : w \in DOMAIN Keyword} => c \notin Lexer!WordStart \cup Digits
  /\ ~ (t.type = "-" /\ c = ">") /\ ~ (t.type = "illegal" /\ Lexer!Char(t.from) = "<" /\ c = "-")

\* What a token read at r2 covers: a string up to its quote or the end, anything else is neither
\* a blank nor in quotes.
Plain(next) ==
  /\ next \in (r2 + 1)..(Len(r1) + 1)
  /\ \A j \in r2..(next - 1) : r1[j] \notin Lexer!Blanks \cup Lexer!Quotes
InQuotes(next) ==
  \E e \in (r2 + 1)..(Len(r1) + 1) :
    /\ next = e + 1 /\ (e <= Len(r1) => r1[e] \in {r1[r2], Nul})
    /\ \A j \in (r2 + 1)..(e - 1) : r1[j] \notin {r1[r2], Nul}
WellRead(t, c) ==
  /\ t = [type |-> t.type, from |-> r2, next |-> t.next] /\ t.type \in TokenTypes
  /\ (t.type = "eof" <=> c = Nul) /\ (t.type # "eof" => Whole(t))
  /\ c = Nul => t.next = r2 + 1
  /\ c \in Lexer!Quotes => InQuotes(t.next)
  /\ c \notin Lexer!Quotes \cup {Nul} => Plain(t.next)

\* The type of a token tells which rule made it.
LEMMA TypeFacts ==
  ASSUME Lexer!LexerAssumption
  PROVE  /\ \A w \in DOMAIN Keyword :
              Keyword[w] \notin DOMAIN Lexer!Sign \cup {"!=", "-", "->", "<-", "illegal", "string", "number", "eof"}
         /\ "ident" \notin DOMAIN Lexer!Sign \cup {"!=", "-", "->", "<-", "illegal", "string", "number", "eof"}
         /\ DOMAIN Lexer!Sign \cap {"!=", "-", "->", "<-", "illegal", "string", "number", "eof"} = {}
<1>1. DOMAIN Lexer!Sign = {"=", "(", ")", "[", "]", ":", ".", ","} BY DEF Lexer!Sign
<1>2. "ident" \notin DOMAIN Lexer!Sign \cup {"!=", "-", "->", "<-", "illegal", "string", "number", "eof"} BY <1>1, Zenon
<1>3. DOMAIN Lexer!Sign \cap {"!=", "-", "->", "<-", "illegal", "string", "number", "eof"} = {} BY <1>1, Zenon
<1> QED BY <1>2, <1>3, Zenon DEF Lexer!LexerAssumption

\* Signs, and characters that begin nothing.
LEMMA SignRead ==
  ASSUME Lexer!LexerAssumption, Len(r1) \in Nat, r2 \in 1..Len(r1),
         r1[r2] \notin Lexer!Blanks \cup Lexer!Quotes \cup {Nul},
         NEW type \in TokenTypes, NEW next,
         type # "eof", type \notin {"ident", "number"} \cup {Keyword[w] : w \in DOMAIN Keyword},
         \/ next = r2 + 1
         \/ next = r2 + 2 /\ Lexer!Char(r2 + 1) \in {"=", ">", "-"} /\ type \notin {"-", "illegal"},
         type = "-" => Lexer!Char(r2 + 1) # ">",
         type = "illegal" => ~ (r1[r2] = "<" /\ Lexer!Char(r2 + 1) = "-")
  PROVE  WellRead(Lexer!Token(type, next), r1[r2])
<1> DEFINE t == Lexer!Token(type, next)
<1>1. t = [type |-> type, from |-> r2, next |-> next] BY DEF Lexer!Token
<1>2. Lexer!Char(r2) = r1[r2] BY DEF Lexer!Char
<1>3. Plain(next)
  <2>1. CASE next = r2 + 1
    <3>1. \A j \in r2..(next - 1) : j = r2 BY <2>1
    <3>2. next \in (r2 + 1)..(Len(r1) + 1) BY <2>1
    <3> QED BY <3>1, <3>2 DEF Plain
  <2>2. CASE next = r2 + 2 /\ Lexer!Char(r2 + 1) \in {"=", ">", "-"}
    <3>1. "=" \in DOMAIN Lexer!Sign BY Zenon DEF Lexer!Sign
    <3>2. \A c \in {"=", ">", "-"} : c # Nul BY <3>1, Zenon DEF Lexer!LexerAssumption
    <3>3. \A c \in {"=", ">", "-"} : c \notin Lexer!Blanks \cup Lexer!Quotes BY Characters, Zenon
    <3>4. r2 + 1 <= Len(r1) /\ Lexer!Char(r2 + 1) = r1[r2 + 1] BY <2>2, <3>2 DEF Lexer!Char
    <3>5. r1[r2 + 1] \notin Lexer!Blanks \cup Lexer!Quotes BY <2>2, <3>3, <3>4
    <3>6. \A j \in r2..(next - 1) : j = r2 \/ j = r2 + 1 BY <2>2
    <3>7. next \in (r2 + 1)..(Len(r1) + 1) BY <2>2, <3>4
    <3> QED BY <3>5, <3>6, <3>7 DEF Plain
  <2> QED BY <2>1, <2>2
<1>4. t.type = type /\ t.from = r2 /\ t.next = next BY <1>1
<1> HIDE DEF t
<1>5. ASSUME type = "-" PROVE Lexer!Char(next) # ">" BY <1>5
<1>6. ASSUME type = "illegal", Lexer!Char(r2) = "<" PROVE Lexer!Char(next) # "-" BY <1>2, <1>6
<1>7. Whole(t) BY <1>4, <1>5, <1>6 DEF Whole
<1>8. r1[r2] # Nul /\ r1[r2] \notin Lexer!Quotes OBVIOUS
<1>9. t = [type |-> t.type, from |-> r2, next |-> t.next] BY <1>1, <1>4
<1>10. WellRead(t, r1[r2]) BY <1>3, <1>4, <1>7, <1>8, <1>9 DEF WellRead
<1> QED BY <1>10 DEF t

\* Names, keywords and numbers.
LEMMA WordRead ==
  ASSUME Lexer!LexerAssumption, Len(r1) \in Nat, r2 \in 1..Len(r1),
         r1[r2] \notin Lexer!Blanks \cup Lexer!Quotes \cup {Nul},
         NEW type \in TokenTypes, NEW S, S \subseteq Lexer!WordStart \cup Digits, r1[r2] \in S,
         type \notin DOMAIN Lexer!Sign \cup {"!=", "-", "->", "<-", "illegal", "string", "eof"},
         type = "number" => Digits \subseteq S,
         type \in {"ident"} \cup {Keyword[w] : w \in DOMAIN Keyword} => S = Lexer!WordStart \cup Digits
  PROVE  WellRead(Lexer!Token(type, Lexer!FirstNotIn(S, r2)), r1[r2])
<1> DEFINE n == Lexer!FirstNotIn(S, r2)
           t == Lexer!Token(type, n)
<1>1. r2 \in 1..(Len(r1) + 1) OBVIOUS
<1>2. n \in r2..(Len(r1) + 1) /\ (n <= Len(r1) => r1[n] \notin S) /\ \A j \in r2..(n - 1) : r1[j] \in S
  BY <1>1, FirstFacts
<1> HIDE DEF n
<1>3. n # r2 BY <1>2
<1>4. n \in (r2 + 1)..(Len(r1) + 1) BY <1>2, <1>3
<1>5. \A c \in Lexer!WordStart \cup Digits : c \notin Lexer!Blanks \cup Lexer!Quotes /\ c # Nul
  BY Zenon DEF Lexer!LexerAssumption
<1>6. Plain(n) BY <1>2, <1>4, <1>5 DEF Plain
<1>7. t = [type |-> type, from |-> r2, next |-> n] BY DEF Lexer!Token
<1>8. t.type = type /\ t.from = r2 /\ t.next = n BY <1>7
<1> HIDE DEF t
<1>9. Lexer!Char(n) \notin S
  <2>1. CASE n <= Len(r1) BY <1>2, <2>1 DEF Lexer!Char
  <2>2. CASE ~ (n <= Len(r1))
    <3>1. Lexer!Char(n) = Nul BY <2>2 DEF Lexer!Char
    <3>2. Nul \notin S BY <1>5
    <3> QED BY <3>1, <3>2
  <2> QED BY <2>1, <2>2
<1>10. Whole(t) BY <1>8, <1>9 DEF Whole
<1>11. t = [type |-> t.type, from |-> r2, next |-> t.next] BY <1>7, <1>8
<1>12. WellRead(t, r1[r2])
  <2>1. r1[r2] # Nul /\ r1[r2] \notin Lexer!Quotes /\ type # "eof" OBVIOUS
  <2> QED BY <1>6, <1>8, <1>10, <1>11, <2>1 DEF WellRead
<1> QED BY <1>12 DEF t, n

\* Strings, closed or not.
LEMMA StringRead ==
  ASSUME Lexer!LexerAssumption, Len(r1) \in Nat, r2 \in 1..Len(r1), r1[r2] \in Lexer!Quotes
  PROVE  WellRead(Lexer!ReadString(r1[r2]), r1[r2])
<1> DEFINE c == r1[r2]
           e == Lexer!FirstIn({c, Nul}, r2 + 1)
           type == IF Lexer!Char(e) = c THEN "string" ELSE "illegal"
           t == Lexer!Token(type, e + 1)
<1>1. r2 + 1 \in 1..(Len(r1) + 1) OBVIOUS
<1>2. /\ e \in (r2 + 1)..(Len(r1) + 1) /\ (e <= Len(r1) => r1[e] \in {c, Nul})
      /\ \A j \in (r2 + 1)..(e - 1) : r1[j] \notin {c, Nul}
  BY Zenon, <1>1, FirstFacts
<1>3. Lexer!ReadString(c) = t BY DEF Lexer!ReadString
<1> HIDE DEF e
<1>4. InQuotes(e + 1) BY <1>2 DEF InQuotes
<1>5. t = [type |-> type, from |-> r2, next |-> e + 1] BY DEF Lexer!Token
<1>6. t.type = type /\ t.from = r2 /\ t.next = e + 1 BY <1>5
<1>7. type \in {"string", "illegal"} OBVIOUS
<1>8. /\ type \notin {"ident", "number", "eof", "-"} \cup {Keyword[w] : w \in DOMAIN Keyword}
      /\ type \in TokenTypes
  BY <1>7, TypeFacts DEF TokenTypes
<1>9. Lexer!Char(r2) # "<"
  <2>1. Lexer!Char(r2) = c BY DEF Lexer!Char
  <2>2. "<" \notin Lexer!Quotes BY Characters
  <2> QED BY <2>1, <2>2
<1> HIDE DEF t, type
<1>10. Whole(t) BY <1>6, <1>8, <1>9 DEF Whole
<1>11. t = [type |-> t.type, from |-> r2, next |-> t.next] BY <1>5, <1>6
<1>12. c # Nul BY DEF Lexer!LexerAssumption
<1>13. WellRead(t, c) BY <1>4, <1>6, <1>8, <1>10, <1>11, <1>12 DEF WellRead
<1> QED BY <1>3, <1>13

\* Every token is well read.
LEMMA TokenRead ==
  ASSUME Lexer!LexerAssumption, Len(r1) \in Nat, r2 \in Nat, r2 # 0, Lexer!Char(r2) \notin Lexer!Blanks
  PROVE  WellRead(Lexer!ReadToken(Lexer!Char(r2)), Lexer!Char(r2))
<1> DEFINE c == Lexer!Char(r2)
           K == {Keyword[w] : w \in DOMAIN Keyword}
<1>1. CASE c = Nul
  <2>1. c \notin DOMAIN Lexer!Sign /\ c \notin {"!", "-", "<"} /\ c \notin Lexer!Quotes
    BY <1>1, Zenon DEF Lexer!LexerAssumption
  <2>2. Lexer!ReadToken(c) = Lexer!Token("eof", r2 + 1)
    <3> HIDE DEF c
    <3> QED BY <1>1, <2>1 DEF Lexer!ReadToken
  <2>3. Lexer!ReadToken(c) = [type |-> "eof", from |-> r2, next |-> r2 + 1] BY <2>2 DEF Lexer!Token
  <2> DEFINE t == Lexer!ReadToken(c)
  <2>4. t.type = "eof" /\ t.next = r2 + 1 /\ t = [type |-> t.type, from |-> r2, next |-> t.next] BY <2>3
  <2> HIDE DEF t, c
  <2>5. WellRead(t, c) BY <1>1, <2>1, <2>4 DEF WellRead, TokenTypes
  <2> QED BY <2>5 DEF t, c
<1>2. CASE c # Nul
  <2>1. r2 \in 1..Len(r1) /\ c = r1[r2] BY <1>2 DEF Lexer!Char
  <2> DEFINE P(t) == WellRead(t, r1[r2])
  <2>2. CASE c \in Lexer!Quotes
    <3>1. c \notin DOMAIN Lexer!Sign /\ c \notin {"!", "-", "<"} BY <2>2, Characters
    <3>2. Lexer!ReadToken(c) = Lexer!ReadString(c)
      <4> HIDE DEF c
      <4> QED BY <2>2, <3>1 DEF Lexer!ReadToken
    <3> QED BY <2>1, <2>2, <3>2, StringRead
  <2>3. CASE c \notin Lexer!Quotes
    <3>1. r1[r2] \notin Lexer!Blanks \cup Lexer!Quotes \cup {Nul} BY <1>2, <2>1, <2>3
    <3>2. \A type \in TokenTypes \ ({"eof", "ident", "number"} \cup K) : \A next :
            /\ \/ next = r2 + 1
               \/ next = r2 + 2 /\ Lexer!Char(r2 + 1) \in {"=", ">", "-"} /\ type \notin {"-", "illegal"}
            /\ type = "-" => Lexer!Char(r2 + 1) # ">"
            /\ type = "illegal" => ~ (r1[r2] = "<" /\ Lexer!Char(r2 + 1) = "-")
            => P(Lexer!Token(type, next))
      <4> TAKE type \in TokenTypes \ ({"eof", "ident", "number"} \cup K)
      <4> TAKE next
      <4> HAVE /\ \/ next = r2 + 1
                  \/ next = r2 + 2 /\ Lexer!Char(r2 + 1) \in {"=", ">", "-"} /\ type \notin {"-", "illegal"}
               /\ type = "-" => Lexer!Char(r2 + 1) # ">"
               /\ type = "illegal" => ~ (r1[r2] = "<" /\ Lexer!Char(r2 + 1) = "-")
      <4> HIDE DEF c
      <4> QED BY <2>1, <3>1, SignRead
    <3>3. /\ {"!=", "-", "->", "<-", "illegal"} \cup DOMAIN Lexer!Sign
               \subseteq TokenTypes \ ({"eof", "ident", "number"} \cup K)
          /\ "-" \notin DOMAIN Lexer!Sign /\ "illegal" \notin DOMAIN Lexer!Sign
      BY TypeFacts DEF TokenTypes
    <3>4. "!" \notin DOMAIN Lexer!Sign /\ "-" \notin DOMAIN Lexer!Sign /\ "<" \notin DOMAIN Lexer!Sign BY Characters
    <3> HIDE DEF P
    <3>5. CASE c \in DOMAIN Lexer!Sign
      <4>1. Lexer!ReadToken(c) = Lexer!Token(c, r2 + 1)
        <5> HIDE DEF c
        <5> QED BY <3>5 DEF Lexer!ReadToken
      <4>2. c \in TokenTypes \ ({"eof", "ident", "number"} \cup K) /\ c # "-" /\ c # "illegal"
        <5> HIDE DEF c, K
        <5> QED BY <3>3, <3>5
      <4>3. P(Lexer!Token(c, r2 + 1))
        <5> HIDE DEF c, K
        <5> QED BY <3>2, <4>2
      <4> QED BY <2>1, <4>1, <4>3 DEF P
    <3>6. CASE c = "!"
      <4>1. Lexer!ReadToken(c) = Lexer!ReadSign("=", "!=", "illegal")
        <5> HIDE DEF c
        <5> QED BY <3>4, <3>6 DEF Lexer!ReadToken
      <4>2. Lexer!ReadToken(c) =
              IF Lexer!Char(r2 + 1) = "=" THEN Lexer!Token("!=", r2 + 2) ELSE Lexer!Token("illegal", r2 + 1)
        BY <4>1 DEF Lexer!ReadSign
      <4>3. Lexer!Char(r2 + 1) = "=" => P(Lexer!Token("!=", r2 + 2)) BY Zenon, <3>2, <3>3
      <4>4. P(Lexer!Token("illegal", r2 + 1)) BY <2>1, <3>2, <3>3, <3>6
      <4> QED BY <2>1, <4>2, <4>3, <4>4 DEF P
    <3>7. CASE c = "-"
      <4>1. Lexer!ReadToken(c) = Lexer!ReadSign(">", "->", "-")
        <5> HIDE DEF c
        <5> QED BY <3>4, <3>7 DEF Lexer!ReadToken
      <4>2. Lexer!ReadToken(c) =
              IF Lexer!Char(r2 + 1) = ">" THEN Lexer!Token("->", r2 + 2) ELSE Lexer!Token("-", r2 + 1)
        BY <4>1 DEF Lexer!ReadSign
      <4>3. Lexer!Char(r2 + 1) = ">" => P(Lexer!Token("->", r2 + 2)) BY Zenon, <3>2, <3>3
      <4>4. Lexer!Char(r2 + 1) # ">" => P(Lexer!Token("-", r2 + 1)) BY <3>2, <3>3
      <4> QED BY <2>1, <4>2, <4>3, <4>4 DEF P
    <3>8. CASE c = "<"
      <4>1. Lexer!ReadToken(c) = Lexer!ReadSign("-", "<-", "illegal")
        <5> HIDE DEF c
        <5> QED BY <3>4, <3>8 DEF Lexer!ReadToken
      <4>2. Lexer!ReadToken(c) =
              IF Lexer!Char(r2 + 1) = "-" THEN Lexer!Token("<-", r2 + 2) ELSE Lexer!Token("illegal", r2 + 1)
        BY <4>1 DEF Lexer!ReadSign
      <4>3. Lexer!Char(r2 + 1) = "-" => P(Lexer!Token("<-", r2 + 2)) BY Zenon, <3>2, <3>3
      <4>4. Lexer!Char(r2 + 1) # "-" => P(Lexer!Token("illegal", r2 + 1)) BY <3>2, <3>3
      <4> QED BY <2>1, <4>2, <4>3, <4>4 DEF P
    <3>9. CASE c \notin DOMAIN Lexer!Sign \cup {"!", "-", "<"}
      <4> DEFINE S == Lexer!WordStart \cup Digits
      <4>1. CASE c \in Lexer!WordStart
        <5> DEFINE word == SubSeq(r1, r2, Lexer!FirstNotIn(S, r2) - 1)
                   type == IF word \in DOMAIN Keyword THEN Keyword[word] ELSE "ident"
        <5>1. Lexer!ReadToken(c) = Lexer!ReadIdentifier
          <6> HIDE DEF c
          <6> QED BY <1>2, <2>3, <3>9, <4>1 DEF Lexer!ReadToken
        <5>2. Lexer!ReadIdentifier = Lexer!Token(type, Lexer!FirstNotIn(S, r2))
          BY DEF Lexer!ReadIdentifier, Lexer!WordTo
        <5>3. type = "ident" \/ type \in K BY Zenon
        <5> HIDE DEF type
        <5>4. type \in TokenTypes BY <5>3 DEF TokenTypes
        <5>5. type \notin DOMAIN Lexer!Sign \cup {"!=", "-", "->", "<-", "illegal", "string", "eof"} BY <5>3, TypeFacts
        <5>6. WellRead(Lexer!Token(type, Lexer!FirstNotIn(S, r2)), r1[r2])
          <6>1. r1[r2] \in S /\ Digits \subseteq S /\ S \subseteq Lexer!WordStart \cup Digits BY <2>1, <4>1
          <6>2. S = Lexer!WordStart \cup Digits OBVIOUS
          <6> HIDE DEF S, c
          <6> QED BY <2>1, <3>1, <5>4, <5>5, <6>1, <6>2, WordRead
        <5> QED BY <2>1, <5>1, <5>2, <5>6
      <4>2. CASE c \notin Lexer!WordStart /\ c \in Digits
        <5>1. Lexer!ReadToken(c) = Lexer!Token("number", Lexer!FirstNotIn(Digits, r2))
          <6> HIDE DEF c
          <6> QED BY <1>2, <2>3, <3>9, <4>2 DEF Lexer!ReadToken
        <5>2. "number" \in TokenTypes BY DEF TokenTypes
        <5>3. /\ "number" \notin DOMAIN Lexer!Sign \cup {"!=", "-", "->", "<-", "illegal", "string", "eof"}
              /\ "number" \notin {"ident"} \cup K
          BY TypeFacts
        <5>4. WellRead(Lexer!Token("number", Lexer!FirstNotIn(Digits, r2)), r1[r2])
          <6>1. r1[r2] \in Digits BY <2>1, <4>2
          <6> DEFINE type == "number"
          <6>2. /\ type \in TokenTypes /\ type \notin {"ident"} \cup K
                /\ type \notin DOMAIN Lexer!Sign \cup {"!=", "-", "->", "<-", "illegal", "string", "eof"}
            BY <5>2, <5>3
          <6> HIDE DEF type, c
          <6>3. WellRead(Lexer!Token(type, Lexer!FirstNotIn(Digits, r2)), r1[r2]) BY <2>1, <3>1, <6>1, <6>2, WordRead
          <6> QED BY <6>3 DEF type
        <5> QED BY <2>1, <5>1, <5>4
      <4>3. CASE c \notin Lexer!WordStart /\ c \notin Digits
        <5>1. Lexer!ReadToken(c) = Lexer!Token("illegal", r2 + 1)
          <6> HIDE DEF c
          <6> QED BY <1>2, <2>3, <3>9, <4>3 DEF Lexer!ReadToken
        <5>2. r1[r2] # "<" BY <2>1, <3>9
        <5>3. P(Lexer!Token("illegal", r2 + 1)) BY <3>2, <3>3, <5>2
        <5> QED BY <2>1, <5>1, <5>3 DEF P
      <4> QED BY <4>1, <4>2, <4>3
    <3> QED BY <3>5, <3>6, <3>7, <3>8, <3>9
  <2> QED BY <2>2, <2>3
<1> QED BY <1>1, <1>2

TokenSet == [type : TokenTypes, from : Nat, next : Nat]
WholeTokens == {t \in TokenSet : Whole(t)}
Places == {i \in Nat : Place(i)}
\* Where SkipComment stops.
CommentEnds == {i \in Nat : Lexer!Mode[i - 1] = "comment" /\ Lexer!Char(i) \in Lexer!LineEnds \cup {Nul}}
AtEnd == Len(r3) # 0 /\ r3[Len(r3)].type = "eof"
\* The characters before it were read.
Done == IF AtEnd THEN r3[Len(r3)].from ELSE r2
InToken(i) == \E k \in 1..Len(r3) : r3[k].type # "eof" /\ i \in r3[k].from..(r3[k].next - 1)

LexState == r1 \in Texts /\ Len(r1) \in Nat /\ r2 \in Nat /\ r2 # 0 /\ r3 \in Seq(TokenSet) /\ Done \in 1..r2
LexTokens ==
  \A k \in 1..Len(r3) :
    /\ r3[k].type = "eof" => k = Len(r3)
    /\ r3[k].type # "eof" => r3[k].from # 0 /\ r3[k].next <= Done /\ r3[k] \in WholeTokens
LexRemarks == \A i \in r4 : i \in 1..(Done - 1)
LexRead ==
  \A i \in 1..Len(r1) : i < Done =>
    /\ i \in r4 <=> Lexer!Mode[i] = "comment"
    /\ InToken(i) \/ i \in r4 \/ r1[i] \in Lexer!Blanks
    /\ InToken(i) => i \notin r4
LexPlace == ~ AtEnd /\ r2 <= Len(r1) + 1 => r2 \in Places \cup CommentEnds
\* The state, the tokens, the comments, each character that was read, and the place reached.
LexInv == LexState /\ LexTokens /\ LexRemarks /\ LexRead /\ LexPlace

\* What depends on the text alone stays as it is.
LEMMA SameText ==
  ASSUME r1' = r1
  PROVE  Lexer!Mode' = Lexer!Mode /\ Places' = Places /\ CommentEnds' = CommentEnds /\ WholeTokens' = WholeTokens
<1>1. \A i : Lexer!Char(i)' = Lexer!Char(i) BY DEF Lexer!Char
<1>2. Lexer!Mode' = Lexer!Mode BY DEF Lexer!Mode, Lexer!ModeAfter, Lexer!Char
<1>3. Places' = Places BY <1>2 DEF Places, Place, LineStart
<1>4. CommentEnds' = CommentEnds BY <1>2 DEF CommentEnds, Lexer!Char
<1>5. WholeTokens' = WholeTokens BY DEF WholeTokens, Whole, Lexer!Char
<1> QED BY <1>2, <1>3, <1>4, <1>5

\* The last token, by its position.
LEMMA EndFacts ==
  ASSUME r3 \in Seq(TokenSet)
  PROVE  Lexer!Ended <=> AtEnd
BY DEF Lexer!Ended, AtEnd

\* What a token is made of.
LEMMA TokenNumbers ==
  ASSUME r3 \in Seq(TokenSet)
  PROVE  \A k \in 1..Len(r3) : r3[k] \in TokenSet /\ r3[k].from \in Nat /\ r3[k].next \in Nat
<1> TAKE k \in 1..Len(r3)
<1>1. r3[k] \in TokenSet OBVIOUS
<1> QED BY <1>1 DEF TokenSet

\* It holds before anything is read.
LEMMA LexBegins ==
  ASSUME Lexer!LexerAssumption, Lexer!Init
  PROVE  LexInv
<1>1. r1 \in Texts /\ r2 = 1 /\ r3 = <<>> /\ r4 = {} BY DEF Lexer!Init
<1>2. Len(r1) \in Nat
  <2>1. r1 \in Seq(Lexer!Range(r1)) BY <1>1 DEF Lexer!LexerAssumption
  <2> QED BY <2>1
<1>3. Len(r3) = 0 /\ ~ AtEnd /\ Done = 1 BY <1>1 DEF AtEnd, Done
<1>4. Place(1)
  <2>1. Lexer!Mode[0] = "open" BY <1>2, ModeFacts
  <2>2. LineStart(1) BY DEF LineStart
  <2> QED BY <2>1, <2>2 DEF Place
<1>5. LexState BY <1>1, <1>2, <1>3 DEF LexState
<1>6. LexPlace BY <1>1, <1>4 DEF LexPlace, Places
<1>7. LexTokens BY <1>3 DEF LexTokens
<1>8. LexRemarks BY <1>1 DEF LexRemarks
<1>9. LexRead BY <1>3 DEF LexRead
<1> QED BY <1>5, <1>6, <1>7, <1>8, <1>9 DEF LexInv

\* Blanks: they are in no token, and the mode follows the line.
LEMMA BlankSkipped ==
  ASSUME Lexer!LexerAssumption, LexInv, Lexer!SkipBlank
  PROVE  LexInv'
<1> DEFINE N == Len(r1)
           M == Lexer!Mode
           n == Lexer!FirstNotIn(Lexer!Blanks, r2)
<1>1. r1 \in Texts /\ N \in Nat /\ r2 \in Nat /\ r2 # 0 /\ r3 \in Seq(TokenSet) BY DEF LexInv, LexState
<1>2. ~ AtEnd /\ Lexer!Char(r2) \in Lexer!Blanks /\ r2' = n /\ r1' = r1 /\ r3' = r3 /\ r4' = r4
  BY <1>1, EndFacts DEF Lexer!SkipBlank
<1>3. r2 \in 1..N /\ r1[r2] = Lexer!Char(r2) /\ r2 \in 1..(N + 1)
  <2>1. Nul \notin Lexer!Blanks BY DEF Lexer!LexerAssumption
  <2> QED BY <1>1, <1>2, <2>1 DEF Lexer!Char
<1>4. n \in r2..(N + 1) /\ (n <= N => r1[n] \notin Lexer!Blanks) /\ \A j \in r2..(n - 1) : r1[j] \in Lexer!Blanks
  BY <1>1, <1>3, FirstFacts
<1> HIDE DEF n
<1>5. n \in (r2 + 1)..(N + 1)
  <2>1. n # r2 BY <1>2, <1>3, <1>4
  <2> QED BY <1>3, <1>4, <2>1
<1>6. Place(r2) \/ (M[r2 - 1] = "comment" /\ r1[r2] \in Lexer!LineEnds)
  <2>1. r2 \in Places \cup CommentEnds BY <1>2, <1>3 DEF LexInv, LexPlace
  <2>2. r1[r2] # Nul BY <1>2, <1>3 DEF Lexer!LexerAssumption
  <2> QED BY <1>3, <2>1, <2>2 DEF Places, CommentEnds
<1>7. Place(n) /\ \A j \in r2..(n - 1) : M[j] # "comment"
  BY <1>1, <1>3, <1>4, <1>5, <1>6, BlankRun
<1>8. M' = M /\ Places' = Places /\ CommentEnds' = CommentEnds /\ WholeTokens' = WholeTokens BY <1>2, SameText
<1>9. ~ AtEnd' /\ Done = r2 /\ Done' = n BY <1>2 DEF AtEnd, Done
<1> HIDE DEF M
<1>10. LexState' BY <1>1, <1>2, <1>3, <1>5, <1>9 DEF LexState
<1>11. LexTokens'
  <2> SUFFICES ASSUME NEW k \in 1..Len(r3)
               PROVE  /\ r3[k].type = "eof" => k = Len(r3)
                      /\ r3[k].type # "eof" => r3[k].from # 0 /\ r3[k].next <= n /\ r3[k] \in WholeTokens
    BY <1>2, <1>8, <1>9 DEF LexTokens
  <2>2. r3[k].next \in Nat BY <1>1, TokenNumbers
  <2>3. r3[k].type # "eof" => r3[k].next <= r2 BY <1>9 DEF LexInv, LexTokens
  <2>4. r3[k].type # "eof" => r3[k].next <= n BY <1>1, <1>5, <2>2, <2>3
  <2> QED BY <2>4 DEF LexInv, LexTokens
<1>12. LexRemarks' BY <1>1, <1>2, <1>5, <1>9 DEF LexInv, LexRemarks
<1>13. LexRead'
  <2> SUFFICES ASSUME NEW i \in 1..N, i < n
               PROVE  /\ i \in r4 <=> M[i] = "comment"
                      /\ InToken(i) \/ i \in r4 \/ r1[i] \in Lexer!Blanks
                      /\ InToken(i) => i \notin r4
    BY <1>2, <1>8, <1>9 DEF LexRead, InToken, M
  <2>1. CASE i < r2 BY <1>9, <2>1 DEF LexInv, LexRead, M
  <2>2. CASE ~ (i < r2)
    <3>1. i \in r2..(n - 1) BY <1>1, <1>5, <2>2
    <3>2. i \notin r4 BY <1>1, <1>9, <2>2 DEF LexInv, LexRemarks
    <3> QED BY <1>4, <1>7, <3>1, <3>2
  <2> QED BY <2>1, <2>2
<1>14. LexPlace'
  <2>1. n \in Places BY <1>1, <1>5, <1>7 DEF Places
  <2> QED BY <1>2, <1>8, <2>1 DEF LexPlace
<1> QED BY <1>10, <1>11, <1>12, <1>13, <1>14 DEF LexInv

\* A comment: SkipComment and the reading from left to right stop at the same place.
LEMMA CommentSkipped ==
  ASSUME Lexer!LexerAssumption, LexInv, Lexer!SkipComment
  PROVE  LexInv'
<1> DEFINE N == Len(r1)
           M == Lexer!Mode
           n == Lexer!FirstIn(Lexer!LineEnds \cup {Nul}, r2)
<1>1. r1 \in Texts /\ N \in Nat /\ r2 \in Nat /\ r2 # 0 /\ r3 \in Seq(TokenSet) BY DEF LexInv, LexState
<1>2. ~ AtEnd /\ Lexer!LineCommentStart(r2) /\ r2' = n /\ r1' = r1 /\ r3' = r3 /\ r4' = r4 \cup r2..(n - 1)
  BY <1>1, EndFacts DEF Lexer!SkipComment
<1>3. r2 \in 1..N /\ r1[r2] = "-" /\ Lexer!Char(r2) = "-" /\ r2 \in 1..(N + 1) /\ Nul # "-"
  <2>1. Nul # "-" BY DEF Lexer!LexerAssumption
  <2>2. Lexer!Char(r2) = "-" BY <1>2 DEF Lexer!LineCommentStart
  <2> QED BY <1>1, <2>1, <2>2 DEF Lexer!Char
<1>4. /\ n \in r2..(N + 1) /\ (n <= N => r1[n] \in Lexer!LineEnds \cup {Nul})
      /\ \A j \in r2..(n - 1) : r1[j] \notin Lexer!LineEnds \cup {Nul}
  BY <1>1, <1>3, FirstFacts
<1> HIDE DEF n
<1>5. n \in (r2 + 1)..(N + 1)
  <2>1. "-" \notin Lexer!LineEnds BY Characters
  <2>2. n # r2 BY <1>3, <1>4, <2>1
  <2> QED BY <1>3, <1>4, <2>2
<1>6. Place(r2)
  <2>1. r2 \in Places \cup CommentEnds BY <1>2, <1>3 DEF LexInv, LexPlace
  <2>2. "-" \notin Lexer!LineEnds BY Characters
  <2>3. r2 \notin CommentEnds BY <1>3, <2>2 DEF CommentEnds
  <2> QED BY <2>1, <2>3 DEF Places
<1>7. \A j \in r2..(n - 1) : M[j] = "comment" BY Zenon, <1>1, <1>2, <1>3, <1>4, <1>5, <1>6, CommentRun
<1>8. M' = M /\ Places' = Places /\ CommentEnds' = CommentEnds /\ WholeTokens' = WholeTokens BY <1>2, SameText
<1>9. ~ AtEnd' /\ Done = r2 /\ Done' = n BY <1>2 DEF AtEnd, Done
<1>10. LexState' BY <1>1, <1>2, <1>3, <1>5, <1>9 DEF LexState
<1>11. n \in Nat /\ \A k \in 1..Len(r3) : r3[k].from \in Nat /\ r3[k].next \in Nat
  <2>1. n \in Nat BY <1>1, <1>5
  <2> QED BY <1>1, <2>1, TokenNumbers
<1>12. \A k \in 1..Len(r3) : r3[k].type # "eof" => r3[k].next <= r2 BY <1>9 DEF LexInv, LexTokens
<1>13. LexTokens'
  <2> SUFFICES ASSUME NEW k \in 1..Len(r3)
               PROVE  /\ r3[k].type = "eof" => k = Len(r3)
                      /\ r3[k].type # "eof" => r3[k].from # 0 /\ r3[k].next <= n /\ r3[k] \in WholeTokens
    BY <1>2, <1>8, <1>9 DEF LexTokens
  <2>1. r3[k].type # "eof" => r3[k].next <= n BY <1>1, <1>5, <1>11, <1>12
  <2> QED BY <2>1 DEF LexInv, LexTokens
<1>14. LexRemarks' BY <1>1, <1>2, <1>5, <1>9 DEF LexInv, LexRemarks
<1>15. LexRead'
  <2> SUFFICES ASSUME NEW i \in 1..N, i < n
               PROVE  /\ i \in r4 \cup r2..(n - 1) <=> M[i] = "comment"
                      /\ InToken(i) \/ i \in r4 \cup r2..(n - 1) \/ r1[i] \in Lexer!Blanks
                      /\ InToken(i) => i \notin r4 \cup r2..(n - 1)
    <3> HIDE DEF M
    <3> QED BY <1>2, <1>8, <1>9 DEF LexRead, InToken, M
  <2>1. CASE i < r2 BY <1>1, <1>9, <2>1 DEF LexInv, LexRead, M
  <2>2. CASE ~ (i < r2)
    <3>1. i \in r2..(n - 1) BY <1>1, <1>5, <2>2
    <3>2. ~ InToken(i)
      <4> SUFFICES ASSUME NEW k \in 1..Len(r3), r3[k].type # "eof", i \in r3[k].from..(r3[k].next - 1) PROVE FALSE
        BY DEF InToken
      <4>1. r3[k].next <= r2 /\ r3[k].next \in Nat BY <1>11, <1>12
      <4>2. r3[k].from \in Nat BY <1>11
      <4> QED BY <1>1, <2>2, <4>1, <4>2
    <3> QED BY <1>7, <3>1, <3>2
  <2> QED BY <2>1, <2>2
<1>16. LexPlace'
  <2>1. n \in CommentEnds
    <3>1. n - 1 \in r2..(n - 1) BY <1>1, <1>5
    <3>2. Lexer!Char(n) \in Lexer!LineEnds \cup {Nul} BY <1>4 DEF Lexer!Char
    <3> QED BY <1>7, <1>11, <3>1, <3>2 DEF CommentEnds
  <2> QED BY <1>2, <1>8, <2>1 DEF LexPlace
<1> QED BY <1>10, <1>13, <1>14, <1>15, <1>16 DEF LexInv

\* A token that is not the end: it begins where a line or something on it may go on.
LEMMA TokenCovers ==
  ASSUME Lexer!LexerAssumption, Len(r1) \in Nat, r2 \in 1..Len(r1), Place(r2), ~ Lexer!Ignored(r2),
         NEW t, WellRead(t, r1[r2]), r1[r2] # Nul
  PROVE  /\ t.next \in Nat /\ r2 < t.next
         /\ t.next <= Len(r1) + 1 => Place(t.next)
         /\ \A j \in 1..Len(r1) : r2 <= j /\ j < t.next => Lexer!Mode[j] # "comment"
<1> DEFINE N == Len(r1)
           M == Lexer!Mode
<1>1. Lexer!Char(r2) = r1[r2] /\ ~ Lexer!LineCommentStart(r2) /\ r2 \in Nat /\ r2 # 0 BY DEF Lexer!Ignored, Lexer!Char
<1>2. CASE r1[r2] \in Lexer!Quotes
  <2>1. PICK e \in (r2 + 1)..(N + 1) :
          /\ t.next = e + 1 /\ (e <= N => r1[e] \in {r1[r2], Nul})
          /\ \A j \in (r2 + 1)..(e - 1) : r1[j] \notin {r1[r2], Nul}
    BY <1>2 DEF WellRead, InQuotes
  <2>2. \A j \in r2..(e - 1) : M[j] = r1[r2] BY Zenon, <1>2, <2>1, StringRun
  <2>3. "comment" \notin Lexer!Quotes /\ "behind" # "comment" /\ "open" # "comment" BY Characters
  <2>4. ASSUME e <= N PROVE Place(e + 1)
    <3>1. M[e - 1] = r1[r2] /\ e \in 1..N BY <2>2, <2>4
    <3>2. Nul \notin Lexer!Blanks BY DEF Lexer!LexerAssumption
    <3> QED BY <1>2, <2>1, <2>4, <3>1, <3>2, PlaceStep
  <2>5. ASSUME NEW j \in 1..N, r2 <= j, j < e + 1 PROVE M[j] # "comment"
    <3>1. CASE j < e
      <4>1. j \in r2..(e - 1) BY <2>5, <3>1
      <4> QED BY <1>2, <2>2, <2>3, <4>1
    <3>2. CASE ~ (j < e)
      <4>1. j = e /\ e <= N /\ (e + 1) - 1 = e BY <2>5, <3>2
      <4>2. M[e] \in {"open", "behind"} BY <2>4, <4>1 DEF Place
      <4> QED BY <2>3, <4>1, <4>2
    <3> QED BY <3>1, <3>2
  <2>6. t.next \in Nat /\ r2 < t.next /\ (t.next <= N + 1 => e <= N) BY <2>1
  <2> HIDE DEF M
  <2> QED BY <2>1, <2>4, <2>5, <2>6 DEF M
<1>3. CASE r1[r2] \notin Lexer!Quotes
  <2>1. t.next \in (r2 + 1)..(N + 1) /\ \A j \in r2..(t.next - 1) : r1[j] \notin Lexer!Blanks \cup Lexer!Quotes
    BY <1>3 DEF WellRead, Plain
  <2>2. Place(t.next) /\ \A j \in r2..(t.next - 1) : M[j] # "comment" BY <1>1, <2>1, PlainRun
  <2>3. t.next \in Nat /\ r2 < t.next BY <2>1
  <2>4. \A j \in 1..N : r2 <= j /\ j < t.next => j \in r2..(t.next - 1) BY <2>3
  <2> QED BY <2>2, <2>3, <2>4
<1> QED BY <1>2, <1>3

\* A token: what it covers is read, and the place behind it is known.
LEMMA TokenTaken ==
  ASSUME Lexer!LexerAssumption, LexInv, Lexer!NextToken
  PROVE  LexInv'
<1> DEFINE N == Len(r1)
           M == Lexer!Mode
           c == Lexer!Char(r2)
           t == Lexer!ReadToken(c)
           L == Len(r3)
<1>1. r1 \in Texts /\ N \in Nat /\ r2 \in Nat /\ r2 # 0 /\ r3 \in Seq(TokenSet) /\ L \in Nat BY DEF LexInv, LexState
<1>2. ~ AtEnd /\ ~ Lexer!Ignored(r2) /\ r1' = r1 /\ r3' = Append(r3, t) /\ r2' = t.next /\ r4' = r4
  BY <1>1, EndFacts DEF Lexer!NextToken
<1>3. c \notin Lexer!Blanks /\ ~ Lexer!LineCommentStart(r2) BY <1>2 DEF Lexer!Ignored
<1>4. WellRead(t, c) BY <1>1, <1>3, TokenRead
<1> HIDE DEF t
<1>5. t.type \in TokenTypes /\ t.from = r2 BY <1>4 DEF WellRead
<1>6. c # Nul => Place(r2) /\ r2 \in 1..N /\ r1[r2] = c
  <2> SUFFICES ASSUME c # Nul PROVE Place(r2) /\ r2 \in 1..N /\ r1[r2] = c OBVIOUS
  <2>1. r2 \in 1..N /\ r1[r2] = c /\ r2 <= N + 1 BY <1>1 DEF Lexer!Char
  <2>2. r2 \in Places \cup CommentEnds BY <1>2, <2>1 DEF LexInv, LexPlace
  <2>3. r2 \notin CommentEnds
    <3>1. c \notin Lexer!LineEnds BY <1>3, Characters
    <3> QED BY <3>1 DEF CommentEnds
  <2>4. Place(r2) BY <2>2, <2>3 DEF Places
  <2> QED BY <2>1, <2>4
<1>7. c # Nul => /\ t.next \in Nat /\ r2 < t.next
                 /\ t.next <= N + 1 => Place(t.next)
                 /\ \A j \in 1..N : r2 <= j /\ j < t.next => M[j] # "comment"
  BY <1>1, <1>2, <1>4, <1>6, TokenCovers
<1>8. c = Nul => t.next = r2 + 1 BY <1>4 DEF WellRead
<1> HIDE DEF c
<1>9. t.next \in Nat /\ r2 < t.next BY <1>1, <1>7, <1>8
<1>10. t \in TokenSet
  <2>1. t = [type |-> t.type, from |-> r2, next |-> t.next] BY <1>4 DEF WellRead
  <2> QED BY <1>1, <1>5, <1>9, <2>1 DEF TokenSet
<1>11. /\ r3' \in Seq(TokenSet) /\ Len(r3') = L + 1 /\ r3'[L + 1] = t /\ \A k \in 1..L : r3'[k] = r3[k]
       /\ r2' = t.next
  <2>1. r3' \in Seq(TokenSet) /\ Len(r3') = L + 1 /\ r3'[L + 1] = t /\ \A k \in 1..L : r3'[k] = r3[k]
    BY <1>1, <1>2, <1>10
  <2> QED BY <1>2, <2>1
<1>12. M' = M /\ Places' = Places /\ CommentEnds' = CommentEnds /\ WholeTokens' = WholeTokens BY <1>2, SameText
<1>13. Done = r2 /\ (AtEnd' <=> c = Nul) /\ Done' = IF c = Nul THEN r2 ELSE t.next
  <2>1. t.type = "eof" <=> c = Nul BY <1>4 DEF WellRead
  <2>2. AtEnd' <=> c = Nul BY <1>1, <1>11, <2>1 DEF AtEnd
  <2>3. Done' = IF AtEnd' THEN t.from ELSE t.next BY <1>11 DEF Done
  <2> QED BY <1>2, <1>5, <2>2, <2>3 DEF Done
<1>14. t.type = "eof" <=> c = Nul BY <1>4 DEF WellRead
<1>15. c # Nul => t \in WholeTokens BY <1>4, <1>10, <1>14 DEF WellRead, WholeTokens
<1>16. \A k \in 1..L : r3[k] \in TokenSet /\ r3[k].from \in Nat /\ r3[k].next \in Nat BY <1>1, TokenNumbers
<1>17. \A k \in 1..L : r3[k].type # "eof" /\ r3[k].from # 0 /\ r3[k].next <= r2 /\ r3[k] \in WholeTokens
  <2> TAKE k \in 1..L
  <2>1. r3[k].type # "eof" BY <1>1, <1>2 DEF LexInv, LexTokens, AtEnd
  <2> QED BY <1>13, <2>1 DEF LexInv, LexTokens
<1>18. Done' \in 1..r2' /\ r2 <= Done'
  <2>1. CASE c = Nul BY <1>1, <1>9, <1>11, <1>13, <2>1
  <2>2. CASE c # Nul BY <1>1, <1>9, <1>11, <1>13, <2>2
  <2> QED BY <2>1, <2>2
<1>19. LexState'
  <2>1. r2' \in Nat /\ r2' # 0 BY <1>1, <1>9, <1>11
  <2> QED BY <1>1, <1>2, <1>11, <1>18, <2>1 DEF LexState
<1>20. LexTokens'
  <2> SUFFICES ASSUME NEW k \in 1..(L + 1)
               PROVE  /\ r3'[k].type = "eof" => k = L + 1
                      /\ r3'[k].type # "eof" => r3'[k].from # 0 /\ r3'[k].next <= Done' /\ r3'[k] \in WholeTokens
    BY <1>11, <1>12 DEF LexTokens
  <2>1. CASE k = L + 1
    <3>1. r3'[k] = t BY <1>11, <2>1
    <3>2. c # Nul => t.next <= Done' BY <1>9, <1>13
    <3> QED BY <1>1, <1>5, <1>14, <1>15, <2>1, <3>1, <3>2
  <2>2. CASE k \in 1..L
    <3>1. r3'[k] = r3[k] BY <1>11, <2>2
    <3>2. r3[k].next <= r2 /\ r3[k].next \in Nat BY <1>16, <1>17, <2>2
    <3>3. Done' \in Nat BY <1>18
    <3>4. r3[k].next <= Done' BY <1>1, <1>18, <3>2, <3>3
    <3> QED BY <1>17, <2>2, <3>1, <3>4
  <2> QED BY <1>1, <2>1, <2>2
<1>21. LexRemarks'
  <2>1. \A i \in r4 : i \in 1..(r2 - 1) BY <1>13 DEF LexInv, LexRemarks
  <2>2. Done' \in Nat BY <1>18
  <2> QED BY <1>1, <1>2, <1>18, <2>1, <2>2 DEF LexRemarks
<1>22. \A i \in Nat : InToken(i)' <=> InToken(i) \/ (c # Nul /\ r2 <= i /\ i < t.next)
  <2> TAKE i \in Nat
  <2>1. InToken(i)' <=> \E k \in 1..(L + 1) : r3'[k].type # "eof" /\ i \in r3'[k].from..(r3'[k].next - 1)
    BY <1>11 DEF InToken
  <2>2. (\E k \in 1..(L + 1) : r3'[k].type # "eof" /\ i \in r3'[k].from..(r3'[k].next - 1))
        <=> \/ \E k \in 1..L : r3'[k].type # "eof" /\ i \in r3'[k].from..(r3'[k].next - 1)
            \/ t.type # "eof" /\ i \in t.from..(t.next - 1)
    <3>1. \A k : k \in 1..(L + 1) <=> k \in 1..L \/ k = L + 1 BY <1>1
    <3> HIDE DEF L
    <3> QED BY <1>11, <3>1
  <2>3. (\E k \in 1..L : r3'[k].type # "eof" /\ i \in r3'[k].from..(r3'[k].next - 1)) <=> InToken(i)
    <3>1. \A k \in 1..L : r3'[k] = r3[k] BY <1>11
    <3> QED BY <3>1 DEF InToken
  <2>4. i \in t.from..(t.next - 1) <=> r2 <= i /\ i < t.next BY <1>1, <1>5, <1>9
  <2> QED BY <1>14, <2>1, <2>2, <2>3, <2>4
<1>23. \A i \in Nat : InToken(i) => i < r2
  <2> SUFFICES ASSUME NEW i \in Nat, NEW k \in 1..L, i \in r3[k].from..(r3[k].next - 1) PROVE i < r2
    BY DEF InToken
  <2>1. r3[k].from \in Nat /\ r3[k].next \in Nat /\ r3[k].next <= r2 BY <1>16, <1>17
  <2> QED BY <1>1, <2>1
<1>24. LexRead'
  <2> SUFFICES ASSUME NEW i \in 1..N, i < Done'
               PROVE  /\ i \in r4 <=> M[i] = "comment"
                      /\ InToken(i)' \/ i \in r4 \/ r1[i] \in Lexer!Blanks
                      /\ InToken(i)' => i \notin r4
    <3>1. LexRead' <=> \A i \in 1..N : i < Done' =>
            /\ i \in r4 <=> M[i] = "comment"
            /\ InToken(i)' \/ i \in r4 \/ r1[i] \in Lexer!Blanks
            /\ InToken(i)' => i \notin r4
      <4> HIDE DEF M
      <4> QED BY <1>2, <1>12 DEF LexRead, M
    <3> QED BY <3>1
  <2>1. i \in Nat BY <1>1
  <2>2. CASE i < r2
    <3>1. InToken(i)' <=> InToken(i) BY <1>1, <1>22, <2>1, <2>2
    <3>2. /\ i \in r4 <=> M[i] = "comment"
          /\ InToken(i) \/ i \in r4 \/ r1[i] \in Lexer!Blanks
          /\ InToken(i) => i \notin r4
      BY <1>13, <2>2 DEF LexInv, LexRead, M
    <3> QED BY <3>1, <3>2
  <2>3. CASE ~ (i < r2)
    <3>1. c # Nul /\ r2 <= i /\ i < t.next BY <1>1, <1>13, <2>1, <2>3
    <3>2. M[i] # "comment" BY <1>7, <3>1
    <3>3. i \notin r4 BY <1>1, <1>13, <2>3 DEF LexInv, LexRemarks
    <3>4. InToken(i)' BY <1>22, <2>1, <3>1
    <3> QED BY <3>2, <3>3, <3>4
  <2> QED BY <2>2, <2>3
<1>25. LexPlace'
  <2> SUFFICES ASSUME c # Nul, t.next <= N + 1 PROVE t.next \in Places
    BY <1>2, <1>11, <1>12, <1>13 DEF LexPlace
  <2> QED BY <1>7 DEF Places
<1> QED BY <1>19, <1>20, <1>21, <1>24, <1>25 DEF LexInv

\* Every step keeps the invariant.
LEMMA LexMove ==
  ASSUME Lexer!LexerAssumption, LexInv, [Lexer!Next]_(Lexer!vars)
  PROVE  LexInv'
<1>1. CASE Lexer!Next BY <1>1, BlankSkipped, CommentSkipped, TokenTaken DEF Lexer!Next
<1>2. CASE UNCHANGED Lexer!vars
  <2>1. r1' = r1 /\ r2' = r2 /\ r3' = r3 /\ r4' = r4 BY <1>2 DEF Lexer!vars
  <2>2. Lexer!Mode' = Lexer!Mode /\ Places' = Places /\ CommentEnds' = CommentEnds /\ WholeTokens' = WholeTokens
    BY <2>1, SameText
  <2>3. (AtEnd' <=> AtEnd) /\ Done' = Done BY <2>1 DEF AtEnd, Done
  <2>4. LexState' BY <2>1, <2>3 DEF LexInv, LexState
  <2>5. LexTokens' BY <2>1, <2>2, <2>3 DEF LexInv, LexTokens
  <2>6. LexRemarks' BY <2>1, <2>3 DEF LexInv, LexRemarks
  <2>7. LexRead'
    <3> DEFINE M == Lexer!Mode
    <3>1. M' = M BY <2>2
    <3> HIDE DEF M
    <3> QED BY <2>1, <2>3, <3>1 DEF LexInv, LexRead, InToken, M
  <2>8. LexPlace' BY <2>1, <2>2, <2>3 DEF LexInv, LexPlace
  <2> QED BY <2>4, <2>5, <2>6, <2>7, <2>8 DEF LexInv
<1> QED BY <1>1, <1>2

\* The invariant says what the properties say.
LEMMA LexAnswers ==
  ASSUME LexInv
  PROVE  Lexer!NothingElseIsSkipped /\ Lexer!TokensAreWhole
<1>1. r3 \in Seq(TokenSet) /\ Len(r3) \in Nat /\ Len(r1) \in Nat /\ r2 \in Nat /\ Done \in 1..r2 BY DEF LexInv, LexState
<1>2. \A t : t \in Lexer!Read <=> \E k \in 1..Len(r3) : t = r3[k] /\ r3[k].type # "eof"
  BY <1>1 DEF Lexer!Read, Lexer!Range
<1>3. Lexer!TokensAreWhole
  <2> SUFFICES ASSUME NEW t \in Lexer!Read PROVE Whole(t) BY DEF Lexer!TokensAreWhole, Whole
  <2>1. t \in WholeTokens BY <1>2 DEF LexInv, LexTokens
  <2> QED BY <2>1 DEF WholeTokens
<1>4. Lexer!NothingElseIsSkipped
  <2> DEFINE from == r3[Len(r3)].from
             T == {Len(r1), from - 1}
             least == Lexer!Min(T)
  <2> SUFFICES ASSUME Lexer!Ended, NEW i \in 1..least
               PROVE  /\ (i \in r4) = (Lexer!Mode[i] = "comment")
                      /\ ~ Lexer!Covered(i) => i \in r4 \/ r1[i] \in Lexer!Blanks
                      /\ \A t \in Lexer!Read : i \in t.from..(t.next - 1) => i \notin r4
    BY DEF Lexer!NothingElseIsSkipped
  <2>1. from = Done BY <1>1, EndFacts DEF Done
  <2>2. T \subseteq Nat /\ T # {} BY <1>1, <2>1
  <2>3. least \in T /\ \A n \in T : least <= n
    <3> HIDE DEF T
    <3> QED BY Zenon, <2>2, LeastElement DEF Lexer!Min
  <2> HIDE DEF least, from
  <2>4. least \in Nat /\ least <= Len(r1) /\ least <= from - 1 BY <2>2, <2>3
  <2>5. i \in 1..Len(r1) /\ i < Done BY <1>1, <2>1, <2>4
  <2>6. /\ i \in r4 <=> Lexer!Mode[i] = "comment"
        /\ InToken(i) \/ i \in r4 \/ r1[i] \in Lexer!Blanks
        /\ InToken(i) => i \notin r4
    BY <2>5 DEF LexInv, LexRead
  <2>7. Lexer!Covered(i) <=> InToken(i) BY <1>2 DEF Lexer!Covered, InToken
  <2>8. \A t \in Lexer!Read : i \in t.from..(t.next - 1) => InToken(i) BY <1>2 DEF InToken
  <2> QED BY <2>6, <2>7, <2>8
<1> QED BY <1>3, <1>4

\* Each character of a query is in one token, in a comment line or blank, a comment is what a
\* reading from left to right takes for one, and no token is cut in two (Lexer.NextToken).
THEOREM EveryCharacterIsRead == Spec => []TokensAreWhole
<1> DEFINE Inv == asked = "text" => LexInv
<1> USE Inputs DEF Inputs
<1>1. Init => Inv BY LexBegins DEF Init
<1>2. Inv /\ [Next]_vars => Inv'
  <2> SUFFICES ASSUME asked' = "text", Inv, [Next]_vars PROVE LexInv'
    OBVIOUS
  <2>1. asked = "text" BY SameQuestion
  <2>2. [Lexer!Next]_(Lexer!vars)
    <3> HIDE DEF Inv, Inputs
    <3> QED BY <2>1 DEF Next, vars, Lexer!vars
  <2> QED BY <2>1, <2>2, LexMove
<1>3. Inv => TokensAreWhole BY LexAnswers DEF TokensAreWhole
<1> QED BY <1>1, <1>2, <1>3, PTL DEF Spec

-----------------------------------------------------------------------------
(* Cypher: the rows that were met so far are those of the pattern, once    *)
(* each.                                                                   *)

LEMMA EvalNames == \A S : (Eval!IsFiniteSet(S) <=> IsFiniteSet(S)) /\ Eval!Cardinality(S) = Cardinality(S)
BY DEF Eval!IsFiniteSet, IsFiniteSet, Eval!Cardinality, Cardinality

\* The rows are finitely many.
LEMMA RowsAreFinite ==
  ASSUME graph \in EvalGraphs, r1 \in EvalQueries, Eval!ReadAssumption, Eval!EvalAssumption
  PROVE  IsFiniteSet(Eval!Meant)
<1> DEFINE E == graph.edges \cup {None}
           N == graph.live \cup {None}
           T == (N \X E) \X N
           f == [r \in Eval!Meant |-> <<<<r.n1, r.edge>>, r.n2>>]
<1>1. IsFiniteSet(E)
  <2>1. IsFiniteSet(graph.edges) BY EvalNames DEF Eval!EvalAssumption
  <2> QED BY Zenon, <2>1, FS_Union, FS_Singleton
<1>2. IsFiniteSet(N)
  <2>1. IsFiniteSet(EvalIDs) /\ graph.live \subseteq EvalIDs BY EvalNames DEF Eval!ReadAssumption
  <2>2. IsFiniteSet(graph.live) BY <2>1, FS_Subset
  <2> QED BY Zenon, <2>2, FS_Union, FS_Singleton
<1>3. IsFiniteSet(T)
  <2> HIDE DEF E, N
  <2>1. IsFiniteSet(N \X E) BY <1>1, <1>2, FS_Product
  <2> QED BY <1>2, <2>1, FS_Product
<1>4. \A r \in Eval!Meant : r = [n1 |-> r.n1, edge |-> r.edge, n2 |-> r.n2] /\ r.n1 \in N /\ r.edge \in E /\ r.n2 \in N
  BY DEF Eval!Meant
<1>5. f \in [Eval!Meant -> T] BY <1>4
<1>6. \A r, s \in Eval!Meant : f[r] = f[s] => r = s
  <2> SUFFICES ASSUME NEW r \in Eval!Meant, NEW s \in Eval!Meant, f[r] = f[s] PROVE r = s OBVIOUS
  <2>1. r.n1 = s.n1 /\ r.edge = s.edge /\ r.n2 = s.n2 OBVIOUS
  <2>2. r = [n1 |-> r.n1, edge |-> r.edge, n2 |-> r.n2] /\ s = [n1 |-> s.n1, edge |-> s.edge, n2 |-> s.n2] BY <1>4
  <2> HIDE DEF f
  <2> QED BY <2>1, <2>2
<1>7. f \in Injection(Eval!Meant, T)
  <2> HIDE DEF f, T
  <2> QED BY <1>5, <1>6, Fun_IsInj
<1> HIDE DEF f, T
<1> QED BY <1>3, <1>7, FS_Injection

\* A row of the pattern has the properties a validated query names.
LEMMA RowsProject ==
  ASSUME Eval!ReadAssumption, Eval!EvalAssumption, r1 \in EvalQueries, Eval!Valid(r1),
         NEW r, r.n1 \in EvalIDs, r1.edge # None => r.n2 \in EvalIDs
  PROVE  Eval!Projects(r1, r)
<1> SUFFICES ASSUME NEW i \in DOMAIN r1.items, r1.items[i].property # None
             PROVE  Eval!HasProperty(r1, r, r1.items[i])
  BY DEF Eval!Projects
<1> DEFINE x == r1.items[i]
           a == x.alias
           A1 == Eval!Named(r1.n1, "node")
           A2 == Eval!Named(r1.edge, "edge")
           A3 == Eval!Named(r1.n2, "node")
<1>1. Eval!Known(r1, a) /\ Eval!ValidProperty(Eval!KindOf(r1, a), x.property)
  BY DEF Eval!Valid, Eval!ValidItem
<1>2. Eval!Parts(r1) = <<A1, A2, A3>> BY DEF Eval!Parts
<1>3. Eval!Aliases(r1) = A1 \cup A2 \cup A3
  <2>1. Eval!Aliases(r1) = UNION {Eval!Parts(r1)[j] : j \in 1..3} BY DEF Eval!Aliases
  <2>2. \A j \in 1..3 : j = 1 \/ j = 2 \/ j = 3 OBVIOUS
  <2>3. <<A1, A2, A3>>[1] = A1 /\ <<A1, A2, A3>>[2] = A2 /\ <<A1, A2, A3>>[3] = A3 OBVIOUS
  <2> HIDE DEF A1, A2, A3
  <2>4. \A z : z \in Eval!Aliases(r1) <=> \E j \in 1..3 : z \in <<A1, A2, A3>>[j] BY <1>2, <2>1
  <2>5. \A z : z \in Eval!Aliases(r1) <=> z \in A1 \cup A2 \cup A3 BY <2>2, <2>3, <2>4
  <2> QED BY <2>5
<1>4. PICK k \in Eval!Aliases(r1) : k[1] = a BY <1>1 DEF Eval!Known
<1>5. /\ {b[1] : b \in A1} \cap {b[1] : b \in A2} = {} /\ {b[1] : b \in A1} \cap {b[1] : b \in A3} = {}
      /\ {b[1] : b \in A2} \cap {b[1] : b \in A3} = {}
  <2>1. \A m, n \in 1..3 : m < n => {b[1] : b \in <<A1, A2, A3>>[m]} \cap {b[1] : b \in <<A1, A2, A3>>[n]} = {}
    BY Zenon, <1>2 DEF Eval!Valid, Eval!ValidPattern
  <2> HIDE DEF A1, A2, A3
  <2>2. {b[1] : b \in A1} \cap {b[1] : b \in A2} = {} BY <2>1
  <2>3. {b[1] : b \in A1} \cap {b[1] : b \in A3} = {} BY <2>1
  <2>4. {b[1] : b \in A2} \cap {b[1] : b \in A3} = {} BY <2>1
  <2> QED BY Zenon, <2>2, <2>3, <2>4
<1>6. /\ A1 = IF r1.n1 = None \/ r1.n1.alias = None THEN {} ELSE {<<r1.n1.alias, "node">>}
      /\ A2 = IF r1.edge = None \/ r1.edge.alias = None THEN {} ELSE {<<r1.edge.alias, "edge">>}
      /\ A3 = IF r1.n2 = None \/ r1.n2.alias = None THEN {} ELSE {<<r1.n2.alias, "node">>}
  BY DEF Eval!Named
<1>7. Eval!KindOf(r1, a) \in {b[2] : b \in {c \in Eval!Aliases(r1) : c[1] = a}}
  BY Zenon, <1>4 DEF Eval!KindOf
<1>8. r1.edge = None <=> r1.n2 = None BY DEF Eval!EvalAssumption
<1>9. \A n \in EvalIDs : DOMAIN EvalValue[n] = Eval!NodeProperties BY DEF Eval!EvalAssumption
<1>10. PICK b \in A1 \cup A2 \cup A3 : b[1] = a /\ b[2] = Eval!KindOf(r1, a)
  <2> HIDE DEF A1, A2, A3
  <2> QED BY <1>3, <1>7
<1>11. /\ a # None
       /\ b \in A1 => r1.n1.alias = a /\ b[2] = "node"
       /\ b \in A2 => r1.edge # None /\ r1.edge.alias = a /\ b[2] = "edge"
       /\ b \in A3 => r1.n2 # None /\ r1.n2.alias = a /\ b[2] = "node"
  BY <1>6, <1>10
<1>12. /\ r1.n1.alias = a => b \notin A2 \/ r1.n1 = None
       /\ r1.edge # None /\ r1.edge.alias = a => b \notin A1 /\ b \notin A3
  <2>1. a = <<a, "node">>[1] /\ a = <<a, "edge">>[1] OBVIOUS
  <2>2. r1.n1.alias = a /\ r1.n1 # None => <<a, "node">> \in A1 BY <1>6, <1>11
  <2>3. r1.edge # None /\ r1.edge.alias = a => <<a, "edge">> \in A2 BY <1>6, <1>11
  <2> HIDE DEF A1, A2, A3
  <2>4. r1.n1.alias = a /\ r1.n1 # None => a \in {c[1] : c \in A1} BY <2>1, <2>2, Zenon
  <2>5. r1.edge # None /\ r1.edge.alias = a => a \in {c[1] : c \in A2} BY <2>1, <2>3, Zenon
  <2>6. \A s : b \in s => a \in {c[1] : c \in s} BY <1>10, Zenon
  <2> QED BY <1>5, <2>4, <2>5, <2>6, Zenon
<1>13. r1.n1 # None BY DEF Eval!EvalAssumption
<1>14. CASE r1.n1.alias = a
  <2>1. Eval!Value(r1, r, a) = EvalValue[r.n1] BY <1>14 DEF Eval!Value
  <2>2. Eval!KindOf(r1, a) = "node" BY <1>14, <1>10, <1>11, <1>12, <1>13
  <2> QED BY <1>1, <1>9, <2>1, <2>2 DEF Eval!HasProperty, Eval!ValidProperty
<1>15. CASE r1.n1.alias # a /\ r1.edge # None /\ r1.edge.alias = a
  <2>1. Eval!Value(r1, r, a) = Eval!EdgeValue(r.edge) BY <1>15 DEF Eval!Value
  <2>2. Eval!KindOf(r1, a) = "edge" BY <1>15, <1>10, <1>11, <1>12
  <2>3. DOMAIN Eval!EdgeValue(r.edge) = Eval!EdgeProperties BY DEF Eval!EdgeValue, Eval!EdgeProperties
  <2> QED BY <1>1, <2>1, <2>2, <2>3 DEF Eval!HasProperty, Eval!ValidProperty
<1>16. CASE r1.n1.alias # a /\ ~ (r1.edge # None /\ r1.edge.alias = a)
  <2>1. Eval!Value(r1, r, a) = EvalValue[r.n2] BY <1>16 DEF Eval!Value
  <2>2. Eval!KindOf(r1, a) = "node" /\ r1.n2 # None BY <1>16, <1>10, <1>11
  <2> QED BY <1>1, <1>8, <1>9, <2>1, <2>2 DEF Eval!HasProperty, Eval!ValidProperty
<1> QED BY <1>14, <1>15, <1>16

\* Row r was met by the loops, which are at p of a pattern with direction d, with the nodes T
\* still to come, and of the others of node n those in X.
RowMet(d, p, T, n, X, r) ==
  /\ r.n1 \notin T
  /\ r.n1 = n /\ p = "outbound" => r.edge.from = n /\ r.n2 \notin X
  /\ r.n1 = n /\ p = "inbound" => \/ d = "any" /\ r.edge.from = n
                                  \/ r.edge.to = n /\ r.n2 \notin X

Way == r1.edge.direction

EvalState ==
  /\ graph \in EvalGraphs /\ r1 \in EvalQueries
  /\ pc \in {"start", "outer", "outbound", "inbound", "done", "failed"}
  /\ r2 \subseteq graph.live /\ r4 \subseteq EvalIDs
  /\ pc \in {"outbound", "inbound"} => /\ r1.edge # None /\ r3 \notin r2 /\ Eval!MatchesType(r3, r1.n1)
                                       /\ r1.edge.direction \in {"any", IF pc = "outbound" THEN "out" ELSE "in"}

\* M are the rows of the pattern.
EvalWork(M) ==
  /\ r5 \subseteq M /\ IsFiniteSet(r5) /\ r6 = Cardinality(r5)
  /\ pc = "start" => r5 = {} /\ r2 = {}
  /\ pc = "failed" => ~ Eval!Valid(r1) /\ r5 = {} /\ r2 = {}
  /\ pc \in {"outer", "outbound", "inbound"} =>
       /\ Eval!Valid(r1) /\ (r1.limit > 0 => r6 < r1.limit)
       /\ \A r \in M : r \in r5 <=> RowMet(Way, pc, r2, r3, r4, r)
  /\ pc = "done" => (r1.limit > 0 => r6 <= r1.limit) /\ (r5 = M \/ (r1.limit > 0 /\ r6 = r1.limit))

EvalInv == EvalState /\ EvalWork(Eval!Meant)

LEMMA EvalInit == asked = "rows" /\ Init /\ Eval!ReadAssumption /\ Eval!EvalAssumption => EvalInv
<1> SUFFICES ASSUME Eval!Init, Eval!ReadAssumption, Eval!EvalAssumption PROVE EvalInv BY DEF Init
<1>1. graph \in EvalGraphs /\ r1 \in EvalQueries /\ pc = "start" /\ r2 = {} /\ r4 = {} /\ r5 = {} /\ r6 = 0
  BY DEF Eval!Init
<1>2. EvalState BY <1>1 DEF EvalState
<1>3. EvalWork(Eval!Meant) BY <1>1, FS_EmptySet DEF EvalWork
<1> QED BY <1>2, <1>3 DEF EvalInv

LEMMA SameMeant == graph' = graph /\ r1' = r1 => Eval!Meant' = Eval!Meant
BY DEF Eval!Meant, Eval!MatchesWhere, Eval!Holds, Eval!HasProperty, Eval!Value, Eval!EdgeValue, Eval!Directed

\* appendProjectedCypherRow: all new rows, or as many as the limit leaves.
LEMMA EvalAppend ==
  ASSUME IsFiniteSet(r5), r6 = Cardinality(r5), r1.limit \in Nat, r1.limit > 0 => r6 < r1.limit,
         NEW rows, IsFiniteSet(rows), rows \cap r5 = {}, \A r \in rows : Eval!Projects(r1, r),
         Eval!AppendRows(rows)
  PROVE  /\ IsFiniteSet(r5') /\ r6' = Cardinality(r5') /\ r5' \subseteq r5 \cup rows
         /\ \/ pc' = pc /\ r5' = r5 \cup rows /\ (r1.limit > 0 => r6' < r1.limit)
            \/ pc' = "done" /\ r1.limit > 0 /\ r6' = r1.limit
<1> DEFINE Wrong == \E r \in rows : ~ Eval!Projects(r1, r)
<1>1. PICK kept \in SUBSET rows :
        LET total == r6 + Eval!Cardinality(kept)
            full  == r1.limit > 0 /\ total >= r1.limit
        IN  /\ IF full THEN total = r1.limit ELSE kept = rows
            /\ r5' = IF Wrong THEN {} ELSE r5 \cup kept
            /\ r6' = IF Wrong THEN 0 ELSE total
            /\ pc' = IF Wrong THEN "failed" ELSE IF full THEN "done" ELSE pc
  BY DEF Eval!AppendRows
<1>2. ~ Wrong OBVIOUS
<1>3. Eval!Cardinality(kept) = Cardinality(kept) BY EvalNames
<1>4. IsFiniteSet(kept) /\ kept \cap r5 = {} BY FS_Subset
<1>5. IsFiniteSet(r5 \cup kept) /\ Cardinality(r5 \cup kept) = r6 + Cardinality(kept)
  <2>1. Cardinality(r5 \cap kept) = 0 BY <1>4, FS_EmptySet
  <2>2. Cardinality(r5) \in Nat /\ Cardinality(kept) \in Nat BY <1>4, FS_CardinalityType
  <2> QED BY <1>4, <2>1, <2>2, FS_Union
<1>6. r6 \in Nat /\ Cardinality(kept) \in Nat BY <1>4, FS_CardinalityType
<1> HIDE DEF Wrong
<1> QED BY <1>1, <1>2, <1>3, <1>5, <1>6

\* A turn of a loop: the rows it appends are those it meets.
LEMMA EvalTurn ==
  ASSUME Eval!ReadAssumption, Eval!EvalAssumption, EvalInv, pc \in {"outer", "outbound", "inbound"},
         NEW rows \in SUBSET Eval!Meant, Eval!AppendRows(rows),
         graph' = graph, r1' = r1, r3' = r3, r2' \subseteq r2, r4' \subseteq r4,
         \A r \in Eval!Meant :
           /\ RowMet(Way, pc, r2', r3, r4', r) <=> RowMet(Way, pc, r2, r3, r4, r) \/ r \in rows
           /\ r \in rows => ~ RowMet(Way, pc, r2, r3, r4, r)
  PROVE  EvalInv'
<1> DEFINE M == Eval!Meant
<1>1. EvalWork(M) /\ EvalState BY DEF EvalInv
<1>2. IsFiniteSet(M) BY <1>1, RowsAreFinite DEF EvalState
<1>3. M' = M BY SameMeant
<1>4. Eval!Valid(r1) /\ r1 \in EvalQueries /\ r1.limit \in Nat BY <1>1 DEF EvalWork, EvalState, Eval!EvalAssumption
<1>5. \A r \in M : r.n1 \in EvalIDs /\ (r1.edge # None => r.n2 \in EvalIDs)
  <2>1. graph.live \subseteq EvalIDs BY <1>1 DEF EvalState, Eval!ReadAssumption
  <2> QED BY <2>1 DEF Eval!Meant
<1> HIDE DEF M
<1>6. IsFiniteSet(rows) /\ rows \subseteq M BY <1>2, FS_Subset DEF M
<1>7. \A r \in rows : Eval!Projects(r1, r) BY <1>4, <1>5, <1>6, RowsProject
<1>8. rows \cap r5 = {} BY <1>1, <1>6 DEF EvalWork, M
<1>9. /\ IsFiniteSet(r5') /\ r6' = Cardinality(r5') /\ r5' \subseteq r5 \cup rows
      /\ \/ pc' = pc /\ r5' = r5 \cup rows /\ (r1.limit > 0 => r6' < r1.limit)
         \/ pc' = "done" /\ r1.limit > 0 /\ r6' = r1.limit
  <2>1. IsFiniteSet(r5) /\ r6 = Cardinality(r5) /\ (r1.limit > 0 => r6 < r1.limit) BY <1>1 DEF EvalWork
  <2> QED BY <1>4, <1>6, <1>7, <1>8, <2>1, EvalAppend
<1>10. EvalState'
  <2>1. Eval!MatchesType(r3, r1.n1)' <=> Eval!MatchesType(r3, r1.n1) BY DEF Eval!MatchesType
  <2> QED BY <1>1, <1>9, <2>1 DEF EvalState
<1>11. r5' \subseteq M BY <1>1, <1>6, <1>9 DEF EvalWork
<1>12. pc' # "done" => \A r \in M : r \in r5' <=> RowMet(Way, pc', r2', r3', r4', r)
  <2>1. pc' # "done" => pc' = pc /\ r5' = r5 \cup rows BY <1>9
  <2>2. \A r \in M : r \in r5 <=> RowMet(Way, pc, r2, r3, r4, r) BY <1>1 DEF EvalWork
  <2> QED BY <2>1, <2>2 DEF M
<1>13. Way' = Way BY DEF Way
<1>14. EvalWork(M)'
  <2>1. Eval!Valid(r1)' <=> Eval!Valid(r1)
    BY DEF Eval!Valid, Eval!ValidPattern, Eval!ValidCondition, Eval!ValidItem, Eval!Known, Eval!KindOf,
           Eval!Aliases, Eval!Parts, Eval!Named, Eval!ValidProperty
  <2>2. pc' \in {"outer", "outbound", "inbound", "done"} BY <1>9
  <2>3. pc' = "done" => r1'.limit > 0 /\ r6' = r1'.limit /\ r6' <= r1'.limit BY <1>4, <1>9
  <2>4. pc' # "done" => (r1'.limit > 0 => r6' < r1'.limit) BY <1>9
  <2> QED BY <1>3, <1>4, <1>9, <1>11, <1>12, <1>13, <2>1, <2>2, <2>3, <2>4 DEF EvalWork
<1> QED BY <1>3, <1>10, <1>14 DEF EvalInv, M

\* A step that appends no row: what was met stays what was met.
LEMMA EvalMove ==
  ASSUME Eval!EvalAssumption, EvalInv, pc \in {"outer", "outbound", "inbound"},
         graph' = graph, r1' = r1, r5' = r5, r6' = r6, EvalState',
         \/ pc' \in {"outer", "outbound", "inbound"} /\ \A r \in Eval!Meant :
              RowMet(Way, pc', r2', r3', r4', r) <=> RowMet(Way, pc, r2, r3, r4, r)
         \/ pc' = "done" /\ \A r \in Eval!Meant : RowMet(Way, pc, r2, r3, r4, r)
  PROVE  EvalInv'
<1> DEFINE M == Eval!Meant
<1>1. EvalWork(M) BY DEF EvalInv
<1>2. M' = M BY SameMeant
<1>3. Eval!Valid(r1)' <=> Eval!Valid(r1)
  BY DEF Eval!Valid, Eval!ValidPattern, Eval!ValidCondition, Eval!ValidItem, Eval!Known, Eval!KindOf,
         Eval!Aliases, Eval!Parts, Eval!Named, Eval!ValidProperty
<1>4. Way' = Way BY DEF Way
<1> HIDE DEF M
<1>5. \/ pc' \in {"outer", "outbound", "inbound"} /\ \A r \in M :
           RowMet(Way, pc', r2', r3', r4', r) <=> RowMet(Way, pc, r2, r3, r4, r)
      \/ pc' = "done" /\ \A r \in M : RowMet(Way, pc, r2, r3, r4, r)
  BY DEF M
<1>6. /\ r5 \subseteq M /\ IsFiniteSet(r5) /\ r6 = Cardinality(r5)
      /\ Eval!Valid(r1) /\ (r1.limit > 0 => r6 < r1.limit)
      /\ \A r \in M : r \in r5 <=> RowMet(Way, pc, r2, r3, r4, r)
  BY <1>1 DEF EvalWork
<1>7. pc' = "done" => r5 = M BY Zenon, <1>5, <1>6
<1>10. pc' = "done" => (r1.limit > 0 => r6 <= r1.limit)
  <2>1. r1.limit \in Nat /\ r6 \in Nat BY <1>6, FS_CardinalityType DEF EvalInv, EvalState, Eval!EvalAssumption
  <2> QED BY <1>6, <2>1
<1>8. pc' # "done" => \A r \in M : r \in r5 <=> RowMet(Way, pc', r2', r3', r4', r) BY <1>5, <1>6
<1>9. EvalWork(M)' BY <1>2, <1>3, <1>4, <1>5, <1>6, <1>7, <1>8, <1>10 DEF EvalWork
<1> QED BY <1>2, <1>9 DEF EvalInv, M

\* What the pattern says of a row.
LEMMA EvalRow ==
  ASSUME EvalInv, Eval!ReadAssumption, Eval!EvalAssumption
  PROVE  /\ r1.edge # None => Way \in {"out", "in", "any"} /\ \A r \in Eval!Meant :
              /\ r = [n1 |-> r.n1, edge |-> r.edge, n2 |-> r.n2]
              /\ r.n1 \in graph.live /\ r.n2 \in graph.live /\ r.edge \in graph.edges
              /\ Eval!MatchesType(r.n1, r1.n1) /\ Eval!MatchesType(r.n2, r1.n2)
              /\ \/ Way \in {"out", "any"} /\ r.edge.from = r.n1 /\ r.edge.to = r.n2
                 \/ Way \in {"in", "any"} /\ r.edge.from = r.n2 /\ r.edge.to = r.n1
              /\ r.n2 \in Eval!Sources \/ r.edge.from # r.n2
              /\ r.n2 \in Eval!Targets(r.n1) \/ r.edge.from # r.n1 \/ r.edge.to # r.n2
         /\ r1.edge = None => \A r \in Eval!Meant :
              /\ r = [n1 |-> r.n1, edge |-> None, n2 |-> None]
              /\ r.n1 \in graph.live /\ Eval!MatchesType(r.n1, r1.n1) /\ Eval!MatchesWhere(r1, r)
<1>1. graph \in EvalGraphs /\ r1 \in EvalQueries BY DEF EvalInv, EvalState
<1>2. r1.edge # None => Way \in {"out", "in", "any"} BY <1>1 DEF Eval!EvalAssumption, Way
<1>3. ASSUME r1.edge = None, NEW r \in Eval!Meant
      PROVE  /\ r = [n1 |-> r.n1, edge |-> None, n2 |-> None]
             /\ r.n1 \in graph.live /\ Eval!MatchesType(r.n1, r1.n1) /\ Eval!MatchesWhere(r1, r)
  BY <1>3 DEF Eval!Meant, Eval!MatchesType
<1>4. ASSUME r1.edge # None, NEW r \in Eval!Meant
      PROVE  /\ r = [n1 |-> r.n1, edge |-> r.edge, n2 |-> r.n2]
             /\ r.n1 \in graph.live /\ r.n2 \in graph.live /\ r.edge \in graph.edges
             /\ Eval!MatchesType(r.n1, r1.n1) /\ Eval!MatchesType(r.n2, r1.n2)
             /\ Eval!Directed(r)
  BY <1>4 DEF Eval!Meant, Eval!MatchesType
<1>5. ASSUME r1.edge # None, NEW r \in Eval!Meant
      PROVE  /\ r.n2 \in Eval!Sources \/ r.edge.from # r.n2
             /\ r.n2 \in Eval!Targets(r.n1) \/ r.edge.from # r.n1 \/ r.edge.to # r.n2
  <2>1. r.edge \in graph.edges BY <1>4, <1>5
  <2> QED BY <2>1 DEF Eval!Sources, Eval!Targets
<1> QED BY <1>2, <1>3, <1>4, <1>5 DEF Eval!Directed, Way

LEMMA EvalNodeOnly ==
  ASSUME Eval!ReadAssumption, Eval!EvalAssumption, EvalInv, NEW n \in EvalIDs, Eval!NodeOnly(n)
  PROVE  EvalInv'
<1> DEFINE row == [n1 |-> n, edge |-> None, n2 |-> None]
           rows == IF Eval!MatchesType(n, r1.n1) /\ Eval!MatchesWhere(r1, row) THEN {row} ELSE {}
<1>1. /\ pc = "outer" /\ n \in r2 /\ r1.edge = None /\ r2' = r2 \ {n} /\ Eval!AppendRows(rows)
      /\ graph' = graph /\ r1' = r1 /\ r3' = r3 /\ r4' = r4
  BY DEF Eval!NodeOnly
<1>2. rows \subseteq Eval!Meant
  BY <1>1 DEF Eval!Meant, Eval!MatchesType
<1>3. \A r \in Eval!Meant : r \in rows <=> r.n1 = n BY <1>1, EvalRow
<1>4. \A r \in Eval!Meant :
        /\ RowMet(Way, pc, r2', r3, r4', r) <=> RowMet(Way, pc, r2, r3, r4, r) \/ r \in rows
        /\ r \in rows => ~ RowMet(Way, pc, r2, r3, r4, r)
  BY <1>1, <1>3 DEF RowMet
<1> HIDE DEF rows
<1> QED BY <1>1, <1>2, <1>4, EvalTurn

LEMMA EvalEnter ==
  ASSUME Eval!ReadAssumption, Eval!EvalAssumption, EvalInv, NEW n \in EvalIDs, Eval!Enter(n)
  PROVE  EvalInv'
<1>1. /\ pc = "outer" /\ n \in r2 /\ r1.edge # None /\ r2' = r2 \ {n} /\ r3' = n
      /\ graph' = graph /\ r1' = r1 /\ r5' = r5 /\ r6' = r6
      /\ IF ~ Eval!MatchesType(n, r1.n1) THEN pc' = pc /\ r4' = r4
         ELSE IF Way = "in" THEN pc' = "inbound" /\ r4' = Eval!Sources
         ELSE pc' = "outbound" /\ r4' = Eval!Targets(n)
  BY DEF Eval!Enter, Way
<1>2. EvalState BY DEF EvalInv
<1>3. Eval!MatchesType(n, r1.n1)' <=> Eval!MatchesType(n, r1.n1) BY <1>1 DEF Eval!MatchesType
<1>4. Eval!Sources \subseteq EvalIDs /\ Eval!Targets(n) \subseteq EvalIDs
  BY <1>2 DEF EvalState, Eval!ReadAssumption, Eval!Sources, Eval!Targets
<1>5. EvalState'
  <2>1. Way \in {"out", "in", "any"} /\ Way' = Way BY <1>1, EvalRow DEF Way
  <2>2. Eval!MatchesType(r3, r1.n1)' <=> Eval!MatchesType(n, r1.n1) BY <1>1 DEF Eval!MatchesType
  <2> QED BY <1>1, <1>2, <1>4, <2>1, <2>2 DEF EvalState, Way
<1>6. ASSUME NEW r \in Eval!Meant
      PROVE  RowMet(Way, pc', r2', r3', r4', r) <=> RowMet(Way, pc, r2, r3, r4, r)
  <2>1. CASE r.n1 # n BY <1>1, <2>1 DEF RowMet
  <2>2. CASE r.n1 = n
    <3>1. ~ RowMet(Way, pc, r2, r3, r4, r) BY <1>1, <2>2 DEF RowMet
    <3>2. Eval!MatchesType(n, r1.n1) BY <1>1, <2>2, EvalRow
    <3>3. CASE Way = "in"
      <4>1. pc' = "inbound" /\ r4' = Eval!Sources /\ r3' = n BY <1>1, <3>2, <3>3
      <4>2. r.edge.from = r.n2 /\ r.n2 \in Eval!Sources BY <1>1, <3>3, EvalRow
      <4> QED BY <2>2, <3>1, <3>3, <4>1, <4>2 DEF RowMet
    <3>4. CASE Way # "in"
      <4>1. pc' = "outbound" /\ r4' = Eval!Targets(n) /\ r3' = n BY <1>1, <3>2, <3>4
      <4>2. r.edge.from = n => r.n2 \in Eval!Targets(n) BY <1>1, <2>2, <3>4, EvalRow
      <4> QED BY <2>2, <3>1, <4>1, <4>2 DEF RowMet
    <3> QED BY <3>3, <3>4
  <2> QED BY <2>1, <2>2
<1>7. pc' \in {"outer", "outbound", "inbound"} BY <1>1
<1> QED BY <1>1, <1>5, <1>6, <1>7, EvalMove

LEMMA PairRowsFacts ==
  ASSUME NEW n, NEW m, NEW r, NEW E
  PROVE  r \in Eval!PairRows(n, m, E) <=>
           /\ r = [n1 |-> n, edge |-> r.edge, n2 |-> m] /\ r.edge \in E
           /\ r1.edge.type \in {None, r.edge.type} /\ Eval!MatchesWhere(r1, r)
BY DEF Eval!PairRows

LEMMA EvalOutbound ==
  ASSUME Eval!ReadAssumption, Eval!EvalAssumption, EvalInv, NEW m \in EvalIDs, Eval!Outbound(m)
  PROVE  EvalInv'
<1> DEFINE E == Eval!EdgesOf(r3, m)
           rows == IF Eval!MatchesType(m, r1.n2) THEN Eval!PairRows(r3, m, E) ELSE {}
<1>1. /\ pc = "outbound" /\ m \in r4 /\ r4' = r4 \ {m} /\ Eval!AppendRows(rows)
      /\ graph' = graph /\ r1' = r1 /\ r2' = r2 /\ r3' = r3
  BY DEF Eval!Outbound
<1>2. r1.edge # None /\ r3 \notin r2 /\ Eval!MatchesType(r3, r1.n1) /\ Way \in {"any", "out"}
  BY <1>1 DEF EvalInv, EvalState, Way
<1>3. ASSUME NEW r
      PROVE  r \in rows <=> r \in Eval!Meant /\ r.n1 = r3 /\ r.n2 = m /\ r.edge.from = r3
  <2>1. r \in rows => r \in Eval!Meant /\ r.n1 = r3 /\ r.n2 = m /\ r.edge.from = r3
    BY <1>2, PairRowsFacts DEF Eval!Meant, Eval!EdgesOf, Eval!Directed, Eval!MatchesType, Way
  <2>2. ASSUME r \in Eval!Meant, r.n1 = r3, r.n2 = m, r.edge.from = r3 PROVE r \in rows
    <3>1. /\ r = [n1 |-> r3, edge |-> r.edge, n2 |-> m] /\ r.edge \in graph.edges
          /\ r.edge.to = m /\ Eval!MatchesType(m, r1.n2)
      BY <1>2, <2>2, EvalRow
    <3>2. r1.edge.type \in {None, r.edge.type} /\ Eval!MatchesWhere(r1, r) BY <1>2, <2>2 DEF Eval!Meant
    <3> QED BY <2>2, <3>1, <3>2, PairRowsFacts DEF Eval!EdgesOf
  <2> QED BY <2>1, <2>2
<1> HIDE DEF rows
<1>4. \A r \in Eval!Meant :
        /\ RowMet(Way, pc, r2', r3, r4', r) <=> RowMet(Way, pc, r2, r3, r4, r) \/ r \in rows
        /\ r \in rows => ~ RowMet(Way, pc, r2, r3, r4, r)
  BY <1>1, <1>2, <1>3 DEF RowMet
<1> QED BY Zenon, <1>1, <1>3, <1>4, EvalTurn

LEMMA EvalInbound ==
  ASSUME Eval!ReadAssumption, Eval!EvalAssumption, EvalInv, NEW m \in EvalIDs, Eval!Inbound(m)
  PROVE  EvalInv'
<1> DEFINE E == Eval!EdgesOf(m, r3)
           rows == IF Eval!Skipped(m) THEN {} ELSE Eval!PairRows(r3, m, E)
<1>1. /\ pc = "inbound" /\ m \in r4 /\ r4' = r4 \ {m} /\ Eval!AppendRows(rows)
      /\ graph' = graph /\ r1' = r1 /\ r2' = r2 /\ r3' = r3
  BY DEF Eval!Inbound
<1>2. r1.edge # None /\ r3 \notin r2 /\ Eval!MatchesType(r3, r1.n1) /\ Way \in {"any", "in"}
  BY <1>1 DEF EvalInv, EvalState, Way
<1>3. ASSUME NEW r
      PROVE  r \in rows <=> /\ r \in Eval!Meant /\ r.n1 = r3 /\ r.n2 = m /\ r.edge.to = r3
                            /\ ~ (Way = "any" /\ r.edge.from = r3)
  <2>1. Eval!Skipped(m) <=> (Way = "any" /\ m = r3) \/ ~ Eval!MatchesType(m, r1.n2) BY DEF Eval!Skipped, Way
  <2>2. ASSUME r \in rows
        PROVE  /\ r \in Eval!Meant /\ r.n1 = r3 /\ r.n2 = m /\ r.edge.to = r3
               /\ ~ (Way = "any" /\ r.edge.from = r3)
    <3>1. /\ ~ (Way = "any" /\ m = r3) /\ Eval!MatchesType(m, r1.n2)
          /\ r = [n1 |-> r3, edge |-> r.edge, n2 |-> m] /\ r.edge \in E
          /\ r1.edge.type \in {None, r.edge.type} /\ Eval!MatchesWhere(r1, r)
      BY <2>1, <2>2, PairRowsFacts
    <3>2. r.n1 = r3 /\ r.n2 = m /\ r.edge.to = r3 /\ r.edge.from = m /\ r.edge \in graph.edges
      BY <3>1 DEF Eval!EdgesOf
    <3>3. r \in Eval!Meant BY <1>2, <3>1, <3>2 DEF Eval!Meant, Eval!Directed, Eval!MatchesType, Way
    <3> QED BY <3>1, <3>2, <3>3
  <2>3. ASSUME r \in Eval!Meant, r.n1 = r3, r.n2 = m, r.edge.to = r3, ~ (Way = "any" /\ r.edge.from = r3)
        PROVE  r \in rows
    <3>1. /\ r = [n1 |-> r3, edge |-> r.edge, n2 |-> m] /\ r.edge \in graph.edges
          /\ r.edge.from = m /\ Eval!MatchesType(m, r1.n2)
      BY <1>2, <2>3, EvalRow
    <3>2. r1.edge.type \in {None, r.edge.type} /\ Eval!MatchesWhere(r1, r) BY <1>2, <2>3 DEF Eval!Meant
    <3> QED BY <2>1, <2>3, <3>1, <3>2, PairRowsFacts DEF Eval!EdgesOf
  <2> QED BY <2>2, <2>3
<1> HIDE DEF rows
<1>4. \A r \in Eval!Meant :
        /\ RowMet(Way, pc, r2', r3, r4', r) <=> RowMet(Way, pc, r2, r3, r4, r) \/ r \in rows
        /\ r \in rows => ~ RowMet(Way, pc, r2, r3, r4, r)
  BY <1>1, <1>2, <1>3 DEF RowMet
<1> QED BY <1>1, <1>3, <1>4, EvalTurn

LEMMA EvalNextLoop ==
  ASSUME Eval!ReadAssumption, Eval!EvalAssumption, EvalInv, Eval!NextLoop
  PROVE  EvalInv'
<1>1. /\ r4 = {} /\ pc \in {"outbound", "inbound"}
      /\ IF pc = "outbound" /\ Way = "any" THEN pc' = "inbound" /\ r4' = Eval!Sources
         ELSE pc' = "outer" /\ r4' = r4
      /\ graph' = graph /\ r1' = r1 /\ r2' = r2 /\ r3' = r3 /\ r5' = r5 /\ r6' = r6
  BY DEF Eval!NextLoop, Way
<1>2. EvalState BY DEF EvalInv
<1>3. /\ r1.edge # None /\ r3 \notin r2 /\ Eval!MatchesType(r3, r1.n1)
      /\ Way \in {"any", IF pc = "outbound" THEN "out" ELSE "in"}
  BY <1>1, <1>2 DEF EvalState, Way
<1>4. EvalState'
  <2>1. Eval!MatchesType(r3, r1.n1)' <=> Eval!MatchesType(r3, r1.n1) BY <1>1 DEF Eval!MatchesType
  <2>2. Eval!Sources \subseteq EvalIDs BY <1>2 DEF EvalState, Eval!ReadAssumption, Eval!Sources
  <2> QED BY <1>1, <1>2, <1>3, <2>1, <2>2 DEF EvalState, Way
<1>5. ASSUME NEW r \in Eval!Meant
      PROVE  RowMet(Way, pc', r2', r3', r4', r) <=> RowMet(Way, pc, r2, r3, r4, r)
  <2>1. /\ \/ Way \in {"out", "any"} /\ r.edge.from = r.n1 /\ r.edge.to = r.n2
           \/ Way \in {"in", "any"} /\ r.edge.from = r.n2 /\ r.edge.to = r.n1
        /\ r.n2 \in Eval!Sources \/ r.edge.from # r.n2
    BY <1>3, EvalRow
  <2> QED BY <1>1, <1>3, <2>1 DEF RowMet
<1>6. pc' \in {"outer", "outbound", "inbound"} BY <1>1
<1> QED BY <1>1, <1>4, <1>5, <1>6, EvalMove

LEMMA EvalFinish ==
  ASSUME Eval!ReadAssumption, Eval!EvalAssumption, EvalInv, Eval!Finish
  PROVE  EvalInv'
<1>1. /\ pc = "outer" /\ r2 = {} /\ pc' = "done"
      /\ graph' = graph /\ r1' = r1 /\ r2' = r2 /\ r3' = r3 /\ r4' = r4 /\ r5' = r5 /\ r6' = r6
  BY DEF Eval!Finish
<1>2. EvalState' BY <1>1 DEF EvalInv, EvalState
<1>3. \A r \in Eval!Meant : RowMet(Way, pc, r2, r3, r4, r) BY <1>1 DEF RowMet
<1> QED BY <1>1, <1>2, <1>3, EvalMove

LEMMA EvalValidate ==
  ASSUME Eval!ReadAssumption, Eval!EvalAssumption, EvalInv, Eval!Validate
  PROVE  EvalInv'
<1>1. /\ pc = "start" /\ graph' = graph /\ r1' = r1 /\ r3' = r3 /\ r4' = r4 /\ r5' = r5 /\ r6' = r6
      /\ IF Eval!Valid(r1) THEN pc' = "outer" /\ r2' = graph.live ELSE pc' = "failed" /\ r2' = r2
  BY DEF Eval!Validate
<1>2. EvalState' BY <1>1 DEF EvalInv, EvalState
<1> DEFINE M == Eval!Meant
<1>3. M' = M BY <1>1, SameMeant
<1>4. \A r \in M : r.n1 \in graph.live BY EvalRow
<1>5. Eval!Valid(r1)' <=> Eval!Valid(r1)
  BY <1>1 DEF Eval!Valid, Eval!ValidPattern, Eval!ValidCondition, Eval!ValidItem, Eval!Known, Eval!KindOf,
         Eval!Aliases, Eval!Parts, Eval!Named, Eval!ValidProperty
<1>6. EvalWork(M) BY DEF EvalInv
<1> HIDE DEF M
<1>7. r5 \subseteq M /\ IsFiniteSet(r5) /\ r6 = Cardinality(r5) /\ r5 = {} /\ r2 = {} /\ r6 = 0
  BY <1>1, <1>6, FS_EmptySet DEF EvalWork
<1>8. \A r \in M : pc' = "outer" => ~ RowMet(Way', pc', r2', r3', r4', r) BY <1>1, <1>4 DEF RowMet
<1>9. r1'.limit \in Nat BY <1>2 DEF EvalState, Eval!EvalAssumption
<1>10. EvalWork(M)'
  <2>1. pc' = "outer" => Eval!Valid(r1)' /\ (r1'.limit > 0 => r6' < r1'.limit) BY <1>1, <1>5, <1>7, <1>9
  <2>2. pc' = "failed" => ~ Eval!Valid(r1)' /\ r2' = {} BY <1>1, <1>5, <1>7
  <2>3. pc' \in {"outer", "failed"} BY <1>1
  <2> QED BY <1>1, <1>3, <1>7, <1>8, <2>1, <2>2, <2>3 DEF EvalWork
<1> QED BY <1>2, <1>3, <1>10 DEF EvalInv, M

LEMMA EvalNext ==
  ASSUME Eval!ReadAssumption, Eval!EvalAssumption, EvalInv, [Eval!Next]_(Eval!vars)
  PROVE  EvalInv'
<1>1. CASE UNCHANGED Eval!vars
  <2>1. /\ graph' = graph /\ pc' = pc /\ r1' = r1 /\ r2' = r2 /\ r3' = r3 /\ r4' = r4 /\ r5' = r5 /\ r6' = r6
    BY <1>1 DEF Eval!vars
  <2>2. EvalState' BY <2>1 DEF EvalInv, EvalState, Eval!MatchesType
  <2>3. CASE pc \in {"outer", "outbound", "inbound"}
    <3> QED BY <2>1, <2>2, <2>3, EvalMove
  <2>4. CASE pc \notin {"outer", "outbound", "inbound"}
    <3> DEFINE M == Eval!Meant
    <3>1. M' = M /\ EvalWork(M) BY <2>1, SameMeant DEF EvalInv
    <3>2. Eval!Valid(r1)' <=> Eval!Valid(r1)
      BY <2>1 DEF Eval!Valid, Eval!ValidPattern, Eval!ValidCondition, Eval!ValidItem, Eval!Known, Eval!KindOf,
             Eval!Aliases, Eval!Parts, Eval!Named, Eval!ValidProperty
    <3> HIDE DEF M
    <3>3. EvalWork(M)' BY <2>1, <2>4, <3>1, <3>2 DEF EvalWork
    <3> QED BY <2>2, <3>1, <3>3 DEF EvalInv, M
  <2> QED BY <2>3, <2>4
<1>2. CASE Eval!Next
  BY <1>2, EvalNodeOnly, EvalEnter, EvalOutbound, EvalInbound, EvalNextLoop, EvalFinish, EvalValidate DEF Eval!Next
<1> QED BY <1>1, <1>2

LEMMA EvalAnswers ==
  ASSUME Eval!ReadAssumption, Eval!EvalAssumption, EvalInv
  PROVE  Eval!TypeOK /\ Eval!RowsAreMatches /\ Eval!NeverFailsHalfway
<1> DEFINE M == Eval!Meant
<1>1. EvalState /\ EvalWork(M) BY DEF EvalInv
<1>2. IsFiniteSet(M) BY <1>1, RowsAreFinite DEF EvalState
<1>3. r1.limit \in Nat BY <1>1 DEF EvalState, Eval!EvalAssumption
<1> HIDE DEF M
<1>4. /\ r5 \subseteq M /\ IsFiniteSet(r5) /\ r6 = Cardinality(r5) /\ r6 \in Nat /\ Cardinality(M) \in Nat
      /\ pc = "start" => r5 = {} /\ r6 = 0
      /\ pc = "failed" => ~ Eval!Valid(r1) /\ r5 = {} /\ r2 = {} /\ r6 = 0
      /\ pc \in {"outer", "outbound", "inbound"} => (r1.limit > 0 => r6 < r1.limit)
      /\ pc = "done" => (r1.limit > 0 => r6 <= r1.limit) /\ (r5 = M \/ (r1.limit > 0 /\ r6 = r1.limit))
  BY <1>1, <1>2, FS_EmptySet, FS_CardinalityType DEF EvalWork
<1>5. r6 <= Cardinality(M) /\ (r6 = Cardinality(M) => r5 = M) BY <1>2, <1>4, FS_Subset
<1>6. Eval!RowsAreMatches
  <2> SUFFICES ASSUME pc = "done"
               PROVE  /\ r5 \subseteq M /\ r6 = Cardinality(r5)
                      /\ IF r1.limit > 0 /\ Cardinality(M) > r1.limit THEN r6 = r1.limit ELSE r5 = M
    BY EvalNames DEF Eval!RowsAreMatches, M
  <2> QED BY <1>3, <1>4, <1>5
<1>7. Eval!TypeOK
  <2>1. r6 \in Nat /\ (r1.limit > 0 => r6 <= r1.limit) BY <1>1, <1>3, <1>4 DEF EvalState
  <2> QED BY <1>1, <2>1 DEF EvalState, Eval!TypeOK
<1>8. Eval!NeverFailsHalfway BY <1>4 DEF Eval!NeverFailsHalfway
<1> QED BY <1>6, <1>7, <1>8

\* ExecuteCypher: for every graph, every parsed query and every order of the maps, the rows
\* are the matches of the pattern once each, with a limit as many as it allows; and only a
\* query that does not pass validation fails.
THEOREM RowsMatchPattern == Spec => []RowsAreMatches
<1> DEFINE Inv == asked = "rows" => EvalInv
<1> USE Inputs DEF Inputs
<1>1. Init => Inv BY EvalInit
<1>2. Inv /\ [Next]_vars => Inv'
  <2> SUFFICES ASSUME asked' = "rows", Inv, [Next]_vars PROVE EvalInv'
    OBVIOUS
  <2>1. asked = "rows" BY SameQuestion
  <2>2. [Eval!Next]_(Eval!vars)
    <3> HIDE DEF Inv, Inputs
    <3> QED BY <2>1 DEF Next, vars, Rest5, Eval!vars
  <2> QED BY <2>1, <2>2, EvalNext
<1>3. Inv => RowsAreMatches BY EvalAnswers DEF RowsAreMatches
<1> QED BY <1>1, <1>2, <1>3, PTL DEF Spec
=============================================================================
