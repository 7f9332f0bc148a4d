---------------------------- MODULE KHeapProofs -----------------------------
(***************************************************************************)
(* The list of blocks, what the callers hold, the usage counter and the    *)
(* coalescing, for every size of the heap, of the headers and of requests, *)
(* and any number of callers, when no kfree is suspended half-way.         *)
(***************************************************************************)
EXTENDS KHeap, FiniteSetTheorems, WellFoundedInduction, TLAPS

-----------------------------------------------------------------------------
(***************************************************************************)
(* Induction, with the set of the numbers for which it is to be shown.     *)
(***************************************************************************)
LEMMA LeastExists ==
    ASSUME NEW S \in SUBSET Nat, S # {}
    PROVE  \E x \in S : \A y \in S : x <= y
<1> DEFINE R == OpToRel(<, Nat)
<1>1. \A x, y \in Nat : x < y => <<x, y>> \in R
  BY DEF OpToRel
<1>2. IsWellFoundedOn(R, Nat)
  BY NatLessThanWellFounded
<1> HIDE DEF R
<1>3. PICK x \in S : \A y \in S : ~ (<<y, x>> \in R)
  BY <1>2, WFMin, Zenon
<1>4. \A y \in S : ~(y < x)
  BY <1>1, <1>3, Zenon
<1>5. \A y \in S : x <= y
  BY <1>4
<1> QED BY <1>5, Zenon

\* A set of naturals with 0 and every successor is all of Nat.
LEMMA Induct ==
    ASSUME NEW P \in SUBSET Nat, 0 \in P, \A n \in P : n + 1 \in P
    PROVE  P = Nat
<1> DEFINE B == Nat \ P
<1> SUFFICES ASSUME B # {} PROVE FALSE
  OBVIOUS
<1>1. PICK m \in B : \A y \in B : m <= y
  BY LeastExists, Zenon
<1>2. m \in Nat /\ m # 0 /\ m - 1 \in Nat /\ ~(m <= m - 1) /\ (m - 1) + 1 = m
  BY <1>1
<1>3. m - 1 \in P
  BY <1>1, <1>2, Zenon
<1> QED BY <1>1, <1>2, <1>3, Zenon

\* The iterates of g from z.
Iterates(f, n, z, g, D) ==
    f \in [0 .. n -> D] /\ f[0] = z /\ \A k \in 1 .. n : f[k] = g[f[k - 1]]

\* There is a function on Nat that starts with z and goes on with g.
LEMMA IteratesExist ==
    ASSUME NEW D, NEW z \in D, NEW g \in [D -> D]
    PROVE  \E F \in [Nat -> D] : F[0] = z /\ \A n \in Nat \ {0} : F[n] = g[F[n - 1]]
<1> DEFINE P == {n \in Nat : \E f : Iterates(f, n, z, g, D)}
<1>1. 0 \in P
  <2>1. Iterates([k \in 0 .. 0 |-> z], 0, z, g, D)
    BY DEF Iterates
  <2> QED BY <2>1
<1>2. ASSUME NEW n \in P PROVE n + 1 \in P
  <2>1. PICK f : Iterates(f, n, z, g, D)
    OBVIOUS
  <2> DEFINE e == [k \in 0 .. n + 1 |-> IF k = n + 1 THEN g[f[n]] ELSE f[k]]
  <2>2. n \in Nat /\ \A k \in 0 .. n + 1 : k = n + 1 \/ k \in 0 .. n
    OBVIOUS
  <2>3. f \in [0 .. n -> D] /\ f[n] \in D /\ f[0] = z
    BY <2>1, <2>2 DEF Iterates
  <2>4. e \in [0 .. n + 1 -> D]
    BY <2>2, <2>3
  <2>5. e[0] = z
    BY <2>2, <2>3
  <2>6. ASSUME NEW k \in 1 .. n + 1 PROVE e[k] = g[e[k - 1]]
    <3>1. CASE k = n + 1
      BY <2>2, <3>1
    <3>2. CASE k # n + 1
      <4>1. k \in 1 .. n /\ k \in 0 .. n + 1 /\ k - 1 \in 0 .. n + 1 /\ k - 1 # n + 1
        BY <2>2, <3>2
      <4> QED BY <2>1, <3>2, <4>1 DEF Iterates
    <3> QED BY <3>1, <3>2
  <2>7. Iterates(e, n + 1, z, g, D)
    BY <2>4, <2>5, <2>6, Zenon DEF Iterates
  <2> QED BY <2>2, <2>7
<1>3. P = Nat
  <2> HIDE DEF P
  <2>1. P \subseteq Nat
    BY DEF P
  <2> QED BY <1>1, <1>2, <2>1, Induct, Zenon
<1> DEFINE It(n) == CHOOSE f : Iterates(f, n, z, g, D)
           F == [n \in Nat |-> It(n)[n]]
<1>4. \A n \in Nat : Iterates(It(n), n, z, g, D)
  BY <1>3
<1> HIDE DEF It, P
<1>5. ASSUME NEW n \in Nat PROVE It(n + 1)[n] = It(n)[n]
  <2> DEFINE Q == {k \in Nat : k <= n => It(n + 1)[k] = It(n)[k]}
  <2>1. 0 \in Q
    BY <1>4 DEF Iterates
  <2>2. ASSUME NEW k \in Q PROVE k + 1 \in Q
    <3> SUFFICES ASSUME k + 1 <= n PROVE It(n + 1)[k + 1] = It(n)[k + 1]
      OBVIOUS
    <3>1. k \in Nat /\ k <= n /\ k + 1 \in 1 .. n /\ k + 1 \in 1 .. n + 1 /\ (k + 1) - 1 = k
          /\ n + 1 \in Nat
      OBVIOUS
    <3>2. It(n + 1)[k + 1] = g[It(n + 1)[k]] /\ It(n)[k + 1] = g[It(n)[k]]
      <4>1. Iterates(It(n + 1), n + 1, z, g, D) /\ Iterates(It(n), n, z, g, D)
        BY <1>4, <3>1, Zenon
      <4>2. It(n + 1)[k + 1] = g[It(n + 1)[(k + 1) - 1]] /\ It(n)[k + 1] = g[It(n)[(k + 1) - 1]]
        BY <3>1, <4>1, Zenon DEF Iterates
      <4> QED BY <3>1, <4>2
    <3>3. It(n + 1)[k] = It(n)[k]
      BY <3>1
    <3> QED BY <3>2, <3>3
  <2>3. Q = Nat
    <3> HIDE DEF Q
    <3>1. Q \subseteq Nat
      BY DEF Q
    <3> QED BY <2>1, <2>2, <3>1, Induct, Zenon
  <2>4. n \in Q /\ n <= n
    BY <2>3
  <2> QED BY <2>4
<1>6. F \in [Nat -> D]
  <2>1. \A n \in Nat : It(n) \in [0 .. n -> D] /\ n \in 0 .. n
    BY <1>4 DEF Iterates
  <2> QED BY <2>1
<1>7. ASSUME NEW n \in Nat PROVE F[n] = IF n = 0 THEN z ELSE g[F[n - 1]]
  <2>1. CASE n = 0
    BY <1>4, <2>1 DEF Iterates
  <2>2. CASE n # 0
    <3>1. n - 1 \in Nat /\ (n - 1) + 1 = n /\ n \in 1 .. n
      BY <2>2
    <3>2. It(n)[n] = g[It(n)[n - 1]]
      BY <1>4, <3>1, Zenon DEF Iterates
    <3>3. It(n)[n - 1] = It(n - 1)[n - 1]
      BY <1>5, <3>1
    <3>4. F[n] = It(n)[n] /\ F[n - 1] = It(n - 1)[n - 1]
      BY <3>1
    <3> QED BY <2>2, <3>2, <3>3, <3>4
  <2> QED BY <2>1, <2>2
<1>8. F[0] = z /\ \A n \in Nat \ {0} : F[n] = g[F[n - 1]]
  <2> HIDE DEF F
  <2> QED BY <1>7
<1> HIDE DEF F
<1> QED BY <1>6, <1>8
-----------------------------------------------------------------------------
(***************************************************************************)
(* Sums of weights over finite sets.                                       *)
(***************************************************************************)
\* G[s] is the sum of the weights w of the members of s, taken in the order
\* in which MapThenSumSet takes them.
IsSum(G, w, D) ==
    G = [s \in SUBSET D |-> IF s = {} THEN 0
                            ELSE w[CHOOSE x \in s : TRUE] + G[s \ {CHOOSE x \in s : TRUE}]]

\* Every finite set has a function that sums over its subsets.
LEMMA SumExists ==
    ASSUME NEW D, IsFiniteSet(D), NEW w \in [D -> Int]
    PROVE  \E G \in [SUBSET D -> Int] : IsSum(G, w, D)
<1> DEFINE X == [SUBSET D -> Int]
           ch(s) == CHOOSE x \in s : TRUE
           More(G) == [s \in SUBSET D |-> IF s = {} THEN 0 ELSE w[ch(s)] + G[s \ {ch(s)}]]
           z == [s \in SUBSET D |-> 0]
           g == [G \in X |-> More(G)]
<1>1. \A s \in SUBSET D : s # {} => ch(s) \in s /\ s \ {ch(s)} \in SUBSET D /\ w[ch(s)] \in Int
  OBVIOUS
<1>2. z \in X
  OBVIOUS
<1> HIDE DEF ch
<1>3. ASSUME NEW G \in X PROVE More(G) \in X
  <2>1. \A s \in SUBSET D : (IF s = {} THEN 0 ELSE w[ch(s)] + G[s \ {ch(s)}]) \in Int
    BY <1>1
  <2> QED BY <2>1
<1>4. g \in [X -> X]
  BY <1>3, Zenon
<1>5. PICK F \in [Nat -> X] : F[0] = z /\ \A n \in Nat \ {0} : F[n] = g[F[n - 1]]
  <2> HIDE DEF X, z, g, More
  <2> QED BY <1>2, <1>4, IteratesExist
<1>6. \A n \in Nat \ {0} : F[n] = More(F[n - 1])
  <2>1. \A n \in Nat \ {0} : n - 1 \in Nat /\ n # 0 /\ n \in Nat
    OBVIOUS
  <2>2. \A n \in Nat \ {0} : F[n - 1] \in X
    BY <2>1, Zenon
  <2>3. \A n \in Nat \ {0} : F[n] = g[F[n - 1]]
    <3> HIDE DEF g, X, z
    <3> QED BY <1>5, <2>1, Zenon
  <2>4. \A H \in X : g[H] = More(H)
    BY Zenon
  <2> HIDE DEF More, X, g
  <2> QED BY <2>2, <2>3, <2>4, Zenon
<1> DEFINE G == [s \in SUBSET D |-> IF s = {} THEN 0 ELSE F[Cardinality(s)][s]]
<1>7. \A s \in SUBSET D : Cardinality(s) \in Nat
  BY FS_Subset, FS_CardinalityType
<1>8. G \in [SUBSET D -> Int]
  <2>1. \A s \in SUBSET D : F[Cardinality(s)][s] \in Int
    BY <1>7
  <2> HIDE DEF X
  <2> QED BY <2>1
<1>9. ASSUME NEW s \in SUBSET D, s # {}
      PROVE  G[s] = w[ch(s)] + G[s \ {ch(s)}]
  <2> DEFINE c == ch(s)
             r == s \ {c}
  <2>1. c \in s /\ r \in SUBSET D
    BY <1>1, <1>9
  <2>2. IsFiniteSet(s) /\ Cardinality(s) \in Nat
    BY FS_Subset, FS_CardinalityType
  <2>3. Cardinality(r) = Cardinality(s) - 1 /\ Cardinality(s) # 0
    BY <1>9, <2>1, <2>2, FS_RemoveElement, FS_EmptySet, Zenon
  <2>4. F[Cardinality(s)][s] = w[c] + F[Cardinality(s) - 1][r]
    <3>1. PICK m : m = Cardinality(s)
      OBVIOUS
    <3>2. m \in Nat \ {0}
      BY <2>2, <2>3, <3>1, Zenon
    <3>3. F[m][s] = w[c] + F[m - 1][r]
      BY <1>6, <1>9, <3>2, Zenon
    <3> QED BY <3>1, <3>3, Zenon
  <2>5. CASE r # {}
    BY <1>9, <2>1, <2>3, <2>4, <2>5, Zenon
  <2>6. CASE r = {}
    <3>1. Cardinality(s) - 1 = 0
      BY <2>3, <2>6, FS_EmptySet, Zenon
    <3>2. F[0] = z
      <4> HIDE DEF g, X, z
      <4> QED BY <1>5
    <3>3. F[Cardinality(s) - 1][r] = 0
      BY <2>1, <3>1, <3>2
    <3> QED BY <1>9, <2>1, <2>4, <2>6, <3>3, Zenon
  <2> QED BY <2>5, <2>6
<1>10. G[{}] = 0
  OBVIOUS
<1>11. G = [s \in SUBSET D |-> IF s = {} THEN 0 ELSE w[ch(s)] + G[s \ {ch(s)}]]
  <2> HIDE DEF G
  <2>1. G = [s \in SUBSET D |-> G[s]]
    BY <1>8
  <2> QED BY <1>9, <1>10, <2>1, Zenon
<1> HIDE DEF G
<1>12. IsSum(G, w, D)
  BY <1>11, Zenon DEF IsSum, ch
<1> QED BY <1>8, <1>12, Zenon

\* The order does not matter.
LEMMA SumTakes ==
    ASSUME NEW D, IsFiniteSet(D), NEW w \in [D -> Int],
           NEW G \in [SUBSET D -> Int], IsSum(G, w, D)
    PROVE  /\ G[{}] = 0
           /\ \A s \in SUBSET D : \A y \in s : G[s] = w[y] + G[s \ {y}]
<1> DEFINE ch(s) == CHOOSE x \in s : TRUE
<1>1. /\ G[{}] = 0
      /\ \A s \in SUBSET D : s # {} => ch(s) \in s /\ G[s] = w[ch(s)] + G[s \ {ch(s)}]
  BY Zenon DEF IsSum
<1> HIDE DEF ch
<1> DEFINE P == {n \in Nat : \A s \in SUBSET D : Cardinality(s) = n =>
                                \A y \in s : G[s] = w[y] + G[s \ {y}]}
<1>2. \A s \in SUBSET D : IsFiniteSet(s) /\ Cardinality(s) \in Nat
  BY FS_Subset, FS_CardinalityType
<1>3. \A s \in SUBSET D : \A y \in s :
          s \ {y} \in SUBSET D /\ Cardinality(s \ {y}) = Cardinality(s) - 1
  BY <1>2, FS_RemoveElement
<1>4. 0 \in P
  <2>1. \A s \in SUBSET D : Cardinality(s) = 0 => s = {}
    BY <1>2, FS_EmptySet, Zenon
  <2> QED BY <2>1
<1>5. ASSUME NEW n \in P PROVE n + 1 \in P
  <2>1. SUFFICES ASSUME NEW s \in SUBSET D, Cardinality(s) = n + 1, NEW y \in s
                 PROVE  G[s] = w[y] + G[s \ {y}]
    OBVIOUS
  <2> DEFINE x == ch(s)
  <2>2. x \in s /\ G[s] = w[x] + G[s \ {x}]
    BY <1>1, <2>1, Zenon
  <2>3. CASE x = y
    BY <2>2, <2>3
  <2>4. CASE x # y
    <3> HIDE DEF x
    <3>1. Cardinality(s \ {x}) = n /\ Cardinality(s \ {y}) = n
      BY <1>3, <2>1, <2>2
    <3>2. y \in s \ {x} /\ x \in s \ {y} /\ (s \ {x}) \ {y} = (s \ {y}) \ {x}
      BY <2>2, <2>4, Zenon
    <3>3. G[s \ {x}] = w[y] + G[(s \ {x}) \ {y}] /\ G[s \ {y}] = w[x] + G[(s \ {x}) \ {y}]
      <4>1. s \ {x} \in SUBSET D /\ s \ {y} \in SUBSET D
        OBVIOUS
      <4>2. \A u \in SUBSET D : Cardinality(u) = n => \A q \in u : G[u] = w[q] + G[u \ {q}]
        OBVIOUS
      <4>3. G[s \ {x}] = w[y] + G[(s \ {x}) \ {y}]
        BY <3>1, <3>2, <4>1, <4>2, Zenon
      <4>4. G[s \ {y}] = w[x] + G[(s \ {y}) \ {x}]
        BY <3>1, <3>2, <4>1, <4>2, Zenon
      <4> QED BY <3>2, <4>3, <4>4, Zenon
    <3>4. w[x] \in Int /\ w[y] \in Int /\ G[(s \ {x}) \ {y}] \in Int
      BY <2>2
    <3> QED BY <2>2, <3>3, <3>4
  <2> QED BY <2>3, <2>4
<1>6. P = Nat
  <2> HIDE DEF P
  <2>1. P \subseteq Nat
    BY DEF P
  <2> QED BY <1>4, <1>5, <2>1, Induct, Zenon
<1>7. \A s \in SUBSET D : Cardinality(s) \in P
  BY <1>2, <1>6, Zenon
<1>8. \A s \in SUBSET D : \A y \in s : G[s] = w[y] + G[s \ {y}]
  BY <1>7, Zenon
<1> QED BY <1>1, <1>8, Zenon

\* Only the weights of the members count.
LEMMA SumAgrees ==
    ASSUME NEW D, IsFiniteSet(D), NEW w, NEW G, IsSum(G, w, D),
           NEW E, NEW v, NEW H, IsSum(H, v, E), NEW t \in SUBSET D, t \subseteq E,
           \A b \in t : w[b] = v[b]
    PROVE  G[t] = H[t]
<1> DEFINE ch(s) == CHOOSE x \in s : TRUE
<1>1. \A s \in SUBSET t : s # {} =>
          /\ ch(s) \in s
          /\ G[s] = w[ch(s)] + G[s \ {ch(s)}] /\ H[s] = v[ch(s)] + H[s \ {ch(s)}]
  BY Zenon DEF IsSum
<1>2. G[{}] = 0 /\ H[{}] = 0
  BY DEF IsSum
<1> HIDE DEF ch
<1> DEFINE P == {n \in Nat : \A s \in SUBSET t : Cardinality(s) = n => G[s] = H[s]}
<1>3. \A s \in SUBSET t : IsFiniteSet(s) /\ Cardinality(s) \in Nat
  <2>1. \A s \in SUBSET t : s \subseteq D
    OBVIOUS
  <2> QED BY <2>1, FS_Subset, FS_CardinalityType
<1>4. 0 \in P
  <2>1. \A s \in SUBSET t : Cardinality(s) = 0 => s = {}
    BY <1>3, FS_EmptySet, Zenon
  <2> QED BY <1>2, <2>1
<1>5. ASSUME NEW n \in P PROVE n + 1 \in P
  <2>1. SUFFICES ASSUME NEW s \in SUBSET t, Cardinality(s) = n + 1 PROVE G[s] = H[s]
    OBVIOUS
  <2> DEFINE x == ch(s)
  <2>2. s # {}
    BY <2>1, FS_EmptySet
  <2>3. /\ x \in s /\ x \in t /\ s \ {x} \in SUBSET t
        /\ G[s] = w[x] + G[s \ {x}] /\ H[s] = v[x] + H[s \ {x}]
    BY <1>1, <2>2, Zenon
  <2> HIDE DEF x
  <2>4. Cardinality(s \ {x}) = n
    BY <1>3, <2>1, <2>3, FS_RemoveElement
  <2>5. G[s \ {x}] = H[s \ {x}]
    BY <2>3, <2>4
  <2> QED BY <2>3, <2>5
<1>6. P = Nat
  <2> HIDE DEF P
  <2>1. P \subseteq Nat
    BY DEF P
  <2> QED BY <1>4, <1>5, <2>1, Induct, Zenon
<1>7. Cardinality(t) \in P
  BY <1>3, <1>6
<1> QED BY <1>7

\* The bytes in the blocks of s.
Weights(h) == [b \in Offsets |-> h[b].size]
SumOf(h, s) == (CHOOSE K : IsSum(K, Weights(h), Offsets))[s]

\* So the sum that SumOf chooses is one.
LEMMA SumIs ==
    ASSUME NEW h \in [Offsets -> Header]
    PROVE  LET G == CHOOSE K : IsSum(K, Weights(h), Offsets)
           IN  /\ IsSum(G, Weights(h), Offsets) /\ G \in [SUBSET Offsets -> Int]
               /\ Weights(h) \in [Offsets -> Int] /\ IsFiniteSet(Offsets)
<1> DEFINE w == Weights(h)
           G == CHOOSE K : IsSum(K, w, Offsets)
<1>1. w \in [Offsets -> Int]
  BY DEF Weights, Header
<1>2. IsFiniteSet(Offsets)
  BY HeapConstants, FS_Interval DEF Offsets
<1> HIDE DEF w
<1>3. PICK H \in [SUBSET Offsets -> Int] : IsSum(H, w, Offsets)
  BY <1>1, <1>2, SumExists, Zenon
<1>4. IsSum(G, w, Offsets)
  BY <1>3, Zenon
<1>5. G \in [SUBSET Offsets -> Int]
  <2> HIDE DEF G
  <2>1. \A s \in SUBSET Offsets : G[s] = H[s]
    BY <1>2, <1>3, <1>4, SumAgrees
  <2>2. G = [s \in SUBSET Offsets |-> G[s]]
    BY <1>4, Zenon DEF IsSum
  <2> QED BY <1>3, <2>1, <2>2, Zenon
<1> QED BY <1>1, <1>2, <1>4, <1>5 DEF w

\* The sum of nothing is 0; one element more adds its size.
LEMMA SumFacts ==
    ASSUME NEW h \in [Offsets -> Header]
    PROVE  /\ SumOf(h, {}) = 0
           /\ \A s \in SUBSET Offsets : SumOf(h, s) \in Int
           /\ \A s \in SUBSET Offsets : \A y \in s : SumOf(h, s) = h[y].size + SumOf(h, s \ {y})
<1> DEFINE G == CHOOSE K : IsSum(K, Weights(h), Offsets)
<1>1. /\ IsSum(G, Weights(h), Offsets) /\ G \in [SUBSET Offsets -> Int]
      /\ Weights(h) \in [Offsets -> Int] /\ IsFiniteSet(Offsets)
  BY SumIs, Zenon
<1>2. \A s : SumOf(h, s) = G[s]
  BY DEF SumOf
<1> HIDE DEF G
<1>3. /\ G[{}] = 0
      /\ \A s \in SUBSET Offsets : \A y \in s : G[s] = Weights(h)[y] + G[s \ {y}]
  BY <1>1, SumTakes
<1>4. \A y \in Offsets : Weights(h)[y] = h[y].size
  BY DEF Weights
<1>5. \A s \in SUBSET Offsets : SumOf(h, s) \in Int
  BY <1>1, <1>2
<1>6. \A s \in SUBSET Offsets : \A y \in s : SumOf(h, s) = h[y].size + SumOf(h, s \ {y})
  <2>1. \A s \in SUBSET Offsets : \A y \in s : y \in Offsets
    OBVIOUS
  <2>2. \A s \in SUBSET Offsets : \A y \in s : G[s] = h[y].size + G[s \ {y}]
    BY <1>3, <1>4, <2>1, Zenon
  <2> QED BY <1>2, <2>2, Zenon
<1> QED BY <1>2, <1>3, <1>5, <1>6, Zenon

\* The sum depends on the sizes in the set only.
LEMMA SumSame ==
    ASSUME NEW h \in [Offsets -> Header], NEW k \in [Offsets -> Header],
           NEW s \in SUBSET Offsets, \A b \in s : h[b].size = k[b].size
    PROVE  SumOf(h, s) = SumOf(k, s)
<1> DEFINE G == CHOOSE K : IsSum(K, Weights(h), Offsets)
           H == CHOOSE K : IsSum(K, Weights(k), Offsets)
<1>1. IsSum(G, Weights(h), Offsets) /\ IsSum(H, Weights(k), Offsets) /\ IsFiniteSet(Offsets)
  BY SumIs, Zenon
<1>2. SumOf(h, s) = G[s] /\ SumOf(k, s) = H[s]
  BY DEF SumOf
<1> HIDE DEF G, H
<1>3. \A b \in s : Weights(h)[b] = Weights(k)[b]
  BY DEF Weights
<1>4. G[s] = H[s]
  BY <1>1, <1>3, SumAgrees
<1> QED BY <1>2, <1>4

\* MapThenSumSet computes this sum.
LEMMA SumFold ==
    ASSUME hdr \in [Offsets -> Header], NEW s \in SUBSET Offsets
    PROVE  MapThenSumSet(LAMBDA b : hdr[b].size, s) = SumOf(hdr, s)
<1> DEFINE w == [b \in s |-> hdr[b].size]
           R(f) == f = [t \in SUBSET s |-> IF t = {} THEN 0
                        ELSE LET x == CHOOSE x \in t : TRUE IN hdr[x].size + f[t \ {x}]]
           I == CHOOSE f : R(f)
<1>1. MapThenSumSet(LAMBDA b : hdr[b].size, s) = I[s]
  BY Zenon DEF MapThenSumSet, MapThenFoldSet
<1>2. w \in [s -> Int] /\ \A b \in s : w[b] = hdr[b].size
  BY DEF Header
<1>9. IsFiniteSet(Offsets)
  BY SumIs, Zenon
<1>3. IsFiniteSet(s)
  BY <1>9, FS_Subset, Zenon
<1> HIDE DEF w
<1>4. ASSUME NEW f PROVE R(f) <=> IsSum(f, w, s)
  <2> DEFINE ch(t) == CHOOSE x \in t : TRUE
             A(t) == IF t = {} THEN 0 ELSE w[ch(t)] + f[t \ {ch(t)}]
             B(t) == IF t = {} THEN 0 ELSE hdr[ch(t)].size + f[t \ {ch(t)}]
  <2>1. \A t \in SUBSET s : t # {} => w[ch(t)] = hdr[ch(t)].size
    BY <1>2
  <2> HIDE DEF ch
  <2>2. \A t \in SUBSET s : A(t) = B(t)
    BY <2>1
  <2> HIDE DEF A, B
  <2>3. [t \in SUBSET s |-> A(t)] = [t \in SUBSET s |-> B(t)]
    BY <2>2, Zenon
  <2>4. R(f) <=> f = [t \in SUBSET s |-> B(t)]
    BY Zenon DEF B, ch
  <2>5. IsSum(f, w, s) <=> f = [t \in SUBSET s |-> A(t)]
    BY Zenon DEF A, ch, IsSum
  <2> QED BY <2>3, <2>4, <2>5, Zenon
<1> HIDE DEF R
<1>5. PICK H : IsSum(H, w, s)
  BY <1>2, <1>3, SumExists, Zenon
<1>6. IsSum(I, w, s)
  BY <1>4, <1>5, Zenon
<1> HIDE DEF I
<1> DEFINE G == CHOOSE K : IsSum(K, Weights(hdr), Offsets)
<1>7. IsSum(G, Weights(hdr), Offsets) /\ SumOf(hdr, s) = G[s]
  BY SumIs, Zenon DEF SumOf
<1> HIDE DEF G
<1>8. \A b \in s : Weights(hdr)[b] = w[b]
  BY <1>2 DEF Weights
<1>10. G[s] = I[s]
  BY <1>6, <1>7, <1>8, <1>9, SumAgrees
<1> QED BY <1>1, <1>7, <1>10
-----------------------------------------------------------------------------
(***************************************************************************)
(* The list of blocks.                                                     *)
(***************************************************************************)
\* Where block b of the list h ends.
End(h, b) == IF h[b].next = Null THEN HEAP_SIZE ELSE h[b].next

\* The blocks of S follow each other from 0 to the end of the heap.
Chain(h, S) ==
    /\ S \subseteq Offsets /\ 0 \in S
    /\ \A b \in S :
          /\ h[b].next \in S \cup {Null}
          /\ b + HEADER_SIZE <= End(h, b)
          /\ \A a \in S : a <= b \/ End(h, b) <= a

\* Following the next pointers.
LEMMA NthFacts ==
    ASSUME hdr \in [Offsets -> Header]
    PROVE  /\ Nth[0] = 0
           /\ \A n \in Nat :
                 Nth[n + 1] = IF Nth[n] \in Offsets THEN hdr[Nth[n]].next ELSE Null
<1> DEFINE nx(b) == IF b \in Offsets THEN hdr[b].next ELSE Null
           g == [b \in Int |-> nx(b)]
           R(f) == f = [n \in Nat |-> IF n = 0 THEN 0
                                      ELSE LET b == f[n - 1]
                                           IN  IF b \in Offsets THEN hdr[b].next ELSE Null]
<1>1. g \in [Int -> Int]
  BY DEF Header, Null
<1>2. \A b \in Int : g[b] = nx(b)
  OBVIOUS
<1> HIDE DEF g
<1>3. PICK F \in [Nat -> Int] : F[0] = 0 /\ \A n \in Nat \ {0} : F[n] = g[F[n - 1]]
  <2> DEFINE D == Int
             z == 0
  <2>1. z \in D /\ g \in [D -> D]
    BY <1>1
  <2>2. \A F : F \in [Nat -> D] => F \in [Nat -> Int]
    OBVIOUS
  <2> HIDE DEF D, z
  <2>3. \E F \in [Nat -> D] : F[0] = z /\ \A n \in Nat \ {0} : F[n] = g[F[n - 1]]
    BY <2>1, IteratesExist
  <2> QED BY <2>3 DEF D, z
<1>4. \A n \in Nat \ {0} : F[n] = nx(F[n - 1])
  <2>1. \A n \in Nat \ {0} : F[n - 1] \in Int
    OBVIOUS
  <2> HIDE DEF nx
  <2> QED BY <1>2, <1>3, <2>1
<1>5. R(F)
  <2>1. F = [n \in Nat |-> F[n]]
    OBVIOUS
  <2>2. \A n \in Nat : F[n] = IF n = 0 THEN 0
                              ELSE LET b == F[n - 1]
                                   IN  IF b \in Offsets THEN hdr[b].next ELSE Null
    BY <1>3, <1>4
  <2> QED BY <2>1, <2>2, Zenon
<1>6. R(Nth)
  <2>1. Nth = CHOOSE f : R(f)
    BY Zenon DEF Nth
  <2> HIDE DEF R
  <2> QED BY <1>5, <2>1, Zenon
<1>7. Nth[0] = 0
  BY <1>6
<1>8. \A n \in Nat : n + 1 \in Nat /\ n + 1 # 0 /\ (n + 1) - 1 = n
  OBVIOUS
<1>9. \A n \in Nat \ {0} : Nth[n] = nx(Nth[n - 1])
  BY <1>6, Zenon
<1> HIDE DEF R
<1>10. \A n \in Nat : Nth[n + 1] = nx(Nth[n])
  <2> HIDE DEF nx
  <2> QED BY <1>8, <1>9
<1> QED BY <1>7, <1>10

\* The list from offset 0 is the chain.
LEMMA BlocksAre ==
    ASSUME hdr \in [Offsets -> Header], NEW S, Chain(hdr, S)
    PROVE  Blocks = S
<1>0. /\ S \subseteq Offsets /\ 0 \in S /\ Offsets \subseteq Nat /\ Null \notin Offsets
      /\ HEADER_SIZE \in Nat /\ HEADER_SIZE >= 1 /\ HEAP_SIZE \in Nat
      /\ \A b \in Offsets : b < HEAP_SIZE
  BY HeapConstants DEF Chain, Offsets, Null
<1>1. /\ \A b \in S : hdr[b].next \in S \cup {Null}
      /\ \A b \in S : b + HEADER_SIZE <= End(hdr, b)
      /\ \A a, b \in S : a <= b \/ End(hdr, b) <= a
  BY Zenon DEF Chain
<1>2. Nth[0] = 0 /\ \A n \in Nat : Nth[n] \in S => Nth[n + 1] = hdr[Nth[n]].next
  BY <1>0, NthFacts, Zenon
<1>3. \A n \in Nat : Nth[n] = Null => Nth[n + 1] = Null
  BY <1>0, NthFacts
<1> DEFINE P == {n \in Nat : Nth[n] \in S \cup {Null} /\ (Nth[n] \in S => HEADER_SIZE * n <= Nth[n])}
<1>4. 0 \in P
  BY <1>0, <1>2
<1>5. ASSUME NEW n \in P PROVE n + 1 \in P
  <2>0. n \in Nat /\ n + 1 \in Nat
    OBVIOUS
  <2>1. CASE Nth[n] = Null
    <3>1. Nth[n + 1] = Null /\ Null \notin S
      BY <1>0, <1>3, <2>0, <2>1, Zenon
    <3> QED BY <2>0, <3>1
  <2>2. CASE Nth[n] \in S
    <3>1. Nth[n + 1] = hdr[Nth[n]].next /\ hdr[Nth[n]].next \in S \cup {Null}
      BY <1>1, <1>2, <2>2
    <3>2. Nth[n + 1] \in S => Nth[n] + HEADER_SIZE <= Nth[n + 1]
      BY <1>0, <1>1, <2>2, <3>1, Zenon DEF End
    <3>3. HEADER_SIZE * n <= Nth[n] /\ Nth[n] \in Nat
      BY <1>0, <2>2, Zenon
    <3>4. HEADER_SIZE * (n + 1) = HEADER_SIZE * n + HEADER_SIZE /\ HEADER_SIZE * n \in Nat
      BY <1>0
    <3>5. Nth[n + 1] \in S => HEADER_SIZE * (n + 1) <= Nth[n + 1]
      <4> DEFINE x == HEADER_SIZE * n
                 y == HEADER_SIZE * (n + 1)
      <4>1. x \in Nat /\ y = x + HEADER_SIZE /\ x <= Nth[n]
        BY <3>3, <3>4
      <4> HIDE DEF x, y
      <4>2. Nth[n + 1] \in S => Nth[n + 1] \in Nat
        BY <1>0, Zenon
      <4>3. Nth[n + 1] \in S => y <= Nth[n + 1]
        BY <1>0, <3>2, <3>3, <4>1, <4>2
      <4> QED BY <4>3 DEF y
    <3> QED BY <2>0, <3>1, <3>5, Zenon
  <2> QED BY <2>1, <2>2
<1>6. P = Nat
  <2> HIDE DEF P
  <2>1. P \subseteq Nat
    BY DEF P
  <2> QED BY <1>4, <1>5, <2>1, Induct, Zenon
<1>7. \A n \in Nat : Nth[n] \in S \cup {Null} /\ (Nth[n] \in S => HEADER_SIZE * n <= Nth[n])
  BY <1>6
<1>8. \A n \in Nat : Nth[n] \in Offsets <=> Nth[n] \in S
  BY <1>0, <1>7, Zenon
<1>9. ASSUME NEW n \in Nat, Nth[n] \in S PROVE n \in 0 .. MaxBlocks
  <2>1. HEADER_SIZE * n <= HEAP_SIZE
    <3> DEFINE x == HEADER_SIZE * n
    <3>1. x \in Nat /\ x <= Nth[n]
      BY <1>0, <1>7, <1>9
    <3>2. Nth[n] \in Nat /\ Nth[n] < HEAP_SIZE
      BY <1>0, <1>9, Zenon
    <3> HIDE DEF x
    <3>3. x <= HEAP_SIZE
      BY <1>0, <3>1, <3>2
    <3> QED BY <3>3 DEF x
  <2>2. n <= HEAP_SIZE \div HEADER_SIZE
    <3> DEFINE q == HEAP_SIZE \div HEADER_SIZE
    <3>1. q \in Nat /\ HEAP_SIZE < HEADER_SIZE * q + HEADER_SIZE
      BY <1>0
    <3> HIDE DEF q
    <3> SUFFICES ASSUME q + 1 <= n PROVE FALSE
      BY <3>1 DEF q
    <3> DEFINE d == n - (q + 1)
    <3>2. d \in Nat /\ n = q + 1 + d
      BY <3>1
    <3> HIDE DEF d
    <3>3. HEADER_SIZE * n = HEADER_SIZE * q + HEADER_SIZE + HEADER_SIZE * d /\ HEADER_SIZE * d \in Nat
          /\ HEADER_SIZE * q \in Nat
      BY <1>0, <3>1, <3>2
    <3> QED BY <1>0, <2>1, <3>1, <3>3
  <2> QED BY <2>2, <1>0 DEF MaxBlocks
<1>10. Blocks \subseteq S
  <2>1. \A n \in Listed : n \in Nat /\ Nth[n] \in Offsets
    BY <1>0 DEF Listed, MaxBlocks
  <2> QED BY <1>8, <2>1, Zenon DEF Blocks
<1>11. ASSUME NEW b \in S PROVE b \in Blocks
  <2>1. SUFFICES ASSUME \A n \in Nat : Nth[n] # b PROVE FALSE
    <3>1. ASSUME NEW n \in Nat, Nth[n] = b PROVE b \in Blocks
      BY <1>0, <1>9, <3>1, Zenon DEF Blocks, Listed
    <3> QED BY <3>1, Zenon
  <2> DEFINE K == {n \in Nat : Nth[n] \in S /\ Nth[n] <= b}
  <2>2. b \in Nat /\ b < HEAP_SIZE
    BY <1>0, Zenon
  <2>3. 0 \in K
    BY <1>0, <1>2, <2>2
  <2>4. ASSUME NEW n \in K PROVE n + 1 \in K
    <3>1. n \in Nat /\ Nth[n] \in S /\ Nth[n] \in Nat /\ Nth[n] < b
      <4>1. n \in Nat /\ Nth[n] \in S /\ Nth[n] <= b
        OBVIOUS
      <4>2. Nth[n] \in Nat /\ Nth[n] # b
        BY <1>0, <2>1, <4>1, Zenon
      <4> QED BY <2>2, <4>1, <4>2
    <3>2. End(hdr, Nth[n]) <= b
      BY <1>1, <2>2, <3>1
    <3>3. Nth[n + 1] = hdr[Nth[n]].next
      BY <1>2, <3>1, Zenon
    <3>4. hdr[Nth[n]].next # Null
      BY <1>0, <2>2, <3>2 DEF End
    <3>5. hdr[Nth[n]].next \in S
      BY <1>1, <3>1, <3>4
    <3> QED BY <3>1, <3>2, <3>3, <3>4, <3>5 DEF End
  <2>5. K = Nat
    <3> HIDE DEF K
    <3>1. K \subseteq Nat
      BY Zenon DEF K
    <3> QED BY <2>3, <2>4, <3>1, Induct, Zenon
  <2>6. b + 1 \in K
    BY <2>2, <2>5
  <2>7. HEADER_SIZE * (b + 1) <= b
    <3>1. Nth[b + 1] \in Nat
      BY <1>0, <2>6, Zenon
    <3> QED BY <1>0, <1>7, <2>2, <2>6, <3>1
  <2>8. HEADER_SIZE * (b + 1) >= b + 1
    <3> DEFINE d == HEADER_SIZE - 1
    <3>1. d \in Nat /\ HEADER_SIZE = d + 1
      BY <1>0
    <3> HIDE DEF d
    <3>2. HEADER_SIZE * (b + 1) = d * (b + 1) + (b + 1) /\ d * (b + 1) \in Nat
      BY <2>2, <3>1
    <3> QED BY <2>2, <3>2
  <2> QED BY <1>0, <2>2, <2>7, <2>8
<1> QED BY <1>10, <1>11
-----------------------------------------------------------------------------
\* Two free blocks next to each other.
Pair(h, b) == h[b].free /\ h[b].next # Null /\ h[h[b].next].free

\* What a chain says of each block.
LEMMA ChainFacts ==
    ASSUME NEW h \in [Offsets -> Header], NEW S, Chain(h, S)
    PROVE  /\ HEADER_SIZE \in Nat /\ HEADER_SIZE > 0 /\ HEAP_SIZE \in Nat
           /\ \A b \in S :
                 /\ b \in Nat /\ b < HEAP_SIZE /\ b \in Offsets /\ h[b] \in Header
                 /\ End(h, b) \in Nat /\ End(h, b) <= HEAP_SIZE
                 /\ b + HEADER_SIZE <= End(h, b)
                 /\ h[b].next # Null => h[b].next \in S /\ End(h, b) = h[b].next
                 /\ h[b].next = Null => End(h, b) = HEAP_SIZE
                 /\ h[b].next # b
<1>1. HEADER_SIZE \in Nat /\ HEADER_SIZE > 0 /\ HEAP_SIZE \in Nat
  BY HeapConstants
<1>2. \A b \in Offsets : b \in Nat /\ b < HEAP_SIZE
  BY <1>1 DEF Offsets
<1>3. ASSUME NEW b \in S
      PROVE  /\ b \in Nat /\ b < HEAP_SIZE /\ b \in Offsets /\ h[b] \in Header
             /\ h[b].next # Null => h[b].next \in S /\ End(h, b) = h[b].next
             /\ h[b].next = Null => End(h, b) = HEAP_SIZE
             /\ b + HEADER_SIZE <= End(h, b)
  BY <1>2, Zenon DEF Chain, End
<1>4. ASSUME NEW b \in S
      PROVE  End(h, b) \in Nat /\ End(h, b) <= HEAP_SIZE
  <2>1. CASE h[b].next = Null
    BY <1>1, <1>3, <2>1
  <2>2. CASE h[b].next # Null
    BY <1>1, <1>3, <2>2
  <2> QED BY <2>1, <2>2
<1>5. ASSUME NEW b \in S
      PROVE  h[b].next # b
  <2>1. ASSUME h[b].next = b PROVE FALSE
    <3>1. b # Null /\ End(h, b) = b
      BY <1>3, <2>1 DEF Null
    <3> QED BY <1>1, <1>3, <3>1
  <2> QED BY <2>1
<1> QED BY <1>1, <1>3, <1>4, <1>5

\* The same for a list whose headers are named.
Good(h, S) ==
    \A b \in S : /\ b \in Nat /\ End(h, b) \in Nat /\ h[b].next # b
                 /\ h[b].next # Null => h[b].next \in S /\ End(h, b) = h[b].next
                 /\ h[b].next = Null => End(h, b) = HEAP_SIZE
LEMMA ChainGood ==
    ASSUME NEW h \in [Offsets -> Header], NEW S, Chain(h, S) PROVE Good(h, S)
<1> QED BY ChainFacts, Zenon DEF Good

\* In k the block b of h has been cut at rest.
Cut(h, k, S, b, rest) ==
    /\ h \in [Offsets -> Header] /\ Chain(h, S) /\ b \in S /\ rest \in Nat
    /\ b + HEADER_SIZE <= rest /\ rest + HEADER_SIZE <= End(h, b)
    /\ k[b].next = rest /\ k[rest].next = h[b].next
    /\ \A a \in S \ {b} : k[a].next = h[a].next

\* kmalloc cuts block b: the rest comes into the list.
LEMMA ChainSplit ==
    ASSUME NEW h, NEW k, NEW S, NEW b, NEW rest, Cut(h, k, S, b, rest)
    PROVE  /\ rest \notin S /\ rest \in Offsets /\ Chain(k, S \cup {rest})
<1> h \in [Offsets -> Header] /\ Chain(h, S) /\ b \in S /\ rest \in Nat
  BY Zenon DEF Cut
<1> b + HEADER_SIZE <= rest /\ rest + HEADER_SIZE <= End(h, b)
  BY Zenon DEF Cut
<1> k[b].next = rest /\ k[rest].next = h[b].next /\ \A a \in S \ {b} : k[a].next = h[a].next
  BY Zenon DEF Cut
<1>0. /\ HEADER_SIZE \in Nat /\ HEADER_SIZE > 0 /\ HEAP_SIZE \in Nat
      /\ \A a \in S : /\ a \in Nat /\ a \in Offsets
                      /\ End(h, a) \in Nat /\ End(h, a) <= HEAP_SIZE
                      /\ a + HEADER_SIZE <= End(h, a)
  BY ChainFacts, Zenon
<1>1. /\ S \subseteq Offsets /\ 0 \in S
      /\ \A a \in S : h[a].next \in S \cup {Null}
      /\ \A a, c \in S : c <= a \/ End(h, a) <= c
  BY Zenon DEF Chain
<1>2. End(k, b) = rest /\ End(k, rest) = End(h, b)
  BY DEF End, Null
<1>3. \A a \in S \ {b} : End(k, a) = End(h, a)
  BY Zenon DEF End
<1>4. rest \notin S
  <2>1. ~(rest <= b) /\ ~(End(h, b) <= rest)
    BY <1>0
  <2> QED BY <1>1, <2>1, Zenon
<1>5. rest \in Offsets
  <2>1. End(h, b) <= HEAP_SIZE /\ End(h, b) \in Nat
    BY <1>0, Zenon
  <2> QED BY <1>0, <2>1 DEF Offsets
<1> DEFINE T == S \cup {rest}
<1>6. \A a \in T : k[a].next \in T \cup {Null}
  BY <1>1, Zenon
<1>7. \A a \in T : a + HEADER_SIZE <= End(k, a)
  BY <1>0, <1>2, <1>3, Zenon
<1>8. ASSUME NEW a \in T, NEW c \in T PROVE c <= a \/ End(k, a) <= c
  <2>1. CASE a = b
    <3>1. CASE c = rest
      BY <1>2, <2>1, <3>1
    <3>2. CASE c \in S
      <4>1. c <= b \/ End(h, b) <= c
        BY <1>1, <3>2, Zenon
      <4> QED BY <1>0, <1>2, <2>1, <3>2, <4>1
    <3> QED BY <3>1, <3>2, Zenon
  <2>2. CASE a = rest
    <3>1. CASE c = rest
      BY <2>2, <3>1
    <3>2. CASE c \in S
      <4>1. c <= b \/ End(h, b) <= c
        BY <1>1, <3>2
      <4> QED BY <1>0, <1>2, <2>2, <3>2, <4>1
    <3> QED BY <3>1, <3>2
  <2>3. CASE a \in S \ {b}
    <3>1. CASE c \in S
      BY <1>1, <1>3, <2>3, <3>1, Zenon
    <3>2. CASE c = rest
      <4>1. (b <= a \/ End(h, a) <= b) /\ (a <= b \/ End(h, b) <= a)
        BY <1>1, <2>3, Zenon
      <4> QED BY <1>0, <1>3, <2>3, <3>2, <4>1
    <3> QED BY <3>1, <3>2, Zenon
  <2> QED BY <2>1, <2>2, <2>3, Zenon
<1>9. Chain(k, T)
  BY <1>1, <1>5, <1>6, <1>7, <1>8, Zenon DEF Chain
<1> QED BY <1>2, <1>3, <1>4, <1>5, <1>9, Zenon

\* kfree takes the block n after b out of the list.
LEMMA ChainMerge ==
    ASSUME NEW h \in [Offsets -> Header], NEW S, Chain(h, S), NEW b \in S,
           NEW n, n = h[b].next, n # Null,
           NEW k, k[b].next = h[n].next, \A a \in S \ {b} : k[a].next = h[a].next
    PROVE  /\ Chain(k, S \ {n}) /\ n \in S /\ n # b
           /\ End(k, b) = End(h, n)
           /\ \A a \in S \ {b} : End(k, a) = End(h, a)
<1>0. /\ HEADER_SIZE \in Nat /\ HEADER_SIZE > 0 /\ HEAP_SIZE \in Nat
      /\ \A a \in S : /\ a \in Nat /\ a \in Offsets
                      /\ End(h, a) \in Nat /\ End(h, a) <= HEAP_SIZE
                      /\ a + HEADER_SIZE <= End(h, a)
      /\ n \in S /\ End(h, b) = n /\ n # b
  <2>1. /\ h[b].next # Null => h[b].next \in S /\ End(h, b) = h[b].next
        /\ h[b].next # b
    BY ChainFacts
  <2>2. n \in S /\ End(h, b) = n /\ n # b
    BY <2>1, Zenon
  <2> QED BY <2>2, ChainFacts, Zenon
<1>1. /\ S \subseteq Offsets /\ 0 \in S
      /\ \A a \in S : h[a].next \in S \cup {Null}
      /\ \A a, c \in S : c <= a \/ End(h, a) <= c
  BY Zenon DEF Chain
<1>2. End(k, b) = End(h, n) /\ \A a \in S \ {b} : End(k, a) = End(h, a)
  BY Zenon DEF End
<1>3. n # 0
  <2>1. b \in Nat /\ n \in Nat /\ b + HEADER_SIZE <= n
    BY <1>0, Zenon
  <2> QED BY <1>0, <2>1
<1> DEFINE T == S \ {n}
<1>4. ASSUME NEW a \in T PROVE k[a].next \in T \cup {Null}
  <2>1. CASE a = b
    <3>0. Good(h, S)
      BY <1>0, ChainGood, Zenon
    <3>1. h[n].next # n
      BY <1>0, <3>0, Zenon DEF Good
    <3> QED BY <1>0, <1>1, <2>1, <3>1, Zenon
  <2>2. CASE a # b
    <3>1. h[a].next # n
      <4>1. ASSUME h[a].next = n PROVE FALSE
        <5>1. End(h, a) = n
          BY <4>1, Zenon DEF End
        <5>2. (b <= a \/ End(h, a) <= b) /\ (a <= b \/ End(h, b) <= a)
          BY <1>1, Zenon
        <5>3. a \in Nat /\ b \in Nat /\ a + HEADER_SIZE <= n /\ b + HEADER_SIZE <= n /\ n \in Nat
          BY <1>0, <5>1, Zenon
        <5> QED BY <1>0, <2>2, <5>1, <5>2, <5>3
      <4> QED BY <4>1, Zenon
    <3> QED BY <1>1, <2>2, <3>1, Zenon
  <2> QED BY <2>1, <2>2, Zenon
<1>5. ASSUME NEW a \in T PROVE a + HEADER_SIZE <= End(k, a)
  <2>1. CASE a = b
    BY <1>0, <1>2, <2>1
  <2>2. CASE a # b
    BY <1>0, <1>2, <2>2, Zenon
  <2> QED BY <2>1, <2>2, Zenon
<1>6. ASSUME NEW a \in T, NEW c \in T PROVE c <= a \/ End(k, a) <= c
  <2>1. CASE a = b
    <3>1. (c <= b \/ n <= c) /\ (c <= n \/ End(h, n) <= c)
      BY <1>0, <1>1, Zenon
    <3>2. c \in Nat /\ n \in Nat /\ c # n
      BY <1>0, Zenon
    <3> QED BY <1>0, <1>2, <2>1, <3>1, <3>2
  <2>2. CASE a # b
    BY <1>1, <1>2, <2>2, Zenon
  <2> QED BY <2>1, <2>2, Zenon
<1>7. Chain(k, T)
  BY <1>1, <1>3, <1>4, <1>5, <1>6, Zenon DEF Chain
<1> QED BY <1>0, <1>2, <1>7, Zenon
-----------------------------------------------------------------------------
(***************************************************************************)
(* The invariant: S are the blocks of the list, c is the caller that may   *)
(* be inside kfree.                                                        *)
(***************************************************************************)
\* No step of another caller while one is inside kfree: so it is for all but
\* sys_wait, and for sys_wait when no tick falls into its kfree.
Alone ==
    \A c \in Callers : pc[c] # "idle" => pc'[c] # pc[c] \/ current'[c] # current[c]

\* Each size is the one of the block, except that the absorbed block is still
\* in the list while kfree has only added its size.
Sizes(S, c) ==
    \A b \in S :
        LET end == IF pc[c] = "link" /\ b = current[c] THEN End(hdr, hdr[b].next)
                   ELSE End(hdr, b)
        IN  hdr[b].size = end - b - HEADER_SIZE

\* Each allocation has a block of its own that is in use and large enough.
Owned(S) ==
    /\ \A h \in held :
          /\ h.at \in Int /\ h.size \in Nat
          /\ h.at - HEADER_SIZE \in S /\ ~hdr[h.at - HEADER_SIZE].free
          /\ h.size <= hdr[h.at - HEADER_SIZE].size
    /\ \A g, h \in held : g.at = h.at => g = h

\* The walk leaves no pair behind it; it merges a pair.
Walks(S, c) ==
    /\ pc[c] \in {"walk", "size", "link"} =>
          current[c] \in S /\ \A b \in S : b < current[c] => ~Pair(hdr, b)
    /\ pc[c] \in {"size", "link"} => Pair(hdr, current[c])
    /\ pc[c] = "idle" => \A b \in S : ~Pair(hdr, b)

\* heap_used counts the blocks in use, and the one that kfree has only marked.
UsedIn(S) == {b \in S : ~hdr[b].free}
Counted(S, c) ==
    /\ pc[c] = "count" => block[c] \in S /\ hdr[block[c]].free
    /\ heap_used = SumOf(hdr, UsedIn(S)) + IF pc[c] = "count" THEN hdr[block[c]].size ELSE 0

HeapType ==
    /\ hdr \in [Offsets -> Header]
    /\ pc \in [Callers -> {"idle", "count", "walk", "size", "link"}]
    /\ DOMAIN current = Callers /\ DOMAIN block = Callers

Others(c) == \A d \in Callers \ {c} : pc[d] = "idle"

HeapInv(S, c) ==
    /\ Others(c) /\ Chain(hdr, S)
    /\ Sizes(S, c) /\ Owned(S) /\ Walks(S, c) /\ Counted(S, c)

IInv == HeapType /\ \E S : \E c \in Callers : HeapInv(S, c)

\* Between calls it does not matter which caller was the last.
LEMMA AnyCaller ==
    ASSUME NEW S, NEW c \in Callers, NEW d \in Callers, HeapInv(S, c), pc[c] = "idle"
    PROVE  HeapInv(S, d)
<1>1. \A e \in Callers : pc[e] = "idle"
  BY Zenon DEF HeapInv, Others
<1>2. Others(d) /\ Chain(hdr, S) /\ Owned(S)
  BY <1>1, Zenon DEF HeapInv, Others
<1>3. pc[d] = "idle" /\ pc[c] = "idle"
  BY <1>1
<1>4. Sizes(S, d)
  BY <1>3, Zenon DEF HeapInv, Sizes
<1>5. Walks(S, d)
  BY <1>3, Zenon DEF HeapInv, Walks
<1>6. Counted(S, d)
  BY <1>3, Zenon DEF HeapInv, Counted
<1> QED BY <1>2, <1>4, <1>5, <1>6, Zenon DEF HeapInv

\* Sizes between the writes of a merge.
LEMMA SizeFacts ==
    ASSUME HeapType, NEW S, NEW c, HeapInv(S, c), NEW b \in S, ~(pc[c] = "link" /\ b = current[c])
    PROVE  /\ hdr[b].size = End(hdr, b) - b - HEADER_SIZE
           /\ After(b) = End(hdr, b) /\ hdr[b].size \in Nat
<1>1. hdr \in [Offsets -> Header] /\ Chain(hdr, S)
  BY Zenon DEF HeapType, HeapInv
<1>2. /\ b \in Nat /\ b \in Offsets /\ End(hdr, b) \in Nat /\ HEADER_SIZE \in Nat
  BY <1>1, ChainFacts, Zenon
<1>3. hdr[b].size = End(hdr, b) - b - HEADER_SIZE
  BY Zenon DEF HeapInv, Sizes
<1>4. hdr[b].size \in Nat
  BY <1>1, <1>2 DEF Header
<1> QED BY <1>2, <1>3, <1>4 DEF After

\* What follows from the invariant.
LEMMA InvImplies == IInv => Layout /\ HeldDisjoint /\ UsedIsExact /\ Coalesced
<1> SUFFICES ASSUME IInv PROVE Layout /\ HeldDisjoint /\ UsedIsExact /\ Coalesced
  OBVIOUS
<1>0. PICK S : \E c \in Callers : HeapInv(S, c)
  BY Zenon DEF IInv
<1>1. PICK c \in Callers : HeapInv(S, c)
  BY <1>0, Zenon
<1>2. HeapType /\ hdr \in [Offsets -> Header] /\ Chain(hdr, S)
  BY <1>1, Zenon DEF IInv, HeapInv, HeapType
<1>3. Blocks = S
  BY <1>2, BlocksAre, Zenon
<1>4. Quiet => pc[c] = "idle"
  BY DEF Quiet
<1>5. Layout
  <2> SUFFICES ASSUME pc[c] = "idle", NEW b \in S
               PROVE  hdr[b].next = IF After(b) = HEAP_SIZE THEN Null ELSE After(b)
    BY <1>3, <1>4, Zenon DEF Layout
  <2>1. After(b) = End(hdr, b)
    BY <1>1, <1>2, SizeFacts, Zenon
  <2>2. /\ hdr[b].next # Null => hdr[b].next \in S /\ End(hdr, b) = hdr[b].next
        /\ hdr[b].next = Null => End(hdr, b) = HEAP_SIZE
        /\ HEAP_SIZE \notin S
    <3>1. \A a \in S : a \in Nat /\ a < HEAP_SIZE /\ HEAP_SIZE \in Nat
      BY <1>2, ChainFacts, Zenon
    <3>2. HEAP_SIZE \notin S
      BY <3>1
    <3>3. Good(hdr, S)
      BY <1>2, ChainGood, Zenon
    <3> QED BY <3>2, <3>3, Zenon DEF Good
  <2> QED BY <2>1, <2>2
<1>6. Coalesced
  <2> SUFFICES ASSUME pc[c] = "idle", NEW b \in S, hdr[b].free, hdr[b].next # Null
               PROVE  ~hdr[hdr[b].next].free
    BY <1>3, <1>4, Zenon DEF Coalesced
  <2> QED BY <1>1, Zenon DEF HeapInv, Walks, Pair
<1>7. UsedIsExact
  <2> SUFFICES ASSUME pc[c] = "idle"
               PROVE  heap_used = MapThenSumSet(LAMBDA b : hdr[b].size, {b \in S : ~hdr[b].free})
    BY <1>3, <1>4 DEF UsedIsExact
  <2>1. UsedIn(S) \in SUBSET Offsets
    BY <1>2 DEF UsedIn, Chain
  <2>2. heap_used = SumOf(hdr, UsedIn(S)) /\ SumOf(hdr, UsedIn(S)) \in Int
    BY <1>1, <1>2, <2>1, SumFacts DEF HeapInv, Counted
  <2>3. MapThenSumSet(LAMBDA b : hdr[b].size, UsedIn(S)) = SumOf(hdr, UsedIn(S))
    BY <1>2, <2>1, SumFold, Zenon
  <2> QED BY <2>2, <2>3, Zenon DEF UsedIn
<1>8. HeldDisjoint
  <2>1. \A h \in held :
            LET b == h.at - HEADER_SIZE
            IN  /\ h.at \in Int /\ h.size \in Nat /\ b \in S /\ ~hdr[b].free
                /\ h.size <= hdr[b].size
    BY <1>1, Zenon DEF HeapInv, Owned
  <2>2. \A a \in S : a \in Nat /\ End(hdr, a) \in Nat /\ HEADER_SIZE \in Nat
                     /\ a + HEADER_SIZE <= End(hdr, a)
    BY <1>2, ChainFacts, Zenon
  <2>3. \A a, b \in S : a <= b \/ End(hdr, b) <= a
    BY <1>2, Zenon DEF Chain
  <2>4. ASSUME NEW h \in held
        PROVE  h.at + h.size <= End(hdr, h.at - HEADER_SIZE)
    <3> DEFINE b == h.at - HEADER_SIZE
    <3>1. h.at \in Int /\ h.size \in Nat /\ b \in S /\ ~hdr[b].free /\ h.size <= hdr[b].size
      BY <2>1, Zenon
    <3>2. ~(pc[c] = "link" /\ b = current[c])
      BY <1>1, <3>1, Zenon DEF HeapInv, Walks, Pair
    <3>3. hdr[b].size = End(hdr, b) - b - HEADER_SIZE
      BY <1>1, <1>2, <3>1, <3>2, SizeFacts, Zenon
    <3>4. b \in Nat /\ End(hdr, b) \in Nat /\ HEADER_SIZE \in Nat /\ h.at = b + HEADER_SIZE
      BY <2>2, <3>1
    <3> HIDE DEF b
    <3>5. h.at + h.size <= End(hdr, b)
      BY <3>1, <3>3, <3>4
    <3> QED BY <3>5 DEF b
  <2>5. ASSUME NEW h \in held, NEW b \in S
        PROVE  b + HEADER_SIZE <= h.at \/ h.at + h.size <= b
    <3> DEFINE a == h.at - HEADER_SIZE
    <3>1. a \in S /\ h.at \in Int /\ h.size \in Nat /\ h.at + h.size <= End(hdr, a)
      BY <2>1, <2>4, Zenon
    <3>2. a \in Nat /\ b \in Nat /\ HEADER_SIZE \in Nat /\ End(hdr, a) \in Nat /\ h.at = a + HEADER_SIZE
      BY <2>2, <3>1
    <3>3. b <= a \/ End(hdr, a) <= b
      BY <2>3, <3>1, Zenon
    <3> HIDE DEF a
    <3> QED BY <3>1, <3>2, <3>3
  <2>6. ASSUME NEW h \in held, NEW g \in held, g # h
        PROVE  g.at + g.size <= h.at \/ h.at + h.size <= g.at
    <3> DEFINE a == g.at - HEADER_SIZE
               b == h.at - HEADER_SIZE
    <3>1. /\ a \in S /\ b \in S /\ g.at \in Int /\ h.at \in Int /\ g.size \in Nat /\ h.size \in Nat
          /\ g.at + g.size <= End(hdr, a) /\ h.at + h.size <= End(hdr, b)
      BY <2>1, <2>4, Zenon
    <3>2. /\ a \in Nat /\ b \in Nat /\ HEADER_SIZE \in Nat /\ End(hdr, a) \in Nat /\ End(hdr, b) \in Nat
          /\ h.at = b + HEADER_SIZE /\ g.at = a + HEADER_SIZE
      BY <2>2, <3>1
    <3>3. g.at # h.at
      BY <1>1, <2>6, Zenon DEF HeapInv, Owned
    <3>4. (b <= a \/ End(hdr, a) <= b) /\ (a <= b \/ End(hdr, b) <= a)
      BY <2>3, <3>1, Zenon
    <3> HIDE DEF a, b
    <3> QED BY <3>1, <3>2, <3>3, <3>4
  <2> QED BY <1>3, <2>5, <2>6, Zenon DEF HeldDisjoint
<1> QED BY <1>5, <1>6, <1>7, <1>8, Zenon
-----------------------------------------------------------------------------
(***************************************************************************)
(* kfree, one step after the other.                                        *)
(***************************************************************************)
\* A size is written.
LEMMA WriteSize ==
    ASSUME NEW h \in [Offsets -> Header], NEW a \in Offsets, NEW v \in Nat,
           NEW k, k = [h EXCEPT ![a].size = v]
    PROVE  /\ k \in [Offsets -> Header] /\ k[a].size = v
           /\ \A x \in Offsets : k[x].free = h[x].free /\ k[x].next = h[x].next
           /\ \A x \in Offsets \ {a} : k[x].size = h[x].size
<1> QED BY Zenon DEF Header

\* A next pointer is written.
LEMMA WriteNext ==
    ASSUME NEW h \in [Offsets -> Header], NEW a \in Offsets, NEW v \in Int,
           NEW k, k = [h EXCEPT ![a].next = v]
    PROVE  /\ k \in [Offsets -> Header] /\ k[a].next = v
           /\ \A x \in Offsets : k[x].free = h[x].free /\ k[x].size = h[x].size
           /\ \A x \in Offsets \ {a} : k[x].next = h[x].next
<1> QED BY DEF Header

\* The facts about the list that each step uses.
LEMMA Basics ==
    ASSUME HeapType, NEW S, NEW c \in Callers, HeapInv(S, c)
    PROVE  /\ hdr \in [Offsets -> Header] /\ Chain(hdr, S) /\ Others(c)
           /\ S \subseteq Offsets /\ UsedIn(S) \in SUBSET Offsets
           /\ SumOf(hdr, UsedIn(S)) \in Int
           /\ HEADER_SIZE \in Nat /\ HEADER_SIZE > 0
           /\ \A b \in S : b \in Nat /\ hdr[b].size \in Nat /\ hdr[b].next \in Int
<1>1. hdr \in [Offsets -> Header] /\ Chain(hdr, S) /\ Others(c)
  BY Zenon DEF HeapType, HeapInv
<1>2. S \subseteq Offsets /\ UsedIn(S) \in SUBSET Offsets
  BY <1>1, Zenon DEF Chain, UsedIn
<1>3. SumOf(hdr, UsedIn(S)) \in Int
  BY <1>1, <1>2, SumFacts, Zenon
<1>4. HEADER_SIZE \in Nat /\ HEADER_SIZE > 0 /\ \A b \in S : b \in Nat
  BY <1>1, ChainFacts, Zenon
<1>5. \A b \in S : hdr[b].size \in Nat /\ hdr[b].next \in Int
  BY <1>1, <1>2, Zenon DEF Header
<1> QED BY <1>1, <1>2, <1>3, <1>4, <1>5, Zenon

\* The program counters after a step of c.
LEMMA StepOfCaller ==
    ASSUME HeapType, NEW c \in Callers, Others(c),
           NEW to \in {"idle", "count", "walk", "size", "link"}, pc' = [pc EXCEPT ![c] = to]
    PROVE  /\ pc'[c] = to /\ Others(c)'
           /\ pc' \in [Callers -> {"idle", "count", "walk", "size", "link"}]
<1>1. pc \in [Callers -> {"idle", "count", "walk", "size", "link"}]
  BY Zenon DEF HeapType
<1>2. pc'[c] = to /\ \A d \in Callers \ {c} : pc'[d] = pc[d]
  BY <1>1, Zenon
<1>3. pc' \in [Callers -> {"idle", "count", "walk", "size", "link"}]
  BY <1>1, Zenon
<1> QED BY <1>2, <1>3, Zenon DEF Others

\* kfree marks the block: it is counted in heap_used but no longer in use.
LEMMA MarkKeeps ==
    ASSUME HeapType, NEW S, NEW c \in Callers, HeapInv(S, c), NEW h \in held, kfree_mark(c, h)
    PROVE  HeapType' /\ HeapInv(S, c)'
<1> DEFINE b == h.at - HEADER_SIZE
<1>0. /\ hdr \in [Offsets -> Header] /\ Chain(hdr, S) /\ Others(c)
      /\ S \subseteq Offsets /\ UsedIn(S) \in SUBSET Offsets /\ SumOf(hdr, UsedIn(S)) \in Int
  BY Basics, Zenon
<1>1. /\ b \in S /\ ~hdr[b].free /\ b \in Offsets
  BY <1>0, Zenon DEF HeapInv, Owned
<1>2. /\ block' = [block EXCEPT ![c] = b] /\ block'[c] = b
      /\ DOMAIN block' = Callers /\ DOMAIN current' = Callers
      /\ held' = held \ {h} /\ pc' = [pc EXCEPT ![c] = "count"]
      /\ UNCHANGED <<heap_used, current, panicked>>
  BY Zenon DEF kfree_mark, HeapType
<1>3. hdr' = [hdr EXCEPT ![b].free = TRUE]
  BY <1>2, Zenon DEF kfree_mark
<1>4. /\ hdr' \in [Offsets -> Header] /\ hdr'[b].free
      /\ \A x \in Offsets : hdr'[x].size = hdr[x].size /\ hdr'[x].next = hdr[x].next
      /\ \A x \in Offsets \ {b} : hdr'[x].free = hdr[x].free
  <2> HIDE DEF b
  <2>1. hdr \in [Offsets -> Header] /\ b \in Offsets
    BY <1>0, <1>1, Zenon
  <2> QED BY <1>3, <2>1, Zenon DEF Header
<1>5. /\ pc[c] = "idle" /\ pc'[c] = "count" /\ Others(c)'
      /\ pc' \in [Callers -> {"idle", "count", "walk", "size", "link"}]
  BY <1>0, <1>2, StepOfCaller, Zenon DEF kfree_mark
<1>6. HeapType'
  BY <1>2, <1>4, <1>5, Zenon DEF HeapType
<1> HIDE DEF b
<1>7. Chain(hdr', S) /\ \A x \in S : End(hdr', x) = End(hdr, x)
  <2>1. \A x \in S : hdr'[x].next = hdr[x].next
    BY <1>0, <1>4, Zenon
  <2>2. \A x \in S : End(hdr', x) = End(hdr, x)
    BY <2>1, Zenon DEF End
  <2> QED BY <1>0, <2>1, <2>2, Zenon DEF Chain
<1>8. Sizes(S, c)'
  <2>1. \A x \in S : hdr[x].size = End(hdr, x) - x - HEADER_SIZE
    BY <1>5, Zenon DEF HeapInv, Sizes
  <2> QED BY <1>0, <1>4, <1>5, <1>7, <2>1, Zenon DEF Sizes
<1>9. Owned(S)'
  <2>1. ASSUME NEW g \in held'
        PROVE  /\ g.at \in Int /\ g.size \in Nat
               /\ g.at - HEADER_SIZE \in S /\ ~hdr'[g.at - HEADER_SIZE].free
               /\ g.size <= hdr'[g.at - HEADER_SIZE].size
    <3>1. g \in held /\ g # h
      BY <1>2, Zenon
    <3>2. /\ g.at \in Int /\ g.size \in Nat /\ h.at \in Int
          /\ g.at - HEADER_SIZE \in S /\ ~hdr[g.at - HEADER_SIZE].free
          /\ g.size <= hdr[g.at - HEADER_SIZE].size
      BY <3>1, Zenon DEF HeapInv, Owned
    <3>3. g.at # h.at
      BY <3>1, Zenon DEF HeapInv, Owned
    <3>4. g.at - HEADER_SIZE # b
      BY <3>2, <3>3, Basics DEF b
    <3> QED BY <1>0, <1>4, <3>2, <3>4, Zenon
  <2>2. \A g, k \in held' : g.at = k.at => g = k
    BY <1>2, Zenon DEF HeapInv, Owned
  <2> QED BY <2>1, <2>2, Zenon DEF Owned
<1>10. Walks(S, c)'
  BY <1>5, Zenon DEF Walks
<1>11. Counted(S, c)'
  <2>1. heap_used = SumOf(hdr, UsedIn(S))
    BY <1>0, <1>5 DEF HeapInv, Counted
  <2>2. UsedIn(S)' = UsedIn(S) \ {b} /\ b \in UsedIn(S)
    BY <1>0, <1>1, <1>4, Zenon DEF UsedIn
  <2>3. SumOf(hdr, UsedIn(S)) = hdr[b].size + SumOf(hdr, UsedIn(S) \ {b})
    BY <1>0, <2>2, SumFacts, Zenon
  <2>4. UsedIn(S) \ {b} \in SUBSET Offsets
    BY <1>0, Zenon
  <2>5. SumOf(hdr, UsedIn(S) \ {b}) = SumOf(hdr', UsedIn(S) \ {b})
    BY <1>0, <1>4, <2>4, SumSame
  <2>6. SumOf(hdr, UsedIn(S) \ {b}) \in Int /\ hdr[b].size \in Int
    BY <1>0, <1>1, <2>4, SumFacts, Basics
  <2>7. heap_used' = SumOf(hdr', UsedIn(S)') + hdr'[b].size
    BY <1>1, <1>2, <1>4, <2>1, <2>2, <2>3, <2>5, <2>6
  <2> QED BY <1>1, <1>2, <1>4, <1>5, <2>7, Zenon DEF Counted
<1> QED BY <1>5, <1>6, <1>7, <1>8, <1>9, <1>10, <1>11, Zenon DEF HeapInv

\* The steps that write no header and leave the callers their blocks.
LEMMA SameHeaders ==
    ASSUME HeapType, NEW S, NEW c \in Callers, HeapInv(S, c), UNCHANGED <<hdr, held>>,
           NEW to \in {"idle", "count", "walk", "size", "link"}, pc' = [pc EXCEPT ![c] = to],
           DOMAIN current' = Callers, DOMAIN block' = Callers, pc[c] # "link", to # "link"
    PROVE  /\ HeapType' /\ Others(c)' /\ pc'[c] = to
           /\ Chain(hdr, S)' /\ Sizes(S, c)' /\ Owned(S)'
<1>1. /\ pc'[c] = to /\ Others(c)'
      /\ pc' \in [Callers -> {"idle", "count", "walk", "size", "link"}]
  BY StepOfCaller, Basics, Zenon
<1>2. HeapType'
  BY <1>1, Zenon DEF HeapType
<1>3. Chain(hdr, S)' /\ Owned(S)'
  BY Zenon DEF HeapInv, Chain, Owned, End
<1>4. Sizes(S, c)'
  <2>1. \A x \in S : hdr[x].size = End(hdr, x) - x - HEADER_SIZE
    BY Zenon DEF HeapInv, Sizes
  <2>2. \A x \in S : hdr'[x].size = End(hdr', x) - x - HEADER_SIZE
    BY <2>1, Zenon
  <2> QED BY <1>1, <2>2, Zenon DEF Sizes
<1> QED BY <1>1, <1>2, <1>3, <1>4, Zenon

\* heap_used catches up and the walk starts at the first block.
LEMMA CountKeeps ==
    ASSUME HeapType, NEW S, NEW c \in Callers, HeapInv(S, c), kfree_count(c)
    PROVE  HeapType' /\ HeapInv(S, c)'
<1>0. /\ Chain(hdr, S) /\ SumOf(hdr, UsedIn(S)) \in Int
      /\ \A b \in S : b \in Nat /\ hdr[b].size \in Nat
  BY Basics, Zenon
<1>1. /\ pc[c] = "count" /\ heap_used' = heap_used - hdr[block[c]].size
      /\ current' = [current EXCEPT ![c] = 0] /\ current'[c] = 0
      /\ DOMAIN block' = Callers /\ DOMAIN current' = Callers
      /\ pc' = [pc EXCEPT ![c] = "walk"] /\ UNCHANGED <<hdr, held, block, panicked>>
  BY Zenon DEF kfree_count, HeapType
<1>2. /\ HeapType' /\ Others(c)' /\ pc'[c] = "walk"
      /\ Chain(hdr, S)' /\ Sizes(S, c)' /\ Owned(S)'
  BY <1>1, SameHeaders, Zenon
<1>3. Walks(S, c)'
  <2>1. 0 \in S /\ \A b \in S : ~(b < 0)
    BY <1>0 DEF Chain
  <2> QED BY <1>1, <1>2, <2>1, Zenon DEF Walks
<1>4. Counted(S, c)'
  <2>1. /\ heap_used = SumOf(hdr, UsedIn(S)) + hdr[block[c]].size
        /\ block[c] \in S
    BY <1>1, Zenon DEF HeapInv, Counted
  <2>2. heap_used' = SumOf(hdr, UsedIn(S)) + 0
    BY <1>0, <1>1, <2>1
  <2>3. UsedIn(S)' = UsedIn(S)
    BY <1>1, Zenon DEF UsedIn
  <2> QED BY <1>1, <1>2, <2>2, <2>3, Zenon DEF Counted
<1> QED BY <1>2, <1>3, <1>4, Zenon DEF HeapInv

\* A step of the walk writes nothing but where it is.
LEMMA WalkKeeps ==
    ASSUME HeapType, NEW S, NEW c \in Callers, HeapInv(S, c), pc[c] = "walk",
           NEW to \in {"idle", "walk", "size"}, pc' = [pc EXCEPT ![c] = to],
           DOMAIN current' = Callers, DOMAIN block' = Callers,
           UNCHANGED <<hdr, held, heap_used, panicked>>, Walks(S, c)'
    PROVE  HeapType' /\ HeapInv(S, c)'
<1>1. /\ HeapType' /\ Others(c)' /\ pc'[c] = to
      /\ Chain(hdr, S)' /\ Sizes(S, c)' /\ Owned(S)'
  BY SameHeaders, Zenon
<1>2. Counted(S, c)'
  <2>1. heap_used = SumOf(hdr, UsedIn(S)) + 0
    BY Zenon DEF HeapInv, Counted
  <2>2. UsedIn(S)' = UsedIn(S)
    BY Zenon DEF UsedIn
  <2> QED BY <1>1, <2>1, <2>2, Zenon DEF Counted
<1> QED BY <1>1, <1>2, Zenon DEF HeapInv

\* The walk leaves a block that is not the first of a free pair.
LEMMA AdvanceKeeps ==
    ASSUME HeapType, NEW S, NEW c \in Callers, HeapInv(S, c), kfree_advance(c)
    PROVE  HeapType' /\ HeapInv(S, c)'
<1> DEFINE x == current[c]
           n == hdr[x].next
<1>1. /\ pc[c] = "walk" /\ n # Null /\ ~MayMerge(c)
      /\ current' = [current EXCEPT ![c] = n] /\ UNCHANGED <<hdr, heap_used, held, pc, block, panicked>>
  BY Zenon DEF kfree_advance, AtEnd
<1>2. /\ current'[c] = n /\ DOMAIN current' = Callers /\ DOMAIN block' = Callers
      /\ pc' = [pc EXCEPT ![c] = "walk"]
  <2>1. current'[c] = n /\ DOMAIN current' = Callers /\ DOMAIN block' = Callers
    BY <1>1, Zenon DEF HeapType
  <2>2. pc = [pc EXCEPT ![c] = "walk"]
    BY <1>1, Zenon DEF HeapType
  <2> QED BY <1>1, <2>1, <2>2, Zenon
<1>3. x \in S /\ \A b \in S : b < x => ~Pair(hdr, b)
  BY <1>1, Zenon DEF HeapInv, Walks
<1>4. n \in S /\ End(hdr, x) = n /\ \A b \in S : b \in Nat /\ (b <= x \/ n <= b)
  <2>0. hdr \in [Offsets -> Header] /\ Chain(hdr, S)
    BY Basics, Zenon
  <2>1. /\ hdr[x].next # Null => hdr[x].next \in S /\ End(hdr, x) = hdr[x].next
        /\ \A b \in S : b \in Nat
    <3> HIDE DEF x
    <3> QED BY <1>3, <2>0, ChainFacts, Zenon
  <2>2. \A b \in S : b <= x \/ End(hdr, x) <= b
    BY <1>3, Basics, Zenon DEF Chain
  <2> QED BY <1>1, <2>1, <2>2, Zenon
<1>5. ~Pair(hdr, x)
  BY <1>1, Zenon DEF MayMerge, Pair
<1> HIDE DEF x, n
<1>6. \A b \in S : b < n => b < x \/ b = x
  BY <1>3, <1>4
<1>7. \A b \in S : b < n => ~Pair(hdr, b)
  BY <1>3, <1>5, <1>6, Zenon
<1>8. Walks(S, c)'
  BY <1>1, <1>2, <1>4, <1>7, Zenon DEF Walks
<1> QED BY <1>1, <1>2, <1>8, WalkKeeps, Zenon

\* The walk has found a free pair.
LEMMA MergeKeeps ==
    ASSUME HeapType, NEW S, NEW c \in Callers, HeapInv(S, c), kfree_merge(c)
    PROVE  HeapType' /\ HeapInv(S, c)'
<1>1. /\ pc[c] = "walk" /\ hdr[current[c]].next # Null /\ MayMerge(c)
      /\ pc' = [pc EXCEPT ![c] = "size"]
      /\ UNCHANGED <<hdr, heap_used, held, current, block, panicked>>
  BY Zenon DEF kfree_merge, AtEnd
<1>2. pc'[c] = "size" /\ DOMAIN current' = Callers /\ DOMAIN block' = Callers
  BY <1>1, Zenon DEF HeapType
<1>3. Pair(hdr, current[c])
  BY <1>1, Zenon DEF MayMerge, Pair
<1>4. current[c] \in S /\ \A b \in S : b < current[c] => ~Pair(hdr, b)
  BY <1>1, Zenon DEF HeapInv, Walks
<1>5. Walks(S, c)'
  BY <1>1, <1>2, <1>3, <1>4, Zenon DEF Walks
<1> QED BY <1>1, <1>2, <1>5, WalkKeeps, Zenon

\* At the last block no free pair is left behind.
LEMMA ReturnKeeps ==
    ASSUME HeapType, NEW S, NEW c \in Callers, HeapInv(S, c), kfree_return(c)
    PROVE  HeapType' /\ HeapInv(S, c)'
<1> DEFINE x == current[c]
<1>1. /\ pc[c] = "walk" /\ AtEnd(c) /\ pc' = [pc EXCEPT ![c] = "idle"]
      /\ current' = [current EXCEPT ![c] = Null] /\ block' = [block EXCEPT ![c] = Null]
      /\ UNCHANGED <<hdr, heap_used, held, panicked>>
  BY Zenon DEF kfree_return
<1>2. pc'[c] = "idle" /\ DOMAIN current' = Callers /\ DOMAIN block' = Callers
  BY <1>1, Zenon DEF HeapType
<1>3. x \in S /\ \A b \in S : b < x => ~Pair(hdr, b)
  BY <1>1, Zenon DEF HeapInv, Walks
<1>4. /\ x \in Nat /\ HEAP_SIZE \in Nat
      /\ \A b \in S : b \in Nat /\ b < HEAP_SIZE
      /\ hdr[x].next = Null => End(hdr, x) = HEAP_SIZE
  BY <1>3, Basics, ChainFacts, Zenon
<1>5. \A b \in S : b <= x \/ End(hdr, x) <= b
  BY <1>3, Basics, Zenon DEF Chain
<1>6. hdr[x].next = Null
  <2>1. x # Null
    BY <1>4 DEF Null
  <2> QED BY <1>1, <2>1, Zenon DEF AtEnd
<1> HIDE DEF x
<1>7. \A b \in S : b < x \/ b = x
  BY <1>4, <1>5, <1>6
<1>8. \A b \in S : ~Pair(hdr, b)
  BY <1>3, <1>6, <1>7, Zenon DEF Pair
<1>9. Walks(S, c)'
  BY <1>1, <1>2, <1>8, Zenon DEF Walks
<1> QED BY <1>1, <1>2, <1>9, WalkKeeps, Zenon

\* The size of the absorbed block is added.
LEMMA SizeKeeps ==
    ASSUME HeapType, NEW S, NEW c \in Callers, HeapInv(S, c), kfree_size(c)
    PROVE  HeapType' /\ HeapInv(S, c)'
<1> DEFINE x == current[c]
           n == hdr[x].next
<1>1. /\ pc[c] = "size" /\ hdr' = [hdr EXCEPT ![x].size = Absorbed(x)]
      /\ pc' = [pc EXCEPT ![c] = "link"]
      /\ UNCHANGED <<heap_used, held, current, block, panicked>>
  BY Zenon DEF kfree_size
<1>2. /\ hdr \in [Offsets -> Header] /\ Chain(hdr, S) /\ Others(c)
      /\ S \subseteq Offsets /\ UsedIn(S) \in SUBSET Offsets
      /\ HEADER_SIZE \in Nat /\ \A b \in S : b \in Nat /\ hdr[b].size \in Nat
  BY Basics, Zenon
<1>3. x \in S /\ Pair(hdr, x) /\ \A b \in S : b < x => ~Pair(hdr, b)
  BY <1>1, Zenon DEF HeapInv, Walks
<1>4. hdr[x].free /\ n # Null /\ hdr[n].free
  BY <1>3, Zenon DEF Pair
<1>5. n \in S /\ n # x /\ End(hdr, x) = n /\ End(hdr, n) \in Nat
  <2>0. Good(hdr, S)
    BY <1>2, ChainGood, Zenon
  <2>1. n \in S /\ n # x /\ End(hdr, x) = n
    BY <1>3, <1>4, <2>0, Zenon DEF Good
  <2> QED BY <1>2, <2>1, ChainFacts, Zenon
<1>6. hdr[x].size = n - x - HEADER_SIZE /\ hdr[n].size = End(hdr, n) - n - HEADER_SIZE
  BY <1>1, <1>3, <1>5, SizeFacts, Zenon
<1>7. Absorbed(x) = End(hdr, n) - x - HEADER_SIZE /\ Absorbed(x) \in Nat
  <2>1. Absorbed(x) = hdr[x].size + HEADER_SIZE + hdr[n].size
    BY Zenon DEF Absorbed
  <2>2. x \in Nat /\ n \in Nat /\ hdr[x].size \in Nat /\ hdr[n].size \in Nat
    BY <1>2, <1>3, <1>5, Zenon
  <2> HIDE DEF x, n
  <2> QED BY <1>2, <1>5, <1>6, <2>1, <2>2
<1>8. /\ hdr' \in [Offsets -> Header] /\ hdr'[x].size = Absorbed(x)
      /\ \A b \in Offsets : hdr'[b].free = hdr[b].free /\ hdr'[b].next = hdr[b].next
      /\ \A b \in Offsets \ {x} : hdr'[b].size = hdr[b].size
  <2> DEFINE v == Absorbed(x)
  <2>1. x \in Offsets /\ v \in Nat /\ hdr' = [hdr EXCEPT ![x].size = v]
    BY <1>1, <1>2, <1>3, <1>7, Zenon
  <2> HIDE DEF x, v
  <2>2. /\ hdr' \in [Offsets -> Header] /\ hdr'[x].size = v
        /\ \A b \in Offsets : hdr'[b].free = hdr[b].free /\ hdr'[b].next = hdr[b].next
        /\ \A b \in Offsets \ {x} : hdr'[b].size = hdr[b].size
    BY <1>2, <2>1, WriteSize
  <2> QED BY <2>2, Zenon DEF v
<1>9. /\ pc'[c] = "link" /\ Others(c)'
      /\ pc' \in [Callers -> {"idle", "count", "walk", "size", "link"}]
  BY <1>1, <1>2, StepOfCaller, Zenon
<1>10. HeapType'
  BY <1>1, <1>8, <1>9, Zenon DEF HeapType
<1>11. Chain(hdr', S) /\ \A b \in S : End(hdr', b) = End(hdr, b)
  <2>1. \A b \in S : hdr'[b].next = hdr[b].next
    BY <1>2, <1>8, Zenon
  <2>2. \A b \in S : End(hdr', b) = End(hdr, b)
    BY <2>1, Zenon DEF End
  <2> QED BY <1>2, <2>1, <2>2, Zenon DEF Chain
<1>12. current'[c] = x /\ hdr'[x].next = n
  BY <1>1, <1>2, <1>3, <1>8, Zenon
<1> HIDE DEF x, n
<1>13. Sizes(S, c)'
  <2>1. \A b \in S \ {x} : hdr[b].size = End(hdr, b) - b - HEADER_SIZE
    BY <1>1, Zenon DEF HeapInv, Sizes
  <2>2. \A b \in S \ {x} : hdr'[b].size = End(hdr', b) - b - HEADER_SIZE
    BY <1>2, <1>8, <1>11, <2>1, Zenon
  <2>3. hdr'[x].size = End(hdr', hdr'[x].next) - x - HEADER_SIZE
    BY <1>5, <1>7, <1>8, <1>11, <1>12, Zenon
  <2> QED BY <1>9, <1>12, <2>2, <2>3, Zenon DEF Sizes
<1>14. Owned(S)'
  <2>1. \A h \in held :
            LET b == h.at - HEADER_SIZE
            IN  /\ h.at \in Int /\ h.size \in Nat /\ b \in S /\ ~hdr[b].free /\ h.size <= hdr[b].size
    BY Zenon DEF HeapInv, Owned
  <2>2. \A h \in held :
            LET b == h.at - HEADER_SIZE
            IN  b \in Offsets \ {x}
    BY <1>2, <1>4, <2>1, Zenon
  <2>3. \A g, h \in held : g.at = h.at => g = h
    BY Zenon DEF HeapInv, Owned
  <2> QED BY <1>1, <1>2, <1>8, <2>1, <2>2, <2>3, Zenon DEF Owned
<1>15. \A b \in S : Pair(hdr', b) <=> Pair(hdr, b)
  <2>1. \A b \in S : hdr[b].next # Null => hdr[b].next \in S
    BY <1>2, Zenon DEF Chain
  <2> QED BY <1>2, <1>8, <2>1, Zenon DEF Pair
<1>16. Walks(S, c)'
  BY <1>3, <1>9, <1>12, <1>15, Zenon DEF Walks
<1>17. Counted(S, c)'
  <2>1. heap_used = SumOf(hdr, UsedIn(S)) + 0
    BY <1>1, Zenon DEF HeapInv, Counted
  <2>2. UsedIn(S)' = UsedIn(S)
    BY <1>2, <1>8, Zenon DEF UsedIn
  <2>3. \A b \in UsedIn(S) : hdr'[b].size = hdr[b].size
    BY <1>2, <1>4, <1>8, Zenon DEF UsedIn
  <2>4. SumOf(hdr', UsedIn(S)) = SumOf(hdr, UsedIn(S))
    BY <1>2, <1>8, <2>3, SumSame, Zenon
  <2> QED BY <1>1, <1>9, <2>1, <2>2, <2>4, Zenon DEF Counted
<1> QED BY <1>9, <1>10, <1>11, <1>13, <1>14, <1>16, <1>17, Zenon DEF HeapInv

\* The absorbed block leaves the list.
LEMMA LinkKeeps ==
    ASSUME HeapType, NEW S, NEW c \in Callers, HeapInv(S, c), kfree_link(c)
    PROVE  HeapType' /\ \E T : HeapInv(T, c)'
<1> DEFINE x == current[c]
<1>0. PICK n : n = hdr[x].next
  OBVIOUS
<1> DEFINE T == S \ {n}
<1>1. /\ pc[c] = "link" /\ hdr' = [hdr EXCEPT ![x].next = hdr[@].next]
      /\ pc' = [pc EXCEPT ![c] = "walk"]
      /\ UNCHANGED <<heap_used, held, current, block, panicked>>
  BY Zenon DEF kfree_link
<1>2. /\ hdr \in [Offsets -> Header] /\ Chain(hdr, S) /\ Others(c)
      /\ S \subseteq Offsets /\ UsedIn(S) \in SUBSET Offsets
      /\ HEADER_SIZE \in Nat /\ \A b \in S : b \in Nat /\ hdr[b].next \in Int
  BY Basics, Zenon
<1>3. x \in S /\ Pair(hdr, x) /\ \A b \in S : b < x => ~Pair(hdr, b)
  BY <1>1, Zenon DEF HeapInv, Walks
<1>4. hdr[x].free /\ n # Null /\ hdr[n].free
  BY <1>0, <1>3, Zenon DEF Pair
<1>5. n \in S
  BY <1>0, <1>2, <1>3, <1>4, Zenon DEF Chain
<1>6. /\ hdr' \in [Offsets -> Header] /\ hdr'[x].next = hdr[n].next
      /\ \A b \in Offsets : hdr'[b].free = hdr[b].free /\ hdr'[b].size = hdr[b].size
      /\ \A b \in Offsets \ {x} : hdr'[b].next = hdr[b].next
  <2> DEFINE v == hdr[n].next
  <2>1. x \in Offsets /\ v \in Int /\ hdr' = [hdr EXCEPT ![x].next = v]
    BY <1>0, <1>1, <1>2, <1>3, <1>5, Zenon
  <2> HIDE DEF x, v
  <2>2. /\ hdr' \in [Offsets -> Header] /\ hdr'[x].next = v
        /\ \A b \in Offsets : hdr'[b].free = hdr[b].free /\ hdr'[b].size = hdr[b].size
        /\ \A b \in Offsets \ {x} : hdr'[b].next = hdr[b].next
    BY <1>2, <2>1, WriteNext
  <2> QED BY <2>2, Zenon DEF v
<1>7. /\ pc'[c] = "walk" /\ Others(c)'
      /\ pc' \in [Callers -> {"idle", "count", "walk", "size", "link"}]
  BY <1>1, <1>2, StepOfCaller, Zenon
<1>8. HeapType'
  BY <1>1, <1>6, <1>7, Zenon DEF HeapType
<1>9. current'[c] = x /\ n = hdr[x].next
  BY <1>0, <1>1, Zenon
<1>10. hdr[x].size = End(hdr, n) - x - HEADER_SIZE
  BY <1>0, <1>1, <1>3, Zenon DEF HeapInv, Sizes
<1>11. \A b \in S \ {x} : hdr[b].size = End(hdr, b) - b - HEADER_SIZE
  BY <1>1, Zenon DEF HeapInv, Sizes
<1> HIDE DEF x
<1>12. /\ Chain(hdr', T) /\ n # x /\ End(hdr', x) = End(hdr, n)
       /\ \A b \in S \ {x} : End(hdr', b) = End(hdr, b)
  <2>1. \A b \in S \ {x} : hdr'[b].next = hdr[b].next
    BY <1>2, <1>6, Zenon
  <2>2. /\ hdr \in [Offsets -> Header] /\ Chain(hdr, S) /\ x \in S /\ n = hdr[x].next
        /\ n # Null /\ hdr'[x].next = hdr[n].next
    BY <1>2, <1>3, <1>4, <1>6, <1>9, Zenon
  <2> QED BY <2>1, <2>2, ChainMerge
<1>13. Sizes(T, c)'
  <2>1. \A b \in S \ {x} : hdr'[b].size = End(hdr', b) - b - HEADER_SIZE
    BY <1>2, <1>6, <1>11, <1>12, Zenon
  <2>2. hdr'[x].size = End(hdr', x) - x - HEADER_SIZE
    BY <1>2, <1>3, <1>6, <1>10, <1>12, Zenon
  <2> QED BY <1>7, <2>1, <2>2, Zenon DEF Sizes
<1>14. Owned(T)'
  <2>1. \A h \in held :
            LET b == h.at - HEADER_SIZE
            IN  /\ h.at \in Int /\ h.size \in Nat /\ b \in S /\ ~hdr[b].free /\ h.size <= hdr[b].size
    BY Zenon DEF HeapInv, Owned
  <2>2. \A h \in held :
            LET b == h.at - HEADER_SIZE
            IN  b \in T /\ b \in Offsets
    BY <1>2, <1>4, <2>1, Zenon
  <2>3. \A g, h \in held : g.at = h.at => g = h
    BY Zenon DEF HeapInv, Owned
  <2> QED BY <1>1, <1>6, <2>1, <2>2, <2>3, Zenon DEF Owned
<1>15. ASSUME NEW b \in T, b < x PROVE ~Pair(hdr', b)
  <2>1. b \in S /\ ~Pair(hdr, b) /\ b # x
    <3>1. b \in Nat /\ x \in Nat
      BY <1>2, <1>3, Zenon
    <3>2. b # x
      BY <1>15, <3>1
    <3> QED BY <1>3, <1>15, <3>2, Zenon
  <2>2. hdr[b].next # Null => hdr[b].next \in Offsets
    BY <1>2, <2>1, Zenon DEF Chain
  <2>3. hdr'[b].next = hdr[b].next /\ hdr'[b].free = hdr[b].free
    BY <1>2, <1>6, <2>1, Zenon
  <2> QED BY <1>6, <2>1, <2>2, <2>3, Zenon DEF Pair
<1>16. Walks(T, c)'
  <2>1. x \in T
    BY <1>3, <1>12, Zenon
  <2> QED BY <1>7, <1>9, <1>15, <2>1, Zenon DEF Walks
<1>17. Counted(T, c)'
  <2>1. heap_used = SumOf(hdr, UsedIn(S)) + 0
    BY <1>1, Zenon DEF HeapInv, Counted
  <2>2. UsedIn(T)' = UsedIn(S)
    BY <1>2, <1>4, <1>6, Zenon DEF UsedIn
  <2>3. \A b \in UsedIn(S) : hdr'[b].size = hdr[b].size
    BY <1>2, <1>6, Zenon
  <2>4. SumOf(hdr', UsedIn(S)) = SumOf(hdr, UsedIn(S))
    BY <1>2, <1>6, <2>3, SumSame, Zenon
  <2> QED BY <1>1, <1>7, <2>1, <2>2, <2>4, Zenon DEF Counted
<1>18. HeapInv(T, c)'
  BY <1>7, <1>12, <1>13, <1>14, <1>16, <1>17, Zenon DEF HeapInv
<1> QED BY <1>8, <1>18, Zenon
-----------------------------------------------------------------------------
(***************************************************************************)
(* kmalloc.                                                                *)
(***************************************************************************)
LEMMA AlignedFacts ==
    ASSUME NEW r \in Nat PROVE Aligned(r) \in Nat /\ r <= Aligned(r)
<1>1. r % 4 \in 0 .. 3
  OBVIOUS
<1> QED BY <1>1 DEF Aligned

\* First fit finds a free block of the list that is large enough.
LEMMA FitsFacts ==
    ASSUME hdr \in [Offsets -> Header], NEW S, Chain(hdr, S), NEW size, Fits(size) # {}
    PROVE  LET b == Nth[Min(Fits(size))]
           IN  b \in S /\ hdr[b].free /\ hdr[b].size >= size
<1> DEFINE F == Fits(size)
<1>1. F \subseteq Listed /\ \A n \in F : hdr[Nth[n]].free /\ hdr[Nth[n]].size >= size
  BY Zenon DEF Fits
<1>2. F \subseteq Nat
  BY <1>1 DEF Listed
<1>3. F # {}
  OBVIOUS
<1> HIDE DEF F
<1>4. Min(F) \in F
  <2>1. \E n \in F : \A y \in F : n <= y
    BY <1>2, <1>3, LeastExists, Zenon
  <2> QED BY <2>1, Zenon DEF Min
<1>5. Nth[Min(F)] \in Blocks
  BY <1>1, <1>4, Zenon DEF Blocks
<1>6. Blocks = S
  BY BlocksAre, Zenon
<1> QED BY <1>1, <1>4, <1>5, <1>6 DEF F

\* The header of a block that is taken whole, or of one that is cut.
LEMMA TakeKeeps ==
    ASSUME HeapType, NEW S, NEW c \in Callers, HeapInv(S, c), pc[c] = "idle",
           NEW b \in S, hdr[b].free, NEW size \in Nat, size <= hdr[b].size, Take(b, size),
           NEW r \in Nat, r <= size, held' = held \cup {[at |-> b + HEADER_SIZE, size |-> r]},
           UNCHANGED <<pc, current, block, panicked>>
    PROVE  HeapType' /\ \E T : HeapInv(T, c)'
<1>0. /\ hdr \in [Offsets -> Header] /\ Chain(hdr, S) /\ Others(c)
      /\ S \subseteq Offsets /\ UsedIn(S) \in SUBSET Offsets /\ SumOf(hdr, UsedIn(S)) \in Int
      /\ HEADER_SIZE \in Nat /\ HEADER_SIZE > 0
      /\ \A x \in S : x \in Nat /\ hdr[x].size \in Nat /\ hdr[x].next \in Int
  BY Basics, Zenon
<1>1. \A x \in S : hdr[x].size = End(hdr, x) - x - HEADER_SIZE
  BY Zenon DEF HeapInv, Sizes
<1>2. \A x \in S : ~Pair(hdr, x)
  BY Zenon DEF HeapInv, Walks
<1>3. heap_used = SumOf(hdr, UsedIn(S)) + 0
  BY Zenon DEF HeapInv, Counted
<1>4. \A x \in S : /\ End(hdr, x) \in Nat /\ hdr[x].next # x
                   /\ hdr[x].next # Null => hdr[x].next \in S
  <2>1. Good(hdr, S)
    BY <1>0, ChainGood, Zenon
  <2> QED BY <2>1, Zenon DEF Good
\* What remains when the new headers and the blocks T are known.
<1>5. ASSUME NEW T, hdr' \in [Offsets -> Header], Chain(hdr', T), S \subseteq T,
             \A x \in T : hdr'[x].size = End(hdr', x) - x - HEADER_SIZE,
             \A x \in T : ~Pair(hdr', x),
             ~hdr'[b].free, r <= hdr'[b].size, heap_used' = heap_used + hdr'[b].size,
             \A x \in S \ {b} : hdr'[x].free = hdr[x].free /\ hdr'[x].size = hdr[x].size,
             \A x \in T \ S : hdr'[x].free
      PROVE  HeapType' /\ \E R : HeapInv(R, c)'
  <2>1. HeapType'
    BY <1>5, Zenon DEF HeapType
  <2>2. Others(c)' /\ pc'[c] = "idle"
    BY <1>0, Zenon DEF Others
  <2>3. Sizes(T, c)'
    BY <1>5, <2>2, Zenon DEF Sizes
  <2>4. Walks(T, c)'
    BY <1>5, <2>2, Zenon DEF Walks
  <2>5. Owned(T)'
    <3> DEFINE h == [at |-> b + HEADER_SIZE, size |-> r]
    <3>1. h.at \in Int /\ h.size = r /\ h.at - HEADER_SIZE = b
      BY <1>0
    <3>2. \A g \in held : /\ g.at \in Int /\ g.size \in Nat /\ g.at - HEADER_SIZE \in S
                          /\ ~hdr[g.at - HEADER_SIZE].free
                          /\ g.size <= hdr[g.at - HEADER_SIZE].size
      BY Zenon DEF HeapInv, Owned
    <3>3. \A g \in held : g.at - HEADER_SIZE # b
      BY <3>2, Zenon
    <3>4. \A g \in held : g.at # h.at
      BY <3>1, <3>3, Zenon
    <3> HIDE DEF h
    <3>5. held' = held \cup {h}
      BY Zenon DEF h
    <3>6. ASSUME NEW g \in held'
          PROVE  /\ g.at \in Int /\ g.size \in Nat
                 /\ g.at - HEADER_SIZE \in T /\ ~hdr'[g.at - HEADER_SIZE].free
                 /\ g.size <= hdr'[g.at - HEADER_SIZE].size
      <4>1. CASE g \in held
        <5>1. g.at - HEADER_SIZE \in S \ {b}
          BY <3>2, <3>3, <4>1, Zenon
        <5> QED BY <1>5, <3>2, <4>1, <5>1, Zenon
      <4>2. CASE g = h
        BY <1>5, <3>1, <4>2, Zenon
      <4> QED BY <3>5, <4>1, <4>2, Zenon
    <3>7. \A g, k \in held : g.at = k.at => g = k
      BY Zenon DEF HeapInv, Owned
    <3>8. \A g, k \in held' : g.at = k.at => g = k
      BY <3>4, <3>5, <3>7, Zenon
    <3> QED BY <3>6, <3>8, Zenon DEF Owned
  <2>6. Counted(T, c)'
    <3> DEFINE U == UsedIn(S)
               V == U \cup {b}
    <3>1. UsedIn(T)' = V /\ b \notin U /\ V \ {b} = U /\ b \in V
      BY <1>5, Zenon DEF UsedIn
    <3>2. V \in SUBSET Offsets /\ b \in Offsets
      BY <1>0, Zenon
    <3>3. \A x \in U : x \in S \ {b}
      BY Zenon DEF UsedIn
    <3> HIDE DEF U, V
    <3>4. SumOf(hdr', V) = hdr'[b].size + SumOf(hdr', V \ {b})
      BY <1>5, <3>1, <3>2, SumFacts, Zenon
    <3>5. U \in SUBSET Offsets /\ SumOf(hdr, U) \in Int
      BY <1>0, Zenon DEF U
    <3>6. SumOf(hdr', U) = SumOf(hdr, U)
      BY <1>0, <1>5, <3>3, <3>5, SumSame
    <3>7. hdr'[b].size \in Int
      BY <1>5, <3>2 DEF Header
    <3>8. heap_used = SumOf(hdr, U)
      BY <1>3, <3>5 DEF U
    <3>9. heap_used' = SumOf(hdr', V) + 0
      <4>1. heap_used' = heap_used + hdr'[b].size
        BY <1>5, Zenon
      <4>2. SumOf(hdr', V) = hdr'[b].size + SumOf(hdr, U)
        BY <3>1, <3>4, <3>6, Zenon
      <4> QED BY <3>5, <3>7, <3>8, <4>1, <4>2
    <3> QED BY <2>2, <3>1, <3>9, Zenon DEF Counted
  <2>7. HeapInv(T, c)'
    BY <1>5, <2>2, <2>3, <2>4, <2>5, <2>6, Zenon DEF HeapInv
  <2> QED BY <2>1, <2>7, Zenon
<1>6. CASE ~Splits(b, size)
  <2>1. hdr' = [hdr EXCEPT ![b].free = FALSE] /\ heap_used' = heap_used + hdr'[b].size
    BY <1>6, Zenon DEF Take
  <2>2. /\ hdr' \in [Offsets -> Header] /\ ~hdr'[b].free
        /\ \A x \in Offsets : hdr'[x].size = hdr[x].size /\ hdr'[x].next = hdr[x].next
        /\ \A x \in Offsets \ {b} : hdr'[x].free = hdr[x].free
    <3>1. hdr \in [Offsets -> Header] /\ b \in Offsets
      BY <1>0, Zenon
    <3> QED BY <2>1, <3>1, Zenon DEF Header
  <2>3. Chain(hdr', S) /\ \A x \in S : End(hdr', x) = End(hdr, x)
    <3>1. \A x \in S : hdr'[x].next = hdr[x].next
      BY <1>0, <2>2, Zenon
    <3>2. \A x \in S : End(hdr', x) = End(hdr, x)
      BY <3>1, Zenon DEF End
    <3> QED BY <1>0, <3>1, <3>2, Zenon DEF Chain
  <2>4. \A x \in S : hdr'[x].size = End(hdr', x) - x - HEADER_SIZE
    BY <1>0, <1>1, <2>2, <2>3, Zenon
  <2>5. ASSUME NEW x \in S, Pair(hdr', x) PROVE FALSE
    <3>1. x # b /\ hdr'[x].next = hdr[x].next /\ hdr[x].free /\ hdr[x].next # Null
      BY <1>0, <2>2, <2>5, Zenon DEF Pair
    <3>2. hdr[x].next \in S /\ hdr[x].next # b
      BY <1>4, <2>2, <2>5, <3>1, Zenon DEF Pair
    <3>3. hdr[hdr[x].next].free
      BY <1>0, <2>2, <2>5, <3>1, <3>2, Zenon DEF Pair
    <3> QED BY <1>2, <3>1, <3>3, Zenon DEF Pair
  <2>6. r <= hdr'[b].size
    <3>1. hdr'[b].size = hdr[b].size /\ hdr[b].size \in Nat
      BY <1>0, <2>2, Zenon
    <3> QED BY <3>1
  <2>7. \A x \in S \ {b} : hdr'[x].free = hdr[x].free /\ hdr'[x].size = hdr[x].size
    BY <1>0, <2>2, Zenon
  <2>8. S \subseteq S /\ \A x \in S \ S : hdr'[x].free
    OBVIOUS
  <2> QED BY <1>5, <2>1, <2>2, <2>3, <2>4, <2>5, <2>6, <2>7, <2>8, Zenon
<1>7. CASE Splits(b, size)
  <2>0. PICK rest : rest = b + HEADER_SIZE + size
    OBVIOUS
  <2> DEFINE T == S \cup {rest}
             left == hdr[b].size - size - HEADER_SIZE
             tail == [size |-> left, free |-> TRUE, next |-> hdr[b].next]
             head == [size |-> size, free |-> FALSE, next |-> rest]
  <2>1. hdr' = [hdr EXCEPT ![rest] = tail, ![b] = head] /\ heap_used' = heap_used + hdr'[b].size
    BY <1>7, <2>0, Zenon DEF Take, Split
  <2>2. /\ rest \in Nat /\ b \in Nat /\ left \in Nat
        /\ b + HEADER_SIZE <= rest /\ rest + HEADER_SIZE <= End(hdr, b)
        /\ left = End(hdr, b) - rest - HEADER_SIZE /\ size = rest - b - HEADER_SIZE
        /\ rest # b
    <3>1. b \in Nat /\ End(hdr, b) \in Nat /\ hdr[b].size = End(hdr, b) - b - HEADER_SIZE
      BY <1>0, <1>1, <1>4, Zenon
    <3>2. hdr[b].size > size + HEADER_SIZE + 4
      BY <1>7, Zenon DEF Splits
    <3> QED BY <1>0, <2>0, <3>1, <3>2
  <2>3. tail \in Header /\ head \in Header /\ b \in Offsets
    BY <1>0, <2>2 DEF Header
  <2>4. rest \in Offsets
    <3>1. HEAP_SIZE \in Nat /\ End(hdr, b) <= HEAP_SIZE /\ End(hdr, b) \in Nat
      BY <1>0, ChainFacts, Zenon
    <3> QED BY <1>0, <2>2, <3>1 DEF Offsets
  <2> HIDE DEF tail, head, left
  <2>5. /\ hdr' \in [Offsets -> Header] /\ hdr'[b] = head /\ hdr'[rest] = tail
        /\ \A x \in Offsets \ {b, rest} : hdr'[x] = hdr[x]
    BY <1>0, <2>1, <2>2, <2>3, <2>4, Zenon
  <2>6. /\ hdr'[b].size = size /\ ~hdr'[b].free /\ hdr'[b].next = rest
        /\ hdr'[rest].size = left /\ hdr'[rest].free /\ hdr'[rest].next = hdr[b].next
    <3>1. head.size = size /\ ~head.free /\ head.next = rest
      BY Zenon DEF head
    <3>2. tail.size = left /\ tail.free /\ tail.next = hdr[b].next
      BY Zenon DEF tail
    <3> QED BY <2>5, <3>1, <3>2, Zenon
  <2>7. rest \notin S
    <3>1. \A a \in S : a <= b \/ End(hdr, b) <= a
      BY <1>0, Zenon DEF Chain
    <3>2. ~(rest <= b) /\ ~(End(hdr, b) <= rest)
      BY <1>0, <1>4, <2>2
    <3> QED BY <3>1, <3>2, Zenon
  <2>8. \A x \in S \ {b} : hdr'[x] = hdr[x]
    BY <1>0, <2>5, <2>7, Zenon
  <2>9. /\ Chain(hdr', T) /\ End(hdr', b) = rest /\ End(hdr', rest) = End(hdr, b)
        /\ \A x \in S \ {b} : End(hdr', x) = End(hdr, x)
    <3>1. \A x \in S \ {b} : hdr'[x].next = hdr[x].next
      BY <2>8, Zenon
    <3>2. Cut(hdr, hdr', S, b, rest)
      BY <1>0, <2>2, <2>6, <3>1, Zenon DEF Cut
    <3>3. Chain(hdr', S \cup {rest})
      BY <3>2, ChainSplit, Zenon
    <3>4. End(hdr', b) = rest /\ End(hdr', rest) = End(hdr, b)
      BY <1>0, <1>4, <2>2, <2>6 DEF End, Null
    <3>6. \A x \in S \ {b} : End(hdr', x) = End(hdr, x)
      BY <3>1, Zenon DEF End
    <3> QED BY <3>3, <3>4, <3>6, Zenon
  <2>10. \A x \in T : hdr'[x].size = End(hdr', x) - x - HEADER_SIZE
    BY <1>1, <2>2, <2>6, <2>8, <2>9, Zenon
  <2>11. ASSUME NEW x \in T, Pair(hdr', x) PROVE FALSE
    <3>1. hdr'[x].free /\ hdr'[x].next # Null /\ hdr'[hdr'[x].next].free
      BY <2>11, Zenon DEF Pair
    <3>2. CASE x = rest
      <4>1. hdr[b].next \in S \ {b}
        BY <1>4, <2>6, <3>1, <3>2, Zenon
      <4> QED BY <1>2, <2>6, <2>8, <3>1, <3>2, <4>1, Zenon DEF Pair
    <3>3. CASE x \in S \ {b}
      <4>1. hdr[x].free /\ hdr[x].next # Null /\ hdr'[hdr[x].next].free
        BY <2>8, <3>1, <3>3, Zenon
      <4>2. hdr[x].next \in S \ {b}
        BY <1>4, <2>6, <3>3, <4>1, Zenon
      <4> QED BY <1>2, <2>8, <3>3, <4>1, <4>2, Zenon DEF Pair
    <3> QED BY <2>6, <3>1, <3>2, <3>3, Zenon
  <2>12. r <= hdr'[b].size
    BY <2>6, Zenon
  <2>13. \A x \in S \ {b} : hdr'[x].free = hdr[x].free /\ hdr'[x].size = hdr[x].size
    BY <2>8, Zenon
  <2>14. S \subseteq T /\ \A x \in T \ S : hdr'[x].free
    BY <2>6, Zenon
  <2> HIDE DEF T
  <2> QED BY <1>5, <2>1, <2>5, <2>6, <2>9, <2>10, <2>11, <2>12, <2>13, <2>14, Zenon
<1> QED BY <1>6, <1>7, Zenon

\* kmalloc takes the first block that fits.
LEMMA KmallocKeeps ==
    ASSUME HeapType, NEW S, NEW c \in Callers, HeapInv(S, c), pc[c] = "idle",
           NEW r \in Requests, kmalloc(r)
    PROVE  HeapType' /\ \E T : HeapInv(T, c)'
<1>0. PICK size : size = Aligned(r)
  OBVIOUS
<1>1. PICK b : b = Nth[Min(Fits(size))]
  OBVIOUS
<1>2. r \in Nat /\ size \in Nat /\ r <= size
  <2>1. r \in Nat
    BY HeapConstants, Zenon
  <2> QED BY <1>0, <2>1, AlignedFacts
<1>3. /\ Fits(size) # {} /\ Take(b, size)
      /\ held' = held \cup {[at |-> b + HEADER_SIZE, size |-> r]}
      /\ UNCHANGED <<pc, current, block, panicked>>
  BY <1>0, <1>1, Zenon DEF kmalloc
<1>4. hdr \in [Offsets -> Header] /\ Chain(hdr, S)
  BY Basics, Zenon
<1>5. b \in S /\ hdr[b].free /\ hdr[b].size >= size
  BY <1>1, <1>3, <1>4, FitsFacts, Zenon
<1>6. size <= hdr[b].size
  BY <1>2, <1>5, Basics, Zenon
<1> QED BY <1>2, <1>3, <1>5, <1>6, TakeKeeps, Zenon
-----------------------------------------------------------------------------
(***************************************************************************)
(* The theorems.                                                           *)
(***************************************************************************)
LEMMA InitInv == Init => IInv
<1> SUFFICES ASSUME Init PROVE IInv
  OBVIOUS
<1>0. HEADER_SIZE \in Nat /\ HEADER_SIZE > 0 /\ HEAP_SIZE \in Nat /\ HEAP_SIZE > HEADER_SIZE
  BY HeapConstants
<1>1. 0 \in Offsets /\ Kernel \in Callers
  BY <1>0 DEF Offsets, Callers
<1>2. HeapType
  <2>1. \A a \in Offsets : [size |-> IF a = 0 THEN HEAP_SIZE - HEADER_SIZE ELSE 0,
                            free |-> a = 0, next |-> Null] \in Header
    BY <1>0 DEF Header, Null
  <2>2. hdr \in [Offsets -> Header]
    BY <2>1, Zenon DEF Init
  <2> QED BY <2>2, Zenon DEF Init, HeapType
<1>3. hdr[0].size = HEAP_SIZE - HEADER_SIZE /\ hdr[0].free /\ hdr[0].next = Null
  BY <1>1, Zenon DEF Init
<1>4. End(hdr, 0) = HEAP_SIZE
  BY <1>3, Zenon DEF End
<1>5. Chain(hdr, {0})
  BY <1>0, <1>1, <1>3, <1>4 DEF Chain
<1>6. \A c \in Callers : pc[c] = "idle"
  BY Zenon DEF Init
<1>7. Sizes({0}, Kernel)
  BY <1>0, <1>1, <1>3, <1>4, <1>6 DEF Sizes
<1>8. Owned({0})
  BY Zenon DEF Owned, Init
<1>9. Walks({0}, Kernel)
  BY <1>1, <1>3, <1>6, Zenon DEF Walks, Pair
<1>10. Counted({0}, Kernel)
  <2>1. UsedIn({0}) = {}
    BY <1>3, Zenon DEF UsedIn
  <2>2. SumOf(hdr, {}) = 0
    BY <1>2, SumFacts, Zenon DEF HeapType
  <2>3. heap_used = 0
    BY Zenon DEF Init
  <2>4. heap_used = SumOf(hdr, UsedIn({0})) + 0
    BY <2>1, <2>2, <2>3
  <2>5. pc[Kernel] = "idle"
    BY <1>1, <1>6, Zenon
  <2> QED BY <2>4, <2>5, Zenon DEF Counted
<1>11. Others(Kernel)
  BY <1>6, Zenon DEF Others
<1>12. HeapInv({0}, Kernel)
  BY <1>5, <1>7, <1>8, <1>9, <1>10, <1>11, Zenon DEF HeapInv
<1> QED BY <1>1, <1>2, <1>12, Zenon DEF IInv

\* A panic and the halted machine leave the heap alone.
LEMMA StutterKeeps ==
    ASSUME IInv, UNCHANGED <<hdr, heap_used, held, pc, current, block>> PROVE IInv'
<1>1. HeapType'
  BY Zenon DEF IInv, HeapType
<1>2. PICK S : \E c \in Callers : HeapInv(S, c)
  BY Zenon DEF IInv
<1>3. PICK c \in Callers : HeapInv(S, c)
  BY <1>2, Zenon
<1>4. Others(c)' /\ Chain(hdr', S) /\ Owned(S)'
  BY <1>3, Zenon DEF HeapInv, Others, Owned
<1>5. Sizes(S, c)' /\ Walks(S, c)' /\ Counted(S, c)'
  BY <1>3, Zenon DEF HeapInv, Sizes, Walks, Counted, UsedIn
<1>6. HeapInv(S, c)'
  BY <1>4, <1>5, Zenon DEF HeapInv
<1> QED BY <1>1, <1>6, Zenon DEF IInv

\* Every step keeps the invariant, if nobody can be suspended in kfree or nobody is.
LEMMA StepInv == IInv /\ [Next]_vars /\ (Waiters = {} \/ [Alone]_vars) => IInv'
<1> SUFFICES ASSUME IInv, [Next]_vars, Waiters = {} \/ [Alone]_vars PROVE IInv'
  OBVIOUS
<1> DEFINE Apart == Waiters = {} \/ Alone
<1>0. HeapType
  BY Zenon DEF IInv
<1>1. PICK S : \E c \in Callers : HeapInv(S, c)
  BY Zenon DEF IInv
<1>2. PICK c \in Callers : HeapInv(S, c)
  BY <1>1, Zenon
<1>3. ASSUME NEW d \in Callers, pc[d] # "idle" PROVE HeapInv(S, d)
  <2>1. c = d
    BY <1>2, <1>3, Zenon DEF HeapInv, Others
  <2> QED BY <1>2, <2>1, Zenon
<1>4. ASSUME NEW d \in Callers, pc[d] = "idle",
             \A e \in Callers \ {d} : pc'[e] = pc[e] /\ current'[e] = current[e], Apart
      PROVE  HeapInv(S, d)
  <2>1. CASE Waiters = {}
    <3>1. c = d
      BY <2>1, Zenon DEF Callers
    <3> QED BY <1>2, <3>1, Zenon
  <2>2. CASE Alone
    <3>1. pc[c] = "idle"
      BY <1>4, <2>2, Zenon DEF Alone
    <3> QED BY <1>2, <1>4, <3>1, AnyCaller, Zenon
  <2> QED BY <1>4, <2>1, <2>2, Zenon
<1>5. CASE UNCHANGED vars
  BY <1>5, StutterKeeps, Zenon DEF vars
<1>6. ASSUME Apart, NEW r \in Requests, kmalloc(r) PROVE IInv'
  <2>1. Kernel \in Callers /\ pc[Kernel] = "idle" /\ UNCHANGED <<pc, current>>
    BY <1>6, Zenon DEF kmalloc, Callers
  <2>2. HeapInv(S, Kernel)
    BY <1>4, <1>6, <2>1, Zenon
  <2>3. HeapType' /\ \E T : HeapInv(T, Kernel)'
    BY <1>0, <1>6, <2>1, <2>2, KmallocKeeps, Zenon
  <2> QED BY <2>1, <2>3, Zenon DEF IInv
<1>7. ASSUME NEW r \in Requests, kmalloc_panic(r) PROVE IInv'
  BY <1>7, StutterKeeps, Zenon DEF kmalloc_panic
<1>8. ASSUME Apart, NEW d \in Callers, NEW h \in held, kfree_mark(d, h) PROVE IInv'
  <2>1. /\ pc[d] = "idle"
        /\ \A e \in Callers \ {d} : pc'[e] = pc[e] /\ current'[e] = current[e]
    BY <1>0, <1>8, Zenon DEF kfree_mark, HeapType
  <2>2. HeapInv(S, d)
    BY <1>4, <1>8, <2>1, Zenon
  <2>3. HeapType' /\ HeapInv(S, d)'
    BY <1>0, <1>8, <2>2, MarkKeeps, Zenon
  <2> QED BY <1>8, <2>3, Zenon DEF IInv
<1>9. ASSUME NEW d \in Callers,
             \/ kfree_count(d) \/ kfree_advance(d) \/ kfree_merge(d)
             \/ kfree_size(d)  \/ kfree_link(d)    \/ kfree_return(d)
      PROVE  IInv'
  <2>1. pc[d] # "idle"
    BY <1>9, Zenon DEF kfree_count, kfree_advance, kfree_merge, kfree_size, kfree_link, kfree_return
  <2>2. HeapInv(S, d)
    BY <1>3, <1>9, <2>1, Zenon
  <2>3. HeapType' /\ \E T : HeapInv(T, d)'
    BY <1>0, <1>9, <2>2, CountKeeps, AdvanceKeeps, MergeKeeps, SizeKeeps, LinkKeeps,
       ReturnKeeps, Zenon
  <2> QED BY <1>9, <2>3, Zenon DEF IInv
<1>10. CASE Halted
  BY <1>10, StutterKeeps, Zenon DEF Halted, vars
<1>11. ASSUME Next, Apart PROVE IInv'
  BY <1>6, <1>7, <1>8, <1>9, <1>10, <1>11, Zenon DEF Next
<1> QED BY <1>5, <1>11, Zenon

\* Without a process in sys_wait the invariant holds throughout.
LEMMA UninterruptedInv == ASSUME Waiters = {} PROVE Spec => []IInv
<1>1. IInv /\ [Next]_vars => IInv'
  BY StepInv, Zenon
<1> QED BY <1>1, InitInv, PTL DEF Spec

\* When no other process runs between the steps of sys_wait's kfree, the list
\* tiles the heap, what is held is apart, heap_used is exact and no free blocks
\* are neighbours, for any number of processes in sys_wait (mem.c, syscall.c).
THEOREM SoundWhenAlone ==
    Spec /\ [][Alone]_vars => [](Layout /\ HeldDisjoint /\ UsedIsExact /\ Coalesced)
<1>1. IInv /\ [Next]_vars /\ [Alone]_vars => IInv'
  BY StepInv, Zenon
<1> QED BY <1>1, InitInv, InvImplies, PTL DEF Spec

\* "[header][data][header][data]..." (mem.c): after every kmalloc and kfree of
\* uninterrupted callers the list tiles the heap.
THEOREM BlocksTile == ASSUME Waiters = {} PROVE Spec => []Layout
<1> QED BY UninterruptedInv, InvImplies, PTL

\* What kmalloc has handed out never overlaps nor reaches into a header, while
\* a kfree merges blocks too.
THEOREM MemoryIsApart == ASSUME Waiters = {} PROVE Spec => []HeldDisjoint
<1> QED BY UninterruptedInv, InvImplies, PTL

\* The "Used" bytes that the memory statistics print (mem.c) are the sizes of the
\* blocks in use.
THEOREM UsageIsExact == ASSUME Waiters = {} PROVE Spec => []UsedIsExact
<1> QED BY UninterruptedInv, InvImplies, PTL

\* The one walk of kfree leaves no two free blocks next to each other.
THEOREM OneWalkCoalesces == ASSUME Waiters = {} PROVE Spec => []Coalesced
<1> QED BY UninterruptedInv, InvImplies, PTL
=============================================================================
