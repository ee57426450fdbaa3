------------------------------ MODULE AsyncProofs ------------------------------
(***************************************************************************)
(* Proofs about AsyncMultiexp: async_compute_multiexponentiation returns   *)
(* what a multiexponentiation is defined to be, by each of its methods,    *)
(* for any generators, exponents, numbers of devices and sizes of chunks,  *)
(* buckets and blocks, in whatever order the chunks finish.                *)
(*                                                                         *)
(* Sums are formal, so they are equal if every generator's coefficient is; *)
(* the lemmas follow the coefficient of one generator.  They come in three *)
(* parts.  What a device computes of a chunk is a function: the sums of    *)
(* the buckets (ChunkBucketsAre), the sorted table and its sums            *)
(* (SortedResultIs), the products of the bits (ChunkProductsHold).  What   *)
(* is made of all chunks' data is another: BucketResultIs, CombineHolds.   *)
(* The invariant AsyncInv, last, ties the two together while chunks are    *)
(* running: what is in the arrays is right of the generators, or of the    *)
(* outputs, of the chunks that are done.                                   *)
(***************************************************************************)
EXTENDS AsyncMultiexp, MultiexpProofs

-----------------------------------------------------------------------------
(* Elements counted in order *)

(* How many elements of S come before x *)
RankIn(S, key, x) == Cardinality({y \in S : key[y] < key[x]})

InOrder(key, S) == \A x, y \in S : key[x] = key[y] => x = y

(* A smaller key is a smaller rank. *)
LEMMA RankAscends ==
  ASSUME NEW S, IsFiniteSet(S), NEW key \in [S -> Int], NEW x \in S, NEW y \in S, key[x] < key[y]
  PROVE  RankIn(S, key, x) < RankIn(S, key, y)
<1> DEFINE X == {u \in S : key[u] < key[x]}
           Y == {u \in S : key[u] < key[y]}
<1>1. X \subseteq Y /\ Y \subseteq S /\ x \in Y /\ x \notin X
  <2>1. \A u \in S : key[u] \in Int
    OBVIOUS
  <2> QED BY <2>1
<1> HIDE DEF X, Y
<1>2. IsFiniteSet(Y) /\ X \cup {x} \subseteq Y
  BY <1>1, FS_Subset
<1>3. IsFiniteSet(X) /\ IsFiniteSet(X \cup {x}) /\ Cardinality(X \cup {x}) <= Cardinality(Y)
  BY <1>1, <1>2, FS_Subset
<1>4. Cardinality(X \cup {x}) = Cardinality(X) + 1
  BY <1>1, <1>3, FS_AddElement
<1>5. Cardinality(X) \in Nat /\ Cardinality(Y) \in Nat
  BY <1>2, <1>3, FS_CardinalityType
<1>6. Cardinality(X) < Cardinality(Y)
  BY <1>3, <1>4, <1>5
<1> QED BY <1>6 DEF X, Y, RankIn

(* The ranks of a set of m elements are 0 .. m - 1, each of one element *)
LEMMA RankIs ==
  ASSUME NEW S, IsFiniteSet(S), NEW key \in [S -> Int], InOrder(key, S)
  PROVE  /\ Cardinality(S) \in Nat
         /\ \A x \in S : RankIn(S, key, x) \in 0 .. Cardinality(S) - 1
         /\ \A x, y \in S : RankIn(S, key, x) = RankIn(S, key, y) => x = y
         /\ \A r \in 0 .. Cardinality(S) - 1 : \E x \in S : RankIn(S, key, x) = r
<1> DEFINE m == Cardinality(S)
           rank == [x \in S |-> RankIn(S, key, x)]
<1>0. m \in Nat
  BY FS_CardinalityType
<1>1. ASSUME NEW x \in S PROVE RankIn(S, key, x) \in 0 .. m - 1
  <2> DEFINE X == {u \in S : key[u] < key[x]}
  <2>1. X \subseteq S \ {x} /\ S \ {x} \subseteq S
    OBVIOUS
  <2>2. IsFiniteSet(S \ {x}) /\ Cardinality(S \ {x}) = m - 1
    BY FS_RemoveElement
  <2> HIDE DEF X
  <2>3. IsFiniteSet(X) /\ Cardinality(X) <= m - 1
    BY <2>1, <2>2, FS_Subset
  <2>4. Cardinality(X) \in Nat
    BY <2>3, FS_CardinalityType
  <2> QED BY <1>0, <2>3, <2>4 DEF X, RankIn
<1>2. ASSUME NEW x \in S, NEW y \in S, RankIn(S, key, x) = RankIn(S, key, y) PROVE x = y
  <2>1. key[x] \in Int /\ key[y] \in Int
    OBVIOUS
  <2>2. RankIn(S, key, x) \in Int /\ RankIn(S, key, y) \in Int
    BY <1>1, <1>0
  <2>3. ~(key[x] < key[y]) /\ ~(key[y] < key[x])
    BY <1>2, <2>2, RankAscends
  <2> QED BY <2>1, <2>3 DEF InOrder
<1>3. rank \in [S -> 0 .. m - 1] /\ \A x, y \in S : rank[x] = rank[y] => x = y
  BY <1>1, <1>2
<1>4. IsFiniteSet(0 .. m - 1) /\ Cardinality(0 .. m - 1) = m
  <2>1. 0 \in Int /\ m - 1 \in Int /\ (0 > m - 1 <=> m = 0) /\ (m - 1) - 0 + 1 = m
    BY <1>0
  <2> HIDE DEF m
  <2> QED BY <1>0, <2>1, FS_Interval
<1>5. ASSUME NEW r \in 0 .. m - 1 PROVE \E x \in S : rank[x] = r
  <2> HIDE DEF rank
  <2>1. rank \in Injection(S, 0 .. m - 1)
    BY <1>3 DEF Injection, IsInjective
  <2>2. rank \in Surjection(S, 0 .. m - 1)
    BY <1>4, <2>1, FS_Injection
  <2> QED BY <2>2 DEF Surjection
<1>6. \A r \in 0 .. m - 1 : \E x \in S : RankIn(S, key, x) = r
  BY <1>5
<1> QED BY <1>0, <1>1, <1>2, <1>6

Below(S, class, b) == {x \in S : class[x] < b}

OfClass(S, class, b) == {x \in S : class[x] = b}

Ascends(S, key, class) == \A x, y \in S : class[x] < class[y] => key[x] < key[y]

(* The elements of the classes below b + 1: those below b, and those of b. *)
LEMMA BelowCounted ==
  ASSUME NEW S, IsFiniteSet(S), NEW class \in [S -> Int], NEW b \in Int
  PROVE  LET L == Below(S, class, b)
             C == OfClass(S, class, b)
             U == Below(S, class, b + 1)
         IN  /\ IsFiniteSet(L) /\ IsFiniteSet(C) /\ IsFiniteSet(U)
             /\ Cardinality(L) \in Nat /\ Cardinality(C) \in Nat /\ Cardinality(U) \in Nat
             /\ Cardinality(L) + Cardinality(C) = Cardinality(U)
             /\ Cardinality(U) <= Cardinality(S) /\ Cardinality(S) \in Nat
<1> DEFINE L == Below(S, class, b)
           C == OfClass(S, class, b)
           U == Below(S, class, b + 1)
<1>1. L \cap C = {} /\ L \cup C = U /\ L \subseteq S /\ C \subseteq S /\ U \subseteq S
  <2>0. \A u \in S : class[u] \in Int
    OBVIOUS
  <2>1. \A u \in S : class[u] < b + 1 <=> class[u] < b \/ class[u] = b
    BY <2>0
  <2>2. \A u \in S : ~(class[u] < b /\ class[u] = b)
    BY <2>0
  <2> QED BY <2>1, <2>2 DEF Below, OfClass
<1> HIDE DEF L, C, U
<1>2. /\ IsFiniteSet(L) /\ IsFiniteSet(C) /\ IsFiniteSet(U) /\ Cardinality(U) <= Cardinality(S)
      /\ Cardinality(L) \in Nat /\ Cardinality(C) \in Nat /\ Cardinality(U) \in Nat
      /\ Cardinality(S) \in Nat
  BY <1>1, FS_Subset, FS_CardinalityType
<1>3. Cardinality(L \cup C) = Cardinality(L) + Cardinality(C) - Cardinality({})
  <2>1. IsFiniteSet(L) /\ IsFiniteSet(C) /\ L \cap C = {}
    BY <1>1, <1>2
  <2> QED BY <2>1, FS_Union
<1>4. Cardinality(L) + Cardinality(C) = Cardinality(U)
  <2>1. Cardinality({}) = 0
    BY FS_EmptySet
  <2>2. Cardinality(U) = Cardinality(L) + Cardinality(C) - Cardinality({})
    BY <1>1, <1>3
  <2> QED BY <1>2, <2>1, <2>2
<1> QED BY <1>2, <1>4 DEF L, C, U

InItsPlace(S, key, class, b, x) ==
  class[x] = b <=> RankIn(S, key, x) \in Cardinality(Below(S, class, b)) .. Cardinality(Below(S, class, b + 1)) - 1

(* The elements of one class follow each other, behind the ones of the     *)
(* classes below.                                                          *)
LEMMA RankOfClass ==
  ASSUME NEW S, IsFiniteSet(S), NEW key \in [S -> Int], InOrder(key, S),
         NEW class \in [S -> Int], Ascends(S, key, class), NEW b \in Int, NEW x \in S
  PROVE  InItsPlace(S, key, class, b, x)
<1> DEFINE L == Below(S, class, b)
           C == OfClass(S, class, b)
           U == Below(S, class, b + 1)
           X == {u \in S : key[u] < key[x]}
<1>0. \A u \in S : class[u] \in Int /\ key[u] \in Int
  OBVIOUS
<1>1. IsFiniteSet(L) /\ IsFiniteSet(C) /\ IsFiniteSet(U) /\ Cardinality(U) <= Cardinality(S)
  BY BelowCounted
<1>2. /\ Cardinality(L) \in Nat /\ Cardinality(C) \in Nat /\ Cardinality(U) \in Nat
      /\ Cardinality(S) \in Nat
  BY BelowCounted
<1>3. Cardinality(L) + Cardinality(C) = Cardinality(U)
  BY BelowCounted
<1>4. IsFiniteSet(X) /\ Cardinality(X) \in Nat
  <2>1. X \subseteq S
    OBVIOUS
  <2> HIDE DEF X
  <2> QED BY <2>1, FS_Subset, FS_CardinalityType
<1>5. CASE class[x] = b
  <2>1. L \subseteq X /\ X \cup {x} \subseteq U /\ x \notin X
    <3>1. \A u \in S : class[u] < b => key[u] < key[x]
      BY <1>5 DEF Ascends
    <3>2. ASSUME NEW u \in S, key[u] < key[x] PROVE class[u] < b + 1
      <4>1. ~(key[x] < key[u])
        BY <1>0, <3>2
      <4>2. ~(class[x] < class[u])
        BY <4>1 DEF Ascends
      <4> QED BY <1>0, <1>5, <4>2
    <3> QED BY <1>0, <1>5, <3>1, <3>2 DEF Below
  <2> HIDE DEF L, C, U, InItsPlace
  <2>2. Cardinality(L) <= Cardinality(X)
    BY <1>1, <1>4, <2>1, FS_Subset
  <2>3. Cardinality(X \cup {x}) <= Cardinality(U) /\ Cardinality(X \cup {x}) = Cardinality(X) + 1
    <3> HIDE DEF X
    <3> QED BY <1>1, <1>4, <2>1, FS_Subset, FS_AddElement
  <2>4. Cardinality(X) \in Cardinality(L) .. Cardinality(L) + Cardinality(C) - 1
    BY <1>2, <1>3, <1>4, <2>2, <2>3
  <2>5. RankIn(S, key, x) = Cardinality(X)
    BY DEF RankIn
  <2> QED BY <1>1, <1>2, <1>3, <1>5, <2>4, <2>5 DEF L, C, U, InItsPlace
<1>6. CASE class[x] < b
  <2>1. X \cup {x} \subseteq L /\ x \notin X
    <3>1. ASSUME NEW u \in S, key[u] < key[x] PROVE class[u] < b
      <4>1. ~(key[x] < key[u])
        BY <1>0, <3>1
      <4>2. ~(class[x] < class[u])
        BY <4>1 DEF Ascends
      <4> QED BY <1>0, <1>6, <4>2
    <3> QED BY <1>0, <1>6, <3>1 DEF Below
  <2> HIDE DEF L, C, U, InItsPlace
  <2>2. Cardinality(X \cup {x}) <= Cardinality(L) /\ Cardinality(X \cup {x}) = Cardinality(X) + 1
    <3> HIDE DEF X
    <3> QED BY <1>1, <1>4, <2>1, FS_Subset, FS_AddElement
  <2>3. Cardinality(X) < Cardinality(L) /\ class[x] # b
    BY <1>0, <1>2, <1>6, <1>4, <2>2
  <2>4. RankIn(S, key, x) = Cardinality(X)
    BY DEF RankIn
  <2>5. Cardinality(X) \notin Cardinality(L) .. Cardinality(L) + Cardinality(C) - 1
    BY <1>2, <1>4, <2>3
  <2> QED BY <1>1, <1>2, <1>3, <2>3, <2>4, <2>5 DEF L, C, U, InItsPlace
<1>7. CASE class[x] > b
  <2>1. U \subseteq X
    <3>1. \A u \in S : class[u] < b + 1 => key[u] < key[x]
      <4> TAKE u \in S
      <4> HAVE class[u] < b + 1
      <4>1. class[u] < class[x]
        BY <1>0, <1>7
      <4> QED BY <4>1 DEF Ascends
    <3> QED BY <3>1 DEF Below
  <2> HIDE DEF L, C, U, InItsPlace
  <2>2. Cardinality(U) <= Cardinality(X)
    <3> HIDE DEF X
    <3> QED BY <1>1, <1>4, <2>1, FS_Subset
  <2>3. class[x] # b
    BY <1>0, <1>7
  <2>4. RankIn(S, key, x) = Cardinality(X)
    BY DEF RankIn
  <2>5. Cardinality(X) \notin Cardinality(L) .. Cardinality(L) + Cardinality(C) - 1
    BY <1>2, <1>3, <1>4, <2>2
  <2> QED BY <1>1, <1>2, <1>3, <2>3, <2>4, <2>5 DEF L, C, U, InItsPlace
<1> QED BY <1>0, <1>5, <1>6, <1>7

Separate(M, P) == \A p, q \in P : p # q => M[p] \cap M[q] = {}

(* The sizes of separate sets add up to the size of their union. *)
LEMMA UnionCounted ==
  ASSUME NEW P, IsFiniteSet(P), NEW M, \A p \in P : IsFiniteSet(M[p]), Separate(M, P)
  PROVE  /\ IsFiniteSet(UNION {M[p] : p \in P})
         /\ SumFunction([p \in P |-> Cardinality(M[p])]) = Cardinality(UNION {M[p] : p \in P})
<1> DEFINE f == [p \in P |-> Cardinality(M[p])]
           All(T) == UNION {M[p] : p \in T}
           G == {T \in SUBSET P : /\ IsFiniteSet(All(T))
                                  /\ SumFunctionOnSet(f, T) = Cardinality(All(T))}
<1>1. f \in [P -> Int]
  BY FS_CardinalityType
<1>2. {} \in G
  <2>1. All({}) = {}
    OBVIOUS
  <2>2. SumFunctionOnSet(f, {}) = 0
    <3> HIDE DEF f
    <3> QED BY <1>1, SumEmpty
  <2> QED BY <2>1, <2>2, FS_EmptySet
<1>3. ASSUME NEW T \in SUBSET P, NEW x \in P, T \in G, x \notin T PROVE T \cup {x} \in G
  <2>1. IsFiniteSet(T)
    BY FS_Subset
  <2>2. SumFunctionOnSet(f, T \cup {x}) = f[x] + SumFunctionOnSet(f, T)
    <3> HIDE DEF f
    <3> QED BY <1>1, <1>3, <2>1, SumIn
  <2>3. All(T \cup {x}) = All(T) \cup M[x] /\ All(T) \cap M[x] = {}
    BY <1>3 DEF Separate
  <2>4. f[x] = Cardinality(M[x]) /\ IsFiniteSet(M[x]) /\ Cardinality(M[x]) \in Nat
    BY FS_CardinalityType
  <2>5. SumFunctionOnSet(f, T) = Cardinality(All(T)) /\ IsFiniteSet(All(T)) /\ Cardinality(All(T)) \in Nat
    BY <1>3, FS_CardinalityType
  <2> HIDE DEF f, All
  <2>6. /\ IsFiniteSet(All(T) \cup M[x])
        /\ Cardinality(All(T) \cup M[x]) = Cardinality(All(T)) + Cardinality(M[x]) - Cardinality({})
    BY <2>3, <2>4, <2>5, FS_Union
  <2>7. Cardinality(All(T) \cup M[x]) = Cardinality(M[x]) + Cardinality(All(T))
    BY <2>4, <2>5, <2>6, FS_EmptySet
  <2>8. SumFunctionOnSet(f, T \cup {x}) = Cardinality(All(T \cup {x}))
    BY <2>2, <2>3, <2>4, <2>5, <2>7
  <2> QED BY <2>3, <2>6, <2>8
<1>4. P \in G
  <2> HIDE DEF G
  <2> QED BY <1>2, <1>3, FiniteSetInduction
<1>5. SumFunctionOnSet(f, P) = SumFunction(f)
  BY DEF SumFunction
<1> QED BY <1>4, <1>5

-----------------------------------------------------------------------------
(* Sums of integers *)

(* The product of two integers is one, and distributes over their sum *)
LEMMA ProductsOfIntegers ==
  ASSUME NEW a \in Int, NEW b \in Int, NEW c \in Int
  PROVE  /\ a * b \in Int /\ a * b = b * a
         /\ c * (a + b) = c * a + c * b
         /\ (a + 1) * b = a * b + b
         /\ (a * b) * c = a * (b * c)
OBVIOUS

(* What one more place, and one more running sum, add *)
PlaceAdded(u, t, x, base, p, after, q) ==
  u = base * t + x /\ q = base * p /\ after = x * p

(* One step of a fold from the last place down, its products named. *)
LEMMA PlaceStep ==
  ASSUME NEW t \in Int, NEW x \in Int, NEW base \in Int, NEW p \in Int,
         NEW u, NEW after, NEW q, PlaceAdded(u, t, x, base, p, after, q)
  PROVE  p * u = after + q * t /\ after \in Int /\ q * t \in Int /\ p * u \in Int
BY DEF PlaceAdded

MultipleAdded(u, t, x, j, after, k) == u = t + x /\ k = j + 1 /\ after = k * x

(* One step of the running sums of the reduction, its products named. *)
LEMMA RunningStep ==
  ASSUME NEW t \in Int, NEW x \in Int, NEW j \in Int,
         NEW u, NEW after, NEW k, MultipleAdded(u, t, x, j, after, k)
  PROVE  j * u + u = after + k * t /\ after \in Int /\ k * t \in Int /\ j * u \in Int
BY DEF MultipleAdded

IsScaled(sum, c, a, b) == sum = c * a + b

ScaledSum(f, g, c) == [x \in DOMAIN f |-> c * f[x] + g[x]]

(* A sum of scaled terms and further terms, term by term, is the scaled sum *)
(* and the further sum.                                                     *)
LEMMA SumScales ==
  ASSUME NEW D, IsFiniteSet(D), NEW f \in [D -> Int], NEW g \in [D -> Int], NEW c \in Int
  PROVE  /\ ScaledSum(f, g, c) \in [D -> Int]
         /\ SumFunction(f) \in Int /\ SumFunction(g) \in Int
         /\ IsScaled(SumFunction(ScaledSum(f, g, c)), c, SumFunction(f), SumFunction(g))
<1> DEFINE h == ScaledSum(f, g, c)
           G == {T \in SUBSET D : SumFunctionOnSet(h, T)
                                    = c * SumFunctionOnSet(f, T) + SumFunctionOnSet(g, T)}
<1>1. h \in [D -> Int] /\ \A x \in D : h[x] = c * f[x] + g[x]
  BY DEF ScaledSum
<1>2. \A T \in SUBSET D : /\ SumFunctionOnSet(f, T) \in Int /\ SumFunctionOnSet(g, T) \in Int
                          /\ SumFunctionOnSet(h, T) \in Int
  <2> TAKE T \in SUBSET D
  <2>1. IsFiniteSet(T)
    BY FS_Subset
  <2> HIDE DEF h
  <2> QED BY <1>1, <2>1, SumType
<1>3. {} \in G
  <2>1. SumFunctionOnSet(f, {}) = 0 /\ SumFunctionOnSet(g, {}) = 0 /\ SumFunctionOnSet(h, {}) = 0
    <3> HIDE DEF h
    <3> QED BY <1>1, SumEmpty
  <2> HIDE DEF h
  <2> QED BY <2>1
<1>4. ASSUME NEW T \in SUBSET D, NEW x \in D, T \in G, x \notin T PROVE T \cup {x} \in G
  <2>1. IsFiniteSet(T)
    BY FS_Subset
  <2> HIDE DEF h
  <2>2. /\ SumFunctionOnSet(f, T \cup {x}) = f[x] + SumFunctionOnSet(f, T)
        /\ SumFunctionOnSet(g, T \cup {x}) = g[x] + SumFunctionOnSet(g, T)
        /\ SumFunctionOnSet(h, T \cup {x}) = h[x] + SumFunctionOnSet(h, T)
    <3>1. x \notin T /\ h \in [D -> Int]
      BY <1>1, <1>4
    <3> QED BY <2>1, <3>1, SumIn
  <2>3. SumFunctionOnSet(h, T) = c * SumFunctionOnSet(f, T) + SumFunctionOnSet(g, T)
    BY <1>4
  <2>4. f[x] \in Int /\ SumFunctionOnSet(f, T) \in Int
    BY <1>2
  <2>5. c * (f[x] + SumFunctionOnSet(f, T)) = c * f[x] + c * SumFunctionOnSet(f, T)
    BY <2>4, ProductsOfIntegers
  <2>6. c * f[x] \in Int /\ c * SumFunctionOnSet(f, T) \in Int /\ g[x] \in Int
        /\ SumFunctionOnSet(g, T) \in Int
    BY <1>2, <2>4, ProductsOfIntegers
  <2>7. SumFunctionOnSet(h, T \cup {x})
          = c * SumFunctionOnSet(f, T \cup {x}) + SumFunctionOnSet(g, T \cup {x})
    BY <1>1, <2>2, <2>3, <2>5, <2>6
  <2> QED BY <2>7
<1>5. D \in G
  <2> HIDE DEF G
  <2> QED BY <1>3, <1>4, FiniteSetInduction
<1>6. SumFunctionOnSet(f, D) = SumFunction(f) /\ SumFunctionOnSet(g, D) = SumFunction(g)
  BY DEF SumFunction
<1>7. DOMAIN h = D /\ SumFunctionOnSet(h, D) = SumFunction(h)
  <2>1. DOMAIN h = D
    BY <1>1
  <2> HIDE DEF h
  <2> QED BY <2>1 DEF SumFunction
<1>8. SumFunction(f) \in Int /\ SumFunction(g) \in Int
  BY <1>2, <1>6
<1> QED BY <1>1, <1>5, <1>6, <1>7, <1>8 DEF IsScaled

Places(x, p, n) == [k \in 0 .. n - 1 |-> x[k] * p[k]]

ArePowers(p, base, n) == p[0] = 1 /\ \A k \in 0 .. n - 1 : p[k + 1] = base * p[k]

FromLastDown(t, x, base, n) ==
  /\ t[n - 1] = x[n - 1]
  /\ \A k \in 0 .. n - 2 : t[k] = base * t[k + 1] + x[k]

(* From the last place down, times the base and the next added: the value  *)
(* of the places x.                                                        *)
LEMMA PlacesAdded ==
  ASSUME NEW n \in Nat \ {0}, NEW base \in Int, NEW x \in [0 .. n - 1 -> Int],
         NEW p \in [0 .. n -> Int], ArePowers(p, base, n),
         NEW t \in [0 .. n - 1 -> Int], FromLastDown(t, x, base, n)
  PROVE  t[0] = SumFunction(Places(x, p, n))
<1> DEFINE h == Places(x, p, n)
<1>1. h \in [0 .. n - 1 -> Int] /\ \A k \in 0 .. n - 1 : h[k] = x[k] * p[k]
  <2>1. \A k \in 0 .. n - 1 : k \in 0 .. n /\ x[k] \in Int /\ p[k] \in Int
    OBVIOUS
  <2>2. \A k \in 0 .. n - 1 : x[k] * p[k] \in Int
    BY <2>1, ProductsOfIntegers
  <2> QED BY <2>2 DEF Places
<1> HIDE DEF h
<1>2. /\ Prefix(h, 0) = 0 /\ Prefix(h, n) = SumFunction(h)
      /\ \A m \in 0 .. n : Prefix(h, m) \in Int
      /\ \A m \in 0 .. n - 1 : Prefix(h, m + 1) = Prefix(h, m) + h[m]
  BY <1>1, PrefixIs
<1> DEFINE G == {k \in 0 .. n - 1 : t[0] = Prefix(h, k) + p[k] * t[k]}
<1>3. 0 \in G
  <2>1. p[0] = 1 /\ t[0] \in Int
    BY DEF ArePowers
  <2> QED BY <1>2, <2>1
<1>4. ASSUME NEW k \in 1 .. n - 1, k - 1 \in G PROVE k \in G
  <2>1. PICK j : j = k - 1
    OBVIOUS
  <2>2. j \in 0 .. n - 2 /\ j + 1 = k /\ j \in 0 .. n - 1 /\ j \in 0 .. n /\ k \in 0 .. n - 1 /\ k \in 0 .. n
    BY <2>1
  <2>3. t[0] = Prefix(h, j) + p[j] * t[j]
    BY <1>4, <2>1
  <2>4. t[j] = base * t[k] + x[j] /\ p[k] = base * p[j] /\ Prefix(h, k) = Prefix(h, j) + x[j] * p[j]
    BY <1>1, <1>2, <2>2 DEF FromLastDown, ArePowers
  <2>5. t[k] \in Int /\ x[j] \in Int /\ p[j] \in Int /\ Prefix(h, j) \in Int
    BY <1>2, <2>2
  <2>6. PICK after : after = x[j] * p[j]
    OBVIOUS
  <2>7. PlaceAdded(t[j], t[k], x[j], base, p[j], after, p[k])
    BY <2>4, <2>6 DEF PlaceAdded
  <2>8. p[j] * t[j] = after + p[k] * t[k] /\ after \in Int /\ p[k] * t[k] \in Int
    <3>1. PICK u, tk, xj, pj, pk : u = t[j] /\ tk = t[k] /\ xj = x[j] /\ pj = p[j] /\ pk = p[k]
      OBVIOUS
    <3>2. tk \in Int /\ xj \in Int /\ pj \in Int /\ base \in Int
      BY <2>5, <3>1
    <3>3. PlaceAdded(u, tk, xj, base, pj, after, pk)
      BY <2>7, <3>1
    <3>4. pj * u = after + pk * tk /\ after \in Int /\ pk * tk \in Int
      BY <3>2, <3>3, PlaceStep
    <3> QED BY <3>1, <3>4
  <2>9. t[0] = Prefix(h, k) + p[k] * t[k]
    BY <2>3, <2>4, <2>5, <2>6, <2>8
  <2> QED BY <2>2, <2>9
<1>5. n - 1 \in G
  <2> HIDE DEF G
  <2>1. n - 1 \in Nat /\ n - 1 \in 0 .. n - 1
    OBVIOUS
  <2> QED BY <1>3, <1>4, <2>1, BoundedInduction
<1>6. t[0] = Prefix(h, n - 1) + p[n - 1] * t[n - 1] /\ t[n - 1] = x[n - 1]
  BY <1>5 DEF FromLastDown
<1>7. /\ n - 1 \in 0 .. n - 1 /\ (n - 1) + 1 = n /\ p[n - 1] \in Int /\ x[n - 1] \in Int
      /\ p[n - 1] * x[n - 1] = x[n - 1] * p[n - 1]
  <2>1. n - 1 \in 0 .. n - 1 /\ n - 1 \in 0 .. n /\ (n - 1) + 1 = n
    OBVIOUS
  <2>2. p[n - 1] \in Int /\ x[n - 1] \in Int
    BY <2>1
  <2> QED BY <2>1, <2>2, ProductsOfIntegers
<1>8. Prefix(h, n) = Prefix(h, n - 1) + x[n - 1] * p[n - 1]
  BY <1>1, <1>2, <1>7
<1> QED BY <1>2, <1>6, <1>7, <1>8 DEF h

Multiples(x, n) == [k \in 0 .. n - 1 |-> (k + 1) * x[k]]

RunningSums(t, s, x, start, n) ==
  /\ t[n - 1] = x[n - 1] /\ s[n - 1] = start + x[n - 1]
  /\ \A k \in 0 .. n - 2 : t[k] = t[k + 1] + x[k] /\ s[k] = s[k + 1] + t[k]

(* combine_buckets_impl: the sums from the last bucket down, added up at   *)
(* every bucket, have bucket k for k + 1 times.                            *)
LEMMA RunningSumsAdded ==
  ASSUME NEW n \in Nat \ {0}, NEW start \in Int, NEW x \in [0 .. n - 1 -> Int],
         NEW t \in [0 .. n - 1 -> Int], NEW s \in [0 .. n - 1 -> Int], RunningSums(t, s, x, start, n)
  PROVE  s[0] = start + SumFunction(Multiples(x, n))
<1> DEFINE h == Multiples(x, n)
<1>1. h \in [0 .. n - 1 -> Int] /\ \A k \in 0 .. n - 1 : h[k] = (k + 1) * x[k]
  BY DEF Multiples
<1> HIDE DEF h
<1>2. /\ Prefix(h, 0) = 0 /\ Prefix(h, n) = SumFunction(h)
      /\ \A m \in 0 .. n : Prefix(h, m) \in Int
      /\ \A m \in 0 .. n - 1 : Prefix(h, m + 1) = Prefix(h, m) + h[m]
  BY <1>1, PrefixIs
<1> DEFINE G == {k \in 0 .. n - 1 : s[0] = Prefix(h, k) + k * t[k] + s[k]}
<1>3. 0 \in G
  <2>1. s[0] \in Int /\ t[0] \in Int
    OBVIOUS
  <2> QED BY <1>2, <2>1
<1>4. ASSUME NEW k \in 1 .. n - 1, k - 1 \in G PROVE k \in G
  <2>1. PICK j : j = k - 1
    OBVIOUS
  <2>2. j \in 0 .. n - 2 /\ j + 1 = k /\ j \in 0 .. n - 1 /\ j \in 0 .. n /\ k \in 0 .. n - 1 /\ k \in 0 .. n
    BY <2>1
  <2>3. s[0] = Prefix(h, j) + j * t[j] + s[j]
    BY <1>4, <2>1
  <2>4. t[j] = t[k] + x[j] /\ s[j] = s[k] + t[j] /\ Prefix(h, k) = Prefix(h, j) + k * x[j]
    BY <1>1, <1>2, <2>2 DEF RunningSums
  <2>5. j \in Int /\ k \in Int
    BY <2>2
  <2>6. t[k] \in Int /\ x[j] \in Int /\ s[k] \in Int /\ Prefix(h, j) \in Int /\ t[j] \in Int
    BY <1>2, <2>2
  <2>7. PICK after : after = k * x[j]
    OBVIOUS
  <2>8. MultipleAdded(t[j], t[k], x[j], j, after, k)
    BY <2>2, <2>4, <2>7 DEF MultipleAdded
  <2>9. j * t[j] + t[j] = after + k * t[k] /\ after \in Int /\ k * t[k] \in Int /\ j * t[j] \in Int
    BY <2>5, <2>6, <2>8, RunningStep
  <2>10. s[0] = Prefix(h, k) + k * t[k] + s[k]
    <3>1. s[j] = s[k] + t[j] /\ Prefix(h, k) = Prefix(h, j) + after
      BY <2>4, <2>7
    <3>2. PICK kt, jt : kt = k * t[k] /\ jt = j * t[j]
      OBVIOUS
    <3>3. jt + t[j] = after + kt /\ s[0] = Prefix(h, j) + jt + s[j]
          /\ kt \in Int /\ jt \in Int /\ after \in Int
      BY <2>3, <2>9, <3>2
    <3>4. PICK sk, tj, before : sk = s[k] /\ tj = t[j] /\ before = Prefix(h, j)
      OBVIOUS
    <3>5. /\ s[j] = sk + tj /\ s[0] = before + jt + s[j] /\ Prefix(h, k) = before + after
          /\ jt + tj = after + kt
      BY <3>1, <3>3, <3>4
    <3>6. sk \in Int /\ tj \in Int /\ before \in Int /\ kt \in Int /\ jt \in Int /\ after \in Int
      BY <2>6, <3>3, <3>4
    <3>7. s[0] = before + jt + (sk + tj)
      BY <3>5
    <3>8. before + jt + (sk + tj) = (before + after) + kt + sk
      BY <3>5, <3>6
    <3>9. s[0] = Prefix(h, k) + kt + sk
      BY <3>5, <3>7, <3>8
    <3> QED BY <3>2, <3>4, <3>9
  <2> QED BY <2>2, <2>10
<1>5. n - 1 \in G
  <2> HIDE DEF G
  <2>1. n - 1 \in Nat /\ n - 1 \in 0 .. n - 1
    OBVIOUS
  <2> QED BY <1>3, <1>4, <2>1, BoundedInduction
<1>6. PICK l : l = n - 1
  OBVIOUS
<1>7. l \in 0 .. n - 1 /\ l + 1 = n /\ l \in 0 .. n
  BY <1>6
<1>8. s[0] = Prefix(h, l) + l * x[l] + (start + x[l])
  BY <1>5, <1>6 DEF RunningSums
<1>9. Prefix(h, n) = Prefix(h, l) + n * x[l]
  BY <1>1, <1>2, <1>7
<1>10. x[l] \in Int /\ Prefix(h, l) \in Int /\ l * x[l] \in Int /\ n * x[l] = l * x[l] + x[l]
  <2>1. x[l] \in Int /\ Prefix(h, l) \in Int /\ l \in Int
    BY <1>2, <1>7
  <2>2. l * x[l] \in Int /\ (l + 1) * x[l] = l * x[l] + x[l]
    BY <2>1, ProductsOfIntegers
  <2> QED BY <1>7, <2>1, <2>2
<1>11. s[0] = start + Prefix(h, n)
  <2>1. PICK before, y, ly, ny, all :
          /\ before = Prefix(h, l) /\ y = x[l] /\ ly = l * x[l] /\ ny = n * x[l]
          /\ all = Prefix(h, n)
    OBVIOUS
  <2>2. s[0] = before + ly + (start + y) /\ all = before + ny
    BY <1>8, <1>9, <2>1
  <2>3. before \in Int /\ y \in Int /\ ly \in Int /\ ny = ly + y
    BY <1>10, <2>1
  <2>4. start \in Int
    OBVIOUS
  <2>5. s[0] = start + all
    BY <2>2, <2>3, <2>4
  <2> QED BY <2>1, <2>5
<1> QED BY <1>2, <1>11 DEF h

-----------------------------------------------------------------------------
(* The exponents: bytes, absolute values and bits *)

PlacePowers(w, n) == [k \in 0 .. n |-> PowerOf2(w * k)]

(* The values of the places of n digits of w bits. *)
LEMMA PlacePowersAre ==
  ASSUME NEW w \in Nat, NEW n \in Nat
  PROVE  /\ PlacePowers(w, n) \in [0 .. n -> Int]
         /\ \A k \in 0 .. n : PlacePowers(w, n)[k] \in Nat \ {0}
         /\ ArePowers(PlacePowers(w, n), PowerOf2(w), n)
<1> DEFINE p == PlacePowers(w, n)
<1>1. \A k \in 0 .. n : w * k \in Nat /\ p[k] = PowerOf2(w * k) /\ p[k] \in Nat \ {0}
  <2> TAKE k \in 0 .. n
  <2>1. w * k \in Nat
    OBVIOUS
  <2> QED BY <2>1, PowerStep DEF PlacePowers
<1>2. p[0] = 1
  <2>1. w * 0 = 0
    OBVIOUS
  <2> QED BY <1>1, <2>1, PowerStep
<1>3. ASSUME NEW k \in 0 .. n - 1 PROVE p[k + 1] = PowerOf2(w) * p[k]
  <2>1. k \in 0 .. n /\ k + 1 \in 0 .. n
    OBVIOUS
  <2>2. w * (k + 1) = w + w * k /\ w * k \in Nat
    OBVIOUS
  <2>3. PICK a : a = w * k
    OBVIOUS
  <2>4. p[k] = PowerOf2(a) /\ p[k + 1] = PowerOf2(w + a) /\ a \in Nat
    BY <1>1, <2>1, <2>2, <2>3
  <2>5. PowerOf2(w + a) = PowerOf2(w) * PowerOf2(a)
    BY <2>4, PowerSum
  <2> QED BY <2>4, <2>5
<1>4. p = [k \in 0 .. n |-> p[k]]
  BY DEF PlacePowers
<1> HIDE DEF p
<1>5. p \in [0 .. n -> Int]
  BY <1>1, <1>4
<1> QED BY <1>1, <1>2, <1>3, <1>5 DEF p, ArePowers

DigitAbove(a, q, base, x, d) == a \in 0 .. q - 1 /\ d = x * q /\ x \in 0 .. base - 1

(* A digit put above a number of fewer places keeps it below the next       *)
(* place.                                                                   *)
LEMMA DigitStep ==
  ASSUME NEW q \in Nat \ {0}, NEW base \in Nat \ {0}, NEW a, NEW x, NEW d,
         DigitAbove(a, q, base, x, d)
  PROVE  a + d \in 0 .. base * q - 1
<1>1. a \in 0 .. q - 1 /\ x \in 0 .. base - 1 /\ d = x * q
  BY DEF DigitAbove
<1>2. x + 1 <= base /\ x \in Nat /\ base - x \in Nat
  BY <1>1
<1>3. PICK c : c = base - x - 1
  OBVIOUS
<1>4. c \in Nat /\ base = (x + 1) + c
  BY <1>2, <1>3
<1>5. base * q = (x * q + q) + c * q
  <2>1. ((x + 1) + c) * q = (x * q + q) + c * q
    BY <1>2, <1>4
  <2> QED BY <1>4, <2>1
<1>6. c * q \in Nat /\ x * q \in Nat
  BY <1>2, <1>4
<1> QED BY <1>1, <1>5, <1>6

(* A number of n digits is below the value of place n. *)
LEMMA PlacesBelow ==
  ASSUME NEW w \in Nat, NEW n \in Nat, NEW x \in [0 .. n - 1 -> 0 .. PowerOf2(w) - 1]
  PROVE  SumFunction(Places(x, PlacePowers(w, n), n)) \in 0 .. PowerOf2(w * n) - 1
<1> DEFINE h == Places(x, PlacePowers(w, n), n)
<1>0. PowerOf2(w) \in Nat \ {0}
  BY PowerStep
<1>1. PICK p : p = PlacePowers(w, n)
  OBVIOUS
<1>2. (\A k \in 0 .. n : p[k] \in Nat \ {0}) /\ ArePowers(p, PowerOf2(w), n) /\ p[n] = PowerOf2(w * n)
  <2>1. (\A k \in 0 .. n : p[k] \in Nat \ {0}) /\ ArePowers(p, PowerOf2(w), n)
    BY <1>1, PlacePowersAre
  <2>2. p[n] = PowerOf2(w * n)
    BY <1>1, n \in 0 .. n DEF PlacePowers
  <2> QED BY <2>1, <2>2
<1>3. h \in [0 .. n - 1 -> Int] /\ \A k \in 0 .. n - 1 : h[k] = x[k] * p[k]
  <2>1. \A k \in 0 .. n - 1 : k \in 0 .. n /\ x[k] \in Int /\ p[k] \in Int
    BY <1>0, <1>2
  <2>2. \A k \in 0 .. n - 1 : x[k] * p[k] \in Int
    BY <2>1, ProductsOfIntegers
  <2> QED BY <1>1, <2>2 DEF Places
<1> HIDE DEF h
<1>4. /\ Prefix(h, 0) = 0 /\ Prefix(h, n) = SumFunction(h)
      /\ \A m \in 0 .. n - 1 : Prefix(h, m + 1) = Prefix(h, m) + h[m]
  BY <1>3, PrefixIs
<1> DEFINE G == {k \in 0 .. n : Prefix(h, k) \in 0 .. p[k] - 1}
<1>5. 0 \in G
  BY <1>2, <1>4 DEF ArePowers
<1>6. ASSUME NEW k \in 1 .. n, k - 1 \in G PROVE k \in G
  <2>1. PICK j : j = k - 1
    OBVIOUS
  <2>2. j \in 0 .. n - 1 /\ j + 1 = k /\ j \in 0 .. n
    BY <2>1
  <2>3. Prefix(h, j) \in 0 .. p[j] - 1 /\ x[j] \in 0 .. PowerOf2(w) - 1 /\ h[j] = x[j] * p[j]
    BY <1>3, <1>6, <2>1, <2>2
  <2>4. DigitAbove(Prefix(h, j), p[j], PowerOf2(w), x[j], h[j])
    BY <2>3 DEF DigitAbove
  <2>5. p[k] = PowerOf2(w) * p[j] /\ Prefix(h, k) = Prefix(h, j) + h[j]
    BY <1>2, <1>4, <2>2 DEF ArePowers
  <2>6. Prefix(h, j) + h[j] \in 0 .. PowerOf2(w) * p[j] - 1
    BY <1>0, <1>2, <2>2, <2>4, DigitStep
  <2> QED BY <2>5, <2>6
<1>7. n \in G
  <2> HIDE DEF G
  <2> QED BY <1>5, <1>6, BoundedInduction, n \in 0 .. n
<1> QED BY <1>2, <1>4, <1>7 DEF h

ValidExponents(e) == e \in ExponentSequences /\ Len(e.data) = e.n * e.element_nbytes

BytesOf(e, i) == [k \in 0 .. e.element_nbytes - 1 |-> e.data[i * e.element_nbytes + k + 1]]

ByteInside(k, i, nbytes, n, at_byte) == i \in 0 .. n - 1 /\ k \in 0 .. nbytes - 1 /\ at_byte = i * nbytes + k + 1

(* The bytes of element i lie in the data of the exponent sequence. *)
LEMMA ByteIsInside ==
  ASSUME NEW n \in Nat, NEW nbytes \in Nat \ {0}, NEW i, NEW k, NEW b, ByteInside(k, i, nbytes, n, b)
  PROVE  b \in 1 .. n * nbytes /\ n * nbytes \in Nat
<1>1. i \in 0 .. n - 1 /\ k \in 0 .. nbytes - 1 /\ b = i * nbytes + k + 1
  BY DEF ByteInside
<1>2. PICK c : c = n - 1 - i
  OBVIOUS
<1>3. c \in Nat /\ n = (i + 1) + c /\ i \in Nat
  BY <1>1, <1>2
<1>4. n * nbytes = (i * nbytes + nbytes) + c * nbytes
  <2>1. ((i + 1) + c) * nbytes = (i * nbytes + nbytes) + c * nbytes
    BY <1>3
  <2> QED BY <1>3, <2>1
<1>5. c * nbytes \in Nat /\ i * nbytes \in Nat
  BY <1>3
<1> QED BY <1>1, <1>4, <1>5

(* An exponent read without its sign is the number its bytes are the digits *)
(* of.                                                                      *)
LEMMA UnsignedIs ==
  ASSUME NEW e, ValidExponents(e), NEW i \in 0 .. e.n - 1
  PROVE  /\ e.n \in 0 .. NumGens /\ e.element_nbytes \in Nat \ {0} /\ NumBits(e) \in Nat \ {0}
         /\ BytesOf(e, i) \in [0 .. e.element_nbytes - 1 -> 0 .. PowerOf2(ByteBits) - 1]
         /\ Unsigned(e, i)
              = SumFunction(Places(BytesOf(e, i), PlacePowers(ByteBits, e.element_nbytes), e.element_nbytes))
         /\ Unsigned(e, i) \in 0 .. PowerOf2(NumBits(e)) - 1
<1>1. /\ e.n \in 0 .. NumGens /\ e.element_nbytes \in Nat \ {0}
      /\ e.data \in Seq(0 .. PowerOf2(ByteBits) - 1) /\ Len(e.data) = e.n * e.element_nbytes
  BY DEF ValidExponents, ExponentSequences
<1>2. ByteBits \in Nat \ {0} /\ NumBits(e) \in Nat \ {0} /\ e.n \in Nat
  BY <1>1, GroupAssumption DEF NumBits
<1> DEFINE nb == e.element_nbytes
<1>3. ASSUME NEW k \in 0 .. nb - 1
      PROVE  e.data[i * nb + k + 1] \in 0 .. PowerOf2(ByteBits) - 1
  <2>1. ByteInside(k, i, nb, e.n, i * nb + k + 1)
    BY DEF ByteInside
  <2>2. i * nb + k + 1 \in 1 .. Len(e.data)
    BY <1>1, <1>2, <2>1, ByteIsInside
  <2>3. PICK b : b = i * nb + k + 1
    OBVIOUS
  <2>4. PICK data, S : data = e.data /\ S = 0 .. PowerOf2(ByteBits) - 1
    OBVIOUS
  <2>5. data \in Seq(S) /\ b \in 1 .. Len(data)
    BY <1>1, <2>2, <2>3, <2>4
  <2>6. data[b] \in S
    BY <2>5
  <2> QED BY <2>3, <2>4, <2>6
<1>4. BytesOf(e, i) \in [0 .. nb - 1 -> 0 .. PowerOf2(ByteBits) - 1]
  BY <1>3 DEF BytesOf
<1>5. Unsigned(e, i) = SumFunction(Places(BytesOf(e, i), PlacePowers(ByteBits, nb), nb))
  <2> DEFINE f == [k \in 0 .. nb - 1 |-> e.data[i * nb + k + 1] * PowerOf2(ByteBits * k)]
             h == Places(BytesOf(e, i), PlacePowers(ByteBits, nb), nb)
  <2>1. ASSUME NEW k \in 0 .. nb - 1 PROVE f[k] = h[k]
    <3>1. k \in 0 .. nb
      BY <1>1
    <3> QED BY <3>1 DEF Places, BytesOf, PlacePowers
  <2>2. f = h
    BY <2>1 DEF Places
  <2>3. Unsigned(e, i) = SumFunction(f)
    BY DEF Unsigned, Total
  <2> QED BY <2>2, <2>3
<1>6. Unsigned(e, i) \in 0 .. PowerOf2(NumBits(e)) - 1
  <2>1. SumFunction(Places(BytesOf(e, i), PlacePowers(ByteBits, nb), nb)) \in 0 .. PowerOf2(ByteBits * nb) - 1
    BY <1>1, <1>2, <1>4, PlacesBelow
  <2> QED BY <1>5, <2>1 DEF NumBits
<1> QED BY <1>1, <1>2, <1>4, <1>5, <1>6

(* The absolute value of an exponent fits in its bits, the least number     *)
(* included.                                                                *)
LEMMA AbsIs ==
  ASSUME NEW e, ValidExponents(e), NEW i \in 0 .. e.n - 1
  PROVE  /\ IsNegative(e, i) \in BOOLEAN
         /\ AbsToUnsigned(e, i) \in 0 .. PowerOf2(NumBits(e)) - 1
<1>1. NumBits(e) \in Nat \ {0} /\ Unsigned(e, i) \in 0 .. PowerOf2(NumBits(e)) - 1
  BY UnsignedIs
<1>2. PICK N : N = NumBits(e) - 1
  OBVIOUS
<1>3. N \in Nat /\ N + 1 = NumBits(e)
  BY <1>1, <1>2
<1>4. PowerOf2(N) \in Nat \ {0} /\ PowerOf2(NumBits(e)) = 2 * PowerOf2(N)
  BY <1>3, PowerStep
<1>5. IsNegative(e, i) \in BOOLEAN
  <2>1. e.is_signed \in BOOLEAN
    BY DEF ValidExponents, ExponentSequences
  <2> QED BY <2>1 DEF IsNegative
<1>6. CASE IsNegative(e, i)
  <2>1. Unsigned(e, i) >= PowerOf2(N)
    BY <1>2, <1>6 DEF IsNegative
  <2>2. AbsToUnsigned(e, i) = PowerOf2(NumBits(e)) - Unsigned(e, i)
    BY <1>6 DEF AbsToUnsigned
  <2> QED BY <1>1, <1>4, <1>5, <2>1, <2>2
<1>7. CASE ~IsNegative(e, i)
  <2>1. AbsToUnsigned(e, i) = Unsigned(e, i)
    BY <1>7 DEF AbsToUnsigned
  <2> QED BY <1>1, <1>5, <2>1
<1> QED BY <1>6, <1>7

BitsOf(a, n) == [b \in 0 .. n - 1 |-> Bit(a, b)]

Halves(a, q, r, m) == a = q * m + r /\ r \in 0 .. m - 1

(* Taking one more bit off a number. *)
LEMMA NextBit ==
  ASSUME NEW a \in Int, NEW q \in Int, NEW r, NEW m \in Nat \ {0}, Halves(a, q, r, m)
  PROVE  \E c \in Int : /\ q = c * 2 + (q % 2) /\ (q % 2) \in {0, 1}
                        /\ Halves(a, c, (q % 2) * m + r, 2 * m)
<1>1. a = q * m + r /\ r \in 0 .. m - 1
  BY DEF Halves
<1>2. PICK c : c = q \div 2
  OBVIOUS
<1>3. c \in Int /\ (q % 2) \in 0 .. 1 /\ q = c * 2 + (q % 2)
  BY <1>2, DivisionRange, 2 \in Nat \ {0}
<1>4. PICK e : e = q % 2
  OBVIOUS
<1>5. e \in {0, 1} /\ q = c * 2 + e
  BY <1>3, <1>4
<1>6. a = c * (2 * m) + (e * m + r)
  <2>1. (c * 2 + e) * m = c * (2 * m) + e * m
    BY <1>3, <1>5
  <2>2. c * (2 * m) \in Int /\ e * m \in Int /\ r \in Int
    BY <1>1, <1>3, <1>5
  <2> QED BY <1>1, <1>5, <2>1, <2>2
<1>7. e * m + r \in 0 .. 2 * m - 1
  BY <1>1, <1>5
<1> QED BY <1>3, <1>4, <1>5, <1>6, <1>7 DEF Halves

(* A number is the sum of the powers of two whose bits it has *)
LEMMA BitsAddUp ==
  ASSUME NEW n \in Nat, NEW a \in 0 .. PowerOf2(n) - 1
  PROVE  /\ BitsOf(a, n) \in [0 .. n - 1 -> {0, 1}]
         /\ SumFunction(Places(BitsOf(a, n), PlacePowers(1, n), n)) = a
<1> DEFINE h == Places(BitsOf(a, n), PlacePowers(1, n), n)
<1>0. \A k \in Nat : PowerOf2(k) \in Nat \ {0} /\ PowerOf2(k + 1) = 2 * PowerOf2(k)
  BY PowerStep
<1>1. a \in Int /\ PowerOf2(n) \in Nat \ {0}
  BY <1>0
<1>2. BitsOf(a, n) \in [0 .. n - 1 -> {0, 1}]
  <2>1. \A b \in 0 .. n - 1 : Bit(a, b) \in {0, 1}
    BY <1>1, BitType
  <2> QED BY <2>1 DEF BitsOf
<1>3. \A k \in 0 .. n - 1 : h[k] = Bit(a, k) * PowerOf2(k) /\ h[k] \in Int
  <2> TAKE k \in 0 .. n - 1
  <2>1. k \in Nat /\ k \in 0 .. n /\ 1 * k = k
    OBVIOUS
  <2>2. h[k] = Bit(a, k) * PowerOf2(k)
    BY <2>1 DEF Places, BitsOf, PlacePowers
  <2>3. Bit(a, k) \in Int /\ PowerOf2(k) \in Int
    <3>1. Bit(a, k) \in {0, 1}
      BY <1>1, <2>1, BitType
    <3> QED BY <1>0, <2>1, <3>1
  <2> QED BY <2>2, <2>3, ProductsOfIntegers
<1>4. h \in [0 .. n - 1 -> Int]
  <2>1. h = [k \in 0 .. n - 1 |-> h[k]]
    BY DEF Places
  <2> HIDE DEF h
  <2> QED BY <1>3, <2>1
<1> HIDE DEF h
<1>5. /\ Prefix(h, 0) = 0 /\ Prefix(h, n) = SumFunction(h)
      /\ \A m \in 0 .. n - 1 : Prefix(h, m + 1) = Prefix(h, m) + h[m]
  BY <1>4, PrefixIs
<1> DEFINE G == {k \in 0 .. n : Halves(a, a \div PowerOf2(k), Prefix(h, k), PowerOf2(k))}
<1>6. 0 \in G
  <2>1. PowerOf2(0) = 1 /\ (a \div 1) = a /\ a * 1 + 0 = a
    BY <1>1, PowerStep
  <2> QED BY <1>5, <2>1 DEF Halves
<1>7. ASSUME NEW k \in 1 .. n, k - 1 \in G PROVE k \in G
  <2>1. PICK j : j = k - 1
    OBVIOUS
  <2>2. j \in 0 .. n - 1 /\ j + 1 = k /\ j \in 0 .. n /\ j \in Nat /\ k \in Nat
    BY <2>1
  <2>3. PICK q, m : q = a \div PowerOf2(j) /\ m = PowerOf2(j)
    OBVIOUS
  <2>4. m \in Nat \ {0} /\ q \in Int /\ PowerOf2(k) = 2 * m
    BY <1>0, <1>1, <2>2, <2>3, DivisionRange
  <2>5. Halves(a, q, Prefix(h, j), m)
    BY <1>7, <2>1, <2>3
  <2>6. PICK c \in Int : Halves(a, c, (q % 2) * m + Prefix(h, j), 2 * m)
    BY <1>1, <2>4, <2>5, NextBit
  <2>7. (q % 2) * m + Prefix(h, j) = Prefix(h, k)
    <3>1. h[j] = (q % 2) * m
      BY <1>3, <2>2, <2>3 DEF Bit
    <3>2. h[j] \in Int /\ Prefix(h, j) \in Int
      BY <1>3, <2>2, <2>5 DEF Halves
    <3> QED BY <1>5, <2>2, <3>1, <3>2
  <2>8. Halves(a, c, Prefix(h, k), PowerOf2(k))
    BY <2>4, <2>6, <2>7
  <2>9. c = a \div PowerOf2(k)
    <3>1. PowerOf2(k) \in Nat \ {0}
      BY <1>0, <2>2
    <3>2. a = c * PowerOf2(k) + Prefix(h, k) /\ Prefix(h, k) \in 0 .. PowerOf2(k) - 1
      BY <2>8 DEF Halves
    <3>3. ((c * PowerOf2(k) + Prefix(h, k)) \div PowerOf2(k)) = c
      BY <3>1, <3>2, DivisionIs
    <3> QED BY <3>2, <3>3
  <2> QED BY <2>8, <2>9
<1>8. n \in G
  <2> HIDE DEF G
  <2> QED BY <1>6, <1>7, BoundedInduction, n \in 0 .. n
<1>9. (a \div PowerOf2(n)) = 0
  <2>1. 0 * PowerOf2(n) + a = a /\ 0 \in Int
    BY <1>1
  <2> QED BY <1>1, <2>1, DivisionIs
<1>10. a = Prefix(h, n)
  BY <1>1, <1>8, <1>9 DEF Halves
<1> QED BY <1>2, <1>5, <1>10 DEF h

-----------------------------------------------------------------------------
(* Recursions from the last place down, and repeated doubling *)

IsDown(f, n, base, step) ==
  f[n - 1] = base /\ \A i \in 0 .. n - 2 : f[i] = step[i][f[i + 1]]

(* There is a function that descends through given steps. *)
LEMMA DownExists ==
  ASSUME NEW n \in Nat \ {0}, NEW V, NEW base \in V, NEW step \in [0 .. n - 2 -> [V -> V]]
  PROVE  \E f \in [0 .. n - 1 -> V] : IsDown(f, n, base, step)
<1> DEFINE up == [k \in 1 .. n - 1 |-> step[n - 1 - k]]
<1>0. n - 1 \in Nat /\ \A k \in 1 .. n - 1 : n - 1 - k \in 0 .. n - 2 /\ k - 1 \in 0 .. n - 1 /\ k \in 0 .. n - 1
  OBVIOUS
<1>1. up \in [1 .. n - 1 -> [V -> V]] /\ \A k \in 1 .. n - 1 : up[k] = step[n - 1 - k]
  BY <1>0
<1> HIDE DEF up
<1>2. PICK r \in [0 .. n - 1 -> V] : IsLoop(r, n - 1, base, up)
  BY <1>0, <1>1, LoopExists
<1> DEFINE f == [i \in 0 .. n - 1 |-> r[n - 1 - i]]
<1>3. \A i \in 0 .. n - 1 : n - 1 - i \in 0 .. n - 1
  OBVIOUS
<1>4. f \in [0 .. n - 1 -> V] /\ \A i \in 0 .. n - 1 : f[i] = r[n - 1 - i]
  BY <1>3
<1>5. f[n - 1] = base
  <2>1. n - 1 \in 0 .. n - 1 /\ n - 1 - (n - 1) = 0
    OBVIOUS
  <2> HIDE DEF f
  <2> QED BY <1>2, <1>4, <2>1 DEF IsLoop
<1>6. ASSUME NEW i \in 0 .. n - 2 PROVE f[i] = step[i][f[i + 1]]
  <2>1. n - 1 - i \in 1 .. n - 1 /\ (n - 1 - i) - 1 = n - 1 - (i + 1) /\ n - 1 - (n - 1 - i) = i
        /\ i + 1 \in 0 .. n - 1 /\ i \in 0 .. n - 1
    OBVIOUS
  <2>2. r[n - 1 - i] = up[n - 1 - i][r[(n - 1 - i) - 1]]
    BY <1>2, <2>1 DEF IsLoop
  <2>3. up[n - 1 - i] = step[n - 1 - (n - 1 - i)]
    BY <1>1, <2>1
  <2>4. f[i + 1] = r[n - 1 - (i + 1)] /\ f[i] = r[n - 1 - i]
    BY <1>4, <2>1
  <2> HIDE DEF f
  <2> QED BY <2>1, <2>2, <2>3, <2>4
<1> HIDE DEF f
<1> QED BY <1>4, <1>5, <1>6 DEF IsDown

Descends(f, n, V, base, step) ==
  /\ f = [i \in 0 .. n - 1 |-> f[i]] /\ f[n - 1] = base
  /\ \A i \in 0 .. n - 2 : f[i + 1] \in V => f[i] = step[i][f[i + 1]]

(* A recursive function that goes down from n - 1 takes each of its steps. *)
LEMMA DownIs ==
  ASSUME NEW n \in Nat \ {0}, NEW V, NEW base \in V, NEW step \in [0 .. n - 2 -> [V -> V]],
         NEW f, Descends(f, n, V, base, step)
  PROVE  f \in [0 .. n - 1 -> V] /\ IsDown(f, n, base, step)
<1> DEFINE G == {k \in 0 .. n - 1 : f[n - 1 - k] \in V}
<1>1. /\ f = [i \in 0 .. n - 1 |-> f[i]] /\ f[n - 1] = base
      /\ \A i \in 0 .. n - 2 : f[i + 1] \in V => f[i] = step[i][f[i + 1]]
  BY DEF Descends
<1>3. 0 \in G
  BY <1>1, n - 1 - 0 = n - 1
<1>4. ASSUME NEW k \in 1 .. n - 1, k - 1 \in G PROVE k \in G
  <2>1. n - 1 - k \in 0 .. n - 2 /\ n - 1 - (k - 1) = (n - 1 - k) + 1
    OBVIOUS
  <2>2. f[(n - 1 - k) + 1] \in V
    BY <1>4, <2>1
  <2>3. PICK i : i = n - 1 - k
    OBVIOUS
  <2>4. i \in 0 .. n - 2 /\ f[i] = step[i][f[i + 1]] /\ f[i + 1] \in V
    BY <1>1, <2>1, <2>2, <2>3
  <2>5. f[i] \in V
    BY <2>4
  <2> QED BY <2>3, <2>5
<1>5. \A k \in 0 .. n - 1 : k \in G
  <2> HIDE DEF G
  <2> QED BY <1>3, <1>4, BoundedInduction, n - 1 \in Nat
<1>6. \A i \in 0 .. n - 1 : f[i] \in V
  <2> TAKE i \in 0 .. n - 1
  <2>1. n - 1 - i \in 0 .. n - 1 /\ n - 1 - (n - 1 - i) = i
    OBVIOUS
  <2>2. f[n - 1 - (n - 1 - i)] \in V
    BY <1>5, <2>1
  <2> QED BY <2>1, <2>2
<1>7. f \in [0 .. n - 1 -> V]
  BY <1>1, <1>6
<1>8. \A i \in 0 .. n - 2 : f[i] = step[i][f[i + 1]]
  <2>1. \A i \in 0 .. n - 2 : i + 1 \in 0 .. n - 1
    OBVIOUS
  <2> QED BY <1>1, <1>6, <2>1
<1> QED BY <1>1, <1>7, <1>8 DEF IsDown

(* x doubled some times is a power of two times x. *)
LEMMA DoubledTimesIs ==
  ASSUME NEW x \in Elements, NEW times \in Nat
  PROVE  /\ DoubledTimes(x, times) \in Elements
         /\ \A g \in Coefficients : DoubledTimes(x, times)[g] = PowerOf2(times) * x[g]
<1> DEFINE step == [k \in 1 .. times |-> [v \in Elements |-> Twice(v)]]
<1>1. step \in [1 .. times -> [Elements -> Elements]]
  BY ElementsAre
<1>2. \A k \in 1 .. times, v \in Elements : step[k][v] = Twice(v)
  OBVIOUS
<1> HIDE DEF step
<1>3. PICK r \in [0 .. times -> Elements] : IsLoop(r, times, x, step)
  BY <1>1, LoopExists
<1>4. r[0] = x /\ \A k \in 1 .. times : r[k] = Twice(r[k - 1])
  <2>1. \A k \in 1 .. times : k - 1 \in 0 .. times
    OBVIOUS
  <2> QED BY <1>2, <1>3, <2>1 DEF IsLoop
<1> DEFINE Body(t, k) == IF k = 0 THEN x ELSE Twice(t[k - 1])
           after == CHOOSE t : t = [k \in 0 .. times |-> Body(t, k)]
<1>5. DoubledTimes(x, times) = after[times]
  BY DEF DoubledTimes
<1>6. r = [k \in 0 .. times |-> Body(r, k)]
  <2>1. \A k \in 0 .. times : r[k] = Body(r, k)
    <3> TAKE k \in 0 .. times
    <3>1. k = 0 \/ k \in 1 .. times
      OBVIOUS
    <3> QED BY <1>4, <3>1
  <2> HIDE DEF Body
  <2> QED BY <2>1
<1>7. after = [k \in 0 .. times |-> Body(after, k)]
  BY <1>6
<1> HIDE DEF after
<1>8. after[0] = x /\ \A k \in 1 .. times : after[k] = Twice(after[k - 1])
  <2>1. 0 \in 0 .. times /\ \A k \in 1 .. times : k \in 0 .. times /\ k # 0
    OBVIOUS
  <2> QED BY <1>7, <2>1
<1> DEFINE G == {k \in 0 .. times : /\ after[k] \in Elements
                                    /\ \A g \in Coefficients : after[k][g] = PowerOf2(k) * x[g]}
<1>9. 0 \in G
  <2>1. \A g \in Coefficients : x[g] \in Int /\ 1 * x[g] = x[g]
    BY DEF Elements
  <2>2. PowerOf2(0) = 1
    BY PowerStep
  <2>3. \A g \in Coefficients : x[g] = PowerOf2(0) * x[g]
    BY <2>1, <2>2
  <2> QED BY <1>8, <2>3
<1>10. ASSUME NEW k \in 1 .. times, k - 1 \in G PROVE k \in G
  <2>1. PICK j : j = k - 1
    OBVIOUS
  <2>2. j \in Nat /\ j + 1 = k /\ after[k] = Twice(after[j])
    BY <1>8, <2>1
  <2>3. after[j] \in Elements /\ \A g \in Coefficients : after[j][g] = PowerOf2(j) * x[g]
    BY <1>10, <2>1
  <2>4. PowerOf2(k) = 2 * PowerOf2(j) /\ PowerOf2(j) \in Int
    <3>1. PowerOf2(j + 1) = 2 * PowerOf2(j) /\ PowerOf2(j) \in Nat
      BY <2>2, PowerStep
    <3> QED BY <2>2, <3>1
  <2>5. ASSUME NEW g \in Coefficients PROVE after[k][g] = PowerOf2(k) * x[g]
    <3>1. after[k][g] = 2 * (PowerOf2(j) * x[g])
      BY <2>2, <2>3, ElementsAre
    <3>2. x[g] \in Int
      BY DEF Elements
    <3>3. (2 * PowerOf2(j)) * x[g] = 2 * (PowerOf2(j) * x[g])
      BY <2>4, <3>2, ProductsOfIntegers
    <3> QED BY <2>4, <3>1, <3>3
  <2>6. after[k] \in Elements
    BY <2>2, <2>3, ElementsAre
  <2> QED BY <2>5, <2>6
<1>11. times \in G
  <2> HIDE DEF G
  <2> QED BY <1>9, <1>10, BoundedInduction, times \in 0 .. times
<1> QED BY <1>5, <1>11

(* A generator contains itself once. *)
LEMMA GeneratorIs ==
  ASSUME NEW g \in 0 .. NumGens - 1
  PROVE  /\ Generator(g) \in Elements
         /\ \A h \in Coefficients : Generator(g)[h] = IF h = g THEN 1 ELSE 0
BY GroupAssumption DEF Generator, Zero, Elements, Coefficients, Junk

(* The negation, coefficient by coefficient. *)
LEMMA MinusIs ==
  ASSUME NEW x \in Elements
  PROVE  Minus(x) \in Elements /\ \A h \in Coefficients : Minus(x)[h] = -x[h]
BY DEF Minus, Elements

-----------------------------------------------------------------------------
(* bucket_method: what the buckets hold *)

(* The generators of a .. b - 1 with a digit, once each *)
BucketOf(data, a, b, group, bucket) ==
  [g \in Coefficients |-> IF a <= g /\ g < b /\ Digit(data, g, group) = bucket + 1 THEN 1 ELSE 0]

(* A bucket holds a group element. *)
LEMMA BucketOfIs ==
  ASSUME NEW data, NEW a, NEW b, NEW group, NEW bucket
  PROVE  BucketOf(data, a, b, group, bucket) \in Elements
BY DEF BucketOf, Elements

InBlock(i, per, blk, n) == blk * per <= i /\ i <= AtMost(n, blk * per + per) - 1

(* A thread block reads the indexes of one range, and every index is read   *)
(* by one block.                                                            *)
LEMMA BlockFound ==
  ASSUME NEW n \in Nat \ {0}, NEW num \in Nat \ {0}, NEW per \in Nat \ {0}, n <= per * num,
         NEW i \in 0 .. n - 1
  PROVE  /\ (i \div per) \in 0 .. num - 1 /\ InBlock(i, per, i \div per, n)
         /\ \A c \in Nat : InBlock(i, per, c, n) => c = i \div per
<1>1. PICK q, r : q = i \div per /\ r = i % per
  OBVIOUS
<1>2. q \in Int /\ r \in 0 .. per - 1 /\ i = q * per + r
  BY <1>1, DivisionRange
<1>3. i \in 0 .. num * per - 1
  <2>1. per * num = num * per /\ num * per \in Nat
    OBVIOUS
  <2> QED BY <2>1
<1>4. q \in 0 .. num - 1
  BY <1>1, <1>3, DivisionBelow
<1>5. q * per \in Nat
  BY <1>4
<1>6. InBlock(i, per, q, n)
  BY <1>2, <1>5 DEF InBlock, AtMost
<1>7. ASSUME NEW c \in Nat, InBlock(i, per, c, n) PROVE c = q
  <2>1. PICK d : d = c * per
    OBVIOUS
  <2>2. d \in Nat /\ d <= i /\ i < d + per
    <3>1. d \in Nat
      BY <2>1
    <3>2. d <= i /\ i <= AtMost(n, d + per) - 1
      BY <1>7, <2>1 DEF InBlock
    <3> QED BY <3>1, <3>2 DEF AtMost
  <2>3. PICK s : s = i - d
    OBVIOUS
  <2>4. s \in 0 .. per - 1 /\ i = c * per + s /\ c \in Int
    BY <2>1, <2>2, <2>3
  <2>5. ((c * per + s) \div per) = c
    BY <2>4, DivisionIs
  <2> QED BY <1>1, <2>4, <2>5
<1> QED BY <1>1, <1>4, <1>6, <1>7

Span(rng) == /\ rng.a \in Nat /\ rng.b \in Nat /\ rng.a < rng.b /\ rng.b <= NumGens

(* One block of bucket_accumulate *)
LEMMA PartialBucketIs ==
  ASSUME NEW data, NEW rng, Span(rng), NEW n, n = rng.b - rng.a,
         NEW num, num = AtMost(MaxBlocks, n), NEW per, per = DivideUp(n, num),
         NEW blk \in Nat, NEW group, NEW bucket
  PROVE  /\ PartialBucket(data, rng, blk, group, bucket) \in Elements
         /\ \A g \in Coefficients :
              PartialBucket(data, rng, blk, group, bucket)[g]
                = IF /\ rng.a <= g /\ InBlock(g - rng.a, per, blk, n)
                     /\ Digit(data, g, group) = bucket + 1 THEN 1 ELSE 0
<1>1. n \in Nat \ {0} /\ num \in Nat \ {0} /\ rng.a \in Nat /\ rng.b <= NumGens /\ rng.b \in Nat
  BY BucketAssumption DEF Span, AtMost
<1>2. per \in Nat
  BY <1>1, DivideUpBounds
<1>3. PICK first, last : first = blk * per /\ last = AtMost(n, first + per) - 1
  OBVIOUS
<1>4. first \in Nat /\ last \in Int /\ last <= n - 1
  BY <1>1, <1>2, <1>3 DEF AtMost
<1> DEFINE f == [i \in first .. last |-> IF Digit(data, rng.a + i, group) = bucket + 1
                                         THEN Generator(rng.a + i) ELSE Zero]
<1>5. PartialBucket(data, rng, blk, group, bucket) = FoldFunction(Plus, Zero, f)
  BY <1>3 DEF PartialBucket, SumFrom
<1>6. \A i \in first .. last : i \in Nat /\ rng.a + i \in 0 .. NumGens - 1
  BY <1>1, <1>4, GroupAssumption
<1>7. f \in [first .. last -> Elements]
  <2>1. ASSUME NEW i \in first .. last PROVE Generator(rng.a + i) \in Elements
    BY <1>6, GeneratorIs
  <2> QED BY <2>1, ElementsAre
<1>8. ASSUME NEW i \in first .. last, NEW g \in Coefficients
      PROVE  f[i][g] = IF g = rng.a + i /\ Digit(data, g, group) = bucket + 1 THEN 1 ELSE 0
  <2>1. Generator(rng.a + i)[g] = IF g = rng.a + i THEN 1 ELSE 0
    BY <1>6, GeneratorIs
  <2>2. Zero[g] = 0
    BY ElementsAre
  <2> QED BY <2>1, <2>2
<1>9. IsFiniteSet(first .. last) /\ DOMAIN f = first .. last
  BY <1>4, FS_Interval
<1> HIDE DEF f
<1>10. /\ FoldFunction(Plus, Zero, f) \in Elements
       /\ \A g \in Coefficients : FoldFunction(Plus, Zero, f)[g] = SumFunction(CoefficientsOf(f, g))
  BY <1>7, <1>9, VectorSum
<1>11. ASSUME NEW g \in Coefficients
       PROVE  SumFunction(CoefficientsOf(f, g))
                = IF /\ rng.a <= g /\ InBlock(g - rng.a, per, blk, n)
                     /\ Digit(data, g, group) = bucket + 1 THEN 1 ELSE 0
  <2>1. CoefficientsOf(f, g) \in [first .. last -> Int]
        /\ \A i \in first .. last : CoefficientsOf(f, g)[i] = f[i][g]
    BY <1>7, <1>9 DEF CoefficientsOf, Elements
  <2>2. g \in Int
    BY GroupAssumption DEF Coefficients, Junk
  <2>3. rng.a <= g /\ InBlock(g - rng.a, per, blk, n) <=> g - rng.a \in first .. last
    BY <1>1, <1>3, <1>4, <2>2 DEF InBlock
  <2>4. CASE g - rng.a \in first .. last
    <3>1. PICK i \in first .. last : i = g - rng.a
      BY <2>4
    <3>2. rng.a + i = g
      BY <1>1, <2>2, <3>1
    <3>3. \A j \in first .. last : j # i => CoefficientsOf(f, g)[j] = 0
      <4> TAKE j \in first .. last
      <4> HAVE j # i
      <4>1. g # rng.a + j
        BY <1>1, <1>6, <3>2
      <4> QED BY <1>8, <2>1, <4>1
    <3>4. SumFunction(CoefficientsOf(f, g)) = CoefficientsOf(f, g)[i]
      BY <1>9, <2>1, <3>3, SumOfOneElement
    <3> QED BY <1>8, <2>1, <2>3, <2>4, <3>2, <3>4
  <2>5. CASE g - rng.a \notin first .. last
    <3>1. \A j \in first .. last : CoefficientsOf(f, g)[j] = 0
      <4> TAKE j \in first .. last
      <4>1. g # rng.a + j
        BY <1>1, <1>6, <2>5
      <4> QED BY <1>8, <2>1, <4>1
    <3>2. SumFunction(CoefficientsOf(f, g)) = 0
      BY <1>9, <2>1, <3>1, SumOfZeros
    <3> QED BY <2>3, <2>5, <3>2
  <2> QED BY <2>4, <2>5
<1> QED BY <1>5, <1>10, <1>11

(* accumulate_buckets_impl: every generator of the chunk is in the one     *)
(* bucket of its digit, whatever the blocks.                               *)
LEMMA ChunkBucketsAre ==
  ASSUME NEW datas, NEW rng, Span(rng), NEW o \in DOMAIN datas, NEW group \in Groups,
         NEW bucket \in Buckets
  PROVE  ChunkBuckets(datas, rng)[o][group][bucket]
           = BucketOf(datas[o], rng.a, rng.b, group, bucket)
<1>1. PICK n, num, per : n = rng.b - rng.a /\ num = AtMost(MaxBlocks, n) /\ per = DivideUp(n, num)
  OBVIOUS
<1>2. n \in Nat \ {0} /\ num \in Nat \ {0} /\ rng.a \in Nat /\ rng.b \in Nat /\ rng.b <= NumGens
  BY <1>1, BucketAssumption DEF Span, AtMost
<1>3. per \in Nat \ {0} /\ n <= per * num
  BY <1>1, <1>2, DivideUpBounds
<1> DEFINE f == [blk \in 0 .. num - 1 |-> PartialBucket(datas[o], rng, blk, group, bucket)]
<1>4. ChunkBuckets(datas, rng)[o][group][bucket] = FoldFunction(Plus, Zero, f)
  BY <1>1 DEF ChunkBuckets, SumFrom
<1>5. \A blk \in 0 .. num - 1 :
        /\ f[blk] \in Elements
        /\ \A g \in Coefficients :
             f[blk][g] = IF /\ rng.a <= g /\ InBlock(g - rng.a, per, blk, n)
                              /\ Digit(datas[o], g, group) = bucket + 1 THEN 1 ELSE 0
  <2> TAKE blk \in 0 .. num - 1
  <2>1. blk \in Nat
    OBVIOUS
  <2> QED BY <1>1, <2>1, PartialBucketIs
<1>6. f \in [0 .. num - 1 -> Elements] /\ IsFiniteSet(0 .. num - 1) /\ DOMAIN f = 0 .. num - 1
  <2>1. \A blk \in 0 .. num - 1 : PartialBucket(datas[o], rng, blk, group, bucket) \in Elements
    BY <1>5
  <2>2. f \in [0 .. num - 1 -> Elements] /\ DOMAIN f = 0 .. num - 1
    BY <2>1
  <2>3. 0 \in Int /\ num - 1 \in Int
    BY <1>2
  <2> QED BY <2>2, <2>3, FS_Interval
<1> HIDE DEF f
<1>7. /\ FoldFunction(Plus, Zero, f) \in Elements
      /\ \A g \in Coefficients : FoldFunction(Plus, Zero, f)[g] = SumFunction(CoefficientsOf(f, g))
  BY <1>6, VectorSum
<1>8. ASSUME NEW g \in Coefficients
      PROVE  SumFunction(CoefficientsOf(f, g)) = BucketOf(datas[o], rng.a, rng.b, group, bucket)[g]
  <2>1. CoefficientsOf(f, g) \in [0 .. num - 1 -> Int]
        /\ \A i \in 0 .. num - 1 : CoefficientsOf(f, g)[i] = f[i][g]
    BY <1>6 DEF CoefficientsOf, Elements
  <2>2. g \in Int
    BY GroupAssumption DEF Coefficients, Junk
  <2>3. CASE rng.a <= g /\ g < rng.b
    <3>1. PICK i : i = g - rng.a
      OBVIOUS
    <3>2. i \in 0 .. n - 1
      BY <1>1, <1>2, <2>2, <2>3, <3>1
    <3>3. PICK b \in 0 .. num - 1 : InBlock(i, per, b, n) /\ \A c \in Nat : InBlock(i, per, c, n) => c = b
      <4>1. PICK q : q = i \div per
        OBVIOUS
      <4>2. q \in 0 .. num - 1 /\ InBlock(i, per, q, n) /\ \A c \in Nat : InBlock(i, per, c, n) => c = q
        BY <1>2, <1>3, <3>2, <4>1, BlockFound
      <4> QED BY <4>2
    <3>4. \A c \in 0 .. num - 1 : c # b => CoefficientsOf(f, g)[c] = 0
      BY <1>5, <2>1, <3>1, <3>3
    <3>5. SumFunction(CoefficientsOf(f, g)) = CoefficientsOf(f, g)[b]
      <4>1. PICK h, D : h = CoefficientsOf(f, g) /\ D = 0 .. num - 1
        OBVIOUS
      <4>2. IsFiniteSet(D) /\ h \in [D -> Int] /\ b \in D /\ \A c \in D : c # b => h[c] = 0
        BY <1>6, <2>1, <3>4, <4>1
      <4>3. SumFunction(h) = h[b]
        BY <4>2, SumOfOneElement
      <4> QED BY <4>1, <4>3
    <3>6. CoefficientsOf(f, g)[b] = IF Digit(datas[o], g, group) = bucket + 1 THEN 1 ELSE 0
      BY <1>5, <2>1, <2>3, <3>1, <3>3
    <3> QED BY <2>3, <3>5, <3>6 DEF BucketOf
  <2>4. CASE ~(rng.a <= g /\ g < rng.b)
    <3>1. \A c \in 0 .. num - 1 : CoefficientsOf(f, g)[c] = 0
      <4> TAKE c \in 0 .. num - 1
      <4>1. ASSUME rng.a <= g, InBlock(g - rng.a, per, c, n) PROVE FALSE
        <5>1. c * per \in Nat /\ g - rng.a <= AtMost(n, c * per + per) - 1
          BY <1>3, <4>1 DEF InBlock
        <5>2. g - rng.a <= n - 1
          BY <1>2, <1>3, <2>2, <5>1 DEF AtMost
        <5> QED BY <1>1, <1>2, <2>2, <2>4, <4>1, <5>2
      <4> QED BY <1>5, <2>1, <4>1
    <3>2. SumFunction(CoefficientsOf(f, g)) = 0
      BY <1>6, <2>1, <3>1, SumOfZeros
    <3> QED BY <2>4, <3>2 DEF BucketOf
  <2> QED BY <2>3, <2>4
<1>9. /\ FoldFunction(Plus, Zero, f) \in [Coefficients -> Int]
      /\ BucketOf(datas[o], rng.a, rng.b, group, bucket) \in [Coefficients -> Int]
  BY <1>7, BucketOfIs DEF Elements
<1>10. FoldFunction(Plus, Zero, f) = BucketOf(datas[o], rng.a, rng.b, group, bucket)
  BY <1>7, <1>8, <1>9
<1> QED BY <1>4, <1>10

-----------------------------------------------------------------------------
(* The value of the digits *)

(* The sizes of the bucket method, as numbers. *)
LEMMA BucketNumbers ==
  /\ NumBuckets \in Nat \ {0} /\ Buckets = 0 .. NumBuckets - 1
  /\ ElementBytes \in Nat \ {0} /\ Groups = 0 .. ElementBytes - 1 /\ ByteBits \in Nat \ {0}
  /\ PowerOf2(ByteBits) - 1 = NumBuckets
<1>1. ByteBits \in Nat \ {0} /\ ElementBytes \in Nat \ {0}
  BY GroupAssumption, BucketAssumption
<1>2. PICK b : b = ByteBits - 1
  OBVIOUS
<1>3. b \in Nat /\ b + 1 = ByteBits
  BY <1>1, <1>2
<1>4. PowerOf2(ByteBits) = 2 * PowerOf2(b) /\ PowerOf2(b) \in Nat \ {0}
  BY <1>3, PowerStep
<1> QED BY <1>1, <1>4 DEF NumBuckets, Buckets, Groups

HasDigit(D, i, n) == [k \in 0 .. n - 1 |-> IF D[k] = i + 1 THEN 1 ELSE 0]

ValuesOfDigits(D, p, n, max) == [i \in 0 .. max - 1 |-> SumFunction(Places(HasDigit(D, i, n), p, n))]

(* Adding up each digit value times the places it is at is adding up the   *)
(* places.                                                                 *)
LEMMA DigitsAddUp ==
  ASSUME NEW n \in Nat, NEW max \in Nat, NEW D \in [0 .. n - 1 -> 0 .. max], NEW p \in [0 .. n -> Int]
  PROVE  SumFunction(Multiples(ValuesOfDigits(D, p, n, max), max)) = SumFunction(Places(D, p, n))
<1> DEFINE has(i) == Places(HasDigit(D, i, n), p, n)
           all == Places(D, p, n)
<1>1. \A k \in 0 .. n - 1 : k \in 0 .. n /\ p[k] \in Int /\ D[k] \in 0 .. max
  OBVIOUS
<1>2. \A i \in 0 .. max - 1 :
        /\ has(i) \in [0 .. n - 1 -> Int]
        /\ \A k \in 0 .. n - 1 : has(i)[k] = IF D[k] = i + 1 THEN p[k] ELSE 0
  <2> TAKE i \in 0 .. max - 1
  <2>1. \A k \in 0 .. n - 1 : HasDigit(D, i, n)[k] = (IF D[k] = i + 1 THEN 1 ELSE 0)
    BY DEF HasDigit
  <2>2. has(i) = [k \in 0 .. n - 1 |-> HasDigit(D, i, n)[k] * p[k]]
    BY DEF Places
  <2> HIDE DEF has
  <2>3. \A k \in 0 .. n - 1 : has(i)[k] = IF D[k] = i + 1 THEN p[k] ELSE 0
    <3> TAKE k \in 0 .. n - 1
    <3>1. PICK a, q : a = HasDigit(D, i, n)[k] /\ q = p[k]
      OBVIOUS
    <3>2. q \in Int /\ a = (IF D[k] = i + 1 THEN 1 ELSE 0)
      BY <1>1, <2>1, <3>1
    <3>3. 1 * q = q /\ 0 * q = 0
      BY <3>2
    <3>4. has(i)[k] = a * q
      BY <2>2, <3>1
    <3> QED BY <3>1, <3>2, <3>3, <3>4
  <2>4. has(i) \in [0 .. n - 1 -> Int]
    BY <1>1, <2>2, <2>3
  <2> QED BY <2>3, <2>4
<1>3. all \in [0 .. n - 1 -> Int] /\ \A k \in 0 .. n - 1 : all[k] = D[k] * p[k]
  <2>1. \A k \in 0 .. n - 1 : D[k] * p[k] \in Int
    <3> TAKE k \in 0 .. n - 1
    <3>1. D[k] \in Int /\ p[k] \in Int
      BY <1>1
    <3> QED BY <3>1, ProductsOfIntegers
  <2> QED BY <2>1 DEF Places
<1> HIDE DEF has, all
<1>4. /\ Prefix(all, 0) = 0 /\ Prefix(all, n) = SumFunction(all)
      /\ \A m \in 0 .. n - 1 : Prefix(all, m + 1) = Prefix(all, m) + all[m]
  BY <1>3, PrefixIs
<1>5. \A i \in 0 .. max - 1 :
        /\ Prefix(has(i), 0) = 0 /\ Prefix(has(i), n) = SumFunction(has(i))
        /\ \A m \in 0 .. n : Prefix(has(i), m) \in Int
        /\ \A m \in 0 .. n - 1 : Prefix(has(i), m + 1) = Prefix(has(i), m) + has(i)[m]
  BY <1>2, PrefixIs
<1> DEFINE upto(m) == [i \in 0 .. max - 1 |-> (i + 1) * Prefix(has(i), m)]
           G == {m \in 0 .. n : SumFunction(upto(m)) = Prefix(all, m)}
<1>6. IsFiniteSet(0 .. max - 1)
  BY FS_Interval
<1>7. \A m \in 0 .. n : upto(m) \in [0 .. max - 1 -> Int]
  <2> TAKE m \in 0 .. n
  <2>1. \A i \in 0 .. max - 1 : (i + 1) * Prefix(has(i), m) \in Int
    <3> TAKE i \in 0 .. max - 1
    <3>1. i + 1 \in Int /\ Prefix(has(i), m) \in Int
      BY <1>5
    <3> QED BY <3>1, ProductsOfIntegers
  <2> QED BY <2>1
<1>8. 0 \in G
  <2>1. \A i \in 0 .. max - 1 : upto(0)[i] = 0
    BY <1>5
  <2>2. upto(0) \in [0 .. max - 1 -> Int]
    BY <1>7
  <2> HIDE DEF upto
  <2>3. SumFunction(upto(0)) = 0
    BY <1>6, <2>1, <2>2, SumOfZeros
  <2> QED BY <1>4, <2>3
<1>9. ASSUME NEW m \in 1 .. n, m - 1 \in G PROVE m \in G
  <2>1. PICK j : j = m - 1
    OBVIOUS
  <2>2. j \in 0 .. n - 1 /\ j + 1 = m /\ j \in 0 .. n /\ m \in 0 .. n
    BY <2>1
  <2> DEFINE new == [i \in 0 .. max - 1 |-> (i + 1) * has(i)[j]]
             old == upto(j)
  <2>3. \A i \in 0 .. max - 1 : new[i] = IF D[j] = i + 1 THEN D[j] * p[j] ELSE 0
    <3> TAKE i \in 0 .. max - 1
    <3>1. has(i)[j] = IF D[j] = i + 1 THEN p[j] ELSE 0
      BY <1>2, <2>2
    <3>2. CASE D[j] = i + 1
      BY <3>1, <3>2
    <3>3. CASE D[j] # i + 1
      BY <3>1, <3>3
    <3> QED BY <3>2, <3>3
  <2>4. D[j] \in 0 .. max /\ p[j] \in Int /\ D[j] * p[j] \in Int /\ all[j] = D[j] * p[j]
    <3>1. D[j] \in 0 .. max /\ p[j] \in Int /\ D[j] \in Int
      BY <1>1, <2>2
    <3> QED BY <1>3, <2>2, <3>1, ProductsOfIntegers
  <2>5. new \in [0 .. max - 1 -> Int]
    <3>1. new = [i \in 0 .. max - 1 |-> new[i]]
      OBVIOUS
    <3> HIDE DEF new
    <3>2. \A i \in 0 .. max - 1 : new[i] \in Int
      BY <2>3, <2>4
    <3> QED BY <3>1, <3>2
  <2>6. upto(m) = ScaledSum(old, new, 1)
    <3>1. ASSUME NEW i \in 0 .. max - 1 PROVE upto(m)[i] = 1 * old[i] + new[i]
      <4>1. PICK u, v, w : u = Prefix(has(i), j) /\ v = has(i)[j] /\ w = Prefix(has(i), m)
        OBVIOUS
      <4>2. u \in Int /\ v \in Int /\ i + 1 \in Int /\ w = u + v
        <5>1. u \in Int /\ w = u + v
          BY <1>5, <2>2, <4>1
        <5>2. v = IF D[j] = i + 1 THEN p[j] ELSE 0
          BY <1>2, <2>2, <4>1
        <5>3. p[j] \in Int
          BY <1>1, <2>2
        <5> QED BY <5>1, <5>2, <5>3
      <4>3. (i + 1) * (u + v) = (i + 1) * u + (i + 1) * v /\ (i + 1) * u \in Int /\ (i + 1) * v \in Int
        BY <4>2, ProductsOfIntegers
      <4>4. (i + 1) * w = 1 * ((i + 1) * u) + (i + 1) * v
        BY <4>2, <4>3
      <4>5. upto(m)[i] = (i + 1) * w /\ old[i] = (i + 1) * u /\ new[i] = (i + 1) * v
        BY <4>1
      <4> QED BY <4>4, <4>5
    <3>2. DOMAIN old = 0 .. max - 1 /\ upto(m) = [i \in 0 .. max - 1 |-> upto(m)[i]]
      OBVIOUS
    <3> HIDE DEF upto, old, new
    <3> QED BY <3>1, <3>2 DEF ScaledSum
  <2>7. old \in [0 .. max - 1 -> Int]
    BY <1>7, <2>2
  <2>8. SumFunction(old) = Prefix(all, j)
    BY <1>9, <2>1
  <2>9. SumFunction(new) = D[j] * p[j]
    <3>1. CASE D[j] = 0
      <4>1. \A i \in 0 .. max - 1 : new[i] = 0
        BY <2>3, <3>1
      <4> HIDE DEF new
      <4>2. SumFunction(new) = 0
        BY <1>6, <2>5, <4>1, SumOfZeros
      <4> QED BY <2>4, <3>1, <4>2
    <3>2. CASE D[j] # 0
      <4>1. PICK u : u = D[j] - 1
        OBVIOUS
      <4>2. u \in 0 .. max - 1 /\ D[j] = u + 1
        <5>1. PICK d : d = D[j]
          OBVIOUS
        <5>2. d \in 0 .. max /\ d # 0 /\ u = d - 1
          BY <2>4, <3>2, <4>1, <5>1
        <5>3. u \in 0 .. max - 1 /\ d = u + 1
          BY <5>2
        <5> QED BY <5>1, <5>3
      <4>3. \A i \in 0 .. max - 1 : i # u => new[i] = 0
        BY <2>3, <4>2
      <4>4. new[u] = D[j] * p[j]
        BY <2>3, <4>2
      <4> HIDE DEF new
      <4>5. SumFunction(new) = new[u]
        BY <1>6, <2>5, <4>2, <4>3, SumOfOneElement
      <4> QED BY <4>4, <4>5
    <3> QED BY <3>1, <3>2
  <2>10. SumFunction(upto(m)) = 1 * SumFunction(old) + SumFunction(new) /\ SumFunction(old) \in Int
    <3> HIDE DEF upto, old, new
    <3>1. PICK one \in Int : one = 1
      OBVIOUS
    <3>2. PICK f, g, S : f = old /\ g = new /\ S = 0 .. max - 1
      OBVIOUS
    <3>3. IsFiniteSet(S) /\ f \in [S -> Int] /\ g \in [S -> Int]
      BY <1>6, <2>5, <2>7, <3>2
    <3>4. /\ SumFunction(f) \in Int
          /\ IsScaled(SumFunction(ScaledSum(f, g, one)), one, SumFunction(f), SumFunction(g))
      BY <3>3, SumScales
    <3> QED BY <2>6, <3>1, <3>2, <3>4 DEF IsScaled
  <2>11. Prefix(all, m) = Prefix(all, j) + D[j] * p[j]
    BY <1>4, <2>2, <2>4
  <2>12. SumFunction(upto(m)) = Prefix(all, m)
    <3> HIDE DEF upto, old, new
    <3>1. PICK a, b : a = SumFunction(old) /\ b = D[j] * p[j]
      OBVIOUS
    <3>2. a \in Int /\ b \in Int /\ 1 * a + b = a + b
      BY <2>4, <2>10, <3>1
    <3> QED BY <2>8, <2>9, <2>10, <2>11, <3>1, <3>2
  <2> QED BY <2>12
<1>10. n \in G
  <2> HIDE DEF G
  <2> QED BY <1>8, <1>9, BoundedInduction, n \in 0 .. n
<1>11. Multiples(ValuesOfDigits(D, p, n, max), max) = upto(n)
  <2>1. ASSUME NEW i \in 0 .. max - 1
        PROVE  Multiples(ValuesOfDigits(D, p, n, max), max)[i] = upto(n)[i]
    BY <1>5 DEF Multiples, ValuesOfDigits, has
  <2> QED BY <2>1 DEF Multiples
<1>12. SumFunction(upto(n)) = Prefix(all, n)
  BY <1>10
<1> QED BY <1>4, <1>11, <1>12 DEF all

InBucketMethod(e) == ValidExponents(e) /\ e.element_nbytes = ElementBytes /\ ~e.is_signed

DigitsOf(e, g) == [k \in Groups |-> IF 0 <= g /\ g < e.n THEN Digit(e.data, g, k) ELSE 0]

BytePowers == PlacePowers(ByteBits, ElementBytes)

(* The digits of an exponent, each weighed with its place, are its value. *)
LEMMA DigitsValue ==
  ASSUME NEW e, InBucketMethod(e), NEW g \in Coefficients
  PROVE  /\ DigitsOf(e, g) \in [0 .. ElementBytes - 1 -> 0 .. NumBuckets]
         /\ BytePowers \in [0 .. ElementBytes -> Int]
         /\ ArePowers(BytePowers, PowerOf2(ByteBits), ElementBytes)
         /\ SumFunction(Places(DigitsOf(e, g), BytePowers, ElementBytes)) = ExponentSum(e)[g]
         /\ \A group \in Groups, bucket \in Buckets :
              BucketOf(e.data, 0, e.n, group, bucket)[g]
                = IF DigitsOf(e, g)[group] = bucket + 1 THEN 1 ELSE 0
<1>0. /\ NumBuckets \in Nat \ {0} /\ Buckets = 0 .. NumBuckets - 1
      /\ ElementBytes \in Nat \ {0} /\ Groups = 0 .. ElementBytes - 1 /\ ByteBits \in Nat \ {0}
      /\ PowerOf2(ByteBits) - 1 = NumBuckets
  BY BucketNumbers
<1>1. ValidExponents(e) /\ e.element_nbytes = ElementBytes /\ ~e.is_signed
  BY DEF InBucketMethod
<1>2. BytePowers \in [0 .. ElementBytes -> Int] /\ ArePowers(BytePowers, PowerOf2(ByteBits), ElementBytes)
  BY <1>0, PlacePowersAre DEF BytePowers
<1>3. g \in Int /\ e.n \in Nat /\ e.n <= NumGens /\ g >= -1 /\ NumGens \in Nat
  BY <1>1, GroupAssumption DEF Coefficients, Junk, ValidExponents, ExponentSequences
<1>4. ASSUME NEW group \in Groups, NEW bucket \in Buckets
      PROVE  BucketOf(e.data, 0, e.n, group, bucket)[g]
               = IF DigitsOf(e, g)[group] = bucket + 1 THEN 1 ELSE 0
  <2>1. bucket + 1 # 0
    BY <1>0
  <2> QED BY <2>1 DEF BucketOf, DigitsOf
<1>5. ExponentSum(e)[g] = IF 0 <= g /\ g < e.n THEN Unsigned(e, g) ELSE 0
  <2>1. ~IsNegative(e, g)
    BY <1>1 DEF IsNegative
  <2>2. AbsToUnsigned(e, g) = Unsigned(e, g)
    BY <2>1 DEF AbsToUnsigned
  <2>3. g \in DOMAIN Zero
    BY DEF Zero, Coefficients
  <2>4. ExponentSum(e)[g] = IF g = Junk THEN 0 ELSE IF g >= e.n THEN 0 ELSE Unsigned(e, g)
    BY <2>1, <2>2, <2>3 DEF ExponentSum, Weighted
  <2> QED BY <1>3, <2>4 DEF Junk
<1>6. CASE 0 <= g /\ g < e.n
  <2>1. g \in 0 .. e.n - 1
    BY <1>3, <1>6
  <2>2. DigitsOf(e, g) = BytesOf(e, g)
    BY <1>0, <1>1, <1>6 DEF DigitsOf, BytesOf, Digit
  <2>3. /\ BytesOf(e, g) \in [0 .. e.element_nbytes - 1 -> 0 .. PowerOf2(ByteBits) - 1]
        /\ Unsigned(e, g)
             = SumFunction(Places(BytesOf(e, g), PlacePowers(ByteBits, e.element_nbytes), e.element_nbytes))
    BY <1>1, <2>1, UnsignedIs
  <2>4. BytesOf(e, g) \in [0 .. ElementBytes - 1 -> 0 .. NumBuckets]
    BY <1>0, <1>1, <2>3
  <2>5. Unsigned(e, g) = SumFunction(Places(DigitsOf(e, g), BytePowers, ElementBytes))
    BY <1>1, <2>2, <2>3 DEF BytePowers
  <2> QED BY <1>2, <1>4, <1>5, <1>6, <2>2, <2>4, <2>5
<1>7. CASE ~(0 <= g /\ g < e.n)
  <2>1. DigitsOf(e, g) = [k \in 0 .. ElementBytes - 1 |-> 0]
    BY <1>0, <1>7 DEF DigitsOf
  <2>2. PICK h : h = Places(DigitsOf(e, g), BytePowers, ElementBytes)
    OBVIOUS
  <2>3. \A k \in 0 .. ElementBytes - 1 : BytePowers[k] \in Int /\ 0 * BytePowers[k] = 0
    <3> TAKE k \in 0 .. ElementBytes - 1
    <3>1. k \in 0 .. ElementBytes
      BY <1>0
    <3>2. BytePowers[k] \in Int
      BY <1>2, <3>1
    <3> QED BY <3>2
  <2>4. h \in [0 .. ElementBytes - 1 -> Int] /\ \A k \in 0 .. ElementBytes - 1 : h[k] = 0
    BY <2>1, <2>2, <2>3 DEF Places
  <2>5. IsFiniteSet(0 .. ElementBytes - 1)
    BY <1>0, FS_Interval
  <2>6. SumFunction(h) = 0
    BY <2>4, <2>5, SumOfZeros
  <2>7. DigitsOf(e, g) \in [0 .. ElementBytes - 1 -> 0 .. NumBuckets]
    BY <1>0, <2>1
  <2> QED BY <1>2, <1>4, <1>5, <1>7, <2>2, <2>6, <2>7
<1> QED BY <1>6, <1>7

-----------------------------------------------------------------------------
(* The reductions of the buckets *)

At(x, n, g) == [k \in 0 .. n - 1 |-> x[k][g]]

(* The sums of a bucket over the groups are weighted by the values of their *)
(* bytes.                                                                   *)
LEMMA CombinedGroupsAre ==
  ASSUME NEW buckets, NEW bucket \in Buckets,
         \A group \in Groups : buckets[group][bucket] \in Elements
  PROVE  LET x == [group \in Groups |-> buckets[group][bucket]] IN
         /\ CombinedGroups(buckets, bucket) \in Elements
         /\ \A g \in Coefficients :
              CombinedGroups(buckets, bucket)[g]
                = SumFunction(Places(At(x, ElementBytes, g), BytePowers, ElementBytes))
<1> DEFINE x == [group \in Groups |-> buckets[group][bucket]]
           n == ElementBytes
           step == [i \in 0 .. n - 2 |-> [v \in Elements |-> Plus(DoubledTimes(v, ByteBits), x[i])]]
           Body(t, i) == IF i = n - 1 THEN buckets[i][bucket]
                         ELSE Plus(DoubledTimes(t[i + 1], ByteBits), buckets[i][bucket])
           from == CHOOSE t : t = [group \in Groups |-> Body(t, group)]
<1>1. n \in Nat \ {0} /\ Groups = 0 .. n - 1 /\ ByteBits \in Nat \ {0}
  BY BucketNumbers
<1>2. x \in [0 .. n - 1 -> Elements] /\ \A i \in 0 .. n - 1 : x[i] = buckets[i][bucket]
  BY <1>1
<1>3. CombinedGroups(buckets, bucket) = from[0]
  BY DEF CombinedGroups
<1> HIDE DEF x
<1>4. \A i \in 0 .. n - 2 : i \in 0 .. n - 1 /\ i + 1 \in 0 .. n - 1 /\ i # n - 1
  BY <1>1
<1>5. /\ step \in [0 .. n - 2 -> [Elements -> Elements]]
      /\ \A i \in 0 .. n - 2, v \in Elements : step[i][v] = Plus(DoubledTimes(v, ByteBits), x[i])
  <2>1. ASSUME NEW i \in 0 .. n - 2, NEW v \in Elements PROVE Plus(DoubledTimes(v, ByteBits), x[i]) \in Elements
    <3>1. DoubledTimes(v, ByteBits) \in Elements
      BY <1>1, DoubledTimesIs
    <3>2. x[i] \in Elements
      BY <1>2, <1>4
    <3> QED BY <3>1, <3>2, ElementsAre
  <2> QED BY <2>1
<1> HIDE DEF step
<1>6. x[n - 1] \in Elements
  <2>1. n - 1 \in 0 .. n - 1
    BY <1>1
  <2> QED BY <1>2, <2>1
<1>7. PICK known \in [0 .. n - 1 -> Elements] : IsDown(known, n, x[n - 1], step)
  BY <1>1, <1>5, <1>6, DownExists
<1>8. known = [group \in Groups |-> Body(known, group)]
  <2>1. \A i \in 0 .. n - 1 : known[i] = Body(known, i)
    <3> TAKE i \in 0 .. n - 1
    <3>1. i = n - 1 \/ i \in 0 .. n - 2
      BY <1>1
    <3> QED BY <1>2, <1>4, <1>5, <1>7, <3>1 DEF IsDown
  <2> HIDE DEF Body
  <2> QED BY <1>1, <2>1
<1>9. from = [group \in Groups |-> Body(from, group)]
  BY <1>8
<1> HIDE DEF from
<1>10. \A i \in 0 .. n - 1 : from[i] = Body(from, i)
  <2> HIDE DEF Body
  <2> QED BY <1>1, <1>9
<1>11. Descends(from, n, Elements, x[n - 1], step)
  <2>1. from = [i \in 0 .. n - 1 |-> from[i]]
    <3> HIDE DEF Body
    <3> QED BY <1>1, <1>9
  <2>2. from[n - 1] = x[n - 1]
    <3>1. n - 1 \in 0 .. n - 1
      BY <1>1
    <3> QED BY <1>2, <1>10, <3>1
  <2>3. \A i \in 0 .. n - 2 : from[i] = Plus(DoubledTimes(from[i + 1], ByteBits), x[i])
    BY <1>2, <1>4, <1>10
  <2> QED BY <1>5, <2>1, <2>2, <2>3 DEF Descends
<1>12. /\ from \in [0 .. n - 1 -> Elements] /\ from[n - 1] = x[n - 1]
       /\ \A i \in 0 .. n - 2 : from[i] = Plus(DoubledTimes(from[i + 1], ByteBits), x[i])
  <2>1. from \in [0 .. n - 1 -> Elements] /\ IsDown(from, n, x[n - 1], step)
    BY <1>1, <1>5, <1>6, <1>11, DownIs
  <2> QED BY <1>4, <1>5, <2>1 DEF IsDown
<1>13. ASSUME NEW g \in Coefficients
       PROVE  from[0][g] = SumFunction(Places(At(x, n, g), BytePowers, n))
  <2> DEFINE t == [i \in 0 .. n - 1 |-> from[i][g]]
             y == At(x, n, g)
  <2>1. t \in [0 .. n - 1 -> Int] /\ y \in [0 .. n - 1 -> Int]
        /\ \A i \in 0 .. n - 1 : t[i] = from[i][g] /\ y[i] = x[i][g]
    BY <1>2, <1>12 DEF Elements, At
  <2>2. t[n - 1] = y[n - 1]
    <3>1. n - 1 \in 0 .. n - 1
      BY <1>1
    <3> QED BY <1>12, <2>1, <3>1
  <2>3. \A i \in 0 .. n - 2 : t[i] = PowerOf2(ByteBits) * t[i + 1] + y[i]
    <3> TAKE i \in 0 .. n - 2
    <3>1. i \in 0 .. n - 1 /\ i + 1 \in 0 .. n - 1 /\ from[i + 1] \in Elements /\ x[i] \in Elements
      BY <1>2, <1>4, <1>12
    <3>2. DoubledTimes(from[i + 1], ByteBits) \in Elements
          /\ DoubledTimes(from[i + 1], ByteBits)[g] = PowerOf2(ByteBits) * from[i + 1][g]
      BY <1>1, <3>1, DoubledTimesIs
    <3>3. from[i][g] = DoubledTimes(from[i + 1], ByteBits)[g] + x[i][g]
      BY <1>12, <3>1, <3>2, ElementsAre
    <3> HIDE DEF t, y
    <3> QED BY <2>1, <3>1, <3>2, <3>3
  <2> HIDE DEF t, y
  <2>4. FromLastDown(t, y, PowerOf2(ByteBits), n)
    BY <2>2, <2>3 DEF FromLastDown
  <2>5. BytePowers \in [0 .. n -> Int] /\ ArePowers(BytePowers, PowerOf2(ByteBits), n)
        /\ PowerOf2(ByteBits) \in Int
    <3>1. BytePowers = PlacePowers(ByteBits, n)
      BY DEF BytePowers
    <3>2. PowerOf2(ByteBits) \in Int
      BY <1>1, PowerStep
    <3> QED BY <1>1, <3>1, <3>2, PlacePowersAre
  <2>6. t[0] = SumFunction(Places(y, BytePowers, n))
    BY <1>1, <2>1, <2>4, <2>5, PlacesAdded
  <2>7. 0 \in 0 .. n - 1
    BY <1>1
  <2> QED BY <2>1, <2>6, <2>7 DEF y
<1>14. from[0] \in Elements
  BY <1>1, <1>12
<1> QED BY <1>3, <1>13, <1>14 DEF x

(* combine_buckets_impl: bucket i counts i + 1 times. *)
LEMMA CombineBucketsAre ==
  ASSUME NEW x, \A i \in Buckets : x[i] \in Elements
  PROVE  /\ CombineBuckets(x) \in Elements
         /\ \A g \in Coefficients :
              CombineBuckets(x)[g] = 0 + SumFunction(Multiples(At(x, NumBuckets, g), NumBuckets))
<1> DEFINE n == NumBuckets
           V == [t : Elements, sum : Elements]
           next(i, v) == [t |-> Plus(v.t, x[i]), sum |-> Plus(v.sum, Plus(v.t, x[i]))]
           step == [i \in 0 .. n - 2 |-> [v \in V |-> next(i, v)]]
           base == [t |-> x[n - 1], sum |-> x[n - 1]]
           Body(d, i) == IF i = n - 1 THEN [t |-> x[i], sum |-> x[i]]
                         ELSE LET t == Plus(d[i + 1].t, x[i])
                              IN  [t |-> t, sum |-> Plus(d[i + 1].sum, t)]
           down == CHOOSE d : d = [i \in Buckets |-> Body(d, i)]
<1>1. n \in Nat \ {0} /\ Buckets = 0 .. n - 1
  BY BucketNumbers
<1>2. \A i \in 0 .. n - 1 : x[i] \in Elements
  BY <1>1
<1>3. CombineBuckets(x) = down[0].sum
  BY DEF CombineBuckets
<1>4. n - 1 \in 0 .. n - 1 /\ \A i \in 0 .. n - 2 : i \in 0 .. n - 1 /\ i + 1 \in 0 .. n - 1 /\ i # n - 1
  BY <1>1
<1>5. \A i \in 0 .. n - 1, v \in V : next(i, v) \in V
  <2> TAKE i \in 0 .. n - 1, v \in V
  <2>1. v.t \in Elements /\ v.sum \in Elements /\ x[i] \in Elements
    BY <1>2
  <2>2. Plus(v.t, x[i]) \in Elements
    BY <2>1, ElementsAre
  <2>3. Plus(v.sum, Plus(v.t, x[i])) \in Elements
    BY <2>1, <2>2, ElementsAre
  <2> QED BY <2>2, <2>3
<1>6. /\ step \in [0 .. n - 2 -> [V -> V]]
      /\ \A i \in 0 .. n - 2, v \in V : step[i][v] = next(i, v)
  <2> HIDE DEF next, V
  <2> QED BY <1>4, <1>5
<1>7. base \in V
  <2>1. x[n - 1] \in Elements
    BY <1>2, <1>4
  <2>2. x[n - 1] \in Elements
    BY <2>1, ElementsAre
  <2> QED BY <2>1, <2>2
<1> HIDE DEF step
<1>8. PICK known \in [0 .. n - 1 -> V] : IsDown(known, n, base, step)
  <2> HIDE DEF V, base
  <2> QED BY <1>1, <1>6, <1>7, DownExists
<1>9. known = [i \in Buckets |-> Body(known, i)]
  <2>1. \A i \in 0 .. n - 1 : known[i] = Body(known, i)
    <3> TAKE i \in 0 .. n - 1
    <3>1. CASE i = n - 1
      BY <1>8, <3>1 DEF IsDown
    <3>2. CASE i # n - 1
      <4>1. i \in 0 .. n - 2 /\ known[i + 1] \in V
        BY <1>1, <1>4, <1>8, <3>2
      <4>2. known[i] = next(i, known[i + 1])
        BY <1>6, <1>8, <4>1 DEF IsDown
      <4> QED BY <3>2, <4>2
    <3> QED BY <3>1, <3>2
  <2> HIDE DEF Body
  <2> QED BY <1>1, <2>1
<1>10. down = [i \in Buckets |-> Body(down, i)]
  <2> HIDE DEF Body
  <2> QED BY <1>9
<1> HIDE DEF down
<1>11. \A i \in 0 .. n - 1 : down[i] = Body(down, i)
  <2> HIDE DEF Body
  <2> QED BY <1>1, <1>10
<1>12. Descends(down, n, V, base, step)
  <2>1. down = [i \in 0 .. n - 1 |-> down[i]]
    <3> HIDE DEF Body
    <3> QED BY <1>1, <1>10
  <2>2. down[n - 1] = base
    BY <1>4, <1>11
  <2>3. \A i \in 0 .. n - 2 : down[i] = next(i, down[i + 1])
    BY <1>4, <1>11
  <2> HIDE DEF V, base, next
  <2> QED BY <1>6, <2>1, <2>2, <2>3 DEF Descends
<1>13. /\ down \in [0 .. n - 1 -> V] /\ down[n - 1] = base
       /\ \A i \in 0 .. n - 2 : down[i] = next(i, down[i + 1])
  <2> HIDE DEF V, base, next
  <2>1. down \in [0 .. n - 1 -> V] /\ IsDown(down, n, base, step)
    BY <1>1, <1>6, <1>7, <1>12, DownIs
  <2> QED BY <1>4, <1>6, <2>1 DEF IsDown
<1>14. \A i \in 0 .. n - 1 : down[i].t \in Elements /\ down[i].sum \in Elements
  BY <1>13
<1>15. ASSUME NEW g \in Coefficients
       PROVE  down[0].sum[g] = 0 + SumFunction(Multiples(At(x, n, g), n))
  <2> DEFINE t == [i \in 0 .. n - 1 |-> down[i].t[g]]
             s == [i \in 0 .. n - 1 |-> down[i].sum[g]]
             y == At(x, n, g)
  <2>1. /\ t \in [0 .. n - 1 -> Int] /\ s \in [0 .. n - 1 -> Int] /\ y \in [0 .. n - 1 -> Int]
        /\ \A i \in 0 .. n - 1 : t[i] = down[i].t[g] /\ s[i] = down[i].sum[g] /\ y[i] = x[i][g]
    <3>1. \A i \in 0 .. n - 1 : down[i].t[g] \in Int /\ down[i].sum[g] \in Int /\ x[i][g] \in Int
      BY <1>2, <1>14 DEF Elements
    <3> QED BY <3>1 DEF At
  <2> HIDE DEF t, s, y
  <2>2. t[n - 1] = y[n - 1] /\ s[n - 1] = 0 + y[n - 1]
    <3>1. down[n - 1].t = x[n - 1] /\ down[n - 1].sum = x[n - 1]
      BY <1>13
    <3>2. x[n - 1] \in Elements /\ x[n - 1][g] \in Int
      BY <1>2, <1>4 DEF Elements
    <3>3. x[n - 1][g] = 0 + x[n - 1][g]
      BY <3>2, ElementsAre
    <3> QED BY <1>4, <2>1, <3>1, <3>3
  <2>3. ASSUME NEW i \in 0 .. n - 2 PROVE t[i] = t[i + 1] + y[i] /\ s[i] = s[i + 1] + t[i]
    <3>1. i \in 0 .. n - 1 /\ i + 1 \in 0 .. n - 1 /\ x[i] \in Elements
          /\ down[i + 1].t \in Elements /\ down[i + 1].sum \in Elements /\ down[i].t \in Elements
      BY <1>2, <1>4, <1>14
    <3>2. down[i].t = Plus(down[i + 1].t, x[i]) /\ down[i].sum = Plus(down[i + 1].sum, down[i].t)
      <4>1. PICK u : u = down[i + 1]
        OBVIOUS
      <4>2. down[i] = next(i, u)
        BY <1>13, <4>1
      <4>3. down[i].t = Plus(u.t, x[i]) /\ down[i].sum = Plus(u.sum, Plus(u.t, x[i]))
        BY <4>2
      <4> QED BY <4>1, <4>3
    <3>3. down[i].t[g] = down[i + 1].t[g] + x[i][g] /\ down[i].sum[g] = down[i + 1].sum[g] + down[i].t[g]
      BY <3>1, <3>2, ElementsAre
    <3> QED BY <2>1, <3>1, <3>3
  <2>4. RunningSums(t, s, y, 0, n)
    BY <2>2, <2>3 DEF RunningSums
  <2>5. s[0] = 0 + SumFunction(Multiples(y, n))
    <3>1. 0 \in Int
      BY DEF Elements
    <3> HIDE DEF n
    <3> QED BY <1>1, <2>1, <2>4, <3>1, RunningSumsAdded
  <2>6. 0 \in 0 .. n - 1
    BY <1>1
  <2> QED BY <2>1, <2>5, <2>6 DEF y
<1>16. down[0].sum \in Elements
  BY <1>1, <1>14
<1> QED BY <1>3, <1>15, <1>16

(* reduce_digits_rest, which goes on from the reduction of the digits above *)
DigitsRest(x, start) ==
  LET down[i \in Buckets] ==
        IF i = NumBuckets - 1
        THEN [t |-> x[i], reduction |-> Plus(start, x[i])]
        ELSE LET t == Plus(down[i + 1].t, x[i])
             IN  [t |-> t, reduction |-> Plus(down[i + 1].reduction, t)]
  IN  down[0].reduction

(* The reduction over the buckets weights each by its number. *)
LEMMA DigitsRestAre ==
  ASSUME NEW x, \A i \in Buckets : x[i] \in Elements, NEW start \in Elements
  PROVE  /\ DigitsRest(x, start) \in Elements
         /\ \A g \in Coefficients :
              DigitsRest(x, start)[g] = start[g] + SumFunction(Multiples(At(x, NumBuckets, g), NumBuckets))
<1> DEFINE n == NumBuckets
           V == [t : Elements, reduction : Elements]
           next(i, v) == [t |-> Plus(v.t, x[i]), reduction |-> Plus(v.reduction, Plus(v.t, x[i]))]
           step == [i \in 0 .. n - 2 |-> [v \in V |-> next(i, v)]]
           base == [t |-> x[n - 1], reduction |-> Plus(start, x[n - 1])]
           Body(d, i) == IF i = n - 1 THEN [t |-> x[i], reduction |-> Plus(start, x[i])]
                         ELSE LET t == Plus(d[i + 1].t, x[i])
                              IN  [t |-> t, reduction |-> Plus(d[i + 1].reduction, t)]
           down == CHOOSE d : d = [i \in Buckets |-> Body(d, i)]
<1>1. n \in Nat \ {0} /\ Buckets = 0 .. n - 1
  BY BucketNumbers
<1>2. \A i \in 0 .. n - 1 : x[i] \in Elements
  BY <1>1
<1>3. DigitsRest(x, start) = down[0].reduction
  BY DEF DigitsRest
<1>4. n - 1 \in 0 .. n - 1 /\ \A i \in 0 .. n - 2 : i \in 0 .. n - 1 /\ i + 1 \in 0 .. n - 1 /\ i # n - 1
  BY <1>1
<1>5. \A i \in 0 .. n - 1, v \in V : next(i, v) \in V
  <2> TAKE i \in 0 .. n - 1, v \in V
  <2>1. v.t \in Elements /\ v.reduction \in Elements /\ x[i] \in Elements
    BY <1>2
  <2>2. Plus(v.t, x[i]) \in Elements
    BY <2>1, ElementsAre
  <2>3. Plus(v.reduction, Plus(v.t, x[i])) \in Elements
    BY <2>1, <2>2, ElementsAre
  <2> QED BY <2>2, <2>3
<1>6. /\ step \in [0 .. n - 2 -> [V -> V]]
      /\ \A i \in 0 .. n - 2, v \in V : step[i][v] = next(i, v)
  <2> HIDE DEF next, V
  <2> QED BY <1>4, <1>5
<1>7. base \in V
  <2>1. x[n - 1] \in Elements
    BY <1>2, <1>4
  <2>2. Plus(start, x[n - 1]) \in Elements
    BY <2>1, ElementsAre
  <2> QED BY <2>1, <2>2
<1> HIDE DEF step
<1>8. PICK known \in [0 .. n - 1 -> V] : IsDown(known, n, base, step)
  <2> HIDE DEF V, base
  <2> QED BY <1>1, <1>6, <1>7, DownExists
<1>9. known = [i \in Buckets |-> Body(known, i)]
  <2>1. \A i \in 0 .. n - 1 : known[i] = Body(known, i)
    <3> TAKE i \in 0 .. n - 1
    <3>1. CASE i = n - 1
      BY <1>8, <3>1 DEF IsDown
    <3>2. CASE i # n - 1
      <4>1. i \in 0 .. n - 2 /\ known[i + 1] \in V
        BY <1>1, <1>4, <1>8, <3>2
      <4>2. known[i] = next(i, known[i + 1])
        BY <1>6, <1>8, <4>1 DEF IsDown
      <4> QED BY <3>2, <4>2
    <3> QED BY <3>1, <3>2
  <2> HIDE DEF Body
  <2> QED BY <1>1, <2>1
<1>10. down = [i \in Buckets |-> Body(down, i)]
  <2> HIDE DEF Body
  <2> QED BY <1>9
<1> HIDE DEF down
<1>11. \A i \in 0 .. n - 1 : down[i] = Body(down, i)
  <2> HIDE DEF Body
  <2> QED BY <1>1, <1>10
<1>12. Descends(down, n, V, base, step)
  <2>1. down = [i \in 0 .. n - 1 |-> down[i]]
    <3> HIDE DEF Body
    <3> QED BY <1>1, <1>10
  <2>2. down[n - 1] = base
    BY <1>4, <1>11
  <2>3. \A i \in 0 .. n - 2 : down[i] = next(i, down[i + 1])
    BY <1>4, <1>11
  <2> HIDE DEF V, base, next
  <2> QED BY <1>6, <2>1, <2>2, <2>3 DEF Descends
<1>13. /\ down \in [0 .. n - 1 -> V] /\ down[n - 1] = base
       /\ \A i \in 0 .. n - 2 : down[i] = next(i, down[i + 1])
  <2> HIDE DEF V, base, next
  <2>1. down \in [0 .. n - 1 -> V] /\ IsDown(down, n, base, step)
    BY <1>1, <1>6, <1>7, <1>12, DownIs
  <2> QED BY <1>4, <1>6, <2>1 DEF IsDown
<1>14. \A i \in 0 .. n - 1 : down[i].t \in Elements /\ down[i].reduction \in Elements
  BY <1>13
<1>15. ASSUME NEW g \in Coefficients
       PROVE  down[0].reduction[g] = start[g] + SumFunction(Multiples(At(x, n, g), n))
  <2> DEFINE t == [i \in 0 .. n - 1 |-> down[i].t[g]]
             s == [i \in 0 .. n - 1 |-> down[i].reduction[g]]
             y == At(x, n, g)
  <2>1. /\ t \in [0 .. n - 1 -> Int] /\ s \in [0 .. n - 1 -> Int] /\ y \in [0 .. n - 1 -> Int]
        /\ \A i \in 0 .. n - 1 : t[i] = down[i].t[g] /\ s[i] = down[i].reduction[g] /\ y[i] = x[i][g]
    <3>1. \A i \in 0 .. n - 1 : down[i].t[g] \in Int /\ down[i].reduction[g] \in Int /\ x[i][g] \in Int
      BY <1>2, <1>14 DEF Elements
    <3> QED BY <3>1 DEF At
  <2> HIDE DEF t, s, y
  <2>2. t[n - 1] = y[n - 1] /\ s[n - 1] = start[g] + y[n - 1]
    <3>1. down[n - 1].t = x[n - 1] /\ down[n - 1].reduction = Plus(start, x[n - 1])
      BY <1>13
    <3>2. x[n - 1] \in Elements /\ x[n - 1][g] \in Int
      BY <1>2, <1>4 DEF Elements
    <3>3. Plus(start, x[n - 1])[g] = start[g] + x[n - 1][g]
      BY <3>2, ElementsAre
    <3> QED BY <1>4, <2>1, <3>1, <3>3
  <2>3. ASSUME NEW i \in 0 .. n - 2 PROVE t[i] = t[i + 1] + y[i] /\ s[i] = s[i + 1] + t[i]
    <3>1. i \in 0 .. n - 1 /\ i + 1 \in 0 .. n - 1 /\ x[i] \in Elements
          /\ down[i + 1].t \in Elements /\ down[i + 1].reduction \in Elements /\ down[i].t \in Elements
      BY <1>2, <1>4, <1>14
    <3>2. down[i].t = Plus(down[i + 1].t, x[i]) /\ down[i].reduction = Plus(down[i + 1].reduction, down[i].t)
      <4>1. PICK u : u = down[i + 1]
        OBVIOUS
      <4>2. down[i] = next(i, u)
        BY <1>13, <4>1
      <4>3. down[i].t = Plus(u.t, x[i]) /\ down[i].reduction = Plus(u.reduction, Plus(u.t, x[i]))
        BY <4>2
      <4> QED BY <4>1, <4>3
    <3>3. down[i].t[g] = down[i + 1].t[g] + x[i][g] /\ down[i].reduction[g] = down[i + 1].reduction[g] + down[i].t[g]
      BY <3>1, <3>2, ElementsAre
    <3> QED BY <2>1, <3>1, <3>3
  <2>4. RunningSums(t, s, y, start[g], n)
    BY <2>2, <2>3 DEF RunningSums
  <2>5. s[0] = start[g] + SumFunction(Multiples(y, n))
    <3>1. start[g] \in Int
      BY DEF Elements
    <3> HIDE DEF n
    <3> QED BY <1>1, <2>1, <2>4, <3>1, RunningSumsAdded
  <2>6. 0 \in 0 .. n - 1
    BY <1>1
  <2> QED BY <2>1, <2>5, <2>6 DEF y
<1>16. down[0].reduction \in Elements
  BY <1>1, <1>14
<1> QED BY <1>3, <1>15, <1>16

-----------------------------------------------------------------------------
(* The results of the bucket methods *)

HoldsBuckets(x, e) ==
  \A group \in Groups, bucket \in Buckets : x[group][bucket] = BucketOf(e.data, 0, e.n, group, bucket)

(* A family whose coefficients are those of another is the other. *)
LEMMA SameElement ==
  ASSUME NEW x \in Elements, NEW e, \A g \in Coefficients : x[g] = ExponentSum(e)[g]
  PROVE  x = ExponentSum(e)
<1>1. ExponentSum(e) = [g \in Coefficients |-> ExponentSum(e)[g]]
  BY DEF ExponentSum, Weighted, Zero, Coefficients
<1>2. x = [g \in Coefficients |-> x[g]]
  BY DEF Elements
<1> QED BY <1>1, <1>2

(* bucket_method: from an output's right bucket sums, combining the groups *)
(* of every bucket and adding the buckets up gives the output's result.    *)
THEOREM BucketResultIs ==
  ASSUME NEW held, NEW o \in DOMAIN held, NEW e, InBucketMethod(e), HoldsBuckets(held[o], e)
  PROVE  BucketResult(held)[o] = ExponentSum(e)
<1> DEFINE reduced == [bucket \in Buckets |-> CombinedGroups(held[o], bucket)]
           n == ElementBytes
           max == NumBuckets
<1>1. /\ max \in Nat \ {0} /\ Buckets = 0 .. max - 1 /\ n \in Nat \ {0} /\ Groups = 0 .. n - 1
  BY BucketNumbers
<1>2. BucketResult(held)[o] = CombineBuckets(reduced)
  BY DEF BucketResult
<1>3. ASSUME NEW bucket \in Buckets
      PROVE  /\ reduced[bucket] \in Elements
             /\ \A g \in Coefficients :
                  reduced[bucket][g] = SumFunction(Places(HasDigit(DigitsOf(e, g), bucket, n), BytePowers, n))
  <2> DEFINE x == [group \in Groups |-> held[o][group][bucket]]
  <2>1. \A group \in Groups : held[o][group][bucket] \in Elements
    BY BucketOfIs DEF HoldsBuckets
  <2>2. /\ CombinedGroups(held[o], bucket) \in Elements
        /\ \A g \in Coefficients :
             CombinedGroups(held[o], bucket)[g] = SumFunction(Places(At(x, n, g), BytePowers, n))
    BY <2>1, CombinedGroupsAre
  <2>3. ASSUME NEW g \in Coefficients PROVE At(x, n, g) = HasDigit(DigitsOf(e, g), bucket, n)
    <3>1. \A group \in Groups : x[group][g] = IF DigitsOf(e, g)[group] = bucket + 1 THEN 1 ELSE 0
      <4> TAKE group \in Groups
      <4>1. x[group] = BucketOf(e.data, 0, e.n, group, bucket)
        BY DEF HoldsBuckets
      <4> QED BY <4>1, DigitsValue
    <3> HIDE DEF x
    <3> QED BY <1>1, <3>1 DEF At, HasDigit
  <2> HIDE DEF x
  <2> QED BY <2>2, <2>3
<1> HIDE DEF reduced
<1>4. /\ CombineBuckets(reduced) \in Elements
      /\ \A g \in Coefficients :
           CombineBuckets(reduced)[g] = 0 + SumFunction(Multiples(At(reduced, max, g), max))
  BY <1>3, CombineBucketsAre
<1>5. ASSUME NEW g \in Coefficients PROVE CombineBuckets(reduced)[g] = ExponentSum(e)[g]
  <2>1. PICK D, p : D = DigitsOf(e, g) /\ p = BytePowers
    OBVIOUS
  <2>2. /\ D \in [0 .. n - 1 -> 0 .. max] /\ p \in [0 .. n -> Int]
        /\ SumFunction(Places(D, p, n)) = ExponentSum(e)[g]
    BY <2>1, DigitsValue
  <2>3. At(reduced, max, g) = ValuesOfDigits(D, p, n, max)
    BY <1>1, <1>3, <2>1 DEF At, ValuesOfDigits
  <2>4. SumFunction(Multiples(ValuesOfDigits(D, p, n, max), max)) = SumFunction(Places(D, p, n))
    BY <1>1, <2>2, DigitsAddUp
  <2>5. CombineBuckets(reduced)[g] = 0 + ExponentSum(e)[g]
    BY <1>4, <2>2, <2>3, <2>4
  <2>6. CombineBuckets(reduced)[g] \in Int /\ SumFunction(Places(D, p, n)) \in Int
    <3>1. CombineBuckets(reduced)[g] \in Int
      BY <1>4 DEF Elements
    <3>2. \A k \in 0 .. n - 1 : D[k] \in Int /\ p[k] \in Int
      BY <1>1, <2>2
    <3>3. Places(D, p, n) \in [0 .. n - 1 -> Int]
      <4>1. \A k \in 0 .. n - 1 : D[k] * p[k] \in Int
        BY <3>2, ProductsOfIntegers
      <4> QED BY <4>1 DEF Places
    <3>4. Prefix(Places(D, p, n), n) = SumFunction(Places(D, p, n))
          /\ \A m \in 0 .. n : Prefix(Places(D, p, n), m) \in Int
      BY <1>1, <3>3, PrefixIs
    <3>5. n \in 0 .. n
      BY <1>1
    <3> QED BY <3>1, <3>4, <3>5
  <2> QED BY <2>2, <2>5, <2>6
<1> QED BY <1>2, <1>4, <1>5, SameElement

(* Every chunk has its bucket held at its place, and every place a chunk *)
BucketsPlaced(chunks, m, s, partials, exponents, outs) ==
  /\ s \in [0 .. m - 1 -> 0 .. m - 1]
  /\ \A r \in 0 .. m - 1 : \E c \in 0 .. m - 1 : s[c] = r
  /\ \A c \in 0 .. m - 1 :
       partials[s[c]] = ChunkBuckets([o \in outs |-> exponents[o].data], chunks[c])

(* segmented_left_fold_partial_bucket_sums adds up all generators, at      *)
(* whatever places the chunks are.                                         *)
LEMMA FoldBucketsAre ==
  ASSUME NEW chunks, NEW m \in Nat \ {0}, NEW n \in 0 .. NumGens, Partitions(chunks, m, n, 1),
         NEW s, NEW partials, NEW exponents, NEW outs, NEW o \in outs, exponents[o].n = n,
         BucketsPlaced(chunks, m, s, partials, exponents, outs)
  PROVE  /\ DOMAIN FoldBuckets(partials, m) = outs
         /\ HoldsBuckets(FoldBuckets(partials, m)[o], exponents[o])
<1> DEFINE datas == [p \in outs |-> exponents[p].data]
           data == exponents[o].data
<1>0. n \in Nat /\ n <= NumGens /\ NumGens \in Nat
  BY GroupAssumption
<1>1. ASSUME NEW c \in 0 .. m - 1
      PROVE  s[c] \in 0 .. m - 1 /\ partials[s[c]] = ChunkBuckets(datas, chunks[c]) /\ Span(chunks[c])
             /\ chunks[c].a \in Nat /\ chunks[c].b \in Nat /\ chunks[c].b <= n
  <2>1. s[c] \in 0 .. m - 1 /\ partials[s[c]] = ChunkBuckets(datas, chunks[c])
    BY DEF BucketsPlaced
  <2>2. PICK a, b : a = chunks[c].a /\ b = chunks[c].b
    OBVIOUS
  <2>3. a \in Nat /\ b \in Nat /\ a < b /\ b <= n
    BY <2>2 DEF Partitions
  <2>4. b <= NumGens
    BY <1>0, <2>3
  <2> QED BY <2>1, <2>2, <2>3, <2>4 DEF Span
<1>2. \A r \in 0 .. m - 1 : \E c \in 0 .. m - 1 : s[c] = r
  BY DEF BucketsPlaced
<1>3. DOMAIN partials[0] = outs
  <2>0. 0 \in 0 .. m - 1
    OBVIOUS
  <2>1. PICK c \in 0 .. m - 1 : s[c] = 0
    BY <1>2, <2>0
  <2> QED BY <1>1, <2>1 DEF ChunkBuckets
<1>4. DOMAIN FoldBuckets(partials, m) = outs
  BY <1>3 DEF FoldBuckets
<1>5. ASSUME NEW group \in Groups, NEW bucket \in Buckets
      PROVE  FoldBuckets(partials, m)[o][group][bucket] = BucketOf(data, 0, n, group, bucket)
  <2>1. PICK f : f = [r \in 0 .. m - 1 |-> partials[r][o][group][bucket]]
    OBVIOUS
  <2>2. FoldBuckets(partials, m)[o][group][bucket] = FoldFunction(Plus, Zero, f)
    BY <1>3, <2>1 DEF FoldBuckets, SumFrom
  <2>3. ASSUME NEW c \in 0 .. m - 1
        PROVE  f[s[c]] = BucketOf(data, chunks[c].a, chunks[c].b, group, bucket)
    <3>1. f[s[c]] = ChunkBuckets(datas, chunks[c])[o][group][bucket]
      BY <1>1, <2>1
    <3>2. o \in DOMAIN datas /\ datas[o] = data /\ Span(chunks[c])
      BY <1>1
    <3> HIDE DEF datas, data
    <3>3. ChunkBuckets(datas, chunks[c])[o][group][bucket]
            = BucketOf(datas[o], chunks[c].a, chunks[c].b, group, bucket)
      BY <3>2, ChunkBucketsAre
    <3> QED BY <3>1, <3>2, <3>3
  <2>4. f \in [0 .. m - 1 -> Elements] /\ DOMAIN f = 0 .. m - 1
    <3>1. \A r \in 0 .. m - 1 : f[r] \in Elements
      <4> TAKE r \in 0 .. m - 1
      <4>1. PICK c \in 0 .. m - 1 : s[c] = r
        BY <1>2
      <4> QED BY <2>3, <4>1, BucketOfIs
    <3> QED BY <2>1, <3>1
  <2>5. IsFiniteSet(0 .. m - 1)
    BY FS_Interval
  <2>6. /\ FoldFunction(Plus, Zero, f) \in Elements
        /\ \A g \in Coefficients : FoldFunction(Plus, Zero, f)[g] = SumFunction(CoefficientsOf(f, g))
    BY <2>4, <2>5, VectorSum
  <2>7. ASSUME NEW g \in Coefficients
        PROVE  SumFunction(CoefficientsOf(f, g)) = BucketOf(data, 0, n, group, bucket)[g]
    <3>1. PICK h : h = CoefficientsOf(f, g)
      OBVIOUS
    <3>2. h \in [0 .. m - 1 -> Int] /\ \A r \in 0 .. m - 1 : h[r] = f[r][g]
      BY <2>4, <3>1 DEF CoefficientsOf, Elements
    <3>3. g \in Int
      BY GroupAssumption DEF Coefficients, Junk
    <3>4. ASSUME NEW c \in 0 .. m - 1
          PROVE  h[s[c]] = IF HasIndex(chunks, c, g) /\ Digit(data, g, group) = bucket + 1 THEN 1 ELSE 0
      <4> HIDE DEF data, datas
      <4>1. s[c] \in 0 .. m - 1
        BY <1>1
      <4>2. h[s[c]] = BucketOf(data, chunks[c].a, chunks[c].b, group, bucket)[g]
        BY <2>3, <3>2, <4>1
      <4> QED BY <4>2 DEF BucketOf, HasIndex
    <3>5. CASE 0 <= g /\ g < n
      <4>1. g \in 0 .. n - 1
        BY <1>0, <3>3, <3>5
      <4>2. PICK u \in 0 .. m - 1 : \A i \in 0 .. m - 1 : HasIndex(chunks, i, g) <=> i = u
        BY <4>1 DEF Partitions
      <4>3. ASSUME NEW r \in 0 .. m - 1, r # s[u] PROVE h[r] = 0
        <5>1. PICK c \in 0 .. m - 1 : s[c] = r
          BY <1>2
        <5> QED BY <3>4, <4>2, <4>3, <5>1
      <4>4. SumFunction(h) = h[s[u]]
        <5> HIDE DEF data, datas
        <5>1. PICK R, v : R = 0 .. m - 1 /\ v = s[u]
          OBVIOUS
        <5>2. v \in R
          BY <1>1, <5>1
        <5>3. IsFiniteSet(R) /\ h \in [R -> Int] /\ \A r \in R : r # v => h[r] = 0
          BY <2>5, <3>2, <4>3, <5>1
        <5>4. SumFunction(h) = h[v]
          BY <5>2, <5>3, SumOfOneElement
        <5> QED BY <5>1, <5>4
      <4> HIDE DEF data
      <4> QED BY <3>1, <3>4, <3>5, <4>2, <4>4 DEF BucketOf
    <3>6. CASE ~(0 <= g /\ g < n)
      <4>1. ASSUME NEW r \in 0 .. m - 1 PROVE h[r] = 0
        <5>1. PICK c \in 0 .. m - 1 : s[c] = r
          BY <1>2
        <5>2. PICK a, b : a = chunks[c].a /\ b = chunks[c].b
          OBVIOUS
        <5>3. ~(a <= g /\ g < b)
          <6>1. a \in Nat /\ b \in Nat /\ b <= n
            BY <1>1, <5>2
          <6> QED BY <1>0, <3>3, <3>6, <6>1
        <5>4. ~ HasIndex(chunks, c, g)
          BY <5>2, <5>3 DEF HasIndex
        <5> QED BY <3>4, <5>1, <5>4
      <4>2. SumFunction(h) = 0
        BY <2>5, <3>2, <4>1, SumOfZeros
      <4> HIDE DEF data
      <4> QED BY <3>1, <3>6, <4>2 DEF BucketOf
    <3> QED BY <3>5, <3>6
  <2>8. FoldFunction(Plus, Zero, f) = BucketOf(data, 0, n, group, bucket)
    <3> HIDE DEF data
    <3> QED BY <2>6, <2>7, BucketOfIs DEF Elements
  <2> QED BY <2>2, <2>8
<1> HIDE DEF data
<1>6. HoldsBuckets(FoldBuckets(partials, m)[o], exponents[o])
  BY <1>5 DEF HoldsBuckets, data
<1> QED BY <1>4, <1>6

-----------------------------------------------------------------------------
(* bucket_method2: the digits from the top *)

(* Reducing digit by digit, from the last, gives the exponents' sum as      *)
(* well.                                                                    *)
LEMMA ReducedDigitsAre ==
  ASSUME NEW held, NEW e, InBucketMethod(e), HoldsBuckets(held, e)
  PROVE  ReducedDigits(held) = ExponentSum(e)
<1> DEFINE n == ElementBytes
           max == NumBuckets
           step == [i \in 0 .. n - 2 |-> [v \in Elements |-> DigitsRest(held[i], DoubledTimes(v, ByteBits))]]
           base == DigitsRest(held[n - 1], Zero)
           Body(t, group) == DigitsRest(held[group], IF group = n - 1 THEN Zero
                                                     ELSE DoubledTimes(t[group + 1], ByteBits))
           from == CHOOSE t : t = [group \in Groups |-> Body(t, group)]
<1>1. /\ max \in Nat \ {0} /\ Buckets = 0 .. max - 1 /\ n \in Nat \ {0} /\ Groups = 0 .. n - 1
      /\ ByteBits \in Nat \ {0}
  BY BucketNumbers
<1>2. ReducedDigits(held) = from[0]
  BY DEF ReducedDigits, DigitsRest
<1>3. n - 1 \in 0 .. n - 1 /\ \A i \in 0 .. n - 2 : i \in 0 .. n - 1 /\ i + 1 \in 0 .. n - 1 /\ i # n - 1
  BY <1>1
(* What a digit adds *)
<1>4. ASSUME NEW i \in 0 .. n - 1, NEW v \in Elements
      PROVE  /\ DigitsRest(held[i], v) \in Elements
             /\ \A g \in Coefficients : DigitsRest(held[i], v)[g] = v[g] + DigitsOf(e, g)[i]
  <2>1. \A bucket \in Buckets : held[i][bucket] = BucketOf(e.data, 0, e.n, i, bucket)
    BY <1>1 DEF HoldsBuckets
  <2>2. \A bucket \in Buckets : held[i][bucket] \in Elements
    BY <2>1, BucketOfIs
  <2>3. /\ DigitsRest(held[i], v) \in Elements
        /\ \A g \in Coefficients :
             DigitsRest(held[i], v)[g] = v[g] + SumFunction(Multiples(At(held[i], max, g), max))
    BY <2>2, DigitsRestAre
  <2>4. ASSUME NEW g \in Coefficients
        PROVE  SumFunction(Multiples(At(held[i], max, g), max)) = DigitsOf(e, g)[i]
    <3>1. PICK d, h : d = DigitsOf(e, g)[i] /\ h = Multiples(At(held[i], max, g), max)
      OBVIOUS
    <3>2. d \in 0 .. max
      <4>1. DigitsOf(e, g) \in [0 .. n - 1 -> 0 .. max]
        BY DigitsValue
      <4> QED BY <3>1, <4>1
    <3>3. \A k \in 0 .. max - 1 : At(held[i], max, g)[k] = IF d = k + 1 THEN 1 ELSE 0
      <4> TAKE k \in 0 .. max - 1
      <4>1. held[i][k][g] = BucketOf(e.data, 0, e.n, i, k)[g]
        BY <1>1, <2>1
      <4>2. BucketOf(e.data, 0, e.n, i, k)[g] = IF DigitsOf(e, g)[i] = k + 1 THEN 1 ELSE 0
        BY <1>1, DigitsValue
      <4> QED BY <3>1, <4>1, <4>2 DEF At
    <3>4. \A k \in 0 .. max - 1 : h[k] = IF d = k + 1 THEN k + 1 ELSE 0
      <4> TAKE k \in 0 .. max - 1
      <4>1. PICK x : x = At(held[i], max, g)[k]
        OBVIOUS
      <4>2. h[k] = (k + 1) * x /\ x = IF d = k + 1 THEN 1 ELSE 0
        BY <3>1, <3>3, <4>1 DEF Multiples
      <4>3. (k + 1) * 1 = k + 1 /\ (k + 1) * 0 = 0
        BY <1>1
      <4> QED BY <4>2, <4>3
    <3>5. h \in [0 .. max - 1 -> Int]
      <4>1. h = [k \in 0 .. max - 1 |-> h[k]]
        BY <3>1 DEF Multiples
      <4>2. \A k \in 0 .. max - 1 : h[k] \in Int
        BY <3>4
      <4> QED BY <4>1, <4>2
    <3>6. IsFiniteSet(0 .. max - 1)
      BY <1>1, FS_Interval
    <3>7. CASE d = 0
      <4>1. \A k \in 0 .. max - 1 : h[k] = 0
        BY <1>1, <3>4, <3>7
      <4>2. SumFunction(h) = 0
        BY <3>5, <3>6, <4>1, SumOfZeros
      <4> QED BY <3>1, <3>7, <4>2
    <3>8. CASE d # 0
      <4>1. PICK k : k = d - 1
        OBVIOUS
      <4>2. k \in 0 .. max - 1 /\ k + 1 = d
        BY <1>1, <3>2, <3>8, <4>1
      <4>3. \A l \in 0 .. max - 1 : l # k => h[l] = 0
        BY <1>1, <3>4, <4>2
      <4>4. SumFunction(h) = h[k]
        BY <3>5, <3>6, <4>2, <4>3, SumOfOneElement
      <4> QED BY <3>1, <3>4, <4>2, <4>4
    <3> QED BY <3>7, <3>8
  <2> QED BY <2>3, <2>4
<1>5. ASSUME NEW i \in 0 .. n - 1, NEW v \in Elements
      PROVE  DigitsRest(held[i], DoubledTimes(v, ByteBits)) \in Elements
  <2>1. DoubledTimes(v, ByteBits) \in Elements
    BY <1>1, DoubledTimesIs
  <2> QED BY <1>4, <2>1
<1>6. /\ step \in [0 .. n - 2 -> [Elements -> Elements]]
      /\ \A i \in 0 .. n - 2, v \in Elements : step[i][v] = DigitsRest(held[i], DoubledTimes(v, ByteBits))
  BY <1>3, <1>5
<1>7. base \in Elements
  BY <1>3, <1>4, ElementsAre
<1> HIDE DEF step
<1>8. PICK known \in [0 .. n - 1 -> Elements] : IsDown(known, n, base, step)
  <2> HIDE DEF base
  <2> QED BY <1>1, <1>6, <1>7, DownExists
<1>9. known = [group \in Groups |-> Body(known, group)]
  <2>1. \A i \in 0 .. n - 1 : known[i] = Body(known, i)
    <3> TAKE i \in 0 .. n - 1
    <3>1. CASE i = n - 1
      BY <1>8, <3>1 DEF IsDown
    <3>2. CASE i # n - 1
      <4>1. i \in 0 .. n - 2
        BY <1>1, <3>2
      <4>2. known[i + 1] \in Elements
        BY <1>3, <1>8, <4>1
      <4>3. known[i] = step[i][known[i + 1]]
        BY <1>8, <4>1 DEF IsDown
      <4> QED BY <1>6, <3>2, <4>1, <4>2, <4>3
    <3> QED BY <3>1, <3>2
  <2> HIDE DEF Body
  <2> QED BY <1>1, <2>1
<1>10. from = [group \in Groups |-> Body(from, group)]
  <2> HIDE DEF Body
  <2> QED BY <1>9
<1> HIDE DEF from
<1>11. \A i \in 0 .. n - 1 : from[i] = Body(from, i)
  <2> HIDE DEF Body
  <2> QED BY <1>1, <1>10
<1>12. /\ from[n - 1] = base
       /\ \A i \in 0 .. n - 2 : from[i] = DigitsRest(held[i], DoubledTimes(from[i + 1], ByteBits))
  BY <1>3, <1>11
<1>13. Descends(from, n, Elements, base, step)
  <2>1. from = [i \in 0 .. n - 1 |-> from[i]]
    <3> HIDE DEF Body
    <3> QED BY <1>1, <1>10
  <2> HIDE DEF base
  <2> QED BY <1>6, <1>12, <2>1 DEF Descends
<1>14. from \in [0 .. n - 1 -> Elements]
  <2> HIDE DEF base
  <2> QED BY <1>1, <1>6, <1>7, <1>13, DownIs
<1>15. ASSUME NEW g \in Coefficients PROVE from[0][g] = ExponentSum(e)[g]
  <2> DEFINE t == [i \in 0 .. n - 1 |-> from[i][g]]
  <2>1. PICK D, p : D = DigitsOf(e, g) /\ p = BytePowers
    OBVIOUS
  <2>2. /\ D \in [0 .. n - 1 -> 0 .. max] /\ p \in [0 .. n -> Int] /\ ArePowers(p, PowerOf2(ByteBits), n)
        /\ SumFunction(Places(D, p, n)) = ExponentSum(e)[g]
    BY <2>1, DigitsValue
  <2>3. t \in [0 .. n - 1 -> Int] /\ \A i \in 0 .. n - 1 : t[i] = from[i][g]
    BY <1>14 DEF Elements
  <2> HIDE DEF t
  <2>4. D \in [0 .. n - 1 -> Int]
    BY <1>1, <2>2
  <2>5. t[n - 1] = D[n - 1]
    <3>1. from[n - 1][g] = Zero[g] + D[n - 1] /\ Zero[g] = 0
      <4>1. Zero \in Elements /\ Zero[g] = 0
        BY ElementsAre
      <4>2. PICK k : k = n - 1
        OBVIOUS
      <4>3. k \in 0 .. n - 1 /\ from[k] = DigitsRest(held[k], Zero)
        BY <1>3, <1>12, <4>2
      <4>4. DigitsRest(held[k], Zero)[g] = Zero[g] + DigitsOf(e, g)[k]
        BY <1>4, <4>1, <4>3
      <4> QED BY <2>1, <4>1, <4>2, <4>3, <4>4
    <3>2. D[n - 1] \in Int
      BY <1>3, <2>4
    <3> QED BY <1>3, <2>3, <3>1, <3>2
  <2>6. ASSUME NEW i \in 0 .. n - 2 PROVE t[i] = PowerOf2(ByteBits) * t[i + 1] + D[i]
    <3>1. from[i + 1] \in Elements
      BY <1>3, <1>14
    <3>2. PICK v : v = DoubledTimes(from[i + 1], ByteBits)
      OBVIOUS
    <3>3. v \in Elements /\ v[g] = PowerOf2(ByteBits) * from[i + 1][g]
      BY <1>1, <3>1, <3>2, DoubledTimesIs
    <3>4. from[i] = DigitsRest(held[i], v) /\ i \in 0 .. n - 1
      BY <1>1, <1>12, <3>2
    <3>5. from[i][g] = v[g] + D[i]
      <4>1. DigitsRest(held[i], v)[g] = v[g] + DigitsOf(e, g)[i]
        BY <1>4, <3>3, <3>4
      <4> QED BY <2>1, <3>4, <4>1
    <3> QED BY <1>3, <2>3, <3>3, <3>5
  <2>7. FromLastDown(t, D, PowerOf2(ByteBits), n)
    BY <2>5, <2>6 DEF FromLastDown
  <2>8. PowerOf2(ByteBits) \in Int
    BY <1>1, PowerStep
  <2>9. t[0] = SumFunction(Places(D, p, n))
    BY <1>1, <2>2, <2>3, <2>4, <2>7, <2>8, PlacesAdded
  <2>10. 0 \in 0 .. n - 1
    BY <1>1
  <2> QED BY <2>2, <2>3, <2>9, <2>10
<1>16. from[0] \in Elements
  BY <1>1, <1>14
<1> QED BY <1>2, <1>15, <1>16, SameElement

-----------------------------------------------------------------------------
(* Sorting by keys *)

(* f[k] has the value of the index idx[k] there, and is 0 elsewhere. *)
Spikes(f, T, idx, value) ==
  /\ f \in [T -> Elements]
  /\ \A k \in T, g \in Coefficients : f[k][g] = IF g = idx[k] THEN value[g] ELSE 0

(* Elements that are multiples of distinct generators add up coefficient by *)
(* coefficient.                                                             *)
LEMMA SpikesAdded ==
  ASSUME NEW T, IsFiniteSet(T), NEW f, NEW idx, NEW value, Spikes(f, T, idx, value),
         \A j, k \in T : idx[j] = idx[k] => j = k
  PROVE  /\ FoldFunction(Plus, Zero, f) \in Elements
         /\ \A g \in Coefficients :
              FoldFunction(Plus, Zero, f)[g] = IF \E k \in T : idx[k] = g THEN value[g] ELSE 0
<1>1. f \in [T -> Elements] /\ DOMAIN f = T
  BY DEF Spikes
<1>2. /\ FoldFunction(Plus, Zero, f) \in Elements
      /\ \A g \in Coefficients : FoldFunction(Plus, Zero, f)[g] = SumFunction(CoefficientsOf(f, g))
  BY <1>1, VectorSum
<1>3. ASSUME NEW g \in Coefficients
      PROVE  SumFunction(CoefficientsOf(f, g)) = IF \E k \in T : idx[k] = g THEN value[g] ELSE 0
  <2>1. PICK h : h = CoefficientsOf(f, g)
    OBVIOUS
  <2>2. h \in [T -> Int] /\ \A k \in T : h[k] = IF g = idx[k] THEN value[g] ELSE 0
    <3>1. h = [k \in T |-> f[k][g]]
      BY <1>1, <2>1 DEF CoefficientsOf
    <3>2. \A k \in T : f[k][g] \in Int
      BY <1>1 DEF Elements
    <3> QED BY <3>1, <3>2 DEF Spikes
  <2>3. CASE \E k \in T : idx[k] = g
    <3>1. PICK k \in T : idx[k] = g
      BY <2>3
    <3>2. \A j \in T : j # k => h[j] = 0
      BY <2>2, <3>1
    <3>3. SumFunction(h) = h[k]
      BY <2>2, <3>2, SumOfOneElement
    <3> QED BY <2>1, <2>2, <2>3, <3>1, <3>3
  <2>4. CASE ~ \E k \in T : idx[k] = g
    <3>1. \A j \in T : h[j] = 0
      BY <2>2, <2>4
    <3>2. SumFunction(h) = 0
      BY <2>2, <3>1, SumOfZeros
    <3> QED BY <2>1, <2>4, <3>2
  <2> QED BY <2>3, <2>4
<1> QED BY <1>2, <1>3

Keyed(x, a, m, i) == x = a * m + i

(* Pairs compared as one number *)
LEMMA LexOrder ==
  ASSUME NEW m \in Nat \ {0}, NEW a \in Int, NEW b \in Int, NEW i \in 0 .. m - 1, NEW j \in 0 .. m - 1,
         NEW x, NEW y, Keyed(x, a, m, i), Keyed(y, b, m, j)
  PROVE  x < y <=> a < b \/ (a = b /\ i < j)
<1>1. PICK p, q : p = a * m /\ q = b * m
  OBVIOUS
<1>2. x = p + i /\ y = q + j /\ p \in Int /\ q \in Int
  BY <1>1 DEF Keyed
<1>3. CASE a = b
  BY <1>1, <1>2, <1>3
<1>4. CASE a < b
  <2>1. PICK c : c = b - a - 1
    OBVIOUS
  <2>2. c \in Nat /\ b = (a + 1) + c
    BY <1>4, <2>1
  <2>3. ((a + 1) + c) * m = (a * m + m) + c * m /\ c * m \in Nat
    BY <2>2
  <2>4. q >= p + m
    BY <1>1, <1>2, <2>2, <2>3
  <2> QED BY <1>2, <1>4, <2>4
<1>5. CASE b < a
  <2>1. PICK c : c = a - b - 1
    OBVIOUS
  <2>2. c \in Nat /\ a = (b + 1) + c
    BY <1>5, <2>1
  <2>3. ((b + 1) + c) * m = (b * m + m) + c * m /\ c * m \in Nat
    BY <2>2
  <2>4. p >= q + m
    BY <1>1, <1>2, <2>2, <2>3
  <2> QED BY <1>2, <1>5, <2>4
<1> QED BY <1>3, <1>4, <1>5

(* The place of i when 0 .. size - 1 is sorted by key, stably *)
SortedPlace(key, size, i) ==
  Cardinality({j \in 0 .. size - 1 : key[j] < key[i] \/ (key[j] = key[i] /\ j < i)})

(* How many have a key below b *)
Less(key, size, b) == Cardinality(Below(0 .. size - 1, key, b))

(* Every place is of one index, and the keys ascend with the places. *)
SortedByKey(key, size) ==
  /\ \A r \in 0 .. size - 1 : \E i \in 0 .. size - 1 : SortedPlace(key, size, i) = r
  /\ \A i, j \in 0 .. size - 1 : SortedPlace(key, size, i) = SortedPlace(key, size, j) => i = j
  /\ \A i \in 0 .. size - 1, b \in Nat :
       key[i] = b <=> SortedPlace(key, size, i) \in Less(key, size, b) .. Less(key, size, b + 1) - 1

(* Sorting is a rearrangement: every entry has a place of its own, and      *)
(* places follow the keys.                                                  *)
LEMMA PlacesSorted ==
  ASSUME NEW size \in Nat, NEW key \in [0 .. size - 1 -> Nat]
  PROVE  SortedByKey(key, size)
<1> DEFINE S == 0 .. size - 1
           k2 == [i \in S |-> key[i] * size + i]
<1>1. IsFiniteSet(S) /\ Cardinality(S) = size
  BY FS_Interval
<1>2. \A i \in S : key[i] \in Int /\ size \in Nat \ {0}
  OBVIOUS
<1>3. k2 \in [S -> Int] /\ \A i \in S : Keyed(k2[i], key[i], size, i)
  <2>1. \A i \in S : key[i] * size + i \in Int
    BY <1>2
  <2> QED BY <2>1 DEF Keyed
<1>4. \A i, j \in S : k2[j] < k2[i] <=> key[j] < key[i] \/ (key[j] = key[i] /\ j < i)
  <2> HIDE DEF k2
  <2> QED BY <1>2, <1>3, LexOrder
<1>5. \A i \in S : SortedPlace(key, size, i) = RankIn(S, k2, i)
  <2> HIDE DEF k2
  <2> TAKE i \in S
  <2>1. PICK A, B : /\ A = {j \in S : key[j] < key[i] \/ (key[j] = key[i] /\ j < i)}
                    /\ B = {y \in S : k2[y] < k2[i]}
    OBVIOUS
  <2>2. A = B
    BY <1>4, <2>1
  <2>3. SortedPlace(key, size, i) = Cardinality(A)
    BY <2>1 DEF SortedPlace
  <2>4. RankIn(S, k2, i) = Cardinality(B)
    BY <2>1 DEF RankIn
  <2> QED BY <2>2, <2>3, <2>4
<1>6. InOrder(k2, S)
  <2> HIDE DEF k2
  <2>1. ASSUME NEW i \in S, NEW j \in S, k2[i] = k2[j] PROVE i = j
    <3>1. k2[i] \in Int /\ k2[j] \in Int
      BY <1>3
    <3>2. ~(k2[i] < k2[j]) /\ ~(k2[j] < k2[i])
      BY <2>1, <3>1
    <3>3. ~(key[i] < key[j]) /\ ~(key[j] < key[i]) /\ ~(key[i] = key[j] /\ i < j) /\ ~(key[j] = key[i] /\ j < i)
      BY <1>4, <3>2
    <3> QED BY <1>2, <3>3
  <2> QED BY <2>1 DEF InOrder
<1>7. key \in [S -> Int] /\ Ascends(S, k2, key)
  <2>1. key \in [S -> Int]
    OBVIOUS
  <2> HIDE DEF k2
  <2> QED BY <1>4, <2>1 DEF Ascends
<1> HIDE DEF k2
<1>8. /\ \A x, y \in S : RankIn(S, k2, x) = RankIn(S, k2, y) => x = y
      /\ \A r \in 0 .. Cardinality(S) - 1 : \E x \in S : RankIn(S, k2, x) = r
  <2> HIDE DEF S
  <2> QED BY <1>1, <1>3, <1>6, RankIs
<1>9. ASSUME NEW i \in S, NEW b \in Nat
      PROVE  key[i] = b <=> SortedPlace(key, size, i) \in Less(key, size, b) .. Less(key, size, b + 1) - 1
  <2>1. InItsPlace(S, k2, key, b, i)
    <3>1. b \in Int
      OBVIOUS
    <3> HIDE DEF S
    <3> QED BY <1>1, <1>3, <1>6, <1>7, <3>1, RankOfClass
  <2>2. Less(key, size, b) = Cardinality(Below(S, key, b)) /\ Less(key, size, b + 1) = Cardinality(Below(S, key, b + 1))
    BY DEF Less
  <2> HIDE DEF S
  <2> QED BY <1>5, <2>1, <2>2 DEF InItsPlace
<1> QED BY <1>1, <1>5, <1>8, <1>9 DEF SortedByKey

(* How many entries have a smaller key, and how many the same. *)
LEMMA LessIs ==
  ASSUME NEW size \in Nat, NEW key \in [0 .. size - 1 -> Nat], NEW b \in Nat
  PROVE  /\ Less(key, size, b) \in Nat /\ Less(key, size, b + 1) \in Nat
         /\ Less(key, size, 1) \in Nat /\ Less(key, size, 1) <= Less(key, size, b + 1)
         /\ Less(key, size, b) <= Less(key, size, b + 1)
         /\ Less(key, size, b + 1) <= size
         /\ Cardinality({i \in 0 .. size - 1 : key[i] = 0}) = Less(key, size, 1)
         /\ Cardinality({i \in 0 .. size - 1 : key[i] = b})
              = Less(key, size, b + 1) - Less(key, size, b)
<1> DEFINE S == 0 .. size - 1
<1>1. IsFiniteSet(S) /\ Cardinality(S) = size /\ key \in [S -> Int] /\ b \in Int /\ 0 \in Int
  BY FS_Interval
<1>2. \A i \in S : key[i] \in Nat
  OBVIOUS
<1> HIDE DEF S
<1>3. \A c \in Int :
        /\ Cardinality(Below(S, key, c)) \in Nat /\ Cardinality(OfClass(S, key, c)) \in Nat
        /\ Cardinality(Below(S, key, c + 1)) \in Nat /\ IsFiniteSet(Below(S, key, c + 1))
        /\ Cardinality(Below(S, key, c)) + Cardinality(OfClass(S, key, c)) = Cardinality(Below(S, key, c + 1))
        /\ Cardinality(Below(S, key, c + 1)) <= size
  BY <1>1, BelowCounted
<1>4. Below(S, key, 0) = {} /\ Below(S, key, 0 + 1) \subseteq Below(S, key, b + 1)
  BY <1>2 DEF Below
<1>5. Cardinality(Below(S, key, 0)) = 0
  BY <1>4, FS_EmptySet
<1>6. Cardinality(Below(S, key, 0 + 1)) <= Cardinality(Below(S, key, b + 1))
  BY <1>1, <1>3, <1>4, FS_Subset
<1>7. /\ OfClass(S, key, 0) = {i \in 0 .. size - 1 : key[i] = 0}
      /\ OfClass(S, key, b) = {i \in 0 .. size - 1 : key[i] = b}
  BY DEF OfClass, S
<1>8. \A c \in Int : Less(key, size, c) = Cardinality(Below(S, key, c))
  BY DEF Less, S
<1>9. 0 + 1 = 1 /\ b + 1 \in Int
  BY <1>1
<1>10. PICK l0, l1, lb, lb1, c0, cb :
         /\ l0 = Less(key, size, 0) /\ l1 = Less(key, size, 1) /\ lb = Less(key, size, b)
         /\ lb1 = Less(key, size, b + 1)
         /\ c0 = Cardinality({i \in 0 .. size - 1 : key[i] = 0})
         /\ cb = Cardinality({i \in 0 .. size - 1 : key[i] = b})
  OBVIOUS
<1>11. /\ l0 = 0 /\ l1 \in Nat /\ lb \in Nat /\ lb1 \in Nat /\ c0 \in Nat /\ cb \in Nat
       /\ l0 + c0 = l1 /\ lb + cb = lb1 /\ lb1 <= size /\ l1 <= lb1
  <2>1. l0 = 0 /\ l0 = Cardinality(Below(S, key, 0)) /\ l1 = Cardinality(Below(S, key, 1))
    BY <1>1, <1>5, <1>8, <1>9, <1>10
  <2>2. lb = Cardinality(Below(S, key, b)) /\ lb1 = Cardinality(Below(S, key, b + 1))
    BY <1>1, <1>8, <1>9, <1>10
  <2>3. c0 = Cardinality(OfClass(S, key, 0)) /\ cb = Cardinality(OfClass(S, key, b))
    BY <1>7, <1>10
  <2>4. c0 \in Nat /\ l1 \in Nat /\ l0 + c0 = l1
    BY <1>1, <1>3, <1>9, <2>1, <2>3
  <2>5. cb \in Nat /\ lb \in Nat /\ lb1 \in Nat /\ lb + cb = lb1 /\ lb1 <= size
    BY <1>1, <1>3, <2>2, <2>3
  <2>6. l1 <= lb1
    BY <1>6, <1>9, <2>1, <2>2
  <2> QED BY <2>1, <2>4, <2>5, <2>6
<1> QED BY <1>10, <1>11

(* The keys of a group, filled up with zeros *)
KeysOf(data, n, size, group) == [i \in 0 .. size - 1 |-> IF i < n THEN Digit(data, i, group) ELSE 0]

(* The table of multiproduct_table_kernel: the counts of the digits, and   *)
(* behind the zeros, in the order of the digits, the indexes.              *)
IsTable(table, key, n, size) ==
  /\ \A bucket \in Buckets :
       table.counts[bucket] = Less(key, size, bucket + 2) - Less(key, size, bucket + 1)
  /\ \A k \in 0 .. size - Less(key, size, 1) - 1 :
       \E i \in 0 .. size - 1 :
         /\ SortedPlace(key, size, i) = Less(key, size, 1) + k
         /\ table.indexes[k] = IF i < n THEN i ELSE 0

(* The sorted table of a group holds each entry at the place its key gives  *)
(* it.                                                                      *)
LEMMA SortedIs ==
  ASSUME NEW data, NEW n \in Nat, NEW group, NEW size \in Nat, size = RoundUp(n, SortThreads),
         NEW key, key = KeysOf(data, n, size, group), key \in [0 .. size - 1 -> Nat]
  PROVE  IsTable(Sorted(data, n, group), key, n, size)
<1> DEFINE rank == [i \in DOMAIN key |-> Cardinality({j \in DOMAIN key :
                      key[j] < key[i] \/ (key[j] = key[i] /\ j < i)})]
           zeros == Cardinality({i \in DOMAIN key : key[i] = 0})
           table == Sorted(data, n, group)
<1>1. DOMAIN key = 0 .. size - 1
  OBVIOUS
<1>2. table = [counts |-> [bucket \in Buckets |-> Cardinality({i \in DOMAIN key : key[i] = bucket + 1})],
               indexes |-> [k \in 0 .. size - zeros - 1 |->
                              LET i == CHOOSE j \in DOMAIN key : rank[j] = zeros + k
                              IN  IF i < n THEN i ELSE 0]]
  BY DEF Sorted, KeysOf
<1>3. \A i \in 0 .. size - 1 : rank[i] = SortedPlace(key, size, i)
  BY <1>1 DEF SortedPlace
<1>4. zeros = Less(key, size, 1)
  <2>1. Cardinality({i \in 0 .. size - 1 : key[i] = 0}) = Less(key, size, 1)
    BY LessIs, 0 \in Nat
  <2> QED BY <1>1, <2>1
<1>5. ASSUME NEW bucket \in Buckets
      PROVE  table.counts[bucket] = Less(key, size, bucket + 2) - Less(key, size, bucket + 1)
  <2>1. bucket + 1 \in Nat /\ (bucket + 1) + 1 = bucket + 2
    BY BucketNumbers
  <2>2. Cardinality({i \in 0 .. size - 1 : key[i] = bucket + 1})
          = Less(key, size, (bucket + 1) + 1) - Less(key, size, bucket + 1)
    <3>1. PICK b : b = bucket + 1
      OBVIOUS
    <3>2. b \in Nat
      BY <2>1, <3>1
    <3>3. Cardinality({i \in 0 .. size - 1 : key[i] = b}) = Less(key, size, b + 1) - Less(key, size, b)
      BY <3>2, LessIs
    <3> QED BY <3>1, <3>3
  <2>3. table.counts[bucket] = Cardinality({i \in DOMAIN key : key[i] = bucket + 1})
    BY <1>2
  <2> QED BY <1>1, <2>1, <2>2, <2>3
<1>6. Less(key, size, 1) \in Nat
  BY LessIs, 0 \in Nat
<1>7. ASSUME NEW k \in 0 .. size - Less(key, size, 1) - 1
      PROVE  \E i \in 0 .. size - 1 :
               /\ SortedPlace(key, size, i) = Less(key, size, 1) + k
               /\ table.indexes[k] = IF i < n THEN i ELSE 0
  <2>1. zeros + k \in 0 .. size - 1
    BY <1>4, <1>6
  <2>2. PICK j \in 0 .. size - 1 : SortedPlace(key, size, j) = zeros + k
    <3>1. SortedByKey(key, size)
      BY PlacesSorted
    <3> HIDE DEF zeros
    <3> QED BY <2>1, <3>1 DEF SortedByKey
  <2>3. \E i \in DOMAIN key : rank[i] = zeros + k
    BY <1>1, <1>3, <2>2
  <2>4. PICK i : i = CHOOSE l \in DOMAIN key : rank[l] = zeros + k
    OBVIOUS
  <2>5. i \in DOMAIN key /\ rank[i] = zeros + k
    BY <2>3, <2>4
  <2>6. table.indexes[k] = IF i < n THEN i ELSE 0
    BY <1>2, <1>4, <2>4
  <2> HIDE DEF zeros, rank, table
  <2> QED BY <1>1, <1>3, <1>4, <2>5, <2>6
<1> HIDE DEF table
<1>8. IsTable(table, key, n, size)
  BY <1>5, <1>7 DEF IsTable
<1> QED BY <1>8 DEF table

(* make_multiproduct_table: the sums of the counts *)
LEMMA PrefixCounts ==
  ASSUME NEW table, NEW key, NEW n, NEW size \in Nat, key \in [0 .. size - 1 -> Nat],
         IsTable(table, key, n, size),
         NEW prefix, NEW B, B = [bucket \in Buckets |->
                       table.counts[bucket] + (IF bucket = 0 THEN 0 ELSE prefix[bucket - 1])],
         prefix = B
  PROVE  \A bucket \in Buckets : prefix[bucket] = Less(key, size, bucket + 2) - Less(key, size, 1)
<1> DEFINE G == {b \in Buckets : prefix[b] = Less(key, size, b + 2) - Less(key, size, 1)}
<1>1. NumBuckets - 1 \in Nat /\ Buckets = 0 .. NumBuckets - 1
  BY BucketNumbers
<1>2. \A b \in Buckets : prefix[b] = table.counts[b] + (IF b = 0 THEN 0 ELSE prefix[b - 1])
  OBVIOUS
<1>3. \A b \in Nat : Less(key, size, b) \in Nat
  BY LessIs
<1>4. \A b \in Buckets : table.counts[b] = Less(key, size, b + 2) - Less(key, size, b + 1)
  BY DEF IsTable
<1>5. 0 \in G
  <2>1. 0 \in Buckets /\ 0 + 2 = 2 /\ 0 + 1 = 1
    BY <1>1
  <2>2. prefix[0] = Less(key, size, 2) - Less(key, size, 1) + 0
    BY <1>2, <1>4, <2>1
  <2>3. Less(key, size, 2) \in Nat /\ Less(key, size, 1) \in Nat
    BY <1>3
  <2> QED BY <2>1, <2>2, <2>3
<1>6. ASSUME NEW k \in 1 .. NumBuckets - 1, k - 1 \in G PROVE k \in G
  <2>1. k \in Buckets /\ k # 0 /\ (k - 1) + 2 = k + 1 /\ k + 1 \in Nat /\ k + 2 \in Nat /\ 1 \in Nat
    BY <1>1
  <2>2. prefix[k - 1] = Less(key, size, k + 1) - Less(key, size, 1)
    BY <1>6, <2>1
  <2>3. prefix[k] = (Less(key, size, k + 2) - Less(key, size, k + 1)) + prefix[k - 1]
    BY <1>2, <1>4, <2>1
  <2>4. Less(key, size, k + 2) \in Nat /\ Less(key, size, k + 1) \in Nat /\ Less(key, size, 1) \in Nat
    BY <1>3, <2>1
  <2> QED BY <2>1, <2>2, <2>3, <2>4
<1>7. \A b \in 0 .. NumBuckets - 1 : b \in G
  <2> HIDE DEF G
  <2> QED BY <1>1, <1>5, <1>6, BoundedInduction
<1> QED BY <1>1, <1>7

(* sum_bucket: the generators between two of the sums are those with the   *)
(* digit.                                                                  *)
LEMMA SortedBucketsAre ==
  ASSUME NEW e, InBucketMethod(e), NEW group \in Groups, NEW bucket \in Buckets
  PROVE  SortedBuckets(e.data, e.n, group)[bucket] = BucketOf(e.data, 0, e.n, group, bucket)
<1>1. PICK data, n, size, key :
        /\ data = e.data /\ n = e.n /\ size = RoundUp(n, SortThreads)
        /\ key = KeysOf(data, n, size, group)
  OBVIOUS
<1>2. n \in Nat /\ n <= NumGens /\ NumGens \in Nat
  BY <1>1, GroupAssumption DEF InBucketMethod, ValidExponents, ExponentSequences
<1>3. size \in Nat /\ n <= size
  <2>1. SortThreads \in Nat \ {0}
    BY BucketAssumption
  <2>2. DivideUp(n, SortThreads) \in Nat /\ n <= DivideUp(n, SortThreads) * SortThreads
    BY <1>2, <2>1, DivideUpBounds
  <2>3. DivideUp(n, SortThreads) * SortThreads \in Nat
    BY <2>1, <2>2
  <2> QED BY <1>1, <2>2, <2>3 DEF RoundUp
<1>4. /\ NumBuckets \in Nat \ {0} /\ Buckets = 0 .. NumBuckets - 1
      /\ ElementBytes \in Nat \ {0} /\ Groups = 0 .. ElementBytes - 1
  BY BucketNumbers
<1>5. \A i \in 0 .. n - 1 : Digit(data, i, group) \in 0 .. NumBuckets
  <2> TAKE i \in 0 .. n - 1
  <2>1. i \in Coefficients /\ 0 <= i /\ i < e.n
    BY <1>1, <1>2 DEF Coefficients, Junk
  <2>2. DigitsOf(e, i) \in [0 .. ElementBytes - 1 -> 0 .. NumBuckets]
    BY <2>1, DigitsValue
  <2>3. DigitsOf(e, i)[group] = Digit(data, i, group)
    BY <1>1, <2>1 DEF DigitsOf
  <2> QED BY <1>4, <2>2, <2>3
<1>6. key \in [0 .. size - 1 -> Nat] /\ \A i \in 0 .. size - 1 : key[i] = IF i < n THEN Digit(data, i, group) ELSE 0
  BY <1>1, <1>2, <1>4, <1>5 DEF KeysOf
<1>7. SortedByKey(key, size)
  BY <1>3, <1>6, PlacesSorted
<1>8. PICK table : table = Sorted(data, n, group)
  OBVIOUS
<1>9. IsTable(table, key, n, size)
  BY <1>1, <1>2, <1>3, <1>6, <1>8, SortedIs
<1> DEFINE Body(p, b) == table.counts[b] + (IF b = 0 THEN 0 ELSE p[b - 1])
           prefix == CHOOSE p : p = [b \in Buckets |-> Body(p, b)]
           first == IF bucket = 0 THEN 0 ELSE prefix[bucket - 1]
           f == [k \in first .. prefix[bucket] - 1 |-> Generator(table.indexes[k])]
<1>10. SortedBuckets(data, n, group)[bucket] = FoldFunction(Plus, Zero, f)
  BY <1>8 DEF SortedBuckets, SumFrom
<1>11. \A b \in Nat : Less(key, size, b) \in Nat
  BY <1>3, <1>6, LessIs
<1>12. prefix = [b \in Buckets |-> Body(prefix, b)]
  <2> DEFINE known == [b \in Buckets |-> Less(key, size, b + 2) - Less(key, size, 1)]
  <2>1. \A b \in Buckets : known[b] = Body(known, b)
    <3> TAKE b \in Buckets
    <3>1. table.counts[b] = Less(key, size, b + 2) - Less(key, size, b + 1)
      BY <1>9 DEF IsTable
    <3>2. Less(key, size, b + 2) \in Nat /\ Less(key, size, b + 1) \in Nat /\ Less(key, size, 1) \in Nat
      <4>1. b + 2 \in Nat /\ b + 1 \in Nat /\ 1 \in Nat
        BY <1>4
      <4> QED BY <1>11, <4>1
    <3>3. CASE b = 0
      <4>1. b + 1 = 1
        BY <3>3
      <4> QED BY <3>1, <3>2, <3>3, <4>1
    <3>4. CASE b # 0
      <4>1. b - 1 \in Buckets /\ (b - 1) + 2 = b + 1
        BY <1>4, <3>4
      <4>2. known[b - 1] = Less(key, size, b + 1) - Less(key, size, 1)
        BY <4>1
      <4> QED BY <3>1, <3>2, <3>4, <4>2
    <3> QED BY <3>3, <3>4
  <2> HIDE DEF Body
  <2>2. known = [b \in Buckets |-> Body(known, b)]
    BY <2>1
  <2> HIDE DEF known
  <2> QED BY <2>2
<1> HIDE DEF prefix
<1>13. \A b \in Buckets : prefix[b] = Less(key, size, b + 2) - Less(key, size, 1)
  <2>1. PICK B : B = [b \in Buckets |-> table.counts[b] + (IF b = 0 THEN 0 ELSE prefix[b - 1])]
    OBVIOUS
  <2>2. prefix = B
    BY <1>12, <2>1
  <2> QED BY <1>3, <1>6, <1>9, <2>1, <2>2, PrefixCounts
<1>14. PICK zeros, low, high : /\ zeros = Less(key, size, 1) /\ low = Less(key, size, bucket + 1)
                               /\ high = Less(key, size, bucket + 2)
  OBVIOUS
<1>15. /\ zeros \in Nat /\ low \in Nat /\ high \in Nat /\ zeros <= low /\ low <= high /\ high <= size
       /\ bucket \in Nat /\ (bucket + 1) + 1 = bucket + 2 /\ bucket + 1 \in Nat
  <2>1. bucket \in Nat /\ (bucket + 1) + 1 = bucket + 2 /\ bucket + 1 \in Nat
    BY <1>4
  <2>2. zeros \in Nat /\ low \in Nat /\ zeros <= low
    BY <1>3, <1>6, <1>14, <2>1, LessIs
  <2>3. low <= high /\ high <= size /\ high \in Nat
    BY <1>3, <1>6, <1>14, <2>1, LessIs
  <2> QED BY <2>1, <2>2, <2>3
<1>16. first = low - zeros /\ prefix[bucket] = high - zeros
  <2>1. CASE bucket = 0
    <3>1. bucket + 1 = 1
      BY <2>1
    <3> QED BY <1>13, <1>14, <1>15, <2>1, <3>1
  <2>2. CASE bucket # 0
    <3>1. bucket - 1 \in Buckets /\ (bucket - 1) + 2 = bucket + 1
      BY <1>4, <2>2
    <3> QED BY <1>13, <1>14, <1>15, <2>2, <3>1
  <2> QED BY <2>1, <2>2
<1> DEFINE T == low - zeros .. high - zeros - 1
<1>17. f = [k \in T |-> Generator(table.indexes[k])]
  BY <1>16
<1> HIDE DEF f
(* What the places between hold *)
<1>18. ASSUME NEW k \in T
       PROVE  \E i \in 0 .. n - 1 : /\ SortedPlace(key, size, i) = zeros + k /\ table.indexes[k] = i
                                    /\ Digit(data, i, group) = bucket + 1
  <2>1. k \in 0 .. size - zeros - 1
    BY <1>3, <1>15
  <2>2. PICK i \in 0 .. size - 1 : /\ SortedPlace(key, size, i) = zeros + k
                                   /\ table.indexes[k] = IF i < n THEN i ELSE 0
    BY <1>9, <1>14, <2>1 DEF IsTable
  <2>3. SortedPlace(key, size, i) \in low .. high - 1
    BY <1>15, <2>2
  <2>4. key[i] = bucket + 1
    BY <1>14, <1>15, <1>7, <2>3 DEF SortedByKey
  <2>5. i < n /\ Digit(data, i, group) = bucket + 1
    BY <1>6, <1>15, <2>4
  <2>6. i \in 0 .. n - 1
    BY <1>2, <2>5
  <2> QED BY <2>2, <2>5, <2>6
<1>19. ASSUME NEW i \in 0 .. n - 1, Digit(data, i, group) = bucket + 1
       PROVE  \E k \in T : table.indexes[k] = i
  <2>1. i \in 0 .. size - 1 /\ key[i] = bucket + 1
    <3>1. i \in 0 .. size - 1 /\ i < n
      BY <1>2, <1>3
    <3> QED BY <1>6, <1>19, <3>1
  <2>2. SortedPlace(key, size, i) \in low .. high - 1
    BY <1>14, <1>15, <1>7, <2>1 DEF SortedByKey
  <2>3. PICK k : k = SortedPlace(key, size, i) - zeros
    OBVIOUS
  <2>4. k \in T /\ SortedPlace(key, size, i) = zeros + k
    BY <1>15, <2>2, <2>3
  <2>5. PICK j \in 0 .. n - 1 : SortedPlace(key, size, j) = zeros + k /\ table.indexes[k] = j
    BY <1>18, <2>4
  <2>6. j \in 0 .. size - 1
    BY <1>2, <1>3
  <2>7. i = j
    BY <1>7, <2>1, <2>4, <2>5, <2>6 DEF SortedByKey
  <2> QED BY <2>4, <2>5, <2>7
<1>20. ASSUME NEW j \in T, NEW k \in T, table.indexes[j] = table.indexes[k] PROVE j = k
  <2>1. PICK i \in 0 .. n - 1 : SortedPlace(key, size, i) = zeros + j /\ table.indexes[j] = i
    BY <1>18
  <2>2. PICK l \in 0 .. n - 1 : SortedPlace(key, size, l) = zeros + k /\ table.indexes[k] = l
    BY <1>18
  <2>3. zeros + j = zeros + k
    BY <1>20, <2>1, <2>2
  <2> QED BY <1>15, <2>3
<1> DEFINE value == [g \in Coefficients |-> 1]
<1>21. Spikes(f, T, table.indexes, value)
  <2>1. ASSUME NEW k \in T
        PROVE  f[k] \in Elements /\ \A g \in Coefficients : f[k][g] = IF g = table.indexes[k] THEN 1 ELSE 0
    <3>1. table.indexes[k] \in 0 .. NumGens - 1
      BY <1>2, <1>18
    <3>2. f[k] = Generator(table.indexes[k])
      BY <1>17
    <3> QED BY <3>1, <3>2, GeneratorIs
  <2>2. f \in [T -> Elements]
    BY <1>17, <2>1
  <2> HIDE DEF T
  <2> QED BY <2>1, <2>2 DEF Spikes
<1>22. IsFiniteSet(T)
  BY <1>15, FS_Interval
<1>23. /\ FoldFunction(Plus, Zero, f) \in Elements
       /\ \A g \in Coefficients :
            FoldFunction(Plus, Zero, f)[g] = IF \E k \in T : table.indexes[k] = g THEN value[g] ELSE 0
  <2> HIDE DEF T, value
  <2> QED BY <1>20, <1>21, <1>22, SpikesAdded
<1>24. \A g \in Coefficients : FoldFunction(Plus, Zero, f)[g] = BucketOf(data, 0, n, group, bucket)[g]
  <2> TAKE g \in Coefficients
  <2>1. (\E k \in T : table.indexes[k] = g) <=> 0 <= g /\ g < n /\ Digit(data, g, group) = bucket + 1
    <3>1. g \in Int
      BY GroupAssumption DEF Coefficients, Junk
    <3>2. ASSUME NEW k \in T, table.indexes[k] = g
          PROVE  0 <= g /\ g < n /\ Digit(data, g, group) = bucket + 1
      BY <1>2, <1>18, <3>2
    <3>3. ASSUME 0 <= g, g < n, Digit(data, g, group) = bucket + 1
          PROVE  \E k \in T : table.indexes[k] = g
      <4>1. g \in 0 .. n - 1
        BY <1>2, <3>1, <3>3
      <4> QED BY <1>19, <3>3, <4>1
    <3> QED BY <3>2, <3>3
  <2>2. FoldFunction(Plus, Zero, f)[g] = IF \E k \in T : table.indexes[k] = g THEN 1 ELSE 0
    BY <1>23
  <2> HIDE DEF T
  <2> QED BY <2>1, <2>2 DEF BucketOf
<1>25. FoldFunction(Plus, Zero, f) = BucketOf(data, 0, n, group, bucket)
  BY <1>23, <1>24, BucketOfIs DEF Elements
<1> QED BY <1>1, <1>10, <1>25

(* bucket_method2: counting and sorting the digits of each byte, summing   *)
(* the generators of each bucket from the sorted table and reducing the    *)
(* buckets with the running sums gives the output's result.                *)
THEOREM SortedResultIs ==
  ASSUME NEW e, InBucketMethod(e)
  PROVE  SortedResult(e.data, e.n) = ExponentSum(e)
<1> DEFINE held == [group \in Groups |-> SortedBuckets(e.data, e.n, group)]
<1>1. HoldsBuckets(held, e)
  BY SortedBucketsAre DEF HoldsBuckets
<1> HIDE DEF held
<1>2. ReducedDigits(held) = ExponentSum(e)
  BY <1>1, ReducedDigitsAre
<1> QED BY <1>2 DEF SortedResult, held

-----------------------------------------------------------------------------
(* decompose_exponent_bits: where the generators of a bit are written *)

ValidPart(e, first, n) ==
  ValidExponents(e) /\ first \in Nat /\ n \in Nat \ {0} /\ first + n <= e.n

Tagged(b, S) == {<<b, i>> : i \in S}

(* A tag does not change how many elements there are. *)
LEMMA TaggedCounted ==
  ASSUME NEW b, NEW S, IsFiniteSet(S)
  PROVE  IsFiniteSet(Tagged(b, S)) /\ Cardinality(Tagged(b, S)) = Cardinality(S)
<1> DEFINE f == [i \in S |-> <<b, i>>]
           T == Tagged(b, S)
<1>1. f \in Bijection(S, T)
  BY DEF Bijection, Injection, Surjection, IsInjective, Tagged
<1>2. ExistsBijection(S, T)
  BY <1>1 DEF ExistsBijection
<1> QED BY <1>2, FS_Bijection

(* The bits of the elements of a part of the exponents, as pairs of a bit  *)
(* and an element; sorted by the bit first.                                *)
BitsHeld(e, first, n) ==
  {s \in (0 .. NumBits(e) - 1) \X (0 .. n - 1) : HasBit(e, first + s[2], s[1])}

HeldKey(e, first, n) == [s \in BitsHeld(e, first, n) |-> s[1] * n + s[2]]

HeldBit(e, first, n) == [s \in BitsHeld(e, first, n) |-> s[1]]

KeysLikePairs(H, key) ==
  \A s, t \in H : key[t] < key[s] <=> t[1] < s[1] \/ (t[1] = s[1] /\ t[2] < s[2])

(* The pairs are finitely many and in the order of bits and elements. *)
LEMMA HeldAre ==
  ASSUME NEW e, NEW first, NEW n, ValidPart(e, first, n),
         NEW H, H = BitsHeld(e, first, n)
  PROVE  /\ IsFiniteSet(H) /\ HeldKey(e, first, n) \in [H -> Int] /\ HeldBit(e, first, n) \in [H -> Int]
         /\ InOrder(HeldKey(e, first, n), H)
         /\ Ascends(H, HeldKey(e, first, n), HeldBit(e, first, n))
         /\ KeysLikePairs(H, HeldKey(e, first, n))
<1> DEFINE key == HeldKey(e, first, n)
           bit == HeldBit(e, first, n)
<1>1. n \in Nat \ {0} /\ NumBits(e) \in Nat \ {0}
  <2>1. 0 \in 0 .. e.n - 1 /\ ValidExponents(e) /\ n \in Nat \ {0}
    BY DEF ValidPart, ValidExponents, ExponentSequences
  <2> QED BY <2>1, UnsignedIs
<1>2. H \subseteq (0 .. NumBits(e) - 1) \X (0 .. n - 1)
  BY DEF BitsHeld
<1>3. IsFiniteSet(H)
  <2>1. IsFiniteSet(0 .. NumBits(e) - 1) /\ IsFiniteSet(0 .. n - 1)
    <3>1. 0 \in Int /\ n - 1 \in Int /\ NumBits(e) - 1 \in Int
      BY <1>1
    <3> QED BY <3>1, FS_Interval
  <2>2. IsFiniteSet((0 .. NumBits(e) - 1) \X (0 .. n - 1))
    BY <2>1, FS_Product
  <2> QED BY <1>2, <2>2, FS_Subset
<1>4. \A s \in H : s[1] \in Int /\ s[2] \in 0 .. n - 1 /\ s = <<s[1], s[2]>>
  BY <1>1, <1>2
<1>5. key \in [H -> Int] /\ bit \in [H -> Int]
      /\ \A s \in H : bit[s] = s[1] /\ Keyed(key[s], s[1], n, s[2])
  <2>1. \A s \in H : s[1] * n + s[2] \in Int
    BY <1>1, <1>4
  <2> QED BY <1>4, <2>1 DEF HeldKey, HeldBit, Keyed
<1> HIDE DEF key, bit
<1>6. ASSUME NEW s \in H, NEW t \in H
      PROVE  key[t] < key[s] <=> t[1] < s[1] \/ (t[1] = s[1] /\ t[2] < s[2])
  <2>1. PICK a, i, b, j, x, y : a = t[1] /\ i = t[2] /\ b = s[1] /\ j = s[2] /\ x = key[t] /\ y = key[s]
    OBVIOUS
  <2>2. /\ a \in Int /\ b \in Int /\ i \in 0 .. n - 1 /\ j \in 0 .. n - 1
        /\ Keyed(x, a, n, i) /\ Keyed(y, b, n, j)
    BY <1>4, <1>5, <2>1
  <2>3. x < y <=> a < b \/ (a = b /\ i < j)
    BY <1>1, <2>2, LexOrder
  <2> QED BY <2>1, <2>3
<1>7. InOrder(key, H)
  <2>1. ASSUME NEW s \in H, NEW t \in H, key[s] = key[t] PROVE s = t
    <3>1. ~(key[s] < key[t]) /\ ~(key[t] < key[s])
      BY <1>5, <2>1
    <3>2. ~(t[1] < s[1]) /\ ~(s[1] < t[1]) /\ ~(t[1] = s[1] /\ t[2] < s[2]) /\ ~(s[1] = t[1] /\ s[2] < t[2])
      BY <1>6, <3>1
    <3>3. s[1] = t[1] /\ s[2] = t[2]
      BY <1>4, <3>2
    <3> QED BY <1>4, <3>3
  <2> QED BY <2>1 DEF InOrder
<1>8. Ascends(H, key, bit)
  BY <1>5, <1>6 DEF Ascends
<1>9. KeysLikePairs(H, key)
  BY <1>6 DEF KeysLikePairs
<1> QED BY <1>3, <1>5, <1>7, <1>8, <1>9 DEF key, bit

(* The blocks pass over all elements. *)
LEMMA CountBlocksAre ==
  ASSUME NEW n \in Nat \ {0}
  PROVE  /\ NumCountBlocks(n) \in Nat \ {0} /\ DivideUp(n, NumCountBlocks(n)) \in Nat \ {0}
         /\ n <= DivideUp(n, NumCountBlocks(n)) * NumCountBlocks(n)
<1>1. AtMost(CountBlocks, n) \in Nat \ {0}
  BY BitAssumption DEF AtMost
<1>2. PICK iterations : iterations = DivideUp(n, AtMost(CountBlocks, n))
  OBVIOUS
<1>3. ASSUME NEW m \in Nat \ {0} PROVE DivideUp(n, m) \in Nat \ {0} /\ n <= DivideUp(n, m) * m
  <2>1. DivideUp(n, m) \in Nat /\ n <= DivideUp(n, m) * m
    BY DivideUpBounds
  <2>2. DivideUp(n, m) # 0
    BY <2>1
  <2> QED BY <2>1, <2>2
<1>4. iterations \in Nat \ {0} /\ NumCountBlocks(n) = DivideUp(n, iterations)
  BY <1>1, <1>2, <1>3 DEF NumCountBlocks
<1>5. NumCountBlocks(n) \in Nat \ {0}
  BY <1>3, <1>4
<1> QED BY <1>3, <1>5

(* The elements of a block that have a bit *)
LEMMA MembersAre ==
  ASSUME NEW e, NEW first, NEW n \in Nat \ {0}, NEW num, num = NumCountBlocks(n),
         NEW per, per = DivideUp(n, num), NEW blk \in 0 .. num - 1, NEW bit
  PROVE  /\ BlockMembers(e, first, n, blk, bit)
              = {i \in 0 .. n - 1 : (i \div per) = blk /\ HasBit(e, first + i, bit)}
         /\ IsFiniteSet(BlockMembers(e, first, n, blk, bit))
<1>1. num \in Nat \ {0} /\ per \in Nat \ {0} /\ n <= per * num
  BY CountBlocksAre
<1>2. BlockMembers(e, first, n, blk, bit)
        = {i \in per * blk .. AtMost(n, per * blk + per) - 1 : HasBit(e, first + i, bit)}
  BY DEF BlockMembers
<1>3. PICK low : low = per * blk
  OBVIOUS
<1>4. low \in Nat /\ low = blk * per
  BY <1>1, <1>3
<1>5. AtMost(n, low + per) \in Nat /\ AtMost(n, low + per) <= n
  BY <1>1, <1>4 DEF AtMost
<1>6. ASSUME NEW i PROVE i \in low .. AtMost(n, low + per) - 1 <=> i \in 0 .. n - 1 /\ (i \div per) = blk
  <2>1. ASSUME i \in low .. AtMost(n, low + per) - 1 PROVE i \in 0 .. n - 1 /\ (i \div per) = blk
    <3>1. i \in 0 .. n - 1
      BY <1>4, <1>5, <2>1
    <3>2. InBlock(i, per, blk, n)
      BY <1>4, <1>5, <2>1 DEF InBlock
    <3>3. blk \in Nat
      BY <1>1
    <3> QED BY <1>1, <3>1, <3>2, <3>3, BlockFound
  <2>2. ASSUME i \in 0 .. n - 1, (i \div per) = blk PROVE i \in low .. AtMost(n, low + per) - 1
    <3>1. InBlock(i, per, i \div per, n)
      BY <1>1, <2>2, BlockFound
    <3>2. InBlock(i, per, blk, n)
      BY <2>2, <3>1
    <3> QED BY <1>4, <1>5, <2>2, <3>2 DEF InBlock
  <2> QED BY <2>1, <2>2
<1>7. BlockMembers(e, first, n, blk, bit)
        = {i \in 0 .. n - 1 : (i \div per) = blk /\ HasBit(e, first + i, bit)}
  BY <1>2, <1>3, <1>6
<1>8. IsFiniteSet(0 .. n - 1)
  BY FS_Interval
<1>9. BlockMembers(e, first, n, blk, bit) \subseteq 0 .. n - 1
  BY <1>7
<1> QED BY <1>7, <1>8, <1>9, FS_Subset

-----------------------------------------------------------------------------
(* The cells of a decomposition, pairs of a bit and a block, and the slots *)
(* their members are written to                                            *)

CellMembers(e, first, n, p) == BlockMembers(e, first, n, p[2], p[1])

InCells(e, first, n, per, P) == {s \in BitsHeld(e, first, n) : <<s[1], s[2] \div per>> \in P}

HasElement(e, first, n, bit, i) == i \in 0 .. n - 1 /\ HasBit(e, first + i, bit)

(* The pairs of a cell are the members of its block, tagged with the bit. *)
LEMMA CellIs ==
  ASSUME NEW e, NEW first, NEW n \in Nat \ {0}, NEW num, num = NumCountBlocks(n),
         NEW per, per = DivideUp(n, num), NEW blk \in 0 .. num - 1, NEW bit \in 0 .. NumBits(e) - 1
  PROVE  Tagged(bit, BlockMembers(e, first, n, blk, bit)) = InCells(e, first, n, per, {<<bit, blk>>})
<1>1. BlockMembers(e, first, n, blk, bit)
        = {i \in 0 .. n - 1 : (i \div per) = blk /\ HasBit(e, first + i, bit)}
  BY MembersAre
<1>2. ASSUME NEW s \in Tagged(bit, BlockMembers(e, first, n, blk, bit))
      PROVE  s \in InCells(e, first, n, per, {<<bit, blk>>})
  <2>1. PICK i \in 0 .. n - 1 : s = <<bit, i>> /\ (i \div per) = blk /\ HasBit(e, first + i, bit)
    BY <1>1 DEF Tagged
  <2>2. s \in (0 .. NumBits(e) - 1) \X (0 .. n - 1) /\ s[1] = bit /\ s[2] = i
    BY <2>1
  <2>3. s \in BitsHeld(e, first, n)
    BY <2>1, <2>2 DEF BitsHeld
  <2> QED BY <2>1, <2>2, <2>3 DEF InCells
<1>3. ASSUME NEW s \in InCells(e, first, n, per, {<<bit, blk>>})
      PROVE  s \in Tagged(bit, BlockMembers(e, first, n, blk, bit))
  <2>1. s \in (0 .. NumBits(e) - 1) \X (0 .. n - 1) /\ HasBit(e, first + s[2], s[1])
        /\ <<s[1], s[2] \div per>> = <<bit, blk>>
    BY DEF InCells, BitsHeld
  <2>2. s = <<bit, s[2]>> /\ s[2] \in 0 .. n - 1 /\ (s[2] \div per) = blk /\ HasBit(e, first + s[2], bit)
    BY <2>1
  <2> QED BY <1>1, <2>2 DEF Tagged
<1> QED BY <1>2, <1>3

(* The members of some cells, counted block by block *)
LEMMA CellsCounted ==
  ASSUME NEW e, NEW first, NEW n, ValidPart(e, first, n), NEW num, num = NumCountBlocks(n),
         NEW per, per = DivideUp(n, num),
         NEW P \in SUBSET ((0 .. NumBits(e) - 1) \X (0 .. num - 1))
  PROVE  /\ IsFiniteSet(InCells(e, first, n, per, P))
         /\ Total(P, LAMBDA p : Cardinality(BlockMembers(e, first, n, p[2], p[1])))
              = Cardinality(InCells(e, first, n, per, P))
<1> DEFINE M == [p \in P |-> Tagged(p[1], BlockMembers(e, first, n, p[2], p[1]))]
<1>1. n \in Nat \ {0} /\ num \in Nat \ {0} /\ NumBits(e) \in Nat \ {0}
  <2>1. n \in Nat \ {0} /\ 0 \in 0 .. e.n - 1 /\ ValidExponents(e)
    BY DEF ValidPart, ValidExponents, ExponentSequences
  <2> QED BY <2>1, UnsignedIs, CountBlocksAre
<1>2. IsFiniteSet(P)
  <2>1. 0 \in Int /\ NumBits(e) - 1 \in Int /\ num - 1 \in Int
    BY <1>1
  <2>2. IsFiniteSet(0 .. NumBits(e) - 1) /\ IsFiniteSet(0 .. num - 1)
    BY <2>1, FS_Interval
  <2>3. IsFiniteSet((0 .. NumBits(e) - 1) \X (0 .. num - 1))
    BY <2>2, FS_Product
  <2> QED BY <2>3, FS_Subset
<1>3. \A p \in P : p[1] \in 0 .. NumBits(e) - 1 /\ p[2] \in 0 .. num - 1 /\ p = <<p[1], p[2]>>
  OBVIOUS
<1>4. ASSUME NEW p \in P
      PROVE  /\ M[p] = InCells(e, first, n, per, {p}) /\ IsFiniteSet(M[p])
             /\ Cardinality(M[p]) = Cardinality(BlockMembers(e, first, n, p[2], p[1]))
  <2>1. PICK bit, blk : bit = p[1] /\ blk = p[2]
    OBVIOUS
  <2>2. bit \in 0 .. NumBits(e) - 1 /\ blk \in 0 .. num - 1 /\ p = <<bit, blk>>
    BY <1>3, <2>1
  <2>3. Tagged(bit, BlockMembers(e, first, n, blk, bit)) = InCells(e, first, n, per, {<<bit, blk>>})
    BY <1>1, <2>2, CellIs
  <2>4. IsFiniteSet(BlockMembers(e, first, n, blk, bit))
    BY <1>1, <2>2, MembersAre
  <2>5. /\ IsFiniteSet(Tagged(bit, BlockMembers(e, first, n, blk, bit)))
        /\ Cardinality(Tagged(bit, BlockMembers(e, first, n, blk, bit)))
             = Cardinality(BlockMembers(e, first, n, blk, bit))
    BY <2>4, TaggedCounted
  <2>6. M[p] = Tagged(bit, BlockMembers(e, first, n, blk, bit))
    BY <2>1
  <2> HIDE DEF M
  <2> QED BY <2>1, <2>2, <2>3, <2>5, <2>6
<1> HIDE DEF M
<1>5. Separate(M, P)
  <2>1. ASSUME NEW p \in P, NEW q \in P, p # q PROVE M[p] \cap M[q] = {}
    BY <1>4, <2>1 DEF InCells
  <2> QED BY <2>1 DEF Separate
<1>6. UNION {M[p] : p \in P} = InCells(e, first, n, per, P)
  <2>1. ASSUME NEW p \in P, NEW s \in M[p] PROVE s \in InCells(e, first, n, per, P)
    BY <1>4, <2>1 DEF InCells
  <2>2. ASSUME NEW s \in InCells(e, first, n, per, P) PROVE \E p \in P : s \in M[p]
    <3>1. PICK p : p = <<s[1], s[2] \div per>>
      OBVIOUS
    <3>2. p \in P /\ s \in InCells(e, first, n, per, {p})
      BY <3>1 DEF InCells
    <3> QED BY <1>4, <3>2
  <2> QED BY <2>1, <2>2
<1>7. /\ IsFiniteSet(UNION {M[p] : p \in P})
      /\ SumFunction([p \in P |-> Cardinality(M[p])]) = Cardinality(UNION {M[p] : p \in P})
  <2>1. \A p \in P : IsFiniteSet(M[p])
    BY <1>4
  <2> QED BY <1>2, <1>5, <2>1, UnionCounted
<1>8. [p \in P |-> Cardinality(M[p])]
        = [p \in P |-> Cardinality(BlockMembers(e, first, n, p[2], p[1]))]
  BY <1>4
<1> QED BY <1>6, <1>7, <1>8 DEF Total

(* product_sizes: all pairs with the bit *)
LEMMA ProductSizeIs ==
  ASSUME NEW e, NEW first, NEW n, ValidPart(e, first, n), NEW bit \in 0 .. NumBits(e) - 1
  PROVE  ProductSize(e, first, n, bit)
           = Cardinality(OfClass(BitsHeld(e, first, n), HeldBit(e, first, n), bit))
<1>1. PICK num, per : num = NumCountBlocks(n) /\ per = DivideUp(n, num)
  OBVIOUS
<1> DEFINE P == 0 .. num - 1
           M == [blk \in P |-> Tagged(bit, BlockMembers(e, first, n, blk, bit))]
           C == OfClass(BitsHeld(e, first, n), HeldBit(e, first, n), bit)
<1>2. n \in Nat \ {0} /\ num \in Nat \ {0} /\ per \in Nat \ {0} /\ n <= per * num
  BY <1>1, CountBlocksAre DEF ValidPart
<1>3. IsFiniteSet(P)
  BY <1>2, FS_Interval
<1>4. ASSUME NEW blk \in P
      PROVE  /\ M[blk] = InCells(e, first, n, per, {<<bit, blk>>}) /\ IsFiniteSet(M[blk])
             /\ Cardinality(M[blk]) = Cardinality(BlockMembers(e, first, n, blk, bit))
  <2>1. IsFiniteSet(BlockMembers(e, first, n, blk, bit))
    BY <1>1, <1>2, MembersAre
  <2> QED BY <1>1, <1>2, <2>1, CellIs, TaggedCounted
<1> HIDE DEF M
<1>5. Separate(M, P)
  <2>1. ASSUME NEW p \in P, NEW q \in P, p # q PROVE M[p] \cap M[q] = {}
    BY <1>4, <2>1 DEF InCells
  <2> QED BY <2>1 DEF Separate
<1>6. UNION {M[p] : p \in P} = C
  <2>1. ASSUME NEW p \in P, NEW s \in M[p] PROVE s \in C
    <3>1. s \in BitsHeld(e, first, n) /\ <<s[1], s[2] \div per>> = <<bit, p>>
      BY <1>4, <2>1 DEF InCells
    <3> QED BY <3>1 DEF OfClass, HeldBit
  <2>2. ASSUME NEW s \in C PROVE \E p \in P : s \in M[p]
    <3>1. s \in BitsHeld(e, first, n) /\ s[1] = bit
      BY DEF OfClass, HeldBit
    <3>2. s[2] \in 0 .. n - 1
      BY <3>1 DEF BitsHeld
    <3>3. (s[2] \div per) \in P
      <4>1. PICK i : i = s[2]
        OBVIOUS
      <4>2. i \in 0 .. n - 1
        BY <3>2, <4>1
      <4>3. (i \div per) \in 0 .. num - 1
        BY <1>2, <4>2, BlockFound
      <4> QED BY <4>1, <4>3
    <3>4. s \in InCells(e, first, n, per, {<<bit, s[2] \div per>>})
      BY <3>1 DEF InCells
    <3> QED BY <1>4, <3>3, <3>4
  <2> QED BY <2>1, <2>2
<1>7. SumFunction([p \in P |-> Cardinality(M[p])]) = Cardinality(UNION {M[p] : p \in P})
  <2>1. \A p \in P : IsFiniteSet(M[p])
    BY <1>4
  <2> HIDE DEF P
  <2> QED BY <1>3, <1>5, <2>1, UnionCounted
<1>8. [p \in P |-> Cardinality(M[p])] = [p \in P |-> Cardinality(BlockMembers(e, first, n, p, bit))]
  BY <1>4
<1> QED BY <1>1, <1>6, <1>7, <1>8 DEF ProductSize, Total

(* The elements before another are those of the blocks before, and those   *)
(* before it in its block.                                                 *)
LEMMA BlockOrder ==
  ASSUME NEW per \in Nat \ {0}, NEW i \in Nat, NEW j \in Nat
  PROVE  /\ j < i <=> (j \div per) < (i \div per) \/ ((j \div per) = (i \div per) /\ j < i)
         /\ (i \div per) \in Int /\ (j \div per) \in Int
<1>1. PICK q, r, p, s : q = i \div per /\ r = i % per /\ p = j \div per /\ s = j % per
  OBVIOUS
<1>2. q \in Int /\ r \in 0 .. per - 1 /\ i = q * per + r
  BY <1>1, DivisionRange
<1>3. p \in Int /\ s \in 0 .. per - 1 /\ j = p * per + s
  BY <1>1, DivisionRange
<1>4. Keyed(i, q, per, r) /\ Keyed(j, p, per, s)
  BY <1>2, <1>3 DEF Keyed
<1>5. j < i <=> p < q \/ (p = q /\ s < r)
  <2>1. p \in Int /\ q \in Int /\ s \in 0 .. per - 1 /\ r \in 0 .. per - 1
    BY <1>2, <1>3
  <2> QED BY <1>4, <2>1, LexOrder, SMTT(30)
<1>6. j < i <=> p < q \/ (p = q /\ j < i)
  BY <1>2, <1>3, <1>5
<1> QED BY <1>1, <1>2, <1>3, <1>6

CellsBefore(e, num, bit, blk) ==
  {p \in (0 .. NumBits(e) - 1) \X (0 .. num - 1) : p[1] < bit \/ (p[1] = bit /\ p[2] < blk)}

(* The slot a member is written to is its rank among all pairs. *)
LEMMA SlotIs ==
  ASSUME NEW e, NEW first, NEW n, ValidPart(e, first, n), NEW num, num = NumCountBlocks(n),
         NEW blk \in 0 .. num - 1, NEW bit \in 0 .. NumBits(e) - 1,
         NEW members, members = BlockMembers(e, first, n, blk, bit), NEW i \in members
  PROVE  /\ <<bit, i>> \in BitsHeld(e, first, n)
         /\ Offset(e, first, n, blk, bit) + Cardinality({j \in members : j < i})
              = RankIn(BitsHeld(e, first, n), HeldKey(e, first, n), <<bit, i>>)
<1>1. PICK per, H, key, x : /\ per = DivideUp(n, num) /\ H = BitsHeld(e, first, n)
                            /\ key = HeldKey(e, first, n) /\ x = <<bit, i>>
  OBVIOUS
<1>2. n \in Nat \ {0} /\ num \in Nat \ {0} /\ per \in Nat \ {0} /\ n <= per * num
  BY <1>1, CountBlocksAre DEF ValidPart
<1>3. members = {j \in 0 .. n - 1 : (j \div per) = blk /\ HasBit(e, first + j, bit)}
      /\ IsFiniteSet(members)
  BY <1>1, <1>2, MembersAre
<1>4. x \in H /\ x[1] = bit /\ x[2] = i
  <2>1. x \in (0 .. NumBits(e) - 1) \X (0 .. n - 1) /\ x[1] = bit /\ x[2] = i
    BY <1>1, <1>3
  <2> QED BY <1>1, <1>3, <2>1 DEF BitsHeld
<1>5. IsFiniteSet(H) /\ KeysLikePairs(H, key)
  BY <1>1, HeldAre
<1>6. PICK P, A, E, B : /\ P = CellsBefore(e, num, bit, blk) /\ A = InCells(e, first, n, per, P)
                        /\ E = {j \in members : j < i} /\ B = Tagged(bit, E)
  OBVIOUS
<1>7. Offset(e, first, n, blk, bit) = Cardinality(A) /\ IsFiniteSet(A)
  <2>1. P \in SUBSET ((0 .. NumBits(e) - 1) \X (0 .. num - 1))
    BY <1>6 DEF CellsBefore
  <2>2. Offset(e, first, n, blk, bit) = Total(P, LAMBDA p : Cardinality(BlockMembers(e, first, n, p[2], p[1])))
    BY <1>6 DEF Offset, CellsBefore
  <2>3. /\ IsFiniteSet(InCells(e, first, n, per, P))
        /\ Total(P, LAMBDA p : Cardinality(BlockMembers(e, first, n, p[2], p[1])))
             = Cardinality(InCells(e, first, n, per, P))
    BY <1>1, <2>1, CellsCounted
  <2> QED BY <1>6, <2>2, <2>3
<1>8. Cardinality(E) = Cardinality(B) /\ IsFiniteSet(B)
  <2>1. E \subseteq members
    BY <1>6
  <2>2. IsFiniteSet(E)
    BY <1>3, <2>1, FS_Subset
  <2> QED BY <1>6, <2>2, TaggedCounted
<1>9. A \cap B = {}
  <2>1. ASSUME NEW s \in A, NEW j \in E, s = <<bit, j>> PROVE FALSE
    <3>1. <<s[1], s[2] \div per>> \in P
      BY <1>6 DEF InCells
    <3>2. s[1] = bit /\ s[2] = j /\ (j \div per) = blk
      BY <1>3, <1>6, <2>1
    <3>3. <<bit, blk>> \in P
      BY <3>1, <3>2
    <3>4. bit < bit \/ (bit = bit /\ blk < blk)
      BY <1>6, <3>3 DEF CellsBefore
    <3>5. bit \in Int /\ blk \in Int
      OBVIOUS
    <3> QED BY <3>4, <3>5
  <2> QED BY <1>6, <2>1 DEF Tagged
<1>10. ASSUME NEW s PROVE s \in A \cup B <=> s \in H /\ key[s] < key[x]
  <2>1. s \in A \cup B => s \in H
    <3>1. s \in A => s \in H
      BY <1>1, <1>6 DEF InCells
    <3>2. ASSUME NEW j \in E, s = <<bit, j>> PROVE s \in H
      <4>1. s \in (0 .. NumBits(e) - 1) \X (0 .. n - 1) /\ s[1] = bit /\ s[2] = j
            /\ HasBit(e, first + j, bit)
        BY <1>3, <1>6, <3>2
      <4> QED BY <1>1, <4>1 DEF BitsHeld
    <3> QED BY <1>6, <3>1, <3>2 DEF Tagged
  <2>2. ASSUME s \in H PROVE s \in A \cup B <=> key[s] < key[x]
    <3>1. PICK c, j : c = s[1] /\ j = s[2]
      OBVIOUS
    <3>2. c \in 0 .. NumBits(e) - 1 /\ j \in 0 .. n - 1 /\ s = <<c, j>> /\ HasBit(e, first + j, c)
      BY <1>1, <2>2, <3>1 DEF BitsHeld
    <3>3. key[s] < key[x] <=> c < bit \/ (c = bit /\ j < i)
      BY <1>4, <1>5, <2>2, <3>1 DEF KeysLikePairs
    <3>4. PICK q : q = j \div per
      OBVIOUS
    <3>5. q \in 0 .. num - 1
      BY <1>2, <3>2, <3>4, BlockFound
    <3>6. i \in Nat /\ j \in Nat /\ (i \div per) = blk
      BY <1>3, <3>2
    <3>7. j < i <=> q < blk \/ (q = blk /\ j < i)
      BY <1>2, <3>4, <3>6, BlockOrder
    <3>8. s \in A <=> c < bit \/ (c = bit /\ q < blk)
      <4>1. s \in A <=> <<c, q>> \in P
        BY <1>1, <1>6, <2>2, <3>1, <3>4 DEF InCells
      <4>2. <<c, q>> \in (0 .. NumBits(e) - 1) \X (0 .. num - 1)
        BY <3>2, <3>5
      <4> QED BY <1>6, <4>1, <4>2 DEF CellsBefore
    <3>9. s \in B <=> c = bit /\ q = blk /\ j < i
      <4>1. s \in B <=> c = bit /\ j \in E
        BY <1>6, <3>2 DEF Tagged
      <4>2. c = bit => (j \in E <=> q = blk /\ j < i)
        BY <1>3, <1>6, <3>2, <3>4
      <4> QED BY <4>1, <4>2
    <3> QED BY <3>3, <3>7, <3>8, <3>9
  <2> QED BY <2>1, <2>2
<1>11. PICK X : X = {s \in H : key[s] < key[x]}
  OBVIOUS
<1>12. X = A \cup B /\ RankIn(H, key, x) = Cardinality(X)
  BY <1>10, <1>11 DEF RankIn
<1>13. Cardinality(A \cup B) = Cardinality(A) + Cardinality(B) - Cardinality({})
  BY <1>7, <1>8, <1>9, FS_Union
<1>14. Cardinality(A) \in Nat /\ Cardinality(B) \in Nat /\ Cardinality({}) = 0
  BY <1>7, <1>8, FS_CardinalityType, FS_EmptySet
<1>15. Offset(e, first, n, blk, bit) + Cardinality(E) = RankIn(H, key, x)
  BY <1>7, <1>8, <1>12, <1>13, <1>14
<1> QED BY <1>1, <1>4, <1>6, <1>15

-----------------------------------------------------------------------------
(* decompose_exponent_bits: the indexes *)

(* What is written for a pair of a bit and an element *)
Entry(e, first, n, s) ==
  [at |-> RankIn(BitsHeld(e, first, n), HeldKey(e, first, n), s), index |-> s[2],
   is_neg |-> IsNegative(e, first + s[2])]

(* The entries of a block *)
EntriesOf(e, first, n, members, slots_from) ==
  {[at |-> slots_from + Cardinality({j \in members : j < i}),
    index |-> i, is_neg |-> IsNegative(e, first + i)] : i \in members}

AllEntries(e, first, n) ==
  UNION {UNION {EntriesOf(e, first, n, BlockMembers(e, first, n, block_id, bit),
                          Offset(e, first, n, block_id, bit))
                  : block_id \in 0 .. NumCountBlocks(n) - 1} : bit \in 0 .. NumBits(e) - 1}

EntriesAre(W, e, first, n) == W = {Entry(e, first, n, s) : s \in BitsHeld(e, first, n)}

(* Every pair is written once, at its rank. *)
LEMMA AllEntriesAre ==
  ASSUME NEW e, NEW first, NEW n, ValidPart(e, first, n)
  PROVE  EntriesAre(AllEntries(e, first, n), e, first, n)
<1>1. PICK num, per, H : num = NumCountBlocks(n) /\ per = DivideUp(n, num) /\ H = BitsHeld(e, first, n)
  OBVIOUS
<1>2. n \in Nat \ {0} /\ num \in Nat \ {0} /\ per \in Nat \ {0} /\ n <= per * num
  BY <1>1, CountBlocksAre DEF ValidPart
<1>3. ASSUME NEW bit \in 0 .. NumBits(e) - 1, NEW b \in 0 .. num - 1,
             NEW w \in EntriesOf(e, first, n, BlockMembers(e, first, n, b, bit), Offset(e, first, n, b, bit))
      PROVE  \E s \in H : w = Entry(e, first, n, s)
  <2>1. PICK members : members = BlockMembers(e, first, n, b, bit)
    OBVIOUS
  <2>2. PICK i \in members :
          w = [at |-> Offset(e, first, n, b, bit) + Cardinality({j \in members : j < i}),
               index |-> i, is_neg |-> IsNegative(e, first + i)]
    BY <1>3, <2>1 DEF EntriesOf
  <2>3. /\ <<bit, i>> \in H
        /\ Offset(e, first, n, b, bit) + Cardinality({j \in members : j < i})
              = RankIn(H, HeldKey(e, first, n), <<bit, i>>)
    BY <1>1, <2>1, SlotIs
  <2>4. PICK s : s = <<bit, i>>
    OBVIOUS
  <2>5. s[2] = i
    BY <2>4
  <2> QED BY <1>1, <2>2, <2>3, <2>4, <2>5 DEF Entry
<1>4. ASSUME NEW s \in H
      PROVE  \E bit \in 0 .. NumBits(e) - 1 : \E b \in 0 .. num - 1 :
               Entry(e, first, n, s)
                 \in EntriesOf(e, first, n, BlockMembers(e, first, n, b, bit), Offset(e, first, n, b, bit))
  <2>1. PICK bit, i, b : bit = s[1] /\ i = s[2] /\ b = i \div per
    OBVIOUS
  <2>2. bit \in 0 .. NumBits(e) - 1 /\ i \in 0 .. n - 1 /\ s = <<bit, i>> /\ HasBit(e, first + i, bit)
    BY <1>1, <2>1 DEF BitsHeld
  <2>3. b \in 0 .. num - 1
    <3>1. (i \div per) \in 0 .. num - 1
      BY <1>2, <2>2, BlockFound
    <3> QED BY <2>1, <3>1
  <2>4. PICK members : members = BlockMembers(e, first, n, b, bit)
    OBVIOUS
  <2>5. i \in members
    <3>1. members = {j \in 0 .. n - 1 : (j \div per) = b /\ HasBit(e, first + j, bit)}
      BY <1>1, <1>2, <2>3, <2>4, MembersAre
    <3> QED BY <2>1, <2>2, <3>1
  <2>6. Offset(e, first, n, b, bit) + Cardinality({j \in members : j < i})
          = RankIn(H, HeldKey(e, first, n), <<bit, i>>)
    BY <1>1, <2>2, <2>3, <2>4, <2>5, SlotIs
  <2>7. Entry(e, first, n, s)
          = [at |-> Offset(e, first, n, b, bit) + Cardinality({j \in members : j < i}),
             index |-> i, is_neg |-> IsNegative(e, first + i)]
    BY <1>1, <2>1, <2>2, <2>6 DEF Entry
  <2> QED BY <2>2, <2>3, <2>4, <2>5, <2>7 DEF EntriesOf
<1>5. ASSUME NEW w PROVE w \in AllEntries(e, first, n) <=> \E s \in H : w = Entry(e, first, n, s)
  BY <1>1, <1>3, <1>4 DEF AllEntries
<1> QED BY <1>1, <1>5 DEF EntriesAre

IndexedBy(x, e, first, n) ==
  \A s \in BitsHeld(e, first, n) :
    LET r == RankIn(BitsHeld(e, first, n), HeldKey(e, first, n), s)
    IN  x[r].index = s[2] /\ x[r].is_neg = IsNegative(e, first + s[2])

(* The slot of a pair holds its element and the sign. *)
LEMMA IndexesAre ==
  ASSUME NEW e, NEW first, NEW n, ValidPart(e, first, n)
  PROVE  IndexedBy(Indexes(e, first, n), e, first, n)
<1>1. PICK H, key, W : /\ H = BitsHeld(e, first, n) /\ key = HeldKey(e, first, n)
                       /\ W = AllEntries(e, first, n)
  OBVIOUS
<1>2. Indexes(e, first, n) = [slot_id \in {w.at : w \in W} |-> CHOOSE w \in W : w.at = slot_id]
  BY <1>1 DEF Indexes, AllEntries, EntriesOf
<1>3. W = {Entry(e, first, n, s) : s \in H}
  BY <1>1, AllEntriesAre DEF EntriesAre
<1>4. \A s, t \in H : RankIn(H, key, s) = RankIn(H, key, t) => s = t
  <2>1. IsFiniteSet(H) /\ key \in [H -> Int] /\ InOrder(key, H)
    BY <1>1, HeldAre
  <2> QED BY <2>1, RankIs
<1>5. ASSUME NEW s \in H
      PROVE  Indexes(e, first, n)[RankIn(H, key, s)] = Entry(e, first, n, s)
  <2>1. PICK r, w : r = RankIn(H, key, s) /\ w = Entry(e, first, n, s)
    OBVIOUS
  <2>2. w \in W /\ w.at = r
    BY <1>1, <1>3, <2>1 DEF Entry
  <2>3. ASSUME NEW v \in W, v.at = r PROVE v = w
    <3>1. PICK t \in H : v = Entry(e, first, n, t)
      BY <1>3, <2>3
    <3>2. RankIn(H, key, t) = r
      BY <1>1, <2>3, <3>1 DEF Entry
    <3> QED BY <1>4, <2>1, <3>1, <3>2
  <2>4. (CHOOSE v \in W : v.at = r) = w
    BY <2>2, <2>3
  <2>5. Indexes(e, first, n)[r] = CHOOSE v \in W : v.at = r
    BY <1>2, <2>2
  <2> QED BY <2>1, <2>4, <2>5
<1>6. ASSUME NEW s \in H
      PROVE  LET r == RankIn(H, key, s)
                 x == Indexes(e, first, n)
             IN  x[r].index = s[2] /\ x[r].is_neg = IsNegative(e, first + s[2])
  <2>1. PICK w : w = Indexes(e, first, n)[RankIn(H, key, s)]
    OBVIOUS
  <2>2. w = Entry(e, first, n, s)
    BY <1>5, <2>1
  <2>3. w.index = s[2] /\ w.is_neg = IsNegative(e, first + s[2])
    BY <2>2 DEF Entry
  <2> QED BY <2>1, <2>3
<1> QED BY <1>1, <1>6 DEF IndexedBy

-----------------------------------------------------------------------------
(* The bits that occur, and their places *)

Itself(S) == [b \in S |-> b]

(* The place of a bit among the products *)
BitPlace(or_all, bit) == Cardinality({b \in or_all : b <= bit})

Places1To(or_all) ==
  /\ \A bit \in or_all : BitPlace(or_all, bit) \in 1 .. Cardinality(or_all)
                         /\ BitPlace(or_all, bit) = Cardinality({c \in or_all : c < bit}) + 1
  /\ \A b, c \in or_all : BitPlace(or_all, b) < BitPlace(or_all, c) <=> b < c
  /\ \A b, c \in or_all : BitPlace(or_all, b) = BitPlace(or_all, c) => b = c
  /\ \A p \in 1 .. Cardinality(or_all) : \E bit \in or_all : BitPlace(or_all, bit) = p
  /\ Cardinality(or_all) \in Nat

EveryRank(S, key) ==
  \A r \in 0 .. Cardinality(S) - 1 : \E x \in S : RankIn(S, key, x) = r

(* Every rank is of an element. *)
LEMMA RanksFound ==
  ASSUME NEW S, IsFiniteSet(S), NEW key \in [S -> Int], InOrder(key, S)
  PROVE  EveryRank(S, key)
BY RankIs DEF EveryRank

(* The bits have the places 1, 2, ... in their order. *)
LEMMA BitPlacesAre ==
  ASSUME NEW S, IsFiniteSet(S), S \subseteq Int
  PROVE  Places1To(S)
<1>1. PICK key : key = Itself(S)
  OBVIOUS
<1>2. key \in [S -> Int] /\ InOrder(key, S) /\ \A b \in S : key[b] = b
  BY <1>1 DEF Itself, InOrder
<1>3. /\ Cardinality(S) \in Nat
      /\ \A x \in S : RankIn(S, key, x) \in 0 .. Cardinality(S) - 1
      /\ \A x, y \in S : RankIn(S, key, x) = RankIn(S, key, y) => x = y
      /\ \A r \in 0 .. Cardinality(S) - 1 : \E x \in S : RankIn(S, key, x) = r
  <2>1. key \in [S -> Int] /\ InOrder(key, S)
    BY <1>2
  <2>2. Cardinality(S) \in Nat
    BY FS_CardinalityType
  <2>3. \A x \in S : RankIn(S, key, x) \in 0 .. Cardinality(S) - 1
    BY <2>1, RankIs
  <2>4. \A x, y \in S : RankIn(S, key, x) = RankIn(S, key, y) => x = y
    BY <2>1, RankIs
  <2>5. EveryRank(S, key)
    BY <2>1, RanksFound
  <2> QED BY <2>2, <2>3, <2>4, <2>5 DEF EveryRank
<1>4. ASSUME NEW bit \in S
      PROVE  BitPlace(S, bit) = RankIn(S, key, bit) + 1
             /\ RankIn(S, key, bit) = Cardinality({c \in S : c < bit})
  <2>1. PICK A, B : A = {c \in S : c < bit} /\ B = {b \in S : b <= bit}
    OBVIOUS
  <2>2. B = A \cup {bit} /\ bit \notin A /\ A \subseteq S
    <3>1. \A c \in S : (c <= bit <=> c < bit \/ c = bit) /\ ~(bit < bit)
      <4> TAKE c \in S
      <4>1. c \in Int /\ bit \in Int
        OBVIOUS
      <4> QED BY <4>1
    <3> QED BY <2>1, <3>1
  <2>3. IsFiniteSet(A)
    BY <2>2, FS_Subset
  <2>4. Cardinality(B) = Cardinality(A) + 1
    BY <2>2, <2>3, FS_AddElement
  <2>5. PICK X : X = {y \in S : key[y] < key[bit]}
    OBVIOUS
  <2>6. X = A
    BY <1>2, <2>1, <2>5
  <2>7. RankIn(S, key, bit) = Cardinality(X)
    BY <2>5 DEF RankIn
  <2>8. BitPlace(S, bit) = Cardinality(B)
    BY <2>1 DEF BitPlace
  <2> QED BY <2>1, <2>4, <2>6, <2>7, <2>8
<1>5. ASSUME NEW b \in S, NEW c \in S
      PROVE  /\ BitPlace(S, b) < BitPlace(S, c) <=> b < c
             /\ BitPlace(S, b) = BitPlace(S, c) => b = c
  <2>1. PICK u, v : u = RankIn(S, key, b) /\ v = RankIn(S, key, c)
    OBVIOUS
  <2>2. BitPlace(S, b) = u + 1 /\ BitPlace(S, c) = v + 1 /\ u \in Nat /\ v \in Nat
    <3>1. BitPlace(S, b) = u + 1 /\ BitPlace(S, c) = v + 1
      BY <1>4, <2>1
    <3>2. u \in 0 .. Cardinality(S) - 1 /\ v \in 0 .. Cardinality(S) - 1
      BY <1>3, <2>1
    <3> QED BY <1>3, <3>1, <3>2
  <2>3. (b < c => u < v) /\ (c < b => v < u) /\ (u = v => b = c)
    BY <1>2, <1>3, <2>1, RankAscends
  <2>4. b \in Int /\ c \in Int
    OBVIOUS
  <2> QED BY <2>2, <2>3, <2>4
<1>6. ASSUME NEW p \in 1 .. Cardinality(S) PROVE \E bit \in S : BitPlace(S, bit) = p
  <2>1. p - 1 \in 0 .. Cardinality(S) - 1 /\ (p - 1) + 1 = p
    BY <1>3
  <2>2. PICK bit \in S : RankIn(S, key, bit) = p - 1
    BY <1>3, <2>1
  <2> QED BY <1>4, <2>1, <2>2
<1>7. ASSUME NEW bit \in S
      PROVE  BitPlace(S, bit) \in 1 .. Cardinality(S)
             /\ BitPlace(S, bit) = Cardinality({c \in S : c < bit}) + 1
  BY <1>3, <1>4
<1> QED BY <1>3, <1>5, <1>6, <1>7 DEF Places1To

(* The bits that some of a set of generators have *)
BitsOfAny(e, G) == {bit \in 0 .. NumBits(e) - 1 : \E g \in G : HasBit(e, g, bit)}

PartOf(first, n) == first .. first + n - 1

(* or_all_p *)
LEMMA ChunkBitsAre ==
  ASSUME NEW e, NEW first, NEW n, ValidPart(e, first, n)
  PROVE  ChunkBits(e, first, n) = BitsOfAny(e, PartOf(first, n))
<1>1. PICK H, class : H = BitsHeld(e, first, n) /\ class = HeldBit(e, first, n)
  OBVIOUS
<1>2. IsFiniteSet(H) /\ n \in Nat \ {0} /\ first \in Nat
  BY <1>1, HeldAre DEF ValidPart
<1>3. ASSUME NEW bit \in 0 .. NumBits(e) - 1
      PROVE  ProductSize(e, first, n, bit) > 0 <=> \E g \in PartOf(first, n) : HasBit(e, g, bit)
  <2>1. PICK C : C = OfClass(H, class, bit)
    OBVIOUS
  <2>2. ProductSize(e, first, n, bit) = Cardinality(C)
    BY <1>1, <2>1, ProductSizeIs
  <2>3. IsFiniteSet(C)
    <3>1. C \subseteq H
      BY <2>1 DEF OfClass
    <3> QED BY <1>2, <3>1, FS_Subset
  <2>4. Cardinality(C) \in Nat /\ (Cardinality(C) = 0 <=> C = {})
    BY <2>3, FS_CardinalityType, FS_EmptySet
  <2>5. ASSUME NEW s \in C PROVE \E g \in PartOf(first, n) : HasBit(e, g, bit)
    <3>1. s \in H /\ s[1] = bit
      BY <1>1, <2>1 DEF OfClass, HeldBit
    <3>2. s[2] \in 0 .. n - 1 /\ HasBit(e, first + s[2], bit)
      BY <1>1, <3>1 DEF BitsHeld
    <3>3. first + s[2] \in PartOf(first, n)
      BY <1>2, <3>2 DEF PartOf
    <3> QED BY <3>2, <3>3
  <2>6. ASSUME NEW g \in PartOf(first, n), HasBit(e, g, bit) PROVE C # {}
    <3>1. PICK i : i = g - first
      OBVIOUS
    <3>2. i \in 0 .. n - 1 /\ first + i = g
      BY <1>2, <3>1 DEF PartOf
    <3>3. PICK s : s = <<bit, i>>
      OBVIOUS
    <3>4. s \in (0 .. NumBits(e) - 1) \X (0 .. n - 1) /\ s[1] = bit /\ s[2] = i
      BY <3>2, <3>3
    <3>5. s \in H
      BY <1>1, <2>6, <3>2, <3>4 DEF BitsHeld
    <3>6. s \in C
      BY <1>1, <2>1, <3>4, <3>5 DEF OfClass, HeldBit
    <3> QED BY <3>6
  <2> QED BY <2>2, <2>4, <2>5, <2>6
<1> QED BY <1>3 DEF ChunkBits, BitsOfAny

-----------------------------------------------------------------------------
(* async_compute_multiexponentiation_impl: the products of a part *)

BitAtPlace(or_all, p) == CHOOSE b \in or_all : Cardinality({c \in or_all : c < b}) = p - 1

IsBitAt(or_all, p, bit) == bit \in or_all /\ BitPlace(or_all, bit) = p /\ BitAtPlace(or_all, p) = bit

(* The bit at a place *)
LEMMA BitAtIs ==
  ASSUME NEW S, IsFiniteSet(S), S \subseteq Int
  PROVE  /\ \A bit \in S : IsBitAt(S, BitPlace(S, bit), bit)
         /\ \A p \in 1 .. Cardinality(S) : \E bit \in S : IsBitAt(S, p, bit)
<1>1. Places1To(S)
  BY BitPlacesAre
<1>2. ASSUME NEW bit \in S PROVE IsBitAt(S, BitPlace(S, bit), bit)
  <2>1. PICK p : p = BitPlace(S, bit)
    OBVIOUS
  <2>2. p \in Nat /\ Cardinality({c \in S : c < bit}) = p - 1
        /\ \A b \in S : Cardinality({c \in S : c < b}) = BitPlace(S, b) - 1
    <3>1. ASSUME NEW b \in S
          PROVE  BitPlace(S, b) \in Nat /\ Cardinality({c \in S : c < b}) = BitPlace(S, b) - 1
      <4>1. PICK q, r : q = BitPlace(S, b) /\ r = BitPlace(S, bit)
        OBVIOUS
      <4>2. PICK X, N : X = {c \in S : c < b} /\ N = {c \in S : c <= b}
        OBVIOUS
      <4>3. q \in 1 .. Cardinality(S) /\ q = Cardinality(X) + 1 /\ Cardinality(S) \in Nat
        BY <1>1, <4>1, <4>2 DEF Places1To
      <4>4. X \subseteq S
        BY <4>2
      <4>5. Cardinality(X) \in Nat
        BY <4>4, FS_Subset, FS_CardinalityType
      <4>6. q \in Nat /\ Cardinality(X) = q - 1
        BY <4>3, <4>5
      <4> QED BY <4>1, <4>2, <4>6
    <3> QED BY <2>1, <3>1
  <2>3. ASSUME NEW b \in S, Cardinality({c \in S : c < b}) = p - 1 PROVE b = bit
    <3>1. BitPlace(S, b) = p
      <4>1. BitPlace(S, b) - 1 = p - 1
        BY <2>2, <2>3
      <4>2. BitPlace(S, b) \in 1 .. Cardinality(S) /\ Cardinality(S) \in Nat
        BY <1>1 DEF Places1To
      <4> QED BY <2>2, <4>1, <4>2
    <3> QED BY <1>1, <2>1, <3>1 DEF Places1To
  <2>4. BitAtPlace(S, p) = bit
    BY <2>2, <2>3 DEF BitAtPlace
  <2> QED BY <2>1, <2>4 DEF IsBitAt
<1>3. ASSUME NEW p \in 1 .. Cardinality(S) PROVE \E bit \in S : IsBitAt(S, p, bit)
  <2>1. PICK bit \in S : BitPlace(S, bit) = p
    BY <1>1 DEF Places1To
  <2> QED BY <1>2, <2>1
<1> QED BY <1>2, <1>3

(* The bits that a set of generators uses are finitely many. *)
LEMMA ChunkBitsFinite ==
  ASSUME NEW e, NumBits(e) \in Nat, NEW G
  PROVE  IsFiniteSet(BitsOfAny(e, G)) /\ BitsOfAny(e, G) \subseteq 0 .. NumBits(e) - 1
         /\ BitsOfAny(e, G) \subseteq Int /\ Cardinality(BitsOfAny(e, G)) \in Nat
<1>1. BitsOfAny(e, G) \subseteq 0 .. NumBits(e) - 1
  BY DEF BitsOfAny
<1>2. IsFiniteSet(0 .. NumBits(e) - 1)
  <2>1. 0 \in Int /\ NumBits(e) - 1 \in Int
    OBVIOUS
  <2> QED BY <2>1, FS_Interval
<1>3. BitsOfAny(e, G) \subseteq Int
  BY <1>1
<1> QED BY <1>1, <1>2, <1>3, FS_Subset, FS_CardinalityType

(* Where the slice of the bit at a place begins *)
SliceStart(e, first, n, S, p) ==
  Total(1 .. p - 1, LAMBDA q : ProductSize(e, first, n, BitAtPlace(S, q)))

(* The slice of a bit begins behind all pairs with lower bits. *)
LEMMA SliceBegins ==
  ASSUME NEW e, NEW first, NEW n, ValidPart(e, first, n),
         NEW S, S = ChunkBits(e, first, n), NEW p \in 1 .. Cardinality(S), NEW bit, IsBitAt(S, p, bit)
  PROVE  SliceStart(e, first, n, S, p)
           = Cardinality(Below(BitsHeld(e, first, n), HeldBit(e, first, n), bit))
<1>1. PICK H, class : H = BitsHeld(e, first, n) /\ class = HeldBit(e, first, n)
  OBVIOUS
<1>2. IsFiniteSet(H) /\ class \in [H -> Int] /\ n \in Nat \ {0} /\ first \in Nat
  BY <1>1, HeldAre DEF ValidPart
<1>3. NumBits(e) \in Nat
  <2>1. 0 \in 0 .. e.n - 1 /\ ValidExponents(e)
    BY DEF ValidPart, ValidExponents, ExponentSequences
  <2> QED BY <2>1, UnsignedIs
<1>4. /\ S = BitsOfAny(e, PartOf(first, n)) /\ IsFiniteSet(S) /\ S \subseteq 0 .. NumBits(e) - 1
      /\ S \subseteq Int /\ Cardinality(S) \in Nat
  BY <1>3, ChunkBitsAre, ChunkBitsFinite
<1>5. Places1To(S)
  BY <1>4, BitPlacesAre
<1>6. /\ \A c \in S : IsBitAt(S, BitPlace(S, c), c)
      /\ \A q \in 1 .. Cardinality(S) : \E c \in S : IsBitAt(S, q, c)
  BY <1>4, BitAtIs
<1> DEFINE P == 1 .. p - 1
           M == [q \in P |-> OfClass(H, class, BitAtPlace(S, q))]
<1>7. IsFiniteSet(P) /\ p \in Nat /\ P \subseteq 1 .. Cardinality(S)
  <2>1. p \in Nat /\ 1 \in Int /\ p - 1 \in Int
    BY <1>4
  <2>2. IsFiniteSet(P)
    BY <2>1, FS_Interval
  <2>3. P \subseteq 1 .. Cardinality(S)
    BY <1>4
  <2> QED BY <2>1, <2>2, <2>3
<1>8. ASSUME NEW q \in P
      PROVE  /\ BitAtPlace(S, q) \in S /\ BitPlace(S, BitAtPlace(S, q)) = q
             /\ IsFiniteSet(M[q]) /\ Cardinality(M[q]) = ProductSize(e, first, n, BitAtPlace(S, q))
  <2>1. PICK c \in S : IsBitAt(S, q, c)
    BY <1>6, <1>7
  <2>2. BitAtPlace(S, q) = c /\ BitPlace(S, c) = q
    BY <2>1 DEF IsBitAt
  <2>3. M[q] = OfClass(H, class, c)
    BY <2>2
  <2>4. M[q] \subseteq H
    BY <2>3 DEF OfClass
  <2>5. c \in 0 .. NumBits(e) - 1
    BY <1>4
  <2> HIDE DEF M
  <2>6. IsFiniteSet(M[q])
    BY <1>2, <2>4, FS_Subset
  <2>7. Cardinality(M[q]) = ProductSize(e, first, n, c)
    BY <1>1, <2>3, <2>5, ProductSizeIs
  <2> QED BY <2>2, <2>6, <2>7
<1>9. Separate(M, P)
  <2>1. ASSUME NEW q \in P, NEW r \in P, q # r PROVE M[q] \cap M[r] = {}
    <3>1. BitAtPlace(S, q) # BitAtPlace(S, r)
      BY <1>8, <2>1
    <3> QED BY <3>1 DEF OfClass
  <2> HIDE DEF M
  <2> QED BY <2>1 DEF Separate
<1>10. bit \in S /\ BitPlace(S, bit) = p
  BY DEF IsBitAt
<1>11. UNION {M[q] : q \in P} = Below(H, class, bit)
  <2>1. ASSUME NEW q \in P, NEW s \in M[q] PROVE s \in Below(H, class, bit)
    <3>1. s \in H /\ class[s] = BitAtPlace(S, q)
      BY <2>1 DEF OfClass
    <3>2. PICK c : c = BitAtPlace(S, q)
      OBVIOUS
    <3>3. c \in S /\ BitPlace(S, c) = q /\ q < p
      BY <1>7, <1>8, <3>2
    <3>4. c < bit
      BY <1>5, <1>10, <3>3 DEF Places1To
    <3> QED BY <3>1, <3>2, <3>4 DEF Below
  <2>2. ASSUME NEW s \in Below(H, class, bit) PROVE \E q \in P : s \in M[q]
    <3>1. s \in H /\ class[s] < bit /\ class[s] = s[1]
      BY <1>1 DEF Below, HeldBit
    <3>2. PICK c, i : c = s[1] /\ i = s[2]
      OBVIOUS
    <3>3. c \in 0 .. NumBits(e) - 1 /\ i \in 0 .. n - 1 /\ HasBit(e, first + i, c)
      BY <1>1, <3>1, <3>2 DEF BitsHeld
    <3>4. first + i \in PartOf(first, n)
      BY <1>2, <3>3 DEF PartOf
    <3>5. c \in S
      BY <1>4, <3>3, <3>4 DEF BitsOfAny
    <3>6. PICK q : q = BitPlace(S, c)
      OBVIOUS
    <3>7. q \in 1 .. Cardinality(S) /\ q < p /\ BitAtPlace(S, q) = c
      <4>1. q \in 1 .. Cardinality(S)
        BY <1>5, <3>5, <3>6 DEF Places1To
      <4>2. q < p
        BY <1>5, <1>10, <3>1, <3>2, <3>5, <3>6 DEF Places1To
      <4>3. BitAtPlace(S, q) = c
        BY <1>6, <3>5, <3>6 DEF IsBitAt
      <4> QED BY <4>1, <4>2, <4>3
    <3>8. q \in P
      BY <1>4, <1>7, <3>7
    <3>9. s \in M[q]
      BY <3>1, <3>2, <3>7, <3>8 DEF OfClass
    <3> QED BY <3>8, <3>9
  <2> QED BY <2>1, <2>2
<1>12. SumFunction([q \in P |-> Cardinality(M[q])]) = Cardinality(UNION {M[q] : q \in P})
  <2>1. \A q \in P : IsFiniteSet(M[q])
    BY <1>8
  <2> HIDE DEF P, M
  <2> QED BY <1>7, <1>9, <2>1, UnionCounted
<1>13. [q \in P |-> Cardinality(M[q])] = [q \in P |-> ProductSize(e, first, n, BitAtPlace(S, q))]
  <2> HIDE DEF M
  <2> QED BY <1>8
<1> HIDE DEF M
<1> QED BY <1>1, <1>11, <1>12, <1>13 DEF Total, SliceStart

SignOf(e, g) == IF IsNegative(e, g) THEN -1 ELSE 1

(* The generators of G that have a bit, with the signs of their exponents *)
BitTerm(e, G, bit) ==
  [g \in Coefficients |-> IF g \in G /\ HasBit(e, g, bit) THEN SignOf(e, g) ELSE 0]

HoldsBits(or_all, products, e, G) ==
  /\ or_all = BitsOfAny(e, G)
  /\ products \in [1 .. Cardinality(or_all) -> Elements]
  /\ \A bit \in or_all : products[BitPlace(or_all, bit)] = BitTerm(e, G, bit)

(* The product of a bit is a group element. *)
LEMMA BitTermIs ==
  ASSUME NEW e, NEW G, NEW bit
  PROVE  BitTerm(e, G, bit) \in Elements
BY DEF BitTerm, SignOf, Elements

SliceSum(e, first, n, bit, from_slot) ==
  LET indexes == Indexes(e, first, n)
      Mapped(k) == LET g == Generator(first + indexes[k].index)
                   IN  IF indexes[k].is_neg THEN Minus(g) ELSE g
  IN  SumFrom(from_slot, from_slot + ProductSize(e, first, n, bit) - 1, Mapped)

(* What a slice holds: every element with the bit, once. *)
SliceOf(T, idx, x, e, first, n, bit) ==
  /\ \A k \in T : /\ idx[k] \in PartOf(first, n) /\ HasBit(e, idx[k], bit)
                  /\ idx[k] = first + x[k].index /\ x[k].is_neg = IsNegative(e, idx[k])
  /\ \A g \in PartOf(first, n) : HasBit(e, g, bit) => \E k \in T : idx[k] = g
  /\ \A j, k \in T : idx[j] = idx[k] => j = k

(* The indexes of a bit lie together in the table, each generator that has  *)
(* the bit once.                                                            *)
LEMMA SlicesAre ==
  ASSUME NEW e, NEW first, NEW n, ValidPart(e, first, n), NEW bit \in 0 .. NumBits(e) - 1,
         NEW x, x = Indexes(e, first, n),
         NEW low, low = Cardinality(Below(BitsHeld(e, first, n), HeldBit(e, first, n), bit)),
         NEW T, T = low .. low + ProductSize(e, first, n, bit) - 1
  PROVE  IsFiniteSet(T) /\ SliceOf(T, [k \in T |-> first + x[k].index], x, e, first, n, bit)
<1>1. PICK H, class, key : /\ H = BitsHeld(e, first, n) /\ class = HeldBit(e, first, n)
                           /\ key = HeldKey(e, first, n)
  OBVIOUS
<1>2. /\ IsFiniteSet(H) /\ class \in [H -> Int] /\ key \in [H -> Int] /\ InOrder(key, H)
      /\ Ascends(H, key, class) /\ n \in Nat \ {0} /\ first \in Nat
  BY <1>1, HeldAre DEF ValidPart
<1>3. PICK C, U : C = OfClass(H, class, bit) /\ U = Below(H, class, bit + 1)
  OBVIOUS
<1>4. /\ low \in Nat /\ Cardinality(C) \in Nat /\ low + Cardinality(C) = Cardinality(U)
      /\ Cardinality(U) <= Cardinality(H) /\ Cardinality(H) \in Nat
  <2>1. bit \in Int
    OBVIOUS
  <2> QED BY <1>1, <1>2, <1>3, <2>1, BelowCounted
<1>5. T = low .. Cardinality(U) - 1 /\ ProductSize(e, first, n, bit) = Cardinality(C)
  <2>1. ProductSize(e, first, n, bit) = Cardinality(C)
    BY <1>1, <1>3, ProductSizeIs
  <2> QED BY <1>4, <2>1
<1>6. IsFiniteSet(T)
  <2>1. low \in Int /\ Cardinality(U) - 1 \in Int
    BY <1>4
  <2> QED BY <1>5, <2>1, FS_Interval
<1>7. ASSUME NEW s \in H PROVE class[s] = bit <=> RankIn(H, key, s) \in T
  <2>1. InItsPlace(H, key, class, bit, s)
    <3>1. bit \in Int
      OBVIOUS
    <3> QED BY <1>2, <3>1, RankOfClass
  <2> QED BY <1>1, <1>3, <1>5, <2>1 DEF InItsPlace
<1>8. ASSUME NEW s \in H
      PROVE  LET r == RankIn(H, key, s)
             IN  x[r].index = s[2] /\ x[r].is_neg = IsNegative(e, first + s[2])
  <2>1. IndexedBy(x, e, first, n)
    BY IndexesAre
  <2> QED BY <1>1, <2>1 DEF IndexedBy
<1>9. ASSUME NEW k \in T PROVE \E s \in H : RankIn(H, key, s) = k /\ class[s] = bit
  <2>1. k \in 0 .. Cardinality(H) - 1
    BY <1>4, <1>5
  <2>2. EveryRank(H, key)
    BY <1>2, RanksFound
  <2>3. PICK s \in H : RankIn(H, key, s) = k
    BY <2>1, <2>2 DEF EveryRank
  <2> QED BY <1>7, <2>3
<1>10. ASSUME NEW s \in H
       PROVE  class[s] = s[1] /\ s[2] \in 0 .. n - 1 /\ first + s[2] \in PartOf(first, n)
              /\ HasBit(e, first + s[2], s[1])
  <2>1. class[s] = s[1]
    BY <1>1 DEF HeldBit
  <2>2. s[2] \in 0 .. n - 1 /\ HasBit(e, first + s[2], s[1])
    BY <1>1 DEF BitsHeld
  <2>3. first + s[2] \in PartOf(first, n)
    BY <1>2, <2>2 DEF PartOf
  <2> QED BY <2>1, <2>2, <2>3
<1> DEFINE idx == [k \in T |-> first + x[k].index]
<1>11. ASSUME NEW k \in T
       PROVE  \E s \in H : /\ RankIn(H, key, s) = k /\ s[1] = bit /\ idx[k] = first + s[2]
                           /\ x[k].index = s[2] /\ x[k].is_neg = IsNegative(e, first + s[2])
  <2>1. PICK s \in H : RankIn(H, key, s) = k /\ class[s] = bit
    BY <1>9
  <2>2. x[k].index = s[2] /\ x[k].is_neg = IsNegative(e, first + s[2])
    BY <1>8, <2>1
  <2>3. idx[k] = first + x[k].index
    OBVIOUS
  <2> HIDE DEF idx
  <2> QED BY <1>10, <2>1, <2>2, <2>3
<1>12. ASSUME NEW k \in T
       PROVE  /\ idx[k] \in PartOf(first, n) /\ HasBit(e, idx[k], bit)
              /\ idx[k] = first + x[k].index /\ x[k].is_neg = IsNegative(e, idx[k])
  <2> HIDE DEF idx
  <2> QED BY <1>10, <1>11
<1>13. ASSUME NEW g \in PartOf(first, n), HasBit(e, g, bit) PROVE \E k \in T : idx[k] = g
  <2>1. PICK i : i = g - first
    OBVIOUS
  <2>2. i \in 0 .. n - 1 /\ first + i = g
    BY <1>2, <2>1 DEF PartOf
  <2>3. PICK s : s = <<bit, i>>
    OBVIOUS
  <2>4. s \in (0 .. NumBits(e) - 1) \X (0 .. n - 1) /\ s[1] = bit /\ s[2] = i
    BY <2>2, <2>3
  <2>5. s \in H
    BY <1>1, <1>13, <2>2, <2>4 DEF BitsHeld
  <2>6. PICK k : k = RankIn(H, key, s)
    OBVIOUS
  <2>7. k \in T /\ x[k].index = i
    BY <1>7, <1>8, <1>10, <2>4, <2>5, <2>6
  <2>8. idx[k] = g
    BY <2>2, <2>7
  <2> QED BY <2>7, <2>8
<1>14. ASSUME NEW j \in T, NEW k \in T, idx[j] = idx[k] PROVE j = k
  <2> HIDE DEF idx
  <2>1. PICK s \in H : RankIn(H, key, s) = j /\ s[1] = bit /\ idx[j] = first + s[2]
    BY <1>11
  <2>2. PICK t \in H : RankIn(H, key, t) = k /\ t[1] = bit /\ idx[k] = first + t[2]
    BY <1>11
  <2>3. s[2] \in 0 .. n - 1 /\ t[2] \in 0 .. n - 1
    BY <1>10
  <2>4. s[2] = t[2]
    <3>1. PICK u, v : u = s[2] /\ v = t[2]
      OBVIOUS
    <3>2. u \in Nat /\ v \in Nat /\ first \in Nat
      BY <1>2, <2>3, <3>1
    <3>3. first + u = first + v
      BY <1>14, <2>1, <2>2, <3>1
    <3>4. u = v
      BY <3>2, <3>3
    <3> QED BY <3>1, <3>4
  <2>5. s = <<s[1], s[2]>> /\ t = <<t[1], t[2]>>
    BY <1>1 DEF BitsHeld
  <2>6. s = t
    BY <2>1, <2>2, <2>4, <2>5
  <2> QED BY <2>1, <2>2, <2>6
<1> HIDE DEF idx
<1>15. SliceOf(T, idx, x, e, first, n, bit)
  BY <1>12, <1>13, <1>14 DEF SliceOf
<1> QED BY <1>6, <1>15 DEF idx

(* The sum over a slice is what the bit is worth. *)
LEMMA SliceSumIs ==
  ASSUME NEW e, NEW first, NEW n, ValidPart(e, first, n), NEW bit \in 0 .. NumBits(e) - 1,
         NEW low, low = Cardinality(Below(BitsHeld(e, first, n), HeldBit(e, first, n), bit))
  PROVE  SliceSum(e, first, n, bit, low) = BitTerm(e, PartOf(first, n), bit)
<1>1. PICK x, T, G : /\ x = Indexes(e, first, n) /\ T = low .. low + ProductSize(e, first, n, bit) - 1
                     /\ G = PartOf(first, n)
  OBVIOUS
<1>2. PICK idx : idx = [k \in T |-> first + x[k].index]
  OBVIOUS
<1>3. IsFiniteSet(T) /\ SliceOf(T, idx, x, e, first, n, bit)
  BY <1>1, <1>2, SlicesAre
<1>4. \A g \in G : g \in 0 .. NumGens - 1 /\ g \in Coefficients
  <2>1. first \in Nat /\ n \in Nat /\ first + n <= e.n /\ e.n \in 0 .. NumGens
    BY DEF ValidPart, ValidExponents, ExponentSequences
  <2>2. NumGens \in Nat
    BY GroupAssumption
  <2>3. ASSUME NEW g \in G PROVE g \in 0 .. NumGens - 1
    BY <1>1, <2>1, <2>2 DEF PartOf
  <2> QED BY <2>2, <2>3 DEF Coefficients, Junk
<1> DEFINE f == [k \in T |-> LET g == Generator(first + x[k].index)
                             IN  IF x[k].is_neg THEN Minus(g) ELSE g]
           value == [g \in Coefficients |-> SignOf(e, g)]
<1>5. SliceSum(e, first, n, bit, low) = FoldFunction(Plus, Zero, f)
  BY <1>1 DEF SliceSum, SumFrom
<1>6. ASSUME NEW k \in T
      PROVE  f[k] \in Elements
             /\ \A g \in Coefficients : f[k][g] = IF g = idx[k] THEN value[g] ELSE 0
  <2>1. PICK u : u = idx[k]
    OBVIOUS
  <2>2. u \in G /\ u = first + x[k].index /\ x[k].is_neg = IsNegative(e, u)
    BY <1>1, <1>3, <2>1 DEF SliceOf
  <2>3. PICK gen : gen = Generator(u)
    OBVIOUS
  <2>4. gen \in Elements /\ \A h \in Coefficients : gen[h] = IF h = u THEN 1 ELSE 0
    BY <1>4, <2>2, <2>3, GeneratorIs
  <2>5. Minus(gen) \in Elements /\ \A h \in Coefficients : Minus(gen)[h] = -gen[h]
    BY <2>4, MinusIs
  <2>6. f[k] = IF IsNegative(e, u) THEN Minus(gen) ELSE gen
    BY <2>2, <2>3
  <2>7. value[u] = IF IsNegative(e, u) THEN -1 ELSE 1
    BY <1>4, <2>2 DEF SignOf
  <2> HIDE DEF f, value
  <2>8. f[k] \in Elements
    BY <2>4, <2>5, <2>6
  <2>9. \A g \in Coefficients : f[k][g] = IF g = u THEN value[g] ELSE 0
    <3> TAKE g \in Coefficients
    <3>1. CASE IsNegative(e, u)
      <4>1. f[k][g] = -gen[g] /\ value[u] = -1
        BY <2>5, <2>6, <2>7, <3>1
      <4>2. CASE g = u
        BY <2>4, <4>1, <4>2
      <4>3. CASE g # u
        BY <2>4, <4>1, <4>3
      <4> QED BY <4>2, <4>3
    <3>2. CASE ~IsNegative(e, u)
      BY <2>4, <2>6, <2>7, <3>2
    <3> QED BY <3>1, <3>2
  <2> QED BY <2>1, <2>8, <2>9
<1>7. DOMAIN f = T /\ f = [k \in T |-> f[k]]
  OBVIOUS
<1>8. value \in [Coefficients -> Int] /\ \A g \in Coefficients : value[g] = SignOf(e, g)
  BY DEF SignOf
<1> HIDE DEF f, value
<1>9. Spikes(f, T, idx, value)
  <2>1. f \in [T -> Elements]
    BY <1>6, <1>7
  <2> QED BY <1>6, <2>1 DEF Spikes
<1>10. /\ FoldFunction(Plus, Zero, f) \in Elements
       /\ \A g \in Coefficients :
            FoldFunction(Plus, Zero, f)[g] = IF \E k \in T : idx[k] = g THEN value[g] ELSE 0
  <2>1. \A j, k \in T : idx[j] = idx[k] => j = k
    BY <1>3 DEF SliceOf
  <2> QED BY <1>3, <1>9, <2>1, SpikesAdded
<1>11. \A g \in Coefficients : FoldFunction(Plus, Zero, f)[g] = BitTerm(e, G, bit)[g]
  <2> TAKE g \in Coefficients
  <2>1. (\E k \in T : idx[k] = g) <=> g \in G /\ HasBit(e, g, bit)
    BY <1>1, <1>3 DEF SliceOf
  <2> QED BY <1>8, <1>10, <2>1 DEF BitTerm
<1>12. FoldFunction(Plus, Zero, f) = BitTerm(e, G, bit)
  BY <1>10, <1>11, BitTermIs DEF Elements
<1> QED BY <1>1, <1>5, <1>12

(* What the decomposition and its products hold of a chunk: the bits that  *)
(* some exponent of it has, and for each of them the sum of the generators *)
(* whose exponents have it, those of negative exponents subtracted.        *)
THEOREM ChunkProductsHold ==
  ASSUME NEW e, NEW first, NEW n, ValidPart(e, first, n)
  PROVE  HoldsBits(ChunkBits(e, first, n), ChunkBitProducts(e, first, n), e, PartOf(first, n))
<1>1. PICK S, x : S = ChunkBits(e, first, n) /\ x = ChunkBitProducts(e, first, n)
  OBVIOUS
<1>2. NumBits(e) \in Nat
  <2>1. 0 \in 0 .. e.n - 1 /\ ValidExponents(e)
    BY DEF ValidPart, ValidExponents, ExponentSequences
  <2> QED BY <2>1, UnsignedIs
<1>3. /\ S = BitsOfAny(e, PartOf(first, n)) /\ IsFiniteSet(S) /\ S \subseteq 0 .. NumBits(e) - 1
      /\ S \subseteq Int
  BY <1>1, <1>2, ChunkBitsAre, ChunkBitsFinite
<1>4. x = [p \in 1 .. Cardinality(S) |->
             SliceSum(e, first, n, BitAtPlace(S, p), SliceStart(e, first, n, S, p))]
  BY <1>1 DEF SliceStart, ChunkBitProducts, SliceSum, BitAtPlace
<1>5. ASSUME NEW p \in 1 .. Cardinality(S), NEW bit \in S, IsBitAt(S, p, bit)
      PROVE  x[p] = BitTerm(e, PartOf(first, n), bit)
  <2>1. BitAtPlace(S, p) = bit
    BY <1>5 DEF IsBitAt
  <2>2. PICK low : low = SliceStart(e, first, n, S, p)
    OBVIOUS
  <2>3. low = Cardinality(Below(BitsHeld(e, first, n), HeldBit(e, first, n), bit))
    BY <1>1, <1>5, <2>2, SliceBegins
  <2>4. x[p] = SliceSum(e, first, n, bit, low)
    BY <1>4, <2>1, <2>2
  <2>5. bit \in 0 .. NumBits(e) - 1
    BY <1>3
  <2> QED BY <2>3, <2>4, <2>5, SliceSumIs
<1>6. /\ \A bit \in S : IsBitAt(S, BitPlace(S, bit), bit) /\ BitPlace(S, bit) \in 1 .. Cardinality(S)
      /\ \A p \in 1 .. Cardinality(S) : \E bit \in S : IsBitAt(S, p, bit)
  <2>1. Places1To(S)
    BY <1>3, BitPlacesAre
  <2>2. \A bit \in S : BitPlace(S, bit) \in 1 .. Cardinality(S)
    BY <2>1 DEF Places1To
  <2> QED BY <1>3, <2>2, BitAtIs
<1>7. x \in [1 .. Cardinality(S) -> Elements]
  <2>1. \A p \in 1 .. Cardinality(S) : x[p] \in Elements
    BY <1>5, <1>6, BitTermIs
  <2>2. x = [p \in 1 .. Cardinality(S) |-> x[p]]
    BY <1>4
  <2> QED BY <2>1, <2>2
<1>8. \A bit \in S : x[BitPlace(S, bit)] = BitTerm(e, PartOf(first, n), bit)
  BY <1>5, <1>6
<1> QED BY <1>1, <1>3, <1>7, <1>8 DEF HoldsBits

(* The terms of two parts that share no generator *)
LEMMA TermsAdd ==
  ASSUME NEW e, NEW F, NEW G, F \cap G = {}, NEW bit
  PROVE  /\ BitTerm(e, F \cup G, bit) = Plus(BitTerm(e, F, bit), BitTerm(e, G, bit))
         /\ (\A g \in F : ~HasBit(e, g, bit)) => BitTerm(e, F \cup G, bit) = BitTerm(e, G, bit)
         /\ (\A g \in G : ~HasBit(e, g, bit)) => BitTerm(e, F \cup G, bit) = BitTerm(e, F, bit)
<1>1. ASSUME NEW g \in Coefficients
      PROVE  BitTerm(e, F \cup G, bit)[g] = BitTerm(e, F, bit)[g] + BitTerm(e, G, bit)[g]
  BY DEF BitTerm, SignOf
<1>2. DOMAIN BitTerm(e, F, bit) = Coefficients
  BY DEF BitTerm
<1>3. Plus(BitTerm(e, F, bit), BitTerm(e, G, bit))
        = [g \in Coefficients |-> BitTerm(e, F, bit)[g] + BitTerm(e, G, bit)[g]]
  BY <1>2 DEF Plus
<1>4. BitTerm(e, F \cup G, bit) = [g \in Coefficients |-> BitTerm(e, F \cup G, bit)[g]]
  BY DEF BitTerm
<1>5. BitTerm(e, F \cup G, bit) = Plus(BitTerm(e, F, bit), BitTerm(e, G, bit))
  BY <1>1, <1>3, <1>4
<1>6. (\A g \in F : ~HasBit(e, g, bit)) => BitTerm(e, F \cup G, bit) = BitTerm(e, G, bit)
  BY DEF BitTerm
<1>7. (\A g \in G : ~HasBit(e, g, bit)) => BitTerm(e, F \cup G, bit) = BitTerm(e, F, bit)
  BY DEF BitTerm
<1> QED BY <1>5, <1>6, <1>7

(* fold_multiproducts: the products of both parts *)
LEMMA FoldHolds ==
  ASSUME NEW e, NumBits(e) \in Nat, NEW F, NEW G, F \cap G = {},
         NEW a, NEW x, HoldsBits(a, x, e, F), NEW b, NEW y, HoldsBits(b, y, e, G)
  PROVE  HoldsBits(a \cup b, FoldMultiproducts(a, x, b, y), e, F \cup G)
<1>1. PICK S, z : S = a \cup b /\ z = FoldMultiproducts(a, x, b, y)
  OBVIOUS
<1>2. a = BitsOfAny(e, F) /\ b = BitsOfAny(e, G)
  BY DEF HoldsBits
<1>3. S = BitsOfAny(e, F \cup G)
  BY <1>1, <1>2 DEF BitsOfAny
<1>4. IsFiniteSet(S) /\ S \subseteq 0 .. NumBits(e) - 1 /\ S \subseteq Int
  BY <1>3, ChunkBitsFinite
<1>5. Places1To(S)
  BY <1>4, BitPlacesAre
<1> DEFINE Folded(bit) ==
             IF bit \in a \intersect b
             THEN Plus(ProductOf(a, x, bit), ProductOf(b, y, bit))
             ELSE IF bit \in a THEN ProductOf(a, x, bit)
             ELSE ProductOf(b, y, bit)
<1>6. z = [p \in 1 .. Cardinality(S) |->
             Folded(CHOOSE bit \in S : BitPlace(S, bit) = p)]
  BY <1>1 DEF FoldMultiproducts, BitPlace
<1>7. ASSUME NEW bit \in S PROVE Folded(bit) = BitTerm(e, F \cup G, bit)
  <2>0. bit \in 0 .. NumBits(e) - 1
    BY <1>4
  <2>1. bit \in a => ProductOf(a, x, bit) = BitTerm(e, F, bit)
    BY DEF HoldsBits, ProductOf, BitPlace
  <2>2. bit \in b => ProductOf(b, y, bit) = BitTerm(e, G, bit)
    BY DEF HoldsBits, ProductOf, BitPlace
  <2>3. bit \in a \/ \A g \in F : ~HasBit(e, g, bit)
    BY <1>2, <2>0 DEF BitsOfAny
  <2>4. bit \in b \/ \A g \in G : ~HasBit(e, g, bit)
    BY <1>2, <2>0 DEF BitsOfAny
  <2>5. bit \in a \/ bit \in b
    BY <1>1
  <2> QED BY <2>1, <2>2, <2>3, <2>4, <2>5, TermsAdd
<1> HIDE DEF Folded
<1>8. ASSUME NEW bit \in S
      PROVE  BitPlace(S, bit) \in 1 .. Cardinality(S)
             /\ z[BitPlace(S, bit)] = BitTerm(e, F \cup G, bit)
  <2>1. PICK p : p = BitPlace(S, bit)
    OBVIOUS
  <2>2. p \in 1 .. Cardinality(S) /\ \A c \in S : BitPlace(S, c) = p => c = bit
    BY <1>5, <2>1 DEF Places1To
  <2>3. (CHOOSE c \in S : BitPlace(S, c) = p) = bit
    BY <2>1, <2>2
  <2>4. z[p] = Folded(bit)
    BY <1>6, <2>2, <2>3
  <2> QED BY <1>7, <2>1, <2>2, <2>4
<1>9. z \in [1 .. Cardinality(S) -> Elements]
  <2>1. ASSUME NEW p \in 1 .. Cardinality(S) PROVE z[p] \in Elements
    <3>1. PICK bit \in S : BitPlace(S, bit) = p
      BY <1>5 DEF Places1To
    <3> QED BY <1>8, <3>1, BitTermIs
  <2>2. z = [p \in 1 .. Cardinality(S) |-> z[p]]
    BY <1>6
  <2> QED BY <2>1, <2>2
<1> QED BY <1>1, <1>3, <1>8, <1>9 DEF HoldsBits

-----------------------------------------------------------------------------
(* combine_multiproducts *)

SignedFrom(y, h, m, n, sign) ==
  /\ \A k \in m .. n - 1 : h[k] = 0
  /\ sign \in {-1, 1} /\ \A k \in 0 .. m - 1 : y[k] = IF sign = 1 THEN h[k] ELSE -h[k]

(* The values up to the last one that is not 0, with a sign, add up to all *)
(* of them with the sign.                                                  *)
LEMMA SignedSum ==
  ASSUME NEW n \in Nat, NEW m \in 0 .. n, NEW h \in [0 .. n - 1 -> Int], NEW y \in [0 .. m - 1 -> Int],
         NEW sign, SignedFrom(y, h, m, n, sign)
  PROVE  SumFunction(y) = IF sign = 1 THEN SumFunction(h) ELSE -SumFunction(h)
<1>1. /\ Prefix(h, 0) = 0 /\ Prefix(h, n) = SumFunction(h)
      /\ \A k \in 0 .. n : Prefix(h, k) \in Int
      /\ \A k \in 0 .. n - 1 : Prefix(h, k + 1) = Prefix(h, k) + h[k]
  BY PrefixIs
<1>2. /\ Prefix(y, 0) = 0 /\ Prefix(y, m) = SumFunction(y)
      /\ \A k \in 0 .. m : Prefix(y, k) \in Int
      /\ \A k \in 0 .. m - 1 : Prefix(y, k + 1) = Prefix(y, k) + y[k]
  <2>1. m \in Nat
    OBVIOUS
  <2> QED BY <2>1, PrefixIs
<1>3. sign \in {-1, 1} /\ \A k \in 0 .. m - 1 : y[k] = IF sign = 1 THEN h[k] ELSE -h[k]
  BY DEF SignedFrom
<1> DEFINE G == {k \in 0 .. m : Prefix(y, k) = IF sign = 1 THEN Prefix(h, k) ELSE -Prefix(h, k)}
<1>4. 0 \in G
  BY <1>1, <1>2
<1>5. ASSUME NEW k \in 1 .. m, k - 1 \in G PROVE k \in G
  <2>1. PICK j : j = k - 1
    OBVIOUS
  <2>2. j \in 0 .. m - 1 /\ j + 1 = k /\ j \in 0 .. n - 1 /\ j \in 0 .. n
    BY <2>1
  <2>3. Prefix(y, j) = IF sign = 1 THEN Prefix(h, j) ELSE -Prefix(h, j)
    BY <1>5, <2>1
  <2>4. Prefix(y, k) = Prefix(y, j) + y[j] /\ Prefix(h, k) = Prefix(h, j) + h[j]
    BY <1>1, <1>2, <2>2
  <2>5. Prefix(h, j) \in Int /\ h[j] \in Int
    BY <1>1, <2>2
  <2>6. y[j] = IF sign = 1 THEN h[j] ELSE -h[j]
    BY <1>3, <2>2
  <2> QED BY <2>3, <2>4, <2>5, <2>6
<1>6. m \in G
  <2>1. m \in Nat /\ m \in 0 .. m
    OBVIOUS
  <2> HIDE DEF G
  <2> QED BY <1>4, <1>5, <2>1, BoundedInduction
<1> DEFINE F == {k \in 0 .. n - m : Prefix(h, m + k) = Prefix(h, m)}
<1>7. 0 \in F
  OBVIOUS
<1>8. ASSUME NEW k \in 1 .. n - m, k - 1 \in F PROVE k \in F
  <2>1. PICK j : j = m + (k - 1)
    OBVIOUS
  <2>2. j \in m .. n - 1 /\ j \in 0 .. n - 1 /\ j + 1 = m + k /\ m \in 0 .. n
    BY <2>1
  <2>3. h[j] = 0
    BY <2>2 DEF SignedFrom
  <2>4. Prefix(h, m + k) = Prefix(h, j) + h[j]
    BY <1>1, <2>2
  <2>5. Prefix(h, j) = Prefix(h, m) /\ Prefix(h, m) \in Int
    BY <1>1, <1>8, <2>1, <2>2
  <2> QED BY <2>3, <2>4, <2>5
<1>9. n - m \in F
  <2>1. n - m \in Nat /\ n - m \in 0 .. n - m
    OBVIOUS
  <2> HIDE DEF F
  <2> QED BY <1>7, <1>8, <2>1, BoundedInduction
<1>10. Prefix(h, m) = SumFunction(h)
  <2>1. m + (n - m) = n
    OBVIOUS
  <2> QED BY <1>1, <1>9, <2>1
<1> QED BY <1>2, <1>6, <1>10

(* The terms of bit 0, 1, ... of a generator, below the bit m from which   *)
(* on nobody has one, are worth its exponent.                              *)
TermsAt(e, g, m) == [i \in 0 .. m - 1 |-> BitTerm(e, 0 .. e.n - 1, i)[g]]

(* An exponent is the sum of its bits, its sign included. *)
LEMMA BitsOfExponent ==
  ASSUME NEW e, ValidExponents(e), NEW g \in Coefficients, NEW m \in 0 .. NumBits(e),
         \A i \in 0 .. e.n - 1, bit \in m .. NumBits(e) - 1 : ~HasBit(e, i, bit)
  PROVE  /\ TermsAt(e, g, m) \in [0 .. m - 1 -> Int]
         /\ SumFunction(Places(TermsAt(e, g, m), PlacePowers(1, m), m)) = ExponentSum(e)[g]
<1>1. e.n \in 0 .. NumGens /\ NumGens \in Nat /\ g \in Int /\ g >= -1
  BY GroupAssumption DEF ValidExponents, ExponentSequences, Coefficients, Junk
<1>2. PICK x, y : x = TermsAt(e, g, m) /\ y = Places(x, PlacePowers(1, m), m)
  OBVIOUS
<1>3. \A i \in 0 .. m - 1 :
        /\ x[i] = IF g \in 0 .. e.n - 1 /\ HasBit(e, g, i) THEN SignOf(e, g) ELSE 0
        /\ y[i] = x[i] * PowerOf2(i)
  <2> TAKE i \in 0 .. m - 1
  <2>1. i \in 0 .. m /\ 1 * i = i
    BY <1>1
  <2>2. x[i] = IF g \in 0 .. e.n - 1 /\ HasBit(e, g, i) THEN SignOf(e, g) ELSE 0
    BY <1>2 DEF TermsAt, BitTerm
  <2> QED BY <1>2, <2>1, <2>2 DEF Places, PlacePowers
<1>4. x \in [0 .. m - 1 -> Int]
  <2>1. \A i \in 0 .. m - 1 : x[i] \in Int
    BY <1>3 DEF SignOf
  <2> QED BY <1>2, <2>1 DEF TermsAt
<1>5. ExponentSum(e)[g] = IF g = Junk THEN 0 ELSE IF g >= e.n THEN 0
                          ELSE IF IsNegative(e, g) THEN - AbsToUnsigned(e, g) ELSE AbsToUnsigned(e, g)
  <2>1. g \in DOMAIN Zero
    BY DEF Zero, Coefficients
  <2> QED BY <2>1 DEF ExponentSum, Weighted
<1>6. y = [i \in 0 .. m - 1 |-> y[i]]
  BY <1>2 DEF Places
<1>7. CASE g \in 0 .. e.n - 1
  <2>1. PICK N, a, h, sign : /\ N = NumBits(e) /\ a = AbsToUnsigned(e, g)
                             /\ h = Places(BitsOf(a, N), PlacePowers(1, N), N)
                             /\ sign = SignOf(e, g)
    OBVIOUS
  <2>2. N \in Nat /\ a \in 0 .. PowerOf2(N) - 1 /\ PowerOf2(N) \in Nat /\ m \in 0 .. N
    BY <1>7, <2>1, UnsignedIs, AbsIs, PowerStep
  <2>3. BitsOf(a, N) \in [0 .. N - 1 -> {0, 1}] /\ SumFunction(h) = a
    BY <2>1, <2>2, BitsAddUp
  <2>4. \A i \in 0 .. N - 1 : h[i] = IF HasBit(e, g, i) THEN PowerOf2(i) ELSE 0
    <3> TAKE i \in 0 .. N - 1
    <3>1. i \in 0 .. N /\ 1 * i = i /\ PowerOf2(i) \in Nat
      BY <2>2, PowerStep
    <3>2. PICK b : b = BitsOf(a, N)[i]
      OBVIOUS
    <3>3. b \in {0, 1} /\ b = (a \div PowerOf2(i)) % 2
      BY <2>3, <3>2 DEF BitsOf, Bit
    <3>4. HasBit(e, g, i) <=> b = 1
      BY <2>1, <3>3 DEF HasBit
    <3>5. h[i] = b * PowerOf2(i)
      BY <2>1, <3>1, <3>2 DEF Places, PlacePowers
    <3> QED BY <3>1, <3>3, <3>4, <3>5
  <2>5. h \in [0 .. N - 1 -> Int]
    <3>1. h = [i \in 0 .. N - 1 |-> h[i]]
      BY <2>1 DEF Places
    <3>2. \A i \in 0 .. N - 1 : h[i] \in Int
      BY <2>4, PowerStep
    <3> QED BY <3>1, <3>2
  <2>6. \A i \in 0 .. m - 1 : y[i] = IF sign = 1 THEN h[i] ELSE -h[i]
    <3> TAKE i \in 0 .. m - 1
    <3>1. i \in 0 .. N - 1 /\ PowerOf2(i) \in Nat
      BY <2>2, PowerStep
    <3>2. h[i] = IF HasBit(e, g, i) THEN PowerOf2(i) ELSE 0
      BY <2>4, <3>1
    <3>3. y[i] = x[i] * PowerOf2(i) /\ x[i] = IF HasBit(e, g, i) THEN sign ELSE 0
      BY <1>3, <1>7, <2>1
    <3>4. sign \in {-1, 1}
      BY <2>1 DEF SignOf
    <3> QED BY <3>1, <3>2, <3>3, <3>4
  <2>7. \A i \in m .. N - 1 : h[i] = 0
    <3> TAKE i \in m .. N - 1
    <3>1. i \in 0 .. N - 1 /\ ~HasBit(e, g, i)
      BY <1>7, <2>1, <2>2
    <3> QED BY <2>4, <3>1
  <2>8. SignedFrom(y, h, m, N, sign)
    BY <2>1, <2>6, <2>7 DEF SignedFrom, SignOf
  <2>9. y \in [0 .. m - 1 -> Int]
    <3>1. \A i \in 0 .. m - 1 : y[i] \in Int
      <4> TAKE i \in 0 .. m - 1
      <4>1. i \in 0 .. N - 1
        BY <2>2
      <4>2. h[i] \in Int
        BY <2>5, <4>1
      <4> QED BY <2>6, <4>2
    <3> QED BY <1>6, <3>1
  <2>10. SumFunction(y) = IF sign = 1 THEN a ELSE -a
    <3>1. SumFunction(y) = IF sign = 1 THEN SumFunction(h) ELSE - SumFunction(h)
      <4>1. N \in Nat /\ m \in 0 .. N
        BY <2>2
      <4> QED BY <2>5, <2>8, <2>9, <4>1, SignedSum
    <3> QED BY <2>3, <3>1
  <2>11. g # Junk /\ ~(g >= e.n)
    BY <1>1, <1>7 DEF Junk
  <2> QED BY <1>2, <1>4, <1>5, <2>1, <2>10, <2>11 DEF SignOf
<1>8. CASE g \notin 0 .. e.n - 1
  <2>1. \A i \in 0 .. m - 1 : y[i] = 0
    <3> TAKE i \in 0 .. m - 1
    <3>1. x[i] = 0 /\ PowerOf2(i) \in Nat /\ y[i] = x[i] * PowerOf2(i)
      BY <1>3, <1>8, PowerStep
    <3> QED BY <3>1
  <2>2. y \in [0 .. m - 1 -> Int]
    BY <1>6, <2>1
  <2>3. IsFiniteSet(0 .. m - 1)
    BY <1>1, FS_Interval
  <2>4. SumFunction(y) = 0
    BY <2>1, <2>2, <2>3, SumOfZeros
  <2>5. ExponentSum(e)[g] = 0
    <3>1. g = Junk \/ g >= e.n
      BY <1>1, <1>8 DEF Junk
    <3> QED BY <1>5, <3>1
  <2> QED BY <1>2, <1>4, <2>4, <2>5
<1> QED BY <1>7, <1>8

(* Doubling and adding the products of all generators' bits, with whatever *)
(* bits do not occur left out, gives the output's result.                  *)
THEOREM CombineHolds ==
  ASSUME NEW e, ValidExponents(e), NumBits(e) \in Nat, NEW S, NEW products,
         HoldsBits(S, products, e, 0 .. e.n - 1)
  PROVE  CombineMultiproducts(S, products) = ExponentSum(e)
<1>1. PICK G : G = 0 .. e.n - 1
  OBVIOUS
<1>2. /\ S = BitsOfAny(e, G) /\ products \in [1 .. Cardinality(S) -> Elements]
      /\ \A bit \in S : products[BitPlace(S, bit)] = BitTerm(e, G, bit)
  BY <1>1 DEF HoldsBits
<1>3. IsFiniteSet(S) /\ S \subseteq 0 .. NumBits(e) - 1 /\ S \subseteq Int /\ Cardinality(S) \in Nat
  BY <1>2, ChunkBitsFinite
<1>4. \A bit \in 0 .. NumBits(e) - 1 : bit \notin S => \A i \in G : ~HasBit(e, i, bit)
  BY <1>2 DEF BitsOfAny
<1>5. CASE S = {}
  <2>1. CombineMultiproducts(S, products) = Zero
    BY <1>5 DEF CombineMultiproducts
  <2>2. ASSUME NEW g \in Coefficients PROVE ExponentSum(e)[g] = 0
    <3>1. 0 \in 0 .. NumBits(e)
      OBVIOUS
    <3>2. \A i \in 0 .. e.n - 1, bit \in 0 .. NumBits(e) - 1 : ~HasBit(e, i, bit)
      BY <1>1, <1>4, <1>5
    <3>3. PICK y : y = Places(TermsAt(e, g, 0), PlacePowers(1, 0), 0)
      OBVIOUS
    <3>4. SumFunction(y) = ExponentSum(e)[g]
      BY <3>1, <3>2, <3>3, BitsOfExponent
    <3>5. 0 .. 0 - 1 = {} /\ IsFiniteSet({})
      BY FS_EmptySet
    <3>6. y = [k \in {} |-> y[k]]
      BY <3>3, <3>5 DEF Places
    <3>7. y \in [{} -> Int] /\ \A k \in {} : y[k] = 0
      BY <3>6
    <3>8. SumFunction(y) = 0
      BY <3>5, <3>7, SumOfZeros
    <3> QED BY <3>4, <3>8
  <2> QED BY <2>1, <2>2, ElementsAre, SameElement
<1>6. CASE S # {}
  <2>1. \E u \in S : \A y \in S : u >= y
    <3>1. S \in SUBSET (0 .. NumBits(e))
      BY <1>3
    <3>2. PICK u \in S : \A y \in S : y <= u
      BY <1>6, <3>1, GreatestExists
    <3> QED BY <1>3, <3>2
  <2>2. PICK top : top = Max(S)
    OBVIOUS
  <2>3. top \in S /\ \A y \in S : top >= y
    BY <2>1, <2>2 DEF Max
  <2>4. PICK m : m = top + 1
    OBVIOUS
  <2>5. /\ m \in Nat \ {0} /\ m \in 0 .. NumBits(e) /\ top = m - 1 /\ top \in 0 .. NumBits(e) - 1
        /\ \A i \in 0 .. m - 1 : i \in 0 .. NumBits(e) - 1
    BY <1>3, <2>3, <2>4
  <2>6. products[Len(products)] = BitTerm(e, G, top)
    <3>1. {b \in S : b <= top} = S
      BY <1>3, <2>3
    <3>2. BitPlace(S, top) = Cardinality(S)
      BY <3>1 DEF BitPlace
    <3>3. products \in Seq(Elements) /\ Len(products) = Cardinality(S)
      BY <1>2, <1>3
    <3> QED BY <1>2, <2>3, <3>2, <3>3
  <2>7. \A bit \in S : ProductOf(S, products, bit) = BitTerm(e, G, bit)
    BY <1>2 DEF ProductOf, BitPlace
  <2> DEFINE step == [i \in 0 .. m - 2 |-> [v \in Elements |->
                        IF i \in S THEN Plus(Twice(v), BitTerm(e, G, i)) ELSE Twice(v)]]
             Body(t, bit) == IF bit = top THEN products[Len(products)]
                             ELSE IF bit \in S
                             THEN Plus(Twice(t[bit + 1]), ProductOf(S, products, bit))
                             ELSE Twice(t[bit + 1])
             from == CHOOSE t : t = [bit \in 0 .. top |-> Body(t, bit)]
             base == BitTerm(e, G, top)
  <2>8. CombineMultiproducts(S, products) = from[0]
    BY <1>6, <2>2 DEF CombineMultiproducts
  <2>9. /\ step \in [0 .. m - 2 -> [Elements -> Elements]]
        /\ \A i \in 0 .. m - 2, v \in Elements :
             step[i][v] = IF i \in S THEN Plus(Twice(v), BitTerm(e, G, i)) ELSE Twice(v)
    BY ElementsAre, BitTermIs
  <2> HIDE DEF step
  <2>10. base \in Elements
    BY BitTermIs
  <2>11. \A i \in 0 .. m - 2 : i \in 0 .. m - 1 /\ i + 1 \in 0 .. m - 1 /\ i # top
    BY <2>5
  <2>12. PICK known \in [0 .. m - 1 -> Elements] : IsDown(known, m, base, step)
    BY <2>5, <2>9, <2>10, DownExists
  <2>13. known = [bit \in 0 .. top |-> Body(known, bit)]
    <3>1. \A i \in 0 .. m - 1 : known[i] = Body(known, i)
      <4> TAKE i \in 0 .. m - 1
      <4>1. CASE i = top
        BY <2>5, <2>6, <2>12, <4>1 DEF IsDown
      <4>2. CASE i # top
        <5>1. i \in 0 .. m - 2 /\ known[i + 1] \in Elements
          BY <2>5, <2>11, <4>2
        <5>2. known[i] = step[i][known[i + 1]]
          BY <2>12, <5>1 DEF IsDown
        <5> QED BY <2>7, <2>9, <4>2, <5>1, <5>2
      <4> QED BY <4>1, <4>2
    <3> HIDE DEF Body
    <3> QED BY <2>5, <3>1
  <2>14. from = [bit \in 0 .. top |-> Body(from, bit)]
    BY <2>13
  <2> HIDE DEF from
  <2>15. \A i \in 0 .. m - 1 : from[i] = Body(from, i)
    <3> HIDE DEF Body
    <3> QED BY <2>5, <2>14
  <2>16. Descends(from, m, Elements, base, step)
    <3>1. from = [i \in 0 .. m - 1 |-> from[i]]
      <4> HIDE DEF Body
      <4> QED BY <2>5, <2>14
    <3>2. from[m - 1] = base
      BY <2>5, <2>6, <2>15
    <3>3. \A i \in 0 .. m - 2 : from[i + 1] \in Elements => from[i] = step[i][from[i + 1]]
      <4> TAKE i \in 0 .. m - 2
      <4>1. from[i] = Body(from, i) /\ i # top
        BY <2>11, <2>15
      <4> QED BY <2>7, <2>9, <4>1
    <3> HIDE DEF base
    <3> QED BY <3>1, <3>2, <3>3 DEF Descends
  <2>17. /\ from \in [0 .. m - 1 -> Elements] /\ from[m - 1] = base
         /\ \A i \in 0 .. m - 2 :
              from[i] = IF i \in S THEN Plus(Twice(from[i + 1]), BitTerm(e, G, i)) ELSE Twice(from[i + 1])
    <3>1. from \in [0 .. m - 1 -> Elements] /\ IsDown(from, m, base, step)
      BY <2>5, <2>9, <2>10, <2>16, DownIs
    <3> QED BY <2>9, <2>11, <3>1 DEF IsDown
  <2> HIDE DEF base, Body
  <2>18. ASSUME NEW g \in Coefficients PROVE from[0][g] = ExponentSum(e)[g]
    <3>1. PICK x, p : x = TermsAt(e, g, m) /\ p = PlacePowers(1, m)
      OBVIOUS
    <3>2. \A i \in 0 .. e.n - 1, bit \in m .. NumBits(e) - 1 : ~HasBit(e, i, bit)
      <4> TAKE i \in 0 .. e.n - 1, bit \in m .. NumBits(e) - 1
      <4>1. bit \in 0 .. NumBits(e) - 1 /\ ~(top >= bit)
        BY <2>5
      <4> QED BY <1>1, <1>4, <2>3, <4>1
    <3>3. x \in [0 .. m - 1 -> Int] /\ SumFunction(Places(x, p, m)) = ExponentSum(e)[g]
      BY <2>5, <3>1, <3>2, BitsOfExponent
    <3>4. p \in [0 .. m -> Int] /\ ArePowers(p, 2, m)
      <4>1. PowerOf2(1) = 2
        <5>1. PowerOf2(0) = 1 /\ PowerOf2(0 + 1) = 2 * PowerOf2(0)
          BY PowerStep
        <5> QED BY <5>1
      <4>2. 1 \in Nat /\ m \in Nat
        BY <2>5
      <4> QED BY <3>1, <4>1, <4>2, PlacePowersAre
    <3>5. \A i \in 0 .. m - 1 : x[i] = BitTerm(e, G, i)[g]
      BY <1>1, <3>1 DEF TermsAt
    <3> DEFINE t == [i \in 0 .. m - 1 |-> from[i][g]]
    <3>6. t \in [0 .. m - 1 -> Int] /\ \A i \in 0 .. m - 1 : t[i] = from[i][g]
      BY <2>17 DEF Elements
    <3>7. t[m - 1] = x[m - 1]
      <4>1. m - 1 \in 0 .. m - 1
        BY <2>5
      <4> QED BY <2>5, <2>17, <3>5, <3>6, <4>1 DEF base
    <3>8. \A i \in 0 .. m - 2 : t[i] = 2 * t[i + 1] + x[i]
      <4> TAKE i \in 0 .. m - 2
      <4>1. i \in 0 .. m - 1 /\ i + 1 \in 0 .. m - 1 /\ from[i + 1] \in Elements
        BY <2>11, <2>17
      <4>2. Twice(from[i + 1]) \in Elements /\ Twice(from[i + 1])[g] = 2 * t[i + 1] /\ t[i + 1] \in Int
        BY <3>6, <4>1, ElementsAre
      <4>3. BitTerm(e, G, i) \in Elements /\ BitTerm(e, G, i)[g] = x[i]
        BY <3>5, <4>1, BitTermIs
      <4>4. CASE i \in S
        BY <2>17, <3>6, <4>1, <4>2, <4>3, <4>4, ElementsAre
      <4>5. CASE i \notin S
        <5>1. x[i] = 0
          BY <1>4, <2>5, <3>5, <4>1, <4>5 DEF BitTerm
        <5>2. t[i] = 2 * t[i + 1]
          BY <2>17, <3>6, <4>1, <4>2, <4>5
        <5> HIDE DEF t
        <5> QED BY <4>2, <5>1, <5>2
      <4> QED BY <4>4, <4>5
    <3> HIDE DEF t
    <3>9. FromLastDown(t, x, 2, m)
      BY <3>7, <3>8 DEF FromLastDown
    <3>10. t[0] = SumFunction(Places(x, p, m))
      <4>1. m \in Nat \ {0} /\ 2 \in Int
        BY <2>5
      <4>2. x \in [0 .. m - 1 -> Int]
        BY <3>3
      <4>3. p \in [0 .. m -> Int] /\ ArePowers(p, 2, m)
        BY <3>4
      <4>4. t \in [0 .. m - 1 -> Int]
        BY <3>6
      <4> QED BY <3>9, <4>1, <4>2, <4>3, <4>4, PlacesAdded
    <3>11. 0 \in 0 .. m - 1
      BY <2>5
    <3> QED BY <3>3, <3>6, <3>10, <3>11
  <2>19. from[0] \in Elements
    <3>1. 0 \in 0 .. m - 1
      BY <2>5
    <3> QED BY <2>17, <3>1
  <2> QED BY <2>8, <2>18, <2>19, SameElement
<1> QED BY <1>5, <1>6

-----------------------------------------------------------------------------
(* The calls, and the chunks of their loops *)

OutputsAt(exponents, first) == first + 1 .. AtMost(Len(exponents), first + MaxOutputChunk)

ChunksOf(exponents, method, first) ==
  CASE method = "sorted"  -> SortedChunks(Len(exponents))
    [] method = "buckets" -> GeneratorChunks(exponents[1].n, Cardinality(OutputsAt(exponents, first)))
    [] OTHER -> GeneratorChunks(NumGens, Len(exponents))

(* What the outputs of a call are like, for the method it is done by *)
LEMMA CallsAre ==
  ASSUME NEW exponents \in AsyncCalls
  PROVE  /\ Len(exponents) \in Nat /\ DOMAIN exponents = 1 .. Len(exponents)
         /\ \A o \in 1 .. Len(exponents) :
              ValidExponents(exponents[o]) /\ NumBits(exponents[o]) \in Nat
              /\ exponents[o].n \in 0 .. NumGens
         /\ Method(exponents) \in {"sorted", "buckets", "bits"}
         /\ Method(exponents) # "bits" =>
              /\ Len(exponents) # 0
              /\ \A o \in 1 .. Len(exponents) :
                   InBucketMethod(exponents[o]) /\ exponents[o].n = exponents[1].n
         /\ Method(exponents) = "buckets" => exponents[1].n # 0
<1>1. /\ exponents \in Seq(ExponentSequences)
      /\ \A o \in 1 .. Len(exponents) :
           /\ Len(exponents[o].data) = exponents[o].n * exponents[o].element_nbytes
           /\ exponents[o].is_signed => exponents[o].element_nbytes < ElementBytes
  BY AsyncAssumption
<1>2. Len(exponents) \in Nat /\ DOMAIN exponents = 1 .. Len(exponents)
  BY <1>1
<1>3. \A o \in 1 .. Len(exponents) : exponents[o] \in ExponentSequences
  BY <1>1
<1>4. ASSUME NEW o \in 1 .. Len(exponents)
      PROVE  ValidExponents(exponents[o]) /\ NumBits(exponents[o]) \in Nat
             /\ exponents[o].n \in 0 .. NumGens
  <2>1. PICK e : e = exponents[o]
    OBVIOUS
  <2>2. e \in ExponentSequences /\ ValidExponents(e)
    BY <1>1, <1>3, <2>1 DEF ValidExponents
  <2>3. e.n \in 0 .. NumGens /\ e.element_nbytes \in Nat
    BY <2>2 DEF ExponentSequences
  <2>4. ByteBits \in Nat
    BY GroupAssumption
  <2>5. NumBits(e) \in Nat
    BY <2>3, <2>4 DEF NumBits
  <2> QED BY <2>1, <2>2, <2>3, <2>5
<1>5. Method(exponents) \in {"sorted", "buckets", "bits"}
  BY DEF Method
<1>6. ASSUME BucketsApply(exponents)
      PROVE  /\ Len(exponents) # 0
             /\ \A o \in 1 .. Len(exponents) :
                  InBucketMethod(exponents[o]) /\ exponents[o].n = exponents[1].n
  <2>1. (\A o \in 1 .. Len(exponents) : exponents[o].element_nbytes = ElementBytes)
        /\ Cardinality(Lengths(exponents)) = 1
    BY <1>2, <1>6 DEF BucketsApply
  <2>2. Len(exponents) # 0
    <3>1. ASSUME Len(exponents) = 0 PROVE FALSE
      <4>1. Lengths(exponents) = {}
        BY <1>2, <3>1 DEF Lengths
      <4> QED BY <2>1, <4>1, FS_EmptySet
    <3> QED BY <3>1
  <2>3. ASSUME NEW o \in 1 .. Len(exponents)
        PROVE  InBucketMethod(exponents[o]) /\ exponents[o].n = exponents[1].n
    <3>1. PICK e : e = exponents[o]
      OBVIOUS
    <3>2. ValidExponents(e) /\ e.element_nbytes = ElementBytes
      BY <1>4, <2>1, <3>1
    <3>3. e.is_signed => ElementBytes < ElementBytes
      BY <1>1, <3>1, <3>2
    <3>4. ElementBytes \in Nat
      BY BucketAssumption
    <3>5. ~e.is_signed
      BY <3>3, <3>4
    <3>6. exponents[o].n = exponents[1].n
      <4>1. 1 \in 1 .. Len(exponents)
        BY <1>2, <2>2
      <4>2. exponents[o].n \in Lengths(exponents) /\ exponents[1].n \in Lengths(exponents)
        BY <1>2, <4>1 DEF Lengths
      <4>3. PICK x : Lengths(exponents) = {x}
        <5>1. IsFiniteSet(Lengths(exponents))
          <6>1. Lengths(exponents) \subseteq 0 .. NumGens
            BY <1>2, <1>4 DEF Lengths
          <6>2. IsFiniteSet(0 .. NumGens)
            BY GroupAssumption, FS_Interval
          <6> QED BY <6>1, <6>2, FS_Subset
        <5> QED BY <2>1, <5>1, FS_Singleton
      <4> QED BY <4>2, <4>3
    <3> QED BY <3>1, <3>2, <3>5, <3>6 DEF InBucketMethod
  <2> QED BY <2>2, <2>3
<1>7. Method(exponents) # "bits" => BucketsApply(exponents)
  BY DEF Method, SortedApplies
<1>8. Method(exponents) = "buckets" => exponents[1].n # 0
  <2>1. ASSUME Method(exponents) = "buckets" PROVE exponents[1].n # 0
    <3>1. BucketsApply(exponents) /\ \A n \in Lengths(exponents) : n >= MinBucketLength
      BY <2>1 DEF Method
    <3>2. 1 \in 1 .. Len(exponents)
      BY <1>2, <1>6, <3>1
    <3>3. exponents[1].n \in Lengths(exponents)
      BY <1>2, <3>2 DEF Lengths
    <3>4. MinBucketLength \in Nat \ {0} /\ exponents[1].n \in 0 .. NumGens
      BY <1>4, <3>2, AsyncAssumption
    <3>5. exponents[1].n >= MinBucketLength
      BY <3>1, <3>3
    <3> QED BY <3>4, <3>5
  <2> QED BY <2>1
<1> QED BY <1>2, <1>4, <1>5, <1>6, <1>7, <1>8

(* The chunks of generators, for any number of outputs *)
LEMMA GeneratorChunksPartition ==
  ASSUME NEW n \in Nat, NEW num \in Nat
  PROVE  \E m \in Nat : Partitions(GeneratorChunks(n, num), m, n, 1)
<1>1. MaxChunk \in Nat \ {0} /\ MinChunk \in Nat /\ NumDevices \in Nat \ {0}
  BY AsyncAssumption
<1>2. PICK most, least : /\ most = IF num = 0 THEN MaxChunk ELSE DivideUp(MaxChunk, num)
                         /\ least = IF num = 0 THEN MinChunk ELSE AtMost(most, MinChunk * num)
  OBVIOUS
<1>3. most \in Nat \ {0}
  <2>1. CASE num = 0
    BY <1>1, <1>2, <2>1
  <2>2. CASE num # 0
    <3>1. most \in Nat /\ MaxChunk <= most * num
      BY <1>1, <1>2, <2>2, DivideUpBounds
    <3>2. ASSUME most = 0 PROVE FALSE
      BY <1>1, <3>1, <3>2
    <3> QED BY <3>1, <3>2
  <2> QED BY <2>1, <2>2
<1>4. least \in Nat
  <2>1. MinChunk * num \in Nat
    BY <1>1
  <2> QED BY <1>1, <1>2, <1>3, <2>1 DEF AtMost
<1>5. PICK options : options = [min_chunk_size |-> least, max_chunk_size |-> most,
                                split_factor |-> NumDevices]
  OBVIOUS
<1>6. options \in SplitOptions
  BY <1>1, <1>3, <1>4, <1>5 DEF SplitOptions
<1>7. GeneratorChunks(n, num) = Split(0, n, 1, options)
  BY <1>2, <1>5 DEF GeneratorChunks
<1> QED BY <1>6, <1>7, SplitPartitions

(* The range of indexes that the chunks of a call divide *)
RangeOf(exponents, method) ==
  IF method = "sorted" THEN Len(exponents) ELSE IF method = "buckets" THEN exponents[1].n ELSE NumGens

(* The chunks of every loop divide its range. *)
LEMMA ChunksDivide ==
  ASSUME NEW exponents \in AsyncCalls, NEW first \in Nat
  PROVE  \E m \in Nat : Partitions(ChunksOf(exponents, Method(exponents), first), m,
                                   RangeOf(exponents, Method(exponents)), 1)
<1>1. PICK num : num = Len(exponents)
  OBVIOUS
<1>2. num \in Nat /\ (Method(exponents) # "bits" => num # 0 /\ exponents[1].n \in 0 .. NumGens)
      /\ Method(exponents) \in {"sorted", "buckets", "bits"}
  <2>1. num \in Nat /\ Method(exponents) \in {"sorted", "buckets", "bits"}
        /\ (Method(exponents) # "bits" => num # 0)
        /\ \A o \in 1 .. num : exponents[o].n \in 0 .. NumGens
    BY <1>1, CallsAre
  <2>2. num # 0 => 1 \in 1 .. num
    BY <2>1
  <2> QED BY <2>1, <2>2
<1>3. NumGens \in Nat
  BY GroupAssumption
<1>4. CASE Method(exponents) = "sorted"
  <2>1. PICK options : options = [min_chunk_size |-> 1, max_chunk_size |-> num, split_factor |-> NumDevices]
    OBVIOUS
  <2>2. options \in SplitOptions
    BY <1>2, <1>4, <2>1, AsyncAssumption DEF SplitOptions
  <2>3. ChunksOf(exponents, Method(exponents), first) = Split(0, num, 1, options)
    BY <1>1, <1>4, <2>1 DEF ChunksOf, SortedChunks
  <2>4. RangeOf(exponents, Method(exponents)) = num
    BY <1>1, <1>4 DEF RangeOf
  <2> QED BY <1>2, <2>2, <2>3, <2>4, SplitPartitions
<1>5. CASE Method(exponents) = "buckets"
  <2>1. PICK n, k : n = exponents[1].n /\ k = Cardinality(OutputsAt(exponents, first))
    OBVIOUS
  <2>2. n \in Nat
    BY <1>2, <1>3, <1>5, <2>1
  <2>3. k \in Nat
    <3>1. first + 1 \in Int /\ AtMost(num, first + MaxOutputChunk) \in Int
      BY <1>2, AsyncAssumption DEF AtMost
    <3>2. IsFiniteSet(OutputsAt(exponents, first))
      BY <1>1, <3>1, FS_Interval DEF OutputsAt
    <3> QED BY <2>1, <3>2, FS_CardinalityType
  <2>4. ChunksOf(exponents, Method(exponents), first) = GeneratorChunks(n, k)
    BY <1>5, <2>1 DEF ChunksOf
  <2>5. RangeOf(exponents, Method(exponents)) = n
    BY <1>5, <2>1 DEF RangeOf
  <2> QED BY <2>2, <2>3, <2>4, <2>5, GeneratorChunksPartition
<1>6. CASE Method(exponents) = "bits"
  <2>1. ChunksOf(exponents, Method(exponents), first) = GeneratorChunks(NumGens, num)
    BY <1>1, <1>6 DEF ChunksOf
  <2>2. RangeOf(exponents, Method(exponents)) = NumGens
    BY <1>6 DEF RangeOf
  <2> QED BY <1>2, <1>3, <2>1, <2>2, GeneratorChunksPartition
<1> QED BY <1>2, <1>4, <1>5, <1>6

-----------------------------------------------------------------------------
(* What has been computed while the chunks of a loop run *)

(* bucket_method2: the outputs of a chunk that is done are right. *)
SortedHeld(exponents, chunks, todo, got) ==
  /\ DOMAIN todo = DOMAIN chunks
  /\ \A c \in DOMAIN chunks :
       LET outs == chunks[c].a + 1 .. chunks[c].b IN
       todo[c] \in {NotLaunched, outs} \/ \A o \in outs : got[o] = ExponentSum(exponents[o])

(* bucket_method: the chunks were given places in their order, and those   *)
(* that are done have their sums there.                                    *)
BucketsHeld(exponents, chunks, outs, todo, count, given, held) ==
  /\ DOMAIN todo = DOMAIN chunks
  /\ count \in Nat /\ DOMAIN given = 0 .. count - 1 /\ \A c \in 0 .. count - 1 : given[c] = c
  /\ \A c \in DOMAIN chunks :
       /\ todo[c] = NotLaunched <=> c >= count
       /\ \/ todo[c] \in {NotLaunched, outs}
          \/ /\ todo[c] = {} /\ c \in DOMAIN held
             /\ held[c] = ChunkBuckets([o \in outs |-> exponents[o].data], chunks[c])

(* The generators whose bits an output has from the chunks that are done *)
DoneGenerators(n, chunks, todo, o) ==
  {g \in 0 .. n - 1 : \E c \in DOMAIN chunks :
     HasIndex(chunks, c, g) /\ todo[c] # NotLaunched /\ o \notin todo[c]}

(* Bit by bit: an output has the products of these generators. *)
ProductsHeld(exponents, chunks, todo, bits, products) ==
  /\ DOMAIN todo = DOMAIN chunks
  /\ DOMAIN bits = 1 .. Len(exponents) /\ DOMAIN products = 1 .. Len(exponents)
  /\ \A c \in DOMAIN chunks :
       todo[c] = NotLaunched
       \/ todo[c] \subseteq {o \in 1 .. Len(exponents) : chunks[c].a < exponents[o].n}
  /\ \A o \in 1 .. Len(exponents) :
       HoldsBits(bits[o], products[o], exponents[o],
                 DoneGenerators(exponents[o].n, chunks, todo, o))

(* An output chunk of bucket_method ends with the results of its outputs. *)
LEMMA OutputsReduced ==
  ASSUME NEW exponents \in AsyncCalls, Method(exponents) = "buckets",
         NEW first \in Nat, first < Len(exponents),
         NEW chunks, chunks = ChunksOf(exponents, Method(exponents), first),
         NEW todo, NEW count, NEW given, NEW held,
         BucketsHeld(exponents, chunks, OutputsAt(exponents, first), todo, count, given, held),
         \A c \in DOMAIN todo : todo[c] = {},
         NEW result, result = BucketResult(FoldBuckets(held, Cardinality(DOMAIN todo)))
  PROVE  /\ DOMAIN result = OutputsAt(exponents, first)
         /\ \A o \in OutputsAt(exponents, first) : result[o] = ExponentSum(exponents[o])
<1>1. PICK outs, n : outs = OutputsAt(exponents, first) /\ n = exponents[1].n
  OBVIOUS
<1>2. /\ Len(exponents) \in Nat \ {0} /\ n \in 0 .. NumGens /\ n # 0
      /\ \A o \in 1 .. Len(exponents) : InBucketMethod(exponents[o]) /\ exponents[o].n = n
  <2>1. Len(exponents) \in Nat /\ Len(exponents) # 0 /\ n # 0
        /\ (\A o \in 1 .. Len(exponents) : exponents[o].n \in 0 .. NumGens)
        /\ \A o \in 1 .. Len(exponents) : InBucketMethod(exponents[o]) /\ exponents[o].n = n
    BY <1>1, CallsAre
  <2>2. 1 \in 1 .. Len(exponents)
    BY <2>1
  <2> QED BY <1>1, <2>1, <2>2
<1>3. outs # {} /\ \A o \in outs : o \in 1 .. Len(exponents)
  <2>1. first + 1 \in outs
    BY <1>1, <1>2, AsyncAssumption DEF OutputsAt, AtMost
  <2>2. PICK l, last : l = Len(exponents) /\ last = AtMost(l, first + MaxOutputChunk)
    OBVIOUS
  <2>3. l \in Nat /\ last \in Int /\ last <= l
    BY <1>2, <2>2, AsyncAssumption DEF AtMost
  <2>4. \A o \in first + 1 .. last : o \in 1 .. l
    BY <2>3
  <2> QED BY <1>1, <2>1, <2>2, <2>4 DEF OutputsAt
<1>4. PICK m \in Nat : Partitions(chunks, m, n, 1)
  <2>1. RangeOf(exponents, Method(exponents)) = n
    BY <1>1 DEF RangeOf
  <2> QED BY <2>1, ChunksDivide
<1>5. DOMAIN chunks = 0 .. m - 1 /\ DOMAIN todo = 0 .. m - 1 /\ m # 0
  <2>1. DOMAIN chunks = 0 .. m - 1 /\ DOMAIN todo = DOMAIN chunks
    BY <1>4 DEF Partitions, BucketsHeld
  <2>2. 0 \in 0 .. n - 1
    BY <1>2
  <2>3. \E u \in 0 .. m - 1 : TRUE
    BY <1>4, <2>2 DEF Partitions
  <2> QED BY <2>1, <2>3
<1>6. Cardinality(DOMAIN todo) = m
  <2>1. 0 \in Int /\ m - 1 \in Int /\ m - 1 - 0 + 1 = m /\ ~(0 > m - 1)
    BY <1>5
  <2> QED BY <1>5, <2>1, FS_Interval
<1>7. BucketsPlaced(chunks, m, [c \in 0 .. m - 1 |-> c], held, exponents, outs)
  <2>1. ASSUME NEW c \in 0 .. m - 1
        PROVE  held[c] = ChunkBuckets([o \in outs |-> exponents[o].data], chunks[c])
    <3>1. todo[c] = {}
      BY <1>5
    <3>2. todo[c] \notin {NotLaunched, outs}
      BY <1>3, <3>1 DEF NotLaunched
    <3> QED BY <1>1, <1>5, <3>2 DEF BucketsHeld
  <2> QED BY <2>1 DEF BucketsPlaced
<1>8. ASSUME NEW o \in outs
      PROVE  /\ DOMAIN FoldBuckets(held, m) = outs
             /\ BucketResult(FoldBuckets(held, m))[o] = ExponentSum(exponents[o])
  <2>1. InBucketMethod(exponents[o]) /\ exponents[o].n = n
    BY <1>2, <1>3
  <2>2. /\ DOMAIN FoldBuckets(held, m) = outs
        /\ HoldsBuckets(FoldBuckets(held, m)[o], exponents[o])
    BY <1>2, <1>4, <1>5, <1>7, <2>1, FoldBucketsAre
  <2> QED BY <2>1, <2>2, BucketResultIs
<1>9. DOMAIN result = outs
  <2>1. PICK o \in outs : TRUE
    BY <1>3
  <2>2. DOMAIN FoldBuckets(held, m) = outs
    BY <1>8
  <2> QED BY <1>6, <2>2 DEF BucketResult
<1> QED BY <1>1, <1>6, <1>8, <1>9

(* A chunk that ends for an output adds its generators, and no others. *)
AddsPart(n, chunks, todo, todo2, c, o, size) ==
  /\ chunks[c].a \in Nat /\ size \in Nat \ {0} /\ chunks[c].a + size <= n
  /\ DoneGenerators(n, chunks, todo, o) \cap PartOf(chunks[c].a, size) = {}
  /\ DoneGenerators(n, chunks, todo2, o)
       = DoneGenerators(n, chunks, todo, o) \cup PartOf(chunks[c].a, size)

(* Folding in an output of a chunk adds the generators of that chunk, and   *)
(* no others.                                                               *)
LEMMA GeneratorsDone ==
  ASSUME NEW n \in 0 .. NumGens, NEW m, NEW chunks, Partitions(chunks, m, NumGens, 1),
         NEW todo, NEW c \in DOMAIN chunks, NEW o, o \in todo[c], todo[c] # NotLaunched,
         chunks[c].a < n, DOMAIN todo = DOMAIN chunks, 0 \notin todo[c],
         NEW size, size = AtMost(chunks[c].b - chunks[c].a, n - chunks[c].a),
         NEW todo2, todo2 = [todo EXCEPT ![c] = @ \ {o}]
  PROVE  AddsPart(n, chunks, todo, todo2, c, o, size)
<1>0. n \in Nat /\ NumGens \in Nat /\ n <= NumGens
  BY GroupAssumption
<1>1. PICK a, b : a = chunks[c].a /\ b = chunks[c].b
  OBVIOUS
<1>2. a \in Nat /\ b \in Nat /\ a < b /\ b <= NumGens /\ DOMAIN chunks = 0 .. m - 1
  BY <1>1 DEF Partitions
<1>3. size \in Nat \ {0} /\ a + size <= n
  BY <1>0, <1>1, <1>2 DEF AtMost
<1>4. \A g \in 0 .. n - 1 : HasIndex(chunks, c, g) <=> g \in PartOf(a, size)
  <2>1. size = IF n - a > b - a THEN b - a ELSE n - a
    BY <1>1 DEF AtMost
  <2>2. \A g \in 0 .. n - 1 : a <= g /\ g < b <=> g \in a .. a + size - 1
    BY <1>0, <1>2, <1>3, <2>1
  <2> QED BY <1>1, <2>2 DEF HasIndex, PartOf
<1>5. \A g \in PartOf(a, size) : g \in 0 .. n - 1
  BY <1>0, <1>2, <1>3 DEF PartOf
<1>6. ASSUME NEW g \in 0 .. n - 1, NEW d \in DOMAIN chunks, HasIndex(chunks, c, g), HasIndex(chunks, d, g)
      PROVE  d = c
  <2>1. g \in 0 .. NumGens - 1
    BY <1>0
  <2>2. PICK u \in 0 .. m - 1 : \A i \in 0 .. m - 1 : HasIndex(chunks, i, g) <=> i = u
    BY <2>1 DEF Partitions
  <2> QED BY <1>2, <1>6, <2>2
<1>7. /\ \A d \in DOMAIN chunks : d # c => todo2[d] = todo[d]
      /\ todo2[c] = todo[c] \ {o} /\ todo2[c] # NotLaunched
  <2>1. todo2[c] = todo[c] \ {o}
    OBVIOUS
  <2>2. 0 \notin todo2[c]
    BY <2>1
  <2> QED BY <2>1, <2>2 DEF NotLaunched
<1>8. DoneGenerators(n, chunks, todo, o) \cap PartOf(a, size) = {}
  BY <1>4, <1>6 DEF DoneGenerators
<1>9. DoneGenerators(n, chunks, todo2, o) = DoneGenerators(n, chunks, todo, o) \cup PartOf(a, size)
  <2>1. ASSUME NEW g \in DoneGenerators(n, chunks, todo2, o)
        PROVE  g \in DoneGenerators(n, chunks, todo, o) \cup PartOf(a, size)
    BY <1>4, <1>7 DEF DoneGenerators
  <2>2. ASSUME NEW g \in DoneGenerators(n, chunks, todo, o) PROVE g \in DoneGenerators(n, chunks, todo2, o)
    BY <1>7 DEF DoneGenerators
  <2>3. ASSUME NEW g \in PartOf(a, size) PROVE g \in DoneGenerators(n, chunks, todo2, o)
    BY <1>4, <1>5, <1>7 DEF DoneGenerators
  <2> QED BY <2>1, <2>2, <2>3
<1> QED BY <1>1, <1>2, <1>3, <1>8, <1>9 DEF AddsPart

(* A chunk without any bits adds nothing. *)
LEMMA NothingToFold ==
  ASSUME NEW e, NumBits(e) \in Nat, NEW F, NEW G, F \cap G = {},
         NEW a, NEW x, HoldsBits(a, x, e, F), BitsOfAny(e, G) = {}
  PROVE  HoldsBits(a, x, e, F \cup G)
<1>1. a = BitsOfAny(e, F)
  BY DEF HoldsBits
<1>2. \A bit \in 0 .. NumBits(e) - 1 : \A g \in G : ~HasBit(e, g, bit)
  BY DEF BitsOfAny
<1>3. BitsOfAny(e, F \cup G) = a
  BY <1>1, <1>2 DEF BitsOfAny
<1>4. ASSUME NEW bit \in a PROVE BitTerm(e, F \cup G, bit) = BitTerm(e, F, bit)
  <2>1. bit \in 0 .. NumBits(e) - 1
    BY <1>1 DEF BitsOfAny
  <2>2. \A g \in G : ~HasBit(e, g, bit)
    BY <1>2, <2>1
  <2> QED BY <2>2 DEF BitTerm
<1> QED BY <1>3, <1>4 DEF HoldsBits

-----------------------------------------------------------------------------
(* Each step keeps what is held *)

(* A chunk is launched with some outputs. *)
Started(todo, c, outs) == [todo EXCEPT ![c] = outs]

(* A chunk is done. *)
Stopped(todo, c) == [todo EXCEPT ![c] = {}]

ResultsAdded(exponents, todo, c, got) ==
  [o \in DOMAIN exponents |->
     IF o \in todo[c] THEN SortedResult(exponents[o].data, exponents[o].n) ELSE got[o]]

PlaceGiven(given, c, count) == [d \in DOMAIN given \cup {c} |-> IF d = c THEN count ELSE given[d]]

SumsCopied(exponents, chunks, todo, given, held, c) ==
  [p \in DOMAIN held \cup {given[c]} |->
     IF p = given[c] THEN ChunkBuckets([o \in todo[c] |-> exponents[o].data], chunks[c]) ELSE held[p]]

(* A sorted chunk is launched. *)
LEMMA SortedLaunched ==
  ASSUME NEW exponents, NEW chunks, NEW todo, NEW got, SortedHeld(exponents, chunks, todo, got),
         NEW c \in DOMAIN chunks
  PROVE  SortedHeld(exponents, chunks, Started(todo, c, chunks[c].a + 1 .. chunks[c].b), got)
BY DEF SortedHeld, Started

(* A sorted chunk has its outputs, which are right. *)
LEMMA SortedFinished ==
  ASSUME NEW exponents, NEW chunks, NEW todo, NEW got, SortedHeld(exponents, chunks, todo, got),
         NEW c \in DOMAIN chunks, todo[c] \notin {NotLaunched, {}},
         \A d \in DOMAIN chunks : \A o \in chunks[d].a + 1 .. chunks[d].b :
           o \in DOMAIN exponents /\ InBucketMethod(exponents[o]),
         \A d \in DOMAIN chunks : chunks[d].a + 1 .. chunks[d].b # {}
  PROVE  SortedHeld(exponents, chunks, Stopped(todo, c), ResultsAdded(exponents, todo, c, got))
<1>0. PICK todo2, got2 : todo2 = Stopped(todo, c) /\ got2 = ResultsAdded(exponents, todo, c, got)
  OBVIOUS
<1> USE <1>0 DEF Stopped, ResultsAdded
<1> DEFINE Outs(d) == chunks[d].a + 1 .. chunks[d].b
<1>1. \A d \in DOMAIN chunks : \A o \in Outs(d) :
        o \in DOMAIN exponents /\ SortedResult(exponents[o].data, exponents[o].n) = ExponentSum(exponents[o])
  BY SortedResultIs
<1>2. DOMAIN todo = DOMAIN chunks /\ DOMAIN todo2 = DOMAIN chunks
  BY DEF SortedHeld
<1>3. \A d \in DOMAIN chunks :
        todo[d] \in {NotLaunched, Outs(d)} \/ \A o \in Outs(d) : got[o] = ExponentSum(exponents[o])
  BY DEF SortedHeld
<1>4. ASSUME NEW d \in DOMAIN chunks
      PROVE  todo2[d] \in {NotLaunched, Outs(d)} \/ \A o \in Outs(d) : got2[o] = ExponentSum(exponents[o])
  <2>1. CASE \A o \in Outs(d) : got[o] = ExponentSum(exponents[o])
    <3>1. \A o \in Outs(d) : got2[o] = ExponentSum(exponents[o])
      <4> HIDE DEF Outs
      <4> QED BY <1>1, <2>1
    <3> QED BY <3>1
  <2>2. CASE d = c /\ todo[d] \in {NotLaunched, Outs(d)}
    <3>1. todo[c] = Outs(c)
      BY <2>2
    <3>2. \A o \in Outs(c) : got2[o] = ExponentSum(exponents[o])
      <4> HIDE DEF Outs
      <4> QED BY <1>1, <3>1
    <3> QED BY <2>2, <3>2
  <2>3. CASE d # c /\ todo[d] \in {NotLaunched, Outs(d)}
    BY <1>2, <2>3
  <2> QED BY <1>3, <2>1, <2>2, <2>3
<1> HIDE DEF Outs
<1> QED BY <1>2, <1>4 DEF SortedHeld, Outs

(* A chunk of bucket_method is launched with the next place. *)
LEMMA BucketsLaunched ==
  ASSUME NEW exponents, NEW chunks, NEW m \in Nat, DOMAIN chunks = 0 .. m - 1, NEW outs, 0 \notin outs,
         NEW todo, NEW count, NEW given, NEW held,
         BucketsHeld(exponents, chunks, outs, todo, count, given, held),
         NEW c \in DOMAIN chunks, todo[c] = NotLaunched, \A d \in 0 .. c - 1 : todo[d] # NotLaunched
  PROVE  BucketsHeld(exponents, chunks, outs, Started(todo, c, outs), count + 1,
                     PlaceGiven(given, c, count), held)
<1>0. PICK todo2, given2 : todo2 = Started(todo, c, outs) /\ given2 = PlaceGiven(given, c, count)
  OBVIOUS
<1> USE <1>0 DEF Started, PlaceGiven
<1>1. /\ DOMAIN todo = DOMAIN chunks /\ count \in Nat
      /\ DOMAIN given = 0 .. count - 1 /\ \A d \in 0 .. count - 1 : given[d] = d
      /\ \A d \in DOMAIN chunks : todo[d] = NotLaunched <=> d >= count
  BY DEF BucketsHeld
<1>2. c = count
  <2>1. c \in 0 .. m - 1 /\ c >= count
    BY <1>1
  <2>2. ASSUME c # count PROVE FALSE
    <3>1. count \in 0 .. c - 1 /\ count \in 0 .. m - 1
      BY <1>1, <2>1, <2>2
    <3>2. todo[count] # NotLaunched
      BY <3>1
    <3>3. todo[count] = NotLaunched
      BY <1>1, <3>1
    <3> QED BY <3>2, <3>3
  <2> QED BY <2>2
<1>3. count + 1 \in Nat /\ DOMAIN given2 = 0 .. (count + 1) - 1
      /\ \A d \in 0 .. (count + 1) - 1 : given2[d] = d
  BY <1>1, <1>2
<1>4. todo2[c] = outs /\ outs # NotLaunched /\ \A d \in DOMAIN chunks : d # c => todo2[d] = todo[d]
  BY <1>1 DEF NotLaunched
<1>5. \A d \in DOMAIN chunks : todo2[d] = NotLaunched <=> d >= count + 1
  <2> TAKE d \in DOMAIN chunks
  <2>1. d \in Int /\ count \in Int
    BY <1>1
  <2>2. CASE d = c
    BY <1>2, <1>4, <2>1, <2>2
  <2>3. CASE d # c
    <3>1. d >= count + 1 <=> d >= count
      BY <1>2, <2>1, <2>3
    <3> QED BY <1>1, <1>4, <2>3, <3>1
  <2> QED BY <2>2, <2>3
<1>6. \A d \in DOMAIN chunks :
        \/ todo2[d] \in {NotLaunched, outs}
        \/ /\ todo2[d] = {} /\ d \in DOMAIN held
           /\ held[d] = ChunkBuckets([o \in outs |-> exponents[o].data], chunks[d])
  BY <1>4 DEF BucketsHeld
<1>7. DOMAIN todo2 = DOMAIN chunks
  BY <1>1
<1> QED BY <1>3, <1>5, <1>6, <1>7 DEF BucketsHeld

(* A chunk of bucket_method copies its sums to its place. *)
LEMMA BucketsAccumulated ==
  ASSUME NEW exponents, NEW chunks, NEW m \in Nat, DOMAIN chunks = 0 .. m - 1, NEW outs,
         NEW todo, NEW count, NEW given, NEW held,
         BucketsHeld(exponents, chunks, outs, todo, count, given, held),
         NEW c \in DOMAIN chunks, todo[c] \notin {NotLaunched, {}}
  PROVE  BucketsHeld(exponents, chunks, outs, Stopped(todo, c), count, given,
                     SumsCopied(exponents, chunks, todo, given, held, c))
<1>0. PICK todo2, held2 : /\ todo2 = Stopped(todo, c)
                          /\ held2 = SumsCopied(exponents, chunks, todo, given, held, c)
  OBVIOUS
<1> USE <1>0 DEF Stopped, SumsCopied
<1>1. /\ DOMAIN todo = DOMAIN chunks /\ count \in Nat
      /\ DOMAIN given = 0 .. count - 1 /\ \A d \in 0 .. count - 1 : given[d] = d
      /\ \A d \in DOMAIN chunks : todo[d] = NotLaunched <=> d >= count
  BY DEF BucketsHeld
<1>2. todo[c] = outs
  BY DEF BucketsHeld
<1>3. given[c] = c
  <2>1. c \in 0 .. m - 1 /\ ~(c >= count)
    BY <1>1
  <2>2. c \in 0 .. count - 1
    BY <1>1, <2>1
  <2> QED BY <1>1, <2>2
<1>4. /\ c \in DOMAIN held2 /\ held2[c] = ChunkBuckets([o \in outs |-> exponents[o].data], chunks[c])
      /\ \A d \in DOMAIN held : d # c => d \in DOMAIN held2 /\ held2[d] = held[d]
  BY <1>2, <1>3
<1>5. todo2[c] = {} /\ {} # NotLaunched /\ \A d \in DOMAIN chunks : d # c => todo2[d] = todo[d]
  BY <1>1 DEF NotLaunched
<1>6. \A d \in DOMAIN chunks : todo2[d] = NotLaunched <=> d >= count
  BY <1>1, <1>5
<1>7. ASSUME NEW d \in DOMAIN chunks
      PROVE  \/ todo2[d] \in {NotLaunched, outs}
             \/ /\ todo2[d] = {} /\ d \in DOMAIN held2
                /\ held2[d] = ChunkBuckets([o \in outs |-> exponents[o].data], chunks[d])
  <2>1. CASE d = c
    BY <1>4, <1>5, <2>1
  <2>2. CASE d # c
    <3>1. \/ todo[d] \in {NotLaunched, outs}
          \/ /\ todo[d] = {} /\ d \in DOMAIN held
             /\ held[d] = ChunkBuckets([o \in outs |-> exponents[o].data], chunks[d])
      BY DEF BucketsHeld
    <3> QED BY <1>4, <1>5, <2>2, <3>1
  <2> QED BY <2>1, <2>2
<1>8. DOMAIN todo2 = DOMAIN chunks
  BY <1>1
<1> QED BY <1>1, <1>6, <1>7, <1>8 DEF BucketsHeld

(* A chunk of generators starts the outputs it is long enough for: those   *)
(* it leaves out have none of its generators.                              *)
LEMMA ProductsLaunched ==
  ASSUME NEW exponents, NEW chunks, NEW todo, NEW bits, NEW products,
         ProductsHeld(exponents, chunks, todo, bits, products),
         \A d \in DOMAIN chunks : chunks[d].a \in Nat,
         \A o \in 1 .. Len(exponents) : exponents[o].n \in Nat,
         NEW c \in DOMAIN chunks, todo[c] = NotLaunched,
         NEW outs, outs = {o \in 1 .. Len(exponents) : chunks[c].a < exponents[o].n}
  PROVE  ProductsHeld(exponents, chunks, Started(todo, c, outs), bits, products)
<1>0. PICK todo2 : todo2 = Started(todo, c, outs)
  OBVIOUS
<1> USE <1>0 DEF Started
<1>1. DOMAIN todo = DOMAIN chunks
  BY DEF ProductsHeld
<1>2. /\ \A d \in DOMAIN chunks : d # c => todo2[d] = todo[d]
      /\ todo2[c] = {o \in 1 .. Len(exponents) : chunks[c].a < exponents[o].n}
  BY <1>1
<1>3. todo2[c] # NotLaunched
  <2>1. 0 \notin todo2[c]
    BY <1>2
  <2> QED BY <2>1 DEF NotLaunched
<1>4. ASSUME NEW o \in 1 .. Len(exponents)
      PROVE  DoneGenerators(exponents[o].n, chunks, todo2, o) = DoneGenerators(exponents[o].n, chunks, todo, o)
  <2>1. PICK n \in Nat : n = exponents[o].n
    OBVIOUS
  <2>2. ASSUME NEW g \in 0 .. n - 1, NEW d \in DOMAIN chunks, HasIndex(chunks, d, g)
        PROVE  (todo2[d] # NotLaunched /\ o \notin todo2[d]) <=> (todo[d] # NotLaunched /\ o \notin todo[d])
    <3>1. CASE d # c
      BY <1>2, <3>1
    <3>2. CASE d = c
      <4>1. chunks[c].a \in Nat /\ chunks[c].a <= g
        BY <2>2, <3>2 DEF HasIndex
      <4>2. chunks[c].a < n
        BY <4>1
      <4>3. o \in todo2[c]
        BY <1>2, <2>1, <4>2
      <4> QED BY <3>2, <4>3
    <3> QED BY <3>1, <3>2
  <2> QED BY <2>1, <2>2 DEF DoneGenerators
<1>5. DOMAIN todo2 = DOMAIN chunks
  BY <1>1
<1>6. \A d \in DOMAIN chunks :
        todo2[d] = NotLaunched
        \/ todo2[d] \subseteq {o \in 1 .. Len(exponents) : chunks[d].a < exponents[o].n}
  BY <1>2 DEF ProductsHeld
<1> QED BY <1>4, <1>5, <1>6 DEF ProductsHeld

(* An output of a chunk is done. *)
OutputDone(todo, c, o) == [todo EXCEPT ![c] = @ \ {o}]

(* The products of a part of an output's generators are folded in. *)
FoldsIn(e, first, size, o, bits, products, bits2, products2) ==
  LET a == ChunkBits(e, first, size) IN
  IF a = {} THEN bits2 = bits /\ products2 = products
  ELSE /\ products2 = [products EXCEPT ![o] =
            FoldMultiproducts(bits[o], @, a, ChunkBitProducts(e, first, size))]
       /\ bits2 = [bits EXCEPT ![o] = @ \union a]

(* An output of a chunk folds its products into those found so far. *)
LEMMA ProductsFolded ==
  ASSUME NEW exponents, NEW m, NEW chunks, Partitions(chunks, m, NumGens, 1),
         NEW todo, NEW bits, NEW products, ProductsHeld(exponents, chunks, todo, bits, products),
         \A o \in 1 .. Len(exponents) :
           ValidExponents(exponents[o]) /\ NumBits(exponents[o]) \in Nat /\ exponents[o].n \in 0 .. NumGens,
         NEW c \in DOMAIN chunks, todo[c] # NotLaunched, NEW o, o \in todo[c],
         NEW size, size = AtMost(chunks[c].b - chunks[c].a, exponents[o].n - chunks[c].a),
         NEW bits2, NEW products2,
         FoldsIn(exponents[o], chunks[c].a, size, o, bits, products, bits2, products2)
  PROVE  ProductsHeld(exponents, chunks, OutputDone(todo, c, o), bits2, products2)
<1>0. PICK todo2, a : todo2 = OutputDone(todo, c, o) /\ a = ChunkBits(exponents[o], chunks[c].a, size)
  OBVIOUS
<1> USE <1>0 DEF OutputDone
<1>1. /\ DOMAIN todo = DOMAIN chunks
      /\ DOMAIN bits = 1 .. Len(exponents) /\ DOMAIN products = 1 .. Len(exponents)
      /\ todo[c] \subseteq {p \in 1 .. Len(exponents) : chunks[c].a < exponents[p].n}
  BY DEF ProductsHeld
<1>2. o \in 1 .. Len(exponents) /\ chunks[c].a < exponents[o].n /\ 0 \notin todo[c]
  BY <1>1
<1>3. PICK e, first : e = exponents[o] /\ first = chunks[c].a
  OBVIOUS
<1>4. ValidExponents(e) /\ NumBits(e) \in Nat /\ e.n \in 0 .. NumGens
  BY <1>2, <1>3
<1> DEFINE Done(p) == DoneGenerators(exponents[p].n, chunks, todo, p)
           Done2(p) == DoneGenerators(exponents[p].n, chunks, todo2, p)
<1>5. /\ first \in Nat /\ size \in Nat \ {0} /\ first + size <= e.n
      /\ Done(o) \cap PartOf(first, size) = {}
      /\ Done2(o) = Done(o) \cup PartOf(first, size)
  <2>1. PICK n : n = exponents[o].n
    OBVIOUS
  <2>2. n \in 0 .. NumGens /\ chunks[c].a < n /\ size = AtMost(chunks[c].b - chunks[c].a, n - chunks[c].a)
    BY <1>2, <1>3, <1>4, <2>1
  <2>3. AddsPart(n, chunks, todo, todo2, c, o, size)
    BY <1>1, <1>2, <2>2, GeneratorsDone
  <2> QED BY <1>3, <2>1, <2>3 DEF AddsPart
<1>6. \A p \in 1 .. Len(exponents) : p # o => Done2(p) = Done(p)
  <2> TAKE p \in 1 .. Len(exponents)
  <2> HAVE p # o
  <2>1. PICK n : n = exponents[p].n
    OBVIOUS
  <2>2. n \in 0 .. NumGens
    BY <2>1
  <2>3. DoneGenerators(n, chunks, todo2, p) = DoneGenerators(n, chunks, todo, p)
    <3>1. \A d \in DOMAIN chunks : d # c => todo2[d] = todo[d]
      BY <1>1
    <3>2. todo2[c] = todo[c] \ {o}
      BY <1>1
    <3>3. todo2[c] # NotLaunched
      BY <1>2, <3>2 DEF NotLaunched
    <3>4. \A d \in DOMAIN chunks : (todo2[d] # NotLaunched /\ p \notin todo2[d])
                                   <=> (todo[d] # NotLaunched /\ p \notin todo[d])
      BY <3>1, <3>2, <3>3
    <3> QED BY <3>4 DEF DoneGenerators
  <2> QED BY <2>1, <2>3
<1>7. \A p \in 1 .. Len(exponents) : HoldsBits(bits[p], products[p], exponents[p], Done(p))
  BY DEF ProductsHeld
<1> HIDE DEF Done, Done2
<1>8. HoldsBits(a, ChunkBitProducts(e, first, size), e, PartOf(first, size))
  <2>1. ValidPart(e, first, size)
    BY <1>4, <1>5 DEF ValidPart
  <2> QED BY <1>3, <2>1, ChunkProductsHold
<1>9. HoldsBits(bits2[o], products2[o], e, Done2(o))
  <2>1. HoldsBits(bits[o], products[o], e, Done(o))
    BY <1>2, <1>3, <1>7
  <2>4. \/ a = {} /\ bits2 = bits /\ products2 = products
        \/ /\ products2 = [products EXCEPT ![o] = FoldMultiproducts(bits[o], @, a,
                             ChunkBitProducts(exponents[o], chunks[c].a, size))]
           /\ bits2 = [bits EXCEPT ![o] = @ \union a]
    BY DEF FoldsIn
  <2>2. CASE a = {} /\ bits2 = bits /\ products2 = products
    <3>1. BitsOfAny(e, PartOf(first, size)) = {}
      BY <1>8, <2>2 DEF HoldsBits
    <3>2. HoldsBits(bits[o], products[o], e, Done(o) \cup PartOf(first, size))
      BY <1>4, <1>5, <2>1, <3>1, NothingToFold
    <3> QED BY <1>5, <2>2, <3>2
  <2>3. CASE /\ products2 = [products EXCEPT ![o] = FoldMultiproducts(bits[o], @, a,
                               ChunkBitProducts(exponents[o], chunks[c].a, size))]
             /\ bits2 = [bits EXCEPT ![o] = @ \union a]
    <3>1. /\ products2[o] = FoldMultiproducts(bits[o], products[o], a, ChunkBitProducts(e, first, size))
          /\ bits2[o] = bits[o] \union a
      BY <1>1, <1>2, <1>3, <2>3
    <3>2. HoldsBits(bits[o] \cup a,
                    FoldMultiproducts(bits[o], products[o], a, ChunkBitProducts(e, first, size)),
                    e, Done(o) \cup PartOf(first, size))
      BY <1>4, <1>5, <1>8, <2>1, FoldHolds
    <3> QED BY <1>5, <3>1, <3>2
  <2> QED BY <2>2, <2>3, <2>4
<1>10. /\ DOMAIN bits2 = DOMAIN bits /\ DOMAIN products2 = DOMAIN products
       /\ \A p \in 1 .. Len(exponents) : p # o => bits2[p] = bits[p] /\ products2[p] = products[p]
  BY <1>1 DEF FoldsIn
<1>11. \A p \in 1 .. Len(exponents) : HoldsBits(bits2[p], products2[p], exponents[p], Done2(p))
  <2> TAKE p \in 1 .. Len(exponents)
  <2>1. CASE p = o
    BY <1>3, <1>9, <2>1
  <2>2. CASE p # o
    BY <1>6, <1>7, <1>10, <2>2
  <2> QED BY <2>1, <2>2
<1>12. DOMAIN todo2 = DOMAIN chunks
       /\ \A d \in DOMAIN chunks :
            todo2[d] = NotLaunched
            \/ todo2[d] \subseteq {p \in 1 .. Len(exponents) : chunks[d].a < exponents[p].n}
  <2>1. todo2[c] = todo[c] \ {o} /\ \A d \in DOMAIN chunks : d # c => todo2[d] = todo[d]
    BY <1>1
  <2>2. \A d \in DOMAIN chunks :
          todo[d] = NotLaunched
          \/ todo[d] \subseteq {p \in 1 .. Len(exponents) : chunks[d].a < exponents[p].n}
    BY DEF ProductsHeld
  <2>3. todo2[c] \subseteq {p \in 1 .. Len(exponents) : chunks[c].a < exponents[p].n}
    BY <1>1, <2>1
  <2>4. \A d \in DOMAIN chunks :
          todo2[d] = NotLaunched
          \/ todo2[d] \subseteq {p \in 1 .. Len(exponents) : chunks[d].a < exponents[p].n}
    BY <2>1, <2>2, <2>3
  <2>5. DOMAIN todo2 = DOMAIN chunks
    BY <1>1
  <2> QED BY <2>4, <2>5
<1> QED BY <1>1, <1>10, <1>11, <1>12 DEF ProductsHeld, Done2

(* Bit by bit, once all chunks are done, every output has all generators. *)
LEMMA ProductsCombined ==
  ASSUME NEW exponents, NEW m, NEW chunks, Partitions(chunks, m, NumGens, 1),
         NEW todo, NEW bits, NEW products, ProductsHeld(exponents, chunks, todo, bits, products),
         \A c \in DOMAIN todo : todo[c] = {},
         NEW o \in 1 .. Len(exponents),
         ValidExponents(exponents[o]) /\ NumBits(exponents[o]) \in Nat /\ exponents[o].n \in 0 .. NumGens
  PROVE  CombineMultiproducts(bits[o], products[o]) = ExponentSum(exponents[o])
<1>1. PICK e : e = exponents[o]
  OBVIOUS
<1>2. HoldsBits(bits[o], products[o], e, DoneGenerators(e.n, chunks, todo, o))
      /\ DOMAIN todo = DOMAIN chunks
  BY <1>1 DEF ProductsHeld
<1>3. DOMAIN chunks = 0 .. m - 1 /\ NumGens \in Nat /\ e.n \in 0 .. NumGens
  BY <1>1, GroupAssumption DEF Partitions
<1>4. ASSUME NEW g \in 0 .. e.n - 1
      PROVE  \E c \in DOMAIN chunks : HasIndex(chunks, c, g) /\ todo[c] # NotLaunched /\ o \notin todo[c]
  <2>1. g \in 0 .. NumGens - 1
    BY <1>3
  <2>2. PICK u \in 0 .. m - 1 : \A i \in 0 .. m - 1 : HasIndex(chunks, i, g) <=> i = u
    BY <2>1 DEF Partitions
  <2>3. HasIndex(chunks, u, g) /\ u \in DOMAIN chunks
    BY <1>3, <2>2
  <2>4. todo[u] = {}
    BY <1>2, <2>3
  <2> QED BY <2>3, <2>4 DEF NotLaunched
<1>5. DoneGenerators(e.n, chunks, todo, o) = 0 .. e.n - 1
  BY <1>4 DEF DoneGenerators
<1>6. HoldsBits(bits[o], products[o], e, 0 .. e.n - 1)
  BY <1>2, <1>5
<1> QED BY <1>1, <1>6, CombineHolds

(* Before any chunk is launched nothing is held. *)
LEMMA NothingHeld ==
  ASSUME NEW exponents, Len(exponents) \in Nat, NEW chunks, NEW m \in Nat, DOMAIN chunks = 0 .. m - 1
  PROVE  /\ \A got : SortedHeld(exponents, chunks, Waiting(chunks), got)
         /\ \A outs, held : BucketsHeld(exponents, chunks, outs, Waiting(chunks), 0, <<>>, held)
         /\ ProductsHeld(exponents, chunks, Waiting(chunks), [o \in 1 .. Len(exponents) |-> {}],
                         [o \in 1 .. Len(exponents) |-> <<>>])
<1>1. DOMAIN Waiting(chunks) = DOMAIN chunks /\ \A c \in DOMAIN chunks : Waiting(chunks)[c] = NotLaunched
  BY DEF Waiting
<1>2. \A got : SortedHeld(exponents, chunks, Waiting(chunks), got)
  BY <1>1 DEF SortedHeld
<1>3. \A outs, held : BucketsHeld(exponents, chunks, outs, Waiting(chunks), 0, <<>>, held)
  <2>1. DOMAIN <<>> = 0 .. 0 - 1 /\ \A c \in 0 .. 0 - 1 : <<>>[c] = c
    OBVIOUS
  <2>2. \A c \in DOMAIN chunks : c >= 0
    OBVIOUS
  <2> QED BY <1>1, <2>1, <2>2 DEF BucketsHeld
<1>4. ASSUME NEW o \in 1 .. Len(exponents)
      PROVE  HoldsBits({}, <<>>, exponents[o], DoneGenerators(exponents[o].n, chunks, Waiting(chunks), o))
  <2>1. DoneGenerators(exponents[o].n, chunks, Waiting(chunks), o) = {}
    BY <1>1 DEF DoneGenerators
  <2>2. BitsOfAny(exponents[o], {}) = {}
    BY DEF BitsOfAny
  <2>3. <<>> \in [1 .. Cardinality({}) -> Elements]
    <3>1. Cardinality({}) = 0
      BY FS_EmptySet
    <3>2. <<>> \in [1 .. 0 -> Elements]
      OBVIOUS
    <3> QED BY <3>1, <3>2
  <2> QED BY <2>1, <2>2, <2>3 DEF HoldsBits
<1>5. ProductsHeld(exponents, chunks, Waiting(chunks), [o \in 1 .. Len(exponents) |-> {}],
                   [o \in 1 .. Len(exponents) |-> <<>>])
  BY <1>1, <1>4 DEF ProductsHeld
<1> QED BY <1>2, <1>3, <1>5

-----------------------------------------------------------------------------
(* The invariant of a call *)

(* The record of a call *)
Requested(r) ==
  /\ r.exponents \in AsyncCalls /\ r.first \in Nat
  /\ DOMAIN r = {"exponents", "method", "first", "res", "returned"} /\ r.method = Method(r.exponents)

(* What each of the methods has, while its chunks run *)
MethodHeld(r, todo, count, given, held, bits, products) ==
  LET chunks == ChunksOf(r.exponents, r.method, r.first) IN
  /\ r.method = "sorted" => SortedHeld(r.exponents, chunks, todo, r.res)
  /\ r.method = "buckets" =>
       /\ \A o \in 1 .. Len(r.exponents) : o <= r.first => r.res[o] = ExponentSum(r.exponents[o])
       /\ IF r.first < Len(r.exponents)
          THEN BucketsHeld(r.exponents, chunks, OutputsAt(r.exponents, r.first), todo, count, given, held)
          ELSE DOMAIN todo = {}
  /\ r.method = "bits" => ProductsHeld(r.exponents, chunks, todo, bits, products)

ResultsRight(r, todo) ==
  r.returned => /\ \A o \in DOMAIN r.exponents : r.res[o] = ExponentSum(r.exponents[o])
                /\ \A c \in DOMAIN todo : todo[c] = {}

AsyncInv ==
  /\ request = None => AsyncIdle
  /\ request # None =>
       /\ Requested(request) /\ ResultsRight(request, task)
       /\ MethodHeld(request, task, next_place, place, partial_bucket_sums, or_alls, bit_products)

(* CurrentChunks, before and after a step *)
LEMMA CurrentChunksAre ==
  /\ CurrentChunks = ChunksOf(request.exponents, request.method, request.first)
  /\ CurrentChunks' = ChunksOf(request'.exponents, request'.method, request'.first)
  /\ OutputsFrom(request.first) = OutputsAt(request.exponents, request.first)
<1>1. /\ OutputsFrom(request.first) = OutputsAt(request.exponents, request.first)
      /\ OutputsFrom(request.first)' = OutputsAt(request'.exponents, request'.first)
  BY DEF OutputsFrom, OutputsAt
<1>2. CurrentChunks = ChunksOf(request.exponents, request.method, request.first)
  BY <1>1 DEF CurrentChunks, ChunksOf
<1>3. CurrentChunks' = ChunksOf(request'.exponents, request'.method, request'.first)
  BY <1>1 DEF CurrentChunks, ChunksOf
<1> QED BY <1>1, <1>2, <1>3

(* A call begins. *)
LEMMA CallKeeps ==
  ASSUME AsyncInv, NEW exponents \in AsyncCalls, AsyncCall(exponents)
  PROVE  AsyncInv'
<1>1. PICK r : r = [exponents |-> exponents, method |-> Method(exponents), first |-> 0,
                    res |-> [o \in DOMAIN exponents |-> None], returned |-> FALSE]
  OBVIOUS
<1>2. /\ request' = r /\ task' = Waiting(CurrentChunks') /\ next_place' = next_place /\ place' = place
      /\ or_alls' = [o \in DOMAIN exponents |-> {}]
      /\ bit_products' = [o \in DOMAIN exponents |-> <<>>] /\ next_place = 0 /\ place = <<>>
  BY <1>1 DEF AsyncCall, AsyncInv, AsyncIdle
<1>3. /\ r.exponents = exponents /\ r.method = Method(exponents) /\ r.first = 0 /\ r.returned = FALSE
      /\ r.res = [o \in DOMAIN exponents |-> None]
  BY <1>1
<1>4. request' # None
  <2>1. "exponents" \in DOMAIN r
    BY <1>1
  <2>2. DOMAIN None = {}
    BY DEF None
  <2> QED BY <1>2, <2>1, <2>2
<1>5. Requested(r)
  BY <1>1, <1>3 DEF Requested
<1>6. PICK chunks : chunks = ChunksOf(exponents, Method(exponents), 0)
  OBVIOUS
<1>7. task' = Waiting(chunks)
  BY <1>2, <1>3, <1>6, CurrentChunksAre
<1>8. PICK m \in Nat : DOMAIN chunks = 0 .. m - 1
  <2>1. PICK m \in Nat : Partitions(chunks, m, RangeOf(exponents, Method(exponents)), 1)
    BY <1>6, ChunksDivide
  <2> QED BY <2>1 DEF Partitions
<1>9. /\ Len(exponents) \in Nat /\ DOMAIN exponents = 1 .. Len(exponents)
      /\ (Method(exponents) = "buckets" => Len(exponents) # 0)
  BY CallsAre
<1>10. /\ \A got : SortedHeld(exponents, chunks, task', got)
       /\ \A outs, held : BucketsHeld(exponents, chunks, outs, task', next_place', place', held)
       /\ ProductsHeld(exponents, chunks, task', or_alls', bit_products')
  BY <1>2, <1>7, <1>8, <1>9, NothingHeld
<1>11. ASSUME r.method = "buckets"
       PROVE  /\ \A o \in 1 .. Len(r.exponents) : o <= r.first => r.res[o] = ExponentSum(r.exponents[o])
              /\ r.first < Len(r.exponents)
  <2>1. \A o \in 1 .. Len(exponents) : ~(o <= 0)
    BY <1>9
  <2> QED BY <1>3, <1>9, <1>11, <2>1
<1>12. MethodHeld(r, task', next_place', place', partial_bucket_sums', or_alls', bit_products')
  BY <1>3, <1>6, <1>10, <1>11 DEF MethodHeld
<1>13. ResultsRight(r, task')
  BY <1>3 DEF ResultsRight
<1> QED BY <1>2, <1>4, <1>5, <1>12, <1>13 DEF AsyncInv

(* What holds of a call in progress *)
LEMMA CallIs ==
  ASSUME NEW r, Requested(r)
  PROVE  /\ r.method = Method(r.exponents) /\ r.exponents \in AsyncCalls /\ r.first \in Nat
         /\ r.method \in {"sorted", "buckets", "bits"}
         /\ Len(r.exponents) \in Nat /\ DOMAIN r.exponents = 1 .. Len(r.exponents)
         /\ \E m \in Nat : Partitions(ChunksOf(r.exponents, r.method, r.first), m,
                                      RangeOf(r.exponents, r.method), 1)
<1>1. r.exponents \in AsyncCalls /\ r.first \in Nat /\ r.method = Method(r.exponents)
  BY DEF Requested
<1>2. /\ Len(r.exponents) \in Nat /\ DOMAIN r.exponents = 1 .. Len(r.exponents)
      /\ Method(r.exponents) \in {"sorted", "buckets", "bits"}
  BY <1>1, CallsAre
<1>3. \E m \in Nat : Partitions(ChunksOf(r.exponents, Method(r.exponents), r.first), m,
                                RangeOf(r.exponents, Method(r.exponents)), 1)
  BY <1>1, ChunksDivide
<1> QED BY <1>1, <1>2, <1>3

(* Bit by bit: the chunks divide all generators. *)
LEMMA BitChunks ==
  ASSUME NEW r, Requested(r), r.method = "bits", NEW chunks, chunks = ChunksOf(r.exponents, r.method, r.first)
  PROVE  /\ \E m \in Nat : Partitions(chunks, m, NumGens, 1)
         /\ \A o \in 1 .. Len(r.exponents) :
              ValidExponents(r.exponents[o]) /\ NumBits(r.exponents[o]) \in Nat
              /\ r.exponents[o].n \in 0 .. NumGens
<1>1. \E m \in Nat : Partitions(chunks, m, RangeOf(r.exponents, r.method), 1)
  BY CallIs
<1>2. RangeOf(r.exponents, r.method) = NumGens
  BY DEF RangeOf
<1>3. r.exponents \in AsyncCalls
  BY DEF Requested
<1> QED BY <1>1, <1>2, <1>3, CallsAre

(* A chunk is launched. *)
LEMMA LaunchKeeps ==
  ASSUME AsyncInv, NEW c \in DOMAIN task, Launch(c)
  PROVE  AsyncInv'
<1>1. PICK r, chunks : r = request /\ chunks = CurrentChunks
  OBVIOUS
<1>2. /\ request' = request /\ request # None /\ partial_bucket_sums' = partial_bucket_sums
      /\ or_alls' = or_alls /\ bit_products' = bit_products
      /\ task[c] = NotLaunched /\ \A d \in 0 .. c - 1 : task[d] # NotLaunched
  BY DEF Launch, IsNext
<1>3. /\ Requested(r) /\ ResultsRight(r, task)
      /\ MethodHeld(r, task, next_place, place, partial_bucket_sums, or_alls, bit_products)
  BY <1>1, <1>2 DEF AsyncInv
<1>4. chunks = ChunksOf(r.exponents, r.method, r.first)
      /\ OutputsFrom(r.first) = OutputsAt(r.exponents, r.first)
  BY <1>1, CurrentChunksAre
<1>5. /\ r.method \in {"sorted", "buckets", "bits"} /\ Len(r.exponents) \in Nat /\ r.first \in Nat
      /\ DOMAIN r.exponents = 1 .. Len(r.exponents)
  BY <1>3, CallIs
<1>6. PICK m \in Nat : Partitions(chunks, m, RangeOf(r.exponents, r.method), 1)
  BY <1>3, <1>4, CallIs
<1>7. DOMAIN chunks = 0 .. m - 1 /\ \A d \in DOMAIN chunks : chunks[d].a \in Nat
  BY <1>6 DEF Partitions
<1>8. ResultsRight(r, task')
  <2>1. ~r.returned
    BY <1>2, <1>3 DEF ResultsRight, NotLaunched
  <2> QED BY <2>1 DEF ResultsRight
<1>9. MethodHeld(r, task', next_place', place', partial_bucket_sums', or_alls', bit_products')
  <2>1. CASE r.method = "sorted"
    <3>1. SortedHeld(r.exponents, chunks, task, r.res)
      BY <1>3, <1>4, <2>1 DEF MethodHeld
    <3>2. c \in DOMAIN chunks
      BY <3>1 DEF SortedHeld
    <3>3. task' = Started(task, c, chunks[c].a + 1 .. chunks[c].b)
      BY <1>1, <2>1 DEF Launch, Started
    <3>4. SortedHeld(r.exponents, chunks, task', r.res)
      BY <3>1, <3>2, <3>3, SortedLaunched
    <3> QED BY <1>4, <2>1, <3>4 DEF MethodHeld
  <2>2. CASE r.method = "buckets"
    <3>1. /\ \A o \in 1 .. Len(r.exponents) : o <= r.first => r.res[o] = ExponentSum(r.exponents[o])
          /\ r.first < Len(r.exponents)
          /\ BucketsHeld(r.exponents, chunks, OutputsAt(r.exponents, r.first), task, next_place, place,
                         partial_bucket_sums)
      BY <1>3, <1>4, <2>2 DEF MethodHeld
    <3>2. PICK outs : outs = OutputsAt(r.exponents, r.first)
      OBVIOUS
    <3>3. c \in DOMAIN chunks /\ 0 \notin outs
      BY <1>5, <3>1, <3>2 DEF BucketsHeld, OutputsAt
    <3>4. /\ task' = Started(task, c, outs) /\ next_place' = next_place + 1
          /\ place' = PlaceGiven(place, c, next_place)
      BY <1>1, <1>4, <2>2, <3>2 DEF Launch, Started, PlaceGiven
    <3>5. BucketsHeld(r.exponents, chunks, outs, task', next_place', place', partial_bucket_sums)
      BY <1>2, <1>7, <3>1, <3>2, <3>3, <3>4, BucketsLaunched
    <3> QED BY <1>2, <1>4, <2>2, <3>1, <3>2, <3>5 DEF MethodHeld
  <2>3. CASE r.method = "bits"
    <3>1. ProductsHeld(r.exponents, chunks, task, or_alls, bit_products)
      BY <1>3, <1>4, <2>3 DEF MethodHeld
    <3>2. c \in DOMAIN chunks
      BY <3>1 DEF ProductsHeld
    <3>3. PICK outs : outs = {o \in 1 .. Len(r.exponents) : chunks[c].a < r.exponents[o].n}
      OBVIOUS
    <3>4. task' = Started(task, c, outs)
      BY <1>1, <1>5, <2>3, <3>3 DEF Launch, Outputs, Started
    <3>5. \A o \in 1 .. Len(r.exponents) : r.exponents[o].n \in Nat
      <4>1. \A o \in 1 .. Len(r.exponents) : r.exponents[o].n \in 0 .. NumGens
        BY <1>3, <1>4, <2>3, BitChunks
      <4> QED BY <4>1
    <3>6. ProductsHeld(r.exponents, chunks, task', or_alls, bit_products)
      BY <1>2, <1>7, <3>1, <3>2, <3>3, <3>4, <3>5, ProductsLaunched
    <3> QED BY <1>2, <1>4, <2>3, <3>6 DEF MethodHeld
  <2> QED BY <1>5, <2>1, <2>2, <2>3
<1> QED BY <1>1, <1>2, <1>3, <1>8, <1>9 DEF AsyncInv

(* The outputs of a chunk of bucket_method2 *)
LEMMA SortedKeeps ==
  ASSUME AsyncInv, NEW c \in DOMAIN task, SortedDone(c)
  PROVE  AsyncInv'
<1>1. PICK r, chunks : r = request /\ chunks = CurrentChunks
  OBVIOUS
<1>2. /\ r # None /\ r.method = "sorted" /\ task[c] \notin {NotLaunched, {}}
      /\ task' = Stopped(task, c)
      /\ request' = [r EXCEPT !.res = [o \in DOMAIN r.exponents |->
           IF o \in task[c] THEN SortedResult(r.exponents[o].data, r.exponents[o].n) ELSE @[o]]]
  BY <1>1 DEF SortedDone, Running, Outputs, Stopped
<1>3. Requested(r) /\ SortedHeld(r.exponents, chunks, task, r.res) /\ ResultsRight(r, task)
  BY <1>1, <1>2, CurrentChunksAre DEF AsyncInv, MethodHeld
<1>4. PICK got : got = ResultsAdded(r.exponents, task, c, r.res)
  OBVIOUS
<1>5. PICK q : q = request'
  OBVIOUS
<1>6. /\ q.exponents = r.exponents /\ q.method = r.method /\ q.first = r.first /\ q.res = got
      /\ (q.returned <=> r.returned) /\ Requested(q) /\ q # None
  <2>1. DOMAIN r = {"exponents", "method", "first", "res", "returned"}
    BY <1>3 DEF Requested
  <2>2. DOMAIN q = {"exponents", "method", "first", "res", "returned"}
    BY <1>2, <1>5, <2>1
  <2>3. q # None
    <3>1. "exponents" \in DOMAIN q /\ DOMAIN None = {}
      BY <2>2 DEF None
    <3> QED BY <3>1
  <2>4. /\ q.exponents = r.exponents /\ q.method = r.method /\ q.first = r.first /\ q.res = got
        /\ (q.returned <=> r.returned)
    BY <1>2, <1>4, <1>5, <2>1 DEF ResultsAdded
  <2> QED BY <1>3, <2>2, <2>3, <2>4 DEF Requested
<1>7. chunks = ChunksOf(r.exponents, r.method, r.first)
  BY <1>1, CurrentChunksAre
<1>8. c \in DOMAIN chunks
  BY <1>3 DEF SortedHeld
<1>9. PICK m \in Nat : Partitions(chunks, m, Len(r.exponents), 1)
  <2>1. RangeOf(r.exponents, r.method) = Len(r.exponents)
    BY <1>2 DEF RangeOf
  <2> QED BY <1>3, <1>7, <2>1, CallIs
<1>10. \A d \in DOMAIN chunks :
         /\ chunks[d].a + 1 .. chunks[d].b # {}
         /\ \A o \in chunks[d].a + 1 .. chunks[d].b :
              o \in DOMAIN r.exponents /\ InBucketMethod(r.exponents[o])
  <2>1. /\ Len(r.exponents) \in Nat /\ DOMAIN r.exponents = 1 .. Len(r.exponents)
        /\ \A o \in 1 .. Len(r.exponents) : InBucketMethod(r.exponents[o])
    <3>1. r.exponents \in AsyncCalls /\ Method(r.exponents) # "bits"
      BY <1>2, <1>3, CallIs
    <3> QED BY <3>1, CallsAre
  <2> TAKE d \in DOMAIN chunks
  <2>2. PICK a, b : a = chunks[d].a /\ b = chunks[d].b
    OBVIOUS
  <2>3. a \in Nat /\ b \in Nat /\ a < b /\ b <= Len(r.exponents)
    BY <1>9, <2>2 DEF Partitions
  <2>4. a + 1 \in a + 1 .. b /\ \A o \in a + 1 .. b : o \in 1 .. Len(r.exponents)
    BY <2>1, <2>3
  <2> QED BY <2>1, <2>2, <2>4
<1>11. SortedHeld(r.exponents, chunks, task', got)
  <2>1. \A d \in DOMAIN chunks : chunks[d].a + 1 .. chunks[d].b # {}
    BY <1>10
  <2>2. \A d \in DOMAIN chunks : \A o \in chunks[d].a + 1 .. chunks[d].b :
          o \in DOMAIN r.exponents /\ InBucketMethod(r.exponents[o])
    BY <1>10
  <2> QED BY <1>2, <1>3, <1>4, <1>8, <2>1, <2>2, SortedFinished
<1>12. ~ q.returned
  BY <1>2, <1>3, <1>6 DEF ResultsRight
<1>13. MethodHeld(q, task', next_place', place', partial_bucket_sums', or_alls', bit_products')
  BY <1>2, <1>6, <1>7, <1>11 DEF MethodHeld
<1> QED BY <1>5, <1>6, <1>12, <1>13 DEF AsyncInv, ResultsRight

(* The sums of a chunk of bucket_method *)
LEMMA AccumulateKeeps ==
  ASSUME AsyncInv, NEW c \in DOMAIN task, AccumulateDone(c)
  PROVE  AsyncInv'
<1>1. PICK r, chunks, outs : r = request /\ chunks = CurrentChunks /\ outs = OutputsAt(r.exponents, r.first)
  OBVIOUS
<1>2. /\ r # None /\ r.method = "buckets" /\ task[c] \notin {NotLaunched, {}}
      /\ task' = Stopped(task, c) /\ request' = r /\ next_place' = next_place /\ place' = place
      /\ partial_bucket_sums' = SumsCopied(r.exponents, chunks, task, place, partial_bucket_sums, c)
  BY <1>1 DEF AccumulateDone, Running, Stopped, SumsCopied
<1>3. /\ Requested(r) /\ ResultsRight(r, task)
      /\ MethodHeld(r, task, next_place, place, partial_bucket_sums, or_alls, bit_products)
  BY <1>1, <1>2 DEF AsyncInv
<1>4. chunks = ChunksOf(r.exponents, r.method, r.first)
  BY <1>1, CurrentChunksAre
<1>5. /\ \A o \in 1 .. Len(r.exponents) : o <= r.first => r.res[o] = ExponentSum(r.exponents[o])
      /\ r.first < Len(r.exponents)
      /\ BucketsHeld(r.exponents, chunks, outs, task, next_place, place, partial_bucket_sums)
  BY <1>1, <1>2, <1>3, <1>4 DEF MethodHeld
<1>6. PICK m \in Nat : DOMAIN chunks = 0 .. m - 1
  BY <1>3, <1>4, CallIs DEF Partitions
<1>7. c \in DOMAIN chunks
  BY <1>5 DEF BucketsHeld
<1>8. BucketsHeld(r.exponents, chunks, outs, task', next_place, place, partial_bucket_sums')
  BY <1>2, <1>5, <1>6, <1>7, BucketsAccumulated
<1>9. MethodHeld(r, task', next_place', place', partial_bucket_sums', or_alls', bit_products')
  BY <1>1, <1>2, <1>4, <1>5, <1>8 DEF MethodHeld
<1>10. ~ r.returned
  BY <1>2, <1>3 DEF ResultsRight
<1> QED BY <1>1, <1>2, <1>3, <1>9, <1>10 DEF AsyncInv, ResultsRight

(* An output of a chunk, bit by bit *)
LEMMA FoldKeeps ==
  ASSUME AsyncInv, NEW c \in DOMAIN task, NEW o, Fold(c, o)
  PROVE  AsyncInv'
<1>1. PICK r, chunks, size :
        /\ r = request /\ chunks = CurrentChunks
        /\ size = AtMost(chunks[c].b - chunks[c].a, r.exponents[o].n - chunks[c].a)
  OBVIOUS
<1>2. /\ r # None /\ r.method = "bits" /\ task[c] # NotLaunched /\ o \in task[c]
      /\ task' = OutputDone(task, c, o) /\ request' = r
      /\ FoldsIn(r.exponents[o], chunks[c].a, size, o, or_alls, bit_products, or_alls', bit_products')
  BY <1>1 DEF Fold, Running, OutputDone, FoldsIn
<1>3. /\ Requested(r) /\ ResultsRight(r, task)
      /\ MethodHeld(r, task, next_place, place, partial_bucket_sums, or_alls, bit_products)
  BY <1>1, <1>2 DEF AsyncInv
<1>4. chunks = ChunksOf(r.exponents, r.method, r.first)
  BY <1>1, CurrentChunksAre
<1>5. ProductsHeld(r.exponents, chunks, task, or_alls, bit_products)
  BY <1>2, <1>3, <1>4 DEF MethodHeld
<1>6. c \in DOMAIN chunks
  BY <1>5 DEF ProductsHeld
<1>7. PICK m \in Nat : Partitions(chunks, m, NumGens, 1)
  BY <1>2, <1>3, <1>4, BitChunks
<1>8. \A p \in 1 .. Len(r.exponents) :
        ValidExponents(r.exponents[p]) /\ NumBits(r.exponents[p]) \in Nat /\ r.exponents[p].n \in 0 .. NumGens
  BY <1>2, <1>3, <1>4, BitChunks
<1>9. ProductsHeld(r.exponents, chunks, task', or_alls', bit_products')
  BY <1>1, <1>2, <1>5, <1>6, <1>7, <1>8, ProductsFolded
<1>10. MethodHeld(r, task', next_place', place', partial_bucket_sums', or_alls', bit_products')
  BY <1>2, <1>4, <1>9 DEF MethodHeld
<1>11. ~ r.returned
  BY <1>2, <1>3 DEF ResultsRight
<1> QED BY <1>1, <1>2, <1>3, <1>10, <1>11 DEF AsyncInv, ResultsRight

(* An output chunk of bucket_method ends. *)
LEMMA CombineKeeps ==
  ASSUME AsyncInv, CombineBucketSums
  PROVE  AsyncInv'
<1>1. PICK r, chunks, outs, result :
        /\ r = request /\ chunks = CurrentChunks /\ outs = OutputsAt(r.exponents, r.first)
        /\ result = BucketResult(FoldBuckets(partial_bucket_sums, Cardinality(DOMAIN task)))
  OBVIOUS
<1>2. PICK got : got = [o \in DOMAIN r.exponents |-> IF o \in DOMAIN result THEN result[o] ELSE r.res[o]]
  OBVIOUS
<1>3. /\ r # None /\ r.method = "buckets" /\ r.first < Len(r.exponents) /\ ~r.returned
      /\ \A c \in DOMAIN task : task[c] = {}
      /\ request' = [r EXCEPT !.first = @ + MaxOutputChunk, !.res = got]
      /\ task' = IF request'.first < Len(request.exponents) THEN Waiting(CurrentChunks') ELSE <<>>
      /\ next_place' = 0 /\ place' = <<>> /\ partial_bucket_sums' = <<>>
  BY <1>1, <1>2 DEF CombineBucketSums, LoopDone, Outputs
<1>4. /\ Requested(r)
      /\ MethodHeld(r, task, next_place, place, partial_bucket_sums, or_alls, bit_products)
  BY <1>1, <1>3 DEF AsyncInv
<1>5. chunks = ChunksOf(r.exponents, r.method, r.first)
  BY <1>1, CurrentChunksAre
<1>6. /\ \A o \in 1 .. Len(r.exponents) : o <= r.first => r.res[o] = ExponentSum(r.exponents[o])
      /\ BucketsHeld(r.exponents, chunks, outs, task, next_place, place, partial_bucket_sums)
  BY <1>1, <1>3, <1>4, <1>5 DEF MethodHeld
<1>7. /\ r.method = Method(r.exponents) /\ r.exponents \in AsyncCalls /\ r.first \in Nat
      /\ Len(r.exponents) \in Nat /\ DOMAIN r.exponents = 1 .. Len(r.exponents)
  BY <1>4, CallIs
<1>8. DOMAIN result = outs /\ \A o \in outs : result[o] = ExponentSum(r.exponents[o])
  <2>1. PICK exponents, first, todo, count, given, held :
          /\ exponents = r.exponents /\ first = r.first /\ todo = task /\ count = next_place
          /\ given = place /\ held = partial_bucket_sums
    OBVIOUS
  <2>2. /\ exponents \in AsyncCalls /\ Method(exponents) = "buckets" /\ first \in Nat
        /\ first < Len(exponents) /\ chunks = ChunksOf(exponents, Method(exponents), first)
        /\ BucketsHeld(exponents, chunks, OutputsAt(exponents, first), todo, count, given, held)
        /\ \A c \in DOMAIN todo : todo[c] = {}
        /\ result = BucketResult(FoldBuckets(held, Cardinality(DOMAIN todo)))
    BY <1>1, <1>3, <1>5, <1>6, <1>7, <2>1
  <2>3. /\ DOMAIN result = OutputsAt(exponents, first)
        /\ \A o \in OutputsAt(exponents, first) : result[o] = ExponentSum(exponents[o])
    BY <2>2, OutputsReduced
  <2> QED BY <1>1, <2>1, <2>3
<1>9. PICK q : q = request'
  OBVIOUS
<1>10. /\ q.exponents = r.exponents /\ q.method = r.method /\ q.first = r.first + MaxOutputChunk
       /\ q.res = got /\ ~q.returned /\ Requested(q) /\ q # None /\ q.first \in Nat
  <2>1. DOMAIN r = {"exponents", "method", "first", "res", "returned"}
    BY <1>4 DEF Requested
  <2>2. DOMAIN q = {"exponents", "method", "first", "res", "returned"}
    BY <1>3, <1>9, <2>1
  <2>3. r.first + MaxOutputChunk \in Nat
    BY <1>7, AsyncAssumption
  <2>4. q # None
    <3>1. "exponents" \in DOMAIN q /\ DOMAIN None = {}
      BY <2>2 DEF None
    <3> QED BY <3>1
  <2>5. /\ q.exponents = r.exponents /\ q.method = r.method /\ q.first = r.first + MaxOutputChunk
        /\ q.res = got /\ (q.returned <=> r.returned)
    BY <1>3, <1>9, <2>1
  <2> QED BY <1>3, <1>4, <2>2, <2>3, <2>4, <2>5 DEF Requested
<1>11. \A o \in 1 .. Len(r.exponents) : o <= q.first => got[o] = ExponentSum(r.exponents[o])
  <2> TAKE o \in 1 .. Len(r.exponents)
  <2> HAVE o <= q.first
  <2>1. got[o] = IF o \in outs THEN result[o] ELSE r.res[o]
    BY <1>2, <1>7, <1>8
  <2>2. CASE o <= r.first
    BY <1>6, <1>8, <2>1, <2>2
  <2>3. CASE ~(o <= r.first)
    <3>1. PICK l, s : l = Len(r.exponents) /\ s = r.first
      OBVIOUS
    <3>2. o \in s + 1 .. AtMost(l, s + MaxOutputChunk)
      BY <1>7, <1>10, <2>3, <3>1, AsyncAssumption DEF AtMost
    <3>3. o \in outs
      BY <1>1, <3>1, <3>2 DEF OutputsAt
    <3> QED BY <1>8, <2>1, <3>3
  <2> QED BY <2>2, <2>3
<1>12. IF q.first < Len(q.exponents)
       THEN BucketsHeld(q.exponents, ChunksOf(q.exponents, q.method, q.first),
                        OutputsAt(q.exponents, q.first), task', next_place', place', partial_bucket_sums')
       ELSE DOMAIN task' = {}
  <2>1. CASE q.first < Len(q.exponents)
    <3>1. PICK now : now = ChunksOf(q.exponents, q.method, q.first)
      OBVIOUS
    <3>2. task' = Waiting(now)
      BY <1>1, <1>3, <1>9, <1>10, <2>1, <3>1, CurrentChunksAre
    <3>3. PICK m \in Nat : Partitions(now, m, RangeOf(q.exponents, q.method), 1)
      BY <1>10, <3>1, CallIs
    <3>4. DOMAIN now = 0 .. m - 1
      BY <3>3 DEF Partitions
    <3>5. \A some, held : BucketsHeld(q.exponents, now, some, Waiting(now), 0, <<>>, held)
      BY <1>7, <1>10, <3>4, NothingHeld
    <3> QED BY <1>3, <2>1, <3>1, <3>2, <3>5
  <2>2. CASE ~(q.first < Len(q.exponents))
    <3>1. task' = <<>>
      BY <1>1, <1>3, <1>9, <1>10, <2>2
    <3> QED BY <2>2, <3>1
  <2> QED BY <2>1, <2>2
<1>13. MethodHeld(q, task', next_place', place', partial_bucket_sums', or_alls', bit_products')
  BY <1>3, <1>10, <1>11, <1>12 DEF MethodHeld
<1> QED BY <1>9, <1>10, <1>13 DEF AsyncInv, ResultsRight

(* The call returns. *)
LEMMA ReturnKeeps ==
  ASSUME AsyncInv, AsyncReturn
  PROVE  AsyncInv'
<1>1. PICK r, chunks : r = request /\ chunks = CurrentChunks
  OBVIOUS
<1>2. PICK got : got = IF r.method = "bits"
                       THEN [o \in DOMAIN r.exponents |-> CombineMultiproducts(or_alls[o], bit_products[o])]
                       ELSE r.res
  OBVIOUS
<1>3. /\ r # None /\ \A c \in DOMAIN task : task[c] = {}
      /\ r.method = "buckets" => r.first >= Len(r.exponents)
      /\ request' = [r EXCEPT !.returned = TRUE, !.res = got]
      /\ task' = task /\ next_place' = next_place /\ place' = place
      /\ partial_bucket_sums' = partial_bucket_sums /\ or_alls' = or_alls /\ bit_products' = bit_products
  BY <1>1, <1>2 DEF AsyncReturn, LoopDone, Outputs
<1>4. /\ Requested(r)
      /\ MethodHeld(r, task, next_place, place, partial_bucket_sums, or_alls, bit_products)
  BY <1>1, <1>3 DEF AsyncInv
<1>5. chunks = ChunksOf(r.exponents, r.method, r.first)
  BY <1>1, CurrentChunksAre
<1>6. /\ r.method = Method(r.exponents) /\ r.exponents \in AsyncCalls /\ r.first \in Nat
      /\ Len(r.exponents) \in Nat /\ DOMAIN r.exponents = 1 .. Len(r.exponents)
      /\ r.method \in {"sorted", "buckets", "bits"}
  BY <1>4, CallIs
<1>7. \A o \in 1 .. Len(r.exponents) : got[o] = ExponentSum(r.exponents[o])
  <2>1. CASE r.method = "sorted"
    <3>1. SortedHeld(r.exponents, chunks, task, r.res)
      BY <1>4, <1>5, <2>1 DEF MethodHeld
    <3>2. PICK m \in Nat : Partitions(chunks, m, Len(r.exponents), 1)
      <4>1. RangeOf(r.exponents, r.method) = Len(r.exponents)
        BY <2>1 DEF RangeOf
      <4> QED BY <1>4, <1>5, <4>1, CallIs
    <3> TAKE o \in 1 .. Len(r.exponents)
    <3>3. PICK g : g = o - 1
      OBVIOUS
    <3>4. g \in 0 .. Len(r.exponents) - 1 /\ g + 1 = o
      BY <1>6, <3>3
    <3>5. PICK u \in 0 .. m - 1 : HasIndex(chunks, u, g)
      BY <3>2, <3>4 DEF Partitions
    <3>6. PICK a, b : a = chunks[u].a /\ b = chunks[u].b
      OBVIOUS
    <3>7. a \in Nat /\ b \in Nat /\ a < b /\ u \in DOMAIN chunks
      BY <3>2, <3>6 DEF Partitions
    <3>8. a <= g /\ g < b
      BY <3>5, <3>6 DEF HasIndex
    <3>9. o \in a + 1 .. b /\ a + 1 .. b # {}
      BY <3>4, <3>7, <3>8
    <3>10. task[u] = {}
      BY <1>3, <3>1, <3>7 DEF SortedHeld
    <3>11. \A p \in a + 1 .. b : r.res[p] = ExponentSum(r.exponents[p])
      BY <3>1, <3>6, <3>7, <3>9, <3>10 DEF SortedHeld, NotLaunched
    <3>12. r.res[o] = ExponentSum(r.exponents[o])
      BY <3>9, <3>11
    <3> QED BY <1>2, <2>1, <3>12
  <2>2. CASE r.method = "buckets"
    <3>1. \A o \in 1 .. Len(r.exponents) : o <= r.first => r.res[o] = ExponentSum(r.exponents[o])
      BY <1>4, <2>2 DEF MethodHeld
    <3>2. \A o \in 1 .. Len(r.exponents) : o <= r.first
      BY <1>3, <1>6, <2>2
    <3> QED BY <1>2, <2>2, <3>1, <3>2
  <2>3. CASE r.method = "bits"
    <3>1. ProductsHeld(r.exponents, chunks, task, or_alls, bit_products)
      BY <1>4, <1>5, <2>3 DEF MethodHeld
    <3>2. PICK m \in Nat : Partitions(chunks, m, NumGens, 1)
      BY <1>4, <1>5, <2>3, BitChunks
    <3> TAKE o \in 1 .. Len(r.exponents)
    <3>3. /\ ValidExponents(r.exponents[o]) /\ NumBits(r.exponents[o]) \in Nat
          /\ r.exponents[o].n \in 0 .. NumGens
      BY <1>4, <1>5, <2>3, BitChunks
    <3>4. CombineMultiproducts(or_alls[o], bit_products[o]) = ExponentSum(r.exponents[o])
      BY <1>3, <3>1, <3>2, <3>3, ProductsCombined
    <3> QED BY <1>2, <1>6, <2>3, <3>4
  <2> QED BY <1>6, <2>1, <2>2, <2>3
<1>8. PICK q : q = request'
  OBVIOUS
<1>9. /\ q.exponents = r.exponents /\ q.method = r.method /\ q.first = r.first
      /\ q.res = got /\ Requested(q) /\ q # None
  <2>1. DOMAIN r = {"exponents", "method", "first", "res", "returned"}
    BY <1>4 DEF Requested
  <2>2. DOMAIN q = {"exponents", "method", "first", "res", "returned"}
    BY <1>3, <1>8, <2>1
  <2>3. q # None
    <3>1. "exponents" \in DOMAIN q /\ DOMAIN None = {}
      BY <2>2 DEF None
    <3> QED BY <3>1
  <2>4. /\ q.exponents = r.exponents /\ q.method = r.method /\ q.first = r.first /\ q.res = got
    BY <1>3, <1>8, <2>1
  <2> QED BY <1>4, <2>2, <2>3, <2>4 DEF Requested
<1>10. ResultsRight(q, task')
  BY <1>3, <1>6, <1>7, <1>9 DEF ResultsRight
<1>11. MethodHeld(q, task', next_place', place', partial_bucket_sums', or_alls', bit_products')
  <2>1. ASSUME r.method = "sorted" PROVE SortedHeld(r.exponents, chunks, task, got)
    <3>1. got = r.res
      BY <1>2, <2>1
    <3> QED BY <1>4, <1>5, <2>1, <3>1 DEF MethodHeld
  <2>2. ASSUME r.method = "buckets" PROVE got = r.res
    BY <1>2, <2>2
  <2> QED BY <1>3, <1>4, <1>5, <1>9, <2>1, <2>2 DEF MethodHeld
<1> QED BY <1>8, <1>9, <1>10, <1>11 DEF AsyncInv

(* The invariant of async_compute_multiexponentiation holds throughout,    *)
(* with any generators, exponents, devices, chunks and blocks, whichever   *)
(* method it chooses and in whatever order its chunks finish.              *)
THEOREM AsyncInvariance == AsyncSpec => []AsyncInv
<1>1. AsyncIdle => AsyncInv
  BY DEF AsyncIdle, AsyncInv
<1>2. AsyncInv /\ [AsyncNext]_asyncVars => AsyncInv'
  <2> SUFFICES ASSUME AsyncInv, [AsyncNext]_asyncVars PROVE AsyncInv'
    OBVIOUS
  <2>1. CASE UNCHANGED asyncVars
    BY <2>1, CurrentChunksAre DEF asyncVars, AsyncInv, AsyncIdle
  <2>2. CASE \E exponents \in AsyncCalls : AsyncCall(exponents)
    BY <2>2, CallKeeps
  <2>3. CASE \E c \in DOMAIN task : Launch(c)
    BY <2>3, LaunchKeeps
  <2>4. CASE \E c \in DOMAIN task : SortedDone(c)
    BY <2>4, SortedKeeps
  <2>5. CASE \E c \in DOMAIN task : AccumulateDone(c)
    BY <2>5, AccumulateKeeps
  <2>6. CASE \E c \in DOMAIN task : \E o \in DOMAIN or_alls : Fold(c, o)
    BY <2>6, FoldKeeps
  <2>7. CASE CombineBucketSums
    BY <2>7, CombineKeeps
  <2>8. CASE AsyncReturn
    BY <2>8, ReturnKeeps
  <2> QED BY <2>1, <2>2, <2>3, <2>4, <2>5, <2>6, <2>7, <2>8 DEF AsyncNext, AsyncStep
<1> QED BY <1>1, <1>2, PTL DEF AsyncSpec

(* What async_compute_multiexponentiation returns are the                  *)
(* multiexponentiations of all its outputs.                                *)
THEOREM AsyncResults == AsyncSpec => []AsyncCorrect
<1>1. AsyncInv => AsyncCorrect
  BY DEF AsyncInv, AsyncCorrect, AsyncReturned, Correct, Outputs, ResultsRight
<1> QED BY <1>1, AsyncInvariance, PTL
=============================================================================
