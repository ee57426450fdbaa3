---------------------------- MODULE DataLemmas -----------------------------
(***************************************************************************)
(* What the proofs of several components need of the data they share.      *)
(*                                                                         *)
(*  - Lists without repetition, used at their head: the scheduler's lists  *)
(*    of events (an event is added in front of the others), the free list  *)
(*    of the pinned buffer pool, and the stack of continuations that are   *)
(*    running.                                                             *)
(*  - Sums over finite sets: what a fold over a set computes, whatever the *)
(*    order in which it takes the elements.                                *)
(*  - Loops that compute a value from the one before.                      *)
(*  - Division with remainder, and numbers congruent modulo another.       *)
(*  - Lists of lists, put one after the other.                             *)
(*                                                                         *)
(* Induction is over a set: the numbers, or the finite sets, of which a    *)
(* statement holds.                                                        *)
(***************************************************************************)
EXTENDS Integers, SequencesExt, SequenceTheorems, FiniteSetsExt, FiniteSetTheorems,
        NaturalsInduction, TLAPS

-----------------------------------------------------------------------------
(* Lists *)

(* Pushing a new element on the front of a list. *)
LEMMA ConsProperties ==
  ASSUME NEW S, NEW s \in Seq(S), NEW x \in S
  PROVE  /\ Cons(x, s) \in Seq(S)
         /\ Len(Cons(x, s)) = Len(s) + 1
         /\ Cons(x, s)[1] = x
         /\ \A i \in 1 .. Len(s) : Cons(x, s)[i + 1] = s[i]
         /\ ToSet(Cons(x, s)) = ToSet(s) \cup {x}
         /\ IsInjective(s) /\ x \notin ToSet(s) => IsInjective(Cons(x, s))
<1> DEFINE t == Cons(x, s)
<1>1. /\ t \in Seq(S)
      /\ Len(t) = Len(s) + 1
      /\ \A i \in 1 .. Len(s) + 1 : t[i] = IF i = 1 THEN x ELSE s[i - 1]
  <2>1. /\ <<x>> \in Seq(S)
        /\ Len(<<x>>) = 1
        /\ <<x>>[1] = x
    OBVIOUS
  <2>2. /\ t \in Seq(S)
        /\ Len(t) = 1 + Len(s)
        /\ \A i \in 1 .. 1 + Len(s) : t[i] = IF i <= 1 THEN <<x>>[i] ELSE s[i - 1]
    BY <2>1, ConcatProperties DEF Cons
  <2> QED
    BY <2>1, <2>2, LenProperties
<1>2. Len(s) \in Nat /\ DOMAIN s = 1 .. Len(s) /\ DOMAIN t = 1 .. Len(s) + 1
  BY <1>1, LenProperties
<1>3. \A i \in 1 .. Len(s) : i + 1 \in 1 .. Len(s) + 1 /\ t[i + 1] = s[i]
  BY <1>1, <1>2
<1>4. ToSet(t) = ToSet(s) \cup {x}
  <2>1. \A i \in DOMAIN t : t[i] = x \/ (i - 1 \in DOMAIN s /\ t[i] = s[i - 1])
    BY <1>1, <1>2
  <2>2. x \in ToSet(t) /\ \A i \in DOMAIN s : s[i] \in ToSet(t)
    <3>1. 1 \in DOMAIN t /\ t[1] = x
      BY <1>1, <1>2
    <3>2. \A i \in DOMAIN s : i + 1 \in DOMAIN t /\ t[i + 1] = s[i]
      BY <1>2, <1>3
    <3> QED
      BY <3>1, <3>2 DEF ToSet
  <2> QED
    BY <2>1, <2>2 DEF ToSet
<1>5. ASSUME IsInjective(s), x \notin ToSet(s)
      PROVE  IsInjective(t)
  <2>1. \A i \in 1 .. Len(s) : s[i] # x
    BY <1>2, <1>5 DEF ToSet
  <2>2. \A i \in 1 .. Len(s) + 1 : i # 1 => i - 1 \in 1 .. Len(s) /\ t[i] = s[i - 1]
    BY <1>1, <1>2
  <2>3. t[1] = x
    BY <1>1, <1>2
  <2>4. \A i, j \in 1 .. Len(s) : s[i] = s[j] => i = j
    BY <1>2, <1>5 DEF IsInjective
  <2>5. ASSUME NEW i \in 1 .. Len(s) + 1, NEW j \in 1 .. Len(s) + 1, t[i] = t[j]
        PROVE  i = j
    <3>1. CASE i = 1 \/ j = 1
      BY <2>1, <2>2, <2>3, <2>5, <3>1
    <3>2. CASE i # 1 /\ j # 1
      <4>1. i - 1 = j - 1
        BY <2>2, <2>4, <2>5, <3>2
      <4> QED
        BY <1>2, <4>1
    <3> QED
      BY <3>1, <3>2
  <2> QED
    BY <1>2, <2>5 DEF IsInjective
<1> HIDE DEF t
<1> QED
  BY <1>1, <1>2, <1>3, <1>4, <1>5 DEF t

(* Taking the element at the front of a list. *)
LEMMA TailOfList ==
  ASSUME NEW S, NEW s \in Seq(S), s # <<>>
  PROVE  /\ Head(s) \in S
         /\ Head(s) \in ToSet(s)
         /\ Tail(s) \in Seq(S)
         /\ IsInjective(s) => /\ IsInjective(Tail(s))
                              /\ ToSet(Tail(s)) = ToSet(s) \ {Head(s)}
<1> DEFINE t == Tail(s)
<1>1. /\ Head(s) \in S
      /\ t \in Seq(S)
      /\ Len(t) = Len(s) - 1
      /\ \A i \in 1 .. Len(t) : t[i] = s[i + 1]
  BY HeadTailProperties
<1>2. /\ Len(s) \in Nat /\ DOMAIN s = 1 .. Len(s)
      /\ Len(t) \in Nat /\ DOMAIN t = 1 .. Len(t)
  BY <1>1, LenProperties
<1>3. Len(s) # 0
  BY EmptySeq
<1>4. Head(s) = s[1]
  OBVIOUS
<1>5. 1 \in DOMAIN s /\ Head(s) \in ToSet(s)
  BY <1>2, <1>3, <1>4 DEF ToSet
<1>6. ASSUME IsInjective(s)
      PROVE  IsInjective(t) /\ ToSet(t) = ToSet(s) \ {Head(s)}
  <2>1. \A i \in DOMAIN t : i + 1 \in DOMAIN s /\ t[i] = s[i + 1] /\ i + 1 # 1
    BY <1>1, <1>2
  <2>2. \A i, j \in DOMAIN s : s[i] = s[j] => i = j
    BY <1>6 DEF IsInjective
  <2>3. IsInjective(t)
    <3> SUFFICES ASSUME NEW i \in DOMAIN t, NEW j \in DOMAIN t, t[i] = t[j]
                 PROVE  i = j
      BY DEF IsInjective
    <3>1. i + 1 = j + 1
      BY <2>1, <2>2
    <3> QED
      BY <1>2, <3>1
  <2>4. \A i \in DOMAIN t : t[i] \in ToSet(s) /\ t[i] # Head(s)
    BY <1>4, <1>5, <2>1, <2>2 DEF ToSet
  <2>5. \A i \in DOMAIN s : s[i] # Head(s) => i - 1 \in DOMAIN t /\ t[i - 1] = s[i]
    BY <1>1, <1>2, <1>4
  <2> QED
    BY <2>3, <2>4, <2>5 DEF ToSet
<1> HIDE DEF t
<1> QED
  BY <1>1, <1>5, <1>6 DEF t

-----------------------------------------------------------------------------
(* Induction *)

(* Induction over the natural numbers, for a set of numbers *)
LEMMA NatSetInduction ==
  ASSUME NEW S, 0 \in S, \A n \in Nat : n \in S => n + 1 \in S
  PROVE  Nat \subseteq S
<1> DEFINE T == Nat \ S
<1> SUFFICES ASSUME T # {} PROVE FALSE
  OBVIOUS
<1>1. PICK m \in T : \A k \in T : ~ (<<k, m>> \in OpToRel(<, Nat))
  BY NatLessThanWellFounded, WFMin
<1>2. m # 0 /\ m \in Nat
  OBVIOUS
<1>3. m - 1 \in Nat /\ (m - 1) + 1 = m /\ m - 1 < m
  BY <1>2
<1>4. m - 1 \in T
  BY <1>3
<1>5. ~ (m - 1 < m)
  BY <1>1, <1>2, <1>3, <1>4 DEF OpToRel
<1> QED BY <1>3, <1>5

(* Induction over the subsets of a finite set, for a set of subsets *)
LEMMA FiniteSetInduction ==
  ASSUME NEW S, IsFiniteSet(S), NEW G, {} \in G,
         \A T \in SUBSET S, x \in S : T \in G /\ x \notin T => T \cup {x} \in G
  PROVE  S \in G
<1>0. \A T \in SUBSET S : IsFiniteSet(T) /\ Cardinality(T) \in Nat
  BY FS_Subset, FS_CardinalityType
<1> DEFINE N == {n \in Nat : \A T \in SUBSET S : Cardinality(T) = n => T \in G}
<1>1. 0 \in N
  BY <1>0, FS_EmptySet
<1>2. ASSUME NEW n \in Nat, n \in N PROVE n + 1 \in N
  <2> SUFFICES ASSUME NEW T \in SUBSET S, Cardinality(T) = n + 1 PROVE T \in G
    OBVIOUS
  <2>1. T # {}
    BY FS_EmptySet, n + 1 # 0
  <2>2. PICK x \in T : TRUE
    BY <2>1
  <2>3. Cardinality(T \ {x}) = n
    <3>1. IsFiniteSet(T) /\ Cardinality(T) = n + 1
      BY <1>0
    <3>2. Cardinality(T \ {x}) = Cardinality(T) - 1
      BY <3>1, FS_RemoveElement
    <3> QED BY <3>1, <3>2
  <2>4. T \ {x} \in G
    BY <1>2, <2>3
  <2>5. (T \ {x}) \cup {x} = T
    OBVIOUS
  <2> QED BY <2>2, <2>4, <2>5
<1> HIDE DEF N
<1>3. Nat \subseteq N
  BY <1>1, <1>2, NatSetInduction
<1> QED BY <1>0, <1>3 DEF N

-----------------------------------------------------------------------------
(* Folds over finite sets *)

(* ch chooses an element of every set. *)
Chooses(ch, S) == \A s \in SUBSET S : s # {} => ch[s] \in s

(* it takes the elements off one after the other. *)
IsFold(it, S, base, step, ch) ==
  \A s \in SUBSET S : it[s] = IF s = {} THEN base ELSE step[ch[s]][it[s \ {ch[s]}]]

(* A fold over a finite set exists: it takes the elements off one by one.  *)
LEMMA FoldExists ==
  ASSUME NEW S, IsFiniteSet(S), NEW V, NEW base \in V, NEW step \in [S -> [V -> V]],
         NEW ch, Chooses(ch, S)
  PROVE  \E it \in [SUBSET S -> V] : IsFold(it, S, base, step, ch)
<1> USE DEF Chooses
<1>0. \A T \in SUBSET S : IsFiniteSet(T) /\ Cardinality(T) \in Nat /\ Cardinality(T) <= Cardinality(S)
  BY FS_Subset, FS_CardinalityType
<1> DEFINE Body(it, s) == IF s = {} THEN base ELSE step[ch[s]][it[s \ {ch[s]}]]
           N == {n \in Nat : \E it \in [SUBSET S -> V] :
                   \A s \in SUBSET S : Cardinality(s) <= n => it[s] = Body(it, s)}
<1>2. ASSUME NEW it \in [SUBSET S -> V], NEW s \in SUBSET S
      PROVE  Body(it, s) \in V
  <2>1. CASE s = {}
    BY <2>1
  <2>2. CASE s # {}
    <3>1. ch[s] \in S /\ s \ {ch[s]} \in SUBSET S
      BY <2>2
    <3>2. it[s \ {ch[s]}] \in V
      BY <3>1
    <3> QED BY <2>2, <3>1, <3>2
  <2> QED BY <2>1, <2>2
<1>3. 0 \in N
  <2> DEFINE it == [s \in SUBSET S |-> base]
  <2>1. \A s \in SUBSET S : Cardinality(s) <= 0 => s = {}
    BY <1>0, FS_EmptySet
  <2>2. \A s \in SUBSET S : Cardinality(s) <= 0 => it[s] = Body(it, s)
    BY <2>1
  <2>3. it \in [SUBSET S -> V]
    OBVIOUS
  <2> QED BY <2>2, <2>3
<1>4. ASSUME NEW n \in Nat, n \in N PROVE n + 1 \in N
  <2>1. PICK it \in [SUBSET S -> V] :
               \A s \in SUBSET S : Cardinality(s) <= n => it[s] = Body(it, s)
    BY <1>4
  <2> DEFINE jt == [s \in SUBSET S |-> Body(it, s)]
  <2>2. jt \in [SUBSET S -> V]
    BY <1>2
  <2>3. ASSUME NEW s \in SUBSET S, Cardinality(s) <= n + 1
        PROVE  jt[s] = Body(jt, s)
    <3>1. CASE s = {}
      BY <3>1
    <3>2. CASE s # {}
      <4>1. ch[s] \in s /\ s \ {ch[s]} \in SUBSET S
        BY <3>2
      <4>2. Cardinality(s \ {ch[s]}) = Cardinality(s) - 1
        BY <1>0, <4>1, FS_RemoveElement
      <4>3. Cardinality(s \ {ch[s]}) <= n
        BY <1>0, <2>3, <4>2
      <4>4. jt[s \ {ch[s]}] = it[s \ {ch[s]}]
        BY <2>1, <4>1, <4>3
      <4> QED BY <3>2, <4>4
    <3> QED BY <3>1, <3>2
  <2> HIDE DEF jt, Body
  <2>4. \A s \in SUBSET S : Cardinality(s) <= n + 1 => jt[s] = Body(jt, s)
    BY <2>3
  <2> QED BY <2>2, <2>4
<1> HIDE DEF N
<1>5. Nat \subseteq N
  BY <1>3, <1>4, NatSetInduction
<1>6. Cardinality(S) \in N
  BY <1>0, <1>5
<1> QED BY <1>0, <1>6 DEF N, IsFold

(* It is determined by what it takes off, whatever set it is a part of. *)
LEMMA FoldUnique ==
  ASSUME NEW S, IsFiniteSet(S), NEW base, NEW step,
         NEW ch, Chooses(ch, S),
         NEW a, IsFold(a, S, base, step, ch), NEW b, IsFold(b, S, base, step, ch)
  PROVE  a[S] = b[S]
<1> USE DEF Chooses, IsFold
<1>0. \A T \in SUBSET S : IsFiniteSet(T) /\ Cardinality(T) \in Nat
  BY FS_Subset, FS_CardinalityType
<1> DEFINE N == {n \in Nat : \A T \in SUBSET S : Cardinality(T) = n => a[T] = b[T]}
<1>1. 0 \in N
  <2>1. \A T \in SUBSET S : Cardinality(T) = 0 => T = {}
    BY <1>0, FS_EmptySet
  <2> QED BY <2>1
<1>2. ASSUME NEW n \in Nat, n \in N PROVE n + 1 \in N
  <2> SUFFICES ASSUME NEW T \in SUBSET S, Cardinality(T) = n + 1 PROVE a[T] = b[T]
    OBVIOUS
  <2>1. T # {}
    BY FS_EmptySet, n + 1 # 0
  <2>2. ch[T] \in T /\ T \ {ch[T]} \in SUBSET S
    BY <2>1
  <2>3. Cardinality(T \ {ch[T]}) = n
    <3>1. Cardinality(T \ {ch[T]}) = (n + 1) - 1
      BY <1>0, <2>2, FS_RemoveElement
    <3> QED BY <3>1
  <2>4. a[T \ {ch[T]}] = b[T \ {ch[T]}]
    BY <1>2, <2>2, <2>3
  <2> QED BY <2>1, <2>4
<1> HIDE DEF N
<1>3. Nat \subseteq N
  BY <1>1, <1>2, NatSetInduction
<1>4. Cardinality(S) \in N
  BY <1>0, <1>3
<1> QED BY <1>4 DEF N

-----------------------------------------------------------------------------
(* Sums of a function's values over a finite set *)

Pick(s) == CHOOSE x \in s : TRUE

(* it[s] is the sum over s, for the subsets s of T. *)
IsSum(it, f, T) ==
  \A s \in SUBSET T : it[s] = IF s = {} THEN 0 ELSE f[Pick(s)] + it[s \ {Pick(s)}]

(* Pick(s) is an element of s. *)
LEMMA PickIsIn ==
  ASSUME NEW s, s # {}
  PROVE  Pick(s) \in s
BY DEF Pick

(* Two such functions agree. *)
LEMMA SumUnique ==
  ASSUME NEW f, NEW T, IsFiniteSet(T), NEW a, IsSum(a, f, T), NEW b, IsSum(b, f, T)
  PROVE  a[T] = b[T]
<1> DEFINE W == {a[s] : s \in SUBSET T} \cup {b[s] : s \in SUBSET T}
           step == [x \in T |-> [v \in W |-> f[x] + v]]
           ch == [s \in SUBSET T |-> Pick(s)]
<1>1. ASSUME NEW x \in T, NEW s \in SUBSET T
      PROVE  step[x][a[s]] = f[x] + a[s] /\ step[x][b[s]] = f[x] + b[s]
  OBVIOUS
<1>2. ASSUME NEW s \in SUBSET T
      PROVE  ch[s] = Pick(s) /\ (s # {} => ch[s] \in s /\ ch[s] \in T /\ s \ {ch[s]} \in SUBSET T)
  BY PickIsIn
<1> HIDE DEF step, ch
<1>3. Chooses(ch, T)
  BY <1>2 DEF Chooses
<1>4. ASSUME NEW s \in SUBSET T, s # {}
      PROVE  /\ a[s] = step[ch[s]][a[s \ {ch[s]}]]
             /\ b[s] = step[ch[s]][b[s \ {ch[s]}]]
  <2>1. a[s] = f[ch[s]] + a[s \ {ch[s]}]
    BY <1>2, <1>4 DEF IsSum
  <2>2. b[s] = f[ch[s]] + b[s \ {ch[s]}]
    BY <1>2, <1>4 DEF IsSum
  <2> QED BY <1>1, <1>2, <1>4, <2>1, <2>2
<1>5. a[{}] = 0 /\ b[{}] = 0
  BY DEF IsSum
<1>6. IsFold(a, T, 0, step, ch)
  BY <1>4, <1>5 DEF IsFold
<1>7. IsFold(b, T, 0, step, ch)
  BY <1>4, <1>5 DEF IsFold
<1> QED BY <1>3, <1>6, <1>7, FoldUnique

(* The library's sum is such a function's value. *)
LEMMA SumIteration ==
  ASSUME NEW D, NEW f \in [D -> Int], NEW T \in SUBSET D, IsFiniteSet(T)
  PROVE  \E it \in [SUBSET T -> Int] : IsSum(it, f, T) /\ SumFunctionOnSet(f, T) = it[T]
<1> DEFINE Body(it, s) == IF s = {} THEN 0 ELSE f[Pick(s)] + it[s \ {Pick(s)}]
           iter == CHOOSE it : it = [s \in SUBSET T |-> Body(it, s)]
           step == [x \in T |-> [v \in Int |-> f[x] + v]]
           ch == [s \in SUBSET T |-> Pick(s)]
<1>1. SumFunctionOnSet(f, T) = iter[T]
  BY DEF SumFunctionOnSet, FoldFunctionOnSet, MapThenFoldSet, Pick
<1>2. step \in [T -> [Int -> Int]] /\ 0 \in Int
  OBVIOUS
<1>3. ASSUME NEW s \in SUBSET T
      PROVE  ch[s] = Pick(s) /\ (s # {} => ch[s] \in s /\ ch[s] \in T /\ s \ {ch[s]} \in SUBSET T)
  BY PickIsIn
<1>4. \A x \in T, v \in Int : step[x][v] = f[x] + v
  OBVIOUS
<1> HIDE DEF step, ch
<1>5. Chooses(ch, T)
  BY <1>3 DEF Chooses
<1>6. PICK it \in [SUBSET T -> Int] : IsFold(it, T, 0, step, ch)
  BY <1>2, <1>5, FoldExists
<1>7. ASSUME NEW s \in SUBSET T PROVE it[s] = Body(it, s)
  <2>1. CASE s = {}
    BY <1>6, <2>1 DEF IsFold
  <2>2. CASE s # {}
    <3>1. it[s] = step[ch[s]][it[s \ {ch[s]}]]
      BY <1>6, <2>2 DEF IsFold
    <3>2. it[s \ {ch[s]}] \in Int
      BY <1>3, <2>2
    <3>3. it[s] = f[ch[s]] + it[s \ {ch[s]}]
      BY <1>3, <1>4, <2>2, <3>1, <3>2
    <3> QED BY <1>3, <2>2, <3>3
  <2> QED BY <2>1, <2>2
<1>8. it = [s \in SUBSET T |-> Body(it, s)]
  BY <1>7
<1>9. iter = [s \in SUBSET T |-> Body(iter, s)]
  BY <1>8
<1> HIDE DEF iter
<1>10. IsSum(it, f, T) /\ IsSum(iter, f, T)
  BY <1>8, <1>9 DEF IsSum
<1>11. it[T] = iter[T]
  BY <1>10, SumUnique
<1> QED BY <1>1, <1>10, <1>11

(* An element is taken off; the others make up the sum over the others. *)
LEMMA SumStep ==
  ASSUME NEW D, NEW f \in [D -> Int], NEW T \in SUBSET D, IsFiniteSet(T)
  PROVE  /\ SumFunctionOnSet(f, T) \in Int
         /\ T = {} => SumFunctionOnSet(f, T) = 0
         /\ T # {} => /\ Pick(T) \in T
                      /\ SumFunctionOnSet(f, T) = f[Pick(T)] + SumFunctionOnSet(f, T \ {Pick(T)})
<1>0. \A R \in SUBSET D : IsFiniteSet(R) =>
        \E it \in [SUBSET R -> Int] : IsSum(it, f, R) /\ SumFunctionOnSet(f, R) = it[R]
  BY SumIteration
<1>1. PICK it \in [SUBSET T -> Int] : IsSum(it, f, T) /\ SumFunctionOnSet(f, T) = it[T]
  BY <1>0
<1>2. T \in SUBSET T
  OBVIOUS
<1>3. ASSUME T # {}
      PROVE  SumFunctionOnSet(f, T) = f[Pick(T)] + SumFunctionOnSet(f, T \ {Pick(T)})
  <2> DEFINE R == T \ {Pick(T)}
  <2>1. Pick(T) \in T /\ R \in SUBSET D /\ R \in SUBSET T
    BY <1>3, PickIsIn
  <2>2. IsFiniteSet(R)
    BY <2>1, FS_Subset
  <2> HIDE DEF R
  <2>3. PICK jt \in [SUBSET R -> Int] : IsSum(jt, f, R) /\ SumFunctionOnSet(f, R) = jt[R]
    BY <1>0, <2>1, <2>2
  <2>4. IsSum(it, f, R)
    BY <1>1, <2>1 DEF IsSum
  <2>5. it[R] = jt[R]
    BY <2>2, <2>3, <2>4, SumUnique
  <2>6. it[T] = f[Pick(T)] + it[R]
    BY <1>1, <1>2, <1>3 DEF IsSum, R
  <2> QED BY <1>1, <2>3, <2>5, <2>6 DEF R
<1>4. SumFunctionOnSet(f, T) \in Int /\ (T = {} => SumFunctionOnSet(f, T) = 0)
  BY <1>1, <1>2 DEF IsSum
<1> QED BY <1>3, <1>4, PickIsIn

-----------------------------------------------------------------------------
(* Division with remainder, and congruent numbers *)

(* Division with remainder has one result *)
LEMMA DivisionUnique ==
  ASSUME NEW m \in Nat \ {0}, NEW a \in Int, NEW b \in Int,
         NEW r \in 0 .. m - 1, NEW s \in 0 .. m - 1, a * m + r = b * m + s
  PROVE  a = b /\ r = s
<1>1. ASSUME NEW x \in Int, NEW y \in Int, x < y
      PROVE  x * m + m <= y * m
  <2>1. (x + 1) * m <= y * m
    BY <1>1, SMTT(30)
  <2>2. (x + 1) * m = x * m + m
    BY SMTT(30)
  <2>3. x * m \in Int /\ y * m \in Int /\ (x + 1) * m \in Int
    BY SMT
  <2> QED BY <2>1, <2>2, <2>3
<1>2. a * m \in Int /\ b * m \in Int
  BY SMT
<1>3. ~ (a < b)
  BY <1>1, <1>2, SMT
<1>4. ~ (b < a)
  BY <1>1, <1>2, SMT
<1>5. a = b
  BY <1>3, <1>4
<1> QED BY <1>2, <1>5

(* The remainder is below the divisor, and the rest a multiple of it. *)
LEMMA ModRange ==
  ASSUME NEW m \in Nat \ {0}, NEW a \in Int
  PROVE  (a % m) \in 0 .. m - 1 /\ \E q \in Int : a = q * m + (a % m)
<1> DEFINE q == a \div m
           r == a % m
<1>1. r \in 0 .. m - 1 /\ q \in Int /\ a = m * q + r
  BY SMTT(30)
<1>2. m * q = q * m
  BY <1>1, SMT
<1> HIDE DEF q
<1> QED BY <1>1, <1>2

(* A number below the divisor is its own remainder. *)
LEMMA ModSmall ==
  ASSUME NEW m \in Nat \ {0}, NEW a \in 0 .. m - 1
  PROVE  (a % m) = a
<1>0. a \in Int
  OBVIOUS
<1>1. PICK q \in Int : a = q * m + (a % m)
  BY <1>0, ModRange
<1>2. 0 * m + a = q * m + (a % m) /\ (a % m) \in 0 .. m - 1 /\ 0 \in Int
  BY <1>0, <1>1, ModRange
<1> QED BY <1>2, DivisionUnique

(* Numbers are congruent if they differ by a multiple. *)
Congruent(a, b, m) == \E k \in Int : a = b + k * m

(* Numbers are congruent exactly if they have the same remainder. *)
LEMMA CongruentMod ==
  ASSUME NEW m \in Nat \ {0}, NEW a \in Int, NEW b \in Int
  PROVE  Congruent(a, b, m) <=> (a % m) = (b % m)
<1> DEFINE c == a % m
           d == b % m
<1>1. PICK q \in Int : a = q * m + c
  BY ModRange
<1>2. PICK r \in Int : b = r * m + d
  BY ModRange
<1>3. c \in 0 .. m - 1 /\ d \in 0 .. m - 1
  BY ModRange
<1> HIDE DEF c, d
<1>4. ASSUME c = d PROVE Congruent(a, b, m)
  <2>1. a = b + (q - r) * m
    BY <1>1, <1>2, <1>3, <1>4, SMTT(30)
  <2> QED BY <2>1 DEF Congruent
<1>5. ASSUME NEW k \in Int, a = b + k * m PROVE c = d
  <2>1. q * m + c = (r + k) * m + d
    BY <1>1, <1>2, <1>3, <1>5, SMTT(30)
  <2>2. r + k \in Int
    OBVIOUS
  <2> HIDE DEF Congruent
  <2> QED BY <1>3, <2>1, <2>2, DivisionUnique
<1> QED BY <1>4, <1>5 DEF Congruent, c, d

(* Sums and products of congruent numbers *)
LEMMA CongruentSum ==
  ASSUME NEW m \in Nat \ {0}, NEW a \in Int, NEW b \in Int, NEW c \in Int, NEW d \in Int,
         Congruent(a, b, m), Congruent(c, d, m)
  PROVE  Congruent(a + c, b + d, m)
<1>1. PICK k \in Int : a = b + k * m
  BY DEF Congruent
<1>2. PICK l \in Int : c = d + l * m
  BY DEF Congruent
<1>3. a + c = (b + d) + (k + l) * m
  BY <1>1, <1>2, SMTT(30)
<1>4. k + l \in Int
  OBVIOUS
<1> QED BY <1>3, <1>4 DEF Congruent

(* Products of congruent numbers are congruent. *)
LEMMA CongruentProduct ==
  ASSUME NEW m \in Nat \ {0}, NEW a \in Int, NEW b \in Int, NEW c \in Int, NEW d \in Int,
         Congruent(a, b, m), Congruent(c, d, m)
  PROVE  Congruent(a * c, b * d, m)
<1>1. PICK k \in Int : a = b + k * m
  BY DEF Congruent
<1>2. PICK l \in Int : c = d + l * m
  BY DEF Congruent
<1>3. a * c = b * d + (k * d + l * b + k * l * m) * m
  BY <1>1, <1>2, SMTT(30)
<1>4. k * d + l * b + k * l * m \in Int
  BY SMT
<1> QED BY <1>3, <1>4 DEF Congruent

(* A number is congruent to itself and to its remainder. *)
LEMMA CongruentRemainder ==
  ASSUME NEW m \in Nat \ {0}, NEW a \in Int
  PROVE  Congruent(a, a, m) /\ Congruent(a % m, a, m) /\ Congruent(a, a % m, m)
<1> DEFINE c == a % m
<1>1. c \in 0 .. m - 1 /\ c \in Int
  BY ModRange
<1>2. c % m = c
  BY <1>1, ModSmall
<1> QED BY <1>1, <1>2, CongruentMod

(* Congruence is symmetric and transitive. *)
LEMMA CongruentEquivalence ==
  ASSUME NEW m \in Nat \ {0}, NEW a \in Int, NEW b \in Int, NEW c \in Int, Congruent(a, b, m)
  PROVE  Congruent(b, a, m) /\ (Congruent(b, c, m) => Congruent(a, c, m))
BY CongruentMod

(* A number is the quotient times the divisor, and the remainder. *)
LEMMA DivisionRange ==
  ASSUME NEW m \in Nat \ {0}, NEW a \in Int
  PROVE  /\ (a \div m) \in Int /\ (a % m) \in 0 .. m - 1
         /\ a = (a \div m) * m + (a % m)
<1> DEFINE q == a \div m
           r == a % m
<1>1. r \in 0 .. m - 1 /\ q \in Int /\ a = m * q + r
  BY SMTT(30)
<1>2. m * q = q * m
  BY <1>1, SMT
<1> QED BY <1>1, <1>2

(* The quotient and the remainder are what they have to be. *)
LEMMA DivisionIs ==
  ASSUME NEW m \in Nat \ {0}, NEW q \in Int, NEW r \in 0 .. m - 1
  PROVE  /\ ((q * m + r) \div m) = q
         /\ ((q * m + r) % m) = r
<1> DEFINE a == q * m + r
<1>1. a \in Int
  BY SMT
<1>2. /\ (a \div m) \in Int /\ (a % m) \in 0 .. m - 1
      /\ a = (a \div m) * m + (a % m)
  BY <1>1, DivisionRange
<1>3. (a \div m) * m + (a % m) = q * m + r
  BY <1>2
<1> HIDE DEF a
<1>4. (a \div m) = q /\ (a % m) = r
  BY <1>2, <1>3, DivisionUnique
<1> QED BY <1>4 DEF a

(* A multiple of the divisor adds to the quotient only. *)
LEMMA DivisionAdds ==
  ASSUME NEW m \in Nat \ {0}, NEW q \in Int, NEW a \in Int
  PROVE  /\ ((q * m + a) \div m) = q + (a \div m)
         /\ ((q * m + a) % m) = (a % m)
<1> DEFINE b == a \div m
           r == a % m
<1>1. b \in Int /\ r \in 0 .. m - 1 /\ a = b * m + r
  BY DivisionRange
<1> HIDE DEF b, r
<1>2. q * m + a = (q + b) * m + r
  BY <1>1, SMTT(30)
<1>3. q + b \in Int
  BY <1>1
<1>4. (((q + b) * m + r) \div m) = q + b /\ (((q + b) * m + r) % m) = r
  BY <1>1, <1>3, DivisionIs
<1> QED BY <1>2, <1>4 DEF b, r

(* The quotient of a number below a multiple of the divisor *)
LEMMA DivisionBelow ==
  ASSUME NEW m \in Nat \ {0}, NEW n \in Nat, NEW a \in 0 .. n * m - 1
  PROVE  (a \div m) \in 0 .. n - 1
<1> DEFINE b == a \div m
           r == a % m
<1>1. b \in Int /\ r \in 0 .. m - 1 /\ a = b * m + r
  BY DivisionRange
<1> HIDE DEF b, r
<1>2. n * m \in Nat
  BY SMT
<1>3. ~ (b < 0)
  <2>1. ASSUME b < 0 PROVE FALSE
    <3>1. b * m <= (0 - 1) * m
      BY <1>1, <2>1, SMTT(30)
    <3> QED BY <1>1, <1>2, <3>1, SMTT(30)
  <2> QED BY <2>1
<1>4. ~ (b >= n)
  <2>1. ASSUME b >= n PROVE FALSE
    <3>1. b * m >= n * m
      BY <1>1, <2>1, SMTT(30)
    <3> QED BY <1>1, <1>2, <3>1, SMTT(30)
  <2> QED BY <2>1
<1> QED BY <1>1, <1>3, <1>4 DEF b

-----------------------------------------------------------------------------
(* More about sums *)

(* Any element can be taken off. *)
LEMMA SumOut ==
  ASSUME NEW D, NEW f \in [D -> Int], NEW T \in SUBSET D, IsFiniteSet(T), NEW x \in T
  PROVE  SumFunctionOnSet(f, T) = f[x] + SumFunctionOnSet(f, T \ {x})
<1>0. \A s \in SUBSET T : s \in SUBSET D /\ IsFiniteSet(s) /\ Cardinality(s) \in Nat
                          /\ SumFunctionOnSet(f, s) \in Int
  BY FS_Subset, FS_CardinalityType, SumStep
<1> DEFINE N == {n \in Nat : \A s \in SUBSET T : Cardinality(s) = n =>
                   \A y \in s : SumFunctionOnSet(f, s) = f[y] + SumFunctionOnSet(f, s \ {y})}
<1>1. 0 \in N
  <2>1. \A s \in SUBSET T : Cardinality(s) = 0 => s = {}
    BY <1>0, FS_EmptySet
  <2> QED BY <2>1
<1>2. ASSUME NEW n \in Nat, n \in N PROVE n + 1 \in N
  <2> SUFFICES ASSUME NEW s \in SUBSET T, Cardinality(s) = n + 1, NEW y \in s
               PROVE  SumFunctionOnSet(f, s) = f[y] + SumFunctionOnSet(f, s \ {y})
    OBVIOUS
  <2> DEFINE c == Pick(s)
             r == s \ {c, y}
  <2>1. c \in s /\ SumFunctionOnSet(f, s) = f[c] + SumFunctionOnSet(f, s \ {c})
    BY <1>0, SumStep
  <2> HIDE DEF c
  <2>2. CASE c = y
    BY <2>1, <2>2
  <2>3. CASE c # y
    <3>1. s \ {c} \in SUBSET T /\ s \ {y} \in SUBSET T /\ r \in SUBSET T
      OBVIOUS
    <3>2. Cardinality(s \ {c}) = Cardinality(s) - 1 /\ Cardinality(s \ {y}) = Cardinality(s) - 1
      BY <1>0, <2>1, FS_RemoveElement
    <3>3. Cardinality(s \ {c}) = n /\ Cardinality(s \ {y}) = n
      BY <1>0, <1>2, <3>2
    <3>4. SumFunctionOnSet(f, s \ {c}) = f[y] + SumFunctionOnSet(f, r)
      <4>1. y \in s \ {c} /\ (s \ {c}) \ {y} = r
        BY <2>3
      <4> QED BY <1>2, <3>1, <3>3, <4>1
    <3>5. SumFunctionOnSet(f, s \ {y}) = f[c] + SumFunctionOnSet(f, r)
      <4>1. c \in s \ {y} /\ (s \ {y}) \ {c} = r
        BY <2>1, <2>3
      <4> QED BY <1>2, <3>1, <3>3, <4>1
    <3>6. f[c] \in Int /\ f[y] \in Int /\ SumFunctionOnSet(f, r) \in Int
      BY <1>0, <2>1, <3>1
    <3> QED BY <2>1, <3>4, <3>5, <3>6
  <2> QED BY <2>2, <2>3
<1> HIDE DEF N
<1>3. Nat \subseteq N
  BY <1>1, <1>2, NatSetInduction
<1>4. Cardinality(T) \in N
  BY <1>0, <1>3
<1> QED BY <1>4 DEF N

(* The sum over a set and one more element *)
LEMMA SumIn ==
  ASSUME NEW D, NEW f \in [D -> Int], NEW T \in SUBSET D, IsFiniteSet(T), NEW x \in D, x \notin T
  PROVE  /\ IsFiniteSet(T \cup {x})
         /\ SumFunctionOnSet(f, T \cup {x}) = f[x] + SumFunctionOnSet(f, T)
<1>1. IsFiniteSet(T \cup {x}) /\ T \cup {x} \in SUBSET D /\ x \in T \cup {x} /\ (T \cup {x}) \ {x} = T
  BY FS_AddElement
<1> QED BY <1>1, SumOut

(* The sum over no elements is 0. *)
LEMMA SumEmpty ==
  ASSUME NEW D, NEW f \in [D -> Int]
  PROVE  SumFunctionOnSet(f, {}) = 0
BY FS_EmptySet, SumStep

(* The sum over one element is its value. *)
LEMMA SumOne ==
  ASSUME NEW D, NEW f \in [D -> Int], NEW x \in D
  PROVE  SumFunctionOnSet(f, {x}) = f[x]
<1>1. IsFiniteSet({x}) /\ {x} \in SUBSET D /\ x \in {x} /\ {x} \ {x} = {}
  BY FS_Singleton
<1>2. SumFunctionOnSet(f, {x}) = f[x] + SumFunctionOnSet(f, {x} \ {x})
  BY <1>1, SumOut
<1>3. SumFunctionOnSet(f, {}) = 0
  BY SumEmpty
<1>4. f[x] \in Int /\ SumFunctionOnSet(f, {x} \ {x}) = 0
  BY <1>1, <1>3
<1> QED BY <1>2, <1>4

(* A sum depends on the values in the set only. *)
LEMMA SumSame ==
  ASSUME NEW D, NEW f \in [D -> Int], NEW E, NEW g \in [E -> Int],
         NEW T, T \subseteq D, T \subseteq E, IsFiniteSet(T), \A x \in T : f[x] = g[x]
  PROVE  SumFunctionOnSet(f, T) = SumFunctionOnSet(g, T)
<1>0. \A s \in SUBSET D, x \in D : IsFiniteSet(s) /\ x \notin s =>
        /\ IsFiniteSet(s \cup {x})
        /\ SumFunctionOnSet(f, s \cup {x}) = f[x] + SumFunctionOnSet(f, s)
  BY SumIn, SMTT(30)
<1>3. \A s \in SUBSET E, x \in E : IsFiniteSet(s) /\ x \notin s =>
        /\ IsFiniteSet(s \cup {x})
        /\ SumFunctionOnSet(g, s \cup {x}) = g[x] + SumFunctionOnSet(g, s)
  BY SumIn
<1> DEFINE G == {s \in SUBSET T : SumFunctionOnSet(f, s) = SumFunctionOnSet(g, s)}
<1>1. {} \in G
  BY SumEmpty
<1>2. ASSUME NEW s \in SUBSET T, NEW x \in T, s \in G, x \notin s
      PROVE  s \cup {x} \in G
  <2>1. IsFiniteSet(s) /\ s \in SUBSET D /\ s \in SUBSET E /\ x \in D /\ x \in E
    BY FS_Subset
  <2>2. SumFunctionOnSet(f, s \cup {x}) = f[x] + SumFunctionOnSet(f, s)
    BY <1>0, <1>2, <2>1
  <2>3. SumFunctionOnSet(g, s \cup {x}) = g[x] + SumFunctionOnSet(g, s)
    BY <1>3, <1>2, <2>1
  <2> QED BY <1>2, <2>2, <2>3
<1> HIDE DEF G
<1>4. T \in G
  BY <1>1, <1>2, FiniteSetInduction
<1> QED BY <1>4 DEF G

(* A sum of integers over a finite set is an integer. *)
LEMMA SumType ==
  ASSUME NEW D, NEW f \in [D -> Int], NEW T \in SUBSET D, IsFiniteSet(T)
  PROVE  SumFunctionOnSet(f, T) \in Int
BY SumStep

(* Two disjoint sets *)
LEMMA SumUnion ==
  ASSUME NEW D, NEW f \in [D -> Int], NEW S \in SUBSET D, NEW T \in SUBSET D,
         IsFiniteSet(S), IsFiniteSet(T), S \cap T = {}
  PROVE  SumFunctionOnSet(f, S \cup T) = SumFunctionOnSet(f, S) + SumFunctionOnSet(f, T)
<1>3. \A s \in SUBSET D, x \in D : IsFiniteSet(s) /\ x \notin s =>
        /\ IsFiniteSet(s \cup {x})
        /\ SumFunctionOnSet(f, s \cup {x}) = f[x] + SumFunctionOnSet(f, s)
  BY SumIn
<1> DEFINE G == {s \in SUBSET T : IsFiniteSet(S \cup s) /\
                   SumFunctionOnSet(f, S \cup s) = SumFunctionOnSet(f, S) + SumFunctionOnSet(f, s)}
<1>0. SumFunctionOnSet(f, S) \in Int
  BY SumType
<1>1. {} \in G
  <2>1. S \cup {} = S
    OBVIOUS
  <2> QED BY <1>0, <2>1, SumEmpty
<1>2. ASSUME NEW s \in SUBSET T, NEW x \in T, s \in G, x \notin s
      PROVE  s \cup {x} \in G
  <2>1. IsFiniteSet(s) /\ s \in SUBSET D /\ x \in D /\ x \notin S \cup s /\ S \cup s \in SUBSET D
    BY <1>2, FS_Subset
  <2>2. SumFunctionOnSet(f, s \cup {x}) = f[x] + SumFunctionOnSet(f, s)
    BY <1>3, <1>2, <2>1
  <2>3. /\ SumFunctionOnSet(f, (S \cup s) \cup {x}) = f[x] + SumFunctionOnSet(f, S \cup s)
        /\ IsFiniteSet((S \cup s) \cup {x})
    <3> DEFINE U == S \cup s
    <3>1. IsFiniteSet(U) /\ U \in SUBSET D /\ x \notin U
      BY <1>2, <2>1
    <3> HIDE DEF U, G
    <3>2. IsFiniteSet(U \cup {x}) /\ SumFunctionOnSet(f, U \cup {x}) = f[x] + SumFunctionOnSet(f, U)
      BY <1>3, <2>1, <3>1
    <3> QED BY <3>2 DEF U
  <2>4. (S \cup s) \cup {x} = S \cup (s \cup {x})
    OBVIOUS
  <2>5. f[x] \in Int /\ SumFunctionOnSet(f, s) \in Int
    BY <2>1, SumType
  <2>6. SumFunctionOnSet(f, S \cup s) = SumFunctionOnSet(f, S) + SumFunctionOnSet(f, s)
    BY <1>2
  <2>7. SumFunctionOnSet(f, S \cup (s \cup {x})) = SumFunctionOnSet(f, S) + SumFunctionOnSet(f, s \cup {x})
    <3>1. SumFunctionOnSet(f, S \cup (s \cup {x})) = f[x] + SumFunctionOnSet(f, S \cup s)
      BY <2>3, <2>4
    <3> QED BY <1>0, <2>2, <2>5, <2>6, <3>1
  <2>8. IsFiniteSet(S \cup (s \cup {x}))
    BY <2>3, <2>4
  <2> QED BY <2>7, <2>8
<1> HIDE DEF G
<1>4. T \in G
  BY <1>1, <1>2, FiniteSetInduction
<1> QED BY <1>4 DEF G

(* A one-to-one change of the index *)
ImageOf(h, T) == {h[x] : x \in T}

(* f at x is g at h[x], for another h[x] at every x. *)
Renamed(f, g, h, T, E) ==
  /\ h \in [T -> E] /\ \A x, y \in T : h[x] = h[y] => x = y
  /\ \A x \in T : f[x] = g[h[x]]

(* Sums are the same if one runs over the renamed indexes of the other. *)
LEMMA SumReindex ==
  ASSUME NEW D, NEW f \in [D -> Int], NEW E, NEW g \in [E -> Int],
         NEW T \in SUBSET D, IsFiniteSet(T), NEW h, Renamed(f, g, h, T, E)
  PROVE  /\ IsFiniteSet(ImageOf(h, T))
         /\ SumFunctionOnSet(f, T) = SumFunctionOnSet(g, ImageOf(h, T))
<1> DEFINE Im(s) == {h[x] : x \in s}
           G == {s \in SUBSET T : IsFiniteSet(Im(s)) /\ SumFunctionOnSet(f, s) = SumFunctionOnSet(g, Im(s))}
<1>0. /\ h \in [T -> E] /\ \A x, y \in T : h[x] = h[y] => x = y
      /\ \A x \in T : f[x] = g[h[x]]
  BY DEF Renamed
<1>1. {} \in G
  <2>1. Im({}) = {}
    OBVIOUS
  <2>2. SumFunctionOnSet(f, {}) = 0 /\ SumFunctionOnSet(g, {}) = 0
    BY SumEmpty
  <2> QED BY <2>1, <2>2, FS_EmptySet
<1>2. ASSUME NEW s \in SUBSET T, NEW x \in T, s \in G, x \notin s
      PROVE  s \cup {x} \in G
  <2>1. IsFiniteSet(s) /\ s \in SUBSET D /\ x \in D /\ Im(s) \in SUBSET E /\ h[x] \in E
    BY <1>0, FS_Subset
  <2>2. Im(s \cup {x}) = Im(s) \cup {h[x]} /\ h[x] \notin Im(s)
    BY <1>0, <1>2
  <2>3. SumFunctionOnSet(f, s \cup {x}) = f[x] + SumFunctionOnSet(f, s)
    BY <1>2, <2>1, SumIn
  <2>4. IsFiniteSet(Im(s)) /\ SumFunctionOnSet(f, s) = SumFunctionOnSet(g, Im(s))
    BY <1>2
  <2> HIDE DEF Im
  <2>5. /\ SumFunctionOnSet(g, Im(s) \cup {h[x]}) = g[h[x]] + SumFunctionOnSet(g, Im(s))
        /\ IsFiniteSet(Im(s) \cup {h[x]})
    BY <2>1, <2>2, <2>4, SumIn
  <2> QED BY <1>0, <2>2, <2>3, <2>4, <2>5
<1> HIDE DEF G
<1>4. T \in G
  BY <1>1, <1>2, FiniteSetInduction
<1> QED BY <1>4 DEF G, ImageOf

-----------------------------------------------------------------------------
(* Loops *)

(* Induction up to a bound, for a set of numbers *)
LEMMA BoundedInduction ==
  ASSUME NEW n \in Nat, NEW G, 0 \in G, \A k \in 1 .. n : k - 1 \in G => k \in G
  PROVE  \A k \in 0 .. n : k \in G
<1> DEFINE H == {k \in Nat : k <= n => k \in G}
<1>1. 0 \in H
  OBVIOUS
<1>2. ASSUME NEW k \in Nat, k \in H PROVE k + 1 \in H
  <2>1. CASE k + 1 <= n
    <3>1. k + 1 \in 1 .. n /\ (k + 1) - 1 = k /\ k \in G
      BY <1>2, <2>1
    <3>2. k + 1 \in G
      BY <3>1
    <3> QED BY <3>2
  <2>2. CASE ~ (k + 1 <= n)
    BY <2>2
  <2> QED BY <2>1, <2>2
<1> HIDE DEF H
<1>3. Nat \subseteq H
  BY <1>1, <1>2, NatSetInduction
<1> QED BY <1>3 DEF H

(* The values r[0], ..., r[n] that a loop of n rounds goes through *)
IsLoop(r, n, base, step) ==
  r[0] = base /\ \A k \in 1 .. n : r[k] = step[k][r[k - 1]]

(* They exist. *)
LEMMA LoopExists ==
  ASSUME NEW n \in Nat, NEW V, NEW base \in V, NEW step \in [1 .. n -> [V -> V]]
  PROVE  \E r \in [0 .. n -> V] : IsLoop(r, n, base, step)
<1> DEFINE G == {m \in 0 .. n : \E r \in [0 .. n -> V] :
                   r[0] = base /\ \A k \in 1 .. m : r[k] = step[k][r[k - 1]]}
<1>1. 0 \in G
  <2> DEFINE r == [k \in 0 .. n |-> base]
  <2>1. r \in [0 .. n -> V] /\ r[0] = base /\ \A k \in 1 .. 0 : r[k] = step[k][r[k - 1]]
    OBVIOUS
  <2> HIDE DEF r
  <2> QED BY <2>1
<1>2. ASSUME NEW m \in 1 .. n, m - 1 \in G PROVE m \in G
  <2>1. PICK r \in [0 .. n -> V] : r[0] = base /\ \A k \in 1 .. m - 1 : r[k] = step[k][r[k - 1]]
    BY <1>2
  <2> DEFINE t == [r EXCEPT ![m] = step[m][r[m - 1]]]
  <2>2. r[m - 1] \in V /\ step[m][r[m - 1]] \in V
    OBVIOUS
  <2>3. t \in [0 .. n -> V] /\ t[m] = step[m][r[m - 1]] /\ \A k \in 0 .. m - 1 : t[k] = r[k]
    BY <2>2
  <2> HIDE DEF t
  <2>4. t[0] = base
    BY <2>1, <2>3
  <2>5. ASSUME NEW k \in 1 .. m PROVE t[k] = step[k][t[k - 1]]
    <3>1. CASE k = m
      BY <2>3, <3>1
    <3>2. CASE k # m
      <4>1. k \in 1 .. m - 1 /\ k \in 0 .. m - 1 /\ k - 1 \in 0 .. m - 1
        BY <3>2
      <4> QED BY <2>1, <2>3, <4>1
    <3> QED BY <3>1, <3>2
  <2>6. \A k \in 1 .. m : t[k] = step[k][t[k - 1]]
    BY <2>5
  <2> QED BY <2>3, <2>4, <2>6
<1> HIDE DEF G
<1>3. \A m \in 0 .. n : m \in G
  BY <1>1, <1>2, BoundedInduction
<1>4. n \in G
  BY <1>3
<1> QED BY <1>4 DEF G, IsLoop

(* Two loops that keep in step, and what they reach *)
InStep(a, b, n) == a[0] = b[0] /\ \A k \in 1 .. n : a[k - 1] = b[k - 1] => a[k] = b[k]
Agree(a, b, n) == \A k \in 0 .. n : a[k] = b[k]

(* Loops that keep in step go through the same values. *)
LEMMA LoopsAgree ==
  ASSUME NEW n \in Nat, NEW a, NEW b, InStep(a, b, n)
  PROVE  Agree(a, b, n)
<1> DEFINE G == {k \in 0 .. n : a[k] = b[k]}
<1>1. 0 \in G
  BY DEF InStep
<1>2. \A k \in 1 .. n : k - 1 \in G => k \in G
  BY DEF InStep
<1> HIDE DEF G
<1>3. \A k \in 0 .. n : k \in G
  BY <1>1, <1>2, BoundedInduction
<1> QED BY <1>3 DEF G, Agree

-----------------------------------------------------------------------------
(* Sums of zeros, but for one *)

(* A sum of zeros is zero. *)
LEMMA SumOfZeros ==
  ASSUME NEW D, IsFiniteSet(D), NEW f \in [D -> Int], \A u \in D : f[u] = 0
  PROVE  SumFunction(f) = 0
<1> DEFINE S == {T \in SUBSET D : IsFiniteSet(T) /\ SumFunctionOnSet(f, T) = 0}
<1>1. {} \in S
  BY SumEmpty, FS_EmptySet
<1>2. ASSUME NEW T \in SUBSET D, NEW u \in D, T \in S, u \notin T PROVE T \cup {u} \in S
  <2>1. IsFiniteSet(T) /\ SumFunctionOnSet(f, T) = 0
    BY <1>2
  <2>2. SumFunctionOnSet(f, T \cup {u}) = f[u] + SumFunctionOnSet(f, T) /\ IsFiniteSet(T \cup {u})
    BY <1>2, <2>1, SumIn
  <2> QED BY <2>1, <2>2
<1>3. D \in S
  <2> HIDE DEF S
  <2> QED BY <1>1, <1>2, FiniteSetInduction
<1> QED BY <1>3 DEF SumFunction

(* A sum with one element that is not zero *)
LEMMA SumOfOneElement ==
  ASSUME NEW D, IsFiniteSet(D), NEW f \in [D -> Int], NEW u \in D, \A i \in D : i # u => f[i] = 0
  PROVE  SumFunction(f) = f[u]
<1>1. SumFunction(f) = SumFunctionOnSet(f, D)
  BY DEF SumFunction
<1>2. SumFunctionOnSet(f, D) = f[u] + SumFunctionOnSet(f, D \ {u})
  BY SumOut
<1>3. PICK E, g : E = D \ {u} /\ g = [i \in E |-> 0]
  OBVIOUS
<1>4. IsFiniteSet(E) /\ E \in SUBSET D /\ g \in [E -> Int] /\ \A i \in E : g[i] = 0
  BY <1>3, FS_Subset
<1>5. SumFunctionOnSet(f, E) = SumFunctionOnSet(g, E)
  <2>1. \A i \in E : f[i] = g[i]
    BY <1>3, <1>4
  <2> QED BY <1>4, <2>1, SumSame
<1>6. SumFunctionOnSet(g, E) = 0
  BY <1>4, SumOfZeros DEF SumFunction
<1>7. f[u] \in Int
  OBVIOUS
<1> QED BY <1>1, <1>2, <1>3, <1>5, <1>6, <1>7

-----------------------------------------------------------------------------
(* Powers of two, as the modules define them *)

Doubled(k) ==
  LET power[i \in 0 .. k] == IF i = 0 THEN 1 ELSE 2 * power[i - 1]
  IN  power[k]

(* 1 << k is reached by doubling 1 k times. *)
LEMMA DoubledIs ==
  ASSUME NEW k \in Nat
  PROVE  \E r \in [0 .. k -> Nat] :
           /\ Doubled(k) = r[k]
           /\ r[0] = 1 /\ \A i \in 1 .. k : r[i] = 2 * r[i - 1]
<1> DEFINE step == [i \in 1 .. k |-> [v \in Nat |-> 2 * v]]
<1>1. step \in [1 .. k -> [Nat -> Nat]] /\ 1 \in Nat
  OBVIOUS
<1>2. \A i \in 1 .. k, v \in Nat : step[i][v] = 2 * v
  OBVIOUS
<1> HIDE DEF step
<1>3. PICK r \in [0 .. k -> Nat] : IsLoop(r, k, 1, step)
  BY <1>1, LoopExists
<1>4. r[0] = 1 /\ \A i \in 1 .. k : r[i] = step[i][r[i - 1]]
  BY <1>3 DEF IsLoop
<1>5. \A i \in 1 .. k : i - 1 \in 0 .. k /\ i \in 0 .. k /\ i # 0
  OBVIOUS
<1>6. \A i \in 1 .. k : r[i] = 2 * r[i - 1]
  BY <1>2, <1>4, <1>5
<1> DEFINE Body(t, i) == IF i = 0 THEN 1 ELSE 2 * t[i - 1]
           power == CHOOSE t : t = [i \in 0 .. k |-> Body(t, i)]
<1>7. Doubled(k) = power[k]
  BY DEF Doubled
<1>8. ASSUME NEW i \in 0 .. k PROVE r[i] = Body(r, i)
  <2>1. CASE i = 0
    BY <1>4, <2>1
  <2>2. CASE i # 0
    <3>1. i \in 1 .. k
      BY <2>2
    <3> QED BY <1>6, <2>2, <3>1
  <2> QED BY <2>1, <2>2
<1>9. r = [i \in 0 .. k |-> Body(r, i)]
  <2> HIDE DEF Body
  <2> QED BY <1>4, <1>8
<1>10. power = [i \in 0 .. k |-> Body(power, i)]
  BY <1>9
<1> HIDE DEF power
<1>11. power[0] = 1
  BY <1>10
<1>12. \A i \in 1 .. k : power[i] = 2 * power[i - 1]
  BY <1>5, <1>10
<1> HIDE DEF Body
<1>13. InStep(power, r, k)
  BY <1>4, <1>6, <1>11, <1>12 DEF InStep
<1>14. power[k] = r[k]
  BY <1>13, LoopsAgree DEF Agree
<1> QED BY <1>4, <1>6, <1>7, <1>14

(* 1 << 0 is 1, and 1 << (k + 1) twice 1 << k, never 0. *)
LEMMA DoubledStep ==
  /\ Doubled(0) = 1
  /\ \A k \in Nat : Doubled(k) \in Nat \ {0} /\ Doubled(k + 1) = 2 * Doubled(k)
<1>1. Doubled(0) = 1
  BY DoubledIs
<1>2. ASSUME NEW k \in Nat PROVE Doubled(k + 1) = 2 * Doubled(k)
  <2>1. PICK r \in [0 .. k -> Nat] :
          Doubled(k) = r[k] /\ r[0] = 1 /\ \A i \in 1 .. k : r[i] = 2 * r[i - 1]
    BY DoubledIs
  <2>2. PICK t \in [0 .. k + 1 -> Nat] :
          Doubled(k + 1) = t[k + 1] /\ t[0] = 1 /\ \A i \in 1 .. k + 1 : t[i] = 2 * t[i - 1]
    BY DoubledIs, k + 1 \in Nat
  <2>3. t[0] = r[0]
    BY <2>1, <2>2
  <2>0. \A i \in 1 .. k : i \in 1 .. k + 1
    OBVIOUS
  <2>6. InStep(t, r, k)
    BY <2>1, <2>2, <2>3, <2>0 DEF InStep
  <2>4. t[k] = r[k]
    BY <2>6, LoopsAgree DEF Agree
  <2>5. t[k + 1] = 2 * t[k]
    BY <2>2
  <2> QED BY <2>1, <2>2, <2>4, <2>5
<1> DEFINE G == {k \in Nat : Doubled(k) \in Nat \ {0}}
<1>3. 0 \in G /\ \A k \in Nat : k \in G => k + 1 \in G
  BY <1>1, <1>2
<1> HIDE DEF G
<1>4. Nat \subseteq G
  BY <1>3, NatSetInduction
<1> QED BY <1>1, <1>2, <1>4 DEF G

(* Shifting by i + k multiplies the shifts by i and by k. *)
LEMMA DoubledSum ==
  ASSUME NEW i \in Nat, NEW k \in Nat
  PROVE  Doubled(i + k) = Doubled(i) * Doubled(k)
<1> DEFINE G == {j \in Nat : Doubled(i + j) = Doubled(i) * Doubled(j)}
<1>1. 0 \in G
  BY DoubledStep
<1>2. ASSUME NEW j \in Nat, j \in G PROVE j + 1 \in G
  <2>1. Doubled(i + (j + 1)) = 2 * Doubled(i + j)
    BY DoubledStep, i + (j + 1) = (i + j) + 1
  <2>2. Doubled(j + 1) = 2 * Doubled(j) /\ Doubled(i) \in Nat /\ Doubled(j) \in Nat
    BY DoubledStep
  <2>3. Doubled(i + (j + 1)) = 2 * (Doubled(i) * Doubled(j))
    BY <1>2, <2>1
  <2>4. 2 * (Doubled(i) * Doubled(j)) = Doubled(i) * (2 * Doubled(j))
    BY <2>2, SMT
  <2> QED BY <2>2, <2>3, <2>4
<1> HIDE DEF G
<1>3. Nat \subseteq G
  BY <1>1, <1>2, NatSetInduction
<1> QED BY <1>3 DEF G

-----------------------------------------------------------------------------
(* Lists of lists *)

(* Where the p-th of lists of these sizes begins, less one *)
Before(size, p) == SumFunction([q \in 1 .. p - 1 |-> size[q]])

(* The sum over the set that g has one element more of than h *)
LEMMA SumOfOneMore ==
  ASSUME NEW D, NEW T, NEW p, NEW g \in [D -> Int], NEW h \in [T -> Int],
         IsFiniteSet(T), p \notin T, D = T \cup {p}, \A x \in T : h[x] = g[x]
  PROVE  SumFunctionOnSet(g, D) = g[p] + SumFunctionOnSet(h, T)
<1>1. T \in SUBSET D /\ p \in D /\ T \subseteq T
  OBVIOUS
<1>2. SumFunctionOnSet(g, T \cup {p}) = g[p] + SumFunctionOnSet(g, T)
  BY <1>1, SumIn
<1>3. SumFunctionOnSet(h, T) = SumFunctionOnSet(g, T)
  BY <1>1, SumSame
<1> QED BY <1>2, <1>3

(* The sum over the first p places *)
LEMMA SumUpTo ==
  ASSUME NEW p \in Nat \ {0}, NEW size, \A q \in 1 .. p : size[q] \in Int
  PROVE  LET upto(k) == [q \in 1 .. k |-> size[q]] IN
         /\ SumFunctionOnSet(upto(p), 1 .. p) = size[p] + SumFunctionOnSet(upto(p - 1), 1 .. p - 1)
         /\ SumFunctionOnSet(upto(p - 1), 1 .. p - 1) \in Int
<1>1. PICK all, some, longer, shorter :
        /\ all = 1 .. p /\ some = 1 .. p - 1
        /\ longer = [q \in 1 .. p |-> size[q]] /\ shorter = [q \in 1 .. p - 1 |-> size[q]]
  OBVIOUS
<1>2. longer[p] = size[p] /\ longer \in [all -> Int] /\ shorter \in [some -> Int] /\ IsFiniteSet(some)
      /\ p \notin some /\ all = some \cup {p} /\ \A q \in some : shorter[q] = longer[q]
      /\ some \in SUBSET some
  BY <1>1, FS_Interval
<1>3. SumFunctionOnSet(longer, all) = longer[p] + SumFunctionOnSet(shorter, some)
  BY <1>2, SumOfOneMore
<1>4. SumFunctionOnSet(shorter, some) \in Int
  BY <1>2, SumType
<1> QED BY <1>1, <1>2, <1>3, <1>4

(* The places before the lists add up one after the other. *)
LEMMA BeforeIs ==
  ASSUME NEW n \in Nat, NEW size \in [1 .. n -> Nat]
  PROVE  /\ Before(size, 1) = 0
         /\ \A p \in 1 .. n : Before(size, p + 1) = Before(size, p) + size[p]
         /\ \A p \in 1 .. n + 1 : Before(size, p) \in Nat
<1> DEFINE upto(p) == [q \in 1 .. p |-> size[q]]
<1>1. \A p \in 0 .. n : upto(p) \in [1 .. p -> Int] /\ IsFiniteSet(1 .. p) /\ DOMAIN upto(p) = 1 .. p
  BY FS_Interval
<1>2. \A p \in 0 .. n : Before(size, p + 1) = SumFunctionOnSet(upto(p), 1 .. p)
  <2> TAKE p \in 0 .. n
  <2>1. (p + 1) - 1 = p
    OBVIOUS
  <2> QED BY <2>1, <1>1 DEF Before, SumFunction
<1>3. Before(size, 1) = 0
  <2>0. 0 \in 0 .. n /\ 0 + 1 = 1
    OBVIOUS
  <2>1. Before(size, 1) = SumFunctionOnSet(upto(0), 1 .. 0)
    <3> HIDE DEF upto
    <3> QED BY <1>2, <2>0
  <2>2. upto(0) \in [1 .. 0 -> Int] /\ 1 .. 0 = {}
    BY <1>1, <2>0
  <2> HIDE DEF upto
  <2>3. SumFunctionOnSet(upto(0), {}) = 0
    BY <2>2, SumEmpty
  <2> QED BY <2>1, <2>2, <2>3
<1>4. ASSUME NEW p \in 1 .. n
      PROVE  Before(size, p + 1) = Before(size, p) + size[p]
  <2>1. p \in Nat \ {0} /\ p - 1 \in 0 .. n /\ p \in 0 .. n /\ (p - 1) + 1 = p
        /\ \A q \in 1 .. p : size[q] \in Int
    OBVIOUS
  <2>2. /\ SumFunctionOnSet(upto(p), 1 .. p) = size[p] + SumFunctionOnSet(upto(p - 1), 1 .. p - 1)
        /\ SumFunctionOnSet(upto(p - 1), 1 .. p - 1) \in Int
    BY <2>1, SumUpTo
  <2>3. /\ Before(size, p + 1) = SumFunctionOnSet(upto(p), 1 .. p)
        /\ Before(size, p) = SumFunctionOnSet(upto(p - 1), 1 .. p - 1)
    <3> HIDE DEF upto
    <3>1. Before(size, (p - 1) + 1) = SumFunctionOnSet(upto(p - 1), 1 .. p - 1)
      BY <1>2, <2>1
    <3> QED BY <1>2, <2>1, <3>1
  <2>4. size[p] \in Int
    OBVIOUS
  <2> HIDE DEF upto
  <2> QED BY <2>2, <2>3, <2>4
<1> DEFINE G == {p \in 0 .. n : Before(size, p + 1) \in Nat}
<1>5. 0 \in G
  BY <1>3
<1>6. ASSUME NEW p \in 1 .. n, p - 1 \in G PROVE p \in G
  <2>1. (p - 1) + 1 = p
    OBVIOUS
  <2>2. Before(size, p) \in Nat
    BY <1>6, <2>1
  <2> QED BY <1>4, <2>2
<1> HIDE DEF G
<1>7. \A p \in 0 .. n : p \in G
  BY <1>5, <1>6, BoundedInduction
<1>8. ASSUME NEW p \in 1 .. n + 1 PROVE Before(size, p) \in Nat
  <2>1. p - 1 \in 0 .. n /\ (p - 1) + 1 = p
    OBVIOUS
  <2> QED BY <1>7, <2>1 DEF G
<1> QED BY <1>3, <1>4, <1>8

(* Every place is in one of the lists. *)
LEMMA PlaceInList ==
  ASSUME NEW n \in Nat, NEW size \in [1 .. n -> Nat], NEW b \in 1 .. Before(size, n + 1)
  PROVE  \E p \in 1 .. n : \E i \in 1 .. size[p] : b = Before(size, p) + i
<1>1. /\ Before(size, 1) = 0
      /\ \A p \in 1 .. n : Before(size, p + 1) = Before(size, p) + size[p]
      /\ \A p \in 1 .. n + 1 : Before(size, p) \in Nat
  BY BeforeIs
<1> DEFINE In(k) == \A c \in Nat \ {0} : c <= Before(size, k + 1) =>
                      \E p \in 1 .. k : \E i \in 1 .. size[p] : c = Before(size, p) + i
           G == {k \in 0 .. n : In(k)}
<1>2. 0 \in G
  BY <1>1
<1>3. ASSUME NEW k \in 1 .. n, k - 1 \in G PROVE k \in G
  <2>1. (k - 1) + 1 = k /\ Before(size, k) \in Nat /\ Before(size, k + 1) = Before(size, k) + size[k]
        /\ size[k] \in Nat
    BY <1>1
  <2> SUFFICES ASSUME NEW c \in Nat \ {0}, c <= Before(size, k + 1)
               PROVE  \E p \in 1 .. k : \E i \in 1 .. size[p] : c = Before(size, p) + i
    OBVIOUS
  <2>2. CASE c <= Before(size, k)
    <3>1. \E p \in 1 .. k - 1 : \E i \in 1 .. size[p] : c = Before(size, p) + i
      BY <1>3, <2>1, <2>2
    <3>2. \A p \in 1 .. k - 1 : p \in 1 .. k
      OBVIOUS
    <3> QED BY <3>1, <3>2
  <2>3. CASE ~ (c <= Before(size, k))
    <3> DEFINE i == c - Before(size, k)
    <3>1. i \in 1 .. size[k] /\ c = Before(size, k) + i
      BY <2>1, <2>3
    <3>2. k \in 1 .. k
      OBVIOUS
    <3> QED BY <3>1, <3>2
  <2> QED BY <2>2, <2>3
<1> HIDE DEF G
<1>4. \A k \in 0 .. n : k \in G
  BY <1>2, <1>3, BoundedInduction
<1>5. In(n)
  BY <1>4 DEF G
<1>6. b \in Nat \ {0} /\ b <= Before(size, n + 1)
  BY <1>1
<1> QED BY <1>5, <1>6

(* A list ends before the next ones begin. *)
LEMMA ListsInOrder ==
  ASSUME NEW n \in Nat, NEW size \in [1 .. n -> Nat], NEW p \in 1 .. n
  PROVE  \A q \in 1 .. n + 1 : p < q => Before(size, p) + size[p] <= Before(size, q)
<1>1. /\ \A q \in 1 .. n : Before(size, q + 1) = Before(size, q) + size[q]
      /\ \A q \in 1 .. n + 1 : Before(size, q) \in Nat
  BY BeforeIs
<1> DEFINE G == {k \in 0 .. n : p <= k => Before(size, p) + size[p] <= Before(size, k + 1)}
<1>2. 0 \in G
  OBVIOUS
<1>3. ASSUME NEW k \in 1 .. n, k - 1 \in G PROVE k \in G
  <2>1. (k - 1) + 1 = k /\ Before(size, k) \in Nat /\ Before(size, k + 1) = Before(size, k) + size[k]
        /\ size[k] \in Nat /\ Before(size, p) \in Nat /\ size[p] \in Nat
    BY <1>1
  <2>2. CASE p = k
    BY <2>1, <2>2
  <2>3. CASE p # k
    BY <1>3, <2>1, <2>3
  <2> QED BY <2>2, <2>3
<1> HIDE DEF G
<1>4. \A k \in 0 .. n : k \in G
  BY <1>2, <1>3, BoundedInduction
<1>5. ASSUME NEW q \in 1 .. n + 1, p < q PROVE Before(size, p) + size[p] <= Before(size, q)
  <2>1. q - 1 \in 0 .. n /\ (q - 1) + 1 = q /\ p <= q - 1
    BY <1>5
  <2> QED BY <1>4, <2>1 DEF G
<1> QED BY <1>5

(* flat has the lists' elements, one list after the other. *)
IsFlattened(flat, lists, size, n) ==
  /\ Len(flat) = Before(size, n + 1)
  /\ \A p \in 1 .. n : \A i \in 1 .. size[p] : flat[Before(size, p) + i] = lists[p][i]

(* FlattenSeq puts the lists one after the other. *)
LEMMA FlattenIs ==
  ASSUME NEW n \in Nat \ {0}, NEW size \in [1 .. n -> Nat], NEW S,
         NEW lists \in [1 .. n -> Seq(S)], \A p \in 1 .. n : Len(lists[p]) = size[p]
  PROVE  /\ FlattenSeq(lists) \in Seq(S)
         /\ IsFlattened(FlattenSeq(lists), lists, size, n)
<1>1. /\ Before(size, 1) = 0
      /\ \A p \in 1 .. n : Before(size, p + 1) = Before(size, p) + size[p]
      /\ \A p \in 1 .. n + 1 : Before(size, p) \in Nat
  BY BeforeIs
<1>2. Len(lists) = n
  <2>1. lists \in Seq(Seq(S))
    OBVIOUS
  <2> QED BY <2>1
<1> DEFINE Body(fl, i) == IF i = 1 THEN lists[i] ELSE fl[i - 1] \o lists[i]
           flatten == CHOOSE fl : fl = [i \in 1 .. n |-> Body(fl, i)]
<1>3. FlattenSeq(lists) = flatten[n]
  <2>1. Len(lists) # 0
    BY <1>2
  <2> QED BY <1>2, <2>1 DEF FlattenSeq
<1>4. \E fl : fl = [i \in 1 .. n |-> Body(fl, i)]
  <2> DEFINE m == n - 1
             step == [k \in 1 .. m |-> [v \in Seq(S) |-> v \o lists[k + 1]]]
  <2>1. m \in Nat /\ 1 \in 1 .. n /\ lists[1] \in Seq(S) /\ \A k \in 1 .. m : k + 1 \in 1 .. n
    OBVIOUS
  <2>2. step \in [1 .. m -> [Seq(S) -> Seq(S)]]
    <3>1. \A k \in 1 .. m : \A v \in Seq(S) : v \o lists[k + 1] \in Seq(S)
      <4> TAKE k \in 1 .. m
      <4> TAKE v \in Seq(S)
      <4>1. lists[k + 1] \in Seq(S)
        BY <2>1
      <4> QED BY <4>1
    <3> QED BY <3>1
  <2>3. \A k \in 1 .. m, v \in Seq(S) : step[k][v] = v \o lists[k + 1]
    OBVIOUS
  <2> HIDE DEF step
  <2>4. PICK r \in [0 .. m -> Seq(S)] : IsLoop(r, m, lists[1], step)
    <3> HIDE DEF m
    <3> QED BY <2>1, <2>2, LoopExists
  <2> DEFINE fl == [i \in 1 .. n |-> r[i - 1]]
  <2>5. ASSUME NEW i \in 1 .. n PROVE fl[i] = Body(fl, i)
    <3>1. CASE i = 1
      BY <2>4, <3>1 DEF IsLoop
    <3>2. CASE i # 1
      <4>1. i - 1 \in 1 .. m /\ (i - 1) + 1 = i /\ i - 1 \in 1 .. n /\ (i - 1) - 1 \in 0 .. m
        BY <3>2
      <4>2. r[i - 1] = step[i - 1][r[(i - 1) - 1]]
        BY <2>4, <4>1 DEF IsLoop
      <4>3. r[i - 1] = r[(i - 1) - 1] \o lists[(i - 1) + 1]
        BY <2>3, <2>4, <4>1, <4>2
      <4>4. fl[i - 1] = r[(i - 1) - 1]
        BY <4>1
      <4> QED BY <3>2, <4>1, <4>3, <4>4
    <3> QED BY <3>1, <3>2
  <2>6. fl = [i \in 1 .. n |-> fl[i]]
    OBVIOUS
  <2> HIDE DEF fl, Body
  <2>7. fl = [i \in 1 .. n |-> Body(fl, i)]
    BY <2>5, <2>6
  <2> QED BY <2>7
<1>5. flatten = [i \in 1 .. n |-> Body(flatten, i)]
  BY <1>4
<1> HIDE DEF flatten
<1>6. \A i \in 1 .. n : flatten[i] = IF i = 1 THEN lists[i] ELSE flatten[i - 1] \o lists[i]
  BY <1>5
<1> DEFINE Done(k) == /\ flatten[k] \in Seq(S) /\ Len(flatten[k]) = Before(size, k + 1)
                      /\ \A p \in 1 .. k : \A i \in 1 .. size[p] :
                           flatten[k][Before(size, p) + i] = lists[p][i]
           G == {k \in 0 .. n : k = 0 \/ Done(k)}
<1>7. 0 \in G
  OBVIOUS
<1>8. ASSUME NEW k \in 1 .. n, k - 1 \in G PROVE k \in G
  <2>0. lists[k] \in Seq(S) /\ Len(lists[k]) = size[k] /\ size[k] \in Nat
    OBVIOUS
  <2>1. CASE k = 1
    <3>1. flatten[k] = lists[1] /\ Before(size, k + 1) = size[1] /\ 1 .. k = {1}
      BY <1>1, <1>6, <2>0, <2>1
    <3>2. \A i \in 1 .. size[1] : Before(size, 1) + i = i
      BY <1>1, <2>0, <2>1
    <3> QED BY <2>0, <2>1, <3>1, <3>2
  <2>2. CASE k # 1
    <3> DEFINE s == flatten[k - 1]
    <3>1. k - 1 \in 1 .. n /\ (k - 1) + 1 = k
      BY <2>2
    <3>2. Done(k - 1)
      BY <1>8, <2>2
    <3>3. s \in Seq(S) /\ Len(s) = Before(size, k)
      BY <3>1, <3>2
    <3>4. flatten[k] = s \o lists[k]
      BY <1>6, <2>2
    <3>5. Before(size, k + 1) = Before(size, k) + size[k] /\ Before(size, k) \in Nat
      BY <1>1
    <3>6. /\ s \o lists[k] \in Seq(S) /\ Len(s \o lists[k]) = Len(s) + Len(lists[k])
          /\ \A j \in 1 .. Len(s) + Len(lists[k]) :
               (s \o lists[k])[j] = IF j <= Len(s) THEN s[j] ELSE lists[k][j - Len(s)]
      <4> HIDE DEF s
      <4> QED BY <2>0, <3>3, ConcatProperties
    <3>7. ASSUME NEW p \in 1 .. k, NEW i \in 1 .. size[p]
          PROVE  flatten[k][Before(size, p) + i] = lists[p][i]
      <4>1. size[p] \in Nat /\ Before(size, p) \in Nat
        BY <1>1
      <4>2. CASE p = k
        <5> DEFINE j == Before(size, k) + i
        <5>1. j \in 1 .. Len(s) + Len(lists[k]) /\ ~ (j <= Len(s)) /\ j - Len(s) = i
          BY <2>0, <3>3, <3>5, <4>2
        <5> HIDE DEF j, s
        <5>2. (s \o lists[k])[j] = lists[k][j - Len(s)]
          BY <3>6, <5>1
        <5> QED BY <3>4, <4>2, <5>1, <5>2 DEF j
      <4>3. CASE p # k
        <5> DEFINE j == Before(size, p) + i
        <5>1. p \in 1 .. n /\ k \in 1 .. n + 1 /\ p < k
          BY <4>3
        <5>2. Before(size, p) + size[p] <= Before(size, k)
          BY <5>1, ListsInOrder
        <5>3. j \in 1 .. Len(s) + Len(lists[k]) /\ j <= Len(s)
          BY <2>0, <3>3, <3>5, <4>1, <5>2, SMTT(30)
        <5>4. s[j] = lists[p][i]
          <6>1. p \in 1 .. k - 1
            BY <4>3
          <6> QED BY <3>2, <6>1
        <5> HIDE DEF j, s
        <5>5. (s \o lists[k])[j] = s[j]
          BY <3>6, <5>3
        <5> QED BY <3>4, <5>4, <5>5 DEF j
      <4> QED BY <4>2, <4>3
    <3>8. flatten[k] \in Seq(S) /\ Len(flatten[k]) = Before(size, k + 1)
      <4> HIDE DEF s
      <4> QED BY <2>0, <3>3, <3>4, <3>5, <3>6
    <3> QED BY <3>7, <3>8
  <2> QED BY <2>1, <2>2
<1> HIDE DEF G
<1>9. \A k \in 0 .. n : k \in G
  BY <1>7, <1>8, BoundedInduction
<1>10. Done(n)
  <2>1. n \in 0 .. n /\ n # 0
    OBVIOUS
  <2> QED BY <1>9, <2>1 DEF G
<1> QED BY <1>3, <1>10 DEF IsFlattened

-----------------------------------------------------------------------------
(* Sums of weighted terms *)

(* A sum is linear: h is f x + g at every place, up to multiples of m *)
LinearIn(h, f, g, x, D, m) == \A u \in D : Congruent(h[u], f[u] * x + g[u], m)

(* A sum of weighted terms is the weighted sum. *)
LEMMA SumLinear ==
  ASSUME NEW m \in Nat \ {0}, NEW D, IsFiniteSet(D), NEW f \in [D -> Int], NEW g \in [D -> Int],
         NEW h \in [D -> Int], NEW x \in Int, LinearIn(h, f, g, x, D, m)
  PROVE  Congruent(SumFunction(h), SumFunction(f) * x + SumFunction(g), m)
<1> DEFINE Sf(T) == SumFunctionOnSet(f, T)
           Sg(T) == SumFunctionOnSet(g, T)
           Sh(T) == SumFunctionOnSet(h, T)
           G == {T \in SUBSET D : IsFiniteSet(T) /\ Congruent(Sh(T), Sf(T) * x + Sg(T), m)}
<1>1. {} \in G
  <2>1. Sf({}) = 0 /\ Sg({}) = 0 /\ Sh({}) = 0
    BY SumEmpty
  <2>2. 0 * x + 0 = 0
    OBVIOUS
  <2>3. Congruent(0, 0, m)
    BY CongruentRemainder
  <2> QED BY <2>1, <2>2, <2>3, FS_EmptySet
<1>2. ASSUME NEW T \in SUBSET D, NEW u \in D, T \in G, u \notin T
      PROVE  T \cup {u} \in G
  <2>1. IsFiniteSet(T) /\ Congruent(Sh(T), Sf(T) * x + Sg(T), m)
    BY <1>2
  <2>2. /\ IsFiniteSet(T \cup {u})
        /\ Sf(T \cup {u}) = f[u] + Sf(T)
        /\ Sg(T \cup {u}) = g[u] + Sg(T)
        /\ Sh(T \cup {u}) = h[u] + Sh(T)
    BY <1>2, <2>1, SumIn
  <2>3. Sf(T) \in Int /\ Sg(T) \in Int /\ Sh(T) \in Int
    BY <1>2, <2>1, SumType
  <2>4. f[u] \in Int /\ g[u] \in Int /\ h[u] \in Int
    OBVIOUS
  <2>5. Congruent(h[u], f[u] * x + g[u], m)
    BY DEF LinearIn
  <2> HIDE DEF Sf, Sg, Sh
  <2>6. PICK a, b, c, d, e, k : a = f[u] /\ b = g[u] /\ c = h[u] /\ d = Sf(T) /\ e = Sg(T) /\ k = Sh(T)
    OBVIOUS
  <2>7. a \in Int /\ b \in Int /\ c \in Int /\ d \in Int /\ e \in Int /\ k \in Int
    BY <2>3, <2>4, <2>6
  <2>8. a * x \in Int /\ d * x \in Int
    BY <2>7
  <2>9. Congruent(c + k, (a * x + b) + (d * x + e), m)
    <3>1. a * x + b \in Int /\ d * x + e \in Int
      BY <2>7, <2>8
    <3>2. Congruent(c, a * x + b, m) /\ Congruent(k, d * x + e, m)
      BY <2>1, <2>5, <2>6
    <3> QED BY <2>7, <3>1, <3>2, CongruentSum
  <2>10. (a * x + b) + (d * x + e) = (a + d) * x + (b + e)
    BY <2>7, SMT
  <2> QED BY <2>2, <2>6, <2>9, <2>10
<1>3. D \in G
  <2> HIDE DEF G
  <2> QED BY <1>1, <1>2, FiniteSetInduction
<1>4. SumFunction(f) = Sf(D) /\ SumFunction(g) = Sg(D) /\ SumFunction(h) = Sh(D)
  BY DEF SumFunction
<1> QED BY <1>3, <1>4

(* Congruent numbers with the same operands *)
LEMMA CongruentLinear ==
  ASSUME NEW m \in Nat \ {0}, NEW a \in Int, NEW b \in Int, NEW x \in Int, NEW c \in Int,
         NEW d \in Int, NEW e, Congruent(a, b, m), Congruent(c, d, m), e = (a * x + c) % m
  PROVE  Congruent(e, b * x + d, m)
<1>1. Congruent(a * x, b * x, m)
  BY CongruentProduct, CongruentRemainder
<1>2. a * x \in Int /\ b * x \in Int
  OBVIOUS
<1>3. Congruent(a * x + c, b * x + d, m)
  BY <1>1, <1>2, CongruentSum
<1>4. a * x + c \in Int /\ b * x + d \in Int
  BY <1>2
<1>5. e \in Int /\ Congruent(e, a * x + c, m)
  <2> DEFINE t == a * x + c
  <2>1. t \in Int
    BY <1>4
  <2> HIDE DEF t
  <2>2. (t % m) \in 0 .. m - 1 /\ Congruent(t % m, t, m)
    BY <2>1, CongruentRemainder, ModRange
  <2>3. e = (t % m)
    BY DEF t
  <2> QED BY <2>2, <2>3 DEF t
<1>6. Congruent(a * x + c, e, m)
  BY <1>4, <1>5, CongruentEquivalence
<1> QED BY <1>3, <1>4, <1>5, <1>6, CongruentEquivalence

(* Sums of congruent numbers are congruent. *)
LEMMA SumCongruent ==
  ASSUME NEW m \in Nat \ {0}, NEW D, IsFiniteSet(D), NEW f \in [D -> Int], NEW h \in [D -> Int],
         \A u \in D : Congruent(h[u], f[u], m)
  PROVE  Congruent(SumFunction(h), SumFunction(f), m)
<1>1. PICK z : z = [u \in D |-> 0]
  OBVIOUS
<1>2. z \in [D -> Int] /\ SumFunction(z) = 0
  BY <1>1, SumOfZeros
<1>3. LinearIn(h, f, z, 1, D, m)
  <2>1. \A u \in D : f[u] * 1 + z[u] = f[u]
    BY <1>1
  <2> QED BY <2>1 DEF LinearIn
<1>4. Congruent(SumFunction(h), SumFunction(f) * 1 + SumFunction(z), m)
  <2>1. 1 \in Int
    OBVIOUS
  <2> QED BY <1>2, <1>3, <2>1, SumLinear
<1>5. SumFunction(f) \in Int
  BY SumType DEF SumFunction
<1>6. SumFunction(f) * 1 + SumFunction(z) = SumFunction(f)
  BY <1>2, <1>5
<1> QED BY <1>4, <1>6

-----------------------------------------------------------------------------
(* Bounded sets of numbers, and logarithms *)

(* A bounded set of numbers has a greatest one *)
LEMMA GreatestExists ==
  ASSUME NEW L \in Nat, NEW S \in SUBSET (0 .. L), S # {}
  PROVE  \E x \in S : \A y \in S : y <= x
<1> DEFINE T == {L - x : x \in S}
<1>1. T \subseteq Nat /\ T # {}
  <2>1. \A x \in S : L - x \in Nat
    OBVIOUS
  <2> QED BY <2>1
<1>2. PICK z \in T : \A y \in T : ~ (<<y, z>> \in OpToRel(<, Nat))
  BY <1>1, NatLessThanWellFounded, WFMin
<1>3. \A y \in T : ~ (y < z)
  BY <1>1, <1>2 DEF OpToRel
<1>4. PICK x \in S : z = L - x
  BY <1>2
<1>5. \A y \in S : y <= x
  <2> TAKE y \in S
  <2>1. L - y \in T
    OBVIOUS
  <2>2. ~ (L - y < L - x)
    BY <2>1, <1>3, <1>4
  <2>3. x \in 0 .. L /\ y \in 0 .. L
    OBVIOUS
  <2> HIDE DEF T
  <2> QED BY <2>2, <2>3
<1> QED BY <1>5

(* There is a least power of two that is not below n. *)
LEMMA LogExists ==
  ASSUME NEW n \in Nat \ {0}
  PROVE  \E c \in 0 .. n : Doubled(c) >= n /\ (c = 0 \/ Doubled(c - 1) < n)
<1>0. Doubled(0) = 1 /\ \A k \in Nat : Doubled(k) \in Nat \ {0} /\ Doubled(k + 1) = 2 * Doubled(k)
  BY DoubledStep
<1> DEFINE Fits(c) == Doubled(c) >= n /\ (c = 0 \/ Doubled(c - 1) < n)
           Large == {k \in Nat : Doubled(k) > k}
           Known == {k \in Nat : Doubled(k) >= n => \E c \in 0 .. k : Fits(c)}
<1>1. n \in Large
  <2>1. 0 \in Large /\ \A k \in Nat : k \in Large => k + 1 \in Large
    BY <1>0
  <2> HIDE DEF Large
  <2> QED BY <2>1, NatSetInduction
<1>2. n \in Known
  <2>1. 0 \in Known
    OBVIOUS
  <2>2. ASSUME NEW k \in Nat, k \in Known PROVE k + 1 \in Known
    <3>1. CASE Doubled(k) >= n
      <4>1. PICK c \in 0 .. k : Fits(c)
        BY <2>2, <3>1
      <4>2. c \in 0 .. k + 1
        OBVIOUS
      <4> HIDE DEF Fits
      <4> QED BY <4>1, <4>2
    <3>2. CASE ~ (Doubled(k) >= n) /\ Doubled(k + 1) >= n
      <4>1. (k + 1) - 1 = k /\ k + 1 \in 0 .. k + 1 /\ Doubled(k) \in Nat
        BY <1>0
      <4>2. Fits(k + 1)
        BY <3>2, <4>1
      <4> HIDE DEF Fits
      <4> QED BY <4>1, <4>2
    <3>3. CASE ~ (Doubled(k + 1) >= n)
      BY <3>3
    <3> QED BY <3>1, <3>2, <3>3
  <2> HIDE DEF Known
  <2> QED BY <2>1, <2>2, NatSetInduction
<1>3. \E c \in 0 .. n : Fits(c)
  BY <1>0, <1>1, <1>2
<1> QED BY <1>3
=============================================================================
