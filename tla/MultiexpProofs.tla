---------------------------- MODULE MultiexpProofs -----------------------------
(***************************************************************************)
(* What the multiexponentiations rest on, for all sizes:                   *)
(*                                                                         *)
(*  - split cuts a range into chunks without gaps and overlaps;            *)
(*  - the chunks of a multiexponentiation of fixed generators never share  *)
(*    a place of partial_products, in any order in which they finish;      *)
(*  - a multiexponentiation of fixed generators has the right result, with *)
(*    any table, chunks, widths and lengths;                               *)
(*  - the grids of KernelFit pass over every index once;                   *)
(*  - a block of ThreadReduction adds up what its threads have loaded,     *)
(*    whatever the order in which they run;                                *)
(*  - a multiproduct on the GPU returns every term of every product once.  *)
(***************************************************************************)
EXTENDS FixedMultiexp, ThreadReduction, DataLemmas, WellFoundedInduction

-----------------------------------------------------------------------------
(***************************************************************************)
(* split.  Everything that divides its work between devices rests on this, *)
(* and the tables of fixed generators on the alignment of the chunks.      *)
(***************************************************************************)

(* divide_up(a, b) is the least q with a <= q * b (base/num/divide_up.h) *)
LEMMA DivideUpBounds ==
  ASSUME NEW a \in Nat, NEW b \in Nat \ {0}
  PROVE  /\ DivideUp(a, b) \in Nat
         /\ a <= DivideUp(a, b) * b
         /\ DivideUp(a, b) * b < a + b
<1> DEFINE q == (a + b - 1) \div b
           r == (a + b - 1) % b
<1>1. q \in Nat /\ r \in 0 .. b - 1 /\ a + b - 1 = b * q + r
  BY SMTT(30)
<1>2. b * q = q * b
  BY <1>1, SMT
<1> QED BY <1>1, <1>2, SMT DEF DivideUp

(* The step is a positive multiple of the range's chunk_multiple, so that  *)
(* the iterators of split come to an end                                   *)
LEMMA ChunkStepPositive ==
  ASSUME NEW size \in Nat, NEW multiple \in Nat \ {0}, NEW options \in SplitOptions
  PROVE  \E k \in Nat \ {0} : ChunkStep(size, multiple, options) = k * multiple
<1> DEFINE even == AtLeast(1, DivideUp(size, options.split_factor))
           wanted == AtMost(options.max_chunk_size, AtLeast(options.min_chunk_size, even))
<1>1. DivideUp(size, options.split_factor) \in Nat
  BY DivideUpBounds DEF SplitOptions
<1>2. wanted \in Nat \ {0}
  BY <1>1 DEF SplitOptions, AtLeast, AtMost
<1>3. /\ DivideUp(wanted, multiple) \in Nat
      /\ wanted <= DivideUp(wanted, multiple) * multiple
  BY <1>2, DivideUpBounds
<1>4. DivideUp(wanted, multiple) # 0
  BY <1>2, <1>3
<1>5. ChunkStep(size, multiple, options) = DivideUp(wanted, multiple) * multiple
  BY DEF ChunkStep, RoundUp
<1> QED BY <1>3, <1>4, <1>5

(* distance_to: every chunk it counts begins before the end of the range,  *)
(* and only the last one reaches it                                        *)
LEMMA Chunks ==
  ASSUME NEW n \in Nat, NEW step \in Nat \ {0}
  PROVE  LET m == DivideUp(n, step) IN
         /\ m \in Nat
         /\ \A i \in 0 .. m - 1 : i * step < n
         /\ \A i \in 0 .. m - 1 : i * step + step >= n <=> i = m - 1
<1> DEFINE m == DivideUp(n, step)
<1>1. m \in Nat /\ n <= m * step /\ m * step < n + step
  BY DivideUpBounds
<1>2. ASSUME NEW i \in 0 .. m - 1
      PROVE  i * step + step <= m * step
  <2>1. (i + 1) * step <= m * step
    BY <1>1, SMTT(30)
  <2> QED BY <2>1, <1>1, SMT
<1>3. ASSUME NEW i \in 0 .. m - 1
      PROVE  i * step < n
  BY <1>1, <1>2
<1>4. ASSUME NEW i \in 0 .. m - 2
      PROVE  i * step + step < n
  <2>1. (i + 1) * step < n
    BY <1>3, <1>1
  <2> QED BY <2>1, <1>1, SMT
<1>5. m > 0 => (m - 1) * step + step = m * step
  BY <1>1, SMT
<1> QED BY <1>1, <1>3, <1>4, <1>5

(* The chunks of a range that begins at 0 are numbered from 0 *)
LEMMA SplitDomain ==
  ASSUME NEW n \in Nat, NEW multiple \in Nat \ {0}, NEW options \in SplitOptions
  PROVE  \E m \in Nat : DOMAIN Split(0, n, multiple, options) = 0 .. m - 1
<1> DEFINE step == ChunkStep(n - 0, multiple, options)
<1>1. n - 0 = n
  OBVIOUS
<1>2. PICK k \in Nat \ {0} : step = k * multiple
  BY <1>1, ChunkStepPositive
<1>3. step \in Nat \ {0}
  BY <1>2, SMT
<1>4. NumChunks(0, n, step) \in Nat
  BY <1>1, <1>3, DivideUpBounds DEF NumChunks
<1> QED BY <1>4 DEF Split

(* The chunks of split are not empty, each begins where the one before     *)
(* ends, the first at a and the last, only, ends at b; every chunk begins  *)
(* a multiple of chunk_multiple behind a, which is what async_partition_   *)
(* product asserts of its offset.  There is none exactly if a = b.         *)
THEOREM SplitCovers ==
  ASSUME NEW a \in Nat, NEW b \in Nat, a <= b,
         NEW multiple \in Nat \ {0}, NEW options \in SplitOptions
  PROVE  LET chunks == Split(a, b, multiple, options) IN
         \E m \in Nat :
           /\ DOMAIN chunks = 0 .. m - 1
           /\ m = 0 <=> a = b
           /\ \A i \in 0 .. m - 1 :
                /\ chunks[i].a < chunks[i].b
                /\ chunks[i].a = IF i = 0 THEN a ELSE chunks[i - 1].b
                /\ chunks[i].b = b <=> i = m - 1
                /\ \E k \in Nat : chunks[i].a = a + k * multiple
<1> DEFINE step == ChunkStep(b - a, multiple, options)
           m == DivideUp(b - a, step)
           chunks == Split(a, b, multiple, options)
<1>0. b - a \in Nat
  OBVIOUS
<1>1. PICK k \in Nat \ {0} : step = k * multiple
  BY <1>0, ChunkStepPositive
<1>2. step \in Nat \ {0}
  BY <1>1, SMT
<1>3. /\ m \in Nat
      /\ \A i \in 0 .. m - 1 : i * step < b - a
      /\ \A i \in 0 .. m - 1 : i * step + step >= b - a <=> i = m - 1
  BY <1>0, <1>2, Chunks
<1>4. chunks = [i \in 0 .. m - 1 |-> ChunkAt(a, b, step, i)]
  BY DEF Split, NumChunks
<1>5. m = 0 <=> a = b
  <2>1. 0 \in 0 .. m - 1 => 0 < b - a
    BY <1>3, <1>2, SMT
  <2>2. b - a <= m * step
    BY <1>0, <1>2, DivideUpBounds
  <2> QED BY <2>1, <2>2, <1>3, <1>2
<1>6. ASSUME NEW i \in 0 .. m - 1
      PROVE  /\ i * step \in Nat
             /\ chunks[i].a = a + i * step
             /\ chunks[i].b = IF i = m - 1 THEN b ELSE a + i * step + step
             /\ chunks[i].a < chunks[i].b
             /\ chunks[i].b = b <=> i = m - 1
  <2>1. i * step \in Nat
    BY <1>2, <1>3, SMT
  <2>2. chunks[i] = [a |-> a + i * step, b |-> AtMost(b, a + i * step + step)]
    BY <1>4 DEF ChunkAt
  <2>3. i * step < b - a /\ (i * step + step >= b - a <=> i = m - 1)
    BY <1>3
  <2>4. i = m - 1 => AtMost(b, a + i * step + step) = b
    BY <2>1, <2>3, <1>2 DEF AtMost
  <2>5. i # m - 1 => AtMost(b, a + i * step + step) = a + i * step + step
                      /\ a + i * step + step < b
    BY <2>1, <2>3, <1>2 DEF AtMost
  <2> QED BY <2>1, <2>2, <2>3, <2>4, <2>5, <1>2
<1>7. ASSUME NEW i \in 0 .. m - 1
      PROVE  chunks[i].a = IF i = 0 THEN a ELSE chunks[i - 1].b
  <2>1. CASE i = 0
    BY <2>1, <1>6, <1>2, SMT
  <2>2. CASE i # 0
    <3>1. i - 1 \in 0 .. m - 1 /\ i - 1 # m - 1
      BY <2>2, <1>3
    <3>2. (i - 1) * step + step = i * step
      BY <1>2, <1>3, SMT
    <3>3. chunks[i - 1].b = a + (i - 1) * step + step
      BY <1>6, <3>1
    <3>4. (i - 1) * step \in Nat /\ i * step \in Nat
      BY <1>6, <3>1
    <3>5. chunks[i].a = a + i * step
      BY <1>6
    <3> HIDE DEF chunks, step, m
    <3> QED BY <3>2, <3>3, <3>4, <3>5, <2>2, <1>2
  <2> QED BY <2>1, <2>2
<1>8. ASSUME NEW i \in 0 .. m - 1
      PROVE  \E l \in Nat : chunks[i].a = a + l * multiple
  <2>1. (i * k) \in Nat /\ (i * k) * multiple = i * step
    BY <1>1, <1>3, SMT
  <2> QED BY <2>1, <1>6
<1>9. DOMAIN chunks = 0 .. m - 1
  BY <1>4
<1> HIDE DEF chunks, m
<1> SUFFICES \E mm \in Nat :
           /\ DOMAIN chunks = 0 .. mm - 1
           /\ mm = 0 <=> a = b
           /\ \A i \in 0 .. mm - 1 :
                /\ chunks[i].a < chunks[i].b
                /\ chunks[i].a = IF i = 0 THEN a ELSE chunks[i - 1].b
                /\ chunks[i].b = b <=> i = mm - 1
                /\ \E l \in Nat : chunks[i].a = a + l * multiple
  BY DEF chunks
<1> QED BY <1>3, <1>5, <1>6, <1>7, <1>8, <1>9

-----------------------------------------------------------------------------
(* The arguments of a call *)

(* bit_table_partial_sums: the products of an output follow those of the   *)
(* outputs before.                                                         *)
LEMMA OutputsAre ==
  ASSUME NEW call \in FixedCalls
  PROVE  /\ NumOutputs(call) \in Nat /\ NumOutputs(call) = Len(call.lengths)
         /\ BitsUpTo(call, 0) = 0
         /\ \A o \in 1 .. NumOutputs(call) :
              /\ call.widths[o] \in Nat \ {0}
              /\ BitsUpTo(call, o) = BitsUpTo(call, o - 1) + call.widths[o]
         /\ \A o \in 0 .. NumOutputs(call) : BitsUpTo(call, o) \in Nat
<1>1. PICK n, size : n = Len(call.widths) /\ size = call.widths
  OBVIOUS
<1>2. size \in Seq(Nat \ {0}) /\ Len(call.widths) = Len(call.lengths)
  BY <1>1, FixedAssumption
<1>3. n \in Nat /\ size \in [1 .. n -> Nat] /\ \A o \in 1 .. n : size[o] \in Nat \ {0}
  BY <1>1, <1>2
<1>4. ASSUME NEW o \in Nat PROVE BitsUpTo(call, o) = Before(size, o + 1)
  <2>1. (o + 1) - 1 = o
    OBVIOUS
  <2> QED BY <1>1, <2>1 DEF BitsUpTo, Total, Before
<1>5. /\ Before(size, 1) = 0
      /\ \A p \in 1 .. n : Before(size, p + 1) = Before(size, p) + size[p]
      /\ \A p \in 1 .. n + 1 : Before(size, p) \in Nat
  BY <1>3, BeforeIs
<1>6. BitsUpTo(call, 0) = 0
  BY <1>4, <1>5
<1>7. ASSUME NEW o \in 1 .. n PROVE BitsUpTo(call, o) = BitsUpTo(call, o - 1) + size[o]
  <2>1. o \in Nat /\ o - 1 \in Nat /\ (o - 1) + 1 = o
    OBVIOUS
  <2> QED BY <1>4, <1>5, <2>1
<1>8. ASSUME NEW o \in 0 .. n PROVE BitsUpTo(call, o) \in Nat
  <2>1. o \in Nat /\ o + 1 \in 1 .. n + 1
    BY <1>3
  <2> QED BY <1>4, <1>5, <2>1
<1> QED BY <1>1, <1>2, <1>3, <1>6, <1>7, <1>8 DEF NumOutputs

(* A call with outputs has products, whole bytes for each generator, and   *)
(* the generators of the scalars.                                          *)
LEMMA ProductsAre ==
  ASSUME NEW call \in FixedCalls, NumOutputs(call) > 0
  PROVE  /\ NumProducts(call) \in Nat \ {0}
         /\ NumOutputBytes(call) \in Nat \ {0}
         /\ NumProducts(call) <= NumOutputBytes(call) * ByteBits
         /\ Length(call) \in 0 .. NumGens
<1>1. PICK n : n = NumOutputs(call)
  OBVIOUS
<1>2. /\ n \in Nat \ {0} /\ call.widths[n] \in Nat \ {0} /\ n \in 1 .. n /\ n - 1 \in 0 .. n
      /\ BitsUpTo(call, n) = BitsUpTo(call, n - 1) + call.widths[n] /\ BitsUpTo(call, n - 1) \in Nat
  BY <1>1, OutputsAre
<1>3. NumProducts(call) \in Nat \ {0}
  BY <1>1, <1>2 DEF NumProducts
<1>4. ByteBits \in Nat \ {0}
  BY GroupAssumption
<1>5. /\ DivideUp(NumProducts(call), ByteBits) \in Nat
      /\ NumProducts(call) <= DivideUp(NumProducts(call), ByteBits) * ByteBits
  BY <1>3, <1>4, DivideUpBounds
<1>6. NumOutputBytes(call) \in Nat \ {0}
  BY <1>3, <1>4, <1>5, SMT DEF NumOutputBytes
<1>7. Len(call.scalars) \in Nat /\ Length(call) <= NumGens
  BY FixedAssumption DEF NumOutputs
<1>8. \A x \in Nat, y \in Nat \ {0} : x \div y \in Nat
  BY SMT
<1>9. Length(call) \in Nat
  BY <1>6, <1>7, <1>8 DEF Length
<1> QED BY <1>3, <1>5, <1>6, <1>7, <1>9, GroupAssumption DEF NumOutputBytes

-----------------------------------------------------------------------------
(* Places of partial products *)

Statuses == {"waiting", "running", "copying", "done"}

(* While the chunks are at work: the chunks that have a place are those    *)
(* whose products have been ready, chunk_index counts them, and no two     *)
(* have the same.                                                          *)
AtWork(m) ==
  /\ fixed \in FixedCalls /\ NumProducts(fixed) \in Nat
  /\ at \in [0 .. m - 1 -> Statuses]
  /\ slot \in [{c \in 0 .. m - 1 : at[c] \in {"copying", "done"}} -> Nat]
  /\ chunk_index = Cardinality(DOMAIN slot)
  /\ \A c \in DOMAIN slot : slot[c] < chunk_index
  /\ \A c, d \in DOMAIN slot : c # d => slot[c] # slot[d]
  /\ DOMAIN partial_products = 0 .. NumProducts(fixed) * m - 1
  /\ ProductsKept

FixedInv ==
  \/ at = <<>> /\ slot = <<>> /\ chunk_index = 0
  \/ \E m \in Nat \ {0} : AtWork(m)

(* Slices of n entries at different multiples of n do not overlap *)
LEMMA SlicesDisjoint ==
  ASSUME NEW n \in Nat, NEW s \in Nat, NEW t \in Nat, s # t, NEW p \in 0 .. n - 1
  PROVE  n * s + p \notin n * t .. n * t + n - 1
<1>1. CASE s < t
  <2>1. n * (s + 1) <= n * t
    BY <1>1, SMT
  <2>2. n * (s + 1) = n * s + n /\ n * s \in Nat /\ n * t \in Nat
    BY SMT
  <2> QED BY <2>1, <2>2
<1>2. CASE t < s
  <2>1. n * (t + 1) <= n * s
    BY <1>2, SMT
  <2>2. n * (t + 1) = n * t + n /\ n * s \in Nat /\ n * t \in Nat
    BY SMT
  <2> QED BY <2>1, <2>2
<1> QED BY <1>1, <1>2

(* The slices lie within the array *)
LEMMA SliceInside ==
  ASSUME NEW n \in Nat, NEW m \in Nat, NEW s \in Nat, s < m, NEW p \in 0 .. n - 1
  PROVE  n * s + p \in 0 .. n * m - 1
<1>1. n * (s + 1) <= n * m
  BY SMT
<1>2. n * (s + 1) = n * s + n /\ n * s \in Nat /\ n * m \in Nat
  BY SMT
<1> QED BY <1>1, <1>2

(* As many places are taken as there are chunks at most *)
LEMMA PlacesBounded ==
  ASSUME NEW m \in Nat, AtWork(m)
  PROVE  /\ IsFiniteSet(DOMAIN slot) /\ chunk_index \in Nat
         /\ chunk_index <= m /\ \A c \in DOMAIN slot : slot[c] < m
<1>1. DOMAIN slot \subseteq 0 .. m - 1
  BY DEF AtWork
<1>2. IsFiniteSet(0 .. m - 1) /\ Cardinality(0 .. m - 1) = m
  BY FS_Interval
<1>3. IsFiniteSet(DOMAIN slot) /\ Cardinality(DOMAIN slot) \in Nat
  BY <1>1, <1>2, FS_Subset, FS_CardinalityType
<1>4. Cardinality(DOMAIN slot) <= m
  BY <1>1, <1>2, FS_Subset
<1>5. \A c \in DOMAIN slot : slot[c] \in Nat /\ slot[c] < chunk_index
  BY DEF AtWork
<1> QED BY <1>3, <1>4, <1>5 DEF AtWork

(* A call that splits its generators begins with no place taken *)
LEMMA CallInv ==
  ASSUME FixedInv, NEW call \in FixedCalls, FixedCall(call)
  PROVE  FixedInv'
<1> DEFINE chunks == ProductChunks(call)
           num_chunks == Cardinality(DOMAIN chunks)
<1>1. at = <<>> /\ slot = <<>> /\ chunk_index = 0
  BY FixedAssumption DEF FixedInv, AtWork, FixedCall
<1>2. CASE UNCHANGED <<at, slot, chunk_index>>
  BY <1>1, <1>2 DEF FixedInv
<1>3. CASE /\ NumOutputs(call) > 0 /\ num_chunks > 1
           /\ at' = [c \in DOMAIN chunks |-> "waiting"]
           /\ partial_products' = [i \in 0 .. NumProducts(call) * num_chunks - 1 |->
                                     Uninitialized]
           /\ UNCHANGED <<chunk_index, slot>>
  <2>1. NumProducts(call) \in Nat \ {0} /\ Length(call) \in Nat
    BY <1>3, ProductsAre
  <2>4. PICK m \in Nat : DOMAIN chunks = 0 .. m - 1
    BY <2>1, SplitDomain, FixedAssumption DEF ProductChunks
  <2>5. num_chunks = m
    BY <2>4, FS_Interval
  <2>6. {c \in 0 .. m - 1 : at'[c] \in {"copying", "done"}} = {}
    BY <1>3, <2>4
  <2>7. DOMAIN slot' = {} /\ slot' \in [{} -> Nat]
    BY <1>1, <1>3
  <2>8. fixed' = call
    BY DEF FixedCall
  <2>9. \A c \in DOMAIN at' : at'[c] # "done"
    BY <1>3
  <2>10. AtWork(m)'
    BY <1>1, <1>3, <2>1, <2>4, <2>5, <2>6, <2>7, <2>8, <2>9, FS_EmptySet
       DEF AtWork, Statuses, ProductsKept
  <2> QED BY <1>3, <2>5, <2>10 DEF FixedInv
<1> QED BY <1>2, <1>3 DEF FixedCall

(* A chunk that is launched takes no place yet *)
LEMMA LaunchInv ==
  ASSUME NEW m \in Nat \ {0}, AtWork(m), NEW c \in DOMAIN at, LaunchChunk(c)
  PROVE  AtWork(m)'
<1>1. /\ at' \in [0 .. m - 1 -> Statuses] /\ DOMAIN at' = DOMAIN at
      /\ at[c] = "waiting" /\ at' = [at EXCEPT ![c] = "running"]
      /\ UNCHANGED <<fixed, chunk_index, slot, partial_products>>
  BY DEF AtWork, LaunchChunk, Statuses
<1>2. \A d \in DOMAIN at : at'[d] # at[d] => at'[d] = "running" /\ at[d] = "waiting"
  BY <1>1
<1>3. {d \in 0 .. m - 1 : at'[d] \in {"copying", "done"}}
        = {d \in 0 .. m - 1 : at[d] \in {"copying", "done"}}
  BY <1>1, <1>2 DEF AtWork
<1>4. ProductsKept'
  BY <1>1, <1>2 DEF AtWork, ProductsKept
<1> QED BY <1>1, <1>3, <1>4 DEF AtWork

(* The place chunk_index is nobody's, and counting on makes it this one's *)
LEMMA ReadyInv ==
  ASSUME NEW m \in Nat \ {0}, AtWork(m), NEW c \in DOMAIN at, ProductsReady(c)
  PROVE  AtWork(m)'
<1>1. /\ at' \in [0 .. m - 1 -> Statuses] /\ DOMAIN at' = DOMAIN at
      /\ at[c] = "running" /\ at' = [at EXCEPT ![c] = "copying"]
      /\ UNCHANGED <<fixed, partial_products>>
  BY DEF AtWork, ProductsReady, Statuses
<1>2. c \in 0 .. m - 1 /\ c \notin DOMAIN slot
  BY <1>1 DEF AtWork
<1>3. /\ DOMAIN slot' = DOMAIN slot \union {c}
      /\ slot'[c] = chunk_index /\ \A d \in DOMAIN slot : slot'[d] = slot[d]
      /\ chunk_index' = chunk_index + 1
  BY <1>2 DEF ProductsReady
<1>4. IsFiniteSet(DOMAIN slot) /\ chunk_index \in Nat
  BY PlacesBounded
<1>5. chunk_index' = Cardinality(DOMAIN slot')
  <2>1. Cardinality(DOMAIN slot \union {c}) = Cardinality(DOMAIN slot) + 1
    BY <1>2, <1>4, FS_AddElement
  <2>2. chunk_index = Cardinality(DOMAIN slot)
    BY DEF AtWork
  <2> QED BY <1>3, <2>1, <2>2
<1>6. {d \in 0 .. m - 1 : at'[d] \in {"copying", "done"}} = DOMAIN slot'
  BY <1>1, <1>2, <1>3 DEF AtWork
<1>7. \A d \in DOMAIN slot : slot[d] \in Nat /\ slot[d] < chunk_index
  BY DEF AtWork
<1>8. slot' \in [DOMAIN slot' -> Nat]
  BY <1>3, <1>4, <1>7 DEF ProductsReady
<1>9. \A d \in DOMAIN slot' : slot'[d] < chunk_index'
  BY <1>3, <1>4, <1>7
<1>10. \A d, e \in DOMAIN slot' : d # e => slot'[d] # slot'[e]
  <2>1. ASSUME NEW d \in DOMAIN slot, NEW e \in DOMAIN slot, d # e
        PROVE  slot'[d] # slot'[e]
    BY <1>3, <2>1 DEF AtWork
  <2>2. \A d \in DOMAIN slot : slot'[d] # slot'[c]
    BY <1>3, <1>4, <1>7
  <2> QED BY <1>3, <2>1, <2>2
<1>11. \A d \in DOMAIN at' : at'[d] = "done" => at[d] = "done" /\ d \in DOMAIN slot
  BY <1>1 DEF AtWork
<1>12. ProductsKept'
  <2> SUFFICES ASSUME NEW d \in DOMAIN at', at'[d] = "done",
                      NEW p \in 0 .. NumProducts(fixed) - 1
               PROVE  partial_products'[NumProducts(fixed) * slot'[d] + p]
                        = ChunkProducts(fixed, ProductChunks(fixed)[d])[p]
    BY <1>1 DEF ProductsKept
  <2>1. d \in DOMAIN at /\ at[d] = "done" /\ slot'[d] = slot[d]
    BY <1>1, <1>3, <1>11
  <2> QED BY <1>1, <2>1 DEF AtWork, ProductsKept
<1> QED BY <1>1, <1>5, <1>6, <1>8, <1>9, <1>10, <1>12 DEF AtWork

(* A copy lands in the slice of its chunk and in no other *)
LEMMA CopyInv ==
  ASSUME NEW m \in Nat \ {0}, AtWork(m), NEW c \in DOMAIN at, CopyDone(c)
  PROVE  AtWork(m)'
<1> DEFINE n == NumProducts(fixed)
           first == n * slot[c]
           chunk(d) == ChunkProducts(fixed, ProductChunks(fixed)[d])
<1>1. /\ at' \in [0 .. m - 1 -> Statuses] /\ DOMAIN at' = DOMAIN at
      /\ at[c] = "copying" /\ at' = [at EXCEPT ![c] = "done"]
      /\ UNCHANGED <<fixed, chunk_index, slot>>
  BY DEF AtWork, CopyDone, Statuses
<1>2. partial_products' = [i \in DOMAIN partial_products |->
                             IF i \in first .. first + n - 1
                             THEN chunk(c)[i - first] ELSE partial_products[i]]
  BY DEF CopyDone
<1>3. {d \in 0 .. m - 1 : at'[d] \in {"copying", "done"}}
        = {d \in 0 .. m - 1 : at[d] \in {"copying", "done"}}
  BY <1>1 DEF AtWork
<1>4. n \in Nat /\ DOMAIN partial_products = 0 .. n * m - 1
  BY DEF AtWork
<1>5. \A d \in DOMAIN slot : slot[d] \in Nat /\ slot[d] < m
  BY PlacesBounded DEF AtWork
<1>6. c \in DOMAIN slot
  BY <1>1 DEF AtWork
<1>7. ASSUME NEW d \in DOMAIN at', at'[d] = "done", NEW p \in 0 .. n - 1
      PROVE  partial_products'[n * slot[d] + p] = chunk(d)[p]
  <2>1. d \in DOMAIN slot
    BY <1>1, <1>7 DEF AtWork
  <2>2. n * slot[d] + p \in DOMAIN partial_products
    BY <1>4, <1>5, <2>1, SliceInside
  <2>3. CASE d = c
    <3>1. first \in Nat
      BY <1>4, <1>5, <1>6, SMT
    <3>2. first + p \in first .. first + n - 1 /\ (first + p) - first = p
      BY <1>4, <3>1
    <3> QED BY <1>2, <2>2, <2>3, <3>2
  <2>4. CASE d # c
    <3>1. slot[d] # slot[c]
      BY <1>6, <2>1, <2>4 DEF AtWork
    <3>2. n * slot[d] + p \notin first .. first + n - 1
      BY <1>4, <1>5, <1>6, <2>1, <3>1, SlicesDisjoint
    <3>3. partial_products[n * slot[d] + p] = chunk(d)[p]
      BY <1>1, <1>7, <2>4 DEF AtWork, ProductsKept
    <3> QED BY <1>2, <2>2, <3>2, <3>3
  <2> QED BY <2>3, <2>4
<1>8. ProductsKept'
  BY <1>1, <1>7 DEF ProductsKept
<1>9. DOMAIN partial_products' = DOMAIN partial_products
  BY <1>2
<1> QED BY <1>1, <1>3, <1>8, <1>9 DEF AtWork

(* No step of async_multiexponentiate breaks this. *)
LEMMA FixedInvariance == FixedSpec => []FixedInv
<1>1. FixedIdle => FixedInv
  BY DEF FixedIdle, FixedInv
<1>2. ASSUME FixedInv, [FixedNext]_fixedVars
      PROVE  FixedInv'
  <2>1. CASE \E call \in FixedCalls : FixedCall(call)
    BY <1>2, <2>1, CallInv
  <2>2. CASE UNCHANGED <<fixed, at, chunk_index, slot, partial_products>>
    <3>1. CASE at = <<>> /\ slot = <<>> /\ chunk_index = 0
      BY <2>2, <3>1 DEF FixedInv
    <3>2. ASSUME NEW m \in Nat \ {0}, AtWork(m)
          PROVE  AtWork(m)'
      <4>1. ProductsKept'
        BY <2>2, <3>2 DEF AtWork, ProductsKept
      <4> QED BY <2>2, <3>2, <4>1 DEF AtWork
    <3> QED BY <1>2, <3>1, <3>2 DEF FixedInv
  <2>3. ASSUME NEW c \in DOMAIN at, LaunchChunk(c) \/ ProductsReady(c) \/ CopyDone(c)
        PROVE  FixedInv'
    <3>1. at # <<>>
      BY <2>3
    <3>2. PICK m \in Nat \ {0} : AtWork(m)
      BY <1>2, <3>1 DEF FixedInv
    <3> QED BY <2>3, <3>2, LaunchInv, ReadyInv, CopyInv DEF FixedInv
  <2>4. CASE \E k \in DOMAIN res : CombineOutputs(k - 1)
    BY <2>2, <2>4 DEF CombineOutputs
  <2> QED BY <1>2, <2>1, <2>2, <2>3, <2>4 DEF FixedNext, FixedChunkStep, fixedVars
<1> QED BY <1>1, <1>2, PTL DEF FixedSpec

(* A chunk's products, once copied, stay at the chunk's place: chunks take *)
(* their places with a shared counter at the time their products are       *)
(* ready, in any order, and combine_reduce adds the right ones.            *)
THEOREM FixedProductsKept == FixedSpec => []ProductsKept
<1>1. FixedInv => ProductsKept
  <2>1. at = <<>> => ProductsKept
    BY DEF ProductsKept
  <2> QED BY <2>1 DEF FixedInv, AtWork
<1> QED BY <1>1, FixedInvariance, PTL

-----------------------------------------------------------------------------
(* Sums of group elements *)

Coefficients == Junk .. NumGens - 1
Elements == [Coefficients -> Int]

(* 1 << 0 is 1, and 1 << (k + 1) twice 1 << k, never 0. *)
LEMMA PowerStep ==
  /\ PowerOf2(0) = 1
  /\ \A k \in Nat : PowerOf2(k) \in Nat \ {0} /\ PowerOf2(k + 1) = 2 * PowerOf2(k)
BY DoubledStep DEF PowerOf2, Doubled

(* Shifting by i + k multiplies the shifts by i and by k. *)
LEMMA PowerSum ==
  ASSUME NEW i \in Nat, NEW k \in Nat
  PROVE  PowerOf2(i + k) = PowerOf2(i) * PowerOf2(k)
BY DoubledSum DEF PowerOf2, Doubled

(* The operations give elements, coefficient by coefficient. *)
LEMMA ElementsAre ==
  /\ Zero \in Elements
  /\ \A g \in Coefficients : Zero[g] = 0
  /\ \A x, y \in Elements : Plus(x, y) \in Elements /\ \A g \in Coefficients : Plus(x, y)[g] = x[g] + y[g]
  /\ \A x \in Elements : Twice(x) \in Elements /\ \A g \in Coefficients : Twice(x)[g] = 2 * x[g]
<1>1. Zero \in Elements /\ \A g \in Coefficients : Zero[g] = 0
  BY DEF Zero, Elements, Coefficients
<1>3. ASSUME NEW x \in Elements, NEW y \in Elements
      PROVE  Plus(x, y) \in Elements /\ \A g \in Coefficients : Plus(x, y)[g] = x[g] + y[g]
  BY DEF Plus, Elements
<1>4. ASSUME NEW x \in Elements
      PROVE  Twice(x) \in Elements /\ \A g \in Coefficients : Twice(x)[g] = 2 * x[g]
  BY DEF Twice, Elements
<1> QED BY <1>1, <1>3, <1>4

(* The coefficients of g in the elements of a family *)
CoefficientsOf(f, g) == [x \in DOMAIN f |-> f[x][g]]

(* The sum over a subset, coefficient by coefficient *)
ByCoefficient(f, s) == [g \in Coefficients |-> SumFunctionOnSet(CoefficientsOf(f, g), s)]

(* One element more adds its coefficients. *)
LEMMA ByCoefficientStep ==
  ASSUME NEW T, IsFiniteSet(T), NEW f \in [T -> Elements], NEW s \in SUBSET T
  PROVE  /\ ByCoefficient(f, s) \in Elements
         /\ s = {} => ByCoefficient(f, s) = Zero
         /\ s # {} => ByCoefficient(f, s) = Plus(f[Pick(s)], ByCoefficient(f, s \ {Pick(s)}))
<1>1. IsFiniteSet(s)
  BY FS_Subset
<1>2. \A g \in Coefficients : CoefficientsOf(f, g) \in [T -> Int]
                              /\ \A x \in T : CoefficientsOf(f, g)[x] = f[x][g]
  BY DEF CoefficientsOf, Elements
<1>3. \A g \in Coefficients :
        /\ SumFunctionOnSet(CoefficientsOf(f, g), s) \in Int
        /\ s = {} => SumFunctionOnSet(CoefficientsOf(f, g), s) = 0
        /\ s # {} => /\ Pick(s) \in s
                     /\ SumFunctionOnSet(CoefficientsOf(f, g), s)
                          = CoefficientsOf(f, g)[Pick(s)]
                              + SumFunctionOnSet(CoefficientsOf(f, g), s \ {Pick(s)})
  <2> TAKE g \in Coefficients
  <2>1. PICK h : h = CoefficientsOf(f, g)
    OBVIOUS
  <2>2. h \in [T -> Int]
    BY <1>2, <2>1
  <2>3. /\ SumFunctionOnSet(h, s) \in Int
        /\ s = {} => SumFunctionOnSet(h, s) = 0
        /\ s # {} => /\ Pick(s) \in s
                     /\ SumFunctionOnSet(h, s) = h[Pick(s)] + SumFunctionOnSet(h, s \ {Pick(s)})
    BY <1>1, <2>2, SumStep
  <2> QED BY <2>1, <2>3
<1>4. ByCoefficient(f, s) \in Elements
  BY <1>3 DEF ByCoefficient, Elements
<1>5. ASSUME s = {} PROVE ByCoefficient(f, s) = Zero
  BY <1>3, <1>5 DEF ByCoefficient, Zero, Coefficients
<1>6. ASSUME s # {}
      PROVE  ByCoefficient(f, s) = Plus(f[Pick(s)], ByCoefficient(f, s \ {Pick(s)}))
  <2>1. Pick(s) \in s /\ Pick(s) \in T
    BY <1>6, PickIsIn
  <2>2. f[Pick(s)] \in Elements
    BY <2>1
  <2>3. \A g \in Coefficients :
          SumFunctionOnSet(CoefficientsOf(f, g), s)
            = f[Pick(s)][g] + SumFunctionOnSet(CoefficientsOf(f, g), s \ {Pick(s)})
    BY <1>2, <1>3, <1>6, <2>1
  <2>4. DOMAIN f[Pick(s)] = Coefficients
    BY <2>2 DEF Elements
  <2> QED BY <2>3, <2>4 DEF ByCoefficient, Plus
<1> QED BY <1>4, <1>5, <1>6

(* The group's sum of a family is the sum by coefficients. *)
LEMMA VectorSum ==
  ASSUME NEW T, IsFiniteSet(T), NEW f \in [T -> Elements]
  PROVE  /\ FoldFunction(Plus, Zero, f) \in Elements
         /\ \A g \in Coefficients : FoldFunction(Plus, Zero, f)[g] = SumFunction(CoefficientsOf(f, g))
<1> DEFINE Body(it, s) == IF s = {} THEN Zero ELSE Plus(f[Pick(s)], it[s \ {Pick(s)}])
           iter == CHOOSE it : it = [s \in SUBSET T |-> Body(it, s)]
           known == [s \in SUBSET T |-> ByCoefficient(f, s)]
<1>0. DOMAIN f = T
  OBVIOUS
<1>1. FoldFunction(Plus, Zero, f) = iter[T]
  BY <1>0 DEF FoldFunction, FoldFunctionOnSet, MapThenFoldSet, Pick
<1>2. ASSUME NEW s \in SUBSET T PROVE known[s] = Body(known, s)
  <2>1. s \ {Pick(s)} \in SUBSET T
    OBVIOUS
  <2> QED BY <2>1, ByCoefficientStep
<1>3. known = [s \in SUBSET T |-> Body(known, s)]
  BY <1>2
<1>4. iter = [s \in SUBSET T |-> Body(iter, s)]
  <2> HIDE DEF known
  <2> QED BY <1>3
<1> HIDE DEF iter, known
<1> DEFINE W == {iter[s] : s \in SUBSET T} \cup {known[s] : s \in SUBSET T}
           step == [x \in T |-> [v \in W |-> Plus(f[x], v)]]
           ch == [s \in SUBSET T |-> Pick(s)]
<1>5. ASSUME NEW x \in T, NEW s \in SUBSET T
      PROVE  step[x][iter[s]] = Plus(f[x], iter[s]) /\ step[x][known[s]] = Plus(f[x], known[s])
  OBVIOUS
<1>6. ASSUME NEW s \in SUBSET T
      PROVE  ch[s] = Pick(s) /\ (s # {} => ch[s] \in s /\ ch[s] \in T /\ s \ {ch[s]} \in SUBSET T)
  BY PickIsIn
<1> HIDE DEF step, ch
<1>7. Chooses(ch, T)
  BY <1>6 DEF Chooses
<1>8. ASSUME NEW s \in SUBSET T, s # {}
      PROVE  /\ iter[s] = step[ch[s]][iter[s \ {ch[s]}]]
             /\ known[s] = step[ch[s]][known[s \ {ch[s]}]]
  <2>1. iter[s] = Plus(f[ch[s]], iter[s \ {ch[s]}])
    BY <1>4, <1>6, <1>8
  <2>2. known[s] = Plus(f[ch[s]], known[s \ {ch[s]}])
    BY <1>2, <1>6, <1>8
  <2> QED BY <1>5, <1>6, <1>8, <2>1, <2>2
<1>9. iter[{}] = Zero /\ known[{}] = Zero
  <2>1. {} \in SUBSET T
    OBVIOUS
  <2> QED BY <1>2, <1>4, <2>1
<1>10. IsFold(iter, T, Zero, step, ch)
  BY <1>8, <1>9 DEF IsFold
<1>11. IsFold(known, T, Zero, step, ch)
  BY <1>8, <1>9 DEF IsFold
<1>12. iter[T] = known[T]
  BY <1>7, <1>10, <1>11, FoldUnique
<1>13. known[T] = ByCoefficient(f, T)
  BY DEF known
<1>14. \A g \in Coefficients : SumFunction(CoefficientsOf(f, g)) = SumFunctionOnSet(CoefficientsOf(f, g), T)
  BY <1>0 DEF SumFunction, CoefficientsOf
<1>15. T \in SUBSET T
  OBVIOUS
<1>16. ByCoefficient(f, T) \in Elements
  BY <1>15, ByCoefficientStep
<1> QED BY <1>1, <1>12, <1>13, <1>14, <1>16 DEF ByCoefficient

(* The sum over the first m places of a list that is numbered from 0 *)
Prefix(h, m) == SumFunctionOnSet(h, 0 .. m - 1)

(* The sums of the first m values, from none to all *)
LEMMA PrefixIs ==
  ASSUME NEW n \in Nat, NEW h \in [0 .. n - 1 -> Int]
  PROVE  /\ Prefix(h, 0) = 0 /\ Prefix(h, n) = SumFunction(h)
         /\ \A m \in 0 .. n : Prefix(h, m) \in Int
         /\ \A m \in 0 .. n - 1 : Prefix(h, m + 1) = Prefix(h, m) + h[m]
<1>1. PICK D : D = 0 .. n - 1
  OBVIOUS
<1>2. h \in [D -> Int]
  BY <1>1
<1>3. Prefix(h, 0) = 0
  <2>1. 0 .. 0 - 1 = {}
    OBVIOUS
  <2> QED BY <1>2, <2>1, SumEmpty DEF Prefix
<1>4. Prefix(h, n) = SumFunction(h)
  BY DEF Prefix, SumFunction
<1>5. ASSUME NEW m \in 0 .. n PROVE Prefix(h, m) \in Int
  <2>1. PICK T : T = 0 .. m - 1
    OBVIOUS
  <2>2. T \in SUBSET D /\ IsFiniteSet(T)
    BY <1>1, <2>1, FS_Interval
  <2> QED BY <1>2, <2>1, <2>2, SumType DEF Prefix
<1>6. ASSUME NEW m \in 0 .. n - 1 PROVE Prefix(h, m + 1) = Prefix(h, m) + h[m]
  <2>1. PICK T : T = 0 .. m - 1
    OBVIOUS
  <2>2. T \in SUBSET D /\ m \in D /\ m \notin T /\ 0 .. (m + 1) - 1 = T \cup {m}
    BY <1>1, <2>1
  <2>6. IsFiniteSet(T)
    BY <2>1, FS_Interval
  <2>3. SumFunctionOnSet(h, T \cup {m}) = h[m] + SumFunctionOnSet(h, T)
    BY <1>2, <2>2, <2>6, SumIn
  <2>4. h[m] \in Int /\ SumFunctionOnSet(h, T) \in Int
    BY <1>2, <2>2, <2>6, SumType
  <2>5. h[m] + SumFunctionOnSet(h, T) = SumFunctionOnSet(h, T) + h[m]
    BY <2>4
  <2> QED BY <2>1, <2>2, <2>3, <2>5 DEF Prefix
<1> QED BY <1>3, <1>4, <1>5, <1>6

(* Doubling and adding from the top, as a loop of n rounds *)
IsFromTop(r, x, last, n) ==
  /\ r[0] = x[last]
  /\ \A k \in 1 .. n : r[k] = Plus(Twice(r[k - 1]), x[last - k])

(* Horner begins with the last element and goes down to the first. *)
LEMMA HornerLoop ==
  ASSUME NEW first \in Int, NEW n \in Nat, NEW last, last = first + n,
         NEW x, \A i \in first .. last : x[i] \in Elements
  PROVE  \E r \in [0 .. n -> Elements] : IsFromTop(r, x, last, n) /\ Horner(x, first, last) = r[n]
<1> DEFINE step == [k \in 1 .. n |-> [v \in Elements |-> Plus(Twice(v), x[last - k])]]
<1>0. last \in Int /\ last \in first .. last /\ \A k \in 0 .. n : last - k \in first .. last
  OBVIOUS
<1>1. step \in [1 .. n -> [Elements -> Elements]] /\ x[last] \in Elements
  BY <1>0, ElementsAre
<1>2. \A k \in 1 .. n, v \in Elements : step[k][v] = Plus(Twice(v), x[last - k])
  OBVIOUS
<1> HIDE DEF step
<1>3. PICK r \in [0 .. n -> Elements] : IsLoop(r, n, x[last], step)
  BY <1>1, LoopExists
<1>4. r[0] = x[last] /\ \A k \in 1 .. n : r[k] = step[k][r[k - 1]]
  BY <1>3 DEF IsLoop
<1>5. \A k \in 1 .. n : k - 1 \in 0 .. n /\ k \in 0 .. n
  OBVIOUS
<1>6. IsFromTop(r, x, last, n)
  BY <1>2, <1>4, <1>5 DEF IsFromTop
<1> DEFINE Body(t, i) == IF i = last THEN x[i] ELSE Plus(Twice(t[i + 1]), x[i])
           from == CHOOSE t : t = [i \in first .. last |-> Body(t, i)]
           known == [i \in first .. last |-> r[last - i]]
<1>7. Horner(x, first, last) = from[first]
  BY DEF Horner
<1>8. ASSUME NEW i \in first .. last PROVE known[i] = Body(known, i)
  <2>1. CASE i = last
    <3>1. last - i = 0
      BY <1>0, <2>1
    <3> QED BY <1>4, <2>1, <3>1
  <2>2. CASE i # last
    <3>1. /\ last - i \in 1 .. n /\ (last - i) - 1 = last - (i + 1) /\ last - (last - i) = i
          /\ i + 1 \in first .. last
      BY <1>0, <2>2
    <3>2. known[i] = r[last - i] /\ known[i + 1] = r[(last - i) - 1]
      BY <3>1
    <3>3. r[last - i] = Plus(Twice(r[(last - i) - 1]), x[last - (last - i)])
      BY <1>6, <3>1 DEF IsFromTop
    <3> QED BY <2>2, <3>1, <3>2, <3>3
  <2> QED BY <2>1, <2>2
<1>9. known = [i \in first .. last |-> Body(known, i)]
  <2> HIDE DEF Body
  <2> QED BY <1>8
<1>10. from = [i \in first .. last |-> Body(from, i)]
  <2> HIDE DEF known
  <2> QED BY <1>9
<1> HIDE DEF from
<1> DEFINE s == [k \in 0 .. n |-> from[last - k]]
<1>11. s[0] = r[0]
  BY <1>0, <1>4, <1>10
<1>12. ASSUME NEW k \in 1 .. n PROVE s[k] = Plus(Twice(s[k - 1]), x[last - k])
  <2>1. last - k \in first .. last /\ last - k # last /\ (last - k) + 1 = last - (k - 1)
        /\ k \in 0 .. n /\ k - 1 \in 0 .. n
    BY <1>0
  <2>2. from[last - k] = Plus(Twice(from[(last - k) + 1]), x[last - k])
    BY <1>10, <2>1
  <2> QED BY <2>1, <2>2
<1>13. InStep(s, r, n)
  <2> HIDE DEF s
  <2> QED BY <1>6, <1>11, <1>12 DEF InStep, IsFromTop
<1>14. s[n] = r[n]
  <2> HIDE DEF s
  <2> QED BY <1>13, LoopsAgree DEF Agree
<1>15. s[n] = from[first]
  <2>1. n \in 0 .. n /\ last - n = first
    OBVIOUS
  <2> QED BY <2>1
<1> QED BY <1>6, <1>7, <1>14, <1>15

(* Two doublings of the same *)
LEMMA DoubledTwice ==
  ASSUME NEW a \in Int, NEW b \in Int, NEW p \in Int
  PROVE  (2 * a + b) * p = a * (2 * p) + b * p
OBVIOUS

(* The sum of x[first] to x[first + n], each weighed with the power of two of its place *)
WeighedSum(x, first, n, g) == SumFunction([j \in 0 .. n |-> x[first + j][g] * PowerOf2(j)])

AllElements(x, first, last) == \A i \in first .. last : x[i] \in Elements

(* reduce_output: doubling and adding weighs each element with the power   *)
(* of two of its place.                                                    *)
LEMMA HornerIs ==
  ASSUME NEW first \in Int, NEW n \in Nat, NEW last, last = first + n,
         NEW x, AllElements(x, first, last)
  PROVE  /\ Horner(x, first, last) \in Elements
         /\ \A g \in Coefficients : Horner(x, first, last)[g] = WeighedSum(x, first, n, g)
<1>0. \A i \in first .. last : x[i] \in Elements
  BY DEF AllElements
<1>1. PICK r \in [0 .. n -> Elements] : IsFromTop(r, x, last, n) /\ Horner(x, first, last) = r[n]
  BY <1>0, HornerLoop
<1>2. n \in 0 .. n
  OBVIOUS
<1> SUFFICES ASSUME NEW g \in Coefficients
             PROVE  r[n][g] = SumFunction([j \in 0 .. n |-> x[first + j][g] * PowerOf2(j)])
  BY <1>1, <1>2 DEF WeighedSum
<1>3. \A j \in 0 .. n : first + j \in first .. last /\ x[first + j][g] \in Int
  BY <1>0 DEF Elements
<1>4. PICK h : h = [j \in 0 .. n |-> x[first + j][g] * PowerOf2(j)]
  OBVIOUS
<1>5. \A j \in 0 .. n : PowerOf2(j) \in Nat \ {0} /\ PowerOf2(j + 1) = 2 * PowerOf2(j)
  <2> TAKE j \in 0 .. n
  <2>1. j \in Nat
    OBVIOUS
  <2> QED BY <2>1, PowerStep
<1>6. h \in [0 .. (n + 1) - 1 -> Int] /\ n + 1 \in Nat
  <2>1. \A j \in 0 .. n : x[first + j][g] * PowerOf2(j) \in Int
    <3> TAKE j \in 0 .. n
    <3>1. x[first + j][g] \in Int /\ PowerOf2(j) \in Int
      BY <1>3, <1>5
    <3> QED BY <3>1
  <2>2. 0 .. (n + 1) - 1 = 0 .. n
    OBVIOUS
  <2> QED BY <1>4, <2>1, <2>2
<1>7. /\ Prefix(h, 0) = 0 /\ Prefix(h, n + 1) = SumFunction(h)
      /\ \A m \in 0 .. n + 1 : Prefix(h, m) \in Int
      /\ \A m \in 0 .. (n + 1) - 1 : Prefix(h, m + 1) = Prefix(h, m) + h[m]
  BY <1>6, PrefixIs
<1> DEFINE G == {k \in 0 .. n : r[k][g] * PowerOf2(n - k) = Prefix(h, n + 1) - Prefix(h, n - k)}
<1>8. \A k \in 0 .. n : n - k \in 0 .. n /\ first + (n - k) = last - k /\ r[k][g] \in Int
  BY DEF Elements
<1>9. 0 \in G
  <2>1. r[0] = x[last] /\ first + n = last /\ n - 0 = n /\ n \in 0 .. (n + 1) - 1
    BY <1>1 DEF IsFromTop
  <2>2. h[n] = x[last][g] * PowerOf2(n)
    BY <1>4, <2>1
  <2>3. Prefix(h, n + 1) = Prefix(h, n) + h[n] /\ Prefix(h, n) \in Int /\ h[n] \in Int
    BY <1>6, <1>7, <2>1
  <2>4. Prefix(h, n + 1) - Prefix(h, n) = h[n]
    BY <2>3
  <2> QED BY <2>1, <2>2, <2>4
<1>10. ASSUME NEW k \in 1 .. n, k - 1 \in G PROVE k \in G
  <2>1. PICK i : i = n - k
    OBVIOUS
  <2>2. /\ i \in 0 .. n /\ i + 1 \in 0 .. n /\ n - (k - 1) = i + 1 /\ k \in 0 .. n /\ k - 1 \in 0 .. n
        /\ first + i = last - k /\ i \in 0 .. (n + 1) - 1 /\ i + 1 \in 0 .. n + 1 /\ i \in 0 .. n + 1
        /\ n + 1 \in 0 .. n + 1
    BY <2>1
  <2>3. r[k] = Plus(Twice(r[k - 1]), x[last - k])
    BY <1>1 DEF IsFromTop
  <2>4. r[k - 1] \in Elements /\ x[first + i] \in Elements
    BY <1>0, <2>2
  <2>5. r[k][g] = 2 * r[k - 1][g] + x[first + i][g]
    BY <2>2, <2>3, <2>4, ElementsAre
  <2>6. PICK a, b, p : a = r[k - 1][g] /\ b = x[first + i][g] /\ p = PowerOf2(i)
    OBVIOUS
  <2>7. a \in Int /\ b \in Int /\ p \in Int /\ PowerOf2(i + 1) = 2 * p
    <3>1. x[first + i][g] \in Int /\ r[k - 1][g] \in Int
      BY <1>3, <1>8, <2>2
    <3>2. PowerOf2(i) \in Nat \ {0} /\ PowerOf2(i + 1) = 2 * PowerOf2(i)
      BY <1>5, <2>2
    <3> QED BY <2>6, <3>1, <3>2
  <2>8. r[k][g] * p = a * (2 * p) + b * p
    <3>1. (2 * a + b) * p = a * (2 * p) + b * p
      BY <2>7, DoubledTwice
    <3> QED BY <2>5, <2>6, <3>1
  <2>9. a * (2 * p) = Prefix(h, n + 1) - Prefix(h, i + 1)
    BY <1>10, <2>2, <2>6, <2>7
  <2>10. h[i] = b * p
    BY <1>4, <2>2, <2>6
  <2>11. Prefix(h, i + 1) = Prefix(h, i) + h[i] /\ Prefix(h, i) \in Int /\ Prefix(h, n + 1) \in Int
         /\ h[i] \in Int
    BY <1>6, <1>7, <2>2
  <2>12. r[k][g] * p = Prefix(h, n + 1) - Prefix(h, i)
    BY <2>8, <2>9, <2>10, <2>11
  <2> QED BY <2>1, <2>2, <2>6, <2>12
<1> HIDE DEF G
<1>11. n \in G
  BY <1>9, <1>10, <1>2, BoundedInduction
<1>12. r[n][g] * PowerOf2(0) = Prefix(h, n + 1) - Prefix(h, 0)
  BY <1>11, n - n = 0 DEF G
<1>13. r[n][g] \in Int /\ SumFunction(h) \in Int
  <2>1. n + 1 \in 0 .. n + 1
    OBVIOUS
  <2> QED BY <1>2, <1>7, <1>8, <2>1
<1>14. PICK v, t : v = r[n][g] /\ t = SumFunction(h)
  OBVIOUS
<1>15. v \in Int /\ t \in Int /\ v * 1 = t - 0
  BY <1>7, <1>12, <1>13, <1>14, PowerStep
<1>16. v = t
  BY <1>15
<1> QED BY <1>4, <1>14, <1>16

-----------------------------------------------------------------------------
(* Bits *)

(* Twice a multiple of m has no bit at m. *)
LEMMA EvenBit ==
  ASSUME NEW m \in Nat \ {0}, NEW c \in Int
  PROVE  (((2 * c) * m) \div m) % 2 = 0
<1>1. 2 * c \in Int /\ 0 \in 0 .. m - 1 /\ (2 * c) * m + 0 = (2 * c) * m
  OBVIOUS
<1>2. (((2 * c) * m + 0) \div m) = 2 * c
  BY <1>1, DivisionIs
<1>3. (2 * c) % 2 = 0
  BY SMT
<1> QED BY <1>1, <1>2, <1>3

(* Below the place i nothing of a multiple of 2^i is seen. *)
LEMMA LowBits ==
  ASSUME NEW i \in Nat, NEW j \in 0 .. i - 1, NEW q \in Int
  PROVE  Bit(q * PowerOf2(i), j) = 0
<1>1. PICK c, m : c = PowerOf2(i - 1 - j) /\ m = PowerOf2(j)
  OBVIOUS
<1>2. i - 1 - j \in Nat /\ j \in Nat /\ i - 1 \in Nat /\ (i - 1) + 1 = i /\ (i - 1 - j) + j = i - 1
  OBVIOUS
<1>3. c \in Nat /\ m \in Nat \ {0} /\ PowerOf2(i) = 2 * PowerOf2(i - 1)
  BY <1>1, <1>2, PowerStep
<1>4. PowerOf2(i - 1) = c * m
  BY <1>1, <1>2, PowerSum
<1>5. q * (2 * (c * m)) = (2 * (q * c)) * m /\ q * c \in Int
  BY <1>3, SMT
<1>6. (((2 * (q * c)) * m) \div m) % 2 = 0
  BY <1>3, <1>5, EvenBit
<1> QED BY <1>1, <1>3, <1>4, <1>5, <1>6 DEF Bit

(* At the place i *)
LEMMA BitThere ==
  ASSUME NEW m \in Nat \ {0}, NEW q \in Int, NEW e \in {0, 1}, NEW a \in 0 .. m - 1
  PROVE  ((((q * 2 + e) * m + a) \div m) % 2) = e
<1>1. q * 2 + e \in Int
  OBVIOUS
<1>2. (((q * 2 + e) * m + a) \div m) = q * 2 + e
  BY <1>1, DivisionIs
<1>3. e \in 0 .. 2 - 1 /\ 2 \in Nat \ {0}
  OBVIOUS
<1>4. (q * 2 + e) % 2 = e
  BY <1>3, DivisionIs
<1> QED BY <1>2, <1>4

(* Above it, e makes no difference. *)
LEMMA BitAbove ==
  ASSUME NEW p \in Nat \ {0}, NEW c \in Nat \ {0}, NEW q \in Nat, NEW e \in {0, 1}
  PROVE  ((q * (2 * p) + e * p) \div ((2 * p) * c)) = (q \div c)
<1>1. PICK a, b : a = (q \div c) /\ b = (q % c)
  OBVIOUS
<1>2. a \in Int /\ b \in 0 .. c - 1 /\ q = a * c + b
  BY <1>1, DivisionRange
<1>3. PICK m, r : m = (2 * p) * c /\ r = b * (2 * p) + e * p
  OBVIOUS
<1>4. q * (2 * p) + e * p = a * m + r
  <2>1. (a * c + b) * (2 * p) + e * p = a * ((2 * p) * c) + (b * (2 * p) + e * p)
    BY <1>2, SMT
  <2> QED BY <1>2, <1>3, <2>1
<1>5. m \in Nat \ {0} /\ r \in 0 .. m - 1
  <2>1. e * p \in 0 .. p
    BY SMT
  <2>2. (b + 1) * (2 * p) <= c * (2 * p)
    BY <1>2, SMT
  <2>3. (b + 1) * (2 * p) = b * (2 * p) + 2 * p /\ c * (2 * p) = (2 * p) * c
    BY <1>2, SMT
  <2>4. b * (2 * p) \in Nat /\ (2 * p) * c \in Nat
    BY <1>2, SMT
  <2>5. r <= b * (2 * p) + p /\ r >= 0 /\ r \in Int
    BY <1>3, <2>1, <2>4
  <2>6. m >= b * (2 * p) + 2 * p /\ m \in Nat
    BY <1>3, <2>2, <2>3, <2>4
  <2> QED BY <2>4, <2>5, <2>6
<1>6. ((a * m + r) \div m) = a
  BY <1>2, <1>5, DivisionIs
<1> QED BY <1>1, <1>3, <1>4, <1>6

(* A number with the bit i (e = 1) or without it, nothing below, q above *)
LEMMA BitsAround ==
  ASSUME NEW i \in Nat, NEW q \in Nat, NEW e \in {0, 1}, NEW j \in Nat
  PROVE  Bit(q * (2 * PowerOf2(i)) + e * PowerOf2(i), j)
           = IF j = i THEN e ELSE Bit(q * (2 * PowerOf2(i)), j)
<1>1. PICK p : p = PowerOf2(i)
  OBVIOUS
<1>2. p \in Nat \ {0}
  BY <1>1, PowerStep
<1>3. q * (2 * p) + e * p = (q * 2 + e) * p /\ q * (2 * p) = (q * 2) * p /\ q * 2 + e \in Int /\ q * 2 \in Int
  BY <1>2, SMT
<1>4. CASE j < i
  <2>1. j \in 0 .. i - 1 /\ j # i
    BY <1>4
  <2>2. Bit((q * 2 + e) * p, j) = 0 /\ Bit((q * 2) * p, j) = 0
    BY <1>1, <1>3, <2>1, LowBits
  <2> QED BY <1>1, <1>3, <2>1, <2>2
<1>5. CASE j = i
  <2>1. 0 \in 0 .. p - 1 /\ (q * 2 + e) * p + 0 = (q * 2 + e) * p
    BY <1>2, <1>3
  <2>2. (((q * 2 + e) * p + 0) \div p) % 2 = e
    BY <1>2, <2>1, BitThere
  <2> QED BY <1>1, <1>3, <1>5, <2>1, <2>2 DEF Bit
<1>6. CASE j > i
  <2>1. PICK c : c = PowerOf2(j - i - 1)
    OBVIOUS
  <2>2. j - i - 1 \in Nat /\ i + 1 \in Nat /\ (i + 1) + (j - i - 1) = j
    BY <1>6
  <2>3. c \in Nat \ {0} /\ PowerOf2(i + 1) = 2 * p
    BY <1>1, <2>1, <2>2, PowerStep
  <2>4. PowerOf2(j) = (2 * p) * c
    BY <2>1, <2>2, <2>3, PowerSum
  <2>5. ((q * (2 * p) + e * p) \div ((2 * p) * c)) = (q \div c)
    BY <1>2, <2>3, BitAbove
  <2>6. ((q * (2 * p) + 0 * p) \div ((2 * p) * c)) = (q \div c)
    BY <1>2, <2>3, BitAbove
  <2>7. q * (2 * p) + 0 * p = q * (2 * p)
    BY <1>2, <1>3
  <2> QED BY <1>1, <1>6, <2>4, <2>5, <2>6, <2>7 DEF Bit
<1> QED BY <1>4, <1>5, <1>6

(* The bits of 0 *)
LEMMA NoBits == \A j \in Nat : Bit(0, j) = 0
<1> TAKE j \in Nat
<1>1. PICK m : m = PowerOf2(j)
  OBVIOUS
<1>2. m \in Nat \ {0}
  BY <1>1, PowerStep
<1>3. 0 * m + 0 = 0 /\ 0 \in 0 .. m - 1
  BY <1>2
<1>4. (0 \div m) = 0
  BY <1>2, <1>3, DivisionIs
<1> QED BY <1>1, <1>4 DEF Bit

(* What is above the place m does not change the bits below. *)
LEMMA BitsBelow ==
  ASSUME NEW m \in Nat, NEW a \in 0 .. PowerOf2(m) - 1, NEW b \in {0, 1}
  PROVE  /\ a + b * PowerOf2(m) \in 0 .. PowerOf2(m + 1) - 1
         /\ Bit(a + b * PowerOf2(m), m) = b
         /\ \A j \in 0 .. m - 1 : Bit(a + b * PowerOf2(m), j) = Bit(a, j)
<1>1. PICK p : p = PowerOf2(m)
  OBVIOUS
<1>2. p \in Nat \ {0} /\ PowerOf2(m + 1) = 2 * p /\ a \in 0 .. p - 1
  BY <1>1, PowerStep
<1>3. a + b * p \in 0 .. 2 * p - 1
  <2>1. b * p \in {0, p}
    BY <1>2
  <2> QED BY <1>2, <2>1
<1>4. Bit(a + b * p, m) = b
  <2>1. a + b * p = (0 * 2 + b) * p + a
    BY <1>2
  <2>2. (((0 * 2 + b) * p + a) \div p) % 2 = b
    BY <1>2, BitThere
  <2> QED BY <1>1, <2>1, <2>2 DEF Bit
<1>5. ASSUME NEW j \in 0 .. m - 1 PROVE Bit(a + b * p, j) = Bit(a, j)
  <2>1. PICK c, t : c = PowerOf2(m - 1 - j) /\ t = PowerOf2(j)
    OBVIOUS
  <2>2. m - 1 - j \in Nat /\ j \in Nat /\ m - 1 \in Nat /\ (m - 1) + 1 = m /\ (m - 1 - j) + j = m - 1
    OBVIOUS
  <2>3. c \in Nat /\ t \in Nat \ {0} /\ PowerOf2(m) = 2 * PowerOf2(m - 1)
    BY <2>1, <2>2, PowerStep
  <2>4. PowerOf2(m - 1) = c * t
    BY <2>1, <2>2, PowerSum
  <2>5. a + b * p = (2 * (b * c)) * t + a /\ 2 * (b * c) \in Int /\ b * c \in Int
    <3>1. a + b * (2 * (c * t)) = (2 * (b * c)) * t + a
      BY <2>3, SMT
    <3>2. b * c \in Int
      BY <2>3
    <3> QED BY <1>1, <2>3, <2>4, <3>1, <3>2
  <2>6. ((((2 * (b * c)) * t + a)) \div t) = 2 * (b * c) + (a \div t)
    BY <2>3, <2>5, DivisionAdds
  <2>7. PICK u, v : u = b * c /\ v = (a \div t)
    OBVIOUS
  <2>8. u \in Int /\ v \in Int
    BY <2>3, <2>5, <2>7, DivisionRange
  <2>9. (2 * u + v) % 2 = (v % 2)
    <3>1. 2 \in Nat \ {0} /\ u * 2 + v = 2 * u + v
      BY <2>8
    <3>2. (u * 2 + v) % 2 = (v % 2)
      BY <2>8, <3>1, DivisionAdds
    <3> QED BY <3>1, <3>2
  <2> QED BY <2>1, <2>5, <2>6, <2>7, <2>9 DEF Bit
<1> QED BY <1>1, <1>2, <1>3, <1>4, <1>5

(* h has the powers of two for which b is 1 *)
PowersOf(h, b, n) == h = [i \in 0 .. n - 1 |-> b[i] * PowerOf2(i)]

(* The sum of the powers for which b is 1 has the bits b. *)
LEMMA BinarySum ==
  ASSUME NEW n \in Nat, NEW b \in [0 .. n - 1 -> {0, 1}], NEW h, PowersOf(h, b, n)
  PROVE  /\ SumFunction(h) \in 0 .. PowerOf2(n) - 1
         /\ \A j \in 0 .. n - 1 : Bit(SumFunction(h), j) = b[j]
<1>0. h = [i \in 0 .. n - 1 |-> b[i] * PowerOf2(i)]
  BY DEF PowersOf
<1>1. h \in [0 .. n - 1 -> Int]
  <2>1. \A i \in 0 .. n - 1 : b[i] * PowerOf2(i) \in Int
    <3> TAKE i \in 0 .. n - 1
    <3>1. i \in Nat /\ b[i] \in {0, 1}
      OBVIOUS
    <3>2. PowerOf2(i) \in Int
      BY <3>1, PowerStep
    <3> QED BY <3>1, <3>2
  <2> QED BY <1>0, <2>1
<1>2. /\ Prefix(h, 0) = 0 /\ Prefix(h, n) = SumFunction(h)
      /\ \A m \in 0 .. n - 1 : Prefix(h, m + 1) = Prefix(h, m) + h[m]
  BY <1>1, PrefixIs
<1> DEFINE Right(m) == /\ Prefix(h, m) \in 0 .. PowerOf2(m) - 1
                       /\ \A j \in 0 .. m - 1 : Bit(Prefix(h, m), j) = b[j]
           G == {m \in 0 .. n : Right(m)}
<1>3. 0 \in G
  <2>1. PowerOf2(0) = 1
    BY PowerStep
  <2>2. Right(0)
    BY <1>2, <2>1
  <2> QED BY <2>2
<1>4. ASSUME NEW k \in 1 .. n, k - 1 \in G PROVE k \in G
  <2>1. PICK m : m = k - 1
    OBVIOUS
  <2>2. m \in Nat /\ m \in 0 .. n - 1 /\ m + 1 = k /\ b[m] \in {0, 1} /\ h[m] = b[m] * PowerOf2(m)
    BY <1>0, <2>1
  <2>3. PICK a : a = Prefix(h, m)
    OBVIOUS
  <2>4. Right(m)
    BY <1>4, <2>1
  <2>5. a \in 0 .. PowerOf2(m) - 1 /\ \A j \in 0 .. m - 1 : Bit(a, j) = b[j]
    BY <2>3, <2>4
  <2>6. Prefix(h, k) = a + b[m] * PowerOf2(m)
    BY <1>2, <2>2, <2>3
  <2>7. /\ a + b[m] * PowerOf2(m) \in 0 .. PowerOf2(m + 1) - 1
        /\ Bit(a + b[m] * PowerOf2(m), m) = b[m]
        /\ \A j \in 0 .. m - 1 : Bit(a + b[m] * PowerOf2(m), j) = Bit(a, j)
    BY <2>2, <2>5, BitsBelow
  <2>8. Right(k)
    <3>1. Prefix(h, k) \in 0 .. PowerOf2(k) - 1
      BY <2>2, <2>6, <2>7
    <3>2. ASSUME NEW j \in 0 .. k - 1 PROVE Bit(Prefix(h, k), j) = b[j]
      <4>1. j = m \/ j \in 0 .. m - 1
        BY <2>2
      <4> QED BY <2>5, <2>6, <2>7, <4>1
    <3> QED BY <3>1, <3>2
  <2> QED BY <2>8
<1> HIDE DEF G
<1>5. n \in G
  BY <1>3, <1>4, BoundedInduction, n \in 0 .. n
<1> QED BY <1>2, <1>5 DEF G

-----------------------------------------------------------------------------
(* The table of sums *)

(* mask % (2 t) = t *)
IsLowest(mask, t) == (mask % (2 * t)) = t

(* Every mask but 0 has a lowest bit. *)
LEMMA LowestBitExists ==
  \A n \in Nat : \A mask \in 1 .. PowerOf2(n) - 1 :
    \E i \in 0 .. n - 1 : IsLowest(mask, PowerOf2(i))
<1> DEFINE G == {n \in Nat : \A mask \in 1 .. PowerOf2(n) - 1 :
                               \E i \in 0 .. n - 1 : IsLowest(mask, PowerOf2(i))}
<1>1. 0 \in G
  BY PowerStep
<1>2. ASSUME NEW n \in Nat, n \in G PROVE n + 1 \in G
  <2>1. PICK p : p = PowerOf2(n)
    OBVIOUS
  <2>2. p \in Nat \ {0} /\ PowerOf2(n + 1) = 2 * p
    BY <2>1, PowerStep
  <2>3. ASSUME NEW mask \in 1 .. 2 * p - 1
        PROVE  \E i \in 0 .. (n + 1) - 1 : IsLowest(mask, PowerOf2(i))
    <3>1. CASE mask = p
      <4>1. 2 * p \in Nat \ {0} /\ p \in 0 .. 2 * p - 1 /\ n \in 0 .. (n + 1) - 1
        BY <2>2
      <4>2. (p % (2 * p)) = p
        BY <4>1, ModSmall
      <4> QED BY <2>1, <3>1, <4>1, <4>2 DEF IsLowest
    <3>2. CASE mask # p
      <4>1. PICK low \in 1 .. p - 1, b \in {0, 1} : mask = low + b * p
        <5>1. CASE mask < p
          <6>1. mask \in 1 .. p - 1 /\ 0 \in {0, 1} /\ mask = mask + 0 * p
            BY <2>2, <5>1
          <6> QED BY <6>1
        <5>2. CASE mask > p
          <6>1. mask - p \in 1 .. p - 1 /\ 1 \in {0, 1} /\ mask = (mask - p) + 1 * p
            BY <2>2, <5>2
          <6> QED BY <6>1
        <5> QED BY <2>2, <3>2, <5>1, <5>2
      <4>2. PICK i \in 0 .. n - 1 : IsLowest(low, PowerOf2(i))
        BY <1>2, <2>1, <4>1
      <4>3. PICK c, t : c = PowerOf2(n - 1 - i) /\ t = PowerOf2(i)
        OBVIOUS
      <4>4. i \in Nat /\ n - 1 - i \in Nat /\ (n - 1 - i) + i = n - 1 /\ n - 1 \in Nat /\ (n - 1) + 1 = n
            /\ i \in 0 .. (n + 1) - 1
        BY <4>2
      <4>5. c \in Nat /\ t \in Nat \ {0} /\ PowerOf2(n) = 2 * PowerOf2(n - 1)
        BY <4>3, <4>4, PowerStep
      <4>6. PowerOf2(n - 1) = c * t
        BY <4>3, <4>4, PowerSum
      <4>7. low + b * p = (b * c) * (2 * t) + low
        <5>1. low + b * (2 * (c * t)) = (b * c) * (2 * t) + low
          BY <4>5, SMT
        <5> QED BY <2>1, <4>5, <4>6, <5>1
      <4>8. b * c \in Int /\ 2 * t \in Nat \ {0} /\ low \in Int
        <5>1. b * c \in Int
          BY <4>5
        <5> QED BY <4>5, <5>1
      <4>9. (((b * c) * (2 * t) + low) % (2 * t)) = (low % (2 * t))
        BY <4>8, DivisionAdds
      <4>10. IsLowest(mask, t)
        BY <4>1, <4>2, <4>3, <4>7, <4>9 DEF IsLowest
      <4> QED BY <4>3, <4>4, <4>10
    <3> QED BY <3>1, <3>2
  <2> QED BY <2>2, <2>3
<1> HIDE DEF G
<1>3. Nat \subseteq G
  BY <1>1, <1>2, NatSetInduction
<1> QED BY <1>3 DEF G

(* The place of the lowest bit *)
PlaceOf(t) == CHOOSE i \in 0 .. WindowWidth - 1 : t = PowerOf2(i)

(* LowestBit gives the lowest bit: taking it away leaves the other bits. *)
LEMMA LowestBitIs ==
  ASSUME NEW mask \in 1 .. PowerOf2(WindowWidth) - 1,
         NEW t, t = LowestBit(mask), NEW i, i = PlaceOf(t)
  PROVE  /\ i \in 0 .. WindowWidth - 1 /\ t \in 1 .. mask
         /\ \A j \in Nat : /\ Bit(t, j) = IF j = i THEN 1 ELSE 0
                           /\ Bit(mask - t, j) = IF j = i THEN 0 ELSE Bit(mask, j)
                           /\ j = i => Bit(mask, j) = 1
<1>1. WindowWidth \in Nat
  BY FixedAssumption
<1>2. PICK k \in 0 .. WindowWidth - 1 : IsLowest(mask, PowerOf2(k))
  BY <1>1, LowestBitExists
<1> DEFINE Places == {PowerOf2(j) : j \in 0 .. WindowWidth - 1}
<1>3. \E s \in Places : (mask % (2 * s)) = s
  BY <1>2 DEF IsLowest
<1>4. t = CHOOSE s \in Places : (mask % (2 * s)) = s
  BY DEF LowestBit
<1>5. t \in Places /\ (mask % (2 * t)) = t
  <2> HIDE DEF Places
  <2> QED BY <1>3, <1>4
<1>6. \E j \in 0 .. WindowWidth - 1 : t = PowerOf2(j)
  BY <1>5
<1>7. i \in 0 .. WindowWidth - 1 /\ t = PowerOf2(i)
  BY <1>6 DEF PlaceOf
<1>8. i \in Nat /\ t \in Nat \ {0}
  <2>1. i \in Nat
    <3>1. PICK w : w = WindowWidth
      OBVIOUS
    <3>2. w \in Nat /\ i \in 0 .. w - 1
      BY <1>1, <1>7, <3>1
    <3> QED BY <3>2
  <2> QED BY <1>7, <2>1, PowerStep
<1>9. PICK q, m : q = (mask \div (2 * t)) /\ m = 2 * t
  OBVIOUS
<1>10. m \in Nat \ {0} /\ mask \in Int
  BY <1>8, <1>9
<1>11. q \in Int /\ mask = q * m + t
  <2>1. (mask % m) = t
    BY <1>5, <1>9
  <2>2. (mask \div m) \in Int /\ mask = (mask \div m) * m + (mask % m)
    BY <1>10, DivisionRange
  <2> QED BY <1>9, <2>1, <2>2
<1>12. q \in Nat
  <2>1. CASE q < 0
    <3>1. (q + 1) * m <= 0
      BY <1>10, <1>11, <2>1, SMT
    <3>2. (q + 1) * m = q * m + m /\ q * m \in Int
      BY <1>10, <1>11, SMT
    <3> QED BY <1>8, <1>9, <1>11, <3>1, <3>2
  <2> QED BY <1>11, <2>1
<1>13. q * m \in Nat
  BY <1>10, <1>12
<1>14. t \in 1 .. mask /\ mask - t = q * m
  BY <1>8, <1>11, <1>13
<1>15. ASSUME NEW j \in Nat
       PROVE  /\ Bit(t, j) = IF j = i THEN 1 ELSE 0
              /\ Bit(mask - t, j) = IF j = i THEN 0 ELSE Bit(mask, j)
              /\ j = i => Bit(mask, j) = 1
  <2>1. /\ Bit(q * (2 * PowerOf2(i)) + 1 * PowerOf2(i), j)
             = IF j = i THEN 1 ELSE Bit(q * (2 * PowerOf2(i)), j)
        /\ Bit(q * (2 * PowerOf2(i)) + 0 * PowerOf2(i), j)
             = IF j = i THEN 0 ELSE Bit(q * (2 * PowerOf2(i)), j)
        /\ Bit(0 * (2 * PowerOf2(i)) + 1 * PowerOf2(i), j)
             = IF j = i THEN 1 ELSE Bit(0 * (2 * PowerOf2(i)), j)
    BY <1>8, <1>12, BitsAround
  <2>2. /\ q * (2 * PowerOf2(i)) + 1 * PowerOf2(i) = mask
        /\ q * (2 * PowerOf2(i)) + 0 * PowerOf2(i) = mask - t
        /\ q * (2 * PowerOf2(i)) = mask - t
        /\ 0 * (2 * PowerOf2(i)) + 1 * PowerOf2(i) = t
        /\ 0 * (2 * PowerOf2(i)) = 0
    BY <1>7, <1>8, <1>9, <1>11, <1>13, <1>14
  <2>3. Bit(0, j) = 0
    BY NoBits
  <2> QED BY <2>1, <2>2, <2>3
<1> QED BY <1>7, <1>14, <1>15

(* The generators of a group *)
GroupGens(group) == {g \in Coefficients : /\ group * WindowWidth <= g
                                          /\ g < group * WindowWidth + WindowWidth}

(* What a table's entry should be: the generators whose bit the mask has *)
EntryOf(group, mask) ==
  [g \in Coefficients |-> IF g \in GroupGens(group) THEN Bit(mask, g - group * WindowWidth) ELSE 0]

(* A bit is 0 or 1. *)
LEMMA BitType ==
  ASSUME NEW a \in Int, NEW j \in Nat
  PROVE  Bit(a, j) \in {0, 1}
<1>1. PICK m : m = PowerOf2(j)
  OBVIOUS
<1>2. m \in Nat \ {0}
  BY <1>1, PowerStep
<1>3. (a \div m) \in Int
  BY <1>2, DivisionRange
<1> QED BY <1>1, <1>3, SMT DEF Bit

(* The generators of a group lie in it, and are generators of the table. *)
LEMMA GroupIs ==
  ASSUME NEW group \in Nat
  PROVE  /\ group * WindowWidth \in Nat
         /\ \A g \in GroupGens(group) : /\ g - group * WindowWidth \in 0 .. WindowWidth - 1
                                        /\ g \in 0 .. NumGens - 1
<1>1. WindowWidth \in Nat
  BY FixedAssumption
<1>2. group * WindowWidth \in Nat
  BY <1>1
<1> QED BY <1>1, <1>2, GroupAssumption DEF GroupGens, Coefficients, Junk

(* An entry is an element. *)
LEMMA EntryIs ==
  ASSUME NEW group \in Nat, NEW mask \in Int
  PROVE  EntryOf(group, mask) \in Elements
<1>1. \A g \in GroupGens(group) : Bit(mask, g - group * WindowWidth) \in Int
  <2> TAKE g \in GroupGens(group)
  <2>1. g - group * WindowWidth \in Nat
    BY GroupIs
  <2>2. Bit(mask, g - group * WindowWidth) \in {0, 1}
    BY <2>1, BitType
  <2> QED BY <2>2
<1> QED BY <1>1 DEF EntryOf, Elements

(* An entry of one bit is that generator. *)
LEMMA EntryOfOne ==
  ASSUME NEW group \in Nat, NEW t, NEW i \in 0 .. WindowWidth - 1,
         \A j \in Nat : Bit(t, j) = IF j = i THEN 1 ELSE 0
  PROVE  PaddedGenerator(group * WindowWidth + i) = EntryOf(group, t)
<1>1. PICK first : first = group * WindowWidth
  OBVIOUS
<1>2. first \in Nat /\ WindowWidth \in Nat /\ NumGens \in Nat
  BY <1>1, GroupIs, FixedAssumption, GroupAssumption
<1>3. PaddedGenerator(first + i)
        = [g \in Coefficients |-> IF g = first + i THEN 1 ELSE 0]
  <2>1. CASE first + i < NumGens
    <3>1. first + i \in Coefficients
      BY <1>2, <2>1 DEF Coefficients, Junk
    <3> QED BY <2>1, <3>1 DEF PaddedGenerator, Generator, Zero, Coefficients
  <2>2. CASE ~ (first + i < NumGens)
    <3>1. \A g \in Coefficients : g # first + i
      BY <1>2, <2>2 DEF Coefficients, Junk
    <3> QED BY <2>2, <3>1 DEF PaddedGenerator, Zero, Coefficients
  <2> QED BY <2>1, <2>2
<1>4. ASSUME NEW g \in Coefficients
      PROVE  (IF g = first + i THEN 1 ELSE 0)
               = (IF g \in GroupGens(group) THEN Bit(t, g - first) ELSE 0)
  <2>1. CASE g \in GroupGens(group)
    <3>1. g - first \in Nat /\ g \in Int
      BY <1>1, <2>1, GroupIs
    <3>2. Bit(t, g - first) = IF g - first = i THEN 1 ELSE 0
      BY <3>1
    <3>3. g - first = i <=> g = first + i
      BY <1>2, <3>1
    <3> QED BY <2>1, <3>2, <3>3
  <2>2. CASE g \notin GroupGens(group)
    <3>1. g # first + i
      BY <1>1, <1>2, <2>2 DEF GroupGens
    <3> QED BY <2>2, <3>1
  <2> QED BY <2>1, <2>2
<1> QED BY <1>1, <1>3, <1>4 DEF EntryOf

(***************************************************************************)
(* compute_partition_values: each entry of a table is the sum of the       *)
(* generators whose bits its index has.                                    *)
(***************************************************************************)
LEMMA TableIs ==
  ASSUME NEW group \in Nat, NEW mask \in 0 .. PowerOf2(WindowWidth) - 1
  PROVE  TableSlice(group)[mask] = EntryOf(group, mask)
<1> DEFINE Masks == 0 .. PowerOf2(WindowWidth) - 1
           Body(s, m) ==
             IF m = 0 THEN Zero
             ELSE IF m = LowestBit(m)
             THEN PaddedGenerator(group * WindowWidth + PlaceOf(LowestBit(m)))
             ELSE Plus(s[m - LowestBit(m)], s[LowestBit(m)])
           slices == CHOOSE s : s = [m \in Masks |-> Body(s, m)]
           known == [m \in Masks |-> EntryOf(group, m)]
<1>1. TableSlice(group) = slices
  BY DEF TableSlice, PlaceOf
<1> PICK top : top = PowerOf2(WindowWidth)
  OBVIOUS
<1>0. top \in Nat
  BY FixedAssumption, PowerStep
<1>2. Masks = 0 .. top - 1 /\ Masks \subseteq Nat
  BY <1>0
<1>3. ASSUME NEW m \in Masks PROVE EntryOf(group, m) = Body(known, m)
  <2>1. CASE m = 0
    <3>1. \A g \in GroupGens(group) : Bit(0, g - group * WindowWidth) = 0
      BY GroupIs, NoBits
    <3> QED BY <2>1, <3>1 DEF EntryOf, Zero, Coefficients
  <2>2. CASE m # 0
    <3>1. PICK t, i : t = LowestBit(m) /\ i = PlaceOf(t)
      OBVIOUS
    <3>2. m \in 1 .. PowerOf2(WindowWidth) - 1
      BY <2>2
    <3>3. /\ i \in 0 .. WindowWidth - 1 /\ t \in 1 .. m
          /\ \A j \in Nat : /\ Bit(t, j) = IF j = i THEN 1 ELSE 0
                            /\ Bit(m - t, j) = IF j = i THEN 0 ELSE Bit(m, j)
                            /\ j = i => Bit(m, j) = 1
      BY <3>1, <3>2, LowestBitIs
    <3>4. CASE m = t
      <4>1. PaddedGenerator(group * WindowWidth + i) = EntryOf(group, t)
        BY <3>3, EntryOfOne
      <4> QED BY <2>2, <3>1, <3>4, <4>1
    <3>5. CASE m # t
      <4>1. t \in Masks /\ m - t \in Masks /\ t \in Int /\ m - t \in Int
        <5>1. m \in 0 .. top - 1 /\ t \in 1 .. m
          BY <1>2, <3>3
        <5>2. t \in 0 .. top - 1 /\ m - t \in 0 .. top - 1 /\ t \in Int /\ m - t \in Int
          BY <1>0, <5>1
        <5> QED BY <1>2, <5>2
      <4>2. PICK u, v : u = EntryOf(group, m - t) /\ v = EntryOf(group, t)
        OBVIOUS
      <4>3. u \in Elements /\ v \in Elements
        BY <4>1, <4>2, EntryIs
      <4>4. ASSUME NEW g \in Coefficients
            PROVE  EntryOf(group, m)[g] = u[g] + v[g]
        <5>1. CASE g \in GroupGens(group)
          <6>1. PICK j : j = g - group * WindowWidth
            OBVIOUS
          <6>2. j \in Nat /\ m \in Int
            BY <5>1, <6>1, GroupIs, <1>2
          <6>3. u[g] = Bit(m - t, j) /\ v[g] = Bit(t, j) /\ EntryOf(group, m)[g] = Bit(m, j)
            BY <4>2, <5>1, <6>1 DEF EntryOf
          <6>4. Bit(m, j) \in {0, 1}
            BY <6>2, BitType
          <6>5. Bit(m, j) = Bit(m - t, j) + Bit(t, j)
            BY <3>3, <6>2, <6>4
          <6> QED BY <6>3, <6>5
        <5>2. CASE g \notin GroupGens(group)
          BY <4>2, <5>2 DEF EntryOf
        <5> QED BY <5>1, <5>2
      <4>5. Plus(u, v) = EntryOf(group, m)
        <5>1. DOMAIN u = Coefficients
          BY <4>3 DEF Elements
        <5>2. EntryOf(group, m) = [g \in Coefficients |-> EntryOf(group, m)[g]]
          BY DEF EntryOf
        <5> QED BY <4>4, <5>1, <5>2 DEF Plus
      <4>6. known[m - t] = u /\ known[t] = v
        BY <4>1, <4>2
      <4> QED BY <2>2, <3>1, <3>5, <4>5, <4>6
    <3> QED BY <3>4, <3>5
  <2> QED BY <2>1, <2>2
<1>4. known = [m \in Masks |-> Body(known, m)]
  <2> HIDE DEF Body
  <2> QED BY <1>3
<1>5. slices = [m \in Masks |-> Body(slices, m)]
  <2> HIDE DEF known, Body
  <2> QED BY <1>4
<1> HIDE DEF slices
<1>10. ASSUME NEW m \in Masks PROVE slices[m] = Body(slices, m)
  <2> HIDE DEF Body, Masks
  <2>1. [k \in Masks |-> Body(slices, k)][m] = Body(slices, m)
    OBVIOUS
  <2> QED BY <1>5, <2>1
<1> DEFINE G == {n \in Nat : \A m \in Masks : m < n => slices[m] = EntryOf(group, m)}
<1>6. 0 \in G
  BY <1>2
<1>7. ASSUME NEW n \in Nat, n \in G PROVE n + 1 \in G
  <2> SUFFICES ASSUME NEW m \in Masks, m < n + 1 PROVE slices[m] = EntryOf(group, m)
    OBVIOUS
  <2>1. m < n => slices[m] = EntryOf(group, m)
    BY <1>7
  <2>2. ASSUME m = n PROVE slices[m] = EntryOf(group, m)
    <3>1. Body(slices, m) = Body(known, m)
      <4>1. CASE m = 0 \/ m = LowestBit(m)
        BY <4>1
      <4>2. CASE m # 0 /\ m # LowestBit(m)
        <5>1. PICK t, i : t = LowestBit(m) /\ i = PlaceOf(t)
          OBVIOUS
        <5>2. m \in 1 .. PowerOf2(WindowWidth) - 1
          BY <4>2
        <5>3. t \in 1 .. m
          BY <5>1, <5>2, LowestBitIs
        <5>4. t \in Masks /\ m - t \in Masks /\ t < n /\ m - t < n
          <6>1. m \in 0 .. top - 1 /\ t \in 1 .. m /\ m # t /\ m = n
            BY <1>2, <2>2, <4>2, <5>1, <5>3
          <6>2. t \in 0 .. top - 1 /\ m - t \in 0 .. top - 1 /\ t < n /\ m - t < n
            BY <1>0, <6>1
          <6> QED BY <1>2, <6>2
        <5>5. slices[t] = EntryOf(group, t) /\ slices[m - t] = EntryOf(group, m - t)
          BY <1>7, <5>4
        <5>6. known[t] = EntryOf(group, t) /\ known[m - t] = EntryOf(group, m - t)
          BY <5>4
        <5> QED BY <4>2, <5>1, <5>5, <5>6
      <4> QED BY <4>1, <4>2
    <3>2. slices[m] = Body(slices, m)
      <4> HIDE DEF Body
      <4> QED BY <1>10
    <3>3. EntryOf(group, m) = Body(known, m)
      <4> HIDE DEF Body, known
      <4> QED BY <1>3
    <3> HIDE DEF Body, known
    <3> QED BY <3>1, <3>2, <3>3
  <2> QED BY <1>2, <2>1, <2>2
<1> HIDE DEF G
<1>8. mask + 1 \in G
  BY <1>2, <1>6, <1>7, NatSetInduction
<1>9. slices[mask] = EntryOf(group, mask)
  BY <1>2, <1>8 DEF G
<1> QED BY <1>1, <1>9

-----------------------------------------------------------------------------
(* The products of a chunk *)

(* A number has no bits above its size. *)
LEMMA NoHighBits ==
  ASSUME NEW m \in Nat, NEW a \in 0 .. PowerOf2(m) - 1, NEW j \in Nat, m <= j
  PROVE  Bit(a, j) = 0
<1>1. PICK p, d, q : p = PowerOf2(m) /\ d = PowerOf2(j - m) /\ q = PowerOf2(j)
  OBVIOUS
<1>2. j - m \in Nat /\ m + (j - m) = j
  OBVIOUS
<1>3. p \in Nat \ {0} /\ d \in Nat \ {0} /\ q \in Nat \ {0}
  BY <1>1, <1>2, PowerStep
<1>4. q = p * d
  BY <1>1, <1>2, PowerSum
<1>5. p <= q
  <2>1. p * 1 <= p * d
    BY <1>3, SMT
  <2> QED BY <1>3, <1>4, <2>1
<1>6. a \in 0 .. q - 1 /\ 0 * q + a = a
  BY <1>1, <1>3, <1>5
<1>7. (a \div q) = 0
  <2>1. ((0 * q + a) \div q) = 0
    BY <1>3, <1>6, DivisionIs
  <2> QED BY <1>6, <2>1
<1>8. (0 % 2) = 0
  BY SMT
<1> QED BY <1>1, <1>7, <1>8 DEF Bit

(* The bytes of n generators, Step apart from start on, are numbers *)
HasBytes(scalars, start, Step, n) ==
  \A i \in 0 .. n - 1 : scalars[start + i * Step + 1] \in Int

(* The index has one bit of each of these bytes *)
HasBits(index, scalars, start, Step, n, bit_offset) ==
  \A j \in 0 .. WindowWidth - 1 :
    Bit(index, j) = IF j < n THEN Bit(scalars[start + j * Step + 1], bit_offset) ELSE 0

(* compute_partition_index: the index has the bits of the generators in    *)
(* order, and none of those behind the last one.                           *)
LEMMA IndexIs ==
  ASSUME NEW scalars, NEW start \in Nat, NEW Step \in Nat, NEW n \in Nat, NEW bit_offset \in Nat,
         HasBytes(scalars, start, Step, n),
         NEW index, index = PartitionIndex(scalars, start, Step, n, bit_offset)
  PROVE  /\ index \in 0 .. PowerOf2(WindowWidth) - 1
         /\ HasBits(index, scalars, start, Step, n, bit_offset)
<1>1. PICK m, w : m = AtMost(n, WindowWidth) /\ w = WindowWidth
  OBVIOUS
<1>2. m \in Nat /\ w \in Nat /\ m <= w /\ m <= n /\ (m < w => m = n)
  BY <1>1, FixedAssumption DEF AtMost
<1>3. PICK b, h : b = [i \in 0 .. m - 1 |-> Bit(scalars[start + i * Step + 1], bit_offset)]
                  /\ h = [i \in 0 .. m - 1 |-> b[i] * PowerOf2(i)]
  OBVIOUS
<1>4. b \in [0 .. m - 1 -> {0, 1}]
  <2>1. \A i \in 0 .. m - 1 : Bit(scalars[start + i * Step + 1], bit_offset) \in {0, 1}
    <3> TAKE i \in 0 .. m - 1
    <3>1. i \in 0 .. n - 1
      BY <1>2
    <3>2. scalars[start + i * Step + 1] \in Int
      BY <3>1 DEF HasBytes
    <3> QED BY <3>2, BitType
  <2> QED BY <1>3, <2>1
<1>5. index = SumFunction(h)
  <2>1. h = [i \in 0 .. m - 1 |-> Bit(scalars[start + i * Step + 1], bit_offset) * PowerOf2(i)]
    BY <1>3
  <2> QED BY <1>1, <2>1 DEF PartitionIndex, Total
<1>6. /\ index \in 0 .. PowerOf2(m) - 1
      /\ \A j \in 0 .. m - 1 : Bit(index, j) = b[j]
  <2>1. PowersOf(h, b, m)
    BY <1>3 DEF PowersOf
  <2>2. /\ SumFunction(h) \in 0 .. PowerOf2(m) - 1
        /\ \A j \in 0 .. m - 1 : Bit(SumFunction(h), j) = b[j]
    BY <1>2, <1>4, <2>1, BinarySum
  <2> QED BY <1>5, <2>2
<1>7. index \in 0 .. PowerOf2(w) - 1
  <2>1. PICK p, d, q : p = PowerOf2(m) /\ d = PowerOf2(w - m) /\ q = PowerOf2(w)
    OBVIOUS
  <2>2. w - m \in Nat /\ m + (w - m) = w
    BY <1>2
  <2>3. p \in Nat \ {0} /\ d \in Nat \ {0} /\ q \in Nat \ {0}
    BY <1>2, <2>1, <2>2, PowerStep
  <2>4. q = p * d
    BY <1>2, <2>1, <2>2, PowerSum
  <2>5. p * 1 <= p * d
    BY <2>3, SMT
  <2>6. index \in 0 .. p - 1 /\ p <= q
    BY <1>6, <2>1, <2>3, <2>4, <2>5
  <2> QED BY <2>1, <2>3, <2>6
<1>8. ASSUME NEW j \in 0 .. w - 1
      PROVE  Bit(index, j) = IF j < n THEN Bit(scalars[start + j * Step + 1], bit_offset) ELSE 0
  <2>1. CASE j < m
    <3>1. j \in 0 .. m - 1 /\ j < n
      BY <1>2, <2>1
    <3> QED BY <1>3, <1>6, <3>1
  <2>2. CASE ~ (j < m)
    <3>1. j \in Nat /\ m <= j /\ ~ (j < n)
      BY <1>2, <2>2
    <3>2. Bit(index, j) = 0
      BY <1>2, <1>6, <3>1, NoHighBits
    <3> QED BY <3>1, <3>2
  <2> QED BY <2>1, <2>2
<1> QED BY <1>1, <1>7, <1>8 DEF HasBits

(* The bit of the scalar of g that a product stands for *)
ScalarBit(call, p, g) ==
  Bit(call.scalars[g * NumOutputBytes(call) + p \div ByteBits + 1], p % ByteBits)

(* The bits of a product lie in the bytes of the scalars. *)
LEMMA ScalarByte ==
  ASSUME NEW call \in FixedCalls, NumOutputs(call) > 0, NEW p \in 0 .. NumProducts(call) - 1
  PROVE  /\ (p \div ByteBits) \in 0 .. NumOutputBytes(call) - 1
         /\ (p % ByteBits) \in Nat
         /\ \A g \in 0 .. Length(call) - 1 :
              /\ g * NumOutputBytes(call) + p \div ByteBits + 1 \in Nat
              /\ call.scalars[g * NumOutputBytes(call) + p \div ByteBits + 1] \in Int
              /\ ScalarBit(call, p, g) \in {0, 1}
<1>1. PICK Step, np, len, w : /\ Step = NumOutputBytes(call) /\ np = NumProducts(call)
                              /\ len = Len(call.scalars) /\ w = Length(call)
  OBVIOUS
<1>2. /\ Step \in Nat \ {0} /\ np \in Nat \ {0} /\ w \in Nat /\ np <= Step * ByteBits
      /\ ByteBits \in Nat \ {0}
  BY <1>1, ProductsAre, GroupAssumption
<1>3. call.scalars \in Seq(0 .. PowerOf2(ByteBits) - 1)
  BY FixedAssumption
<1>4. len \in Nat /\ w * Step <= len
  <2>1. len \in Nat
    BY <1>1, <1>3
  <2>2. len = (len \div Step) * Step + (len % Step) /\ (len % Step) \in 0 .. Step - 1
        /\ (len \div Step) \in Int
    BY <1>2, <2>1, DivisionRange
  <2>3. (len \div Step) * Step \in Int
    BY <1>2, <2>2
  <2>4. w = (len \div Step)
    BY <1>1 DEF Length
  <2> QED BY <1>2, <2>1, <2>2, <2>3, <2>4
<1>5. PICK byte : byte = (p \div ByteBits)
  OBVIOUS
<1>6. p \in 0 .. Step * ByteBits - 1 /\ p \in Int
  <2>1. Step * ByteBits \in Nat
    BY <1>2
  <2>2. p \in 0 .. np - 1
    BY <1>1
  <2> QED BY <1>2, <2>1, <2>2
<1>7. byte \in 0 .. Step - 1
  BY <1>2, <1>5, <1>6, DivisionBelow
<1>8. (p % ByteBits) \in Nat
  <2>1. (p % ByteBits) \in 0 .. ByteBits - 1
    BY <1>2, <1>6, DivisionRange
  <2> QED BY <1>2, <2>1
<1>9. ASSUME NEW g \in 0 .. w - 1
      PROVE  /\ g * Step + byte + 1 \in Nat
             /\ call.scalars[g * Step + byte + 1] \in Int
             /\ ScalarBit(call, p, g) \in {0, 1}
  <2>1. g \in Nat /\ g + 1 <= w
    BY <1>2
  <2>2. g * Step + Step <= w * Step /\ g * Step \in Nat /\ w * Step \in Nat
    <3>1. (g + 1) * Step <= w * Step
      BY <1>2, <2>1, SMT
    <3>2. (g + 1) * Step = g * Step + Step /\ g * Step \in Nat /\ w * Step \in Nat
      BY <1>2, <2>1, SMT
    <3> QED BY <3>1, <3>2
  <2>3. g * Step + byte + 1 \in 1 .. len /\ g * Step + byte + 1 \in Nat
    BY <1>2, <1>4, <1>7, <2>2
  <2>4. call.scalars[g * Step + byte + 1] \in 0 .. PowerOf2(ByteBits) - 1
    <3>1. PICK s, S : s = call.scalars /\ S = 0 .. PowerOf2(ByteBits) - 1
      OBVIOUS
    <3>2. s \in Seq(S) /\ len = Len(s)
      BY <1>1, <1>3, <3>1
    <3>3. \A i \in 1 .. len : s[i] \in S
      BY <3>2
    <3> QED BY <2>3, <3>1, <3>3
  <2>5. call.scalars[g * Step + byte + 1] \in Int
    BY <2>4
  <2>6. ScalarBit(call, p, g) = Bit(call.scalars[g * Step + byte + 1], p % ByteBits)
    BY <1>1, <1>5 DEF ScalarBit
  <2> QED BY <1>8, <2>3, <2>5, <2>6, BitType
<1> QED BY <1>1, <1>5, <1>7, <1>8, <1>9

(* The index of the group k of the products of n generators from first on *)
IndexAt(call, first, p, n, k) ==
  PartitionIndex(call.scalars, (first + k * WindowWidth) * NumOutputBytes(call) + p \div ByteBits,
                 NumOutputBytes(call), n - k * WindowWidth, p % ByteBits)

(* What a product of the n generators from first on should be *)
RangeProduct(call, first, p, n) ==
  [g \in Coefficients |-> IF first <= g /\ g < first + n THEN ScalarBit(call, p, g) ELSE 0]

(* n generators from first on, the start of the group m, of those of call *)
Generators(call, m, first, n) ==
  /\ m \in Nat /\ first = m * WindowWidth /\ n \in Nat /\ first + n <= Length(call)
  /\ n = 0 => m = 0

(* partition_product_kernel: the entry of a group adds its generators whose *)
(* bit is set.                                                             *)
LEMMA GroupProduct ==
  ASSUME NEW call \in FixedCalls, NumOutputs(call) > 0, NEW p \in 0 .. NumProducts(call) - 1,
         NEW m, NEW first, NEW n, Generators(call, m, first, n),
         NEW k \in Nat, k * WindowWidth <= n, k * WindowWidth < n \/ k = 0,
         NEW e, e = Table[first \div WindowWidth + k][IndexAt(call, first, p, n, k)]
  PROVE  /\ e \in Elements
         /\ \A g \in Coefficients :
              e[g] = IF g \in GroupGens(m + k) /\ g < first + n THEN ScalarBit(call, p, g) ELSE 0
<1>1. PICK Step, byte, W, off, a, start, l :
        /\ Step = NumOutputBytes(call) /\ byte = (p \div ByteBits) /\ W = WindowWidth
        /\ off = (p % ByteBits) /\ a = k * WindowWidth /\ start = (first + a) * Step + byte
        /\ l = n - a
  OBVIOUS
<1>2. /\ Step \in Nat \ {0} /\ W \in Nat \ {0} /\ Length(call) \in 0 .. NumGens /\ NumGens \in Nat \ {0}
  BY <1>1, ProductsAre, FixedAssumption, GroupAssumption
<1>3. /\ m \in Nat /\ first = m * W /\ n \in Nat /\ first + n <= Length(call) /\ (n = 0 => m = 0)
  BY <1>1 DEF Generators
<1>4. /\ first \in Nat /\ a \in Nat /\ a = k * W /\ a <= n /\ l \in Nat
  <2>1. m * W \in Nat /\ k * W \in Nat
    BY <1>2, <1>3
  <2> QED BY <1>1, <1>3, <2>1
<1>5. byte \in 0 .. Step - 1 /\ off \in Nat
  BY <1>1, ScalarByte
<1>6. start \in Nat
  <2>1. (first + a) * Step \in Nat
    BY <1>2, <1>4
  <2> QED BY <1>1, <1>2, <1>5, <2>1
<1>7. (m + k) * W = first + a /\ m + k \in Nat
  BY <1>2, <1>3, <1>4
<1>8. (first \div WindowWidth) = m
  <2>1. 0 \in 0 .. W - 1 /\ m * W + 0 = first
    BY <1>2, <1>3, <1>4
  <2> QED BY <1>1, <1>2, <1>3, <2>1, DivisionIs
<1>9. m + k \in 0 .. NumGroups - 1
  <2>1. PICK c : c = NumGroups
    OBVIOUS
  <2>2. c \in Nat /\ NumGens <= c * W
    BY <1>1, <1>2, <2>1, DivideUpBounds DEF NumGroups
  <2>3. (m + k) * W < NumGens
    <3>1. CASE a < n
      BY <1>2, <1>3, <1>4, <1>7, <3>1
    <3>2. CASE ~ (a < n)
      <4>1. k = 0 /\ a = 0 /\ n = 0 /\ m = 0
        BY <1>1, <1>2, <1>3, <1>4, <3>2
      <4> QED BY <1>2, <4>1
    <3> QED BY <3>1, <3>2
  <2>4. CASE c <= m + k
    <3>1. c * W <= (m + k) * W
      BY <1>2, <1>7, <2>2, <2>4, SMT
    <3>2. c * W \in Nat /\ (m + k) * W \in Nat
      BY <1>2, <1>7, <2>2
    <3> QED BY <1>2, <2>2, <2>3, <3>1, <3>2
  <2>5. CASE ~ (c <= m + k)
    BY <1>7, <2>1, <2>2, <2>5
  <2> QED BY <2>4, <2>5
<1>10. ASSUME NEW i \in 0 .. l - 1
       PROVE  /\ start + i * Step + 1 = (first + a + i) * Step + byte + 1
              /\ first + a + i \in 0 .. Length(call) - 1
              /\ call.scalars[start + i * Step + 1] \in Int
              /\ Bit(call.scalars[start + i * Step + 1], off) = ScalarBit(call, p, first + a + i)
  <2>1. i \in Nat /\ first + a + i \in 0 .. Length(call) - 1
    BY <1>1, <1>2, <1>3, <1>4
  <2>2. /\ (first + a + i) * Step = (first + a) * Step + i * Step
        /\ (first + a) * Step \in Nat /\ i * Step \in Nat
    BY <1>2, <1>4, <2>1
  <2>3. start + i * Step + 1 = (first + a + i) * Step + byte + 1
    BY <1>1, <1>2, <1>5, <2>1, <2>2
  <2>4. call.scalars[(first + a + i) * Step + byte + 1] \in Int
    BY <1>1, <2>1, ScalarByte
  <2>5. Bit(call.scalars[(first + a + i) * Step + byte + 1], off) = ScalarBit(call, p, first + a + i)
    BY <1>1 DEF ScalarBit
  <2> QED BY <2>1, <2>3, <2>4, <2>5
<1>11. PICK index : index = PartitionIndex(call.scalars, start, Step, l, off)
  OBVIOUS
<1>12. IndexAt(call, first, p, n, k) = index
  BY <1>1, <1>11 DEF IndexAt
<1>13. /\ index \in 0 .. PowerOf2(WindowWidth) - 1
       /\ \A j \in 0 .. WindowWidth - 1 :
            Bit(index, j) = IF j < l THEN Bit(call.scalars[start + j * Step + 1], off) ELSE 0
  <2>1. \A i \in 0 .. l - 1 : call.scalars[start + i * Step + 1] \in Int
    BY <1>10
  <2>2. PICK scalars : scalars = call.scalars
    OBVIOUS
  <2>3. HasBytes(scalars, start, Step, l)
    BY <2>1, <2>2 DEF HasBytes
  <2>4. Step \in Nat
    BY <1>2
  <2>5. index = PartitionIndex(scalars, start, Step, l, off)
    BY <1>11, <2>2
  <2>6. /\ index \in 0 .. PowerOf2(WindowWidth) - 1
        /\ HasBits(index, scalars, start, Step, l, off)
    BY <1>4, <1>5, <1>6, <2>3, <2>4, <2>5, IndexIs
  <2> QED BY <2>2, <2>6 DEF HasBits
<1>14. e = EntryOf(m + k, index)
  <2>1. Table[m + k] = TableSlice(m + k)
    BY <1>9 DEF Table
  <2> QED BY <1>7, <1>8, <1>12, <1>13, <2>1, TableIs
<1>15. e \in Elements
  BY <1>7, <1>13, <1>14, EntryIs
<1>16. ASSUME NEW g \in Coefficients
       PROVE  e[g] = IF g \in GroupGens(m + k) /\ g < first + n THEN ScalarBit(call, p, g) ELSE 0
  <2>1. e[g] = IF g \in GroupGens(m + k) THEN Bit(index, g - (m + k) * WindowWidth) ELSE 0
    BY <1>14 DEF EntryOf
  <2>2. ASSUME g \in GroupGens(m + k)
        PROVE  Bit(index, g - (m + k) * WindowWidth) = IF g < first + n THEN ScalarBit(call, p, g) ELSE 0
    <3>1. PICK j : j = g - (m + k) * WindowWidth
      OBVIOUS
    <3>2. j \in 0 .. W - 1 /\ g \in 0 .. NumGens - 1
      BY <1>1, <1>7, <2>2, <3>1, GroupIs
    <3>3. j = g - (first + a)
      BY <1>1, <1>7, <3>1
    <3>4. j \in Nat /\ g \in Nat /\ first + a + j = g
      BY <1>2, <1>4, <3>2, <3>3
    <3>5. j < l <=> g < first + n
      BY <1>1, <1>3, <1>4, <3>4
    <3>6. Bit(index, j) = IF j < l THEN Bit(call.scalars[start + j * Step + 1], off) ELSE 0
      BY <1>1, <1>13, <3>2
    <3>7. j < l => Bit(call.scalars[start + j * Step + 1], off) = ScalarBit(call, p, g)
      <4>1. j < l => j \in 0 .. l - 1
        BY <1>4, <3>4
      <4> QED BY <1>10, <3>4, <4>1
    <3> QED BY <3>1, <3>5, <3>6, <3>7
  <2> QED BY <2>1, <2>2
<1> QED BY <1>15, <1>16

(* g is in the group u behind the group m only, that of first *)
OnlyIn(g, m, first, u) ==
  /\ g \in GroupGens(m + u) /\ u * WindowWidth <= g - first
  /\ \A k \in Nat : g \in GroupGens(m + k) => k = u

(* A generator behind first is in one group. *)
LEMMA GroupOf ==
  ASSUME NEW m \in Nat, NEW first, first = m * WindowWidth, NEW g \in Coefficients, first <= g
  PROVE  \E u \in Nat : OnlyIn(g, m, first, u)
<1>1. PICK W : W = WindowWidth
  OBVIOUS
<1>2. W \in Nat \ {0} /\ first \in Nat /\ g \in Int /\ g - first \in Nat
  <2>1. W \in Nat \ {0} /\ NumGens \in Nat
    BY <1>1, FixedAssumption, GroupAssumption
  <2>2. m * W \in Nat /\ g \in Int
    BY <2>1 DEF Coefficients, Junk
  <2> QED BY <1>1, <2>1, <2>2
<1>3. ASSUME NEW k \in Nat
      PROVE  g \in GroupGens(m + k) <=> k * W <= g - first /\ g - first < k * W + W
  <2>1. (m + k) * W = first + k * W /\ k * W \in Nat
    BY <1>1, <1>2
  <2> QED BY <1>1, <1>2, <2>1 DEF GroupGens
<1>4. PICK u, r : u = ((g - first) \div W) /\ r = ((g - first) % W)
  OBVIOUS
<1>5. u \in Int /\ r \in 0 .. W - 1 /\ g - first = u * W + r
  <2>1. PICK a : a = g - first
    OBVIOUS
  <2>2. a \in Int /\ u = (a \div W) /\ r = (a % W)
    BY <1>2, <1>4, <2>1
  <2>3. (a \div W) \in Int /\ (a % W) \in 0 .. W - 1 /\ a = (a \div W) * W + (a % W)
    BY <1>2, <2>2, DivisionRange
  <2> QED BY <2>1, <2>2, <2>3
<1>6. u \in Nat
  <2>1. CASE u < 0
    <3>1. (u + 1) * W <= 0
      BY <1>2, <1>5, <2>1, SMT
    <3>2. (u + 1) * W = u * W + W /\ u * W \in Int
      BY <1>2, <1>5
    <3> QED BY <1>2, <1>5, <3>1, <3>2
  <2> QED BY <1>5, <2>1
<1>7. u * W \in Nat
  BY <1>2, <1>6
<1>8. g \in GroupGens(m + u) /\ u * W <= g - first
  BY <1>2, <1>3, <1>5, <1>6, <1>7
<1>9. ASSUME NEW k \in Nat, g \in GroupGens(m + k) PROVE k = u
  <2>1. k * W <= g - first /\ g - first < k * W + W
    BY <1>3, <1>9
  <2>2. PICK s : s = g - first - k * W
    OBVIOUS
  <2>3. k * W \in Nat
    BY <1>2
  <2>4. s \in 0 .. W - 1 /\ k * W + s = u * W + r
    BY <1>2, <1>5, <1>7, <2>1, <2>2, <2>3
  <2> QED BY <1>2, <1>5, <2>4, DivisionUnique
<1> QED BY <1>1, <1>6, <1>8, <1>9 DEF OnlyIn

(* partition_product_kernel: a product is the sum of its generators whose  *)
(* bit is set, whatever the groups and wherever the last of them ends.     *)
LEMMA ProductIs ==
  ASSUME NEW call \in FixedCalls, NumOutputs(call) > 0, NEW p \in 0 .. NumProducts(call) - 1,
         NEW m, NEW first, NEW n, Generators(call, m, first, n)
  PROVE  /\ PartitionProduct(call, first, p, n) = RangeProduct(call, first, p, n)
         /\ RangeProduct(call, first, p, n) \in Elements
<1>1. PICK W, d, c : W = WindowWidth /\ d = DivideUp(n, W) /\ c = AtLeast(1, d)
  OBVIOUS
<1>2. /\ W \in Nat \ {0} /\ m \in Nat /\ n \in Nat /\ first = m * W /\ first + n <= Length(call)
      /\ Length(call) \in 0 .. NumGens /\ NumGens \in Nat
  BY <1>1, FixedAssumption, GroupAssumption, ProductsAre DEF Generators
<1>3. first \in Nat
  BY <1>2
<1>4. /\ d \in Nat /\ n <= d * W
      /\ \A k \in 0 .. d - 1 : k * W < n
  BY <1>1, <1>2, DivideUpBounds, Chunks
<1>5. c \in Nat \ {0} /\ d <= c
  BY <1>1, <1>4 DEF AtLeast
<1>6. ASSUME NEW k \in 0 .. c - 1 PROVE k \in Nat /\ k * W <= n /\ (k * W < n \/ k = 0)
  <2>1. CASE d = 0
    <3>1. c = 1 /\ k = 0
      BY <1>1, <2>1 DEF AtLeast
    <3> QED BY <1>2, <3>1
  <2>2. CASE d # 0
    <3>1. c = d /\ k \in 0 .. d - 1
      BY <1>1, <1>4, <2>2 DEF AtLeast
    <3>2. k * W < n /\ k \in Nat
      BY <1>4, <3>1
    <3>3. k * W \in Nat
      BY <1>2, <3>2
    <3> QED BY <1>2, <3>2, <3>3
  <2> QED BY <2>1, <2>2
<1>7. PICK f : f = [k \in 0 .. c - 1 |-> Table[first \div WindowWidth + k][IndexAt(call, first, p, n, k)]]
  OBVIOUS
<1>8. PartitionProduct(call, first, p, n) = FoldFunction(Plus, Zero, f)
  BY <1>1, <1>7 DEF PartitionProduct, SumFrom, IndexAt
<1>9. ASSUME NEW k \in 0 .. c - 1
      PROVE  /\ f[k] \in Elements
             /\ \A g \in Coefficients :
                  f[k][g] = IF g \in GroupGens(m + k) /\ g < first + n THEN ScalarBit(call, p, g) ELSE 0
  <2>1. k \in Nat /\ k * WindowWidth <= n /\ (k * WindowWidth < n \/ k = 0)
    BY <1>1, <1>6
  <2>2. PICK e : e = Table[first \div WindowWidth + k][IndexAt(call, first, p, n, k)]
    OBVIOUS
  <2>3. f[k] = e
    BY <1>7, <2>2
  <2>4. /\ e \in Elements
        /\ \A g \in Coefficients :
             e[g] = IF g \in GroupGens(m + k) /\ g < first + n THEN ScalarBit(call, p, g) ELSE 0
    BY <2>1, <2>2, GroupProduct
  <2> QED BY <2>3, <2>4
<1>10. f \in [0 .. c - 1 -> Elements] /\ DOMAIN f = 0 .. c - 1
  BY <1>7, <1>9
<1>11. IsFiniteSet(0 .. c - 1)
  BY <1>5, FS_Interval
<1>12. PICK x : x = PartitionProduct(call, first, p, n)
  OBVIOUS
<1>13. x \in Elements /\ \A g \in Coefficients : x[g] = SumFunction(CoefficientsOf(f, g))
  BY <1>8, <1>10, <1>11, <1>12, VectorSum
<1>14. ASSUME NEW g \in Coefficients
       PROVE  SumFunction(CoefficientsOf(f, g))
                = IF first <= g /\ g < first + n THEN ScalarBit(call, p, g) ELSE 0
  <2>1. PICK h : h = CoefficientsOf(f, g)
    OBVIOUS
  <2>2. h \in [0 .. c - 1 -> Int]
    BY <1>10, <2>1 DEF CoefficientsOf, Elements
  <2>3. ASSUME NEW k \in 0 .. c - 1
        PROVE  h[k] = IF g \in GroupGens(m + k) /\ g < first + n THEN ScalarBit(call, p, g) ELSE 0
    BY <1>9, <1>10, <2>1 DEF CoefficientsOf
  <2>4. g \in Int
    BY <1>2 DEF Coefficients, Junk
  <2>5. CASE first <= g /\ g < first + n
    <3>0. PICK u \in Nat : OnlyIn(g, m, first, u)
      BY <1>1, <1>2, <2>5, GroupOf
    <3>1. /\ g \in GroupGens(m + u) /\ u * WindowWidth <= g - first
          /\ \A k \in Nat : g \in GroupGens(m + k) => k = u
      BY <3>0 DEF OnlyIn
    <3>2. u \in 0 .. c - 1
      <4>1. u * W < n /\ u * W \in Nat
        BY <1>1, <1>2, <1>3, <2>4, <2>5, <3>1
      <4>2. CASE u < d
        BY <1>4, <1>5, <4>2
      <4>3. CASE d <= u
        <5>1. d * W <= u * W /\ d * W \in Nat
          BY <1>2, <1>4, <4>3, SMT
        <5> QED BY <1>2, <1>4, <4>1, <5>1
      <4> QED BY <1>4, <4>2, <4>3
    <3>3. \A k \in 0 .. c - 1 : k # u => h[k] = 0
      BY <2>3, <3>1
    <3>4. SumFunction(h) = h[u]
      BY <1>11, <2>2, <3>2, <3>3, SumOfOneElement
    <3> QED BY <2>1, <2>3, <2>5, <3>1, <3>2, <3>4
  <2>6. CASE ~ (first <= g /\ g < first + n)
    <3>1. ASSUME NEW k \in 0 .. c - 1 PROVE h[k] = 0
      <4>1. CASE g \in GroupGens(m + k)
        <5>1. (m + k) * W = first + k * W /\ k * W \in Nat
          BY <1>2, <1>5
        <5>2. first <= g
          BY <1>1, <1>3, <2>4, <4>1, <5>1 DEF GroupGens
        <5> QED BY <2>3, <2>6, <5>2
      <4> QED BY <2>3, <4>1
    <3>2. SumFunction(h) = 0
      BY <1>11, <2>2, <3>1, SumOfZeros
    <3> QED BY <2>1, <2>6, <3>2
  <2> QED BY <2>5, <2>6
<1>15. x = RangeProduct(call, first, p, n)
  BY <1>13, <1>14 DEF RangeProduct, Elements
<1> QED BY <1>12, <1>13, <1>15

(* Every set of numbers with an element has a least one. *)
LEMMA LeastExists ==
  ASSUME NEW S, S \subseteq Nat, S # {}
  PROVE  \E x \in S : \A y \in S : x <= y
<1> DEFINE G == {n \in Nat : (\E x \in S : x <= n) => \E x \in S : \A y \in S : x <= y}
<1>1. 0 \in G
  OBVIOUS
<1>2. ASSUME NEW n \in Nat, n \in G PROVE n + 1 \in G
  <2> SUFFICES ASSUME NEW z \in S, z <= n + 1 PROVE \E x \in S : \A y \in S : x <= y
    OBVIOUS
  <2>1. CASE \E x \in S : x <= n
    BY <1>2, <2>1
  <2>2. CASE ~ \E x \in S : x <= n
    <3>1. \A y \in S : z <= y
      BY <2>2
    <3> QED BY <3>1
  <2> QED BY <2>1, <2>2
<1> HIDE DEF G
<1>3. PICK n : n \in S
  OBVIOUS
<1>4. n \in Nat /\ n \in G
  BY <1>1, <1>2, <1>3, NatSetInduction
<1> QED BY <1>3, <1>4 DEF G

(* The products of later outputs come later, and later outputs are as long *)
LEMMA OutputsAscend ==
  ASSUME NEW call \in FixedCalls
  PROVE  /\ \A o, u \in 0 .. NumOutputs(call) : o <= u => BitsUpTo(call, o) <= BitsUpTo(call, u)
         /\ \A o, u \in 1 .. NumOutputs(call) : o <= u => call.lengths[o] <= call.lengths[u]
         /\ \A o \in 1 .. NumOutputs(call) : call.lengths[o] \in 0 .. Length(call)
<1>1. PICK n : n = NumOutputs(call)
  OBVIOUS
<1>2. PICK b, l : b = [o \in 0 .. n |-> BitsUpTo(call, o)] /\ l = call.lengths
  OBVIOUS
<1>3. /\ n \in Nat /\ n = Len(l)
      /\ \A o \in 0 .. n : b[o] \in Nat
      /\ \A o \in 1 .. n : b[o - 1] <= b[o]
  <2>1. n \in Nat /\ n = Len(l)
    BY <1>1, <1>2, OutputsAre
  <2>2. \A o \in 0 .. n : b[o] \in Nat
    BY <1>1, <1>2, OutputsAre
  <2>3. ASSUME NEW o \in 1 .. n PROVE b[o - 1] <= b[o]
    <3>1. o \in 0 .. n /\ o - 1 \in 0 .. n
      BY <2>1
    <3>2. BitsUpTo(call, o) = BitsUpTo(call, o - 1) + call.widths[o] /\ call.widths[o] \in Nat
      BY <1>1, OutputsAre
    <3>3. b[o] = b[o - 1] + call.widths[o] /\ b[o - 1] \in Nat
      BY <1>2, <2>2, <3>1, <3>2
    <3> QED BY <3>2, <3>3
  <2> QED BY <2>1, <2>2, <2>3
<1>4. /\ l \in Seq(Nat) /\ \A o \in 1 .. n : l[o] <= Length(call)
      /\ \A o \in 1 .. n : o > 1 => l[o - 1] <= l[o]
  BY <1>2, <1>3, FixedAssumption
<1>5. \A o \in 1 .. n : l[o] \in Nat
  BY <1>3, <1>4
<1>6. ASSUME NEW first \in Nat, NEW x, \A o \in first .. n : x[o] \in Nat,
             \A o \in first .. n : o > first => x[o - 1] <= x[o]
      PROVE  \A o, u \in first .. n : o <= u => x[o] <= x[u]
  <2> DEFINE G == {k \in Nat : \A o, u \in first .. n : u = o + k => x[o] <= x[u]}
  <2>1. 0 \in G
    BY <1>3, <1>6
  <2>2. ASSUME NEW k \in Nat, k \in G PROVE k + 1 \in G
    <3> SUFFICES ASSUME NEW o \in first .. n, NEW u \in first .. n, u = o + (k + 1) PROVE x[o] <= x[u]
      OBVIOUS
    <3>1. u - 1 \in first .. n /\ u - 1 = o + k /\ u > first
      BY <1>3
    <3>2. x[o] <= x[u - 1] /\ x[u - 1] <= x[u]
      BY <1>6, <2>2, <3>1
    <3> QED BY <1>6, <3>1, <3>2
  <2> HIDE DEF G
  <2>3. \A k \in Nat : k \in G
    BY <2>1, <2>2, NatSetInduction
  <2>4. ASSUME NEW o \in first .. n, NEW u \in first .. n, o <= u PROVE x[o] <= x[u]
    <3>1. u - o \in Nat /\ u = o + (u - o)
      BY <1>3, <2>4
    <3> QED BY <2>3, <3>1 DEF G
  <2> QED BY <2>4
<1>7. \A o, u \in 0 .. n : o <= u => b[o] <= b[u]
  <2>1. \A o \in 0 .. n : o > 0 => o \in 1 .. n
    BY <1>3
  <2> QED BY <1>3, <1>6, <2>1
<1>8. \A o, u \in 1 .. n : o <= u => l[o] <= l[u]
  BY <1>4, <1>5, <1>6
<1>9. \A o \in 1 .. n : l[o] \in 0 .. Length(call)
  <2> TAKE o \in 1 .. n
  <2>1. l[o] \in Nat /\ l[o] <= Length(call)
    BY <1>4, <1>5
  <2>2. n > 0
    BY <1>3
  <2>3. Length(call) \in Int
    BY <1>1, <2>2, ProductsAre
  <2> QED BY <2>1, <2>3
<1> QED BY <1>1, <1>2, <1>7, <1>8, <1>9

(* The product p is one of the output o. *)
OfOutput(call, p, o) == BitsUpTo(call, o - 1) <= p /\ p < BitsUpTo(call, o)

(* Every product is one of one output. *)
LEMMA OutputOfProduct ==
  ASSUME NEW call \in FixedCalls, NEW p \in 0 .. NumProducts(call) - 1
  PROVE  \E o \in 1 .. NumOutputs(call) :
           OfOutput(call, p, o) /\ \A u \in 1 .. NumOutputs(call) : OfOutput(call, p, u) => u = o
<1>1. PICK n, np : n = NumOutputs(call) /\ np = NumProducts(call)
  OBVIOUS
<1>2. n \in Nat /\ np \in Nat /\ np = BitsUpTo(call, n) /\ BitsUpTo(call, 0) = 0 /\ p \in 0 .. np - 1
  BY <1>1, OutputsAre DEF NumProducts
<1>3. \A o \in 0 .. n : BitsUpTo(call, o) \in Nat
  BY <1>1, OutputsAre
<1>4. \A o, u \in 0 .. n : o <= u => BitsUpTo(call, o) <= BitsUpTo(call, u)
  BY <1>1, OutputsAscend
<1> DEFINE S == {o \in 0 .. n : p < BitsUpTo(call, o)}
<1>5. S \subseteq Nat /\ n \in S
  BY <1>2
<1>6. PICK o \in S : \A u \in S : o <= u
  BY <1>5, LeastExists
<1>7. o \in 1 .. n /\ o - 1 \in 0 .. n
  BY <1>2, <1>6
<1>8. OfOutput(call, p, o)
  <2>1. o - 1 \notin S
    BY <1>6, <1>7
  <2> QED BY <1>2, <1>3, <1>6, <1>7, <2>1 DEF OfOutput
<1>9. ASSUME NEW u \in 1 .. n, OfOutput(call, p, u) PROVE u = o
  <2>1. u \in 0 .. n /\ u - 1 \in 0 .. n /\ u \in Int /\ o \in Int
    BY <1>2, <1>7
  <2>2. CASE u < o
    <3>1. u \notin S
      BY <1>6, <1>7, <2>1, <2>2
    <3> QED BY <1>9, <2>1, <3>1 DEF OfOutput
  <2>3. CASE o < u
    <3>1. o <= u - 1 /\ o \in 0 .. n
      BY <1>2, <1>7, <2>1, <2>3
    <3>2. BitsUpTo(call, o) <= BitsUpTo(call, u - 1)
      BY <1>4, <2>1, <3>1
    <3>3. BitsUpTo(call, o) \in Nat /\ BitsUpTo(call, u - 1) \in Nat
      BY <1>3, <2>1, <3>1
    <3> QED BY <1>2, <1>6, <1>9, <3>2, <3>3 DEF OfOutput
  <2> QED BY <2>1, <2>2, <2>3
<1> QED BY <1>1, <1>7, <1>8, <1>9

(* What the generators from a to b contribute to the product p of output o *)
ShareOf(call, p, o, a, b) ==
  [g \in Coefficients |->
     IF a <= g /\ g < b /\ g < call.lengths[o] THEN ScalarBit(call, p, g) ELSE 0]

(* compute_product_length_table: the lengths are those of the products of  *)
(* the outputs that reach behind first, which are the last ones.           *)
LEMMA LengthsAre ==
  ASSUME NEW call \in FixedCalls, NumOutputs(call) > 0, NEW first \in Nat, NEW length \in Nat \ {0},
         NEW p \in 0 .. NumProducts(call) - 1, NEW o \in 1 .. NumOutputs(call), OfOutput(call, p, o),
         NEW lengths, lengths = ProductLengths(call, first, length),
         NEW missing, missing = NumProducts(call) - Cardinality(DOMAIN lengths)
  PROVE  /\ missing \in Nat
         /\ p < missing => call.lengths[o] <= first
         /\ p >= missing => /\ call.lengths[o] > first
                            /\ lengths[p - missing] = AtMost(length, call.lengths[o] - first)
<1>1. PICK n, np : n = NumOutputs(call) /\ np = NumProducts(call)
  OBVIOUS
<1>2. n \in Nat \ {0} /\ np \in Nat /\ np = BitsUpTo(call, n) /\ p \in 0 .. np - 1 /\ o \in 1 .. n
  BY <1>1, OutputsAre, ProductsAre DEF NumProducts
<1>3. /\ \A u \in 0 .. n : BitsUpTo(call, u) \in Nat
      /\ \A u, v \in 0 .. n : u <= v => BitsUpTo(call, u) <= BitsUpTo(call, v)
      /\ \A u, v \in 1 .. n : u <= v => call.lengths[u] <= call.lengths[v]
      /\ \A u \in 1 .. n : call.lengths[u] \in Nat
  <2>1. \A u \in 1 .. n : call.lengths[u] \in Nat
    <3> TAKE u \in 1 .. n
    <3>1. call.lengths[u] \in 0 .. Length(call)
      BY <1>1, OutputsAscend
    <3> QED BY <3>1
  <2> QED BY <1>1, <2>1, OutputsAre, OutputsAscend
<1>4. \A u \in 1 .. n : OfOutput(call, p, u) => u = o
  <2>1. PICK v \in 1 .. n : \A u \in 1 .. n : OfOutput(call, p, u) => u = v
    BY <1>1, OutputOfProduct
  <2> QED BY <1>2, <2>1
<1>5. (CHOOSE u \in 1 .. n : OfOutput(call, p, u)) = o
  BY <1>2, <1>4
<1> DEFINE Reaching == {u \in 1 .. n : call.lengths[u] > first}
<1>6. PICK start : start = IF Reaching = {} THEN n + 1 ELSE CHOOSE u \in Reaching : \A v \in Reaching : u <= v
  OBVIOUS
<1>7. /\ start \in 1 .. n + 1
      /\ \A u \in 1 .. n : u < start => call.lengths[u] <= first
      /\ \A u \in 1 .. n : start <= u => call.lengths[u] > first
  <2>1. CASE Reaching = {}
    <3>1. start = n + 1
      BY <1>6, <2>1
    <3>2. \A u \in 1 .. n : ~ (call.lengths[u] > first)
      BY <2>1
    <3> QED BY <1>2, <1>3, <3>1, <3>2
  <2>2. CASE Reaching # {}
    <3>1. Reaching \subseteq Nat
      OBVIOUS
    <3>2. \E u \in Reaching : \A v \in Reaching : u <= v
      BY <2>2, <3>1, LeastExists
    <3>3. start \in Reaching /\ \A v \in Reaching : start <= v
      BY <1>6, <2>2, <3>2
    <3>4. start \in 1 .. n /\ call.lengths[start] > first
      BY <3>3
    <3>5. \A u \in 1 .. n : u < start => ~ (call.lengths[u] > first)
      BY <3>3, <3>4
    <3>6. \A u \in 1 .. n : start <= u => call.lengths[start] <= call.lengths[u]
      BY <1>3, <3>4
    <3> QED BY <1>2, <1>3, <3>4, <3>5, <3>6
  <2> QED BY <2>1, <2>2
<1>8. PICK before : before = BitsUpTo(call, start - 1)
  OBVIOUS
<1>9. lengths = [i \in 0 .. np - before - 1 |->
                   AtMost(length, call.lengths[CHOOSE u \in 1 .. n :
                                                 OfOutput(call, before + i, u)] - first)]
  BY <1>1, <1>6, <1>8 DEF ProductLengths, OfOutput
<1>10. before \in 0 .. np
  <2>1. start - 1 \in 0 .. n /\ n \in 0 .. n /\ start - 1 <= n
    BY <1>2, <1>7
  <2>2. before \in Nat /\ before <= np
    BY <1>2, <1>3, <1>8, <2>1
  <2> QED BY <1>2, <2>2
<1>11. missing = before
  <2>1. DOMAIN lengths = 0 .. np - before - 1
    BY <1>9
  <2>2. PICK k : k = np - before
    OBVIOUS
  <2>3. k \in Nat /\ DOMAIN lengths = 0 .. k - 1
    BY <1>2, <1>10, <2>1, <2>2
  <2>4. Cardinality(0 .. k - 1) = k
    BY <2>3, FS_Interval
  <2> QED BY <1>1, <1>2, <1>10, <2>2, <2>3, <2>4
<1>12. o - 1 \in 0 .. n /\ o \in 0 .. n /\ start - 1 \in 0 .. n /\ o \in Int /\ start \in Int
  BY <1>2, <1>7
<1>13. BitsUpTo(call, o - 1) <= p /\ p < BitsUpTo(call, o)
  BY DEF OfOutput
<1>14. ASSUME p < missing PROVE call.lengths[o] <= first
  <2>1. CASE start <= o
    <3>1. before <= BitsUpTo(call, o - 1)
      BY <1>3, <1>8, <1>12, <2>1
    <3>2. before \in Nat /\ BitsUpTo(call, o - 1) \in Nat
      BY <1>3, <1>10, <1>12
    <3> QED BY <1>2, <1>11, <1>13, <1>14, <3>1, <3>2
  <2>2. CASE o < start
    BY <1>2, <1>7, <2>2
  <2> QED BY <1>12, <2>1, <2>2
<1>15. ASSUME p >= missing
       PROVE  call.lengths[o] > first /\ lengths[p - missing] = AtMost(length, call.lengths[o] - first)
  <2>1. start <= o
    <3>1. CASE o < start
      <4>1. BitsUpTo(call, o) <= before
        BY <1>3, <1>8, <1>12, <3>1
      <4>2. before \in Nat /\ BitsUpTo(call, o) \in Nat
        BY <1>3, <1>10, <1>12
      <4> QED BY <1>2, <1>11, <1>13, <1>15, <4>1, <4>2
    <3> QED BY <1>12, <3>1
  <2>2. p - before \in 0 .. np - before - 1 /\ before + (p - before) = p
    BY <1>2, <1>10, <1>11, <1>15
  <2>3. lengths[p - before] = AtMost(length, call.lengths[o] - first)
    BY <1>5, <1>9, <2>2
  <2> QED BY <1>2, <1>7, <1>11, <2>1, <2>3
<1> QED BY <1>10, <1>11, <1>14, <1>15

(* async_partition_product: the products of a chunk are what its           *)
(* generators contribute, of both kinds.                                   *)
LEMMA ChunkProductsAre ==
  ASSUME NEW call \in FixedCalls, NumOutputs(call) > 0, NEW chunk, NEW m \in Nat,
         chunk.a = m * WindowWidth, chunk.b \in Nat, chunk.a < chunk.b, chunk.b <= Length(call),
         NEW p \in 0 .. NumProducts(call) - 1, NEW o \in 1 .. NumOutputs(call), OfOutput(call, p, o)
  PROVE  /\ ChunkProducts(call, chunk)[p] = ShareOf(call, p, o, chunk.a, chunk.b)
         /\ ShareOf(call, p, o, chunk.a, chunk.b) \in Elements
<1>1. PICK a, b, length, l, missing, lengths :
        /\ a = chunk.a /\ b = chunk.b /\ length = b - a /\ l = call.lengths[o]
        /\ lengths = ProductLengths(call, a, length)
        /\ missing = NumProducts(call) - Cardinality(DOMAIN lengths)
  OBVIOUS
<1>2. /\ a \in Nat /\ b \in Nat /\ a < b /\ b <= Length(call) /\ Length(call) \in Nat
      /\ length \in Nat \ {0} /\ a = m * WindowWidth /\ l \in 0 .. Length(call)
  <2>1. WindowWidth \in Nat /\ Length(call) \in Nat
    BY FixedAssumption, ProductsAre
  <2>2. a \in Nat
    BY <1>1, <2>1
  <2> QED BY <1>1, <2>1, <2>2, OutputsAscend
<1>3. ASSUME NEW n \in Nat \ {0}, a + n <= Length(call),
             \A g \in Int : a <= g => (g < a + n <=> g < b /\ g < l)
      PROVE  /\ PartitionProduct(call, a, p, n) = ShareOf(call, p, o, a, b)
             /\ ShareOf(call, p, o, a, b) \in Elements
  <2>1. Generators(call, m, a, n)
    BY <1>2, <1>3 DEF Generators
  <2>2. /\ PartitionProduct(call, a, p, n) = RangeProduct(call, a, p, n)
        /\ RangeProduct(call, a, p, n) \in Elements
    BY <2>1, ProductIs
  <2>3. \A g \in Coefficients : g \in Int
    BY GroupAssumption DEF Coefficients, Junk
  <2>4. RangeProduct(call, a, p, n) = ShareOf(call, p, o, a, b)
    BY <1>1, <1>3, <2>3 DEF RangeProduct, ShareOf
  <2> QED BY <2>2, <2>4
<1>4. CASE call.kind = "same"
  <2>1. ChunkProducts(call, chunk)[p] = PartitionProduct(call, a, p, length)
    BY <1>1, <1>4 DEF ChunkProducts
  <2>2. l = Length(call)
    <3>1. o \in 1 .. Len(call.lengths)
      BY OutputsAre
    <3> QED BY <1>1, <1>4, <3>1, FixedAssumption
  <2>3. a + length = b
    BY <1>1, <1>2
  <2>4. \A g \in Int : a <= g => (g < a + length <=> g < b /\ g < l)
    BY <1>2, <2>2, <2>3
  <2>5. /\ PartitionProduct(call, a, p, length) = ShareOf(call, p, o, a, b)
        /\ ShareOf(call, p, o, a, b) \in Elements
    BY <1>2, <1>3, <2>3, <2>4
  <2> QED BY <1>1, <2>1, <2>5
<1>5. CASE call.kind # "same"
  <2>1. ChunkProducts(call, chunk)[p]
          = IF p < missing THEN Zero ELSE PartitionProduct(call, a, p, lengths[p - missing])
    BY <1>1, <1>5 DEF ChunkProducts
  <2>2. /\ missing \in Nat
        /\ p < missing => l <= a
        /\ p >= missing => l > a /\ lengths[p - missing] = AtMost(length, l - a)
    <3>1. lengths = ProductLengths(call, a, length) /\ length \in Nat \ {0} /\ a \in Nat
      BY <1>1, <1>2
    <3>2. missing = NumProducts(call) - Cardinality(DOMAIN lengths)
      BY <1>1
    <3>3. /\ missing \in Nat
          /\ p < missing => call.lengths[o] <= a
          /\ p >= missing => /\ call.lengths[o] > a
                             /\ lengths[p - missing] = AtMost(length, call.lengths[o] - a)
      BY <3>1, <3>2, LengthsAre
    <3> QED BY <1>1, <3>3
  <2>3. CASE p < missing
    <3>1. \A g \in Coefficients : g \in Int
      BY GroupAssumption DEF Coefficients, Junk
    <3>2. \A g \in Coefficients : ~ (a <= g /\ g < b /\ g < l)
      BY <1>2, <2>2, <2>3, <3>1
    <3>3. ShareOf(call, p, o, a, b) = Zero
      BY <1>1, <3>2 DEF ShareOf, Zero, Coefficients
    <3> QED BY <1>1, <2>1, <2>3, <3>3, ElementsAre
  <2>4. CASE ~ (p < missing)
    <3>1. PICK n : n = AtMost(length, l - a)
      OBVIOUS
    <3>2. p >= missing
      <4>1. p \in Int
        BY ProductsAre
      <4> QED BY <2>2, <2>4, <4>1
    <3>3. l > a /\ lengths[p - missing] = n
      BY <2>2, <3>1, <3>2
    <3>4. n \in Nat \ {0} /\ a + n <= Length(call)
          /\ \A g \in Int : a <= g => (g < a + n <=> g < b /\ g < l)
      BY <1>1, <1>2, <3>1, <3>3 DEF AtMost
    <3>5. /\ PartitionProduct(call, a, p, n) = ShareOf(call, p, o, a, b)
          /\ ShareOf(call, p, o, a, b) \in Elements
      BY <1>3, <3>4
    <3> QED BY <1>1, <2>1, <2>4, <3>3, <3>5
  <2> QED BY <2>3, <2>4
<1> QED BY <1>4, <1>5

(* The host's products, of equal lengths *)
LEMMA HostProductsAre ==
  ASSUME NEW call \in FixedCalls, NumOutputs(call) > 0, call.kind = "same",
         NEW p \in 0 .. NumProducts(call) - 1, NEW o \in 1 .. NumOutputs(call)
  PROVE  /\ HostProducts(call)[p] = ShareOf(call, p, o, 0, Length(call))
         /\ HostProducts(call)[p] \in Elements
<1>1. PICK n : n = Length(call)
  OBVIOUS
<1>2. n \in Nat /\ WindowWidth \in Nat
  BY <1>1, ProductsAre, FixedAssumption
<1>3. call.lengths[o] = n
  <2>1. o \in 1 .. Len(call.lengths)
    BY OutputsAre
  <2> QED BY <1>1, <2>1, FixedAssumption
<1>4. Generators(call, 0, 0, n)
  <2>1. 0 * WindowWidth = 0
    BY <1>2
  <2> QED BY <1>1, <1>2, <2>1 DEF Generators
<1>5. /\ PartitionProduct(call, 0, p, n) = RangeProduct(call, 0, p, n)
      /\ RangeProduct(call, 0, p, n) \in Elements
  BY <1>4, ProductIs
<1>6. RangeProduct(call, 0, p, n) = ShareOf(call, p, o, 0, n)
  BY <1>2, <1>3 DEF RangeProduct, ShareOf
<1>7. HostProducts(call)[p] = PartitionProduct(call, 0, p, n)
  BY <1>1 DEF HostProducts
<1> QED BY <1>1, <1>5, <1>6, <1>7

-----------------------------------------------------------------------------
(* From products to outputs *)

(* What the product p of output o should be, with all generators *)
WholeProduct(call, p, o) == ShareOf(call, p, o, 0, Length(call))

(* x has the products of output o. *)
HasProducts(x, call, o) ==
  \A p \in BitsUpTo(call, o - 1) .. BitsUpTo(call, o) - 1 :
    x[p] = WholeProduct(call, p, o) /\ x[p] \in Elements

(* The products of an output are those between the partial sums. *)
LEMMA ProductsOfOutput ==
  ASSUME NEW call \in FixedCalls, NEW o \in 1 .. NumOutputs(call)
  PROVE  /\ BitsUpTo(call, o - 1) \in Nat /\ BitsUpTo(call, o) \in Nat /\ call.widths[o] \in Nat \ {0}
         /\ BitsUpTo(call, o) = BitsUpTo(call, o - 1) + call.widths[o]
         /\ BitsUpTo(call, o) <= NumProducts(call) /\ NumProducts(call) \in Nat
         /\ \A p \in BitsUpTo(call, o - 1) .. BitsUpTo(call, o) - 1 :
              p \in 0 .. NumProducts(call) - 1 /\ OfOutput(call, p, o)
<1>1. PICK n : n = NumOutputs(call)
  OBVIOUS
<1>2. n \in Nat /\ o \in 1 .. n /\ o \in 0 .. n /\ o - 1 \in 0 .. n /\ n \in 0 .. n /\ o <= n
  <2>1. n \in Nat
    BY <1>1, OutputsAre
  <2> QED BY <1>1, <2>1
<1>3. /\ BitsUpTo(call, o - 1) \in Nat /\ BitsUpTo(call, o) \in Nat /\ BitsUpTo(call, n) \in Nat
      /\ BitsUpTo(call, o) <= BitsUpTo(call, n)
  BY <1>1, <1>2, OutputsAre, OutputsAscend
<1>4. NumProducts(call) = BitsUpTo(call, n)
  BY <1>1 DEF NumProducts
<1>5. ASSUME NEW p \in BitsUpTo(call, o - 1) .. BitsUpTo(call, o) - 1
      PROVE  p \in 0 .. NumProducts(call) - 1 /\ OfOutput(call, p, o)
  BY <1>3, <1>4 DEF OfOutput
<1> QED BY <1>1, <1>2, <1>3, <1>4, <1>5, OutputsAre

(* reduce_output: the products of an output, doubled and added, are the    *)
(* multiexponentiation of its scalars.                                     *)
LEMMA OutputIs ==
  ASSUME NEW call \in FixedCalls, NEW o \in 1 .. NumOutputs(call), NEW x, HasProducts(x, call, o)
  PROVE  Horner(x, BitsUpTo(call, o - 1), BitsUpTo(call, o) - 1) = FixedResult(call, o)
<1>1. PICK first, w, n, last, l :
        /\ first = BitsUpTo(call, o - 1) /\ w = call.widths[o] /\ n = w - 1
        /\ last = BitsUpTo(call, o) - 1 /\ l = call.lengths[o]
  OBVIOUS
<1>2. /\ first \in Nat /\ first \in Int /\ w \in Nat \ {0} /\ n \in Nat /\ last = first + n
      /\ \A j \in 0 .. n : first + j \in first .. last
  <2>1. first \in Nat /\ w \in Nat \ {0} /\ BitsUpTo(call, o) = first + w
    BY <1>1, ProductsOfOutput
  <2>2. last = (first + w) - 1
    BY <1>1, <2>1
  <2> QED BY <1>1, <2>1, <2>2
<1>3. NumOutputs(call) \in Nat /\ NumOutputs(call) > 0
  BY OutputsAre
<1>4. l \in 0 .. Length(call) /\ Length(call) \in Nat
  BY <1>1, <1>3, OutputsAscend, ProductsAre
<1>5. ASSUME NEW i \in first .. last
      PROVE  x[i] = WholeProduct(call, i, o) /\ x[i] \in Elements
  BY <1>1 DEF HasProducts
<1>6. PICK y : y = Horner(x, first, last)
  OBVIOUS
<1>7. /\ y \in Elements
      /\ \A g \in Coefficients : y[g] = SumFunction([j \in 0 .. n |-> x[first + j][g] * PowerOf2(j)])
  <2>1. AllElements(x, first, last)
    BY <1>5 DEF AllElements
  <2>2. first \in Int /\ n \in Nat /\ last = first + n
    BY <1>2
  <2>3. /\ Horner(x, first, last) \in Elements
        /\ \A g \in Coefficients : Horner(x, first, last)[g] = WeighedSum(x, first, n, g)
    BY <2>1, <2>2, HornerIs
  <2> QED BY <1>6, <2>3 DEF WeighedSum
<1>8. \A j \in 0 .. n : PowerOf2(j) \in Nat
  BY PowerStep
<1>9. IsFiniteSet(0 .. n) /\ 0 .. w - 1 = 0 .. n
  <2>1. 0 \in Int /\ n \in Int /\ 0 .. w - 1 = 0 .. n
    BY <1>1, <1>2
  <2> QED BY <2>1, FS_Interval
<1>10. ASSUME NEW g \in Coefficients
       PROVE  y[g] = IF g = Junk THEN 0
                     ELSE IF g >= l THEN 0
                     ELSE SumFunction([j \in 0 .. n |-> ScalarBit(call, first + j, g) * PowerOf2(j)])
  <2>1. PICK h : h = [j \in 0 .. n |-> x[first + j][g] * PowerOf2(j)]
    OBVIOUS
  <2>2. g \in Int /\ (g # Junk => 0 <= g) /\ (g = Junk => g < 0)
    BY GroupAssumption DEF Coefficients, Junk
  <2>3. y[g] = SumFunction(h)
    BY <1>7, <2>1
  <2>4. \A j \in 0 .. n : x[first + j][g] = IF 0 <= g /\ g < Length(call) /\ g < l
                                            THEN ScalarBit(call, first + j, g) ELSE 0
    <3> TAKE j \in 0 .. n
    <3>1. first + j \in first .. last
      BY <1>2
    <3>2. x[first + j] = WholeProduct(call, first + j, o)
      BY <1>5, <3>1
    <3> QED BY <1>1, <3>2 DEF WholeProduct, ShareOf
  <2>5. CASE g = Junk \/ g >= l
    <3>1. \A j \in 0 .. n : h[j] = 0
      <4> TAKE j \in 0 .. n
      <4>1. x[first + j][g] = 0
        BY <1>4, <2>2, <2>4, <2>5
      <4>2. PowerOf2(j) \in Nat
        BY <1>8
      <4>3. 0 * PowerOf2(j) = 0
        BY <4>2
      <4> QED BY <2>1, <4>1, <4>3
    <3>2. h \in [0 .. n -> Int]
      BY <2>1, <3>1
    <3>3. SumFunction(h) = 0
      BY <1>9, <3>1, <3>2, SumOfZeros
    <3> QED BY <2>3, <2>5, <3>3
  <2>6. CASE g # Junk /\ ~ (g >= l)
    <3>1. \A j \in 0 .. n : x[first + j][g] = ScalarBit(call, first + j, g)
      BY <1>4, <2>2, <2>4, <2>6
    <3>2. h = [j \in 0 .. n |-> ScalarBit(call, first + j, g) * PowerOf2(j)]
      BY <2>1, <3>1
    <3> QED BY <2>3, <2>6, <3>2
  <2> QED BY <2>5, <2>6
<1>11. FixedResult(call, o)
         = [g \in Coefficients |->
              IF g = Junk THEN 0
              ELSE IF g >= l THEN 0
              ELSE SumFunction([j \in 0 .. n |-> ScalarBit(call, first + j, g) * PowerOf2(j)])]
  <2>1. DOMAIN Zero = Coefficients
    BY DEF Zero, Coefficients
  <2> QED BY <1>1, <1>9, <2>1 DEF FixedResult, Weighted, Total, ScalarBit
<1> QED BY <1>1, <1>6, <1>7, <1>10, <1>11 DEF Elements

(* reduce_products on the host, of equal lengths *)
LEMMA HostResult ==
  ASSUME NEW call \in FixedCalls, call.kind = "same", NEW o \in 1 .. NumOutputs(call)
  PROVE  ReduceProducts(call, HostProducts(call))[o] = FixedResult(call, o)
<1>1. NumOutputs(call) > 0
  BY OutputsAre
<1>2. HasProducts(HostProducts(call), call, o)
  BY <1>1, ProductsOfOutput, HostProductsAre DEF HasProducts, WholeProduct
<1> QED BY <1>2, OutputIs DEF ReduceProducts

-----------------------------------------------------------------------------
(* The chunks of a call *)

(* The chunk i has the index g. *)
HasIndex(chunks, i, g) == chunks[i].a <= g /\ g < chunks[i].b

(* m chunks of the indexes below n: not empty, each begins at a multiple,  *)
(* and every index is in one of them.                                      *)
Partitions(chunks, m, n, multiple) ==
  /\ m \in Nat /\ DOMAIN chunks = 0 .. m - 1
  /\ \A i \in 0 .. m - 1 :
       /\ \E k \in Nat : chunks[i].a = k * multiple
       /\ chunks[i].a \in Nat /\ chunks[i].b \in Nat
       /\ chunks[i].a < chunks[i].b /\ chunks[i].b <= n
  /\ \A g \in 0 .. n - 1 : \E u \in 0 .. m - 1 : \A i \in 0 .. m - 1 : HasIndex(chunks, i, g) <=> i = u

(* split puts every index into one chunk. *)
LEMMA SplitPartitions ==
  ASSUME NEW n \in Nat, NEW multiple \in Nat \ {0}, NEW options \in SplitOptions
  PROVE  \E m \in Nat : Partitions(Split(0, n, multiple, options), m, n, multiple)
<1>1. PICK step, m, chunks :
        /\ step = ChunkStep(n, multiple, options) /\ m = DivideUp(n, step)
        /\ chunks = Split(0, n, multiple, options)
  OBVIOUS
<1>2. n - 0 = n
  OBVIOUS
<1>3. PICK k \in Nat \ {0} : step = k * multiple
  BY <1>1, ChunkStepPositive
<1>4. step \in Nat \ {0}
  BY <1>3, SMT
<1>5. /\ m \in Nat /\ n <= m * step
      /\ \A i \in 0 .. m - 1 : i * step < n
  BY <1>1, <1>4, Chunks, DivideUpBounds
<1>6. chunks = [i \in 0 .. m - 1 |-> [a |-> 0 + i * step, b |-> AtMost(n, 0 + i * step + step)]]
  BY <1>1, <1>2 DEF Split, NumChunks, ChunkAt
<1>7. ASSUME NEW i \in 0 .. m - 1
      PROVE  /\ i * step \in Nat /\ i * step < n
             /\ chunks[i].a = i * step /\ chunks[i].b = AtMost(n, i * step + step)
             /\ \E l \in Nat : chunks[i].a = l * multiple
  <2>1. i * step \in Nat /\ i \in Nat
    BY <1>4
  <2>2. chunks[i].a = 0 + i * step /\ chunks[i].b = AtMost(n, 0 + i * step + step)
    BY <1>6
  <2>3. (i * k) \in Nat /\ (i * k) * multiple = i * step
    BY <1>3, <2>1, SMT
  <2>4. 0 + i * step = i * step
    BY <2>1
  <2> QED BY <1>5, <2>1, <2>2, <2>3, <2>4
<1>8. ASSUME NEW i \in 0 .. m - 1
      PROVE  /\ chunks[i].a \in Nat /\ chunks[i].b \in Nat
             /\ chunks[i].a < chunks[i].b /\ chunks[i].b <= n
  BY <1>4, <1>7 DEF AtMost
<1>9. ASSUME NEW g \in 0 .. n - 1
      PROVE  \E u \in 0 .. m - 1 : \A i \in 0 .. m - 1 : HasIndex(chunks, i, g) <=> i = u
  <2>1. PICK u, r : u = (g \div step) /\ r = (g % step)
    OBVIOUS
  <2>2. u \in Int /\ r \in 0 .. step - 1 /\ g = u * step + r
    BY <1>4, <2>1, DivisionRange
  <2>3. u \in 0 .. m - 1
    <3>1. g \in 0 .. m * step - 1
      <4>1. m * step \in Nat
        BY <1>4, <1>5
      <4> QED BY <1>5, <4>1
    <3> QED BY <1>4, <1>5, <2>1, <3>1, DivisionBelow
  <2>4. ASSUME NEW i \in 0 .. m - 1 PROVE HasIndex(chunks, i, g) <=> i = u
    <3>1. HasIndex(chunks, i, g) <=> i * step <= g /\ g < i * step + step
      BY <1>4, <1>7 DEF HasIndex, AtMost
    <3>2. i = u => i * step <= g /\ g < i * step + step
      BY <1>4, <1>7, <2>2
    <3>3. ASSUME i * step <= g /\ g < i * step + step PROVE i = u
      <4>1. PICK s : s = g - i * step
        OBVIOUS
      <4>2. s \in 0 .. step - 1 /\ i * step + s = u * step + r /\ i \in Int
        BY <1>4, <1>7, <2>2, <3>3, <4>1
      <4> QED BY <1>4, <2>2, <4>2, DivisionUnique
    <3> QED BY <3>1, <3>2, <3>3
  <2> QED BY <2>3, <2>4
<1>10. DOMAIN chunks = 0 .. m - 1
  BY <1>6
<1>11. Partitions(chunks, m, n, multiple)
  <2>1. \A i \in 0 .. m - 1 : \E l \in Nat : chunks[i].a = l * multiple
    BY <1>7
  <2> QED BY <1>5, <1>8, <1>9, <1>10, <2>1 DEF Partitions
<1> QED BY <1>1, <1>5, <1>11

(* What combine_reduce adds up for the product p *)
SumOfPartials(partials, np, reduction_size, p) ==
  SumFrom(0, reduction_size - 1, LAMBDA r : partials[r * np + p])

(* combine_reduce_output: with the right sums, the result is right,        *)
(* whichever outputs are in the chunk.                                     *)
LEMMA CombineIs ==
  ASSUME NEW call \in FixedCalls, NEW partials, NEW size \in Nat, NEW outs,
         outs.a \in Nat, outs.b \in 0 .. NumOutputs(call), NEW o \in outs.a + 1 .. outs.b,
         \A p \in BitsUpTo(call, o - 1) .. BitsUpTo(call, o) - 1 :
           /\ SumOfPartials(partials, NumProducts(call), size, p) = WholeProduct(call, p, o)
           /\ WholeProduct(call, p, o) \in Elements
  PROVE  CombineReduceChunk(call, partials, size, outs)[o] = FixedResult(call, o)
<1>1. PICK n, np, a, b, off, num :
        /\ n = NumOutputs(call) /\ np = NumProducts(call) /\ a = outs.a /\ b = outs.b
        /\ off = BitsUpTo(call, a) /\ num = BitsUpTo(call, b) - off
  OBVIOUS
<1>2. /\ n \in Nat /\ o \in 1 .. n /\ a \in 0 .. n /\ b \in 0 .. n /\ o - 1 \in 0 .. n /\ o \in 0 .. n
      /\ a <= o - 1 /\ o <= b /\ n \in 0 .. n /\ b <= n
  <2>1. n \in Nat
    BY <1>1, OutputsAre
  <2> QED BY <1>1, <2>1
<1>3. /\ off \in Nat /\ BitsUpTo(call, b) \in Nat /\ BitsUpTo(call, o - 1) \in Nat /\ BitsUpTo(call, o) \in Nat
      /\ off <= BitsUpTo(call, o - 1) /\ BitsUpTo(call, o) <= BitsUpTo(call, b)
      /\ BitsUpTo(call, b) <= np /\ np \in Nat
  <2>1. np = BitsUpTo(call, n)
    BY <1>1 DEF NumProducts
  <2> QED BY <1>1, <1>2, <2>1, OutputsAre, OutputsAscend
<1> DEFINE slices == [i \in 0 .. num * size - 1 |-> partials[(i \div num) * np + off + (i % num)]]
           combined == [p \in off .. off + num - 1 |->
                          SumFrom(0, size - 1, LAMBDA r : slices[p - off + r * num])]
<1>4. CombineReduceChunk(call, partials, size, outs)[o]
        = Horner(combined, BitsUpTo(call, o - 1), BitsUpTo(call, o) - 1)
  BY <1>1 DEF CombineReduceChunk
<1>5. ASSUME NEW p \in off .. off + num - 1
      PROVE  combined[p] = SumOfPartials(partials, np, size, p)
  <2>1. PICK i : i = p - off
    OBVIOUS
  <2>2. num \in Nat \ {0} /\ i \in 0 .. num - 1 /\ i \in Int /\ off + i = p
    BY <1>1, <1>3, <2>1
  <2>3. ASSUME NEW r \in 0 .. size - 1 PROVE slices[p - off + r * num] = partials[r * np + p]
    <3>1. PICK j : j = r * num + i
      OBVIOUS
    <3>2. r \in Int /\ r * num \in Nat /\ r * np \in Nat
      BY <1>3, <2>2
    <3>3. (j \div num) = r /\ (j % num) = i
      BY <2>2, <3>1, <3>2, DivisionIs, ZenonT(30)
    <3>4. j \in 0 .. num * size - 1
      <4>1. num * r + i \in 0 .. num * size - 1
        BY <2>2, SliceInside
      <4>2. num * r = r * num
        BY <2>2, <3>2
      <4> QED BY <3>1, <4>1, <4>2
    <3>5. slices[j] = partials[r * np + off + i]
      BY <3>3, <3>4
    <3>6. p - off + r * num = j /\ r * np + off + i = r * np + p
      BY <1>3, <2>1, <2>2, <3>1, <3>2
    <3> HIDE DEF slices
    <3> QED BY <3>5, <3>6
  <2> HIDE DEF slices
  <2>4. [r \in 0 .. size - 1 |-> slices[p - off + r * num]] = [r \in 0 .. size - 1 |-> partials[r * np + p]]
    BY <2>3
  <2>5. combined[p] = FoldFunction(Plus, Zero, [r \in 0 .. size - 1 |-> slices[p - off + r * num]])
    BY DEF SumFrom
  <2> QED BY <2>4, <2>5 DEF SumOfPartials, SumFrom
<1>6. HasProducts(combined, call, o)
  <2> HIDE DEF combined
  <2>1. ASSUME NEW p \in BitsUpTo(call, o - 1) .. BitsUpTo(call, o) - 1
        PROVE  combined[p] = WholeProduct(call, p, o) /\ combined[p] \in Elements
    <3>1. p \in off .. off + num - 1
      BY <1>1, <1>3
    <3> QED BY <1>1, <1>5, <3>1
  <2> QED BY <2>1 DEF HasProducts
<1> HIDE DEF combined
<1> QED BY <1>2, <1>1, <1>4, <1>6, OutputIs

(* Every chunk has its products at its place, and every place a chunk *)
Placed(call, chunks, m, s, partials) ==
  /\ s \in [0 .. m - 1 -> 0 .. m - 1]
  /\ \A r \in 0 .. m - 1 : \E c \in 0 .. m - 1 : s[c] = r
  /\ \A c, d \in 0 .. m - 1 : s[c] = s[d] => c = d
  /\ \A c \in 0 .. m - 1 : \A p \in 0 .. NumProducts(call) - 1 :
       partials[s[c] * NumProducts(call) + p] = ChunkProducts(call, chunks[c])[p]

(* The sum of the chunks' products is that of all generators, whatever the *)
(* places the chunks have.                                                 *)
LEMMA PlacedSum ==
  ASSUME NEW call \in FixedCalls, NumOutputs(call) > 0, NEW m, NEW chunks,
         Partitions(chunks, m, Length(call), WindowWidth),
         NEW s, NEW partials, Placed(call, chunks, m, s, partials),
         NEW p \in 0 .. NumProducts(call) - 1, NEW o \in 1 .. NumOutputs(call), OfOutput(call, p, o)
  PROVE  /\ SumOfPartials(partials, NumProducts(call), m, p) = WholeProduct(call, p, o)
         /\ WholeProduct(call, p, o) \in Elements
<1>1. PICK np, l : np = NumProducts(call) /\ l = Length(call)
  OBVIOUS
<1>2. np \in Nat /\ l \in Nat /\ m \in Nat
  BY <1>1, ProductsAre DEF Partitions
<1>3. PICK f : f = [r \in 0 .. m - 1 |-> partials[r * np + p]]
  OBVIOUS
<1>4. PICK x : x = SumOfPartials(partials, np, m, p)
  OBVIOUS
<1>5. x = FoldFunction(Plus, Zero, f)
  BY <1>3, <1>4 DEF SumOfPartials, SumFrom
<1>6. ASSUME NEW c \in 0 .. m - 1
      PROVE  /\ s[c] \in 0 .. m - 1
             /\ f[s[c]] = ShareOf(call, p, o, chunks[c].a, chunks[c].b)
             /\ f[s[c]] \in Elements
             /\ chunks[c].a \in Nat /\ chunks[c].b \in Nat /\ chunks[c].b <= l
  <2>1. s[c] \in 0 .. m - 1 /\ partials[s[c] * np + p] = ChunkProducts(call, chunks[c])[p]
    BY <1>1 DEF Placed
  <2>2. PICK chunk : chunk = chunks[c]
    OBVIOUS
  <2>3. PICK k \in Nat : chunk.a = k * WindowWidth
    BY <2>2 DEF Partitions
  <2>4. chunk.a \in Nat /\ chunk.b \in Nat /\ chunk.a < chunk.b /\ chunk.b <= Length(call)
    BY <2>2 DEF Partitions
  <2>5. /\ ChunkProducts(call, chunk)[p] = ShareOf(call, p, o, chunk.a, chunk.b)
        /\ ShareOf(call, p, o, chunk.a, chunk.b) \in Elements
    BY <2>3, <2>4, ChunkProductsAre
  <2>6. f[s[c]] = partials[s[c] * np + p]
    BY <1>3, <2>1
  <2> QED BY <1>1, <2>1, <2>2, <2>4, <2>5, <2>6
<1>7. ASSUME NEW r \in 0 .. m - 1 PROVE \E c \in 0 .. m - 1 : s[c] = r
  BY DEF Placed
<1>8. f \in [0 .. m - 1 -> Elements] /\ DOMAIN f = 0 .. m - 1
  <2>1. \A r \in 0 .. m - 1 : f[r] \in Elements
    BY <1>6, <1>7
  <2> QED BY <1>3, <2>1
<1>9. IsFiniteSet(0 .. m - 1)
  BY <1>2, FS_Interval
<1>10. x \in Elements /\ \A g \in Coefficients : x[g] = SumFunction(CoefficientsOf(f, g))
  BY <1>5, <1>8, <1>9, VectorSum
<1>11. ASSUME NEW g \in Coefficients
       PROVE  SumFunction(CoefficientsOf(f, g))
                = IF 0 <= g /\ g < l /\ g < call.lengths[o] THEN ScalarBit(call, p, g) ELSE 0
  <2>1. PICK h : h = CoefficientsOf(f, g)
    OBVIOUS
  <2>2. h \in [0 .. m - 1 -> Int]
    BY <1>8, <2>1 DEF CoefficientsOf, Elements
  <2>3. g \in Int
    BY GroupAssumption DEF Coefficients, Junk
  <2>4. ASSUME NEW c \in 0 .. m - 1
        PROVE  /\ s[c] \in 0 .. m - 1
               /\ h[s[c]] = IF HasIndex(chunks, c, g) /\ g < call.lengths[o]
                            THEN ScalarBit(call, p, g) ELSE 0
    <3>1. s[c] \in 0 .. m - 1 /\ f[s[c]] = ShareOf(call, p, o, chunks[c].a, chunks[c].b)
      BY <1>6
    <3>2. h[s[c]] = f[s[c]][g]
      BY <1>8, <2>1, <3>1 DEF CoefficientsOf
    <3> QED BY <3>1, <3>2 DEF ShareOf, HasIndex
  <2>5. CASE 0 <= g /\ g < l
    <3>1. g \in 0 .. Length(call) - 1
      BY <1>1, <1>2, <2>3, <2>5
    <3>2. PICK u \in 0 .. m - 1 : \A i \in 0 .. m - 1 : HasIndex(chunks, i, g) <=> i = u
      BY <3>1 DEF Partitions
    <3>3. ASSUME NEW r \in 0 .. m - 1, r # s[u] PROVE h[r] = 0
      <4>1. PICK c \in 0 .. m - 1 : s[c] = r
        BY <1>7
      <4>2. ~ HasIndex(chunks, c, g)
        BY <3>2, <3>3, <4>1
      <4> QED BY <2>4, <4>1, <4>2
    <3>4. s[u] \in 0 .. m - 1
      BY <2>4
    <3>5. SumFunction(h) = h[s[u]]
      BY <1>9, <2>2, <3>3, <3>4, SumOfOneElement
    <3> QED BY <2>1, <2>4, <2>5, <3>2, <3>5
  <2>6. CASE ~ (0 <= g /\ g < l)
    <3>1. ASSUME NEW r \in 0 .. m - 1 PROVE h[r] = 0
      <4>1. PICK c \in 0 .. m - 1 : s[c] = r
        BY <1>7
      <4>2. ~ HasIndex(chunks, c, g)
        BY <1>2, <1>6, <2>3, <2>6 DEF HasIndex
      <4> QED BY <2>4, <4>1, <4>2
    <3>2. SumFunction(h) = 0
      BY <1>9, <2>2, <3>1, SumOfZeros
    <3> QED BY <2>1, <2>6, <3>2
  <2> QED BY <2>5, <2>6
<1>12. x = WholeProduct(call, p, o)
  BY <1>1, <1>10, <1>11 DEF WholeProduct, ShareOf, Elements
<1> QED BY <1>1, <1>4, <1>10, <1>12

(* combine_reduce of all chunks *)
LEMMA ChunksResult ==
  ASSUME NEW call \in FixedCalls, NEW m, NEW chunks, Partitions(chunks, m, Length(call), WindowWidth),
         NEW s, NEW partials, Placed(call, chunks, m, s, partials),
         NEW outs, outs.a \in Nat, outs.b \in 0 .. NumOutputs(call), NEW o \in outs.a + 1 .. outs.b
  PROVE  CombineReduceChunk(call, partials, m, outs)[o] = FixedResult(call, o)
<1>1. NumOutputs(call) \in Nat
  BY OutputsAre
<1>2. o \in 1 .. NumOutputs(call) /\ NumOutputs(call) > 0
  BY <1>1
<1>3. ASSUME NEW p \in BitsUpTo(call, o - 1) .. BitsUpTo(call, o) - 1
      PROVE  /\ SumOfPartials(partials, NumProducts(call), m, p) = WholeProduct(call, p, o)
             /\ WholeProduct(call, p, o) \in Elements
  <2>1. p \in 0 .. NumProducts(call) - 1 /\ OfOutput(call, p, o)
    BY <1>2, ProductsOfOutput
  <2> QED BY <1>2, <2>1, PlacedSum
<1>4. m \in Nat
  BY DEF Partitions
<1> QED BY <1>3, <1>4, CombineIs

(* The same with a single chunk, whose products are used where they are *)
LEMMA SingleResult ==
  ASSUME NEW call \in FixedCalls, Length(call) > 0, NEW o \in 1 .. NumOutputs(call)
  PROVE  CombineReduceChunk(call, ChunkProducts(call, WholeRange(Length(call))), 1,
                            WholeRange(NumOutputs(call)))[o] = FixedResult(call, o)
<1>1. PICK l, n, chunk, chunks, s, partials, outs :
        /\ l = Length(call) /\ n = NumOutputs(call) /\ chunk = WholeRange(l)
        /\ chunks = [i \in 0 .. 0 |-> chunk] /\ s = [i \in 0 .. 0 |-> 0]
        /\ partials = ChunkProducts(call, chunk) /\ outs = WholeRange(n)
  OBVIOUS
<1>2. n \in Nat /\ n > 0 /\ l \in Nat \ {0} /\ WindowWidth \in Nat /\ NumProducts(call) \in Nat
  <2>1. n \in Nat /\ n > 0
    BY <1>1, OutputsAre
  <2> QED BY <1>1, <2>1, ProductsAre, FixedAssumption
<1>3. chunk.a = 0 /\ chunk.b = l /\ outs.a = 0 /\ outs.b = n
  BY <1>1 DEF WholeRange
<1>4. 0 .. 1 - 1 = {0} /\ 0 .. 0 = {0}
  OBVIOUS
<1>5. Partitions(chunks, 1, l, WindowWidth)
  <2>1. DOMAIN chunks = 0 .. 1 - 1 /\ chunks[0] = chunk
    BY <1>1, <1>4
  <2>2. 0 = 0 * WindowWidth
    BY <1>2
  <2>3. ASSUME NEW g \in 0 .. l - 1
        PROVE  \E u \in 0 .. 1 - 1 : \A i \in 0 .. 1 - 1 : HasIndex(chunks, i, g) <=> i = u
    BY <1>2, <1>3, <1>4, <2>1 DEF HasIndex
  <2>4. ASSUME NEW i \in 0 .. 1 - 1
        PROVE  /\ \E k \in Nat : chunks[i].a = k * WindowWidth
               /\ chunks[i].a \in Nat /\ chunks[i].b \in Nat
               /\ chunks[i].a < chunks[i].b /\ chunks[i].b <= l
    BY <1>2, <1>3, <1>4, <2>1, <2>2
  <2> QED BY <2>1, <2>3, <2>4 DEF Partitions
<1>6. Placed(call, chunks, 1, s, partials)
  <2>1. s[0] = 0 /\ chunks[0] = chunk /\ s \in [0 .. 1 - 1 -> 0 .. 1 - 1]
    BY <1>1, <1>4
  <2>2. ASSUME NEW p \in 0 .. NumProducts(call) - 1
        PROVE  partials[0 * NumProducts(call) + p] = ChunkProducts(call, chunk)[p]
    <3>1. 0 * NumProducts(call) + p = p
      BY <1>2
    <3> QED BY <1>1, <3>1
  <2> QED BY <1>4, <2>1, <2>2 DEF Placed
<1>7. outs.a \in Nat /\ outs.b \in 0 .. NumOutputs(call) /\ o \in outs.a + 1 .. outs.b
  BY <1>1, <1>2, <1>3
<1>8. CombineReduceChunk(call, partials, 1, outs)[o] = FixedResult(call, o)
  BY <1>1, <1>5, <1>6, <1>7, ChunksResult
<1> QED BY <1>1, <1>8

-----------------------------------------------------------------------------
(* The results of a call *)

(* The calls that compute what they should *)
Served(call) == call.kind = "same" \/ call.where = "gpu"

(* The results are of the call's outputs, and right once they are there. *)
ResultsOf(call) ==
  \A o \in DOMAIN res :
    /\ o \in 1 .. NumOutputs(call)
    /\ Served(call) => res[o] = <<>> \/ res[o] = FixedResult(call, o)

(* A call's chunks are those of split. *)
ResultsInv ==
  /\ at # <<>> => NumOutputs(fixed) > 0 /\ DOMAIN at = DOMAIN ProductChunks(fixed)
  /\ fixed # <<>> => fixed \in FixedCalls /\ ResultsOf(fixed)

(* A call that returns at once returns the right results. *)
LEMMA CallResults ==
  ASSUME FixedInv, ResultsInv, NEW call \in FixedCalls, FixedCall(call)
  PROVE  ResultsInv'
<1> DEFINE n == NumOutputs(call)
           l == Length(call)
           chunks == ProductChunks(call)
           num_chunks == Cardinality(DOMAIN chunks)
<1>1. fixed = <<>> /\ fixed' = call
  BY DEF FixedCall
<1>2. at = <<>>
  BY <1>1, FixedAssumption DEF FixedInv, AtWork
<1>3. ASSUME at' = <<>>,
             \A o \in DOMAIN res' : o \in 1 .. n /\ (Served(call) => res'[o] = FixedResult(call, o))
      PROVE  ResultsInv'
  BY <1>1, <1>3 DEF ResultsInv, ResultsOf
<1>4. CASE res' = <<>> /\ UNCHANGED at
  <2>1. DOMAIN res' = {}
    BY <1>4
  <2> QED BY <1>2, <1>3, <1>4, <2>1
<1>5. CASE call.where = "host" /\ res' = ReduceProducts(call, HostProducts(call)) /\ UNCHANGED at
  <2>1. DOMAIN res' = 1 .. n
    BY <1>5 DEF ReduceProducts
  <2>2. ASSUME NEW o \in 1 .. n, Served(call) PROVE res'[o] = FixedResult(call, o)
    <3>1. call.kind = "same"
      BY <1>5, <2>2 DEF Served
    <3> QED BY <1>5, <3>1, HostResult
  <2> QED BY <1>2, <1>3, <1>5, <2>1, <2>2
<1>6. CASE /\ n > 0 /\ num_chunks = 1 /\ UNCHANGED at
           /\ res' = CombineReduceChunk(call, ChunkProducts(call, WholeRange(l)), 1, WholeRange(n))
  <2>1. n \in Nat
    BY OutputsAre
  <2>2. DOMAIN res' = 1 .. n
    <3>1. WholeRange(n).a = 0 /\ WholeRange(n).b = n
      BY DEF WholeRange
    <3>2. DOMAIN res' = 0 + 1 .. n
      BY <1>6, <3>1 DEF CombineReduceChunk
    <3> QED BY <2>1, <3>2
  <2>3. l \in Nat
    BY <1>6, ProductsAre
  <2>4. l > 0
    <3>1. CASE l = 0
      <4>1. PICK m \in Nat : Partitions(chunks, m, l, WindowWidth)
        BY <2>3, FixedAssumption, SplitPartitions DEF ProductChunks
      <4>2. CASE m = 0
        <5>1. DOMAIN chunks = {}
          BY <4>1, <4>2 DEF Partitions
        <5> QED BY <1>6, <5>1, FS_EmptySet
      <4>3. CASE m # 0
        <5>1. 0 \in 0 .. m - 1
          BY <4>1, <4>3
        <5>2. chunks[0].a \in Nat /\ chunks[0].b \in Nat /\ chunks[0].a < chunks[0].b /\ chunks[0].b <= 0
          BY <3>1, <4>1, <5>1 DEF Partitions
        <5> QED BY <5>2
      <4> QED BY <4>2, <4>3
    <3> QED BY <2>3, <3>1
  <2>5. \A o \in 1 .. n : res'[o] = FixedResult(call, o)
    BY <1>6, <2>4, SingleResult
  <2> QED BY <1>2, <1>3, <1>6, <2>2, <2>5
<1>7. CASE /\ n > 0
           /\ at' = [c \in DOMAIN chunks |-> "waiting"]
           /\ res' = [o \in 1 .. n |-> <<>>]
  BY <1>1, <1>7 DEF ResultsInv, ResultsOf
<1> QED BY <1>4, <1>5, <1>6, <1>7 DEF FixedCall

(* When all products are there, every chunk has its place. *)
LEMMA AllPlaced ==
  ASSUME FixedInv, ResultsInv, at # <<>>, \A c \in DOMAIN at : at[c] = "done"
  PROVE  \E m \in Nat :
           /\ Partitions(ProductChunks(fixed), m, Length(fixed), WindowWidth)
           /\ Placed(fixed, ProductChunks(fixed), m, slot, partial_products)
           /\ Cardinality(DOMAIN partial_products) \div NumProducts(fixed) = m
<1>1. PICK m \in Nat \ {0} : AtWork(m)
  BY DEF FixedInv
<1>2. PICK np : np = NumProducts(fixed)
  OBVIOUS
<1>3. fixed \in FixedCalls /\ NumOutputs(fixed) > 0 /\ DOMAIN ProductChunks(fixed) = 0 .. m - 1
  BY <1>1 DEF AtWork, ResultsInv
<1>4. np \in Nat \ {0} /\ Length(fixed) \in Nat
  BY <1>2, <1>3, ProductsAre
<1>5. Partitions(ProductChunks(fixed), m, Length(fixed), WindowWidth)
  <2>1. PICK k \in Nat : Partitions(ProductChunks(fixed), k, Length(fixed), WindowWidth)
    BY <1>4, FixedAssumption, SplitPartitions DEF ProductChunks
  <2>2. 0 .. k - 1 = 0 .. m - 1
    BY <1>3, <2>1 DEF Partitions
  <2>3. k = m
    <3>1. Cardinality(0 .. k - 1) = k /\ Cardinality(0 .. m - 1) = m
      BY FS_Interval
    <3> QED BY <2>2, <3>1
  <2> QED BY <2>1, <2>3
<1>6. DOMAIN slot = 0 .. m - 1
  BY <1>1 DEF AtWork
<1>7. /\ IsFiniteSet(0 .. m - 1) /\ Cardinality(0 .. m - 1) = m
  BY FS_Interval
<1>8. /\ slot \in [0 .. m - 1 -> 0 .. m - 1]
      /\ \A c, d \in 0 .. m - 1 : slot[c] = slot[d] => c = d
  <2>1. \A c \in 0 .. m - 1 : slot[c] \in Nat /\ slot[c] < m
    BY <1>1, <1>6, PlacesBounded DEF AtWork
  <2>2. slot = [c \in 0 .. m - 1 |-> slot[c]]
    BY <1>1, <1>6 DEF AtWork
  <2>3. \A c, d \in 0 .. m - 1 : c # d => slot[c] # slot[d]
    BY <1>1, <1>6 DEF AtWork
  <2>4. \A c \in 0 .. m - 1 : slot[c] \in 0 .. m - 1
    BY <2>1
  <2> QED BY <2>2, <2>3, <2>4
<1>9. \A r \in 0 .. m - 1 : \E c \in 0 .. m - 1 : slot[c] = r
  <2>1. slot \in Injection(0 .. m - 1, 0 .. m - 1)
    BY <1>8 DEF Injection, IsInjective
  <2>2. slot \in Surjection(0 .. m - 1, 0 .. m - 1)
    BY <1>7, <2>1, FS_Injection
  <2> QED BY <2>2 DEF Surjection
<1>10. ASSUME NEW c \in 0 .. m - 1, NEW p \in 0 .. np - 1
       PROVE  partial_products[slot[c] * np + p] = ChunkProducts(fixed, ProductChunks(fixed)[c])[p]
  <2>1. c \in DOMAIN at /\ at[c] = "done"
    BY <1>1 DEF AtWork
  <2>2. partial_products[np * slot[c] + p] = ChunkProducts(fixed, ProductChunks(fixed)[c])[p]
    BY <1>1, <1>2, <2>1 DEF AtWork, ProductsKept
  <2>3. np * slot[c] = slot[c] * np
    BY <1>4, <1>8
  <2> QED BY <2>2, <2>3
<1>11. Placed(fixed, ProductChunks(fixed), m, slot, partial_products)
  BY <1>2, <1>8, <1>9, <1>10 DEF Placed
<1>12. Cardinality(DOMAIN partial_products) \div NumProducts(fixed) = m
  <2>1. PICK k : k = np * m
    OBVIOUS
  <2>2. k \in Nat /\ DOMAIN partial_products = 0 .. k - 1
    BY <1>1, <1>2, <1>4, <2>1 DEF AtWork
  <2>3. Cardinality(0 .. k - 1) = k
    BY <2>2, FS_Interval
  <2>4. k = m * np + 0 /\ 0 \in 0 .. np - 1 /\ m \in Int
    BY <1>4, <2>1
  <2>5. ((m * np + 0) \div np) = m
    BY <1>4, <2>4, DivisionIs
  <2> QED BY <1>2, <2>2, <2>3, <2>4, <2>5
<1> QED BY <1>5, <1>11, <1>12

(* combine_reduce, a chunk of the outputs *)
LEMMA CombineResults ==
  ASSUME FixedInv, ResultsInv, NEW k \in Int, CombineOutputs(k)
  PROVE  ResultsInv'
<1>1. /\ fixed # <<>> /\ at # <<>> /\ \A c \in DOMAIN at : at[c] = "done"
      /\ k \in DOMAIN OutputChunks(fixed)
      /\ UNCHANGED <<fixed, at>>
  BY DEF CombineOutputs
<1>2. PICK m \in Nat :
        /\ Partitions(ProductChunks(fixed), m, Length(fixed), WindowWidth)
        /\ Placed(fixed, ProductChunks(fixed), m, slot, partial_products)
        /\ Cardinality(DOMAIN partial_products) \div NumProducts(fixed) = m
  BY <1>1, AllPlaced
<1>3. PICK outs, sums_of : /\ outs = OutputChunks(fixed)[k]
                           /\ sums_of = CombineReduceChunk(fixed, partial_products, m, outs)
  OBVIOUS
<1>4. res' = [o \in DOMAIN res |-> IF o \in DOMAIN sums_of THEN sums_of[o] ELSE res[o]]
  BY <1>2, <1>3 DEF CombineOutputs
<1>5. fixed \in FixedCalls /\ ResultsOf(fixed)
  BY <1>1 DEF ResultsInv
<1>6. outs.a \in Nat /\ outs.b \in 0 .. NumOutputs(fixed)
  <2>1. PICK n : n = NumOutputs(fixed)
    OBVIOUS
  <2>2. n \in Nat
    BY <1>5, <2>1, OutputsAre
  <2>3. PICK q \in Nat : Partitions(OutputChunks(fixed), q, n, 1)
    BY <2>1, <2>2, FixedAssumption, SplitPartitions DEF OutputChunks
  <2>4. outs.a \in Nat /\ outs.b \in Nat /\ outs.b <= n
    BY <1>1, <1>3, <2>3 DEF Partitions
  <2> QED BY <2>1, <2>2, <2>4
<1>7. DOMAIN sums_of = outs.a + 1 .. outs.b
  BY <1>3 DEF CombineReduceChunk
<1>8. \A o \in DOMAIN sums_of : sums_of[o] = FixedResult(fixed, o)
  <2> TAKE o \in DOMAIN sums_of
  <2>1. o \in outs.a + 1 .. outs.b
    BY <1>7
  <2>2. CombineReduceChunk(fixed, partial_products, m, outs)[o] = FixedResult(fixed, o)
    BY <1>2, <1>5, <1>6, <2>1, ChunksResult
  <2> QED BY <1>3, <2>2
<1>9. ASSUME NEW o \in DOMAIN res'
      PROVE  /\ o \in 1 .. NumOutputs(fixed)
             /\ Served(fixed) => res'[o] = <<>> \/ res'[o] = FixedResult(fixed, o)
  BY <1>4, <1>5, <1>8 DEF ResultsOf
<1> QED BY <1>1, <1>5, <1>9 DEF ResultsInv, ResultsOf

(***************************************************************************)
(* Every call but a host one of varying lengths returns the                *)
(* multiexponentiations of its scalars: with any table, any chunks of the  *)
(* generators, finished in any order, any chunks of the outputs, and any   *)
(* widths and lengths of these.                                            *)
(***************************************************************************)
THEOREM FixedBaseResults == FixedSpec => []FixedBaseCorrect
<1>1. FixedIdle => ResultsInv
  BY DEF FixedIdle, ResultsInv
<1>2. ASSUME FixedInv, ResultsInv, [FixedNext]_fixedVars
      PROVE  ResultsInv'
  <2>1. CASE \E call \in FixedCalls : FixedCall(call)
    BY <1>2, <2>1, CallResults
  <2>2. CASE UNCHANGED <<fixed, res>> /\ (at # <<>> \/ UNCHANGED at) /\ DOMAIN at' = DOMAIN at
    <3>1. at' # <<>> => at # <<>>
      BY <2>2
    <3> QED BY <1>2, <2>2, <3>1 DEF ResultsInv, ResultsOf
  <2>3. ASSUME NEW c \in DOMAIN at, LaunchChunk(c) \/ ProductsReady(c) \/ CopyDone(c)
        PROVE  ResultsInv'
    <3>1. at # <<>> /\ DOMAIN at' = DOMAIN at /\ UNCHANGED <<fixed, res>>
      BY <2>3 DEF LaunchChunk, ProductsReady, CopyDone
    <3> QED BY <2>2, <3>1
  <2>4. CASE \E k \in DOMAIN res : CombineOutputs(k - 1)
    <3>1. PICK k \in DOMAIN res : CombineOutputs(k - 1)
      BY <2>4
    <3>2. k \in Int
      BY <1>2, <3>1 DEF ResultsInv, ResultsOf, CombineOutputs
    <3> QED BY <1>2, <3>1, <3>2, CombineResults
  <2>5. CASE UNCHANGED fixedVars
    BY <2>2, <2>5 DEF fixedVars
  <2> QED BY <1>2, <2>1, <2>3, <2>4, <2>5 DEF FixedNext, FixedChunkStep
<1>3. ResultsInv => FixedBaseCorrect
  BY DEF ResultsInv, ResultsOf, Served, FixedBaseCorrect, FixedReturned
<1> QED BY <1>1, <1>2, <1>3, FixedInvariance, PTL DEF FixedSpec

-----------------------------------------------------------------------------
(* Arithmetic *)

(* The remainder of a division *)
LEMMA Division ==
  ASSUME NEW m \in Nat \ {0}, NEW i \in Nat
  PROVE  /\ i \div m \in Nat
         /\ i - (i \div m) * m \in 0 .. m - 1
<1> DEFINE q == i \div m
           r == i % m
<1>1. q \in Nat /\ r \in 0 .. m - 1 /\ i = m * q + r
  BY SMTT(30)
<1>2. m * q = q * m /\ q * m \in Nat
  BY <1>1, SMT
<1> QED BY <1>1, <1>2

-----------------------------------------------------------------------------
(* The dimensions of a reduction *)

(* What is within the blocks of a grid is within n *)
LEMMA BlocksWithin ==
  ASSUME NEW nb \in Nat \ {0}, NEW size \in Nat \ {0}, NEW n \in Nat, 2 * nb * size <= n,
         NEW b \in 0 .. nb - 1, NEW t \in 0 .. size - 1
  PROVE  b * (2 * size) + t + size < n
<1>1. (b + 1) * (2 * size) <= nb * (2 * size)
  BY SMTT(30)
<1>2. nb * (2 * size) = 2 * nb * size
  BY SMTT(30)
<1>3. (b + 1) * (2 * size) = b * (2 * size) + 2 * size
  BY SMTT(30)
<1>4. b * (2 * size) \in Nat /\ nb * (2 * size) \in Nat
  BY SMT
<1> QED BY <1>1, <1>2, <1>3, <1>4

(* A reduction gets dimensions that leave no thread without an index: what *)
(* thread_reduce asserts of every thread (reduction/thread_reduction.h:43). *)
THEOREM ReductionFits ==
  ASSUME NEW n \in Nat \ {0}
  PROVE  LET dims == FitReductionKernel(n) IN
         /\ dims \in KernelDims
         /\ \A b \in 0 .. dims.num_blocks - 1 : \A t \in 0 .. dims.block_size - 1 :
              Normalized(n, dims, b, t)
<1> DEFINE dims == FitReductionKernel(n)
<1> USE FitAssumption
<1> SUFFICES /\ dims \in KernelDims
             /\ \A b \in 0 .. dims.num_blocks - 1 : \A t \in 0 .. dims.block_size - 1 :
                  Normalized(n, dims, b, t)
  OBVIOUS
<1>1. CASE n < 2 * Warp
  <2> DEFINE S == {s \in BlockSizes : s = 1 \/ 2 * s <= n}
  <2>1. S \in SUBSET (0 .. n) /\ 1 \in S
    <3>1. \A x \in S : x \in 0 .. n
      OBVIOUS
    <3> QED BY <3>1
  <2>2. PICK s \in S : \A t \in S : t <= s
    BY <2>1, GreatestExists
  <2> DEFINE P(x) == /\ x = 1 \/ 2 * x <= n
                     /\ \A t \in BlockSizes : t = 1 \/ 2 * t <= n => t <= x
  <2>3. P(s) /\ s \in BlockSizes
    BY <2>2
  <2> DEFINE c == CHOOSE x \in BlockSizes : P(x)
  <2>4. c \in BlockSizes /\ (c = 1 \/ 2 * c <= n)
    BY <2>3
  <2> HIDE DEF P, c
  <2>5. dims = [num_blocks |-> 1, block_size |-> c]
    BY <1>1 DEF FitReductionKernel, SmallDims, c, P
  <2> HIDE DEF dims
  <2>6. dims \in KernelDims
    BY <2>4, <2>5 DEF KernelDims
  <2>7. ASSUME NEW b \in 0 .. dims.num_blocks - 1, NEW t \in 0 .. dims.block_size - 1
        PROVE  Normalized(n, dims, b, t)
    <3>0. dims.num_blocks = 1 /\ dims.block_size = c /\ c \in Nat
      BY <2>4, <2>5
    <3>1. b = 0 /\ t \in 0 .. c - 1 /\ c \in Nat
      <4>1. b \in 0 .. 0
        BY <3>0
      <4> QED BY <3>0, <4>1
    <3>2. FirstIndex(dims, b, t) = t
      BY <3>1, <2>5, SMT DEF FirstIndex
    <3> QED BY <3>1, <3>2, <2>4, <2>5 DEF Normalized
  <2> QED BY <2>6, <2>7
<1> DEFINE Reached == {i \in 1 .. Len(FitTiers) : FitTiers[i].from <= n}
<1>2. ASSUME ~ (n < 2 * Warp), Reached = {}
      PROVE  /\ dims = [num_blocks |-> AtMost(MaxWarpBlocks, n \div (2 * Warp)), block_size |-> Warp]
             /\ dims \in KernelDims
             /\ 2 * dims.num_blocks * dims.block_size <= n
  <2>1. dims = [num_blocks |-> AtMost(MaxWarpBlocks, n \div (2 * Warp)), block_size |-> Warp]
    BY <1>2 DEF FitReductionKernel
  <2> DEFINE q == n \div (2 * Warp)
             nb == AtMost(MaxWarpBlocks, q)
  <2>2. q \in Nat /\ n - q * (2 * Warp) \in 0 .. 2 * Warp - 1
    <3>1. 2 * Warp \in Nat \ {0}
      OBVIOUS
    <3> QED BY <3>1, Division
  <2>3. q # 0
    BY <1>2, <2>2, SMT
  <2>4. nb \in Nat \ {0} /\ nb <= q
    BY <2>2, <2>3 DEF AtMost
  <2> HIDE DEF q, nb
  <2>5. nb * (2 * Warp) <= q * (2 * Warp)
    BY <2>2, <2>4, SMTT(30)
  <2>6. nb * (2 * Warp) = 2 * nb * Warp /\ q * (2 * Warp) \in Nat /\ nb * (2 * Warp) \in Nat
    BY <2>2, <2>4, SMTT(30)
  <2>7. 2 * nb * Warp <= n
    BY <2>2, <2>5, <2>6
  <2>8. dims = [num_blocks |-> nb, block_size |-> Warp]
    BY <2>1 DEF nb, q
  <2> QED BY <2>1, <2>4, <2>7, <2>8 DEF KernelDims
<1>3. ASSUME ~ (n < 2 * Warp), Reached # {}
      PROVE  dims \in KernelDims /\ 2 * dims.num_blocks * dims.block_size <= n
  <2>1. Len(FitTiers) \in Nat /\ Reached \in SUBSET (0 .. Len(FitTiers))
    OBVIOUS
  <2>2. PICK i \in Reached : \A j \in Reached : j <= i
    BY <1>3, <2>1, GreatestExists
  <2> DEFINE c == CHOOSE x \in Reached : \A j \in Reached : j <= x
  <2>3. c \in Reached
    BY <2>2
  <2> HIDE DEF c
  <2>4. dims = FitTiers[c].dims
    BY <1>3 DEF FitReductionKernel, c
  <2>5. /\ FitTiers[c] \in [from : Nat, dims : KernelDims]
        /\ 2 * FitTiers[c].dims.num_blocks * FitTiers[c].dims.block_size <= FitTiers[c].from
        /\ FitTiers[c].from <= n
    <3>1. c \in 1 .. Len(FitTiers) /\ FitTiers[c].from <= n
      BY <2>3
    <3>2. FitTiers[c] \in [from : Nat, dims : KernelDims]
      BY <3>1, ElementOfSeq
    <3> QED BY <3>1, <3>2
  <2> HIDE DEF dims
  <2>6. dims \in KernelDims
    BY <2>4, <2>5
  <2>7. 2 * dims.num_blocks * dims.block_size <= FitTiers[c].from
    BY <2>4, <2>5
  <2>8. /\ dims.num_blocks \in Nat /\ dims.block_size \in Nat
        /\ FitTiers[c].from \in Nat
    BY <2>5, <2>6 DEF KernelDims
  <2>9. 2 * dims.num_blocks * dims.block_size \in Nat
    <3>1. \A x, y \in Nat : 2 * x * y \in Nat
      BY SMT
    <3> QED BY <2>8, <3>1
  <2> QED BY <2>5, <2>6, <2>7, <2>8, <2>9
<1>4. CASE ~ (n < 2 * Warp)
  <2>1. dims \in KernelDims /\ 2 * dims.num_blocks * dims.block_size <= n
    BY <1>2, <1>3, <1>4
  <2> HIDE DEF dims
  <2>2. ASSUME NEW b \in 0 .. dims.num_blocks - 1, NEW t \in 0 .. dims.block_size - 1
        PROVE  Normalized(n, dims, b, t)
    <3>1. dims.num_blocks \in Nat \ {0} /\ dims.block_size \in Nat \ {0}
      BY <2>1 DEF KernelDims
    <3>2. b * (2 * dims.block_size) + t + dims.block_size < n
      BY <2>1, <3>1, BlocksWithin
    <3> QED BY <3>2 DEF Normalized, FirstIndex
  <2> QED BY <2>1, <2>2
<1> QED BY <1>1, <1>4

-----------------------------------------------------------------------------
(* The indexes that the threads of a reduction visit *)

(* Where a thread of a block comes in its step j, with its first or second *)
(* index: counted in the blocks of all steps                               *)
LEMMA VisitPlace ==
  ASSUME NEW n \in Nat, NEW dims \in KernelDims,
         NEW b \in 0 .. dims.num_blocks - 1, NEW t \in 0 .. dims.block_size - 1,
         NEW i \in Visited(n, dims, b, t)
  PROVE  \E j \in Nat : \E e \in {0, dims.block_size} :
           i = (b + j * dims.num_blocks) * (2 * dims.block_size) + (t + e)
<1> DEFINE nb == dims.num_blocks
           size == dims.block_size
           step == 2 * size * nb
<1>1. nb \in Nat \ {0} /\ size \in Nat \ {0}
  BY FitAssumption DEF KernelDims
<1>2. PICK j \in 0 .. n \div step :
        i \in {FirstIndex(dims, b, t) + j * step, FirstIndex(dims, b, t) + j * step + size}
  BY DEF Visited
<1> HIDE DEF nb, size
<1>3. FirstIndex(dims, b, t) = b * (2 * size) + t
  BY DEF FirstIndex, size
<1>4. step \in Nat \ {0}
  BY <1>1, SMTT(30)
<1>5. n \div step \in Nat
  BY <1>4, Division
<1>6. j \in Nat /\ b \in Nat /\ t \in Nat
  BY <1>5
<1> HIDE DEF step
<1>7. j * step = (j * nb) * (2 * size)
  BY <1>1, <1>6, SMTT(30) DEF step
<1>8. (b + j * nb) * (2 * size) = b * (2 * size) + (j * nb) * (2 * size)
  BY <1>1, <1>6, SMTT(30)
<1>9. b * (2 * size) \in Nat /\ (j * nb) * (2 * size) \in Nat
  BY <1>1, <1>6, SMTT(30)
<1>10. PICK e \in {0, size} : i = FirstIndex(dims, b, t) + j * step + e
  <2>1. FirstIndex(dims, b, t) + j * step \in Nat
    BY <1>1, <1>3, <1>6, <1>7, <1>9
  <2> QED BY <1>1, <1>2, <2>1
<1>11. i = (b + j * nb) * (2 * size) + (t + e)
  BY <1>1, <1>3, <1>6, <1>7, <1>8, <1>9, <1>10
<1> QED BY <1>6, <1>11 DEF nb, size

(* The threads of a grid together pass over every index of a reduction,    *)
(* and none of them is passed over by two (thread_reduce's loop, with the  *)
(* index and the step that reduction_kernel gives it).                     *)
THEOREM VisitedOnce ==
  ASSUME NEW n \in Nat, NEW dims \in KernelDims, NEW i \in 0 .. n - 1
  PROVE  /\ \E b \in 0 .. dims.num_blocks - 1 : \E t \in 0 .. dims.block_size - 1 :
              i \in Visited(n, dims, b, t)
         /\ \A b, c \in 0 .. dims.num_blocks - 1 : \A t, u \in 0 .. dims.block_size - 1 :
              i \in Visited(n, dims, b, t) /\ i \in Visited(n, dims, c, u) => b = c /\ t = u
<1> DEFINE nb == dims.num_blocks
           size == dims.block_size
           step == 2 * size * nb
<1>1. nb \in Nat \ {0} /\ size \in Nat \ {0} /\ i \in Nat
  <2>1. nb \in Nat \ {0} /\ size \in Nat \ {0}
    BY FitAssumption DEF KernelDims
  <2>2. i \in Nat
    OBVIOUS
  <2> QED BY <2>1, <2>2
<1>2. \E b \in 0 .. nb - 1 : \E t \in 0 .. size - 1 : i \in Visited(n, dims, b, t)
  <2> HIDE DEF nb, size
  <2>1. 2 * size \in Nat \ {0} /\ step \in Nat \ {0}
    BY <1>1, SMTT(30)
  <2> DEFINE q == i \div (2 * size)
             r == i - q * (2 * size)
             j == q \div nb
             b == q - j * nb
  <2>2. q \in Nat /\ r \in 0 .. 2 * size - 1
    BY <1>1, <2>1, Division
  <2> HIDE DEF q
  <2>3. j \in Nat /\ b \in 0 .. nb - 1
    BY <1>1, <2>2, Division
  <2>4. i = q * (2 * size) + r
    <3>1. q * (2 * size) \in Nat
      BY <1>1, <2>2, SMTT(30)
    <3> QED BY <1>1, <3>1
  <2> HIDE DEF j, r
  <2>5. PICK t \in 0 .. size - 1, e \in {0, size} : r = t + e
    <3>1. CASE r < size
      BY <1>1, <2>2, <3>1
    <3>2. CASE r >= size
      <4>1. r - size \in 0 .. size - 1 /\ r = (r - size) + size
        BY <1>1, <2>2, <3>2
      <4> QED BY <4>1
    <3> QED BY <1>1, <2>2, <3>1, <3>2
  <2>6. q = b + j * nb
    <3>1. j * nb \in Nat
      BY <1>1, <2>3, SMTT(30)
    <3> QED BY <1>1, <2>2, <3>1
  <2> HIDE DEF b
  <2>7. q * (2 * size) = b * (2 * size) + j * step
    BY <1>1, <2>3, <2>6, SMTT(30)
  <2>8. b * (2 * size) \in Nat /\ j * step \in Nat
    BY <1>1, <2>1, <2>3, SMTT(30)
  <2>9. j \in 0 .. n \div step
    <3> DEFINE m == n \div step
    <3>1. m \in Nat /\ n - m * step \in 0 .. step - 1
      BY <2>1, Division
    <3> HIDE DEF m, step
    <3>2. j * step <= i
      BY <1>1, <2>1, <2>2, <2>3, <2>4, <2>7, <2>8
    <3>3. ASSUME j >= m + 1
          PROVE  FALSE
      <4>1. (m + 1) * step <= j * step
        BY <2>1, <2>3, <3>1, <3>3, SMTT(30)
      <4>2. (m + 1) * step = m * step + step
        BY <2>1, <3>1, SMTT(30)
      <4>3. m * step \in Nat
        BY <2>1, <3>1, SMTT(30)
      <4> QED BY <1>1, <2>1, <2>8, <3>1, <3>2, <4>1, <4>2, <4>3
    <3>4. j <= m
      BY <2>3, <3>1, <3>3
    <3> QED BY <2>3, <3>1, <3>4 DEF m
  <2>10. i = FirstIndex(dims, b, t) + j * step + e
    <3>1. FirstIndex(dims, b, t) = b * (2 * size) + t
      BY DEF FirstIndex, size
    <3> HIDE DEF step
    <3> QED BY <1>1, <2>3, <2>4, <2>5, <2>7, <2>8, <3>1
  <2>11. FirstIndex(dims, b, t) + j * step \in Nat
    <3>1. FirstIndex(dims, b, t) = b * (2 * size) + t
      BY DEF FirstIndex, size
    <3> HIDE DEF step
    <3> QED BY <1>1, <2>3, <2>5, <2>8, <3>1
  <2>12. i \in {FirstIndex(dims, b, t) + j * step, FirstIndex(dims, b, t) + j * step + size}
    <3> HIDE DEF step
    <3>1. CASE e = 0
      BY <2>10, <2>11, <3>1
    <3>2. CASE e = size
      BY <2>10, <3>2
    <3> QED BY <2>5, <3>1, <3>2
  <2>13. i \in Visited(n, dims, b, t)
    BY <2>9, <2>12 DEF Visited, size, nb
  <2> QED BY <2>3, <2>5, <2>13
<1>3. ASSUME NEW b \in 0 .. nb - 1, NEW c \in 0 .. nb - 1,
             NEW t \in 0 .. size - 1, NEW u \in 0 .. size - 1,
             i \in Visited(n, dims, b, t), i \in Visited(n, dims, c, u)
      PROVE  b = c /\ t = u
  <2>1. PICK j \in Nat, e \in {0, size} : i = (b + j * nb) * (2 * size) + (t + e)
    BY <1>3, VisitPlace
  <2>2. PICK k \in Nat, f \in {0, size} : i = (c + k * nb) * (2 * size) + (u + f)
    BY <1>3, VisitPlace
  <2> HIDE DEF nb, size
  <2>3. t + e \in 0 .. 2 * size - 1 /\ u + f \in 0 .. 2 * size - 1
    BY <1>1, <1>3, <2>1, <2>2
  <2>4. j * nb \in Nat /\ k * nb \in Nat
    BY <1>1, <2>1, <2>2, SMTT(30)
  <2>5. b + j * nb = c + k * nb /\ t + e = u + f
    <3>1. b + j * nb \in Int /\ c + k * nb \in Int /\ 2 * size \in Nat \ {0}
      BY <1>1, <2>4
    <3> QED BY <2>1, <2>2, <2>3, <3>1, DivisionUnique
  <2>6. t = u
    BY <1>1, <1>3, <2>1, <2>2, <2>5
  <2>7. b = c
    <3>1. j * nb + b = k * nb + c
      BY <1>1, <2>4, <2>5
    <3> QED BY <1>1, <2>1, <2>2, <3>1, DivisionUnique
  <2> QED BY <2>6, <2>7
<1> QED BY <1>2, <1>3

-----------------------------------------------------------------------------
(* The indexes of a loop *)

(* If q steps of the blocks reach n, and without the last block they do    *)
(* not, then no block of for_each_kernel begins beyond n.                  *)
LEMMA LastBlockActive ==
  ASSUME NEW n \in Nat, NEW nb \in Nat \ {0}, NEW s \in Nat \ {0}, NEW q \in Nat,
         n <= nb * (q * s), (nb - 1) * (q * s) < n
  PROVE  /\ DivideUp(n, nb * s) * s \in Nat
         /\ (nb - 1) * (DivideUp(n, nb * s) * s) < n
         /\ n <= nb * (DivideUp(n, nb * s) * s)
<1> DEFINE u == DivideUp(n, nb * s)
           m == nb * s
<1>1. m \in Nat \ {0}
  BY SMTT(30)
<1>2. u \in Nat /\ n <= u * m /\ u * m < n + m
  BY <1>1, DivideUpBounds DEF m
<1> HIDE DEF u
<1>3. u * m = nb * (u * s) /\ nb * (q * s) = q * m
  BY <1>2, SMTT(30)
<1>4. u <= q
  <2>1. SUFFICES ASSUME q + 1 <= u PROVE FALSE
    BY <1>2
  <2> HIDE DEF m
  <2>2. (q + 1) * m <= u * m
    BY <1>1, <1>2, <2>1, SMTT(30)
  <2>3. (q + 1) * m = q * m + m /\ q * m \in Nat /\ u * m \in Nat
    BY <1>1, <1>2, SMTT(30)
  <2> QED BY <1>1, <1>2, <1>3, <2>2, <2>3
<1>5. u * s \in Nat /\ q * s \in Nat
  BY <1>2, SMTT(30)
<1>6. u * s <= q * s
  BY <1>2, <1>4, SMTT(30)
<1>7. (nb - 1) * (u * s) <= (nb - 1) * (q * s) /\ (nb - 1) * (u * s) \in Nat /\ (nb - 1) * (q * s) \in Nat
  <2> DEFINE x == u * s
             y == q * s
             z == nb - 1
  <2>1. x \in Nat /\ y \in Nat /\ z \in Nat /\ x <= y
    BY <1>5, <1>6
  <2> HIDE DEF x, y, z
  <2>2. z * x <= z * y /\ z * x \in Nat /\ z * y \in Nat
    BY <2>1, SMTT(30)
  <2> QED BY <2>2 DEF x, y, z
<1>8. (nb - 1) * (u * s) < n
  BY <1>7
<1>9. n <= nb * (u * s)
  BY <1>2, <1>3
<1> QED BY <1>5, <1>8, <1>9 DEF u

(* What fit_iteration_kernel returns, for a loop that is not empty *)
LEMMA IterationFits ==
  ASSUME NEW n \in Nat \ {0}
  PROVE  LET dims == FitIterationKernel(n) IN
         /\ dims.num_blocks \in Nat \ {0} /\ dims.block_size \in Nat \ {0}
         /\ BlockStride(n, dims) \in Nat
         /\ (dims.num_blocks - 1) * BlockStride(n, dims) < n
         /\ n <= dims.num_blocks * BlockStride(n, dims)
<1> DEFINE Fits(nb, s) == \E q \in Nat : /\ nb \in Nat \ {0} /\ s \in Nat \ {0}
                                        /\ n <= nb * (q * s) /\ (nb - 1) * (q * s) < n
           iters == DivideUp(n, 128 * 256)
<1>1. ASSUME NEW s \in {32, 64}
      PROVE  Fits(DivideUp(n, s), s)
  <2> DEFINE nb == DivideUp(n, s)
  <2>1. nb \in Nat /\ n <= nb * s /\ nb * s < n + s
    BY DivideUpBounds
  <2> HIDE DEF nb
  <2>2. nb \in Nat \ {0} /\ n <= nb * (1 * s) /\ (nb - 1) * (1 * s) < n
    BY <2>1
  <2>3. s \in Nat \ {0}
    OBVIOUS
  <2> QED BY <2>2, <2>3 DEF nb
<1>2. Fits(DivideUp(n, iters * 128), 128)
  <2> DEFINE nb == DivideUp(n, iters * 128)
  <2>1. iters \in Nat /\ n <= iters * (128 * 256)
    BY DivideUpBounds
  <2>2. iters * 128 \in Nat \ {0}
    BY <2>1
  <2>3. nb \in Nat /\ n <= nb * (iters * 128) /\ nb * (iters * 128) < n + iters * 128
    <3> DEFINE k == iters * 128
    <3>1. k \in Nat \ {0} /\ n \in Nat
      BY <2>2
    <3> HIDE DEF k
    <3>2. DivideUp(n, k) \in Nat /\ n <= DivideUp(n, k) * k /\ DivideUp(n, k) * k < n + k
      BY <3>1, DivideUpBounds
    <3> QED BY <3>2 DEF k
  <2> HIDE DEF nb, iters
  <2> DEFINE m == iters * 128
  <2>4. nb # 0
    BY <2>2, <2>3, SMTT(30)
  <2>5. m \in Nat \ {0} /\ n <= nb * m /\ nb * m < n + m
    BY <2>2, <2>3
  <2> HIDE DEF m
  <2>6. (nb - 1) * m = nb * m - m
    BY <2>3, <2>5, SMTT(30)
  <2>7. nb * m \in Nat
    BY <2>3, <2>5, SMTT(30)
  <2>8. (nb - 1) * m < n
    BY <2>5, <2>6, <2>7
  <2> QED BY <2>1, <2>3, <2>4, <2>5, <2>8 DEF m, nb
<1> HIDE DEF Fits, iters
<1> DEFINE dims == FitIterationKernel(n)
<1>3. Fits(dims.num_blocks, dims.block_size)
  <2>1. CASE n <= 4
    <3>1. dims = Dims(n, 1)
      BY <2>1 DEF FitIterationKernel
    <3>2. Fits(n, 1)
      <4>1. n <= n * (1 * 1) /\ (n - 1) * (1 * 1) < n
        OBVIOUS
      <4> QED BY <4>1 DEF Fits
    <3> QED BY <3>1, <3>2 DEF Dims
  <2>2. CASE n > 4 /\ n <= 64
    <3>1. \E s \in {4, 8, 16, 32} : dims = Dims(2, s) /\ s < n /\ n <= 2 * s
      BY <2>2 DEF FitIterationKernel
    <3>2. PICK s \in {4, 8, 16, 32} : dims = Dims(2, s) /\ s < n /\ n <= 2 * s
      BY <3>1
    <3>3. Fits(2, s)
      <4>1. n <= 2 * (1 * s) /\ (2 - 1) * (1 * s) < n
        BY <3>2
      <4>2. s \in Nat \ {0}
        OBVIOUS
      <4> QED BY <4>1, <4>2 DEF Fits
    <3> QED BY <3>2, <3>3 DEF Dims
  <2>3. CASE n > 64 /\ n <= 32 * 32
    <3>1. dims = Dims(DivideUp(n, 32), 32)
      BY <2>3 DEF FitIterationKernel
    <3> QED BY <1>1, <3>1 DEF Dims
  <2>4. CASE n > 32 * 32 /\ n <= 128 * 64
    <3>1. dims = Dims(DivideUp(n, 64), 64)
      BY <2>4 DEF FitIterationKernel
    <3> QED BY <1>1, <3>1 DEF Dims
  <2>5. CASE n > 128 * 64
    <3>1. dims = Dims(DivideUp(n, iters * 128), 128)
      BY <2>5 DEF FitIterationKernel, iters
    <3> QED BY <1>2, <3>1 DEF Dims
  <2> QED BY <2>1, <2>2, <2>3, <2>4, <2>5
<1> HIDE DEF dims
<1>4. PICK q \in Nat : /\ dims.num_blocks \in Nat \ {0} /\ dims.block_size \in Nat \ {0}
                      /\ n <= dims.num_blocks * (q * dims.block_size)
                      /\ (dims.num_blocks - 1) * (q * dims.block_size) < n
  BY <1>3 DEF Fits
<1>5. /\ BlockStride(n, dims) \in Nat
      /\ (dims.num_blocks - 1) * BlockStride(n, dims) < n
      /\ n <= dims.num_blocks * BlockStride(n, dims)
  BY <1>4, LastBlockActive DEF BlockStride
<1> QED BY <1>4, <1>5 DEF dims

(* Every block of a loop has something to do, as for_each_kernel asserts   *)
(* it, and of its threads exactly one comes by any given index: f is       *)
(* called for it once.                                                     *)
THEOREM EachIndexOnce ==
  ASSUME NEW n \in Nat \ {0}
  PROVE  LET dims == FitIterationKernel(n) IN
         /\ EveryBlockActive(n, dims)
         /\ \A i \in 0 .. n - 1 :
              /\ \E b \in 0 .. dims.num_blocks - 1 : \E t \in 0 .. dims.block_size - 1 :
                   i \in ThreadIndexes(n, dims, b, t)
              /\ \A b, c \in 0 .. dims.num_blocks - 1 : \A t, u \in 0 .. dims.block_size - 1 :
                   i \in ThreadIndexes(n, dims, b, t) /\ i \in ThreadIndexes(n, dims, c, u)
                     => b = c /\ t = u
<1> DEFINE dims == FitIterationKernel(n)
           nb == dims.num_blocks
           s == dims.block_size
           k == BlockStride(n, dims)
<1>1. /\ nb \in Nat \ {0} /\ s \in Nat \ {0} /\ k \in Nat
      /\ (nb - 1) * k < n /\ n <= nb * k
  BY IterationFits
<1> HIDE DEF dims, nb, s, k
<1>2. k \in Nat \ {0}
  <2>1. CASE k = 0
    <3>1. nb * k = 0
      BY <1>1, <2>1
    <3> QED BY <1>1, <3>1
  <2> QED BY <1>1, <2>1
<1>3. ASSUME NEW b \in Nat
      PROVE  /\ b * k \in Nat
             /\ BlockIndexes(n, dims, b) = {i \in 0 .. n - 1 : b * k <= i /\ i < b * k + k}
  <2>1. b * k \in Nat
    BY <1>1, SMTT(30)
  <2>2. BlockIndexes(n, dims, b) = b * k .. AtMost(n, b * k + k) - 1
    BY DEF BlockIndexes, k
  <2> DEFINE first == b * k
  <2> HIDE DEF first
  <2>3. first .. AtMost(n, first + k) - 1 = {i \in 0 .. n - 1 : first <= i /\ i < first + k}
    BY <1>1, <2>1 DEF AtMost, first
  <2> QED BY <2>1, <2>2, <2>3 DEF first
<1>4. EveryBlockActive(n, dims)
  <2>1. SUFFICES ASSUME NEW b \in 0 .. nb - 1
                 PROVE  BlockIndexes(n, dims, b) # {}
    BY DEF EveryBlockActive, nb
  <2>2. b \in Nat
    BY <1>1
  <2>3. b * k <= (nb - 1) * k
    <3> DEFINE z == nb - 1
    <3>1. z \in Nat /\ b <= z
      BY <1>1
    <3> HIDE DEF z
    <3>2. b * k <= z * k
      BY <1>1, <2>2, <3>1, SMTT(30)
    <3> QED BY <3>2 DEF z
  <2>4. (nb - 1) * k \in Int
    BY <1>1, SMTT(30)
  <2>5. b * k \in BlockIndexes(n, dims, b)
    BY <1>1, <1>2, <1>3, <2>2, <2>3, <2>4
  <2> QED BY <2>5
<1>5. ASSUME NEW i \in 0 .. n - 1
      PROVE  \E b \in 0 .. nb - 1 : \E t \in 0 .. s - 1 : i \in ThreadIndexes(n, dims, b, t)
  <2> DEFINE b == i \div k
             r == i - b * k
             j == r \div s
             t == r - j * s
  <2>1. i \in Nat /\ i < n
    OBVIOUS
  <2>2. b \in Nat /\ r \in 0 .. k - 1
    BY <1>2, <2>1, Division
  <2> HIDE DEF b
  <2>3. b * k \in Nat
    BY <1>3, <2>2
  <2>4. j \in Nat /\ t \in 0 .. s - 1
    <3>1. r \in Nat
      BY <1>1, <2>2
    <3> HIDE DEF r
    <3> QED BY <1>1, <3>1, Division
  <2> HIDE DEF j
  <2>5. b < nb
    <3>1. CASE nb <= b
      <4>1. nb * k <= b * k
        BY <1>1, <2>2, <3>1, SMTT(30)
      <4>2. nb * k \in Nat
        BY <1>1, SMTT(30)
      <4> QED BY <1>1, <2>1, <2>2, <2>3, <4>1, <4>2
    <3> QED BY <1>1, <2>2, <3>1
  <2>6. i = b * k + r
    BY <2>1, <2>3
  <2>7. i \in BlockIndexes(n, dims, b)
    BY <1>2, <1>3, <2>1, <2>2, <2>3, <2>6
  <2> HIDE DEF r
  <2>8. j * s \in Nat
    BY <1>1, <2>4, SMTT(30)
  <2>9. r = t + j * s
    BY <2>2, <2>8
  <2> HIDE DEF t
  <2>10. i = b * k + t + j * s
    BY <2>2, <2>3, <2>4, <2>6, <2>8, <2>9
  <2>11. j <= j * s
    BY <1>1, <2>4, SMTT(30)
  <2>12. j \in 0 .. n
    BY <2>1, <2>3, <2>4, <2>8, <2>10, <2>11
  <2>13. i \in ThreadIndexes(n, dims, b, t)
    BY <2>7, <2>10, <2>12 DEF ThreadIndexes, k, s
  <2> QED BY <1>1, <2>2, <2>4, <2>5, <2>13
<1>6. ASSUME NEW i \in 0 .. n - 1, NEW b \in 0 .. nb - 1, NEW t \in 0 .. s - 1,
             i \in ThreadIndexes(n, dims, b, t)
      PROVE  \E j \in Nat : /\ t + j * s \in 0 .. k - 1
                            /\ i = b * k + (t + j * s)
  <2>1. PICK j \in 0 .. n : i = b * k + t + j * s
    BY <1>6 DEF ThreadIndexes, k, s
  <2>2. i \in BlockIndexes(n, dims, b)
    BY <1>6 DEF ThreadIndexes
  <2>3. b \in Nat /\ t \in Nat /\ j \in Nat
    BY <1>1
  <2>4. b * k \in Nat /\ b * k <= i /\ i < b * k + k
    BY <1>3, <2>2, <2>3
  <2>5. j * s \in Nat
    BY <1>1, <2>3, SMTT(30)
  <2>6. t + j * s \in 0 .. k - 1 /\ i = b * k + (t + j * s)
    BY <1>2, <2>1, <2>3, <2>4, <2>5
  <2> QED BY <2>3, <2>6
<1>7. ASSUME NEW i \in 0 .. n - 1, NEW b \in 0 .. nb - 1, NEW c \in 0 .. nb - 1,
             NEW t \in 0 .. s - 1, NEW u \in 0 .. s - 1,
             i \in ThreadIndexes(n, dims, b, t), i \in ThreadIndexes(n, dims, c, u)
      PROVE  b = c /\ t = u
  <2>1. PICK j \in Nat : t + j * s \in 0 .. k - 1 /\ i = b * k + (t + j * s)
    BY <1>6, <1>7
  <2>2. PICK l \in Nat : u + l * s \in 0 .. k - 1 /\ i = c * k + (u + l * s)
    BY <1>6, <1>7
  <2>3. b = c /\ t + j * s = u + l * s
    <3> DEFINE v == t + j * s
               w == u + l * s
    <3>1. b \in Int /\ c \in Int /\ b * k + v = c * k + w
      BY <1>1, <2>1, <2>2
    <3>2. v \in 0 .. k - 1 /\ w \in 0 .. k - 1
      BY <2>1, <2>2
    <3> HIDE DEF v, w
    <3>3. b = c /\ v = w
      BY <1>2, <3>1, <3>2, DivisionUnique
    <3> QED BY <3>3 DEF v, w
  <2>4. t = u
    <3>1. j * s \in Nat /\ l * s \in Nat
      BY <1>1, <2>1, <2>2, SMTT(30)
    <3>2. j * s + t = l * s + u
      BY <1>1, <2>3, <3>1
    <3>3. j \in Int /\ l \in Int
      BY <2>1, <2>2
    <3> QED BY <1>1, <3>2, <3>3, DivisionUnique
  <2> QED BY <2>3, <2>4
<1> QED BY <1>4, <1>5, <1>7 DEF dims, nb, s

-----------------------------------------------------------------------------
(* The threads of a block *)

(* A block of a grid that adds up, as fill_block_descriptors describes it: *)
(* no two summands have a term in common.                                  *)
GridOK ==
  LET d == Descriptor IN
  /\ kernel.kernel # "partial_sum"
  /\ d.n \in Nat \ {0} /\ d.dims = FitReductionKernel(d.n)
  /\ block - d.block_offset \in 0 .. d.dims.num_blocks - 1
  /\ \A i, j \in 0 .. d.n - 1 :
       i # j => kernel.data[d.index_first + i + 1] \cap kernel.data[d.index_first + j + 1] = {}

MemoryOK ==
  /\ shared = [c \in 0 .. 2 * BlockSize - 1 |-> shared[c]]
  /\ out = [cell \in DOMAIN out |-> out[cell]] /\ block + 1 \in DOMAIN out

(* As BeginBlock leaves it *)
BlockBegun == GridOK /\ MemoryOK /\ width = [t \in Threads |-> 2 * BlockSize]

(* What a thread is to add up by itself *)
ThreadTerms(t) ==
  LET d == Descriptor
  IN  UNION {kernel.data[d.index_first + i + 1] :
               i \in Visited(d.n, d.dims, block - d.block_offset, t)}

(* The threads whose sums are in the cell of thread t at width w *)
Residue(t, w) == {u \in Threads : \E j \in Nat : u = t + j * w}

Contents(t, w) == UNION {ThreadTerms(u) : u \in Residue(t, w)}

WidthsOK ==
  /\ width = [t \in Threads |-> width[t]]
  /\ \A t \in Threads :
       /\ width[t] \in Widths \cup {2 * BlockSize, Written}
       /\ width[t] < BlockSize /\ width[t] # Written => t < width[t]
       /\ width[t] = Written => t = 0

(* A thread that has reached width k has left all threads below 2 * k      *)
(* behind a barrier.                                                       *)
BarriersOK ==
  \A t \in Threads, k \in Widths :
    k < BlockSize /\ width[t] <= k => \A u \in 0 .. 2 * k - 1 : width[u] <= 2 * k

(* The cell of a thread that has loaded it and whose partner has not yet   *)
(* added it to its own                                                     *)
Live(c) ==
  /\ width[c] # Written /\ width[c] <= BlockSize
  /\ \A k \in Widths : k < BlockSize /\ k <= c /\ c < 2 * k => width[c - k] > k

CellsOK == \A c \in Threads : Live(c) => shared[c] = Contents(c, width[c])

(* The block has written the sum of its threads' summands.                 *)
BlockSummed == width[0] = Written => out[block + 1] = UNION {ThreadTerms(t) : t \in Threads}

BlockInv ==
  GridOK /\ MemoryOK /\ WidthsOK /\ BarriersOK /\ CellsOK /\ BlockSummed

(* The block's width is one of Widths, and every width above another is at *)
(* least twice as large                                                    *)
LEMMA WidthFacts ==
  ASSUME GridOK
  PROVE  /\ Descriptor.dims \in KernelDims
         /\ BlockSize \in Widths /\ BlockSize \in Nat \ {0}
         /\ Widths \subseteq Nat \ {0}
         /\ \A k \in Widths : k <= BlockSize
         /\ \A j, k \in Widths : j < k => 2 * j \in Widths /\ 2 * j <= k
         /\ Threads \subseteq Nat /\ 0 \in Threads
<1>1. Descriptor.dims \in KernelDims
  BY ReductionFits DEF GridOK
<1>2. BlockSize \in BlockSizes
  BY <1>1 DEF KernelDims, BlockSize
<1>3. BlockSizes \subseteq Nat \ {0}
      /\ \A j, k \in BlockSizes : j < k => 2 * j \in BlockSizes /\ 2 * j <= k
  BY FitAssumption DEF FitAssumption
<1>4. BlockSize \in Widths /\ BlockSize \in Nat \ {0}
  BY <1>2, <1>3 DEF Widths
<1>5. Widths \subseteq Nat \ {0} /\ \A k \in Widths : k <= BlockSize
  BY <1>3 DEF Widths
<1>6. ASSUME NEW j \in Widths, NEW k \in Widths, j < k
      PROVE  2 * j \in Widths /\ 2 * j <= k
  <2>1. 2 * j \in BlockSizes /\ 2 * j <= k
    BY <1>3, <1>6 DEF Widths
  <2>2. 2 * j <= BlockSize
    BY <1>4, <1>5, <2>1
  <2> QED BY <2>1, <2>2 DEF Widths
<1>7. Threads \subseteq Nat /\ 0 \in Threads
  BY <1>4 DEF Threads
<1> QED BY <1>1, <1>4, <1>5, <1>6, <1>7

(* The threads' terms are disjoint, and are what thread_reduce loads *)
LEMMA TermsFacts ==
  ASSUME GridOK
  PROVE  /\ \A t, u \in Threads : t # u => ThreadTerms(t) \cap ThreadTerms(u) = {}
         /\ \A t \in Threads :
              LET d == Descriptor
                  first == block - d.block_offset
              IN  /\ Normalized(d.n, d.dims, first, t)
                  /\ AllAdded(Visited(d.n, d.dims, first, t),
                              LAMBDA i : kernel.data[d.index_first + i + 1]) = ThreadTerms(t)
<1> DEFINE d == Descriptor
           first == block - d.block_offset
           seen(t) == Visited(d.n, d.dims, first, t)
           item(i) == kernel.data[d.index_first + i + 1]
<1>1. d.dims \in KernelDims /\ d.n \in Nat \ {0} /\ first \in 0 .. d.dims.num_blocks - 1
  BY WidthFacts DEF GridOK
<1>2. \A i, j \in 0 .. d.n - 1 : i # j => item(i) \cap item(j) = {}
  BY DEF GridOK
<1>3. \A t \in Threads : seen(t) \subseteq 0 .. d.n - 1
  BY DEF Visited
<1>4. \A t \in Threads : ThreadTerms(t) = UNION {item(i) : i \in seen(t)}
  BY DEF ThreadTerms
<1>5. Threads = 0 .. d.dims.block_size - 1
  BY DEF Threads, BlockSize
<1>6. \A t \in Threads : Normalized(d.n, d.dims, first, t)
  BY <1>1, <1>5, ReductionFits DEF GridOK
<1>7. ASSUME NEW t \in Threads, NEW u \in Threads, t # u
      PROVE  seen(t) \cap seen(u) = {}
  <2>1. SUFFICES ASSUME NEW i \in seen(t), i \in seen(u) PROVE FALSE
    OBVIOUS
  <2>2. i \in 0 .. d.n - 1
    BY <1>3
  <2>3. d.n \in Nat
    BY <1>1
  <2> HIDE DEF d, first
  <2> QED BY <1>1, <1>5, <1>7, <2>1, <2>2, <2>3, VisitedOnce
<1> HIDE DEF d, first, item, seen
<1>8. ASSUME NEW t \in Threads, NEW u \in Threads, t # u
      PROVE  ThreadTerms(t) \cap ThreadTerms(u) = {}
  <2>1. SUFFICES ASSUME NEW x, x \in ThreadTerms(t), x \in ThreadTerms(u) PROVE FALSE
    OBVIOUS
  <2>2. PICK i \in seen(t) : x \in item(i)
    BY <1>4, <2>1
  <2>3. PICK j \in seen(u) : x \in item(j)
    BY <1>4, <2>1
  <2>4. i # j
    BY <1>7, <1>8
  <2> QED BY <1>2, <1>3, <2>2, <2>3, <2>4
<1>9. ASSUME NEW t \in Threads
      PROVE  AllAdded(seen(t), item) = ThreadTerms(t)
  <2>1. \A i, j \in seen(t) : i # j => item(i) \cap item(j) = {}
    BY <1>2, <1>3
  <2> QED BY <1>4, <2>1 DEF AllAdded
<1> QED BY <1>6, <1>8, <1>9 DEF d, first, item, seen

(* The threads congruent to t modulo k are those modulo 2k, and those of   *)
(* the thread that is k further on                                         *)
LEMMA ResidueFacts ==
  ASSUME GridOK
  PROVE  /\ Residue(0, 1) = Threads
         /\ \A t \in Threads : Residue(t, BlockSize) = {t}
         /\ \A k \in Nat \ {0}, t \in Threads :
              /\ Residue(t, k) = Residue(t, 2 * k) \cup Residue(t + k, 2 * k)
              /\ Residue(t, 2 * k) \cap Residue(t + k, 2 * k) = {}
<1>1. BlockSize \in Nat \ {0} /\ Threads = 0 .. BlockSize - 1
  BY WidthFacts DEF Threads
<1>2. Residue(0, 1) = Threads
  <2>1. ASSUME NEW u \in Threads
        PROVE  u \in Nat /\ u = 0 + u * 1
    BY <1>1
  <2> QED BY <2>1 DEF Residue
<1>3. ASSUME NEW t \in Threads
      PROVE  Residue(t, BlockSize) = {t}
  <2>1. ASSUME NEW u \in Threads, NEW j \in Nat, u = t + j * BlockSize
        PROVE  u = t
    <3>1. CASE j = 0
      BY <1>1, <2>1, <3>1
    <3>2. CASE j >= 1
      <4>1. j * BlockSize >= BlockSize /\ j * BlockSize \in Nat
        BY <1>1, <3>2, SMTT(30)
      <4> QED BY <1>1, <2>1, <4>1
    <3> QED BY <3>1, <3>2
  <2>2. t = t + 0 * BlockSize
    BY <1>1
  <2> QED BY <2>1, <2>2 DEF Residue
<1>4. ASSUME NEW k \in Nat \ {0}, NEW t \in Threads
      PROVE  /\ Residue(t, k) = Residue(t, 2 * k) \cup Residue(t + k, 2 * k)
             /\ Residue(t, 2 * k) \cap Residue(t + k, 2 * k) = {}
  <2>0. t \in Nat
    BY <1>1
  <2>1. ASSUME NEW u \in Residue(t, k)
        PROVE  u \in Residue(t, 2 * k) \/ u \in Residue(t + k, 2 * k)
    <3>1. PICK j \in Nat : u = t + j * k
      BY DEF Residue
    <3>2. PICK i \in Nat : j = 2 * i \/ j = 2 * i + 1
      <4>1. j \div 2 \in Nat /\ (j = 2 * (j \div 2) \/ j = 2 * (j \div 2) + 1)
        OBVIOUS
      <4> QED BY <4>1
    <3>3. CASE j = 2 * i
      <4>1. (2 * i) * k = i * (2 * k)
        BY SMTT(30)
      <4>2. u \in Threads /\ u = t + i * (2 * k)
        BY <3>1, <3>3, <4>1 DEF Residue
      <4> QED BY <4>2 DEF Residue
    <3>4. CASE j = 2 * i + 1
      <4>1. j * k = k + i * (2 * k) /\ i * (2 * k) \in Nat
        BY <3>4, SMTT(30)
      <4>2. u = (t + k) + i * (2 * k)
        BY <2>0, <3>1, <4>1
      <4> QED BY <4>2 DEF Residue
    <3> QED BY <3>2, <3>3, <3>4
  <2>2. ASSUME NEW u \in Residue(t, 2 * k)
        PROVE  u \in Residue(t, k)
    <3>1. PICK i \in Nat : u = t + i * (2 * k)
      BY DEF Residue
    <3>2. (2 * i) * k = i * (2 * k) /\ 2 * i \in Nat
      BY SMTT(30)
    <3>3. u \in Threads /\ u = t + (2 * i) * k
      BY <3>1, <3>2 DEF Residue
    <3> QED BY <3>2, <3>3 DEF Residue
  <2>3. ASSUME NEW u \in Residue(t + k, 2 * k)
        PROVE  u \in Residue(t, k)
    <3>1. PICK i \in Nat : u = (t + k) + i * (2 * k)
      BY DEF Residue
    <3>2. (2 * i + 1) * k = k + i * (2 * k) /\ 2 * i + 1 \in Nat /\ i * (2 * k) \in Nat
      BY SMTT(30)
    <3>3. u \in Threads /\ u = t + (2 * i + 1) * k
      BY <2>0, <3>1, <3>2 DEF Residue
    <3> QED BY <3>2, <3>3 DEF Residue
  <2>4. ASSUME NEW u \in Residue(t, 2 * k), u \in Residue(t + k, 2 * k)
        PROVE  FALSE
    <3>1. PICK i \in Nat : u = t + i * (2 * k)
      BY DEF Residue
    <3>2. PICK j \in Nat : u = (t + k) + j * (2 * k)
      BY <2>4 DEF Residue
    <3>3. i * (2 * k) \in Nat /\ j * (2 * k) \in Nat
      BY SMTT(30)
    <3>4. i * (2 * k) + 0 = j * (2 * k) + k
      <4> DEFINE x == i * (2 * k)
                 y == j * (2 * k)
      <4>1. x \in Nat /\ y \in Nat /\ u = t + x /\ u = (t + k) + y
        BY <3>1, <3>2, <3>3
      <4> HIDE DEF x, y
      <4>2. x + 0 = y + k
        BY <2>0, <4>1
      <4> QED BY <4>2 DEF x, y
    <3>5. 2 * k \in Nat \ {0} /\ 0 \in 0 .. 2 * k - 1 /\ k \in 0 .. 2 * k - 1 /\ i \in Int /\ j \in Int
      OBVIOUS
    <3>6. 0 = k
      BY <3>4, <3>5, DivisionUnique
    <3> QED BY <3>6
  <2> QED BY <2>1, <2>2, <2>3, <2>4
<1> QED BY <1>2, <1>3, <1>4

(* Nothing of a grid depends on what its threads change *)
LEMMA SameGrid ==
  ASSUME UNCHANGED <<kernel, block>>
  PROVE  /\ BlockSize' = BlockSize /\ Threads' = Threads /\ Widths' = Widths
         /\ GridOK' <=> GridOK
         /\ \A t : ThreadTerms(t)' = ThreadTerms(t)
         /\ \A t, w : Contents(t, w)' = Contents(t, w)
<1>1. Descriptor' = Descriptor
  BY DEF Descriptor
<1>2. BlockSize' = BlockSize
  BY <1>1 DEF BlockSize
<1>3. Threads' = Threads /\ Widths' = Widths
  BY <1>2 DEF Threads, Widths
<1>4. GridOK' <=> GridOK
  BY <1>1 DEF GridOK
<1>5. \A t : ThreadTerms(t)' = ThreadTerms(t)
  BY <1>1 DEF ThreadTerms
<1>6. \A t, w : Contents(t, w)' = Contents(t, w)
  <2>1. \A t, w : Residue(t, w)' = Residue(t, w)
    BY <1>3 DEF Residue
  <2> QED BY <1>5, <2>1 DEF Contents
<1> QED BY <1>2, <1>3, <1>4, <1>5, <1>6

(* A block begins with the invariant. *)
LEMMA BlockBegins ==
  ASSUME BlockBegun
  PROVE  BlockInv
<1>1. GridOK /\ MemoryOK /\ width = [t \in Threads |-> 2 * BlockSize]
  BY DEF BlockBegun
<1>2. BlockSize \in Nat \ {0} /\ Widths \subseteq Nat \ {0} /\ 0 \in Threads
  BY <1>1, WidthFacts
<1>3. \A t \in Threads : width[t] = 2 * BlockSize
  BY <1>1
<1>4. WidthsOK
  BY <1>1, <1>2, <1>3 DEF WidthsOK, Written
<1>5. BarriersOK
  BY <1>2, <1>3 DEF BarriersOK
<1>6. CellsOK
  BY <1>2, <1>3 DEF CellsOK, Live
<1>7. BlockSummed
  BY <1>2, <1>3 DEF BlockSummed, Written
<1> QED BY <1>1, <1>4, <1>5, <1>6, <1>7 DEF BlockInv

(* Load keeps the block's invariant. *)
LEMMA LoadKeepsBlock ==
  ASSUME BlockInv, NEW t \in Threads, Load(t)
  PROVE  BlockInv'
<1>1. GridOK /\ MemoryOK /\ WidthsOK /\ BarriersOK /\ CellsOK /\ BlockSummed
  BY DEF BlockInv
<1>2. /\ BlockSize \in Nat \ {0} /\ Widths \subseteq Nat \ {0} /\ 0 \in Threads
      /\ BlockSize \in Widths /\ Threads \subseteq Nat /\ Threads = 0 .. BlockSize - 1
      /\ \A k \in Widths : k <= BlockSize
  BY <1>1, WidthFacts DEF Threads
<1>3. UNCHANGED <<kernel, block, out>> /\ width[t] = 2 * BlockSize
      /\ width' = [width EXCEPT ![t] = BlockSize]
  BY DEF Load
<1>4. /\ BlockSize' = BlockSize /\ Threads' = Threads /\ Widths' = Widths /\ GridOK'
      /\ \A u : ThreadTerms(u)' = ThreadTerms(u)
      /\ \A u, w : Contents(u, w)' = Contents(u, w)
  BY <1>1, <1>3, SameGrid
<1>5. /\ shared' = [c \in 0 .. 2 * BlockSize - 1 |-> shared'[c]]
      /\ shared'[t] = ThreadTerms(t)
      /\ \A c \in Threads : c # t => shared'[c] = shared[c]
  <2> DEFINE d == Descriptor
             first == block - d.block_offset
             sum == AllAdded(Visited(d.n, d.dims, first, t),
                             LAMBDA i : kernel.data[d.index_first + i + 1])
             own == IF Normalized(d.n, d.dims, first, t) THEN sum ELSE Spoiled
  <2>1. shared' = [shared EXCEPT ![t] = own, ![t + BlockSize] = Spoiled]
    BY DEF Load
  <2>2. own = ThreadTerms(t)
    BY <1>1, TermsFacts
  <2> HIDE DEF own
  <2>3. shared = [c \in 0 .. 2 * BlockSize - 1 |-> shared[c]]
    BY <1>1 DEF MemoryOK
  <2>4. t \in 0 .. 2 * BlockSize - 1 /\ t + BlockSize \in 0 .. 2 * BlockSize - 1
        /\ t # t + BlockSize
        /\ \A c \in Threads : c \in 0 .. 2 * BlockSize - 1 /\ c # t + BlockSize
    BY <1>2
  <2> QED BY <2>1, <2>2, <2>3, <2>4
<1>6. width' = [u \in Threads |-> width'[u]] /\ width'[t] = BlockSize
      /\ \A u \in Threads : u # t => width'[u] = width[u]
  BY <1>1, <1>3 DEF WidthsOK
<1>7. MemoryOK'
  <2>1. shared' = [c \in 0 .. 2 * BlockSize' - 1 |-> shared'[c]]
    BY <1>4, <1>5
  <2>2. out' = [cell \in DOMAIN out' |-> out'[cell]] /\ block' + 1 \in DOMAIN out'
    BY <1>1, <1>3 DEF MemoryOK
  <2> QED BY <2>1, <2>2 DEF MemoryOK
<1>8. WidthsOK'
  BY <1>1, <1>2, <1>4, <1>6 DEF WidthsOK, Written
<1>9. BarriersOK'
  <2>1. SUFFICES ASSUME NEW u \in Threads, NEW k \in Widths, k < BlockSize, width'[u] <= k,
                        NEW v \in 0 .. 2 * k - 1
                 PROVE  width'[v] <= 2 * k
    BY <1>4 DEF BarriersOK
  <2>2. u # t
    BY <1>2, <1>6, <2>1
  <2>3. width[v] <= 2 * k
    BY <1>1, <1>6, <2>1, <2>2 DEF BarriersOK
  <2>4. v # t
    <3>1. k \in Nat /\ 2 * k < 2 * BlockSize
      BY <1>2, <2>1
    <3> QED BY <1>2, <1>3, <2>3, <3>1
  <2>5. v \in Threads
    <3>1. 2 * k <= BlockSize
      BY <1>1, <1>2, <2>1, WidthFacts
    <3>2. k \in Nat
      BY <1>2
    <3> QED BY <1>2, <3>1, <3>2
  <2> QED BY <1>6, <2>3, <2>4, <2>5
<1>10. CellsOK'
  <2>1. SUFFICES ASSUME NEW c \in Threads, Live(c)'
                 PROVE  shared'[c] = Contents(c, width'[c])
    BY <1>4 DEF CellsOK
  <2>2. CASE c = t
    <3>1. Contents(t, BlockSize) = ThreadTerms(t)
      BY <1>1, ResidueFacts DEF Contents
    <3> QED BY <1>5, <1>6, <2>2, <3>1
  <2>3. CASE c # t
    <3>1. width'[c] = width[c] /\ width[c] # Written /\ width[c] <= BlockSize
      BY <1>4, <1>6, <2>1, <2>3 DEF Live
    <3>2. ASSUME NEW k \in Widths, k < BlockSize, k <= c, c < 2 * k
          PROVE  width[c - k] > k
      <4>1. width'[c - k] > k
        BY <1>4, <2>1, <3>2 DEF Live
      <4>2. c - k \in Threads
        BY <1>2, <3>2
      <4>3. k \in Nat
        BY <1>2
      <4> QED BY <1>2, <1>3, <1>6, <3>2, <4>1, <4>2, <4>3
    <3>3. Live(c)
      BY <3>1, <3>2 DEF Live
    <3> QED BY <1>1, <1>5, <2>3, <3>1, <3>3 DEF CellsOK
  <2> QED BY <2>2, <2>3
<1>11. BlockSummed'
  <2>1. width'[0] = Written => width[0] = Written
    BY <1>2, <1>6 DEF Written
  <2> QED BY <1>1, <1>3, <1>4, <2>1 DEF BlockSummed, Written
<1> QED BY <1>4, <1>7, <1>8, <1>9, <1>10, <1>11 DEF BlockInv

(* Accumulate keeps the block's invariant. *)
LEMMA AccumulateKeepsBlock ==
  ASSUME BlockInv, NEW t \in Threads, NEW k \in Widths, Accumulate(t, k)
  PROVE  BlockInv'
<1>1. GridOK /\ MemoryOK /\ WidthsOK /\ BarriersOK /\ CellsOK /\ BlockSummed
  BY DEF BlockInv
<1>2. /\ BlockSize \in Nat \ {0} /\ Widths \subseteq Nat \ {0} /\ 0 \in Threads
      /\ BlockSize \in Widths /\ Threads \subseteq Nat /\ Threads = 0 .. BlockSize - 1
      /\ \A w \in Widths : w <= BlockSize
      /\ \A j, w \in Widths : j < w => 2 * j \in Widths /\ 2 * j <= w
  BY <1>1, WidthFacts DEF Threads
<1>3. /\ UNCHANGED <<kernel, block, out>> /\ width[t] = 2 * k
      /\ k < BlockSize /\ t < k /\ BarrierPassed(k)
      /\ shared' = [shared EXCEPT ![t] = Added(@, shared[t + k]), ![t + k] = Spoiled]
      /\ width' = [width EXCEPT ![t] = k]
  BY DEF Accumulate, Active
<1>4. /\ BlockSize' = BlockSize /\ Threads' = Threads /\ Widths' = Widths /\ GridOK'
      /\ \A u : ThreadTerms(u)' = ThreadTerms(u)
      /\ \A u, w : Contents(u, w)' = Contents(u, w)
  BY <1>1, <1>3, SameGrid
<1>5. k \in Nat \ {0} /\ 2 * k \in Widths /\ 2 * k <= BlockSize /\ t \in Nat /\ t + k \in Threads
  BY <1>2, <1>3
(* Nobody that takes part in this width is still at an earlier one. *)
<1>6. ASSUME NEW u \in 0 .. 2 * k - 1
      PROVE  u \in Threads /\ width[u] <= 2 * k
  <2>1. u \in Threads /\ u \in Nat /\ u < 2 * k
    BY <1>2, <1>5
  <2>2. u \in Participants(k)
    <3>1. Warp \in Nat
      BY FitAssumption DEF FitAssumption
    <3> QED BY <1>2, <1>5, <2>1, <3>1 DEF Participants, AtMost
  <2>3. Arrived(u, k)
    BY <1>3, <2>2 DEF BarrierPassed
  <2> QED BY <1>5, <2>1, <2>3 DEF Arrived, Active
<1>7. width[t + k] = 2 * k
  <2> DEFINE w == width[t + k]
  <2>1. w <= 2 * k
    BY <1>3, <1>5, <1>6
  <2>2. /\ w \in Widths \/ w = 2 * BlockSize \/ w = 0
        /\ w < BlockSize /\ w # 0 => t + k < w
        /\ w = 0 => t + k = 0
    BY <1>1, <1>5 DEF WidthsOK, Written
  <2>3. k < BlockSize
    BY <1>3
  <2> HIDE DEF w
  <2>4. w \in Widths
    <3>1. w # 0
      BY <1>5, <2>2
    <3>2. w # 2 * BlockSize
      BY <1>2, <1>5, <2>1, <2>3
    <3> QED BY <2>2, <3>1, <3>2
  <2>5. w \in Nat \ {0}
    BY <1>2, <2>4
  <2>6. 2 * k <= w
    <3>1. CASE w < BlockSize
      <4>1. k < w
        BY <1>5, <2>2, <2>5, <3>1
      <4> QED BY <1>2, <2>4, <4>1
    <3>2. CASE w >= BlockSize
      BY <1>2, <1>5, <2>5, <3>2
    <3> QED BY <1>2, <2>5, <3>1, <3>2
  <2>7. w = 2 * k
    BY <1>5, <2>1, <2>5, <2>6
  <2> QED BY <2>7 DEF w
<1>8. Live(t)
  <2>1. ASSUME NEW j \in Widths, j < BlockSize, j <= t, t < 2 * j
        PROVE  width[t - j] > j
    <3>1. j \in Nat \ {0} /\ j < k
      BY <1>2, <1>3, <1>5, <2>1
    <3>2. 2 * j <= k
      BY <1>2, <3>1
    <3>3. t - j \in Threads
      BY <1>2, <2>1, <3>1
    <3>4. ASSUME width[t - j] <= j PROVE FALSE
      <4>1. width[t] <= 2 * j
        BY <1>1, <1>5, <2>1, <3>1, <3>3, <3>4 DEF BarriersOK
      <4> QED BY <1>3, <1>5, <3>1, <3>2, <4>1
    <3>5. width[t - j] \in Nat
      BY <1>1, <1>2, <3>3 DEF WidthsOK, Written
    <3> QED BY <3>1, <3>4, <3>5
  <2> QED BY <1>3, <1>5, <2>1 DEF Live, Written
<1>9. Live(t + k)
  <2>1. ASSUME NEW j \in Widths, j < BlockSize, j <= t + k, t + k < 2 * j
        PROVE  width[t + k - j] > j
    <3>1. j \in Nat \ {0}
      BY <1>2
    <3>2. j = k
      <4>1. CASE j < k
        <5>1. 2 * j <= k
          BY <1>2, <4>1
        <5> QED BY <1>5, <2>1, <3>1, <5>1
      <4>2. CASE k < j
        <5>1. 2 * k <= j
          BY <1>2, <4>2
        <5> QED BY <1>3, <1>5, <2>1, <3>1, <5>1
      <4> QED BY <1>5, <3>1, <4>1, <4>2
    <3>3. t + k - j = t
      BY <1>5, <3>2
    <3> QED BY <1>3, <1>5, <3>2, <3>3
  <2> QED BY <1>5, <1>7, <2>1 DEF Live, Written
<1>10. shared[t] = Contents(t, 2 * k) /\ shared[t + k] = Contents(t + k, 2 * k)
  <2>1. shared[t] = Contents(t, width[t])
    BY <1>1, <1>8 DEF CellsOK
  <2>2. shared[t + k] = Contents(t + k, width[t + k])
    BY <1>1, <1>5, <1>9 DEF CellsOK
  <2> QED BY <1>3, <1>7, <2>1, <2>2
<1>11. Added(shared[t], shared[t + k]) = Contents(t, k)
  <2>1. /\ Residue(t, k) = Residue(t, 2 * k) \cup Residue(t + k, 2 * k)
        /\ Residue(t, 2 * k) \cap Residue(t + k, 2 * k) = {}
    BY <1>1, <1>5, ResidueFacts
  <2>2. Contents(t, k) = Contents(t, 2 * k) \cup Contents(t + k, 2 * k)
    BY <2>1 DEF Contents
  <2>3. Contents(t, 2 * k) \cap Contents(t + k, 2 * k) = {}
    <3>1. SUFFICES ASSUME NEW x, x \in Contents(t, 2 * k), x \in Contents(t + k, 2 * k)
                   PROVE  FALSE
      OBVIOUS
    <3>2. PICK u \in Residue(t, 2 * k) : x \in ThreadTerms(u)
      BY <3>1 DEF Contents
    <3>3. PICK v \in Residue(t + k, 2 * k) : x \in ThreadTerms(v)
      BY <3>1 DEF Contents
    <3>4. u # v /\ u \in Threads /\ v \in Threads
      BY <2>1 DEF Residue
    <3> QED BY <1>1, <3>2, <3>3, <3>4, TermsFacts
  <2> QED BY <1>10, <2>2, <2>3 DEF Added
<1>12. /\ shared' = [c \in 0 .. 2 * BlockSize - 1 |-> shared'[c]]
       /\ shared'[t] = Contents(t, k)
       /\ \A c \in Threads : c # t /\ c # t + k => shared'[c] = shared[c]
  <2>1. shared = [c \in 0 .. 2 * BlockSize - 1 |-> shared[c]]
    BY <1>1 DEF MemoryOK
  <2>2. /\ t \in 0 .. 2 * BlockSize - 1 /\ t + k \in 0 .. 2 * BlockSize - 1 /\ t # t + k
        /\ \A c \in Threads : c \in 0 .. 2 * BlockSize - 1
    BY <1>2, <1>5
  <2> DEFINE sum == Added(shared[t], shared[t + k])
  <2>3. shared' = [shared EXCEPT ![t] = sum, ![t + k] = Spoiled]
    BY <1>3
  <2>4. sum = Contents(t, k)
    BY <1>11
  <2> HIDE DEF sum
  <2> QED BY <2>1, <2>2, <2>3, <2>4
<1>13. width' = [u \in Threads |-> width'[u]] /\ width'[t] = k
       /\ \A u \in Threads : u # t => width'[u] = width[u]
  BY <1>1, <1>3 DEF WidthsOK
<1>14. \A u \in Threads : width'[u] \in Nat /\ width[u] \in Nat /\ width'[u] <= width[u]
  <2>1. \A u \in Threads : width[u] \in Nat
    BY <1>1, <1>2 DEF WidthsOK, Written
  <2> QED BY <1>3, <1>5, <1>13, <2>1
<1>15. MemoryOK'
  <2>1. shared' = [c \in 0 .. 2 * BlockSize' - 1 |-> shared'[c]]
    BY <1>4, <1>12
  <2>2. out' = [cell \in DOMAIN out' |-> out'[cell]] /\ block' + 1 \in DOMAIN out'
    BY <1>1, <1>3 DEF MemoryOK
  <2> QED BY <2>1, <2>2 DEF MemoryOK
<1>16. WidthsOK'
  BY <1>1, <1>2, <1>3, <1>4, <1>5, <1>13 DEF WidthsOK, Written
<1>17. BarriersOK'
  <2>1. SUFFICES ASSUME NEW u \in Threads, NEW j \in Widths, j < BlockSize, width'[u] <= j,
                        NEW v \in 0 .. 2 * j - 1
                 PROVE  width'[v] <= 2 * j
    BY <1>4 DEF BarriersOK
  <2>2. j \in Nat \ {0} /\ 2 * j <= BlockSize /\ v \in Threads
    BY <1>2, <2>1
  <2>3. width[v] <= 2 * j
    <3>1. CASE width[u] <= j
      BY <1>1, <2>1, <3>1 DEF BarriersOK
    <3>2. CASE u = t /\ j = k
      BY <1>6, <3>2
    <3>3. CASE u = t /\ k < j
      <4>1. 2 * k <= j
        BY <1>2, <3>3
      <4> QED BY <1>1, <1>3, <2>1, <3>3, <4>1 DEF BarriersOK
    <3>4. u = t => k <= j
      BY <1>13, <2>1
    <3> QED BY <1>5, <1>13, <2>1, <2>2, <3>1, <3>2, <3>3, <3>4
  <2> QED BY <1>14, <2>2, <2>3
<1>18. CellsOK'
  <2>1. SUFFICES ASSUME NEW c \in Threads, Live(c)'
                 PROVE  shared'[c] = Contents(c, width'[c])
    BY <1>4 DEF CellsOK
  <2>2. CASE c = t
    BY <1>12, <1>13, <2>2
  <2>3. CASE c = t + k
    <3>1. k <= c /\ c < 2 * k /\ c - k = t
      BY <1>3, <1>5, <2>3
    <3>2. width'[c - k] > k
      BY <1>3, <1>4, <2>1, <3>1 DEF Live
    <3> QED BY <1>5, <1>13, <3>1, <3>2
  <2>4. CASE c # t /\ c # t + k
    <3>1. width'[c] = width[c] /\ width[c] # Written /\ width[c] <= BlockSize
      BY <1>4, <1>13, <2>1, <2>4 DEF Live
    <3>2. ASSUME NEW j \in Widths, j < BlockSize, j <= c, c < 2 * j
          PROVE  width[c - j] > j
      <4>1. width'[c - j] > j
        BY <1>4, <2>1, <3>2 DEF Live
      <4>2. c - j \in Threads /\ j \in Nat
        BY <1>2, <3>2
      <4> QED BY <1>14, <4>1, <4>2
    <3>3. Live(c)
      BY <3>1, <3>2 DEF Live
    <3> QED BY <1>1, <1>12, <2>4, <3>1, <3>3 DEF CellsOK
  <2> QED BY <2>2, <2>3, <2>4
<1>19. BlockSummed'
  <2>1. width'[0] = Written => width[0] = Written
    BY <1>2, <1>5, <1>13 DEF Written
  <2> QED BY <1>1, <1>3, <1>4, <2>1 DEF BlockSummed, Written
<1> QED BY <1>4, <1>15, <1>16, <1>17, <1>18, <1>19 DEF BlockInv

(* WriteSum keeps the block's invariant. *)
LEMMA WriteSumKeepsBlock ==
  ASSUME BlockInv, WriteSum
  PROVE  BlockInv'
<1>1. GridOK /\ MemoryOK /\ WidthsOK /\ BarriersOK /\ CellsOK /\ BlockSummed
  BY DEF BlockInv
<1>2. /\ BlockSize \in Nat \ {0} /\ Widths \subseteq Nat \ {0} /\ 0 \in Threads
      /\ Threads \subseteq Nat /\ \A w \in Widths : w <= BlockSize
      /\ \A j, w \in Widths : j < w => 2 * j \in Widths /\ 2 * j <= w
      /\ Threads = 0 .. BlockSize - 1
  BY <1>1, WidthFacts DEF Threads
<1>3. /\ UNCHANGED <<kernel, block, shared>> /\ width[0] = 1
      /\ out' = [out EXCEPT ![block + 1] = shared[0]]
      /\ width' = [width EXCEPT ![0] = Written]
  BY DEF WriteSum, Reduced, Active
<1>4. /\ BlockSize' = BlockSize /\ Threads' = Threads /\ Widths' = Widths /\ GridOK'
      /\ \A u : ThreadTerms(u)' = ThreadTerms(u)
      /\ \A u, w : Contents(u, w)' = Contents(u, w)
  BY <1>1, <1>3, SameGrid
<1>5. width' = [u \in Threads |-> width'[u]] /\ width'[0] = Written
      /\ \A u \in Threads : u # 0 => width'[u] = width[u]
  BY <1>1, <1>2, <1>3 DEF WidthsOK
<1>6. \A u \in Threads : width'[u] \in Nat /\ width[u] \in Nat /\ width'[u] <= width[u]
  <2>1. \A u \in Threads : width[u] \in Nat
    BY <1>1, <1>2 DEF WidthsOK, Written
  <2> QED BY <1>3, <1>5, <2>1 DEF Written
<1>7. MemoryOK'
  <2>1. shared' = [c \in 0 .. 2 * BlockSize' - 1 |-> shared'[c]]
    BY <1>1, <1>3, <1>4 DEF MemoryOK
  <2>2. out' = [cell \in DOMAIN out' |-> out'[cell]] /\ block' + 1 \in DOMAIN out'
    BY <1>1, <1>3 DEF MemoryOK
  <2> QED BY <2>1, <2>2 DEF MemoryOK
<1>8. WidthsOK'
  BY <1>1, <1>2, <1>4, <1>5 DEF WidthsOK, Written
<1>9. BarriersOK'
  <2>1. SUFFICES ASSUME NEW u \in Threads, NEW j \in Widths, j < BlockSize, width'[u] <= j,
                        NEW v \in 0 .. 2 * j - 1
                 PROVE  width'[v] <= 2 * j
    BY <1>4 DEF BarriersOK
  <2>2. j \in Nat \ {0} /\ 2 * j <= BlockSize /\ v \in Threads
    BY <1>2, <1>1, <2>1, WidthFacts
  <2>3. width[u] <= j
    BY <1>3, <1>5, <2>1, <2>2
  <2>4. width[v] <= 2 * j
    BY <1>1, <2>1, <2>3 DEF BarriersOK
  <2> QED BY <1>6, <2>2, <2>4
<1>10. CellsOK'
  <2>1. SUFFICES ASSUME NEW c \in Threads, Live(c)'
                 PROVE  shared'[c] = Contents(c, width'[c])
    BY <1>4 DEF CellsOK
  <2>2. c # 0
    BY <1>5, <2>1 DEF Live, Written
  <2>3. width'[c] = width[c] /\ width[c] # Written /\ width[c] <= BlockSize
    BY <1>4, <1>5, <2>1, <2>2 DEF Live, Written
  <2>4. ASSUME NEW j \in Widths, j < BlockSize, j <= c, c < 2 * j
        PROVE  width[c - j] > j
    <3>1. width'[c - j] > j
      BY <1>4, <2>1, <2>4 DEF Live
    <3>2. c - j \in Threads /\ j \in Nat
      BY <1>2, <2>4
    <3> QED BY <1>6, <3>1, <3>2
  <2>5. Live(c)
    BY <2>3, <2>4 DEF Live
  <2> QED BY <1>1, <1>3, <2>3, <2>5 DEF CellsOK
<1>11. BlockSummed'
  <2>1. Live(0)
    <3>1. \A j \in Widths : ~ (j <= 0)
      BY <1>2
    <3> QED BY <1>2, <1>3, <3>1 DEF Live, Written
  <2>2. shared[0] = Contents(0, 1)
    BY <1>1, <1>2, <1>3, <2>1 DEF CellsOK
  <2>3. Contents(0, 1) = UNION {ThreadTerms(u) : u \in Threads}
    BY <1>1, ResidueFacts DEF Contents
  <2>4. out'[block + 1] = shared[0]
    BY <1>1, <1>3 DEF MemoryOK
  <2>5. out'[block' + 1] = UNION {ThreadTerms(u) : u \in Threads}
    BY <1>3, <2>2, <2>3, <2>4
  <2>6. UNION {ThreadTerms(u) : u \in Threads} = UNION {ThreadTerms(u)' : u \in Threads'}
    BY <1>4
  <2> QED BY <2>5, <2>6 DEF BlockSummed
<1> QED BY <1>4, <1>7, <1>8, <1>9, <1>10, <1>11 DEF BlockInv

(* Every step of a thread keeps what is known of the block. *)
LEMMA ThreadStepKeepsBlock ==
  ASSUME BlockInv, [ThreadStep]_reductionVars
  PROVE  BlockInv'
<1>1. CASE \E t \in Threads : Load(t)
  BY <1>1, LoadKeepsBlock
<1>2. CASE \E t \in Threads, k \in Widths : Accumulate(t, k)
  BY <1>2, AccumulateKeepsBlock
<1>3. CASE WriteSum
  BY <1>3, WriteSumKeepsBlock
<1>4. CASE \E t \in Threads : WriteCoefficients(t)
  BY <1>4 DEF WriteCoefficients, BlockInv, GridOK
<1>5. CASE UNCHANGED reductionVars
  <2>1. UNCHANGED <<kernel, block, width, shared, out>>
    BY <1>5 DEF reductionVars
  <2>2. /\ BlockSize' = BlockSize /\ Threads' = Threads /\ Widths' = Widths /\ (GridOK' <=> GridOK)
        /\ \A u : ThreadTerms(u)' = ThreadTerms(u)
        /\ \A u, w : Contents(u, w)' = Contents(u, w)
    BY <2>1, SameGrid
  <2>3. MemoryOK' /\ GridOK'
    BY <2>1, <2>2 DEF BlockInv, MemoryOK
  <2>4. WidthsOK' /\ BarriersOK'
    BY <2>1, <2>2 DEF BlockInv, WidthsOK, BarriersOK
  <2>5. CellsOK'
    <3>1. \A c \in Threads : Live(c)' <=> Live(c)
      BY <2>1, <2>2 DEF Live
    <3> QED BY <2>1, <2>2, <3>1 DEF BlockInv, CellsOK
  <2>6. BlockSummed'
    BY <2>1, <2>2 DEF BlockInv, BlockSummed
  <2> QED BY <2>3, <2>4, <2>5, <2>6 DEF BlockInv
<1> QED BY <1>1, <1>2, <1>3, <1>4, <1>5 DEF ThreadStep

(* In whatever order the threads of a block run between two barriers, and  *)
(* however many warps the block has, what its first thread writes is the   *)
(* sum of everything the threads have loaded, each summand once            *)
(* (thread_reduce, warp_reduce).                                           *)
THEOREM BlockSum == BlockBegun /\ [][ThreadStep]_reductionVars => []BlockSummed
<1>1. BlockBegun => BlockInv
  BY BlockBegins
<1>2. BlockInv /\ [ThreadStep]_reductionVars => BlockInv'
  BY ThreadStepKeepsBlock
<1>3. BlockInv => BlockSummed
  BY DEF BlockInv
<1> QED BY <1>1, <1>2, <1>3, PTL

-----------------------------------------------------------------------------
(* Grids of a multiproduct *)

ProductSizes == Seq(Nat \ {0}) \ {<<>>}

(* How many blocks the products get *)
Counts(s) == [p \in 1 .. Len(s) |-> FitReductionKernel(s[p]).num_blocks]

DescriptorOf(s, p) ==
  [block_offset |-> Before(Counts(s), p), index_first |-> Before(s, p), n |-> s[p],
   dims |-> FitReductionKernel(s[p])]

(* The grid's blocks and its terms, product after product *)
IsGrid(grid, s) ==
  /\ grid.kernel = "multiproduct"
  /\ Len(grid.blocks) = Before(Counts(s), Len(s) + 1)
  /\ \A p \in 1 .. Len(s) : \A i \in 1 .. Counts(s)[p] :
       grid.blocks[Before(Counts(s), p) + i] = DescriptorOf(s, p)
  /\ \A p \in 1 .. Len(s) : \A i \in 1 .. s[p] :
       grid.data[Before(s, p) + i] = {<<p, i - 1>>}

(* Sizes are positive numbers, one for every product. *)
LEMMA SizesAre ==
  ASSUME NEW s \in ProductSizes
  PROVE  /\ Len(s) \in Nat \ {0}
         /\ s \in [1 .. Len(s) -> Nat] /\ s \in [1 .. Len(s) -> Nat \ {0}]
         /\ \A p \in 1 .. Len(s) : s[p] \in Nat \ {0} /\ FitReductionKernel(s[p]) \in KernelDims
<1>1. s \in Seq(Nat \ {0}) /\ s # <<>>
  BY DEF ProductSizes
<1>2. Len(s) \in Nat /\ s \in [1 .. Len(s) -> Nat \ {0}] /\ Len(s) # 0
  BY <1>1, LenProperties, EmptySeq
<1>3. \A p \in 1 .. Len(s) : s[p] \in Nat \ {0}
  BY <1>2
<1>4. \A n \in Nat \ {0} : FitReductionKernel(n) \in KernelDims
  BY ReductionFits
<1>5. s \in [1 .. Len(s) -> Nat]
  BY <1>2
<1> QED BY <1>2, <1>3, <1>4, <1>5

(* Every product gets a block at least. *)
LEMMA CountsAre ==
  ASSUME NEW s \in ProductSizes
  PROVE  /\ Counts(s) \in [1 .. Len(s) -> Nat] /\ Counts(s) \in [1 .. Len(s) -> Nat \ {0}]
         /\ \A p \in 1 .. Len(s) : Counts(s)[p] = FitReductionKernel(s[p]).num_blocks
                                   /\ Counts(s)[p] \in Nat \ {0}
<1>1. \A p \in 1 .. Len(s) : FitReductionKernel(s[p]) \in KernelDims
  BY SizesAre
<1>2. \A p \in 1 .. Len(s) : FitReductionKernel(s[p]).num_blocks \in Nat \ {0}
  BY <1>1 DEF KernelDims
<1> QED BY <1>2 DEF Counts

(* fill_block_descriptors describes the blocks of one product after the    *)
(* other.                                                                  *)
LEMMA BlocksAre ==
  ASSUME NEW s \in ProductSizes
  PROVE  LET blocks == BlockDescriptors(s) IN
         /\ Len(blocks) = Before(Counts(s), Len(s) + 1)
         /\ \A p \in 1 .. Len(s) : \A i \in 1 .. Counts(s)[p] :
              blocks[Before(Counts(s), p) + i] = DescriptorOf(s, p)
<1> DEFINE n == Len(s)
           cnt == Counts(s)
           S == {DescriptorOf(s, p) : p \in 1 .. n}
           lists == [p \in 1 .. n |-> [b \in 1 .. cnt[p] |-> DescriptorOf(s, p)]]
<1>1. n \in Nat \ {0} /\ cnt \in [1 .. n -> Nat] /\ \A p \in 1 .. n : cnt[p] \in Nat
  BY SizesAre, CountsAre
<1>2. \A p \in 1 .. n : lists[p] \in Seq(S) /\ Len(lists[p]) = cnt[p]
                        /\ \A i \in 1 .. cnt[p] : lists[p][i] = DescriptorOf(s, p)
  <2> TAKE p \in 1 .. n
  <2>1. cnt[p] \in Nat /\ DescriptorOf(s, p) \in S /\ lists[p] = [b \in 1 .. cnt[p] |-> DescriptorOf(s, p)]
    BY <1>1
  <2> HIDE DEF S, cnt, lists
  <2> QED BY <2>1
<1>3. BlockDescriptors(s) = FlattenSeq(lists)
  <2>1. ASSUME NEW p \in 1 .. n
        PROVE  /\ SumFunction([q \in 1 .. p - 1 |-> FitReductionKernel(s[q]).num_blocks]) = Before(cnt, p)
               /\ SumFunction([q \in 1 .. p - 1 |-> s[q]]) = Before(s, p)
               /\ FitReductionKernel(s[p]).num_blocks = cnt[p]
    <3>1. \A q \in 1 .. p - 1 : q \in 1 .. n
      BY <1>1
    <3>2. \A q \in 1 .. n : cnt[q] = FitReductionKernel(s[q]).num_blocks
      BY CountsAre
    <3> HIDE DEF cnt, n
    <3>3. [q \in 1 .. p - 1 |-> FitReductionKernel(s[q]).num_blocks] = [q \in 1 .. p - 1 |-> cnt[q]]
      BY <3>1, <3>2
    <3> QED BY <3>2, <3>3 DEF Before
  <2> DEFINE Given(p) == [block_offset |-> SumFunction([q \in 1 .. p - 1 |-> FitReductionKernel(s[q]).num_blocks]),
                      index_first |-> SumFunction([q \in 1 .. p - 1 |-> s[q]]),
                      n |-> s[p],
                      dims |-> FitReductionKernel(s[p])]
             Count(p) == FitReductionKernel(s[p]).num_blocks
             given == [p \in 1 .. Len(s) |-> [b \in 1 .. Count(p) |-> Given(p)]]
  <2>2. BlockDescriptors(s) = FlattenSeq(given)
    BY DEF BlockDescriptors
  <2>3. \A p \in 1 .. n : Given(p) = DescriptorOf(s, p) /\ Count(p) = cnt[p]
    BY <2>1 DEF DescriptorOf
  <2> HIDE DEF Given, Count, cnt
  <2>4. given = lists
    BY <2>3
  <2> QED BY <2>2, <2>4
<1>4. lists \in [1 .. n -> Seq(S)]
  <2> HIDE DEF S
  <2>1. \A p \in 1 .. n : [b \in 1 .. cnt[p] |-> DescriptorOf(s, p)] \in Seq(S)
    BY <1>2
  <2> QED BY <2>1
<1> HIDE DEF lists, S, n, cnt
<1>5. IsFlattened(FlattenSeq(lists), lists, cnt, n)
  BY <1>1, <1>2, <1>4, FlattenIs
<1> QED BY <1>2, <1>3, <1>5 DEF IsFlattened, n, cnt

(* A multiproduct has a term of its own for every index of a product. *)
LEMMA GridIs ==
  ASSUME NEW s \in ProductSizes
  PROVE  IsGrid(Multiproduct(s), s)
<1> DEFINE n == Len(s)
           S == {{<<p, i>>} : p \in Nat, i \in Int}
           lists == [p \in 1 .. n |-> [i \in 1 .. s[p] |-> {<<p, i - 1>>}]]
<1>1. n \in Nat \ {0} /\ s \in [1 .. n -> Nat] /\ \A p \in 1 .. n : s[p] \in Nat
  BY SizesAre
<1>2. ASSUME NEW p \in 1 .. n
      PROVE  lists[p] \in Seq(S) /\ Len(lists[p]) = s[p]
             /\ \A i \in 1 .. s[p] : lists[p][i] = {<<p, i - 1>>}
  <2>1. s[p] \in Nat /\ lists[p] = [i \in 1 .. s[p] |-> {<<p, i - 1>>}]
        /\ \A i \in 1 .. s[p] : {<<p, i - 1>>} \in S
    BY <1>1
  <2> HIDE DEF S, lists
  <2> QED BY <2>1
<1>3. lists \in [1 .. n -> Seq(S)]
  <2> HIDE DEF S
  <2>1. \A p \in 1 .. n : [i \in 1 .. s[p] |-> {<<p, i - 1>>}] \in Seq(S)
    BY <1>2
  <2> QED BY <2>1
<1>4. Multiproduct(s) = [kernel |-> "multiproduct", blocks |-> BlockDescriptors(s),
                         data |-> FlattenSeq(lists)]
  BY DEF Multiproduct
<1> HIDE DEF lists, S, n
<1>5. IsFlattened(FlattenSeq(lists), lists, s, n)
  BY <1>1, <1>2, <1>3, FlattenIs
<1>6. \A p \in 1 .. n : \A i \in 1 .. s[p] : FlattenSeq(lists)[Before(s, p) + i] = {<<p, i - 1>>}
  BY <1>2, <1>5 DEF IsFlattened
<1> QED BY <1>4, <1>6, BlocksAre DEF IsGrid, n

(* Where the lists begin *)
Starts(size, n) == {Before(size, p) + 1 : p \in 1 .. n}

(* Every list begins somewhere else, in their order. *)
LEMMA StartsCounted ==
  ASSUME NEW n \in Nat, NEW size \in [1 .. n -> Nat \ {0}]
  PROVE  /\ \A k \in 0 .. n : Cardinality(Starts(size, k)) = k
         /\ \A p \in 1 .. n : {c \in Starts(size, n) : c < Before(size, p) + 1} = Starts(size, p - 1)
<1>0. size \in [1 .. n -> Nat] /\ \A p \in 1 .. n : size[p] \in Nat \ {0}
  OBVIOUS
<1>1. \A p \in 1 .. n : Before(size, p) \in Nat
  BY <1>0, BeforeIs
<1>2. \A p, q \in 1 .. n : p < q => Before(size, p) + size[p] <= Before(size, q)
  <2> SUFFICES ASSUME NEW p \in 1 .. n, NEW q \in 1 .. n, p < q
               PROVE  Before(size, p) + size[p] <= Before(size, q)
    OBVIOUS
  <2>1. q \in 1 .. n + 1
    OBVIOUS
  <2> QED BY <1>0, <2>1, ListsInOrder
<1>3. \A p, q \in 1 .. n : p < q <=> Before(size, p) < Before(size, q)
  <2> SUFFICES ASSUME NEW p \in 1 .. n, NEW q \in 1 .. n
               PROVE  p < q <=> Before(size, p) < Before(size, q)
    OBVIOUS
  <2>1. size[p] \in Nat \ {0} /\ size[q] \in Nat \ {0} /\ Before(size, p) \in Nat /\ Before(size, q) \in Nat
    BY <1>0, <1>1
  <2>2. CASE p < q
    BY <1>2, <2>1, <2>2
  <2>3. CASE q < p
    <3>1. Before(size, q) + size[q] <= Before(size, p)
      BY <1>2, <2>3
    <3> QED BY <2>1, <2>3, <3>1
  <2>4. CASE p = q
    BY <2>1, <2>4
  <2> QED BY <2>2, <2>3, <2>4
<1>4. ASSUME NEW k \in 0 .. n PROVE Cardinality(Starts(size, k)) = k
  <2> DEFINE S == 1 .. k
             T == Starts(size, k)
             begin == [q \in S |-> Before(size, q) + 1]
  <2>1. begin \in [S -> T] /\ \A t \in T : \E q \in S : begin[q] = t
    BY DEF Starts
  <2>2. \A p, q \in S : begin[p] = begin[q] => p = q
    <3> SUFFICES ASSUME NEW p \in S, NEW q \in S, Before(size, p) + 1 = Before(size, q) + 1
                 PROVE  p = q
      OBVIOUS
    <3>1. p \in 1 .. n /\ q \in 1 .. n
      OBVIOUS
    <3>2. Before(size, p) \in Nat /\ Before(size, q) \in Nat
      BY <1>1, <3>1
    <3>3. Before(size, p) = Before(size, q)
      BY <3>2
    <3>4. ~ (p < q) /\ ~ (q < p)
      BY <1>3, <3>1, <3>2, <3>3
    <3> QED BY <3>1, <3>4
  <2>3. IsFiniteSet(S) /\ Cardinality(S) = k
    BY FS_Interval
  <2> HIDE DEF S, T, begin
  <2>4. begin \in Bijection(S, T)
    BY <2>1, <2>2 DEF Bijection, Injection, Surjection, IsInjective
  <2>5. Cardinality(T) = Cardinality(S)
    BY <2>3, <2>4, FS_Bijection DEF ExistsBijection
  <2> QED BY <2>3, <2>5 DEF T
<1>5. ASSUME NEW p \in 1 .. n
      PROVE  {c \in Starts(size, n) : c < Before(size, p) + 1} = Starts(size, p - 1)
  <2>1. ASSUME NEW q \in 1 .. n
        PROVE  Before(size, q) + 1 < Before(size, p) + 1 <=> q \in 1 .. p - 1
    <3>1. Before(size, q) \in Nat /\ Before(size, p) \in Nat
      BY <1>1
    <3>2. q < p <=> Before(size, q) < Before(size, p)
      BY <1>3
    <3> QED BY <3>1, <3>2
  <2>2. \A q \in 1 .. p - 1 : q \in 1 .. n
    OBVIOUS
  <2> QED BY <2>1, <2>2 DEF Starts
<1> QED BY <1>4, <1>5

(* The start of the p-th list is the one with p - 1 starts before it. *)
LEMMA StartFound ==
  ASSUME NEW n \in Nat, NEW size \in [1 .. n -> Nat \ {0}], NEW p \in 1 .. n
  PROVE  (CHOOSE b \in Starts(size, n) : Cardinality({c \in Starts(size, n) : c < b}) = p - 1)
           = Before(size, p) + 1
<1> DEFINE Rank(b) == Cardinality({c \in Starts(size, n) : c < b})
<1>1. \A q \in 1 .. n : Rank(Before(size, q) + 1) = q - 1
  <2> SUFFICES ASSUME NEW q \in 1 .. n PROVE Rank(Before(size, q) + 1) = q - 1
    OBVIOUS
  <2>1. q - 1 \in 0 .. n
    OBVIOUS
  <2>2. Cardinality(Starts(size, q - 1)) = q - 1
    BY <2>1, StartsCounted
  <2>3. {c \in Starts(size, n) : c < Before(size, q) + 1} = Starts(size, q - 1)
    BY StartsCounted
  <2> QED BY <2>2, <2>3
<1>2. Before(size, p) + 1 \in Starts(size, n)
  BY DEF Starts
<1>3. ASSUME NEW b \in Starts(size, n), Rank(b) = p - 1
      PROVE  b = Before(size, p) + 1
  <2>1. PICK q \in 1 .. n : b = Before(size, q) + 1
    BY DEF Starts
  <2>2. q - 1 = p - 1
    BY <1>1, <1>3, <2>1
  <2> QED BY <2>1, <2>2
<1> HIDE DEF Rank
<1>4. (CHOOSE b \in Starts(size, n) : Rank(b) = p - 1) = Before(size, p) + 1
  BY <1>1, <1>2, <1>3
<1> QED BY <1>4 DEF Rank

-----------------------------------------------------------------------------
(* What a grid adds up *)

(* The indexes that a block passes over *)
VisitedBy(n, dims, b) == UNION {Visited(n, dims, b, t) : t \in 0 .. dims.block_size - 1}

(* The terms that the b-th block adds up, from 1, when d describes it *)
DescribedTerms(data, d, b) ==
  UNION {data[d.index_first + i + 1] : i \in VisitedBy(d.n, d.dims, b - 1 - d.block_offset)}

TermsOf(grid, b) == DescribedTerms(grid.data, grid.blocks[b], b)

(* The blocks pass over every index, and no two over the same. *)
LEMMA VisitedByOne ==
  ASSUME NEW n \in Nat, NEW dims \in KernelDims
  PROVE  /\ \A b : VisitedBy(n, dims, b) \subseteq 0 .. n - 1
         /\ \A i \in 0 .. n - 1 : \E b \in 0 .. dims.num_blocks - 1 : i \in VisitedBy(n, dims, b)
         /\ \A b, c \in 0 .. dims.num_blocks - 1 :
              b # c => VisitedBy(n, dims, b) \cap VisitedBy(n, dims, c) = {}
<1>1. \A b : VisitedBy(n, dims, b) \subseteq 0 .. n - 1
  BY DEF VisitedBy, Visited
<1>2. ASSUME NEW i \in 0 .. n - 1
      PROVE  /\ \E b \in 0 .. dims.num_blocks - 1 : \E t \in 0 .. dims.block_size - 1 :
                  i \in Visited(n, dims, b, t)
             /\ \A b, c \in 0 .. dims.num_blocks - 1 : \A t, u \in 0 .. dims.block_size - 1 :
                  i \in Visited(n, dims, b, t) /\ i \in Visited(n, dims, c, u) => b = c /\ t = u
  BY VisitedOnce
<1>3. \A i \in 0 .. n - 1 : \E b \in 0 .. dims.num_blocks - 1 : i \in VisitedBy(n, dims, b)
  <2> TAKE i \in 0 .. n - 1
  <2>1. PICK b \in 0 .. dims.num_blocks - 1, t \in 0 .. dims.block_size - 1 : i \in Visited(n, dims, b, t)
    BY <1>2
  <2>2. i \in VisitedBy(n, dims, b)
    BY <2>1 DEF VisitedBy
  <2> QED BY <2>2
<1>4. ASSUME NEW b \in 0 .. dims.num_blocks - 1, NEW c \in 0 .. dims.num_blocks - 1, b # c,
             NEW i \in VisitedBy(n, dims, b), i \in VisitedBy(n, dims, c)
      PROVE  FALSE
  <2>1. i \in 0 .. n - 1
    BY <1>1
  <2>2. PICK t \in 0 .. dims.block_size - 1 : i \in Visited(n, dims, b, t)
    BY DEF VisitedBy
  <2>3. PICK u \in 0 .. dims.block_size - 1 : i \in Visited(n, dims, c, u)
    BY <1>4 DEF VisitedBy
  <2> QED BY <1>2, <1>4, <2>1, <2>2, <2>3
<1> QED BY <1>1, <1>3, <1>4

(* What a described block of a grid adds up, term by term *)
LEMMA DescribedIs ==
  ASSUME NEW data, NEW d, NEW b, NEW x
  PROVE  x \in DescribedTerms(data, d, b)
           <=> \E j \in VisitedBy(d.n, d.dims, b - 1 - d.block_offset) : x \in data[d.index_first + j + 1]
BY DEF DescribedTerms

(* A block of a multiproduct adds up terms of its product. *)
LEMMA TermsAre ==
  ASSUME NEW s \in ProductSizes, NEW grid, IsGrid(grid, s),
         NEW p \in 1 .. Len(s), NEW i \in 1 .. Counts(s)[p]
  PROVE  TermsOf(grid, Before(Counts(s), p) + i)
           = {p} \X VisitedBy(s[p], FitReductionKernel(s[p]), i - 1)
<1>0. PICK first, V, d, b :
        /\ first = Before(Counts(s), p) /\ V = VisitedBy(s[p], FitReductionKernel(s[p]), i - 1)
        /\ d = DescriptorOf(s, p) /\ b = first + i
  OBVIOUS
<1>1. /\ Len(s) \in Nat \ {0} /\ s[p] \in Nat \ {0} /\ FitReductionKernel(s[p]) \in KernelDims
      /\ Counts(s)[p] \in Nat \ {0} /\ first \in Nat /\ Before(s, p) \in Nat
  <2>1. Len(s) \in Nat /\ Counts(s) \in [1 .. Len(s) -> Nat] /\ s \in [1 .. Len(s) -> Nat]
        /\ p \in 1 .. Len(s) + 1
    BY SizesAre, CountsAre
  <2> QED BY <1>0, <2>1, SizesAre, CountsAre, BeforeIs
<1>2. grid.blocks[b] = d
  BY <1>0 DEF IsGrid
<1>3. d.index_first = Before(s, p) /\ d.n = s[p] /\ d.dims = FitReductionKernel(s[p])
      /\ d.block_offset = first
  BY <1>0 DEF DescriptorOf
<1>4. b - 1 - d.block_offset = i - 1
  BY <1>0, <1>1, <1>3
<1>5. VisitedBy(d.n, d.dims, b - 1 - d.block_offset) = V
  BY <1>0, <1>3, <1>4
<1>6. \A x : x \in TermsOf(grid, b) <=> \E j \in V : x \in grid.data[d.index_first + j + 1]
  <2>1. TermsOf(grid, b) = DescribedTerms(grid.data, d, b)
    BY <1>2 DEF TermsOf
  <2> QED BY <1>5, <2>1, DescribedIs
<1>7. \A j \in V : grid.data[d.index_first + j + 1] = {<<p, j>>}
  <2> SUFFICES ASSUME NEW j \in V PROVE grid.data[Before(s, p) + j + 1] = {<<p, j>>}
    BY <1>3
  <2>1. j \in 0 .. s[p] - 1
    BY <1>0, <1>1, VisitedByOne
  <2>2. j + 1 \in 1 .. s[p] /\ (j + 1) - 1 = j /\ Before(s, p) + j + 1 = Before(s, p) + (j + 1)
    BY <1>1, <2>1
  <2>3. grid.data[Before(s, p) + (j + 1)] = {<<p, (j + 1) - 1>>}
    BY <2>2 DEF IsGrid
  <2> QED BY <2>2, <2>3
<1>8. \A x : x \in TermsOf(grid, b) <=> x \in {p} \X V
  BY <1>6, <1>7
<1> QED BY <1>0, <1>8

(* Every block is one of a product. *)
LEMMA BlockPlace ==
  ASSUME NEW s \in ProductSizes, NEW grid, IsGrid(grid, s), NEW b \in 1 .. Len(grid.blocks)
  PROVE  \E p \in 1 .. Len(s) : \E i \in 1 .. Counts(s)[p] :
           b = Before(Counts(s), p) + i /\ grid.blocks[b] = DescriptorOf(s, p)
<1>1. PICK n, size : n = Len(s) /\ size = Counts(s)
  OBVIOUS
<1>2. n \in Nat /\ size \in [1 .. n -> Nat] /\ b \in 1 .. Before(size, n + 1)
  BY <1>1, SizesAre, CountsAre DEF IsGrid
<1>3. PICK p \in 1 .. n : \E i \in 1 .. size[p] : b = Before(size, p) + i
  BY <1>2, PlaceInList
<1>4. PICK i \in 1 .. size[p] : b = Before(size, p) + i
  BY <1>3
<1>5. grid.blocks[b] = DescriptorOf(s, p)
  BY <1>1, <1>4 DEF IsGrid
<1> QED BY <1>1, <1>4, <1>5

(* The blocks of a product *)
LEMMA BlocksOfProduct ==
  ASSUME NEW s \in ProductSizes, NEW p \in 1 .. Len(s)
  PROVE  /\ Before(Counts(s), p) \in Nat /\ Counts(s)[p] \in Nat \ {0}
         /\ Before(Counts(s), Len(s) + 1) \in Nat
         /\ \A i \in 1 .. Counts(s)[p] : Before(Counts(s), p) + i \in 1 .. Before(Counts(s), Len(s) + 1)
<1>1. PICK n, size : n = Len(s) /\ size = Counts(s)
  OBVIOUS
<1>2. n \in Nat /\ size \in [1 .. n -> Nat] /\ size[p] \in Nat \ {0} /\ p \in 1 .. n
  BY <1>1, SizesAre, CountsAre
<1>3. p \in 1 .. n + 1 /\ n + 1 \in 1 .. n + 1 /\ p < n + 1
  BY <1>2
<1>4. Before(size, p) \in Nat /\ Before(size, n + 1) \in Nat
  BY <1>2, <1>3, BeforeIs
<1>5. Before(size, p) + size[p] <= Before(size, n + 1)
  BY <1>2, <1>3, ListsInOrder
<1>6. \A i \in 1 .. size[p] : Before(size, p) + i \in 1 .. Before(size, n + 1)
  BY <1>2, <1>4, <1>5
<1> QED BY <1>1, <1>2, <1>4, <1>6

(* The first blocks of the products are found. *)
LEMMA FirstsAre ==
  ASSUME NEW s \in ProductSizes, NEW grid, IsGrid(grid, s)
  PROVE  {b \in 1 .. Len(grid.blocks) : grid.blocks[b].block_offset = b - 1} = Starts(Counts(s), Len(s))
<1>1. Len(grid.blocks) = Before(Counts(s), Len(s) + 1)
  BY DEF IsGrid
<1>2. ASSUME NEW b \in 1 .. Len(grid.blocks), grid.blocks[b].block_offset = b - 1
      PROVE  b \in Starts(Counts(s), Len(s))
  <2>0. PICK p \in 1 .. Len(s) : \E i \in 1 .. Counts(s)[p] :
          b = Before(Counts(s), p) + i /\ grid.blocks[b] = DescriptorOf(s, p)
    BY BlockPlace
  <2>1. PICK i \in 1 .. Counts(s)[p] :
          b = Before(Counts(s), p) + i /\ grid.blocks[b] = DescriptorOf(s, p)
    BY <2>0
  <2>2. grid.blocks[b].block_offset = Before(Counts(s), p)
    BY <2>1 DEF DescriptorOf
  <2>3. Before(Counts(s), p) \in Nat /\ Counts(s)[p] \in Nat
    BY BlocksOfProduct
  <2>4. b = Before(Counts(s), p) + 1
    BY <1>2, <2>1, <2>2, <2>3
  <2> QED BY <2>4 DEF Starts
<1>3. ASSUME NEW p \in 1 .. Len(s)
      PROVE  /\ Before(Counts(s), p) + 1 \in 1 .. Len(grid.blocks)
             /\ grid.blocks[Before(Counts(s), p) + 1].block_offset = (Before(Counts(s), p) + 1) - 1
  <2>1. Before(Counts(s), p) \in Nat /\ Counts(s)[p] \in Nat \ {0}
    BY BlocksOfProduct
  <2>2. 1 \in 1 .. Counts(s)[p]
    BY <2>1
  <2>3. Before(Counts(s), p) + 1 \in 1 .. Len(grid.blocks)
    BY <1>1, <2>2, BlocksOfProduct
  <2>4. grid.blocks[Before(Counts(s), p) + 1] = DescriptorOf(s, p)
    BY <2>2 DEF IsGrid
  <2>5. grid.blocks[Before(Counts(s), p) + 1].block_offset = Before(Counts(s), p)
    BY <2>4 DEF DescriptorOf
  <2> QED BY <2>1, <2>3, <2>5
<1>4. \A b \in Starts(Counts(s), Len(s)) :
        b \in 1 .. Len(grid.blocks) /\ grid.blocks[b].block_offset = b - 1
  BY <1>3 DEF Starts
<1> QED BY <1>2, <1>4

(* AllAdded, of the values of a function *)
AddedUp(S, f) ==
  IF \A i, j \in S : i # j => f[i] \cap f[j] = {}
  THEN UNION {f[i] : i \in S} ELSE (UNION {f[i] : i \in S}) \cup Spoiled

(* The blocks of a product add up all its terms. *)
LEMMA ProductAdded ==
  ASSUME NEW s \in ProductSizes, NEW grid, IsGrid(grid, s), NEW p \in 1 .. Len(s), NEW results,
         \A b \in 1 .. Len(grid.blocks) : results[b] = TermsOf(grid, b),
         NEW first, first = Before(Counts(s), p) + 1
  PROVE  AddedUp(first .. first + grid.blocks[first].dims.num_blocks - 1, results)
           = {p} \X (0 .. s[p] - 1)
<1>0. PICK dims, nb, before : dims = FitReductionKernel(s[p]) /\ nb = Counts(s)[p] /\ before = Before(Counts(s), p)
  OBVIOUS
<1>1. before \in Nat /\ nb \in Nat \ {0} /\ dims \in KernelDims /\ dims.num_blocks = nb /\ s[p] \in Nat
  BY <1>0, BlocksOfProduct, SizesAre, CountsAre
<1>2. grid.blocks[first].dims.num_blocks = nb
  <2>1. 1 \in 1 .. nb
    BY <1>1
  <2>2. grid.blocks[first] = DescriptorOf(s, p)
    BY <1>0, <2>1 DEF IsGrid
  <2>3. grid.blocks[first].dims = dims
    BY <1>0, <2>2 DEF DescriptorOf
  <2> QED BY <1>1, <2>3
<1>3. first + nb - 1 = before + nb /\ first = before + 1
  BY <1>0, <1>1
<1>4. PICK S : S = before + 1 .. before + nb
  OBVIOUS
<1>5. ASSUME NEW b \in S
      PROVE  b - before - 1 \in 0 .. nb - 1 /\ results[b] = {p} \X VisitedBy(s[p], dims, b - before - 1)
  <2>1. PICK i : i = b - before
    OBVIOUS
  <2>2. i \in 1 .. nb /\ b = before + i /\ b - before - 1 = i - 1 /\ i - 1 \in 0 .. nb - 1
    BY <1>1, <1>4, <2>1
  <2>3. b \in 1 .. Len(grid.blocks)
    BY <1>0, <2>2, BlocksOfProduct DEF IsGrid
  <2>4. results[b] = TermsOf(grid, b)
    BY <2>3
  <2>5. TermsOf(grid, before + i) = {p} \X VisitedBy(s[p], dims, i - 1)
    BY <1>0, <2>2, TermsAre
  <2> QED BY <2>2, <2>4, <2>5
<1>6. \A b, c \in S : b # c => results[b] \cap results[c] = {}
  <2> SUFFICES ASSUME NEW b \in S, NEW c \in S, b # c PROVE results[b] \cap results[c] = {}
    OBVIOUS
  <2>1. b - before - 1 # c - before - 1
    BY <1>1, <1>4
  <2>2. VisitedBy(s[p], dims, b - before - 1) \cap VisitedBy(s[p], dims, c - before - 1) = {}
    BY <1>1, <1>5, <2>1, VisitedByOne
  <2> QED BY <1>5, <2>2
<1>7. UNION {results[b] : b \in S} = {p} \X (0 .. s[p] - 1)
  <2>1. ASSUME NEW b \in S PROVE results[b] \subseteq {p} \X (0 .. s[p] - 1)
    <3>1. VisitedBy(s[p], dims, b - before - 1) \subseteq 0 .. s[p] - 1
      BY <1>1, VisitedByOne
    <3> QED BY <1>5, <3>1
  <2>2. ASSUME NEW i \in 0 .. s[p] - 1 PROVE \E b \in S : <<p, i>> \in results[b]
    <3>1. PICK c \in 0 .. nb - 1 : i \in VisitedBy(s[p], dims, c)
      BY <1>1, VisitedByOne
    <3>2. PICK b : b = before + 1 + c
      OBVIOUS
    <3>3. b \in S /\ b - before - 1 = c
      BY <1>1, <1>4, <3>2
    <3> QED BY <1>5, <3>1, <3>3
  <2> QED BY <2>1, <2>2
<1>8. AddedUp(S, results) = UNION {results[b] : b \in S}
  BY <1>6 DEF AddedUp
<1> QED BY <1>2, <1>3, <1>4, <1>7, <1>8

(* complete_multiproduct adds up the sums of the blocks of each product.   *)
LEMMA SumsAre ==
  ASSUME NEW s \in ProductSizes, NEW grid, IsGrid(grid, s), NEW results,
         \A b \in 1 .. Len(grid.blocks) : results[b] = TermsOf(grid, b)
  PROVE  BlockSums(grid, results) = [p \in 1 .. Len(s) |-> {p} \X (0 .. s[p] - 1)]
<1> DEFINE Firsts == {b \in 1 .. Len(grid.blocks) : grid.blocks[b].block_offset = b - 1}
           FirstOf(p) == CHOOSE b \in Firsts : Cardinality({c \in Firsts : c < b}) = p - 1
           Sum(p) == AddedUp(FirstOf(p) .. FirstOf(p) + grid.blocks[FirstOf(p)].dims.num_blocks - 1, results)
<1>1. BlockSums(grid, results) = [p \in 1 .. Cardinality(Firsts) |-> Sum(p)]
  <2> DEFINE Totalled(p) == AllAdded(FirstOf(p) .. FirstOf(p) + grid.blocks[FirstOf(p)].dims.num_blocks - 1,
                                  LAMBDA b : results[b])
  <2>1. BlockSums(grid, results) = [p \in 1 .. Cardinality(Firsts) |-> Totalled(p)]
    BY DEF BlockSums
  <2> HIDE DEF Firsts, FirstOf
  <2>2. ASSUME NEW p PROVE Totalled(p) = Sum(p)
    BY DEF AllAdded, AddedUp
  <2> HIDE DEF Added, Sum
  <2> QED BY <2>1, <2>2
<1>2. Len(s) \in Nat /\ Counts(s) \in [1 .. Len(s) -> Nat \ {0}]
  BY SizesAre, CountsAre
<1>3. Firsts = Starts(Counts(s), Len(s))
  BY FirstsAre
<1>4. Cardinality(Firsts) = Len(s)
  <2>1. Len(s) \in 0 .. Len(s)
    BY <1>2
  <2>2. Cardinality(Starts(Counts(s), Len(s))) = Len(s)
    BY <1>2, <2>1, StartsCounted
  <2> QED BY <1>3, <2>2
<1>5. ASSUME NEW p \in 1 .. Len(s) PROVE FirstOf(p) = Before(Counts(s), p) + 1
  <2> HIDE DEF Firsts
  <2>1. (CHOOSE b \in Starts(Counts(s), Len(s)) :
           Cardinality({c \in Starts(Counts(s), Len(s)) : c < b}) = p - 1) = Before(Counts(s), p) + 1
    BY <1>2, StartFound
  <2> QED BY <1>3, <2>1
<1> HIDE DEF Firsts, FirstOf
<1>6. ASSUME NEW p \in 1 .. Len(s) PROVE Sum(p) = {p} \X (0 .. s[p] - 1)
  <2>1. PICK first : first = FirstOf(p)
    OBVIOUS
  <2>2. first = Before(Counts(s), p) + 1
    BY <1>5, <2>1
  <2>3. AddedUp(first .. first + grid.blocks[first].dims.num_blocks - 1, results) = {p} \X (0 .. s[p] - 1)
    BY <2>2, ProductAdded
  <2> QED BY <2>1, <2>3
<1> HIDE DEF Sum
<1> QED BY <1>1, <1>4, <1>6

-----------------------------------------------------------------------------
(* Calls *)

(* The calls: sums of sumcheck rounds, and multiproducts (reduce is one of *)
(* a single product) of products of at least one term each, which          *)
(* thread_reduce asserts                                                   *)
IsMultiproduct(c) == c.kind = "multiproduct" /\ c.sizes \in ProductSizes

ReductionCalls == \A c \in Reductions : c.kind = "sum" \/ IsMultiproduct(c)

(* The kernel of the call *)
GridInv ==
  /\ reducing.kind = "multiproduct" /\ reducing.sizes \in ProductSizes
  /\ kernel = Multiproduct(reducing.sizes)
  /\ block \in 0 .. Len(kernel.blocks) - 1
  /\ out = [b \in 1 .. Len(kernel.blocks) |-> out[b]]

(* The blocks that have been run have written the sums of their terms. *)
EarlierBlocks == \A b \in 1 .. block : out[b] = TermsOf(kernel, b)

ReductionInv ==
  /\ reducing = NoReduction => sums = <<>>
  /\ reducing # NoReduction =>
       GridInv /\ BlockInv /\ EarlierBlocks /\ (sums = <<>> \/ sums = Expected)

(* The block that runs is one of a product. *)
LEMMA BlockOfProduct ==
  ASSUME GridInv
  PROVE  \E p \in 1 .. Len(reducing.sizes) : \E i \in 1 .. Counts(reducing.sizes)[p] :
           /\ block + 1 = Before(Counts(reducing.sizes), p) + i
           /\ Descriptor = DescriptorOf(reducing.sizes, p)
<1>1. PICK s : s = reducing.sizes
  OBVIOUS
<1>2. s \in ProductSizes /\ IsGrid(kernel, s) /\ block \in 0 .. Len(kernel.blocks) - 1
  BY <1>1, GridIs DEF GridInv
<1>3. Len(kernel.blocks) \in Nat
  <2>1. PICK n, size : n = Len(s) /\ size = Counts(s)
    OBVIOUS
  <2>2. n \in Nat /\ size \in [1 .. n -> Nat] /\ n + 1 \in 1 .. n + 1
    BY <1>2, <2>1, SizesAre, CountsAre
  <2>3. Before(size, n + 1) \in Nat
    BY <2>2, BeforeIs
  <2> QED BY <1>2, <2>1, <2>3 DEF IsGrid
<1>4. block + 1 \in 1 .. Len(kernel.blocks)
  BY <1>2, <1>3
<1>5. \E p \in 1 .. Len(s) : \E i \in 1 .. Counts(s)[p] :
        block + 1 = Before(Counts(s), p) + i /\ kernel.blocks[block + 1] = DescriptorOf(s, p)
  BY <1>2, <1>4, BlockPlace
<1> QED BY <1>1, <1>5 DEF Descriptor

(* It is as the theorem about blocks supposes it to be. *)
LEMMA GridGood == GridInv => GridOK /\ block + 1 \in DOMAIN out
<1> SUFFICES ASSUME GridInv PROVE GridOK /\ block + 1 \in DOMAIN out
  OBVIOUS
<1>1. PICK s : s = reducing.sizes
  OBVIOUS
<1>2. s \in ProductSizes /\ IsGrid(kernel, s) /\ block \in 0 .. Len(kernel.blocks) - 1
      /\ out = [b \in 1 .. Len(kernel.blocks) |-> out[b]]
  BY <1>1, GridIs DEF GridInv
<1>3. PICK p \in 1 .. Len(s) : \E i \in 1 .. Counts(s)[p] :
        block + 1 = Before(Counts(s), p) + i /\ Descriptor = DescriptorOf(s, p)
  BY <1>1, BlockOfProduct
<1>4. PICK i \in 1 .. Counts(s)[p] :
        block + 1 = Before(Counts(s), p) + i /\ Descriptor = DescriptorOf(s, p)
  BY <1>3
<1>5. PICK d, dims, before, count :
        d = Descriptor /\ dims = FitReductionKernel(s[p]) /\ before = Before(Counts(s), p) /\ count = Counts(s)[p]
  OBVIOUS
<1>6. d.index_first = Before(s, p) /\ d.n = s[p] /\ d.dims = dims /\ d.block_offset = before
  BY <1>4, <1>5 DEF DescriptorOf
<1>7. /\ before \in Nat /\ count \in Nat \ {0} /\ dims.num_blocks = count
      /\ s[p] \in Nat \ {0} /\ Before(s, p) \in Nat
  <2>1. Len(s) \in Nat /\ s \in [1 .. Len(s) -> Nat] /\ p \in 1 .. Len(s) + 1
    BY <1>2, SizesAre
  <2>2. Before(s, p) \in Nat
    BY <2>1, BeforeIs
  <2> QED BY <1>2, <1>5, <2>2, SizesAre, CountsAre, BlocksOfProduct
<1>8. i \in 1 .. count /\ block + 1 = before + i /\ block \in Int
  BY <1>2, <1>4, <1>5
<1>9. block - d.block_offset \in 0 .. d.dims.num_blocks - 1
  BY <1>6, <1>7, <1>8
<1>10. ASSUME NEW j \in 0 .. s[p] - 1 PROVE kernel.data[Before(s, p) + j + 1] = {<<p, j>>}
  <2>1. j + 1 \in 1 .. s[p] /\ (j + 1) - 1 = j /\ Before(s, p) + j + 1 = Before(s, p) + (j + 1)
    BY <1>7
  <2>2. kernel.data[Before(s, p) + (j + 1)] = {<<p, (j + 1) - 1>>}
    BY <1>2, <2>1 DEF IsGrid
  <2> QED BY <2>1, <2>2
<1>11. \A j, k \in 0 .. d.n - 1 :
         j # k => kernel.data[d.index_first + j + 1] \cap kernel.data[d.index_first + k + 1] = {}
  BY <1>6, <1>10
<1>12. kernel.kernel # "partial_sum"
  BY <1>2 DEF IsGrid
<1>13. GridOK
  BY <1>5, <1>6, <1>7, <1>9, <1>11, <1>12 DEF GridOK
<1>14. block + 1 \in 1 .. Len(kernel.blocks)
  <2>1. Len(kernel.blocks) = Before(Counts(s), Len(s) + 1)
    BY <1>2 DEF IsGrid
  <2>2. before + i \in 1 .. Before(Counts(s), Len(s) + 1)
    BY <1>2, <1>5, <1>8, BlocksOfProduct
  <2> QED BY <1>8, <2>1, <2>2
<1> QED BY <1>2, <1>13, <1>14

(* Its terms are those of its threads. *)
LEMMA BlockTerms ==
  ASSUME GridInv
  PROVE  TermsOf(kernel, block + 1) = UNION {ThreadTerms(t) : t \in Threads}
<1>1. PICK d, b, data : d = Descriptor /\ b = block + 1 /\ data = kernel.data
  OBVIOUS
<1>2. b - 1 - d.block_offset = block - d.block_offset
  <2>1. block \in Int /\ d.block_offset \in Int
    <3>1. PICK p \in 1 .. Len(reducing.sizes) : Descriptor = DescriptorOf(reducing.sizes, p)
      BY BlockOfProduct
    <3>2. d.block_offset = Before(Counts(reducing.sizes), p)
      BY <1>1, <3>1 DEF DescriptorOf
    <3> QED BY <3>2, BlocksOfProduct DEF GridInv
  <2> QED BY <1>1, <2>1
<1>3. TermsOf(kernel, b) = DescribedTerms(data, d, b)
  BY <1>1 DEF TermsOf, Descriptor
<1>4. Threads = 0 .. d.dims.block_size - 1
  BY <1>1 DEF Threads, BlockSize
<1>5. ASSUME NEW t, NEW x
      PROVE  x \in ThreadTerms(t)
               <=> \E j \in Visited(d.n, d.dims, block - d.block_offset, t) : x \in data[d.index_first + j + 1]
  BY <1>1 DEF ThreadTerms
<1>6. ASSUME NEW j
      PROVE  j \in VisitedBy(d.n, d.dims, block - d.block_offset)
               <=> \E t \in Threads : j \in Visited(d.n, d.dims, block - d.block_offset, t)
  BY <1>4 DEF VisitedBy
<1>7. ASSUME NEW x
      PROVE  x \in TermsOf(kernel, b)
               <=> \E j \in VisitedBy(d.n, d.dims, block - d.block_offset) : x \in data[d.index_first + j + 1]
  BY <1>2, <1>3, DescribedIs
<1>8. \A x : x \in TermsOf(kernel, b) <=> \E t \in Threads : x \in ThreadTerms(t)
  BY <1>5, <1>6, <1>7
<1> QED BY <1>1, <1>8

(* A grid has finitely many blocks. *)
LEMMA CountOfBlocks ==
  ASSUME GridInv
  PROVE  Len(kernel.blocks) \in Nat
<1>1. PICK s : s = reducing.sizes
  OBVIOUS
<1>2. s \in ProductSizes /\ IsGrid(kernel, s)
  BY <1>1, GridIs DEF GridInv
<1>3. 1 \in 1 .. Len(s)
  BY <1>2, SizesAre
<1> QED BY <1>2, <1>3, BlocksOfProduct DEF IsGrid

(* A block that begins is as the theorem about blocks supposes it to be. *)
LEMMA BegunGood == GridInv /\ MemoryOK /\ width = [t \in Threads |-> 2 * BlockSize] => BlockInv
BY GridGood, BlockBegins DEF BlockBegun

(* BeginBlock's memory *)
LEMMA MemoryBegun ==
  ASSUME NEW grid, NEW b, kernel' = grid, BeginBlock(grid, b), GridInv'
  PROVE  BlockInv'
<1>1. BlockSize' = grid.blocks[b + 1].dims.block_size
  BY DEF BeginBlock, BlockSize, Descriptor
<1>2. width' = [t \in Threads' |-> 2 * BlockSize']
  BY <1>1 DEF BeginBlock, Threads
<1>3. shared' = [c \in 0 .. 2 * BlockSize' - 1 |-> shared'[c]]
  BY <1>1 DEF BeginBlock
<1>4. (GridOK /\ block + 1 \in DOMAIN out)'
  BY GridGood, PTL
<1>5. out' = [c \in DOMAIN out' |-> out'[c]]
  BY DEF GridInv
<1>6. MemoryOK'
  BY <1>3, <1>4, <1>5 DEF MemoryOK
<1>7. (GridInv /\ MemoryOK /\ width = [t \in Threads |-> 2 * BlockSize] => BlockInv)'
  BY BegunGood, PTL
<1> QED BY <1>2, <1>6, <1>7

(* compute_multiproduct begins. *)
LEMMA BeginKeepsReduction ==
  ASSUME ReductionInv, NEW c, IsMultiproduct(c), BeginReduction(c)
  PROVE  ReductionInv'
<1>1. c.kind = "multiproduct" /\ c.sizes \in ProductSizes
  BY DEF IsMultiproduct
<1>2. PICK grid : grid = Multiproduct(c.sizes)
  OBVIOUS
<1>3. reducing' = c /\ LaunchGrid(grid, 0) /\ sums' = sums /\ reducing = NoReduction
  BY <1>1, <1>2 DEF BeginReduction
<1>4. kernel' = grid /\ BeginBlock(grid, 0) /\ out' = [k \in 1 .. OutSize(grid, 0) |-> Spoiled]
  BY <1>3 DEF LaunchGrid
<1>5. grid.kernel = "multiproduct" /\ IsGrid(grid, c.sizes)
  BY <1>1, <1>2, GridIs DEF IsGrid
<1>6. OutSize(grid, 0) = Len(grid.blocks)
  BY <1>5 DEF OutSize
<1>7. block' = 0
  BY <1>4 DEF BeginBlock
<1>8. Len(grid.blocks) \in Nat \ {0}
  <2>1. 1 \in 1 .. Len(c.sizes)
    BY <1>1, SizesAre
  <2>2. Counts(c.sizes)[1] \in Nat \ {0} /\ Before(c.sizes, 1) = 0
    BY <1>1, <2>1, CountsAre, SizesAre, BeforeIs
  <2>3. 1 \in 1 .. Counts(c.sizes)[1]
    BY <2>2
  <2>4. Before(Counts(c.sizes), 1) + 1 \in 1 .. Len(grid.blocks) /\ Len(grid.blocks) \in Nat
    BY <1>1, <1>5, <2>1, <2>3, BlocksOfProduct DEF IsGrid
  <2> QED BY <2>4
<1>9. GridInv'
  BY <1>1, <1>2, <1>3, <1>4, <1>6, <1>7, <1>8 DEF GridInv
<1>10. BlockInv'
  BY <1>4, <1>9, MemoryBegun
<1>11. EarlierBlocks'
  BY <1>7 DEF EarlierBlocks
<1>12. sums' = <<>> /\ reducing' # NoReduction
  BY <1>1, <1>3 DEF ReductionInv, NoReduction
<1> QED BY <1>9, <1>10, <1>11, <1>12 DEF ReductionInv

(* Threads leave everything but their block's memory and its sum alone. *)
LEMMA ThreadsKeepReduction ==
  ASSUME ReductionInv, ThreadStep
  PROVE  ReductionInv'
<1>1. reducing # NoReduction /\ GridInv /\ BlockInv /\ EarlierBlocks /\ (sums = <<>> \/ sums = Expected)
  BY DEF ThreadStep, ReductionInv
<1>2. UNCHANGED <<reducing, kernel, block, sums>>
  BY DEF ThreadStep, Load, Accumulate, WriteSum, WriteCoefficients
<1>3. out' = out \/ out' = [out EXCEPT ![block + 1] = shared[0]]
  <2>1. kernel.kernel # "partial_sum"
    BY <1>1 DEF BlockInv, GridOK
  <2> QED BY <2>1 DEF ThreadStep, Load, Accumulate, WriteSum, WriteCoefficients
<1>4. BlockInv'
  BY <1>1, ThreadStepKeepsBlock
<1>5. PICK n : n = Len(kernel.blocks)
  OBVIOUS
<1>6. out = [b \in 1 .. n |-> out[b]] /\ block \in 0 .. n - 1
  BY <1>1, <1>5 DEF GridInv
<1>7. out' = [b \in 1 .. n |-> out'[b]] /\ \A b \in 1 .. n : b # block + 1 => out'[b] = out[b]
  BY <1>3, <1>6
<1>8. GridInv'
  BY <1>1, <1>2, <1>5, <1>7 DEF GridInv
<1>9. EarlierBlocks'
  <2>1. ASSUME NEW b \in 1 .. block PROVE out'[b] = TermsOf(kernel, b)
    <3>1. block \in Int /\ n \in Int /\ block + 1 \in DOMAIN out
      BY <1>1, <1>5, <1>6, CountOfBlocks, GridGood
    <3>2. b \in 1 .. n /\ b # block + 1
      BY <1>6, <3>1
    <3> QED BY <1>1, <1>7, <3>2 DEF EarlierBlocks
  <2> QED BY <1>2, <2>1 DEF EarlierBlocks
<1>10. (sums = <<>> \/ sums = Expected)'
  BY <1>1, <1>2 DEF Expected
<1> QED BY <1>1, <1>2, <1>4, <1>8, <1>9, <1>10 DEF ReductionInv

(* A block that has written its sum *)
LEMMA BlockDone ==
  ASSUME GridInv, BlockInv, BlockWritten
  PROVE  out[block + 1] = TermsOf(kernel, block + 1)
<1>1. width[0] = Written
  BY DEF BlockInv, GridOK, BlockWritten
<1> QED BY <1>1, BlockTerms DEF BlockInv, BlockSummed

(* The next block of the grid begins. *)
LEMMA NextBlockKeepsReduction ==
  ASSUME ReductionInv, NextBlock
  PROVE  ReductionInv'
<1>1. reducing # NoReduction /\ GridInv /\ BlockInv /\ EarlierBlocks /\ sums = <<>>
  BY DEF NextBlock, ReductionInv
<1>2. UNCHANGED <<reducing, kernel, out, sums>> /\ BeginBlock(kernel, block + 1) /\ BlockWritten
      /\ block + 1 < Len(kernel.blocks)
  BY DEF NextBlock
<1>3. block' = block + 1
  BY <1>2 DEF BeginBlock
<1>4. Len(kernel.blocks) \in Nat
  BY <1>1, CountOfBlocks
<1>5. GridInv'
  <2>1. block \in Nat /\ block + 1 \in 0 .. Len(kernel.blocks) - 1
    BY <1>1, <1>2, <1>4 DEF GridInv
  <2> QED BY <1>1, <1>2, <1>3, <2>1 DEF GridInv
<1>6. BlockInv'
  BY <1>2, <1>5, MemoryBegun
<1>7. EarlierBlocks'
  <2>1. out[block + 1] = TermsOf(kernel, block + 1)
    BY <1>1, <1>2, BlockDone
  <2>2. block \in Nat
    BY <1>1, <1>4 DEF GridInv
  <2>3. \A b \in 1 .. block + 1 : b \in 1 .. block \/ b = block + 1
    BY <2>2
  <2> QED BY <1>1, <1>2, <1>3, <2>1, <2>3 DEF EarlierBlocks
<1> QED BY <1>1, <1>2, <1>5, <1>6, <1>7 DEF ReductionInv

(* The host adds up the sums of the blocks. *)
LEMMA CompleteKeepsReduction ==
  ASSUME ReductionInv, Complete
  PROVE  ReductionInv'
<1>1. reducing # NoReduction /\ GridInv /\ BlockInv /\ EarlierBlocks /\ GridWritten
      /\ sums' = BlockSums(kernel, out) /\ UNCHANGED <<reducing, kernel, block, width, shared, out>>
  BY DEF Complete, ReductionInv
<1>2. PICK s : s = reducing.sizes
  OBVIOUS
<1>3. s \in ProductSizes /\ IsGrid(kernel, s) /\ block + 1 = Len(kernel.blocks) /\ BlockWritten
  BY <1>1, <1>2, GridIs DEF GridInv, GridWritten
<1>4. ASSUME NEW b \in 1 .. Len(kernel.blocks) PROVE out[b] = TermsOf(kernel, b)
  <2>1. out[block + 1] = TermsOf(kernel, block + 1)
    BY <1>1, <1>3, BlockDone
  <2>2. block \in Int
    BY <1>1 DEF GridInv
  <2>3. b \in 1 .. block \/ b = block + 1
    BY <1>3, <2>2
  <2> QED BY <1>1, <2>1, <2>3 DEF EarlierBlocks
<1>5. BlockSums(kernel, out) = [p \in 1 .. Len(s) |-> {p} \X (0 .. s[p] - 1)]
  BY <1>3, <1>4, SumsAre
<1>6. Expected = [p \in 1 .. Len(s) |-> {p} \X (0 .. s[p] - 1)]
  BY <1>1, <1>2 DEF Expected, GridInv
<1>7. sums' = Expected /\ Expected' = Expected
  BY <1>1, <1>5, <1>6 DEF Expected
<1>8. BlockInv'
  <2>1. UNCHANGED <<kernel, block, width, shared, out>>
    BY <1>1
  <2>2. /\ BlockSize' = BlockSize /\ Threads' = Threads /\ Widths' = Widths /\ (GridOK' <=> GridOK)
        /\ \A u : ThreadTerms(u)' = ThreadTerms(u)
        /\ \A u, w : Contents(u, w)' = Contents(u, w)
    BY <2>1, SameGrid
  <2>3. MemoryOK' /\ GridOK'
    BY <1>1, <2>1, <2>2 DEF BlockInv, MemoryOK
  <2>4. WidthsOK' /\ BarriersOK' /\ BlockSummed'
    BY <1>1, <2>1, <2>2 DEF BlockInv, WidthsOK, BarriersOK, BlockSummed
  <2>5. CellsOK'
    <3>1. \A c \in Threads : Live(c)' <=> Live(c)
      BY <2>1, <2>2 DEF Live
    <3> QED BY <1>1, <2>1, <2>2, <3>1 DEF BlockInv, CellsOK
  <2> QED BY <2>3, <2>4, <2>5 DEF BlockInv
<1>9. GridInv' /\ EarlierBlocks'
  BY <1>1 DEF GridInv, EarlierBlocks
<1> QED BY <1>1, <1>7, <1>8, <1>9 DEF ReductionInv

(* A multiproduct or a reduction on the GPU returns every index of every   *)
(* product exactly once, for any sizes of products, any warps and tiers,   *)
(* and in whatever order the threads of the blocks run                     *)
(* (compute_multiproduct, reduce, thread_reduce).                          *)
THEOREM ReductionsCorrect ==
  ASSUME ReductionCalls
  PROVE  ReductionSpec => [](reducing.kind # "sum" => SumsCorrect)
<1> DEFINE Next == (\E c \in Reductions : BeginReduction(c)) \/ ReductionStep
<1>1. ReductionIdle => ReductionInv
  BY DEF ReductionIdle, ReductionInv
<1>2. ReductionInv /\ [Next]_reductionVars => reducing'.kind = "sum" \/ ReductionInv'
  <2> SUFFICES ASSUME ReductionInv, [Next]_reductionVars
               PROVE  reducing'.kind = "sum" \/ ReductionInv'
    OBVIOUS
  <2>1. CASE \E c \in Reductions : BeginReduction(c)
    <3>1. PICK c \in Reductions : BeginReduction(c)
      BY <2>1
    <3>2. CASE c.kind = "sum"
      BY <3>1, <3>2 DEF BeginReduction
    <3>3. CASE IsMultiproduct(c)
      BY <3>1, <3>3, BeginKeepsReduction
    <3> QED BY <3>2, <3>3 DEF ReductionCalls
  <2>2. CASE ThreadStep
    BY <2>2, ThreadsKeepReduction
  <2>3. CASE NextBlock
    BY <2>3, NextBlockKeepsReduction
  <2>4. CASE ReducePartials
    BY <2>4 DEF ReducePartials, ReductionInv, BlockInv, GridOK
  <2>5. CASE Complete
    BY <2>5, CompleteKeepsReduction
  <2>6. CASE UNCHANGED reductionVars
    <3>1. UNCHANGED <<reducing, kernel, block, width, shared, out, sums>>
      BY <2>6 DEF reductionVars
    <3>2. CASE reducing = NoReduction
      BY <3>1, <3>2 DEF ReductionInv
    <3>3. CASE reducing # NoReduction
      <4>1. GridInv /\ BlockInv /\ EarlierBlocks /\ (sums = <<>> \/ sums = Expected)
        BY <3>3 DEF ReductionInv
      <4>2. BlockInv'
        BY <2>6, <4>1, ThreadStepKeepsBlock
      <4>3. GridInv' /\ EarlierBlocks' /\ (sums = <<>> \/ sums = Expected)'
        BY <3>1, <4>1 DEF GridInv, EarlierBlocks, Expected
      <4> QED BY <3>1, <3>3, <4>2, <4>3 DEF ReductionInv
    <3> QED BY <3>2, <3>3
  <2> QED BY <2>1, <2>2, <2>3, <2>4, <2>5, <2>6 DEF ReductionStep
<1>3. reducing.kind = "sum" /\ [Next]_reductionVars => reducing'.kind = "sum"
  <2> SUFFICES ASSUME reducing.kind = "sum", [Next]_reductionVars
               PROVE  reducing'.kind = "sum"
    OBVIOUS
  <2>1. CASE \E c \in Reductions : BeginReduction(c)
    BY <2>1 DEF BeginReduction, NoReduction
  <2>2. CASE ThreadStep
    BY <2>2 DEF ThreadStep, Load, Accumulate, WriteSum, WriteCoefficients
  <2>3. CASE NextBlock \/ ReducePartials \/ Complete
    BY <2>3 DEF NextBlock, ReducePartials, Complete
  <2>4. CASE UNCHANGED reductionVars
    BY <2>4 DEF reductionVars
  <2> QED BY <2>1, <2>2, <2>3, <2>4 DEF ReductionStep
<1>4. reducing.kind = "sum" \/ ReductionInv => (reducing.kind # "sum" => SumsCorrect)
  BY DEF ReductionInv, SumsCorrect, ReductionReturned
<1>5. (reducing.kind = "sum")' <=> reducing'.kind = "sum"
  OBVIOUS
<1>6. ReductionSpec => ReductionIdle /\ [][Next]_reductionVars
  BY DEF ReductionSpec
<1> HIDE DEF Next
<1>7. ReductionSpec => [](reducing.kind = "sum" \/ ReductionInv)
  BY <1>1, <1>2, <1>3, <1>5, <1>6, PTL
<1> QED BY <1>4, <1>7, PTL

================================================================================
