------------------------------ MODULE Multiproduct -----------------------------
(***************************************************************************)
(* Sums of given inputs, many at a time, by Pippenger's algorithm on the   *)
(* host: compute_multiproduct of sxt/multiexp/pippenger_multiprod, with    *)
(* the tables of indexes of sxt/multiexp/index it works on and the CPU's   *)
(* driver of sxt/multiexp/curve.                                           *)
(*                                                                         *)
(* Everything is done in place.  inout holds the inputs and, in the end,   *)
(* the sums.  A row of the products says which inputs an output is the     *)
(* sum of.  Inputs that nothing is to be gained from any more are          *)
(* inactive: they move to the front of inout and stay there, while the     *)
(* active ones after them are replaced by sums of several of them.         *)
(***************************************************************************)
EXTENDS IndexRange, GroupSums, SequencesExt

(* row[0], and what comes before and after the place row[1] counts; the    *)
(* inactive indexes count from the start of inout, the active ones from    *)
(* the first active input                                                  *)
Row(out, active) == [out |-> out, inactive |-> <<>>, active |-> active]

Ascending(S) ==
  IF S = {} THEN <<>>
  ELSE SelectSeq([i \in 1 .. Max(S) + 1 |-> i - 1], LAMBDA i : i \in S)

PlaceIn(S, x) == Cardinality({y \in S : y < x})

Entries(rows) == UNION {ToSet(rows[r]) : r \in DOMAIN rows}

NumEntries(rows) == Total(DOMAIN rows, LAMBDA r : Len(rows[r]))

Actives(products, outputs) ==
  [r \in 1 .. Len(products) - outputs |-> products[outputs + r].active]

WithActives(products, outputs, rows) ==
  [r \in DOMAIN products |->
     IF r <= outputs THEN products[r] ELSE [products[r] EXCEPT !.active = rows[r - outputs]]]

(* std::copy_n to the start of a span: one that is too short would grow *)
CopyTo(values, span) == values \o SubSeq(span, Len(values) + 1, Len(span))

Subspan(span, first) == SubSeq(span, first + 1, Len(span))

WithSubspan(span, first, new) == SubSeq(span, 1, first) \o new

-----------------------------------------------------------------------------
(* index: markers stand for several indexes of a row, which is ascending *)

(* The marker of a partition has a bit for each of its indexes *)
PartitionMarkers(indexes, size) ==
  LET Marker(p) == p * 2 ^ size + Total({i \in ToSet(indexes) : i \div size = p},
                                        LAMBDA i : 2 ^ (i % size))
  IN  Ascending({Marker(p) : p \in {i \div size : i \in ToSet(indexes)}})

SubsetCount(size) == (size * (size - 1)) \div 2 + size

FirstWith(size, index1) == size * index1 - (index1 * (index1 - 1)) \div 2

ClumpMarker(size, clump_index, index1, index2) ==
  clump_index * SubsetCount(size) + FirstWith(size, index1) + (index2 - index1)

(***************************************************************************)
(* A slip one could make in UnpackClumpMarker.  No specification uses it;  *)
(* it shows that HostCorrect of HostMultiexp would notice.                 *)
(***************************************************************************)
BugRootRoundedDown(size, marker) ==
  LET clump_index == marker \div SubsetCount(size)
      rest == marker % SubsetCount(size)
      root == Max({k \in 0 .. 2 * size + 1 : k * k <= 4 * size * size + 4 * size + 1 - 8 * rest})
      index1 == (2 * size + 1 - root) \div 2
  IN  <<clump_index * size + index1,
        clump_index * size + rest - FirstWith(size, index1) + index1>>

(* The two indexes of a marker, by the quadratic formula with a correctly  *)
(* rounded root; their difference to 2 size + 1 is rounded down            *)
UnpackClumpMarker(size, marker) ==
  LET clump_index == marker \div SubsetCount(size)
      rest == marker % SubsetCount(size)
      root == Min({k \in 0 .. 2 * size + 1 : k * k >= 4 * size * size + 4 * size + 1 - 8 * rest})
      index1 == (2 * size + 1 - root) \div 2
  IN  <<clump_index * size + index1,
        clump_index * size + rest - FirstWith(size, index1) + index1>>

(* consume_clump2_marker as long as there are indexes: the first one and,  *)
(* if it is in the same clump, the second                                  *)
RECURSIVE ClumpMarkers(_, _)
ClumpMarkers(indexes, size) ==
  IF indexes = <<>> THEN <<>>
  ELSE LET clump_index == indexes[1] \div size
           index1 == indexes[1] - clump_index * size
           index2 == IF Len(indexes) > 1 THEN indexes[2] - clump_index * size ELSE size
       IN  IF index2 >= size
           THEN <<ClumpMarker(size, clump_index, index1, index1)>>
                  \o ClumpMarkers(Subspan(indexes, 1), size)
           ELSE <<ClumpMarker(size, clump_index, index1, index2)>>
                  \o ClumpMarkers(Subspan(indexes, 2), size)

(* reindex_rows: entries of ascending rows become their places among the   *)
(* values that occur                                                       *)
Reindexed(rows) ==
  [r \in DOMAIN rows |-> [k \in DOMAIN rows[r] |-> PlaceIn(Entries(rows), rows[r][k])]]

Transposed(rows, distinct_entry_count) ==
  [x \in 1 .. distinct_entry_count |->
     Ascending({r \in 0 .. Len(rows) - 1 : x - 1 \in ToSet(rows[r + 1])})]

-----------------------------------------------------------------------------
(* prune_rows.  What only one row uses, or only rows with nothing else     *)
(* active, becomes inactive; rows that end up without active entries are   *)
(* swapped to the front.  The markers, of which the entries are the        *)
(* indexes, are rearranged the same way.                                   *)

Isolated(products, outputs, num_markers) ==
  LET Using(i) == {r \in outputs + 1 .. Len(products) : i \in ToSet(products[r].active)}
  IN  {i \in 0 .. num_markers - 1 :
         \/ Cardinality(Using(i)) = 1
         \/ {Len(products[r].active) : r \in Using(i)} = {1}}

(* A row without its isolated entries, and with the places of the others *)
PrunedRow(row, inputs, isolated, others) ==
  LET Taken == SelectSeq(row.active, LAMBDA i : i \in isolated)
      Left == SelectSeq(row.active, LAMBDA i : i \in others)
  IN  [row EXCEPT
         !.inactive = @ \o [k \in DOMAIN Taken |-> inputs + PlaceIn(isolated, Taken[k])],
         !.active = [k \in DOMAIN Left |-> PlaceIn(others, Left[k])]]

SweepRow(t, r, row) ==
  IF row.active # <<>> THEN [t EXCEPT !.products[r] = row]
  ELSE [products |-> [t.products EXCEPT ![r] = t.products[t.outputs + 1],
                                        ![t.outputs + 1] = row],
        outputs |-> t.outputs + 1]

PruneIsolated(products, markers, outputs, inputs, isolated, others) ==
  LET Swept(t, r) == SweepRow(t, r, PrunedRow(t.products[r], inputs, isolated, others))
      order == Ascending(isolated) \o Ascending(others)
  IN  FoldLeft(Swept, [products |-> products, outputs |-> outputs],
               [k \in 1 .. Len(products) - outputs |-> outputs + k])
      @@ [inputs |-> inputs + Cardinality(isolated),
          markers |-> [k \in DOMAIN markers |-> markers[order[k] + 1]]]

PruneRows(products, markers, outputs, inputs) ==
  LET isolated == Isolated(products, outputs, Len(markers))
  IN  IF isolated = {}
      THEN [products |-> products, markers |-> markers, outputs |-> outputs, inputs |-> inputs]
      ELSE PruneIsolated(products, markers, outputs, inputs, isolated,
                         (0 .. Len(markers) - 1) \ isolated)

-----------------------------------------------------------------------------
(* The CPU's driver *)

PermuteInputs(inputs, permutation) ==
  CopyTo([k \in DOMAIN permutation |-> inputs[permutation[k] + 1]], inputs)

(* The sums of partitions come out of a cache of partial sums *)
ApplyPartitionOperation(inputs, markers, size) ==
  LET PartitionSum(marker) ==
        LET first == (marker \div 2 ^ size) * size
        IN  SumFrom(0, AtMost(size, Len(inputs) - first) - 1,
                    LAMBDA j : IF (marker \div 2 ^ j) % 2 = 1 THEN inputs[first + j + 1] ELSE Zero)
  IN  CopyTo([k \in DOMAIN markers |-> PartitionSum(markers[k])], inputs)

ApplyClump2Operation(inputs, markers, size) ==
  LET ClumpSum(u) == IF u[1] = u[2] THEN inputs[u[1] + 1]
                     ELSE Plus(inputs[u[1] + 1], inputs[u[2] + 1])
  IN  CopyTo([k \in DOMAIN markers |-> ClumpSum(UnpackClumpMarker(size, markers[k]))], inputs)

NaiveMultiproduct(inputs, products, num_inactive_inputs) ==
  LET Added(first, indexes, sum) ==
        FoldLeft(LAMBDA x, i : Plus(x, inputs[first + i + 1]), sum, indexes)
      Output(row) == Added(num_inactive_inputs, row.active, Added(0, row.inactive, Zero))
  IN  CopyTo([o \in DOMAIN products |->
                Output(CHOOSE row \in ToSet(products) : row.out = o - 1)], inputs)

-----------------------------------------------------------------------------
(* compute_multiproduct.  m is what it works on: inout, the products, how  *)
(* many of them are inactive (outputs) and how many inputs are (inputs).   *)

CeilLog2Of(n) == CHOOSE k \in 0 .. n : 2 ^ k >= n /\ (k = 0 \/ 2 ^ (k - 1) < n)

(* compute_multiproduct_params *)
PartitionSize(num_outputs, num_inputs) ==
  LET size == CeilLog2Of(num_outputs * num_inputs)
  IN  IF num_inputs = 0 \/ size <= 3 \/ size >= num_inputs \div 2 THEN 0 ELSE size

(* num_inputs / log2(num_inputs + 1), rounded up *)
ClumpSize(num_inputs) ==
  CHOOSE c \in 0 .. num_inputs :
    /\ (num_inputs + 1) ^ c >= 2 ^ num_inputs
    /\ c = 0 \/ (num_inputs + 1) ^ (c - 1) < 2 ^ num_inputs

(* The inputs in the order of the markers that pruning has rearranged *)
PermutePruned(m, pruned) ==
  [products |-> pruned.products, outputs |-> pruned.outputs, inputs |-> pruned.inputs,
   inout |-> WithSubspan(m.inout, m.inputs,
                         PermuteInputs(Subspan(m.inout, m.inputs), pruned.markers))]

PruneAndPermuteProducts(m, num_active_inputs) ==
  PermutePruned(m, PruneRows(m.products, [k \in 1 .. num_active_inputs |-> k - 1],
                             m.outputs, m.inputs))

(* partition_inputs, and what follows it.  The markers of all rows, in     *)
(* ascending order, become the inputs.                                     *)
PartitionInto(m, size, marked, markers) ==
  PruneAndPermuteProducts(
    [m EXCEPT !.products = WithActives(@, m.outputs, Reindexed(marked)),
              !.inout = WithSubspan(@, m.inputs, ApplyPartitionOperation(
                                                   Subspan(@, m.inputs), markers, size))],
    Len(markers))

PartitionInputs(m, size) ==
  LET rows == Actives(m.products, m.outputs)
      marked == [r \in DOMAIN rows |-> PartitionMarkers(rows[r], size)]
  IN  PartitionInto(m, size, marked, Ascending(Entries(marked)))

(* clump_inputs, with the numbers of terms before and after *)
ClumpInto(m, size, marked, markers) ==
  LET pruned == PruneRows(WithActives(m.products, m.outputs, Reindexed(marked)), markers,
                          m.outputs, m.inputs)
  IN  [products |-> pruned.products, outputs |-> pruned.outputs, inputs |-> pruned.inputs,
       inout |-> WithSubspan(m.inout, m.inputs, ApplyClump2Operation(
                   Subspan(m.inout, m.inputs), pruned.markers, size)),
       prev_num_terms |-> NumEntries(marked), num_terms |-> Len(markers)]

ClumpInputs(m, size) ==
  LET rows == Actives(m.products, m.outputs)
      marked == [r \in DOMAIN rows |-> ClumpMarkers(rows[r], size)]
  IN  ClumpInto(m, size, marked, Ascending(Entries(marked)))

(* compute_clumped_output_table: which inputs two outputs of a clump, or   *)
(* one alone, have in common                                               *)
ClumpedOutputTable(rows, num_active_inputs, size) ==
  LET table_p == Transposed(rows, num_active_inputs)
      marked == [x \in DOMAIN table_p |-> ClumpMarkers(table_p[x], size)]
      output_clumps == Ascending(Entries(marked))
      table == Transposed(Reindexed(marked), Len(output_clumps))
  IN  [simpler |-> NumEntries(rows) - Len(rows) # NumEntries(marked) - Len(output_clumps),
       output_clumps |-> output_clumps,
       table |-> [k \in DOMAIN table |-> Row(k - 1, table[k])]]

(* rewrite_multiproducts_with_output_clumps *)
RewrittenRows(num_rows, output_clumps, size) ==
  [r \in 1 .. num_rows |->
     Ascending({k \in 0 .. Len(output_clumps) - 1 :
                  r - 1 \in ToSet(UnpackClumpMarker(size, output_clumps[k + 1]))})]

RECURSIVE ComputeMultiproduct(_, _, _), Reduced(_, _)

(* What a round of the loop does once it has clumped the inputs.  When     *)
(* that has saved nothing the loop ends, with the number of inactive       *)
(* inputs left as it was.                                                  *)
ReduceClumped(m, clumped, rows, num_active_inputs, size) ==
  LET outer == ClumpedOutputTable(rows, num_active_inputs, size)
      solved == ComputeMultiproduct(Subspan(clumped.inout, clumped.inputs), outer.table,
                                    num_active_inputs)
      rewritten ==
        [inout |-> WithSubspan(clumped.inout, clumped.inputs, solved),
         products |-> WithActives(clumped.products, clumped.outputs,
                        RewrittenRows(Len(rows), outer.output_clumps, size)),
         outputs |-> clumped.outputs, inputs |-> clumped.inputs]
  IN  IF clumped.prev_num_terms = clumped.num_terms THEN [clumped EXCEPT !.inputs = m.inputs]
      ELSE IF ~ outer.simpler THEN clumped
      ELSE Reduced(PruneAndPermuteProducts(rewritten, Len(outer.output_clumps)), size)

(* The loop of compute_multiproduct *)
Reduced(m, size) ==
  LET Clumped(clumped) ==
        ReduceClumped(m, clumped, Actives(clumped.products, clumped.outputs),
                      clumped.num_terms - (clumped.inputs - m.inputs), size)
  IN  IF m.outputs = Len(m.products) THEN m ELSE Clumped(ClumpInputs(m, size))

(* From the first pruning on: the sizes are chosen for what is active *)
ReduceStarted(start, num_active_inputs) ==
  LET size == PartitionSize(Len(start.products) - start.outputs, num_active_inputs)
  IN  Reduced(IF size > 0 THEN PartitionInputs(start, size) ELSE start,
              ClumpSize(num_active_inputs))

ComputeMultiproduct(inout, products, num_inputs) ==
  LET Started(start) == ReduceStarted(start, num_inputs - start.inputs)
      Naive(result) == NaiveMultiproduct(result.inout, result.products, result.inputs)
  IN  Naive(Started(PruneAndPermuteProducts(
        [inout |-> inout, products |-> products, outputs |-> 0, inputs |-> 0], num_inputs)))

===============================================================================
