----------------------------- MODULE LayerPlan -----------------------------
(***************************************************************************)
(* split/plan.py: how many blocks each GPU gets, and which block goes      *)
(* where.  The behaviour is one call of plan_block_devices, which runs     *)
(* plan_gpu_layers, which runs weighted_split; the loop over the GPUs is   *)
(* one step per GPU.                                                       *)
(*                                                                         *)
(* Free VRAM is a whole number of some unit.  The code divides floats; a   *)
(* rounding error there moves a quotient across an integer only together   *)
(* with its remainder, so it changes no size, except which of two GPUs of  *)
(* different weights with equal remainders comes first.  Here the lower    *)
(* index does, as it does for GPUs of equal weight.                        *)
(***************************************************************************)
EXTENDS Integers, Sequences, FiniteSets

CONSTANTS
  Blocks,      \* values of num_blocks (a bound of the model)
  FreeLists,   \* values of gpu_free_gb: sequences of integers
  IndexLists,  \* values of gpu_indices that are not None
  None

ASSUME BlocksAssumption == Blocks \subseteq Int
ASSUME FreeAssumption == FreeLists \subseteq Seq(Int)
ASSUME IndexAssumption ==
  IndexLists \subseteq Seq(Nat) /\ None \notin IndexLists /\ None \notin Nat

SumTo(s, n) ==
  LET sum[i \in 0..n] == IF i = 0 THEN 0 ELSE sum[i - 1] + s[i] IN sum[n]
Sum(s) == SumTo(s, Len(s))

(***************************************************************************)
(* weighted_split                                                          *)
(***************************************************************************)
Clamped(weights) == [i \in DOMAIN weights |-> IF weights[i] > 0 THEN weights[i] ELSE 0]

EvenSplit(n, k) ==
  [i \in 1..k |-> (n \div k) + (IF i <= n % k THEN 1 ELSE 0)]

\* Position i of the stable sort by descending remainder comes after those of
\* Ahead(i).
Ahead(remainder, i) ==
  {j \in DOMAIN remainder :
     remainder[j] > remainder[i] \/ (remainder[j] = remainder[i] /\ j < i)}

\* Fault: the leftover goes to the first buckets, whatever their weight.
LargestRemainder_FirstBuckets(n, w) ==
  LET quota == [i \in DOMAIN w |-> (n * w[i]) \div Sum(w)] IN
  [i \in DOMAIN w |-> quota[i] + (IF i <= n - Sum(quota) THEN 1 ELSE 0)]

\* Fault: quotas are rounded down and the leftover is lost.
LargestRemainder_Floored(n, w) == [i \in DOMAIN w |-> (n * w[i]) \div Sum(w)]

LargestRemainder(n, w) ==
  LET total == Sum(w)
      quota == [i \in DOMAIN w |-> (n * w[i]) \div total]
      remainder == [i \in DOMAIN w |-> (n * w[i]) % total]
      left == n - Sum(quota)
  IN [i \in DOMAIN w |->
        quota[i] + (IF Cardinality(Ahead(remainder, i)) < left THEN 1 ELSE 0)]

WeightedSplit(n, weights) ==
  IF n <= 0 THEN [i \in DOMAIN weights |-> 0]
  ELSE IF Sum(Clamped(weights)) = 0 THEN EvenSplit(n, Len(weights))
  ELSE LargestRemainder(n, Clamped(weights))

(***************************************************************************)
(* stage_layer_ranges and spans_from_placement                             *)
(***************************************************************************)
\* Fault: every stage gets the same number, and the rest is nobody's.
StageLayerRanges_NoRest(layers, stages) ==
  [s \in 1..stages |->
     [layer_start |-> (s - 1) * (layers \div stages), layer_end |-> s * (layers \div stages)]]

\* A pipeline of no stages is refused.
StageLayerRanges(layers, stages) ==
  LET per == layers \div stages IN
  IF stages <= 0 THEN "ValueError"
  ELSE [s \in 1..stages |->
          [layer_start |-> (s - 1) * per,
           layer_end |-> IF s = stages THEN layers ELSE s * per]]

\* Fault: sorted by GPU, not by layer.
Before_ByGpu(a, b) == a.gpu_index < b.gpu_index

\* The spans of a set of slots, in the order sorted() puts them: a slot without
\* an index, or that covers no layer, is dropped.
Before(a, b) ==
  a.layer_start < b.layer_start
    \/ (a.layer_start = b.layer_start /\ a.gpu_index < b.gpu_index)

SpansFromPlacement(slots) ==
  LET kept == {s \in slots : s.gpu_index # None /\ s.layer_end > s.layer_start}
      rank(s) == 1 + Cardinality({t \in kept : Before(t, s)})
  IN [k \in 1..Cardinality(kept) |-> CHOOSE s \in kept : rank(s) = k]

(***************************************************************************)
(* plan_block_devices                                                      *)
(***************************************************************************)
VARIABLES
  call,     \* the arguments
  at,       \* where the call is, or how it ended
  gpu,      \* the loop's position in the GPU list
  sizes,    \* what weighted_split returned
  spans,    \* the spans planned so far
  cursor,   \* the first layer not planned yet
  devices   \* devices[i]: the GPU of block i - 1

vars == <<call, at, gpu, sizes, spans, cursor, devices>>

Calls ==
  [num_blocks : Blocks, gpu_free_gb : FreeLists,
   gpu_indices : IndexLists \cup {None}, mode : {"weighted", "equal"}]

Init ==
  /\ call \in Calls
  /\ at = "called" /\ gpu = 1
  /\ sizes = <<>> /\ spans = <<>> /\ cursor = 0 /\ devices = <<>>

NoGpus == call.num_blocks > 0 /\ call.gpu_free_gb = <<>>
Unpaired == call.gpu_indices # None /\ Len(call.gpu_indices) # Len(call.gpu_free_gb)

\* Fault: gpu_indices is checked, and then not used.
Indices_Ignored == [i \in DOMAIN call.gpu_free_gb |-> i - 1]

Indices ==
  IF call.gpu_indices # None THEN call.gpu_indices
  ELSE [i \in DOMAIN call.gpu_free_gb |-> i - 1]

ModeWeights ==
  IF call.mode = "equal" THEN [i \in DOMAIN call.gpu_free_gb |-> 1] ELSE call.gpu_free_gb

Reject ==
  /\ at = "called"
  /\ NoGpus \/ Unpaired
  /\ at' = "ValueError"
  /\ UNCHANGED <<call, gpu, sizes, spans, cursor, devices>>

SplitLayers ==
  /\ at = "called"
  /\ ~NoGpus /\ ~Unpaired
  /\ sizes' = WeightedSplit(call.num_blocks, ModeWeights)
  /\ at' = "loop"
  /\ UNCHANGED <<call, gpu, spans, cursor, devices>>

\* Fault: the spans overlap by one layer.
AddSpan_Overlapping ==
  /\ at = "loop" /\ gpu \in 1..Len(sizes)
  /\ sizes[gpu] > 0
  /\ spans' = Append(spans, [gpu_index |-> Indices[gpu],
                             layer_start |-> cursor, layer_end |-> cursor + sizes[gpu]])
  /\ cursor' = cursor + sizes[gpu] - 1
  /\ gpu' = gpu + 1
  /\ UNCHANGED <<call, at, sizes, devices>>

AddSpan ==
  /\ at = "loop" /\ gpu \in 1..Len(sizes)
  /\ sizes[gpu] > 0
  /\ spans' = Append(spans, [gpu_index |-> Indices[gpu],
                             layer_start |-> cursor, layer_end |-> cursor + sizes[gpu]])
  /\ cursor' = cursor + sizes[gpu]
  /\ gpu' = gpu + 1
  /\ UNCHANGED <<call, at, sizes, devices>>

\* Fault: the GPU after an idle one is skipped as well.
SkipGpu_Twice ==
  /\ at = "loop" /\ gpu \in 1..Len(sizes)
  /\ sizes[gpu] <= 0
  /\ gpu' = gpu + 2
  /\ UNCHANGED <<call, at, sizes, spans, cursor, devices>>

SkipGpu ==
  /\ at = "loop" /\ gpu \in 1..Len(sizes)
  /\ sizes[gpu] <= 0
  /\ gpu' = gpu + 1
  /\ UNCHANGED <<call, at, sizes, spans, cursor, devices>>

\* The device of each block, None where no span covers it; a later span
\* overwrites an earlier one.
Placed ==
  [b \in 1..call.num_blocks |->
     LET covering == {k \in DOMAIN spans :
                        spans[k].layer_start < b /\ b <= spans[k].layer_end}
     IN IF covering = {} THEN None
        ELSE spans[CHOOSE k \in covering : \A j \in covering : j <= k].gpu_index]

PlaceBlocks ==
  /\ at = "loop" /\ gpu = Len(sizes) + 1
  /\ devices' = Placed
  /\ at' = IF \E b \in DOMAIN Placed : Placed[b] = None THEN "RuntimeError" ELSE "returned"
  /\ UNCHANGED <<call, gpu, sizes, spans, cursor>>

Next == Reject \/ SplitLayers \/ AddSpan \/ SkipGpu \/ PlaceBlocks

Spec == Init /\ [][Next]_vars

(***************************************************************************)
(* Properties                                                              *)
(***************************************************************************)
Span == [gpu_index : Nat, layer_start : Nat, layer_end : Nat]

\* Every variable has its type.
TypeOK ==
  /\ call \in Calls
  /\ at \in {"called", "loop", "ValueError", "RuntimeError", "returned"}
  /\ gpu \in 1..(Len(sizes) + 1)
  /\ sizes \in Seq(Nat)
  /\ spans \in Seq(Span)
  /\ cursor \in Nat
  /\ devices \in Seq(Nat \cup {None})

\* The sizes add up to the blocks there are, and no GPU is more than one block
\* off its exact share (plan.py:35, "the sizes sum exactly to num_layers").
SizesAreExactShares ==
  at = "loop" /\ call.num_blocks > 0 /\ sizes # <<>> =>
    LET w == Clamped(ModeWeights)
        total == Sum(w)
    IN /\ Sum(sizes) = call.num_blocks
       /\ total > 0 => \A i \in DOMAIN sizes :
            /\ (sizes[i] - 1) * total < call.num_blocks * w[i]
            /\ call.num_blocks * w[i] < (sizes[i] + 1) * total

\* A GPU with more free memory never gets fewer blocks, and one with none gets
\* none, unless no GPU has any.
HeavierGetsNoFewer ==
  at = "loop" /\ sizes # <<>> =>
    LET w == Clamped(ModeWeights) IN
    /\ \A i, j \in DOMAIN sizes : w[i] > w[j] => sizes[i] >= sizes[j]
    /\ Sum(w) > 0 => \A i \in DOMAIN sizes : w[i] = 0 => sizes[i] = 0

\* At every turn of the loop the spans tile [0, cursor): none is empty, none
\* overlaps the next, none leaves a gap.
SpansTile ==
  /\ \A k \in DOMAIN spans :
       /\ spans[k].layer_start < spans[k].layer_end
       /\ spans[k].layer_start = IF k = 1 THEN 0 ELSE spans[k - 1].layer_end
  /\ cursor = IF spans = <<>> THEN 0 ELSE spans[Len(spans)].layer_end

\* The RuntimeError the code calls "a bug in the planner" (plan.py:172) is
\* unreachable: whatever is accepted gets every block a device, GPU by GPU in
\* the order of the list, as many blocks on each as were allotted.
EveryBlockPlaced ==
  /\ at # "RuntimeError"
  /\ at = "returned" =>
       /\ Len(devices) = IF call.num_blocks > 0 THEN call.num_blocks ELSE 0
       /\ \A i \in DOMAIN sizes : \A b \in 1..sizes[i] :
            devices[SumTo(sizes, i - 1) + b] =
              IF call.gpu_indices = None THEN i - 1 ELSE call.gpu_indices[i]

\* The plan survives the trip through a placement payload: its slots, in any
\* order and with the idle GPUs' empty slots between them, give back its spans.
PlacementRoundTrips ==
  at = "returned" =>
    SpansFromPlacement(
      {spans[k] : k \in DOMAIN spans}
        \cup {[gpu_index |-> g, layer_start |-> cursor, layer_end |-> cursor] :
                g \in {Indices[i] : i \in DOMAIN sizes}}) = spans

\* The pipeline's stages tile the layers, for any number of stages.
StageRangesTile ==
  at = "called" /\ call.num_blocks >= 0 => \A stages \in 1..(call.num_blocks + 1) :
    LET ranges == StageLayerRanges(call.num_blocks, stages) IN
    /\ ranges[1].layer_start = 0
    /\ ranges[stages].layer_end = call.num_blocks
    /\ \A s \in 1..stages :
         /\ ranges[s].layer_start <= ranges[s].layer_end
         /\ s < stages => ranges[s + 1].layer_start = ranges[s].layer_end
=============================================================================
