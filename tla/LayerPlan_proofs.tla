-------------------------- MODULE LayerPlan_proofs --------------------------
(***************************************************************************)
(* The planner's properties, for any number of blocks, any free memory and *)
(* any GPU indices.  What weighted_split returns is WeightedSplit_proofs;  *)
(* here is the loop over the GPUs: its cursor is the sum of the sizes      *)
(* planned so far, and every GPU passed that has blocks has its span.      *)
(***************************************************************************)
EXTENDS WeightedSplit_proofs

Planned == at \in {"loop", "returned", "RuntimeError"}

\* The span of the GPU at position i of the list.
SpanOf(i) == [gpu_index |-> Indices[i],
              layer_start |-> SumTo(sizes, i - 1), layer_end |-> SumTo(sizes, i)]

\* What is known of the arguments and the sizes.
SplitInv ==
  IF Planned
  THEN ~NoGpus /\ ~Unpaired /\ sizes = WeightedSplit(call.num_blocks, ModeWeights)
  ELSE gpu = 1 /\ sizes = <<>> /\ spans = <<>> /\ cursor = 0 /\ devices = <<>>

\* The spans are in order, and reach the cursor at most.
SpansOrdered ==
  /\ \A k \in DOMAIN spans : spans[k].layer_end <= cursor
  /\ \A j, k \in DOMAIN spans : j < k => spans[j].layer_end <= spans[k].layer_start

SpansComplete ==
  /\ cursor = SumTo(sizes, gpu - 1)
  /\ \A i \in 1..(gpu - 1) : sizes[i] > 0 => \E k \in DOMAIN spans : spans[k] = SpanOf(i)

Ended ==
  /\ at \in {"returned", "RuntimeError"} => gpu = Len(sizes) + 1 /\ devices = Placed
  /\ at = "RuntimeError" => \E b \in DOMAIN Placed : Placed[b] = None

IInv == TypeOK /\ SplitInv /\ SpansTile /\ SpansOrdered /\ SpansComplete /\ Ended

(***************************************************************************)
(* The arguments                                                           *)
(***************************************************************************)
\* The arguments of an accepted call have their types, and there is an index
\* for each GPU.
LEMMA Arguments ==
  ASSUME call \in Calls
  PROVE  /\ call.num_blocks \in Int /\ call.gpu_free_gb \in Seq(Int)
         /\ ModeWeights \in Seq(Int) /\ Len(ModeWeights) = Len(call.gpu_free_gb)
         /\ ~Unpaired => Indices \in [1..Len(call.gpu_free_gb) -> Nat]
         /\ \A i \in 1..Len(call.gpu_free_gb) :
              Indices[i] = IF call.gpu_indices = None THEN i - 1 ELSE call.gpu_indices[i]
<1> DEFINE free == call.gpu_free_gb
           given == call.gpu_indices
<1>1. /\ call.num_blocks \in Int /\ free \in Seq(Int)
      /\ given \in Seq(Nat) \/ given = None
  BY BlocksAssumption, FreeAssumption, IndexAssumption DEF Calls
<1>2. DOMAIN free = 1..Len(free) /\ Len(free) \in Nat
  BY <1>1
<1>3. ModeWeights \in Seq(Int) /\ Len(ModeWeights) = Len(free)
  <2>1. CASE call.mode = "equal"
    <3>1. ModeWeights = [i \in 1..Len(free) |-> 1]
      BY <1>2, <2>1 DEF ModeWeights
    <3>2. ModeWeights \in [1..Len(free) -> Int]
      BY <3>1
    <3> QED
      BY <1>2, <3>2, LengthOfFunction
  <2>2. CASE call.mode # "equal"
    BY <1>1, <2>2 DEF ModeWeights
  <2> QED
    BY <2>1, <2>2
<1>4. ASSUME ~Unpaired PROVE Indices \in [1..Len(free) -> Nat]
  <2>1. CASE given = None
    <3>1. Indices = [i \in 1..Len(free) |-> i - 1]
      BY <1>2, <2>1 DEF Indices
    <3> QED
      BY <3>1
  <2>2. CASE given # None
    <3>1. Indices = given /\ Len(given) = Len(free)
      BY <1>4, <2>2 DEF Indices, Unpaired
    <3> QED
      BY <1>1, <2>2, <3>1
  <2> QED
    BY <2>1, <2>2
<1>5. \A i \in 1..Len(free) : Indices[i] = IF given = None THEN i - 1 ELSE given[i]
  BY <1>2 DEF Indices
<1> QED
  BY <1>1, <1>3, <1>4, <1>5

\* What the invariant says of the sizes, once there are any.
LEMMA Sizes ==
  ASSUME IInv, Planned, NEW m, m = Len(sizes)
  PROVE  /\ m \in Nat /\ m = Len(call.gpu_free_gb) /\ DOMAIN sizes = 1..m
         /\ sizes \in [1..m -> Nat] /\ sizes \in [1..m -> Int]
         /\ Indices \in [1..m -> Nat]
         /\ call.num_blocks > 0 => SumTo(sizes, m) = call.num_blocks
         /\ call.num_blocks <= 0 => \A i \in 1..m : sizes[i] = 0
<1> DEFINE l == Len(ModeWeights)
           w == Clamped(ModeWeights)
<1>1. /\ call \in Calls /\ ~NoGpus /\ ~Unpaired
      /\ sizes = WeightedSplit(call.num_blocks, ModeWeights) /\ sizes \in Seq(Nat)
  BY DEF IInv, SplitInv, TypeOK
<1>2. /\ call.num_blocks \in Int /\ ModeWeights \in Seq(Int)
      /\ l = Len(call.gpu_free_gb) /\ Indices \in [1..l -> Nat]
      /\ call.gpu_free_gb \in Seq(Int)
  BY <1>1, Arguments
<1>3. /\ sizes \in [1..l -> Nat]
      /\ call.num_blocks > 0 /\ l > 0 => SumTo(sizes, l) = call.num_blocks
      /\ call.num_blocks <= 0 => \A i \in 1..l : sizes[i] = 0
  BY <1>1, <1>2, WeightedSplitSplits
<1>4. l \in Nat
  BY <1>2
<1> HIDE DEF l
<1>5. l = m
  BY <1>3, <1>4, LengthOfFunction
<1>6. call.num_blocks > 0 => l > 0
  BY <1>1, <1>2, <1>4 DEF NoGpus
<1> QED
  BY <1>2, <1>3, <1>4, <1>5, <1>6

(***************************************************************************)
(* The devices of the blocks, when every GPU has been passed               *)
(***************************************************************************)
\* A block within the part of the GPU at position i is placed on that GPU: its
\* span covers it, and no other does.
LEMMA PlacedBySpan ==
  ASSUME IInv, Planned, gpu = Len(sizes) + 1,
         NEW i \in 1..Len(sizes), NEW b \in 1..call.num_blocks,
         SumTo(sizes, i - 1) < b, b <= SumTo(sizes, i)
  PROVE  Placed[b] = Indices[i]
<1> DEFINE m == Len(sizes)
           covering == {k \in DOMAIN spans :
                          spans[k].layer_start < b /\ b <= spans[k].layer_end}
<1>1. /\ m \in Nat /\ sizes \in [1..m -> Nat] /\ sizes \in [1..m -> Int]
  BY Sizes
<1>2. sizes[i] > 0
  <2>1. SumTo(sizes, i) = SumTo(sizes, i - 1) + sizes[i]
    BY <1>1, SumToIsSum
  <2>2. i \in 0..m /\ i - 1 \in 0..m
    BY <1>1
  <2>3. SumTo(sizes, i) \in Int /\ SumTo(sizes, i - 1) \in Int /\ sizes[i] \in Int
    BY <1>1, <2>2, SumToIsSum
  <2> QED
    BY <2>1, <2>3
<1>3. spans \in Seq(Span) /\ SpansOrdered
  BY DEF IInv, TypeOK
<1>4. PICK k \in DOMAIN spans : spans[k] = SpanOf(i)
  <2>1. i \in 1..(gpu - 1)
    BY <1>1
  <2> QED
    BY <1>2, <2>1 DEF IInv, SpansComplete
<1>5. k \in covering
  BY <1>4 DEF SpanOf
<1>6. \A j \in DOMAIN spans : /\ j \in Nat
                             /\ spans[j].layer_start \in Nat /\ spans[j].layer_end \in Nat
  <2>1. ASSUME NEW j \in DOMAIN spans PROVE j \in Nat /\ spans[j] \in Span
    BY <1>3
  <2> QED
    BY <2>1 DEF Span
<1>7. \A j \in covering : j = k
  <2>1. ASSUME NEW j \in covering, j < k PROVE FALSE
    <3>1. spans[j].layer_end <= spans[k].layer_start
      BY <1>3, <2>1 DEF SpansOrdered
    <3>2. b <= spans[j].layer_end /\ spans[k].layer_start < b
      BY <1>5, <2>1
    <3> QED
      BY <1>6, <2>1, <3>1, <3>2
  <2>2. ASSUME NEW j \in covering, k < j PROVE FALSE
    <3>1. spans[k].layer_end <= spans[j].layer_start
      BY <1>3, <2>2 DEF SpansOrdered
    <3>2. b <= spans[k].layer_end /\ spans[j].layer_start < b
      BY <1>5, <2>2
    <3> QED
      BY <1>6, <2>2, <3>1, <3>2
  <2>3. ASSUME NEW j \in covering PROVE j = k
    <3>1. j \in Nat /\ k \in Nat
      BY <1>6
    <3>2. ~(j < k) /\ ~(k < j)
      BY <2>1, <2>2
    <3> QED
      BY <3>1, <3>2
  <2> QED
    BY <2>3
<1>8. Placed[b] = IF covering = {} THEN None
                  ELSE spans[CHOOSE x \in covering : \A j \in covering : j <= x].gpu_index
  BY DEF Placed
<1> HIDE DEF covering
<1>9. (CHOOSE x \in covering : \A j \in covering : j <= x) = k
  <2>1. \A j \in covering : j <= k
    BY <1>6, <1>7
  <2> QED
    BY <1>5, <1>7, <2>1
<1>10. Placed[b] = spans[k].gpu_index
  BY <1>5, <1>8, <1>9
<1> QED
  BY <1>4, <1>10 DEF SpanOf

\* Every block is placed on some GPU.
LEMMA PlacedEverywhere ==
  ASSUME IInv, Planned, gpu = Len(sizes) + 1
  PROVE  /\ \A b \in 1..call.num_blocks : Placed[b] \in Nat
         /\ DOMAIN Placed = 1..call.num_blocks
         /\ Placed \in Seq(Nat)
         /\ Len(Placed) = IF call.num_blocks > 0 THEN call.num_blocks ELSE 0
<1> DEFINE n == call.num_blocks
           m == Len(sizes)
<1>1. /\ m \in Nat /\ sizes \in [1..m -> Nat] /\ Indices \in [1..m -> Nat]
      /\ n > 0 => SumTo(sizes, m) = n
  BY Sizes
<1>2. n \in Int
  BY Arguments DEF IInv, TypeOK
<1>3. ASSUME NEW b \in 1..n PROVE Placed[b] \in Nat
  <2>1. n > 0
    BY <1>2
  <2>2. b \in 1..SumTo(sizes, m)
    BY <1>1, <2>1
  <2> HIDE DEF m
  <2>3. PICK i \in 1..m : SumTo(sizes, i - 1) < b /\ b <= SumTo(sizes, i)
    BY <1>1, <2>2, Locate
  <2>4. Placed[b] = Indices[i]
    BY <2>3, PlacedBySpan DEF m
  <2> QED
    BY <1>1, <2>4
<1>4. DOMAIN Placed = 1..n /\ Placed = [b \in 1..n |-> Placed[b]]
  BY DEF Placed
<1> HIDE DEF n
<1>5. Placed \in [1..n -> Nat]
  BY <1>3, <1>4
<1>6. CASE n > 0
  BY <1>2, <1>3, <1>4, <1>5, <1>6, LengthOfFunction DEF n
<1>7. CASE ~(n > 0)
  <2>1. 1..n = 1..0
    BY <1>2, <1>7
  <2>2. Placed \in [1..0 -> Nat]
    BY <1>5, <2>1
  <2>3. Placed \in Seq(Nat) /\ Len(Placed) = 0
    BY <2>2, LengthOfFunction
  <2> QED
    BY <1>3, <1>4, <1>7, <2>3 DEF n
<1> QED
  BY <1>6, <1>7

(***************************************************************************)
(* The invariant is inductive                                              *)
(***************************************************************************)
\* The invariant holds at the call.
LEMMA Initially == Init => IInv
<1> SUFFICES ASSUME Init PROVE IInv
  OBVIOUS
<1>1. /\ call \in Calls /\ at = "called" /\ gpu = 1 /\ sizes = <<>> /\ spans = <<>>
      /\ cursor = 0 /\ devices = <<>>
  BY DEF Init
<1>2. TypeOK
  BY <1>1 DEF TypeOK
<1>3. SplitInv /\ SpansTile /\ SpansOrdered /\ Ended
  BY <1>1 DEF SplitInv, Planned, SpansTile, SpansOrdered, Ended
<1>4. SpansComplete
  <2>1. <<>> \in [1..0 -> Int]
    OBVIOUS
  <2>2. SumTo(<<>>, 0) = 0
    BY <2>1, SumToIsSum
  <2> QED
    BY <1>1, <2>2 DEF SpansComplete
<1> QED
  BY <1>2, <1>3, <1>4 DEF IInv

\* A rejected call keeps the invariant.
LEMMA RejectKeeps == IInv /\ Reject => IInv'
<1> SUFFICES ASSUME IInv, Reject PROVE IInv'
  OBVIOUS
<1> USE DEF Reject
<1>1. TypeOK'
  BY DEF IInv, TypeOK
<1>2. SplitInv'
  BY DEF IInv, SplitInv, Planned
<1>3. SpansTile' /\ SpansOrdered'
  BY DEF IInv, SpansTile, SpansOrdered
<1>4. SpansComplete'
  BY DEF IInv, SpansComplete, SpanOf, Indices
<1>5. Ended'
  BY DEF Ended
<1> QED
  BY <1>1, <1>2, <1>3, <1>4, <1>5 DEF IInv

\* Computing the sizes keeps it.
LEMMA SplitLayersKeeps == IInv /\ SplitLayers => IInv'
<1> SUFFICES ASSUME IInv, SplitLayers PROVE IInv'
  OBVIOUS
<1>1. /\ at = "called" /\ at' = "loop" /\ ~NoGpus /\ ~Unpaired
      /\ sizes' = WeightedSplit(call.num_blocks, ModeWeights)
      /\ UNCHANGED <<call, gpu, spans, cursor, devices>>
  BY DEF SplitLayers
<1>2. /\ gpu = 1 /\ sizes = <<>> /\ spans = <<>> /\ cursor = 0 /\ devices = <<>>
      /\ call \in Calls
  BY <1>1 DEF IInv, SplitInv, Planned, TypeOK
<1> DEFINE l == Len(ModeWeights)
<1>3. sizes' \in [1..l -> Nat] /\ l \in Nat
  <2>1. call.num_blocks \in Int /\ ModeWeights \in Seq(Int)
    BY <1>2, Arguments
  <2> QED
    BY <1>1, <2>1, WeightedSplitSplits
<1> HIDE DEF l
<1>4. sizes' \in Seq(Nat) /\ Len(sizes') = l
  BY <1>3, LengthOfFunction
<1>5. TypeOK'
  BY <1>1, <1>2, <1>3, <1>4 DEF TypeOK
<1>6. SplitInv'
  BY <1>1 DEF SplitInv, Planned, NoGpus, Unpaired, ModeWeights
<1>7. SpansTile' /\ SpansOrdered' /\ Ended'
  BY <1>1, <1>2 DEF SpansTile, SpansOrdered, Ended
<1>8. SpansComplete'
  <2>1. SumTo(sizes', 0) = 0
    <3>1. sizes' \in [1..l -> Int]
      BY <1>3
    <3> QED
      BY <1>3, <3>1, SumToIsSum
  <2> QED
    BY <1>1, <1>2, <2>1 DEF SpansComplete
<1> QED
  BY <1>5, <1>6, <1>7, <1>8 DEF IInv

\* So does planning the span of a GPU: it starts where the last one ended.
LEMMA AddSpanKeeps == IInv /\ AddSpan => IInv'
<1> SUFFICES ASSUME IInv, AddSpan PROVE IInv'
  OBVIOUS
<1> DEFINE m == Len(sizes)
           n == Len(spans)
           new == [gpu_index |-> Indices[gpu],
                   layer_start |-> cursor, layer_end |-> cursor + sizes[gpu]]
<1>1. /\ at = "loop" /\ gpu \in 1..m /\ sizes[gpu] > 0
      /\ spans' = Append(spans, new) /\ cursor' = cursor + sizes[gpu] /\ gpu' = gpu + 1
      /\ UNCHANGED <<call, at, sizes, devices>>
  BY DEF AddSpan
<1>2. TypeOK /\ SplitInv /\ SpansTile /\ SpansOrdered /\ SpansComplete
  BY DEF IInv
<1>3. /\ m \in Nat /\ sizes \in [1..m -> Nat] /\ sizes \in [1..m -> Int]
      /\ Indices \in [1..m -> Nat]
  BY <1>1, Sizes DEF Planned
<1>4. /\ spans \in Seq(Span) /\ cursor \in Nat /\ n \in Nat /\ DOMAIN spans = 1..n
      /\ sizes[gpu] \in Nat
  BY <1>1, <1>2, <1>3 DEF TypeOK
<1>5. new \in Span /\ new.layer_start = cursor /\ new.layer_end = cursor'
  <2>1. Indices[gpu] \in Nat /\ cursor + sizes[gpu] \in Nat
    BY <1>1, <1>3, <1>4
  <2> QED
    BY <1>1, <1>4, <2>1 DEF Span
<1> HIDE DEF new, n
<1>6. /\ spans' \in Seq(Span) /\ DOMAIN spans' = 1..(n + 1) /\ Len(spans') = n + 1
      /\ \A k \in 1..n : spans'[k] = spans[k]
      /\ spans'[n + 1] = new
  BY <1>1, <1>4, <1>5 DEF n
<1>7. TypeOK'
  BY <1>1, <1>2, <1>3, <1>4, <1>6 DEF TypeOK
<1>8. SplitInv'
  BY <1>1, <1>2 DEF SplitInv, Planned, NoGpus, Unpaired, ModeWeights
<1>9. \A k \in 1..n : /\ spans[k] \in Span
                      /\ spans[k].layer_start \in Nat /\ spans[k].layer_end \in Nat
  <2>1. \A k \in 1..n : spans[k] \in Span
    BY <1>4
  <2> QED
    BY <2>1 DEF Span
<1>10. cursor < cursor' /\ cursor' \in Nat
  BY <1>1, <1>4
<1>11. SpansTile'
  <2>1. ASSUME NEW k \in 1..(n + 1)
        PROVE  /\ spans'[k].layer_start < spans'[k].layer_end
               /\ spans'[k].layer_start = IF k = 1 THEN 0 ELSE spans'[k - 1].layer_end
    <3>1. CASE k = n + 1
      <4>1. cursor = IF n = 0 THEN 0 ELSE spans[n].layer_end
        <5>1. spans = <<>> <=> n = 0
          BY <1>4 DEF n
        <5> QED
          BY <1>2, <5>1 DEF SpansTile, n
      <4>2. n # 0 => n \in 1..n /\ k - 1 = n /\ k # 1
        BY <1>4, <3>1
      <4>3. n = 0 => k = 1
        BY <3>1
      <4> QED
        BY <1>5, <1>6, <1>10, <3>1, <4>1, <4>2, <4>3
    <3>2. CASE k # n + 1
      <4>1. k \in 1..n /\ (k # 1 => k - 1 \in 1..n)
        BY <1>4, <3>2
      <4>2. /\ spans[k].layer_start < spans[k].layer_end
            /\ spans[k].layer_start = IF k = 1 THEN 0 ELSE spans[k - 1].layer_end
        BY <1>2, <1>4, <4>1 DEF SpansTile
      <4> QED
        BY <1>6, <4>1, <4>2
    <3> QED
      BY <3>1, <3>2
  <2>2. spans' # <<>> /\ spans'[Len(spans')].layer_end = cursor'
    BY <1>4, <1>5, <1>6
  <2> QED
    BY <1>6, <2>1, <2>2 DEF SpansTile
<1>12. SpansOrdered'
  <2>1. \A k \in 1..n : spans[k].layer_end <= cursor
    BY <1>2, <1>4 DEF SpansOrdered
  <2>2. ASSUME NEW k \in 1..(n + 1) PROVE spans'[k].layer_end <= cursor'
    <3>1. CASE k = n + 1
      BY <1>5, <1>6, <1>10, <3>1
    <3>2. CASE k # n + 1
      <4>1. k \in 1..n
        BY <1>4, <3>2
      <4>2. spans[k].layer_end <= cursor'
        BY <1>4, <1>9, <1>10, <2>1, <4>1
      <4> QED
        BY <1>6, <4>1, <4>2
    <3> QED
      BY <3>1, <3>2
  <2>3. ASSUME NEW j \in 1..(n + 1), NEW k \in 1..(n + 1), j < k
        PROVE  spans'[j].layer_end <= spans'[k].layer_start
    <3>1. j \in 1..n
      BY <1>4, <2>3
    <3>2. CASE k = n + 1
      BY <1>5, <1>6, <2>1, <3>1, <3>2
    <3>3. CASE k # n + 1
      <4>1. k \in 1..n
        BY <1>4, <3>3
      <4>2. spans[j].layer_end <= spans[k].layer_start
        BY <1>2, <1>4, <2>3, <3>1, <4>1 DEF SpansOrdered
      <4> QED
        BY <1>6, <3>1, <4>1, <4>2
    <3> QED
      BY <3>2, <3>3
  <2> QED
    BY <1>6, <2>2, <2>3 DEF SpansOrdered
<1>13. cursor = SumTo(sizes, gpu - 1) /\ cursor' = SumTo(sizes, gpu)
  <2>1. cursor = SumTo(sizes, gpu - 1)
    BY <1>2 DEF SpansComplete
  <2>2. SumTo(sizes, gpu) = SumTo(sizes, gpu - 1) + sizes[gpu]
    BY <1>1, <1>3, SumToIsSum
  <2> QED
    BY <1>1, <2>1, <2>2
<1>14. new = SpanOf(gpu)
  BY <1>1, <1>13 DEF SpanOf, new
<1>15. SpansComplete'
  <2>1. sizes' = sizes /\ gpu' - 1 = gpu /\ \A i : SpanOf(i)' = SpanOf(i)
    BY <1>1 DEF SpanOf, Indices
  <2>2. ASSUME NEW i \in 1..gpu, sizes[i] > 0
        PROVE  \E k \in 1..(n + 1) : spans'[k] = SpanOf(i)
    <3>1. CASE i = gpu
      <4>1. n + 1 \in 1..(n + 1)
        BY <1>4
      <4> QED
        BY <1>6, <1>14, <3>1, <4>1
    <3>2. CASE i # gpu
      <4>1. i \in 1..(gpu - 1)
        BY <1>1, <3>2
      <4>2. PICK k \in 1..n : spans[k] = SpanOf(i)
        BY <1>2, <1>4, <2>2, <4>1 DEF SpansComplete
      <4>3. k \in 1..(n + 1)
        BY <1>4
      <4> QED
        BY <1>6, <4>2, <4>3
    <3> QED
      BY <3>1, <3>2
  <2> QED
    BY <1>6, <1>13, <2>1, <2>2 DEF SpansComplete
<1>16. Ended'
  BY <1>1 DEF Ended
<1> QED
  BY <1>7, <1>8, <1>11, <1>12, <1>15, <1>16 DEF IInv

\* So does passing a GPU without blocks: the sum does not move.
LEMMA SkipGpuKeeps == IInv /\ SkipGpu => IInv'
<1> SUFFICES ASSUME IInv, SkipGpu PROVE IInv'
  OBVIOUS
<1> DEFINE m == Len(sizes)
<1>1. /\ at = "loop" /\ gpu \in 1..m /\ sizes[gpu] <= 0 /\ gpu' = gpu + 1
      /\ UNCHANGED <<call, at, sizes, spans, cursor, devices>>
  BY DEF SkipGpu
<1>2. TypeOK /\ SplitInv /\ SpansTile /\ SpansOrdered /\ SpansComplete
  BY DEF IInv
<1>3. m \in Nat /\ sizes \in [1..m -> Nat] /\ sizes \in [1..m -> Int]
  BY <1>1, Sizes DEF Planned
<1>4. TypeOK'
  BY <1>1, <1>2, <1>3 DEF TypeOK
<1>5. SplitInv'
  BY <1>1, <1>2 DEF SplitInv, Planned, NoGpus, Unpaired, ModeWeights
<1>6. SpansTile' /\ SpansOrdered' /\ Ended'
  BY <1>1, <1>2 DEF SpansTile, SpansOrdered, Ended
<1>7. cursor = SumTo(sizes, gpu)
  <2>1. cursor = SumTo(sizes, gpu - 1) /\ cursor \in Nat
    BY <1>2 DEF SpansComplete, TypeOK
  <2>2. SumTo(sizes, gpu) = SumTo(sizes, gpu - 1) + sizes[gpu]
    BY <1>1, <1>3, SumToIsSum
  <2>3. sizes[gpu] = 0
    BY <1>1, <1>3
  <2> QED
    BY <2>1, <2>2, <2>3
<1>8. SpansComplete'
  <2>1. sizes' = sizes /\ gpu' - 1 = gpu /\ \A i : SpanOf(i)' = SpanOf(i)
    BY <1>1 DEF SpanOf, Indices
  <2>2. ASSUME NEW i \in 1..gpu, sizes[i] > 0
        PROVE  \E k \in DOMAIN spans : spans[k] = SpanOf(i)
    <3>1. i \in 1..(gpu - 1)
      <4>1. i # gpu
        BY <1>1, <1>3, <2>2
      <4> QED
        BY <1>1, <4>1
    <3> QED
      BY <1>2, <2>2, <3>1 DEF SpansComplete
  <2> QED
    BY <1>1, <1>7, <2>1, <2>2 DEF SpansComplete
<1> QED
  BY <1>4, <1>5, <1>6, <1>8 DEF IInv

\* So does giving the blocks their devices.
LEMMA PlaceBlocksKeeps == IInv /\ PlaceBlocks => IInv'
<1> SUFFICES ASSUME IInv, PlaceBlocks PROVE IInv'
  OBVIOUS
<1>1. /\ at = "loop" /\ gpu = Len(sizes) + 1 /\ devices' = Placed
      /\ at' = IF \E b \in DOMAIN Placed : Placed[b] = None THEN "RuntimeError"
               ELSE "returned"
      /\ UNCHANGED <<call, gpu, sizes, spans, cursor>>
  BY DEF PlaceBlocks
<1>2. TypeOK /\ SplitInv /\ SpansTile /\ SpansOrdered /\ SpansComplete
  BY DEF IInv
<1>3. Placed \in Seq(Nat)
  BY <1>1, PlacedEverywhere DEF Planned
<1>4. Placed' = Placed
  BY <1>1 DEF Placed
<1>5. TypeOK'
  <2>1. devices' \in Seq(Nat \cup {None})
    BY <1>1, <1>3
  <2> QED
    BY <1>1, <1>2, <2>1 DEF TypeOK
<1>6. SplitInv'
  BY <1>1, <1>2 DEF SplitInv, Planned, NoGpus, Unpaired, ModeWeights
<1>7. SpansTile' /\ SpansOrdered'
  BY <1>1, <1>2 DEF SpansTile, SpansOrdered
<1>8. SpansComplete'
  <2>1. \A i : SpanOf(i)' = SpanOf(i)
    BY <1>1 DEF SpanOf, Indices
  <2> QED
    BY <1>1, <1>2, <2>1 DEF SpansComplete
<1>9. Ended'
  BY <1>1, <1>4 DEF Ended
<1> QED
  BY <1>5, <1>6, <1>7, <1>8, <1>9 DEF IInv

\* And so does a step that changes nothing.
LEMMA StutterKeeps == IInv /\ UNCHANGED vars => IInv'
<1> SUFFICES ASSUME IInv, UNCHANGED vars PROVE IInv'
  OBVIOUS
<1> USE DEF vars
<1>1. TypeOK' /\ SpansTile' /\ SpansOrdered'
  BY DEF IInv, TypeOK, SpansTile, SpansOrdered
<1>2. SplitInv'
  BY DEF IInv, SplitInv, Planned, NoGpus, Unpaired, ModeWeights
<1>3. SpansComplete'
  BY DEF IInv, SpansComplete, SpanOf, Indices
<1>4. Ended'
  <2>1. Placed' = Placed
    BY DEF Placed
  <2>2. Ended /\ at' = at /\ gpu' = gpu /\ sizes' = sizes /\ devices' = devices
    BY DEF IInv
  <2> HIDE DEF vars
  <2> QED
    BY <2>1, <2>2 DEF Ended
<1> QED
  BY <1>1, <1>2, <1>3, <1>4 DEF IInv

\* The inductive invariant: the planner's cursor, sizes and spans agree.
THEOREM PlanInvariant == Spec => []IInv
<1>1. IInv /\ [Next]_vars => IInv'
  BY RejectKeeps, SplitLayersKeeps, AddSpanKeeps, SkipGpuKeeps, PlaceBlocksKeeps,
     StutterKeeps DEF Next
<1> QED
  BY Initially, <1>1, PTL DEF Spec

(***************************************************************************)
(* The theorems                                                            *)
(***************************************************************************)
\* Every variable of the planner always has its type.
THEOREM TypeCorrect == Spec => []TypeOK
<1>1. IInv => TypeOK
  BY DEF IInv
<1> QED
  BY PlanInvariant, <1>1, PTL

\* The sizes sum to the blocks, each within one block of its exact share.
THEOREM SharesAreExact == Spec => []SizesAreExactShares
<1>1. IInv => SizesAreExactShares
  <2> SUFFICES ASSUME IInv, at = "loop", call.num_blocks > 0, sizes # <<>>
               PROVE  LET w == Clamped(ModeWeights)
                          total == Sum(w)
                      IN /\ Sum(sizes) = call.num_blocks
                         /\ total > 0 => \A i \in DOMAIN sizes :
                              /\ (sizes[i] - 1) * total < call.num_blocks * w[i]
                              /\ call.num_blocks * w[i] < (sizes[i] + 1) * total
    BY DEF SizesAreExactShares
  <2> DEFINE m == Len(sizes)
             w == Clamped(ModeWeights)
  <2>1. /\ m \in Nat /\ m = Len(call.gpu_free_gb) /\ DOMAIN sizes = 1..m
        /\ SumTo(sizes, m) = call.num_blocks
    BY Sizes DEF Planned
  <2>2. /\ call.num_blocks \in Int /\ ModeWeights \in Seq(Int)
        /\ Len(ModeWeights) = m /\ sizes = WeightedSplit(call.num_blocks, ModeWeights)
    BY <2>1, Arguments DEF IInv, TypeOK, SplitInv, Planned
  <2>3. Sum(sizes) = call.num_blocks
    BY <2>1 DEF Sum
  <2> HIDE DEF w, m
  <2>4. call.num_blocks > 0 /\ Sum(w) > 0 =>
          \A i \in 1..m : /\ (sizes[i] - 1) * Sum(w) < call.num_blocks * w[i]
                          /\ call.num_blocks * w[i] < (sizes[i] + 1) * Sum(w)
    BY <2>2, WeightedSplitSplits DEF w
  <2> QED
    BY <2>1, <2>3, <2>4, Zenon DEF w
<1> QED
  BY PlanInvariant, <1>1, PTL

\* More free memory never means fewer blocks, and none means none.
THEOREM HeavierIsServed == Spec => []HeavierGetsNoFewer
<1>1. IInv => HeavierGetsNoFewer
  <2> SUFFICES ASSUME IInv, at = "loop", sizes # <<>>
               PROVE  LET w == Clamped(ModeWeights) IN
                      /\ \A i, j \in DOMAIN sizes : w[i] > w[j] => sizes[i] >= sizes[j]
                      /\ Sum(w) > 0 => \A i \in DOMAIN sizes : w[i] = 0 => sizes[i] = 0
    BY DEF HeavierGetsNoFewer
  <2> DEFINE m == Len(sizes)
             w == Clamped(ModeWeights)
  <2>1. m = Len(call.gpu_free_gb) /\ DOMAIN sizes = 1..m
    BY Sizes DEF Planned
  <2>2. /\ call.num_blocks \in Int /\ ModeWeights \in Seq(Int)
        /\ Len(ModeWeights) = m /\ sizes = WeightedSplit(call.num_blocks, ModeWeights)
    BY <2>1, Arguments DEF IInv, TypeOK, SplitInv, Planned
  <2> HIDE DEF w, m
  <2>3. /\ \A i, j \in 1..m : w[i] > w[j] => sizes[i] >= sizes[j]
        /\ Sum(w) > 0 => \A i \in 1..m : w[i] = 0 => sizes[i] = 0
    BY <2>2, WeightedSplitSplits DEF w
  <2> QED
    BY <2>1, <2>3, Zenon DEF w
<1> QED
  BY PlanInvariant, <1>1, PTL

\* The spans tile the layers planned so far.
THEOREM SpansAlwaysTile == Spec => []SpansTile
<1>1. IInv => SpansTile
  BY DEF IInv
<1> QED
  BY PlanInvariant, <1>1, PTL

\* The planner's RuntimeError is unreachable, and every GPU gets its blocks, in
\* order.
THEOREM BlocksPlaced == Spec => []EveryBlockPlaced
<1>1. IInv => EveryBlockPlaced
  <2> SUFFICES ASSUME IInv PROVE EveryBlockPlaced
    OBVIOUS
  <2>1. at # "RuntimeError"
    <3>1. SUFFICES ASSUME at = "RuntimeError" PROVE FALSE
      BY <3>1
    <3>2. Planned /\ gpu = Len(sizes) + 1 /\ \E b \in DOMAIN Placed : Placed[b] = None
      BY <3>1 DEF IInv, Ended, Planned
    <3>3. PICK b \in 1..call.num_blocks : Placed[b] = None
      BY <3>2, PlacedEverywhere
    <3>4. Placed[b] \in Nat
      BY <3>2, PlacedEverywhere
    <3> QED
      BY <3>3, <3>4, IndexAssumption
  <2>2. ASSUME at = "returned"
        PROVE  /\ Len(devices) = IF call.num_blocks > 0 THEN call.num_blocks ELSE 0
               /\ \A i \in DOMAIN sizes : \A b \in 1..sizes[i] :
                    devices[SumTo(sizes, i - 1) + b] =
                      IF call.gpu_indices = None THEN i - 1 ELSE call.gpu_indices[i]
    <3> DEFINE m == Len(sizes)
               n == call.num_blocks
    <3>1. Planned /\ gpu = m + 1 /\ devices = Placed
      BY <2>2 DEF IInv, Ended, Planned
    <3>2. /\ m \in Nat /\ m = Len(call.gpu_free_gb) /\ DOMAIN sizes = 1..m
          /\ sizes \in [1..m -> Nat] /\ sizes \in [1..m -> Int]
          /\ n > 0 => SumTo(sizes, m) = n
          /\ n <= 0 => \A i \in 1..m : sizes[i] = 0
      BY <3>1, Sizes
    <3>3. n \in Int /\ \A i \in 1..m :
            Indices[i] = IF call.gpu_indices = None THEN i - 1 ELSE call.gpu_indices[i]
      BY <3>2, Arguments DEF IInv, TypeOK
    <3>4. ASSUME NEW i \in 1..m, NEW b \in 1..sizes[i]
          PROVE  devices[SumTo(sizes, i - 1) + b] = Indices[i]
      <4> DEFINE c == SumTo(sizes, i - 1) + b
      <4>1. i - 1 \in 0..m /\ i \in 0..m /\ m \in 0..m /\ i \in 0..m
        BY <3>2
      <4>2. /\ SumTo(sizes, i - 1) \in Nat /\ SumTo(sizes, i) \in Nat
            /\ SumTo(sizes, i) <= SumTo(sizes, m) /\ SumTo(sizes, m) \in Nat
        BY <3>2, <4>1, SumGrows
      <4>3. SumTo(sizes, i) = SumTo(sizes, i - 1) + sizes[i] /\ sizes[i] \in Nat
        BY <3>2, SumToIsSum
      <4>4. n > 0
        BY <3>2, <3>3, <4>3
      <4>5. SumTo(sizes, i - 1) < c /\ c <= SumTo(sizes, i) /\ c \in 1..n
        BY <3>2, <3>3, <4>2, <4>3, <4>4
      <4> HIDE DEF c
      <4>6. Placed[c] = Indices[i]
        BY <3>1, <4>5, PlacedBySpan
      <4> QED
        BY <3>1, <4>6 DEF c
    <3>5. Len(devices) = IF n > 0 THEN n ELSE 0
      BY <3>1, PlacedEverywhere
    <3> QED
      BY <3>2, <3>3, <3>4, <3>5, Zenon
  <2> QED
    BY <2>1, <2>2 DEF EveryBlockPlaced
<1> QED
  BY PlanInvariant, <1>1, PTL

\* The stages' ranges tile the layers for any number of stages up to one more
\* than there are blocks.
THEOREM StagesTile == Spec => []StageRangesTile
<1>1. TypeOK => StageRangesTile
  <2> SUFFICES ASSUME TypeOK, call.num_blocks >= 0, NEW stages \in 1..(call.num_blocks + 1)
               PROVE  LET ranges == StageLayerRanges(call.num_blocks, stages) IN
                      /\ ranges[1].layer_start = 0
                      /\ ranges[stages].layer_end = call.num_blocks
                      /\ \A s \in 1..stages :
                           /\ ranges[s].layer_start <= ranges[s].layer_end
                           /\ s < stages =>
                                ranges[s + 1].layer_start = ranges[s].layer_end
    BY DEF StageRangesTile
  <2> DEFINE n == call.num_blocks
             per == n \div stages
             ranges == StageLayerRanges(n, stages)
             start(s) == (s - 1) * per
             end(s) == IF s = stages THEN n ELSE s * per
  <2>1. n \in Nat /\ stages \in Nat \ {0}
    <3>1. n \in Int
      BY Arguments DEF TypeOK
    <3> QED
      BY <3>1
  <2>2. per \in Nat /\ (n % stages) \in Nat /\ n = per * stages + (n % stages)
    <3> HIDE DEF n
    <3>1. (n \div stages) \in Nat /\ (n % stages) \in 0..(stages - 1)
          /\ n = (n \div stages) * stages + (n % stages)
      BY <2>1, Division
    <3> QED
      BY <2>1, <3>1
  <2>3. \A s \in 1..stages :
          ranges[s].layer_start = start(s) /\ ranges[s].layer_end = end(s)
    <3>1. ~(stages <= 0)
      BY <2>1
    <3>2. ranges = [s \in 1..stages |-> [layer_start |-> start(s), layer_end |-> end(s)]]
      BY <3>1 DEF StageLayerRanges
    <3> QED
      BY <3>2
  <2> HIDE DEF n, per, ranges
  <2>4. start(1) = 0 /\ end(stages) = n /\ 1 \in 1..stages /\ stages \in 1..stages
    BY <2>1, <2>2
  <2>5. ASSUME NEW s \in 1..stages PROVE start(s) <= end(s)
    <3>1. s - 1 \in Nat /\ s \in Nat /\ s - 1 <= s
      BY <2>1
    <3>2. (s - 1) * per <= s * per /\ (s - 1) * per \in Nat /\ s * per \in Nat
      BY <2>2, <3>1, ProductMonotone
    <3>3. CASE s = stages
      <4>1. s * per = per * stages /\ per * stages \in Nat
        BY <2>1, <2>2, <3>3
      <4>2. s * per <= n
        BY <2>2, <4>1
      <4> QED
        BY <2>1, <3>2, <3>3, <4>2
    <3>4. CASE s # stages
      BY <3>2, <3>4
    <3> QED
      BY <3>3, <3>4
  <2>6. ASSUME NEW s \in 1..stages, s < stages
        PROVE  s + 1 \in 1..stages /\ start(s + 1) = end(s)
    <3>1. s + 1 \in 1..stages /\ (s + 1) - 1 = s /\ s # stages
      BY <2>1, <2>6
    <3> QED
      BY <3>1
  <2> HIDE DEF start, end
  <2>7. /\ ranges[1].layer_start = 0
        /\ ranges[stages].layer_end = n
        /\ \A s \in 1..stages :
             /\ ranges[s].layer_start <= ranges[s].layer_end
             /\ s < stages => ranges[s + 1].layer_start = ranges[s].layer_end
    BY <2>3, <2>4, <2>5, <2>6
  <2> QED
    BY <2>7, Zenon DEF n, ranges
<1> QED
  BY TypeCorrect, <1>1, PTL

(***************************************************************************)
(* spans_from_placement                                                    *)
(***************************************************************************)
\* Sorting gives back a list of spans that do not overlap, whatever empty slots
\* are among them: the k-th has exactly k - 1 before it.
LEMMA SortedSpans ==
  ASSUME NEW n \in Nat, NEW s \in [1..n -> Span],
         \A k \in 1..n : s[k].layer_start < s[k].layer_end,
         \A j, k \in 1..n : j < k => s[j].layer_end <= s[k].layer_start,
         NEW empty, \A x \in empty : ~(x.layer_end > x.layer_start)
  PROVE  SpansFromPlacement({s[k] : k \in 1..n} \cup empty) = s
<1> DEFINE full == {s[k] : k \in 1..n}
           kept == {x \in full \cup empty : x.gpu_index # None /\ x.layer_end > x.layer_start}
           rank(x) == 1 + Cardinality({t \in kept : Before(t, x)})
<1>1. \A k \in 1..n : /\ s[k].gpu_index \in Nat
                      /\ s[k].layer_start \in Nat /\ s[k].layer_end \in Nat
  BY DEF Span
<1>2. kept = full
  <2>1. \A k \in 1..n : s[k].gpu_index # None /\ s[k].layer_end > s[k].layer_start
    BY <1>1, IndexAssumption
  <2> QED
    BY <2>1
<1>3. \A j, k \in 1..n : j < k <=> Before(s[j], s[k])
  <2>1. \A j, k \in 1..n : j < k => s[j].layer_start < s[k].layer_start
    BY <1>1
  <2>2. \A j, k \in 1..n : j < k \/ j = k \/ k < j
    OBVIOUS
  <2>3. ASSUME NEW j \in 1..n, NEW k \in 1..n PROVE j < k <=> Before(s[j], s[k])
    <3>1. CASE j < k
      BY <2>1, <3>1 DEF Before
    <3>2. CASE j = k
      BY <1>1, <3>2 DEF Before
    <3>3. CASE k < j
      <4>1. s[k].layer_start < s[j].layer_start
        BY <2>1, <3>3
      <4> QED
        BY <1>1, <3>3, <4>1 DEF Before
    <3> QED
      BY <2>2, <3>1, <3>2, <3>3
  <2> QED
    BY <2>3
<1>4. \A j, k \in 1..n : s[j] = s[k] => j = k
  <2>1. \A k \in 1..n : ~Before(s[k], s[k])
    BY <1>3
  <2> QED
    BY <1>3, <2>1
<1> HIDE DEF kept
<1>5. ASSUME NEW k \in 0..n
      PROVE  Cardinality({s[j] : j \in 1..k}) = k
  <2> DEFINE first == {s[j] : j \in 1..k}
             f == [j \in 1..k |-> s[j]]
  <2>1. f \in Bijection(1..k, first)
    BY <1>4 DEF Bijection, Injection, IsInjective, Surjection
  <2>2. IsFiniteSet(1..k) /\ Cardinality(1..k) = k
    BY FS_Interval
  <2> HIDE DEF f, first
  <2>3. Cardinality(first) = Cardinality(1..k)
    BY <2>1, <2>2, FS_Bijection DEF ExistsBijection
  <2> QED
    BY <2>2, <2>3 DEF first
<1>6. ASSUME NEW k \in 1..n PROVE rank(s[k]) = k
  <2>1. {t \in kept : Before(t, s[k])} = {s[j] : j \in 1..(k - 1)}
    <3>1. \A j \in 1..n : Before(s[j], s[k]) <=> j \in 1..(k - 1)
      BY <1>3
    <3>2. 1..(k - 1) \in SUBSET (1..n)
      OBVIOUS
    <3> QED
      BY <1>2, <3>1, <3>2
  <2>2. k - 1 \in 0..n
    OBVIOUS
  <2>3. Cardinality({t \in kept : Before(t, s[k])}) = k - 1
    BY <1>5, <2>1, <2>2
  <2> QED
    BY <2>3
<1>7. Cardinality(kept) = n
  BY <1>2, <1>5
<1> DEFINE kth(k) == CHOOSE x \in kept : rank(x) = k
<1> HIDE DEF rank
<1>8. ASSUME NEW k \in 1..n PROVE kth(k) = s[k]
  <2>1. s[k] \in kept /\ rank(s[k]) = k
    BY <1>2, <1>6
  <2>2. kth(k) \in kept /\ rank(kth(k)) = k
    BY <2>1
  <2>3. PICK j \in 1..n : kth(k) = s[j]
    BY <1>2, <2>2
  <2> HIDE DEF kth
  <2>4. j = k
    BY <1>6, <2>2, <2>3
  <2> QED
    BY <2>3, <2>4
<1>9. SpansFromPlacement(full \cup empty) = [k \in 1..Cardinality(kept) |-> kth(k)]
  BY DEF SpansFromPlacement, kept, rank
<1>10. [k \in 1..Cardinality(kept) |-> kth(k)] = [k \in 1..n |-> s[k]]
  <2> HIDE DEF kth
  <2> QED
    BY <1>7, <1>8
<1> QED
  BY <1>9, <1>10

\* The leader's payload carries the plan: the spans of any plan, in any order
\* and among the slots of idle GPUs, are read back as they were planned.
THEOREM PlacementsRoundTrip == Spec => []PlacementRoundTrips
<1>1. IInv => PlacementRoundTrips
  <2> DEFINE idle == {[gpu_index |-> g, layer_start |-> cursor, layer_end |-> cursor] :
                        g \in {Indices[i] : i \in DOMAIN sizes}}
             n == Len(spans)
  <2> SUFFICES ASSUME IInv
               PROVE  SpansFromPlacement({spans[k] : k \in DOMAIN spans} \cup idle) = spans
    BY DEF PlacementRoundTrips
  <2>1. spans \in Seq(Span) /\ cursor \in Nat
    BY DEF IInv, TypeOK
  <2>2. n \in Nat /\ spans \in [1..n -> Span] /\ DOMAIN spans = 1..n
    BY <2>1
  <2>3. /\ \A k \in 1..n : spans[k].layer_start < spans[k].layer_end
        /\ \A j, k \in 1..n : j < k => spans[j].layer_end <= spans[k].layer_start
    BY <2>2 DEF IInv, SpansTile, SpansOrdered
  <2>4. \A x \in idle : ~(x.layer_end > x.layer_start)
    BY <2>1
  <2> HIDE DEF idle, n
  <2> QED
    BY <2>2, <2>3, <2>4, SortedSpans
<1> QED
  BY PlanInvariant, <1>1, PTL
=============================================================================
