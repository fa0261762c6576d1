------------------------- MODULE StageSpecs_proofs -------------------------
(***************************************************************************)
(* What the cut of split/spec.py gives each stage, for a model of any size *)
(* and any boundary, inside the model or not.                              *)
(***************************************************************************)
EXTENDS StageSpecs, NumberLemmas

\* Where Python cuts a slice's bound off in a list of n.
Cut(n, k) == IF k < -n THEN 0 ELSE IF k < 0 THEN k + n ELSE IF k > n THEN n ELSE k

\* A cut is inside the list; 0 cuts at its start, a bound past its end at its end.
LEMMA CutRange ==
  ASSUME NEW n \in Nat, NEW k \in Int
  PROVE  Cut(n, k) \in 0..n /\ Cut(n, 0) = 0 /\ (k >= n => Cut(n, k) = n)
BY DEF Cut

\* A slice is the interval between its two cuts.
LEMMA SliceIsInterval ==
  ASSUME NEW n, NEW lo, NEW hi
  PROVE  PySlice(n, lo, hi) = Cut(n, lo)..(Cut(n, hi) - 1)
BY DEF PySlice, Cut

\* The boundary is a number, and resolving it again changes nothing.
LEMMA BoundaryIsInt ==
  ASSUME NEW split, split.split_layer \in Int \cup {None}, NEW layers \in Nat
  PROVE  BoundaryLayer(split, layers) \in Int
BY DEF BoundaryLayer

\* Both stages' blocks, cut at one boundary.
LEMMA LocalBlocksAre ==
  ASSUME NEW load, NEW split, NEW boundary \in Int,
         load.blocks \in Nat, load.num_layers \in Nat,
         BoundaryLayer(split, load.num_layers) = boundary
  PROVE  /\ LocalBlocks(load, split, 0) = 0..(Cut(load.blocks, boundary) - 1)
         /\ LocalBlocks(load, split, 1) =
              Cut(load.blocks, boundary)..(Cut(load.blocks, load.num_layers) - 1)
<1>1. Cut(load.blocks, 0) = 0
  BY CutRange
<1>2. /\ LocalBlocks(load, split, 0) = PySlice(load.blocks, 0, boundary)
      /\ LocalBlocks(load, split, 1) = PySlice(load.blocks, boundary, load.num_layers)
  BY DEF LocalBlocks, LayerRange
<1> QED
  BY <1>1, <1>2, SliceIsInterval

\* A stage's blocks are blocks of the model, in one piece.
LEMMA LocalBlocksInterval ==
  ASSUME NEW load, load.blocks \in Nat, load.num_layers \in Nat,
         NEW split, split.split_layer \in Int \cup {None}, NEW s \in Stages
  PROVE  \E lo, hi \in 0..load.blocks : LocalBlocks(load, split, s) = lo..(hi - 1)
<1> DEFINE boundary == BoundaryLayer(split, load.num_layers)
<1>1. boundary \in Int
  BY BoundaryIsInt
<1>2. /\ 0 \in 0..load.blocks
      /\ Cut(load.blocks, boundary) \in 0..load.blocks
      /\ Cut(load.blocks, load.num_layers) \in 0..load.blocks
  <2> HIDE DEF boundary
  <2> QED
    BY <1>1 DEF Cut
<1>3. /\ LocalBlocks(load, split, 0) = 0..(Cut(load.blocks, boundary) - 1)
      /\ LocalBlocks(load, split, 1) =
           Cut(load.blocks, boundary)..(Cut(load.blocks, load.num_layers) - 1)
  BY <1>1, LocalBlocksAre
<1>4. CASE s = 0
  BY <1>2, <1>3, <1>4
<1>5. CASE s = 1
  BY <1>2, <1>3, <1>5
<1> QED
  BY <1>4, <1>5 DEF Stages

\* The stages share no block, whatever the boundary, and leave none out when
\* the config promises as many blocks as the model has.
LEMMA LocalBlocksTile ==
  ASSUME NEW load, load.blocks \in Nat, load.num_layers \in Nat,
         NEW a, NEW b, NEW boundary \in Int,
         BoundaryLayer(a, load.num_layers) = boundary,
         BoundaryLayer(b, load.num_layers) = boundary
  PROVE  /\ LocalBlocks(load, a, 0) \cap LocalBlocks(load, b, 1) = {}
         /\ load.num_layers >= load.blocks =>
              LocalBlocks(load, a, 0) \cup LocalBlocks(load, b, 1) = 0..(load.blocks - 1)
<1> DEFINE cut == Cut(load.blocks, boundary)
           end == Cut(load.blocks, load.num_layers)
<1>1. cut \in 0..load.blocks /\ end \in 0..load.blocks
  BY DEF Cut
<1>2. load.num_layers >= load.blocks => end = load.blocks
  BY DEF Cut
<1>3. LocalBlocks(load, a, 0) = 0..(cut - 1) /\ LocalBlocks(load, b, 1) = cut..(end - 1)
  BY LocalBlocksAre
<1> HIDE DEF cut, end
<1> QED
  BY <1>1, <1>2, <1>3
=============================================================================
