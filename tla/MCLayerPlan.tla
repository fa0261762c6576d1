---------------------------- MODULE MCLayerPlan ----------------------------
(***************************************************************************)
(* Instances of LayerPlan for TLC: up to three GPUs, with negative, zero,  *)
(* equal and uneven free memory.                                           *)
(***************************************************************************)
EXTENDS LayerPlan

MCBlocks == -1..7
MCWeights == {-1, 0, 1, 2, 5}
MCFreeLists == UNION {[1..g -> MCWeights] : g \in 0..3}
\* Physical indices out of order, and lists too short or too long.
MCIndexLists == {<<2>>, <<5, 3>>, <<2, 7, 4>>}
=============================================================================
