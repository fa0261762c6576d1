-------------------------- MODULE MCStageBuilder --------------------------
(***************************************************************************)
(* Instances of StageBuilder for TLC.                                      *)
(***************************************************************************)
EXTENDS StageBuilder

Loaded == [tied |-> FALSE, positions |-> "rotary", norm |-> TRUE, shared |-> FALSE,
           shard |-> None, shard_stage |-> 0, blocks |-> 3, num_layers |-> 3]

\* One model for both stages, shard-only copies, a process with one shard that
\* is asked for either stage, and a model without a final norm that lost a block
\* without its config being told.
MCLoads ==
  {[Loaded EXCEPT !.shared = TRUE],
   [Loaded EXCEPT !.shared = TRUE, !.tied = TRUE, !.positions = "wpe"],
   [Loaded EXCEPT !.shard = 1],
   [Loaded EXCEPT !.tied = TRUE, !.positions = "wpe", !.shard = 1],
   [Loaded EXCEPT !.shared = TRUE, !.shard = 1],
   [Loaded EXCEPT !.shared = TRUE, !.shard = 1, !.shard_stage = 1, !.positions = "wpe"],
   [Loaded EXCEPT !.blocks = 2, !.norm = FALSE]}

MCIndices == {0, 1, 2}

MCSplits ==
  {SplitDefault,
   [SplitDefault EXCEPT !.num_stages = 3],
   [SplitDefault EXCEPT !.split_layer = -1, !.compression = "learned"],
   [SplitDefault EXCEPT !.split_layer = 4, !.compression = "unknown"],
   [SplitDefault EXCEPT !.split_layer = 4],
   [SplitDefault EXCEPT !.freeze_backbone = TRUE, !.compression = "fixed"],
   [SplitDefault EXCEPT !.freeze_backbone = TRUE, !.compression = "learned"],
   [SplitDefault EXCEPT !.lora = "default", !.compression = "learned"],
   [SplitDefault EXCEPT !.lora = "default", !.freeze_backbone = TRUE],
   [SplitDefault EXCEPT !.lora = "unmatched"]}

OnOne == [device |-> "g0", block_devices |-> None, embed_device |-> None,
          head_device |-> None]

\* One device; as many devices as a halfway stage 1 has blocks; too few for it;
\* the ends elsewhere.
MCPlacements ==
  {[OnOne EXCEPT !.block_devices = <<"g0", "g1">>],
   [OnOne EXCEPT !.block_devices = <<"g1">>, !.embed_device = "cpu"],
   [OnOne EXCEPT !.head_device = "g1"]}

\* A caller told to "check freeze_backbone", which does, on the model it has.
RetryLoads == {Loaded}
RetrySplits == {[SplitDefault EXCEPT !.compression = "fixed", !.freeze_backbone = b] : b \in BOOLEAN}

MCDevices == {"cpu", "g0", "g1"}
=============================================================================
