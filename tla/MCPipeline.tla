---------------------------- MODULE MCPipeline ----------------------------
(***************************************************************************)
(* Instances of Pipeline for TLC: three blocks, or two where the config    *)
(* says three, cut everywhere and outside; one or two devices.             *)
(***************************************************************************)
EXTENDS Pipeline

MCModels == {[blocks |-> n, num_layers |-> 3] : n \in {2, 3}}
MCDevices == {"g0", "g1"}
MCOverrides == {None, "g1"}

Blank == [method |-> "none", number |-> Absent, suffix |-> Absent, quantized |-> FALSE,
          quantization_bits |-> Absent, learned_dim |-> Absent, bottleneck_dim |-> Absent]
FixedInt4 == [Blank EXCEPT !.method = "fixed_int", !.number = 4]
LearnedDim1 == [Blank EXCEPT !.method = "learned_dim", !.number = 1]

\* No compressor; whole ones of few, of eight and of too many bits; learned ones
\* in fp16 and in int4; dicts that lack or override what they name.
MCProfiles ==
  {Blank,
   [Blank EXCEPT !.method = "fixed_int", !.number = 2],
   [Blank EXCEPT !.method = "fixed_int", !.number = 16, !.quantization_bits = 8],
   [Blank EXCEPT !.method = "fixed_int", !.number = 16],
   LearnedDim1,
   [LearnedDim1 EXCEPT !.suffix = 4],
   [Blank EXCEPT !.method = "learned_bottleneck", !.learned_dim = 0, !.bottleneck_dim = 1,
                 !.quantized = TRUE, !.quantization_bits = 3],
   [Blank EXCEPT !.method = "learned_bottleneck"]}

Boundaries == {None, -1, 0, 2, 3, 4}

\* Every boundary with every profile, and at one boundary every other field.
MCSplits ==
  {[SplitDefault EXCEPT !.split_layer = boundary, !.compression = compression] :
     boundary \in Boundaries, compression \in MCProfiles \cup {None}}
  \cup {[SplitDefault EXCEPT !.num_stages = 3],
        [SplitDefault EXCEPT !.lora = "default"],
        [SplitDefault EXCEPT !.lora = "default", !.split_layer = 0],
        [SplitDefault EXCEPT !.lora = "unmatched"],
        [SplitDefault EXCEPT !.freeze_backbone = TRUE, !.compression = LearnedDim1],
        [SplitDefault EXCEPT !.freeze_backbone = TRUE, !.compression = FixedInt4]}

MCRows == 1..2
MCElements == {-5, 0, 2}
=============================================================================
