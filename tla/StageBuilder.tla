--------------------------- MODULE StageBuilder ---------------------------
(***************************************************************************)
(* split/torch/stage_builder.py with finetune/freeze.py and the scoping    *)
(* half of finetune/lora.py: build_stage carries out a StageSpec           *)
(* (StageSpecs) against a loaded model.  A build changes the model it is   *)
(* given (devices, requires_grad, adapters) one part after another and may *)
(* fail between two of them; a process builds stages again after a         *)
(* failure, and both stages of a loopback pipeline in one process, so a    *)
(* behaviour is a sequence of builds on one or two copies of the model.    *)
(*                                                                         *)
(* A weight stands for all parameters of one module of the model.  PEFT    *)
(* and the weights' loader are modelled from how the code uses them.       *)
(***************************************************************************)
EXTENDS FiniteSets, StageSpecs

CONSTANTS
  Loads,         \* how the caller loaded the model: see Load
  StageIndices,  \* the stage indices a caller may pass
  Splits,        \* the SplitSpecs a caller may pass
  Placements,    \* the Placements a caller may pass
  Home,          \* the device a model is loaded to
  MaxBuilds      \* bound: how many times build_stage is called

ASSUME MaxBuildsAssumption == MaxBuilds \in Nat
ASSUME HomeAssumption == Home \in Devices
ASSUME MetaAssumption == "meta" \notin Devices

\* tied: lm_head and embed_tokens are one weight.  positions: GPT-2 learns
\* them, rotary ones have no parameters.  norm: the model has a final norm.
\* shared: both stages are built on one model object.  shard: the boundary of a
\* shard-only load, which leaves the blocks and ends of the other stage on the
\* meta device; when there is one model object, it is a load for stage
\* shard_stage.  num_layers is what the model's config says, blocks what it has.
Load ==
  [tied : BOOLEAN, positions : {"wpe", "rotary"}, norm : BOOLEAN, shared : BOOLEAN,
   shard : Nat \cup {None}, shard_stage : Stages, blocks : Nat, num_layers : Nat]

\* A compression dict names a quantizer, a learned bottleneck or something
\* the factory does not know.
SplitSpec == SplitSpecs({"fixed", "learned", "unknown"})

ASSUME LoadsAssumption == Loads \subseteq Load
ASSUME StageIndicesAssumption == StageIndices \subseteq Int
ASSUME SplitsAssumption == Splits \subseteq SplitSpec
ASSUME PlacementsAssumption == Placements \subseteq Placement

Embed == <<"embed_tokens", 0>>
Positions == <<"positions", 0>>
Norm == <<"final_norm", 0>>
LmHead == <<"lm_head", 0>>
Block(i) == <<"block", i>>
Adapter(i) == <<"lora", i>>
Down == <<"down", 0>>
Up == <<"up", 0>>

(***************************************************************************)
(* The state                                                               *)
(***************************************************************************)
VARIABLES
  loaded,         \* the load
  device,         \* device[c][w]: where weight w of copy c is
  requires_grad,  \* requires_grad[c]: the weights of copy c that carry it
  adapted,        \* adapted[c]: the blocks of copy c with adapters
  at,             \* where the build is, or how the last one ended
  build,          \* the build's arguments and locals
  bundles,        \* bundles[s]: what the last build of stage s returned
  builds,         \* how many builds there were
  used,           \* used[c]: the splits copy c was built with (a history)
  failed          \* the copies on which a build failed (a history)

vars == <<loaded, device, requires_grad, adapted, at, build, bundles, builds, used, failed>>
modelVars == <<device, requires_grad, adapted>>
historyVars == <<loaded, builds, used>>

Copies == {0, 1}
CopyOf(s) == IF loaded.shared THEN 0 ELSE s

\* The stage whose shard copy c is, when it is one.
LoadedFor(c) == IF loaded.shared THEN loaded.shard_stage ELSE c

HeadWeight == IF loaded.tied THEN Embed ELSE LmHead

Weights(load) ==
  {Embed, Positions} \cup (IF load.norm THEN {Norm} ELSE {})
    \cup (IF load.tied THEN {} ELSE {LmHead}) \cup {Block(i) : i \in 0..(load.blocks - 1)}

\* The weights a shard-only load for stage s leaves on the meta device.
Elsewhere(load, s) ==
  IF load.shard = None THEN {}
  ELSE {Block(i) : i \in (0..(load.blocks - 1)) \ (IF s = 0 THEN 0..(load.shard - 1)
                                                      ELSE load.shard..(load.blocks - 1))}
         \cup (IF s = 0 THEN {Norm, LmHead}
              ELSE (IF load.tied THEN {} ELSE {Embed})
                     \cup (IF load.positions = "wpe" THEN {Positions} ELSE {}))

\* Where no build got past its guards, and where a build has ended.
Unstarted == {"idle", "NotImplementedError"}
Idle == [stage |-> None]
Ended == Unstarted \cup {"returned", "ValueError", "IndexError", "RuntimeError", "MetaError"}

Init ==
  /\ loaded \in Loads
  /\ device = [c \in Copies |-> [w \in Weights(loaded) |->
                 IF w \in Elsewhere(loaded, LoadedFor(c)) THEN "meta" ELSE Home]]
  /\ requires_grad = [c \in Copies |->
                        Weights(loaded) \ (IF loaded.positions = "wpe" THEN {} ELSE {Positions})]
  /\ adapted = [c \in Copies |-> {}]
  /\ at = "idle" /\ build = Idle /\ builds = 0
  /\ bundles = [s \in Stages |-> None]
  /\ used = [c \in Copies |-> {}] /\ failed = {}

(***************************************************************************)
(* One call of build_stage                                                 *)
(***************************************************************************)
Copy == CopyOf(build.stage)
Local == build.blocks
First == build.stage = 0

Fail(error) ==
  /\ at' = error
  /\ failed' = failed \cup {Copy}
  /\ UNCHANGED <<build, bundles, historyVars>>

\* Neither a third stage nor a pipeline of three is supported.
Refuse(index, split) ==
  /\ at \in Ended /\ builds < MaxBuilds
  /\ split.num_stages # 2 \/ index \notin Stages
  /\ builds' = builds + 1 /\ at' = "NotImplementedError" /\ build' = Idle
  /\ UNCHANGED <<loaded, modelVars, bundles, used, failed>>

\* The caller that builds a stage again has given up the bundle it had.  Of the
\* adapters' second injection into a block nothing is known here: a caller
\* that wants that loads the model again.
Call(s, split, placement) ==
  LET local == LocalBlocks(loaded, split, s) IN
  /\ at \in Ended /\ builds < MaxBuilds
  /\ split.num_stages = 2
  /\ UsesLora(split) => local \cap adapted[CopyOf(s)] = {}
  /\ builds' = builds + 1
  /\ used' = [used EXCEPT ![CopyOf(s)] = @ \cup {split}]
  /\ bundles' = [bundles EXCEPT ![s] = None]
  /\ build' = [stage |-> s, split |-> split, placement |-> placement, blocks |-> local,
               next |-> 0, compressor |-> {}, has_compressor |-> FALSE,
               compressor_device |-> placement.device, targets |-> {}, params |-> {}]
  /\ at' = IF UsesLora(split) THEN "inject" ELSE "compress"
  /\ UNCHANGED <<loaded, modelVars, failed>>

\* default_target_modules looks at the first block, whose adapted projections
\* are no leaves any more.
DefaultTargets == IF 0 \in adapted[Copy] THEN {"mlp"} ELSE {"attention"}

\* Fault: PEFT is given the suffixes, so that it adapts every block.
QualifiedBlocks_Everywhere == 0..(loaded.blocks - 1)

QualifiedBlocks == Local

\* PEFT rejects targets that match no module, cannot adapt what is on the meta
\* device, and leaves nothing but adapters trainable.
InjectLora ==
  /\ at = "inject"
  /\ IF build.split.lora = "unmatched" \/ QualifiedBlocks = {} THEN
       Fail("ValueError") /\ UNCHANGED modelVars
     ELSE IF \E i \in QualifiedBlocks : device[Copy][Block(i)] = "meta" THEN
       Fail("MetaError") /\ UNCHANGED modelVars
     ELSE
       /\ adapted' = [adapted EXCEPT ![Copy] = @ \cup QualifiedBlocks]
       /\ requires_grad' =
            [requires_grad EXCEPT ![Copy] = {Adapter(i) : i \in adapted'[Copy]}]
       /\ build' = [build EXCEPT !.targets = DefaultTargets]
       /\ at' = "compress"
       /\ UNCHANGED <<device, bundles, failed, historyVars>>

\* A learned bottleneck is split, its halves kept by the two stages; anything
\* else goes whole to the sender, and has no parameters.
CompressorWeights(compression) ==
  IF compression # "learned" THEN {} ELSE IF First THEN {Down} ELSE {Up}

BuildCompressors ==
  /\ at = "compress"
  /\ UNCHANGED modelVars
  /\ IF build.split.compression = "unknown" THEN Fail("ValueError")
     ELSE
       /\ build' = [build EXCEPT
            !.compressor = CompressorWeights(build.split.compression),
            !.has_compressor = \/ build.split.compression = "learned"
                               \/ build.split.compression = "fixed" /\ First]
       /\ at' = "ends"
       /\ UNCHANGED <<bundles, failed, historyVars>>

\* module.to(d): a weight without data has nothing to move to a real device.
Move(weights, d) ==
  device' = [device EXCEPT ![Copy] =
               [w \in DOMAIN @ |-> IF w \in weights THEN d ELSE @[w]]]
CanMove(weights) == \A w \in weights : device[Copy][w] # "meta"

Ends ==
  IF First THEN {Embed, Positions}
  ELSE IF loaded.positions = "rotary" THEN {Positions} ELSE {}

MoveEnds ==
  /\ at = "ends"
  /\ IF CanMove(Ends) THEN
       /\ Move(Ends, IF First THEN EmbedDevice(build.placement)
                     ELSE FirstBlockDevice(build.placement))
       /\ at' = "blocks"
       /\ UNCHANGED <<build, bundles, failed, historyVars>>
     ELSE
       /\ Move(IF CanMove({Embed}) THEN {Embed} ELSE {}, EmbedDevice(build.placement))
       /\ Fail("MetaError")
  /\ UNCHANGED <<requires_grad, adapted>>

\* The index-th local block.
LocalBlock(index) ==
  Block(CHOOSE i \in Local : Cardinality({j \in Local : j < i}) = index)

MoveBlock ==
  /\ at = "blocks" /\ build.next < Cardinality(Local)
  /\ LET block == LocalBlock(build.next) IN
     IF ~HasBlockDevice(build.placement, build.next) THEN Fail("IndexError") /\ UNCHANGED device
     ELSE IF ~CanMove({block}) THEN Fail("MetaError") /\ UNCHANGED device
     ELSE
       /\ Move({block}, BlockDevice(build.placement, build.next))
       /\ build' = [build EXCEPT !.next = @ + 1]
       /\ UNCHANGED <<at, bundles, failed, historyVars>>
  /\ UNCHANGED <<requires_grad, adapted>>

\* Fault: the compressor always goes to the first block.
CompressorDevice_First(p) == FirstBlockDevice(p)

CompressorDevice(p) == IF First THEN LastBlockDevice(p) ELSE FirstBlockDevice(p)

\* The final norm, when there is one, and the head.
HeadEnds == {HeadWeight} \cup (IF loaded.norm THEN {Norm} ELSE {})

MoveTail ==
  /\ at = "blocks" /\ build.next = Cardinality(Local)
  /\ LET moved == IF First THEN {} ELSE HeadEnds IN
     IF CanMove(moved) THEN
       /\ Move(moved, HeadDevice(build.placement))
       /\ build' = [build EXCEPT !.compressor_device =
                      IF build.has_compressor THEN CompressorDevice(build.placement) ELSE @]
       /\ at' = "select"
       /\ UNCHANGED <<bundles, failed, historyVars>>
     ELSE Fail("MetaError") /\ UNCHANGED device
  /\ UNCHANGED <<requires_grad, adapted>>

(***************************************************************************)
(* _select_parameters, freeze_backbone and _require_trainable              *)
(***************************************************************************)
BlockWeights(blocks) ==
  {Block(i) : i \in blocks} \cup {Adapter(i) : i \in blocks \cap adapted[Copy]}

ModelWeights == Weights(loaded) \cup {Adapter(i) : i \in adapted[Copy]}

\* Fault: the requires_grad filter is forgotten.
LoraParameters_Unfiltered == BlockWeights(Local) \cup build.compressor

LoraParameters ==
  (requires_grad[Copy] \cap BlockWeights(Local)) \cup build.compressor

\* Fault: every stage trains the embeddings.
FullParameters_BothEmbed ==
  {Embed} \cup BlockWeights(Local) \cup build.compressor
    \cup (IF First THEN {} ELSE HeadEnds)

FullParameters ==
  BlockWeights(Local) \cup build.compressor
    \cup (IF ~First THEN HeadEnds
          ELSE {Embed} \cup (IF loaded.positions = "wpe" THEN {Positions} ELSE {}))

Freezes == build.split.freeze_backbone /\ ~UsesLora(build.split) /\ build.has_compressor

\* Fault: the compressor is selected, but the backbone is not frozen.
FreezeBackbone_Unfrozen == UNCHANGED requires_grad

FreezeBackbone == requires_grad' = [requires_grad EXCEPT ![Copy] = {}]

\* A stage with no parameter to optimize is refused; the others come back with
\* the boundary resolved.
SelectParameters ==
  LET selected == IF UsesLora(build.split) THEN LoraParameters
                  ELSE IF Freezes THEN build.compressor
                  ELSE FullParameters
  IN
  /\ at = "select"
  /\ IF Freezes THEN FreezeBackbone ELSE UNCHANGED requires_grad
  /\ IF selected = {} THEN Fail("RuntimeError")
     ELSE
       /\ at' = "returned"
       /\ build' = [build EXCEPT
            !.params = selected,
            !.split.split_layer = BoundaryLayer(build.split, loaded.num_layers)]
       /\ bundles' = [bundles EXCEPT ![build.stage] = build']
       /\ UNCHANGED <<failed, historyVars>>
  /\ UNCHANGED <<device, adapted>>

Next ==
  \/ \E index \in StageIndices, split \in Splits : Refuse(index, split)
  \/ \E s \in Stages \cap StageIndices, split \in Splits, p \in Placements : Call(s, split, p)
  \/ InjectLora \/ BuildCompressors \/ MoveEnds \/ MoveBlock \/ MoveTail
  \/ SelectParameters

Spec == Init /\ [][Next]_vars

(***************************************************************************)
(* Properties                                                              *)
(***************************************************************************)
Build ==
  [stage : Stages, split : SplitSpec, placement : Placements,
   blocks : SUBSET (0..(loaded.blocks - 1)), next : 0..loaded.blocks,
   compressor : SUBSET {Down, Up}, has_compressor : BOOLEAN,
   compressor_device : Devices, targets : SUBSET {"attention", "mlp"},
   params : SUBSET (ModelWeights \cup {Down, Up})]

\* Every variable has its type.
TypeOK ==
  /\ loaded \in Loads
  /\ device \in [Copies -> [Weights(loaded) -> Devices \cup {"meta"}]]
  /\ adapted \in [Copies -> SUBSET (0..(loaded.blocks - 1))]
  /\ \A c \in Copies :
       requires_grad[c] \subseteq Weights(loaded) \cup {Adapter(i) : i \in adapted[c]}
  /\ at \in Ended \cup {"inject", "compress", "ends", "blocks", "select"}
  /\ build = Idle \/ build \in Build
  /\ \A s \in Stages : bundles[s] # None => bundles[s].stage = s
  /\ builds \in 0..MaxBuilds
  /\ used \in [Copies -> SUBSET Splits] /\ failed \subseteq Copies

Built(s) == bundles[s] # None
Agreed == Built(0) /\ Built(1) /\ bundles[0].split.split_layer = bundles[1].split.split_layer

\* Two stages built with one boundary, whatever it is (negative, past the end,
\* on a model with fewer blocks than its config says), hold every block of the
\* model exactly once.
StagesTileModel ==
  Agreed /\ loaded.num_layers >= loaded.blocks =>
    /\ bundles[0].blocks \cap bundles[1].blocks = {}
    /\ bundles[0].blocks \cup bundles[1].blocks = 0..(loaded.blocks - 1)

\* What stage s returned is where its placement says.
Placed(s) ==
  LET b == bundles[s]
      p == b.placement
      on == device[CopyOf(s)]
      blockOn(i) == BlockDevice(p, Cardinality({j \in b.blocks : j < i}))
      edge == CHOOSE i \in b.blocks : \A j \in b.blocks : IF s = 0 THEN j <= i ELSE i <= j
  IN
  /\ \A i \in b.blocks : on[Block(i)] = blockOn(i)
  /\ s = 0 => on[Embed] = EmbedDevice(p)
  /\ s = 0 /\ (loaded.positions = "wpe" \/ ~loaded.shared) => on[Positions] = EmbedDevice(p)
  /\ s = 1 => \A w \in HeadEnds : on[w] = HeadDevice(p)
  /\ b.has_compressor /\ b.blocks # {}
       /\ (Spread(p) => Len(p.block_devices) = Cardinality(b.blocks)) =>
     b.compressor_device = on[Block(edge)]

\* A stage's modules are where its placement says, its compressor beside the
\* block it encodes or decodes for, and stay there while the other stage is
\* built, or fails to build, on the same model.  (Not with tied weights on one
\* model, where both stages move the one weight, and not the rotary module,
\* which both stages of one model move and which has no weights.)
ModulesStayPlaced ==
  \A s \in Stages :
    /\ Built(s) /\ ~(loaded.tied /\ loaded.shared)
    /\ \A split \in used[CopyOf(s)] :
         BoundaryLayer(split, loaded.num_layers) = bundles[s].split.split_layer
    => Placed(s)

\* "The two stages train disjoint halves" (stage_builder.py:74-75).
TrainDisjointHalves == Agreed => bundles[0].params \cap bundles[1].params = {}

\* They do, in any mixture of modes, when the head does not share the
\* embedding's weight, or when only adapters train.
UntiedHalvesAreDisjoint ==
  \/ TrainDisjointHalves
  \/ loaded.tied /\ \E s \in Stages : ~UsesLora(bundles[s].split)

Trains(s, w) == w \in requires_grad[CopyOf(s)] \cup {Down, Up}

\* As long as no build on a copy failed and all used one spec, every parameter
\* handed to an optimizer requires a gradient, and keeps requiring it while the
\* other stage is built on the same model.
CleanBuildsTrain ==
  \A s \in Stages :
    Built(s) /\ CopyOf(s) \notin failed /\ Cardinality(used[CopyOf(s)]) = 1 =>
      \A w \in bundles[s].params : Trains(s, w)

\* "An empty parameter list gives an optimizer that steps over nothing: the run
\* completes, reports a loss, and leaves the weights exactly as they were", so a
\* stage with nothing to train is refused (stage_builder.py:53-56).
NothingToTrainIsRefused ==
  \A s \in Stages : at = "returned" /\ build.stage = s =>
    \E w \in bundles[s].params : Trains(s, w)

\* With one spec, LoRA trains the adapters of the stage's own blocks, and a
\* frozen backbone the compressor half: those and the compressor half are
\* the stage's parameters, and nothing else of the model requires a gradient.
ModesTrainTheirOwn ==
  \A s \in Stages :
    LET b == bundles[s]
        grads == requires_grad[CopyOf(s)]
    IN
    Built(s) /\ Cardinality(used[CopyOf(s)]) = 1 =>
      /\ UsesLora(b.split) =>
           /\ b.params = {Adapter(i) : i \in b.blocks} \cup b.compressor
           /\ grads = {Adapter(i) : i \in adapted[CopyOf(s)]}
      /\ b.split.freeze_backbone /\ ~UsesLora(b.split) /\ b.has_compressor =>
           b.params = b.compressor /\ grads = {}

\* "The other stage's blocks are never touched" (stage_builder.py:121): a
\* shard-only load can be built, in any mode, at the boundary it was loaded for.
ShardSuffices ==
  at = "MetaError" =>
    \/ build.stage # LoadedFor(Copy)
    \/ build.blocks # IF First THEN 0..(loaded.shard - 1) ELSE loaded.shard..(loaded.blocks - 1)
=============================================================================
