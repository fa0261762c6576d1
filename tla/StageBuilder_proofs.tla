------------------------ MODULE StageBuilder_proofs ------------------------
(***************************************************************************)
(* Theorems about StageBuilder, for any loads, splits, placements and      *)
(* devices and any number of builds.                                       *)
(***************************************************************************)
EXTENDS StageBuilder, StageSpecs_proofs

(***************************************************************************)
(* The inductive invariant                                                 *)
(***************************************************************************)
Indices == 0..(loaded.blocks - 1)
Blocks(blocks) == {Block(i) : i \in blocks}
Adapters(blocks) == {Adapter(i) : i \in blocks}

\* What a model's parameters carry when it comes from the loader.
Trainable == Weights(loaded) \ (IF loaded.positions = "wpe" THEN {} ELSE {Positions})

\* The ends a stage optimizes.
OwnEnds(s) ==
  IF s = 0 THEN {Embed} \cup (IF loaded.positions = "wpe" THEN {Positions} ELSE {})
  ELSE HeadEnds

Locals ==
  [stage : Stages, split : SplitSpec, placement : Placements,
   blocks : SUBSET Indices, next : 0..loaded.blocks,
   compressor : SUBSET {Down, Up}, has_compressor : BOOLEAN,
   compressor_device : Devices, targets : SUBSET {"attention", "mlp"},
   params : SUBSET (Weights(loaded) \cup Adapters(Indices) \cup {Down, Up})]

PastInjection == {"compress", "ends", "blocks", "select"}

Types ==
  /\ loaded \in Loads
  /\ device \in [Copies -> [Weights(loaded) -> Devices \cup {"meta"}]]
  /\ adapted \in [Copies -> SUBSET Indices]
  /\ requires_grad \in [Copies -> SUBSET (Weights(loaded) \cup Adapters(Indices))]
  /\ \A c \in Copies : requires_grad[c] \subseteq Weights(loaded) \cup Adapters(adapted[c])
  /\ at \in Ended \cup {"inject"} \cup PastInjection
  /\ IF at \in Unstarted THEN build = Idle ELSE build \in Locals
  /\ bundles \in [Stages -> Locals \cup {None}]
  /\ builds \in 0..MaxBuilds
  /\ used \in [Copies -> SUBSET Splits] /\ failed \subseteq Copies
  /\ \A c \in Copies : IsFiniteSet(used[c])

\* The compressor is the one the split names for the stage.
CompressorIsAsked(b) ==
  /\ b.split.compression # "unknown"
  /\ b.compressor = IF b.split.compression # "learned" THEN {}
                    ELSE IF b.stage = 0 THEN {Down} ELSE {Up}
  /\ b.has_compressor <=> \/ b.split.compression = "learned"
                          \/ b.split.compression = "fixed" /\ b.stage = 0

FreezesIn(b) == b.split.freeze_backbone /\ ~UsesLora(b.split) /\ b.has_compressor

\* What a build that has not returned knows and has done so far.
BuildInv ==
  /\ at \notin Unstarted \cup {"returned"} =>
       /\ build.split \in used[Copy]
       /\ build.blocks = LocalBlocks(loaded, build.split, build.stage)
       /\ build.params = {}
       /\ bundles[build.stage] = None
  /\ at = "inject" => UsesLora(build.split) /\ build.blocks \cap adapted[Copy] = {}
  /\ at \in PastInjection /\ UsesLora(build.split) =>
       /\ build.blocks # {} /\ build.blocks \subseteq adapted[Copy]
       /\ requires_grad[Copy] = Adapters(adapted[Copy])
  /\ at \in {"ends", "blocks", "select"} => CompressorIsAsked(build)

Resolved(split) == [split EXCEPT !.split_layer = BoundaryLayer(split, loaded.num_layers)]

\* What stage s returned, whatever happened since.
ReturnedBy(s, b) ==
  /\ b.stage = s /\ b.params # {}
  /\ \E split \in used[CopyOf(s)] : b.split = Resolved(split)
  /\ b.blocks = LocalBlocks(loaded, b.split, s)
  /\ CompressorIsAsked(b)
  /\ UsesLora(b.split) =>
       /\ b.blocks # {} /\ b.blocks \subseteq adapted[CopyOf(s)]
       /\ b.params = Adapters(b.blocks) \cup b.compressor
  /\ FreezesIn(b) => b.params = b.compressor
  /\ ~UsesLora(b.split) =>
       b.params \subseteq Blocks(b.blocks) \cup Adapters(b.blocks \cap adapted[CopyOf(s)])
                            \cup b.compressor \cup OwnEnds(s)

BundleInv ==
  /\ \A s \in Stages : Built(s) => ReturnedBy(s, bundles[s])
  /\ at = "returned" => ReturnedBy(build.stage, build)

\* What the gradients of a copy say about the splits it was built with.
Full(split) == ~UsesLora(split) /\ ~(split.freeze_backbone /\ split.compression = "learned")
Frozen(split) == ~UsesLora(split) /\ split.freeze_backbone /\ split.compression = "learned"

GradAt(c) ==
  /\ adapted[c] # {} => \E split \in used[c] : UsesLora(split)
  /\ c \notin failed /\ (\A split \in used[c] : Full(split)) => requires_grad[c] = Trainable
  /\ adapted[c] # {} /\ (\A split \in used[c] : UsesLora(split)) =>
       requires_grad[c] = Adapters(adapted[c])
  /\ (\A split \in used[c] : Frozen(split)) /\ (\E s \in Stages : CopyOf(s) = c /\ Built(s)) =>
       requires_grad[c] = {}
GradInv == \A c \in Copies : GradAt(c)

\* A weight without data is one the load left to the other stage.
MetaInv == \A c \in Copies, w \in Weights(loaded) :
  device[c][w] = "meta" => w \in Elsewhere(loaded, LoadedFor(c))

\* What the build moved so far.
MovedInv ==
  LET p == build.placement
      on == device[Copy]
  IN
  /\ at \in {"inject", "compress", "ends"} => build.next = 0
  /\ at \in {"blocks", "select"} =>
       /\ build.next <= Cardinality(build.blocks)
       /\ \A i \in build.blocks : Below(build.blocks, i) < build.next =>
            /\ HasBlockDevice(p, Below(build.blocks, i))
            /\ on[Block(i)] = BlockDevice(p, Below(build.blocks, i))
       /\ build.stage = 0 => on[Embed] = EmbedDevice(p) /\ on[Positions] = EmbedDevice(p)
  /\ at = "select" =>
       /\ build.next = Cardinality(build.blocks)
       /\ build.stage = 1 => \A w \in HeadEnds : on[w] = HeadDevice(p)
       /\ build.has_compressor => build.compressor_device = CompressorDevice(p)

(***************************************************************************)
(* Types                                                                   *)
(***************************************************************************)
\* A load is a record of numbers and flags.
LEMMA LoadFields ==
  ASSUME loaded \in Loads
  PROVE  /\ loaded.blocks \in Nat /\ loaded.num_layers \in Nat
         /\ loaded.shared \in BOOLEAN /\ loaded.tied \in BOOLEAN
         /\ loaded.shard_stage \in Stages
         /\ loaded.positions \in {"wpe", "rotary"}
BY LoadsAssumption DEF Load

\* A stage works on one of the copies, and shares it only if there is one.
LEMMA CopyFacts ==
  ASSUME loaded \in Loads
  PROVE  /\ \A s \in Stages : CopyOf(s) \in Copies
         /\ loaded.shared => \A s : CopyOf(s) = 0
         /\ ~loaded.shared => \A s : CopyOf(s) = s
BY DEF CopyOf, Copies, Stages

\* The weights of a stage's ends are weights of the model.
LEMMA EndsAreWeights ==
  ASSUME loaded \in Loads
  PROVE  /\ {Embed, Positions, HeadWeight} \cup HeadEnds \subseteq Weights(loaded)
         /\ \A i \in Indices : Block(i) \in Weights(loaded)
BY DEF Weights, HeadWeight, HeadEnds, Indices

\* A placement's devices are devices.
LEMMA PlacementDevices ==
  ASSUME NEW p \in Placements
  PROVE  /\ p.device \in Devices
         /\ EmbedDevice(p) \in Devices /\ HeadDevice(p) \in Devices
         /\ FirstBlockDevice(p) \in Devices /\ LastBlockDevice(p) \in Devices
         /\ \A k \in Nat : HasBlockDevice(p, k) => BlockDevice(p, k) \in Devices
<1>1. /\ p.device \in Devices
      /\ p.block_devices \in Seq(Devices) \cup {None}
      /\ p.embed_device \in Devices \cup {None}
      /\ p.head_device \in Devices \cup {None}
  BY PlacementsAssumption DEF Placement
<1>2. EmbedDevice(p) \in Devices /\ HeadDevice(p) \in Devices
  BY <1>1 DEF EmbedDevice, HeadDevice, OrDevice
<1>3. CASE Listed(p)
  <2>1. p.block_devices \in Seq(Devices)
    BY <1>1, <1>3 DEF Listed
  <2>2. \A k \in 1..Len(p.block_devices) : p.block_devices[k] \in Devices
    BY <2>1
  <2>3. p.block_devices # <<>> =>
          1 \in 1..Len(p.block_devices) /\ Len(p.block_devices) \in 1..Len(p.block_devices)
    BY <2>1
  <2>4. Len(p.block_devices) \in Nat
    BY <2>1
  <2>5. FirstBlockDevice(p) \in Devices /\ LastBlockDevice(p) \in Devices
    BY <1>1, <2>2, <2>3 DEF FirstBlockDevice, LastBlockDevice, Spread
  <2>6. ASSUME NEW k \in Nat, HasBlockDevice(p, k) PROVE BlockDevice(p, k) \in Devices
    <3>1. k + 1 \in 1..Len(p.block_devices)
      BY <1>3, <2>4, <2>6 DEF HasBlockDevice
    <3> QED
      BY <1>3, <2>2, <3>1 DEF BlockDevice
  <2> QED
    BY <1>1, <1>2, <2>5, <2>6
<1>4. CASE ~Listed(p)
  BY <1>1, <1>2, <1>4 DEF FirstBlockDevice, LastBlockDevice, BlockDevice, Spread
<1> QED
  BY <1>3, <1>4

\* A split's boundary, resolved or not, is one Python can slice with.
LEMMA SplitFields ==
  ASSUME NEW split \in SplitSpec
  PROVE  split.split_layer \in Int \cup {None}
BY DEF SplitSpec, SplitSpecs

\* A stage's blocks are finitely many blocks of the model.
LEMMA LocalBlocksType ==
  ASSUME loaded \in Loads, NEW split \in SplitSpec, NEW s \in Stages
  PROVE  /\ LocalBlocks(loaded, split, s) \subseteq Indices
         /\ Cardinality(LocalBlocks(loaded, split, s)) \in 0..loaded.blocks
<1>1. PICK lo, hi \in 0..loaded.blocks : LocalBlocks(loaded, split, s) = lo..(hi - 1)
  BY LoadFields, SplitFields, LocalBlocksInterval
<1>2. loaded.blocks \in Nat
  BY LoadFields
<1>3. Cardinality(lo..(hi - 1)) = IF lo > hi - 1 THEN 0 ELSE hi - 1 - lo + 1
  <2>1. lo \in Int /\ hi - 1 \in Int
    BY <1>2
  <2> QED
    BY <2>1, FS_Interval
<1> QED
  BY <1>1, <1>2, <1>3 DEF Indices

\* Nothing was built yet.
LEMMA InitTypes == Init => Types
<1> SUFFICES ASSUME Init PROVE Types
  OBVIOUS
<1> USE DEF Init
<1>1. device \in [Copies -> [Weights(loaded) -> Devices \cup {"meta"}]]
  BY HomeAssumption
<1>2. \A c \in Copies : IsFiniteSet(used[c])
  BY FS_EmptySet
<1>3. builds \in 0..MaxBuilds
  BY MaxBuildsAssumption
<1>4. requires_grad \in [Copies -> SUBSET (Weights(loaded) \cup Adapters(Indices))]
  OBVIOUS
<1>5. \A c \in Copies : requires_grad[c] \subseteq Weights(loaded) \cup Adapters(adapted[c])
  OBVIOUS
<1> QED
  BY <1>1, <1>2, <1>3, <1>4, <1>5 DEF Types, Ended, Unstarted

\* The build's copy.
LEMMA BuildCopy ==
  ASSUME Types, at \notin Unstarted
  PROVE  build \in Locals /\ build.stage \in Stages /\ Copy \in Copies
<1>1. build \in Locals
  BY DEF Types
<1>2. build.stage \in Stages
  BY <1>1 DEF Locals
<1>3. loaded \in Loads
  BY DEF Types
<1> QED
  BY <1>1, <1>2, <1>3, CopyFacts DEF Copy

\* A build that fails keeps its locals.
LEMMA FailTypes ==
  ASSUME Types, at \notin Ended, NEW error \in Ended \ Unstarted, Fail(error)
  PROVE  /\ at' \in Ended /\ at' \notin Unstarted /\ failed' \subseteq Copies
         /\ build' \in Locals
         /\ UNCHANGED <<loaded, build, bundles, builds, used>>
<1>1. at \notin Unstarted
  BY DEF Ended, Unstarted
<1> QED
  BY <1>1, BuildCopy DEF Fail, historyVars, Types

\* So it keeps the types, if what it did before keeps them.
LEMMA FailedTypes ==
  ASSUME Types, at \notin Ended, NEW error \in Ended \ Unstarted, Fail(error),
         device' \in [Copies -> [Weights(loaded) -> Devices \cup {"meta"}]],
         UNCHANGED <<requires_grad, adapted>>
  PROVE  Types'
<1>1. /\ at' \in Ended /\ at' \notin Unstarted /\ failed' \subseteq Copies
      /\ build' \in Locals
      /\ UNCHANGED <<loaded, build, bundles, builds, used>>
  BY FailTypes
<1>2. Locals' = Locals
  BY <1>1 DEF Locals, Indices
<1>3. Weights(loaded)' = Weights(loaded) /\ Indices' = Indices
  BY <1>1 DEF Weights, Indices
<1> QED
  BY <1>1, <1>2, <1>3 DEF Types, Adapters

\* Moving weights to a device moves weights of the build's copy.
LEMMA MoveTypes ==
  ASSUME Types, at \notin Unstarted, NEW weights, NEW d \in Devices, Move(weights, d)
  PROVE  /\ device' \in [Copies -> [Weights(loaded) -> Devices \cup {"meta"}]]
         /\ \A w \in Weights(loaded) :
              device'[Copy][w] = IF w \in weights THEN d ELSE device[Copy][w]
         /\ \A c \in Copies : c # Copy => device'[c] = device[c]
<1>1. device \in [Copies -> [Weights(loaded) -> Devices \cup {"meta"}]] /\ Copy \in Copies
  BY BuildCopy DEF Types
<1> HIDE DEF Copy
<1>2. device' = [device EXCEPT ![Copy] =
                   [w \in Weights(loaded) |-> IF w \in weights THEN d ELSE device[Copy][w]]]
  BY <1>1 DEF Move
<1> QED
  BY <1>1, <1>2

\* A call keeps the types: its refusals only end it, and its blocks are blocks of the model.
LEMMA CallTypes ==
  ASSUME Types, NEW s \in Stages, NEW split \in Splits, NEW p \in Placements,
         Call(s, split, p)
  PROVE  Types'
<1>1. loaded \in Loads /\ split \in SplitSpec
  BY SplitsAssumption DEF Types
<1>2. CopyOf(s) \in Copies
  BY <1>1, CopyFacts
<1>3. UNCHANGED <<loaded, device, requires_grad, adapted, failed>>
  BY DEF Call, modelVars
<1>4. build' \in Locals
  <2>1. LocalBlocks(loaded, split, s) \in SUBSET Indices
    BY <1>1, LocalBlocksType
  <2>2. p.device \in Devices
    BY PlacementDevices
  <2>3. 0 \in 0..loaded.blocks
    BY <1>1, LoadFields
  <2> QED
    BY <1>1, <2>1, <2>2, <2>3 DEF Call, Locals
<1>5. Locals' = Locals
  BY <1>3 DEF Locals, Indices, Adapters, Weights
<1>6. at' \in Ended \cup {"inject"} \cup PastInjection /\ at' \notin Unstarted
  BY DEF Call, Ended, Unstarted, PastInjection
<1>7. bundles' \in [Stages -> Locals \cup {None}]
  BY DEF Call, Types
<1>8. builds' \in 0..MaxBuilds
  BY MaxBuildsAssumption DEF Call, Types
<1>9. used' = [used EXCEPT ![CopyOf(s)] = @ \cup {split}]
  BY DEF Call
<1>10. used' \in [Copies -> SUBSET Splits]
  BY <1>9, <1>2 DEF Types
<1>11. \A c \in Copies : IsFiniteSet(used'[c])
  <2>1. IsFiniteSet(used[CopyOf(s)] \cup {split})
    BY <1>2, FS_AddElement DEF Types
  <2> QED
    BY <1>2, <1>9, <2>1 DEF Types
<1>12. Indices' = Indices /\ Weights(loaded)' = Weights(loaded)
  BY <1>3 DEF Indices, Weights
<1> QED
  BY <1>3, <1>4, <1>5, <1>6, <1>7, <1>8, <1>10, <1>11, <1>12 DEF Types, Adapters

\* A refusal keeps the types: it happens before there are any locals.
LEMMA RefuseTypes ==
  ASSUME Types, NEW index, NEW split, Refuse(index, split)
  PROVE  Types'
<1>1. UNCHANGED <<loaded, device, requires_grad, adapted, bundles, used, failed>>
  BY DEF Refuse, modelVars
<1>2. builds' \in 0..MaxBuilds
  BY MaxBuildsAssumption DEF Refuse, Types
<1>3. at' \in Unstarted /\ build' = Idle
  BY DEF Refuse, Unstarted
<1> QED
  BY <1>1, <1>2, <1>3 DEF Types, Indices, Adapters, Weights, Locals, Ended

\* Injecting adapters keeps the types.
LEMMA InjectLoraTypes == Types /\ InjectLora => Types'
<1> SUFFICES ASSUME Types, InjectLora PROVE Types'
  OBVIOUS
<1>1. at = "inject" /\ at \notin Ended /\ at \notin Unstarted
  BY DEF InjectLora, Ended, Unstarted
<1>2. build \in Locals /\ Copy \in Copies /\ build.blocks \subseteq Indices
  BY <1>1, BuildCopy DEF Locals
<1>3. CASE \E error \in Ended \ Unstarted : Fail(error) /\ UNCHANGED modelVars
  BY <1>1, <1>3, FailedTypes DEF Types, modelVars
<1>4. CASE ~ \E error \in Ended \ Unstarted : Fail(error) /\ UNCHANGED modelVars
  <2>1. /\ adapted' = [adapted EXCEPT ![Copy] = @ \cup QualifiedBlocks]
        /\ requires_grad' =
             [requires_grad EXCEPT ![Copy] = {Adapter(i) : i \in adapted'[Copy]}]
        /\ build' = [build EXCEPT !.targets = DefaultTargets]
        /\ at' = "compress"
        /\ UNCHANGED <<device, bundles, failed, loaded, builds, used>>
    BY <1>4 DEF InjectLora, Ended, Unstarted, historyVars
  <2>2. QualifiedBlocks \subseteq Indices
    BY <1>2 DEF QualifiedBlocks, Local
  <2>3. adapted' \in [Copies -> SUBSET Indices]
    BY <1>2, <2>1, <2>2 DEF Types
  <2> HIDE DEF Copy
  <2>4. requires_grad'[Copy] = Adapters(adapted'[Copy])
    BY <1>2, <2>1 DEF Types, Adapters
  <2>5. \A c \in Copies : c # Copy => requires_grad'[c] = requires_grad[c] /\ adapted'[c] = adapted[c]
    BY <2>1 DEF Types
  <2>6. Adapters(adapted'[Copy]) \subseteq Adapters(Indices)
    BY <1>2, <2>3 DEF Adapters
  <2>7. requires_grad' \in [Copies -> SUBSET (Weights(loaded) \cup Adapters(Indices))]
    BY <1>2, <2>1, <2>4, <2>6 DEF Types, Adapters
  <2>8. \A c \in Copies : requires_grad'[c] \subseteq Weights(loaded) \cup Adapters(adapted'[c])
    BY <2>4, <2>5 DEF Types
  <2>9. build' \in Locals
    BY <1>2, <2>1 DEF Locals, DefaultTargets
  <2> QED
    BY <2>1, <2>3, <2>7, <2>8, <2>9 DEF Types, Indices, Adapters, Weights, Locals, PastInjection, Unstarted
<1> QED
  BY <1>3, <1>4

\* Building the compressors keeps the types.
LEMMA BuildCompressorsTypes == Types /\ BuildCompressors => Types'
<1> SUFFICES ASSUME Types, BuildCompressors PROVE Types'
  OBVIOUS
<1>1. at = "compress" /\ at \notin Ended /\ at \notin Unstarted
  BY DEF BuildCompressors, Ended, Unstarted
<1>2. build \in Locals
  BY <1>1, BuildCopy
<1>3. UNCHANGED <<device, requires_grad, adapted>>
  BY DEF BuildCompressors, modelVars
<1>4. CASE Fail("ValueError")
  <2>1. "ValueError" \in Ended \ Unstarted
    BY DEF Ended, Unstarted
  <2> QED
    BY <1>1, <1>3, <1>4, <2>1, FailedTypes DEF Types
<1>5. CASE ~Fail("ValueError")
  <2>1. /\ at' = "ends"
        /\ UNCHANGED <<loaded, bundles, failed, builds, used>>
    BY <1>5 DEF BuildCompressors, historyVars
  <2>2. \E half \in SUBSET {Down, Up}, has \in BOOLEAN :
          build' = [build EXCEPT !.compressor = half, !.has_compressor = has]
    BY <1>5 DEF BuildCompressors, CompressorWeights
  <2>3. build' \in Locals
    BY <1>2, <2>2 DEF Locals
  <2> QED
    BY <1>3, <2>1, <2>3 DEF Types, Indices, Adapters, Weights, Locals, PastInjection, Unstarted
<1> QED
  BY <1>4, <1>5

\* Moving the embeddings keeps the types.
LEMMA MoveEndsTypes == Types /\ MoveEnds => Types'
<1> SUFFICES ASSUME Types, MoveEnds PROVE Types'
  OBVIOUS
<1>1. at = "ends" /\ at \notin Ended /\ at \notin Unstarted
  BY DEF MoveEnds, Ended, Unstarted
<1>2. build \in Locals /\ build.placement \in Placements
  BY <1>1, BuildCopy DEF Locals
<1>3. EmbedDevice(build.placement) \in Devices /\ FirstBlockDevice(build.placement) \in Devices
  BY <1>2, PlacementDevices
<1>4. \E weights : \E d \in Devices : Move(weights, d)
  <2>1. CASE CanMove(Ends)
    BY <1>3, <2>1 DEF MoveEnds
  <2>2. CASE ~CanMove(Ends)
    BY <1>3, <2>2 DEF MoveEnds
  <2> QED
    BY <2>1, <2>2
<1>5. device' \in [Copies -> [Weights(loaded) -> Devices \cup {"meta"}]]
  BY <1>1, <1>4, MoveTypes
<1>6. UNCHANGED <<requires_grad, adapted>>
  BY DEF MoveEnds
<1>7. CASE Fail("MetaError")
  <2>1. "MetaError" \in Ended \ Unstarted
    BY DEF Ended, Unstarted
  <2> QED
    BY <1>1, <1>5, <1>6, <1>7, <2>1, FailedTypes
<1>8. CASE ~Fail("MetaError")
  <2>1. at' = "blocks" /\ UNCHANGED <<loaded, build, bundles, failed, builds, used>>
    BY <1>8 DEF MoveEnds, historyVars
  <2> QED
    BY <1>1, <1>5, <1>6, <2>1 DEF Types, Indices, Adapters, Weights, Locals, PastInjection, Unstarted
<1> QED
  BY <1>7, <1>8

\* There are no more blocks to move than the model has.
LEMMA LocalCount ==
  ASSUME Types, at \notin Unstarted
  PROVE  /\ Cardinality(build.blocks) \in Nat /\ Cardinality(build.blocks) <= loaded.blocks
         /\ IsFiniteSet(build.blocks) /\ loaded.blocks \in Nat
<1>1. build.blocks \in SUBSET Indices
  BY BuildCopy DEF Locals
<1>2. loaded.blocks \in Nat
  BY LoadFields DEF Types
<1>3. IsFiniteSet(Indices) /\ Cardinality(Indices) = loaded.blocks
  <2>1. Cardinality(0..(loaded.blocks - 1)) =
          IF 0 > loaded.blocks - 1 THEN 0 ELSE loaded.blocks - 1 - 0 + 1
    BY <1>2, FS_Interval
  <2>2. IsFiniteSet(0..(loaded.blocks - 1))
    BY <1>2, FS_Interval
  <2> QED
    BY <1>2, <2>1, <2>2 DEF Indices
<1>4. IsFiniteSet(build.blocks) /\ Cardinality(build.blocks) <= Cardinality(Indices)
  BY <1>1, <1>3, FS_Subset
<1>5. Cardinality(build.blocks) \in Nat
  BY <1>4, FS_CardinalityType
<1> QED
  BY <1>2, <1>3, <1>4, <1>5

\* Moving a block keeps the types: the list of devices has an entry for it.
LEMMA MoveBlockTypes == Types /\ MoveBlock => Types'
<1> SUFFICES ASSUME Types, MoveBlock PROVE Types'
  OBVIOUS
<1>1. at = "blocks" /\ at \notin Ended /\ at \notin Unstarted
  BY DEF MoveBlock, Ended, Unstarted
<1>2. build \in Locals /\ build.placement \in Placements /\ build.next \in Nat
  BY <1>1, BuildCopy, LoadFields DEF Locals, Types
<1>3. UNCHANGED <<requires_grad, adapted>>
  BY DEF MoveBlock
<1>4. CASE \E error \in Ended \ Unstarted : Fail(error) /\ UNCHANGED device
  BY <1>1, <1>3, <1>4, FailedTypes DEF Types
<1>5. CASE ~ \E error \in Ended \ Unstarted : Fail(error) /\ UNCHANGED device
  <2>1. /\ HasBlockDevice(build.placement, build.next)
        /\ Move({LocalBlock(build.next)}, BlockDevice(build.placement, build.next))
        /\ build' = [build EXCEPT !.next = @ + 1]
        /\ UNCHANGED <<loaded, at, bundles, failed, builds, used>>
    BY <1>5 DEF MoveBlock, Ended, Unstarted, historyVars
  <2>2. BlockDevice(build.placement, build.next) \in Devices
    BY <1>2, <2>1, PlacementDevices
  <2>3. device' \in [Copies -> [Weights(loaded) -> Devices \cup {"meta"}]]
    BY <1>1, <2>1, <2>2, MoveTypes
  <2>4. build.next + 1 \in 0..loaded.blocks
    <3>1. build.next < Cardinality(build.blocks)
      BY DEF MoveBlock, Local
    <3> QED
      BY <1>1, <1>2, <3>1, LocalCount
  <2>5. build' \in Locals
    BY <1>2, <2>1, <2>4 DEF Locals
  <2> QED
    BY <1>1, <1>3, <2>1, <2>3, <2>5 DEF Types, Indices, Adapters, Weights, Locals
<1> QED
  BY <1>4, <1>5

\* Moving compressor, norm and head keeps the types.
LEMMA MoveTailTypes == Types /\ MoveTail => Types'
<1> SUFFICES ASSUME Types, MoveTail PROVE Types'
  OBVIOUS
<1>1. at = "blocks" /\ at \notin Ended /\ at \notin Unstarted
  BY DEF MoveTail, Ended, Unstarted
<1>2. build \in Locals /\ build.placement \in Placements
  BY <1>1, BuildCopy DEF Locals
<1>3. UNCHANGED <<requires_grad, adapted>>
  BY DEF MoveTail
<1>4. CASE \E error \in Ended \ Unstarted : Fail(error) /\ UNCHANGED device
  BY <1>1, <1>3, <1>4, FailedTypes DEF Types
<1>5. CASE ~ \E error \in Ended \ Unstarted : Fail(error) /\ UNCHANGED device
  <2>1. /\ \E moved : Move(moved, HeadDevice(build.placement))
        /\ build' = [build EXCEPT !.compressor_device =
                       IF build.has_compressor THEN CompressorDevice(build.placement) ELSE @]
        /\ at' = "select"
        /\ UNCHANGED <<loaded, bundles, failed, builds, used>>
    BY <1>5 DEF MoveTail, Ended, Unstarted, historyVars
  <2>2. /\ HeadDevice(build.placement) \in Devices
        /\ CompressorDevice(build.placement) \in Devices
    BY <1>2, PlacementDevices DEF CompressorDevice
  <2>3. device' \in [Copies -> [Weights(loaded) -> Devices \cup {"meta"}]]
    BY <1>1, <2>1, <2>2, MoveTypes
  <2>4. build' \in Locals
    BY <1>2, <2>1, <2>2 DEF Locals
  <2> QED
    BY <1>3, <2>1, <2>3, <2>4 DEF Types, Indices, Adapters, Weights, Locals, PastInjection, Unstarted
<1> QED
  BY <1>4, <1>5

\* What _select_parameters selects belongs to the stage.
Selected ==
  IF UsesLora(build.split) THEN LoraParameters
  ELSE IF Freezes THEN build.compressor
  ELSE FullParameters

\* What a stage is asked to train are parameters of it.
LEMMA SelectedTypes ==
  ASSUME Types, at \notin Unstarted
  PROVE  /\ BlockWeights(Local) = Blocks(build.blocks) \cup Adapters(build.blocks \cap adapted[Copy])
         /\ Selected \subseteq BlockWeights(Local) \cup build.compressor \cup OwnEnds(build.stage)
         /\ Selected \subseteq ModelWeights \cup {Down, Up}
         /\ Selected \subseteq Weights(loaded) \cup Adapters(Indices) \cup {Down, Up}
<1>1. /\ build.stage \in Stages /\ build.blocks \subseteq Indices
      /\ build.compressor \subseteq {Down, Up}
  BY BuildCopy DEF Locals
<1>2. BlockWeights(Local) = Blocks(build.blocks) \cup Adapters(build.blocks \cap adapted[Copy])
  BY DEF BlockWeights, Blocks, Adapters, Local
<1>3. Selected \subseteq BlockWeights(Local) \cup build.compressor \cup OwnEnds(build.stage)
  BY DEF Selected, LoraParameters, FullParameters, OwnEnds, First
<1>4. OwnEnds(build.stage) \subseteq Weights(loaded)
  BY EndsAreWeights DEF OwnEnds, Types
<1>5. Blocks(build.blocks) \subseteq Weights(loaded)
  BY <1>1, EndsAreWeights DEF Blocks, Types
<1>6. /\ Adapters(build.blocks \cap adapted[Copy]) \subseteq Adapters(adapted[Copy])
      /\ Adapters(build.blocks \cap adapted[Copy]) \subseteq Adapters(Indices)
  BY <1>1 DEF Adapters
<1>7. ModelWeights = Weights(loaded) \cup Adapters(adapted[Copy])
  BY DEF ModelWeights, Adapters
<1> HIDE DEF Selected
<1> QED
  BY <1>1, <1>2, <1>3, <1>4, <1>5, <1>6, <1>7

\* Selecting the parameters keeps the types.
LEMMA SelectParametersTypes == Types /\ SelectParameters => Types'
<1> SUFFICES ASSUME Types, SelectParameters PROVE Types'
  OBVIOUS
<1>1. at = "select" /\ at \notin Ended /\ at \notin Unstarted
  BY DEF SelectParameters, Ended, Unstarted
<1>2. build \in Locals /\ Copy \in Copies /\ build.split \in SplitSpec /\ build.stage \in Stages
  BY <1>1, BuildCopy DEF Locals
<1>3. UNCHANGED <<device, adapted>>
  BY DEF SelectParameters
<1>4. loaded' = loaded
  BY DEF SelectParameters, Fail, historyVars
<1>5. /\ requires_grad' \in [Copies -> SUBSET (Weights(loaded) \cup Adapters(Indices))]
      /\ \A c \in Copies : requires_grad'[c] \subseteq requires_grad[c]
  <2>1. requires_grad' = requires_grad \/ requires_grad' = [requires_grad EXCEPT ![Copy] = {}]
    BY DEF SelectParameters, FreezeBackbone
  <2> HIDE DEF Copy
  <2>2. CASE requires_grad' = [requires_grad EXCEPT ![Copy] = {}]
    BY <1>2, <2>2 DEF Types
  <2> QED
    BY <2>1, <2>2 DEF Types
<1>6. \A c \in Copies : requires_grad'[c] \subseteq Weights(loaded) \cup Adapters(adapted'[c])
  BY <1>3, <1>5 DEF Types
<1>7. CASE Fail("RuntimeError")
  <2>1. /\ at' \in Ended \ Unstarted /\ build' \in Locals /\ failed' \subseteq Copies
        /\ UNCHANGED <<loaded, build, bundles, builds, used>>
    <3>1. "RuntimeError" \in Ended \ Unstarted
      BY DEF Ended, Unstarted
    <3> QED
      BY <1>1, <1>7, <3>1, FailTypes
  <2> QED
    BY <1>3, <1>5, <1>6, <2>1 DEF Types, Indices, Adapters, Weights, Locals
<1>8. CASE ~Fail("RuntimeError")
  <2>1. /\ at' = "returned"
        /\ build' = [build EXCEPT
             !.params = Selected,
             !.split.split_layer = BoundaryLayer(build.split, loaded.num_layers)]
        /\ bundles' = [bundles EXCEPT ![build.stage] = build']
        /\ UNCHANGED <<failed, builds, used>>
    BY <1>8 DEF SelectParameters, Selected, historyVars
  <2>2. BoundaryLayer(build.split, loaded.num_layers) \in Int
    BY <1>2, SplitFields, BoundaryIsInt, LoadFields DEF Types
  <2>3. Selected \subseteq Weights(loaded) \cup Adapters(Indices) \cup {Down, Up}
    BY <1>1, SelectedTypes
  <2>4. build' \in Locals
    <3> DEFINE split == [build.split EXCEPT
                           !.split_layer = BoundaryLayer(build.split, loaded.num_layers)]
    <3>1. split \in SplitSpec
      BY <1>2, <2>2 DEF SplitSpec, SplitSpecs
    <3>2. build' = [build EXCEPT !.params = Selected, !.split = split]
      BY <1>2, <2>1 DEF Locals
    <3> HIDE DEF split
    <3> QED
      BY <1>2, <2>3, <3>1, <3>2 DEF Locals
  <2>5. bundles' \in [Stages -> Locals \cup {None}]
    BY <1>2, <2>1, <2>4 DEF Types
  <2> QED
    BY <1>3, <1>4, <1>5, <1>6, <2>1, <2>4, <2>5 DEF Types, Indices, Adapters, Weights, Locals, Ended, Unstarted
<1> QED
  BY <1>7, <1>8

\* No step gives a variable a value of another kind.
LEMMA TypesStep == Types /\ [Next]_vars => Types'
<1>1. CASE UNCHANGED vars
  BY <1>1 DEF Types, vars, Indices, Adapters, Weights, Locals
<1> QED
  BY <1>1, RefuseTypes, CallTypes, InjectLoraTypes, BuildCompressorsTypes, MoveEndsTypes, MoveBlockTypes,
     MoveTailTypes, SelectParametersTypes DEF Next

(***************************************************************************)
(* The build in progress                                                   *)
(***************************************************************************)
Working == InjectLora \/ BuildCompressors \/ MoveEnds \/ MoveBlock \/ MoveTail

\* Between the call and the selection a build keeps its arguments, and touches
\* no bundle and no history.
LEMMA WorkStep ==
  ASSUME Types, Working
  PROVE  /\ at \in {"inject"} \cup PastInjection /\ at \notin Unstarted /\ at # "returned"
         /\ at' \notin Unstarted \cup {"returned", "inject"}
         /\ UNCHANGED <<loaded, bundles, builds, used>>
         /\ build.stage' = build.stage /\ build.split' = build.split
         /\ build.blocks' = build.blocks /\ build.placement' = build.placement
         /\ build.params' = build.params
         /\ Copy' = Copy /\ failed \subseteq failed'
<1>1. at \in {"inject"} \cup PastInjection /\ at \notin Unstarted /\ at # "returned"
  BY DEF Working, InjectLora, BuildCompressors, MoveEnds, MoveBlock, MoveTail, PastInjection, Unstarted
<1>2. build \in Locals
  BY <1>1, BuildCopy
<1>3. at' \notin Unstarted \cup {"returned", "inject"}
  BY DEF Working, InjectLora, BuildCompressors, MoveEnds, MoveBlock, MoveTail, Fail, Unstarted
<1>4. UNCHANGED <<loaded, bundles, builds, used>> /\ failed \subseteq failed'
  BY DEF Working, InjectLora, BuildCompressors, MoveEnds, MoveBlock, MoveTail, Fail, historyVars
<1>5. /\ build.stage' = build.stage /\ build.split' = build.split
      /\ build.blocks' = build.blocks /\ build.placement' = build.placement
      /\ build.params' = build.params
  BY <1>2 DEF Working, InjectLora, BuildCompressors, MoveEnds, MoveBlock, MoveTail, Fail, Locals
<1>6. Copy' = Copy
  BY <1>4, <1>5 DEF Copy, CopyOf
<1> QED
  BY <1>1, <1>3, <1>4, <1>5, <1>6

\* A call starts a build that has done nothing yet, and drops the old bundle.
LEMMA BuildInvCall ==
  ASSUME Types, NEW s \in Stages, NEW split \in Splits, NEW p \in Placements,
         Call(s, split, p)
  PROVE  BuildInv'
<1>1. /\ build'.stage = s /\ build'.split = split
      /\ build'.blocks = LocalBlocks(loaded, split, s) /\ build'.params = {}
      /\ UNCHANGED <<loaded, adapted>>
      /\ used' = [used EXCEPT ![CopyOf(s)] = @ \cup {split}]
      /\ bundles' = [bundles EXCEPT ![s] = None]
  BY DEF Call, modelVars
<1>2. Copy' = CopyOf(s) /\ CopyOf(s) \in Copies
  BY <1>1, CopyFacts DEF Copy, CopyOf, Types
<1>3. split \in used'[CopyOf(s)] /\ bundles'[s] = None
  BY <1>1, <1>2 DEF Types
<1>4. at' \in {"inject", "compress"}
  BY DEF Call
<1>5. at' = "inject" => UsesLora(split) /\ LocalBlocks(loaded, split, s) \cap adapted[CopyOf(s)] = {}
  BY DEF Call
<1>6. at' \in PastInjection => ~UsesLora(split)
  BY DEF Call, PastInjection
<1> QED
  BY <1>1, <1>2, <1>3, <1>4, <1>5, <1>6 DEF BuildInv

\* A refusal leaves no build in progress.
LEMMA BuildInvRefuse ==
  ASSUME NEW index, NEW split, Refuse(index, split)
  PROVE  BuildInv'
BY DEF Refuse, BuildInv, Unstarted, PastInjection

\* An injection leaves adapters in every block of the stage, and only them trainable.
LEMMA BuildInvInjectLora == Types /\ BuildInv /\ InjectLora => BuildInv'
<1> SUFFICES ASSUME Types, BuildInv, InjectLora PROVE BuildInv'
  OBVIOUS
<1>1. Working
  BY DEF Working
<1>2. at = "inject" /\ UsesLora(build.split)
  BY DEF InjectLora, BuildInv
<1>3. Copy \in Copies
  BY <1>2, BuildCopy DEF Unstarted
<1>4. at' \in PastInjection =>
        /\ build.blocks # {} /\ build.blocks \subseteq adapted'[Copy]
        /\ requires_grad'[Copy] = Adapters(adapted'[Copy])
  <2>1. ASSUME at' \in PastInjection
        PROVE  /\ QualifiedBlocks # {}
               /\ adapted' = [adapted EXCEPT ![Copy] = @ \cup QualifiedBlocks]
               /\ requires_grad' =
                    [requires_grad EXCEPT ![Copy] = {Adapter(i) : i \in adapted'[Copy]}]
    BY <2>1 DEF InjectLora, Fail, PastInjection
  <2> HIDE DEF Copy
  <2> QED
    BY <1>3, <2>1 DEF Types, Adapters, QualifiedBlocks, Local
<1>5. at' \notin {"ends", "blocks", "select"}
  BY DEF InjectLora, Fail
<1> QED
  BY <1>1, <1>2, <1>4, <1>5, WorkStep DEF BuildInv

\* The other steps leave the adapters and the gradients alone.
LEMMA BuildInvWork == Types /\ BuildInv /\ Working => BuildInv'
<1> SUFFICES ASSUME Types, BuildInv, Working PROVE BuildInv'
  OBVIOUS
<1>1. CASE InjectLora
  BY <1>1, BuildInvInjectLora
<1>2. CASE ~InjectLora
  <2>1. UNCHANGED <<requires_grad, adapted>> /\ at \in PastInjection
    BY <1>2 DEF Working, BuildCompressors, MoveEnds, MoveBlock, MoveTail, PastInjection, modelVars
  <2>2. CASE BuildCompressors
    <3>1. build \in Locals
      BY WorkStep, BuildCopy
    <3>2. at' \in {"ends", "blocks", "select"} => CompressorIsAsked(build')
      BY <2>2, <3>1 DEF BuildCompressors, CompressorIsAsked, Fail, Locals, First, CompressorWeights
    <3> QED
      BY <2>1, <3>2, WorkStep DEF BuildInv, CompressorIsAsked
  <2>3. CASE ~BuildCompressors
    <3>1. at \in {"ends", "blocks", "select"}
      BY <1>2, <2>3 DEF Working, MoveEnds, MoveBlock, MoveTail
    <3>2. build \in Locals
      BY WorkStep, BuildCopy
    <3>3. build'.compressor = build.compressor /\ build'.has_compressor = build.has_compressor
      BY <1>2, <2>3, <3>2 DEF Working, MoveEnds, MoveBlock, MoveTail, Fail, Locals
    <3>4. CompressorIsAsked(build')
      BY <3>1, <3>3, WorkStep DEF BuildInv, CompressorIsAsked
    <3> QED
      BY <2>1, <3>4, WorkStep DEF BuildInv, CompressorIsAsked
  <2> QED
    BY <2>2, <2>3
<1> QED
  BY <1>1, <1>2

\* Selecting the parameters ends the build.
LEMMA BuildInvSelect == Types /\ BuildInv /\ SelectParameters => BuildInv'
<1> SUFFICES ASSUME Types, BuildInv, SelectParameters PROVE BuildInv'
  OBVIOUS
<1>1. at = "select"
  BY DEF SelectParameters
<1>2. at' \in {"returned", "RuntimeError"}
  BY DEF SelectParameters, Fail
<1>3. at' = "RuntimeError" => UNCHANGED <<loaded, used, build, bundles>>
  BY DEF SelectParameters, Fail, historyVars
<1>4. at' = "RuntimeError" => Copy' = Copy
  BY <1>3 DEF Copy, CopyOf
<1> QED
  BY <1>1, <1>2, <1>3, <1>4 DEF BuildInv, PastInjection, Unstarted

\* A build works on what it was called with.
LEMMA BuildInvStep == Types /\ BuildInv /\ [Next]_vars => BuildInv'
<1> SUFFICES ASSUME Types, BuildInv, [Next]_vars PROVE BuildInv'
  OBVIOUS
<1>1. CASE UNCHANGED vars
  BY <1>1 DEF BuildInv, CompressorIsAsked, vars, Copy, CopyOf
<1>2. CASE Working
  BY <1>2, BuildInvWork
<1>3. CASE SelectParameters
  BY <1>3, BuildInvSelect
<1> QED
  BY <1>1, <1>2, <1>3, BuildInvRefuse, BuildInvCall DEF Next, Working

(***************************************************************************)
(* What was returned                                                       *)
(***************************************************************************)
\* No two weights have one name.
LEMMA NamesDiffer ==
  /\ \A i, j : Block(i) = Block(j) => i = j
  /\ \A i, j : Adapter(i) = Adapter(j) => i = j
  /\ \A i, j : Block(i) # Adapter(j)
  /\ \A i : {Block(i), Adapter(i)} \cap {Embed, Positions, Norm, LmHead, Down, Up} = {}
  /\ Embed \notin {Positions, Norm, LmHead, Down, Up}
  /\ Positions \notin {Norm, LmHead, Down, Up}
  /\ Norm \notin {LmHead, Down, Up} /\ LmHead \notin {Down, Up} /\ Down # Up
BY DEF Block, Adapter, Embed, Positions, Norm, LmHead, Down, Up

\* Blocks, adapters and the ends are different weights.
LEMMA SetsOfNamesDiffer ==
  ASSUME NEW A, NEW B
  PROVE  /\ Blocks(A) \cap Adapters(B) = {}
         /\ A \cap B = {} => Blocks(A) \cap Blocks(B) = {} /\ Adapters(A) \cap Adapters(B) = {}
         /\ (Blocks(A) \cup Adapters(B)) \cap {Embed, Positions, Norm, LmHead, Down, Up} = {}
         /\ A \subseteq B => Adapters(A) \subseteq Adapters(B) /\ Adapters(B) \cap Adapters(A) = Adapters(A)
<1>1. Blocks(A) \cap Adapters(B) = {}
  BY NamesDiffer DEF Blocks, Adapters
<1>2. ASSUME A \cap B = {}
      PROVE  Blocks(A) \cap Blocks(B) = {} /\ Adapters(A) \cap Adapters(B) = {}
  <2>1. Blocks(A) \cap Blocks(B) = {}
    BY <1>2, NamesDiffer DEF Blocks
  <2>2. Adapters(A) \cap Adapters(B) = {}
    BY <1>2, NamesDiffer DEF Adapters
  <2> QED
    BY <2>1, <2>2
<1>3. (Blocks(A) \cup Adapters(B)) \cap {Embed, Positions, Norm, LmHead, Down, Up} = {}
  <2>1. \A w \in Blocks(A) : w \notin {Embed, Positions, Norm, LmHead, Down, Up}
    BY NamesDiffer DEF Blocks
  <2>2. \A w \in Adapters(B) : w \notin {Embed, Positions, Norm, LmHead, Down, Up}
    BY NamesDiffer DEF Adapters
  <2> QED
    BY <2>1, <2>2
<1>4. ASSUME A \subseteq B
      PROVE  Adapters(A) \subseteq Adapters(B) /\ Adapters(B) \cap Adapters(A) = Adapters(A)
  BY <1>4 DEF Adapters
<1> QED
  BY <1>1, <1>2, <1>3, <1>4

\* Resolving a split changes its boundary's name only.
LEMMA ResolvedSame ==
  ASSUME NEW split \in SplitSpec
  PROVE  /\ Resolved(split).split_layer = BoundaryLayer(split, loaded.num_layers)
         /\ BoundaryLayer(Resolved(split), loaded.num_layers) = BoundaryLayer(split, loaded.num_layers)
         /\ \A s : LocalBlocks(loaded, Resolved(split), s) = LocalBlocks(loaded, split, s)
         /\ UsesLora(Resolved(split)) = UsesLora(split)
         /\ Resolved(split).lora = split.lora
         /\ Resolved(split).compression = split.compression
         /\ Resolved(split).freeze_backbone = split.freeze_backbone
<1>1. /\ Resolved(split).split_layer = BoundaryLayer(split, loaded.num_layers)
      /\ Resolved(split).lora = split.lora
      /\ Resolved(split).compression = split.compression
      /\ Resolved(split).freeze_backbone = split.freeze_backbone
  BY DEF Resolved, SplitSpec, SplitSpecs
<1>2. BoundaryLayer(Resolved(split), loaded.num_layers) = BoundaryLayer(split, loaded.num_layers)
  BY <1>1 DEF BoundaryLayer
<1>3. \A s : LocalBlocks(loaded, Resolved(split), s) = LocalBlocks(loaded, split, s)
  BY <1>2 DEF LocalBlocks, LayerRange
<1> QED
  BY <1>1, <1>2, <1>3 DEF UsesLora

\* What was returned stays so while splits and adapters are added to the model.
LEMMA ReturnedByStep ==
  ASSUME NEW s \in Stages, UNCHANGED loaded, bundles'[s] = bundles[s],
         ReturnedBy(s, bundles[s]),
         used[CopyOf(s)] \subseteq used'[CopyOf(s)],
         adapted[CopyOf(s)] \subseteq adapted'[CopyOf(s)]
  PROVE  ReturnedBy(s, bundles[s])'
<1> DEFINE b == bundles[s]
<1>1. CopyOf(s)' = CopyOf(s) /\ OwnEnds(s)' = OwnEnds(s)
  BY DEF CopyOf, OwnEnds, HeadEnds, HeadWeight
<1>2. b.blocks \subseteq adapted[CopyOf(s)] => b.blocks \subseteq adapted'[CopyOf(s)]
  OBVIOUS
<1>3. Adapters(b.blocks \cap adapted[CopyOf(s)]) \subseteq Adapters(b.blocks \cap adapted'[CopyOf(s)])
  BY DEF Adapters
<1>4. ASSUME NEW split PROVE Resolved(split)' = Resolved(split)
  BY DEF Resolved
<1>5. \E split \in used'[CopyOf(s)] : b.split = Resolved(split)
  BY DEF ReturnedBy
<1>6. \E split \in used'[CopyOf(s)] : b'.split = Resolved(split)'
  BY <1>4, <1>5
<1>7. LocalBlocks(loaded, b.split, s)' = LocalBlocks(loaded, b.split, s)
  OBVIOUS
<1>8. CompressorIsAsked(b)' = CompressorIsAsked(b) /\ FreezesIn(b)' = FreezesIn(b)
  BY DEF CompressorIsAsked, FreezesIn
<1>9. /\ (\E split \in used[CopyOf(s)] : b.split = Resolved(split))'
      /\ ~UsesLora(b.split) =>
           b.params \subseteq Blocks(b.blocks) \cup Adapters(b.blocks \cap adapted'[CopyOf(s)])
                                \cup b.compressor \cup OwnEnds(s)
  BY <1>1, <1>3, <1>6 DEF ReturnedBy
<1> QED
  BY <1>1, <1>2, <1>7, <1>8, <1>9 DEF ReturnedBy, Blocks, Adapters

\* The selection of each mode.
LEMMA SelectReturns ==
  ASSUME Types, BuildInv, SelectParameters, at' = "returned"
  PROVE  /\ ReturnedBy(build.stage, build)'
         /\ build'.stage = build.stage /\ build'.blocks = build.blocks
         /\ build'.split = Resolved(build.split) /\ build'.params = Selected
         /\ build'.compressor = build.compressor
         /\ build'.has_compressor = build.has_compressor
         /\ build'.placement = build.placement
         /\ build'.compressor_device = build.compressor_device
         /\ build'.targets = build.targets
         /\ bundles' = [bundles EXCEPT ![build.stage] = build']
         /\ UNCHANGED <<loaded, device, adapted, used, builds, failed>>
         /\ Selected # {}
<1>1. at = "select" /\ at \notin Unstarted /\ at \in PastInjection
  BY DEF SelectParameters, PastInjection, Unstarted
<1>2. build \in Locals /\ build.split \in SplitSpec /\ build.stage \in Stages
  BY <1>1, BuildCopy DEF Locals
<1>3. /\ build' = [build EXCEPT
             !.params = Selected,
             !.split.split_layer = BoundaryLayer(build.split, loaded.num_layers)]
      /\ bundles' = [bundles EXCEPT ![build.stage] = build']
      /\ UNCHANGED <<loaded, device, adapted, used, builds, failed>>
      /\ Selected # {}
  BY DEF SelectParameters, Selected, Fail, historyVars
<1>4. build' = [build EXCEPT !.params = Selected, !.split = Resolved(build.split)]
  BY <1>2, <1>3 DEF Resolved, Locals
<1>5. /\ build'.stage = build.stage /\ build'.blocks = build.blocks
      /\ build'.split = Resolved(build.split) /\ build'.params = Selected
      /\ build'.compressor = build.compressor
      /\ build'.has_compressor = build.has_compressor
      /\ build'.placement = build.placement
      /\ build'.compressor_device = build.compressor_device
      /\ build'.targets = build.targets
  BY <1>2, <1>4 DEF Locals
<1>6. Copy' = Copy /\ OwnEnds(build.stage)' = OwnEnds(build.stage) /\ CopyOf(build.stage)' = Copy
  BY <1>3, <1>5 DEF Copy, CopyOf, OwnEnds, HeadEnds, HeadWeight
<1>7. build.split \in used[Copy] /\ build.blocks = LocalBlocks(loaded, build.split, build.stage)
  BY <1>1 DEF BuildInv
<1>8. LocalBlocks(loaded, build'.split, build.stage) = build.blocks
  BY <1>2, <1>5, <1>7, ResolvedSame
<1>9. Resolved(build.split)' = Resolved(build'.split)
  BY <1>3 DEF Resolved
<1>10. \E split \in used'[Copy] : build'.split = [split EXCEPT !.split_layer = BoundaryLayer(split, loaded'.num_layers)]
  BY <1>3, <1>5, <1>7 DEF Resolved
<1>11. CompressorIsAsked(build')
  BY <1>1, <1>2, <1>5, ResolvedSame DEF BuildInv, CompressorIsAsked
<1>12. UsesLora(build'.split) = UsesLora(build.split) /\ FreezesIn(build') = Freezes
  BY <1>2, <1>5, ResolvedSame DEF FreezesIn, Freezes
<1>13. ASSUME UsesLora(build.split)
       PROVE  /\ build.blocks # {} /\ build.blocks \subseteq adapted[Copy]
              /\ Selected = Adapters(build.blocks) \cup build.compressor
  <2>1. /\ build.blocks # {} /\ build.blocks \subseteq adapted[Copy]
        /\ requires_grad[Copy] = Adapters(adapted[Copy])
    BY <1>1, <1>13 DEF BuildInv
  <2>2. BlockWeights(Local) = Blocks(build.blocks) \cup Adapters(build.blocks)
    <3>1. build.blocks \cap adapted[Copy] = build.blocks
      BY <2>1
    <3> QED
      BY <1>1, <3>1, SelectedTypes
  <2>3. Adapters(adapted[Copy]) \cap (Blocks(build.blocks) \cup Adapters(build.blocks)) = Adapters(build.blocks)
    <3>1. Blocks(build.blocks) \cap Adapters(adapted[Copy]) = {}
      BY SetsOfNamesDiffer
    <3>2. Adapters(adapted[Copy]) \cap Adapters(build.blocks) = Adapters(build.blocks)
      BY <2>1, SetsOfNamesDiffer
    <3> QED
      BY <3>1, <3>2
  <2> QED
    BY <1>13, <2>1, <2>2, <2>3 DEF Selected, LoraParameters
<1>14. Freezes => Selected = build.compressor
  BY DEF Selected, Freezes
<1>15. Selected \subseteq Blocks(build.blocks) \cup Adapters(build.blocks \cap adapted[Copy])
                            \cup build.compressor \cup OwnEnds(build.stage)
  BY <1>1, SelectedTypes
<1> HIDE DEF Copy, Selected
<1>16. ReturnedBy(build.stage, build)'
  <2>1. build.stage' = build.stage
    BY <1>5
  <2>2. (\E split \in used[CopyOf(build.stage)] : build.split = Resolved(split))'
    BY <1>5, <1>6, <1>10 DEF Resolved, Copy
  <2>3. CompressorIsAsked(build)' /\ FreezesIn(build)' = Freezes
    BY <1>11, <1>12 DEF CompressorIsAsked, FreezesIn
  <2>4. LocalBlocks(loaded, build.split, build.stage)' = build.blocks
    BY <1>3, <1>5, <1>8
  <2>5. CopyOf(build.stage)' = Copy /\ OwnEnds(build.stage)' = OwnEnds(build.stage)
    BY <1>6
  <2> QED
    BY <1>3, <1>5, <1>12, <1>13, <1>14, <1>15, <2>1, <2>2, <2>3, <2>4, <2>5
    DEF ReturnedBy, Blocks, Adapters
<1> QED
  BY <1>3, <1>5, <1>16

\* Adapters are added and splits remembered; neither is ever taken back.
LEMMA CopiesGrow ==
  ASSUME Types, [Next]_vars, NEW c \in Copies
  PROVE  /\ loaded' = loaded
         /\ used[c] \subseteq used'[c] /\ adapted[c] \subseteq adapted'[c]
<1>1. CASE UNCHANGED vars
  BY <1>1 DEF vars
<1>2. ASSUME NEW s \in Stages, NEW split \in Splits, NEW p \in Placements, Call(s, split, p)
      PROVE  loaded' = loaded /\ used[c] \subseteq used'[c] /\ adapted[c] \subseteq adapted'[c]
  <2>1. loaded' = loaded /\ adapted' = adapted
    BY <1>2 DEF Call, modelVars
  <2>2. used' = [used EXCEPT ![CopyOf(s)] = @ \cup {split}]
    BY <1>2 DEF Call
  <2> QED
    BY <2>1, <2>2 DEF Types
<1>3. CASE InjectLora
  <2>1. Copy \in Copies
    BY <1>3, BuildCopy DEF InjectLora, Unstarted
  <2>2. \/ adapted' = [adapted EXCEPT ![Copy] = @ \cup QualifiedBlocks]
        \/ adapted' = adapted
    BY <1>3 DEF InjectLora, modelVars
  <2> HIDE DEF Copy
  <2>3. adapted[c] \subseteq adapted'[c]
    BY <2>1, <2>2 DEF Types
  <2>4. loaded' = loaded /\ used' = used
    BY <1>3, WorkStep DEF Working
  <2> QED
    BY <2>3, <2>4
<1>4. CASE Working /\ ~InjectLora
  <2>1. adapted' = adapted
    BY <1>4 DEF Working, BuildCompressors, MoveEnds, MoveBlock, MoveTail, modelVars
  <2> QED
    BY <1>4, <2>1, WorkStep
<1>5. CASE SelectParameters
  BY <1>5 DEF SelectParameters, Fail, historyVars
<1> QED
  BY <1>1, <1>2, <1>3, <1>4, <1>5 DEF Next, Working, Refuse, modelVars

\* Every step keeps what the bundles are.
LEMMA BundleInvStep == Types /\ BuildInv /\ BundleInv /\ [Next]_vars => BundleInv'
<1> SUFFICES ASSUME Types, BuildInv, BundleInv, [Next]_vars PROVE BundleInv'
  OBVIOUS
<1>1. ASSUME NEW s \in Stages, bundles'[s] = bundles[s], Built(s)'
      PROVE  ReturnedBy(s, bundles[s])'
  <2>1. ReturnedBy(s, bundles[s])
    BY <1>1 DEF BundleInv, Built
  <2>2. CopyOf(s) \in Copies
    BY CopyFacts DEF Types
  <2> QED
    BY <1>1, <2>1, <2>2, CopiesGrow, ReturnedByStep
<1>2. CASE at' = "returned" /\ SelectParameters
  <2>1. build.stage \in Stages
    BY <1>2, BuildCopy DEF SelectParameters, Unstarted
  <2>2. ReturnedBy(build.stage, build)' /\ bundles' = [bundles EXCEPT ![build.stage] = build']
        /\ build'.stage = build.stage
    BY <1>2, SelectReturns
  <2>3. ASSUME NEW s \in Stages, Built(s)' PROVE ReturnedBy(s, bundles[s])'
    <3>1. CASE s = build.stage
      <4>1. bundles'[s] = build'
        BY <2>1, <2>2, <3>1 DEF Types
      <4>2. s = build'.stage
        BY <2>2, <3>1
      <4> QED
        BY <2>2, <4>1, <4>2 DEF ReturnedBy, CompressorIsAsked, FreezesIn
    <3>2. CASE s # build.stage
      <4>1. bundles'[s] = bundles[s]
        BY <2>2, <3>2 DEF Types
      <4> QED
        BY <1>1, <2>3, <4>1
    <3> QED
      BY <3>1, <3>2
  <2> QED
    BY <2>2, <2>3 DEF BundleInv
<1>3. CASE at' = "returned" /\ UNCHANGED vars
  <2>1. ReturnedBy(build.stage, build)'
    <3>1. at = "returned" /\ ReturnedBy(build.stage, build)
      BY <1>3 DEF vars, BundleInv
    <3> QED
      BY <1>3, <3>1 DEF vars, ReturnedBy, CompressorIsAsked, FreezesIn, Resolved, Blocks, Adapters,
         CopyOf, OwnEnds, HeadEnds, HeadWeight
  <2> QED
    BY <1>1, <1>3, <2>1 DEF BundleInv, vars, Built
<1>4. CASE at' # "returned"
  <2>1. ASSUME NEW s \in Stages, Built(s)' PROVE bundles'[s] = bundles[s]
    <3>1. ASSUME NEW t \in Stages, NEW split \in Splits, NEW p \in Placements, Call(t, split, p)
          PROVE  bundles'[s] = bundles[s]
      BY <2>1, <3>1 DEF Call, Built, Types
    <3>2. CASE SelectParameters
      BY <1>4, <3>2 DEF SelectParameters, Fail
    <3>3. CASE Working
      BY <3>3, WorkStep
    <3>4. CASE UNCHANGED vars
      BY <3>4 DEF vars
    <3>5. ASSUME NEW index, NEW split, Refuse(index, split) PROVE bundles'[s] = bundles[s]
      BY <3>5 DEF Refuse
    <3> QED
      BY <3>1, <3>2, <3>3, <3>4, <3>5 DEF Next, Working
  <2> QED
    BY <1>1, <1>4, <2>1 DEF BundleInv
<1>5. at' = "returned" => SelectParameters \/ UNCHANGED vars
  <2>1. ASSUME NEW t \in Stages, NEW split \in Splits, NEW p \in Placements, Call(t, split, p)
        PROVE  at' # "returned"
    BY <2>1 DEF Call
  <2>2. ASSUME NEW index, NEW split, Refuse(index, split) PROVE at' # "returned"
    BY <2>2 DEF Refuse
  <2> QED
    BY <2>1, <2>2, WorkStep DEF Next, Working
<1> QED
  BY <1>2, <1>3, <1>4, <1>5

CoreInv == Types /\ BuildInv /\ BundleInv

\* Before the first build nothing is known and nothing was returned.
LEMMA InitCore == Init => CoreInv
<1>1. Init => BuildInv /\ BundleInv
  BY DEF Init, BuildInv, BundleInv, Built, PastInjection, Unstarted
<1> QED
  BY <1>1, InitTypes DEF CoreInv

\* What a build knows and what it returned is so in every reachable state.
THEOREM CoreInvariant == Spec => []CoreInv
<1>1. CoreInv /\ [Next]_vars => CoreInv'
  BY TypesStep, BuildInvStep, BundleInvStep DEF CoreInv
<1> QED
  BY <1>1, InitCore, PTL DEF Spec

\* Type correctness: whatever sequence of builds succeeds or fails, the
\* parameters a stage returns and the gradients a copy carries are of weights
\* and adapters that copy has.
THEOREM TypeCorrect == Spec => []TypeOK
<1>1. CoreInv => TypeOK
  <2> SUFFICES ASSUME CoreInv PROVE TypeOK
    OBVIOUS
  <2>1. CASE at \in Unstarted
    BY <2>1 DEF CoreInv, Types, BundleInv, ReturnedBy, Built, TypeOK, PastInjection, Indices, Adapters
  <2>2. CASE at \notin Unstarted
    <3>1. build \in Locals /\ build.stage \in Stages
      BY <2>2, BuildCopy DEF CoreInv
    <3>2. build.params \subseteq ModelWeights \cup {Down, Up}
      <4>1. CASE at = "returned"
        <5>1. ReturnedBy(build.stage, build)
          BY <4>1 DEF CoreInv, BundleInv
        <5>2. build.compressor \subseteq {Down, Up} /\ build.blocks \subseteq Indices
          BY <3>1 DEF Locals
        <5>3. OwnEnds(build.stage) \subseteq Weights(loaded)
          BY EndsAreWeights DEF OwnEnds, CoreInv, Types
        <5>4. Blocks(build.blocks) \subseteq Weights(loaded)
          BY <5>2, EndsAreWeights DEF Blocks, CoreInv, Types
        <5>5. /\ Adapters(build.blocks \cap adapted[Copy]) \subseteq Adapters(adapted[Copy])
              /\ build.blocks \subseteq adapted[Copy] =>
                   Adapters(build.blocks) \subseteq Adapters(adapted[Copy])
          BY DEF Adapters
        <5>6. ModelWeights = Weights(loaded) \cup Adapters(adapted[Copy])
          BY DEF ModelWeights, Adapters
        <5>7. CASE UsesLora(build.split)
          BY <5>1, <5>2, <5>5, <5>6, <5>7 DEF ReturnedBy, Copy
        <5>8. CASE ~UsesLora(build.split)
          BY <5>1, <5>2, <5>3, <5>4, <5>5, <5>6, <5>8 DEF ReturnedBy, Copy
        <5> QED
          BY <5>7, <5>8
      <4>2. CASE at # "returned"
        BY <2>2, <4>2 DEF CoreInv, BuildInv
      <4> QED
        BY <4>1, <4>2
    <3>3. build \in Build
      BY <3>1, <3>2 DEF Locals, Build, Indices
    <3> QED
      BY <3>3 DEF CoreInv, Types, BundleInv, ReturnedBy, Built, TypeOK, PastInjection, Indices, Adapters
  <2> QED
    BY <2>1, <2>2
<1> QED
  BY <1>1, CoreInvariant, PTL

\* Two bundles with one boundary were cut there.
LEMMA AgreedBoundary ==
  ASSUME CoreInv, Agreed
  PROVE  /\ loaded.blocks \in Nat /\ loaded.num_layers \in Nat
         /\ ReturnedBy(0, bundles[0]) /\ ReturnedBy(1, bundles[1])
         /\ bundles[0] \in Locals /\ bundles[1] \in Locals
         /\ \E boundary \in Int :
              /\ BoundaryLayer(bundles[0].split, loaded.num_layers) = boundary
              /\ BoundaryLayer(bundles[1].split, loaded.num_layers) = boundary
<1>1. 0 \in Stages /\ 1 \in Stages
  BY DEF Stages
<1>2. ReturnedBy(0, bundles[0]) /\ ReturnedBy(1, bundles[1])
  BY <1>1 DEF CoreInv, BundleInv, Agreed
<1>3. bundles[0] \in Locals /\ bundles[1] \in Locals
  BY <1>1 DEF CoreInv, Types, Agreed, Built
<1>4. loaded.blocks \in Nat /\ loaded.num_layers \in Nat
  BY LoadFields DEF CoreInv, Types
<1>5. ASSUME NEW s \in Stages, ReturnedBy(s, bundles[s])
      PROVE  /\ BoundaryLayer(bundles[s].split, loaded.num_layers) = bundles[s].split.split_layer
             /\ bundles[s].split.split_layer \in Int
  <2>1. PICK split \in used[CopyOf(s)] : bundles[s].split = Resolved(split)
    BY <1>5 DEF ReturnedBy
  <2>2. split \in SplitSpec
    <3>1. CopyOf(s) \in Copies
      BY CopyFacts DEF CoreInv, Types
    <3> QED
      BY <2>1, <3>1, SplitsAssumption DEF CoreInv, Types
  <2>3. BoundaryLayer(split, loaded.num_layers) \in Int
    BY <1>4, <2>2, SplitFields, BoundaryIsInt
  <2> QED
    BY <2>1, <2>2, <2>3, ResolvedSame
<1> QED
  BY <1>1, <1>2, <1>3, <1>4, <1>5 DEF Agreed

\* Two stages built with one boundary, whatever it is, hold every block of the
\* model exactly once, for a model of any size.
THEOREM BuiltStagesTile == Spec => []StagesTileModel
<1>1. CoreInv => StagesTileModel
  <2> SUFFICES ASSUME CoreInv, Agreed, loaded.num_layers >= loaded.blocks
               PROVE  /\ bundles[0].blocks \cap bundles[1].blocks = {}
                      /\ bundles[0].blocks \cup bundles[1].blocks = 0..(loaded.blocks - 1)
    BY DEF StagesTileModel
  <2>1. /\ bundles[0].blocks = LocalBlocks(loaded, bundles[0].split, 0)
        /\ bundles[1].blocks = LocalBlocks(loaded, bundles[1].split, 1)
    BY AgreedBoundary DEF ReturnedBy
  <2> QED
    BY <2>1, AgreedBoundary, LocalBlocksTile
<1> QED
  BY <1>1, CoreInvariant, PTL

\* Two stages with one boundary optimize disjoint sets of parameters, in any
\* mixture of LoRA, full training and frozen backbones, unless the head is the
\* embedding and one of them trains more than adapters.
THEOREM HalvesAreDisjoint == Spec => []UntiedHalvesAreDisjoint
<1>1. CoreInv => UntiedHalvesAreDisjoint
  <2> SUFFICES ASSUME CoreInv, Agreed,
                      ~(loaded.tied /\ \E s \in Stages : ~UsesLora(bundles[s].split))
               PROVE  bundles[0].params \cap bundles[1].params = {}
    BY DEF UntiedHalvesAreDisjoint, TrainDisjointHalves
  <2> DEFINE A == bundles[0].blocks
             B == bundles[1].blocks
  <2>1. ReturnedBy(0, bundles[0]) /\ ReturnedBy(1, bundles[1])
    BY AgreedBoundary
  <2>2. A \cap B = {}
    <3>1. A = LocalBlocks(loaded, bundles[0].split, 0) /\ B = LocalBlocks(loaded, bundles[1].split, 1)
      BY <2>1 DEF ReturnedBy
    <3> QED
      BY <3>1, AgreedBoundary, LocalBlocksTile
  <2>3. \A s \in Stages : loaded.tied => UsesLora(bundles[s].split)
    OBVIOUS
  <2>4. /\ bundles[0].compressor \subseteq {Down} /\ bundles[1].compressor \subseteq {Up}
    BY <2>1 DEF ReturnedBy, CompressorIsAsked
  <2>5. /\ Adapters(A \cap adapted[CopyOf(0)]) \subseteq Adapters(A)
        /\ Adapters(B \cap adapted[CopyOf(1)]) \subseteq Adapters(B)
    BY DEF Adapters
  <2> DEFINE Ends0 == IF loaded.tied THEN {} ELSE {Embed, Positions}
             Ends1 == IF loaded.tied THEN {} ELSE {Norm, LmHead}
  <2>6. bundles[0].params \subseteq Blocks(A) \cup Adapters(A) \cup {Down} \cup Ends0
    <3>1. 0 \in Stages /\ OwnEnds(0) \subseteq {Embed, Positions}
      BY DEF Stages, OwnEnds
    <3>2. CASE UsesLora(bundles[0].split)
      BY <2>1, <2>4, <3>2 DEF ReturnedBy
    <3>3. CASE ~UsesLora(bundles[0].split)
      BY <2>1, <2>3, <2>4, <2>5, <3>1, <3>3 DEF ReturnedBy
    <3> QED
      BY <3>2, <3>3
  <2>7. bundles[1].params \subseteq Blocks(B) \cup Adapters(B) \cup {Up} \cup Ends1
    <3>1. 1 \in Stages /\ (~loaded.tied => OwnEnds(1) \subseteq {Norm, LmHead})
      BY DEF Stages, OwnEnds, HeadEnds, HeadWeight
    <3>2. CASE UsesLora(bundles[1].split)
      BY <2>1, <2>4, <3>2 DEF ReturnedBy
    <3>3. CASE ~UsesLora(bundles[1].split)
      BY <2>1, <2>3, <2>4, <2>5, <3>1, <3>3 DEF ReturnedBy
    <3> QED
      BY <3>2, <3>3
  <2> HIDE DEF A, B
  <2>8. /\ Blocks(A) \cap Adapters(B) = {} /\ Blocks(B) \cap Adapters(A) = {}
        /\ Blocks(A) \cap Blocks(B) = {} /\ Adapters(A) \cap Adapters(B) = {}
    BY <2>2, SetsOfNamesDiffer
  <2>9. /\ (Blocks(A) \cup Adapters(A)) \cap {Embed, Positions, Norm, LmHead, Down, Up} = {}
        /\ (Blocks(B) \cup Adapters(B)) \cap {Embed, Positions, Norm, LmHead, Down, Up} = {}
    BY SetsOfNamesDiffer
  <2>10. ({Down} \cup Ends0) \cap ({Up} \cup Ends1) = {}
    BY NamesDiffer
  <2>11. /\ {Down} \cup Ends0 \subseteq {Embed, Positions, Norm, LmHead, Down, Up}
         /\ {Up} \cup Ends1 \subseteq {Embed, Positions, Norm, LmHead, Down, Up}
    OBVIOUS
  <2> HIDE DEF Ends0, Ends1
  <2> QED
    BY <2>6, <2>7, <2>8, <2>9, <2>10, <2>11
<1> QED
  BY <1>1, CoreInvariant, PTL

(***************************************************************************)
(* Gradients                                                               *)
(***************************************************************************)
\* A step that leaves a copy's gradients and adapters alone, and returns
\* nothing new for it, keeps what they say about its splits.
LEMMA GradQuiet ==
  ASSUME NEW c \in Copies, GradAt(c), UNCHANGED loaded,
         used[c] \subseteq used'[c], failed \subseteq failed',
         adapted'[c] = adapted[c], requires_grad'[c] = requires_grad[c],
         \A s \in Stages : CopyOf(s) = c /\ bundles'[s] # None => bundles[s] # None
  PROVE  GradAt(c)'
<1>1. Trainable' = Trainable /\ \A s : CopyOf(s)' = CopyOf(s)
  BY DEF Trainable, Weights, CopyOf
<1>2. (\A split \in used'[c] : Full(split)) => \A split \in used[c] : Full(split)
  OBVIOUS
<1>3. (\A split \in used'[c] : UsesLora(split)) => \A split \in used[c] : UsesLora(split)
  OBVIOUS
<1>4. (\A split \in used'[c] : Frozen(split)) => \A split \in used[c] : Frozen(split)
  OBVIOUS
<1>5. (\E split \in used[c] : UsesLora(split)) => \E split \in used'[c] : UsesLora(split)
  OBVIOUS
<1>6. (\E s \in Stages : CopyOf(s) = c /\ Built(s))' => \E s \in Stages : CopyOf(s) = c /\ Built(s)
  BY <1>1 DEF Built
<1> QED
  BY <1>1, <1>2, <1>3, <1>4, <1>5, <1>6 DEF GradAt, Adapters

\* A call adds a split to the history: what holds after all splits so far holds after
\* fewer, and no gradient changes.
LEMMA GradCall ==
  ASSUME Types, GradInv, NEW s \in Stages \cap StageIndices, NEW split \in Splits, NEW p \in Placements,
         Call(s, split, p)
  PROVE  GradInv'
<1>1. /\ UNCHANGED <<loaded, adapted, requires_grad, failed>>
      /\ bundles' = [bundles EXCEPT ![s] = None]
  BY DEF Call, modelVars
<1>2. \A t \in Stages : bundles'[t] # None => bundles[t] # None
  BY <1>1 DEF Types
<1>3. ASSUME NEW c \in Copies PROVE GradAt(c)'
  <2>1. used[c] \subseteq used'[c]
    BY CopiesGrow DEF Next
  <2> QED
    BY <1>1, <1>2, <2>1, GradQuiet DEF GradInv
<1> QED
  BY <1>3 DEF GradInv

\* The steps between a call and the selection: only an injection changes a gradient.
LEMMA GradWork == CoreInv /\ GradInv /\ Working => GradInv'
<1> SUFFICES ASSUME CoreInv, GradInv, Working, NEW c \in Copies PROVE GradAt(c)'
  BY DEF GradInv
<1>1. Types /\ BuildInv /\ GradAt(c)
  BY DEF CoreInv, GradInv
<1>2. UNCHANGED <<loaded, bundles, used>> /\ failed \subseteq failed'
  BY <1>1, WorkStep
<1>3. CASE adapted'[c] = adapted[c] /\ requires_grad'[c] = requires_grad[c]
  BY <1>1, <1>2, <1>3, GradQuiet
<1>4. CASE ~(adapted'[c] = adapted[c] /\ requires_grad'[c] = requires_grad[c])
  <2>1. InjectLora
    BY <1>4 DEF Working, BuildCompressors, MoveEnds, MoveBlock, MoveTail, modelVars
  <2>2. /\ adapted' = [adapted EXCEPT ![Copy] = @ \cup QualifiedBlocks]
        /\ requires_grad' =
             [requires_grad EXCEPT ![Copy] = {Adapter(i) : i \in adapted'[Copy]}]
    BY <1>4, <2>1 DEF InjectLora, modelVars
  <2>3. Copy \in Copies /\ UsesLora(build.split) /\ build.split \in used[Copy]
    BY <1>1, <2>1, BuildCopy DEF InjectLora, BuildInv, Unstarted
  <2> HIDE DEF Copy
  <2>4. c = Copy
    BY <1>1, <1>4, <2>2 DEF Types
  <2>5. requires_grad'[c] = Adapters(adapted'[c])
    BY <1>1, <2>2, <2>3, <2>4 DEF Types, Adapters
  <2>6. ~Full(build.split) /\ ~Frozen(build.split)
    BY <2>3 DEF Full, Frozen
  <2>7. build.split \in used'[c]
    BY <1>2, <2>3, <2>4
  <2> QED
    BY <2>3, <2>5, <2>6, <2>7 DEF GradAt, Adapters
<1> QED
  BY <1>3, <1>4

\* A stage that selects its parameters has frozen a copy it shares only with
\* builds that freeze it too, or fails.
LEMMA GradSelect == CoreInv /\ GradInv /\ SelectParameters => GradInv'
<1> SUFFICES ASSUME CoreInv, GradInv, SelectParameters, NEW c \in Copies PROVE GradAt(c)'
  BY DEF GradInv
<1>1. Types /\ BuildInv /\ GradAt(c)
  BY DEF CoreInv, GradInv
<1>2. at = "select" /\ at \notin Unstarted /\ at \in PastInjection
  BY DEF SelectParameters, PastInjection, Unstarted
<1>3. /\ Copy \in Copies /\ build.stage \in Stages
      /\ build.split \in used[Copy] /\ CompressorIsAsked(build) /\ build.split \in SplitSpec
  BY <1>1, <1>2, BuildCopy DEF BuildInv, Locals
<1>4. UNCHANGED <<loaded, adapted, used>> /\ failed \subseteq failed'
  BY DEF SelectParameters, Fail, historyVars
<1>5. \A s \in Stages : bundles'[s] # None => bundles[s] # None \/ s = build.stage
  BY <1>1, <1>3 DEF SelectParameters, Fail, Types
<1>6. CASE c # Copy
  <2>1. requires_grad'[c] = requires_grad[c]
    <3> HIDE DEF Copy
    <3> QED
      BY <1>1, <1>3, <1>6 DEF SelectParameters, FreezeBackbone, Types
  <2>2. \A s \in Stages : CopyOf(s) = c /\ bundles'[s] # None => bundles[s] # None
    BY <1>5, <1>6 DEF Copy
  <2> QED
    BY <1>1, <1>4, <2>1, <2>2, GradQuiet
<1>7. CASE c = Copy /\ Freezes
  <2>1. requires_grad'[c] = {}
    <3>1. requires_grad' = [requires_grad EXCEPT ![Copy] = {}]
      BY <1>7 DEF SelectParameters, FreezeBackbone
    <3> HIDE DEF Copy
    <3> QED
      BY <1>1, <1>3, <1>7, <3>1 DEF Types
  <2>2. ~UsesLora(build.split) /\ build.split \in used'[c]
    BY <1>3, <1>4, <1>7 DEF Freezes
  <2>3. Full(build.split) => c \in failed'
    <3>1. SUFFICES ASSUME Full(build.split) PROVE c \in failed'
      OBVIOUS
    <3>2. build.compressor = {}
      BY <1>3, <1>7, <3>1 DEF Full, Freezes, CompressorIsAsked
    <3>3. Fail("RuntimeError")
      BY <1>7, <3>2 DEF SelectParameters, Freezes
    <3> QED
      BY <1>7, <3>3 DEF Fail
  <2> QED
    BY <1>1, <1>4, <2>1, <2>2, <2>3 DEF GradAt
<1>8. CASE c = Copy /\ ~Freezes
  <2>1. requires_grad' = requires_grad
    BY <1>8 DEF SelectParameters
  <2>2. ~Frozen(build.split) /\ build.split \in used'[c]
    BY <1>3, <1>4, <1>8 DEF Freezes, Frozen, CompressorIsAsked
  <2>3. Trainable' = Trainable
    BY <1>4 DEF Trainable, Weights
  <2>4. ~(\A split \in used'[c] : Frozen(split))
    BY <2>2
  <2>5. (\A split \in used[c] : Frozen(split))' => FALSE
    BY <2>4 DEF Frozen, UsesLora
  <2> QED
    BY <1>1, <1>4, <2>1, <2>3, <2>5 DEF GradAt, Adapters
<1> QED
  BY <1>6, <1>7, <1>8

\* Every step keeps what the gradients say.
LEMMA GradStep == CoreInv /\ GradInv /\ [Next]_vars => GradInv'
<1> SUFFICES ASSUME CoreInv, GradInv, [Next]_vars PROVE GradInv'
  OBVIOUS
<1>1. CASE UNCHANGED vars
  BY <1>1 DEF vars, GradInv, GradAt, Trainable, Weights, Adapters, CopyOf, Built
<1>2. ASSUME NEW index, NEW split, Refuse(index, split) PROVE GradInv'
  <2>1. UNCHANGED <<loaded, adapted, requires_grad, bundles, used, failed>>
    BY <1>2 DEF Refuse, modelVars
  <2> QED
    BY <2>1 DEF GradInv, GradAt, Trainable, Weights, Adapters, CopyOf, Built
<1> QED
  BY <1>1, <1>2, GradCall, GradWork, GradSelect DEF Next, Working, CoreInv

\* What a copy's gradients say about the splits it was built with is so in
\* every reachable state.
THEOREM GradInvariant == Spec => [](CoreInv /\ GradInv)
<1>1. Init => GradInv
  BY DEF Init, GradInv, GradAt, Trainable, Built
<1>2. CoreInv /\ [Next]_vars => CoreInv'
  BY TypesStep, BuildInvStep, BundleInvStep DEF CoreInv
<1> QED
  BY <1>1, <1>2, InitCore, GradStep, PTL DEF Spec

\* A stage built on a copy that knows one split was built from that split.
LEMMA OneSplit ==
  ASSUME CoreInv, NEW s \in Stages, Built(s), Cardinality(used[CopyOf(s)]) = 1
  PROVE  /\ CopyOf(s) \in Copies /\ ReturnedBy(s, bundles[s]) /\ bundles[s] \in Locals
         /\ \E split \in SplitSpec \cap Splits :
              /\ used[CopyOf(s)] = {split}
              /\ UsesLora(split) = UsesLora(bundles[s].split)
              /\ split.compression = bundles[s].split.compression
              /\ split.freeze_backbone = bundles[s].split.freeze_backbone
              /\ LocalBlocks(loaded, split, s) = bundles[s].blocks
<1>1. CopyOf(s) \in Copies /\ bundles[s] \in Locals
  BY CopyFacts DEF CoreInv, Types, Built
<1>2. ReturnedBy(s, bundles[s])
  BY DEF CoreInv, BundleInv
<1>3. PICK split : used[CopyOf(s)] = {split}
  BY <1>1, FS_Singleton DEF CoreInv, Types
<1>4. split \in Splits /\ split \in SplitSpec
  BY <1>1, <1>3, SplitsAssumption DEF CoreInv, Types
<1>5. bundles[s].split = Resolved(split) /\ bundles[s].blocks = LocalBlocks(loaded, bundles[s].split, s)
  BY <1>2, <1>3 DEF ReturnedBy
<1> QED
  BY <1>1, <1>2, <1>3, <1>4, <1>5, ResolvedSame

\* As long as no build on a copy failed and all used one spec, every parameter
\* handed to an optimizer requires a gradient.  Nothing is said of the loads,
\* the devices or the order of the builds.
THEOREM CleanBuilds == Spec => []CleanBuildsTrain
<1>1. CoreInv /\ GradInv => CleanBuildsTrain
  <2> SUFFICES ASSUME CoreInv, GradInv, NEW s \in Stages, Built(s), CopyOf(s) \notin failed,
                      Cardinality(used[CopyOf(s)]) = 1
               PROVE  bundles[s].params \subseteq requires_grad[CopyOf(s)] \cup {Down, Up}
    BY DEF CleanBuildsTrain, Trains
  <2> DEFINE b == bundles[s]
             c == CopyOf(s)
  <2>1. c \in Copies /\ ReturnedBy(s, b) /\ b \in Locals
    BY OneSplit
  <2>2. PICK split \in SplitSpec :
          /\ used[c] = {split} /\ UsesLora(split) = UsesLora(b.split)
          /\ split.compression = b.split.compression
          /\ split.freeze_backbone = b.split.freeze_backbone
    BY OneSplit
  <2>3. GradAt(c)
    BY <2>1 DEF GradInv
  <2>4. b.compressor \subseteq {Down, Up} /\ b.blocks \subseteq Indices
    BY <2>1 DEF Locals
  <2> HIDE DEF b, c
  <2>5. CASE UsesLora(split)
    <3>1. /\ b.blocks # {} /\ b.blocks \subseteq adapted[c]
          /\ b.params = Adapters(b.blocks) \cup b.compressor
      BY <2>1, <2>2, <2>5 DEF ReturnedBy, c
    <3>2. requires_grad[c] = Adapters(adapted[c])
      BY <2>2, <2>3, <2>5, <3>1 DEF GradAt
    <3>3. Adapters(b.blocks) \subseteq Adapters(adapted[c])
      BY <3>1, SetsOfNamesDiffer
    <3> QED
      BY <2>4, <3>1, <3>2, <3>3 DEF b, c
  <2>6. CASE Full(split)
    <3>1. adapted[c] = {} /\ requires_grad[c] = Trainable
      BY <2>2, <2>3, <2>6 DEF GradAt, Full, c
    <3>2. Adapters(b.blocks \cap adapted[c]) = {}
      BY <3>1 DEF Adapters
    <3>3. b.params \subseteq Blocks(b.blocks) \cup b.compressor \cup OwnEnds(s)
      BY <2>1, <2>2, <2>6, <3>2 DEF ReturnedBy, Full, c
    <3>4. Blocks(b.blocks) \subseteq Trainable
      <4>1. Positions \notin Blocks(b.blocks)
        BY SetsOfNamesDiffer
      <4>2. Blocks(b.blocks) \subseteq Weights(loaded)
        BY <2>4, EndsAreWeights DEF Blocks, CoreInv, Types
      <4> QED
        BY <4>1, <4>2 DEF Trainable
    <3>5. OwnEnds(s) \subseteq Trainable
      BY EndsAreWeights, NamesDiffer DEF OwnEnds, HeadEnds, HeadWeight, Trainable, CoreInv, Types
    <3> QED
      BY <2>4, <3>1, <3>3, <3>4, <3>5 DEF b, c
  <2>7. CASE Frozen(split)
    <3>1. b.params = b.compressor
      BY <2>1, <2>2, <2>7 DEF ReturnedBy, FreezesIn, CompressorIsAsked, Frozen
    <3> QED
      BY <2>4, <3>1 DEF b, c
  <2> QED
    BY <2>5, <2>6, <2>7 DEF Full, Frozen
<1> QED
  BY <1>1, GradInvariant, PTL

\* With one spec, a LoRA stage trains the adapters of its own blocks and a
\* frozen one its compressor half, and nothing else of the model requires a
\* gradient, whether or not other builds of that spec failed.
THEOREM ModesAreSeparate == Spec => []ModesTrainTheirOwn
<1>1. CoreInv /\ GradInv => ModesTrainTheirOwn
  <2> SUFFICES ASSUME CoreInv, GradInv, NEW s \in Stages, Built(s),
                      Cardinality(used[CopyOf(s)]) = 1
               PROVE  LET b == bundles[s]
                          grads == requires_grad[CopyOf(s)]
                      IN
                      /\ UsesLora(b.split) =>
                           /\ b.params = {Adapter(i) : i \in b.blocks} \cup b.compressor
                           /\ grads = {Adapter(i) : i \in adapted[CopyOf(s)]}
                      /\ b.split.freeze_backbone /\ ~UsesLora(b.split) /\ b.has_compressor =>
                           b.params = b.compressor /\ grads = {}
    BY DEF ModesTrainTheirOwn
  <2> DEFINE b == bundles[s]
             c == CopyOf(s)
  <2>1. c \in Copies /\ ReturnedBy(s, b) /\ b \in Locals
    BY OneSplit
  <2>2. PICK split \in SplitSpec :
          /\ used[c] = {split} /\ UsesLora(split) = UsesLora(b.split)
          /\ split.compression = b.split.compression
          /\ split.freeze_backbone = b.split.freeze_backbone
    BY OneSplit
  <2>3. GradAt(c)
    BY <2>1 DEF GradInv
  <2>4. ASSUME UsesLora(b.split)
        PROVE  b.params = Adapters(b.blocks) \cup b.compressor /\ requires_grad[c] = Adapters(adapted[c])
    <3>1. /\ b.blocks # {} /\ b.blocks \subseteq adapted[c]
          /\ b.params = Adapters(b.blocks) \cup b.compressor
      BY <2>1, <2>4 DEF ReturnedBy
    <3>2. adapted[c] # {} /\ \A x \in used[c] : UsesLora(x)
      BY <2>2, <2>4, <3>1
    <3> HIDE DEF b, c
    <3> QED
      BY <2>3, <3>1, <3>2 DEF GradAt
  <2>5. ASSUME FreezesIn(b) PROVE b.params = b.compressor /\ requires_grad[c] = {}
    <3>1. b.params = b.compressor
      BY <2>1, <2>5 DEF ReturnedBy
    <3>2. b.compressor # {}
      BY <2>1, <3>1 DEF ReturnedBy
    <3>3. split.compression = "learned"
      BY <2>1, <2>2, <3>2 DEF ReturnedBy, CompressorIsAsked
    <3>4. \A x \in used[c] : Frozen(x)
      BY <2>2, <2>5, <3>3 DEF Frozen, FreezesIn
    <3> QED
      BY <2>3, <3>1, <3>4 DEF GradAt
  <2> QED
    BY <2>4, <2>5 DEF FreezesIn, Adapters
<1> QED
  BY <1>1, GradInvariant, PTL

(***************************************************************************)
(* Shards                                                                  *)
(***************************************************************************)
\* The blocks a build works on are finitely many in a row.
LEMMA LocalIsInterval ==
  ASSUME CoreInv, at \notin Unstarted
  PROVE  \E lo, hi \in 0..loaded.blocks : build.blocks = lo..(hi - 1)
<1>1. build.stage \in Stages /\ build.split \in SplitSpec
  BY BuildCopy DEF CoreInv, Locals
<1>2. build.blocks = LocalBlocks(loaded, build.split, build.stage)
  BY DEF CoreInv, BuildInv, BundleInv, ReturnedBy
<1> QED
  BY <1>1, <1>2, LoadFields, SplitFields, LocalBlocksInterval DEF CoreInv, Types

\* The index-th local block is the one with so many local blocks below it.
LEMMA NthLocal ==
  ASSUME CoreInv, at \notin Unstarted, NEW index \in Nat, index < Cardinality(Local)
  PROVE  \E i \in build.blocks :
           LocalBlock(index) = Block(i) /\ Below(build.blocks, i) = index
<1>1. PICK lo, hi \in 0..loaded.blocks : build.blocks = lo..(hi - 1)
  BY LocalIsInterval
<1>2. lo \in Int /\ hi \in Int
  BY LoadFields DEF CoreInv, Types
<1>3. Cardinality(lo..(hi - 1)) = IF lo > hi - 1 THEN 0 ELSE hi - 1 - lo + 1
  <2>1. hi - 1 \in Int
    BY <1>2
  <2> QED
    BY <1>2, <2>1, FS_Interval
<1>4. index \in 0..(hi - lo - 1)
  BY <1>1, <1>2, <1>3 DEF Local
<1>5. LocalBlock(index) = Block(CHOOSE i \in lo..(hi - 1) : Below(lo..(hi - 1), i) = index)
  BY <1>1 DEF LocalBlock, Local, Below
<1>6. LocalBlock(index) = Block(lo + index)
  BY <1>2, <1>4, <1>5, NthOfInterval
<1>7. lo + index \in lo..(hi - 1) /\ lo + index - lo = index
  BY <1>2, <1>4
<1>8. Below(lo..(hi - 1), lo + index) = index
  BY <1>2, <1>7, BelowInInterval
<1> QED
  BY <1>1, <1>6, <1>7, <1>8

\* No step takes a weight's data away.
LEMMA MetaShrinks ==
  ASSUME CoreInv, [Next]_vars, NEW c \in Copies, NEW w \in Weights(loaded),
         device'[c][w] = "meta"
  PROVE  device[c][w] = "meta"
<1>1. Types
  BY DEF CoreInv
<1>2. ASSUME at \notin Unstarted, NEW weights, NEW d \in Devices, Move(weights, d)
      PROVE  device[c][w] = "meta"
  BY <1>1, <1>2, MoveTypes, MetaAssumption
<1>3. CASE device' = device
  BY <1>3
<1>4. CASE MoveEnds
  <2>1. at \notin Unstarted /\ build.placement \in Placements
    BY <1>1, <1>4, BuildCopy DEF MoveEnds, Locals, Unstarted
  <2>2. EmbedDevice(build.placement) \in Devices /\ FirstBlockDevice(build.placement) \in Devices
    BY <2>1, PlacementDevices
  <2>3. CASE CanMove(Ends)
    BY <1>2, <1>4, <2>1, <2>2, <2>3 DEF MoveEnds
  <2>4. CASE ~CanMove(Ends)
    BY <1>2, <1>4, <2>1, <2>2, <2>4 DEF MoveEnds
  <2> QED
    BY <2>3, <2>4
<1>5. CASE MoveBlock
  <2>1. at \notin Unstarted /\ build.placement \in Placements /\ build.next \in Nat
    BY <1>1, <1>5, BuildCopy, LoadFields DEF MoveBlock, Locals, Types, Unstarted
  <2>2. HasBlockDevice(build.placement, build.next) =>
          BlockDevice(build.placement, build.next) \in Devices
    BY <2>1, PlacementDevices
  <2> QED
    BY <1>2, <1>3, <1>5, <2>1, <2>2 DEF MoveBlock
<1>6. CASE MoveTail
  <2>1. at \notin Unstarted /\ build.placement \in Placements
    BY <1>1, <1>6, BuildCopy DEF MoveTail, Locals, Unstarted
  <2>2. HeadDevice(build.placement) \in Devices
    BY <2>1, PlacementDevices
  <2> QED
    BY <1>2, <1>3, <1>6, <2>1, <2>2 DEF MoveTail
<1> QED
  BY <1>3, <1>4, <1>5, <1>6
  DEF Next, Refuse, Call, InjectLora, BuildCompressors, SelectParameters, modelVars, vars

\* Only what the load left to the other stage has no data.
LEMMA MetaInit == Init => MetaInv
BY HomeAssumption, MetaAssumption DEF Init, MetaInv

\* Every step keeps the meta device to what the load left out: a move of a
\* weight gives it a device.
LEMMA MetaStep == CoreInv /\ MetaInv /\ [Next]_vars => MetaInv'
<1> SUFFICES ASSUME CoreInv, MetaInv, [Next]_vars PROVE MetaInv'
  OBVIOUS
<1>1. loaded' = loaded
  BY CopiesGrow DEF CoreInv, Copies
<1>2. Weights(loaded)' = Weights(loaded) /\ \A c : LoadedFor(c)' = LoadedFor(c)
  BY <1>1 DEF Weights, LoadedFor
<1>3. \A s : Elsewhere(loaded, s)' = Elsewhere(loaded, s)
  BY <1>1 DEF Elsewhere
<1> QED
  BY <1>1, <1>2, <1>3, MetaShrinks DEF MetaInv, Elsewhere

OwnShard == IF First THEN 0..(loaded.shard - 1) ELSE loaded.shard..(loaded.blocks - 1)

\* What a stage moves at the boundary its shard was loaded for was loaded.
LEMMA OwnWeightsAreHere ==
  ASSUME Types, at \notin Unstarted, build.blocks = OwnShard,
         NEW w \in Blocks(build.blocks) \cup Ends \cup (IF First THEN {} ELSE HeadEnds)
  PROVE  w \notin Elsewhere(loaded, build.stage)
<1>1. build.stage \in Stages
  BY BuildCopy
<1>2. loaded.positions \in {"wpe", "rotary"}
  BY LoadFields DEF Types
<1>3. CASE loaded.shard = None
  BY <1>3 DEF Elsewhere
<1>4. CASE loaded.shard # None
  <2> DEFINE Others == (0..(loaded.blocks - 1)) \ OwnShard
             Far == IF First THEN {Norm, LmHead}
                    ELSE (IF loaded.tied THEN {} ELSE {Embed})
                           \cup (IF loaded.positions = "wpe" THEN {Positions} ELSE {})
  <2>1. Elsewhere(loaded, build.stage) = Blocks(Others) \cup Far
    BY <1>4 DEF Elsewhere, Blocks, OwnShard, First
  <2>2. Far \subseteq {Embed, Positions, Norm, LmHead, Down, Up}
    OBVIOUS
  <2>3. CASE w \in Blocks(build.blocks)
    <3>1. w \notin Blocks(Others)
      <4>1. build.blocks \cap Others = {}
        OBVIOUS
      <4> HIDE DEF Others
      <4> QED
        BY <2>3, <4>1, SetsOfNamesDiffer
    <3>2. w \notin Far
      <4> HIDE DEF Far
      <4> QED
        BY <2>2, <2>3, SetsOfNamesDiffer
    <3> QED
      BY <2>1, <3>1, <3>2
  <2>4. CASE w \in Ends \cup (IF First THEN {} ELSE HeadEnds)
    <3>1. w \in {Embed, Positions, Norm, LmHead, Down, Up}
      BY <2>4 DEF Ends, HeadEnds, HeadWeight
    <3>2. w \notin Blocks(Others)
      <4> HIDE DEF Others
      <4> QED
        BY <3>1, SetsOfNamesDiffer
    <3>3. w \notin Far
      BY <1>2, <2>4, NamesDiffer DEF Ends, HeadEnds, HeadWeight
    <3> QED
      BY <2>1, <3>2, <3>3
  <2> QED
    BY <2>3, <2>4
<1> QED
  BY <1>3, <1>4

\* A build that finds no data for one of its stage's weights is not one of the
\* stage, at the boundary, that the copy was loaded for.
LEMMA MetaFailure ==
  ASSUME CoreInv, MetaInv, at \notin Unstarted, build.stage = LoadedFor(Copy), build.blocks = OwnShard,
         NEW w \in Weights(loaded),
         w \in Blocks(build.blocks) \cup Ends \cup (IF First THEN {} ELSE HeadEnds)
  PROVE  device[Copy][w] # "meta"
<1>1. Copy \in Copies
  BY BuildCopy DEF CoreInv
<1>2. w \notin Elsewhere(loaded, build.stage)
  BY OwnWeightsAreHere DEF CoreInv
<1> QED
  BY <1>1, <1>2 DEF MetaInv

\* A build of the stage that a shard-only model was loaded for finds every weight it
\* moves.
LEMMA NoMetaError ==
  ASSUME CoreInv, MetaInv, Working, at' = "MetaError",
         build.stage = LoadedFor(Copy), build.blocks = OwnShard
  PROVE  FALSE
<1>1. Types /\ at \notin Unstarted /\ build \in Locals /\ build.blocks \subseteq Indices
  BY WorkStep, BuildCopy DEF CoreInv, Locals
<1>2. \A i \in build.blocks : Block(i) \in Weights(loaded) /\ Block(i) \in Blocks(build.blocks)
  BY <1>1, EndsAreWeights DEF Blocks, Types
<1>3. {Embed, Positions} \cup HeadEnds \subseteq Weights(loaded)
  BY <1>1, EndsAreWeights DEF Types
<1>4. \A i \in build.blocks : device[Copy][Block(i)] # "meta"
  BY <1>1, <1>2, MetaFailure
<1>5. CanMove(Ends)
  BY <1>1, <1>3, MetaFailure DEF CanMove, Ends
<1>6. CanMove(IF First THEN {} ELSE HeadEnds)
  BY <1>1, <1>3, MetaFailure DEF CanMove
<1>7. CASE InjectLora
  BY <1>4, <1>7 DEF InjectLora, Fail, QualifiedBlocks, Local
<1>8. CASE BuildCompressors
  BY <1>8 DEF BuildCompressors, Fail
<1>9. CASE MoveEnds
  BY <1>5, <1>9 DEF MoveEnds
<1>10. CASE MoveBlock
  <2>1. at = "blocks" /\ build.next \in Nat /\ build.next < Cardinality(Local)
    BY <1>1, <1>10, LoadFields DEF MoveBlock, Locals, Types
  <2>2. CanMove({LocalBlock(build.next)})
    BY <1>1, <1>4, <2>1, NthLocal DEF CanMove
  <2> QED
    BY <1>10, <2>2 DEF MoveBlock, Fail
<1>11. CASE MoveTail
  BY <1>6, <1>11 DEF MoveTail
<1> QED
  BY <1>7, <1>8, <1>9, <1>10, <1>11 DEF Working

\* A shard-only load can be built, in any mode and on any devices, at the
\* boundary it was loaded for.
THEOREM ShardIsEnough == Spec => []ShardSuffices
<1>1. Init => ShardSuffices
  BY DEF Init, ShardSuffices
<1>2. CoreInv /\ MetaInv /\ ShardSuffices /\ [Next]_vars => ShardSuffices'
  <2> SUFFICES ASSUME CoreInv, MetaInv, ShardSuffices, [Next]_vars, at' = "MetaError"
               PROVE  ShardSuffices'
    BY DEF ShardSuffices
  <2>1. CASE Working
    <3>1. build.stage # LoadedFor(Copy) \/ build.blocks # OwnShard
      BY <2>1, NoMetaError
    <3>2. /\ build'.stage = build.stage /\ build'.blocks = build.blocks /\ Copy' = Copy
          /\ loaded' = loaded
      BY <2>1, WorkStep DEF CoreInv
    <3> QED
      BY <3>1, <3>2 DEF ShardSuffices, LoadedFor, OwnShard, First
  <2>2. CASE UNCHANGED vars
    BY <2>2 DEF vars, ShardSuffices, LoadedFor, First, Copy, CopyOf
  <2>3. ASSUME NEW s \in Stages, NEW split \in Splits, NEW p \in Placements, Call(s, split, p)
        PROVE  FALSE
    BY <2>3 DEF Call
  <2>4. ~SelectParameters
    BY DEF SelectParameters, Fail
  <2>5. ASSUME NEW index, NEW split, Refuse(index, split) PROVE FALSE
    BY <2>5 DEF Refuse
  <2> QED
    BY <2>1, <2>2, <2>3, <2>4, <2>5 DEF Next, Working
<1> QED
  BY <1>1, <1>2, MetaInit, MetaStep, CoreInvariant, PTL DEF Spec

(***************************************************************************)
(* Devices                                                                 *)
(***************************************************************************)
\* How many local blocks are below another: different numbers, less than there are.
LEMMA BelowLocal ==
  ASSUME CoreInv, at \notin Unstarted, NEW i \in build.blocks
  PROVE  /\ Below(build.blocks, i) \in Nat
         /\ Below(build.blocks, i) < Cardinality(build.blocks)
         /\ \A j \in build.blocks : Below(build.blocks, j) = Below(build.blocks, i) => j = i
<1>1. PICK lo, hi \in 0..loaded.blocks : build.blocks = lo..(hi - 1)
  BY LocalIsInterval
<1>2. lo \in Int /\ hi \in Int
  BY LoadFields DEF CoreInv, Types
<1>3. Cardinality(lo..(hi - 1)) = IF lo > hi - 1 THEN 0 ELSE hi - 1 - lo + 1
  <2>1. hi - 1 \in Int
    BY <1>2
  <2> QED
    BY <1>2, <2>1, FS_Interval
<1>4. ASSUME NEW j \in build.blocks
      PROVE  Below(build.blocks, j) = j - lo /\ j \in lo..(hi - 1)
  BY <1>1, <1>2, <1>4, BelowInInterval
<1>5. Below(build.blocks, i) = i - lo /\ i \in lo..(hi - 1)
  BY <1>4
<1>6. Cardinality(build.blocks) = Cardinality(lo..(hi - 1))
  BY <1>1
<1>7. ASSUME NEW j \in build.blocks, Below(build.blocks, j) = Below(build.blocks, i) PROVE j = i
  BY <1>2, <1>4, <1>5, <1>7
<1> QED
  BY <1>2, <1>3, <1>5, <1>6, <1>7

\* The embeddings go to their device.
LEMMA MovedEnds == CoreInv /\ MovedInv /\ MoveEnds => MovedInv'
<1> SUFFICES ASSUME CoreInv, MovedInv, MoveEnds PROVE MovedInv'
  OBVIOUS
<1>1. Types /\ at = "ends" /\ at \notin Unstarted /\ build.next = 0
  BY DEF CoreInv, MoveEnds, MovedInv, Unstarted
<1>2. build.placement \in Placements
  BY <1>1, BuildCopy DEF Locals
<1>3. CASE at' = "blocks"
  <2>1. /\ build' = build /\ loaded' = loaded
        /\ Move(Ends, IF First THEN EmbedDevice(build.placement)
                      ELSE FirstBlockDevice(build.placement))
    BY <1>3 DEF MoveEnds, Fail, historyVars
  <2>2. /\ EmbedDevice(build.placement) \in Devices
        /\ FirstBlockDevice(build.placement) \in Devices
    BY <1>2, PlacementDevices
  <2>3. \A w \in Weights(loaded) :
          device'[Copy][w] = IF w \in Ends THEN IF First THEN EmbedDevice(build.placement)
                                                ELSE FirstBlockDevice(build.placement)
                             ELSE device[Copy][w]
    BY <1>1, <2>1, <2>2, MoveTypes
  <2>4. {Embed, Positions} \subseteq Weights(loaded)
    BY <1>1, EndsAreWeights DEF Types
  <2>5. First => /\ device'[Copy][Embed] = EmbedDevice(build.placement)
                 /\ device'[Copy][Positions] = EmbedDevice(build.placement)
    BY <2>3, <2>4 DEF Ends
  <2>6. Copy' = Copy
    BY <2>1 DEF Copy, CopyOf
  <2>7. Cardinality(build.blocks) \in Nat
    BY <1>1, LocalCount
  <2>8. \A i \in build.blocks : ~(Below(build.blocks, i) < 0)
    BY <1>1, BelowLocal
  <2> HIDE DEF Copy
  <2> QED
    BY <1>1, <1>3, <2>1, <2>5, <2>6, <2>7, <2>8 DEF MovedInv, First
<1>4. CASE at' # "blocks"
  BY <1>4 DEF MoveEnds, Fail, MovedInv
<1> QED
  BY <1>3, <1>4

\* A block goes to the device its rank in the stage has in the list, the earlier ones stay.
LEMMA MovedBlock == CoreInv /\ MovedInv /\ MoveBlock => MovedInv'
<1> SUFFICES ASSUME CoreInv, MovedInv, MoveBlock PROVE MovedInv'
  OBVIOUS
<1>1. Types /\ at = "blocks" /\ at \notin Unstarted /\ build.next < Cardinality(build.blocks)
  BY DEF CoreInv, MoveBlock, MovedInv, Local, Unstarted
<1>2. /\ build \in Locals /\ build.placement \in Placements /\ build.next \in Nat
      /\ build.blocks \subseteq Indices /\ build.stage \in Stages
  BY <1>1, BuildCopy, LoadFields DEF Locals, Types
<1>3. CASE at' = "blocks"
  <2>1. /\ HasBlockDevice(build.placement, build.next)
        /\ Move({LocalBlock(build.next)}, BlockDevice(build.placement, build.next))
        /\ build' = [build EXCEPT !.next = @ + 1]
        /\ loaded' = loaded
    BY <1>3 DEF MoveBlock, Fail, historyVars
  <2>2. PICK k \in build.blocks :
          LocalBlock(build.next) = Block(k) /\ Below(build.blocks, k) = build.next
    BY <1>1, <1>2, NthLocal DEF Local
  <2>3. BlockDevice(build.placement, build.next) \in Devices
    BY <1>2, <2>1, PlacementDevices
  <2>4. \A w \in Weights(loaded) :
          device'[Copy][w] = IF w \in {Block(k)} THEN BlockDevice(build.placement, build.next)
                             ELSE device[Copy][w]
    BY <1>1, <2>1, <2>2, <2>3, MoveTypes
  <2>5. /\ build'.next = build.next + 1 /\ build'.blocks = build.blocks
        /\ build'.placement = build.placement /\ build'.stage = build.stage
    BY <1>2, <2>1 DEF Locals
  <2>6. Copy' = Copy
    BY <2>1, <2>5 DEF Copy, CopyOf
  <2>7. ASSUME NEW i \in build.blocks, Below(build.blocks, i) < build.next + 1
        PROVE  /\ HasBlockDevice(build.placement, Below(build.blocks, i))
               /\ device'[Copy][Block(i)] = BlockDevice(build.placement, Below(build.blocks, i))
    <3>1. Block(i) \in Weights(loaded)
      BY <1>1, <1>2, EndsAreWeights DEF Types
    <3>2. CASE i = k
      BY <2>1, <2>2, <2>4, <3>1, <3>2
    <3>3. CASE i # k
      <4>1. Below(build.blocks, i) < build.next
        <5>1. Below(build.blocks, i) \in Nat /\ Below(build.blocks, i) # Below(build.blocks, k)
          BY <1>1, <3>3, BelowLocal
        <5> QED
          BY <1>2, <2>2, <2>7, <5>1
      <4>2. /\ HasBlockDevice(build.placement, Below(build.blocks, i))
            /\ device[Copy][Block(i)] = BlockDevice(build.placement, Below(build.blocks, i))
        BY <1>1, <4>1 DEF MovedInv
      <4>3. Block(i) # Block(k)
        BY <3>3, NamesDiffer
      <4> QED
        BY <2>4, <3>1, <4>2, <4>3
    <3> QED
      BY <3>2, <3>3
  <2>8. build.stage = 0 => /\ device'[Copy][Embed] = EmbedDevice(build.placement)
                           /\ device'[Copy][Positions] = EmbedDevice(build.placement)
    <3>1. {Embed, Positions} \subseteq Weights(loaded)
      BY <1>1, EndsAreWeights DEF Types
    <3>2. Block(k) \notin {Embed, Positions}
      BY NamesDiffer
    <3> QED
      BY <1>1, <2>4, <3>1, <3>2 DEF MovedInv
  <2>9. build.next + 1 <= Cardinality(build.blocks)
    BY <1>1, <1>2, LocalCount
  <2> HIDE DEF Copy
  <2> QED
    BY <1>3, <2>5, <2>6, <2>7, <2>8, <2>9 DEF MovedInv
<1>4. CASE at' # "blocks"
  BY <1>1, <1>4 DEF MoveBlock, Fail, MovedInv
<1> QED
  BY <1>3, <1>4

\* Norm, head and compressor go to their devices, the blocks stay.
LEMMA MovedTail == CoreInv /\ MovedInv /\ MoveTail => MovedInv'
<1> SUFFICES ASSUME CoreInv, MovedInv, MoveTail PROVE MovedInv'
  OBVIOUS
<1>1. Types /\ at = "blocks" /\ at \notin Unstarted /\ build.next = Cardinality(build.blocks)
  BY DEF CoreInv, MoveTail, MovedInv, Local, Unstarted
<1>2. /\ build \in Locals /\ build.placement \in Placements
      /\ build.blocks \subseteq Indices /\ build.stage \in Stages
  BY <1>1, BuildCopy DEF Locals
<1>3. CASE at' = "select"
  <2> DEFINE moved == IF First THEN {} ELSE HeadEnds
  <2>1. /\ Move(moved, HeadDevice(build.placement))
        /\ build' = [build EXCEPT !.compressor_device =
                       IF build.has_compressor THEN CompressorDevice(build.placement) ELSE @]
        /\ loaded' = loaded
    BY <1>3 DEF MoveTail, Fail, historyVars
  <2>2. HeadDevice(build.placement) \in Devices
    BY <1>2, PlacementDevices
  <2>3. \A w \in Weights(loaded) :
          device'[Copy][w] = IF w \in moved THEN HeadDevice(build.placement) ELSE device[Copy][w]
    BY <1>1, <2>1, <2>2, MoveTypes
  <2>4. /\ build'.next = build.next /\ build'.blocks = build.blocks
        /\ build'.placement = build.placement /\ build'.stage = build.stage
        /\ build'.has_compressor = build.has_compressor
        /\ build.has_compressor => build'.compressor_device = CompressorDevice(build.placement)
    BY <1>2, <2>1 DEF Locals
  <2>5. Copy' = Copy /\ HeadEnds' = HeadEnds
    BY <2>1, <2>4 DEF Copy, CopyOf, HeadEnds, HeadWeight
  <2>6. CompressorDevice(build.placement)' = CompressorDevice(build.placement)
    BY <2>4 DEF CompressorDevice, First
  <2>7. moved \subseteq {Embed, Norm, LmHead}
    BY DEF HeadEnds, HeadWeight
  <2>8. ASSUME NEW i \in build.blocks PROVE device'[Copy][Block(i)] = device[Copy][Block(i)]
    <3>1. Block(i) \in Weights(loaded)
      BY <1>1, <1>2, EndsAreWeights DEF Types
    <3>2. Block(i) \notin moved
      BY <2>7, NamesDiffer
    <3> QED
      BY <2>3, <3>1, <3>2
  <2>9. First => /\ device'[Copy][Embed] = device[Copy][Embed]
                 /\ device'[Copy][Positions] = device[Copy][Positions]
    BY <1>1, <2>3, EndsAreWeights DEF Types
  <2>10. ~First => \A w \in HeadEnds : device'[Copy][w] = HeadDevice(build.placement)
    BY <1>1, <2>3, EndsAreWeights DEF Types
  <2> HIDE DEF Copy
  <2> QED
    BY <1>1, <1>3, <2>4, <2>5, <2>6, <2>8, <2>9, <2>10 DEF MovedInv, First
<1>4. CASE at' # "select"
  BY <1>1, <1>4 DEF MoveTail, Fail, MovedInv
<1> QED
  BY <1>3, <1>4

\* Every step keeps what the build has moved.
LEMMA MovedStep == CoreInv /\ MovedInv /\ [Next]_vars => MovedInv'
<1> SUFFICES ASSUME CoreInv, MovedInv, [Next]_vars PROVE MovedInv'
  OBVIOUS
<1>1. CASE UNCHANGED vars
  BY <1>1 DEF vars, MovedInv, Copy, CopyOf, HeadEnds, HeadWeight, CompressorDevice, First
<1>2. ASSUME NEW s \in Stages, NEW split \in Splits, NEW p \in Placements, Call(s, split, p)
      PROVE  MovedInv'
  BY <1>2 DEF Call, MovedInv
<1>3. CASE InjectLora \/ BuildCompressors
  <2>1. build \in Locals
    BY <1>3, BuildCopy DEF CoreInv, InjectLora, BuildCompressors, Unstarted
  <2>2. build'.next = build.next
    BY <1>3, <2>1 DEF InjectLora, BuildCompressors, Fail, Locals
  <2> QED
    BY <1>3, <2>2 DEF InjectLora, BuildCompressors, Fail, MovedInv
<1>4. CASE SelectParameters
  BY <1>4 DEF SelectParameters, Fail, MovedInv
<1>5. ASSUME NEW index, NEW split, Refuse(index, split) PROVE MovedInv'
  BY <1>5 DEF Refuse, MovedInv
<1> QED
  BY <1>1, <1>2, <1>3, <1>4, <1>5, MovedEnds, MovedBlock, MovedTail DEF Next

\* The block of an interval at the boundary's side.
Edge(s, blocks) ==
  CHOOSE i \in blocks : \A j \in blocks : IF s = 0 THEN j <= i ELSE i <= j

\* The block next to the boundary is the last one of stage 0, the first of stage 1.
LEMMA EdgeOfInterval ==
  ASSUME NEW s \in Stages, NEW lo \in Int, NEW hi \in Int, lo < hi
  PROVE  Edge(s, lo..(hi - 1)) = IF s = 0 THEN hi - 1 ELSE lo
<1>1. lo \in lo..(hi - 1) /\ hi - 1 \in lo..(hi - 1)
  OBVIOUS
<1>2. CASE s = 0
  <2>1. \A i \in lo..(hi - 1) : (\A j \in lo..(hi - 1) : j <= i) <=> i = hi - 1
    BY <1>1
  <2>2. Edge(s, lo..(hi - 1)) =
          CHOOSE i \in lo..(hi - 1) : \A j \in lo..(hi - 1) : j <= i
    BY <1>2 DEF Edge
  <2> QED
    BY <1>1, <1>2, <2>1, <2>2
<1>3. CASE s = 1
  <2>1. \A i \in lo..(hi - 1) : (\A j \in lo..(hi - 1) : i <= j) <=> i = lo
    BY <1>1
  <2>2. Edge(s, lo..(hi - 1)) =
          CHOOSE i \in lo..(hi - 1) : \A j \in lo..(hi - 1) : i <= j
    BY <1>3 DEF Edge
  <2>3. (CHOOSE i \in lo..(hi - 1) : \A j \in lo..(hi - 1) : i <= j) = lo
    BY <1>1, <2>1, Zenon
  <2> QED
    BY <1>3, <2>2, <2>3
<1> QED
  BY <1>2, <1>3 DEF Stages

\* The weights Placed speaks of.
PlacedWeights(s) ==
  Blocks(bundles[s].blocks)
    \cup (IF s = 0 THEN {Embed} \cup (IF loaded.positions = "wpe" \/ ~loaded.shared
                                      THEN {Positions} ELSE {})
          ELSE HeadEnds)

\* A bundle whose weights did not move is where it was.
LEMMA PlacedSame ==
  ASSUME CoreInv, NEW s \in Stages, Built(s), Placed(s), loaded' = loaded,
         bundles'[s] = bundles[s],
         \A w \in PlacedWeights(s) : device'[CopyOf(s)][w] = device[CopyOf(s)][w]
  PROVE  Placed(s)'
<1> DEFINE b == bundles[s]
           on == device[CopyOf(s)]
<1>1. CopyOf(s)' = CopyOf(s) /\ HeadEnds' = HeadEnds
  BY DEF CopyOf, HeadEnds, HeadWeight
<1>2. \A i \in b.blocks : on'[Block(i)] = on[Block(i)]
  BY <1>1 DEF PlacedWeights, Blocks
<1>3. s = 0 => on'[Embed] = on[Embed]
  BY <1>1 DEF PlacedWeights
<1>4. s = 0 /\ (loaded.positions = "wpe" \/ ~loaded.shared) => on'[Positions] = on[Positions]
  BY <1>1 DEF PlacedWeights
<1>5. s = 1 => \A w \in HeadEnds : on'[w] = on[w]
  BY <1>1 DEF PlacedWeights
<1>6. b.blocks # {} => Edge(s, b.blocks) \in b.blocks
  <2>1. /\ b.blocks = LocalBlocks(loaded, b.split, s) /\ b.split \in SplitSpec
    BY DEF CoreInv, BundleInv, ReturnedBy, Types, Built, Locals
  <2>2. PICK lo, hi \in 0..loaded.blocks : b.blocks = lo..(hi - 1)
    BY <2>1, LoadFields, SplitFields, LocalBlocksInterval DEF CoreInv, Types
  <2>3. lo \in Int /\ hi \in Int
    BY LoadFields DEF CoreInv, Types
  <2>4. SUFFICES ASSUME b.blocks # {} PROVE Edge(s, lo..(hi - 1)) \in lo..(hi - 1)
    BY <2>2
  <2>5. lo < hi
    BY <2>2, <2>3, <2>4
  <2> QED
    BY <2>3, <2>5, EdgeOfInterval
<1>7. b.blocks # {} => on'[Block(Edge(s, b.blocks))] = on[Block(Edge(s, b.blocks))]
  BY <1>2, <1>6
<1>8. Placed(s) <=>
        /\ \A i \in b.blocks : on[Block(i)] = BlockDevice(b.placement, Below(b.blocks, i))
        /\ s = 0 => on[Embed] = EmbedDevice(b.placement)
        /\ s = 0 /\ (loaded.positions = "wpe" \/ ~loaded.shared) =>
             on[Positions] = EmbedDevice(b.placement)
        /\ s = 1 => \A w \in HeadEnds : on[w] = HeadDevice(b.placement)
        /\ b.has_compressor /\ b.blocks # {}
             /\ (Spread(b.placement) => Len(b.placement.block_devices) = Cardinality(b.blocks)) =>
           b.compressor_device = on[Block(Edge(s, b.blocks))]
  BY DEF Placed, Edge, Below
<1>9. Placed(s)' <=>
        /\ \A i \in b.blocks : on'[Block(i)] = BlockDevice(b.placement, Below(b.blocks, i))
        /\ s = 0 => on'[Embed] = EmbedDevice(b.placement)
        /\ s = 0 /\ (loaded.positions = "wpe" \/ ~loaded.shared) =>
             on'[Positions] = EmbedDevice(b.placement)
        /\ s = 1 => \A w \in HeadEnds : on'[w] = HeadDevice(b.placement)
        /\ b.has_compressor /\ b.blocks # {}
             /\ (Spread(b.placement) => Len(b.placement.block_devices) = Cardinality(b.blocks)) =>
           b.compressor_device = on'[Block(Edge(s, b.blocks))]
  BY <1>1 DEF Placed, Edge, Below
<1> HIDE DEF b, on
<1> QED
  BY <1>2, <1>3, <1>4, <1>5, <1>7, <1>8, <1>9

\* What a stage returns was moved where its placement says.
LEMMA SelectPlaces ==
  ASSUME CoreInv, MovedInv, SelectParameters, at' = "returned"
  PROVE  Placed(build.stage)'
<1> DEFINE s == build.stage
           B == build.blocks
           p == build.placement
           on == device[Copy]
<1>1. Types /\ at = "select" /\ at \notin Unstarted
  BY DEF CoreInv, SelectParameters, Unstarted
<1>2. build \in Locals /\ s \in Stages /\ p \in Placements
  BY <1>1, BuildCopy DEF Locals
<1>3. /\ build'.stage = s /\ build'.blocks = B /\ build'.placement = p
      /\ build'.has_compressor = build.has_compressor
      /\ build'.compressor_device = build.compressor_device
      /\ bundles' = [bundles EXCEPT ![s] = build']
      /\ UNCHANGED <<loaded, device>>
  BY SelectReturns DEF CoreInv
<1>4. bundles'[s] = build'
  BY <1>1, <1>2, <1>3 DEF Types
<1>5. CopyOf(s)' = Copy /\ HeadEnds' = HeadEnds
  BY <1>3 DEF CopyOf, Copy, HeadEnds, HeadWeight
<1>6. ASSUME NEW i \in B
      PROVE  HasBlockDevice(p, Below(B, i)) /\ on[Block(i)] = BlockDevice(p, Below(B, i))
  <2>1. Below(B, i) < build.next
    BY <1>1, BelowLocal DEF MovedInv
  <2> QED
    BY <1>1, <2>1 DEF MovedInv
<1>7. /\ s = 0 => on[Embed] = EmbedDevice(p) /\ on[Positions] = EmbedDevice(p)
      /\ s = 1 => \A w \in HeadEnds : on[w] = HeadDevice(p)
      /\ build.has_compressor => build.compressor_device = CompressorDevice(p)
  BY <1>1 DEF MovedInv
<1>8. ASSUME B # {}, Spread(p) => Len(p.block_devices) = Cardinality(B)
      PROVE  CompressorDevice(p) = on[Block(Edge(s, B))]
  <2>1. PICK lo, hi \in 0..loaded.blocks : B = lo..(hi - 1)
    BY <1>1, LocalIsInterval
  <2>2. lo \in Int /\ hi \in Int
    BY <1>1, LoadFields DEF Types
  <2>3. lo < hi
    BY <1>8, <2>1, <2>2
  <2>4. Edge(s, B) = IF s = 0 THEN hi - 1 ELSE lo
    BY <1>2, <2>1, <2>2, <2>3, EdgeOfInterval
  <2>5. Cardinality(B) = hi - lo
    <3>1. hi - 1 \in Int /\ ~(lo > hi - 1) /\ hi - 1 - lo + 1 = hi - lo
      BY <2>2, <2>3
    <3>2. Cardinality(lo..(hi - 1)) = IF lo > hi - 1 THEN 0 ELSE hi - 1 - lo + 1
      BY <2>2, <3>1, FS_Interval
    <3> QED
      BY <2>1, <3>1, <3>2
  <2>6. /\ Below(B, hi - 1) = hi - 1 - lo /\ Below(B, lo) = 0
        /\ hi - 1 \in B /\ lo \in B
    <3>1. hi - 1 \in lo..(hi - 1) /\ lo \in lo..(hi - 1) /\ lo - lo = 0
      BY <2>2, <2>3
    <3>2. Below(lo..(hi - 1), hi - 1) = hi - 1 - lo
      BY <2>2, <3>1, BelowInInterval
    <3>3. Below(lo..(hi - 1), lo) = lo - lo
      BY <2>2, <3>1, BelowInInterval
    <3> QED
      BY <2>1, <3>1, <3>2, <3>3
  <2>7. p.block_devices \in Seq(Devices) \cup {None}
    BY <1>2, PlacementsAssumption DEF Placement
  <2>8. on[Block(hi - 1)] = LastBlockDevice(p)
    <3>1. /\ HasBlockDevice(p, hi - 1 - lo)
          /\ on[Block(hi - 1)] = BlockDevice(p, hi - 1 - lo)
      BY <1>6, <2>6
    <3>2. CASE Spread(p)
      <4>1. Len(p.block_devices) = hi - 1 - lo + 1
        BY <1>8, <2>2, <2>5, <3>2
      <4> QED
        BY <3>1, <3>2, <4>1 DEF Spread, BlockDevice, LastBlockDevice
    <3>3. CASE ~Spread(p)
      <4>1. ~Listed(p)
        <5>1. SUFFICES ASSUME Listed(p), p.block_devices = <<>> PROVE FALSE
          BY <3>3 DEF Spread
        <5>2. hi - 1 - lo < 0
          BY <3>1, <5>1 DEF HasBlockDevice
        <5> QED
          BY <2>2, <2>3, <5>2
      <4> QED
        BY <3>1, <3>3, <4>1 DEF BlockDevice, LastBlockDevice
    <3> QED
      BY <3>2, <3>3
  <2>9. on[Block(lo)] = FirstBlockDevice(p)
    <3>1. HasBlockDevice(p, 0) /\ on[Block(lo)] = BlockDevice(p, 0)
      BY <1>6, <2>6
    <3>2. CASE Spread(p)
      BY <3>1, <3>2 DEF Spread, BlockDevice, FirstBlockDevice
    <3>3. CASE ~Spread(p)
      <4>1. ~Listed(p)
        <5>1. SUFFICES ASSUME Listed(p), p.block_devices = <<>> PROVE FALSE
          BY <3>3 DEF Spread
        <5> QED
          BY <3>1, <5>1 DEF HasBlockDevice
      <4> QED
        BY <3>1, <3>3, <4>1 DEF BlockDevice, FirstBlockDevice
    <3> QED
      BY <3>2, <3>3
  <2> HIDE DEF B, p, on
  <2> QED
    BY <1>2, <2>4, <2>8, <2>9 DEF CompressorDevice, First, Stages
<1>9. ASSUME NEW t \in Stages, t = s
      PROVE  Placed(t)' <=>
        /\ \A i \in B : on[Block(i)] = BlockDevice(p, Below(B, i))
        /\ s = 0 => on[Embed] = EmbedDevice(p)
        /\ s = 0 /\ (loaded.positions = "wpe" \/ ~loaded.shared) => on[Positions] = EmbedDevice(p)
        /\ s = 1 => \A w \in HeadEnds : on[w] = HeadDevice(p)
        /\ build.has_compressor /\ B # {}
             /\ (Spread(p) => Len(p.block_devices) = Cardinality(B)) =>
           build.compressor_device = on[Block(Edge(s, B))]
  <2>1. /\ bundles'[t].blocks = B /\ bundles'[t].placement = p
        /\ bundles'[t].has_compressor = build.has_compressor
        /\ bundles'[t].compressor_device = build.compressor_device
    BY <1>3, <1>4, <1>9
  <2>2. CopyOf(t)' = Copy
    BY <1>3, <1>9 DEF CopyOf, Copy
  <2>3. device'[Copy] = on /\ loaded' = loaded
    BY <1>3
  <2> HIDE DEF s, B, p, on
  <2> QED
    BY <1>5, <1>9, <2>1, <2>2, <2>3 DEF Placed, Edge, Below
<1> QED
  <2>1. s' = s
    BY <1>3
  <2> HIDE DEF s, B, p, on
  <2>2. ASSUME NEW t \in Stages, t = s PROVE Placed(t)'
    BY <1>6, <1>7, <1>8, <1>9, <2>2
  <2>3. Placed(s)'
    BY <1>2, <2>1, <2>2
  <2> QED
    BY <2>3 DEF s

\* Every build on the copy cut the model where stage s was cut.
Settled(s) ==
  /\ ~(loaded.tied /\ loaded.shared)
  /\ \A split \in used[CopyOf(s)] :
       BoundaryLayer(split, loaded.num_layers) = bundles[s].split.split_layer

\* A stage that is built on the model of another holds none of its blocks.
LEMMA OtherBlocks ==
  ASSUME CoreInv, at \notin Unstarted \cup {"returned"}, NEW s \in Stages, Built(s), Settled(s),
         s # build.stage, CopyOf(s) = Copy
  PROVE  build.blocks \cap bundles[s].blocks = {}
<1>1. /\ build.split \in used[Copy] /\ build.stage \in Stages
      /\ build.blocks = LocalBlocks(loaded, build.split, build.stage)
  BY BuildCopy DEF CoreInv, BuildInv
<1>2. /\ bundles[s].blocks = LocalBlocks(loaded, bundles[s].split, s)
      /\ \E split \in used[CopyOf(s)] : bundles[s].split = Resolved(split)
  BY DEF CoreInv, BundleInv, ReturnedBy
<1>3. CopyOf(s) \in Copies
  BY CopyFacts DEF CoreInv, Types
<1>4. PICK split \in used[CopyOf(s)] : bundles[s].split = Resolved(split)
  BY <1>2
<1>5. split \in SplitSpec
  BY <1>3, SplitsAssumption DEF CoreInv, Types
<1> DEFINE boundary == BoundaryLayer(split, loaded.num_layers)
<1>6. boundary \in Int /\ loaded.blocks \in Nat /\ loaded.num_layers \in Nat
  BY <1>5, SplitFields, LoadFields, BoundaryIsInt DEF CoreInv, Types
<1>7. /\ BoundaryLayer(bundles[s].split, loaded.num_layers) = boundary
      /\ bundles[s].split.split_layer = boundary
  BY <1>4, <1>5, ResolvedSame
<1>8. BoundaryLayer(build.split, loaded.num_layers) = boundary
  BY <1>1, <1>7 DEF Settled
<1> HIDE DEF boundary
<1>9. CASE s = 0
  <2>1. build.stage = 1
    BY <1>1, <1>9 DEF Stages
  <2>2. LocalBlocks(loaded, bundles[s].split, 0) \cap LocalBlocks(loaded, build.split, 1) = {}
    BY <1>6, <1>7, <1>8, LocalBlocksTile
  <2> QED
    BY <1>1, <1>2, <1>9, <2>1, <2>2
<1>10. CASE s = 1
  <2>1. build.stage = 0
    BY <1>1, <1>10 DEF Stages
  <2>2. LocalBlocks(loaded, build.split, 0) \cap LocalBlocks(loaded, bundles[s].split, 1) = {}
    BY <1>6, <1>7, <1>8, LocalBlocksTile
  <2> QED
    BY <1>1, <1>2, <1>10, <2>1, <2>2
<1> QED
  BY <1>9, <1>10 DEF Stages

\* What the second stage moves before its blocks has data: only a learned
\* position table is ever left to the other stage.
LEMMA SecondEndsMove ==
  ASSUME CoreInv, MetaInv, at \notin Unstarted, ~First
  PROVE  CanMove(Ends)
<1>1. Copy \in Copies /\ Types
  BY BuildCopy DEF CoreInv
<1>2. SUFFICES ASSUME loaded.positions = "rotary" PROVE device[Copy][Positions] # "meta"
  BY DEF CanMove, Ends
<1>3. Positions \notin Elsewhere(loaded, LoadedFor(Copy))
  BY <1>2, NamesDiffer DEF Elsewhere
<1>4. Positions \in Weights(loaded)
  BY <1>1, EndsAreWeights DEF Types
<1> HIDE DEF Copy
<1> QED
  BY <1>1, <1>3, <1>4 DEF MetaInv

\* What one stage moves is nothing the other one has placed.
LEMMA OtherMoves ==
  ASSUME CoreInv, MetaInv, MoveEnds \/ MoveBlock \/ MoveTail,
         NEW s \in Stages, Built(s), Settled(s), NEW w \in PlacedWeights(s)
  PROVE  device'[CopyOf(s)][w] = device[CopyOf(s)][w]
<1>1. Types /\ at \notin Unstarted \cup {"returned"}
  BY DEF CoreInv, MoveEnds, MoveBlock, MoveTail, Unstarted
<1>2. /\ build \in Locals /\ build.stage \in Stages /\ Copy \in Copies
      /\ build.placement \in Placements /\ build.next \in Nat
  BY <1>1, BuildCopy, LoadFields DEF Locals, Types
<1>3. s # build.stage
  BY <1>1 DEF CoreInv, BuildInv, Built
<1>4. CopyOf(s) \in Copies
  BY <1>1, CopyFacts DEF Types
<1>5. bundles[s].blocks \subseteq Indices
  BY DEF CoreInv, Types, Built, Locals
<1>6. w \in Weights(loaded)
  BY <1>1, <1>5, EndsAreWeights DEF PlacedWeights, Blocks, Types
<1>7. ASSUME NEW W, NEW d \in Devices, Move(W, d), CopyOf(s) = Copy => w \notin W
      PROVE  device'[CopyOf(s)][w] = device[CopyOf(s)][w]
  BY <1>1, <1>4, <1>6, <1>7, MoveTypes
<1>8. CopyOf(s) = Copy => loaded.shared /\ ~loaded.tied
  BY <1>1, <1>3, CopyFacts DEF Copy, Types, Settled
<1>9. \/ w \in Blocks(bundles[s].blocks)
      \/ s = 0 /\ w = Embed
      \/ s = 0 /\ w = Positions /\ (loaded.positions = "wpe" \/ ~loaded.shared)
      \/ s = 1 /\ w \in HeadEnds
  BY DEF PlacedWeights, Stages
<1>10. Blocks(bundles[s].blocks) \cap {Embed, Positions, Norm, LmHead, Down, Up} = {}
  BY SetsOfNamesDiffer
<1>11. /\ EmbedDevice(build.placement) \in Devices
       /\ FirstBlockDevice(build.placement) \in Devices
       /\ HeadDevice(build.placement) \in Devices
  BY <1>2, PlacementDevices
<1>12. CASE MoveEnds
  <2>1. CASE CanMove(Ends)
    <3>1. CopyOf(s) = Copy => w \notin Ends
      BY <1>2, <1>3, <1>8, <1>9, <1>10, NamesDiffer DEF Ends, First, Stages, HeadEnds, HeadWeight
    <3>2. Move(Ends, IF First THEN EmbedDevice(build.placement)
                     ELSE FirstBlockDevice(build.placement))
      BY <1>12, <2>1 DEF MoveEnds
    <3> QED
      BY <1>7, <1>11, <3>1, <3>2
  <2>2. CASE ~CanMove(Ends)
    <3>1. First
      BY <1>1, <2>2, SecondEndsMove
    <3>2. CopyOf(s) = Copy => w # Embed
      BY <1>2, <1>3, <1>8, <1>9, <1>10, <3>1, NamesDiffer DEF First, Stages, HeadEnds, HeadWeight
    <3>3. Move(IF CanMove({Embed}) THEN {Embed} ELSE {}, EmbedDevice(build.placement))
      BY <1>12, <2>2 DEF MoveEnds
    <3>4. CopyOf(s) = Copy => w \notin (IF CanMove({Embed}) THEN {Embed} ELSE {})
      BY <3>2
    <3> QED
      BY <1>7, <1>11, <3>3, <3>4
  <2> QED
    BY <2>1, <2>2
<1>13. CASE MoveBlock
  <2>1. CASE device' = device
    BY <2>1
  <2>2. CASE device' # device
    <3>1. /\ HasBlockDevice(build.placement, build.next)
          /\ Move({LocalBlock(build.next)}, BlockDevice(build.placement, build.next))
          /\ build.next < Cardinality(Local)
      BY <1>13, <2>2 DEF MoveBlock
    <3>2. BlockDevice(build.placement, build.next) \in Devices
      BY <1>2, <3>1, PlacementDevices
    <3>3. PICK i \in build.blocks : LocalBlock(build.next) = Block(i)
      BY <1>1, <1>2, <3>1, NthLocal
    <3>4. ASSUME CopyOf(s) = Copy PROVE w # Block(i)
      <4>1. i \notin bundles[s].blocks
        BY <1>1, <1>3, <3>4, OtherBlocks
      <4>2. w \in Blocks(bundles[s].blocks) => w # Block(i)
        BY <4>1, NamesDiffer DEF Blocks
      <4>3. w \in {Embed, Positions, Norm, LmHead} => w # Block(i)
        BY NamesDiffer
      <4> QED
        BY <1>9, <4>2, <4>3 DEF HeadEnds, HeadWeight
    <3> QED
      BY <1>7, <3>1, <3>2, <3>3, <3>4
  <2> QED
    BY <2>1, <2>2
<1>14. CASE MoveTail
  <2>1. CASE device' = device
    BY <2>1
  <2>2. CASE device' # device
    <3>1. Move(IF First THEN {} ELSE HeadEnds, HeadDevice(build.placement))
      BY <1>14, <2>2 DEF MoveTail
    <3>2. CopyOf(s) = Copy => w \notin (IF First THEN {} ELSE HeadEnds)
      BY <1>2, <1>3, <1>8, <1>9, <1>10, NamesDiffer DEF First, Stages, HeadEnds, HeadWeight
    <3> QED
      BY <1>7, <1>11, <3>1, <3>2
  <2> QED
    BY <2>1, <2>2
<1> QED
  BY <1>12, <1>13, <1>14

\* Every step keeps a settled stage where its placement says.
LEMMA PlacedStep ==
  CoreInv /\ MetaInv /\ MovedInv /\ ModulesStayPlaced /\ [Next]_vars => ModulesStayPlaced'
<1> SUFFICES ASSUME CoreInv, MetaInv, MovedInv, ModulesStayPlaced, [Next]_vars,
                    NEW s \in Stages, Built(s)', Settled(s)'
             PROVE  Placed(s)'
  BY DEF ModulesStayPlaced, Settled
<1>1. Types /\ CopyOf(s) \in Copies
  BY CopyFacts DEF CoreInv, Types
<1>2. loaded' = loaded /\ used[CopyOf(s)] \subseteq used'[CopyOf(s)]
  BY <1>1, CopiesGrow
<1>3. CASE bundles'[s] = bundles[s]
  <2>1. Built(s)
    BY <1>3 DEF Built
  <2>2. Settled(s)
    <3>1. CopyOf(s)' = CopyOf(s)
      BY <1>2 DEF CopyOf
    <3>2. \A split \in used'[CopyOf(s)] :
            BoundaryLayer(split, loaded.num_layers) = bundles[s].split.split_layer
      BY <1>2, <1>3, <3>1 DEF Settled
    <3> QED
      BY <1>2, <3>2 DEF Settled
  <2>3. Placed(s)
    BY <2>1, <2>2 DEF ModulesStayPlaced, Settled
  <2>4. ASSUME NEW w \in PlacedWeights(s)
        PROVE  device'[CopyOf(s)][w] = device[CopyOf(s)][w]
    <3>1. CASE MoveEnds \/ MoveBlock \/ MoveTail
      BY <2>1, <2>2, <3>1, OtherMoves
    <3>2. CASE ~(MoveEnds \/ MoveBlock \/ MoveTail)
      <4>1. device' = device
        BY <3>2 DEF Next, Refuse, Call, InjectLora, BuildCompressors, SelectParameters, modelVars, vars
      <4> QED
        BY <4>1
    <3> QED
      BY <3>1, <3>2
  <2> QED
    BY <1>2, <1>3, <2>1, <2>3, <2>4, PlacedSame
<1>4. CASE bundles'[s] # bundles[s]
  <2>1. ASSUME NEW t \in Stages, NEW split \in Splits, NEW p \in Placements, Call(t, split, p)
        PROVE  FALSE
    BY <1>1, <1>4, <2>1 DEF Call, Types, Built
  <2>2. SelectParameters /\ at' = "returned"
    BY <1>1, <1>4, <2>1, WorkStep DEF Next, Refuse, Working, SelectParameters, Fail, vars
  <2>3. bundles' = [bundles EXCEPT ![build.stage] = build'] /\ build'.stage = build.stage
    BY <2>2, SelectReturns DEF CoreInv
  <2>4. s = build.stage
    BY <1>1, <1>4, <2>3 DEF Types
  <2>5. Placed(build.stage)' /\ build.stage' = s
    BY <2>2, <2>3, <2>4, SelectPlaces
  <2> QED
    BY <2>5
<1> QED
  BY <1>3, <1>4

\* A stage's modules are where its placement says, on however many devices, its
\* compressor beside the block it encodes or decodes for, and stay there while
\* the other stage is built, or fails to build, on the same model.
THEOREM ModulesPlaced == Spec => []ModulesStayPlaced
<1>1. Init => MovedInv /\ ModulesStayPlaced
  BY DEF Init, MovedInv, ModulesStayPlaced, Built
<1> QED
  BY <1>1, MetaInit, MetaStep, MovedStep, PlacedStep, CoreInvariant, PTL DEF Spec
=============================================================================
