---------------------------- MODULE StageSpecs ----------------------------
(***************************************************************************)
(* split/spec.py: how the model is cut, where a stage's modules go, and    *)
(* the way both take through a JSON job record.                            *)
(***************************************************************************)
EXTENDS Integers, Sequences

CONSTANTS
  Devices,  \* the devices there are, without the meta device
  None

ASSUME DevicesAssumption == None \notin Devices

Stages == {0, 1}

\* None is an empty dict, or a lora one that is not enabled.  What a compression
\* dict says is told apart by the module that uses it.
SplitSpecs(compressions) ==
  [num_stages : Nat, split_layer : Int \cup {None}, compression : compressions \cup {None},
   lora : {None, "default", "unmatched"}, freeze_backbone : BOOLEAN]

\* The fields' defaults.
SplitDefault ==
  [num_stages |-> 2, split_layer |-> None, compression |-> None, lora |-> None,
   freeze_backbone |-> FALSE]

Placement ==
  [device : Devices, block_devices : Seq(Devices) \cup {None},
   embed_device : Devices \cup {None}, head_device : Devices \cup {None}]

PlacementDefault ==
  [device |-> "cpu", block_devices |-> None, embed_device |-> None, head_device |-> None]

(***************************************************************************)
(* Placement and SplitSpec                                                 *)
(***************************************************************************)
OrDevice(p, override) == IF override = None THEN p.device ELSE override
EmbedDevice(p) == OrDevice(p, p.embed_device)
HeadDevice(p) == OrDevice(p, p.head_device)
Listed(p) == p.block_devices # None
Spread(p) == Listed(p) /\ p.block_devices # <<>>
HasBlockDevice(p, index) == Listed(p) => index < Len(p.block_devices)
BlockDevice(p, index) == IF Listed(p) THEN p.block_devices[index + 1] ELSE p.device
FirstBlockDevice(p) == IF Spread(p) THEN p.block_devices[1] ELSE p.device
LastBlockDevice(p) == IF Spread(p) THEN p.block_devices[Len(p.block_devices)] ELSE p.device

UsesLora(split) == split.lora # None

BoundaryLayer(split, layers) ==
  IF split.split_layer = None THEN layers \div 2 ELSE split.split_layer

\* Fault: the boundary block belongs to both stages.
LayerRange_Overlapping(split, s, layers) ==
  LET boundary == BoundaryLayer(split, layers) IN
  IF s = 0 THEN <<0, boundary + 1>> ELSE <<boundary, layers>>

LayerRange(split, s, layers) ==
  LET boundary == BoundaryLayer(split, layers) IN
  IF s = 0 THEN <<0, boundary>> ELSE <<boundary, layers>>

\* Fault: the slice's bounds are not cut off at the list's ends.
PySlice_Unclamped(n, lo, hi) ==
  LET place(k) == IF k < 0 THEN k + n ELSE k IN place(lo)..(place(hi) - 1)

\* The indices Python's slice [lo:hi] takes of a list of n: a negative bound
\* counts from the end, and both are cut off at the list's ends.
PySlice(n, lo, hi) ==
  LET place(k) == IF k < -n THEN 0 ELSE IF k < 0 THEN k + n ELSE IF k > n THEN n ELSE k
  IN place(lo)..(place(hi) - 1)

LocalBlocks(load, split, s) ==
  LET range == LayerRange(split, s, load.num_layers)
  IN PySlice(load.blocks, range[1], range[2])

(***************************************************************************)
(* to_dict and from_dict                                                   *)
(***************************************************************************)
Key(dict, key, default) == IF key \in DOMAIN dict THEN dict[key] ELSE default

SplitToDict(split) ==
  [num_stages |-> split.num_stages, split_layer |-> split.split_layer,
   compression |-> split.compression, lora |-> split.lora,
   freeze_backbone |-> split.freeze_backbone]

\* Fault: a boundary of 0 is taken for no boundary.
SplitFromDict_Falsy(dict) ==
  LET boundary == Key(dict, "split_layer", None) IN
  [num_stages |-> Key(dict, "num_stages", 2),
   split_layer |-> IF boundary = 0 THEN None ELSE boundary,
   compression |-> Key(dict, "compression", None), lora |-> Key(dict, "lora", None),
   freeze_backbone |-> Key(dict, "freeze_backbone", FALSE)]

\* _clean makes the empty dict of a mapping that is none.
SplitFromDict(dict) ==
  [num_stages |-> Key(dict, "num_stages", 2), split_layer |-> Key(dict, "split_layer", None),
   compression |-> Key(dict, "compression", None), lora |-> Key(dict, "lora", None),
   freeze_backbone |-> Key(dict, "freeze_backbone", FALSE)]

PlacementToDict(p) ==
  [device |-> p.device, block_devices |-> p.block_devices,
   embed_device |-> p.embed_device, head_device |-> p.head_device]

\* Fault: the overrides are not read back.
PlacementFromDict_NoOverrides(dict) ==
  LET devices == Key(dict, "block_devices", None) IN
  [device |-> Key(dict, "device", "cpu"),
   block_devices |-> IF devices = <<>> THEN None ELSE devices,
   embed_device |-> None, head_device |-> None]

\* An empty list of devices comes back as none.
PlacementFromDict(dict) ==
  LET devices == Key(dict, "block_devices", None) IN
  [device |-> Key(dict, "device", "cpu"),
   block_devices |-> IF devices = <<>> THEN None ELSE devices,
   embed_device |-> Key(dict, "embed_device", None),
   head_device |-> Key(dict, "head_device", None)]
=============================================================================
