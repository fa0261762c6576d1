----------------------------- MODULE Pipeline -----------------------------
(***************************************************************************)
(* A job from plan to forward pass: the leader makes a StageSpec for each  *)
(* stage (split/plan.py, split/spec.py), sends it as a job record or uses  *)
(* it itself, the stage is built, and its blocks are run one by one by     *)
(* split/torch/arch_adapter.py, the activation crossing the boundary       *)
(* through split/torch/compression.  Tensors are where they are; only the  *)
(* one that crosses the boundary has elements.                             *)
(*                                                                         *)
(* Taken over from other modules: a planned list has one device per block  *)
(* of the stage's range (LayerPlan!EveryBlockPlaced), and a stage that was *)
(* built is where its placement says (StageBuilder!ModulesStayPlaced).     *)
(* The training loop that calls this code is not in the repository: it     *)
(* puts the tokens where the embedding is, a received activation on the    *)
(* first block's device (spec.py:68) and the last one on the head's.       *)
(***************************************************************************)
EXTENDS StageSpecs, Compression, Functions

CONSTANTS
  Models,     \* [blocks, num_layers]: what the model has, what its config says
  Splits,     \* the SplitSpecs a leader may choose; a compression is a profile
  Overrides,  \* values of embed_device and head_device
  Device,     \* the default device of a stage
  Rows,       \* bound: how many rows the activation has
  Elements    \* bound: the values of its elements

ASSUME ModelsAssumption == Models \subseteq [blocks : Nat, num_layers : Nat]
ASSUME SplitsAssumption == Splits \subseteq SplitSpecs(Profile)
ASSUME OverridesAssumption == Overrides \subseteq Devices \cup {None} /\ Device \in Devices
ASSUME TensorsAssumption == Rows \subseteq Nat /\ Elements \subseteq Int

VARIABLES
  job,        \* the model, and the SplitSpec the leader chose
  planned,    \* planned[s]: the placement the leader made
  split,      \* split[s]: the SplitSpec that stage s is built from
  placement,  \* placement[s]: its Placement, with it in a StageSpec
  at,         \* what comes next, or how the job ended
  stage,      \* the stage the activation is in
  hidden,     \* where the hidden state is
  ctx,        \* where the block context is, as the caller built it
  run,        \* run_blocks' locals: next index, cur_dev, local_ctx
  crossing,   \* what crosses the boundary: the rows of the tensor, it, its payload
  ran         \* the blocks that ran (a history)

inputVars == <<job, planned>>
specVars == <<split, placement>>
vars == <<inputVars, specVars, at, stage, hidden, ctx, run, crossing, ran>>

\* A profile of method "none" makes no compressor.
UsesCompression(spec) == spec.compression # None /\ spec.compression.method # "none"
Compressor(s) == CompressorFromSpec(split[s].compression)

Local(s) == LocalBlocks(job.model, split[s], s)
Count(s) == Cardinality(Local(s))
RangeSize(s) == LET range == LayerRange(job.split, s, job.model.num_layers) IN range[2] - range[1]

NotStarted == [next |-> 0, cur_dev |-> None, local_ctx |-> None]

Init ==
  /\ job \in [model : Models, split : Splits]
  /\ planned = [s \in Stages |-> None]
  /\ split = [s \in Stages |-> None] /\ placement = [s \in Stages |-> None]
  /\ at = "plan" /\ stage = 0
  /\ hidden = None /\ ctx = None /\ run = NotStarted /\ crossing = None /\ ran = <<>>

Planned(s) ==
  [device : {Device}, block_devices : {None} \cup [1..RangeSize(s) -> Devices],
   embed_device : IF s = 0 THEN Overrides ELSE {None},
   head_device : IF s = 0 THEN {None} ELSE Overrides]

\* The leader knows the config's number of layers, not the model's.
Plan ==
  /\ at = "plan"
  /\ \E p0 \in Planned(0), p1 \in Planned(1) : planned' = [s \in Stages |-> IF s = 0 THEN p0 ELSE p1]
  /\ at' = "submit"
  /\ UNCHANGED <<job, specVars, stage, hidden, ctx, run, crossing, ran>>

\* A job record may leave out what has its default.
Record(dict, default) == Restrict(dict, {k \in DOMAIN dict : dict[k] # default[k]})

\* A remote stage reads its StageSpec out of a job record.
Submit ==
  /\ at = "submit"
  /\ \E remote \in SUBSET Stages, sparse \in BOOLEAN :
       LET Sent(dict, default) == IF sparse THEN Record(dict, default) ELSE dict IN
       /\ split' = [s \in Stages |->
            IF s \in remote THEN SplitFromDict(Sent(SplitToDict(job.split), SplitDefault))
            ELSE job.split]
       /\ placement' = [s \in Stages |->
            IF s \in remote
            THEN PlacementFromDict(Sent(PlacementToDict(planned[s]), PlacementDefault))
            ELSE planned[s]]
  /\ at' = "build"
  /\ UNCHANGED <<inputVars, stage, hidden, ctx, run, crossing, ran>>

\* The first thing that stops build_stage (StageBuilder has it step by step):
\* LoRA without a block to adapt, an unknown profile, a list that is too short,
\* and, at a boundary compressor without parameters, a frozen backbone.
BuildError(s) ==
  LET spec == split[s] IN
  IF spec.num_stages # 2 THEN "NotImplementedError"
  ELSE IF \/ UsesLora(spec) /\ (spec.lora = "unmatched" \/ Local(s) = {})
          \/ UsesCompression(spec) /\ Compressor(s) = Invalid THEN "ValueError"
  ELSE IF Count(s) > 0 /\ ~HasBlockDevice(placement[s], Count(s) - 1) THEN "IndexError"
  ELSE IF /\ s = 0 /\ spec.freeze_backbone /\ ~UsesLora(spec)
          /\ UsesCompression(spec) /\ Compressor(s).kind = "fixed" THEN "RuntimeError"
  ELSE "built"

\* A job whose stages are not both built ends with the error of one of them.
Build ==
  LET errors == {BuildError(s) : s \in Stages} \ {"built"} IN
  /\ at = "build"
  /\ IF errors = {} THEN at' = "embed" ELSE at' \in errors
  /\ UNCHANGED <<inputVars, specVars, stage, hidden, ctx, run, crossing, ran>>

(***************************************************************************)
(* The segmented forward                                                   *)
(***************************************************************************)
\* Token and position embeddings are in one place.
EmbedTokens ==
  /\ at = "embed"
  /\ hidden' = EmbedDevice(placement[0])
  /\ at' = "context"
  /\ UNCHANGED <<inputVars, specVars, stage, ctx, run, crossing, ran>>

\* Mask and rotary embeddings are made where the hidden state is.
BlockContext ==
  /\ at = "context"
  /\ ctx' = hidden
  /\ run' = [next |-> 0, cur_dev |-> None, local_ctx |-> hidden]
  /\ at' = "blocks"
  /\ UNCHANGED <<inputVars, specVars, stage, hidden, crossing, ran>>

\* Fault: the context is moved for the first block only.
RunBlock_StaleContext ==
  LET p == placement[stage]
      home == BlockDevice(p, run.next)
      here == IF Listed(p) THEN home ELSE hidden
      context == IF Listed(p) /\ run.cur_dev = None THEN home ELSE run.local_ctx
  IN
  /\ at = "blocks" /\ run.next < Count(stage)
  /\ hidden' = here
  /\ run' = [next |-> run.next + 1, local_ctx |-> context,
             cur_dev |-> IF Listed(p) THEN home ELSE run.cur_dev]
  /\ IF here = home /\ context = home THEN at' = at ELSE at' = "device mismatch"
  /\ ran' = Append(ran, CHOOSE b \in Local(stage) :
                          Cardinality({c \in Local(stage) : c < b}) = run.next)
  /\ UNCHANGED <<inputVars, specVars, stage, ctx, crossing>>

\* Hidden state and context follow the blocks' devices when there is a list,
\* and stay where they are when there is none.  A block whose inputs are not
\* all where its weights are fails.
RunBlock ==
  LET p == placement[stage]
      home == BlockDevice(p, run.next)
      here == IF Listed(p) THEN home ELSE hidden
      context == IF Listed(p) /\ home # run.cur_dev THEN home ELSE run.local_ctx
  IN
  /\ at = "blocks" /\ run.next < Count(stage)
  /\ hidden' = here
  /\ run' = [next |-> run.next + 1, local_ctx |-> context,
             cur_dev |-> IF Listed(p) THEN home ELSE run.cur_dev]
  /\ IF here = home /\ context = home THEN at' = at ELSE at' = "device mismatch"
  /\ ran' = Append(ran, CHOOSE b \in Local(stage) :
                          Cardinality({c \in Local(stage) : c < b}) = run.next)
  /\ UNCHANGED <<inputVars, specVars, stage, ctx, crossing>>

\* The sender's half of a learned compressor has weights, on the last block's
\* device, and returns a code as narrow as its bottleneck.
SendsCode == UsesCompression(split[0]) /\ Compressor(0).kind = "learned"
Width == IF SendsCode THEN Compressor(0).dim ELSE HiddenSize

\* The activation is encoded by a fixed compressor, which the sender has whole;
\* the half of a learned one casts nothing, whatever its profile says.
Crossed(tensor) ==
  IF UsesCompression(split[0]) /\ ~SendsCode THEN Encode(Compressor(0), tensor)
  ELSE AsFp32(tensor)

Send ==
  /\ at = "blocks" /\ stage = 0 /\ run.next = Count(0)
  /\ IF SendsCode /\ hidden # LastBlockDevice(placement[0]) THEN
       at' = "device mismatch" /\ UNCHANGED crossing
     ELSE
       /\ \E rows \in Rows : \E tensor \in [1..(rows * Width) -> Elements] :
            crossing' = [rows |-> rows, tensor |-> tensor, payload |-> Crossed(tensor)]
       /\ at' = "receive"
  /\ UNCHANGED <<inputVars, specVars, stage, hidden, ctx, run, ran>>

Receive ==
  /\ at = "receive"
  /\ stage' = 1 /\ hidden' = FirstBlockDevice(placement[1])
  /\ crossing' = None
  /\ at' = "context"
  /\ UNCHANGED <<inputVars, specVars, ctx, run, ran>>

FinishForward ==
  /\ at = "blocks" /\ stage = 1 /\ run.next = Count(1)
  /\ hidden' = HeadDevice(placement[1])
  /\ at' = "done"
  /\ UNCHANGED <<inputVars, specVars, stage, ctx, run, crossing, ran>>

Next ==
  \/ Plan \/ Submit \/ Build \/ EmbedTokens \/ BlockContext \/ RunBlock
  \/ Send \/ Receive \/ FinishForward

Spec == Init /\ [][Next]_vars

(***************************************************************************)
(* Properties                                                              *)
(***************************************************************************)
Place == Devices \cup {None}
Payload == [elements : Seq(Int), width : {1, 2, 4}, scale : {0, 4}]
Crossing == [rows : Rows, tensor : Seq(Elements), payload : Payload]

\* Every variable has its type.
TypeOK ==
  /\ job \in [model : Models, split : Splits]
  /\ planned \in [Stages -> Placement \cup {None}]
  /\ split \in [Stages -> Splits \cup {None}]
  /\ placement \in [Stages -> Placement \cup {None}]
  /\ at \in {"plan", "submit", "build", "embed", "context", "blocks", "receive", "done",
             "NotImplementedError", "ValueError", "IndexError", "RuntimeError",
             "device mismatch"}
  /\ stage \in Stages /\ hidden \in Place /\ ctx \in Place
  /\ run \in [next : 0..job.model.blocks, cur_dev : Place, local_ctx : Place]
  /\ crossing \in IF at = "receive" THEN Crossing ELSE {None}
  /\ ran \in Seq(0..(job.model.blocks - 1))

Boundary == BoundaryLayer(job.split, job.model.num_layers)
Sound == Boundary \in 0..job.model.num_layers /\ job.model.num_layers = job.model.blocks

\* A job planned for a boundary inside a model that is as long as its config
\* says, and built, runs: every block gets a device, and meets the hidden state
\* and the context there, on however many devices; the compressor meets the
\* hidden state.  The embeddings may be elsewhere if there is a list of devices,
\* which is what moves the hidden state on.
PlannedJobsRun ==
  Sound =>
    /\ at # "IndexError"
    /\ at = "device mismatch" => ~Spread(planned[0]) /\ planned[0].embed_device \notin {None, Device}

\* A stage built from a job record has every field of the split as the leader
\* chose it: the boundary, the compression, the adapters and the mode.  Of a job
\* planned for its model it has everything where a stage built from the plan
\* itself has it (an empty list does not come back as one, spec.py:92).
SubmittedAsPlanned ==
  at \notin {"plan", "submit"} => \A s \in Stages :
    LET p == planned[s]
        q == placement[s]
    IN
    /\ split[s] = job.split
    /\ Sound =>
         /\ \A k \in 0..(Count(s) - 1) :
              HasBlockDevice(q, k) /\ BlockDevice(q, k) = BlockDevice(p, k)
         /\ EmbedDevice(q) = EmbedDevice(p) /\ HeadDevice(q) = HeadDevice(p)
         /\ FirstBlockDevice(q) = FirstBlockDevice(p) /\ LastBlockDevice(q) = LastBlockDevice(p)

\* A finished forward pass went through every block once and in order, whatever
\* the boundary was.
EveryBlockRunsOnce ==
  at = "done" /\ job.model.num_layers >= job.model.blocks =>
    ran = [k \in 1..job.model.blocks |-> k - 1]

\* From two to eight bits, an activation that a fixed compressor quantized
\* arrives as int8 codes that give each element back within half a step of the
\* scale.
ArrivesWithinHalfAStep ==
  at = "receive" /\ UsesCompression(split[0]) /\ Compressor(0).kind = "fixed"
                 /\ Compressor(0).bits \in 2..8 =>
    LET x == crossing.tensor
        codes == crossing.payload.elements
        error(i) == Abs(codes[i] * MaxAbs(x) - x[i] * Top(Compressor(0).bits))
    IN \A i \in DOMAIN x : codes[i] # Lossy /\ 2 * error(i) <= MaxAbs(x)
=============================================================================
