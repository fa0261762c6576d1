# A TLA+ model of swarmpipe

swarmpipe cuts a decoder model into two pipeline stages (layer 1, `split/`) and
carries byte messages between them (layer 3, `link/`). Layer 2 (`wire/`), the
tensor frames and the session protocol, is a docstring in this version of the
code. This directory holds TLA+ modules translated from the code, TLC
configurations that check them on small instances, and TLAPS proofs of the
theorems that hold for every instance.

## The system

| Component | State | Operations | Interacts with |
|---|---|---|---|
| `link/base.py`, the `Link` contract | none of its own; promises about a channel, two counters and two closed flags | `send_multipart`, `recv_multipart`, `close` | every transport must implement it |
| `link/loopback.py`, an in-process pair | two `queue.Queue`s, per end `_closed`, `bytes_sent`, `bytes_recv` | the same three | threads at both ends share the queues; each end's inbox is the other's outbox |
| `split/plan.py`, the layer planner | pure | `weighted_split`, `stage_layer_ranges`, `plan_gpu_layers`, `plan_block_devices`, `spans_from_placement` | its device list goes into `Placement.block_devices` |
| `split/spec.py`, the specs | frozen values | resolved devices, boundary and ranges; JSON in and out | read by the stage builder |
| `split/torch/stage_builder.py`, `freeze.py` | none of its own; changes the model: devices, `requires_grad`, adapters | `build_stage` | introspection, adapter, compression factory, PEFT |
| `split/torch/finetune/lora.py` | adapters in the model; two files per stage | inject, merge, fingerprint, save, load | PEFT, safetensors |
| `split/torch/loader.py` | the topology, a value | `introspect_decoder` | transformers classes |
| `split/torch/arch_adapter.py` | references into the model | embed, block context, run blocks | called by a training loop outside the repository |
| `split/torch/compression/` | learned weights | quantize, project, split at the boundary | built by the stage builder |
| `split/torch/framework_guard.py` | the process's claimed framework | claim, query | every torch module's import |
| `wire/` | not implemented | | |

### What is hard here, and what makes each part correct

* **Link.** A receiver checks `_closed`, then waits in a queue that another
  thread may close; one sentinel has to wake every waiter; a sentinel put back
  goes behind messages sent after it; a timeout races a message; queues are
  bounded, and two of the puts have no timeout; the byte counters are updated
  outside the queue's lock. Correct means: messages whole, in order, once; bytes
  counted once; `LinkClosed` exactly on closed ends; nobody blocked that the
  contract says returns.
* **Planner.** Rounding, leftovers, GPUs that get nothing, index lists that do
  not pair. Correct means: exact shares and a tiling, every block on a device.
* **Stage builder.** It mutates its argument step by step and may fail between
  two steps; the same model may be built again, for the same stage after a
  failure or for the other stage. Correct means: the stages hold every block
  once, everything is where the placement says, each mode trains what it names
  and nothing else, the other stage's half is left alone.
* **Adapter store.** Each stage writes two files in place, weights and then
  their config, possibly over an older run's; it may crash between any two
  writes, and a loader may read meanwhile, directory by directory and file by
  file. Correct means: what was saved completely is loaded completely or not at
  all, nothing that was begun is passed over, and halves with one fingerprint,
  whoever left which defaults out, go together.
* **Plan, record, forward.** The planner makes a device list, the specs carry it
  through JSON, the builder moves modules by it, and a forward pass moves two
  more things, the hidden state and the context, by it again. Correct means: no
  block meets a tensor from another device, both stages cut at one boundary,
  every block runs once, and what crosses the boundary is what was sent, to
  within the quantizer's step.

The full list, with the line where each hazard bites and the properties that
would catch it, is `hazards` in `PROJECT.json`.

## Modules

### Link and LoopbackLink

`Link.tla` is the contract of `base.py`, with no queue and no sentinel. A call
is an interval: it begins, has its effect at one instant, and returns. `chan[e]`
holds the messages on their way to end `e`; `snd[e]` and `rcv[r]` say where a
call in progress is or how the last one ended.

`LoopbackLink.tla` is the code. `queue[e]` is `e._inbox`, the peer's `_outbox`.
One action is one stretch of a method no other thread can cut: a method is cut
where it touches a queue and between reading and writing a shared attribute.

| Action | Code (`loopback.py`) |
|---|---|
| `SendRefused`, `SendCall` | the two checks, 64-66 |
| `SendPut`, `SendTimeout` | `put`, 70-73 |
| `SendCount` | `bytes_sent += size`, 74 |
| `RecvCall` | the check, 78-79 |
| `RecvTakeMessage`, `RecvTakeSentinel`, `RecvTimeout` | `get`, 80-84 |
| `RecvPutBack` | 84-88 |
| `RecvLoad`, `RecvStore` | the read and the write of `bytes_recv +=`, 89 |
| `CloseCall`, `CloseMark`, `CloseWake` | 94-95, 96, 97 |

`sent` and `taken` are history variables: what was put, what was taken. The
model has one sender per end, which `base.py:35` asks for, and any number of
receivers (the code provides for a second waiter) and closers. Two closers may
both pass the check of `_closed` before either sets it. Some interpreters switch
threads there and some do not; the model allows it and the properties hold
either way. A negative timeout, which `queue.Queue` rejects, is not modelled.

`SendBudget` bounds how many messages an end sends; nothing else is unbounded
(a sentinel is enqueued at most once per closer).

### LayerPlan

One call of `plan_block_devices`, with `plan_gpu_layers` and `weighted_split`
inside; the loop over the GPUs is one step per GPU. Free memory is a whole
number of some unit. The code divides floats: rounding moves a quotient across
an integer only together with its remainder, which changes no size except which
of two GPUs with equal remainders and different weights comes first, and no
property depends on that. NaN and infinite weights are outside the model.
`StageLayerRanges` and `SpansFromPlacement` are operators, checked in the states
of the call.

### StageSpecs

Constant operators for `split/spec.py`, used by `StageBuilder` and `Pipeline`:
the resolved devices of a `Placement`, the boundary and the ranges, Python's
slice, and `to_dict` and `from_dict`, which differ on an empty device list. A
`SplitSpec` has all its fields but `dtype` and `quantization`, which no stage
builder reads: `num_stages`, `split_layer`, `compression`, `lora` and
`freeze_backbone`. What a compression dict says is a parameter (`SplitSpecs`):
`StageBuilder` tells its kinds apart, `Pipeline` has whole profiles. A `lora`
dict is none, one with the default targets, or one whose targets match nothing.

### StageBuilder

`build_stage` as a sequence of steps on a model that outlives it.

| Action | Code (`stage_builder.py`) |
|---|---|
| `Refuse` | the two `NotImplementedError`s, 142-148 |
| `Call` | past the guards: the slice, 150-165 |
| `InjectLora` | `_inject_lora`, 67-88, and `lora.py` 48-104, 229-267 |
| `BuildCompressors`, `CompressorWeights` | 167-172, `_build_compressors` 98-102 |
| `MoveEnds` | embeddings, positions or rotary, 174-192 |
| `MoveBlock` | one turn of the loop, 194-195 |
| `MoveTail` | compressor, norm and head, 196-205 |
| `SelectParameters` | `_select_parameters`, `freeze_backbone`, `_require_trainable` and the bundle, 207-285 |

`device[c]`, `requires_grad[c]` and `adapted[c]` are the state of copy `c` of
the model. A weight of the model stands for all parameters of one module; with
tied embeddings `lm_head` and `embed_tokens` are one weight. A load says whether
both stages are built on one model object, whether it is shard-only (the other
stage's weights on the meta device), and whether the config's layer count is the
model's, and whether the model has a final norm. `StageIndices` are the indices
a caller passes, some of no stage. A build that fails leaves what it did.
`bundles[s]` is what the last build of stage `s` returned, dropped when stage
`s` is built again. `used[c]` and `failed` are histories.

Modelled from use: PEFT (freezes everything but adapters, rejects targets that
match nothing, replaces an adapted projection by a module with children),
`module.to` (moves weights in place; a meta tensor has nothing to move) and the
shard-only load. Injecting adapters a second time into a block is left out: what
PEFT does then is not determined by this code.

### AdapterStore

`finetune/lora.py` from 176 on. A run is one fine-tuning of the whole model;
what a stage writes is determined by the run, so a file is the run it is from,
`None` or `Torn`. `weights[s]` and `config[s]` are the files of stage `s`,
`training[s]` what it has in memory, `saving[s]` where it is in the call.

| Action | Code (`lora.py`) |
|---|---|
| `Train` | the training loop, outside the repository |
| `OpenWeights`, `WriteWeights` | `save_file`, 302-309: truncated, then written |
| `OpenConfig`, `WriteConfig` | `write_text`, 318 |
| `Crash` | the process ends; what it had opened stays as it is |
| `StartLoad`, `ReadWeights`, `ReadConfig` | `load_lora_adapters`, 354-365 |
| `Assemble` | the refusals, `apply_lora` and the weights, 367-379 |
| `Merge` | `merge_lora`, 189-190 |

The code reads the directories in the order of its list; the model takes any
order. A torn file does not parse (external: safetensors and JSON check what
they read). `set_peft_model_state_dict` (PEFT, external) fails on weights of a
rank other than the adapters'. `alpha` stands for alpha and dropout, which the
code treats alike. `saved` and the loader's `whole` and `begun` are histories.

`WholeHalvesComeBack` is about halves that were finished and not touched during
the load, one by one. New weights beside an older config are the subject of
`DisagreeingHalvesAreRefused`, in a run of its own. `EqualFingerprintsReassemble`
has two directions: halves with one fingerprint are loaded, and loaded halves
had one rank and scaling; that loaded halves had one fingerprint does not hold.
Halves of two different runs go together if their shapes agree: nothing in a
directory says which run it is from, and nothing is promised.

### Compression

Constant operators for `split/torch/compression`: which compressor a profile
names (`factory.py`), the quantizer's codes and what they cost (`modules.py`). A
tensor is the sequence of its elements, whole multiples of a unit far above the
scale's lower limit of 1e-8; the scale is kept as the fraction
`MaxAbs(x) / Top(bits)`, where the code has a float. The projections of a
learned bottleneck are arithmetic left out: its code is a tensor. `AsFp32` is
what a module returns that casts nothing, in the dtype torch gives its layers.

### Pipeline

One job. It composes `StageSpecs` and `Compression`; from `LayerPlan` it takes
that a planned list has one device per block of the range
(`EveryBlockPlaced`), and from `StageBuilder` that a built stage is where its
placement says (`ModulesStayPlaced`).

| Action | Code |
|---|---|
| `Plan` | a device list per stage (`plan.py` 130-174) or none, with or without overrides |
| `Submit` | each stage uses the spec itself, or reads it from a job record, which may leave out what has its default (`spec.py` 76-95, 157-182, 207-223) |
| `Build`, `BuildError` | what of `build_stage` can fail on the spec (`stage_builder.py` 142-205) |
| `EmbedTokens`, `BlockContext` | `arch_adapter.py` 71-78, 80-106 |
| `RunBlock` | one turn of `run_blocks`, 124-139, with `_ctx_to`, 154-166 |
| `Send`, `Crossed` | `encode` of a quantizer, the sender's half of a learned compressor (`split.py` 31-33), or the activation as it is |
| `Receive`, `FinishForward` | the caller puts the activation where `spec.py` 55-69 says it decodes and where the head is |

The caller, a training loop, is not in the repository: it is modelled as the
docstrings of `spec.py` tell it to behave. `next`, `cur_dev` and `local_ctx` are
the locals of `run_blocks`. A block whose inputs are not all on its device ends
the job (`"device mismatch"`), as torch would.

What the properties leave out is what the code does not promise: without a
device list `run_blocks` moves nothing, so an `embed_device` other than `device`
needs a list; a planned list with a boundary outside the model gives an
`IndexError` or a compressor away from the hidden state; `fixed_int` above eight
bits does not fit the int8 it is cast to, with one bit its scale divides by
zero, and with none or fewer its scale is negative.

`Send` calls a quantizer's `encode`, what a link needs. A caller that calls the
module instead gets the dequantized activation, in fp32; the properties are
about `encode`. The half of a learned compressor has no `encode`: its `forward`
is all there is, and casts nothing. With method `none` no compressor is built and
the activation crosses as it is.

## Runs

| Run | Instance | Checks |
|---|---|---|
| `contract` | maxsize 2, one receiver and one closer per end, two messages one way and one the other, every timeout choice | `TypeOK`, `OnlyClosedEndsReportClosed`, `WakeUpPending`, `InOrderExactlyOnce`, `BytesConserved`, `ImplementsLink` |
| `waiters` | unbounded, two receivers and two closers on one end | `WakeUpPending`, `CloseWakesReceivers`, `CloseReturns`, `TimedRecvReturns` |
| `backpressure` | maxsize 1, two messages | `TimedSendReturns`, `BackpressureReleases` |
| `layer_plan` | -1 to 7 blocks, up to 3 GPUs, weights -1, 0, 1, 2, 5, index lists that pair and that do not, both modes | exact shares, tiling, no unplaced block, payload round trip, stage ranges |
| `stage_builder` | three builds, ten specs, three stage indices, three placements, seven loads of a model of two or three blocks | tiling, placement, disjointness, what each mode trains, shard-only loads |
| `adapters` | two stages, two runs: one whose dicts leave out what the other stage's spells out, one with halves that differ from the first's in scaling, or only in projections; any number of saves, crashes and loads | what a load gives back, and when it refuses |
| `pipeline` | three blocks, or two under a config that says three; boundaries -1 to 4 and halfway, with eight profiles or none; the other fields of the split one by one; two devices; full and sparse records; one or two rows of elements -5, 0, 2 | what arrives of the plan, where tensors are, which blocks run, what a quantized activation is worth on arrival |
| `close_blocks`, `timed_recv_blocks`, `peer_unaware` | maxsize 1 | each refutes one sentence of `base.py` |
| `stage_retry` | two specs on fresh copies | refutes one sentence of `stage_builder.py` |
| `adapter_scaling` | as `adapters` | refutes one sentence of `lora.py` |

Why the bounds are enough. *Link*: with maxsize 1 every blocking put can block;
maxsize 2 lets a message stand behind a sentinel, and be overtaken by one that
is put back; two messages one way are what it takes to be out of order; two
receivers are one to take the sentinel and one to be left waiting. *Planner*:
three GPUs give a leftover of two and an idle GPU at either end or in the
middle; seven blocks leave a remainder under most weight sums that occur (and
none under 7 = 5 + 2). *Builder*: one build to fail, one to retry, one for the
other stage; three blocks make the halves uneven, and stage 1 then has more
blocks than one placement has devices. *Adapters*: the state space is finite
without a bound; two runs are an old and a new one, and their halves agree,
differ in scaling, or differ in projections; rank is compared with scaling in
one tuple, and is left to the proofs. *Pipeline*: three blocks can go from one
device to the other and back, which is what a cached device gets wrong; two
models tell the config's length from the model's; the elements round up, down
and to zero, with two to eight bits and with sixteen. The larger runs have from
0.6 to 1.6 million distinct states and take some ten to sixty seconds. The
safety properties of all of them are proved for every instance besides; the
bounds matter for the liveness properties and the mutants.

A plan returns, builds are counted (`MaxBuilds`), and a job ends, so
`CHECK_DEADLOCK` is off in the runs of `LayerPlan`, `StageBuilder` and
`Pipeline`. The others check deadlock.

**Fairness** (`FairSpec`). A thread inside a call is scheduled again: weak
fairness of each sender's, receiver's and closer's next step. That anybody calls
anything is not assumed. A put or get that is enabled now and then but not
always is not promised to get through: the condition variables of `queue.Queue`
let a newcomer overtake a waiter. `BackpressureReleases` therefore has a
hypothesis about the receiver, that it waits for a message again and again.

## What the runs found

1. `close()` of an end with a full bounded inbox blocks (`loopback.py:97`), and
   the end's own receiver can no longer make room: it gets `LinkClosed` first.
   `base.py:136` says it is safe to call while a peer waits.
2. A receive with a timeout that took the sentinel puts it back without one
   (`loopback.py:87`); a sender may have filled the slot.
3. Closing one end tells nobody at the other (`loopback.py:96-97`);
   `base.py:58` says `LinkClosed` is raised on a link closed "at either end".
4. `freeze_backbone` with a compressor that has no parameters freezes the model,
   then refuses the stage. Building it again on the same model without
   `freeze_backbone` returns a stage that trains nothing: only an empty list is
   refused (`stage_builder.py:49-64`).
5. A crash or a load between the two files of a save (`lora.py:309, 318`) puts
   new weights under an older run's config, and the loader then puts halves of
   different scaling together, which `lora.py:345-346` says it refuses. (Weights
   of another rank do not fit, and PEFT refuses them.)

Each passing property also has a mutant of the code's model, next to the
definition it changes, that breaks it under the same run.

### What the runs do not check

In these places the model does what the code does, a docstring says otherwise,
and there is nothing left to check: a property would only say that they differ.

* With tied embeddings the two halves of a full fine-tune share the embedding
  and head weight (`stage_builder.py:275, 282`), while `stage_builder.py:73-75`
  speaks of disjoint halves; `tie_word_embeddings` is recorded and read by
  nothing. `UntiedHalvesAreDisjoint` leaves this case out and no other.
* On one model for both stages, the stage built second resolves other default
  targets: `default_target_modules` looks at the first block, which the first
  build adapted (`lora.py:79`). `api.py:63-64` says both stages must agree on the
  effective config. On copies of their own they agree by construction.
* With `freeze_backbone` and a quantizer, stage 1 has no compressor half and
  fine-tunes everything (`stage_builder.py:264`); `spec.py:119-120` says only the
  boundary compressor trains.
* `load_lora_adapters` unites halves that adapted other projections
  (`lora.py:369`); `lora.py:196-200` says reconstruction refuses shards whose
  fingerprints disagree, and nothing in the repository compares them.
* A directory without weights is skipped (`lora.py:360`), and the model may come
  back with half of its adapters; `lora.py:327-328` says the union is the adapter
  set of the whole model.
* The sender's half of a learned compressor returns its code in fp32
  (`split.py:31-33`); `split.py:52` says fp16 is sent, and `wire_nbytes` counts two
  bytes an element, or one.
* With `quantize_bits = 0` a learned bottleneck encodes to fp16 and counts int8
  (`modules.py:107, 144`).

## Proofs

Every invariant the passing runs check is also a theorem, for every value of the
constants, and so is the refinement of `Link`. The constants are assumed to be
what the named `ASSUME`s of each module say: sets of the values the code is
called with. `NumberLemmas.tla` holds what the proofs share: the least number of
a set, `Induction` (a set of numbers that has 0, and with a number the next, has
all up to m, because a smallest one missing would have a predecessor that is
there), sums and their folds, counting in intervals, quotients.

### LoopbackLink_proofs

For any messages, receivers, closers and queue bound.

* `TypeCorrect`: the type invariant is inductive; one step per action.
* `SentinelInvariant`, hence `NoLostWakeUp` and `ClosedIsTruthful`.
  `WakeUpPending` alone is not inductive: a receiver may take a sentinel only
  because the end is closed, and a closer that is about to enqueue one must be
  known to have marked it. The invariant is the conjunction of the two
  properties, carried by two lemmas: steps that touch neither sentinel nor
  `closed` (`QuietStep`), and steps that do (`SentinelStep`).
* `DeliveredInOrder`. `InFlight` filters the sentinels out by a recursive
  function; `KeptExists` and `KeptUnique` establish that it is one, by the least
  counterexample, and the `WithoutSentinels...` lemmas say what it does to an
  appended and a removed element. Every step then changes `sent`, `taken` and
  `InFlight` together.
* `LoopbackImplementsLink`: with at most one receiver per end (`OneReceiver`,
  `base.py:35`), each step of the code is a step of `Link` or a stutter. The
  step that needs more than types is `RecvStore`: the counter value it read must
  still be current, which is `SeenIsCurrent`, true because nobody else of that
  end writes it.
* `BytesAreConserved`, under `OneReceiver` too: with two receivers an update of
  `bytes_recv` is lost (`loopback.py:89`). `Total` is a fold over a set in the
  order `CHOOSE` picks; `FoldExists` and `FoldIsSum` show that it is the sum from
  first to last all the same, `TotalOfMore` what a message at either end adds.
  A step then moves bytes between the terms of one end (`RecvBalance`) or adds
  to both sides (`SendBalance`); `RecvStore` needs `SeenIsCurrent` again.

### WeightedSplit_proofs and LayerPlan_proofs

For any numbers of blocks, lists of free memory and GPU indices.

* `SharesAreExact` and `HeavierIsServed` rest on the arithmetic of the largest
  remainder. The remainders sum to the leftover times the total weight, and each
  is less than the total, so fewer GPUs get one more than have a remainder
  (`Leftover`). `Ahead` is a strict total order, so the number of GPUs ahead is
  an injection into 0..m-1, hence onto it, and exactly as many get one more as
  are left over (`RankCounts`).
* `PlanInvariant` ties the loop to the sizes: its cursor is their sum so far, the
  spans are in order below the cursor, and every GPU passed that has blocks has
  the span of its part. `SpansTile` alone does not say which GPU a span is of, or
  that none was left out; that is what makes `BlocksPlaced` follow: each block
  falls into one part (`Locate`), whose span covers it, and no other span does
  (`PlacedBySpan`).
* `PlacementsRoundTrip`: spans in order have the ranks 1, 2, ... whatever empty
  slots are among them, so sorting gives them back (`SortedSpans`).
* `StagesTile` is integer division.

### AdapterStore_proofs

For any finite, non-empty set of stages, any runs and any lora dicts.

* `StoreInvariant` is the conjunction of five parts. `DiskInv`: a finished save
  is on the disk, and one past its weights has written them. `LoopInv`: where the
  loop over the directories is. `WholeInv`: of a whole half the loader has read
  what was saved, and no whole half makes it give up; this is where a save that
  runs into a load matters, since opening the weights takes the half out of
  `whole`. `BegunInv`: weights once begun stay. `OutcomeInv`: how a load ended
  follows from what it read. One lemma per part, one step per action that
  disturbs it.
* `WholeHalvesAreLoaded`, `StartedSavesAreLoaded` and `FingerprintsDecide` (one
  fingerprint loads, what loads had one rank and scaling) follow from it, with
  `OneShape`: `Shapes` has one element exactly when all halves have one shape,
  which needs that it is finite.

### StageSpecs_proofs and StageBuilder_proofs

For any loads, specs and placements and any number of builds (`MaxBuilds`, the
model's bound, is any number). `StageSpecs_proofs` has the facts about the
boundary, the slice of local blocks and the resolved devices.

* `CoreInvariant`. Most properties of the builder are about bundles returned
  earlier, on a model that was built on since; they are not inductive because the
  steps between say nothing of what is to be returned. `BuildInv` says what a
  build under way knows: its blocks are those of its spec, its copy of the model
  has been built with it, and past the injection only the adapters require
  gradients. `BundleInv` says of a returned stage what its parameters are,
  whatever happened since. `BuiltStagesTile` and `HalvesAreDisjoint` follow: the
  boundary splits the blocks, and the two stages' ends are different weights.
* `GradInvariant`, hence `CleanBuilds` and `ModesAreSeparate`. A `requires_grad`
  flag is changed by every build of the copy, so the invariant is about *all*
  specs a copy was built with (`used`): only full ones, and everything still
  trains; only LoRA, and exactly the adapters do; only frozen ones, and after one
  succeeded nothing does. With a mixture nothing is claimed (finding 4).
* `ShardIsEnough` needs `MetaInv`: a weight without data is one the load left to
  the other stage, in spite of all the moving.
* `ModulesPlaced`: `MovedInv` says which modules a build moved so far and where;
  that the other stage's build does not move them back is the tiling again.

### Pipeline_proofs

For any models, boundaries, devices and profiles and any activations.

* `CoreInvariant` is types, `JobInv` and `ForwardInv`. `JobInv`: each stage has
  every field of the split that was asked for, through a full record or a sparse
  one (`SplitRecord`), and a placement that differs from the planned one
  at most by an empty device list that came back as none (`SamePlacement`), and
  past `Build` a device for each of its blocks. `ForwardInv` is about the caches
  of `run_blocks`: hidden state and context are where the stage got them until a
  block with a device of its own has run, and then both where that block is; the
  cached `cur_dev` is that device or none. Without the history of the cache,
  neither "the context is with the hidden state" nor "the hidden state is with
  the block" survives a step.
* `PlannedJobsGetThrough`, `SubmittedIsPlanned` follow; the device after the last
  block is the one the compressor was moved to.
* `BlocksRunOnce`: the blocks that ran are the first so many of the model
  (`RanInv`), since the n-th block of a slice is its start plus n
  (`NthOfInterval`).
* `ArrivesClose` is the arithmetic of the quantizer: rounding half to even is
  within half of the exact quotient, the clamp is never reached, and every code
  fits an int8, for all bits from two to eight. The proof does not go through
  below two bits, nor is it so: the scale then divides by zero or is negative.
* `EncodedCost` says where `wire_nbytes` is right: it is the size of what `encode`
  makes, for every profile and activations of any size, but for a learned
  bottleneck of 0 bits. It says nothing of the half that a stage sends with, whose
  code is wider.

### What is only model-checked

The liveness properties, which the prover cannot state facts about (fairness and
`ENABLED`): `CloseWakesReceivers`, `CloseReturns`, `TimedRecvReturns`,
`TimedSendReturns` and `BackpressureReleases`. And the findings, which are
counterexamples.

## Plan

Done: `Link`, `LoopbackLink`, `LayerPlan`, `StageSpecs`, `StageBuilder`,
`AdapterStore`, `Compression`, `Pipeline`, and the proofs of every invariant and
of the refinement.

Next: an abstract specification of the adapter store, in which a half is absent,
begun or whole, that `AdapterStore` implements by the parts of `StoreInvariant`;
action properties of the builder, on what a build of one stage may never change
of the other's, from `CoreInvariant` and `MovedInv`.

## Not modelled

* Tensor arithmetic, optimizers and losses; the projections of a learned
  bottleneck; PEFT's, safetensors' and transformers' internals; the key-value
  cache of decoding, which is handed through to the library.
* Introspection (`loader.py`): attribute lookup on library classes; its result,
  the topology, is `StageBuilder`'s `Load`.
* `framework_guard.py`: a claim that only ever takes the value `"torch"` in this
  repository, at `stage_builder.py:28`. There is no second framework and no
  second caller, so no reachable state breaks it.
* `compression/hook.py`: nothing in the repository calls it.
* `wire/`, which has no code yet, and the package `__init__`s, which re-export.
