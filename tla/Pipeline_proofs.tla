-------------------------- MODULE Pipeline_proofs --------------------------
(***************************************************************************)
(* Theorems about Pipeline, for any models, splits and placements, and     *)
(* activations of any size.                                                *)
(***************************************************************************)
EXTENDS Pipeline, StageSpecs_proofs, SequenceTheorems

(***************************************************************************)
(* The inductive invariant                                                 *)
(***************************************************************************)
BeforeForward ==
  {"plan", "submit", "build", "NotImplementedError", "ValueError", "IndexError", "RuntimeError"}

\* What a record carries of a placement: an empty list may come back as none.
SamePlacement(p, q) ==
  /\ q.device = p.device
  /\ q.embed_device = p.embed_device /\ q.head_device = p.head_device
  /\ \/ q.block_devices = p.block_devices
     \/ p.block_devices = <<>> /\ q.block_devices = None

\* What the stages are built from is what was planned, and a stage that was
\* built has a device for each of its blocks.
JobInv ==
  /\ at # "plan" => \A s \in Stages : planned[s] \in Planned(s)
  /\ at \notin {"plan", "submit"} =>
       \A s \in Stages : /\ split[s] = job.split /\ placement[s] \in Placement
                         /\ SamePlacement(planned[s], placement[s])
  /\ at \notin BeforeForward =>
       \A s \in Stages :
         /\ UsesCompression(split[s]) => Compressor(s) # Invalid
         /\ Count(s) > 0 => HasBlockDevice(placement[s], Count(s) - 1)

\* Where the hidden state is when a stage gets it.
Entry == IF stage = 0 THEN EmbedDevice(placement[0]) ELSE FirstBlockDevice(placement[1])

\* Hidden state and context are together: where the stage got them until a
\* block with a device of its own has run, and then where that block is.
ForwardInv ==
  /\ at \in BeforeForward \cup {"embed", "receive"} => stage = 0
  /\ at = "context" => hidden = Entry
  /\ at = "blocks" =>
       LET p == placement[stage] IN
       /\ run.next \in 0..Count(stage)
       /\ run.local_ctx = hidden
       /\ IF Listed(p) /\ run.next > 0
          THEN hidden = BlockDevice(p, run.next - 1) /\ run.cur_dev = hidden
          ELSE hidden = Entry /\ run.cur_dev = None

\* The first n blocks of the model, in order.
FirstBlocks(n) == [k \in 1..n |-> k - 1]

\* The blocks that ran are the first ones of the model, those of stage 0 before
\* those of stage 1.
RanInv ==
  /\ at \in BeforeForward \cup {"embed"} => ran = <<>>
  /\ at = "context" => ran = FirstBlocks(IF stage = 0 THEN 0 ELSE Count(0))
  /\ at = "blocks" => ran = FirstBlocks(IF stage = 0 THEN run.next ELSE Count(0) + run.next)
  /\ at = "receive" => ran = FirstBlocks(Count(0))
  /\ at = "done" => ran = FirstBlocks(Count(0) + Count(1))

\* What crosses is some rows of a tensor as wide as the sender makes it, in the
\* form it sends that in.
CrossingInv ==
  at = "receive" =>
    /\ crossing.rows \in Rows
    /\ crossing.tensor \in [1..(crossing.rows * Width) -> Elements]
    /\ crossing.payload = Crossed(crossing.tensor)

(***************************************************************************)
(* The quantizer                                                           *)
(***************************************************************************)
\* From two to eight bits the largest code is a positive int8.
LEMMA TopRange ==
  ASSUME NEW bits \in 2..8
  PROVE  Top(bits) \in 1..127
<1>1. /\ Top(2) = 1 /\ Top(3) = 3 /\ Top(4) = 7 /\ Top(5) = 15
      /\ Top(6) = 31 /\ Top(7) = 63 /\ Top(8) = 127
  BY DEF Top
<1>2. bits \in {2, 3, 4, 5, 6, 7, 8}
  OBVIOUS
<1> HIDE DEF Top
<1> QED
  BY <1>1, <1>2

\* An empty tensor's greatest magnitude is 0; any other's is an element's, and
\* no element's is greater.
LEMMA MaxAbsIsGreatest ==
  ASSUME NEW n \in Nat, NEW x \in [1..n -> Int]
  PROVE  MaxAbs(x) \in Nat /\ \A i \in 1..n : Abs(x[i]) <= MaxAbs(x)
<1> DEFINE M == {0} \cup {Abs(x[i]) : i \in 1..n}
           Greatest(m) == \A i \in 1..n : Abs(x[i]) <= m
<1>1. \A i \in 1..n : Abs(x[i]) \in Nat
  BY DEF Abs
<1>2. \E m \in M : Greatest(m)
  <2>1. CASE n = 0
    BY <2>1
  <2>2. CASE n # 0
    <3> DEFINE a == [i \in 1..n |-> Abs(x[i])]
    <3>1. a \in [1..n -> Int] /\ n \in 0..n
      BY <1>1
    <3>2. PICK i \in 1..n : \A j \in 1..n : a[j] <= a[i]
      <4> HIDE DEF a
      <4> QED
        BY <2>2, <3>1, GreatestOfList
    <3>3. Abs(x[i]) \in M /\ Greatest(Abs(x[i]))
      BY <3>2
    <3> QED
      BY <3>3
  <2> QED
    BY <2>1, <2>2
<1>3. MaxAbs(x) = CHOOSE m \in M : Greatest(m)
  BY DEF MaxAbs
<1>4. MaxAbs(x) \in M /\ Greatest(MaxAbs(x))
  <2> HIDE DEF M, Greatest
  <2> QED
    BY <1>2, <1>3
<1> QED
  BY <1>1, <1>4

\* Rounding is off by at most a half.
LEMMA RoundedWithinHalf ==
  ASSUME NEW n \in Int, NEW d \in Nat \ {0}
  PROVE  /\ RoundHalfEven(n, d) \in Int
         /\ 2 * (RoundHalfEven(n, d) * d - n) <= d
         /\ 2 * (n - RoundHalfEven(n, d) * d) <= d
BY DEF RoundHalfEven

\* A fraction of at most top rounds to at most top.
LEMMA RoundedInRange ==
  ASSUME NEW n \in Int, NEW d \in Nat \ {0}, NEW top \in Nat,
         n <= top * d, -(top * d) <= n
  PROVE  RoundHalfEven(n, d) \in (-top)..top
<1> DEFINE r == RoundHalfEven(n, d)
<1>1. r \in Int /\ 2 * (r * d - n) <= d /\ 2 * (n - r * d) <= d
  BY RoundedWithinHalf
<1> HIDE DEF r
<1>2. ASSUME r >= top + 1 PROVE FALSE
  <2>1. r * d >= (top + 1) * d
    BY <1>1, <1>2
  <2>2. (top + 1) * d = top * d + d
    OBVIOUS
  <2> QED
    BY <1>1, <2>1, <2>2
<1>3. ASSUME r <= -top - 1 PROVE FALSE
  <2>1. r * d <= (-top - 1) * d
    BY <1>1, <1>3
  <2>2. (-top - 1) * d = -(top * d) - d
    OBVIOUS
  <2> QED
    BY <1>1, <2>1, <2>2
<1> QED
  BY <1>1, <1>2, <1>3 DEF r

\* A quantized element is a whole number within half a step of the scale of
\* what it was, and fits an int8.
LEMMA CodesAreClose ==
  ASSUME NEW bits \in 2..8, NEW n \in Nat, NEW x \in [1..n -> Int], NEW i \in 1..n
  PROVE  /\ Codes(x, bits)[i] \in -127..127
         /\ 2 * Abs(Codes(x, bits)[i] * MaxAbs(x) - x[i] * Top(bits)) <= MaxAbs(x)
<1> DEFINE m == MaxAbs(x)
           top == Top(bits)
           e == x[i]
           r == RoundHalfEven(e * top, m)
<1>1. m \in Nat /\ e \in Int /\ Abs(e) <= m /\ top \in 1..127
  BY MaxAbsIsGreatest, TopRange
<1>2. Codes(x, bits)[i] = IF m = 0 THEN 0 ELSE Clip(r, -top - 1, top)
  BY DEF Codes
<1>3. CASE m = 0
  <2> HIDE DEF m, top, e, r
  <2>1. e = 0
    BY <1>1, <1>3 DEF Abs
  <2>2. 0 * m - e * top = 0
    BY <1>1, <1>3, <2>1
  <2>3. 2 * Abs(0 * m - e * top) <= m
    BY <1>3, <2>2 DEF Abs
  <2>4. Codes(x, bits)[i] = 0
    BY <1>2, <1>3
  <2> QED
    BY <2>3, <2>4 DEF m, top, e
<1>4. CASE m # 0
  <2> HIDE DEF m, top, e
  <2>1. e * top \in Int /\ e * top <= top * m /\ -(top * m) <= e * top
    <3>1. -m <= e /\ e <= m
      BY <1>1 DEF Abs
    <3>2. top \in Nat /\ e * top = top * e /\ top * e <= top * m /\ top * (-m) <= top * e
      BY <1>1, <3>1
    <3>3. top * (-m) = -(top * m)
      BY <1>1
    <3> QED
      BY <1>1, <3>2, <3>3
  <2>2. r \in (-top)..top
    <3> DEFINE q == e * top
    <3>1. q \in Int /\ q <= top * m /\ -(top * m) <= q /\ m \in Nat \ {0} /\ top \in Nat
      BY <1>1, <1>4, <2>1
    <3> HIDE DEF q
    <3>2. RoundHalfEven(q, m) \in (-top)..top
      BY <3>1, RoundedInRange
    <3> QED
      BY <3>2 DEF q, r
  <2>3. /\ r \in Int
        /\ 2 * (r * m - e * top) <= m
        /\ 2 * (e * top - r * m) <= m
    BY <1>1, <1>4, <2>1, RoundedWithinHalf DEF r
  <2> HIDE DEF r
  <2>4. Codes(x, bits)[i] = r
    BY <1>1, <1>2, <1>4, <2>2 DEF Clip
  <2>5. 2 * Abs(r * m - e * top) <= m
    <3>1. r * m \in Int
      BY <1>1, <2>3
    <3> QED
      BY <1>1, <2>1, <2>3, <3>1 DEF Abs
  <2>6. r \in -127..127
    BY <1>1, <2>2
  <2> QED
    BY <2>4, <2>5, <2>6 DEF m, top, e
<1> QED
  BY <1>3, <1>4

\* What a profile names has whole widths and bits.
LEMMA CompressorType ==
  ASSUME NEW p \in Profile
  PROVE  LET c == CompressorFromSpec(p) IN
         /\ c = Invalid \/ c.kind \in {"none", "fixed", "learned"}
         /\ c.dim \in Nat /\ c.bits \in Maybe(Nat)
         /\ c.kind = "none" => c.dim = HiddenSize
         /\ c.kind = "fixed" => c.bits \in Nat /\ c.dim = HiddenSize
<1>1. /\ HiddenSize \in Nat /\ p.number \in Maybe(Nat) /\ p.suffix \in Maybe(Nat)
      /\ p.quantization_bits \in Maybe(Nat) /\ p.learned_dim \in Maybe(Nat)
      /\ p.bottleneck_dim \in Maybe(Nat)
      /\ p.method \in {"none", "fixed_int", "learned_dim", "learned_bottleneck", "other"}
  BY HiddenSizeAssumption DEF Profile
<1>2. \A v \in Maybe(Nat), d \in Maybe(Nat) : OrElse(v, d) \in Maybe(Nat)
  BY DEF OrElse
<1>3. \A v \in Maybe(Nat), d \in Nat : OrElse(v, d) \in Nat
  BY DEF OrElse, Maybe
<1>4. AskedBits(p) \in Maybe(Nat)
  BY <1>1 DEF AskedBits, Maybe
<1>5. CASE p.method = "none"
  BY <1>1, <1>5 DEF CompressorFromSpec, Uncompressed, Maybe
<1>6. CASE p.method = "fixed_int"
  <2> DEFINE bits == OrElse(p.quantization_bits, OrElse(p.number, 8))
  <2>1. bits \in Nat
    BY <1>1, <1>3
  <2>2. CompressorFromSpec(p) = Fixed(bits)
    BY <1>6 DEF CompressorFromSpec
  <2> HIDE DEF bits
  <2> QED
    BY <1>1, <2>1, <2>2 DEF Fixed, Maybe
<1>7. CASE p.method = "learned_dim"
  <2>1. CASE p.number = Absent
    BY <1>7, <2>1 DEF CompressorFromSpec, Invalid, Maybe
  <2>2. CASE p.number # Absent
    <3> DEFINE bits == OrElse(AskedBits(p), p.suffix)
    <3>1. CompressorFromSpec(p) = Learned(p.number, bits)
      BY <1>7, <2>2 DEF CompressorFromSpec
    <3>2. p.number \in Nat /\ bits \in Maybe(Nat)
      BY <1>1, <1>2, <1>4, <2>2 DEF Maybe
    <3> HIDE DEF bits
    <3> QED
      BY <3>1, <3>2 DEF Learned
  <2> QED
    BY <2>1, <2>2
<1>8. CASE p.method = "learned_bottleneck"
  <2> DEFINE dim == IF p.learned_dim \in {Absent, 0} THEN p.bottleneck_dim ELSE p.learned_dim
  <2>1. CompressorFromSpec(p) = IF dim = Absent THEN Invalid ELSE Learned(dim, AskedBits(p))
    BY <1>8 DEF CompressorFromSpec
  <2>2. dim \in Maybe(Nat)
    BY <1>1
  <2> HIDE DEF dim
  <2> QED
    BY <1>4, <2>1, <2>2 DEF Invalid, Learned, Maybe
<1>9. CASE p.method = "other"
  <2>1. CompressorFromSpec(p) = Invalid
    BY <1>9 DEF CompressorFromSpec
  <2> QED
    BY <2>1 DEF Invalid, Maybe
<1> QED
  BY <1>1, <1>5, <1>6, <1>7, <1>8, <1>9

\* wire_nbytes states the bytes of what encode makes, for every profile and
\* tensors of any size, unless a learned compressor is to quantize to no bits,
\* which it does not but counts (modules.py:107 and 144).
THEOREM EncodedCost ==
  ASSUME NEW p \in Profile, NEW c, c = CompressorFromSpec(p), c # Invalid,
         NEW rows \in Nat, NEW x \in [1..(rows * c.dim) -> Int],
         c.kind = "learned" => c.bits # 0
  PROVE  WireBytes(c, rows) = PayloadBytes(Encode(c, x))
<1> DEFINE n == rows * c.dim
<1>1. /\ c.kind \in {"none", "fixed", "learned"} /\ c.dim \in Nat
      /\ c.kind = "none" => c.dim = HiddenSize
      /\ c.kind = "fixed" => c.bits \in Nat /\ c.dim = HiddenSize
  BY CompressorType
<1>2. n \in Nat /\ (c.kind = "none" => n = rows * HiddenSize)
  BY <1>1
<1>3. Len(x) = n /\ DOMAIN x = 1..n
  <2>1. x \in [1..n -> Int]
    OBVIOUS
  <2> HIDE DEF n
  <2> QED
    BY <1>2, <2>1
<1>4. PayloadBytes(AsFp16(x)) = n * 2
  <2> HIDE DEF n
  <2> QED
    BY <1>2, <1>3 DEF PayloadBytes, AsFp16
<1>5. Quantizes(c) => PayloadBytes(Encode(c, x)) = n + 4
  <2> DEFINE codes == [i \in DOMAIN x |-> Int8(Codes(x, c.bits)[i])]
  <2>1. Len(codes) = n
    <3> HIDE DEF n
    <3> QED
      BY <1>2, <1>3
  <2> HIDE DEF n
  <2>2. Quantizes(c) => Encode(c, x) = [elements |-> codes, width |-> 1, scale |-> 4]
    BY DEF Encode
  <2> HIDE DEF codes
  <2> QED
    BY <1>2, <2>1, <2>2 DEF PayloadBytes
<1>6. WireBytes(c, rows) = IF c.kind = "none" \/ c.bits = Absent THEN n * 2 ELSE n + 4
  BY <1>1, <1>2 DEF WireBytes
<1> HIDE DEF n
<1>7. ~Quantizes(c) => Encode(c, x) = AsFp16(x)
  BY DEF Encode
<1> QED
  BY <1>1, <1>4, <1>5, <1>6, <1>7, AbsentAssumption DEF Quantizes

(***************************************************************************)
(* The job                                                                 *)
(***************************************************************************)
\* The constants' types, as the variables carry them.
LEMMA JobFields ==
  ASSUME job \in [model : Models, split : Splits]
  PROVE  /\ job.model.blocks \in Nat /\ job.model.num_layers \in Nat
         /\ job.split \in Splits /\ job.split \in SplitSpecs(Profile)
         /\ job.split.split_layer \in Int \cup {None}
         /\ job.split.compression \in Profile \cup {None}
<1>1. job.model \in Models /\ job.split \in Splits
  OBVIOUS
<1>2. job.model \in [blocks : Nat, num_layers : Nat] /\ job.split \in SplitSpecs(Profile)
  BY <1>1, ModelsAssumption, SplitsAssumption
<1>3. /\ job.split.split_layer \in Int \cup {None}
      /\ job.split.compression \in Profile \cup {None}
  BY <1>2 DEF SplitSpecs
<1> QED
  BY <1>1, <1>2, <1>3

\* The range of a stage has a size, be it negative.
LEMMA RangeSizeIsInt ==
  ASSUME job \in [model : Models, split : Splits],
         NEW s \in Stages
  PROVE  RangeSize(s) \in Int
<1> DEFINE layers == job.model.num_layers
           boundary == BoundaryLayer(job.split, layers)
<1>1. layers \in Nat /\ boundary \in Int
  BY JobFields, BoundaryIsInt
<1>2. RangeSize(s) = IF s = 0 THEN boundary - 0 ELSE layers - boundary
  BY DEF RangeSize, LayerRange
<1> HIDE DEF layers, boundary
<1> QED
  BY <1>1, <1>2

\* A function on 1..m is a list.
LEMMA ListLength ==
  ASSUME NEW m \in Int, NEW S, NEW f \in [1..m -> S]
  PROVE  f \in Seq(S) /\ Len(f) = IF m > 0 THEN m ELSE 0
<1>1. CASE m > 0
  BY <1>1
<1>2. CASE ~(m > 0)
  <2>1. 1..m = 1..0
    BY <1>2
  <2>2. f \in [1..0 -> S]
    BY <2>1
  <2> QED
    BY <1>2, <2>2
<1> QED
  BY <1>1, <1>2

\* A planned placement is one, and its list, if any, is as long as the range.
LEMMA PlannedPlacement ==
  ASSUME job \in [model : Models, split : Splits],
         NEW s \in Stages, NEW p \in Planned(s)
  PROVE  /\ p \in Placement /\ p.device = Device
         /\ \/ p.block_devices = None
            \/ Len(p.block_devices) = IF RangeSize(s) > 0 THEN RangeSize(s) ELSE 0
<1>1. /\ Overrides \subseteq Devices \cup {None} /\ Device \in Devices
  BY OverridesAssumption
<1>2. p = [device |-> p.device, block_devices |-> p.block_devices,
           embed_device |-> p.embed_device, head_device |-> p.head_device]
  BY DEF Planned
<1>3. /\ p.device = Device
      /\ p.block_devices = None \/ p.block_devices \in [1..RangeSize(s) -> Devices]
      /\ p.embed_device \in Overrides \cup {None} /\ p.head_device \in Overrides \cup {None}
  BY DEF Planned
<1>4. \/ p.block_devices = None
      \/ /\ p.block_devices \in Seq(Devices)
         /\ Len(p.block_devices) = IF RangeSize(s) > 0 THEN RangeSize(s) ELSE 0
  <2> HIDE DEF RangeSize
  <2> QED
    BY <1>3, RangeSizeIsInt, ListLength
<1> QED
  BY <1>1, <1>2, <1>3, <1>4 DEF Placement

\* A record that leaves out what has its default still says everything.
LEMMA RecordKeeps ==
  ASSUME NEW dict, NEW default, NEW k \in DOMAIN dict
  PROVE  /\ Key(dict, k, default[k]) = dict[k]
         /\ Key(Record(dict, default), k, default[k]) = dict[k]
BY DEF Record, Restrict, Key

\* A job record carries every field of a split, with or without the defaults.
LEMMA SplitRecord ==
  ASSUME NEW spec \in SplitSpecs(Profile), NEW sparse \in BOOLEAN
  PROVE  LET dict == SplitToDict(spec)
         IN SplitFromDict(IF sparse THEN Record(dict, SplitDefault) ELSE dict) = spec
<1> DEFINE dict == SplitToDict(spec)
           d == IF sparse THEN Record(dict, SplitDefault) ELSE dict
<1>1. /\ dict.num_stages = spec.num_stages /\ dict.split_layer = spec.split_layer
      /\ dict.compression = spec.compression /\ dict.lora = spec.lora
      /\ dict.freeze_backbone = spec.freeze_backbone
      /\ DOMAIN dict = {"num_stages", "split_layer", "compression", "lora", "freeze_backbone"}
  BY DEF SplitToDict
<1>2. /\ SplitDefault.num_stages = 2 /\ SplitDefault.split_layer = None
      /\ SplitDefault.compression = None /\ SplitDefault.lora = None
      /\ SplitDefault.freeze_backbone = FALSE
  BY DEF SplitDefault
<1>3. \A k \in DOMAIN dict : Key(d, k, SplitDefault[k]) = dict[k]
  BY RecordKeeps
<1> HIDE DEF dict, d
<1>4. /\ Key(d, "num_stages", 2) = spec.num_stages
      /\ Key(d, "split_layer", None) = spec.split_layer
      /\ Key(d, "compression", None) = spec.compression
      /\ Key(d, "lora", None) = spec.lora
  BY <1>1, <1>2, <1>3
<1>5. Key(d, "freeze_backbone", FALSE) = spec.freeze_backbone
  BY <1>1, <1>2, <1>3, Zenon
<1>6. spec = [num_stages |-> spec.num_stages, split_layer |-> spec.split_layer,
              compression |-> spec.compression, lora |-> spec.lora,
              freeze_backbone |-> spec.freeze_backbone]
  BY DEF SplitSpecs
<1>7. SplitFromDict(d) = spec
  BY <1>4, <1>5, <1>6, Zenon DEF SplitFromDict
<1> QED
  BY <1>7 DEF d, dict

\* It carries a placement too, but for an empty list.
LEMMA PlacementRecord ==
  ASSUME NEW p \in Placement, NEW sparse \in BOOLEAN
  PROVE  LET dict == PlacementToDict(p)
             record == IF sparse THEN Record(dict, PlacementDefault) ELSE dict
         IN /\ SamePlacement(p, PlacementFromDict(record))
            /\ PlacementFromDict(record) \in Placement
<1> DEFINE dict == PlacementToDict(p)
           d == IF sparse THEN Record(dict, PlacementDefault) ELSE dict
<1>1. /\ p.device \in Devices
      /\ p.block_devices \in Seq(Devices) \cup {None}
      /\ p.embed_device \in Devices \cup {None} /\ p.head_device \in Devices \cup {None}
  BY DEF Placement
<1>2. /\ dict.device = p.device /\ dict.block_devices = p.block_devices
      /\ dict.embed_device = p.embed_device /\ dict.head_device = p.head_device
      /\ DOMAIN dict = {"device", "block_devices", "embed_device", "head_device"}
  BY DEF PlacementToDict
<1>3. /\ PlacementDefault.device = "cpu" /\ PlacementDefault.block_devices = None
      /\ PlacementDefault.embed_device = None /\ PlacementDefault.head_device = None
  BY DEF PlacementDefault
<1>4. \A k \in DOMAIN dict : Key(d, k, PlacementDefault[k]) = dict[k]
  BY RecordKeeps
<1> HIDE DEF dict, d
<1>5. /\ Key(d, "device", "cpu") = p.device
      /\ Key(d, "block_devices", None) = p.block_devices
      /\ Key(d, "embed_device", None) = p.embed_device
      /\ Key(d, "head_device", None) = p.head_device
  BY <1>2, <1>3, <1>4
<1>6. SamePlacement(p, PlacementFromDict(d)) /\ PlacementFromDict(d) \in Placement
  BY <1>1, <1>5 DEF PlacementFromDict, SamePlacement, Placement
<1> QED
  BY <1>6 DEF d, dict

\* The types of what the job consists of.
JobTypes ==
  /\ job \in [model : Models, split : Splits]
  /\ planned \in [Stages -> Placement \cup {None}]
  /\ split \in [Stages -> Splits \cup {None}]
  /\ placement \in [Stages -> Placement \cup {None}]

\* The typed job: what planning and submission keep by themselves.
JobTyped == JobTypes /\ JobInv

\* The leader plans a placement for each stage.
LEMMA PlanJob == JobTyped /\ Plan => JobTyped'
<1> SUFFICES ASSUME JobTyped, Plan PROVE JobTyped'
  OBVIOUS
<1>1. PICK p0 \in Planned(0), p1 \in Planned(1) :
        planned' = [s \in Stages |-> IF s = 0 THEN p0 ELSE p1]
  BY DEF Plan
<1>2. at = "plan" /\ at' = "submit" /\ UNCHANGED <<job, split, placement>>
  BY DEF Plan, specVars
<1>3. \A s \in Stages : planned'[s] \in Planned(s)
  BY <1>1 DEF Stages
<1>4. \A s \in Stages : planned'[s] \in Placement
  BY <1>3, PlannedPlacement DEF JobTyped, JobTypes
<1>5. JobTypes'
  BY <1>1, <1>2, <1>4 DEF JobTyped, JobTypes
<1>6. \A s \in Stages : Planned(s)' = Planned(s)
  BY <1>2 DEF Planned, RangeSize
<1>7. JobInv'
  BY <1>2, <1>3, <1>6 DEF JobInv, BeforeForward
<1> QED
  BY <1>5, <1>7 DEF JobTyped

\* Each stage gets what was planned for it, from the plan or from a job record.
LEMMA SubmitJob == JobTyped /\ Submit => JobTyped'
<1> SUFFICES ASSUME JobTyped, Submit PROVE JobTyped'
  OBVIOUS
<1>1. at = "submit" /\ at' = "build" /\ UNCHANGED <<job, planned>>
  BY DEF Submit, inputVars
<1>2. PICK remote \in SUBSET Stages, sparse \in BOOLEAN :
        LET Sent(dict, default) == IF sparse THEN Record(dict, default) ELSE dict IN
        /\ split' = [s \in Stages |->
             IF s \in remote THEN SplitFromDict(Sent(SplitToDict(job.split), SplitDefault))
             ELSE job.split]
        /\ placement' = [s \in Stages |->
             IF s \in remote
             THEN PlacementFromDict(Sent(PlacementToDict(planned[s]), PlacementDefault))
             ELSE planned[s]]
  BY DEF Submit
<1>3. split' = [s \in Stages |-> job.split]
  BY <1>2, SplitRecord, JobFields DEF JobTyped, JobTypes
<1>4. \A s \in Stages : planned[s] \in Planned(s) /\ planned[s] \in Placement
  BY <1>1, PlannedPlacement DEF JobTyped, JobTypes, JobInv
<1>5. ASSUME NEW s \in Stages
      PROVE  placement'[s] \in Placement /\ SamePlacement(planned[s], placement'[s])
  <2>1. CASE s \in remote
    BY <1>2, <1>4, <2>1, PlacementRecord
  <2>2. CASE s \notin remote
    <3>1. placement'[s] = planned[s]
      BY <1>2, <2>2
    <3> QED
      BY <1>4, <3>1 DEF SamePlacement
  <2> QED
    BY <2>1, <2>2
<1>6. placement' \in [Stages -> Placement \cup {None}]
  <2>1. placement' = [s \in Stages |-> placement'[s]]
    BY <1>2
  <2> QED
    BY <1>5, <2>1
<1>7. job.split \in Splits
  BY JobFields DEF JobTyped, JobTypes
<1>8. JobTypes'
  BY <1>1, <1>3, <1>6, <1>7 DEF JobTyped, JobTypes
<1>9. \A s \in Stages : Planned(s)' = Planned(s)
  BY <1>1 DEF Planned, RangeSize
<1>10. JobInv'
  BY <1>1, <1>3, <1>4, <1>5, <1>7, <1>9 DEF JobInv, BeforeForward
<1> QED
  BY <1>8, <1>10 DEF JobTyped

\* A build ends with an error or goes on to the forward pass.
LEMMA BuildEnds ==
  ASSUME Build
  PROVE  /\ at = "build"
         /\ at' \in {"NotImplementedError", "ValueError", "IndexError", "RuntimeError", "embed"}
         /\ UNCHANGED <<inputVars, specVars, stage, hidden, ctx, run, crossing, ran>>
<1>1. \A s \in Stages :
        BuildError(s) \in {"NotImplementedError", "ValueError", "IndexError", "RuntimeError", "built"}
  BY DEF BuildError
<1> QED
  BY <1>1 DEF Build

\* No later step changes the job, and a stage that is built has what it needs.
LEMMA LaterJob ==
  ASSUME JobTyped, UNCHANGED <<inputVars, specVars>>,
         at \notin {"plan", "submit"}, at' \notin {"plan", "submit"},
         at \in BeforeForward => Build \/ at' \in BeforeForward
  PROVE  JobTyped'
<1>1. UNCHANGED <<job, planned, split, placement>>
  BY DEF inputVars, specVars
<1>2. JobTypes'
  BY <1>1 DEF JobTyped, JobTypes
<1>3. \A s \in Stages : /\ Planned(s)' = Planned(s) /\ Count(s)' = Count(s)
                        /\ Compressor(s)' = Compressor(s)
  BY <1>1 DEF Planned, RangeSize, Compressor, Count, Local
<1>4. \A s \in Stages : /\ planned[s] \in Planned(s) /\ split[s] = job.split
                        /\ placement[s] \in Placement
                        /\ SamePlacement(planned[s], placement[s])
  BY DEF JobTyped, JobInv
<1>5. at' \notin BeforeForward => \A s \in Stages :
        /\ UsesCompression(split[s]) => Compressor(s) # Invalid
        /\ Count(s) > 0 => HasBlockDevice(placement[s], Count(s) - 1)
  <2>1. CASE Build
    <3>1. at' \notin BeforeForward => \A s \in Stages : BuildError(s) = "built"
      <4>1. \A s \in Stages : BuildError(s) = "built" \/ BuildError(s) \in BeforeForward
        BY DEF BuildError, BeforeForward
      <4> QED
        BY <2>1, <4>1 DEF Build
    <3>2. ASSUME NEW s \in Stages, BuildError(s) = "built"
          PROVE  /\ UsesCompression(split[s]) => Compressor(s) # Invalid
                 /\ Count(s) > 0 => HasBlockDevice(placement[s], Count(s) - 1)
      BY <3>2 DEF BuildError
    <3> QED
      BY <3>1, <3>2
  <2>2. CASE ~Build
    BY <2>2 DEF JobTyped, JobInv
  <2> QED
    BY <2>1, <2>2
<1>6. JobInv'
  <2>1. \A s \in Stages : HasBlockDevice(placement[s], Count(s) - 1)' <=> HasBlockDevice(placement[s], Count(s) - 1)
    BY <1>1, <1>3
  <2> QED
    BY <1>1, <1>3, <1>4, <1>5, <2>1 DEF JobInv
<1> QED
  BY <1>2, <1>6 DEF JobTyped

\* Every step keeps the job.
LEMMA JobStep == JobTyped /\ [Next]_vars => JobTyped'
<1> SUFFICES ASSUME JobTyped, [Next]_vars PROVE JobTyped'
  OBVIOUS
<1>1. CASE Plan
  BY <1>1, PlanJob
<1>2. CASE Submit
  BY <1>2, SubmitJob
<1>3. CASE Build
  <2>1. at = "build" /\ at' \notin {"plan", "submit"} /\ UNCHANGED <<inputVars, specVars>>
    BY <1>3, BuildEnds
  <2> QED
    BY <1>3, <2>1, LaterJob
<1>4. CASE EmbedTokens \/ BlockContext \/ RunBlock \/ Send \/ Receive \/ FinishForward
  <2>1. at \in {"embed", "context", "blocks", "receive"} /\ UNCHANGED <<inputVars, specVars>>
    BY <1>4 DEF EmbedTokens, BlockContext, RunBlock, Send, Receive, FinishForward
  <2>2. at' \in {"context", "blocks", "receive", "device mismatch", "done"}
    BY <1>4, <2>1 DEF EmbedTokens, BlockContext, RunBlock, Send, Receive, FinishForward
  <2> QED
    BY <2>1, <2>2, LaterJob DEF BeforeForward
<1>5. CASE UNCHANGED vars
  <2>1. /\ UNCHANGED <<job, planned, split, placement, at>>
        /\ \A s \in Stages : /\ Planned(s)' = Planned(s) /\ Count(s)' = Count(s)
                              /\ Compressor(s)' = Compressor(s)
    BY <1>5 DEF vars, inputVars, specVars, Planned, RangeSize, Compressor, Count, Local
  <2> QED
    BY <2>1 DEF JobTyped, JobTypes, JobInv
<1> QED
  BY <1>1, <1>2, <1>3, <1>4, <1>5 DEF Next

(***************************************************************************)
(* The stages' blocks and devices                                          *)
(***************************************************************************)
\* Each stage's blocks are an interval, cut at the same boundary.
LEMMA Cuts ==
  ASSUME JobTyped, at \notin {"plan", "submit"}
  PROVE  \E cut, end \in 0..job.model.blocks :
           /\ Local(0) = 0..(cut - 1) /\ Count(0) = cut
           /\ Local(1) = cut..(end - 1) /\ Count(1) = IF cut < end THEN end - cut ELSE 0
           /\ job.model.num_layers >= job.model.blocks => end = job.model.blocks
           /\ Sound => cut = Boundary /\ end = job.model.blocks
<1> DEFINE n == job.model.blocks
           layers == job.model.num_layers
           boundary == BoundaryLayer(job.split, layers)
           cut == Cut(n, boundary)
           end == Cut(n, layers)
<1>1. n \in Nat /\ layers \in Nat /\ boundary \in Int /\ boundary = Boundary
  <2>1. boundary \in Int /\ n \in Nat /\ layers \in Nat
    BY JobFields, BoundaryIsInt DEF JobTyped, JobTypes
  <2> QED
    BY <2>1 DEF Boundary
<1>2. /\ cut \in 0..n /\ end \in 0..n
      /\ layers >= n => end = n
      /\ boundary \in 0..n => cut = boundary
  <2> HIDE DEF n, layers, boundary
  <2> QED
    BY <1>1 DEF Cut
<1>3. split[0] = job.split /\ split[1] = job.split
  BY DEF JobTyped, JobInv, Stages
<1>4. Local(0) = 0..(cut - 1) /\ Local(1) = cut..(end - 1)
  <2>1. /\ LocalBlocks(job.model, job.split, 0) = 0..(cut - 1)
        /\ LocalBlocks(job.model, job.split, 1) = cut..(end - 1)
    BY <1>1, LocalBlocksAre
  <2> QED
    BY <1>3, <2>1 DEF Local
<1>5. Sound => cut = Boundary /\ end = n
  BY <1>1, <1>2 DEF Sound
<1> HIDE DEF n, layers, boundary, cut, end
<1>6. /\ Cardinality(0..(cut - 1)) = cut
      /\ Cardinality(cut..(end - 1)) = IF cut < end THEN end - cut ELSE 0
  <2>1. cut \in Int /\ end \in Int /\ (0 < cut \/ cut = 0)
    BY <1>1, <1>2
  <2>2. Cardinality(0..(cut - 1)) = IF 0 < cut THEN cut - 0 ELSE 0
    BY <2>1, CountInterval
  <2>3. Cardinality(cut..(end - 1)) = IF cut < end THEN end - cut ELSE 0
    BY <2>1, CountInterval
  <2> QED
    BY <2>1, <2>2, <2>3
<1>7. Count(0) = cut /\ Count(1) = IF cut < end THEN end - cut ELSE 0
  BY <1>4, <1>6 DEF Count
<1> QED
  BY <1>2, <1>4, <1>5, <1>7 DEF n, layers

\* The block of stage s that runs after k others.
NextBlock(s, k) == CHOOSE b \in Local(s) : Cardinality({c \in Local(s) : c < b}) = k

\* Each stage has a number of blocks, at most all of them, and the next one to
\* run is the one that many blocks into the stage.
LEMMA StageBlocks ==
  ASSUME JobTyped, at \notin {"plan", "submit"}, NEW s \in Stages
  PROVE  /\ Count(s) \in 0..job.model.blocks /\ job.model.blocks \in Nat
         /\ s = 1 /\ Count(1) > 0 => Count(0) + Count(1) <= job.model.blocks
         /\ \A k \in 0..(Count(s) - 1) :
              NextBlock(s, k) = IF s = 0 THEN k ELSE Count(0) + k
<1>1. PICK cut, end \in 0..job.model.blocks :
        /\ Local(0) = 0..(cut - 1) /\ Count(0) = cut
        /\ Local(1) = cut..(end - 1) /\ Count(1) = IF cut < end THEN end - cut ELSE 0
  BY Cuts
<1>2. job.model.blocks \in Nat
  BY JobFields DEF JobTyped, JobTypes
<1> HIDE DEF Count
<1>3. Count(s) \in 0..job.model.blocks
  BY <1>1, <1>2 DEF Stages
<1>4. Count(1) > 0 => Count(0) + Count(1) <= job.model.blocks
  BY <1>1, <1>2
<1>5. ASSUME NEW k \in 0..(Count(s) - 1)
      PROVE  NextBlock(s, k) = IF s = 0 THEN k ELSE Count(0) + k
  <2> DEFINE lo == IF s = 0 THEN 0 ELSE cut
             hi == IF s = 0 THEN cut ELSE end
  <2>1. /\ lo \in Int /\ hi \in Int /\ k \in 0..(hi - lo - 1)
        /\ Local(s) = lo..(hi - 1) /\ lo + k = IF s = 0 THEN k ELSE Count(0) + k
    BY <1>1, <1>2 DEF Stages
  <2> HIDE DEF lo, hi
  <2>2. NextBlock(s, k) = CHOOSE b \in lo..(hi - 1) : Below(lo..(hi - 1), b) = k
    BY <2>1 DEF NextBlock, Below
  <2>3. NextBlock(s, k) = lo + k
    BY <2>1, <2>2, NthOfInterval
  <2> QED
    BY <2>1, <2>3
<1> QED
  BY <1>2, <1>3, <1>4, <1>5

\* Every device a placement gives is one, and so is the device of each block
\* of a stage that was built.
LEMMA PlacedDevices ==
  ASSUME NEW p \in Placement
  PROVE  /\ EmbedDevice(p) \in Devices /\ HeadDevice(p) \in Devices
         /\ FirstBlockDevice(p) \in Devices /\ LastBlockDevice(p) \in Devices
         /\ \A k \in Nat : HasBlockDevice(p, k) => BlockDevice(p, k) \in Devices
<1>1. /\ p.device \in Devices /\ p.block_devices \in Seq(Devices) \cup {None}
      /\ p.embed_device \in Devices \cup {None} /\ p.head_device \in Devices \cup {None}
  BY DEF Placement
<1>2. EmbedDevice(p) \in Devices /\ HeadDevice(p) \in Devices
  BY <1>1 DEF EmbedDevice, HeadDevice, OrDevice
<1>3. FirstBlockDevice(p) \in Devices /\ LastBlockDevice(p) \in Devices
  <2>1. CASE Spread(p)
    <3>1. p.block_devices \in Seq(Devices) /\ p.block_devices # <<>>
      BY <1>1, <2>1 DEF Spread, Listed
    <3>2. Len(p.block_devices) \in Nat \ {0}
      BY <3>1
    <3>3. /\ p.block_devices[1] \in Devices
          /\ p.block_devices[Len(p.block_devices)] \in Devices
      BY <3>1, <3>2
    <3> QED
      BY <2>1, <3>3 DEF FirstBlockDevice, LastBlockDevice
  <2>2. CASE ~Spread(p)
    BY <1>1, <2>2 DEF FirstBlockDevice, LastBlockDevice
  <2> QED
    BY <2>1, <2>2
<1>4. ASSUME NEW k \in Nat, HasBlockDevice(p, k) PROVE BlockDevice(p, k) \in Devices
  <2>1. CASE Listed(p)
    <3>1. p.block_devices \in Seq(Devices) /\ k < Len(p.block_devices)
      BY <1>1, <1>4, <2>1 DEF Listed, HasBlockDevice
    <3>2. p.block_devices[k + 1] \in Devices
      BY <3>1
    <3> QED
      BY <2>1, <3>2 DEF BlockDevice
  <2>2. CASE ~Listed(p)
    BY <1>1, <2>2 DEF BlockDevice
  <2> QED
    BY <2>1, <2>2
<1> QED
  BY <1>2, <1>3, <1>4

\* Where a stage gets the hidden state, and where its blocks are.
LEMMA StageDevices ==
  ASSUME JobTyped, at \notin {"plan", "submit"}, NEW s \in Stages
  PROVE  /\ placement[s] \in Placement /\ placement[s].device = Device
         /\ at \notin BeforeForward => \A k \in 0..(Count(s) - 1) :
              HasBlockDevice(placement[s], k) /\ BlockDevice(placement[s], k) \in Devices
<1>1. /\ planned[s] \in Planned(s) /\ SamePlacement(planned[s], placement[s])
      /\ placement[s] \in Placement
  BY DEF JobTyped, JobInv
<1>2. placement[s].device = Device
  BY <1>1, PlannedPlacement DEF JobTyped, JobTypes, SamePlacement
<1>3. ASSUME at \notin BeforeForward, NEW k \in 0..(Count(s) - 1)
      PROVE  HasBlockDevice(placement[s], k) /\ BlockDevice(placement[s], k) \in Devices
  <2>1. Count(s) \in Nat /\ k \in Nat /\ Count(s) > 0 /\ k <= Count(s) - 1
    BY StageBlocks
  <2>2. HasBlockDevice(placement[s], Count(s) - 1)
    BY <1>3, <2>1 DEF JobTyped, JobInv
  <2>3. HasBlockDevice(placement[s], k)
    <3>1. CASE Listed(placement[s])
      <4>1. /\ Len(placement[s].block_devices) \in Nat
            /\ Count(s) - 1 < Len(placement[s].block_devices)
        BY <1>1, <2>2, <3>1 DEF HasBlockDevice, Placement, Listed
      <4> QED
        BY <2>1, <4>1 DEF HasBlockDevice
    <3>2. CASE ~Listed(placement[s])
      BY <3>2 DEF HasBlockDevice
    <3> QED
      BY <3>1, <3>2
  <2> QED
    BY <1>1, <2>1, <2>3, PlacedDevices
<1> QED
  BY <1>1, <1>2, <1>3

(***************************************************************************)
(* Types and the forward pass                                              *)
(***************************************************************************)
CoreInv == TypeOK /\ JobInv /\ ForwardInv

\* The job part of the types.
LEMMA CoreJob == CoreInv => JobTyped
BY DEF CoreInv, TypeOK, JobTyped, JobTypes

\* While job and stages' specs stay, so does what is computed from them.
LEMMA SameJob ==
  ASSUME UNCHANGED <<inputVars, specVars>>
  PROVE  /\ UNCHANGED <<job, planned, split, placement>>
         /\ Sound' = Sound /\ Boundary' = Boundary
         /\ \A s \in Stages : /\ Count(s)' = Count(s) /\ Local(s)' = Local(s)
                               /\ Compressor(s)' = Compressor(s)
BY DEF inputVars, specVars, Compressor, Sound, Boundary, Count, Local

\* A stage gets the hidden state on a device.
LEMMA EntryType ==
  ASSUME JobTyped, at \notin {"plan", "submit"}, stage \in Stages
  PROVE  Entry \in Devices
<1>1. placement[0] \in Placement /\ placement[1] \in Placement
  BY StageDevices DEF Stages
<1> QED
  BY <1>1, PlacedDevices DEF Entry

\* A block that runs is the next one, and finds hidden state and context on its
\* device unless its stage has no list of devices and got them elsewhere.
LEMMA RunBlockFacts ==
  ASSUME CoreInv, RunBlock
  PROVE  LET p == placement[stage]
             home == BlockDevice(p, run.next)
         IN
         /\ stage \in Stages /\ p \in Placement /\ home \in Devices
         /\ run.next \in 0..(Count(stage) - 1) /\ Count(stage) \in 0..job.model.blocks
         /\ run'.next = run.next + 1
         /\ ran' = Append(ran, NextBlock(stage, run.next))
         /\ UNCHANGED <<job, planned, split, placement, stage, ctx, crossing>>
         /\ at' = "blocks" => hidden' = home /\ run'.local_ctx = home
         /\ Listed(p) => at' = "blocks" /\ run'.cur_dev = home
         /\ ~Listed(p) => /\ home = Device /\ hidden' = hidden /\ hidden = Entry
                          /\ run'.cur_dev = None /\ run'.local_ctx = hidden
                          /\ at' = "device mismatch" => hidden # Device
<1> DEFINE p == placement[stage]
           home == BlockDevice(p, run.next)
           here == IF Listed(p) THEN home ELSE hidden
           context == IF Listed(p) /\ home # run.cur_dev THEN home ELSE run.local_ctx
<1>1. /\ at = "blocks" /\ run.next < Count(stage)
      /\ hidden' = here
      /\ run' = [next |-> run.next + 1, local_ctx |-> context,
                 cur_dev |-> IF Listed(p) THEN home ELSE run.cur_dev]
      /\ IF here = home /\ context = home THEN at' = at ELSE at' = "device mismatch"
      /\ ran' = Append(ran, NextBlock(stage, run.next))
      /\ UNCHANGED <<inputVars, specVars, stage, ctx, crossing>>
  BY DEF RunBlock, NextBlock
<1>2. JobTyped /\ stage \in Stages
  BY CoreJob DEF CoreInv, TypeOK
<1>3. /\ run.next \in 0..Count(stage) /\ run.local_ctx = hidden
      /\ IF Listed(p) /\ run.next > 0
         THEN hidden = BlockDevice(p, run.next - 1) /\ run.cur_dev = hidden
         ELSE hidden = Entry /\ run.cur_dev = None
  BY <1>1 DEF CoreInv, ForwardInv
<1>4. Count(stage) \in 0..job.model.blocks /\ job.model.blocks \in Nat
  BY <1>1, <1>2, StageBlocks
<1>5. run.next \in 0..(Count(stage) - 1)
  <2>1. run.next \in 0..Count(stage) /\ run.next < Count(stage)
    BY <1>1, <1>3
  <2> QED
    BY <1>4, <2>1
<1>6. p \in Placement /\ p.device = Device /\ home \in Devices
  BY <1>1, <1>2, <1>5, StageDevices DEF BeforeForward
<1>7. UNCHANGED <<job, planned, split, placement>>
  BY <1>1, SameJob
<1>8. Listed(p) => here = home /\ context = home
  <2> HIDE DEF home
  <2>1. home # None
    BY <1>6, DevicesAssumption
  <2> QED
    BY <1>3, <2>1
<1>9. ~Listed(p) => home = Device /\ here = hidden /\ hidden = Entry /\ context = hidden
                    /\ run.cur_dev = None
  BY <1>3, <1>6 DEF BlockDevice
<1> HIDE DEF here, context, home
<1>10. at' = "blocks" => here = home /\ context = home
  BY <1>1
<1> QED
  BY <1>1, <1>2, <1>4, <1>5, <1>6, <1>7, <1>8, <1>9, <1>10 DEF home

\* Running a block keeps types and devices.
LEMMA RunBlockCore == CoreInv /\ RunBlock => TypeOK' /\ ForwardInv'
<1> SUFFICES ASSUME CoreInv, RunBlock PROVE TypeOK' /\ ForwardInv'
  OBVIOUS
<1> DEFINE p == placement[stage]
           home == BlockDevice(p, run.next)
<1>1. /\ stage \in Stages /\ p \in Placement /\ home \in Devices
      /\ run.next \in 0..(Count(stage) - 1) /\ Count(stage) \in 0..job.model.blocks
      /\ run'.next = run.next + 1
      /\ ran' = Append(ran, NextBlock(stage, run.next))
      /\ UNCHANGED <<job, planned, split, placement, stage, ctx, crossing>>
      /\ at' = "blocks" => hidden' = home /\ run'.local_ctx = home
      /\ Listed(p) => at' = "blocks" /\ run'.cur_dev = home
      /\ ~Listed(p) => /\ home = Device /\ hidden' = hidden /\ hidden = Entry
                       /\ run'.cur_dev = None /\ run'.local_ctx = hidden
                       /\ at' = "device mismatch" => hidden # Device
  BY RunBlockFacts
<1>2. JobTyped /\ at = "blocks" /\ at' \in {"blocks", "device mismatch"}
      /\ UNCHANGED <<inputVars, specVars>>
  <2>1. at = "blocks" /\ at' \in {"blocks", "device mismatch"} /\ UNCHANGED <<inputVars, specVars>>
    BY DEF RunBlock
  <2> QED
    BY <2>1, CoreJob
<1>12. job.model.blocks \in Nat
  BY JobFields DEF CoreInv, TypeOK
<1>3. /\ run.next \in 0..(Count(stage) - 1) /\ Count(stage) \in 0..job.model.blocks
      /\ run'.next = run.next + 1
  BY <1>1
<1>4. /\ run.next + 1 \in 0..job.model.blocks /\ run.next + 1 \in 0..Count(stage)
      /\ run.next + 1 > 0 /\ (run.next + 1) - 1 = run.next
  BY <1>3, <1>12
<1>5. NextBlock(stage, run.next) \in 0..(job.model.blocks - 1)
  <2>1. NextBlock(stage, run.next) = IF stage = 0 THEN run.next ELSE Count(0) + run.next
    BY <1>1, <1>2, StageBlocks
  <2>2. /\ Count(0) \in Nat /\ Count(1) \in Nat
        /\ stage = 1 /\ Count(1) > 0 => Count(0) + Count(1) <= job.model.blocks
    <3>1. /\ Count(0) \in 0..job.model.blocks /\ Count(1) \in 0..job.model.blocks
          /\ stage = 1 /\ Count(1) > 0 => Count(0) + Count(1) <= job.model.blocks
      <4>1. JobTyped /\ at \notin {"plan", "submit"} /\ 0 \in Stages /\ 1 \in Stages
        BY <1>2 DEF Stages
      <4>2. Count(0) \in 0..job.model.blocks
        BY <4>1, StageBlocks
      <4>3. /\ Count(1) \in 0..job.model.blocks
            /\ Count(1) > 0 => Count(0) + Count(1) <= job.model.blocks
        BY <4>1, StageBlocks
      <4> QED
        BY <4>2, <4>3
    <3> QED
      BY <1>12, <3>1
  <2>3. CASE stage = 0
    <3>1. NextBlock(stage, run.next) = run.next
      BY <2>1, <2>3
    <3> QED
      BY <1>3, <1>12, <3>1
  <2>4. CASE stage = 1
    <3>1. NextBlock(stage, run.next) = Count(0) + run.next /\ run.next \in 0..(Count(1) - 1)
      BY <1>3, <2>1, <2>4
    <3> QED
      BY <1>12, <2>2, <2>4, <3>1
  <2>5. stage = 0 \/ stage = 1
    BY <1>1 DEF Stages
  <2> QED
    BY <2>3, <2>4, <2>5
<1>10. ran' \in Seq(0..(job.model.blocks - 1))
  <2>1. ran \in Seq(0..(job.model.blocks - 1)) /\ ran' = Append(ran, NextBlock(stage, run.next))
    BY <1>1 DEF CoreInv, TypeOK
  <2> QED
    BY <1>5, <2>1
<1>11. hidden \in Place
  BY DEF CoreInv, TypeOK
<1>6. /\ hidden' \in Place /\ run'.cur_dev \in Place /\ run'.local_ctx \in Place
      /\ run' = [next |-> run'.next, cur_dev |-> run'.cur_dev, local_ctx |-> run'.local_ctx]
  <2>1. run' = [next |-> run'.next, cur_dev |-> run'.cur_dev, local_ctx |-> run'.local_ctx]
    BY DEF RunBlock
  <2> HIDE DEF home
  <2> QED
    BY <1>1, <1>11, <2>1 DEF Place
<1>7. TypeOK'
  <2>1. run' \in [next : 0..job.model.blocks, cur_dev : Place, local_ctx : Place]
    BY <1>3, <1>4, <1>6
  <2>2. crossing' \in {None} /\ at' # "receive"
    BY <1>1, <1>2 DEF CoreInv, TypeOK
  <2>3. JobTypes'
    BY <1>1, <1>2 DEF JobTyped, JobTypes
  <2>4. ctx' \in Place /\ stage' \in Stages
    BY <1>1 DEF CoreInv, TypeOK
  <2> QED
    BY <1>1, <1>2, <1>10, <1>6, <2>1, <2>2, <2>3, <2>4 DEF TypeOK, JobTypes
<1>8. Entry' = Entry /\ Count(stage)' = Count(stage) /\ p' = p
  BY <1>1 DEF Entry, Count, Local
<1>9. ForwardInv'
  <2>1. at' = "blocks" =>
          /\ run'.next \in 0..Count(stage) /\ run'.next > 0 /\ run'.next - 1 = run.next
          /\ run'.local_ctx = hidden'
          /\ IF Listed(p) THEN hidden' = BlockDevice(p, run.next) /\ run'.cur_dev = hidden'
             ELSE hidden' = Entry /\ run'.cur_dev = None
    <3>1. run'.next \in 0..Count(stage) /\ run'.next > 0 /\ run'.next - 1 = run.next
      BY <1>3, <1>4
    <3> QED
      BY <1>1, <3>1
  <2> QED
    BY <1>1, <1>2, <1>8, <2>1 DEF ForwardInv, BeforeForward
<1> QED
  BY <1>7, <1>9

\* The sender makes a tensor of a whole width.
LEMMA WidthIsNat ==
  ASSUME JobTyped, at \notin BeforeForward
  PROVE  /\ Width \in Nat
         /\ UsesCompression(split[0]) =>
              /\ split[0].compression \in Profile
              /\ Compressor(0) = CompressorFromSpec(split[0].compression)
              /\ Compressor(0) # Invalid /\ Width = Compressor(0).dim
<1>1. split[0].compression \in Profile \cup {None}
  <2>1. split[0] = job.split
    BY DEF JobTyped, JobInv, BeforeForward, Stages
  <2> QED
    BY <2>1, JobFields DEF JobTyped, JobTypes
<1>2. UsesCompression(split[0]) => Compressor(0) # Invalid
  BY DEF JobTyped, JobInv, Stages
<1>3. CASE UsesCompression(split[0])
  <2>1. split[0].compression \in Profile
    BY <1>1, <1>3 DEF UsesCompression
  <2>2. /\ Compressor(0) = Invalid \/ Compressor(0).kind \in {"none", "fixed", "learned"}
        /\ Compressor(0).dim \in Nat
        /\ Compressor(0).kind \in {"none", "fixed"} => Compressor(0).dim = HiddenSize
    BY <2>1, CompressorType DEF Compressor
  <2>3. Width = Compressor(0).dim
    BY <1>2, <1>3, <2>2 DEF Width, SendsCode
  <2> QED
    BY <1>2, <1>3, <2>1, <2>2, <2>3 DEF Compressor
<1>4. CASE ~UsesCompression(split[0])
  BY <1>4, HiddenSizeAssumption DEF Width, SendsCode
<1> QED
  BY <1>3, <1>4

\* What crosses has its type.
LEMMA CrossingType ==
  ASSUME JobTyped, at \notin BeforeForward, NEW rows \in Rows,
         NEW tensor \in [1..(rows * Width) -> Elements]
  PROVE  [rows |-> rows, tensor |-> tensor, payload |-> Crossed(tensor)] \in Crossing
<1> DEFINE c == Compressor(0)
           n == rows * Width
           codes == [i \in DOMAIN tensor |-> Int8(Codes(tensor, c.bits)[i])]
<1>1. rows \in Nat /\ Width \in Nat
  BY WidthIsNat, TensorsAssumption
<1>2. n \in Nat
  BY <1>1
<1>3. tensor \in [1..n -> Elements]
  OBVIOUS
<1>4. tensor \in Seq(Elements) /\ DOMAIN tensor = 1..n
  <2> HIDE DEF n
  <2> QED
    BY <1>2, <1>3
<1>5. tensor \in Seq(Int)
  <2>1. tensor \in [1..n -> Int]
    <3> HIDE DEF n
    <3> QED
      BY <1>3, TensorsAssumption
  <2> HIDE DEF n
  <2> QED
    BY <1>2, <2>1
<1>6. codes \in Seq(Int)
  <2>1. ASSUME NEW v PROVE Int8(v) \in Int
    <3>1. CASE v \in -128..127
      <4>1. Int8(v) = v
        BY <3>1 DEF Int8
      <4> QED
        BY <3>1, <4>1
    <3>2. CASE v \notin -128..127
      BY <3>2 DEF Int8, Lossy
    <3> QED
      BY <3>1, <3>2
  <2>2. codes \in [1..n -> Int]
    <3> HIDE DEF n
    <3> QED
      BY <1>4, <2>1
  <2> HIDE DEF codes, n
  <2> QED
    BY <1>2, <2>2
<1>7. AsFp16(tensor) \in Payload /\ AsFp32(tensor) \in Payload
  BY <1>5 DEF AsFp16, AsFp32, Payload
<1>8. Encode(c, tensor) \in Payload
  <2>1. Encode(c, tensor) = IF Quantizes(c) THEN [elements |-> codes, width |-> 1, scale |-> 4]
                            ELSE AsFp16(tensor)
    BY DEF Encode
  <2> HIDE DEF codes, c
  <2> QED
    BY <1>6, <1>7, <2>1 DEF Payload
<1>9. Crossed(tensor) \in Payload
  BY <1>7, <1>8 DEF Crossed
<1> QED
  BY <1>4, <1>9 DEF Crossing

\* Before the forward pass nothing is anywhere yet.
LEMMA EarlyCore ==
  ASSUME CoreInv, Plan \/ Submit \/ Build
  PROVE  TypeOK' /\ ForwardInv'
<1>1. /\ at' \in BeforeForward \cup {"embed"}
      /\ at \in {"plan", "submit", "build"}
      /\ UNCHANGED <<job, stage, hidden, ctx, run, crossing, ran>>
  BY BuildEnds DEF Plan, Submit, inputVars, BeforeForward
<1>2. JobTypes'
  <2>1. JobTyped
    BY CoreJob
  <2>2. [Next]_vars
    BY DEF Next
  <2>3. JobTyped'
    BY <2>1, <2>2, JobStep
  <2> QED
    BY <2>3 DEF JobTyped
<1>3. TypeOK'
  BY <1>1, <1>2 DEF CoreInv, TypeOK, JobTypes, BeforeForward
<1>4. ForwardInv'
  BY <1>1 DEF CoreInv, ForwardInv, BeforeForward
<1> QED
  BY <1>3, <1>4

\* The embeddings leave the hidden state where they are, and the context is
\* made where it is.
LEMMA StartCore ==
  ASSUME CoreInv, EmbedTokens \/ BlockContext
  PROVE  TypeOK' /\ ForwardInv'
<1>1. JobTyped /\ at \notin BeforeForward /\ stage \in Stages
      /\ UNCHANGED <<inputVars, specVars, stage, crossing, ran>>
  BY CoreJob DEF EmbedTokens, BlockContext, CoreInv, TypeOK, BeforeForward
<1>2. UNCHANGED <<job, planned, split, placement>>
  BY <1>1, SameJob
<1>3. at \notin {"plan", "submit"} /\ 0 \in Stages
  BY <1>1 DEF BeforeForward, Stages
<1>4. EmbedDevice(placement[0]) \in Devices
  BY <1>1, <1>3, StageDevices, PlacedDevices
<1>5. job.model.blocks \in Nat
  BY JobFields DEF CoreInv, TypeOK
<1>6. Count(stage) \in Nat /\ Count(stage)' = Count(stage) /\ Entry' = Entry
  <2>1. Count(stage) \in 0..job.model.blocks
    BY <1>1, <1>3, StageBlocks
  <2>2. Count(stage) \in Nat
    BY <1>5, <2>1
  <2> QED
    BY <1>1, <1>2, <2>2 DEF Count, Local, Entry
<1>7. CASE EmbedTokens
  <2>1. /\ at = "embed" /\ at' = "context" /\ hidden' = EmbedDevice(placement[0])
        /\ UNCHANGED <<ctx, run>> /\ stage = 0
    BY <1>7 DEF EmbedTokens, CoreInv, ForwardInv
  <2>2. TypeOK'
    BY <1>1, <1>2, <1>4, <2>1 DEF CoreInv, TypeOK, Place
  <2>3. hidden' = Entry'
    BY <1>6, <2>1 DEF Entry
  <2> QED
    BY <2>1, <2>2, <2>3 DEF ForwardInv, BeforeForward
<1>8. CASE BlockContext
  <2>1. /\ at = "context" /\ at' = "blocks" /\ ctx' = hidden /\ hidden' = hidden
        /\ run' = [next |-> 0, cur_dev |-> None, local_ctx |-> hidden] /\ hidden = Entry
    BY <1>8 DEF BlockContext, CoreInv, ForwardInv
  <2>2. /\ run'.next = 0 /\ run'.cur_dev = None /\ run'.local_ctx = hidden
    BY <2>1
  <2>3. run' \in [next : 0..job.model.blocks, cur_dev : Place, local_ctx : Place]
    <3>1. hidden \in Place /\ None \in Place
      BY DEF CoreInv, TypeOK, Place
    <3>2. 0 \in 0..job.model.blocks
      BY <1>5
    <3> QED
      BY <2>1, <3>1, <3>2
  <2>4. TypeOK'
    BY <1>1, <1>2, <2>1, <2>3 DEF CoreInv, TypeOK
  <2>5. 0 \in 0..Count(stage)
    BY <1>6
  <2>6. ForwardInv'
    BY <1>6, <2>1, <2>2, <2>5 DEF ForwardInv, BeforeForward
  <2> QED
    BY <2>4, <2>6
<1> QED
  BY <1>7, <1>8

\* Sending, receiving and finishing move the hidden state to a device.
LEMMA HandOverCore ==
  ASSUME CoreInv, Send \/ Receive \/ FinishForward
  PROVE  TypeOK' /\ ForwardInv'
<1>1. /\ JobTyped /\ at \notin BeforeForward /\ at \notin {"plan", "submit"} /\ stage \in Stages
      /\ UNCHANGED <<inputVars, specVars, ctx, run, ran>>
  BY CoreJob DEF Send, Receive, FinishForward, CoreInv, TypeOK, BeforeForward
<1>2. UNCHANGED <<job, planned, split, placement>>
  BY <1>1, SameJob
<1>3. placement[1] \in Placement
  BY <1>1, StageDevices DEF Stages
<1>4. FirstBlockDevice(placement[1]) \in Place /\ HeadDevice(placement[1]) \in Place
  BY <1>3, PlacedDevices DEF Place
<1>5. CASE Send
  <2>1. /\ at = "blocks" /\ stage = 0 /\ at' \in {"device mismatch", "receive"}
        /\ UNCHANGED <<stage, hidden>>
    BY <1>5 DEF Send
  <2>2. crossing' \in IF at' = "receive" THEN Crossing ELSE {None}
    <3>1. CASE at' = "device mismatch"
      <4>1. crossing' = crossing
        BY <1>5, <3>1 DEF Send
      <4> QED
        BY <2>1, <3>1, <4>1 DEF CoreInv, TypeOK
    <3>2. CASE at' = "receive"
      <4>1. PICK rows \in Rows : \E tensor \in [1..(rows * Width) -> Elements] :
              crossing' = [rows |-> rows, tensor |-> tensor, payload |-> Crossed(tensor)]
        BY <1>5, <3>2 DEF Send
      <4>2. crossing' \in Crossing
        BY <1>1, <4>1, CrossingType
      <4> QED
        BY <3>2, <4>2
    <3> QED
      BY <2>1, <3>1, <3>2
  <2>3. TypeOK'
    BY <1>1, <1>2, <2>1, <2>2 DEF CoreInv, TypeOK
  <2> QED
    BY <2>1, <2>3 DEF ForwardInv, BeforeForward
<1>6. CASE Receive
  <2>1. /\ at' = "context" /\ stage' = 1 /\ hidden' = FirstBlockDevice(placement[1])
        /\ crossing' = None
    BY <1>6 DEF Receive
  <2>2. TypeOK'
    BY <1>1, <1>2, <1>4, <2>1 DEF CoreInv, TypeOK, Stages
  <2>3. hidden' = Entry'
    BY <1>2, <2>1 DEF Entry
  <2> QED
    BY <2>1, <2>2, <2>3 DEF ForwardInv, BeforeForward
<1>7. CASE FinishForward
  <2>1. /\ at = "blocks" /\ at' = "done" /\ hidden' = HeadDevice(placement[1])
        /\ UNCHANGED <<stage, crossing>>
    BY <1>7 DEF FinishForward
  <2>2. TypeOK'
    BY <1>1, <1>2, <1>4, <2>1 DEF CoreInv, TypeOK
  <2> QED
    BY <2>1, <2>2 DEF ForwardInv, BeforeForward
<1> QED
  BY <1>5, <1>6, <1>7

\* The invariant so far is inductive.
LEMMA CoreInit == Init => CoreInv
<1> SUFFICES ASSUME Init PROVE CoreInv
  OBVIOUS
<1>1. /\ job \in [model : Models, split : Splits]
      /\ planned = [s \in Stages |-> None] /\ split = [s \in Stages |-> None]
      /\ placement = [s \in Stages |-> None] /\ at = "plan" /\ stage = 0
      /\ hidden = None /\ ctx = None /\ crossing = None /\ ran = <<>>
      /\ run = [next |-> 0, cur_dev |-> None, local_ctx |-> None]
  BY DEF Init, NotStarted
<1>2. job.model.blocks \in Nat
  BY <1>1, JobFields
<1>3. run \in [next : 0..job.model.blocks, cur_dev : Place, local_ctx : Place]
  <2>1. 0 \in 0..job.model.blocks /\ None \in Place
    BY <1>2 DEF Place
  <2> QED
    BY <1>1, <2>1
<1>4. TypeOK
  BY <1>1, <1>3 DEF TypeOK, Place, Stages
<1>5. JobInv
  BY <1>1 DEF JobInv, BeforeForward
<1>6. ForwardInv
  BY <1>1 DEF ForwardInv, BeforeForward
<1> QED
  BY <1>4, <1>5, <1>6 DEF CoreInv

\* Every step keeps the invariant.
LEMMA CoreStep == CoreInv /\ [Next]_vars => CoreInv'
<1> SUFFICES ASSUME CoreInv, [Next]_vars PROVE CoreInv'
  OBVIOUS
<1>1. JobInv'
  BY CoreJob, JobStep DEF JobTyped
<1>2. TypeOK' /\ ForwardInv'
  <2>1. CASE UNCHANGED vars
    <3>1. UNCHANGED <<inputVars, specVars, at, stage, hidden, ctx, run, crossing, ran>>
      BY <2>1 DEF vars
    <3>2. /\ UNCHANGED <<job, planned, split, placement>>
          /\ \A s \in Stages : Count(s)' = Count(s)
      BY <3>1, SameJob
    <3>3. TypeOK'
      BY <3>1, <3>2 DEF CoreInv, TypeOK
    <3>4. Count(stage)' = Count(stage) /\ Entry' = Entry
      BY <3>1, <3>2 DEF CoreInv, TypeOK, Entry
    <3>5. ForwardInv'
      BY <3>1, <3>2, <3>4 DEF CoreInv, ForwardInv
    <3> QED
      BY <3>3, <3>5
  <2> QED
    BY <2>1, EarlyCore, StartCore, RunBlockCore, HandOverCore DEF Next
<1> QED
  BY <1>1, <1>2 DEF CoreInv

\* The invariant the other theorems use: types, what the stages were built from,
\* and where hidden state and context are.
THEOREM CoreInvariant == Spec => []CoreInv
<1> QED
  BY CoreInit, CoreStep, PTL DEF Spec

\* Every variable keeps its type: every device in the segmented forward is one,
\* and no block is run that the model does not have.
THEOREM TypeCorrect == Spec => []TypeOK
<1>1. CoreInv => TypeOK
  BY DEF CoreInv
<1> QED
  BY <1>1, CoreInvariant, PTL

(***************************************************************************)
(* A sound job runs                                                        *)
(***************************************************************************)
\* For a boundary inside the model, a planned list has one device for each
\* block, and the stage has that list unless it is empty.
LEMMA SoundLists ==
  ASSUME JobTyped, at \notin {"plan", "submit"}, Sound, NEW s \in Stages
  PROVE  LET p == planned[s]
             q == placement[s]
         IN
         /\ Count(s) \in Nat
         /\ Listed(p) => Len(p.block_devices) = Count(s) /\ p.block_devices \in Seq(Devices)
         /\ Listed(q) => q.block_devices = p.block_devices
         /\ Spread(p) <=> Spread(q)
         /\ Spread(p) => Count(s) > 0
         /\ Listed(q) /\ Count(s) > 0 => Spread(q)
<1> DEFINE p == planned[s]
           q == placement[s]
<1>1. p \in Planned(s) /\ SamePlacement(p, q)
  BY DEF JobTyped, JobInv
<1>2. p \in Placement
  BY <1>1, PlannedPlacement DEF JobTyped, JobTypes
<1>3. PICK cut, end \in 0..job.model.blocks :
        /\ Count(0) = cut /\ Count(1) = IF cut < end THEN end - cut ELSE 0
        /\ Sound => cut = Boundary /\ end = job.model.blocks
  BY Cuts
<1>4. /\ job.model.blocks \in Nat /\ Boundary \in 0..job.model.blocks
      /\ job.model.num_layers = job.model.blocks
  BY JobFields DEF JobTyped, JobTypes, Sound
<1>5. RangeSize(s) = IF s = 0 THEN Boundary - 0 ELSE job.model.blocks - Boundary
  BY <1>4 DEF RangeSize, LayerRange, BoundaryLayer, Boundary
<1>6. Count(s) \in Nat /\ RangeSize(s) = Count(s)
  <2>1. CASE s = 0
    BY <1>3, <1>4, <1>5, <2>1
  <2>2. CASE s = 1
    <3>1. cut = Boundary /\ end = job.model.blocks /\ cut \in Nat /\ cut <= end
      BY <1>3, <1>4
    <3>2. Count(1) = end - cut /\ end - cut \in Nat
      BY <1>3, <1>4, <3>1
    <3> QED
      BY <1>5, <2>2, <3>1, <3>2
  <2> QED
    BY <2>1, <2>2 DEF Stages
<1>7. Listed(p) => Len(p.block_devices) = Count(s) /\ p.block_devices \in Seq(Devices)
  <2> SUFFICES ASSUME Listed(p) PROVE Len(p.block_devices) = Count(s) /\ p.block_devices \in Seq(Devices)
    OBVIOUS
  <2>1. Len(p.block_devices) = IF RangeSize(s) > 0 THEN RangeSize(s) ELSE 0
    BY <1>1, PlannedPlacement DEF JobTyped, JobTypes, Listed
  <2>2. p.block_devices \in Seq(Devices)
    BY <1>2 DEF Placement, Listed
  <2> QED
    BY <1>6, <2>1, <2>2
<1>8. Listed(q) => q.block_devices = p.block_devices /\ Listed(p)
  BY <1>1 DEF SamePlacement, Listed
<1>9. Spread(p) <=> Spread(q)
  BY <1>1, <1>8 DEF SamePlacement, Listed, Spread
<1>10. Spread(p) => Count(s) > 0
  <2> SUFFICES ASSUME Spread(p) PROVE Count(s) > 0
    OBVIOUS
  <2>1. p.block_devices \in Seq(Devices) /\ p.block_devices # <<>> /\ Len(p.block_devices) = Count(s)
    BY <1>7 DEF Spread
  <2>2. Len(p.block_devices) # 0
    BY <2>1
  <2> QED
    BY <1>6, <2>1, <2>2
<1>11. Listed(q) /\ Count(s) > 0 => Spread(q)
  <2> SUFFICES ASSUME Listed(q), Count(s) > 0 PROVE q.block_devices # <<>>
    BY DEF Spread
  <2>1. Len(q.block_devices) = Count(s)
    BY <1>7, <1>8
  <2>2. Len(<<>>) = 0
    OBVIOUS
  <2> QED
    BY <2>1, <2>2
<1> QED
  BY <1>6, <1>7, <1>8, <1>9, <1>10, <1>11

\* The first stage embeds, the second receives.
LEMMA EntryOfStage ==
  /\ stage = 0 => Entry = EmbedDevice(placement[0])
  /\ stage = 1 => Entry = FirstBlockDevice(placement[1])
BY DEF Entry

\* The index of the last of n elements.
LEMMA OneBack == \A n \in Nat : n - 1 + 1 = n
OBVIOUS

\* The embeddings are elsewhere only by an override.
LEMMA EmbedElsewhere ==
  ASSUME JobTyped, at \notin {"plan", "submit"}, EmbedDevice(placement[0]) # Device
  PROVE  planned[0].embed_device \notin {None, Device}
<1>1. SamePlacement(planned[0], placement[0]) /\ placement[0].device = Device
  BY StageDevices DEF JobTyped, JobInv, Stages
<1> QED
  BY <1>1 DEF SamePlacement, EmbedDevice, OrDevice

\* Every block of a sound job has a device.
LEMMA SoundBuild == JobTyped /\ Build /\ Sound => at' \notin {"IndexError", "device mismatch"}
<1> SUFFICES ASSUME JobTyped, Build, Sound
             PROVE  \A s \in Stages : Count(s) > 0 => HasBlockDevice(placement[s], Count(s) - 1)
  BY DEF Build, BuildError
<1> SUFFICES ASSUME NEW s \in Stages, Count(s) > 0
             PROVE  HasBlockDevice(placement[s], Count(s) - 1)
  OBVIOUS
<1>1. at = "build"
  BY DEF Build
<1>2. Count(s) \in Nat /\ (Listed(placement[s]) => Len(placement[s].block_devices) = Count(s))
  <2>1. Listed(placement[s]) => placement[s].block_devices = planned[s].block_devices
    BY <1>1, SoundLists
  <2>2. Listed(planned[s]) => Len(planned[s].block_devices) = Count(s)
    BY <1>1, SoundLists
  <2>3. Count(s) \in Nat
    BY <1>1, SoundLists
  <2> QED
    BY <2>1, <2>2, <2>3 DEF Listed
<1> QED
  BY <1>2 DEF HasBlockDevice

\* A block of a sound job meets its inputs.
LEMMA SoundBlock ==
  ASSUME CoreInv, RunBlock, Sound, at' = "device mismatch"
  PROVE  ~Spread(planned[0]) /\ planned[0].embed_device \notin {None, Device}
<1>1. JobTyped /\ at \notin {"plan", "submit"} /\ stage \in Stages
  BY CoreJob DEF RunBlock, CoreInv, TypeOK
<1>2. ~Listed(placement[stage]) /\ hidden = Entry /\ Entry # Device
  BY RunBlockFacts
<1>3. stage = 0
  <2> SUFFICES ASSUME stage = 1 PROVE FALSE
    BY <1>1 DEF Stages
  <2>1. placement[1].device = Device
    BY <1>1, StageDevices
  <2>2. ~Spread(placement[1])
    BY <1>2 DEF Spread
  <2>3. Entry = FirstBlockDevice(placement[1])
    BY EntryOfStage
  <2> QED
    BY <1>2, <2>1, <2>2, <2>3 DEF FirstBlockDevice
<1>4. ~Spread(placement[0])
  BY <1>2, <1>3 DEF Spread
<1>5. ~Spread(planned[0])
  BY <1>1, <1>4, SoundLists DEF Stages
<1> QED
  BY <1>1, <1>2, <1>3, <1>5, EmbedElsewhere DEF Entry

\* So does the compressor of a sound job.
LEMMA SoundSend ==
  ASSUME CoreInv, Send, Sound, at' = "device mismatch"
  PROVE  ~Spread(planned[0]) /\ planned[0].embed_device \notin {None, Device}
<1> DEFINE p == planned[0]
           q == placement[0]
<1>1. /\ at = "blocks" /\ stage = 0 /\ run.next = Count(0)
      /\ hidden # LastBlockDevice(q)
  BY DEF Send
<1>2. JobTyped /\ at \notin {"plan", "submit"} /\ 0 \in Stages
  BY <1>1, CoreJob DEF Stages
<1>3. IF Listed(q) /\ Count(0) > 0 THEN hidden = BlockDevice(q, Count(0) - 1)
      ELSE hidden = EmbedDevice(q)
  BY <1>1 DEF CoreInv, ForwardInv, Entry
<1>4. /\ Count(0) \in Nat /\ q.device = Device
      /\ Listed(p) => Len(p.block_devices) = Count(0)
      /\ Listed(q) => q.block_devices = p.block_devices
      /\ Spread(p) <=> Spread(q)
      /\ Spread(p) => Count(0) > 0
      /\ Listed(q) /\ Count(0) > 0 => Spread(q)
  BY <1>2, SoundLists, StageDevices
<1>5. ~Spread(q)
  <2> SUFFICES ASSUME Spread(q) PROVE FALSE
    OBVIOUS
  <2>1. Listed(q) /\ Count(0) > 0 /\ Len(q.block_devices) = Count(0)
    BY <1>4 DEF Spread, Listed
  <2>2. Count(0) - 1 + 1 = Count(0)
    <3>1. Count(0) \in Nat
      BY <1>4
    <3> QED
      BY <3>1, OneBack, Zenon
  <2>3. hidden = q.block_devices[Count(0)]
    BY <1>3, <2>1, <2>2 DEF BlockDevice
  <2> QED
    BY <1>1, <2>1, <2>3 DEF LastBlockDevice
<1>6. hidden = EmbedDevice(q) /\ LastBlockDevice(q) = Device
  BY <1>3, <1>4, <1>5 DEF LastBlockDevice
<1> QED
  BY <1>1, <1>2, <1>4, <1>5, <1>6, EmbedElsewhere

\* A job planned for a boundary inside a model that is as long as its config
\* says gets through: no block is without a device, and none meets the hidden
\* state or the context of another, nor does the compressor, unless the
\* embeddings were put elsewhere without a list of devices.
THEOREM PlannedJobsGetThrough == Spec => []PlannedJobsRun
<1>1. Init => PlannedJobsRun
  BY DEF Init, PlannedJobsRun
<1>2. CoreInv /\ PlannedJobsRun /\ [Next]_vars => PlannedJobsRun'
  <2> SUFFICES ASSUME CoreInv, PlannedJobsRun, [Next]_vars, Sound'
               PROVE  /\ at' # "IndexError"
                      /\ at' = "device mismatch" =>
                           ~Spread(planned'[0]) /\ planned'[0].embed_device \notin {None, Device}
    BY DEF PlannedJobsRun
  <2>1. CASE Plan \/ Submit
    BY <2>1 DEF Plan, Submit
  <2>2. CASE ~Plan /\ ~Submit
    <3>1. UNCHANGED <<inputVars, specVars>>
      BY <2>2 DEF Next, Build, EmbedTokens, BlockContext, RunBlock, Send, Receive,
                  FinishForward, vars
    <3>2. Sound /\ planned' = planned /\ JobTyped
      BY <3>1, SameJob, CoreJob
    <3>3. CASE Build
      BY <3>2, <3>3, SoundBuild
    <3>4. CASE RunBlock
      <4>1. at' # "IndexError"
        BY <3>4 DEF RunBlock
      <4> QED
        BY <3>2, <3>4, <4>1, SoundBlock
    <3>5. CASE Send
      <4>1. at' # "IndexError"
        BY <3>5 DEF Send
      <4> QED
        BY <3>2, <3>5, <4>1, SoundSend
    <3>6. CASE EmbedTokens \/ BlockContext \/ Receive \/ FinishForward
      BY <3>6 DEF EmbedTokens, BlockContext, Receive, FinishForward
    <3>7. CASE UNCHANGED vars
      <4>1. at' = at
        BY <3>7 DEF vars
      <4> QED
        BY <3>2, <4>1 DEF PlannedJobsRun
    <3> QED
      BY <2>2, <3>3, <3>4, <3>5, <3>6, <3>7 DEF Next
  <2> QED
    BY <2>1, <2>2
<1> QED
  BY <1>1, <1>2, CoreInvariant, PTL DEF Spec

(***************************************************************************)
(* What is submitted is what was planned                                   *)
(***************************************************************************)
\* A stage has every field of the split as the leader chose it, and for a sound
\* job every module where its placement said, whether it was handed the specs or
\* read them from a job record, written with or without the defaults.
THEOREM SubmittedIsPlanned == Spec => []SubmittedAsPlanned
<1>1. CoreInv /\ at \notin {"plan", "submit"} => \A s \in Stages : split[s] = job.split
  BY DEF CoreInv, JobInv
<1>2. ASSUME CoreInv, at \notin {"plan", "submit"}, Sound, NEW s \in Stages
      PROVE  LET p == planned[s]
                 q == placement[s]
             IN
             /\ \A k \in 0..(Count(s) - 1) :
                  HasBlockDevice(q, k) /\ BlockDevice(q, k) = BlockDevice(p, k)
             /\ EmbedDevice(q) = EmbedDevice(p) /\ HeadDevice(q) = HeadDevice(p)
             /\ FirstBlockDevice(q) = FirstBlockDevice(p)
             /\ LastBlockDevice(q) = LastBlockDevice(p)
  <2> DEFINE p == planned[s]
             q == placement[s]
  <2>1. JobTyped /\ SamePlacement(p, q)
    BY <1>2, CoreJob DEF CoreInv, JobInv
  <2>3. /\ Listed(p) => Len(p.block_devices) = Count(s)
        /\ Listed(q) => q.block_devices = p.block_devices
        /\ Spread(p) <=> Spread(q)
        /\ Count(s) \in Nat
    BY <1>2, <2>1, SoundLists
  <2>4. q.device = p.device /\ EmbedDevice(q) = EmbedDevice(p) /\ HeadDevice(q) = HeadDevice(p)
    BY <2>1 DEF SamePlacement, EmbedDevice, HeadDevice, OrDevice
  <2>5. Spread(q) => q.block_devices = p.block_devices
    BY <2>3 DEF Spread
  <2>6. FirstBlockDevice(q) = FirstBlockDevice(p) /\ LastBlockDevice(q) = LastBlockDevice(p)
    BY <2>3, <2>4, <2>5 DEF FirstBlockDevice, LastBlockDevice
  <2>7. ASSUME NEW k \in 0..(Count(s) - 1)
        PROVE  HasBlockDevice(q, k) /\ BlockDevice(q, k) = BlockDevice(p, k)
    <3>1. k < Count(s) /\ Count(s) # 0
      BY <2>3
    <3>2. CASE Listed(q)
      <4>1. Listed(p) /\ q.block_devices = p.block_devices
        BY <2>3, <3>2 DEF Listed
      <4> QED
        BY <2>3, <3>1, <3>2, <4>1 DEF HasBlockDevice, BlockDevice
    <3>3. CASE ~Listed(q)
      <4>1. ~Listed(p)
        <5> SUFFICES ASSUME Listed(p) PROVE FALSE
          OBVIOUS
        <5>1. p.block_devices = <<>>
          BY <2>1, <3>3 DEF SamePlacement, Listed
        <5>2. Len(p.block_devices) = 0
          BY <5>1
        <5> QED
          BY <2>3, <3>1, <5>2
      <4> QED
        BY <2>4, <3>3, <4>1 DEF HasBlockDevice, BlockDevice
    <3> QED
      BY <3>2, <3>3
  <2> QED
    BY <2>4, <2>6, <2>7
<1>3. CoreInv => SubmittedAsPlanned
  BY <1>1, <1>2 DEF SubmittedAsPlanned
<1> QED
  BY <1>3, CoreInvariant, PTL

(***************************************************************************)
(* Every block, in order                                                   *)
(***************************************************************************)
\* One more block.
LEMMA FirstBlocksAppend ==
  ASSUME NEW n \in Nat
  PROVE  Append(FirstBlocks(n), n) = FirstBlocks(n + 1) /\ FirstBlocks(0) = <<>>
<1>1. FirstBlocks(n) \in Seq(Int) /\ Len(FirstBlocks(n)) = n
  BY DEF FirstBlocks
<1>2. \A k \in 1..n : FirstBlocks(n)[k] = k - 1
  BY DEF FirstBlocks
<1> DEFINE t == Append(FirstBlocks(n), n)
<1>3. t \in Seq(Int) /\ Len(t) = n + 1 /\ \A k \in 1..(n + 1) : t[k] = k - 1
  <2> DEFINE s == FirstBlocks(n)
  <2>1. s \in Seq(Int) /\ Len(s) = n /\ n \in Int
    BY <1>1
  <2>2. \A k \in 1..n : s[k] = k - 1
    BY <1>2
  <2> HIDE DEF s
  <2>3. Append(s, n) \in Seq(Int) /\ Len(Append(s, n)) = n + 1
    BY <2>1
  <2>4. \A k \in 1..n : Append(s, n)[k] = s[k]
    BY <2>1
  <2>5. Append(s, n)[n + 1] = n
    BY <2>1
  <2>6. \A k \in 1..(n + 1) : Append(s, n)[k] = k - 1
    BY <2>2, <2>4, <2>5
  <2> QED
    BY <2>3, <2>6 DEF s
<1>4. t = FirstBlocks(n + 1)
  <2>1. FirstBlocks(n + 1) \in Seq(Int) /\ Len(FirstBlocks(n + 1)) = n + 1
    BY DEF FirstBlocks
  <2>2. \A k \in 1..(n + 1) : FirstBlocks(n + 1)[k] = k - 1
    BY DEF FirstBlocks
  <2> HIDE DEF t
  <2> QED
    BY <1>3, <2>1, <2>2, SeqEqual
<1>5. FirstBlocks(0) = <<>>
  BY DEF FirstBlocks
<1> QED
  BY <1>4, <1>5

\* A block that runs is the one after those that ran.
LEMMA RanBlock ==
  ASSUME CoreInv, RanInv, RunBlock
  PROVE  RanInv'
<1>1. /\ at = "blocks" /\ at' \in {"blocks", "device mismatch"}
      /\ JobTyped /\ at \notin {"plan", "submit"} /\ stage \in Stages
      /\ UNCHANGED <<inputVars, specVars, stage>>
  BY CoreJob DEF RunBlock, CoreInv, TypeOK
<1>2. /\ run.next \in 0..(Count(stage) - 1) /\ run'.next = run.next + 1
      /\ ran' = Append(ran, NextBlock(stage, run.next))
      /\ ran = FirstBlocks(IF stage = 0 THEN run.next ELSE Count(0) + run.next)
  BY <1>1, RunBlockFacts DEF RanInv
<1>3. NextBlock(stage, run.next) = IF stage = 0 THEN run.next ELSE Count(0) + run.next
  BY <1>1, <1>2, StageBlocks
<1>4. Count(0) \in Nat /\ Count(stage) \in Nat /\ run.next \in Nat
  <2>1. job.model.blocks \in Nat
    BY <1>1, JobFields DEF JobTyped, JobTypes
  <2>2. Count(0) \in 0..job.model.blocks /\ Count(stage) \in 0..job.model.blocks
    BY <1>1, StageBlocks DEF Stages
  <2> QED
    BY <1>2, <2>1, <2>2
<1> DEFINE n == IF stage = 0 THEN run.next ELSE Count(0) + run.next
<1>5. n \in Nat /\ n + 1 = IF stage = 0 THEN run.next + 1 ELSE Count(0) + (run.next + 1)
  BY <1>4
<1>6. ran' = FirstBlocks(n + 1)
  <2> HIDE DEF n
  <2>1. ran' = Append(FirstBlocks(n), n)
    BY <1>2, <1>3 DEF n
  <2> QED
    BY <1>5, <2>1, FirstBlocksAppend
<1>7. ran' = FirstBlocks(IF stage' = 0 THEN run'.next ELSE Count(0) + run'.next)
  BY <1>1, <1>2, <1>5, <1>6
<1>8. Count(0)' = Count(0)
  BY <1>1, SameJob DEF Stages
<1> QED
  BY <1>1, <1>7, <1>8 DEF RanInv, BeforeForward

\* Every step keeps the order.
LEMMA RanStep == CoreInv /\ RanInv /\ [Next]_vars => RanInv'
<1> SUFFICES ASSUME CoreInv, RanInv, [Next]_vars PROVE RanInv'
  OBVIOUS
<1>1. CASE Plan \/ Submit
  BY <1>1 DEF Plan, Submit, RanInv, BeforeForward
<1>2. CASE RunBlock
  BY <1>2, RanBlock
<1>3. CASE ~Plan /\ ~Submit /\ ~RunBlock
  <2>1. UNCHANGED <<inputVars, specVars>> /\ ran' = ran
    BY <1>3 DEF Next, Build, EmbedTokens, BlockContext, Send, Receive, FinishForward, vars
  <2>2. Count(0)' = Count(0) /\ Count(1)' = Count(1)
    BY <2>1, SameJob DEF Stages
  <2>3. CASE Build
    BY <2>1, <2>3, BuildEnds DEF RanInv, BeforeForward
  <2>4. CASE EmbedTokens
    <3>1. at = "embed" /\ at' = "context" /\ stage = 0 /\ stage' = stage
      BY <2>4 DEF EmbedTokens, CoreInv, ForwardInv
    <3>2. FirstBlocks(0) = <<>>
      BY FirstBlocksAppend
    <3> QED
      BY <2>1, <3>1, <3>2 DEF RanInv, BeforeForward
  <2>5. CASE BlockContext
    <3>1. /\ at = "context" /\ at' = "blocks" /\ stage' = stage /\ run'.next = 0
          /\ JobTyped /\ at \notin {"plan", "submit"}
      BY <2>5, CoreJob DEF BlockContext
    <3>2. job.model.blocks \in Nat /\ Count(0) \in 0..job.model.blocks
      BY <3>1, StageBlocks DEF Stages
    <3>3. Count(0) + 0 = Count(0)
      BY <3>2
    <3> QED
      BY <2>1, <2>2, <3>1, <3>3 DEF RanInv, BeforeForward
  <2>6. CASE Send
    BY <2>1, <2>2, <2>6 DEF Send, RanInv, BeforeForward
  <2>7. CASE Receive
    BY <2>1, <2>2, <2>7 DEF Receive, RanInv, BeforeForward
  <2>8. CASE FinishForward
    BY <2>1, <2>2, <2>8 DEF FinishForward, RanInv, BeforeForward
  <2>9. CASE UNCHANGED vars
    BY <2>1, <2>2, <2>9 DEF vars, RanInv
  <2> QED
    BY <1>3, <2>3, <2>4, <2>5, <2>6, <2>7, <2>8, <2>9 DEF Next
<1> QED
  BY <1>1, <1>2, <1>3

\* A forward pass that finishes went through every block once and in order, for
\* any boundary, inside the model or not, when the config promises as many
\* blocks as the model has.
THEOREM BlocksRunOnce == Spec => []EveryBlockRunsOnce
<1>1. Init => RanInv
  BY DEF Init, RanInv, BeforeForward
<1>2. CoreInv /\ RanInv => EveryBlockRunsOnce
  <2> SUFFICES ASSUME CoreInv, RanInv, at = "done", job.model.num_layers >= job.model.blocks
               PROVE  ran = FirstBlocks(job.model.blocks)
    BY DEF EveryBlockRunsOnce, FirstBlocks
  <2>1. JobTyped /\ job.model.blocks \in Nat
    BY CoreJob, JobFields DEF JobTyped, JobTypes
  <2>2. PICK cut, end \in 0..job.model.blocks :
          /\ Count(0) = cut /\ Count(1) = IF cut < end THEN end - cut ELSE 0
          /\ end = job.model.blocks
    BY <2>1, Cuts
  <2>3. Count(0) + Count(1) = job.model.blocks
    BY <2>1, <2>2
  <2> QED
    BY <2>3 DEF RanInv
<1> QED
  BY <1>1, <1>2, RanStep, CoreInvariant, PTL DEF Spec

(***************************************************************************)
(* What crosses the boundary                                               *)
(***************************************************************************)
\* Every step keeps what crosses an encoding of what was sent.
LEMMA CrossingStep == CoreInv /\ CrossingInv /\ [Next]_vars => CrossingInv'
<1> SUFFICES ASSUME CoreInv, CrossingInv, [Next]_vars, at' = "receive" PROVE CrossingInv'
  BY DEF CrossingInv
<1>1. Send \/ UNCHANGED vars
  BY BuildEnds DEF Next, Plan, Submit, EmbedTokens, BlockContext, RunBlock, Receive, FinishForward
<1>2. CASE Send
  <2>1. PICK rows \in Rows : \E tensor \in [1..(rows * Width) -> Elements] :
          crossing' = [rows |-> rows, tensor |-> tensor, payload |-> Crossed(tensor)]
    BY <1>2 DEF Send
  <2>2. PICK tensor \in [1..(rows * Width) -> Elements] :
          crossing' = [rows |-> rows, tensor |-> tensor, payload |-> Crossed(tensor)]
    BY <2>1
  <2>3. /\ crossing'.rows = rows /\ crossing'.tensor = tensor
        /\ crossing'.payload = Crossed(tensor)
    BY <2>2
  <2>4. UNCHANGED split
    BY <1>2 DEF Send, specVars
  <2> QED
    BY <2>3, <2>4 DEF CrossingInv, Crossed, Width, SendsCode, Compressor
<1>3. CASE UNCHANGED vars
  <2>1. at' = at /\ crossing' = crossing /\ split' = split
    BY <1>3 DEF vars, specVars
  <2> QED
    BY <2>1 DEF CrossingInv, Crossed, Width, SendsCode, Compressor
<1> QED
  BY <1>1, <1>2, <1>3

\* What crosses is always an encoding of what was sent.
LEMMA CrossingInvariant == Spec => []CrossingInv
<1>1. Init => CrossingInv
  BY DEF Init, CrossingInv
<1> QED
  BY <1>1, CrossingStep, CoreInvariant, PTL DEF Spec

\* From two to eight bits, each element of any activation that a fixed compressor
\* quantizes arrives as an int8 within half a step of the scale.
THEOREM ArrivesClose == Spec => []ArrivesWithinHalfAStep
<1>1. CoreInv /\ CrossingInv => ArrivesWithinHalfAStep
  <2> DEFINE x == crossing.tensor
             c == Compressor(0)
             n == crossing.rows * Width
  <2> SUFFICES ASSUME CoreInv, CrossingInv, at = "receive", UsesCompression(split[0]),
                      c.kind = "fixed", c.bits \in 2..8, NEW i \in DOMAIN x
               PROVE  LET codes == crossing.payload.elements
                      IN /\ codes[i] # Lossy
                         /\ 2 * Abs(codes[i] * MaxAbs(x) - x[i] * Top(c.bits)) <= MaxAbs(x)
    BY DEF ArrivesWithinHalfAStep
  <2>1. /\ crossing.rows \in Rows /\ x \in [1..n -> Elements]
        /\ crossing.payload = Encode(c, x)
    BY DEF CrossingInv, Crossed, SendsCode
  <2>2. n \in Nat
    <3>1. crossing.rows \in Nat /\ Width \in Nat
      BY <2>1, CoreJob, WidthIsNat, TensorsAssumption DEF BeforeForward
    <3> QED
      BY <3>1
  <2>3. x \in [1..n -> Int] /\ i \in 1..n
    BY <2>1, TensorsAssumption
  <2>4. crossing.payload.elements = [j \in DOMAIN x |-> Int8(Codes(x, c.bits)[j])]
    BY <2>1 DEF Encode, Quantizes
  <2> HIDE DEF x, c, n
  <2>5. /\ Codes(x, c.bits)[i] \in -127..127
        /\ 2 * Abs(Codes(x, c.bits)[i] * MaxAbs(x) - x[i] * Top(c.bits)) <= MaxAbs(x)
    BY <2>2, <2>3, CodesAreClose
  <2>6. crossing.payload.elements[i] = Codes(x, c.bits)[i]
    <3>1. Int8(Codes(x, c.bits)[i]) = Codes(x, c.bits)[i]
      BY <2>5 DEF Int8
    <3> QED
      BY <2>4, <3>1
  <2>7. Codes(x, c.bits)[i] # Lossy
    BY <2>5 DEF Lossy
  <2> QED
    BY <2>5, <2>6, <2>7
<1> QED
  BY <1>1, CrossingInvariant, CoreInvariant, PTL
=============================================================================
