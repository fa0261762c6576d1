---------------------------- MODULE Compression ----------------------------
(***************************************************************************)
(* split/torch/compression: which compressor a profile names, what it puts *)
(* on the wire, and what it says that costs.  A tensor is the sequence of  *)
(* its elements, which are multiples of a unit far above 1e-8; the code of *)
(* a learned bottleneck is a tensor, whatever its projections compute.     *)
(***************************************************************************)
EXTENDS Integers, Sequences, FiniteSets

CONSTANTS
  HiddenSize,  \* the width of the activation
  Absent       \* a key the profile does not have

ASSUME HiddenSizeAssumption == HiddenSize \in Nat \ {0}
ASSUME AbsentAssumption == Absent \notin Nat

Maybe(S) == S \cup {Absent}

\* number is the N of "fixed_intN" and of "learned_dimN", suffix the M of
\* "learned_dimN_intM", absent for "_fp16" too.
Profile ==
  [method : {"none", "fixed_int", "learned_dim", "learned_bottleneck", "other"},
   number : Maybe(Nat), suffix : Maybe(Nat), quantized : BOOLEAN,
   quantization_bits : Maybe(Nat), learned_dim : Maybe(Nat), bottleneck_dim : Maybe(Nat)]

Invalid == [kind |-> "invalid", dim |-> 0, bits |-> Absent]
Fixed(bits) == [kind |-> "fixed", dim |-> HiddenSize, bits |-> bits]
Learned(dim, bits) == [kind |-> "learned", dim |-> dim, bits |-> bits]
Uncompressed == [kind |-> "none", dim |-> HiddenSize, bits |-> Absent]

OrElse(value, default) == IF value = Absent THEN default ELSE value
AskedBits(p) == IF p.quantized THEN p.quantization_bits ELSE Absent

\* A learned_dim of 0 counts as no dimension.
CompressorFromSpec(p) ==
  CASE p.method = "none" -> Uncompressed
    [] p.method = "fixed_int" -> Fixed(OrElse(p.quantization_bits, OrElse(p.number, 8)))
    [] p.method = "learned_dim" ->
         IF p.number = Absent THEN Invalid
         ELSE Learned(p.number, OrElse(AskedBits(p), p.suffix))
    [] p.method = "learned_bottleneck" ->
         LET dim == IF p.learned_dim \in {Absent, 0} THEN p.bottleneck_dim ELSE p.learned_dim
         IN IF dim = Absent THEN Invalid ELSE Learned(dim, AskedBits(p))
    [] OTHER -> Invalid

(***************************************************************************)
(* FixedQuantization: one scale per tensor, MaxAbs(x) / Top(bits)          *)
(***************************************************************************)
Abs(v) == IF v < 0 THEN -v ELSE v
MaxAbs(x) == CHOOSE m \in {0} \cup {Abs(x[i]) : i \in DOMAIN x} : \A i \in DOMAIN x : Abs(x[i]) <= m
Top(bits) == 2 ^ bits \div 2 - 1
Clip(v, lo, hi) == IF v < lo THEN lo ELSE IF v > hi THEN hi ELSE v

\* torch.round: n / d to the nearest whole number, halves to the even one.
RoundHalfEven(n, d) ==
  LET low == n \div d
      twice == 2 * (n - low * d)
  IN IF twice < d \/ (twice = d /\ low % 2 = 0) THEN low ELSE low + 1

\* Fault: the scale reaches one step too far, so that the largest is clipped.
Codes_ScaleTooSmall(x, bits) ==
  [i \in DOMAIN x |->
     IF MaxAbs(x) = 0 THEN 0
     ELSE Clip(RoundHalfEven(x[i] * (Top(bits) + 2), MaxAbs(x)), -Top(bits) - 1, Top(bits))]

\* What forward multiplies by the scale again, for two bits or more: with one
\* the scale is a division by zero, with none it is negative.
Codes(x, bits) ==
  [i \in DOMAIN x |->
     IF MaxAbs(x) = 0 THEN 0
     ELSE Clip(RoundHalfEven(x[i] * Top(bits), MaxAbs(x)), -Top(bits) - 1, Top(bits))]

\* What encode's cast makes of a code: past int8 the conversion is undefined,
\* and Lossy, which is no int8 value, stands for whatever comes out.
Lossy == 128
Int8(code) == IF code \in -128..127 THEN code ELSE Lossy

(***************************************************************************)
(* encode and wire_nbytes                                                  *)
(***************************************************************************)
Quantizes(c) == c.kind = "fixed" \/ (c.kind = "learned" /\ c.bits \notin {Absent, 0})

\* What a compressor that does not quantize encodes to.
AsFp16(x) == [elements |-> x, width |-> 2, scale |-> 0]

\* What a module returns that casts nothing.
AsFp32(x) == [elements |-> x, width |-> 4, scale |-> 0]

\* int8 codes and a scale in fp32, or the tensor (or code) itself.
Encode(c, x) ==
  IF Quantizes(c)
  THEN [elements |-> [i \in DOMAIN x |-> Int8(Codes(x, c.bits)[i])], width |-> 1, scale |-> 4]
  ELSE AsFp16(x)

PayloadBytes(payload) == Len(payload.elements) * payload.width + payload.scale

WireBytes(c, rows) ==
  IF c.kind = "none" THEN rows * HiddenSize * 2
  ELSE IF c.bits # Absent THEN rows * c.dim + 4 ELSE rows * c.dim * 2
=============================================================================
