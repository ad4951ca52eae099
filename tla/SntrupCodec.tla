---------------------------- MODULE SntrupCodec ----------------------------
(* The wire form of sntrup761 polynomials (encoding.rs): a mixed-radix       *)
(* number built by pairing neighbours, stage after stage, each stage writing *)
(* the low bytes of every pair and handing the rest on. The stages are data: *)
(* [m: radix, bytes: written per pair, last: written for the last pair when  *)
(* no element is left over, clamp, last_clamp: what the decoder reduces the  *)
(* upper half of a pair by]. The bytes of one pair are one number here.      *)
EXTENDS FqArith, Sequences, TLC

CONSTANTS
    P,              \* coefficients of a polynomial (761)
    BYTE,           \* values of a byte (256)
    RqStages,       \* the stages of rq_encode and rq_decode
    RqTop,          \* the bound the decoder clamps the final value to
    RoundedStages   \* the stages of rounded_encode and rounded_decode

NoClamp == U16

(* The same function; TLC computes its values once and keeps them. *)
computed(f) == f @@ << >>

(* The number of values before stage k + 1; an odd one out is carried over. *)
Count(k) == LET n[j \in 0 .. k] == IF j = 0 THEN P ELSE (n[j - 1] + 1) \div 2 IN n[k]

Pairs(k)     == Count(k - 1) \div 2
HasOdd(k)    == Count(k - 1) % 2 = 1
IsLast(k, i) == ~ HasOdd(k) /\ i = Pairs(k) - 1

Scale(stage, k, i) == BYTE ^ (IF IsLast(k, i) THEN stage.last ELSE stage.bytes)
Clamp(stage, k, i) == IF IsLast(k, i) THEN stage.last_clamp ELSE stage.clamp

-----------------------------------------------------------------------------
Paired(stage, r, i) == r[2 * i] + r[2 * i + 1] * stage.m

Low(stage, k, r) == [i \in 0 .. Pairs(k) - 1 |-> Paired(stage, r, i) % Scale(stage, k, i)]

High(stage, k, r) ==
    [i \in 0 .. Count(k) - 1 |->
        IF i < Pairs(k)
        THEN (Paired(stage, r, i) \div Scale(stage, k, i)) % U16
        ELSE r[Count(k - 1) - 1]]

encode(stages, values) ==
    LET after[k \in 0 .. Len(stages)] ==
            IF k = 0
            THEN [r |-> values, out |-> << >>]
            ELSE LET before == after[k - 1]
                 IN  [r   |-> computed(High(stages[k], k, before.r)),
                      out |-> Append(before.out, computed(Low(stages[k], k, before.r)))]
        done == after[Len(stages)]
    IN  [low |-> done.out, top |-> done.r[0] % (BYTE * BYTE)]

(* divmod_u14 of encoding.rs; that it divides exactly is proved of FqArith. *)
Split(stage, k, v, i) ==
    << v % stage.m, ((v \div stage.m) % Clamp(stage, k, i)) % U16 >>

Unpaired(stage, k, low, r) ==
    [j \in 0 .. Count(k - 1) - 1 |->
        LET i == j \div 2
        IN  IF i < Pairs(k)
            THEN Split(stage, k, r[i] * Scale(stage, k, i) + low[i], i)[1 + (j % 2)]
            ELSE r[Count(k) - 1]]

decode(stages, bytes, clamp) ==
    LET before[k \in 0 .. Len(stages)] ==
            IF k = Len(stages)
            THEN [i \in {0} |-> bytes.top % clamp]
            ELSE computed(Unpaired(stages[k + 1], k + 1, bytes.low[k + 1], before[k + 1]))
    IN  before[0]

-----------------------------------------------------------------------------
uncentred(c) == (c + (Q - 1) \div 2) % 16384
centred(v) == v - (Q - 1) \div 2

rq_encode(coeffs) == encode(RqStages, computed([i \in 0 .. P - 1 |-> uncentred(coeffs[i])]))

rq_decode(bytes) ==
    LET r == decode(RqStages, bytes, RqTop) IN computed([i \in 0 .. P - 1 |-> centred(r[i])])

round(a) == 3 * ((10923 * a + 16384) \div 32768)

third(a) == (uncentred(a) * 10923) \div 32768

rounded_encode(coeffs) == encode(RoundedStages, computed([i \in 0 .. P - 1 |-> third(round(coeffs[i]))]))

scale_up(v) == as_i16(centred(3 * v))

rounded_decode(bytes) ==
    LET r == decode(RoundedStages, bytes, NoClamp) IN computed([i \in 0 .. P - 1 |-> scale_up(r[i])])

(* Four coefficients to a byte, two bits each, and one byte for the last. *)
small_encode(coeffs) ==
    [i \in 0 .. P \div 4 |->
        IF i = P \div 4 THEN coeffs[P - 1] + 1
        ELSE (coeffs[4 * i] + 1) + 4 * (coeffs[4 * i + 1] + 1)
             + 16 * (coeffs[4 * i + 2] + 1) + 64 * (coeffs[4 * i + 3] + 1)]

small_decode(bytes) ==
    [i \in 0 .. P - 1 |-> ((bytes[i \div 4] \div (4 ^ (i % 4))) % 4) - 1]
=============================================================================
