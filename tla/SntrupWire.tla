---------------------------- MODULE SntrupWire ----------------------------
(* The wire form of sntrup761 at its real size: the stage tables of          *)
(* encoding.rs, and a polynomial on its way through one of the two codecs,   *)
(* where a public key may arrive with any byte changed.                      *)
EXTENDS Integers, Sequences

CONSTANTS
    WirePolys,      \* the polynomials that are encoded
    WireBytes       \* values a changed byte may take

VARIABLE wire       \* form, polynomial, bytes, whether changed, what was decoded

Nothing == [none |-> "wire"]

(* A stage of 16 bits a pair writes two bytes, its last pair maybe one. *)
(* The last pair is clamped like the others. *)
stage_mutant(m, bytes, last, last_clamp) ==
    [m |-> m, bytes |-> bytes, last |-> last, clamp |-> m, last_clamp |-> m]

stage(m, bytes, last, last_clamp) ==
    [m |-> m, bytes |-> bytes, last |-> last, clamp |-> m, last_clamp |-> last_clamp]

rq_stages ==
    << stage(4591, 2, 2, 4591), stage(322, 1, 1, 322), stage(406, 1, 1, 406),
       stage(644, 1, 1, 4591), stage(1621, 1, 2, 11550), stage(10265, 2, 1, 286),
       stage(1608, 1, 2, 11468), stage(10101, 2, 1, 282), stage(1557, 1, 1, 1557),
       stage(9470, 2, 2, 11127) >>

(* The rounded form is decoded without clamping any quotient. *)
unclamped(m, bytes) ==
    [m |-> m, bytes |-> bytes, last |-> bytes, clamp |-> 65536, last_clamp |-> 65536]

rounded_stages ==
    << unclamped(1531, 1), unclamped(9157, 2), unclamped(1280, 1), unclamped(6400, 2),
       unclamped(625, 1), unclamped(1526, 1), unclamped(9097, 2), unclamped(1263, 1),
       unclamped(6232, 2), unclamped(593, 1) >>

Codec == INSTANCE SntrupCodec WITH
            P <- 761, Q <- 4591, WORD <- 65536 * 65536, BYTE <- 256,
            RqStages <- rq_stages, RqTop <- 1608, RoundedStages <- rounded_stages

WireInit == wire = Nothing

EncodeRq ==
    /\ wire = Nothing
    /\ \E c \in WirePolys :
          wire' = [form |-> "rq", coeffs |-> c, bytes |-> Codec!rq_encode(c),
                   changed |-> FALSE, decoded |-> Nothing]

EncodeRounded ==
    /\ wire = Nothing
    /\ \E c \in WirePolys :
          wire' = [form |-> "rounded", coeffs |-> c, bytes |-> Codec!rounded_encode(c),
                   changed |-> FALSE, decoded |-> Nothing]

Change ==
    /\ wire # Nothing
    /\ wire.form = "rq"
    /\ wire.decoded = Nothing
    /\ ~ wire.changed
    /\ \/ \E k \in DOMAIN wire.bytes.low, b \in WireBytes :
             \E i \in {0, Codec!Pairs(k) - 1} :
                wire' = [wire EXCEPT !.bytes.low[k][i] = b, !.changed = TRUE]
       \/ \E b \in WireBytes : wire' = [wire EXCEPT !.bytes.top = 256 * b + b, !.changed = TRUE]

Decode ==
    /\ wire # Nothing
    /\ wire.decoded = Nothing
    /\ wire' = [wire EXCEPT !.decoded = IF wire.form = "rq"
                                        THEN Codec!rq_decode(wire.bytes)
                                        ELSE Codec!rounded_decode(wire.bytes)]

WireNext == EncodeRq \/ EncodeRounded \/ Change \/ Decode

-----------------------------------------------------------------------------
(* A public key is decoded to the polynomial that was encoded and a          *)
(* ciphertext to that polynomial rounded; whatever bytes come instead of a   *)
(* public key, every coefficient is a centred element of Rq, and encoding it *)
(* again and decoding leaves it alone (rq_decode "Clamp for invalid inputs").*)
CodecRoundTrips ==
    (wire # Nothing /\ wire.decoded # Nothing) =>
        /\ (wire.form = "rq" /\ ~ wire.changed) => wire.decoded = wire.coeffs
        /\ wire.form = "rounded" =>
              wire.decoded = [i \in DOMAIN wire.coeffs |-> Codec!round(wire.coeffs[i])]
        /\ wire.changed =>
              /\ \A i \in DOMAIN wire.decoded : wire.decoded[i] \in -2295 .. 2295
              /\ Codec!rq_decode(Codec!rq_encode(wire.decoded)) = wire.decoded
=============================================================================
