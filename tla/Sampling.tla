------------------------------ MODULE Sampling ------------------------------
(* The samplers of mldsa_core/sampling.rs and the two streams they read from: *)
(* SHAKE (crypto.rs) and BLAKE3 with its cache for short reads                *)
(* (crypto_blake3.rs). A byte is its position in the stream together with a   *)
(* value drawn when it is read.                                               *)
EXTENDS Integers, Sequences, FiniteSets

CONSTANTS
    POLY_SIZE,          \* coefficients of a polynomial (256)
    BALL_WEIGHT,        \* tau
    SIGN_BYTES,         \* bytes of signs read first (8)
    MASK_BYTES,         \* bytes of one mask polynomial, a long read
    TINY_SQUEEZE_MAX,   \* longest read served from the cache (128)
    TINY_PREFETCH,      \* size of the cache (1024)
    IndexBytes,         \* values of a byte read as an index
    HalfBytes,          \* values of half a byte
    Triples,            \* values of three bytes
    MaxSqueezes         \* bound: reads of one sampler

ASSUME CacheAssumption ==
    /\ TINY_SQUEEZE_MAX \in Nat /\ TINY_PREFETCH \in Nat
    /\ SIGN_BYTES <= TINY_SQUEEZE_MAX /\ TINY_SQUEEZE_MAX <= TINY_PREFETCH
ASSUME PolynomialAssumption ==
    /\ POLY_SIZE \in Nat /\ BALL_WEIGHT \in 1 .. POLY_SIZE
    /\ SIGN_BYTES \in Nat \ {0} /\ MASK_BYTES \in Nat \ {0}
ASSUME BytesAssumption ==
    /\ IndexBytes \subseteq Nat /\ HalfBytes \subseteq Nat
    /\ \A b \in Triples : b[1] \in Nat /\ b[2] \in Nat /\ b[3] \in Nat

VARIABLES
    xof,        \* the stream: suite, bytes read, and the cache
    sampler,    \* what is sampled: kind, coefficients so far, signs, done
    given       \* the reads so far: first position and length of each

sampling_vars == << xof, sampler, given >>

-----------------------------------------------------------------------------
(* Absorbing ends with the first read (ensure_reader).                        *)
ensure_reader(suite) == [suite |-> suite, read |-> 0, tiny_hits |-> 0,
                         cached |-> 0, cache_off |-> 0, cache_len |-> 0]

Direct(x, n) == [xof |-> [x EXCEPT !.read = @ + n], first |-> x.read]

refill(x) == [x EXCEPT !.cached = x.read, !.read = @ + TINY_PREFETCH,
                       !.cache_off = 0, !.cache_len = TINY_PREFETCH]

FromCache(x, n) == [xof |-> [x EXCEPT !.cache_off = @ + n], first |-> x.cached + x.cache_off]

TinySqueeze(x, n) ==
    IF x.tiny_hits = 0 THEN Direct([x EXCEPT !.tiny_hits = 1], n)
    ELSE FromCache(IF x.cache_off + n > x.cache_len THEN refill(x) ELSE x, n)

(* A long read leaves what is in the cache behind it.                         *)
squeeze_mutant(x, n) ==
    IF x.suite = "SHAKE" \/ n > TINY_SQUEEZE_MAX THEN Direct(x, n) ELSE TinySqueeze(x, n)

squeeze(x, n) ==
    IF x.suite = "SHAKE" THEN Direct(x, n)
    ELSE IF n <= TINY_SQUEEZE_MAX THEN TinySqueeze(x, n)
    ELSE Direct([x EXCEPT !.tiny_hits = 0, !.cache_off = 0, !.cache_len = 0], n)

Squeeze(n) ==
    LET s == squeeze(xof, n) IN
    /\ ~ sampler.done /\ Len(given) < MaxSqueezes
    /\ xof' = s.xof
    /\ given' = Append(given, [first |-> s.first, n |-> n])

-----------------------------------------------------------------------------
(* Coefficients from bytes; Dropped ones are drawn again.                    *)
BaseFieldQ == 8380417
Dropped == {}

coeff_from_three_bytes(b) ==
    LET z == (b[3] % 128) * 65536 + b[2] * 256 + b[1] IN {y \in {z} : y < BaseFieldQ}

coeff_from_half_byte(b, eta) ==
    CASE eta = 2 /\ b < 15 -> {2 - (b % 5)}
      [] eta = 4 /\ b < 9  -> {4 - b}
      [] OTHER             -> Dropped

(* What is accepted goes to the end, as long as there is room.                *)
Taken(coeffs, more) ==
    IF more = Dropped \/ Len(coeffs) = POLY_SIZE THEN coeffs
    ELSE Append(coeffs, CHOOSE c \in more : TRUE)

Filled(coeffs) == [sampler EXCEPT !.coeffs = coeffs, !.done = Len(coeffs) = POLY_SIZE]

rej_ntt_poly(b) ==
    /\ sampler.kind = "ntt"
    /\ Squeeze(3)
    /\ sampler' = Filled(Taken(sampler.coeffs, coeff_from_three_bytes(b)))

rej_bounded_poly(low, high) ==
    /\ sampler.kind = "bounded"
    /\ Squeeze(1)
    /\ sampler' = Filled(Taken(Taken(sampler.coeffs, coeff_from_half_byte(low, sampler.eta)),
                               coeff_from_half_byte(high, sampler.eta)))

expand_mask ==
    /\ sampler.kind = "mask"
    /\ Squeeze(MASK_BYTES)
    /\ sampler' = [sampler EXCEPT !.done = TRUE]

-----------------------------------------------------------------------------
(* sample_in_ball: the signs, then one index byte at a time, again while it   *)
(* is too large. Its coefficients are numbered from 1.                        *)
Signs == [0 .. BALL_WEIGHT - 1 -> {1, -1}]

BallSigns(signs) ==
    /\ sampler.kind = "ball" /\ sampler.signs = << >>
    /\ Squeeze(SIGN_BYTES)
    /\ sampler' = [sampler EXCEPT !.signs = << signs >>, !.i = POLY_SIZE - BALL_WEIGHT,
                                  !.coeffs = [k \in 1 .. POLY_SIZE |-> 0]]

place(c, i, j, sign) == [c EXCEPT ![i + 1] = c[j + 1], ![j + 1] = sign]

BallIndex(j) ==
    /\ sampler.kind = "ball" /\ sampler.signs # << >>
    /\ Squeeze(1)
    /\ IF j > sampler.i THEN UNCHANGED sampler
       ELSE sampler' = [sampler EXCEPT
              !.coeffs = place(@, sampler.i, j, sampler.signs[1][sampler.i + BALL_WEIGHT - POLY_SIZE]),
              !.i = @ + 1, !.done = sampler.i + 1 = POLY_SIZE]

(* Key generation and the other users read a few values of fixed sizes.       *)
KeygenRead(n) == sampler.kind = "keygen" /\ Squeeze(n) /\ UNCHANGED sampler

-----------------------------------------------------------------------------
SamplingInit ==
    /\ xof \in {ensure_reader(suite) : suite \in {"SHAKE", "BLAKE3"}}
    /\ sampler \in [kind : {"ntt", "mask", "ball", "keygen", "bounded"}, eta : {2, 4},
                    coeffs : {<< >>}, signs : {<< >>}, i : {0}, done : {FALSE}]
    /\ given = << >>

SamplingNext ==
    \/ \E b \in Triples : rej_ntt_poly(b)
    \/ \E low, high \in HalfBytes : rej_bounded_poly(low, high)
    \/ expand_mask
    \/ \E signs \in Signs : BallSigns(signs)
    \/ \E j \in IndexBytes : BallIndex(j)
    \/ \E n \in 1 .. MASK_BYTES : KeygenRead(n)

SamplingSpec == SamplingInit /\ [][SamplingNext]_sampling_vars

-----------------------------------------------------------------------------
(* No byte of the stream is handed out twice or out of order; and none is     *)
(* skipped by SHAKE, or by a reader that after its first read always reads    *)
(* one short size that divides the cache. (Blake3State::squeeze, with the     *)
(* cache refilled, and abandoned at a long read)                              *)
EvenReads == \A k \in 2 .. Len(given) :
    given[k].n = given[2].n /\ given[k].n <= TINY_SQUEEZE_MAX /\ TINY_PREFETCH % given[k].n = 0

StreamInOrder ==
    \A k \in 2 .. Len(given) :
        LET end == given[k - 1].first + given[k - 1].n IN
        /\ given[k].first >= end
        /\ xof.suite = "SHAKE" \/ (EvenReads /\ given[1].n <= TINY_SQUEEZE_MAX) => given[k].first = end

(* What a sampler ends with is a polynomial of its kind: of full length, with *)
(* coefficients in range, and in the ball with exactly tau of them set to a   *)
(* sign, wherever the index bytes fall and however often they coincide.       *)
(* (sample_in_ball, rej_bounded_poly, rej_ntt_poly)                           *)
SetCoefficients == {k \in DOMAIN sampler.coeffs : sampler.coeffs[k] # 0}

SampledInRange ==
    sampler.done /\ sampler.kind # "mask" =>
        /\ Len(sampler.coeffs) = POLY_SIZE
        /\ \A k \in 1 .. POLY_SIZE :
              CASE sampler.kind = "ntt"     -> sampler.coeffs[k] \in 0 .. BaseFieldQ - 1
                [] sampler.kind = "bounded" -> sampler.coeffs[k] \in -sampler.eta .. sampler.eta
                [] sampler.kind = "ball"    -> sampler.coeffs[k] \in -1 .. 1
        /\ sampler.kind = "ball" => Cardinality(SetCoefficients) = BALL_WEIGHT

(* Whatever the cached stream yields, a sampler reads it in order and ends    *)
(* with a polynomial of its kind.                                             *)
SampledFromOneStream == StreamInOrder /\ SampledInRange
=============================================================================
