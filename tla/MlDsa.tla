------------------------------- MODULE MlDsa -------------------------------
(* ML-DSA of trelis-primitives (mldsa_core): key generation, the rejection   *)
(* loop of signing, the wire form of keys and signatures, which may arrive   *)
(* altered, and verification. A polynomial is a function on 0 .. N-1 of      *)
(* field elements, a vector a function of polynomials; a hash is the tuple   *)
(* of its inputs, and what is squeezed from one is drawn once and remembered.*)
EXTENDS Integers, FiniteSets, Sequences, TLC

CONSTANTS
    N,                      \* coefficients of a polynomial (256)
    FieldQ,                 \* the modulus BaseField::Q (8380417)
    ZETA,                   \* a primitive 2N-th root of unity (1753)
    K, L,                   \* the shape of A (6 and 5)
    Eta, Gamma1, TwoGamma2, Omega, TAU,
    PowD,                   \* 2^d, the dropped part of t (2^13)
    KappaMax,               \* where the rejection loop panics (u16::MAX)
    Matrices, Secrets, Masks, Balls,    \* what the hashes may yield
    Messages

VARIABLES
    pair,       \* the key pair, or NoPair
    drawn,      \* sample_in_ball: the challenges drawn so far, by c_tilde
    signing,    \* the signature under way: message and kappa, or NoneYet
    signature,  \* the message and signature that left, or NoneYet
    arrived     \* the message, bytes and verdict at the verifier, or NoneYet

dsa_vars == << pair, drawn, signing, signature, arrived >>

NoPair  == [none |-> "pair"]
NoneYet == [none |-> "yet"]
NoHint  == [none |-> "hint"]
Panicked == [none |-> "panicked"]

Gamma2            == TwoGamma2 \div 2
BETA              == TAU * Eta
GAMMA1_MINUS_BETA == Gamma1 - BETA
GAMMA2_MINUS_BETA == Gamma2 - BETA

Coeffs == 0 .. N - 1
Rows   == 0 .. K - 1
Cols   == 0 .. L - 1

(* The same function; TLC computes its values once and keeps them. *)
LOCAL known(f) == f @@ << >>
LOCAL Bits(x) == CHOOSE b \in 1 .. 30 : 2 ^ (b - 1) <= x /\ x < 2 ^ b

-----------------------------------------------------------------------------
(* Field elements (module_lattice/algebra.rs).                               *)
small_reduce(x) == IF x < FieldQ THEN x ELSE x - FieldQ

(* barrett_reduce and BarrettReduce: shift by twice the width of m. *)
barrett(x, m) ==
    LET shift     == 2 ^ (2 * Bits(m))
        quotient  == (x * (shift \div m)) \div shift
        remainder == x - quotient * m
    IN  IF remainder < m THEN remainder ELSE remainder - m

neg(a)    == small_reduce(FieldQ - a)
add(a, b) == small_reduce(a + b)
sub(a, b) == small_reduce(a + FieldQ - b)
mul(a, b) == barrett(a * b, FieldQ)

poly_neg(p)    == known([i \in Coeffs |-> neg(p[i])])
poly_add(p, q) == known([i \in Coeffs |-> add(p[i], q[i])])
poly_sub(p, q) == known([i \in Coeffs |-> sub(p[i], q[i])])

vec_neg(v)    == known([r \in DOMAIN v |-> poly_neg(v[r])])
vec_add(v, w) == known([r \in DOMAIN v |-> poly_add(v[r], w[r])])
vec_sub(v, w) == known([r \in DOMAIN v |-> poly_sub(v[r], w[r])])
Scaled(a, v)  == known([r \in DOMAIN v |-> known([i \in Coeffs |-> mul(a, v[r][i])])])

-----------------------------------------------------------------------------
(* The transform (ntt.rs). Layer s joins blocks of N / 2^s coefficients, and *)
(* block number b of a layer uses the root ZETA_POW_BITREV[2^s + b].         *)
Layers == CHOOSE s \in 0 .. N : 2 ^ s = N

bitrev(x) == LET f[s \in 0 .. Layers] ==
                     IF s = 0 THEN 0
                     ELSE f[s - 1] + ((x \div 2 ^ (s - 1)) % 2) * 2 ^ (Layers - s)
             IN  f[Layers]

LOCAL PowerOfZeta == LET f[e \in Coeffs] == IF e = 0 THEN 1 ELSE (f[e - 1] * ZETA) % FieldQ IN f

ZETA_POW_BITREV == [i \in 1 .. N - 1 |-> PowerOfZeta[bitrev(i)]]

ntt_layer(w, s) ==
    LET len == N \div 2 ^ (s + 1)
    IN  known([j \in Coeffs |->
            LET z == ZETA_POW_BITREV[2 ^ s + (j \div (2 * len))]
            IN  IF j % (2 * len) < len
                THEN add(w[j], mul(z, w[j + len]))
                ELSE sub(w[j - len], mul(z, w[j]))])

ntt(p) == LET after[s \in 0 .. Layers] == IF s = 0 THEN p ELSE ntt_layer(after[s - 1], s - 1)
          IN  after[Layers]

(* The inverse walks the table downwards, with every root negated. *)
inverse_layer(w, s) ==
    LET len == N \div 2 ^ (s + 1)
        blocks == 2 ^ s
    IN  known([j \in Coeffs |->
            LET z == neg(ZETA_POW_BITREV[2 * blocks - 1 - (j \div (2 * len))])
            IN  IF j % (2 * len) < len
                THEN add(w[j], w[j + len])
                ELSE mul(z, sub(w[j - len], w[j]))])

INVERSE_N == CHOOSE x \in 1 .. FieldQ - 1 : (x * N) % FieldQ = 1

inverse_ntt(p) ==
    LET after[s \in 0 .. Layers] ==
            IF s = Layers THEN p ELSE inverse_layer(after[s + 1], s)
    IN  known([i \in Coeffs |-> mul(INVERSE_N, after[0][i])])

vec_ntt(v)         == known([r \in DOMAIN v |-> ntt(v[r])])
vec_inverse_ntt(v) == known([r \in DOMAIN v |-> inverse_ntt(v[r])])

multiply_ntt(p, q)    == known([i \in Coeffs |-> mul(p[i], q[i])])
ntt_poly_times(p, v)  == known([r \in DOMAIN v |-> multiply_ntt(p, v[r])])
ntt_matrix_times(A, v) ==
    known([r \in Rows |->
        LET sum[c \in Cols] ==
                IF c = 0 THEN multiply_ntt(A[r][0], v[0])
                ELSE poly_add(sum[c - 1], multiply_ntt(A[r][c], v[c]))
        IN  sum[L - 1]])

-----------------------------------------------------------------------------
(* Rounding (algebra.rs): the parts of an element, each an element again.    *)
mod_plus_minus(a, m) ==
    LET raw == barrett(a, m)
    IN  IF raw <= m \div 2 THEN raw ELSE sub(raw, m)

decompose(r) ==
    LET r0 == mod_plus_minus(r, TwoGamma2)
    IN  IF sub(r, r0) = FieldQ - 1
        THEN << 0, sub(r0, 1) >>
        ELSE << sub(r, r0) \div TwoGamma2, r0 >>

power2round(r) == LET r0 == mod_plus_minus(r, PowD) IN << sub(r, r0) \div PowD, r0 >>

infinity_norm(a) == IF a <= FieldQ \div 2 THEN a ELSE FieldQ - a

(* Every coefficient of the vector is below the bound in absolute value. *)
NormBelow(v, bound) == \A r \in DOMAIN v : \A i \in Coeffs : infinity_norm(v[r][i]) < bound

Each(v, Op(_)) == known([r \in DOMAIN v |-> known([i \in Coeffs |-> Op(v[r][i])])])

high(a) == decompose(a)[1]
low(a)  == decompose(a)[2]
high_bits(v) == Each(v, high)
low_bits(v)  == Each(v, low)
t1_of(a) == power2round(a)[1]
t0_of(a) == power2round(a)[2]

-----------------------------------------------------------------------------
(* Hints (hint.rs).                                                          *)
make_hint(z, r) == high(r) # high(add(r, z))

Hint_new(z, r) == known([i \in Rows |-> known([j \in Coeffs |-> make_hint(z[i][j], r[i][j])])])

hamming_weight(h) == Cardinality({ij \in Rows \X Coeffs : h[ij[1]][ij[2]]})

Unreachable == FieldQ

use_hint_elem(h, r) ==
    LET m  == (FieldQ - 1) \div TwoGamma2
        r1 == decompose(r)[1]
        r0 == decompose(r)[2]
    IN  CASE ~ h                               -> r1
          [] h /\ r0 <= Gamma2                 -> (r1 + 1) % m
          [] h /\ r0 >= FieldQ - Gamma2        -> (r1 + m - 1) % m
          [] OTHER                             -> Unreachable

use_hint(h, r) == known([i \in Rows |-> known([j \in Coeffs |-> use_hint_elem(h[i][j], r[i][j])])])

(* The indices of the hints, row after row, zeros to fill Omega places, and  *)
(* for each row the count up to its end.                                     *)
SetUpTo(h, i, j) == Cardinality({ij \in Rows \X Coeffs :
                        /\ h[ij[1]][ij[2]]
                        /\ ij[1] < i \/ (ij[1] = i /\ ij[2] <= j)})

bit_pack(h) ==
    LET places == {ij \in Rows \X Coeffs : h[ij[1]][ij[2]]}
    IN  [indices |-> [k \in 0 .. Omega - 1 |->
                        IF \E ij \in places : SetUpTo(h, ij[1], ij[2]) = k + 1
                        THEN (CHOOSE ij \in places : SetUpTo(h, ij[1], ij[2]) = k + 1)[2]
                        ELSE 0],
         cuts    |-> [i \in Rows |-> SetUpTo(h, i, N - 1)]]

monotonic(a, first, end) == \A k \in first + 1 .. end - 1 : a[k - 1] <= a[k]

bit_unpack(y) ==
    LET start(i) == IF i = 0 THEN 0 ELSE y.cuts[i - 1]
        max_cut  == CHOOSE c \in {y.cuts[i] : i \in Rows} : \A i \in Rows : y.cuts[i] <= c
    IN  IF \/ ~ monotonic(y.cuts, 0, K)
           \/ max_cut > Omega
           \/ \E k \in max_cut .. Omega - 1 : y.indices[k] > 0
           \/ \E i \in Rows : ~ monotonic(y.indices, start(i), y.cuts[i])
        THEN NoHint
        ELSE known([i \in Rows |-> known([j \in Coeffs |->
                \E k \in start(i) .. y.cuts[i] - 1 : y.indices[k] = j])])

-----------------------------------------------------------------------------
(* BitPack: b - w in as many bits as a + b has (encode.rs); and the same     *)
(* without a range for t1 and w1 (module_lattice/encode.rs).                 *)
pack(v, a, b)   == Each(v, LAMBDA w : sub(b, w) % 2 ^ Bits(a + b))
unpack(v, a, b) == Each(v, LAMBDA w : sub(b, w))
encode_t1(t1)   == Each(t1, LAMBDA w : w % 2 ^ (Bits(FieldQ) - Bits(PowD) + 1))
encode_w1(w1)   == Each(w1, LAMBDA w : w % 2 ^ Bits((FieldQ - 1) \div TwoGamma2 - 1))

encode_z(z)  == pack(z, Gamma1 - 1, Gamma1)
decode_z(e)  == unpack(e, Gamma1 - 1, Gamma1)
encode_s(s)  == pack(s, Eta, Eta)
decode_s(e)  == unpack(e, Eta, Eta)
encode_t0(t) == pack(t, PowD \div 2 - 1, PowD \div 2)
decode_t0(e) == unpack(e, PowD \div 2 - 1, PowD \div 2)

Signature_encode(s) == [c_tilde |-> s.c_tilde, z |-> encode_z(s.z), h |-> bit_pack(s.h)]

Signature_decode(enc) ==
    LET z == decode_z(enc.z)
        h == bit_unpack(enc.h)
    IN  IF h = NoHint \/ ~ NormBelow(z, GAMMA1_MINUS_BETA)
        THEN NoneYet
        ELSE [c_tilde |-> enc.c_tilde, z |-> z, h |-> h]

(* The keys are kept in their wire form: decoding recomputes the rest. *)
new_verifying_key(A_hat, t1) ==
    [A_hat |-> A_hat, t1 |-> t1, t1_2d_hat |-> vec_ntt(Scaled(PowD, t1))]

key_gen(A_hat, s1, s2) ==
    LET t  == vec_add(vec_inverse_ntt(ntt_matrix_times(A_hat, vec_ntt(s1))), s2)
    IN  [vk |-> [A_hat |-> A_hat, t1 |-> encode_t1(Each(t, t1_of))],
         sk |-> [A_hat |-> A_hat, s1 |-> encode_s(s1), s2 |-> encode_s(s2),
                 t0 |-> encode_t0(Each(t, t0_of))]]

-----------------------------------------------------------------------------
(* sign_mu: one turn of the rejection loop, with the mask y and challenge c. *)
w1_tilde(A_hat, y) == encode_w1(high_bits(vec_inverse_ntt(ntt_matrix_times(A_hat, vec_ntt(y)))))

(* The rejection by the low bits is left out. *)
Attempt_mutant(sk, mu, y, c) ==
    LET w   == vec_inverse_ntt(ntt_matrix_times(sk.A_hat, vec_ntt(y)))
        times_c(v) == vec_inverse_ntt(ntt_poly_times(ntt(c), vec_ntt(v)))
        z   == vec_add(y, times_c(decode_s(sk.s1)))
        w_cs2 == vec_sub(w, times_c(decode_s(sk.s2)))
        ct0 == times_c(decode_t0(sk.t0))
        h   == Hint_new(vec_neg(ct0), vec_add(w_cs2, ct0))
    IN  IF \/ ~ NormBelow(z, GAMMA1_MINUS_BETA)
           \/ ~ NormBelow(ct0, Gamma2)
           \/ hamming_weight(h) > Omega
        THEN NoneYet
        ELSE [c_tilde |-> << mu, w1_tilde(sk.A_hat, y) >>, z |-> z, h |-> h]

Attempt(sk, mu, y, c) ==
    LET w   == vec_inverse_ntt(ntt_matrix_times(sk.A_hat, vec_ntt(y)))
        times_c(v) == vec_inverse_ntt(ntt_poly_times(ntt(c), vec_ntt(v)))
        z   == vec_add(y, times_c(decode_s(sk.s1)))
        w_cs2 == vec_sub(w, times_c(decode_s(sk.s2)))
        ct0 == times_c(decode_t0(sk.t0))
        h   == Hint_new(vec_neg(ct0), vec_add(w_cs2, ct0))
    IN  IF \/ ~ NormBelow(z, GAMMA1_MINUS_BETA)
           \/ ~ NormBelow(low_bits(w_cs2), GAMMA2_MINUS_BETA)
           \/ ~ NormBelow(ct0, Gamma2)
           \/ hamming_weight(h) > Omega
        THEN NoneYet
        ELSE [c_tilde |-> << mu, w1_tilde(sk.A_hat, y) >>,
              z |-> Each(z, LAMBDA a : mod_plus_minus(a, FieldQ)), h |-> h]

verify_mu(vk, mu, sigma, c) ==
    LET key == new_verifying_key(vk.A_hat, vk.t1)
        wp_approx == vec_inverse_ntt(vec_sub(ntt_matrix_times(key.A_hat, vec_ntt(sigma.z)),
                                             ntt_poly_times(ntt(c), key.t1_2d_hat)))
        w1p == use_hint(sigma.h, wp_approx)
    IN  IF \E i \in Rows : \E j \in Coeffs : w1p[i][j] = Unreachable
        THEN "panic"
        ELSE IF sigma.c_tilde = << mu, encode_w1(w1p) >> THEN "valid" ELSE "invalid"

(* sample_in_ball yields one challenge for one c_tilde. *)
Challenges(c_tilde) == IF c_tilde \in DOMAIN drawn THEN {drawn[c_tilde]} ELSE Balls

DsaInit == pair = NoPair /\ drawn = << >> /\ signing = NoneYet /\ signature = NoneYet /\ arrived = NoneYet

KeyGen ==
    /\ pair = NoPair
    /\ \E A_hat \in Matrices, s1 \in [Cols -> Secrets], s2 \in [Rows -> Secrets] :
          pair' = key_gen(A_hat, s1, s2)
    /\ UNCHANGED << drawn, signing, signature, arrived >>

Sign ==
    /\ pair # NoPair
    /\ signing = NoneYet
    /\ signature = NoneYet      \* bound: one signature of a key
    /\ \E mu \in Messages : signing' = [mu |-> mu, kappa |-> 0]
    /\ UNCHANGED << pair, drawn, signature, arrived >>

Rejected ==
    signing' = IF signing.kappa + L < KappaMax
               THEN [signing EXCEPT !.kappa = @ + L]
               ELSE Panicked        \* the unreachable! of sign_mu

SignAttempt ==
    /\ signing \notin {NoneYet, Panicked}
    /\ \E y \in [Cols -> Masks] :
          LET c_tilde == << signing.mu, w1_tilde(pair.sk.A_hat, y) >>
          IN  \E c \in Challenges(c_tilde) :
                 LET sigma == Attempt(pair.sk, signing.mu, y, c)
                 IN  /\ drawn' = (c_tilde :> c) @@ drawn
                     /\ IF sigma = NoneYet
                        THEN /\ Rejected
                             /\ UNCHANGED signature
                        ELSE /\ signing' = NoneYet
                             /\ signature' = [mu |-> signing.mu, bytes |-> Signature_encode(sigma)]
    /\ UNCHANGED << pair, arrived >>

(* The bytes as sent, or with a byte of the hint or a value of z changed. *)
OnTheWire(bytes) ==
    {bytes}
    \union {[bytes EXCEPT !.h.indices[k] = v] : k \in 0 .. Omega - 1, v \in Coeffs}
    \union {[bytes EXCEPT !.h.cuts[i] = v] : i \in Rows, v \in Coeffs}
    \union {[bytes EXCEPT !.z[0][0] = v] : v \in {0, 2 * Gamma1 - 1}}

Verify ==
    /\ signature # NoneYet
    /\ arrived = NoneYet        \* bound: the verifier keeps nothing, so one delivery
    /\ \E mu \in Messages, bytes \in OnTheWire(signature.bytes) :
          LET sigma == Signature_decode(bytes)
          IN  IF sigma = NoneYet
              THEN arrived' = [mu |-> mu, bytes |-> bytes, verdict |-> "malformed"]
              ELSE arrived' = [mu |-> mu, bytes |-> bytes,
                               verdict |-> verify_mu(pair.vk, mu, sigma, drawn[sigma.c_tilde])]
    /\ UNCHANGED << pair, drawn, signing, signature >>

DsaNext == KeyGen \/ Sign \/ SignAttempt \/ Verify

-----------------------------------------------------------------------------
(* What the rejection loop lets out is accepted under the message it was     *)
(* made for and under no other, and no bytes that decode take use_hint to    *)
(* its unreachable branch (sign_mu, verify_mu, hint.rs).                     *)
SignedVerifies ==
    arrived # NoneYet =>
        /\ arrived.verdict # "panic"
        /\ arrived.bytes = signature.bytes =>
              arrived.verdict = IF arrived.mu = signature.mu THEN "valid" ELSE "invalid"
=============================================================================
