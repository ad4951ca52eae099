------------------------------- MODULE Sntrup -------------------------------
(* The sntrup761 KEM of trelis-primitives (fq.rs, poly.rs, encoding.rs,      *)
(* pure_rust.rs): key generation with its retries, encapsulation, a          *)
(* ciphertext that may arrive altered, and decapsulation with implicit       *)
(* rejection. Polynomials are functions on 0 .. P-1; a hash is the tuple of  *)
(* its inputs.                                                               *)
EXTENDS SntrupCodec, FiniteSets

CONSTANTS
    WEIGHT,                 \* nonzero coefficients of a short polynomial (286)
    KARATSUBA_THRESHOLD,    \* longest operands of the schoolbook product (32)
    NTT_SIZE, NTT_PRIME, NTT_PRIMITIVE_ROOT,
    BARRETT_WORD,           \* the 2^64 of the Barrett reduction
    MAX_KEYGEN_ATTEMPTS,    \* draws before key generation gives up (10000)
    SmallDraws,             \* what random_small may return
    ShortDraws,             \* what short_random may return
    AlteredBytes            \* values a byte of a ciphertext may be changed to

VARIABLES
    keygen,     \* the key generation under way: draws so far and the g found
    key,        \* the key pair, or NoKey
    sent,       \* the ciphertext and the secret of encapsulate, or NoMessage
    received    \* the ciphertext that arrived and the secret of decapsulate

kem_vars == << keygen, key, sent, received >>

NoKey     == [none |-> "key"]
NoMessage == [none |-> "message"]

-----------------------------------------------------------------------------
(* Integer products of polynomials; the ring is Z[x]/(x^P - x - 1). *)
LOCAL At(a, k) == IF k \in DOMAIN a THEN a[k] ELSE 0

LOCAL SumUpTo(f, n) == LET s[k \in 0 .. n] == f[k] + (IF k = 0 THEN 0 ELSE s[k - 1]) IN s[n]

(* schoolbook_mult, and the convolution of Rq::mult_r3. *)
schoolbook_mult(a, b, n) ==
    computed([k \in 0 .. 2 * n - 2 |->
                 SumUpTo([i \in 0 .. n - 1 |-> a[i] * At(b, k - i)], n - 1)])

(* The halves of a polynomial of n coefficients and their sum; when n is odd *)
(* the upper half is one coefficient longer.                                 *)
Lower(a, n) == computed([i \in 0 .. (n \div 2) - 1 |-> a[i]])
Upper(a, n) == computed([i \in 0 .. n - (n \div 2) - 1 |-> a[(n \div 2) + i]])

(* The longer upper half loses its last coefficient. *)
Both_mutant(a, n) == computed([i \in 0 .. n - (n \div 2) - 1 |->
                                 IF i < n \div 2 THEN a[i] + a[(n \div 2) + i] ELSE 0])

Both(a, n) == computed([i \in 0 .. n - (n \div 2) - 1 |->
                            (IF i < n \div 2 THEN a[i] ELSE 0) + a[(n \div 2) + i]])

RECURSIVE karatsuba_mult(_, _, _)
karatsuba_mult(a, b, n) ==
    IF n <= KARATSUBA_THRESHOLD
    THEN schoolbook_mult(a, b, n)
    ELSE LET m  == n \div 2
             z0 == karatsuba_mult(Lower(a, n), Lower(b, n), m)
             z1 == karatsuba_mult(Both(a, n), Both(b, n), n - m)
             z2 == karatsuba_mult(Upper(a, n), Upper(b, n), n - m)
         IN  computed([k \in 0 .. 2 * n - 2 |->
                 At(z0, k) + At(z2, k - 2 * m)
                 + At(z1, k - m) - At(z0, k - m) - At(z2, k - m)])

-----------------------------------------------------------------------------
(* The number-theoretic transform over NTT_PRIME. *)
BARRETT_MU == BARRETT_WORD \div NTT_PRIME

mod_mul(a, b) ==
    LET prod == a * b
        r    == prod - ((prod * BARRETT_MU) \div BARRETT_WORD) * NTT_PRIME
    IN  IF r >= NTT_PRIME THEN r - NTT_PRIME ELSE r

mod_add(a, b) == IF a + b >= NTT_PRIME THEN a + b - NTT_PRIME ELSE a + b
mod_sub(a, b) == IF a < b THEN a - b + NTT_PRIME ELSE a - b

mod_pow(base, exp) ==
    LET power[e \in 0 .. NTT_PRIME, b \in 0 .. NTT_PRIME] ==
            IF e = 0 THEN 1
            ELSE LET rest == power[e \div 2, mod_mul(b, b)]
                 IN  IF e % 2 = 1 THEN mod_mul(rest, b) ELSE rest
    IN  power[exp, base]

Stages == CHOOSE s \in 0 .. NTT_SIZE : 2 ^ s = NTT_SIZE

bit_reverse(x) == SumUpTo([s \in 0 .. Stages - 1 |->
                              ((x \div (2 ^ s)) % 2) * 2 ^ (Stages - 1 - s)], Stages - 1)

forward_roots == [s \in 1 .. Stages |-> mod_pow(NTT_PRIMITIVE_ROOT, (NTT_PRIME - 1) \div (2 ^ s))]
inverse_roots == [s \in 1 .. Stages |-> mod_pow(forward_roots[s], NTT_PRIME - 2)]

(* Stage s joins transforms of half length into transforms of length 2^s. *)
butterfly(a, s, root) ==
    LET half == 2 ^ (s - 1)
        twiddle == computed([j \in 0 .. half - 1 |-> mod_pow(root, j)])
    IN  computed([i \in 0 .. NTT_SIZE - 1 |->
            LET j == i % half
                u == a[i - (i % (2 * half)) + j]
                v == mod_mul(a[i - (i % (2 * half)) + j + half], twiddle[j])
            IN  IF i % (2 * half) < half THEN mod_add(u, v) ELSE mod_sub(u, v)])

transform(a, roots) ==
    LET after[s \in 0 .. Stages] ==
            IF s = 0
            THEN [i \in 0 .. NTT_SIZE - 1 |-> a[bit_reverse(i)]]
            ELSE butterfly(after[s - 1], s, roots[s])
    IN  after[Stages]

ntt_forward(a) == transform(a, forward_roots)
ntt_inverse(a) == LET t == transform(a, inverse_roots)
                      n == mod_pow(NTT_SIZE, NTT_PRIME - 2)
                  IN  computed([i \in 0 .. NTT_SIZE - 1 |-> mod_mul(t[i], n)])

ntt_mult(a, b) ==
    LET residues(p) == computed([i \in 0 .. NTT_SIZE - 1 |-> At(p, i) % NTT_PRIME])
        x == ntt_forward(residues(a))
        y == ntt_forward(residues(b))
        z == ntt_inverse(computed([i \in 0 .. NTT_SIZE - 1 |-> mod_mul(x[i], y[i])]))
    IN  [k \in 0 .. 2 * P - 2 |-> IF z[k] > NTT_PRIME \div 2 THEN z[k] - NTT_PRIME ELSE z[k]]

-----------------------------------------------------------------------------
(* x^(P+k) is x^(k+1) + x^k. *)
reduce_ring(poly, k) == poly[k] + At(poly, P + k) + (IF k = 0 THEN 0 ELSE At(poly, P + k - 1))

rq_reduced(poly) == computed([k \in 0 .. P - 1 |-> reduce_mod_q(reduce_ring(poly, k))])
r3_reduced(poly) == computed([k \in 0 .. P - 1 |-> reduce_mod_3(reduce_ring(poly, k))])

rq_mult_r3(a, b)     == rq_reduced(karatsuba_mult(a, b, P))
r3_mult_r3(a, b)     == r3_reduced(karatsuba_mult(a, b, P))
rq_mult_r3_ntt(a, b) == rq_reduced(ntt_mult(a, b))
mult_r3(a, b)        == LET fg == schoolbook_mult(a, b, P)
                        IN  [k \in 0 .. P - 1 |-> freeze(reduce_ring(fg, k))]

(* R3::mult freezes after every addition and again after the reduction. *)
R3_mult(a, b) ==
    LET coeff(k) == LET s[i \in 0 .. P - 1] ==
                            f3_freeze(a[i] * At(b, k - i) + (IF i = 0 THEN 0 ELSE s[i - 1]))
                    IN  s[P - 1]
        fg == computed([k \in 0 .. 2 * P - 2 |-> coeff(k)])
    IN  [k \in 0 .. P - 1 |->
            f3_freeze(f3_freeze(fg[k] + At(fg, P + k)) + (IF k = 0 THEN 0 ELSE At(fg, P + k - 1)))]

-----------------------------------------------------------------------------
(* The reciprocal of a polynomial by 2P - 1 division steps, in "Rq" or "R3"; *)
(* eliminate cancels the constant term of the pair it is applied to.         *)
NotInvertible == [none |-> "reciprocal"]

eliminate(ring, x, y, f0, g0) ==
    IF ring = "Rq" THEN freeze(f0 * x - g0 * y) ELSE f3_freeze(x - (g0 * f0) * y)

divstep(s, ring) ==
    LET shifted == computed([i \in 0 .. P |-> IF i = 0 THEN 0 ELSE s.v[i - 1]])
        swap == s.delta > 0 /\ s.g[0] # 0
        f == IF swap THEN s.g ELSE s.f
        g == IF swap THEN s.f ELSE s.g
        v == IF swap THEN s.r ELSE shifted
        r == IF swap THEN shifted ELSE s.r
    IN  [delta |-> 1 + (IF swap THEN - s.delta ELSE s.delta),
         f |-> f,
         v |-> v,
         g |-> computed([i \in 0 .. P |-> IF i = P THEN 0
                                           ELSE eliminate(ring, g[i + 1], f[i + 1], f[0], g[0])]),
         r |-> computed([i \in 0 .. P |-> eliminate(ring, r[i], v[i], f[0], g[0])])]

divsteps(input, r0, ring) ==
    LET start == [delta |-> 1,
                  f |-> [i \in 0 .. P |-> IF i = 0 THEN 1 ELSE IF i >= P - 1 THEN - 1 ELSE 0],
                  g |-> [i \in 0 .. P |-> IF i = P THEN 0 ELSE input[P - 1 - i]],
                  v |-> [i \in 0 .. P |-> 0],
                  r |-> [i \in 0 .. P |-> IF i = 0 THEN r0 ELSE 0]]
        run[k \in 0 .. 2 * P - 1] ==
            IF k = 0 THEN start ELSE divstep(run[k - 1], ring)
    IN  run[2 * P - 1]

Rq_recip(input, RATIO) ==
    LET s == divsteps(input, recip(RATIO), "Rq")
        scale == recip_ct(s.f[0])
    IN  IF s.delta # 0 THEN NotInvertible
        ELSE computed([i \in 0 .. P - 1 |-> freeze(scale * s.v[P - 1 - i])])

R3_recip(input) ==
    LET s == divsteps(input, 1, "R3")
    IN  IF s.delta # 0 THEN NotInvertible
        ELSE computed([i \in 0 .. P - 1 |-> s.f[0] * s.v[P - 1 - i]])

-----------------------------------------------------------------------------
(* The hashes, by prefix; r and rho enter in their encoded form. *)
hash_r_encoding(r_enc)       == << 3, r_enc >>
hash_pk_cache(pk)            == << 4, pk >>
hash_confirm(r_hash, cache)  == << 2, r_hash, cache >>
hash_session(b, r_hash, ct)  == << b, r_hash, ct >>

Rho == "rho"

Weight(poly)  == Cardinality({i \in 0 .. P - 1 : poly[i] # 0})
short_polys   == {s \in ShortDraws : Weight(s) = WEIGHT}

round_rq(coeffs) == computed([i \in 0 .. P - 1 |-> round(coeffs[i])])

KemInit ==
    /\ keygen = [outer |-> 1, inner |-> 0, g |-> NoKey, rejected |-> NoKey]
    /\ key = NoKey
    /\ sent = NoMessage
    /\ received = NoMessage

(* generate_from_rng, inner loop: draw g until it has an inverse in R3. *)
DrawSmall ==
    /\ key = NoKey
    /\ keygen.g = NoKey
    /\ keygen.outer <= MAX_KEYGEN_ATTEMPTS
    /\ keygen.inner < MAX_KEYGEN_ATTEMPTS
    /\ \E g \in SmallDraws :
          keygen' = IF R3_recip(g) = NotInvertible
                    THEN [keygen EXCEPT !.inner = @ + 1, !.rejected = g]
                    ELSE [keygen EXCEPT !.inner = 0, !.g = g, !.rejected = NoKey]
    /\ UNCHANGED << key, sent, received >>

(* Draw f until its weight is right. *)
DrawWrongWeight ==
    /\ key = NoKey
    /\ keygen.g # NoKey
    /\ keygen.inner < MAX_KEYGEN_ATTEMPTS
    /\ ShortDraws # short_polys
    /\ keygen' = [keygen EXCEPT !.inner = @ + 1]
    /\ UNCHANGED << key, sent, received >>

key_pair(f, finv, g) ==
    LET pk == rq_encode(rq_mult_r3(finv, g))
    IN  [f |-> small_encode(f), ginv |-> small_encode(R3_recip(g)),
         pk |-> pk, rho |-> Rho, cache |-> hash_pk_cache(pk)]

(* With f drawn, h = g/(3f); if f has no inverse, both are drawn again. *)
DrawShort ==
    /\ key = NoKey
    /\ keygen.g # NoKey
    /\ keygen.inner < MAX_KEYGEN_ATTEMPTS
    /\ \E f \in short_polys :
          LET finv == Rq_recip(f, 3)
          IN  IF finv = NotInvertible
              THEN /\ keygen' = [keygen EXCEPT !.outer = @ + 1, !.inner = 0, !.g = NoKey]
                   /\ UNCHANGED key
              ELSE /\ key' = key_pair(f, finv, keygen.g)
                   /\ UNCHANGED keygen
    /\ UNCHANGED << sent, received >>

(* encapsulate: the ciphertext is Round(h r) and a confirmation of r. *)
encapsulate(pk, r) ==
    LET r_hash == hash_r_encoding(small_encode(r))
        ct == [body |-> rounded_encode(round_rq(rq_mult_r3(rq_decode(pk), r))),
               confirm |-> hash_confirm(r_hash, hash_pk_cache(pk))]
    IN  [ct |-> ct, secret |-> hash_session(1, r_hash, ct)]

Encapsulate ==
    /\ key # NoKey
    /\ sent = NoMessage         \* bound: one ciphertext; neither side keeps anything
    /\ \E r \in short_polys : sent' = encapsulate(key.pk, r)
    /\ UNCHANGED << keygen, key, received >>

(* The lines of decapsulate that scale by 3 and reduce once. *)
times_three(x) == LET v == as_i16(3 * x)
                  IN  IF v > Q \div 2 THEN v - Q ELSE IF v < - (Q \div 2) THEN v + Q ELSE v

recovered_r(k, ct) ==
    LET cf == rq_mult_r3(rounded_decode(ct.body), small_decode(k.f))
        e  == computed([i \in 0 .. P - 1 |-> to_r3(times_three(cf[i]))])
    IN  r3_mult_r3(e, small_decode(k.ginv))

(* The confirmation is not compared. *)
decapsulate_mutant(k, ct) ==
    LET r      == recovered_r(k, ct)
        again  == rounded_encode(round_rq(rq_mult_r3(rq_decode(k.pk), r)))
    IN  IF ct.body = again
        THEN hash_session(1, hash_r_encoding(small_encode(r)), ct)
        ELSE hash_session(0, hash_r_encoding(k.rho), ct)

decapsulate(k, ct) ==
    LET r      == recovered_r(k, ct)
        r_hash == hash_r_encoding(small_encode(r))
        again  == rounded_encode(round_rq(rq_mult_r3(rq_decode(k.pk), r)))
        valid  == ct.body = again /\ ct.confirm = hash_confirm(r_hash, k.cache)
    IN  IF valid
        THEN hash_session(1, r_hash, ct)
        ELSE hash_session(0, hash_r_encoding(k.rho), ct)

(* What may arrive instead of a ciphertext: one pair of bytes, the final     *)
(* bytes or the confirmation are another value.                              *)
Altered(ct) ==
    {[ct EXCEPT !.body.low[k][i] = b] :
        k \in {Len(RoundedStages)}, i \in DOMAIN ct.body.low[Len(RoundedStages)], b \in AlteredBytes}
    \union {[ct EXCEPT !.body.low[1][i] = b] : i \in DOMAIN ct.body.low[1], b \in AlteredBytes}
    \union {[ct EXCEPT !.body.top = b] : b \in AlteredBytes}
    \union {[ct EXCEPT !.confirm = << 2, Rho >>]}

Decapsulate ==
    /\ sent # NoMessage
    /\ received = NoMessage
    /\ \E ct \in {sent.ct} \union Altered(sent.ct) :
          received' = [ct |-> ct, secret |-> decapsulate(key, ct)]
    /\ UNCHANGED << keygen, key, sent >>

KemNext == DrawSmall \/ DrawWrongWeight \/ DrawShort \/ Encapsulate \/ Decapsulate

-----------------------------------------------------------------------------
(* Whoever opens the ciphertext that was sealed has the sender's secret;     *)
(* whoever is handed any other bytes has the secret of the rejection, which  *)
(* depends on nothing the sender knows (decapsulate, pure_rust.rs).          *)
SecretsAgree ==
    received # NoMessage =>
        received.secret =
            IF received.ct = sent.ct THEN sent.secret
            ELSE hash_session(0, hash_r_encoding(Rho), received.ct)

(* The Karatsuba product the KEM uses, the transform kept beside it and the  *)
(* two convolutions of fq.rs give one result (poly.rs: "available for        *)
(* comparison").                                                             *)
ProductsAgree ==
    key # NoKey =>
        LET h == rq_decode(key.pk)
            f == small_decode(key.f)
            ginv == small_decode(key.ginv)
        IN  /\ rq_mult_r3(h, f) = mult_r3(h, f)
            /\ rq_mult_r3(h, f) = rq_mult_r3_ntt(h, f)
            /\ r3_mult_r3(ginv, f) = R3_mult(ginv, f)

One == [i \in 0 .. P - 1 |-> IF i = 0 THEN 1 ELSE 0]

(* The division steps find the reciprocal whenever there is one: 3 f h = g   *)
(* and g ginv = 1 for every key, and a g that was turned down is a zero      *)
(* divisor of R3 (fq.rs recip, generate_from_rng).                           *)
InversesAreExact ==
    /\ key # NoKey =>
          LET f3 == [i \in 0 .. P - 1 |-> 3 * small_decode(key.f)[i]]
          IN  /\ R3_mult(keygen.g, small_decode(key.ginv)) = One
              /\ mult_r3(rq_decode(key.pk), f3) = keygen.g
    /\ keygen.rejected # NoKey =>
          \E z \in [0 .. P - 1 -> {-1, 0, 1}] :
              /\ \E i \in 0 .. P - 1 : z[i] # 0
              /\ \A i \in 0 .. P - 1 : R3_mult(keygen.rejected, z)[i] = 0

ArithmeticIsExact == ProductsAgree /\ InversesAreExact
=============================================================================
