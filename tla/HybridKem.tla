------------------------------ MODULE HybridKem ------------------------------
(* The hybrid KEM of trelis-hybrid (kem.rs, combiner.rs) over X448 (x448.rs), *)
(* and what trelis-multidevice does with it: a 32-byte secret wrapped for one *)
(* device under a committing AEAD (device_key_wrap.rs, aead.rs). A hash is    *)
(* the tuple of its inputs. Wraps travel as five fields, which may come from  *)
(* different wraps or in another encoding.                                    *)
EXTENDS Naturals, FiniteSets

CONSTANTS
    KemSeeds,       \* seeds of the device keypairs
    WrapContexts,   \* [recipient_key_id, purpose, thread_id, bundle_id, epoch]
    MaxWraps        \* bound: wraps made

ASSUME WrapAssumption == \A c \in WrapContexts :
    c = [recipient_key_id |-> c.recipient_key_id, purpose |-> c.purpose, thread_id |-> c.thread_id,
         bundle_id |-> c.bundle_id, epoch |-> c.epoch]

VARIABLES
    wraps,      \* the wraps made, with the call that made them
    unwrapped   \* the last unwrap: the call and its result, or NotUnwrapped

wrap_vars == << wraps, unwrapped >>

NotUnwrapped == [none |-> "unwrapped"]
Failed == << "failed" >>

derive_key(context, input) == << context, input >>

-----------------------------------------------------------------------------
(* X448. Two points that differ by one of low order lead to the same secret:  *)
(* "alias" tells their encodings apart.                                       *)
LowOrder == << "low-order" >>
Encodings(secret) == [of : {secret}, alias : BOOLEAN]
x448_public(secret) == [of |-> secret, alias |-> FALSE]

diffie_hellman(secret, their_public) ==
    IF their_public.of = LowOrder THEN Failed ELSE << "x448", {secret, their_public.of} >>

(* sntrup761 rejects implicitly: a wrong ciphertext has a secret of its own.  *)
sntrup_encapsulate(pk, r) == [to |-> pk, r |-> r]
sntrup_secret(ct) == << "sntrup761", ct >>
sntrup_decapsulate(sk, ct) == IF ct.to = sk THEN sntrup_secret(ct) ELSE << "rejected", sk, ct >>

-----------------------------------------------------------------------------
(* The hybrid. A keypair is the two secret keys; its public key follows.      *)
public_key(keypair) == [x448 |-> x448_public(keypair.x448), sntrup |-> keypair.sntrup]

generate_from_seed(seed) ==
    [x448   |-> derive_key("trelis-hybrid-x448", seed),
     sntrup |-> derive_key("trelis-hybrid-sntrup761", seed)]

(* The ephemeral key is bound as a point instead of as it was transmitted.    *)
combine_v2_mutant(x448_ss, sntrup_ss, ct_sntrup, x448_eph, pk_hybrid) ==
    derive_key("trelis-hybrid-kem-v2", << ct_sntrup, x448_eph.of, pk_hybrid, x448_ss, sntrup_ss >>)

combine_v2(x448_ss, sntrup_ss, ct_sntrup, x448_eph, pk_hybrid) ==
    derive_key("trelis-hybrid-kem-v2", << ct_sntrup, x448_eph, pk_hybrid, x448_ss, sntrup_ss >>)

(* The shared secret and the encapsulation; "fresh" numbers the call's draws. *)
hybrid_encapsulate(pk, fresh) ==
    LET eph_secret == << "ephemeral", fresh >>
        eph == x448_public(eph_secret)
        ct  == sntrup_encapsulate(pk.sntrup, fresh)
        ss  == diffie_hellman(eph_secret, pk.x448)
    IN  [x448_ephemeral |-> eph, sntrup_ciphertext |-> ct,
         secret |-> IF ss = Failed THEN Failed ELSE combine_v2(ss, sntrup_secret(ct), ct, eph, pk)]

hybrid_decapsulate(keypair, eph, ct) ==
    LET ss == diffie_hellman(keypair.x448, eph)
    IN  IF ss = Failed THEN Failed
        ELSE combine_v2(ss, sntrup_decapsulate(keypair.sntrup, ct), ct, eph, public_key(keypair))

-----------------------------------------------------------------------------
(* The committing AEAD.                                                       *)
aead_commitment(key, nonce, aad, ct) ==
    << "commitment", derive_key("trelis-aead-commit-v1", key), nonce, aad, ct >>

encrypt(key, nonce, plaintext, aad) ==
    [key |-> key, nonce |-> nonce, aad |-> aad, plaintext |-> plaintext]

decrypt(key, nonce, ct, aad) ==
    IF ct = encrypt(key, nonce, ct.plaintext, aad) THEN ct.plaintext ELSE Failed

encrypt_committing(key, nonce, plaintext, aad) ==
    LET ct == encrypt(key, nonce, plaintext, aad)
    IN  [ct |-> ct, commitment |-> aead_commitment(key, nonce, aad, ct)]

decrypt_committing(key, nonce, sealed, aad) ==
    IF sealed.commitment = aead_commitment(key, nonce, aad, sealed.ct)
    THEN decrypt(key, nonce, sealed.ct, aad) ELSE Failed

-----------------------------------------------------------------------------
(* Wrapping for a device.                                                     *)
to_aad(context) ==
    << context.recipient_key_id, context.purpose, context.thread_id, context.bundle_id, context.epoch >>

derive_wrapping_key(shared_secret) == derive_key("trelis-bundle-wrap-v1", shared_secret)

wrap_key(secret, recipient_pk, context, fresh) ==
    LET e == hybrid_encapsulate(recipient_pk, fresh)
    IN  [recipient_key_id  |-> context.recipient_key_id,
         x448_ephemeral    |-> e.x448_ephemeral,
         sntrup_ciphertext |-> e.sntrup_ciphertext,
         nonce             |-> fresh,
         encrypted_payload |-> encrypt_committing(derive_wrapping_key(e.secret), fresh, secret, to_aad(context))]

unwrap_key(w, recipient_keypair, context) ==
    LET shared == hybrid_decapsulate(recipient_keypair, w.x448_ephemeral, w.sntrup_ciphertext)
    IN  IF w.recipient_key_id # context.recipient_key_id \/ shared = Failed THEN Failed
        ELSE decrypt_committing(derive_wrapping_key(shared), w.nonce, w.encrypted_payload, to_aad(context))

-----------------------------------------------------------------------------
(* Secret keys are stored as bytes whose halves from_bytes takes apart, so a  *)
(* keypair may join the halves of two; a public key may come in any encoding. *)
Generated == {generate_from_seed(seed) : seed \in KemSeeds}
Keypairs448 == {k.x448 : k \in Generated}
Loaded == [x448 : Keypairs448, sntrup : {k.sntrup : k \in Generated}]
PublicBytes ==
    [x448   : UNION {Encodings(k) : k \in Keypairs448} \union {x448_public(LowOrder)},
     sntrup : {k.sntrup : k \in Generated}]

(* Secrets are numbered: a wrap takes a new one or one already wrapped.       *)
KnownSecrets == {<< "secret", i >> : i \in 1 .. Cardinality(wraps) + 1}

WrapInit == wraps = {} /\ unwrapped = NotUnwrapped

Wrap(pk, context, secret) ==
    LET fresh == Cardinality(wraps) + 1 IN
    /\ fresh <= MaxWraps
    /\ hybrid_encapsulate(pk, fresh).secret # Failed
    /\ wraps' = wraps \union {[pk |-> pk, context |-> context, secret |-> secret,
                               wire |-> wrap_key(secret, pk, context, fresh)]}
    /\ UNCHANGED unwrapped

(* Fields of the wraps made, the ephemeral key in any encoding or no key.     *)
Fields(w) ==
    [recipient_key_id  : {v.wire.recipient_key_id : v \in wraps},
     x448_ephemeral    : Encodings(w.wire.x448_ephemeral.of) \union {x448_public(LowOrder)},
     sntrup_ciphertext : {v.wire.sntrup_ciphertext : v \in wraps},
     nonce             : {v.wire.nonce : v \in wraps},
     encrypted_payload : [ct : {v.wire.encrypted_payload.ct : v \in wraps},
                          commitment : {v.wire.encrypted_payload.commitment : v \in wraps}]]

Unwrap(keypair, context, wire) ==
    /\ unwrapped' = [keypair |-> keypair, context |-> context, wire |-> wire,
                     result |-> unwrap_key(wire, keypair, context)]
    /\ UNCHANGED wraps

(* Unwrapping changes nothing, so the first one ends the behaviour.           *)
WrapNext ==
    /\ unwrapped = NotUnwrapped
    /\ \/ \E pk \in PublicBytes, context \in WrapContexts, secret \in KnownSecrets : Wrap(pk, context, secret)
       \/ \E w \in wraps : \E wire \in Fields(w), keypair \in Loaded, context \in WrapContexts :
              Unwrap(keypair, context, wire)

WrapSpec == WrapInit /\ [][WrapNext]_wrap_vars

-----------------------------------------------------------------------------
(* A wrap opens for the keypair whose public key it was made for, byte for    *)
(* byte, in the context it was made in and unaltered in every field, with the *)
(* secret that was wrapped; in every other case unwrap fails. (DeviceKeyWrap  *)
(* wrap and unwrap, encapsulate and decapsulate, decrypt_committing)          *)
OpenedIffWrapped ==
    unwrapped # NotUnwrapped =>
        LET origins == {w \in wraps : /\ w.wire = unwrapped.wire /\ w.context = unwrapped.context
                                      /\ w.pk = public_key(unwrapped.keypair)}
        IN  IF origins = {} THEN unwrapped.result = Failed
            ELSE \A w \in origins : unwrapped.result = w.secret
=============================================================================
