---------------------------- MODULE HybridProofs ----------------------------
(***************************************************************************)
(* Proofs about HybridKem, HybridSignature and SafetyNumbers, for any      *)
(* keys, contexts and texts, any number of wraps and signatures, and any   *)
(* identities and device lists.                                            *)
(***************************************************************************)
EXTENDS HybridKem, HybridSignature, SafetyNumbers, TLAPS, SequenceTheorems, FiniteSetTheorems,
        FunctionTheorems, WellFoundedInduction

-----------------------------------------------------------------------------
(* Wrapped keys.                                                           *)
Made(w) == \E n \in Nat :
    /\ w = [pk |-> w.pk, context |-> w.context, secret |-> w.secret,
            wire |-> wrap_key(w.secret, w.pk, w.context, n)]
    /\ w.context \in WrapContexts /\ w.secret # Failed
    /\ hybrid_encapsulate(w.pk, n).secret # Failed

Wrapped == IsFiniteSet(wraps) /\ \A w \in wraps : Made(w)

(* What the fields of a wrap are.                                          *)
LEMMA WrapShape ==
    ASSUME NEW w, Made(w)
    PROVE  \E n \in Nat :
             LET e == hybrid_encapsulate(w.pk, n)
                 p == w.wire.encrypted_payload IN
             /\ w.wire = [recipient_key_id |-> w.context.recipient_key_id, x448_ephemeral |-> e.x448_ephemeral,
                          sntrup_ciphertext |-> e.sntrup_ciphertext, nonce |-> n, encrypted_payload |-> p]
             /\ p = [ct |-> encrypt(derive_wrapping_key(e.secret), n, w.secret, to_aad(w.context)),
                     commitment |-> aead_commitment(derive_wrapping_key(e.secret), n, to_aad(w.context), p.ct)]
             /\ e.secret # Failed
BY DEF Made, wrap_key, encrypt_committing

LEMMA AadInjective ==
    ASSUME NEW c \in WrapContexts, NEW d \in WrapContexts, to_aad(c) = to_aad(d)
    PROVE  c = d
<1>1. /\ c.recipient_key_id = d.recipient_key_id /\ c.purpose = d.purpose /\ c.thread_id = d.thread_id
      /\ c.bundle_id = d.bundle_id /\ c.epoch = d.epoch
  BY DEF to_aad
<1> QED BY <1>1, WrapAssumption

(* The commitment fixes key, nonce, associated data and ciphertext, and     *)
(* the key what it was combined from.                                      *)
LEMMA CommitmentInjective ==
    ASSUME NEW k, NEW n, NEW a, NEW c, NEW l, NEW m, NEW b, NEW d,
           aead_commitment(k, n, a, c) = aead_commitment(l, m, b, d)
    PROVE  k = l /\ n = m /\ a = b /\ c = d
BY DEF aead_commitment, derive_key

LEMMA CombineInjective ==
    ASSUME NEW x, NEW s, NEW ct, NEW eph, NEW pk, NEW y, NEW t, NEW du, NEW fph, NEW qk,
           derive_wrapping_key(combine_v2(x, s, ct, eph, pk)) = derive_wrapping_key(combine_v2(y, t, du, fph, qk))
    PROVE  ct = du /\ eph = fph /\ pk = qk
BY DEF derive_wrapping_key, combine_v2, derive_key

(* Encapsulation leads to the secret of the keypair it is for.             *)
LEMMA Encapsulated ==
    ASSUME NEW pk, NEW n \in Nat, hybrid_encapsulate(pk, n).secret # Failed
    PROVE  LET e == hybrid_encapsulate(pk, n) IN
           /\ e.sntrup_ciphertext = [to |-> pk.sntrup, r |-> n]
           /\ e.x448_ephemeral = [of |-> <<"ephemeral", n>>, alias |-> FALSE]
           /\ e.secret = combine_v2(<<"x448", {<<"ephemeral", n>>, pk.x448.of}>>,
                            sntrup_secret(e.sntrup_ciphertext), e.sntrup_ciphertext, e.x448_ephemeral, pk)
BY DEF hybrid_encapsulate, x448_public, sntrup_encapsulate, diffie_hellman

LEMMA Decapsulated ==
    ASSUME NEW keypair, NEW n \in Nat, hybrid_encapsulate(public_key(keypair), n).secret # Failed
    PROVE  LET e == hybrid_encapsulate(public_key(keypair), n) IN
           hybrid_decapsulate(keypair, e.x448_ephemeral, e.sntrup_ciphertext) = e.secret
<1> PICK e : e = hybrid_encapsulate(public_key(keypair), n)
  OBVIOUS
<1>1. /\ e.sntrup_ciphertext = [to |-> keypair.sntrup, r |-> n]
      /\ e.x448_ephemeral = [of |-> <<"ephemeral", n>>, alias |-> FALSE]
      /\ e.secret = combine_v2(<<"x448", {<<"ephemeral", n>>, keypair.x448}>>,
                       sntrup_secret(e.sntrup_ciphertext), e.sntrup_ciphertext, e.x448_ephemeral, public_key(keypair))
  <2>1. public_key(keypair).sntrup = keypair.sntrup /\ public_key(keypair).x448.of = keypair.x448
    BY DEF public_key, x448_public
  <2> QED BY <2>1, Encapsulated
<1>2. diffie_hellman(keypair.x448, e.x448_ephemeral) = <<"x448", {<<"ephemeral", n>>, keypair.x448}>>
  <2>1. <<"ephemeral", n>> # LowOrder
    BY DEF LowOrder
  <2>2. {<<"ephemeral", n>>, keypair.x448} = {keypair.x448, <<"ephemeral", n>>}
    OBVIOUS
  <2> QED BY <1>1, <2>1, <2>2 DEF diffie_hellman
<1>3. sntrup_decapsulate(keypair.sntrup, e.sntrup_ciphertext) = sntrup_secret(e.sntrup_ciphertext)
  BY <1>1 DEF sntrup_decapsulate
<1>4. diffie_hellman(keypair.x448, e.x448_ephemeral) # Failed
  BY <1>2 DEF Failed
<1> QED BY <1>1, <1>2, <1>3, <1>4 DEF hybrid_decapsulate

LEMMA OpensAsWrapped ==
    ASSUME NEW keypair, NEW w, Made(w), w.pk = public_key(keypair)
    PROVE  unwrap_key(w.wire, keypair, w.context) = w.secret
<1> PICK n \in Nat :
        LET e == hybrid_encapsulate(w.pk, n)
            p == w.wire.encrypted_payload IN
        /\ w.wire = [recipient_key_id |-> w.context.recipient_key_id, x448_ephemeral |-> e.x448_ephemeral,
                     sntrup_ciphertext |-> e.sntrup_ciphertext, nonce |-> n, encrypted_payload |-> p]
        /\ p = [ct |-> encrypt(derive_wrapping_key(e.secret), n, w.secret, to_aad(w.context)),
                commitment |-> aead_commitment(derive_wrapping_key(e.secret), n, to_aad(w.context), p.ct)]
        /\ e.secret # Failed
  BY WrapShape
<1> PICK e : e = hybrid_encapsulate(w.pk, n)
  OBVIOUS
<1> PICK p : p = w.wire.encrypted_payload
  OBVIOUS
<1> PICK key : key = derive_wrapping_key(e.secret)
  OBVIOUS
<1> PICK aad : aad = to_aad(w.context)
  OBVIOUS
<1>1. hybrid_decapsulate(keypair, e.x448_ephemeral, e.sntrup_ciphertext) = e.secret
  BY Decapsulated
<1>2. /\ w.wire.recipient_key_id = w.context.recipient_key_id /\ w.wire.x448_ephemeral = e.x448_ephemeral
      /\ w.wire.sntrup_ciphertext = e.sntrup_ciphertext /\ w.wire.nonce = n
      /\ p.ct = encrypt(key, n, w.secret, aad)
      /\ p.commitment = aead_commitment(key, n, aad, p.ct) /\ e.secret # Failed
  OBVIOUS
<1>3. unwrap_key(w.wire, keypair, w.context) = decrypt_committing(key, n, p, aad)
  BY <1>1, <1>2 DEF unwrap_key
<1>4. decrypt_committing(key, n, p, aad) = decrypt(key, n, p.ct, aad)
  BY <1>2 DEF decrypt_committing
<1>5. decrypt(key, n, p.ct, aad) = w.secret
  BY <1>2 DEF decrypt, encrypt
<1> QED BY <1>3, <1>4, <1>5

LEMMA OpensOnlyAsWrapped ==
    ASSUME Wrapped, NEW w \in wraps, NEW wire \in Fields(w), NEW keypair, NEW context \in WrapContexts,
           unwrap_key(wire, keypair, context) # Failed
    PROVE  \E v \in wraps : v.wire = wire /\ v.context = context /\ v.pk = public_key(keypair)
<1> PICK shared : shared = hybrid_decapsulate(keypair, wire.x448_ephemeral, wire.sntrup_ciphertext)
  OBVIOUS
<1> PICK p : p = wire.encrypted_payload
  OBVIOUS
<1> PICK key : key = derive_wrapping_key(shared)
  OBVIOUS
<1>1. wire.recipient_key_id = context.recipient_key_id /\ shared # Failed
  BY DEF unwrap_key
<1>2. p.commitment = aead_commitment(key, wire.nonce, to_aad(context), p.ct)
  BY <1>1 DEF unwrap_key, decrypt_committing
<1>3. PICK v \in wraps : p.commitment = v.wire.encrypted_payload.commitment
  BY DEF Fields
<1>4. /\ wire = [recipient_key_id |-> wire.recipient_key_id, x448_ephemeral |-> wire.x448_ephemeral,
                 sntrup_ciphertext |-> wire.sntrup_ciphertext, nonce |-> wire.nonce, encrypted_payload |-> p]
      /\ p = [ct |-> p.ct, commitment |-> p.commitment]
  BY DEF Fields
<1>5. Made(v) /\ v.context \in WrapContexts
  BY DEF Wrapped, Made
<1>6. PICK n \in Nat :
        LET e == hybrid_encapsulate(v.pk, n)
            q == v.wire.encrypted_payload IN
        /\ v.wire = [recipient_key_id |-> v.context.recipient_key_id, x448_ephemeral |-> e.x448_ephemeral,
                     sntrup_ciphertext |-> e.sntrup_ciphertext, nonce |-> n, encrypted_payload |-> q]
        /\ q = [ct |-> encrypt(derive_wrapping_key(e.secret), n, v.secret, to_aad(v.context)),
                commitment |-> aead_commitment(derive_wrapping_key(e.secret), n, to_aad(v.context), q.ct)]
        /\ e.secret # Failed
  BY <1>5, WrapShape
<1> PICK e : e = hybrid_encapsulate(v.pk, n)
  OBVIOUS
<1> PICK q : q = v.wire.encrypted_payload
  OBVIOUS
<1>7. /\ v.wire = [recipient_key_id |-> v.context.recipient_key_id, x448_ephemeral |-> e.x448_ephemeral,
                   sntrup_ciphertext |-> e.sntrup_ciphertext, nonce |-> n, encrypted_payload |-> q]
      /\ q = [ct |-> q.ct, commitment |-> q.commitment]
      /\ q.commitment = aead_commitment(derive_wrapping_key(e.secret), n, to_aad(v.context), q.ct)
      /\ e.secret # Failed
  BY <1>6
<1>8. key = derive_wrapping_key(e.secret) /\ wire.nonce = n /\ to_aad(context) = to_aad(v.context) /\ p.ct = q.ct
  <2>1. aead_commitment(key, wire.nonce, to_aad(context), p.ct)
          = aead_commitment(derive_wrapping_key(e.secret), n, to_aad(v.context), q.ct)
    BY <1>2, <1>3, <1>7
  <2> QED BY ONLY <2>1, CommitmentInjective
<1>9. context = v.context
  BY <1>5, <1>8, AadInjective
<1>10. p = q
  BY <1>3, <1>4, <1>7, <1>8
<1>11. PICK x, s : shared = combine_v2(x, s, wire.sntrup_ciphertext, wire.x448_ephemeral, public_key(keypair))
  BY <1>1 DEF hybrid_decapsulate
<1>12. PICK y, t : e.secret = combine_v2(y, t, e.sntrup_ciphertext, e.x448_ephemeral, v.pk)
  <2>1. hybrid_encapsulate(v.pk, n).secret # Failed
    BY <1>7
  <2>2. e.secret = combine_v2(<<"x448", {<<"ephemeral", n>>, v.pk.x448.of}>>,
                       sntrup_secret(e.sntrup_ciphertext), e.sntrup_ciphertext, e.x448_ephemeral, v.pk)
    BY <2>1, Encapsulated
  <2> QED BY ONLY <2>2
<1>13. /\ wire.sntrup_ciphertext = e.sntrup_ciphertext /\ wire.x448_ephemeral = e.x448_ephemeral
       /\ public_key(keypair) = v.pk
  <2>1. derive_wrapping_key(combine_v2(x, s, wire.sntrup_ciphertext, wire.x448_ephemeral, public_key(keypair)))
          = derive_wrapping_key(combine_v2(y, t, e.sntrup_ciphertext, e.x448_ephemeral, v.pk))
    BY <1>8, <1>11, <1>12
  <2> QED BY ONLY <2>1, CombineInjective
<1>14. wire = v.wire
  BY <1>1, <1>4, <1>7, <1>8, <1>9, <1>10, <1>13
<1> QED BY <1>9, <1>13, <1>14

LEMMA WrapStart == WrapInit => Wrapped /\ OpenedIffWrapped
BY FS_EmptySet DEF WrapInit, Wrapped, OpenedIffWrapped

LEMMA WrapStep ==
    ASSUME Wrapped /\ OpenedIffWrapped, [WrapNext]_wrap_vars
    PROVE  Wrapped' /\ OpenedIffWrapped'
<1>1. CASE UNCHANGED wrap_vars
  BY <1>1 DEF wrap_vars, Wrapped, OpenedIffWrapped
<1>2. ASSUME unwrapped = NotUnwrapped,
             NEW pk \in PublicBytes, NEW context \in WrapContexts, NEW secret \in KnownSecrets, Wrap(pk, context, secret)
      PROVE  Wrapped' /\ OpenedIffWrapped'
  <2> PICK n : n = Cardinality(wraps) + 1
    OBVIOUS
  <2> PICK w : w = [pk |-> pk, context |-> context, secret |-> secret, wire |-> wrap_key(secret, pk, context, n)]
    OBVIOUS
  <2>1. n \in Nat
    BY FS_CardinalityType DEF Wrapped
  <2>2. secret # Failed
    BY DEF KnownSecrets, Failed
  <2>3. Made(w)
    BY <1>2, <2>1, <2>2 DEF Made, Wrap
  <2>4. wraps' = wraps \union {w}
    BY <1>2 DEF Wrap
  <2>5. IsFiniteSet(wraps')
    BY <2>4, FS_AddElement DEF Wrapped
  <2> QED BY <1>2, <2>3, <2>4, <2>5 DEF Wrap, Wrapped, OpenedIffWrapped
<1>3. ASSUME NEW w \in wraps, NEW wire \in Fields(w), NEW keypair \in Loaded, NEW context \in WrapContexts,
             Unwrap(keypair, context, wire)
      PROVE  Wrapped' /\ OpenedIffWrapped'
  <2> PICK origins : origins = {v \in wraps : v.wire = wire /\ v.context = context /\ v.pk = public_key(keypair)}
    OBVIOUS
  <2>1. origins = {} => unwrap_key(wire, keypair, context) = Failed
    BY OpensOnlyAsWrapped
  <2>2. \A v \in origins : unwrap_key(wire, keypair, context) = v.secret
    BY OpensAsWrapped DEF Wrapped
  <2>3. /\ unwrapped'.keypair = keypair /\ unwrapped'.context = context /\ unwrapped'.wire = wire
        /\ unwrapped'.result = unwrap_key(wire, keypair, context) /\ wraps' = wraps
    BY <1>3 DEF Unwrap
  <2> QED BY <2>1, <2>2, <2>3 DEF Wrapped, OpenedIffWrapped
<1> QED BY <1>1, <1>2, <1>3 DEF WrapNext

(* A wrap opens for its recipient, in its context and unaltered, and never  *)
(* otherwise (OpenedIffWrapped of HybridKem, on wrap and unwrap of          *)
(* DeviceKeyWrap), whichever fields of other wraps and encodings of the     *)
(* ephemeral key arrive, and whichever halves of keypairs are loaded.       *)
THEOREM WrapsOpenAsMade == WrapSpec => []OpenedIffWrapped
<1>1. WrapInit => Wrapped /\ OpenedIffWrapped
  BY WrapStart
<1>2. Wrapped /\ OpenedIffWrapped /\ [WrapNext]_wrap_vars => (Wrapped /\ OpenedIffWrapped)'
  BY WrapStep
<1> QED BY <1>1, <1>2, PTL DEF WrapSpec

-----------------------------------------------------------------------------
(* Signatures: what is signed tells context and message apart.             *)
Text == Seq(Nat)

LEMMA SplitsAlike ==
    ASSUME NEW s \in Text, NEW t \in Text, NEW u \in Text, NEW v \in Text,
           Len(s) = Len(t), s \o u = t \o v
    PROVE  s = t /\ u = v
<1>1. /\ s \o u \in Text /\ Len(s \o u) = Len(s) + Len(u)
      /\ \A i \in 1 .. Len(s) + Len(u) : (s \o u)[i] = IF i <= Len(s) THEN s[i] ELSE u[i - Len(s)]
  BY ConcatProperties DEF Text
<1>2. /\ t \o v \in Text /\ Len(t \o v) = Len(t) + Len(v)
      /\ \A i \in 1 .. Len(t) + Len(v) : (t \o v)[i] = IF i <= Len(t) THEN t[i] ELSE v[i - Len(t)]
  BY ConcatProperties DEF Text
<1>3. Len(s) \in Nat /\ Len(t) \in Nat /\ Len(u) \in Nat /\ Len(v) \in Nat
  BY LenProperties DEF Text
<1>4. Len(u) = Len(v)
  BY <1>1, <1>2, <1>3
<1>5. \A i \in 1 .. Len(s) : s[i] = t[i]
  <2> TAKE i \in 1 .. Len(s)
  <2>1. i \in 1 .. Len(s) + Len(u) /\ i <= Len(s)
    BY <1>3
  <2>2. (s \o u)[i] = s[i]
    BY <1>1, <2>1
  <2>3. (t \o v)[i] = t[i]
    BY <1>2, <1>4, <2>1
  <2> QED BY <2>2, <2>3
<1>6. \A i \in 1 .. Len(u) : u[i] = v[i]
  <2> TAKE i \in 1 .. Len(u)
  <2> PICK j : j = Len(s) + i
    OBVIOUS
  <2>1. j \in 1 .. Len(s) + Len(u) /\ ~ (j <= Len(s)) /\ j - Len(s) = i
    BY <1>3
  <2>2. (s \o u)[j] = u[i]
    BY <1>1, <2>1
  <2>3. (t \o v)[j] = v[i]
    BY <1>2, <1>4, <2>1
  <2> QED BY <2>2, <2>3
<1> QED BY <1>4, <1>5, <1>6, SeqEqual DEF Text

LEMMA Joins ==
    ASSUME NEW s \in Text, NEW t \in Text, NEW u \in Text
    PROVE  s \o t \in Text /\ (s \o t) \o u = s \o (t \o u)
<1>1. s \in Seq(Nat) /\ t \in Seq(Nat) /\ u \in Seq(Nat)
  BY DEF Text
<1>2. s \o t \in Seq(Nat)
  BY ONLY <1>1, ConcatProperties
<1>3. (s \o t) \o u = s \o (t \o u)
  BY ONLY <1>1, ConcatAssociative, SMTT(30)
<1> QED BY ONLY <1>2, <1>3 DEF Text

Joinable(s, t, u) == (s \o t) \o u = s \o (t \o u)
LEMMA JoinsAlike ==
    ASSUME NEW s \in Text, NEW t \in Text, NEW u \in Text
    PROVE  Joinable(s, t, u)
BY Joins, Zenon DEF Joinable

LEMMA HeadInjective ==
    ASSUME NEW c \in Text, NEW d \in Text, << 0, Len(c) >> \o c = << 0, Len(d) >> \o d
    PROVE  c = d
<1>1. Len(c) \in Nat /\ Len(d) \in Nat
  BY LenProperties DEF Text
<1>2. << 0, Len(c) >> \in Text /\ << 0, Len(d) >> \in Text
  BY <1>1 DEF Text
<1>3. Len(<< 0, Len(c) >>) = Len(<< 0, Len(d) >>)
  OBVIOUS
<1> QED BY <1>2, <1>3, SplitsAlike

LEMMA RegionText ==
    ASSUME NEW c \in Text, NEW m \in Text
    PROVE  bop_context_region(c, m) \in Text
<1>1. << Len(c) >> \in Text
  BY LenProperties DEF Text
<1>2. << Len(c) >> \o c \in Text
  BY <1>1, Joins
<1>3. (<< Len(c) >> \o c) \o m \in Text
  BY ONLY <1>2, m \in Text, Joins
<1> QED BY <1>3 DEF bop_context_region

LEMMA RegionInjective ==
    ASSUME NEW c, NEW d, NEW m, NEW n, c \in Text, d \in Text, m \in Text, n \in Text,
           bop_context_region(c, m) = bop_context_region(d, n)
    PROVE  c = d /\ m = n
<1> PICK g : g = << Len(c) >>
  OBVIOUS
<1> PICK h : h = << Len(d) >>
  OBVIOUS
<1>1. Len(c) \in Nat /\ Len(d) \in Nat
  BY LenProperties DEF Text
<1>2. g \in Text /\ h \in Text /\ Len(g) = Len(h)
  BY <1>1 DEF Text
<1> PICK x : x = c \o m
  OBVIOUS
<1> PICK y : y = d \o n
  OBVIOUS
<1>3. x \in Text /\ y \in Text
  BY Joins
<1>4. g \o x = h \o y
  <2>1. (g \o c) \o m = g \o (c \o m)
    <3>1. g \in Text
      BY <1>2
    <3>2. Joinable(g, c, m)
      BY ONLY <3>1, c \in Text, m \in Text, JoinsAlike, Zenon
    <3> QED BY ONLY <3>2, Zenon DEF Joinable
  <2>2. (h \o d) \o n = h \o (d \o n)
    <3>1. h \in Text
      BY <1>2
    <3>2. Joinable(h, d, n)
      BY ONLY <3>1, d \in Text, n \in Text, JoinsAlike, Zenon
    <3> QED BY ONLY <3>2, Zenon DEF Joinable
  <2>3. (g \o c) \o m = (h \o d) \o n
    BY DEF bop_context_region
  <2> QED BY <2>1, <2>2, <2>3
<1>5. g = h /\ x = y
  BY ONLY <1>2, <1>3, <1>4, SplitsAlike
<1>6. Len(c) = Len(d)
  BY <1>5
<1> QED BY <1>5, <1>6, SplitsAlike

LEMMA RepresentativeInjective ==
    ASSUME NEW c, NEW d, NEW m, NEW n, c \in Text, d \in Text, m \in Text, n \in Text,
           message_representative(c, m) = message_representative(d, n)
    PROVE  c = d /\ m = n
<1> PICK g : g = << 0, Len(c) >>
  OBVIOUS
<1> PICK h : h = << 0, Len(d) >>
  OBVIOUS
<1>1. Len(c) \in Nat /\ Len(d) \in Nat
  BY LenProperties DEF Text
<1>2. g \in Text /\ h \in Text /\ Len(g) = Len(h)
  BY <1>1 DEF Text
<1> PICK x : x = c \o m
  OBVIOUS
<1> PICK y : y = d \o n
  OBVIOUS
<1>3. x \in Text /\ y \in Text
  BY Joins
<1>4. g \o x = h \o y
  <2>1. (g \o c) \o m = g \o (c \o m)
    <3>1. g \in Text
      BY <1>2
    <3>2. Joinable(g, c, m)
      BY ONLY <3>1, c \in Text, m \in Text, JoinsAlike, Zenon
    <3> QED BY ONLY <3>2, Zenon DEF Joinable
  <2>2. (h \o d) \o n = h \o (d \o n)
    <3>1. h \in Text
      BY <1>2
    <3>2. Joinable(h, d, n)
      BY ONLY <3>1, d \in Text, n \in Text, JoinsAlike, Zenon
    <3> QED BY ONLY <3>2, Zenon DEF Joinable
  <2>3. (g \o c) \o m = (h \o d) \o n
    BY DEF message_representative
  <2> QED BY <2>1, <2>2, <2>3
<1>5. g = h /\ x = y
  BY ONLY <1>2, <1>3, <1>4, SplitsAlike
<1>6. Len(c) = Len(d)
  BY <1>5
<1> QED BY <1>5, <1>6, SplitsAlike

(* How a signature came to be.                                             *)
MadeFor(i) ==
    /\ i.call \in Calls /\ ContextFits(i.call.entry, i.call.context)
    /\ \E n \in Nat : i = [call |-> i.call, sig |-> sign(i.call, n)]

Signed == IsFiniteSet(issued) /\ \A i \in issued : MadeFor(i)

LEMMA CallFacts ==
    ASSUME NEW c \in Calls
    PROVE  /\ c.context \in Text /\ c.message \in Text
           /\ \E k, l : c.key = << k, l >>
           /\ c.entry \in HybridEntries \union Ed448Schemes \union MlDsaSchemes
           /\ c.entry = "Plain" => c.context = << >>
BY SignatureAssumption DEF Calls, Text, PublicKeys

LEMMA EntryFamilies ==
    ASSUME NEW e \in HybridEntries \union Ed448Schemes \union MlDsaSchemes
    PROVE  /\ e \in Ed448Schemes <=> Family(e) = "Ed448"
           /\ e \in MlDsaSchemes <=> Family(e) = "MlDsa"
           /\ e \in HybridEntries <=> Family(e) = "Hybrid"
           /\ e \in Ed448Schemes => e \notin MlDsaSchemes
           /\ e \in HybridEntries => e \notin MlDsaSchemes /\ e \notin Ed448Schemes
BY DEF Family, HybridEntries, Ed448Schemes, MlDsaSchemes

LEMMA Halves ==
    ASSUME NEW sig
    PROVE  /\ sig \in Arriving("Ed448") =>
                \E x, y \in issued : /\ Family(x.call.entry) = "Ed448" /\ Family(y.call.entry) = "Ed448"
                                     /\ sig \in [R : {x.sig.R}, s : Scalars(y.sig.s)]
           /\ sig \in Arriving("MlDsa") =>
                \E x \in issued : Family(x.call.entry) = "MlDsa" /\ sig \in Hints(x.sig)
           /\ sig \in Arriving("Hybrid") =>
                \E x, y \in issued : /\ Family(x.call.entry) = "Hybrid" /\ Family(y.call.entry) = "Hybrid"
                                     /\ sig \in [rsp : Scalars(x.sig.rsp), mldsa : Hints(y.sig.mldsa)]
<1> DEFINE Of(family) == {i.sig : i \in {j \in issued : Family(j.call.entry) = family}}
           Mixed(family, x, y) ==
               CASE family = "Ed448"  -> [R : {x.R}, s : Scalars(y.s)]
                 [] family = "Hybrid" -> [rsp : Scalars(x.rsp), mldsa : Hints(y.mldsa)]
                 [] family = "MlDsa"  -> Hints(x)
<1>1. \A family : Arriving(family) = UNION {Mixed(family, x, y) : x, y \in Of(family)}
  BY DEF Arriving
<1>2. \A x, y : /\ Mixed("Ed448", x, y) = [R : {x.R}, s : Scalars(y.s)]
                /\ Mixed("Hybrid", x, y) = [rsp : Scalars(x.rsp), mldsa : Hints(y.mldsa)]
                /\ Mixed("MlDsa", x, y) = Hints(x)
  OBVIOUS
<1> HIDE DEF Mixed
<1>3. \A family : sig \in Arriving(family) =>
        \E x, y \in issued : /\ Family(x.call.entry) = family /\ Family(y.call.entry) = family
                             /\ sig \in Mixed(family, x.sig, y.sig)
  BY <1>1
<1>4. ASSUME sig \in Arriving("Ed448")
      PROVE  \E x, y \in issued : /\ Family(x.call.entry) = "Ed448" /\ Family(y.call.entry) = "Ed448"
                                  /\ sig \in [R : {x.sig.R}, s : Scalars(y.sig.s)]
  <2> PICK x \in issued, y \in issued : /\ Family(x.call.entry) = "Ed448" /\ Family(y.call.entry) = "Ed448"
                                       /\ sig \in Mixed("Ed448", x.sig, y.sig)
    BY <1>3, <1>4
  <2>1. sig \in [R : {x.sig.R}, s : Scalars(y.sig.s)]
    BY <1>2
  <2> QED BY <2>1
<1>5. ASSUME sig \in Arriving("MlDsa")
      PROVE  \E x \in issued : Family(x.call.entry) = "MlDsa" /\ sig \in Hints(x.sig)
  <2> PICK x \in issued, y \in issued : Family(x.call.entry) = "MlDsa" /\ sig \in Mixed("MlDsa", x.sig, y.sig)
    BY <1>3, <1>5
  <2>1. sig \in Hints(x.sig)
    BY <1>2
  <2> QED BY <2>1
<1>6. ASSUME sig \in Arriving("Hybrid")
      PROVE  \E x, y \in issued : /\ Family(x.call.entry) = "Hybrid" /\ Family(y.call.entry) = "Hybrid"
                                  /\ sig \in [rsp : Scalars(x.sig.rsp), mldsa : Hints(y.sig.mldsa)]
  <2> PICK x \in issued, y \in issued : /\ Family(x.call.entry) = "Hybrid" /\ Family(y.call.entry) = "Hybrid"
                                       /\ sig \in Mixed("Hybrid", x.sig, y.sig)
    BY <1>3, <1>6
  <2>1. sig \in [rsp : Scalars(x.sig.rsp), mldsa : Hints(y.sig.mldsa)]
    BY <1>2
  <2> QED BY <2>1
<1> QED BY <1>4, <1>5, <1>6

LEMMA SignOf ==
    ASSUME NEW i, MadeFor(i)
    PROVE  \E n \in Nat :
             LET c == i.call IN
             /\ c.entry \in Ed448Schemes => i.sig = sign_inner(<< c.entry, c.key[1] >>, c.context, c.message)
             /\ c.entry \in MlDsaSchemes =>
                  i.sig = mldsa_sign(c.entry, c.key[2], message_representative(c.context, c.message), n)
             /\ c.entry \in HybridEntries =>
                  i.sig = bop_sign_core(c.key, c.entry, region(c.entry, c.context, c.message), n)
<1> PICK n \in Nat : i = [call |-> i.call, sig |-> sign(i.call, n)]
  BY DEF MadeFor
<1> PICK c : c = i.call
  OBVIOUS
<1>1. i.sig = sign(c, n)
  OBVIOUS
<1>2. c.entry \in HybridEntries \union Ed448Schemes \union MlDsaSchemes
  BY CallFacts DEF MadeFor
<1>3. /\ c.entry \in Ed448Schemes => i.sig = sign_inner(<< c.entry, c.key[1] >>, c.context, c.message)
      /\ c.entry \in MlDsaSchemes =>
           i.sig = mldsa_sign(c.entry, c.key[2], message_representative(c.context, c.message), n)
      /\ c.entry \in HybridEntries =>
           i.sig = bop_sign_core(c.key, c.entry, region(c.entry, c.context, c.message), n)
  BY <1>1, <1>2, EntryFamilies DEF sign
<1> QED BY <1>3

LEMMA VerifyOf ==
    ASSUME NEW c \in Calls, NEW sig
    PROVE  /\ c.entry \in Ed448Schemes =>
                (verify(c, sig) <=> verify_inner(<< c.entry, c.key[1] >>, c.context, c.message, sig))
           /\ c.entry \in MlDsaSchemes =>
                (verify(c, sig) <=>
                   mldsa_verify(c.entry, c.key[2], message_representative(c.context, c.message), sig))
           /\ c.entry \in HybridEntries =>
                (verify(c, sig) <=> bop_verify_core(c.key, c.entry, region(c.entry, c.context, c.message), sig))
<1>1. c.entry \in HybridEntries \union Ed448Schemes \union MlDsaSchemes
  BY CallFacts
<1> QED BY <1>1, EntryFamilies DEF verify

LEMMA SameCallOf ==
    ASSUME NEW c, NEW d, c.entry \in HybridEntries \union Ed448Schemes \union MlDsaSchemes
    PROVE  SameCall(c, d) <=>
             /\ c.entry = d.entry /\ c.context = d.context /\ c.message = d.message
             /\ c.entry \in Ed448Schemes => c.key[1] = d.key[1]
             /\ c.entry \in MlDsaSchemes => c.key[2] = d.key[2]
             /\ c.entry \in HybridEntries => c.key = d.key
BY EntryFamilies DEF SameCall

(* Plain Ed448.                                                            *)
EdHead(d) == << 0, Len(d.context) >> \o d.context
EdKey(d) == << d.entry, d.key[1] >>
LEMMA EdShape ==
    ASSUME NEW i, MadeFor(i), i.call.entry \in Ed448Schemes
    PROVE  \E r :
             /\ i.sig = [R |-> Point(r), s |-> i.sig.s]
             /\ i.sig.s = [nonce |-> r, secret |-> EdKey(i.call), plus_L |-> FALSE,
                           chl |-> [head |-> EdHead(i.call), R |-> Point(r), A |-> EdKey(i.call),
                                    message |-> i.call.message]]
<1> PICK c : c = i.call
  OBVIOUS
<1>1. i.sig = sign_inner(EdKey(c), c.context, c.message)
  BY SignOf DEF EdKey
<1> PICK r : r = [prefix_of |-> EdKey(c), head |-> EdHead(c), message |-> c.message]
  OBVIOUS
<1>2. sign_inner(EdKey(c), c.context, c.message) = [R |-> Point(r), s |->
        [nonce |-> r, chl |-> [head |-> EdHead(c), R |-> Point(r), A |-> EdKey(c), message |-> c.message],
         secret |-> EdKey(c), plus_L |-> FALSE]]
  BY DEF sign_inner, EdHead, respond
<1>3. i.sig.s = [nonce |-> r, chl |-> [head |-> EdHead(c), R |-> Point(r), A |-> EdKey(c), message |-> c.message],
                 secret |-> EdKey(c), plus_L |-> FALSE]
  BY <1>1, <1>2
<1>4. i.sig = [R |-> Point(r), s |-> i.sig.s]
  BY <1>1, <1>2
<1> QED BY <1>3, <1>4

LEMMA EdVerified ==
    ASSUME NEW x, MadeFor(x), x.call.entry \in Ed448Schemes, NEW y, MadeFor(y), y.call.entry \in Ed448Schemes,
           NEW sig \in [R : {x.sig.R}, s : Scalars(y.sig.s)],
           NEW c \in Calls, c.entry \in Ed448Schemes,
           verify_inner(EdKey(c), c.context, c.message, sig)
    PROVE  SameCall(y.call, c) /\ y.sig = sig
<1>1. PICK r :
             /\ y.sig = [R |-> Point(r), s |-> y.sig.s]
             /\ y.sig.s = [nonce |-> r, secret |-> EdKey(y.call), plus_L |-> FALSE,
                           chl |-> [head |-> EdHead(y.call), R |-> Point(r), A |-> EdKey(y.call),
                                    message |-> y.call.message]]
  BY EdShape
<1>2. PICK q : sig.R = Point(q)
  <2>1. PICK q : x.sig = [R |-> Point(q), s |-> x.sig.s]
    BY EdShape
  <2>2. sig.R = x.sig.R
    OBVIOUS
  <2> QED BY <2>1, <2>2
<1> PICK k : k = [head |-> EdHead(c), R |-> sig.R, A |-> EdKey(c), message |-> c.message]
  OBVIOUS
<1>3. guard_canonical(sig.s) /\ bop_extcom(EdKey(c), k, sig.s) = sig.R
  BY DEF verify_inner, EdHead
<1>4. sig.s = y.sig.s
  BY <1>1, <1>3 DEF guard_canonical, Scalars
<1>5. \A z : [off |-> z] # Point(q)
  BY DEF Point
<1>6. sig.s.chl = k /\ sig.s.secret = EdKey(c) /\ Point(sig.s.nonce) = sig.R
  BY <1>2, <1>3, <1>5 DEF bop_extcom
<1>7. EdKey(y.call) = EdKey(c) /\ Point(r) = sig.R /\ EdHead(y.call) = EdHead(c) /\ y.call.message = c.message
  BY <1>1, <1>4, <1>6
<1>8. y.call.context = c.context
  BY <1>7, CallFacts, HeadInjective DEF EdHead, MadeFor
<1>9. y.call.entry = c.entry /\ y.call.key[1] = c.key[1]
  BY <1>7 DEF EdKey
<1>10. sig = [R |-> sig.R, s |-> sig.s]
  OBVIOUS
<1>11. y.sig = sig
  BY <1>1, <1>4, <1>7, <1>10
<1>12. SameCall(y.call, c)
  BY <1>7, <1>8, <1>9, SameCallOf, EntryFamilies
<1> QED BY <1>11, <1>12

LEMMA EdAccepts ==
    ASSUME NEW y, MadeFor(y), y.call.entry \in Ed448Schemes, NEW c, SameCall(y.call, c)
    PROVE  verify_inner(EdKey(c), c.context, c.message, y.sig)
<1>1. PICK r :
             /\ y.sig = [R |-> Point(r), s |-> y.sig.s]
             /\ y.sig.s = [nonce |-> r, secret |-> EdKey(y.call), plus_L |-> FALSE,
                           chl |-> [head |-> EdHead(y.call), R |-> Point(r), A |-> EdKey(y.call),
                                    message |-> y.call.message]]
  BY EdShape
<1>2. EdKey(c) = EdKey(y.call) /\ EdHead(c) = EdHead(y.call) /\ c.message = y.call.message
  <2> PICK z : z = y.call
    OBVIOUS
  <2>1. z.entry \in Ed448Schemes /\ z.entry \in HybridEntries \union Ed448Schemes \union MlDsaSchemes
    OBVIOUS
  <2>2. z.entry \notin MlDsaSchemes /\ z.entry \notin HybridEntries
    BY ONLY <2>1, EntryFamilies
  <2>3. /\ z.entry = c.entry /\ z.context = c.context /\ z.message = c.message /\ z.key[1] = c.key[1]
    BY ONLY <2>1, SameCall(z, c), SameCallOf
  <2>4. c.entry \in Ed448Schemes
    BY ONLY <2>1, <2>3
  <2> QED BY ONLY <2>1, <2>3, <2>4, z = y.call DEF EdKey, EdHead
<1> PICK k : k = [head |-> EdHead(c), R |-> y.sig.R, A |-> EdKey(c), message |-> c.message]
  OBVIOUS
<1>3. /\ y.sig.s.plus_L = FALSE /\ y.sig.s.chl = k /\ y.sig.s.secret = EdKey(c)
      /\ y.sig.R = Point(y.sig.s.nonce)
  BY <1>1, <1>2
<1>4. verify_inner(EdKey(c), c.context, c.message, y.sig) <=>
        guard_canonical(y.sig.s) /\ bop_extcom(EdKey(c), k, y.sig.s) = y.sig.R
  BY DEF verify_inner, EdHead
<1> QED BY <1>3, <1>4 DEF guard_canonical, bop_extcom

(* Plain ML-DSA.                                                           *)
Twice(s) == [s EXCEPT !.repeated = TRUE]
Once(s)  == [s EXCEPT !.repeated = FALSE]

LEMMA HintSet ==
    ASSUME NEW s, NEW e, NEW k, NEW o, NEW d,
           s = [scheme |-> e, seed |-> k, over |-> o, repeated |-> FALSE, rnd |-> d]
    PROVE  Twice(s).repeated = TRUE /\ Once(Twice(s)) = s
<1> DEFINE Rec(v) == [scheme |-> e, seed |-> k, over |-> o, repeated |-> v, rnd |-> d]
<1>1. \A u, v : [Rec(u) EXCEPT !.repeated = v] = Rec(v)
  OBVIOUS
<1>2. Rec(TRUE).repeated = TRUE
  OBVIOUS
<1>3. s = Rec(FALSE)
  OBVIOUS
<1> HIDE DEF Rec
<1>4. Twice(s) = Rec(TRUE)
  BY <1>1, <1>3, Zenon DEF Twice
<1>5. [Rec(TRUE) EXCEPT !.repeated = FALSE] = Rec(FALSE)
  BY ONLY <1>1, Zenon
<1>6. Once(Twice(s)) = s
  BY ONLY <1>3, <1>4, <1>5, Zenon DEF Once
<1> QED BY <1>2, <1>4, <1>6

LEMMA MlDsaShape ==
    ASSUME NEW i, MadeFor(i), i.call.entry \in MlDsaSchemes
    PROVE  \E rnd : i.sig = [scheme |-> i.call.entry, seed |-> i.call.key[2],
                             over |-> message_representative(i.call.context, i.call.message),
                             repeated |-> FALSE, rnd |-> rnd]
<1> PICK n : i.sig = mldsa_sign(i.call.entry, i.call.key[2],
                                message_representative(i.call.context, i.call.message), n)
  BY SignOf
<1> QED BY DEF mldsa_sign

LEMMA MlDsaVerified ==
    ASSUME NEW x, MadeFor(x), x.call.entry \in MlDsaSchemes, NEW sig \in Hints(x.sig),
           NEW c \in Calls, c.entry \in MlDsaSchemes,
           mldsa_verify(c.entry, c.key[2], message_representative(c.context, c.message), sig)
    PROVE  SameCall(x.call, c) /\ SameBytes(x.call, x.sig, sig)
<1>1. PICK rnd : x.sig = [scheme |-> x.call.entry, seed |-> x.call.key[2],
                          over |-> message_representative(x.call.context, x.call.message),
                          repeated |-> FALSE, rnd |-> rnd]
  BY MlDsaShape
<1>2. sig = x.sig \/ sig = [x.sig EXCEPT !.repeated = TRUE]
  BY DEF Hints
<1>3. sig.scheme = x.call.entry /\ sig.seed = x.call.key[2]
      /\ sig.over = message_representative(x.call.context, x.call.message)
  BY <1>1, <1>2
<1>4. /\ x.call.entry = c.entry /\ x.call.key[2] = c.key[2]
      /\ message_representative(x.call.context, x.call.message) = message_representative(c.context, c.message)
      /\ sig.repeated => c.entry = "MlDsa65B"
  BY <1>3 DEF mldsa_verify
<1>5. x.call.context = c.context /\ x.call.message = c.message
  BY <1>4, CallFacts, RepresentativeInjective DEF MadeFor
<1>6. SameCall(x.call, c)
  BY <1>4, <1>5, SameCallOf, EntryFamilies
<1>7. CASE sig = x.sig
  BY <1>6, <1>7 DEF SameBytes
<1>8. CASE sig = [x.sig EXCEPT !.repeated = TRUE]
  <2>1. Twice(x.sig).repeated = TRUE /\ Once(Twice(x.sig)) = x.sig
    BY ONLY <1>1, HintSet
  <2>2. sig = Twice(x.sig)
    BY ONLY <1>8 DEF Twice
  <2>3. x.sig = [sig EXCEPT !.repeated = FALSE]
    BY ONLY <2>1, <2>2, Zenon DEF Once
  <2> QED BY <1>4, <1>6, <2>1, <2>2, <2>3 DEF SameBytes
<1> QED BY <1>2, <1>7, <1>8

LEMMA MlDsaAccepts ==
    ASSUME NEW y, MadeFor(y), y.call.entry \in MlDsaSchemes, NEW x, MadeFor(x), x.call.entry \in MlDsaSchemes,
           NEW sig \in Hints(x.sig), NEW c, SameCall(y.call, c), SameBytes(y.call, y.sig, sig)
    PROVE  mldsa_verify(c.entry, c.key[2], message_representative(c.context, c.message), sig)
<1>1. PICK rnd : y.sig = [scheme |-> y.call.entry, seed |-> y.call.key[2],
                          over |-> message_representative(y.call.context, y.call.message),
                          repeated |-> FALSE, rnd |-> rnd]
  BY MlDsaShape
<1>2. PICK a, b, o, r, d : sig = [scheme |-> a, seed |-> b, over |-> o, repeated |-> r, rnd |-> d]
  <2>1. PICK rn : x.sig = [scheme |-> x.call.entry, seed |-> x.call.key[2],
                           over |-> message_representative(x.call.context, x.call.message),
                           repeated |-> FALSE, rnd |-> rn]
    BY MlDsaShape
  <2>2. sig = x.sig \/ sig = [x.sig EXCEPT !.repeated = TRUE]
    BY DEF Hints
  <2> QED BY <2>1, <2>2
<1>3. /\ y.call.entry = c.entry /\ y.call.key[2] = c.key[2]
      /\ y.call.context = c.context /\ y.call.message = c.message
  BY SameCallOf, EntryFamilies
<1>4. CASE sig = y.sig
  BY <1>1, <1>3, <1>4 DEF mldsa_verify
<1>5. CASE y.call.entry = "MlDsa65B" /\ y.sig = [sig EXCEPT !.repeated = FALSE]
  <2>1. sig.scheme = y.sig.scheme /\ sig.seed = y.sig.seed /\ sig.over = y.sig.over
    BY <1>2, <1>5
  <2> QED BY <1>1, <1>3, <1>5, <2>1 DEF mldsa_verify
<1> QED BY <1>4, <1>5 DEF SameBytes

(* The hybrid.                                                             *)
LEMMA RegionTells ==
    ASSUME NEW c \in Calls, NEW d \in Calls, c.entry \in HybridEntries, c.entry = d.entry,
           region(c.entry, c.context, c.message) = region(d.entry, d.context, d.message)
    PROVE  c.context = d.context /\ c.message = d.message
<1>1. c.context \in Text /\ d.context \in Text /\ c.message \in Text /\ d.message \in Text
  BY CallFacts
<1>2. CASE c.entry = "Plain"
  BY <1>2, CallFacts DEF region
<1>3. CASE c.entry = "Context"
  <2>1. bop_context_region(c.context, c.message) = bop_context_region(d.context, d.message)
    BY <1>3 DEF region
  <2> QED BY <1>1, <2>1, RegionInjective
<1>4. CASE c.entry = "Prehashed"
  <2> PICK a : a = bop_context_region(c.context, c.message)
    OBVIOUS
  <2> PICK b : b = bop_context_region(d.context, d.message)
    OBVIOUS
  <2>1. << Digest >> \o a = << Digest >> \o b
    BY <1>4 DEF region
  <2>2. << Digest >> \in Text /\ Len(<< Digest >>) = 1
    BY DEF Text, Digest
  <2>3. a \in Text
    BY <1>1, RegionText
  <2>4. b \in Text
    BY <1>1, RegionText
  <2>5. a = b
    BY ONLY <2>1, <2>2, <2>3, <2>4, SplitsAlike
  <2>6. bop_context_region(c.context, c.message) = bop_context_region(d.context, d.message)
    BY <2>5
  <2> QED BY ONLY <1>1, <2>6, RegionInjective
<1> QED BY <1>2, <1>3, <1>4 DEF HybridEntries

HyOver(d, n) == [m_prime |-> bop_m_prime(d.entry, d.key[1], d.key[2], region(d.entry, d.context, d.message), Point(n))]

LEMMA HyShape ==
    ASSUME NEW i, MadeFor(i), i.call.entry \in HybridEntries
    PROVE  \E n, rnd :
             /\ i.sig = [rsp |-> i.sig.rsp, mldsa |-> i.sig.mldsa]
             /\ i.sig.rsp = [nonce |-> n, chl |-> i.sig.mldsa, secret |-> i.call.key[1], plus_L |-> FALSE]
             /\ i.sig.mldsa = [scheme |-> HybridMlDsa, seed |-> i.call.key[2], over |-> HyOver(i.call, n),
                               repeated |-> FALSE, rnd |-> rnd]
<1> PICK c : c = i.call
  OBVIOUS
<1>1. PICK n : i.sig = bop_sign_core(c.key, c.entry, region(c.entry, c.context, c.message), n)
  BY SignOf
<1> PICK m : m = mldsa_sign(HybridMlDsa, c.key[2], HyOver(c, n), n)
  OBVIOUS
<1>2. i.sig = [rsp |-> respond(n, m, c.key[1]), mldsa |-> m]
  BY <1>1 DEF bop_sign_core, HyOver
<1>3. i.sig.mldsa = m /\ i.sig.rsp = respond(n, m, c.key[1])
  BY ONLY <1>2
<1>4. i.sig = [rsp |-> i.sig.rsp, mldsa |-> i.sig.mldsa]
  BY ONLY <1>2
<1>5. i.sig.rsp = [nonce |-> n, chl |-> i.sig.mldsa, secret |-> c.key[1], plus_L |-> FALSE]
  BY ONLY <1>3 DEF respond
<1>6. \E rnd : m = [scheme |-> HybridMlDsa, seed |-> c.key[2], over |-> HyOver(c, n), repeated |-> FALSE, rnd |-> rnd]
  BY DEF mldsa_sign
<1> QED BY <1>3, <1>4, <1>5, <1>6

LEMMA OverTells ==
    ASSUME NEW c, NEW d, NEW n, NEW R,
           HyOver(c, n) = [m_prime |-> bop_m_prime(d.entry, d.key[1], d.key[2],
                                                   region(d.entry, d.context, d.message), R)]
    PROVE  /\ c.entry = d.entry /\ c.key[1] = d.key[1] /\ c.key[2] = d.key[2] /\ R = Point(n)
           /\ region(c.entry, c.context, c.message) = region(d.entry, d.context, d.message)
<1> PICK a : a = region(c.entry, c.context, c.message)
  OBVIOUS
<1> PICK b : b = region(d.entry, d.context, d.message)
  OBVIOUS
<1> PICK p : p = Point(n)
  OBVIOUS
<1>1. [m_prime |-> bop_m_prime(c.entry, c.key[1], c.key[2], a, p)]
      = [m_prime |-> bop_m_prime(d.entry, d.key[1], d.key[2], b, R)]
  BY DEF HyOver
<1>2. bop_m_prime(c.entry, c.key[1], c.key[2], a, p) = bop_m_prime(d.entry, d.key[1], d.key[2], b, R)
  BY ONLY <1>1
<1>3. c.entry = d.entry /\ c.key[1] = d.key[1] /\ c.key[2] = d.key[2] /\ a = b /\ p = R
  BY ONLY <1>2 DEF bop_m_prime
<1> QED BY <1>3

LEMMA HyVerified ==
    ASSUME NEW x, MadeFor(x), x.call.entry \in HybridEntries, NEW y, MadeFor(y), y.call.entry \in HybridEntries,
           NEW sig \in [rsp : Scalars(x.sig.rsp), mldsa : Hints(y.sig.mldsa)],
           NEW c \in Calls, c.entry \in HybridEntries,
           bop_verify_core(c.key, c.entry, region(c.entry, c.context, c.message), sig)
    PROVE  SameCall(y.call, c) /\ y.sig = sig
<1>1. PICK n, rnd :
             /\ x.sig.rsp = [nonce |-> n, chl |-> x.sig.mldsa, secret |-> x.call.key[1], plus_L |-> FALSE]
             /\ x.sig.mldsa = [scheme |-> HybridMlDsa, seed |-> x.call.key[2], over |-> HyOver(x.call, n),
                               repeated |-> FALSE, rnd |-> rnd]
  BY HyShape
<1>2. PICK q, qrnd :
             /\ y.sig = [rsp |-> y.sig.rsp, mldsa |-> y.sig.mldsa]
             /\ y.sig.rsp = [nonce |-> q, chl |-> y.sig.mldsa, secret |-> y.call.key[1], plus_L |-> FALSE]
             /\ y.sig.mldsa = [scheme |-> HybridMlDsa, seed |-> y.call.key[2], over |-> HyOver(y.call, q),
                               repeated |-> FALSE, rnd |-> qrnd]
  BY HyShape
<1> PICK R : R = bop_extcom(c.key[1], sig.mldsa, sig.rsp)
  OBVIOUS
<1>3. /\ guard_canonical(sig.rsp)
      /\ sig.mldsa.seed = c.key[2]
      /\ sig.mldsa.over = [m_prime |-> bop_m_prime(c.entry, c.key[1], c.key[2],
                                                   region(c.entry, c.context, c.message), R)]
  BY DEF bop_verify_core, mldsa_verify
<1>4. /\ sig.rsp \in Scalars(x.sig.rsp) /\ sig.mldsa \in Hints(y.sig.mldsa)
      /\ sig = [rsp |-> sig.rsp, mldsa |-> sig.mldsa]
  OBVIOUS
<1>5. sig.rsp = x.sig.rsp
  BY ONLY <1>1, <1>3, <1>4 DEF guard_canonical, Scalars
<1>6. sig.mldsa.over = HyOver(y.call, q)
  BY ONLY <1>2, <1>4 DEF Hints
<1>7. /\ y.call.entry = c.entry /\ y.call.key[1] = c.key[1] /\ y.call.key[2] = c.key[2] /\ R = Point(q)
      /\ region(y.call.entry, y.call.context, y.call.message) = region(c.entry, c.context, c.message)
  <2>1. HyOver(y.call, q) = [m_prime |-> bop_m_prime(c.entry, c.key[1], c.key[2],
                                                     region(c.entry, c.context, c.message), R)]
    BY ONLY <1>3, <1>6
  <2> QED BY ONLY <2>1, OverTells
<1>8. sig.rsp.chl = sig.mldsa /\ sig.rsp.secret = c.key[1] /\ sig.rsp.nonce = q
  <2>1. \A z : [off |-> z] # Point(q)
    BY DEF Point
  <2>2. sig.rsp.chl = sig.mldsa /\ sig.rsp.secret = c.key[1] /\ Point(sig.rsp.nonce) = Point(q)
    BY ONLY <2>1, <1>7, R = bop_extcom(c.key[1], sig.mldsa, sig.rsp) DEF bop_extcom
  <2> QED BY ONLY <2>2 DEF Point
<1>9. x.sig.mldsa = sig.mldsa
  BY ONLY <1>1, <1>5, <1>8
<1>10. sig.mldsa = y.sig.mldsa
  BY ONLY <1>1, <1>2, <1>4, <1>9 DEF Hints
<1>11. sig.rsp = y.sig.rsp
  <2>1. n = q
    BY ONLY <1>1, <1>5, <1>8
  <2>2. x.call.key[1] = y.call.key[1]
    BY ONLY <1>1, <1>5, <1>7, <1>8
  <2>3. x.sig.mldsa = y.sig.mldsa
    BY ONLY <1>9, <1>10
  <2> QED BY ONLY <1>1, <1>2, <1>5, <2>1, <2>2, <2>3
<1>12. y.sig = sig
  BY ONLY <1>2, <1>4, <1>10, <1>11
<1>13. y.call.context = c.context /\ y.call.message = c.message
  BY <1>7, RegionTells DEF MadeFor
<1>14. y.call.key = c.key
  <2>1. y.call \in Calls
    BY DEF MadeFor
  <2> QED BY <1>7, <2>1, CallFacts
<1>15. SameCall(y.call, c)
  BY <1>7, <1>13, <1>14, SameCallOf, EntryFamilies
<1> QED BY <1>12, <1>15

LEMMA HyAccepts ==
    ASSUME NEW y, MadeFor(y), y.call.entry \in HybridEntries, NEW c, SameCall(y.call, c)
    PROVE  bop_verify_core(c.key, c.entry, region(c.entry, c.context, c.message), y.sig)
<1>1. PICK q, qrnd :
             /\ y.sig = [rsp |-> y.sig.rsp, mldsa |-> y.sig.mldsa]
             /\ y.sig.rsp = [nonce |-> q, chl |-> y.sig.mldsa, secret |-> y.call.key[1], plus_L |-> FALSE]
             /\ y.sig.mldsa = [scheme |-> HybridMlDsa, seed |-> y.call.key[2], over |-> HyOver(y.call, q),
                               repeated |-> FALSE, rnd |-> qrnd]
  BY HyShape
<1>2. /\ y.call.entry = c.entry /\ y.call.key = c.key
      /\ y.call.context = c.context /\ y.call.message = c.message
  BY SameCallOf, EntryFamilies
<1>3. guard_canonical(y.sig.rsp)
  BY ONLY <1>1 DEF guard_canonical
<1>4. bop_extcom(c.key[1], y.sig.mldsa, y.sig.rsp) = Point(q)
  BY ONLY <1>1, <1>2 DEF bop_extcom
<1>5. y.sig.mldsa.over = [m_prime |-> bop_m_prime(c.entry, c.key[1], c.key[2],
                                                  region(c.entry, c.context, c.message), Point(q))]
  BY ONLY <1>1, <1>2 DEF HyOver
<1>6. y.sig.mldsa.scheme = HybridMlDsa /\ y.sig.mldsa.seed = c.key[2] /\ y.sig.mldsa.repeated = FALSE
  BY ONLY <1>1, <1>2
<1> QED BY ONLY <1>3, <1>4, <1>5, <1>6 DEF bop_verify_core, mldsa_verify

LEMMA VerdictIsRight ==
    ASSUME Signed, NEW c \in Calls, NEW sig \in Arriving(Family(c.entry))
    PROVE  (ContextFits(c.entry, c.context) /\ verify(c, sig))
           <=> \E i \in issued : SameCall(i.call, c) /\ SameBytes(i.call, i.sig, sig)
<1>1. /\ \A i \in issued : MadeFor(i) /\ i.call \in Calls /\ ContextFits(i.call.entry, i.call.context)
      /\ c.entry \in HybridEntries \union Ed448Schemes \union MlDsaSchemes
      /\ \A i \in issued : i.call.entry \in HybridEntries \union Ed448Schemes \union MlDsaSchemes
  BY CallFacts DEF Signed, MadeFor
<1>2. \A i \in issued : SameCall(i.call, c) =>
        i.call.entry = c.entry /\ ContextFits(c.entry, c.context)
  <2> TAKE i \in issued
  <2> HAVE SameCall(i.call, c)
  <2>1. i.call.entry = c.entry /\ i.call.context = c.context
    BY <1>1, SameCallOf
  <2> QED BY <1>1, <2>1
<1>3. ASSUME NEW i \in issued, c.entry \notin MlDsaSchemes, SameCall(i.call, c), SameBytes(i.call, i.sig, sig)
      PROVE  sig = i.sig
  <2>1. i.call.entry # "MlDsa65B"
    BY <1>2, <1>3 DEF MlDsaSchemes
  <2> QED BY <1>3, <2>1 DEF SameBytes
<1>4. CASE c.entry \in Ed448Schemes
  <2>1. verify(c, sig) <=> verify_inner(EdKey(c), c.context, c.message, sig)
    BY <1>4, VerifyOf DEF EdKey
  <2>2. c.entry \notin MlDsaSchemes
    BY <1>4, <1>1, EntryFamilies
  <2>3. PICK x \in issued, y \in issued :
          /\ x.call.entry \in Ed448Schemes /\ y.call.entry \in Ed448Schemes
          /\ sig \in [R : {x.sig.R}, s : Scalars(y.sig.s)]
    <3>1. sig \in Arriving("Ed448")
      BY <1>1, <1>4, EntryFamilies
    <3>2. PICK x \in issued, y \in issued :
            /\ Family(x.call.entry) = "Ed448" /\ Family(y.call.entry) = "Ed448"
            /\ sig \in [R : {x.sig.R}, s : Scalars(y.sig.s)]
      BY <3>1, Halves
    <3>3. x.call.entry \in Ed448Schemes /\ y.call.entry \in Ed448Schemes
      BY <1>1, <3>2, EntryFamilies
    <3> QED BY <3>2, <3>3
  <2>4. ASSUME verify_inner(EdKey(c), c.context, c.message, sig)
        PROVE  SameCall(y.call, c) /\ y.sig = sig
    BY <1>1, <1>4, <2>3, <2>4, EdVerified
  <2>5. ASSUME NEW i \in issued, SameCall(i.call, c), SameBytes(i.call, i.sig, sig)
        PROVE  verify_inner(EdKey(c), c.context, c.message, sig)
    <3>1. sig = i.sig
      BY <1>3, <2>2, <2>5
    <3>2. i.call.entry \in Ed448Schemes
      BY <1>2, <1>4, <2>5
    <3>3. verify_inner(EdKey(c), c.context, c.message, i.sig)
      BY <1>1, <2>5, <3>2, EdAccepts
    <3> QED BY <3>1, <3>3
  <2> QED BY <1>2, <2>1, <2>4, <2>5 DEF SameBytes
<1>5. CASE c.entry \in HybridEntries
  <2>1. verify(c, sig) <=> bop_verify_core(c.key, c.entry, region(c.entry, c.context, c.message), sig)
    BY <1>5, VerifyOf
  <2>2. c.entry \notin MlDsaSchemes
    BY <1>5, <1>1, EntryFamilies
  <2>3. PICK x \in issued, y \in issued :
          /\ x.call.entry \in HybridEntries /\ y.call.entry \in HybridEntries
          /\ sig \in [rsp : Scalars(x.sig.rsp), mldsa : Hints(y.sig.mldsa)]
    <3>1. sig \in Arriving("Hybrid")
      BY <1>1, <1>5, EntryFamilies
    <3>2. PICK x \in issued, y \in issued :
            /\ Family(x.call.entry) = "Hybrid" /\ Family(y.call.entry) = "Hybrid"
            /\ sig \in [rsp : Scalars(x.sig.rsp), mldsa : Hints(y.sig.mldsa)]
      BY <3>1, Halves
    <3>3. x.call.entry \in HybridEntries /\ y.call.entry \in HybridEntries
      BY <1>1, <3>2, EntryFamilies
    <3> QED BY <3>2, <3>3
  <2>4. ASSUME bop_verify_core(c.key, c.entry, region(c.entry, c.context, c.message), sig)
        PROVE  SameCall(y.call, c) /\ y.sig = sig
    BY <1>1, <1>5, <2>3, <2>4, HyVerified
  <2>5. ASSUME NEW i \in issued, SameCall(i.call, c), SameBytes(i.call, i.sig, sig)
        PROVE  bop_verify_core(c.key, c.entry, region(c.entry, c.context, c.message), sig)
    <3>1. sig = i.sig
      BY <1>3, <2>2, <2>5
    <3>2. i.call.entry \in HybridEntries
      BY <1>2, <1>5, <2>5
    <3>3. bop_verify_core(c.key, c.entry, region(c.entry, c.context, c.message), i.sig)
      BY <1>1, <2>5, <3>2, HyAccepts
    <3> QED BY <3>1, <3>3
  <2> QED BY <1>2, <2>1, <2>4, <2>5 DEF SameBytes
<1>6. CASE c.entry \in MlDsaSchemes
  <2> PICK over : over = message_representative(c.context, c.message)
    OBVIOUS
  <2>1. verify(c, sig) <=> mldsa_verify(c.entry, c.key[2], over, sig)
    BY <1>6, VerifyOf
  <2>2. PICK x \in issued : x.call.entry \in MlDsaSchemes /\ sig \in Hints(x.sig)
    <3>1. sig \in Arriving("MlDsa")
      BY <1>1, <1>6, EntryFamilies
    <3>2. PICK x \in issued : Family(x.call.entry) = "MlDsa" /\ sig \in Hints(x.sig)
      BY <3>1, Halves
    <3>3. x.call.entry \in MlDsaSchemes
      BY <1>1, <3>2, EntryFamilies
    <3> QED BY <3>2, <3>3
  <2>3. ASSUME mldsa_verify(c.entry, c.key[2], over, sig)
        PROVE  SameCall(x.call, c) /\ SameBytes(x.call, x.sig, sig)
    BY <1>1, <1>6, <2>2, <2>3, MlDsaVerified
  <2>4. ASSUME NEW i \in issued, SameCall(i.call, c), SameBytes(i.call, i.sig, sig)
        PROVE  mldsa_verify(c.entry, c.key[2], over, sig)
    <3>1. i.call.entry \in MlDsaSchemes
      BY <1>2, <1>6, <2>4
    <3> QED BY <1>1, <2>2, <2>4, <3>1, MlDsaAccepts
  <2> QED BY <1>2, <2>1, <2>3, <2>4
<1> QED BY <1>1, <1>4, <1>5, <1>6

LEMMA SignStart ==
    ASSUME SignInit
    PROVE  Signed /\ AcceptedIffIssued
BY FS_EmptySet DEF SignInit, Signed, AcceptedIffIssued

LEMMA SignStep ==
    ASSUME Signed, AcceptedIffIssued, [SignNext]_sig_vars
    PROVE  Signed' /\ AcceptedIffIssued'
<1>1. CASE UNCHANGED sig_vars
  BY <1>1 DEF sig_vars, Signed, AcceptedIffIssued, MadeFor
<1>2. ASSUME verdict = NoVerdict, NEW c \in Calls, Issue(c)
      PROVE  Signed' /\ AcceptedIffIssued'
  <2> PICK fresh : fresh = Cardinality(issued) + 1
    OBVIOUS
  <2>1. /\ ContextFits(c.entry, c.context)
        /\ issued' = issued \union {[call |-> c, sig |-> sign(c, fresh)]}
        /\ verdict' = NoVerdict
    BY <1>2 DEF Issue
  <2>2. fresh \in Nat
    BY FS_CardinalityType DEF Signed
  <2>3. MadeFor([call |-> c, sig |-> sign(c, fresh)])
    <3> PICK s : s = sign(c, fresh)
      OBVIOUS
    <3>1. [call |-> c, sig |-> s].call = c
      OBVIOUS
    <3> QED BY <2>1, <2>2, <3>1 DEF MadeFor
  <2>4. IsFiniteSet(issued')
    BY <2>1, FS_AddElement DEF Signed
  <2>5. Signed'
    BY <2>1, <2>3, <2>4 DEF Signed
  <2> QED BY <2>1, <2>5 DEF AcceptedIffIssued
<1>3. ASSUME NEW c \in Calls, NEW sig \in Arriving(Family(c.entry)), VerifyCall(c, sig)
      PROVE  Signed' /\ AcceptedIffIssued'
  <2>1. /\ verdict' = [call |-> c, sig |-> sig, accepted |-> ContextFits(c.entry, c.context) /\ verify(c, sig)]
        /\ issued' = issued
    BY <1>3 DEF VerifyCall
  <2>2. /\ verdict'.call = c /\ verdict'.sig = sig
        /\ verdict'.accepted <=> ContextFits(c.entry, c.context) /\ verify(c, sig)
    BY <2>1
  <2>3. Signed'
    BY <2>1 DEF Signed
  <2> QED BY <2>1, <2>2, <2>3, VerdictIsRight DEF AcceptedIffIssued
<1> QED BY <1>1, <1>2, <1>3 DEF SignNext

(* A signature is accepted for exactly the call that made it, the scheme and  *)
(* key, the entry point, the context and the message, in the one encoding the *)
(* signer produced, whichever halves of which signatures are put together;    *)
(* only a plain ML-DSA-B signature may carry its hints another way (sign and  *)
(* verify of signature.rs, ed448.rs, ed448b.rs, mldsa65.rs and mldsa65b.rs).  *)
THEOREM AcceptedAsIssued == SignSpec => []AcceptedIffIssued
<1>1. SignInit => Signed /\ AcceptedIffIssued
  BY SignStart
<1>2. Signed /\ AcceptedIffIssued /\ [SignNext]_sig_vars => (Signed /\ AcceptedIffIssued)'
  BY SignStep
<1> QED BY <1>1, <1>2, PTL DEF SignSpec

-----------------------------------------------------------------------------
(* Safety numbers: two texts are in one order, and sorting forgets no more    *)
(* than the order of a list.                                                  *)
LEMMA LessAt ==
    ASSUME NEW s \in Text, NEW t \in Text, NEW i \in 1 .. Len(s), i \in 1 .. Len(t), s[i] < t[i],
           \A j \in 1 .. i - 1 : s[j] = t[j]
    PROVE  Before(s, t) /\ ~ Before(t, s)
<1>1. /\ DOMAIN s = 1 .. Len(s) /\ DOMAIN t = 1 .. Len(t) /\ Len(s) \in Nat /\ Len(t) \in Nat
      /\ \A j \in 1 .. Len(s) : s[j] \in Nat
      /\ \A j \in 1 .. Len(t) : t[j] \in Nat
  BY LenProperties, ElementOfSeq DEF Text
<1>2. Before(s, t)
  BY <1>1 DEF Before
<1>3. ASSUME Len(t) < Len(s), SubSeq(s, 1, Len(t)) = t
      PROVE  FALSE
  <2>1. SubSeq(s, 1, Len(t))[i] = s[i]
    BY <1>1, <1>3
  <2> QED BY <1>1, <1>3, <2>1
<1>4. ASSUME NEW k \in DOMAIN t \intersect DOMAIN s, t[k] < s[k], \A j \in 1 .. k - 1 : t[j] = s[j]
      PROVE  FALSE
  <2>1. CASE k < i
    BY <1>1, <1>4, <2>1
  <2>2. CASE k = i
    BY <1>1, <1>4, <2>2
  <2>3. CASE k > i
    <3>1. i \in 1 .. k - 1 /\ s[i] \in Nat
      BY <1>1, <2>3
    <3>2. t[i] = s[i]
      BY ONLY <1>4, <3>1, Zenon
    <3>3. \A z \in Nat : ~ (z < z)
      OBVIOUS
    <3> QED BY ONLY s[i] < t[i], <3>1, <3>2, <3>3, Zenon
  <2>4. k \in Int /\ i \in Int
    BY <1>1
  <2> QED BY ONLY <2>1, <2>2, <2>3, <2>4
<1> QED BY <1>2, <1>3, <1>4 DEF Before

LEMMA LessByLength ==
    ASSUME NEW s \in Text, NEW t \in Text, Len(s) < Len(t), \A j \in 1 .. Len(s) : s[j] = t[j]
    PROVE  Before(s, t) /\ ~ Before(t, s)
<1>1. /\ DOMAIN s = 1 .. Len(s) /\ DOMAIN t = 1 .. Len(t) /\ Len(s) \in Nat /\ Len(t) \in Nat
      /\ \A j \in 1 .. Len(s) : s[j] \in Nat
      /\ \A j \in 1 .. Len(t) : t[j] \in Nat
  BY LenProperties, ElementOfSeq DEF Text
<1>2. SubSeq(t, 1, Len(s)) = s
  <2>1. /\ SubSeq(t, 1, Len(s)) \in Seq(Nat) /\ Len(SubSeq(t, 1, Len(s))) = Len(s)
        /\ \A j \in 1 .. Len(s) : SubSeq(t, 1, Len(s))[j] = t[j]
    BY <1>1 DEF Text
  <2> QED BY <2>1, SeqEqual DEF Text
<1> QED BY <1>1, <1>2 DEF Before

LEMMA OneComesFirst ==
    ASSUME NEW s \in Text, NEW t \in Text, s # t
    PROVE  Before(s, t) <=> ~ Before(t, s)
<1>1. Len(s) \in Nat /\ Len(t) \in Nat
  BY LenProperties DEF Text
<1> PICK D : D = {i \in 1 .. Len(s) : i \in 1 .. Len(t) /\ s[i] # t[i]}
  OBVIOUS
<1>2. CASE D = {}
  <2>1. \A i : i \in 1 .. Len(s) /\ i \in 1 .. Len(t) => s[i] = t[i]
    BY <1>2
  <2>2. Len(s) # Len(t)
    BY <2>1, SeqEqual DEF Text
  <2>3. CASE Len(s) < Len(t)
    BY <1>1, <2>1, <2>3, LessByLength
  <2>4. CASE Len(t) < Len(s)
    BY <1>1, <2>1, <2>4, LessByLength
  <2> QED BY <1>1, <2>2, <2>3, <2>4
<1>3. CASE D # {}
  <2>1. PICK i \in D : \A j \in D : ~ (<<j, i>> \in OpToRel(<, Nat))
    <3>1. D \subseteq Nat
      OBVIOUS
    <3> QED BY <1>3, <3>1, WFMin, NatLessThanWellFounded
  <2>2. \A j \in 1 .. i - 1 : s[j] = t[j]
    <3> SUFFICES ASSUME NEW j \in 1 .. i - 1, s[j] # t[j] PROVE FALSE
      OBVIOUS
    <3>1. j \in 1 .. Len(s) /\ j \in 1 .. Len(t) /\ j \in Nat /\ i \in Nat /\ j < i
      BY <1>1
    <3>2. j \in D
      BY <3>1
    <3>3. << j, i >> \in OpToRel(<, Nat)
      BY <3>1 DEF OpToRel
    <3> QED BY <2>1, <3>2, <3>3
  <2>3. i \in 1 .. Len(s) /\ i \in 1 .. Len(t) /\ s[i] # t[i] /\ s[i] \in Nat /\ t[i] \in Nat
    BY ElementOfSeq DEF Text
  <2>4. CASE s[i] < t[i]
    BY <2>2, <2>3, <2>4, LessAt
  <2>5. CASE t[i] < s[i]
    BY <2>2, <2>3, <2>5, LessAt
  <2> QED BY <2>3, <2>4, <2>5
<1> QED BY <1>2, <1>3

LEMMA PairTells ==
    ASSUME NEW s \in Text, NEW t \in Text, NEW u \in Text, NEW v \in Text
    PROVE  Pair(s, t) = Pair(u, v) <=> (s = u /\ t = v) \/ (s = v /\ t = u)
<1>1. Pair(s, t) = Pair(t, s)
  <2>1. CASE s = t
    BY <2>1
  <2>2. CASE s # t
    BY <2>2, OneComesFirst DEF Pair
  <2> QED BY <2>1, <2>2
<1>2. Pair(s, t) = Pair(u, v) => (s = u /\ t = v) \/ (s = v /\ t = u)
  BY DEF Pair
<1> QED BY <1>1, <1>2

Ascending(t) == \A i, j \in DOMAIN t : i < j => t[i] <= t[j]

(* Ascending lists with the same numbers as often are equal: at the first     *)
(* place where they are not, one has a number the other has left behind.      *)
LEMMA CountedLess ==
    ASSUME NEW s \in Text, NEW t \in Text, Ascending(t), NEW i \in 1 .. Len(s),
           i \in 1 .. Len(t) => s[i] < t[i],
           \A j \in 1 .. i - 1 : j \in 1 .. Len(t) => s[j] = t[j],
           i \in 1 .. Len(t) + 1
    PROVE  Count(t, s[i]) < Count(s, s[i])
<1>1. /\ DOMAIN s = 1 .. Len(s) /\ DOMAIN t = 1 .. Len(t) /\ Len(s) \in Nat /\ Len(t) \in Nat
      /\ \A j \in 1 .. Len(s) : s[j] \in Nat
      /\ \A j \in 1 .. Len(t) : t[j] \in Nat
  BY LenProperties, ElementOfSeq DEF Text
<1> PICK x : x = s[i]
  OBVIOUS
<1> PICK A : A = {j \in DOMAIN s : s[j] = x}
  OBVIOUS
<1> PICK B : B = {j \in DOMAIN t : t[j] = x}
  OBVIOUS
<1>2. ASSUME NEW j \in B PROVE j < i
  <2> SUFFICES ASSUME ~ (j < i) PROVE FALSE
    OBVIOUS
  <2>1. j \in 1 .. Len(t) /\ i \in 1 .. Len(t) /\ t[j] = x
    BY <1>1
  <2>2. t[i] <= t[j]
    BY <1>1, <2>1, SMTT(30) DEF Ascending
  <2>3. s[i] < t[i] /\ s[i] \in Nat /\ t[i] \in Nat
    BY <1>1, <2>1
  <2> QED BY ONLY <2>1, <2>2, <2>3, x = s[i]
<1>3. B \subseteq A
  BY <1>1, <1>2
<1>4. i \in A /\ i \notin B
  BY <1>1, <1>2
<1>5. IsFiniteSet(A)
  <2>1. IsFiniteSet(1 .. Len(s)) /\ A \subseteq 1 .. Len(s)
    BY <1>1, FS_Interval
  <2> QED BY <2>1, FS_Subset
<1>6. Cardinality(B) < Cardinality(A)
  <2>1. Cardinality(B) <= Cardinality(A) /\ (Cardinality(A) = Cardinality(B) => A = B) /\ IsFiniteSet(B)
    BY <1>3, <1>5, FS_Subset
  <2>2. Cardinality(A) \in Nat /\ Cardinality(B) \in Nat
    BY <1>5, <2>1, FS_CardinalityType
  <2> QED BY <1>4, <2>1, <2>2
<1> QED BY <1>6 DEF Count

LEMMA AscendingIsUnique ==
    ASSUME NEW s \in Text, NEW t \in Text, Ascending(s), Ascending(t), SameDevices(s, t)
    PROVE  s = t
<1>1. /\ DOMAIN s = 1 .. Len(s) /\ DOMAIN t = 1 .. Len(t) /\ Len(s) \in Nat /\ Len(t) \in Nat
      /\ \A j \in 1 .. Len(s) : s[j] \in Nat
      /\ \A j \in 1 .. Len(t) : t[j] \in Nat
  BY LenProperties, ElementOfSeq DEF Text
<1>2. /\ \A i \in 1 .. Len(s) : Count(s, s[i]) = Count(t, s[i]) /\ Count(s, s[i]) \in Nat
      /\ \A i \in 1 .. Len(t) : Count(s, t[i]) = Count(t, t[i]) /\ Count(s, t[i]) \in Nat
  <2>1. /\ \A i \in 1 .. Len(s) : Count(s, s[i]) = Count(t, s[i])
        /\ \A i \in 1 .. Len(t) : Count(s, t[i]) = Count(t, t[i])
    BY <1>1 DEF SameDevices
  <2>2. \A x : Count(s, x) \in Nat
    <3> TAKE x
    <3>1. IsFiniteSet(1 .. Len(s)) /\ {j \in DOMAIN s : s[j] = x} \subseteq 1 .. Len(s)
      BY <1>1, FS_Interval
    <3>2. IsFiniteSet({j \in DOMAIN s : s[j] = x})
      BY <3>1, FS_Subset
    <3> QED BY <3>2, FS_CardinalityType DEF Count
  <2> QED BY <2>1, <2>2
<1> PICK D : D = {i \in 1 .. Len(s) : i \in 1 .. Len(t) /\ s[i] # t[i]}
  OBVIOUS
<1>3. CASE D = {}
  <2>1. \A i : i \in 1 .. Len(s) /\ i \in 1 .. Len(t) => s[i] = t[i]
    BY <1>3
  <2>2. ~ (Len(t) < Len(s))
    <3> SUFFICES ASSUME Len(t) < Len(s) PROVE FALSE
      OBVIOUS
    <3> PICK i : i = Len(t) + 1
      OBVIOUS
    <3>1. i \in 1 .. Len(s) /\ i \notin 1 .. Len(t) /\ i \in 1 .. Len(t) + 1
      BY <1>1
    <3>2. \A j \in 1 .. i - 1 : j \in 1 .. Len(t) => s[j] = t[j]
      BY <1>1, <2>1, <3>1
    <3>3. Count(t, s[i]) < Count(s, s[i])
      BY <3>1, <3>2, CountedLess
    <3> QED BY <1>2, <3>1, <3>3
  <2>3. ~ (Len(s) < Len(t))
    <3> SUFFICES ASSUME Len(s) < Len(t) PROVE FALSE
      OBVIOUS
    <3> PICK i : i = Len(s) + 1
      OBVIOUS
    <3>1. i \in 1 .. Len(t) /\ i \notin 1 .. Len(s) /\ i \in 1 .. Len(s) + 1
      BY <1>1
    <3>2. \A j \in 1 .. i - 1 : j \in 1 .. Len(s) => t[j] = s[j]
      BY <1>1, <2>1, <3>1
    <3>3. Count(s, t[i]) < Count(t, t[i])
      BY <3>1, <3>2, CountedLess
    <3> QED BY <1>2, <3>1, <3>3
  <2>4. Len(s) = Len(t)
    <3>1. Len(s) \in Nat /\ Len(t) \in Nat
      BY <1>1
    <3> QED BY ONLY <3>1, <2>2, <2>3
  <2> QED BY <2>1, <2>4, SeqEqual DEF Text
<1>4. CASE D # {}
  <2>1. PICK i \in D : \A j \in D : ~ (<<j, i>> \in OpToRel(<, Nat))
    <3>1. D \subseteq Nat
      OBVIOUS
    <3> QED BY <1>4, <3>1, WFMin, NatLessThanWellFounded
  <2>2. \A j \in 1 .. i - 1 : s[j] = t[j]
    <3> SUFFICES ASSUME NEW j \in 1 .. i - 1, s[j] # t[j] PROVE FALSE
      OBVIOUS
    <3>1. j \in 1 .. Len(s) /\ j \in 1 .. Len(t) /\ j \in Nat /\ i \in Nat /\ j < i
      BY <1>1
    <3>2. j \in D
      BY <3>1
    <3>3. << j, i >> \in OpToRel(<, Nat)
      BY <3>1 DEF OpToRel
    <3> QED BY <2>1, <3>2, <3>3
  <2>3. i \in 1 .. Len(s) /\ i \in 1 .. Len(t) /\ s[i] # t[i] /\ s[i] \in Nat /\ t[i] \in Nat
        /\ i \in 1 .. Len(t) + 1 /\ i \in 1 .. Len(s) + 1
    BY <1>1
  <2>4. CASE s[i] < t[i]
    <3>1. Count(t, s[i]) < Count(s, s[i])
      BY <2>2, <2>3, <2>4, CountedLess
    <3> QED BY <1>2, <2>3, <3>1
  <2>5. CASE t[i] < s[i]
    <3>1. Count(s, t[i]) < Count(t, t[i])
      BY <2>2, <2>3, <2>5, CountedLess
    <3> QED BY <1>2, <2>3, <3>1
  <2> QED BY <2>3, <2>4, <2>5
<1> QED BY <1>3, <1>4

(* What comes before or with a place in ascending order, equal numbers in the *)
(* order of the list; how many there are is where its number goes.            *)
UpToPlace(s, i) == {j \in 1 .. Len(s) : s[j] < s[i] \/ (s[j] = s[i] /\ j <= i)}
Ranks(s) == [i \in 1 .. Len(s) |-> Cardinality(UpToPlace(s, i))]

LEMMA RankRises ==
    ASSUME NEW s \in Text, NEW i \in 1 .. Len(s), NEW j \in 1 .. Len(s),
           s[i] < s[j] \/ (s[i] = s[j] /\ i < j)
    PROVE  Ranks(s)[i] < Ranks(s)[j]
<1>1. Len(s) \in Nat /\ \A k \in 1 .. Len(s) : s[k] \in Nat
  BY LenProperties, ElementOfSeq DEF Text
<1>2. /\ UpToPlace(s, i) \subseteq UpToPlace(s, j)
      /\ j \in UpToPlace(s, j) /\ j \notin UpToPlace(s, i)
  BY <1>1 DEF UpToPlace
<1>3. IsFiniteSet(UpToPlace(s, j))
  <2>1. IsFiniteSet(1 .. Len(s)) /\ UpToPlace(s, j) \subseteq 1 .. Len(s)
    BY <1>1, FS_Interval DEF UpToPlace
  <2> QED BY <2>1, FS_Subset
<1>4. /\ IsFiniteSet(UpToPlace(s, i)) /\ Cardinality(UpToPlace(s, i)) <= Cardinality(UpToPlace(s, j))
      /\ Cardinality(UpToPlace(s, j)) = Cardinality(UpToPlace(s, i)) => UpToPlace(s, j) = UpToPlace(s, i)
  BY <1>2, <1>3, FS_Subset
<1>5. Cardinality(UpToPlace(s, i)) \in Nat /\ Cardinality(UpToPlace(s, j)) \in Nat
  BY <1>3, <1>4, FS_CardinalityType
<1>6. Cardinality(UpToPlace(s, i)) # Cardinality(UpToPlace(s, j))
  BY <1>2, <1>4
<1>7. Cardinality(UpToPlace(s, i)) < Cardinality(UpToPlace(s, j))
  BY ONLY <1>4, <1>5, <1>6
<1> QED BY <1>7 DEF Ranks

LEMMA RanksFill ==
    ASSUME NEW s \in Text
    PROVE  /\ Ranks(s) \in [1 .. Len(s) -> 1 .. Len(s)]
           /\ \A i, j \in 1 .. Len(s) : Ranks(s)[i] = Ranks(s)[j] => i = j
           /\ \A k \in 1 .. Len(s) : \E i \in 1 .. Len(s) : Ranks(s)[i] = k
<1> PICK n : n = Len(s)
  OBVIOUS
<1>1. n \in Nat /\ \A k \in 1 .. n : s[k] \in Nat
  BY LenProperties, ElementOfSeq DEF Text
<1>2. IsFiniteSet(1 .. n) /\ Cardinality(1 .. n) = n
  <2>1. n \in Nat
    BY <1>1
  <2> QED BY ONLY <2>1, FS_Interval
<1>3. \A i \in 1 .. n : Ranks(s)[i] \in 1 .. n
  <2> TAKE i \in 1 .. n
  <2>1. UpToPlace(s, i) \subseteq 1 .. n /\ i \in UpToPlace(s, i)
    BY <1>1 DEF UpToPlace
  <2>2. IsFiniteSet(UpToPlace(s, i)) /\ Cardinality(UpToPlace(s, i)) <= n
    BY <1>2, <2>1, FS_Subset
  <2>3. Cardinality(UpToPlace(s, i)) \in Nat /\ Cardinality(UpToPlace(s, i)) # 0
    BY <2>1, <2>2, FS_CardinalityType, FS_EmptySet
  <2>4. Cardinality(UpToPlace(s, i)) \in 1 .. n
    BY <1>1, <2>2, <2>3
  <2> QED BY <2>4 DEF Ranks
<1>4. Ranks(s) \in [1 .. n -> 1 .. n]
  BY <1>3 DEF Ranks
<1>5. \A i, j \in 1 .. n : Ranks(s)[i] = Ranks(s)[j] => i = j
  <2> SUFFICES ASSUME NEW i \in 1 .. n, NEW j \in 1 .. n, Ranks(s)[i] = Ranks(s)[j], i # j
               PROVE  FALSE
    OBVIOUS
  <2>1. s[i] \in Nat /\ s[j] \in Nat /\ Ranks(s)[i] \in Nat /\ Ranks(s)[j] \in Nat
    BY <1>1, <1>3
  <2>2. ~ (s[i] < s[j] \/ (s[i] = s[j] /\ i < j))
    BY <2>1, RankRises
  <2>3. ~ (s[j] < s[i] \/ (s[j] = s[i] /\ j < i))
    BY <2>1, RankRises
  <2> QED BY <2>1, <2>2, <2>3
<1>6. Ranks(s) \in Injection(1 .. n, 1 .. n)
  BY <1>4, <1>5, Fun_IsInj
<1>7. Ranks(s) \in Surjection(1 .. n, 1 .. n)
  BY <1>2, <1>6, FS_Injection
<1>8. \A k \in 1 .. n : \E i \in 1 .. n : Ranks(s)[i] = k
  BY <1>7 DEF Surjection
<1> QED BY <1>4, <1>5, <1>8

LEMMA Sorts ==
    ASSUME NEW s \in Text
    PROVE  \E t \in [DOMAIN s -> {s[i] : i \in DOMAIN s}] :
             /\ \A i, j \in DOMAIN t : i < j => t[i] <= t[j]
             /\ \A x \in {s[i] : i \in DOMAIN s} :
                  Cardinality({i \in DOMAIN s : s[i] = x}) = Cardinality({i \in DOMAIN t : t[i] = x})
<1> PICK n : n = Len(s)
  OBVIOUS
<1> PICK f : f = Ranks(s)
  OBVIOUS
<1>1. DOMAIN s = 1 .. n /\ n \in Nat /\ \A k \in 1 .. n : s[k] \in Nat
  BY LenProperties, ElementOfSeq DEF Text
<1>2. /\ f \in [1 .. n -> 1 .. n]
      /\ \A i, j \in 1 .. n : f[i] = f[j] => i = j
      /\ \A k \in 1 .. n : \E i \in 1 .. n : f[i] = k
  BY RanksFill
<1> PICK g : g = [k \in 1 .. n |-> CHOOSE i \in 1 .. n : f[i] = k]
  OBVIOUS
<1>3. \A k \in 1 .. n : g[k] \in 1 .. n /\ f[g[k]] = k
  BY <1>2
<1>4. \A i \in 1 .. n : f[i] \in 1 .. n /\ g[f[i]] = i
  BY <1>2, <1>3
<1> PICK t : t = [k \in 1 .. n |-> s[g[k]]]
  OBVIOUS
<1>5. DOMAIN t = 1 .. n /\ \A k \in 1 .. n : t[k] = s[g[k]]
  OBVIOUS
<1>6. t \in [DOMAIN s -> {s[i] : i \in DOMAIN s}]
  <2>1. \A k \in 1 .. n : s[g[k]] \in {s[i] : i \in DOMAIN s}
    BY <1>1, <1>3
  <2> QED BY <1>1, <2>1
<1>7. \A i, j \in DOMAIN t : i < j => t[i] <= t[j]
  <2> SUFFICES ASSUME NEW k \in 1 .. n, NEW l \in 1 .. n, k < l
               PROVE  s[g[k]] <= s[g[l]]
    <3>1. ASSUME \A k, l \in 1 .. n : k < l => s[g[k]] <= s[g[l]], NEW i \in DOMAIN t, NEW j \in DOMAIN t, i < j
          PROVE  t[i] <= t[j]
      <4>1. i \in 1 .. n /\ j \in 1 .. n
        BY <1>5
      <4>2. t[i] = s[g[i]] /\ t[j] = s[g[j]]
        BY <1>5, <4>1, Zenon
      <4> QED BY <3>1, <4>1, <4>2, Zenon
    <3> QED BY <3>1, Zenon
  <2>1. /\ g[k] \in 1 .. n /\ g[l] \in 1 .. n /\ f[g[k]] = k /\ f[g[l]] = l
        /\ s[g[k]] \in Nat /\ s[g[l]] \in Nat
    BY <1>1, <1>3
  <2>2. ~ (s[g[l]] < s[g[k]])
    <3> SUFFICES ASSUME s[g[l]] < s[g[k]] PROVE FALSE
      OBVIOUS
    <3>1. f[g[l]] < f[g[k]]
      BY <2>1, RankRises
    <3> QED BY <2>1, <3>1
  <2> QED BY <2>1, <2>2
<1>8. ASSUME NEW x
      PROVE  Cardinality({i \in DOMAIN s : s[i] = x}) = Cardinality({i \in DOMAIN t : t[i] = x})
  <2> DEFINE A == {i \in DOMAIN s : s[i] = x}
             B == {i \in DOMAIN t : t[i] = x}
  <2> HIDE DEF A, B
  <2> PICK h : h = [i \in A |-> f[i]]
    OBVIOUS
  <2>1. \A i \in A : i \in 1 .. n /\ f[i] \in B
    <3> TAKE i \in A
    <3>1. i \in 1 .. n /\ s[i] = x
      BY <1>1 DEF A
    <3>2. f[i] \in 1 .. n /\ g[f[i]] = i
      BY <1>4, <3>1
    <3>3. t[f[i]] = x
      BY <1>5, <3>1, <3>2
    <3> QED BY <1>5, <3>1, <3>2, <3>3 DEF B
  <2>2. \A k \in B : g[k] \in A /\ f[g[k]] = k
    BY <1>1, <1>3, <1>5 DEF A, B
  <2>3. h \in [A -> B]
    BY <2>1
  <2>4. \A i, j \in A : h[i] = h[j] => i = j
    BY <1>2, <2>1
  <2>5. \A k \in B : \E i \in A : h[i] = k
    BY <2>2
  <2>6. h \in Bijection(A, B)
    BY ONLY <2>3, <2>4, <2>5, Fun_IsBij
  <2>7. IsFiniteSet(A)
    <3>1. IsFiniteSet(1 .. n) /\ A \subseteq 1 .. n
      BY <1>1, FS_Interval DEF A
    <3> QED BY <3>1, FS_Subset
  <2>8. ExistsBijection(A, B)
    BY <2>6 DEF ExistsBijection
  <2>9. Cardinality(A) = Cardinality(B)
    BY ONLY <2>7, <2>8, FS_Bijection
  <2> QED BY <2>9 DEF A, B
<1>9. \A x \in {s[i] : i \in DOMAIN s} :
        Cardinality({i \in DOMAIN s : s[i] = x}) = Cardinality({i \in DOMAIN t : t[i] = x})
  BY <1>8
<1> QED BY ONLY <1>6, <1>7, <1>9, Zenon

LEMMA SortFacts ==
    ASSUME NEW s \in Text
    PROVE  sort_unstable(s) \in Text /\ Ascending(sort_unstable(s)) /\ SameDevices(s, sort_unstable(s))
<1> PICK t : t = sort_unstable(s)
  OBVIOUS
<1>1. /\ t \in [DOMAIN s -> {s[i] : i \in DOMAIN s}]
      /\ \A i, j \in DOMAIN t : i < j => t[i] <= t[j]
      /\ \A x \in {s[i] : i \in DOMAIN s} :
           Cardinality({i \in DOMAIN s : s[i] = x}) = Cardinality({i \in DOMAIN t : t[i] = x})
  BY Sorts DEF sort_unstable
<1>2. DOMAIN s = 1 .. Len(s) /\ Len(s) \in Nat /\ \A k \in 1 .. Len(s) : s[k] \in Nat
  BY LenProperties, ElementOfSeq DEF Text
<1>3. t \in Text
  BY <1>1, <1>2 DEF Text
<1>4. SameDevices(s, t)
  <2>1. {t[i] : i \in DOMAIN t} \subseteq {s[i] : i \in DOMAIN s}
    BY <1>1
  <2> QED BY <1>1, <2>1 DEF SameDevices, Count
<1> QED BY <1>1, <1>3, <1>4 DEF Ascending

LEMMA SortTells ==
    ASSUME NEW s \in Text, NEW t \in Text
    PROVE  sort_unstable(s) = sort_unstable(t) <=> SameDevices(s, t)
<1>1. \A u, v \in Text : SameDevices(u, v) <=> \A x : Count(u, x) = Count(v, x)
  <2> TAKE u \in Text, v \in Text
  <2>1. ASSUME NEW x, x \notin {u[i] : i \in DOMAIN u}
        PROVE  Count(u, x) = 0
    <3>1. {i \in DOMAIN u : u[i] = x} = {}
      BY <2>1
    <3> QED BY <3>1, FS_EmptySet DEF Count
  <2>2. ASSUME NEW x, x \notin {v[i] : i \in DOMAIN v}
        PROVE  Count(v, x) = 0
    <3>1. {i \in DOMAIN v : v[i] = x} = {}
      BY <2>2
    <3> QED BY <3>1, FS_EmptySet DEF Count
  <2> QED BY <2>1, <2>2 DEF SameDevices
<1> PICK a : a = sort_unstable(s)
  OBVIOUS
<1> PICK b : b = sort_unstable(t)
  OBVIOUS
<1>2. a \in Text /\ Ascending(a) /\ SameDevices(s, a) /\ b \in Text /\ Ascending(b) /\ SameDevices(t, b)
  BY SortFacts
<1>3. (\A x : Count(s, x) = Count(a, x)) /\ (\A x : Count(t, x) = Count(b, x))
  BY <1>1, <1>2
<1>4. ASSUME a = b PROVE SameDevices(s, t)
  BY <1>1, <1>3, <1>4
<1>5. ASSUME SameDevices(s, t) PROVE a = b
  <2>1. SameDevices(a, b)
    BY <1>1, <1>2, <1>3, <1>5
  <2> QED BY <1>2, <2>1, AscendingIsUnique
<1> QED BY <1>4, <1>5

LEMMA SidesTell ==
    ASSUME NEW i \in Identities, NEW j \in Identities, NEW d \in Text, NEW e \in Text
    PROVE  /\ i \in Text /\ hash_identity_with_devices(i, d) \in Text
           /\ hash_identity_with_devices(i, d) = hash_identity_with_devices(j, e) <=> SameUser(i, d, j, e)
<1>1. i \in Text /\ j \in Text /\ Len(i) = 2 /\ Len(j) = 2
  <2>1. \A x \in Identities : x \in Text /\ Len(x) = 2
    <3> TAKE x \in Identities
    <3> PICK s \in SigningIds, k \in KemIds : x = << s, k >>
      BY DEF Identities
    <3>1. s \in Nat /\ k \in Nat
      BY NumberAssumption
    <3> QED BY <3>1 DEF Text
  <2> QED BY <2>1
<1>2. sort_unstable(d) \in Text /\ sort_unstable(e) \in Text
  BY SortFacts
<1> PICK a : a = sort_unstable(d)
  OBVIOUS
<1> PICK b : b = sort_unstable(e)
  OBVIOUS
<1>3. i \o a \in Text
  BY <1>1, <1>2, Joins
<1>4. i \o a = j \o b <=> i = j /\ a = b
  BY <1>1, <1>2, SplitsAlike
<1>5. a = b <=> SameDevices(d, e)
  BY SortTells
<1> QED BY <1>1, <1>3, <1>4, <1>5 DEF hash_identity_with_devices, hash_identity, SameUser

LEMMA ViewFacts ==
    ASSUME NEW v \in Views
    PROVE  /\ v.entry \in {"plain", "sync", "devices"}
           /\ v.a \in Identities /\ v.b \in Identities /\ v.devices_a \in Text /\ v.devices_b \in Text
           /\ v.entry # "devices" => v.devices_a = << >> /\ v.devices_b = << >>
           /\ v.entry # "sync" => v.thread = 0
<1>1. << >> \in Text
  BY DEF Text
<1> QED BY <1>1, NumberAssumption DEF Views, Text

(* The two sides of a number, whatever its entry point.                       *)
SideA(v) == IF v.entry = "devices" THEN hash_identity_with_devices(v.a, v.devices_a) ELSE v.a
SideB(v) == IF v.entry = "devices" THEN hash_identity_with_devices(v.b, v.devices_b) ELSE v.b
ContextOf(entry) ==
    CASE entry = "plain"   -> "trelis-safety-number-v1"
      [] entry = "sync"    -> "trelis-safety-number-sync-v1"
      [] entry = "devices" -> "trelis-safety-number-device-set-v1"

LEMMA NumberOf ==
    ASSUME NEW v \in Views
    PROVE  number(v) = [context |-> ContextOf(v.entry), of |-> Pair(SideA(v), SideB(v)), thread |-> v.thread]
<1>1. v.entry \in {"plain", "sync", "devices"} /\ (v.entry # "sync" => v.thread = 0)
  BY ViewFacts
<1>2. CASE v.entry = "plain"
  BY <1>1, <1>2 DEF number, number_new, hash_identity, ContextOf, SideA, SideB
<1>3. CASE v.entry = "sync"
  BY <1>3 DEF number, number_with_history_sync, hash_identity, ContextOf, SideA, SideB
<1>4. CASE v.entry = "devices"
  BY <1>1, <1>4 DEF number, number_with_device_set, ContextOf, SideA, SideB
<1> QED BY <1>1, <1>2, <1>3, <1>4

LEMMA NumbersTell ==
    ASSUME NEW v \in Views, NEW w \in Views
    PROVE  number(v) = number(w) <=>
             /\ v.entry = w.entry /\ v.thread = w.thread
             /\ \/ SameUser(v.a, v.devices_a, w.a, w.devices_a) /\ SameUser(v.b, v.devices_b, w.b, w.devices_b)
                \/ SameUser(v.a, v.devices_a, w.b, w.devices_b) /\ SameUser(v.b, v.devices_b, w.a, w.devices_a)
<1>1. v.entry \in {"plain", "sync", "devices"} /\ w.entry \in {"plain", "sync", "devices"}
  BY ViewFacts
<1>2. number(v) = number(w) <=>
        v.entry = w.entry /\ v.thread = w.thread /\ Pair(SideA(v), SideB(v)) = Pair(SideA(w), SideB(w))
  <2>1. ContextOf(v.entry) = ContextOf(w.entry) <=> v.entry = w.entry
    BY <1>1 DEF ContextOf
  <2> QED BY <2>1, NumberOf
<1>3. ASSUME v.entry = w.entry
      PROVE  /\ SideA(v) = SideA(w) <=> SameUser(v.a, v.devices_a, w.a, w.devices_a)
             /\ SideB(v) = SideB(w) <=> SameUser(v.b, v.devices_b, w.b, w.devices_b)
             /\ SideA(v) = SideB(w) <=> SameUser(v.a, v.devices_a, w.b, w.devices_b)
             /\ SideB(v) = SideA(w) <=> SameUser(v.b, v.devices_b, w.a, w.devices_a)
  <2>1. CASE v.entry = "devices"
    BY <1>3, <2>1, ViewFacts, SidesTell DEF SideA, SideB
  <2>2. CASE v.entry # "devices"
    <3>1. /\ v.devices_a = << >> /\ v.devices_b = << >> /\ w.devices_a = << >> /\ w.devices_b = << >>
      BY <1>3, <2>2, ViewFacts
    <3>2. \A i, j : SameUser(i, << >>, j, << >>) <=> i = j
      BY DEF SameUser, SameDevices
    <3> QED BY <1>3, <2>2, <3>1, <3>2 DEF SideA, SideB
  <2> QED BY <2>1, <2>2
<1>4. /\ SideA(v) \in Text /\ SideB(v) \in Text /\ SideA(w) \in Text /\ SideB(w) \in Text
  BY ViewFacts, SidesTell DEF SideA, SideB
<1>5. Pair(SideA(v), SideB(v)) = Pair(SideA(w), SideB(w)) <=>
        (SideA(v) = SideA(w) /\ SideB(v) = SideB(w)) \/ (SideA(v) = SideB(w) /\ SideB(v) = SideA(w))
  BY <1>4, PairTells
<1> QED BY <1>2, <1>3, <1>5

LEMMA NumberStep ==
    ASSUME NumbersAgreeIff, [NumberNext]_compared
    PROVE  NumbersAgreeIff'
<1>1. CASE compared' = compared
  BY <1>1 DEF NumbersAgreeIff
<1>2. ASSUME NEW v \in Views, NEW w \in Views, CompareNumbers(v, w)
      PROVE  NumbersAgreeIff'
  <2>1. compared'.v = v /\ compared'.w = w /\ (compared'.same <=> number(v) = number(w))
    BY <1>2 DEF CompareNumbers, Derived
  <2> QED BY <2>1, NumbersTell DEF NumbersAgreeIff
<1>3. ASSUME NEW f, NEW s, ScanQr(f, s)
      PROVE  NumbersAgreeIff'
  <2>1. compared'.kind = "qr"
    BY <1>3 DEF ScanQr
  <2> QED BY <2>1 DEF NumbersAgreeIff
<1>4. ASSUME NEW f, ShowDigits(f)
      PROVE  NumbersAgreeIff'
  <2>1. compared'.kind = "display"
    BY <1>4 DEF ShowDigits
  <2> QED BY <2>1 DEF NumbersAgreeIff
<1> QED BY <1>1, <1>2, <1>3, <1>4 DEF NumberNext

(* Two users see one number exactly if they used the same entry point on the  *)
(* same two identities, each with the same devices, from whichever side and   *)
(* in whatever order devices are listed (NumbersAgreeIff, on new,             *)
(* new_with_history_sync and new_with_device_set of safety_number.rs).        *)
THEOREM NumbersSeparatePairs == NumberSpec => []NumbersAgreeIff
<1>1. NumberInit => NumbersAgreeIff
  BY DEF NumberInit, NumbersAgreeIff
<1>2. NumbersAgreeIff /\ [NumberNext]_compared => NumbersAgreeIff'
  BY NumberStep
<1> QED BY <1>1, <1>2, PTL DEF NumberSpec

-----------------------------------------------------------------------------
(* What is defined by recursion along a list exists, and has the type that    *)
(* each step keeps.  The functions of the digits are instances.              *)
LEMMA UpTo ==
    ASSUME NEW n \in Nat, NEW G, 0 \in G, \A i \in 1 .. n : i - 1 \in G => i \in G
    PROVE  \A i \in 0 .. n : i \in G
<1> PICK T : T = {i \in 0 .. n : i \notin G}
  OBVIOUS
<1>1. ASSUME T # {} PROVE FALSE
  <2>1. PICK i \in T : \A j \in T : ~ (<< j, i >> \in OpToRel(<, Nat))
    <3>1. T \subseteq Nat
      OBVIOUS
    <3> QED BY <1>1, <3>1, WFMin, NatLessThanWellFounded
  <2>2. i \in 1 .. n /\ i - 1 \in 0 .. n /\ i - 1 \in Nat /\ i \in Nat /\ i - 1 < i
    OBVIOUS
  <2>3. << i - 1, i >> \in OpToRel(<, Nat)
    BY <2>2 DEF OpToRel
  <2>4. i - 1 \in G
    BY <2>1, <2>2, <2>3
  <2> QED BY <2>2, <2>4
<1> QED BY <1>1

Unrolls(f, m, start, F) ==
    /\ f = [i \in 0 .. m |-> f[i]] /\ f[0] = start
    /\ \A i \in 1 .. m : f[i] = F[i][f[i - 1]]

LEMMA Recursion ==
    ASSUME NEW n \in Nat, NEW S, NEW start \in S, NEW F,
           \A i \in 1 .. n : \A x \in S : F[i][x] \in S
    PROVE  \E f : Unrolls(f, n, start, F) /\ \A i \in 0 .. n : f[i] \in S
<1> DEFINE Good(f, m) == Unrolls(f, m, start, F) /\ \A i \in 0 .. m : f[i] \in S
<1> PICK G : G = {m \in 0 .. n : \E f : Good(f, m)}
  OBVIOUS
<1>1. 0 \in G
  <2> PICK f : f = [i \in 0 .. 0 |-> start]
    OBVIOUS
  <2>1. 0 .. 0 = {0} /\ 1 .. 0 = {}
    OBVIOUS
  <2>2. Good(f, 0)
    BY <2>1 DEF Unrolls
  <2> QED BY <2>2
<1>2. ASSUME NEW m \in 1 .. n, m - 1 \in G PROVE m \in G
  <2>1. PICK g : Good(g, m - 1)
    BY <1>2
  <2> PICK f : f = [i \in 0 .. m |-> IF i = m THEN F[m][g[m - 1]] ELSE g[i]]
    OBVIOUS
  <2>2. \A i \in 0 .. m : i # m => i \in 0 .. m - 1 /\ f[i] = g[i]
    OBVIOUS
  <2>3. m \in Nat /\ m # 0 /\ m - 1 \in 0 .. m - 1 /\ m - 1 \in 0 .. m /\ m - 1 # m /\ m \in 0 .. m /\ 0 \in 0 .. m
    OBVIOUS
  <2>4. f[m] = F[m][g[m - 1]] /\ f[m - 1] = g[m - 1] /\ f[0] = g[0]
    BY <2>2, <2>3
  <2>5. \A i \in 1 .. m : f[i] = F[i][f[i - 1]]
    <3> TAKE i \in 1 .. m
    <3>1. CASE i = m
      BY <2>4, <3>1
    <3>2. CASE i # m
      <4>1. i \in 1 .. m - 1 /\ i \in 0 .. m /\ i - 1 \in 0 .. m /\ i - 1 # m
        BY <3>2
      <4>2. f[i] = g[i] /\ f[i - 1] = g[i - 1]
        BY <2>2, <3>2, <4>1
      <4>3. g[i] = F[i][g[i - 1]]
        BY <2>1, <4>1 DEF Unrolls
      <4> QED BY <4>2, <4>3
    <3> QED BY <3>1, <3>2
  <2>6. \A i \in 0 .. m : f[i] \in S
    <3> TAKE i \in 0 .. m
    <3>1. CASE i = m
      BY <2>1, <2>3, <2>4, <3>1
    <3>2. CASE i # m
      BY <2>1, <2>2, <3>2
    <3> QED BY <3>1, <3>2
  <2>7. f = [i \in 0 .. m |-> f[i]] /\ f[0] = start
    BY <2>1, <2>4 DEF Unrolls
  <2>8. Good(f, m)
    BY ONLY <2>5, <2>6, <2>7 DEF Unrolls
  <2>9. m \in 0 .. n
    OBVIOUS
  <2> QED BY <2>8, <2>9
<1>3. n \in G
  <2>1. \A i \in 0 .. n : i \in G
    BY ONLY <1>1, <1>2, n \in Nat, UpTo
  <2> QED BY <2>1
<1> QED BY <1>3

LEMMA RemainderOf ==
    ASSUME NEW a \in Nat, NEW q \in Nat, NEW m \in Nat, NEW r \in Nat, a = q * m + r, r < m, m > 0
    PROVE  a % m = r
<1>1. m \in Int /\ m > 0 /\ a \in Int /\ q \in Int /\ r \in Int /\ 0 <= r /\ r < m /\ a = q * m + r
  OBVIOUS
<1> QED BY ONLY <1>1

(* The value of a list of digits in a base, and the powers of ten.           *)
AddsUp(V, k, b, m) ==
    /\ \A i \in 0 .. m : V[i] \in Nat
    /\ V[0] = 0 /\ \A i \in 1 .. m : V[i] = V[i - 1] * k + b[i]
    /\ InBase(k, b) = V[m]

LEMMA BaseUnrolls ==
    ASSUME NEW k \in Nat, NEW b \in Seq(Nat)
    PROVE  \E V : AddsUp(V, k, b, Len(b))
<1> DEFINE n == Len(b)
           V[i \in 0 .. n] == IF i = 0 THEN 0 ELSE V[i - 1] * k + b[i]
           F == [i \in 1 .. n |-> [x \in Nat |-> x * k + b[i]]]
<1>1. n \in Nat /\ \A i \in 1 .. n : b[i] \in Nat
  OBVIOUS
<1>2. \A i \in 1 .. n : \A x \in Nat : F[i][x] = x * k + b[i]
  OBVIOUS
<1>3. \A i \in 1 .. n : \A x \in Nat : F[i][x] \in Nat
  <2>1. \A x, y \in Nat : x * k + y \in Nat
    OBVIOUS
  <2> QED BY <1>1, <1>2, <2>1
<1> HIDE DEF F, n
<1>4. PICK f : Unrolls(f, n, 0, F) /\ \A i \in 0 .. n : f[i] \in Nat
  BY <1>1, <1>3, Recursion
<1>5. f = [i \in 0 .. n |-> IF i = 0 THEN 0 ELSE f[i - 1] * k + b[i]]
  <2>1. \A i \in 0 .. n : i # 0 => i \in 1 .. n /\ i - 1 \in 0 .. n
    BY <1>1
  <2>2. \A i \in 0 .. n : f[i] = IF i = 0 THEN 0 ELSE f[i - 1] * k + b[i]
    BY ONLY <2>1, <1>2, <1>4 DEF Unrolls
  <2> QED BY ONLY <2>2, <1>4 DEF Unrolls
<1>6. V = [i \in 0 .. n |-> IF i = 0 THEN 0 ELSE V[i - 1] * k + b[i]]
  BY <1>5, Zenon
<1>7. InBase(k, b) = V[n]
  BY DEF InBase, n
<1> HIDE DEF V
<1>8. V[0] = 0 /\ \A i \in 1 .. n : V[i] = V[i - 1] * k + b[i]
  BY ONLY <1>1, <1>6
<1>9. \A i \in 0 .. n : V[i] \in Nat
  <2> PICK G : G = {i \in 0 .. n : V[i] \in Nat}
    OBVIOUS
  <2>1. 0 \in G
    BY <1>1, <1>8
  <2>2. ASSUME NEW i \in 1 .. n, i - 1 \in G PROVE i \in G
    <3>1. V[i - 1] \in Nat /\ b[i] \in Nat /\ i \in 0 .. n
      BY <1>1, <2>2
    <3>2. V[i - 1] * k + b[i] \in Nat
      <4>1. \A x, y, z \in Nat : x * y + z \in Nat
        BY ONLY TRUE
      <4> QED BY ONLY <3>1, <4>1, k \in Nat, Zenon
    <3> QED BY <3>1, <3>2, <1>8
  <2>3. \A i \in 0 .. n : i \in G
    BY ONLY <1>1, <2>1, <2>2, UpTo
  <2> QED BY <2>3
<1>20. AddsUp(V, k, b, n)
  BY ONLY <1>7, <1>8, <1>9 DEF AddsUp
<1> QED BY <1>20 DEF n

LEMMA PowerUnrolls ==
    ASSUME NEW n \in Nat
    PROVE  \E P : /\ \A i \in 0 .. n : P[i] \in Nat \ {0}
                  /\ P[0] = 1 /\ \A i \in 1 .. n : P[i] = P[i - 1] * 10
                  /\ PowerOfTen(n) = P[n]
<1> DEFINE P[i \in 0 .. n] == IF i = 0 THEN 1 ELSE P[i - 1] * 10
           F == [i \in 1 .. n |-> [x \in Nat |-> x * 10]]
<1>2. \A i \in 1 .. n : \A x \in Nat : F[i][x] = x * 10
  OBVIOUS
<1>3. \A i \in 1 .. n : \A x \in Nat : F[i][x] \in Nat
  BY <1>2
<1> HIDE DEF F
<1>4. PICK f : Unrolls(f, n, 1, F) /\ \A i \in 0 .. n : f[i] \in Nat
  BY <1>3, Recursion
<1>5. f = [i \in 0 .. n |-> IF i = 0 THEN 1 ELSE f[i - 1] * 10]
  <2>1. \A i \in 0 .. n : i # 0 => i \in 1 .. n /\ i - 1 \in 0 .. n
    OBVIOUS
  <2>2. \A i \in 0 .. n : f[i] = IF i = 0 THEN 1 ELSE f[i - 1] * 10
    <3> TAKE i \in 0 .. n
    <3>1. CASE i = 0
      BY <1>4, <3>1, Zenon DEF Unrolls
    <3>2. CASE i # 0
      <4>1. f[i] = F[i][f[i - 1]] /\ f[i - 1] \in Nat
        BY ONLY <2>1, <1>4, <3>2, i \in 0 .. n, Zenon DEF Unrolls
      <4>2. F[i][f[i - 1]] = f[i - 1] * 10
        BY ONLY <2>1, <1>2, <3>2, <4>1, i \in 0 .. n, Zenon
      <4> QED BY ONLY <3>2, <4>1, <4>2, Zenon
    <3> QED BY <3>1, <3>2
  <2> QED BY ONLY <2>2, <1>4 DEF Unrolls
<1>6. P = [i \in 0 .. n |-> IF i = 0 THEN 1 ELSE P[i - 1] * 10]
  BY <1>5, Zenon
<1>7. PowerOfTen(n) = P[n]
  BY DEF PowerOfTen
<1> HIDE DEF P
<1>8. P[0] = 1 /\ \A i \in 1 .. n : P[i] = P[i - 1] * 10
  BY ONLY n \in Nat, <1>6
<1>9. \A i \in 0 .. n : P[i] \in Nat \ {0}
  <2> PICK G : G = {i \in 0 .. n : P[i] \in Nat \ {0}}
    OBVIOUS
  <2>1. 0 \in G
    BY <1>8
  <2>2. ASSUME NEW i \in 1 .. n, i - 1 \in G PROVE i \in G
    <3>1. P[i - 1] \in Nat \ {0} /\ i \in 0 .. n
      BY <2>2
    <3> QED BY <3>1, <1>8
  <2>3. \A i \in 0 .. n : i \in G
    BY ONLY n \in Nat, <2>1, <2>2, UpTo
  <2> QED BY <2>3
<1> QED BY <1>7, <1>8, <1>9

(* One division by ten: the quotient has the same number of digits.          *)
LEMMA DivideExact ==
    ASSUME NEW b \in Seq(Nat)
    PROVE  /\ Divide(b).quotient \in Seq(Nat) /\ Divide(b).digit \in 0 .. 9
           /\ InBase(256, b) = InBase(256, Divide(b).quotient) * 10 + Divide(b).digit
<1> DEFINE n == Len(b)
           Rem[i \in 0 .. n] == IF i = 0 THEN 0 ELSE (Rem[i - 1] * 256 + b[i]) % 10
           F == [i \in 1 .. n |-> [x \in Nat |-> (x * 256 + b[i]) % 10]]
           q == [i \in 1 .. n |-> (Rem[i - 1] * 256 + b[i]) \div 10]
<1>1. n \in Nat /\ \A i \in 1 .. n : b[i] \in Nat
  OBVIOUS
<1>2. \A i \in 1 .. n : \A x \in Nat : F[i][x] = (x * 256 + b[i]) % 10
  OBVIOUS
<1>3. \A i \in 1 .. n : \A x \in Nat : F[i][x] \in Nat
  <2>1. \A x, y \in Nat : (x * 256 + y) % 10 \in Nat
    OBVIOUS
  <2> QED BY <1>1, <1>2, <2>1
<1>0. Divide(b) = [quotient |-> q, digit |-> Rem[n]]
  BY DEF Divide
<1> HIDE DEF F, n
<1>4. PICK f : Unrolls(f, n, 0, F) /\ \A i \in 0 .. n : f[i] \in Nat
  BY <1>1, <1>3, Recursion
<1>5. f = [i \in 0 .. n |-> IF i = 0 THEN 0 ELSE (f[i - 1] * 256 + b[i]) % 10]
  <2>1. \A i \in 0 .. n : i # 0 => i \in 1 .. n /\ i - 1 \in 0 .. n
    BY <1>1
  <2> DEFINE To(i, x) == (x * 256 + b[i]) % 10
  <2>3. \A i \in 1 .. n : \A x \in Nat : F[i][x] = To(i, x)
    BY <1>2
  <2> HIDE DEF To
  <2>4. \A i \in 0 .. n : f[i] = IF i = 0 THEN 0 ELSE To(i, f[i - 1])
    BY ONLY <2>1, <2>3, <1>4 DEF Unrolls
  <2>2. f = [i \in 0 .. n |-> f[i]]
    BY ONLY <1>4, Zenon DEF Unrolls
  <2>5. f = [i \in 0 .. n |-> IF i = 0 THEN 0 ELSE To(i, f[i - 1])]
    BY ONLY <2>2, <2>4, Zenon
  <2> QED
    <3> DEFINE r == [i \in 0 .. n |-> IF i = 0 THEN 0 ELSE (f[i - 1] * 256 + b[i]) % 10]
               t == [i \in 0 .. n |-> IF i = 0 THEN 0 ELSE To(i, f[i - 1])]
    <3>1. t = r
      BY ONLY TRUE DEF To
    <3>2. f = t
      BY ONLY <2>5
    <3> HIDE DEF t, r
    <3>3. f = r
      BY ONLY <3>1, <3>2
    <3> QED BY ONLY <3>3 DEF r
<1>6. Rem = [i \in 0 .. n |-> IF i = 0 THEN 0 ELSE (Rem[i - 1] * 256 + b[i]) % 10]
  BY <1>5, Zenon
<1> HIDE DEF Rem
<1>7. Rem[0] = 0 /\ \A i \in 1 .. n : Rem[i] = (Rem[i - 1] * 256 + b[i]) % 10
  BY ONLY <1>1, <1>6
<1>8. \A i \in 0 .. n : Rem[i] \in 0 .. 9
  <2> PICK G : G = {i \in 0 .. n : Rem[i] \in 0 .. 9}
    OBVIOUS
  <2>1. 0 \in G
    BY <1>1, <1>7
  <2>2. ASSUME NEW i \in 1 .. n, i - 1 \in G PROVE i \in G
    <3>1. Rem[i - 1] \in Nat /\ b[i] \in Nat /\ i \in 0 .. n
      <4>1. i \in 0 .. n /\ b[i] \in Nat
        BY <1>1
      <4>2. Rem[i - 1] \in 0 .. 9 /\ 0 .. 9 \subseteq Nat
        BY <2>2
      <4> QED BY <4>1, <4>2
    <3>2. PICK z \in Nat : z = Rem[i - 1] * 256 + b[i]
      BY <3>1
    <3>3. \A y \in Nat : y % 10 \in 0 .. 9
      BY ONLY SMT
    <3> QED BY <3>1, <3>2, <3>3, <1>7
  <2>3. \A i \in 0 .. n : i \in G
    BY ONLY <1>1, <2>1, <2>2, UpTo
  <2> QED BY <2>3
<1>9. \A i \in 1 .. n : i - 1 \in 0 .. n /\ i \in 0 .. n
  BY <1>1
<1>16. \A i \in 0 .. n : Rem[i] \in Nat
  <2>1. 0 .. 9 \subseteq Nat
    OBVIOUS
  <2> QED BY ONLY <1>8, <2>1, Zenon
<1>10. \A i \in 1 .. n : /\ q[i] \in Nat
                         /\ Rem[i - 1] * 256 + b[i] = q[i] * 10 + Rem[i]
  <2> TAKE i \in 1 .. n
  <2>1. Rem[i - 1] \in Nat /\ b[i] \in Nat
    <3>1. b[i] \in Nat
      BY <1>1
    <3> QED BY ONLY <3>1, <1>9, <1>16, i \in 1 .. n, Zenon
  <2>2. PICK z \in Nat : z = Rem[i - 1] * 256 + b[i]
    BY <2>1
  <2>3. q[i] = z \div 10 /\ Rem[i] = z % 10
    BY <2>2, <1>7
  <2> QED BY ONLY <2>2, <2>3
<1>11. q \in Seq(Nat) /\ Len(q) = n /\ DOMAIN q = 1 .. n
  <2>1. q \in [1 .. n -> Nat]
    BY <1>10
  <2> HIDE DEF q
  <2> QED BY <2>1, <1>1, SeqDef, LenProperties
<1> HIDE DEF q
<1>20. PICK V : AddsUp(V, 256, b, n)
  BY BaseUnrolls, 256 \in Nat DEF n
<1>12. /\ \A i \in 0 .. n : V[i] \in Nat
       /\ V[0] = 0 /\ \A i \in 1 .. n : V[i] = V[i - 1] * 256 + b[i]
       /\ InBase(256, b) = V[n]
  BY ONLY <1>20 DEF AddsUp
<1>21. PICK W : AddsUp(W, 256, q, n)
  BY ONLY <1>11, BaseUnrolls, 256 \in Nat
<1>13. /\ \A i \in 0 .. n : W[i] \in Nat
       /\ W[0] = 0 /\ \A i \in 1 .. n : W[i] = W[i - 1] * 256 + q[i]
       /\ InBase(256, q) = W[n]
  BY ONLY <1>21 DEF AddsUp
<1>14. \A i \in 0 .. n : V[i] = W[i] * 10 + Rem[i]
  <2> PICK G : G = {i \in 0 .. n : V[i] = W[i] * 10 + Rem[i]}
    OBVIOUS
  <2>1. 0 \in G
    BY <1>1, <1>7, <1>12, <1>13
  <2>2. ASSUME NEW i \in 1 .. n, i - 1 \in G PROVE i \in G
    <3>1. /\ V[i] = V[i - 1] * 256 + b[i] /\ W[i] = W[i - 1] * 256 + q[i]
          /\ Rem[i - 1] * 256 + b[i] = q[i] * 10 + Rem[i]
          /\ V[i - 1] = W[i - 1] * 10 + Rem[i - 1]
      BY <1>10, <1>12, <1>13, <2>2
    <3>2. /\ V[i] \in Nat /\ V[i - 1] \in Nat /\ W[i] \in Nat /\ W[i - 1] \in Nat
          /\ Rem[i] \in Nat /\ Rem[i - 1] \in Nat /\ b[i] \in Nat /\ q[i] \in Nat
      <4>1. V[i] \in Nat /\ V[i - 1] \in Nat
        BY ONLY <1>9, <1>12, i \in 1 .. n
      <4>2. W[i] \in Nat /\ W[i - 1] \in Nat
        BY ONLY <1>9, <1>13, i \in 1 .. n
      <4>3. Rem[i] \in Nat /\ Rem[i - 1] \in Nat
        BY ONLY <1>9, <1>16, i \in 1 .. n
      <4> QED BY <4>1, <4>2, <4>3, <1>1, <1>10
    <3> PICK v \in Nat, u \in Nat : v = V[i] /\ u = V[i - 1]
      BY <3>2
    <3> PICK x \in Nat, w \in Nat : x = W[i] /\ w = W[i - 1]
      BY <3>2
    <3> PICK r \in Nat, t \in Nat : r = Rem[i] /\ t = Rem[i - 1]
      BY <3>2
    <3> PICK d \in Nat, e \in Nat : d = b[i] /\ e = q[i]
      BY <3>2
    <3>3. v = u * 256 + d /\ x = w * 256 + e /\ t * 256 + d = e * 10 + r /\ u = w * 10 + t
      BY <3>1
    <3>5. v = x * 10 + r
      BY ONLY <3>3
    <3>4. V[i] = W[i] * 10 + Rem[i]
      BY <3>5
    <3> QED BY <3>4, <1>9
  <2>3. \A i \in 0 .. n : i \in G
    BY ONLY <1>1, <2>1, <2>2, UpTo
  <2> QED BY <2>3
<1>15. n \in 0 .. n
  BY <1>1
<1> QED BY <1>0, <1>8, <1>11, <1>12, <1>13, <1>14, <1>15

(* The digits shown are the low ones of the number.                          *)
LEMMA DigitsExact ==
    ASSUME NEW b \in Seq(Nat), NEW n \in Nat
    PROVE  InBase(10, bytes_to_decimal(b, n)) = InBase(256, b) % PowerOfTen(n)
<1> DEFINE S == [quotient : Seq(Nat), digit : Nat]
           start == [quotient |-> b, digit |-> 0]
           Steps[i \in 0 .. n] == IF i = 0 THEN start ELSE Divide(Steps[i - 1].quotient)
           F == [i \in 1 .. n |-> [x \in S |-> Divide(x.quotient)]]
           ds == [i \in 1 .. n |-> Steps[n + 1 - i].digit]
<1>0. bytes_to_decimal(b, n) = ds
  BY DEF bytes_to_decimal
<1>1. \A x \in S : Divide(x.quotient) \in S
  <2> TAKE x \in S
  <2>1. x.quotient \in Seq(Nat)
    OBVIOUS
  <2>2. Divide(x.quotient) = [quotient |-> Divide(x.quotient).quotient, digit |-> Divide(x.quotient).digit]
    BY DEF Divide
  <2>3. Divide(x.quotient).quotient \in Seq(Nat) /\ Divide(x.quotient).digit \in Nat
    <3>1. 0 .. 9 \subseteq Nat
      OBVIOUS
    <3> QED BY ONLY <2>1, <3>1, DivideExact, Zenon
  <2> QED BY ONLY <2>2, <2>3
<1>2. \A i \in 1 .. n : \A x \in S : F[i][x] = Divide(x.quotient)
  OBVIOUS
<1>3. \A i \in 1 .. n : \A x \in S : F[i][x] \in S
  BY ONLY <1>1, <1>2
<1>4. start \in S
  OBVIOUS
<1> HIDE DEF F, S, start
<1>5. PICK f : Unrolls(f, n, start, F) /\ \A i \in 0 .. n : f[i] \in S
  BY ONLY <1>3, <1>4, n \in Nat, Recursion
<1>6. f = [i \in 0 .. n |-> IF i = 0 THEN start ELSE Divide(f[i - 1].quotient)]
  <2>1. \A i \in 0 .. n : i # 0 => i \in 1 .. n /\ i - 1 \in 0 .. n
    OBVIOUS
  <2>2. \A i \in 0 .. n : f[i] = IF i = 0 THEN start ELSE Divide(f[i - 1].quotient)
    BY ONLY <2>1, <1>2, <1>5 DEF Unrolls
  <2> QED BY ONLY <2>2, <1>5 DEF Unrolls
<1>7. Steps = [i \in 0 .. n |-> IF i = 0 THEN start ELSE Divide(Steps[i - 1].quotient)]
  BY <1>6, Zenon
<1> HIDE DEF Steps
<1>8. Steps[0] = start /\ \A i \in 1 .. n : Steps[i] = Divide(Steps[i - 1].quotient)
  BY ONLY n \in Nat, <1>7
<1>9. \A i \in 0 .. n : Steps[i].quotient \in Seq(Nat)
  <2> PICK G : G = {i \in 0 .. n : Steps[i].quotient \in Seq(Nat)}
    OBVIOUS
  <2>1. 0 \in G
    BY <1>8 DEF start
  <2>2. ASSUME NEW i \in 1 .. n, i - 1 \in G PROVE i \in G
    <3>1. Steps[i - 1].quotient \in Seq(Nat) /\ i \in 0 .. n
      BY <2>2
    <3>2. Steps[i].quotient \in Seq(Nat)
      BY <3>1, <1>8, DivideExact
    <3> QED BY <3>1, <3>2
  <2>3. \A i \in 0 .. n : i \in G
    BY ONLY n \in Nat, <2>1, <2>2, UpTo
  <2> QED BY <2>3
<1> DEFINE V(i) == InBase(256, Steps[i].quotient)
<1>10. \A i \in 1 .. n : /\ V(i - 1) = V(i) * 10 + Steps[i].digit
                         /\ Steps[i].digit \in 0 .. 9
  <2> TAKE i \in 1 .. n
  <2>1. i - 1 \in 0 .. n
    OBVIOUS
  <2>2. Steps[i - 1].quotient \in Seq(Nat) /\ Steps[i] = Divide(Steps[i - 1].quotient)
    BY <1>8, <1>9, <2>1
  <2> QED BY <2>2, DivideExact
<1>11. \A i \in 0 .. n : V(i) \in Nat
  <2> TAKE i \in 0 .. n
  <2> PICK q \in Seq(Nat) : q = Steps[i].quotient
    BY <1>9
  <2>1. PICK W : AddsUp(W, 256, q, Len(q))
    BY ONLY q \in Seq(Nat), BaseUnrolls, 256 \in Nat
  <2>2. Len(q) \in 0 .. Len(q)
    BY ONLY q \in Seq(Nat)
  <2>3. InBase(256, q) \in Nat
    BY ONLY <2>1, <2>2, ZenonT(30) DEF AddsUp
  <2> QED BY <2>3
<1>12. ds \in Seq(Nat) /\ Len(ds) = n /\ \A i \in 1 .. n : ds[i] = Steps[n + 1 - i].digit
  <2>1. \A i \in 1 .. n : n + 1 - i \in 1 .. n
    OBVIOUS
  <2>2. \A i \in 1 .. n : Steps[n + 1 - i].digit \in Nat
    <3>1. 0 .. 9 \subseteq Nat
      OBVIOUS
    <3> QED BY ONLY <2>1, <1>10, <3>1, Zenon
  <2>3. ds \in [1 .. n -> Nat] /\ \A i \in 1 .. n : ds[i] = Steps[n + 1 - i].digit
    BY <2>2
  <2> HIDE DEF ds
  <2>4. ds \in Seq(Nat) /\ DOMAIN ds = 1 .. n
    BY <2>3, n \in Nat, SeqDef
  <2> QED BY <2>3, <2>4, n \in Nat, LenProperties
<1> HIDE DEF ds
<1>20. PICK D : AddsUp(D, 10, ds, n)
  BY ONLY <1>12, BaseUnrolls, 10 \in Nat
<1>13. /\ \A i \in 0 .. n : D[i] \in Nat
       /\ D[0] = 0 /\ \A i \in 1 .. n : D[i] = D[i - 1] * 10 + ds[i]
       /\ InBase(10, ds) = D[n]
  BY ONLY <1>20 DEF AddsUp
<1>14. PICK P : /\ \A i \in 0 .. n : P[i] \in Nat \ {0}
                /\ P[0] = 1 /\ \A i \in 1 .. n : P[i] = P[i - 1] * 10
                /\ PowerOfTen(n) = P[n]
  BY PowerUnrolls
<1> HIDE DEF V
<1>15. \A i \in 0 .. n : V(n - i) = V(n) * P[i] + D[i] /\ D[i] < P[i]
  <2> PICK G : G = {i \in 0 .. n : V(n - i) = V(n) * P[i] + D[i] /\ D[i] < P[i]}
    OBVIOUS
  <2>1. 0 \in G
    <3>1. n - 0 = n /\ V(n) \in Nat /\ 0 \in 0 .. n
      BY <1>11
    <3> QED BY <3>1, <1>13, <1>14
  <2>2. ASSUME NEW i \in 1 .. n, i - 1 \in G PROVE i \in G
    <3>1. /\ n + 1 - i \in 1 .. n /\ (n + 1 - i) - 1 = n - i /\ n - (i - 1) = n + 1 - i
          /\ n - i \in 0 .. n /\ i - 1 \in 0 .. n /\ i \in 0 .. n /\ n + 1 - i \in 0 .. n /\ n \in 0 .. n
      OBVIOUS
    <3>2. V(n - i) = V(n + 1 - i) * 10 + ds[i] /\ ds[i] \in 0 .. 9
      BY <1>10, <1>12, <3>1
    <3>3. V(n + 1 - i) = V(n) * P[i - 1] + D[i - 1] /\ D[i - 1] < P[i - 1]
      BY <2>2, <3>1
    <3>4. P[i] = P[i - 1] * 10 /\ D[i] = D[i - 1] * 10 + ds[i]
      BY <1>13, <1>14
    <3>5. P[i - 1] \in Nat /\ D[i - 1] \in Nat /\ V(n) \in Nat /\ V(n - i) \in Nat /\ V(n + 1 - i) \in Nat
      BY <1>11, <1>13, <1>14, <3>1
    <3> PICK p \in Nat, e \in Nat, d \in 0 .. 9 : p = P[i - 1] /\ e = D[i - 1] /\ d = ds[i]
      BY <3>2, <3>5
    <3> PICK w \in Nat, x \in Nat, y \in Nat : w = V(n) /\ x = V(n - i) /\ y = V(n + 1 - i)
      BY <3>5
    <3>6. x = y * 10 + d /\ y = w * p + e /\ e < p
      BY <3>2, <3>3
    <3>7. PICK m \in Nat : m = w * p /\ w * (p * 10) = m * 10
      <4>1. \A a, b1 \in Nat : a * b1 \in Nat /\ a * (b1 * 10) = (a * b1) * 10
        BY ONLY SMT
      <4>2. w * p \in Nat /\ w * (p * 10) = (w * p) * 10
        BY ONLY <4>1, w \in Nat, p \in Nat, Zenon
      <4> QED BY ONLY <4>2, Zenon
    <3>8. x = m * 10 + (e * 10 + d) /\ e * 10 + d < p * 10
      BY ONLY <3>6, <3>7
    <3>9. x = w * (p * 10) + (e * 10 + d) /\ e * 10 + d < p * 10
      BY ONLY <3>7, <3>8
    <3>10. P[i] = p * 10 /\ D[i] = e * 10 + d
      BY <3>4
    <3> QED BY <3>1, <3>9, <3>10
  <2>3. \A i \in 0 .. n : i \in G
    BY ONLY n \in Nat, <2>1, <2>2, UpTo
  <2> QED BY <2>3
<1>16. V(0) = V(n) * P[n] + D[n] /\ D[n] < P[n]
  <2>1. n \in 0 .. n /\ n - n = 0
    OBVIOUS
  <2> QED BY <1>15, <2>1
<1>17. V(0) % P[n] = D[n]
  <2>1. n \in 0 .. n /\ 0 \in 0 .. n
    OBVIOUS
  <2>2. V(0) \in Nat /\ V(n) \in Nat /\ P[n] \in Nat /\ P[n] > 0 /\ D[n] \in Nat
    BY <2>1, <1>11, <1>13, <1>14
  <2> PICK v \in Nat, w \in Nat, p \in Nat, d \in Nat : v = V(0) /\ w = V(n) /\ p = P[n] /\ d = D[n]
    BY <2>2
  <2>3. v = w * p + d /\ d < p /\ p > 0
    BY <1>16, <2>2
  <2>4. v % p = d
    BY ONLY <2>3, RemainderOf
  <2> QED BY <2>4
<1>18. V(0) = InBase(256, b)
  BY <1>8 DEF V, start
<1> QED BY <1>0, <1>13, <1>14, <1>17, <1>18

(* Four characters hold three bytes: each reads as the other.                *)
Packs(x, y, z, a, b, c, d) ==
    /\ a = x \div 4 /\ b = ((x % 4) * 16) + (y \div 16)
    /\ c = ((y % 16) * 4) + (z \div 64) /\ d = z % 64
Unpacks(a, b, c, d, x, y, z) ==
    /\ x = a * 4 + (b \div 16) /\ y = ((b * 16) % 256) + (c \div 4) /\ z = ((c * 64) % 256) + d

LEMMA BytesOfChars ==
    ASSUME NEW x, NEW y, NEW z, NEW a, NEW b, NEW c, NEW d,
           x \in 0 .. 255, y \in 0 .. 255, z \in 0 .. 255, Packs(x, y, z, a, b, c, d)
    PROVE  /\ a \in 0 .. 63 /\ b \in 0 .. 63 /\ c \in 0 .. 63 /\ d \in 0 .. 63
           /\ Unpacks(a, b, c, d, x, y, z)
<1> PICK xh \in 0 .. 63, xl \in 0 .. 3 : xh = x \div 4 /\ xl = x % 4 /\ x = 4 * xh + xl
  OBVIOUS
<1> PICK yh \in 0 .. 15, yl \in 0 .. 15 : yh = y \div 16 /\ yl = y % 16 /\ y = 16 * yh + yl
  BY SMTT(30)
<1> PICK zh \in 0 .. 3, zl \in 0 .. 63 : zh = z \div 64 /\ zl = z % 64 /\ z = 64 * zh + zl
  BY SMTT(30)
<1>1. a = xh /\ b = xl * 16 + yh /\ c = yl * 4 + zh /\ d = zl
  BY DEF Packs
<1>2. b \div 16 = xl /\ (b * 16) % 256 = yh * 16
  BY ONLY <1>1, xl \in 0 .. 3, yh \in 0 .. 15
<1>3. c \div 4 = yl /\ (c * 64) % 256 = zh * 64
  BY ONLY <1>1, yl \in 0 .. 15, zh \in 0 .. 3
<1> QED BY <1>1, <1>2, <1>3 DEF Unpacks

LEMMA CharsOfBytes ==
    ASSUME NEW a, NEW b, NEW c, NEW d, NEW x, NEW y, NEW z,
           a \in 0 .. 63, b \in 0 .. 63, c \in 0 .. 63, d \in 0 .. 63, Unpacks(a, b, c, d, x, y, z)
    PROVE  Packs(x, y, z, a, b, c, d)
BY DEF Packs, Unpacks

LEMMA GroupOf ==
    ASSUME NEW g \in Nat
    PROVE  /\ \A i \in 1 .. 4 * g : \E k \in 0 .. g - 1 :
                 i = 4 * k + 1 \/ i = 4 * k + 2 \/ i = 4 * k + 3 \/ i = 4 * k + 4
           /\ \A i \in 1 .. 3 * g : \E k \in 0 .. g - 1 :
                 i = 3 * k + 1 \/ i = 3 * k + 2 \/ i = 3 * k + 3
<1>1. ASSUME NEW i \in 1 .. 4 * g
      PROVE  \E k \in 0 .. g - 1 : i = 4 * k + 1 \/ i = 4 * k + 2 \/ i = 4 * k + 3 \/ i = 4 * k + 4
  <2>1. PICK k : k = (i - 1) \div 4
    OBVIOUS
  <2>2. k \in 0 .. g - 1 /\ (i = 4 * k + 1 \/ i = 4 * k + 2 \/ i = 4 * k + 3 \/ i = 4 * k + 4)
    BY <2>1
  <2> QED BY <2>2
<1>2. ASSUME NEW i \in 1 .. 3 * g
      PROVE  \E k \in 0 .. g - 1 : i = 3 * k + 1 \/ i = 3 * k + 2 \/ i = 3 * k + 3
  <2>1. PICK k : k = (i - 1) \div 3
    OBVIOUS
  <2>2. k \in 0 .. g - 1 /\ (i = 3 * k + 1 \/ i = 3 * k + 2 \/ i = 3 * k + 3)
    BY <2>1
  <2> QED BY <2>2
<1> QED BY <1>1, <1>2

Encodes(t, data, g) ==
    /\ t \in Seq(Nat) /\ Len(t) = 4 * g
    /\ \A k \in 0 .. g - 1 : Packs(data[3 * k + 1], data[3 * k + 2], data[3 * k + 3],
                                   t[4 * k + 1], t[4 * k + 2], t[4 * k + 3], t[4 * k + 4])

LEMMA EncodeGroups ==
    ASSUME NEW g \in Nat, NEW data \in Seq(Nat), Len(data) = 3 * g
    PROVE  Encodes(base64_url_encode(data), data, g)
<1> DEFINE From(i) == ((i - 1) \div 4) * 3
           Slot(i) == ((i - 1) % 4) + 1
           Char(i) == Four(data[From(i) + 1], data[From(i) + 2], data[From(i) + 3])[Slot(i)]
           full == Len(data) \div 3
           rest == SubSeq(data, 3 * full + 1, Len(data))
           head == [i \in 1 .. 4 * full |-> Char(i)]
           t == [i \in 1 .. 4 * g |-> Char(i)]
<1>1. full = g /\ 3 * full + 1 > Len(data)
  OBVIOUS
<1>2. rest = << >> /\ Len(rest) = 0
  BY <1>1, SubSeqProperties
<1>3. base64_url_encode(data) = head \o << >>
  <2>1. base64_url_encode(data) = head \o (CASE Len(rest) = 0 -> << >>
                   [] Len(rest) = 1 -> SubSeq(Four(rest[1], 0, 0), 1, 2)
                   [] Len(rest) = 2 -> SubSeq(Four(rest[1], rest[2], 0), 1, 3))
    BY DEF base64_url_encode
  <2> HIDE DEF rest, head
  <2> QED BY <2>1, <1>2
<1>4. head = t
  BY <1>1
<1> HIDE DEF head
<1>5. \A k \in 0 .. g - 1 : \A j \in 1 .. 3 : 3 * k + j \in 1 .. Len(data) /\ data[3 * k + j] \in Nat
  OBVIOUS
<1>6. \A k \in 0 .. g - 1 :
          /\ Char(4 * k + 1) = data[3 * k + 1] \div 4
          /\ Char(4 * k + 2) = ((data[3 * k + 1] % 4) * 16) + (data[3 * k + 2] \div 16)
          /\ Char(4 * k + 3) = ((data[3 * k + 2] % 16) * 4) + (data[3 * k + 3] \div 64)
          /\ Char(4 * k + 4) = data[3 * k + 3] % 64
  <2> TAKE k \in 0 .. g - 1
  <2>1. /\ From(4 * k + 1) = 3 * k /\ From(4 * k + 2) = 3 * k /\ From(4 * k + 3) = 3 * k /\ From(4 * k + 4) = 3 * k
    OBVIOUS
  <2>2. Slot(4 * k + 1) = 1 /\ Slot(4 * k + 2) = 2 /\ Slot(4 * k + 3) = 3 /\ Slot(4 * k + 4) = 4
    OBVIOUS
  <2> HIDE DEF From, Slot
  <2> PICK x, y, z : x = data[3 * k + 1] /\ y = data[3 * k + 2] /\ z = data[3 * k + 3]
    OBVIOUS
  <2>3. /\ Char(4 * k + 1) = Four(x, y, z)[1] /\ Char(4 * k + 2) = Four(x, y, z)[2]
        /\ Char(4 * k + 3) = Four(x, y, z)[3] /\ Char(4 * k + 4) = Four(x, y, z)[4]
    BY <2>1, <2>2, Zenon
  <2>4. /\ Four(x, y, z)[1] = x \div 4 /\ Four(x, y, z)[2] = ((x % 4) * 16) + (y \div 16)
        /\ Four(x, y, z)[3] = ((y % 16) * 4) + (z \div 64) /\ Four(x, y, z)[4] = z % 64
    BY DEF Four
  <2> QED BY <2>3, <2>4, Zenon
<1>7. \A k \in 0 .. g - 1 : /\ Char(4 * k + 1) \in Nat /\ Char(4 * k + 2) \in Nat
                            /\ Char(4 * k + 3) \in Nat /\ Char(4 * k + 4) \in Nat
  <2> TAKE k \in 0 .. g - 1
  <2> PICK x \in Nat, y \in Nat, z \in Nat : x = data[3 * k + 1] /\ y = data[3 * k + 2] /\ z = data[3 * k + 3]
    BY <1>5
  <2>1. x \div 4 \in Nat /\ ((x % 4) * 16) + (y \div 16) \in Nat /\ ((y % 16) * 4) + (z \div 64) \in Nat /\ z % 64 \in Nat
    BY ONLY x \in Nat, y \in Nat, z \in Nat
  <2> HIDE DEF Char
  <2> QED BY <1>6, <2>1
<1> HIDE DEF Char
<1>8. \A i \in 1 .. 4 * g : Char(i) \in Nat
  BY <1>7, GroupOf
<1>9. t \in Seq(Nat) /\ Len(t) = 4 * g /\ DOMAIN t = 1 .. 4 * g
  <2>1. t \in [1 .. 4 * g -> Nat] /\ 4 * g \in Nat
    BY <1>8
  <2> HIDE DEF t
  <2> QED BY <2>1, SeqDef, LenProperties
<1>10. base64_url_encode(data) = t
  <2>1. t \o << >> = t
    BY <1>9, ConcatEmptySeq
  <2> QED BY <1>3, <1>4, <2>1
<1>11. \A k \in 0 .. g - 1 : \A j \in 1 .. 4 : t[4 * k + j] = Char(4 * k + j)
  OBVIOUS
<1> HIDE DEF t
<1>12. \A k \in 0 .. g - 1 : Packs(data[3 * k + 1], data[3 * k + 2], data[3 * k + 3],
                                    t[4 * k + 1], t[4 * k + 2], t[4 * k + 3], t[4 * k + 4])
  <2>1. 1 \in 1 .. 4 /\ 2 \in 1 .. 4 /\ 3 \in 1 .. 4 /\ 4 \in 1 .. 4
    OBVIOUS
  <2> QED BY ONLY <2>1, <1>6, <1>11, Zenon DEF Packs
<1> QED BY ONLY <1>9, <1>10, <1>12 DEF Encodes

Decodes(data, s, g) ==
    /\ data \in Seq(Nat) /\ Len(data) = 3 * g
    /\ \A k \in 0 .. g - 1 : Unpacks(s[4 * k + 1], s[4 * k + 2], s[4 * k + 3], s[4 * k + 4],
                                     data[3 * k + 1], data[3 * k + 2], data[3 * k + 3])

(* What decoding looks at, and how much it makes of it.                      *)
LEMMA DecodeGroups ==
    ASSUME NEW g \in Nat, NEW s \in Seq(Nat), Len(s) \in {4 * g, 4 * g + 1},
           \A i \in 1 .. 4 * g : s[i] <= 63
    PROVE  Decodes(base64_url_decode(s), s, g)
<1> DEFINE full == Len(s) \div 4
           rest == Len(s) % 4
           count == 3 * full + (IF rest = 0 THEN 0 ELSE rest - 1)
           read == IF rest = 1 THEN Len(s) - 1 ELSE Len(s)
           At(i) == ((i - 1) \div 3) * 4 + ((i - 1) % 3) + 1
           Byte(i) == CASE i % 3 = 1 -> s[At(i)] * 4 + (s[At(i) + 1] \div 16)
                        [] i % 3 = 2 -> ((s[At(i)] * 16) % 256) + (s[At(i) + 1] \div 4)
                        [] i % 3 = 0 -> ((s[At(i)] * 64) % 256) + s[At(i) + 1]
           d == [i \in 1 .. 3 * g |-> Byte(i)]
<1>1. full = g /\ read = 4 * g /\ count = 3 * g
  <2>1. full = g /\ rest \in {0, 1} /\ (rest = 1 => Len(s) = 4 * g + 1) /\ (rest = 0 => Len(s) = 4 * g)
    BY SMTT(30)
  <2> HIDE DEF full, rest
  <2> QED BY <2>1
<1>2. base64_url_decode(s) = IF \E i \in 1 .. read : s[i] > 63 THEN NoBytes ELSE [i \in 1 .. count |-> Byte(i)]
  BY DEF base64_url_decode
<1> HIDE DEF Byte, full, rest, count, read
<1>3. base64_url_decode(s) = d
  <2>1. \A i \in 1 .. 4 * g : ~ (s[i] > 63)
    OBVIOUS
  <2> QED BY <1>1, <1>2, <2>1
<1>4. \A k \in 0 .. g - 1 :
          /\ Byte(3 * k + 1) = s[4 * k + 1] * 4 + (s[4 * k + 2] \div 16)
          /\ Byte(3 * k + 2) = ((s[4 * k + 2] * 16) % 256) + (s[4 * k + 3] \div 4)
          /\ Byte(3 * k + 3) = ((s[4 * k + 3] * 64) % 256) + s[4 * k + 4]
  <2> TAKE k \in 0 .. g - 1
  <2>1. /\ At(3 * k + 1) = 4 * k + 1 /\ At(3 * k + 2) = 4 * k + 2 /\ At(3 * k + 3) = 4 * k + 3
        /\ (3 * k + 1) % 3 = 1 /\ (3 * k + 2) % 3 = 2 /\ (3 * k + 3) % 3 = 0
        /\ At(3 * k + 1) + 1 = 4 * k + 2 /\ At(3 * k + 2) + 1 = 4 * k + 3 /\ At(3 * k + 3) + 1 = 4 * k + 4
    OBVIOUS
  <2> DEFINE One(i) == s[At(i)] * 4 + (s[At(i) + 1] \div 16)
             Two(i) == ((s[At(i)] * 16) % 256) + (s[At(i) + 1] \div 4)
             Three(i) == ((s[At(i)] * 64) % 256) + s[At(i) + 1]
  <2>2. ASSUME NEW i PROVE /\ i % 3 = 1 => Byte(i) = One(i)
                           /\ i % 3 = 2 => Byte(i) = Two(i)
                           /\ i % 3 = 0 => Byte(i) = Three(i)
    <3> HIDE DEF One, Two, Three
    <3>1. Byte(i) = CASE i % 3 = 1 -> One(i) [] i % 3 = 2 -> Two(i) [] i % 3 = 0 -> Three(i)
      BY DEF Byte, One, Two, Three
    <3> QED BY ONLY <3>1
  <2> HIDE DEF At
  <2>3. /\ One(3 * k + 1) = s[4 * k + 1] * 4 + (s[4 * k + 2] \div 16)
        /\ Two(3 * k + 2) = ((s[4 * k + 2] * 16) % 256) + (s[4 * k + 3] \div 4)
        /\ Three(3 * k + 3) = ((s[4 * k + 3] * 64) % 256) + s[4 * k + 4]
    BY <2>1, Zenon
  <2> HIDE DEF One, Two, Three
  <2>4. Byte(3 * k + 1) = One(3 * k + 1)
    BY ONLY <2>1, <2>2, Zenon
  <2>5. Byte(3 * k + 2) = Two(3 * k + 2)
    BY ONLY <2>1, <2>2, Zenon
  <2>6. Byte(3 * k + 3) = Three(3 * k + 3)
    BY ONLY <2>1, <2>2, Zenon
  <2> QED BY ONLY <2>3, <2>4, <2>5, <2>6, Zenon
<1>5. \A k \in 0 .. g - 1 : /\ s[4 * k + 1] \in Nat /\ s[4 * k + 2] \in Nat
                            /\ s[4 * k + 3] \in Nat /\ s[4 * k + 4] \in Nat
  <2> TAKE k \in 0 .. g - 1
  <2>1. \A j \in 1 .. 4 : 4 * k + j \in 1 .. Len(s)
    OBVIOUS
  <2>2. \A i \in 1 .. Len(s) : s[i] \in Nat
    OBVIOUS
  <2>3. 1 \in 1 .. 4 /\ 2 \in 1 .. 4 /\ 3 \in 1 .. 4 /\ 4 \in 1 .. 4
    OBVIOUS
  <2> QED BY ONLY <2>1, <2>2, <2>3, Zenon
<1>6. \A k \in 0 .. g - 1 : Byte(3 * k + 1) \in Nat /\ Byte(3 * k + 2) \in Nat /\ Byte(3 * k + 3) \in Nat
  <2> TAKE k \in 0 .. g - 1
  <2> PICK a \in Nat, b \in Nat, c \in Nat, e \in Nat :
         a = s[4 * k + 1] /\ b = s[4 * k + 2] /\ c = s[4 * k + 3] /\ e = s[4 * k + 4]
    BY <1>5
  <2>1. a * 4 + (b \div 16) \in Nat /\ ((b * 16) % 256) + (c \div 4) \in Nat /\ ((c * 64) % 256) + e \in Nat
    BY ONLY a \in Nat, b \in Nat, c \in Nat, e \in Nat
  <2> QED BY <1>4, <2>1
<1>7. \A i \in 1 .. 3 * g : Byte(i) \in Nat
  BY <1>6, GroupOf
<1>8. d \in Seq(Nat) /\ Len(d) = 3 * g
  <2>1. d \in [1 .. 3 * g -> Nat] /\ 3 * g \in Nat
    BY <1>7
  <2> HIDE DEF d
  <2> QED BY <2>1, SeqDef, LenProperties
<1>9. \A k \in 0 .. g - 1 : \A j \in 1 .. 3 : d[3 * k + j] = Byte(3 * k + j)
  OBVIOUS
<1> HIDE DEF d
<1>10. \A k \in 0 .. g - 1 : Unpacks(s[4 * k + 1], s[4 * k + 2], s[4 * k + 3], s[4 * k + 4],
                                      d[3 * k + 1], d[3 * k + 2], d[3 * k + 3])
  <2>1. 1 \in 1 .. 3 /\ 2 \in 1 .. 3 /\ 3 \in 1 .. 3
    OBVIOUS
  <2> TAKE k \in 0 .. g - 1
  <2>2. /\ d[3 * k + 1] = s[4 * k + 1] * 4 + (s[4 * k + 2] \div 16)
        /\ d[3 * k + 2] = ((s[4 * k + 2] * 16) % 256) + (s[4 * k + 3] \div 4)
        /\ d[3 * k + 3] = ((s[4 * k + 3] * 64) % 256) + s[4 * k + 4]
    <3>1. d[3 * k + 1] = Byte(3 * k + 1) /\ d[3 * k + 2] = Byte(3 * k + 2) /\ d[3 * k + 3] = Byte(3 * k + 3)
      BY ONLY <2>1, <1>9, k \in 0 .. g - 1, Zenon
    <3>2. /\ Byte(3 * k + 1) = s[4 * k + 1] * 4 + (s[4 * k + 2] \div 16)
          /\ Byte(3 * k + 2) = ((s[4 * k + 2] * 16) % 256) + (s[4 * k + 3] \div 4)
          /\ Byte(3 * k + 3) = ((s[4 * k + 3] * 64) % 256) + s[4 * k + 4]
      BY ONLY <1>4, k \in 0 .. g - 1, Zenon
    <3> QED BY ONLY <3>1, <3>2, Zenon
  <2> QED BY ONLY <2>2, Zenon DEF Unpacks
<1> QED BY ONLY <1>3, <1>8, <1>10 DEF Decodes

LEMMA DecodeLooksAt ==
    ASSUME NEW g \in Nat, NEW s \in Seq(Nat), base64_url_decode(s) # NoBytes,
           Len(base64_url_decode(s)) = 3 * g
    PROVE  Len(s) \in {4 * g, 4 * g + 1} /\ \A i \in 1 .. 4 * g : s[i] <= 63
<1> DEFINE full == Len(s) \div 4
           rest == Len(s) % 4
           count == 3 * full + (IF rest = 0 THEN 0 ELSE rest - 1)
           read == IF rest = 1 THEN Len(s) - 1 ELSE Len(s)
           At(i) == ((i - 1) \div 3) * 4 + ((i - 1) % 3) + 1
           Byte(i) == CASE i % 3 = 1 -> s[At(i)] * 4 + (s[At(i) + 1] \div 16)
                        [] i % 3 = 2 -> ((s[At(i)] * 16) % 256) + (s[At(i) + 1] \div 4)
                        [] i % 3 = 0 -> ((s[At(i)] * 64) % 256) + s[At(i) + 1]
<1>1. base64_url_decode(s) = IF \E i \in 1 .. read : s[i] > 63 THEN NoBytes ELSE [i \in 1 .. count |-> Byte(i)]
  BY DEF base64_url_decode
<1>2. Len(s) \in Nat /\ full \in Nat /\ rest \in 0 .. 3 /\ Len(s) = 4 * full + rest
  OBVIOUS
<1> HIDE DEF Byte, full, rest
<1>3. count \in Nat
  BY <1>2
<1> HIDE DEF read, count
<1>4. base64_url_decode(s) = [i \in 1 .. count |-> Byte(i)] /\ ~ \E i \in 1 .. read : s[i] > 63
  BY <1>1
<1>5. count = 3 * g
  <2> DEFINE e == [i \in 1 .. count |-> Byte(i)]
  <2>1. e \in Seq({Byte(i) : i \in 1 .. count}) /\ DOMAIN e = 1 .. count
    <3>1. e \in [1 .. count -> {Byte(i) : i \in 1 .. count}] /\ DOMAIN e = 1 .. count
      OBVIOUS
    <3>2. \A S : \A m \in Nat : \A h \in [1 .. m -> S] : h \in Seq(S)
      BY SeqDef, SMTT(30)
    <3> QED BY ONLY <3>1, <3>2, <1>3, Zenon
  <2> HIDE DEF e
  <2>2. Len(e) = count
    BY <2>1, <1>3, LenProperties
  <2> QED BY <2>2, <1>4 DEF e
<1>6. full = g /\ rest \in {0, 1}
  BY <1>2, <1>5 DEF count
<1>7. Len(s) \in {4 * g, 4 * g + 1} /\ read = 4 * g
  BY <1>2, <1>6 DEF read
<1>8. \A i \in 1 .. 4 * g : s[i] <= 63
  <2> TAKE i \in 1 .. 4 * g
  <2>1. i \in 1 .. Len(s)
    BY <1>7
  <2>2. s[i] \in Nat /\ ~ (s[i] > 63)
    BY <1>4, <1>7, <2>1
  <2> QED BY <2>2
<1> QED BY <1>7, <1>8

LEMMA FingerprintGroups ==
    \E g \in Nat : /\ FingerprintSize + 1 = 3 * g /\ g >= 1
                   /\ \A f \in FingerprintBytes : f \in Seq(0 .. 255) /\ Len(f) + 1 = 3 * g
<1>1. PICK n \in {Len(f) : f \in FingerprintBytes} :
        n % 3 = 2 /\ \A f \in FingerprintBytes : Len(f) = n
  BY CodeAssumption
<1>2. PICK f \in FingerprintBytes : n = Len(f)
  OBVIOUS
<1>3. \A h \in FingerprintBytes : h \in Seq(0 .. 255)
  BY CodeAssumption
<1>4. n \in Nat
  BY <1>2, <1>3
<1>5. FingerprintSize = n
  BY <1>1, <1>2 DEF FingerprintSize
<1>6. PICK g \in Nat : n + 1 = 3 * g /\ g >= 1
  <2>1. n = 3 * (n \div 3) + 2 /\ n \div 3 \in Nat
    BY ONLY <1>1, <1>4
  <2>2. PICK k \in Nat : n = 3 * k + 2
    BY <2>1
  <2>3. k + 1 \in Nat /\ n + 1 = 3 * (k + 1) /\ k + 1 >= 1
    BY ONLY <2>2
  <2> QED BY <2>3
<1> QED BY <1>1, <1>3, <1>5, <1>6

(* The bytes and the characters of a string are those of one another.        *)
LEMMA EncodedDecodes ==
    ASSUME NEW g \in Nat, NEW data \in Seq(0 .. 255), Len(data) = 3 * g
    PROVE  base64_url_decode(base64_url_encode(data)) = data
<1> DEFINE t == base64_url_encode(data)
           e == base64_url_decode(t)
<1>1. data \in Seq(Nat)
  <2>1. 0 .. 255 \subseteq Nat
    OBVIOUS
  <2> QED BY <2>1, SeqMonotonic
<1>2. Encodes(t, data, g)
  BY <1>1, EncodeGroups
<1> HIDE DEF t, e
<1>3. \A k \in 0 .. g - 1 : /\ data[3 * k + 1] \in 0 .. 255 /\ data[3 * k + 2] \in 0 .. 255
                            /\ data[3 * k + 3] \in 0 .. 255
  <2> TAKE k \in 0 .. g - 1
  <2>1. 3 * k + 1 \in 1 .. Len(data) /\ 3 * k + 2 \in 1 .. Len(data) /\ 3 * k + 3 \in 1 .. Len(data)
    OBVIOUS
  <2> QED BY ONLY <2>1, data \in Seq(0 .. 255), ElementOfSeq
<1>4. \A k \in 0 .. g - 1 :
        /\ t[4 * k + 1] \in 0 .. 63 /\ t[4 * k + 2] \in 0 .. 63
        /\ t[4 * k + 3] \in 0 .. 63 /\ t[4 * k + 4] \in 0 .. 63
        /\ Unpacks(t[4 * k + 1], t[4 * k + 2], t[4 * k + 3], t[4 * k + 4],
                   data[3 * k + 1], data[3 * k + 2], data[3 * k + 3])
  <2> TAKE k \in 0 .. g - 1
  <2>1. Packs(data[3 * k + 1], data[3 * k + 2], data[3 * k + 3],
              t[4 * k + 1], t[4 * k + 2], t[4 * k + 3], t[4 * k + 4])
    BY <1>2, Zenon DEF Encodes
  <2>2. data[3 * k + 1] \in 0 .. 255 /\ data[3 * k + 2] \in 0 .. 255 /\ data[3 * k + 3] \in 0 .. 255
    BY <1>3, Zenon
  <2> PICK x, y, z, a, b, c, d :
        /\ x = data[3 * k + 1] /\ y = data[3 * k + 2] /\ z = data[3 * k + 3]
        /\ a = t[4 * k + 1] /\ b = t[4 * k + 2] /\ c = t[4 * k + 3] /\ d = t[4 * k + 4]
    BY Zenon
  <2>3. x \in 0 .. 255 /\ y \in 0 .. 255 /\ z \in 0 .. 255 /\ Packs(x, y, z, a, b, c, d)
    BY <2>1, <2>2, Zenon
  <2>4. /\ a \in 0 .. 63 /\ b \in 0 .. 63 /\ c \in 0 .. 63 /\ d \in 0 .. 63
        /\ Unpacks(a, b, c, d, x, y, z)
    BY ONLY <2>3, BytesOfChars
  <2> QED BY <2>4, Zenon
<1>5. \A i \in 1 .. 4 * g : t[i] <= 63
  <2>1. \A k \in 0 .. g - 1 : t[4 * k + 1] <= 63 /\ t[4 * k + 2] <= 63 /\ t[4 * k + 3] <= 63 /\ t[4 * k + 4] <= 63
    <3>1. \A x \in 0 .. 63 : x <= 63
      OBVIOUS
    <3> QED BY ONLY <3>1, <1>4, Zenon
  <2> QED BY <2>1, GroupOf
<1>6. Decodes(e, t, g)
  <2>1. t \in Seq(Nat) /\ Len(t) \in {4 * g, 4 * g + 1}
    BY <1>2 DEF Encodes
  <2> QED BY <2>1, <1>5, DecodeGroups DEF e
<1>7. \A k \in 0 .. g - 1 : /\ e[3 * k + 1] = data[3 * k + 1] /\ e[3 * k + 2] = data[3 * k + 2]
                            /\ e[3 * k + 3] = data[3 * k + 3]
  <2> TAKE k \in 0 .. g - 1
  <2>1. Unpacks(t[4 * k + 1], t[4 * k + 2], t[4 * k + 3], t[4 * k + 4],
                e[3 * k + 1], e[3 * k + 2], e[3 * k + 3])
    BY <1>6, Zenon DEF Decodes
  <2>2. Unpacks(t[4 * k + 1], t[4 * k + 2], t[4 * k + 3], t[4 * k + 4],
                data[3 * k + 1], data[3 * k + 2], data[3 * k + 3])
    BY <1>4, Zenon
  <2> QED BY ONLY <2>1, <2>2, Zenon DEF Unpacks
<1>8. \A i \in 1 .. 3 * g : e[i] = data[i]
  BY <1>7, GroupOf
<1>9. e \in Seq(Nat) /\ Len(e) = 3 * g
  BY <1>6 DEF Decodes
<1> QED BY <1>1, <1>8, <1>9, SeqEqual DEF e, t

LEMMA DecodedEncodes ==
    ASSUME NEW g \in Nat, NEW s \in Seq(Nat), base64_url_decode(s) # NoBytes,
           Len(base64_url_decode(s)) = 3 * g
    PROVE  LET t == base64_url_encode(base64_url_decode(s)) IN
           Len(t) = 4 * g /\ Len(s) \in {Len(t), Len(t) + 1} /\ SubSeq(s, 1, Len(t)) = t
<1> DEFINE e == base64_url_decode(s)
           t == base64_url_encode(e)
<1>1. Len(s) \in {4 * g, 4 * g + 1} /\ \A i \in 1 .. 4 * g : s[i] <= 63
  BY DecodeLooksAt
<1>2. Decodes(e, s, g)
  BY <1>1, DecodeGroups
<1>3. Encodes(t, e, g)
  BY <1>2, EncodeGroups DEF Decodes
<1> HIDE DEF e, t
<1>4. \A k \in 0 .. g - 1 : /\ s[4 * k + 1] \in 0 .. 63 /\ s[4 * k + 2] \in 0 .. 63
                            /\ s[4 * k + 3] \in 0 .. 63 /\ s[4 * k + 4] \in 0 .. 63
  <2> TAKE k \in 0 .. g - 1
  <2>1. \A j \in 1 .. 4 : 4 * k + j \in 1 .. Len(s) /\ 4 * k + j \in 1 .. 4 * g
    BY <1>1
  <2>2. \A i \in 1 .. Len(s) : s[i] \in Nat
    OBVIOUS
  <2>3. \A j \in 1 .. 4 : s[4 * k + j] \in 0 .. 63
    <3>1. \A x \in Nat : x <= 63 => x \in 0 .. 63
      OBVIOUS
    <3> QED BY ONLY <3>1, <1>1, <2>1, <2>2, Zenon
  <2>4. 1 \in 1 .. 4 /\ 2 \in 1 .. 4 /\ 3 \in 1 .. 4 /\ 4 \in 1 .. 4
    OBVIOUS
  <2> QED BY ONLY <2>3, <2>4, Zenon
<1>5. \A k \in 0 .. g - 1 : /\ t[4 * k + 1] = s[4 * k + 1] /\ t[4 * k + 2] = s[4 * k + 2]
                            /\ t[4 * k + 3] = s[4 * k + 3] /\ t[4 * k + 4] = s[4 * k + 4]
  <2> TAKE k \in 0 .. g - 1
  <2>1. Unpacks(s[4 * k + 1], s[4 * k + 2], s[4 * k + 3], s[4 * k + 4],
                e[3 * k + 1], e[3 * k + 2], e[3 * k + 3])
    BY <1>2, Zenon DEF Decodes
  <2>2. /\ s[4 * k + 1] \in 0 .. 63 /\ s[4 * k + 2] \in 0 .. 63
        /\ s[4 * k + 3] \in 0 .. 63 /\ s[4 * k + 4] \in 0 .. 63
    BY <1>4, Zenon
  <2>3. Packs(e[3 * k + 1], e[3 * k + 2], e[3 * k + 3],
              s[4 * k + 1], s[4 * k + 2], s[4 * k + 3], s[4 * k + 4])
    BY ONLY <2>1, <2>2, CharsOfBytes, Zenon
  <2>4. Packs(e[3 * k + 1], e[3 * k + 2], e[3 * k + 3],
              t[4 * k + 1], t[4 * k + 2], t[4 * k + 3], t[4 * k + 4])
    BY <1>3, Zenon DEF Encodes
  <2> QED BY ONLY <2>3, <2>4, Zenon DEF Packs
<1>6. \A i \in 1 .. 4 * g : t[i] = s[i]
  BY <1>5, GroupOf
<1>7. t \in Seq(Nat) /\ Len(t) = 4 * g
  BY <1>3 DEF Encodes
<1>8. SubSeq(s, 1, 4 * g) = t
  <2>1. 4 * g \in Nat /\ 4 * g <= Len(s)
    BY <1>1
  <2>2. ASSUME NEW m \in Nat, m <= Len(s)
        PROVE  /\ SubSeq(s, 1, m) \in Seq(Nat) /\ Len(SubSeq(s, 1, m)) = m
               /\ \A i \in 1 .. m : SubSeq(s, 1, m)[i] = s[i]
    <3>1. \A i \in 1 .. m : i \in 1 .. Len(s) /\ s[i] \in Nat
      BY ONLY s \in Seq(Nat), m \in Nat, <2>2
    <3>2. SubSeq(s, 1, m) \in Seq(Nat) /\ Len(SubSeq(s, 1, m)) = m
      BY ONLY s \in Seq(Nat), m \in Nat, <2>2, <3>1
    <3>3. \A i \in 1 .. m : SubSeq(s, 1, m)[i] = s[i]
      BY ONLY s \in Seq(Nat), m \in Nat, <2>2, <3>1
    <3> QED BY <3>2, <3>3
  <2>3. /\ SubSeq(s, 1, 4 * g) \in Seq(Nat) /\ Len(SubSeq(s, 1, 4 * g)) = 4 * g
        /\ \A i \in 1 .. 4 * g : SubSeq(s, 1, 4 * g)[i] = s[i]
    BY ONLY <2>1, <2>2, Zenon
  <2> QED BY <1>6, <1>7, <2>3, SeqEqual
<1> QED BY <1>1, <1>7, <1>8 DEF t, e

(* A fingerprint reads back from its own string.                             *)
LEMMA QrReads ==
    ASSUME NEW f \in FingerprintBytes
    PROVE  to_qr_string(f) \in Seq(Nat) /\ from_qr_string(to_qr_string(f)) = f
<1> DEFINE data == << 1 >> \o f
<1>1. PICK g \in Nat : FingerprintSize + 1 = 3 * g /\ g >= 1 /\ f \in Seq(0 .. 255) /\ Len(f) + 1 = 3 * g
  BY FingerprintGroups
<1>2. data \in Seq(0 .. 255) /\ Len(data) = 3 * g /\ data[1] = 1 /\ data # << >> /\ Tail(data) = f
  <2>1. << 1 >> \in Seq(0 .. 255) /\ Len(<< 1 >>) = 1
    OBVIOUS
  <2>2. data \in Seq(0 .. 255) /\ Len(data) = 1 + Len(f) /\ data[1] = << 1 >>[1]
    BY <1>1, <2>1, ConcatProperties
  <2>3. Tail(data) = f
    BY <1>1
  <2>4. Len(f) \in Nat
    BY <1>1
  <2> HIDE DEF data
  <2>5. Len(data) = 3 * g
    BY ONLY <1>1, <2>2, <2>4
  <2>6. data # << >>
    BY ONLY <2>5, <1>1, g \in Nat
  <2> QED BY <2>2, <2>3, <2>5, <2>6
<1>3. to_qr_string(f) = base64_url_encode(data)
  BY DEF to_qr_string
<1> HIDE DEF data
<1>4. base64_url_decode(to_qr_string(f)) = data
  BY ONLY <1>1, <1>2, <1>3, EncodedDecodes
<1>5. data # NoBytes
  <2>1. NoBytes[1] = 256
    BY DEF NoBytes
  <2> QED BY ONLY <2>1, <1>2
<1>6. from_qr_string(to_qr_string(f)) = f
  BY ONLY <1>1, <1>2, <1>4, <1>5, Zenon DEF from_qr_string
<1>7. to_qr_string(f) \in Seq(Nat)
  <2>1. data \in Seq(Nat)
    <3>1. 0 .. 255 \subseteq Nat
      OBVIOUS
    <3> QED BY <1>2, <3>1, SeqMonotonic
  <2> QED BY <1>1, <1>2, <1>3, <2>1, EncodeGroups DEF Encodes
<1> QED BY <1>6, <1>7

(* Whatever reads as a fingerprint begins with the string of what was read.  *)
LEMMA QrStands ==
    ASSUME NEW s \in Seq(Nat), from_qr_string(s) # NoBytes, FingerprintBytes # {}
    PROVE  LET t == to_qr_string(from_qr_string(s)) IN
           Len(s) \in {Len(t), Len(t) + 1} /\ SubSeq(s, 1, Len(t)) = t
<1> DEFINE data == base64_url_decode(s)
<1>1. data # NoBytes /\ Len(data) = FingerprintSize + 1 /\ data[1] = 1 /\ from_qr_string(s) = Tail(data)
  BY Zenon DEF from_qr_string
<1>2. PICK g \in Nat : FingerprintSize + 1 = 3 * g /\ g >= 1
  BY FingerprintGroups
<1>3. Len(data) = 3 * g
  BY ONLY <1>1, <1>2
<1>4. data \in Seq(Nat)
  <2>1. Len(s) \in {4 * g, 4 * g + 1} /\ \A i \in 1 .. 4 * g : s[i] <= 63
    BY <1>1, <1>3, DecodeLooksAt
  <2>2. Decodes(data, s, g)
    BY <2>1, DecodeGroups
  <2> HIDE DEF data
  <2> QED BY <2>2 DEF Decodes
<1>5. LET t == base64_url_encode(data) IN
      Len(s) \in {Len(t), Len(t) + 1} /\ SubSeq(s, 1, Len(t)) = t
  BY <1>1, <1>3, DecodedEncodes
<1> HIDE DEF data
<1>6. data # << >>
  BY ONLY <1>2, <1>3
<1>7. << 1 >> \o Tail(data) = data
  <2>1. << Head(data) >> \o Tail(data) = data
    BY ONLY <1>4, <1>6, HeadTailProperties
  <2>2. Head(data) = 1
    BY ONLY <1>1, <1>4, <1>6, HeadTailProperties
  <2> QED BY <2>1, <2>2
<1>8. to_qr_string(from_qr_string(s)) = base64_url_encode(data)
  BY ONLY <1>1, <1>7, Zenon DEF to_qr_string
<1> QED BY ONLY <1>5, <1>8, Zenon

LEMMA QrStringsAreStrings ==
    ASSUME NEW f \in FingerprintBytes
    PROVE  QrStrings(f) \subseteq Seq(Nat)
<1> DEFINE s == to_qr_string(f)
<1>1. s \in Seq(Nat)
  BY QrReads
<1>2. Sextets \subseteq Nat
  BY CodeAssumption
<1> HIDE DEF s
<1>3. \A i \in DOMAIN s, c \in Sextets : [s EXCEPT ![i] = c] \in Seq(Nat)
  BY <1>1, <1>2, ExceptSeq
<1>4. \A n \in 0 .. Len(s) - 1 : SubSeq(s, 1, n) \in Seq(Nat)
  <2> TAKE n \in 0 .. Len(s) - 1
  <2>1. \A i \in 1 .. n : s[i] \in Nat
    BY <1>1
  <2> QED BY <1>1, <2>1, SubSeqProperties
<1>5. \A r \in Seq(Nat) : s \o r \in Seq(Nat)
  BY <1>1, ConcatProperties
<1>6. Added \subseteq Seq(Nat)
  <2> SUFFICES ASSUME NEW e \in Added PROVE e \in Seq(Nat)
    OBVIOUS
  <2>1. PICK c \in Sextets, d \in Sextets : e \in {<< c >>, << c, d >>, << c, d, c >>}
    BY DEF Added
  <2>2. c \in Nat /\ d \in Nat
    BY <1>2
  <2>3. << c >> \in Seq(Nat) /\ << c, d >> \in Seq(Nat) /\ << c, d, c >> \in Seq(Nat)
    BY ONLY <2>2
  <2>4. e = << c >> \/ e = << c, d >> \/ e = << c, d, c >>
    BY <2>1, Zenon
  <2> QED BY ONLY <2>3, <2>4, Zenon
<1>7. ASSUME NEW r \in QrStrings(f)
      PROVE  \/ r = s
             \/ \E i \in DOMAIN s, c \in Sextets : r = [s EXCEPT ![i] = c]
             \/ \E n \in 0 .. Len(s) - 1 : r = SubSeq(s, 1, n)
             \/ \E e \in Added : r = s \o e
  BY DEF QrStrings, s
<1>8. ASSUME NEW r \in QrStrings(f)
      PROVE  r \in Seq(Nat)
  <2>1. CASE r = s
    BY <1>1, <2>1
  <2>2. CASE \E i \in DOMAIN s, c \in Sextets : r = [s EXCEPT ![i] = c]
    BY <1>3, <2>2, Zenon
  <2>3. CASE \E n \in 0 .. Len(s) - 1 : r = SubSeq(s, 1, n)
    BY <1>4, <2>3, Zenon
  <2>4. CASE \E e \in Added : r = s \o e
    BY <1>5, <1>6, <2>4, Zenon
  <2> QED BY <1>7, <2>1, <2>2, <2>3, <2>4
<1> QED BY <1>8

(* What is shown are the low digits of the first bytes.                      *)
LEMMA DigitsShown ==
    ASSUME NEW f \in FingerprintBytes
    PROVE  InBase(10, bytes_to_decimal(SubSeq(f, 1, DisplayBytes), DisplayDigits))
             = InBase(256, SubSeq(f, 1, DisplayBytes)) % PowerOfTen(DisplayDigits)
<1>1. /\ DisplayBytes \in Nat /\ DisplayDigits \in Nat /\ f \in Seq(0 .. 255)
      /\ \E n \in {Len(h) : h \in FingerprintBytes} : DisplayBytes <= n /\ Len(f) = n
  BY CodeAssumption
<1>2. f \in Seq(Nat)
  <2>1. 0 .. 255 \subseteq Nat
    OBVIOUS
  <2> QED BY <1>1, <2>1, SeqMonotonic
<1>3. SubSeq(f, 1, DisplayBytes) \in Seq(Nat)
  <2> PICK m \in Nat : m = DisplayBytes
    BY <1>1
  <2>1. m <= Len(f)
    BY <1>1
  <2>2. \A i \in 1 .. m : f[i] \in Nat
    BY ONLY f \in Seq(Nat), <1>2, <2>1, m \in Nat
  <2>3. SubSeq(f, 1, m) \in Seq(Nat)
    BY ONLY <1>2, <2>1, <2>2, m \in Nat, SubSeqProperties, SMTT(30)
  <2> QED BY <2>3
<1> QED BY ONLY <1>1, <1>3, DigitsExact

LEMMA CodesStep ==
    ASSUME NumberNext
    PROVE  CodesReadBack'
<1>1. ASSUME NEW v \in Views, NEW w \in Views, CompareNumbers(v, w)
      PROVE  CodesReadBack'
  <2>1. compared'.kind = "number"
    BY <1>1 DEF CompareNumbers
  <2> QED BY <2>1 DEF CodesReadBack
<1>2. ASSUME NEW f \in FingerprintBytes, NEW s \in QrStrings(f), ScanQr(f, s)
      PROVE  CodesReadBack'
  <2>1. compared'.kind = "qr" /\ compared'.of = f /\ compared'.string = s /\ compared'.read = from_qr_string(s)
    BY <1>2 DEF ScanQr
  <2>2. s \in Seq(Nat)
    BY <1>2, QrStringsAreStrings
  <2>3. from_qr_string(s) # NoBytes =>
          LET t == to_qr_string(from_qr_string(s)) IN
          Len(s) \in {Len(t), Len(t) + 1} /\ SubSeq(s, 1, Len(t)) = t
    BY ONLY <1>2, <2>2, QrStands
  <2>4. s = to_qr_string(f) => from_qr_string(s) = f
    BY QrReads
  <2> QED BY <2>1, <2>3, <2>4, Zenon DEF CodesReadBack
<1>3. ASSUME NEW f \in FingerprintBytes, ShowDigits(f)
      PROVE  CodesReadBack'
  <2>1. /\ compared'.kind = "display" /\ compared'.of = f
        /\ compared'.digits = bytes_to_decimal(SubSeq(f, 1, DisplayBytes), DisplayDigits)
    BY <1>3 DEF ShowDigits
  <2>2. InBase(10, bytes_to_decimal(SubSeq(f, 1, DisplayBytes), DisplayDigits))
             = InBase(256, SubSeq(f, 1, DisplayBytes)) % PowerOfTen(DisplayDigits)
    BY DigitsShown
  <2> QED BY <2>1, <2>2, Zenon DEF CodesReadBack
<1> QED BY <1>1, <1>2, <1>3, Zenon DEF NumberNext

(* A QR string reads as a fingerprint only if it begins with that one's       *)
(* string, which itself reads back, and the digits shown are the low decimal  *)
(* digits of the number; with that, what two users compare identifies the     *)
(* pair (NumbersIdentifyPairs, on new .. new_with_device_set, to_qr_string,   *)
(* from_qr_string and bytes_to_decimal of safety_number.rs).                  *)
THEOREM NumbersIdentify == NumberSpec => []NumbersIdentifyPairs
<1>1. NumberInit => CodesReadBack
  BY DEF NumberInit, CodesReadBack
<1>2. CodesReadBack /\ [NumberNext]_compared => CodesReadBack'
  <2>1. ASSUME CodesReadBack, compared' = compared PROVE CodesReadBack'
    BY <2>1 DEF CodesReadBack
  <2> QED BY CodesStep, <2>1
<1>3. NumberSpec => []CodesReadBack
  BY <1>1, <1>2, PTL DEF NumberSpec
<1> QED BY <1>3, NumbersSeparatePairs, PTL DEF NumbersIdentifyPairs
=============================================================================
