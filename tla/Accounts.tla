------------------------------ MODULE Accounts ------------------------------
(* The signed records of an account: device approvals and revocations        *)
(* (trelis-multidevice: approval.rs, revocation.rs), compromise notices and  *)
(* identity rotations (trelis-hybrid: recovery.rs), identity certificates    *)
(* and certified safety numbers (identity_cert.rs), signed one-time keys     *)
(* (one_time_key.rs). The server that carries them may put together fields   *)
(* and signatures of any records it has seen. A relying party verifies them, *)
(* and keeps the identity key it trusts for each account, the devices it     *)
(* lists, and the nonces it has seen, as the caller contract of approval.rs  *)
(* asks. Signatures are those of HybridSignature: one text under one key.    *)
EXTENDS Naturals, Sequences, FiniteSets

CONSTANTS
    Users, root, founder,   \* accounts; the identity key and the device each starts with
    Approvals,      \* what honest callers sign: calls of DeviceApprovalCertificate::new,
    Revocations,    \* DeviceRevocation::new, CompromiseNotice::new,
    Notices, Rotations, Certificates,   \* RecoveryKeyAttestation::create, IdentityCertificate::issue,
    Numbers,        \* CertifiedSafetyNumber::create_one_sided
    OneTimeKeys,    \* and HybridOneTimeKeyPair::sign, without the time
    VerifyingKeys,  \* the keys a caller passes to verify
    ReasonBytes,    \* the reason bytes that travel
    MaxRecords,     \* bound: records made
    MaxTime, Window

(* A revocation carries a reason of the enumeration, and no one-time key is   *)
(* the 33 bytes that begin the text signed for a safety number.               *)
ASSUME AccountsAssumption ==
    /\ {MaxRecords, MaxTime, Window} \subseteq Nat
    /\ root = [u \in Users |-> root[u]]
    /\ \A a \in Revocations : a.reason \in 0 .. 3
    /\ \A a \in Certificates : a.lifetime \in Nat
    /\ \A a \in OneTimeKeys : a.kem # "trelis-certified-safety-number-v1"

VARIABLES
    made,       \* the records made
    clock,
    pinned,     \* account -> the identity key the relying party trusts
    listed,     \* account -> fingerprints of the devices it lists
    consumed,   \* the nonces it has seen
    checked     \* the last verification and its result, or NotChecked

acct_vars == << made, clock, pinned, listed, consumed, checked >>

NotChecked == [none |-> "checked"]
NoReason == 256     \* from_byte of a revocation knows no other byte

derive_key(context, seed) == << context, seed >>

(* Keys. A device and an account draw theirs from one seed, and the recovery *)
(* key of an account from another use of it.                                 *)
signing_from_seed(seed) ==
    [ed448 |-> derive_key("trelis-hybrid-signing-ed448-v1", seed),
     mldsa |-> derive_key("trelis-hybrid-signing-mldsa-v1", seed)]

generate_from_seed(seed) ==
    [signing |-> signing_from_seed(derive_key("trelis-device-signing-key-v1", seed)),
     kem     |-> derive_key("trelis-device-identity-key-v1", seed)]

derive_recovery_keypair(seed) ==
    [ed448 |-> derive_key("trelis-recovery-ed448-v1", seed) \o derive_key("trelis-recovery-ed448-v1-2", seed),
     mldsa |-> derive_key("trelis-recovery-mldsa-v1", seed)]

key_fingerprint(public_key) == << "blake3", public_key >>
device_fingerprint(public_key) == << "blake3", public_key >>

sign(key, text) == [by |-> key, text |-> text]

-----------------------------------------------------------------------------
(* What each record signs.                                                    *)
approval_data_mutant(r) ==      \* the nonce left out
    << "trelis-device-approval-v1", r.approving_device_id, r.user_id, r.new_device_fingerprint,
       r.approving_device_pk, r.account_identity_pk, r.approved_at >>

approval_data(r) ==
    << "trelis-device-approval-v1", r.approving_device_id, r.user_id, r.new_device_fingerprint,
       r.server_nonce, r.approving_device_pk, r.account_identity_pk, r.approved_at >>

revocation_data(r) == << "trelis-device-revocation-v1", r.device_id, r.revoked_at, r.reason >>

notice_data(r) ==
    << "trelis-compromise-notice-v1", r.compromised_fingerprint, r.compromised_at, r.reason, r.signer_fingerprint >>

rotation_data_mutant(r) ==      \* the account left out
    << "trelis-recovery-key-attest-v1", r.old_identity_pk, r.new_identity_pk, r.registered_at >>

rotation_data(r) ==
    << "trelis-recovery-key-attest-v1", r.old_identity_pk, r.new_identity_pk, r.user_id, r.registered_at >>

certificate_data(r) == << "trelis-identity-cert-v1", r.subject_identity, r.issued_at, r.expires_at >>

number_data(number) == << "trelis-certified-safety-number-v1", number >>

one_time_key_data(r) == << r.key_id, r.kem >>

-----------------------------------------------------------------------------
(* The constructors. Each signs with the key its caller holds.               *)
approve(a, now) ==
    LET r == [kind |-> "approval", approving_device_id |-> a.device_id, user_id |-> a.user_id,
              new_device_fingerprint |-> device_fingerprint(a.new_device), server_nonce |-> a.server_nonce,
              approving_device_pk |-> a.key, account_identity_pk |-> a.identity, approved_at |-> now]
    IN  [wire |-> r, by |-> a.key, sigs |-> {sign(a.key, approval_data(r))}]

revoke(a, now) ==
    LET r == [kind |-> "revocation", device_id |-> a.device_id, revoked_at |-> now, reason |-> a.reason]
    IN  [wire |-> r, by |-> a.key, sigs |-> {sign(a.key, revocation_data(r))}]

notify(a, now) ==
    LET r == [kind |-> "notice", compromised_fingerprint |-> key_fingerprint(a.compromised),
              compromised_at |-> now, reason |-> a.reason, signer_fingerprint |-> key_fingerprint(a.key)]
    IN  [wire |-> r, by |-> a.key, sigs |-> {sign(a.key, notice_data(r))}]

attest(a, now) ==
    LET r == [kind |-> "rotation", old_identity_pk |-> a.old, new_identity_pk |-> a.new,
              user_id |-> a.user_id, registered_at |-> now]
    IN  [wire |-> r, by |-> a.old, sigs |-> {sign(a.old, rotation_data(r)), sign(a.new, rotation_data(r))}]

issue_certificate(a, now) ==
    LET r == [kind |-> "certificate", subject_identity |-> a.subject, issuer_signing_pk |-> a.key,
              issued_at |-> now, expires_at |-> now + a.lifetime]
    IN  [wire |-> r, by |-> a.key, sigs |-> {sign(a.key, certificate_data(r))}]

sign_number(a) ==
    [wire |-> [kind |-> "number", number |-> a.number], by |-> a.key, sigs |-> {sign(a.key, number_data(a.number))}]

sign_one_time_key(a) ==
    LET r == [kind |-> "one-time-key", key_id |-> a.kem, kem |-> a.kem]
    IN  [wire |-> r, by |-> a.key, sigs |-> {sign(a.key, one_time_key_data(r))}]

-----------------------------------------------------------------------------
(* The checks, on records as from_bytes leaves them.                         *)
abs_diff(x, y) == IF x > y THEN x - y ELSE y - x

approval_verify(r, sig, expected_account_identity_pk, now) ==
    /\ abs_diff(now, r.approved_at) <= Window
    /\ r.account_identity_pk = expected_account_identity_pk
    /\ sig = sign(r.approving_device_pk, approval_data(r))

RevocationReason_from_byte(b) == IF b \in 0 .. 3 THEN b ELSE NoReason

revocation_verify(r, sig, user_key) ==
    /\ r.reason # NoReason
    /\ sig = sign(user_key, revocation_data(r))

CompromiseReason_from_byte(b) == IF b \in 0 .. 4 THEN b ELSE 255

notice_verify(r, sig, signer_key) ==
    /\ r.signer_fingerprint = key_fingerprint(signer_key)
    /\ sig = sign(signer_key, notice_data(r))

rotation_verify(r, sig_old, sig_new) ==
    /\ sig_old = sign(r.old_identity_pk, rotation_data(r))
    /\ sig_new = sign(r.new_identity_pk, rotation_data(r))

certificate_verify(r, sig) == sig = sign(r.issuer_signing_pk, certificate_data(r))

validate_validity_window(r, now) == r.issued_at <= now /\ now <= r.expires_at

(* One side of a certified number: a certificate, and the number signed by   *)
(* the key the certificate is about.                                         *)
side_verify(number, certificate, cert_sig, sig) ==
    /\ certificate_verify(certificate, cert_sig)
    /\ sig = sign(certificate.subject_identity.signing, number_data(number))

one_time_key_verify(r, sig, signing_public_key) == sig = sign(signing_public_key, one_time_key_data(r))

-----------------------------------------------------------------------------
AcctInit ==
    /\ made = {} /\ clock = 0
    /\ pinned = root
    /\ listed = [u \in Users |-> {device_fingerprint(founder[u])}]
    /\ consumed = {}
    /\ checked = NotChecked

Tick == clock < MaxTime /\ clock' = clock + 1 /\ UNCHANGED << made, pinned, listed, consumed, checked >>

Make(m) ==
    /\ Cardinality(made) < MaxRecords
    /\ made' = made \union {m}
    /\ UNCHANGED << clock, pinned, listed, consumed, checked >>

MakeApproval == \E a \in Approvals : Make(approve(a, clock))
MakeRevocation == \E a \in Revocations : Make(revoke(a, clock))
MakeNotice == \E a \in Notices : Make(notify(a, clock))
(* create refuses a rotation of a key to itself.                             *)
MakeRotation == \E a \in Rotations : a.old # a.new /\ Make(attest(a, clock))
MakeCertificate == \E a \in Certificates : Make(issue_certificate(a, clock))
MakeNumber == \E a \in Numbers : Make(sign_number(a))
MakeOneTimeKey == \E a \in OneTimeKeys : Make(sign_one_time_key(a))

-----------------------------------------------------------------------------
(* What may arrive: a record whose fields come from records of its kind, with *)
(* any time and reason byte, and a signature from a record of any kind.       *)
Wires(kind) == {m.wire : m \in {n \in made : n.wire.kind = kind}}
Values(kind, field) == {w[field] : w \in Wires(kind)}
Times == 0 .. MaxTime
Signatures == UNION {m.sigs : m \in made}

Arriving(kind) ==
    CASE kind = "approval" ->
            [kind : {kind}, approving_device_id : Values(kind, "approving_device_id"), user_id : Values(kind, "user_id"),
             new_device_fingerprint : Values(kind, "new_device_fingerprint"), server_nonce : Values(kind, "server_nonce"),
             approving_device_pk : Values(kind, "approving_device_pk"),
             account_identity_pk : Values(kind, "account_identity_pk"), approved_at : Times]
      [] kind = "revocation" ->
            [kind : {kind}, device_id : Values(kind, "device_id"), revoked_at : Times, reason : ReasonBytes]
      [] kind = "notice" ->
            [kind : {kind}, compromised_fingerprint : Values(kind, "compromised_fingerprint"),
             compromised_at : Times, reason : ReasonBytes, signer_fingerprint : Values(kind, "signer_fingerprint")]
      [] kind = "rotation" ->
            [kind : {kind}, old_identity_pk : Values(kind, "old_identity_pk"), new_identity_pk : Values(kind, "new_identity_pk"),
             user_id : Values(kind, "user_id") \union Users, registered_at : Values(kind, "registered_at")]
      [] kind = "certificate" ->
            [kind : {kind}, subject_identity : Values(kind, "subject_identity"), issuer_signing_pk : Values(kind, "issuer_signing_pk"),
             issued_at : Values(kind, "issued_at"), expires_at : Values(kind, "expires_at")]
      [] OTHER -> Wires(kind)

(* from_bytes reads the reason byte.                                         *)
from_bytes(w) ==
    CASE w.kind = "revocation" -> [w EXCEPT !.reason = RevocationReason_from_byte(@)]
      [] w.kind = "notice"     -> [w EXCEPT !.reason = CompromiseReason_from_byte(@)]
      [] OTHER                 -> w

-----------------------------------------------------------------------------
(* The relying party.                                                        *)
TakeRotation(w, sig_old, sig_new) ==
    /\ w.old_identity_pk = pinned[w.user_id]
    /\ rotation_verify(w, sig_old, sig_new)
    /\ pinned' = [pinned EXCEPT ![w.user_id] = w.new_identity_pk]
    /\ UNCHANGED << made, clock, listed, consumed, checked >>

TakeApproval(w, sig) ==
    /\ w.server_nonce \notin consumed
    /\ key_fingerprint(w.approving_device_pk) \in listed[w.user_id]
    /\ approval_verify(w, sig, pinned[w.user_id], clock)
    /\ listed' = [listed EXCEPT ![w.user_id] = @ \union {w.new_device_fingerprint}]
    /\ consumed' = consumed \union {w.server_nonce}
    /\ UNCHANGED << made, clock, pinned, checked >>

(* It knows the devices of an account by id and fingerprint.                 *)
TakeRevocation(u, w, sig, fingerprint) ==
    /\ revocation_verify(from_bytes(w), sig, pinned[u])
    /\ << w.device_id, fingerprint >> \in {<< a.device_id, device_fingerprint(a.key) >> : a \in Approvals}
    /\ listed' = [listed EXCEPT ![u] = @ \ {fingerprint}]
    /\ UNCHANGED << made, clock, pinned, consumed, checked >>

(* A verification on its own, under any key and with any signatures. It      *)
(* changes nothing, so the first one ends the behaviour.                     *)
Check(w, key, sig, other, valid) ==
    /\ checked' = [wire |-> w, key |-> key, sig |-> sig, other |-> other, now |-> clock, valid |-> valid]
    /\ UNCHANGED << made, clock, pinned, listed, consumed >>

CheckApproval ==
    \E w \in Arriving("approval"), key \in VerifyingKeys, sig \in Signatures :
        Check(w, key, sig, NotChecked, approval_verify(w, sig, key, clock))

CheckRevocation ==
    \E w \in Arriving("revocation"), key \in VerifyingKeys, sig \in Signatures :
        Check(w, key, sig, NotChecked, revocation_verify(from_bytes(w), sig, key))

CheckNotice ==
    \E w \in Arriving("notice"), key \in VerifyingKeys, sig \in Signatures :
        Check(w, key, sig, NotChecked, notice_verify(from_bytes(w), sig, key))

CheckCertificate ==
    \E w \in Arriving("certificate"), key \in VerifyingKeys, sig \in Signatures :
        Check(w, key, sig, NotChecked, certificate_verify(w, sig) /\ validate_validity_window(w, clock))

CheckOneTimeKey ==
    \E w \in Arriving("one-time-key"), key \in VerifyingKeys, sig \in Signatures :
        Check(w, key, sig, NotChecked, one_time_key_verify(w, sig, key))

CheckNumber ==
    \E w \in Arriving("number"), certificate \in Arriving("certificate") : \E cert_sig, sig \in Signatures :
        Check(w, certificate, sig, cert_sig, side_verify(w.number, certificate, cert_sig, sig))

AcctNext ==
    /\ checked = NotChecked
    /\ \/ MakeApproval \/ MakeRevocation \/ MakeNotice \/ MakeRotation
       \/ MakeCertificate \/ MakeNumber \/ MakeOneTimeKey
       \/ Tick
       \/ \E w \in Arriving("rotation") : \E s, t \in Signatures : TakeRotation(w, s, t)
       \/ \E w \in Arriving("approval") : \E s \in Signatures : TakeApproval(w, s)
       \/ \E u \in Users, w \in Arriving("revocation") : \E s \in Signatures : \E f \in listed[u] : TakeRevocation(u, w, s, f)
       \/ CheckApproval \/ CheckRevocation \/ CheckNotice
       \/ CheckCertificate \/ CheckOneTimeKey \/ CheckNumber

AcctSpec == AcctInit /\ [][AcctNext]_acct_vars

-----------------------------------------------------------------------------
(* A record is accepted exactly if the holder of the key it is checked under *)
(* made it, in every field as it arrived, and it is within its times: only   *)
(* the byte of an unknown compromise reason may have been another one. (the  *)
(* verify methods of the records, with the window and the anchor of an       *)
(* approval and the fingerprint of a notice)                                 *)
SignedBy(w, key) == \E m \in made : m.wire = from_bytes(w) /\ m.by = key

AcceptedAsMade ==
    LET w == checked.wire IN
    checked # NotChecked =>
        (checked.valid <=>
            CASE w.kind = "approval" ->
                    /\ SignedBy(w, w.approving_device_pk) /\ w.account_identity_pk = checked.key
                    /\ checked.now \in w.approved_at - Window .. w.approved_at + Window
                    /\ \E m \in made : m.wire = w /\ checked.sig \in m.sigs
              [] w.kind = "certificate" ->
                    /\ SignedBy(w, w.issuer_signing_pk) /\ checked.now \in w.issued_at .. w.expires_at
                    /\ \E m \in made : m.wire = w /\ checked.sig \in m.sigs
              [] w.kind = "number" ->
                    \E m, n \in made :
                        /\ m.wire = w /\ m.by = checked.key.subject_identity.signing /\ checked.sig \in m.sigs
                        /\ n.wire = checked.key /\ n.by = checked.key.issuer_signing_pk /\ checked.other \in n.sigs
              [] OTHER -> \E m \in made : m.wire = from_bytes(w) /\ m.by = checked.key /\ checked.sig \in m.sigs)

(* Whatever the server puts together, repeats or holds back, the identity key *)
(* pinned for an account moves only along rotations of that account, and the  *)
(* devices listed for it are its first one and those a listed device of it    *)
(* approved under one of its identity keys, each for one nonce. (verify of    *)
(* RecoveryKeyAttestation and DeviceApprovalCertificate with the caller       *)
(* contract of approval.rs)                                                   *)
IdentitiesOf(u) ==
    LET Reached[n \in 0 .. MaxRecords] ==
          IF n = 0 THEN {root[u]}
          ELSE Reached[n - 1] \union {w.new_identity_pk : w \in {v \in Wires("rotation") :
                                           v.user_id = u /\ v.old_identity_pk \in Reached[n - 1]}}
    IN  Reached[MaxRecords]

DevicesOf(u) ==
    LET Reached[n \in 0 .. MaxRecords] ==
          IF n = 0 THEN {device_fingerprint(founder[u])}
          ELSE Reached[n - 1] \union {w.new_device_fingerprint : w \in {v \in Wires("approval") :
                   /\ v.user_id = u /\ v.server_nonce \in consumed
                   /\ v.account_identity_pk \in IdentitiesOf(u)
                   /\ device_fingerprint(v.approving_device_pk) \in Reached[n - 1]}}
    IN  Reached[MaxRecords]

TrustFollowsTheAccount ==
    \A u \in Users : pinned[u] \in IdentitiesOf(u) /\ listed[u] \subseteq DevicesOf(u)
=============================================================================
