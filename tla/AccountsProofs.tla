--------------------------- MODULE AccountsProofs ---------------------------
(***************************************************************************)
(* Proofs about Accounts, for any users, keys, records, times and windows. *)
(*                                                                         *)
(* Each text that is signed tells which kind of record it is of, and holds *)
(* every field of it.  A signature that verifies is one of a record that   *)
(* was made, so that is the record which was verified, whatever records    *)
(* its fields and its signature came in.                                   *)
(***************************************************************************)
EXTENDS Accounts, TLAPS, FiniteSetTheorems, FunctionTheorems, SequenceTheorems,
        WellFoundedInduction

-----------------------------------------------------------------------------
(* Induction over 0..n, with a set where the library has an operator.      *)
LEMMA UpTo ==
    ASSUME NEW n \in Nat, NEW G, 0 \in G, \A i \in 1..n : i - 1 \in G => i \in G
    PROVE  \A i \in 0..n : i \in G
<1> PICK T : T = {i \in 0..n : i \notin G}
  OBVIOUS
<1>1. ASSUME T # {} PROVE FALSE
  <2>1. PICK i \in T : \A j \in T : ~ (<<j, i>> \in OpToRel(<, Nat))
    <3>1. T \subseteq Nat
      OBVIOUS
    <3> QED BY <1>1, <3>1, WFMin, NatLessThanWellFounded
  <2>2. i \in 1..n /\ i - 1 \in 0..n /\ i - 1 \in Nat /\ i \in Nat /\ i - 1 < i
    OBVIOUS
  <2>3. <<i - 1, i>> \in OpToRel(<, Nat)
    BY <2>2 DEF OpToRel
  <2>4. i - 1 \in G
    BY <2>1, <2>2, <2>3
  <2> QED BY <2>2, <2>4
<1> QED BY <1>1

-----------------------------------------------------------------------------
(* Reaching along edges: every m of a finite set E leads from a[m] to      *)
(* b[m].  As many rounds as there are edges reach all there is.            *)
Around(F, i, E, a, b) == F[i] \cup {b[m] : m \in {k \in E : a[k] \in F[i]}}
Reaches(F, n, B, E, a, b) ==
    /\ F = [i \in 0..n |-> F[i]] /\ F[0] = B
    /\ \A i \in 1..n : F[i] = Around(F, i - 1, E, a, b)
Closed(S, B, E, a, b) == B \subseteq S /\ \A m \in E : a[m] \in S => b[m] \in S

LEMMA ReachExists ==
    ASSUME NEW n \in Nat, NEW B, NEW E, NEW a, NEW b
    PROVE  \E F : Reaches(F, n, B, E, a, b)
<1> PICK G : G = {i \in 0..n : \E F : Reaches(F, i, B, E, a, b)}
  OBVIOUS
<1>1. 0 \in G
  <2> PICK F : F = [i \in 0..0 |-> B]
    OBVIOUS
  <2>1. Reaches(F, 0, B, E, a, b)
    BY DEF Reaches
  <2> QED BY <2>1
<1>2. \A i \in 1..n : i - 1 \in G => i \in G
  <2> SUFFICES ASSUME NEW i \in 1..n, i - 1 \in G PROVE i \in G
    OBVIOUS
  <2>1. PICK F : Reaches(F, i - 1, B, E, a, b)
    OBVIOUS
  <2> PICK H : H = [k \in 0..i |-> IF k = i THEN Around(F, i - 1, E, a, b) ELSE F[k]]
    OBVIOUS
  <2>2. \A k \in 0..(i - 1) : k \in 0..i /\ k # i /\ H[k] = F[k]
    OBVIOUS
  <2>3. \A k \in 1..i : H[k] = Around(H, k - 1, E, a, b)
    <3> TAKE k \in 1..i
    <3>1. k - 1 \in 0..(i - 1) /\ H[k - 1] = F[k - 1]
      BY <2>2
    <3>2. Around(H, k - 1, E, a, b) = Around(F, k - 1, E, a, b)
      BY <3>1 DEF Around
    <3>3. CASE k = i
      BY <3>2, <3>3
    <3>4. CASE k # i
      <4>1. k \in 1..(i - 1) /\ H[k] = F[k]
        BY <3>4
      <4> QED BY <2>1, <3>2, <4>1 DEF Reaches
    <3> QED BY <3>3, <3>4
  <2>4. 0 \in 0..(i - 1)
    OBVIOUS
  <2>5. H[0] = B
    BY <2>1, <2>2, <2>4 DEF Reaches
  <2>6. Reaches(H, i, B, E, a, b)
    BY <2>3, <2>5 DEF Reaches
  <2> QED BY <2>6
<1>3. \A i \in 0..n : i \in G
  BY ONLY n \in Nat, <1>1, <1>2, UpTo
<1>4. n \in G
  BY <1>3
<1> QED BY <1>4

LEMMA ReachLeast ==
    ASSUME NEW n \in Nat, NEW B, NEW E, NEW a, NEW b, NEW F, Reaches(F, n, B, E, a, b),
           NEW S, Closed(S, B, E, a, b)
    PROVE  F[n] \subseteq S
<1> PICK G : G = {i \in 0..n : F[i] \subseteq S}
  OBVIOUS
<1>1. 0 \in G
  BY DEF Reaches, Closed
<1>2. \A i \in 1..n : i - 1 \in G => i \in G
  <2> SUFFICES ASSUME NEW i \in 1..n, i - 1 \in G PROVE i \in G
    OBVIOUS
  <2>1. F[i] = Around(F, i - 1, E, a, b) /\ F[i - 1] \subseteq S
    BY DEF Reaches
  <2>2. F[i] \subseteq S
    BY <2>1 DEF Around, Closed
  <2> QED BY <2>2
<1>3. \A i \in 0..n : i \in G
  BY ONLY n \in Nat, <1>1, <1>2, UpTo
<1>4. n \in G
  BY <1>3
<1> QED BY <1>4

LEMMA ReachGrows ==
    ASSUME NEW n \in Nat, NEW B, NEW E, NEW a, NEW b, NEW F, Reaches(F, n, B, E, a, b),
           NEW i \in 0..n, NEW j \in 0..n, i <= j
    PROVE  F[i] \subseteq F[j]
<1> PICK d \in Nat : d = j - i
  OBVIOUS
<1> PICK G : G = {k \in 0..d : F[i] \subseteq F[i + k]}
  OBVIOUS
<1>1. 0 \in G
  OBVIOUS
<1>2. \A k \in 1..d : k - 1 \in G => k \in G
  <2> SUFFICES ASSUME NEW k \in 1..d, k - 1 \in G PROVE k \in G
    OBVIOUS
  <2>1. i + k \in 1..n /\ (i + k) - 1 = i + (k - 1)
    OBVIOUS
  <2>2. F[i + k] = Around(F, (i + k) - 1, E, a, b)
    BY <2>1 DEF Reaches
  <2> QED BY <2>1, <2>2 DEF Around
<1>3. \A k \in 0..d : k \in G
  BY ONLY d \in Nat, <1>1, <1>2, UpTo
<1>4. d \in G /\ i + d = j
  BY <1>3
<1> QED BY <1>4

LEMMA ReachSettles ==
    ASSUME NEW n \in Nat, NEW B, NEW E, NEW a, NEW b, NEW F, Reaches(F, n, B, E, a, b),
           NEW i \in 1..n, F[i] = F[i - 1]
    PROVE  Closed(F[n], B, E, a, b)
<1> PICK d \in Nat : d = n - i
  OBVIOUS
<1> PICK G : G = {k \in 0..d : F[i + k] = F[i]}
  OBVIOUS
<1>1. 0 \in G
  OBVIOUS
<1>2. \A k \in 1..d : k - 1 \in G => k \in G
  <2> SUFFICES ASSUME NEW k \in 1..d, k - 1 \in G PROVE k \in G
    OBVIOUS
  <2>1. i + k \in 1..n /\ (i + k) - 1 = i + (k - 1)
    OBVIOUS
  <2>2. F[i + k] = Around(F, (i + k) - 1, E, a, b)
    BY <2>1 DEF Reaches
  <2>3. F[(i + k) - 1] = F[i - 1]
    BY <2>1
  <2>4. F[i] = Around(F, i - 1, E, a, b)
    BY DEF Reaches
  <2> QED BY <2>2, <2>3, <2>4 DEF Around
<1>3. \A k \in 0..d : k \in G
  BY ONLY d \in Nat, <1>1, <1>2, UpTo
<1>4. d \in G /\ i + d = n
  BY <1>3
<1>5. F[n] = F[i - 1] /\ F[i] = Around(F, i - 1, E, a, b) /\ F[n] = F[i]
  BY <1>4 DEF Reaches
<1>6. 0 \in 0..n /\ n \in 0..n /\ 0 <= n
  OBVIOUS
<1>7. B \subseteq F[n]
  <2>1. F[0] \subseteq F[n]
    BY <1>6, ReachGrows
  <2> QED BY <2>1 DEF Reaches
<1>8. \A m \in E : a[m] \in F[n] => b[m] \in F[n]
  BY <1>5 DEF Around
<1> QED BY <1>7, <1>8 DEF Closed

LEMMA ReachClosed ==
    ASSUME NEW n \in Nat, NEW B, NEW E, IsFiniteSet(E), Cardinality(E) <= n,
           NEW a, NEW b, NEW F, Reaches(F, n, B, E, a, b)
    PROVE  Closed(F[n], B, E, a, b)
<1> SUFFICES ASSUME ~ Closed(F[n], B, E, a, b) PROVE FALSE
  OBVIOUS
<1>1. \A i \in 1..n : F[i] # F[i - 1]
  BY ReachSettles
<1>2. \A i \in 0..n, j \in 0..n : i <= j => F[i] \subseteq F[j]
  BY ReachGrows
<1>3. B \subseteq F[n]
  <2>1. 0 \in 0..n /\ n \in 0..n /\ 0 <= n
    OBVIOUS
  <2> QED BY <1>2, <2>1 DEF Reaches
<1>4. PICK last \in E : a[last] \in F[n] /\ b[last] \notin F[n]
  BY <1>3 DEF Closed
(* In every round but the last an edge leads to what was not reached       *)
(* before; these edges are different.                                      *)
<1>5. \A i \in 1..n : \E m \in E : b[m] \in F[i] /\ b[m] \notin F[i - 1]
  <2> TAKE i \in 1..n
  <2>1. F[i] = Around(F, i - 1, E, a, b)
    BY DEF Reaches
  <2> QED BY <1>1, <2>1 DEF Around
<1> PICK h : h = [i \in 1..(n + 1) |-> IF i = n + 1 THEN last
                     ELSE CHOOSE m \in E : b[m] \in F[i] /\ b[m] \notin F[i - 1]]
  OBVIOUS
<1>6. \A i \in 1..n : h[i] \in E /\ b[h[i]] \in F[i] /\ b[h[i]] \notin F[i - 1]
  <2> TAKE i \in 1..n
  <2>1. h[i] = CHOOSE m \in E : b[m] \in F[i] /\ b[m] \notin F[i - 1]
    OBVIOUS
  <2> QED BY <1>5, <2>1
<1>7. h[n + 1] = last
  OBVIOUS
<1>8. h \in [1..(n + 1) -> E]
  <2>1. \A i \in 1..(n + 1) : i \in 1..n \/ i = n + 1
    OBVIOUS
  <2>2. \A i \in 1..(n + 1) : h[i] \in E
    BY <1>6, <1>7, <2>1
  <2> QED BY <2>2
<1>9. IsFiniteSet(1..(n + 1)) /\ Cardinality(1..(n + 1)) = n + 1
  BY FS_Interval
<1>10. Cardinality(E) \in Nat
  BY FS_CardinalityType
<1>11. Cardinality(E) < Cardinality(1..(n + 1))
  BY <1>9, <1>10
<1>12. PICK i \in 1..(n + 1), j \in 1..(n + 1) : i # j /\ h[i] = h[j]
  BY ONLY IsFiniteSet(E), <1>8, <1>9, <1>11, FS_PigeonHole
<1>13. ASSUME NEW p \in 1..(n + 1), NEW q \in 1..(n + 1), p < q, h[p] = h[q] PROVE FALSE
  <2>1. p \in 1..n /\ b[h[p]] \in F[p]
    <3>1. p \in 1..n
      BY <1>13
    <3> QED BY <1>6, <3>1
  <2>2. CASE q = n + 1
    <3>1. p \in 0..n /\ n \in 0..n /\ p <= n
      BY <2>1
    <3>2. F[p] \subseteq F[n]
      BY <1>2, <3>1
    <3> QED BY <1>4, <1>7, <1>13, <2>1, <2>2, <3>2
  <2>3. CASE q # n + 1
    <3>1. q \in 1..n /\ p \in 0..n /\ q - 1 \in 0..n /\ p <= q - 1
      BY <1>13, <2>1, <2>3
    <3>2. F[p] \subseteq F[q - 1]
      BY <1>2, <3>1
    <3> QED BY <1>6, <1>13, <2>1, <3>1, <3>2
  <2> QED BY <2>2, <2>3
<1> QED BY <1>12, <1>13

-----------------------------------------------------------------------------
(* How a record came to be, and which record a signature belongs to.       *)
ByApproval(m) == \E x \in Approvals, t \in Times : m = approve(x, t)
ByRevocation(m) == \E x \in Revocations, t \in Times : m = revoke(x, t)
ByNotice(m) == \E x \in Notices, t \in Times : m = notify(x, t)
ByRotation(m) == \E x \in Rotations, t \in Times : m = attest(x, t)
ByCertificate(m) == \E x \in Certificates, t \in Times : m = issue_certificate(x, t)
ByNumber(m) == \E x \in Numbers : m = sign_number(x)
ByOneTimeKey(m) == \E x \in OneTimeKeys : m = sign_one_time_key(x)

Kept(m) ==
    \/ ByApproval(m) \/ ByRevocation(m) \/ ByNotice(m) \/ ByRotation(m)
    \/ ByCertificate(m) \/ ByNumber(m) \/ ByOneTimeKey(m)

OneSigned(m, text) == m.sigs = {sign(m.by, text)}

LEMMA ApprovalShape ==
    ASSUME NEW m, ByApproval(m)
    PROVE  /\ m.wire.kind = "approval" /\ OneSigned(m, approval_data(m.wire))
           /\ m.by = m.wire.approving_device_pk /\ m.wire.approved_at \in Times
           /\ m.wire = [kind |-> "approval", approving_device_id |-> m.wire.approving_device_id,
                        user_id |-> m.wire.user_id, new_device_fingerprint |-> m.wire.new_device_fingerprint,
                        server_nonce |-> m.wire.server_nonce, approving_device_pk |-> m.wire.approving_device_pk,
                        account_identity_pk |-> m.wire.account_identity_pk, approved_at |-> m.wire.approved_at]
BY DEF ByApproval, approve, OneSigned

LEMMA RevocationShape ==
    ASSUME NEW m, ByRevocation(m)
    PROVE  /\ m.wire.kind = "revocation" /\ OneSigned(m, revocation_data(m.wire))
           /\ m.wire.reason \in 0..3
           /\ m.wire = [kind |-> "revocation", device_id |-> m.wire.device_id,
                        revoked_at |-> m.wire.revoked_at, reason |-> m.wire.reason]
BY AccountsAssumption DEF ByRevocation, revoke, OneSigned

LEMMA NoticeShape ==
    ASSUME NEW m, ByNotice(m)
    PROVE  /\ m.wire.kind = "notice" /\ OneSigned(m, notice_data(m.wire))
           /\ m.wire.signer_fingerprint = key_fingerprint(m.by)
           /\ m.wire = [kind |-> "notice", compromised_fingerprint |-> m.wire.compromised_fingerprint,
                        compromised_at |-> m.wire.compromised_at, reason |-> m.wire.reason,
                        signer_fingerprint |-> m.wire.signer_fingerprint]
BY DEF ByNotice, notify, OneSigned

LEMMA RotationShape ==
    ASSUME NEW m, ByRotation(m)
    PROVE  /\ m.wire.kind = "rotation"
           /\ \A s \in m.sigs : s.text = rotation_data(m.wire)
           /\ m.wire = [kind |-> "rotation", old_identity_pk |-> m.wire.old_identity_pk,
                        new_identity_pk |-> m.wire.new_identity_pk, user_id |-> m.wire.user_id,
                        registered_at |-> m.wire.registered_at]
BY DEF ByRotation, attest, sign

LEMMA CertificateShape ==
    ASSUME NEW m, ByCertificate(m)
    PROVE  /\ m.wire.kind = "certificate" /\ OneSigned(m, certificate_data(m.wire))
           /\ m.by = m.wire.issuer_signing_pk /\ m.wire.issued_at \in Times /\ m.wire.expires_at \in Nat
           /\ m.wire = [kind |-> "certificate", subject_identity |-> m.wire.subject_identity,
                        issuer_signing_pk |-> m.wire.issuer_signing_pk, issued_at |-> m.wire.issued_at,
                        expires_at |-> m.wire.expires_at]
BY AccountsAssumption DEF ByCertificate, issue_certificate, OneSigned, Times

LEMMA NumberShape ==
    ASSUME NEW m, ByNumber(m)
    PROVE  /\ m.wire.kind = "number" /\ OneSigned(m, number_data(m.wire.number))
           /\ m.wire = [kind |-> "number", number |-> m.wire.number]
BY DEF ByNumber, sign_number, OneSigned

LEMMA OneTimeKeyShape ==
    ASSUME NEW m, ByOneTimeKey(m)
    PROVE  /\ m.wire.kind = "one-time-key" /\ OneSigned(m, one_time_key_data(m.wire))
           /\ m.wire.key_id # "trelis-certified-safety-number-v1"
           /\ m.wire = [kind |-> "one-time-key", key_id |-> m.wire.key_id, kem |-> m.wire.kem]
<1> PICK x \in OneTimeKeys : m = sign_one_time_key(x)
  BY DEF ByOneTimeKey
<1>1. x.kem # "trelis-certified-safety-number-v1"
  BY AccountsAssumption
<1> QED BY <1>1 DEF sign_one_time_key, OneSigned

(* What a signature of a record is over, and what it is not over.          *)
LEMMA Lengths ==
    ASSUME NEW r
    PROVE  /\ Len(approval_data(r)) = 8 /\ Len(revocation_data(r)) = 4 /\ Len(notice_data(r)) = 5
           /\ Len(rotation_data(r)) = 5 /\ Len(certificate_data(r)) = 4 /\ Len(number_data(r)) = 2
           /\ Len(one_time_key_data(r)) = 2
           /\ revocation_data(r)[1] = "trelis-device-revocation-v1"
           /\ notice_data(r)[1] = "trelis-compromise-notice-v1"
           /\ rotation_data(r)[1] = "trelis-recovery-key-attest-v1"
           /\ certificate_data(r)[1] = "trelis-identity-cert-v1"
           /\ number_data(r)[1] = "trelis-certified-safety-number-v1"
           /\ one_time_key_data(r)[1] = r.key_id
BY DEF approval_data, revocation_data, notice_data, rotation_data, certificate_data, number_data,
       one_time_key_data

LEMMA TextOfKept ==
    ASSUME NEW m, Kept(m), NEW s \in m.sigs
    PROVE  LET k == m.wire.kind IN
           \/ k = "approval" /\ ByApproval(m) /\ s.text = approval_data(m.wire)
           \/ k = "revocation" /\ ByRevocation(m) /\ s.text = revocation_data(m.wire)
           \/ k = "notice" /\ ByNotice(m) /\ s.text = notice_data(m.wire)
           \/ k = "rotation" /\ ByRotation(m) /\ s.text = rotation_data(m.wire)
           \/ k = "certificate" /\ ByCertificate(m) /\ s.text = certificate_data(m.wire)
           \/ k = "number" /\ ByNumber(m) /\ s.text = number_data(m.wire.number)
           \/ k = "one-time-key" /\ ByOneTimeKey(m) /\ s.text = one_time_key_data(m.wire)
<1>1. \A text : OneSigned(m, text) => s.text = text
  BY DEF OneSigned, sign
<1>2. CASE ByApproval(m)
  BY <1>1, <1>2, ApprovalShape
<1>3. CASE ByRevocation(m)
  BY <1>1, <1>3, RevocationShape
<1>4. CASE ByNotice(m)
  BY <1>1, <1>4, NoticeShape
<1>5. CASE ByRotation(m)
  BY <1>5, RotationShape
<1>6. CASE ByCertificate(m)
  BY <1>1, <1>6, CertificateShape
<1>7. CASE ByNumber(m)
  BY <1>1, <1>7, NumberShape
<1>8. CASE ByOneTimeKey(m)
  BY <1>1, <1>8, OneTimeKeyShape
<1> QED BY <1>2, <1>3, <1>4, <1>5, <1>6, <1>7, <1>8 DEF Kept

(* A signature over the text of one kind of record is on a record of that  *)
(* kind, with the same text.                                               *)
LEMMA TextOfOneKind ==
    ASSUME NEW m, Kept(m), NEW s \in m.sigs, NEW r
    PROVE  /\ s.text = approval_data(r) => ByApproval(m) /\ approval_data(m.wire) = approval_data(r)
           /\ s.text = revocation_data(r) => ByRevocation(m) /\ revocation_data(m.wire) = revocation_data(r)
           /\ s.text = notice_data(r) => ByNotice(m) /\ notice_data(m.wire) = notice_data(r)
           /\ s.text = rotation_data(r) => ByRotation(m) /\ rotation_data(m.wire) = rotation_data(r)
           /\ s.text = certificate_data(r) => ByCertificate(m) /\ certificate_data(m.wire) = certificate_data(r)
           /\ s.text = number_data(r) => ByNumber(m) /\ number_data(m.wire.number) = number_data(r)
           /\ s.text = one_time_key_data(r) /\ r.key_id # "trelis-certified-safety-number-v1" =>
                ByOneTimeKey(m) /\ one_time_key_data(m.wire) = one_time_key_data(r)
<1> PICK k : k = m.wire.kind
  OBVIOUS
<1>1. /\ Len(approval_data(r)) = 8 /\ Len(revocation_data(r)) = 4 /\ Len(notice_data(r)) = 5
      /\ Len(rotation_data(r)) = 5 /\ Len(certificate_data(r)) = 4 /\ Len(number_data(r)) = 2
      /\ Len(one_time_key_data(r)) = 2
      /\ revocation_data(r)[1] = "trelis-device-revocation-v1"
      /\ notice_data(r)[1] = "trelis-compromise-notice-v1"
      /\ rotation_data(r)[1] = "trelis-recovery-key-attest-v1"
      /\ certificate_data(r)[1] = "trelis-identity-cert-v1"
      /\ number_data(r)[1] = "trelis-certified-safety-number-v1"
      /\ one_time_key_data(r)[1] = r.key_id
  BY Lengths
<1> PICK w : w = m.wire
  OBVIOUS
<1>2. /\ Len(approval_data(w)) = 8 /\ Len(revocation_data(w)) = 4 /\ Len(notice_data(w)) = 5
      /\ Len(rotation_data(w)) = 5 /\ Len(certificate_data(w)) = 4 /\ Len(number_data(w.number)) = 2
      /\ Len(one_time_key_data(w)) = 2
      /\ revocation_data(w)[1] = "trelis-device-revocation-v1"
      /\ notice_data(w)[1] = "trelis-compromise-notice-v1"
      /\ rotation_data(w)[1] = "trelis-recovery-key-attest-v1"
      /\ certificate_data(w)[1] = "trelis-identity-cert-v1"
      /\ number_data(w.number)[1] = "trelis-certified-safety-number-v1"
      /\ one_time_key_data(w)[1] = w.key_id
  BY Lengths
<1>3. ByOneTimeKey(m) => w.key_id # "trelis-certified-safety-number-v1"
  BY OneTimeKeyShape
<1>4. \/ k = "approval" /\ ByApproval(m) /\ s.text = approval_data(w)
      \/ k = "revocation" /\ ByRevocation(m) /\ s.text = revocation_data(w)
      \/ k = "notice" /\ ByNotice(m) /\ s.text = notice_data(w)
      \/ k = "rotation" /\ ByRotation(m) /\ s.text = rotation_data(w)
      \/ k = "certificate" /\ ByCertificate(m) /\ s.text = certificate_data(w)
      \/ k = "number" /\ ByNumber(m) /\ s.text = number_data(w.number)
      \/ k = "one-time-key" /\ ByOneTimeKey(m) /\ s.text = one_time_key_data(w)
  BY TextOfKept
<1>5. s.text = approval_data(r) => ByApproval(m) /\ approval_data(w) = approval_data(r)
  BY <1>1, <1>2, <1>4
<1>6. s.text = revocation_data(r) => ByRevocation(m) /\ revocation_data(w) = revocation_data(r)
  BY <1>1, <1>2, <1>4
<1>7. s.text = notice_data(r) => ByNotice(m) /\ notice_data(w) = notice_data(r)
  BY <1>1, <1>2, <1>4
<1>8. s.text = rotation_data(r) => ByRotation(m) /\ rotation_data(w) = rotation_data(r)
  BY <1>1, <1>2, <1>4
<1>9. s.text = certificate_data(r) => ByCertificate(m) /\ certificate_data(w) = certificate_data(r)
  BY <1>1, <1>2, <1>4
<1>10. s.text = number_data(r) => ByNumber(m) /\ number_data(w.number) = number_data(r)
  BY <1>1, <1>2, <1>3, <1>4
<1>11. s.text = one_time_key_data(r) /\ r.key_id # "trelis-certified-safety-number-v1" =>
         ByOneTimeKey(m) /\ one_time_key_data(w) = one_time_key_data(r)
  BY <1>1, <1>2, <1>3, <1>4
<1> QED BY <1>5, <1>6, <1>7, <1>8, <1>9, <1>10, <1>11

-----------------------------------------------------------------------------
LEMMA SignerOfOne ==
    ASSUME NEW m, NEW text, OneSigned(m, text), NEW key, NEW other, sign(key, other) \in m.sigs
    PROVE  m.by = key
<1>1. [by |-> key, text |-> other] = [by |-> m.by, text |-> text]
  BY DEF OneSigned, sign
<1> QED BY <1>1

(* A verified record is the one that was signed.                           *)
LEMMA ApprovalVerified ==
    ASSUME NEW m, Kept(m), NEW key, NEW w \in Arriving("approval"),
           sign(key, approval_data(w)) \in m.sigs
    PROVE  ByApproval(m) /\ m.wire = w /\ m.by = key
<1>1. ByApproval(m) /\ approval_data(m.wire) = approval_data(w)
  BY TextOfOneKind DEF sign
<1>2. w = [kind |-> "approval", approving_device_id |-> w.approving_device_id,
           user_id |-> w.user_id, new_device_fingerprint |-> w.new_device_fingerprint,
           server_nonce |-> w.server_nonce, approving_device_pk |-> w.approving_device_pk,
           account_identity_pk |-> w.account_identity_pk, approved_at |-> w.approved_at]
  BY DEF Arriving
<1>3. m.wire = w
  <2>1. /\ m.wire.approving_device_id = w.approving_device_id /\ m.wire.user_id = w.user_id
        /\ m.wire.new_device_fingerprint = w.new_device_fingerprint /\ m.wire.server_nonce = w.server_nonce
        /\ m.wire.approving_device_pk = w.approving_device_pk
        /\ m.wire.account_identity_pk = w.account_identity_pk /\ m.wire.approved_at = w.approved_at
    BY <1>1 DEF approval_data
  <2> QED BY <1>1, <1>2, <2>1, ApprovalShape
<1> QED BY <1>1, <1>3, ApprovalShape, SignerOfOne

LEMMA RotationVerified ==
    ASSUME NEW m, Kept(m), NEW key, NEW w \in Arriving("rotation"),
           sign(key, rotation_data(w)) \in m.sigs
    PROVE  ByRotation(m) /\ m.wire = w
<1>1. ByRotation(m) /\ rotation_data(m.wire) = rotation_data(w)
  BY TextOfOneKind DEF sign
<1>2. w = [kind |-> "rotation", old_identity_pk |-> w.old_identity_pk, new_identity_pk |-> w.new_identity_pk,
           user_id |-> w.user_id, registered_at |-> w.registered_at]
  BY DEF Arriving
<1>3. /\ m.wire.old_identity_pk = w.old_identity_pk /\ m.wire.new_identity_pk = w.new_identity_pk
      /\ m.wire.user_id = w.user_id /\ m.wire.registered_at = w.registered_at
  BY <1>1 DEF rotation_data
<1> QED BY <1>1, <1>2, <1>3, RotationShape

LEMMA CertificateVerified ==
    ASSUME NEW m, Kept(m), NEW w \in Arriving("certificate"),
           sign(w.issuer_signing_pk, certificate_data(w)) \in m.sigs
    PROVE  ByCertificate(m) /\ m.wire = w /\ m.by = w.issuer_signing_pk
<1>1. ByCertificate(m) /\ certificate_data(m.wire) = certificate_data(w)
  BY TextOfOneKind DEF sign
<1>2. w = [kind |-> "certificate", subject_identity |-> w.subject_identity,
           issuer_signing_pk |-> w.issuer_signing_pk, issued_at |-> w.issued_at, expires_at |-> w.expires_at]
  BY DEF Arriving
<1>3. /\ m.wire.subject_identity = w.subject_identity /\ m.wire.issued_at = w.issued_at
      /\ m.wire.expires_at = w.expires_at
  BY <1>1 DEF certificate_data
<1>4. m.by = w.issuer_signing_pk
  BY <1>1, CertificateShape, SignerOfOne
<1> QED BY <1>1, <1>2, <1>3, <1>4, CertificateShape

LEMMA RevocationVerified ==
    ASSUME NEW m, Kept(m), NEW key, NEW v,
           v = [kind |-> "revocation", device_id |-> v.device_id, revoked_at |-> v.revoked_at, reason |-> v.reason],
           sign(key, revocation_data(v)) \in m.sigs
    PROVE  m.wire = v /\ m.by = key
<1>1. ByRevocation(m) /\ revocation_data(m.wire) = revocation_data(v)
  BY TextOfOneKind DEF sign
<1>2. /\ m.wire.device_id = v.device_id /\ m.wire.revoked_at = v.revoked_at /\ m.wire.reason = v.reason
  BY <1>1 DEF revocation_data
<1>3. m.by = key
  BY <1>1, RevocationShape, SignerOfOne
<1> QED BY <1>1, <1>2, <1>3, RevocationShape

LEMMA NoticeVerified ==
    ASSUME NEW m, Kept(m), NEW key, NEW v,
           v = [kind |-> "notice", compromised_fingerprint |-> v.compromised_fingerprint,
                compromised_at |-> v.compromised_at, reason |-> v.reason,
                signer_fingerprint |-> v.signer_fingerprint],
           sign(key, notice_data(v)) \in m.sigs
    PROVE  m.wire = v /\ m.by = key
<1>1. ByNotice(m) /\ notice_data(m.wire) = notice_data(v)
  BY TextOfOneKind DEF sign
<1>2. /\ m.wire.compromised_fingerprint = v.compromised_fingerprint
      /\ m.wire.compromised_at = v.compromised_at /\ m.wire.reason = v.reason
      /\ m.wire.signer_fingerprint = v.signer_fingerprint
  BY <1>1 DEF notice_data
<1>3. m.by = key
  BY <1>1, NoticeShape, SignerOfOne
<1> QED BY <1>1, <1>2, <1>3, NoticeShape

LEMMA NumberVerified ==
    ASSUME NEW m, Kept(m), NEW key, NEW w, w = [kind |-> "number", number |-> w.number],
           sign(key, number_data(w.number)) \in m.sigs
    PROVE  m.wire = w /\ m.by = key
<1>1. ByNumber(m) /\ number_data(m.wire.number) = number_data(w.number)
  BY TextOfOneKind DEF sign
<1>2. m.wire.number = w.number
  BY <1>1 DEF number_data
<1>3. m.by = key
  BY <1>1, NumberShape, SignerOfOne
<1> QED BY <1>1, <1>2, <1>3, NumberShape

LEMMA OneTimeKeyVerified ==
    ASSUME NEW m, Kept(m), NEW key, NEW w, w = [kind |-> "one-time-key", key_id |-> w.key_id, kem |-> w.kem],
           w.key_id # "trelis-certified-safety-number-v1",
           sign(key, one_time_key_data(w)) \in m.sigs
    PROVE  m.wire = w /\ m.by = key
<1>1. ByOneTimeKey(m) /\ one_time_key_data(m.wire) = one_time_key_data(w)
  BY TextOfOneKind DEF sign
<1>2. m.wire.key_id = w.key_id /\ m.wire.kem = w.kem
  BY <1>1 DEF one_time_key_data
<1>3. m.by = key
  BY <1>1, OneTimeKeyShape, SignerOfOne
<1> QED BY <1>1, <1>2, <1>3, OneTimeKeyShape

-----------------------------------------------------------------------------
(* The records made, as the constructors made them.                        *)
Records ==
    /\ IsFiniteSet(made) /\ Cardinality(made) <= MaxRecords
    /\ clock \in Times
    /\ \A m \in made : Kept(m)

LEMMA KindOfKept ==
    ASSUME NEW m, Kept(m)
    PROVE  /\ m.wire.kind = "approval" => ByApproval(m)
           /\ m.wire.kind = "revocation" => ByRevocation(m)
           /\ m.wire.kind = "notice" => ByNotice(m)
           /\ m.wire.kind = "rotation" => ByRotation(m)
           /\ m.wire.kind = "certificate" => ByCertificate(m)
           /\ m.wire.kind = "number" => ByNumber(m)
           /\ m.wire.kind = "one-time-key" => ByOneTimeKey(m)
BY ApprovalShape, RevocationShape, NoticeShape, RotationShape, CertificateShape, NumberShape,
   OneTimeKeyShape DEF Kept

LEMMA Origin ==
    ASSUME Records, NEW sig \in Signatures
    PROVE  \E m \in made : sig \in m.sigs /\ Kept(m)
BY DEF Signatures, Records

LEMMA ApprovalAccepted ==
    ASSUME Records, CheckApproval
    PROVE  AcceptedAsMade'
<1> PICK w \in Arriving("approval"), key \in VerifyingKeys, sig \in Signatures :
      Check(w, key, sig, NotChecked, approval_verify(w, sig, key, clock))
  BY DEF CheckApproval
<1>0. PICK made_by_it : made_by_it <=>
      /\ SignedBy(w, w.approving_device_pk) /\ w.account_identity_pk = key
      /\ clock \in w.approved_at - Window .. w.approved_at + Window
      /\ \E m \in made : m.wire = w /\ sig \in m.sigs
  OBVIOUS
<1>1. w.kind = "approval" /\ from_bytes(w) = w /\ w.approved_at \in Times
  BY DEF Arriving, from_bytes
<1>2. abs_diff(clock, w.approved_at) <= Window <=> clock \in w.approved_at - Window .. w.approved_at + Window
  BY <1>1, AccountsAssumption DEF abs_diff, Times, Records
<1>3. ASSUME approval_verify(w, sig, key, clock) PROVE made_by_it
  <2>1. PICK m \in made : sig \in m.sigs /\ Kept(m)
    BY Origin
  <2>2. m.wire = w /\ m.by = w.approving_device_pk
    BY <1>3, <2>1, ApprovalVerified DEF approval_verify
  <2> QED BY <1>0, <1>1, <1>2, <1>3, <2>1, <2>2 DEF approval_verify, SignedBy
<1>4. ASSUME made_by_it PROVE approval_verify(w, sig, key, clock)
  <2>1. PICK m \in made : m.wire = w /\ sig \in m.sigs
    BY <1>0, <1>4
  <2>2. ByApproval(m)
    BY <1>1, <2>1, KindOfKept DEF Records
  <2>3. sig = sign(w.approving_device_pk, approval_data(w))
    BY <2>1, <2>2, ApprovalShape DEF OneSigned
  <2> QED BY <1>0, <1>2, <1>4, <2>3 DEF approval_verify
<1>5. /\ checked'.wire = w /\ checked'.key = key /\ checked'.sig = sig /\ checked'.now = clock
      /\ checked'.valid = approval_verify(w, sig, key, clock) /\ made' = made
  BY DEF Check
<1>6. checked'.valid <=> made_by_it
  BY <1>3, <1>4, <1>5
<1> QED BY ONLY <1>0, <1>1, <1>5, <1>6 DEF AcceptedAsMade, SignedBy

LEMMA CertificateAccepted ==
    ASSUME Records, CheckCertificate
    PROVE  AcceptedAsMade'
<1> PICK w \in Arriving("certificate"), key \in VerifyingKeys, sig \in Signatures :
      Check(w, key, sig, NotChecked, certificate_verify(w, sig) /\ validate_validity_window(w, clock))
  BY DEF CheckCertificate
<1>0. PICK made_by_it : made_by_it <=>
      /\ SignedBy(w, w.issuer_signing_pk) /\ clock \in w.issued_at .. w.expires_at
      /\ \E m \in made : m.wire = w /\ sig \in m.sigs
  OBVIOUS
<1>1. w.kind = "certificate" /\ from_bytes(w) = w
  BY DEF Arriving, from_bytes
<1>2. ASSUME NEW m \in made, m.wire = w
      PROVE  validate_validity_window(w, clock) <=> clock \in w.issued_at .. w.expires_at
  <2>1. w.issued_at \in Nat /\ w.expires_at \in Nat /\ clock \in Nat
    <3>1. ByCertificate(m)
      BY <1>1, <1>2, KindOfKept DEF Records
    <3>2. Times \subseteq Nat
      BY AccountsAssumption DEF Times
    <3> QED BY <1>2, <3>1, <3>2, CertificateShape DEF Records
  <2> QED BY <2>1 DEF validate_validity_window
<1>3. ASSUME certificate_verify(w, sig), validate_validity_window(w, clock) PROVE made_by_it
  <2>1. PICK m \in made : sig \in m.sigs /\ Kept(m)
    BY Origin
  <2>2. m.wire = w /\ m.by = w.issuer_signing_pk
    BY <1>3, <2>1, CertificateVerified DEF certificate_verify
  <2> QED BY <1>0, <1>1, <1>2, <1>3, <2>1, <2>2 DEF SignedBy
<1>4. ASSUME made_by_it PROVE certificate_verify(w, sig) /\ validate_validity_window(w, clock)
  <2>1. PICK m \in made : m.wire = w /\ sig \in m.sigs
    BY <1>0, <1>4
  <2>2. ByCertificate(m)
    BY <1>1, <2>1, KindOfKept DEF Records
  <2>3. sig = sign(w.issuer_signing_pk, certificate_data(w))
    BY <2>1, <2>2, CertificateShape DEF OneSigned
  <2> QED BY <1>0, <1>2, <1>4, <2>1, <2>3 DEF certificate_verify
<1>5. /\ checked'.wire = w /\ checked'.key = key /\ checked'.sig = sig /\ checked'.now = clock
      /\ checked'.valid = (certificate_verify(w, sig) /\ validate_validity_window(w, clock))
      /\ made' = made
  BY DEF Check
<1>6. checked'.valid <=> made_by_it
  BY <1>3, <1>4, <1>5
<1> QED BY ONLY <1>0, <1>1, <1>5, <1>6 DEF AcceptedAsMade, SignedBy

LEMMA NumberAccepted ==
    ASSUME Records, CheckNumber
    PROVE  AcceptedAsMade'
<1> PICK w \in Arriving("number"), c \in Arriving("certificate"), cert_sig \in Signatures, sig \in Signatures :
      Check(w, c, sig, cert_sig, side_verify(w.number, c, cert_sig, sig))
  BY DEF CheckNumber
<1>0. PICK made_by_it : made_by_it <=>
      \E m, n \in made :
         /\ m.wire = w /\ m.by = c.subject_identity.signing /\ sig \in m.sigs
         /\ n.wire = c /\ n.by = c.issuer_signing_pk /\ cert_sig \in n.sigs
  OBVIOUS
<1>1. w.kind = "number" /\ w = [kind |-> "number", number |-> w.number] /\ c.kind = "certificate"
  <2>1. PICK o \in made : w = o.wire /\ o.wire.kind = "number"
    BY DEF Arriving, Wires
  <2>2. ByNumber(o)
    BY <2>1, KindOfKept DEF Records
  <2>3. c.kind = "certificate"
    BY DEF Arriving
  <2> QED BY <2>1, <2>2, <2>3, NumberShape
<1>3. ASSUME side_verify(w.number, c, cert_sig, sig) PROVE made_by_it
  <2>1. PICK m \in made : sig \in m.sigs /\ Kept(m)
    BY Origin
  <2>2. PICK n \in made : cert_sig \in n.sigs /\ Kept(n)
    BY Origin
  <2>3. m.wire = w /\ m.by = c.subject_identity.signing
    BY <1>1, <1>3, <2>1, NumberVerified DEF side_verify
  <2>4. n.wire = c /\ n.by = c.issuer_signing_pk
    BY <1>3, <2>2, CertificateVerified DEF side_verify, certificate_verify
  <2> QED BY <1>0, <2>1, <2>2, <2>3, <2>4
<1>4. ASSUME made_by_it PROVE side_verify(w.number, c, cert_sig, sig)
  <2>1. PICK m \in made, n \in made :
         /\ m.wire = w /\ m.by = c.subject_identity.signing /\ sig \in m.sigs
         /\ n.wire = c /\ n.by = c.issuer_signing_pk /\ cert_sig \in n.sigs
    BY <1>0, <1>4
  <2>2. ByNumber(m) /\ ByCertificate(n)
    BY <1>1, <2>1, KindOfKept DEF Records
  <2>3. sig = sign(c.subject_identity.signing, number_data(w.number))
    BY <2>1, <2>2, NumberShape DEF OneSigned
  <2>4. cert_sig = sign(c.issuer_signing_pk, certificate_data(c))
    BY <2>1, <2>2, CertificateShape DEF OneSigned
  <2> QED BY <2>3, <2>4 DEF side_verify, certificate_verify
<1>5. /\ checked'.wire = w /\ checked'.key = c /\ checked'.sig = sig /\ checked'.other = cert_sig
      /\ checked'.valid = side_verify(w.number, c, cert_sig, sig) /\ made' = made
  BY DEF Check
<1>6. checked'.valid <=> made_by_it
  BY <1>3, <1>4, <1>5
<1> QED BY ONLY <1>0, <1>1, <1>5, <1>6 DEF AcceptedAsMade

LEMMA RevocationAccepted ==
    ASSUME Records, CheckRevocation
    PROVE  AcceptedAsMade'
<1> PICK w \in Arriving("revocation"), key \in VerifyingKeys, sig \in Signatures :
      Check(w, key, sig, NotChecked, revocation_verify(from_bytes(w), sig, key))
  BY DEF CheckRevocation
<1> PICK v : v = from_bytes(w)
  OBVIOUS
<1>0. PICK made_by_it : made_by_it <=> \E m \in made : m.wire = v /\ m.by = key /\ sig \in m.sigs
  OBVIOUS
<1>1. /\ w.kind = "revocation" /\ v.kind = "revocation"
      /\ v = [kind |-> "revocation", device_id |-> v.device_id, revoked_at |-> v.revoked_at, reason |-> v.reason]
  BY DEF Arriving, from_bytes
<1>2. checked'.valid <=> revocation_verify(v, sig, key)
  BY <1>1 DEF Check, from_bytes
<1>3. ASSUME revocation_verify(v, sig, key) PROVE made_by_it
  <2>1. PICK m \in made : sig \in m.sigs /\ Kept(m)
    BY Origin
  <2>2. m.wire = v /\ m.by = key
    BY <1>1, <1>3, <2>1, RevocationVerified DEF revocation_verify
  <2> QED BY <1>0, <2>1, <2>2
<1>4. ASSUME made_by_it PROVE revocation_verify(v, sig, key)
  <2>1. PICK m \in made : m.wire = v /\ m.by = key /\ sig \in m.sigs
    BY <1>0, <1>4
  <2>2. ByRevocation(m)
    BY <1>1, <2>1, KindOfKept DEF Records
  <2>3. sig = sign(key, revocation_data(v))
    BY <2>1, <2>2, RevocationShape DEF OneSigned
  <2>4. v.reason \in 0..3
    BY <2>1, <2>2, RevocationShape
  <2>5. v.reason # NoReason
    BY <2>4 DEF NoReason
  <2> QED BY <2>3, <2>5 DEF revocation_verify
<1>5. checked'.wire = w /\ checked'.key = key /\ checked'.sig = sig /\ made' = made
  BY DEF Check
<1>6. checked'.valid <=> made_by_it
  BY <1>2, <1>3, <1>4
<1> QED BY <1>0, <1>1, <1>5, <1>6 DEF AcceptedAsMade

LEMMA NoticeAccepted ==
    ASSUME Records, CheckNotice
    PROVE  AcceptedAsMade'
<1> PICK w \in Arriving("notice"), key \in VerifyingKeys, sig \in Signatures :
      Check(w, key, sig, NotChecked, notice_verify(from_bytes(w), sig, key))
  BY DEF CheckNotice
<1> PICK v : v = from_bytes(w)
  OBVIOUS
<1>0. PICK made_by_it : made_by_it <=> \E m \in made : m.wire = v /\ m.by = key /\ sig \in m.sigs
  OBVIOUS
<1>1. /\ w.kind = "notice" /\ v.kind = "notice"
      /\ v = [kind |-> "notice", compromised_fingerprint |-> v.compromised_fingerprint,
              compromised_at |-> v.compromised_at, reason |-> v.reason,
              signer_fingerprint |-> v.signer_fingerprint]
  BY DEF Arriving, from_bytes
<1>2. checked'.valid <=> notice_verify(v, sig, key)
  BY <1>1 DEF Check, from_bytes
<1>3. ASSUME notice_verify(v, sig, key) PROVE made_by_it
  <2>1. PICK m \in made : sig \in m.sigs /\ Kept(m)
    BY Origin
  <2>2. m.wire = v /\ m.by = key
    BY <1>1, <1>3, <2>1, NoticeVerified DEF notice_verify
  <2> QED BY <1>0, <2>1, <2>2
<1>4. ASSUME made_by_it PROVE notice_verify(v, sig, key)
  <2>1. PICK m \in made : m.wire = v /\ m.by = key /\ sig \in m.sigs
    BY <1>0, <1>4
  <2>2. ByNotice(m)
    BY <1>1, <2>1, KindOfKept DEF Records
  <2>3. sig = sign(key, notice_data(v))
    BY <2>1, <2>2, NoticeShape DEF OneSigned
  <2> QED BY <2>1, <2>2, <2>3, NoticeShape DEF notice_verify
<1>5. checked'.wire = w /\ checked'.key = key /\ checked'.sig = sig /\ made' = made
  BY DEF Check
<1>6. checked'.valid <=> made_by_it
  BY <1>2, <1>3, <1>4
<1> QED BY <1>0, <1>1, <1>5, <1>6 DEF AcceptedAsMade

LEMMA OneTimeKeyAccepted ==
    ASSUME Records, CheckOneTimeKey
    PROVE  AcceptedAsMade'
<1> PICK w \in Arriving("one-time-key"), key \in VerifyingKeys, sig \in Signatures :
      Check(w, key, sig, NotChecked, one_time_key_verify(w, sig, key))
  BY DEF CheckOneTimeKey
<1> PICK v : v = from_bytes(w)
  OBVIOUS
<1>0. PICK made_by_it : made_by_it <=> \E m \in made : m.wire = v /\ m.by = key /\ sig \in m.sigs
  OBVIOUS
<1>1. /\ w.kind = "one-time-key" /\ v.kind = "one-time-key"
      /\ v = [kind |-> "one-time-key", key_id |-> v.key_id, kem |-> v.kem]
      /\ v.key_id # "trelis-certified-safety-number-v1"
  <2>1. PICK o \in made : w = o.wire /\ o.wire.kind = "one-time-key"
    BY DEF Arriving, Wires
  <2>2. ByOneTimeKey(o)
    BY <2>1, KindOfKept DEF Records
  <2>3. v = w
    BY <2>1 DEF from_bytes
  <2> QED BY <2>1, <2>2, <2>3, OneTimeKeyShape
<1>2. checked'.valid <=> one_time_key_verify(v, sig, key)
  BY <1>1 DEF Check, from_bytes
<1>3. ASSUME one_time_key_verify(v, sig, key) PROVE made_by_it
  <2>1. PICK m \in made : sig \in m.sigs /\ Kept(m)
    BY Origin
  <2>2. m.wire = v /\ m.by = key
    BY <1>1, <1>3, <2>1, OneTimeKeyVerified DEF one_time_key_verify
  <2> QED BY <1>0, <2>1, <2>2
<1>4. ASSUME made_by_it PROVE one_time_key_verify(v, sig, key)
  <2>1. PICK m \in made : m.wire = v /\ m.by = key /\ sig \in m.sigs
    BY <1>0, <1>4
  <2>2. ByOneTimeKey(m)
    BY <1>1, <2>1, KindOfKept DEF Records
  <2>3. sig = sign(key, one_time_key_data(v))
    BY <2>1, <2>2, OneTimeKeyShape DEF OneSigned
  <2> QED BY <2>1, <2>2, <2>3, OneTimeKeyShape DEF one_time_key_verify
<1>5. checked'.wire = w /\ checked'.key = key /\ checked'.sig = sig /\ made' = made
  BY DEF Check
<1>6. checked'.valid <=> made_by_it
  BY <1>2, <1>3, <1>4
<1> QED BY <1>0, <1>1, <1>5, <1>6 DEF AcceptedAsMade

-----------------------------------------------------------------------------
(* IdentitiesOf and DevicesOf, for the records W, the nonces C and the      *)
(* identities I.                                                           *)
IdentityReach(u, W) ==
    LET Reached[n \in 0 .. MaxRecords] ==
          IF n = 0 THEN {root[u]}
          ELSE Reached[n - 1] \union {w.new_identity_pk : w \in {v \in W :
                                           v.user_id = u /\ v.old_identity_pk \in Reached[n - 1]}}
    IN  Reached[MaxRecords]

DeviceReach(u, W, C, I) ==
    LET Reached[n \in 0 .. MaxRecords] ==
          IF n = 0 THEN {device_fingerprint(founder[u])}
          ELSE Reached[n - 1] \union {w.new_device_fingerprint : w \in {v \in W :
                   /\ v.user_id = u /\ v.server_nonce \in C
                   /\ v.account_identity_pk \in I
                   /\ device_fingerprint(v.approving_device_pk) \in Reached[n - 1]}}
    IN  Reached[MaxRecords]

Rotated(S, u, W) ==
    root[u] \in S /\ \A v \in W : v.user_id = u /\ v.old_identity_pk \in S => v.new_identity_pk \in S
Approved(S, u, W, C, I) ==
    /\ device_fingerprint(founder[u]) \in S
    /\ \A v \in W : /\ v.user_id = u /\ v.server_nonce \in C /\ v.account_identity_pk \in I
                    /\ device_fingerprint(v.approving_device_pk) \in S
                    => v.new_device_fingerprint \in S

LEMMA IdentityReachIsLeast ==
    ASSUME NEW u, NEW W, IsFiniteSet(W), Cardinality(W) <= MaxRecords
    PROVE  /\ Rotated(IdentityReach(u, W), u, W)
           /\ \A S : Rotated(S, u, W) => IdentityReach(u, W) \subseteq S
<1> PICK E : E = {v \in W : v.user_id = u}
  OBVIOUS
<1> PICK a, b : a = [v \in E |-> v.old_identity_pk] /\ b = [v \in E |-> v.new_identity_pk]
  OBVIOUS
<1>1. MaxRecords \in Nat /\ IsFiniteSet(E) /\ Cardinality(E) <= MaxRecords
  <2>1. IsFiniteSet(E) /\ Cardinality(E) <= Cardinality(W)
    BY FS_Subset
  <2> QED BY <2>1, AccountsAssumption, FS_CardinalityType
<1>2. PICK F : Reaches(F, MaxRecords, {root[u]}, E, a, b)
  BY <1>1, ReachExists
<1> DEFINE Round(G, n) == IF n = 0 THEN {root[u]}
          ELSE G[n - 1] \union {w.new_identity_pk : w \in {v \in W :
                                     v.user_id = u /\ v.old_identity_pk \in G[n - 1]}}
           R == CHOOSE G : G = [n \in 0 .. MaxRecords |-> Round(G, n)]
<1>3. \A G : \A n \in 1..MaxRecords : Round(G, n) = Around(G, n - 1, E, a, b)
  <2> TAKE G
  <2> TAKE n \in 1..MaxRecords
  <2> PICK X : X = G[n - 1]
    OBVIOUS
  <2>1. {w.new_identity_pk : w \in {v \in W : v.user_id = u /\ v.old_identity_pk \in X}}
          = {b[m] : m \in {k \in E : a[k] \in X}}
    OBVIOUS
  <2>2. n # 0
    OBVIOUS
  <2>3. Round(G, n) = X \union {w.new_identity_pk : w \in {v \in W : v.user_id = u /\ v.old_identity_pk \in X}}
    BY <2>2
  <2> QED BY <2>1, <2>3 DEF Around
<1> HIDE DEF Round
<1>4. F = [n \in 0 .. MaxRecords |-> Round(F, n)]
  <2>1. Round(F, 0) = {root[u]}
    BY DEF Round
  <2>2. \A n \in 0..MaxRecords : F[n] = Round(F, n)
    <3> TAKE n \in 0..MaxRecords
    <3>1. n = 0 \/ n \in 1..MaxRecords
      BY <1>1
    <3> QED BY <1>2, <1>3, <2>1, <3>1 DEF Reaches
  <2> QED BY <1>2, <2>2 DEF Reaches
<1>5. R = [n \in 0 .. MaxRecords |-> Round(R, n)]
  BY <1>4
<1>6. IdentityReach(u, W) = R[MaxRecords]
  BY DEF IdentityReach, Round
<1>7. Reaches(R, MaxRecords, {root[u]}, E, a, b)
  <2> HIDE DEF R
  <2>1. R[0] = {root[u]} /\ R = [i \in 0 .. MaxRecords |-> R[i]]
    BY <1>1, <1>5 DEF Round
  <2>2. \A i \in 1 .. MaxRecords : R[i] = Around(R, i - 1, E, a, b)
    <3> TAKE i \in 1 .. MaxRecords
    <3>1. i \in 0 .. MaxRecords
      BY <1>1
    <3>2. R[i] = Round(R, i)
      BY <1>5, <3>1
    <3> QED BY <1>3, <3>2
  <2> QED BY <2>1, <2>2 DEF Reaches
<1> HIDE DEF R
<1>8. Closed(R[MaxRecords], {root[u]}, E, a, b)
  BY <1>1, <1>7, ReachClosed
<1>9. ASSUME NEW S, Rotated(S, u, W) PROVE R[MaxRecords] \subseteq S
  <2>1. Closed(S, {root[u]}, E, a, b)
    BY <1>9 DEF Closed, Rotated
  <2> QED BY <1>1, <1>7, <2>1, ReachLeast
<1> QED BY <1>6, <1>8, <1>9 DEF Closed, Rotated

LEMMA DeviceReachIsLeast ==
    ASSUME NEW u, NEW W, NEW C, NEW I, IsFiniteSet(W), Cardinality(W) <= MaxRecords
    PROVE  /\ Approved(DeviceReach(u, W, C, I), u, W, C, I)
           /\ \A S : Approved(S, u, W, C, I) => DeviceReach(u, W, C, I) \subseteq S
<1> PICK E : E = {v \in W : v.user_id = u /\ v.server_nonce \in C /\ v.account_identity_pk \in I}
  OBVIOUS
<1> PICK a, b : a = [v \in E |-> device_fingerprint(v.approving_device_pk)] /\ b = [v \in E |-> v.new_device_fingerprint]
  OBVIOUS
<1>1. MaxRecords \in Nat /\ IsFiniteSet(E) /\ Cardinality(E) <= MaxRecords
  <2>1. IsFiniteSet(E) /\ Cardinality(E) <= Cardinality(W)
    BY FS_Subset
  <2> QED BY <2>1, AccountsAssumption, FS_CardinalityType
<1>2. PICK F : Reaches(F, MaxRecords, {device_fingerprint(founder[u])}, E, a, b)
  BY <1>1, ReachExists
<1> DEFINE Round(G, n) == IF n = 0 THEN {device_fingerprint(founder[u])}
          ELSE G[n - 1] \union {w.new_device_fingerprint : w \in {v \in W :
                                     /\ v.user_id = u /\ v.server_nonce \in C
                                     /\ v.account_identity_pk \in I
                                     /\ device_fingerprint(v.approving_device_pk) \in G[n - 1]}}
           R == CHOOSE G : G = [n \in 0 .. MaxRecords |-> Round(G, n)]
<1>3. \A G : \A n \in 1..MaxRecords : Round(G, n) = Around(G, n - 1, E, a, b)
  <2> TAKE G
  <2> TAKE n \in 1..MaxRecords
  <2> PICK X : X = G[n - 1]
    OBVIOUS
  <2>1. {w.new_device_fingerprint : w \in {v \in W :
                    /\ v.user_id = u /\ v.server_nonce \in C
                    /\ v.account_identity_pk \in I
                    /\ device_fingerprint(v.approving_device_pk) \in X}}
          = {b[m] : m \in {k \in E : a[k] \in X}}
    OBVIOUS
  <2>2. n # 0
    OBVIOUS
  <2>3. Round(G, n) = X \union {w.new_device_fingerprint : w \in {v \in W :
                    /\ v.user_id = u /\ v.server_nonce \in C
                    /\ v.account_identity_pk \in I
                    /\ device_fingerprint(v.approving_device_pk) \in X}}
    BY <2>2
  <2> QED BY <2>1, <2>3 DEF Around
<1> HIDE DEF Round
<1>4. F = [n \in 0 .. MaxRecords |-> Round(F, n)]
  <2>1. Round(F, 0) = {device_fingerprint(founder[u])}
    BY DEF Round
  <2>2. \A n \in 0..MaxRecords : F[n] = Round(F, n)
    <3> TAKE n \in 0..MaxRecords
    <3>1. n = 0 \/ n \in 1..MaxRecords
      BY <1>1
    <3> QED BY <1>2, <1>3, <2>1, <3>1 DEF Reaches
  <2> QED BY <1>2, <2>2 DEF Reaches
<1>5. R = [n \in 0 .. MaxRecords |-> Round(R, n)]
  BY <1>4
<1>6. DeviceReach(u, W, C, I) = R[MaxRecords]
  BY DEF DeviceReach, Round
<1>7. Reaches(R, MaxRecords, {device_fingerprint(founder[u])}, E, a, b)
  <2> HIDE DEF R
  <2>1. R[0] = {device_fingerprint(founder[u])} /\ R = [i \in 0 .. MaxRecords |-> R[i]]
    BY <1>1, <1>5 DEF Round
  <2>2. \A i \in 1 .. MaxRecords : R[i] = Around(R, i - 1, E, a, b)
    <3> TAKE i \in 1 .. MaxRecords
    <3>1. i \in 0 .. MaxRecords
      BY <1>1
    <3>2. R[i] = Round(R, i)
      BY <1>5, <3>1
    <3> QED BY <1>3, <3>2
  <2> QED BY <2>1, <2>2 DEF Reaches
<1> HIDE DEF R
<1>8. Closed(R[MaxRecords], {device_fingerprint(founder[u])}, E, a, b)
  BY <1>1, <1>7, ReachClosed
<1>9. ASSUME NEW S, Approved(S, u, W, C, I) PROVE R[MaxRecords] \subseteq S
  <2>1. Closed(S, {device_fingerprint(founder[u])}, E, a, b)
    BY <1>9 DEF Closed, Approved
  <2> QED BY <1>1, <1>7, <2>1, ReachLeast
<1> QED BY <1>6, <1>8, <1>9 DEF Closed, Approved

LEMMA IdentityReachGrows ==
    ASSUME NEW u, NEW V, IsFiniteSet(V), Cardinality(V) <= MaxRecords,
           NEW W, IsFiniteSet(W), Cardinality(W) <= MaxRecords, V \subseteq W
    PROVE  IdentityReach(u, V) \subseteq IdentityReach(u, W)
<1>1. Rotated(IdentityReach(u, W), u, W)
  BY IdentityReachIsLeast
<1>2. Rotated(IdentityReach(u, W), u, V)
  BY <1>1 DEF Rotated
<1> QED BY <1>2, IdentityReachIsLeast

LEMMA DeviceReachGrows ==
    ASSUME NEW u, NEW V, IsFiniteSet(V), Cardinality(V) <= MaxRecords,
           NEW W, IsFiniteSet(W), Cardinality(W) <= MaxRecords, V \subseteq W,
           NEW B, NEW C, B \subseteq C, NEW I, NEW J, I \subseteq J
    PROVE  DeviceReach(u, V, B, I) \subseteq DeviceReach(u, W, C, J)
<1>1. Approved(DeviceReach(u, W, C, J), u, W, C, J)
  BY DeviceReachIsLeast
<1>2. Approved(DeviceReach(u, W, C, J), u, V, B, I)
  BY <1>1 DEF Approved
<1> QED BY <1>2, DeviceReachIsLeast

LEMMA WiresBounded ==
    ASSUME NEW M, IsFiniteSet(M), Cardinality(M) <= MaxRecords, NEW kind
    PROVE  LET W == {m.wire : m \in {n \in M : n.wire.kind = kind}}
           IN  IsFiniteSet(W) /\ Cardinality(W) <= MaxRecords
<1> PICK N : N = {n \in M : n.wire.kind = kind}
  OBVIOUS
<1> PICK W : W = {m.wire : m \in N}
  OBVIOUS
<1>1. IsFiniteSet(N) /\ Cardinality(N) <= Cardinality(M)
  BY FS_Subset
<1> PICK f : f = [m \in N |-> m.wire]
  OBVIOUS
<1>2. f \in Surjection(N, W)
  BY DEF Surjection
<1>3. IsFiniteSet(W) /\ Cardinality(W) <= Cardinality(N)
  BY <1>1, <1>2, FS_Surjection
<1>4. Cardinality(W) \in Nat /\ Cardinality(N) \in Nat /\ Cardinality(M) \in Nat
  BY <1>1, <1>3, FS_CardinalityType
<1> QED BY <1>1, <1>3, <1>4, AccountsAssumption

-----------------------------------------------------------------------------
(* What holds of the relying party in every reachable state.               *)
Trust ==
    /\ Records
    /\ pinned = [u \in Users |-> pinned[u]] /\ listed = [u \in Users |-> listed[u]]
    /\ TrustFollowsTheAccount

LEMMA AccountsOf ==
    ASSUME NEW u
    PROVE  /\ IdentitiesOf(u) = IdentityReach(u, Wires("rotation"))
           /\ DevicesOf(u) = DeviceReach(u, Wires("approval"), consumed, IdentitiesOf(u))
BY DEF IdentitiesOf, IdentityReach, DevicesOf, DeviceReach

LEMMA FewWires ==
    ASSUME Records, NEW kind
    PROVE  IsFiniteSet(Wires(kind)) /\ Cardinality(Wires(kind)) <= MaxRecords
BY WiresBounded DEF Records, Wires

LEMMA AccountsGrow ==
    ASSUME Records, Records', made \subseteq made', consumed \subseteq consumed', NEW u
    PROVE  IdentitiesOf(u) \subseteq IdentitiesOf(u)' /\ DevicesOf(u) \subseteq DevicesOf(u)'
<1>1. \A kind : /\ IsFiniteSet(Wires(kind)) /\ Cardinality(Wires(kind)) <= MaxRecords
                /\ IsFiniteSet(Wires(kind)') /\ Cardinality(Wires(kind)') <= MaxRecords
                /\ Wires(kind) \subseteq Wires(kind)'
  <2> TAKE kind
  <2>1. IsFiniteSet(Wires(kind)) /\ Cardinality(Wires(kind)) <= MaxRecords
    BY FewWires
  <2>2. IsFiniteSet(Wires(kind)') /\ Cardinality(Wires(kind)') <= MaxRecords
    BY WiresBounded DEF Records, Wires
  <2>3. Wires(kind) \subseteq Wires(kind)'
    BY DEF Wires
  <2> QED BY <2>1, <2>2, <2>3
<1>2. /\ IdentitiesOf(u)' = IdentityReach(u, Wires("rotation")')
      /\ DevicesOf(u)' = DeviceReach(u, Wires("approval")', consumed', IdentitiesOf(u)')
  BY DEF IdentitiesOf, IdentityReach, DevicesOf, DeviceReach
<1>3. IdentitiesOf(u) \subseteq IdentitiesOf(u)'
  BY <1>1, <1>2, AccountsOf, IdentityReachGrows
<1>4. DevicesOf(u) \subseteq DevicesOf(u)'
  BY <1>1, <1>2, <1>3, AccountsOf, DeviceReachGrows
<1> QED BY <1>3, <1>4

LEMMA TrustKept ==
    ASSUME Trust, Records', made \subseteq made', UNCHANGED << pinned, listed, consumed >>
    PROVE  Trust'
<1>1. \A u \in Users : IdentitiesOf(u) \subseteq IdentitiesOf(u)' /\ DevicesOf(u) \subseteq DevicesOf(u)'
  BY AccountsGrow DEF Trust
<1> QED BY <1>1 DEF Trust, TrustFollowsTheAccount

(* A rotation that is taken is one the holder of the pinned key made.      *)
LEMMA RotationTaken ==
    ASSUME Trust, NEW w \in Arriving("rotation"), NEW s \in Signatures, NEW t \in Signatures,
           TakeRotation(w, s, t)
    PROVE  Trust'
<1>1. Records'
  BY DEF Trust, Records, TakeRotation
<1>2. PICK m \in made : s \in m.sigs /\ Kept(m)
  BY Origin DEF Trust
<1>3. m.wire = w /\ m.wire.kind = "rotation"
  BY <1>2, RotationVerified, RotationShape DEF TakeRotation, rotation_verify
<1>4. w \in Wires("rotation")
  BY <1>2, <1>3 DEF Wires
<1>5. ASSUME NEW u \in Users PROVE pinned'[u] \in IdentitiesOf(u)' /\ listed'[u] \subseteq DevicesOf(u)'
  <2>1. IdentitiesOf(u) \subseteq IdentitiesOf(u)' /\ DevicesOf(u) \subseteq DevicesOf(u)'
    BY <1>1, AccountsGrow DEF Trust, TakeRotation
  <2>2. pinned[u] \in IdentitiesOf(u) /\ listed[u] \subseteq DevicesOf(u)
    BY DEF Trust, TrustFollowsTheAccount
  <2>3. CASE u = w.user_id
    <3>1. w.old_identity_pk \in IdentitiesOf(u)
      BY <2>2, <2>3 DEF TakeRotation
    <3>2. Rotated(IdentitiesOf(u), u, Wires("rotation"))
      BY AccountsOf, FewWires, IdentityReachIsLeast DEF Trust
    <3>3. w.new_identity_pk \in IdentitiesOf(u)
      BY <1>4, <2>3, <3>1, <3>2 DEF Rotated
    <3>4. pinned'[u] = w.new_identity_pk /\ listed' = listed
      BY <2>3 DEF TakeRotation, Trust
    <3> QED BY <2>1, <2>2, <3>3, <3>4
  <2>4. CASE u # w.user_id
    <3>1. pinned'[u] = pinned[u] /\ listed' = listed
      BY <2>4 DEF TakeRotation, Trust
    <3> QED BY <2>1, <2>2, <3>1
  <2> QED BY <2>3, <2>4
<1>6. pinned' = [u \in Users |-> pinned'[u]] /\ listed' = [u \in Users |-> listed'[u]]
  BY DEF TakeRotation, Trust
<1> QED BY <1>1, <1>5, <1>6 DEF Trust, TrustFollowsTheAccount

(* A device that is listed on an approval was approved by a listed one.    *)
LEMMA ApprovalTaken ==
    ASSUME Trust, NEW w \in Arriving("approval"), NEW s \in Signatures, TakeApproval(w, s)
    PROVE  Trust'
<1>1. Records' /\ made' = made /\ pinned' = pinned
  BY DEF Trust, Records, TakeApproval
<1>2. PICK m \in made : s \in m.sigs /\ Kept(m)
  BY Origin DEF Trust
<1>3. m.wire = w /\ m.wire.kind = "approval"
  <2>1. s = sign(w.approving_device_pk, approval_data(w))
    BY DEF TakeApproval, approval_verify
  <2>2. ByApproval(m) /\ m.wire = w
    BY <1>2, <2>1, ApprovalVerified
  <2> QED BY <2>2, ApprovalShape
<1>4. w \in Wires("approval")'
  BY <1>1, <1>2, <1>3 DEF Wires
<1>5. ASSUME NEW u \in Users PROVE pinned'[u] \in IdentitiesOf(u)' /\ listed'[u] \subseteq DevicesOf(u)'
  <2>1. IdentitiesOf(u) \subseteq IdentitiesOf(u)' /\ DevicesOf(u) \subseteq DevicesOf(u)'
    BY <1>1, AccountsGrow DEF Trust, TakeApproval
  <2>2. pinned[u] \in IdentitiesOf(u) /\ listed[u] \subseteq DevicesOf(u)
    BY DEF Trust, TrustFollowsTheAccount
  <2>3. CASE u = w.user_id
    <3>1. /\ w.account_identity_pk \in IdentitiesOf(u)' /\ w.server_nonce \in consumed'
          /\ device_fingerprint(w.approving_device_pk) \in DevicesOf(u)'
      BY <2>1, <2>2, <2>3 DEF TakeApproval, approval_verify, key_fingerprint, device_fingerprint
    <3>2. /\ IsFiniteSet(Wires("approval")') /\ Cardinality(Wires("approval")') <= MaxRecords
      BY <1>1, FewWires DEF Trust, Wires
    <3>3. DevicesOf(u)' = DeviceReach(u, Wires("approval")', consumed', IdentitiesOf(u)')
      BY DEF DevicesOf, DeviceReach
    <3>4. Approved(DevicesOf(u)', u, Wires("approval")', consumed', IdentitiesOf(u)')
      BY <3>2, <3>3, DeviceReachIsLeast
    <3>5. w.new_device_fingerprint \in DevicesOf(u)'
      BY <1>4, <2>3, <3>1, <3>4 DEF Approved
    <3>6. listed'[u] = listed[u] \union {w.new_device_fingerprint}
      BY <2>3 DEF TakeApproval, Trust
    <3> QED BY <1>1, <2>1, <2>2, <3>5, <3>6
  <2>4. CASE u # w.user_id
    <3>1. listed'[u] = listed[u]
      BY <2>4 DEF TakeApproval, Trust
    <3> QED BY <1>1, <2>1, <2>2, <3>1
  <2> QED BY <2>3, <2>4
<1>6. pinned' = [u \in Users |-> pinned'[u]] /\ listed' = [u \in Users |-> listed'[u]]
  BY DEF TakeApproval, Trust
<1> QED BY <1>1, <1>5, <1>6 DEF Trust, TrustFollowsTheAccount

LEMMA RevocationTaken ==
    ASSUME Trust, NEW v \in Users, NEW w, NEW s, NEW f, TakeRevocation(v, w, s, f)
    PROVE  Trust'
<1>1. Records' /\ made' = made /\ pinned' = pinned
  BY DEF Trust, Records, TakeRevocation
<1>2. ASSUME NEW u \in Users PROVE pinned'[u] \in IdentitiesOf(u)' /\ listed'[u] \subseteq DevicesOf(u)'
  <2>1. IdentitiesOf(u) \subseteq IdentitiesOf(u)' /\ DevicesOf(u) \subseteq DevicesOf(u)'
    BY <1>1, AccountsGrow DEF Trust, TakeRevocation
  <2>2. listed'[u] \subseteq listed[u]
    BY DEF TakeRevocation, Trust
  <2> QED BY <1>1, <2>1, <2>2 DEF Trust, TrustFollowsTheAccount
<1>3. pinned' = [u \in Users |-> pinned'[u]] /\ listed' = [u \in Users |-> listed'[u]]
  BY DEF TakeRevocation, Trust
<1> QED BY <1>1, <1>2, <1>3 DEF Trust, TrustFollowsTheAccount

LEMMA RecordMade ==
    ASSUME Trust, NEW m, Make(m), Kept(m)
    PROVE  Trust'
<1>1. IsFiniteSet(made') /\ Cardinality(made') <= MaxRecords
  <2>1. made' = made \union {m} /\ IsFiniteSet(made) /\ Cardinality(made) < MaxRecords
    BY DEF Make, Trust, Records
  <2>2. /\ IsFiniteSet(made \union {m})
        /\ Cardinality(made \union {m}) = Cardinality(made) \/ Cardinality(made \union {m}) = Cardinality(made) + 1
    BY <2>1, FS_AddElement
  <2>3. Cardinality(made) \in Nat /\ MaxRecords \in Nat
    BY <2>1, FS_CardinalityType, AccountsAssumption
  <2> QED BY <2>1, <2>2, <2>3
<1>2. Records'
  BY <1>1 DEF Make, Trust, Records
<1> QED BY <1>2, TrustKept DEF Make

LEMMA AccountStart ==
    ASSUME AcctInit
    PROVE  Trust /\ AcceptedAsMade
<1>1. IsFiniteSet(made) /\ Cardinality(made) <= MaxRecords
  BY FS_EmptySet, AccountsAssumption DEF AcctInit
<1>2. Records
  BY <1>1, AccountsAssumption DEF Records, AcctInit, Times
<1>3. ASSUME NEW u \in Users PROVE pinned[u] \in IdentitiesOf(u) /\ listed[u] \subseteq DevicesOf(u)
  <2>1. Rotated(IdentitiesOf(u), u, Wires("rotation"))
    BY <1>2, AccountsOf, FewWires, IdentityReachIsLeast
  <2>2. Approved(DevicesOf(u), u, Wires("approval"), consumed, IdentitiesOf(u))
    BY <1>2, AccountsOf, FewWires, DeviceReachIsLeast
  <2> QED BY <2>1, <2>2 DEF Rotated, Approved, AcctInit
<1>4. pinned = [u \in Users |-> pinned[u]] /\ listed = [u \in Users |-> listed[u]]
  BY AccountsAssumption DEF AcctInit
<1> QED BY <1>2, <1>3, <1>4 DEF Trust, TrustFollowsTheAccount, AcceptedAsMade, AcctInit

LEMMA AccountStep ==
    ASSUME Trust, AcceptedAsMade, [AcctNext]_acct_vars
    PROVE  Trust' /\ AcceptedAsMade'
<1>0. Records
  BY DEF Trust
<1>1. CASE UNCHANGED acct_vars
  <2>1. Records'
    BY <1>0, <1>1 DEF acct_vars, Records
  <2> QED BY <1>1, <2>1, TrustKept DEF acct_vars, AcceptedAsMade, SignedBy
<1>2. ASSUME NEW m, Make(m), Kept(m), checked = NotChecked PROVE Trust' /\ AcceptedAsMade'
  BY <1>2, RecordMade DEF Make, AcceptedAsMade
<1>3. clock \in Times
  BY <1>0 DEF Records
<1>4. ASSUME checked = NotChecked, MakeApproval \/ MakeRevocation \/ MakeNotice \/ MakeRotation
             \/ MakeCertificate \/ MakeNumber \/ MakeOneTimeKey
      PROVE  \E m : Make(m) /\ Kept(m)
  BY <1>3, <1>4 DEF MakeApproval, MakeRevocation, MakeNotice, MakeRotation, MakeCertificate, MakeNumber,
     MakeOneTimeKey, Kept, ByApproval, ByRevocation, ByNotice, ByRotation, ByCertificate, ByNumber, ByOneTimeKey
<1>5. CASE checked = NotChecked /\ Tick
  <2>1. Records'
    BY <1>0, <1>5, AccountsAssumption DEF Tick, Records, Times
  <2> QED BY <1>5, <2>1, TrustKept DEF Tick, AcceptedAsMade
<1>6. ASSUME checked = NotChecked, checked' = checked PROVE AcceptedAsMade'
  BY <1>6 DEF AcceptedAsMade
<1>7. ASSUME checked = NotChecked, NEW w \in Arriving("rotation"), NEW s \in Signatures, NEW t \in Signatures,
             TakeRotation(w, s, t)
      PROVE  Trust' /\ AcceptedAsMade'
  BY <1>6, <1>7, RotationTaken DEF TakeRotation
<1>8. ASSUME checked = NotChecked, NEW w \in Arriving("approval"), NEW s \in Signatures, TakeApproval(w, s)
      PROVE  Trust' /\ AcceptedAsMade'
  BY <1>6, <1>8, ApprovalTaken DEF TakeApproval
<1>9. ASSUME checked = NotChecked, NEW u \in Users, NEW w, NEW s, NEW f, TakeRevocation(u, w, s, f)
      PROVE  Trust' /\ AcceptedAsMade'
  BY <1>6, <1>9, RevocationTaken DEF TakeRevocation
<1>10. CASE CheckApproval \/ CheckRevocation \/ CheckNotice
            \/ CheckCertificate \/ CheckOneTimeKey \/ CheckNumber
  <2>1. AcceptedAsMade'
    BY <1>0, <1>10, ApprovalAccepted, RevocationAccepted, NoticeAccepted, CertificateAccepted,
       OneTimeKeyAccepted, NumberAccepted
  <2>2. UNCHANGED << made, clock, pinned, listed, consumed >>
    BY <1>10 DEF CheckApproval, CheckRevocation, CheckNotice, CheckCertificate, CheckOneTimeKey,
       CheckNumber, Check
  <2>3. Records'
    BY <1>0, <2>2 DEF Records
  <2> QED BY <2>1, <2>2, <2>3, TrustKept
<1> QED BY <1>1, <1>2, <1>4, <1>5, <1>7, <1>8, <1>9, <1>10 DEF AcctNext

(* Every check of a record says yes exactly if the record was made, in      *)
(* every field, by the holder of the key (AcceptedAsMade of Accounts, on    *)
(* the verify methods of the seven records), for any users, keys, records,  *)
(* times and window.                                                       *)
THEOREM OnlyWhatWasSigned == AcctSpec => []AcceptedAsMade
<1>1. AcctInit => Trust /\ AcceptedAsMade
  BY AccountStart
<1>2. Trust /\ AcceptedAsMade /\ [AcctNext]_acct_vars => (Trust /\ AcceptedAsMade)'
  BY AccountStep
<1> QED BY <1>1, <1>2, PTL DEF AcctSpec

(* The identity key trusted for an account is reached by its rotations, and *)
(* the devices listed for it by its approvals (TrustFollowsTheAccount of    *)
(* Accounts, on the caller contract of approval.rs), whatever the server    *)
(* puts together, repeats or holds back.                                   *)
THEOREM OnlyTheAccountMovesTrust == AcctSpec => []TrustFollowsTheAccount
<1>1. AcctInit => Trust /\ AcceptedAsMade
  BY AccountStart
<1>2. Trust /\ AcceptedAsMade /\ [AcctNext]_acct_vars => (Trust /\ AcceptedAsMade)'
  BY AccountStep
<1>3. Trust => TrustFollowsTheAccount
  BY DEF Trust
<1> QED BY <1>1, <1>2, <1>3, PTL DEF AcctSpec
=============================================================================
