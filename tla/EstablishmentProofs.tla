------------------------- MODULE EstablishmentProofs -------------------------
(***************************************************************************)
(* Proofs about Establishment, for any sets of identities, one-time keys   *)
(* and key ids, any clock and any number of bundles and sessions: what the *)
(* hosts and the server may get wrong changes the keys, and nothing else   *)
(* makes two sessions share them.                                          *)
(***************************************************************************)
EXTENDS Establishment, TLAPS, FiniteSetTheorems, SequenceTheorems

(* The keys Initiator::establish derived for the session s.                *)
InitiatorKeys(s) ==
    LET e == s.initial_message.ephemeral_public
        b == s.bundle
    IN  derive(Transcript(s.initiator, b.identity_signing, b,
            x448_dh(s.initiator, b.one_time_key), x448_dh(e, b.identity_kem),
            x448_dh(e, b.one_time_key), <<"shared", s.initial_message.pq_ciphertext>>,
            s.li_capable))

(* The responder signed every published bundle under its own identity.     *)
BundlesOK == \A s \in bundles :
    /\ s.bundle \in PreKeyBundle
    /\ s.bundle.identity_signing = Responder /\ s.bundle.identity_kem = Responder
    /\ s = sign(s.bundle, Responder)

(* A session is on a published bundle, at a time it allows, with keys from *)
(* its own inputs and an ephemeral key that no other session has.          *)
SessionOK(s) ==
    /\ s.initiator \in Initiators /\ s.li_capable \in BOOLEAN
    /\ \E b \in bundles : b.bundle = s.bundle
    /\ s.bundle.timestamp <= s.at /\ s.at <= s.bundle.expiration
    /\ s.initial_message.ephemeral_public \in 0 .. Cardinality(started) - 1
    /\ s.initial_message.pq_ciphertext =
           sntrup_encapsulate(s.bundle.one_time_key, s.initial_message.ephemeral_public)
    /\ s.session_keys = InitiatorKeys(s)

StartedOK ==
    /\ IsFiniteSet(started)
    /\ \A s \in started : SessionOK(s)
    /\ \A s, t \in started :
           s.initial_message.ephemeral_public = t.initial_message.ephemeral_public => s = t

(* What the responder derived, and from what.                              *)
AnswerOK(a) ==
    /\ a.session \in started
    /\ \E b \in bundles : b.bundle = a.bundle
    /\ a.li_capable \in BOOLEAN
    /\ a.session_keys =
           ResponderEstablish(a.session, a.otk, a.signing, a.kem, a.bundle, a.li_capable)

AcceptedOK ==
    /\ accepted = [n \in 1 .. Len(accepted) |-> accepted[n]] /\ Len(accepted) \in Nat
    /\ \A n \in 1 .. Len(accepted) : AnswerOK(accepted[n])

(* A host that deletes one-time keys has none it used, and used none twice.*)
UsedAreGone == deletes =>
    /\ \A n \in 1 .. Len(accepted) : accepted[n].otk \notin otks
    /\ \A m, n \in 1 .. Len(accepted) : accepted[m].otk = accepted[n].otk => m = n

(* The inductive invariant.  The three properties are not inductive: they  *)
(* follow from what each set of keys was derived from, which has to be     *)
(* kept, and from the freshness of the ephemeral keys.                     *)
IInv == BundlesOK /\ StartedOK /\ AcceptedOK /\ UsedAreGone /\ otks \subseteq OneTimeKeys
-----------------------------------------------------------------------------
(* The bytes that are signed determine the bundle.                         *)
LEMMA SigningDataInjective ==
    ASSUME NEW b \in PreKeyBundle, NEW c \in PreKeyBundle, signing_data(b) = signing_data(c)
    PROVE  b = c
BY DEF PreKeyBundle, signing_data

(* Equal root keys were derived from equal transcripts.                    *)
LEMMA RootKeyInjective ==
    ASSUME NEW a1, NEW b1, NEW u1, NEW x1, NEW y1, NEW z1, NEW p1, NEW f1,
           NEW a2, NEW b2, NEW u2, NEW x2, NEW y2, NEW z2, NEW p2, NEW f2,
           derive(Transcript(a1, b1, u1, x1, y1, z1, p1, f1)).root_key
               = derive(Transcript(a2, b2, u2, x2, y2, z2, p2, f2)).root_key
    PROVE  /\ a1 = a2 /\ b1 = b2 /\ signing_data(u1) = signing_data(u2)
           /\ x1 = x2 /\ y1 = y2 /\ z1 = z2 /\ p1 = p2 /\ f1 = f2
BY DEF derive, Transcript

(* The root key of the responder is that of its transcript; a swap of the  *)
(* directions does not touch it.                                           *)
LEMMA SwapKeepsRoot ==
    ASSUME NEW t
    PROVE  /\ swap_directions(derive(t)).root_key = derive(t).root_key
           /\ swap_directions(derive(t)).send_chain_key = derive(t).recv_chain_key
           /\ derive(t).send_chain_key # derive(t).recv_chain_key
BY DEF swap_directions, derive

(* Decapsulation gives the secret of an encapsulation only to its own key, *)
(* and the secrets of two one-time keys always differ.                     *)
LEMMA DecapsulationShared ==
    ASSUME NEW otk, NEW ct, NEW sent, sntrup_decapsulate(otk, ct) = <<"shared", sent>>
    PROVE  ct = sent /\ ct.to = otk
<1>1. ASSUME ct.to # otk PROVE FALSE
  <2>1. <<"rejected", otk, ct>> = <<"shared", sent>>
    BY <1>1 DEF sntrup_decapsulate
  <2>2. DOMAIN <<"rejected", otk, ct>> = 1..3 /\ DOMAIN <<"shared", sent>> = 1..2
    OBVIOUS
  <2> QED BY <2>1, <2>2
<1> QED BY <1>1 DEF sntrup_decapsulate

LEMMA DecapsulationByKey ==
    ASSUME NEW o1, NEW o2, NEW c1, NEW c2,
           sntrup_decapsulate(o1, c1) = sntrup_decapsulate(o2, c2)
    PROVE  o1 = o2
<1>1. CASE c1.to = o1
  <2>1. sntrup_decapsulate(o2, c2) = <<"shared", c1>>
    BY <1>1 DEF sntrup_decapsulate
  <2> QED BY <1>1, <2>1, DecapsulationShared
<1>2. CASE c2.to = o2
  <2>1. sntrup_decapsulate(o1, c1) = <<"shared", c2>>
    BY <1>2 DEF sntrup_decapsulate
  <2> QED BY <1>2, <2>1, DecapsulationShared
<1>3. CASE c1.to # o1 /\ c2.to # o2
  BY <1>3 DEF sntrup_decapsulate
<1> QED BY <1>1, <1>2, <1>3

(* Append on a sequence of anything.                                       *)
LEMMA Appended ==
    ASSUME NEW q, NEW e, Len(q) \in Nat, q = [n \in 1 .. Len(q) |-> q[n]]
    PROVE  /\ Len(Append(q, e)) = Len(q) + 1
           /\ Append(q, e) = [n \in 1 .. Len(q) + 1 |-> Append(q, e)[n]]
           /\ \A n \in 1 .. Len(q) : Append(q, e)[n] = q[n]
           /\ Append(q, e)[Len(q) + 1] = e
<1> DEFINE S == {q[n] : n \in 1 .. Len(q)} \cup {e}
<1>1. q \in [1 .. Len(q) -> S]
  OBVIOUS
<1>2. q \in Seq(S)
  BY <1>1, SeqDef
<1>3. Append(q, e) \in Seq(S) /\ Len(Append(q, e)) = Len(q) + 1
  BY <1>2, AppendProperties
<1>4. Append(q, e) \in [1 .. Len(q) + 1 -> S]
  BY <1>3, LenProperties
<1>5. Append(q, e) = [n \in 1 .. Len(q) + 1 |-> Append(q, e)[n]]
  BY <1>4
<1>6. \A n \in 1 .. Len(q) : Append(q, e)[n] = q[n]
  BY <1>2, AppendProperties
<1>7. Append(q, e)[Len(q) + 1] = e
  BY <1>2, AppendProperties
<1> QED BY <1>3, <1>5, <1>6, <1>7
-----------------------------------------------------------------------------
LEMMA InitIInv == Init => IInv
<1> SUFFICES ASSUME Init PROVE IInv
  OBVIOUS
<1>1. BundlesOK /\ UsedAreGone /\ AcceptedOK
  BY DEF Init, BundlesOK, UsedAreGone, AcceptedOK
<1>2. StartedOK
  BY FS_EmptySet DEF Init, StartedOK
<1> QED BY <1>1, <1>2 DEF IInv, Init

(* Publishing keeps what is known of sessions: bundles are only added.     *)
LEMMA PublishIInv ==
    ASSUME IInv, NEW b \in PreKeyBundle, b.identity_signing = Responder,
           b.identity_kem = Responder, Publish(b)
    PROVE  IInv'
<1> USE DEF Publish
<1>1. BundlesOK'
  BY DEF IInv, BundlesOK, sign
<1>2. StartedOK'
  BY DEF IInv, StartedOK, SessionOK, InitiatorKeys
<1>3. AcceptedOK'
  BY DEF IInv, AcceptedOK, AnswerOK, ResponderEstablish
<1>4. UsedAreGone'
  BY DEF IInv, UsedAreGone
<1> QED BY <1>1, <1>2, <1>3, <1>4 DEF IInv

LEMMA InitiatorIInv ==
    ASSUME IInv, NEW i \in Initiators, InitiatorEstablish(i)
    PROVE  IInv'
<1> PICK signed \in Fetched, li_capable \in BOOLEAN :
      LET bundle == signed.bundle
          ephemeral == Cardinality(started)
          ciphertext == sntrup_encapsulate(bundle.one_time_key, ephemeral)
          keys == derive(Transcript(i, bundle.identity_signing, bundle,
                      x448_dh(i, bundle.one_time_key), x448_dh(ephemeral, bundle.identity_kem),
                      x448_dh(ephemeral, bundle.one_time_key),
                      <<"shared", ciphertext>>, li_capable))
      IN  /\ verify(signed)
          /\ validate_timestamps(bundle, now)
          /\ started' = started \cup
               {[initiator |-> i, bundle |-> bundle, li_capable |-> li_capable, at |-> now,
                 session_keys |-> keys,
                 initial_message |-> [ephemeral_public |-> ephemeral, pq_ciphertext |-> ciphertext]]}
  BY DEF InitiatorEstablish
<1> DEFINE bundle == signed.bundle
           e == Cardinality(started)
           ct == sntrup_encapsulate(bundle.one_time_key, e)
           keys == derive(Transcript(i, bundle.identity_signing, bundle,
                      x448_dh(i, bundle.one_time_key), x448_dh(e, bundle.identity_kem),
                      x448_dh(e, bundle.one_time_key), <<"shared", ct>>, li_capable))
           s == [initiator |-> i, bundle |-> bundle, li_capable |-> li_capable, at |-> now,
                 session_keys |-> keys,
                 initial_message |-> [ephemeral_public |-> e, pq_ciphertext |-> ct]]
<1>0. /\ verify(signed) /\ validate_timestamps(bundle, now)
      /\ started' = started \cup {s}
      /\ UNCHANGED <<now, otks, deletes, bundles, accepted>>
  BY DEF InitiatorEstablish
<1> PICK c : c = s
  OBVIOUS
<1>c. /\ c.initiator = i /\ c.bundle = bundle /\ c.li_capable = li_capable /\ c.at = now
      /\ c.session_keys = keys
      /\ c.initial_message.ephemeral_public = e /\ c.initial_message.pq_ciphertext = ct
  OBVIOUS
<1>s. started' = started \cup {c}
  BY <1>0
<1> HIDE DEF s
<1>1. \E b \in bundles : b.bundle = bundle
  <2>1. PICK b \in bundles, x \in Times \cup {Never} : signed = [b EXCEPT !.bundle.expiration = x]
    BY DEF Fetched
  <2>2. b.bundle \in PreKeyBundle /\ b = sign(b.bundle, Responder)
        /\ b.bundle.identity_signing = Responder
    BY DEF IInv, BundlesOK
  <2>3. signed = [bundle |-> [b.bundle EXCEPT !.expiration = x], signature |-> b.signature]
    BY <2>1, <2>2 DEF sign
  <2>4. bundle = [b.bundle EXCEPT !.expiration = x] /\ signed.signature = b.signature
    BY <2>3
  <2>5. bundle \in PreKeyBundle
    BY <2>2, <2>4 DEF PreKeyBundle
  <2>6. signing_data(bundle) = signing_data(b.bundle)
    BY <1>0, <2>2, <2>4 DEF verify, sign
  <2> QED BY <2>2, <2>5, <2>6, SigningDataInjective
<1>2. e \in Nat /\ Cardinality(started') = e + 1 /\ IsFiniteSet(started')
  <2>1. IsFiniteSet(started) /\ e \in Nat
    BY FS_CardinalityType DEF IInv, StartedOK
  <2>2. \A t \in started : t.initial_message.ephemeral_public \in 0 .. e - 1
    BY DEF IInv, StartedOK, SessionOK
  <2>3. c \notin started
    BY <1>c, <2>1, <2>2
  <2> QED BY <1>s, <2>1, <2>3, FS_AddElement
<1>3. SessionOK(c)'
  <2>1. c.session_keys = InitiatorKeys(c)
    BY <1>c DEF InitiatorKeys
  <2>2. c.bundle.timestamp <= c.at /\ c.at <= c.bundle.expiration
    BY <1>0, <1>c DEF validate_timestamps
  <2>3. c.initial_message.ephemeral_public \in 0 .. Cardinality(started') - 1
    BY <1>2, <1>c
  <2>4. c.initial_message.pq_ciphertext =
            sntrup_encapsulate(c.bundle.one_time_key, c.initial_message.ephemeral_public)
    BY <1>c
  <2> QED BY <1>0, <1>1, <1>c, <2>1, <2>2, <2>3, <2>4 DEF SessionOK, InitiatorKeys
<1>4. ASSUME NEW t \in started PROVE SessionOK(t)'
  <2>1. SessionOK(t)
    BY DEF IInv, StartedOK
  <2> QED BY <1>0, <1>2, <2>1 DEF SessionOK, InitiatorKeys
<1>5. StartedOK'
  <2>1. \A t \in started : t.initial_message.ephemeral_public # c.initial_message.ephemeral_public
    <3>1. \A t \in started : t.initial_message.ephemeral_public \in 0 .. e - 1
      BY DEF IInv, StartedOK, SessionOK
    <3> QED BY <1>2, <1>c, <3>1
  <2>2. \A t, u \in started' :
           t.initial_message.ephemeral_public = u.initial_message.ephemeral_public => t = u
    BY <1>s, <2>1 DEF IInv, StartedOK
  <2>3. \A t \in started' : SessionOK(t)'
    BY <1>s, <1>3, <1>4
  <2> QED BY <1>2, <2>2, <2>3 DEF StartedOK
<1>6. AcceptedOK'
  BY <1>0 DEF IInv, AcceptedOK, AnswerOK, ResponderEstablish
<1>7. BundlesOK' /\ UsedAreGone'
  BY <1>0 DEF IInv, BundlesOK, UsedAreGone
<1> QED BY <1>0, <1>5, <1>6, <1>7 DEF IInv

LEMMA AcceptIInv ==
    ASSUME IInv, Accept
    PROVE  IInv'
<1> PICK session \in started, otk \in otks, signing \in Initiators, kem \in Initiators,
         published \in bundles, li_capable \in BOOLEAN :
      /\ accepted' = Append(accepted,
           [session |-> session, otk |-> otk, signing |-> signing, kem |-> kem,
            bundle |-> published.bundle, li_capable |-> li_capable,
            session_keys |-> ResponderEstablish(session, otk, signing, kem,
                                                published.bundle, li_capable)])
      /\ DeleteUsed(otk)
  BY DEF Accept
<1> PICK a : a = [session |-> session, otk |-> otk, signing |-> signing, kem |-> kem,
                  bundle |-> published.bundle, li_capable |-> li_capable,
                  session_keys |-> ResponderEstablish(session, otk, signing, kem,
                                                      published.bundle, li_capable)]
  OBVIOUS
<1>1. accepted' = Append(accepted, a) /\ DeleteUsed(otk)
      /\ UNCHANGED <<now, deletes, bundles, started>>
  BY DEF Accept
<1>2. AnswerOK(a) /\ a.otk = otk
  BY DEF AnswerOK
<1>3. /\ Len(accepted') = Len(accepted) + 1 /\ Len(accepted) \in Nat
      /\ accepted' = [n \in 1 .. Len(accepted) + 1 |-> accepted'[n]]
      /\ \A n \in 1 .. Len(accepted) : accepted'[n] = accepted[n]
      /\ accepted'[Len(accepted) + 1] = a
  BY <1>1, Appended DEF IInv, AcceptedOK
<1>4. AcceptedOK'
  <2>1. \A x : AnswerOK(x) => AnswerOK(x)'
    BY <1>1 DEF AnswerOK, ResponderEstablish
  <2>2. \A n \in 1 .. Len(accepted) + 1 : AnswerOK(accepted'[n])
    BY <1>2, <1>3 DEF IInv, AcceptedOK
  <2> QED BY <1>3, <2>1, <2>2 DEF AcceptedOK
<1>5. UsedAreGone'
  <2> SUFFICES ASSUME deletes
               PROVE  /\ \A n \in 1 .. Len(accepted') : accepted'[n].otk \notin otks'
                      /\ \A m, n \in 1 .. Len(accepted') :
                            accepted'[m].otk = accepted'[n].otk => m = n
    BY <1>1 DEF UsedAreGone
  <2>1. otks' = otks \ {otk}
    BY <1>1 DEF DeleteUsed
  <2>2. /\ \A n \in 1 .. Len(accepted) : accepted[n].otk \notin otks
        /\ \A m, n \in 1 .. Len(accepted) : accepted[m].otk = accepted[n].otk => m = n
    BY DEF IInv, UsedAreGone
  <2> QED BY <1>2, <1>3, <2>1, <2>2
<1>6. BundlesOK' /\ StartedOK'
  BY <1>1 DEF IInv, BundlesOK, StartedOK, SessionOK, InitiatorKeys
<1> QED BY <1>1, <1>4, <1>5, <1>6 DEF IInv, DeleteUsed

LEMMA NextIInv == IInv /\ [Next]_vars => IInv'
<1> SUFFICES ASSUME IInv, [Next]_vars PROVE IInv'
  OBVIOUS
<1>1. CASE Tick
  BY <1>1 DEF Tick, IInv, BundlesOK, StartedOK, SessionOK, InitiatorKeys, AcceptedOK, AnswerOK,
              ResponderEstablish, UsedAreGone
<1>2. ASSUME NEW otk \in OneTimeKeys, NEW id \in KeyIds, NEW t \in Times,
             NEW e \in Times \cup {Never}, Publish(new(otk, id, t, e))
      PROVE  IInv'
  <2>1. /\ new(otk, id, t, e) \in PreKeyBundle
        /\ new(otk, id, t, e).identity_signing = Responder
        /\ new(otk, id, t, e).identity_kem = Responder
    BY DEF new, PreKeyBundle, Identities
  <2> QED BY <1>2, <2>1, PublishIInv
<1>3. CASE PublishBuilt
  BY <1>2, <1>3 DEF PublishBuilt, build, IInv
<1>4. CASE x3dh_create_bundle
  BY <1>2, <1>4 DEF x3dh_create_bundle, IInv
<1>5. CASE Accept
  BY <1>5, AcceptIInv
<1>6. CASE \E i \in Initiators : InitiatorEstablish(i)
  BY <1>6, InitiatorIInv
<1>7. CASE UNCHANGED vars
  BY <1>7 DEF vars, IInv, BundlesOK, StartedOK, SessionOK, InitiatorKeys, AcceptedOK, AnswerOK,
              ResponderEstablish, UsedAreGone
<1> QED BY <1>1, <1>3, <1>4, <1>5, <1>6, <1>7 DEF Next

LEMMA SpecIInv == Spec => []IInv
<1> QED BY InitIInv, NextIInv, PTL DEF Spec
-----------------------------------------------------------------------------
(* What an answer was derived from, next to the session it might match.    *)
LEMMA SameRootIffRight ==
    ASSUME IInv, NEW s \in started, NEW n \in 1 .. Len(accepted)
    PROVE  (s.session_keys.root_key = accepted[n].session_keys.root_key)
               = Right(accepted[n], s)
<1> DEFINE a == accepted[n]
           e == s.initial_message.ephemeral_public
           f == a.session.initial_message.ephemeral_public
<1>1. SessionOK(s) /\ AnswerOK(a) /\ SessionOK(a.session) /\ a.session \in started
  BY DEF IInv, StartedOK, AcceptedOK, AnswerOK
<1>2. /\ s.bundle \in PreKeyBundle /\ a.bundle \in PreKeyBundle
      /\ s.bundle.identity_signing = Responder /\ s.bundle.identity_kem = Responder
  BY <1>1 DEF IInv, BundlesOK, SessionOK, AnswerOK
<1>3. s.session_keys = derive(Transcript(s.initiator, s.bundle.identity_signing, s.bundle,
            x448_dh(s.initiator, s.bundle.one_time_key), x448_dh(e, s.bundle.identity_kem),
            x448_dh(e, s.bundle.one_time_key), <<"shared", s.initial_message.pq_ciphertext>>,
            s.li_capable))
  BY <1>1 DEF SessionOK, InitiatorKeys
<1>4. a.session_keys.root_key = derive(Transcript(a.signing, Responder, a.bundle,
            x448_dh(a.otk, a.kem), x448_dh(Responder, f), x448_dh(a.otk, f),
            sntrup_decapsulate(a.otk, a.session.initial_message.pq_ciphertext),
            a.li_capable)).root_key
  BY <1>1, SwapKeepsRoot DEF AnswerOK, ResponderEstablish
<1>5. ASSUME s.session_keys.root_key = a.session_keys.root_key PROVE Right(a, s)
  <2>1. /\ s.initiator = a.signing /\ signing_data(s.bundle) = signing_data(a.bundle)
        /\ x448_dh(s.initiator, s.bundle.one_time_key) = x448_dh(a.otk, a.kem)
        /\ <<"shared", s.initial_message.pq_ciphertext>> =
               sntrup_decapsulate(a.otk, a.session.initial_message.pq_ciphertext)
        /\ s.li_capable = a.li_capable
    BY <1>3, <1>4, <1>5, RootKeyInjective
  <2>2. s.bundle = a.bundle
    BY <1>2, <2>1, SigningDataInjective
  <2>3. a.session.initial_message.pq_ciphertext = s.initial_message.pq_ciphertext
        /\ a.session.initial_message.pq_ciphertext.to = a.otk
    BY <2>1, DecapsulationShared
  <2>4. e = f /\ s.bundle.one_time_key = a.otk
    BY <1>1, <2>3 DEF SessionOK, sntrup_encapsulate
  <2>5. a.session = s
    BY <1>1, <2>4 DEF IInv, StartedOK
  <2>6. a.kem = s.initiator
    BY <2>1, <2>4 DEF x448_dh
  <2> QED BY <2>1, <2>2, <2>4, <2>5, <2>6 DEF Right
<1>6. ASSUME Right(a, s) PROVE s.session_keys.root_key = a.session_keys.root_key
  <2>1. sntrup_decapsulate(a.otk, a.session.initial_message.pq_ciphertext)
            = <<"shared", s.initial_message.pq_ciphertext>>
    BY <1>1, <1>6 DEF Right, SessionOK, sntrup_encapsulate, sntrup_decapsulate
  <2>2. /\ x448_dh(a.otk, a.kem) = x448_dh(s.initiator, s.bundle.one_time_key)
        /\ x448_dh(Responder, f) = x448_dh(e, s.bundle.identity_kem)
        /\ x448_dh(a.otk, f) = x448_dh(e, s.bundle.one_time_key)
    BY <1>2, <1>6 DEF Right, x448_dh
  <2> QED BY <1>2, <1>3, <1>4, <1>6, <2>1, <2>2 DEF Right
<1>7. Right(a, s) \in BOOLEAN
  BY DEF Right
<1> QED BY <1>5, <1>6, <1>7

(* Whatever the server altered and the responder's host got wrong, the two *)
(* ends share a root key exactly when the responder answers that session   *)
(* with everything right, and then their directions match (Initiator and   *)
(* Responder::establish).                                                  *)
THEOREM KeysAgreeExactlyIfRight == Spec => []SameKeysIffRight
<1>1. IInv => SameKeysIffRight
  <2> SUFFICES ASSUME IInv, NEW s \in started, NEW n \in DOMAIN accepted
               PROVE  LET a == accepted[n] IN
                      /\ (s.session_keys.root_key = a.session_keys.root_key) = Right(a, s)
                      /\ Right(a, s) =>
                            /\ a.session_keys = swap_directions(s.session_keys)
                            /\ s.session_keys.send_chain_key # a.session_keys.send_chain_key
    BY DEF SameKeysIffRight
  <2> DEFINE a == accepted[n]
  <2>1. n \in 1 .. Len(accepted)
    BY DEF IInv, AcceptedOK
  <2>2. (s.session_keys.root_key = a.session_keys.root_key) = Right(a, s)
    BY <2>1, SameRootIffRight
  <2>3. PICK t : s.session_keys = derive(t)
    BY DEF IInv, StartedOK, SessionOK, InitiatorKeys
  <2>4. PICK u : a.session_keys = swap_directions(derive(u))
    BY <2>1 DEF IInv, AcceptedOK, AnswerOK, ResponderEstablish
  <2>5. ASSUME Right(a, s) PROVE t = u
    <3>1. derive(t).root_key = derive(u).root_key
      BY <2>2, <2>3, <2>4, <2>5, SwapKeepsRoot
    <3> QED BY <3>1 DEF derive
  <2> QED BY <2>2, <2>3, <2>4, <2>5, SwapKeepsRoot
<1> QED BY <1>1, SpecIInv, PTL

(* No two sessions of initiators share a root key, and a responder whose   *)
(* host deletes the one-time keys it used never derives one session twice, *)
(* however often a first message is repeated (the contract in              *)
(* responder.rs).                                                          *)
THEOREM SessionsStayDistinct == Spec => []SessionsAreDistinct
<1>1. ASSUME IInv, NEW s \in started, NEW t \in started,
             s.session_keys.root_key = t.session_keys.root_key
      PROVE  s = t
  <2>1. SessionOK(s) /\ SessionOK(t)
    BY <1>1 DEF IInv, StartedOK
  <2>2. <<"shared", s.initial_message.pq_ciphertext>> = <<"shared", t.initial_message.pq_ciphertext>>
    BY <1>1, <2>1, RootKeyInjective DEF SessionOK, InitiatorKeys
  <2>3. s.initial_message.pq_ciphertext = t.initial_message.pq_ciphertext
    BY <2>2
  <2>4. s.initial_message.ephemeral_public = t.initial_message.ephemeral_public
    BY <2>1, <2>3 DEF SessionOK, sntrup_encapsulate
  <2> QED BY <1>1, <2>4 DEF IInv, StartedOK
<1>2. ASSUME IInv, deletes, NEW m \in DOMAIN accepted, NEW n \in DOMAIN accepted,
             accepted[m].session_keys.root_key = accepted[n].session_keys.root_key
      PROVE  m = n
  <2> DEFINE a == accepted[m]
             b == accepted[n]
  <2>1. m \in 1 .. Len(accepted) /\ n \in 1 .. Len(accepted)
    BY <1>2 DEF IInv, AcceptedOK
  <2>2. AnswerOK(a) /\ AnswerOK(b)
    BY <1>2, <2>1 DEF IInv, AcceptedOK
  <2>3. sntrup_decapsulate(a.otk, a.session.initial_message.pq_ciphertext)
            = sntrup_decapsulate(b.otk, b.session.initial_message.pq_ciphertext)
    <3> HIDE DEF a, b
    <3>1. a.session_keys.root_key =
            derive(Transcript(a.signing, Responder, a.bundle, x448_dh(a.otk, a.kem),
              x448_dh(Responder, a.session.initial_message.ephemeral_public),
              x448_dh(a.otk, a.session.initial_message.ephemeral_public),
              sntrup_decapsulate(a.otk, a.session.initial_message.pq_ciphertext),
              a.li_capable)).root_key
      BY <2>2, SwapKeepsRoot DEF AnswerOK, ResponderEstablish
    <3>2. b.session_keys.root_key =
            derive(Transcript(b.signing, Responder, b.bundle, x448_dh(b.otk, b.kem),
              x448_dh(Responder, b.session.initial_message.ephemeral_public),
              x448_dh(b.otk, b.session.initial_message.ephemeral_public),
              sntrup_decapsulate(b.otk, b.session.initial_message.pq_ciphertext),
              b.li_capable)).root_key
      BY <2>2, SwapKeepsRoot DEF AnswerOK, ResponderEstablish
    <3>3. a.session_keys.root_key = b.session_keys.root_key
      BY <1>2 DEF a, b
    <3>4. derive(Transcript(a.signing, Responder, a.bundle, x448_dh(a.otk, a.kem),
              x448_dh(Responder, a.session.initial_message.ephemeral_public),
              x448_dh(a.otk, a.session.initial_message.ephemeral_public),
              sntrup_decapsulate(a.otk, a.session.initial_message.pq_ciphertext),
              a.li_capable)).root_key =
          derive(Transcript(b.signing, Responder, b.bundle, x448_dh(b.otk, b.kem),
              x448_dh(Responder, b.session.initial_message.ephemeral_public),
              x448_dh(b.otk, b.session.initial_message.ephemeral_public),
              sntrup_decapsulate(b.otk, b.session.initial_message.pq_ciphertext),
              b.li_capable)).root_key
      BY <3>1, <3>2, <3>3
    <3> QED BY ONLY <3>4, RootKeyInjective
  <2>4. a.otk = b.otk
    BY <2>3, DecapsulationByKey
  <2> QED BY <1>2, <2>1, <2>4 DEF IInv, UsedAreGone
<1>3. IInv => SessionsAreDistinct
  BY <1>1, <1>2 DEF SessionsAreDistinct
<1> QED BY <1>3, SpecIInv, PTL

(* An initiator starts only on a bundle the responder published, at a time *)
(* that bundle allows, whatever validity the server wrote into it          *)
(* (SignedPreKeyBundle::verify and validate_timestamps).                   *)
THEOREM OnlyPublishedStart == Spec => []OnlyPublishedBundlesStart
<1>1. IInv => OnlyPublishedBundlesStart
  BY DEF IInv, StartedOK, SessionOK, OnlyPublishedBundlesStart
<1> QED BY <1>1, SpecIInv, PTL
=============================================================================
