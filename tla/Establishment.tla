---------------------------- MODULE Establishment ----------------------------
(***************************************************************************)
(* X3DH-PQ session establishment (crates/trelis-x3dh-pq, the one-time keys *)
(* of crates/trelis-hybrid, the x3dh_* calls of crates/trelis-wasm).  A    *)
(* responder builds, signs and publishes pre-key bundles; initiators fetch *)
(* them from a server that keeps every bundle, may alter what it hands out *)
(* and never takes one back; the first message may be delayed, repeated or *)
(* lost.  Neither end learns the other's inputs: the responder's host      *)
(* passes in whom it takes the initiator for, which bundle and one-time    *)
(* key it thinks were used, and the session flags.                         *)
(*                                                                         *)
(* Hashes and key derivations are represented by their inputs, an X448     *)
(* secret shared by two keypairs by the set of the two.                    *)
(***************************************************************************)
EXTENDS Integers, Sequences, FiniteSets

CONSTANTS
    Responder, Initiators,  \* the identities; one names signing and KEM keys
    OneTimeKeys,            \* the responder's one-time keypairs
    KeyIds,                 \* the otk_key_id values the host gives out
    Never,                  \* the expiration u64::MAX, the builder's default
    MaxTime,                \* BOUND on the clock
    MaxBundles,             \* BOUND on bundles published
    MaxSessions             \* BOUND on sessions derived, by either end

ASSUME TimeAssumption == MaxTime \in Nat /\ Never \in Nat /\ Never > MaxTime
ASSUME BoundAssumption == MaxBundles \in Nat /\ MaxSessions \in Nat

VARIABLES
    now,        \* the time the hosts pass in
    otks,       \* the one-time secrets the responder still holds
    deletes,    \* the responder's host deletes a one-time key it has used
    bundles,    \* every SignedPreKeyBundle the responder published
    started,    \* InitiatorResult of every Initiator::establish, with its inputs
    accepted    \* number of derivation -> SessionKeys of the responder, and inputs

vars == <<now, otks, deletes, bundles, started, accepted>>

Times == 0 .. MaxTime
Identities == Initiators \cup {Responder}
PreKeyBundle == [identity_signing : Identities, identity_kem : Identities,
                 one_time_key : OneTimeKeys, otk_key_id : KeyIds,
                 timestamp : Times, expiration : Times \cup {Never}]
-----------------------------------------------------------------------------
(* Every field of a bundle is signed.                                      *)
signing_data_mutant(bundle) == <<"trelis-prekey-bundle-v1", bundle.identity_signing,
    bundle.identity_kem, bundle.one_time_key, bundle.otk_key_id, bundle.timestamp>>
signing_data(bundle) == <<"trelis-prekey-bundle-v1", bundle.identity_signing,
    bundle.identity_kem, bundle.one_time_key, bundle.otk_key_id, bundle.timestamp,
    bundle.expiration>>
sign(bundle, identity) ==
    [bundle |-> bundle, signature |-> [by |-> identity, over |-> signing_data(bundle)]]
verify(signed) ==
    signed.signature = [by |-> signed.bundle.identity_signing, over |-> signing_data(signed.bundle)]
validate_timestamps(bundle, at) == bundle.timestamp <= at /\ at <= bundle.expiration

-----------------------------------------------------------------------------
(* The transcript: both signing identities, the bundle, the three shared   *)
(* secrets, the sntrup761 secret and the flags; the initiator comes first  *)
(* on both sides.  SessionKeys hold one key per direction.                 *)
x448_dh(mine, theirs) == {mine, theirs}
Transcript_mutant(alice, bob, bundle, dh1, dh2, dh3, pq_ss, flags) ==   \* flags left out
    <<alice, bob, signing_data(bundle), dh1, dh2, dh3, pq_ss>>
Transcript(alice, bob, bundle, dh1, dh2, dh3, pq_ss, flags) ==
    <<alice, bob, signing_data(bundle), dh1, dh2, dh3, pq_ss, flags>>
derive(transcript) ==
    [root_key |-> <<"root", transcript>>, send_chain_key |-> <<"send", transcript>>,
     recv_chain_key |-> <<"recv", transcript>>]
swap_directions(keys) ==
    [keys EXCEPT !.send_chain_key = keys.recv_chain_key, !.recv_chain_key = keys.send_chain_key]

(* sntrup761: the secret belongs to one encapsulation; another key rejects *)
(* implicitly, deriving a secret of its own from the ciphertext.           *)
sntrup_encapsulate(otk, number) == [to |-> otk, number |-> number]
sntrup_decapsulate(otk, ciphertext) ==
    IF ciphertext.to = otk THEN <<"shared", ciphertext>> ELSE <<"rejected", otk, ciphertext>>

Init ==
    /\ now = 0
    /\ otks = OneTimeKeys
    /\ deletes \in BOOLEAN
    /\ bundles = {}
    /\ started = {}
    /\ accepted = <<>>

Tick == now < MaxTime /\ now' = now + 1 /\ UNCHANGED <<otks, deletes, bundles, started, accepted>>

(* A bundle from the builder, unless it refuses the times, or from          *)
(* PreKeyBundle::new (x3dh_create_bundle), which checks nothing; signed and *)
(* published.  A one-time key may go into several bundles.                  *)
new(otk, id, timestamp, expiration) ==
    [identity_signing |-> Responder, identity_kem |-> Responder, one_time_key |-> otk,
     otk_key_id |-> id, timestamp |-> timestamp, expiration |-> expiration]
build(otk, id, timestamp, expiration) ==
    {b \in {new(otk, id, timestamp, expiration)} :
        b.expiration = Never \/ b.expiration >= b.timestamp}

Publish(bundle) ==
    /\ Cardinality(bundles) < MaxBundles
    /\ bundles' = bundles \cup {sign(bundle, Responder)}
    /\ UNCHANGED <<now, otks, deletes, started, accepted>>

PublishBuilt == \E otk \in otks, id \in KeyIds, t \in Times, e \in Times \cup {Never} :
    \E bundle \in build(otk, id, t, e) : Publish(bundle)
x3dh_create_bundle == \E otk \in otks, id \in KeyIds, t \in Times, e \in Times \cup {Never} :
    Publish(new(otk, id, t, e))

(* What the server may hand out: a published bundle, or one whose validity *)
(* it changed under the old signature.                                     *)
Fetched ==
    {[s EXCEPT !.bundle.expiration = e] : s \in bundles, e \in Times \cup {Never}}

(* Initiator::establish.                                                   *)
InitiatorEstablish(i) ==
    /\ Cardinality(started) + Len(accepted) < MaxSessions
    /\ \E signed \in Fetched, li_capable \in BOOLEAN :
        LET bundle == signed.bundle
            ephemeral == Cardinality(started)
            ciphertext == sntrup_encapsulate(bundle.one_time_key, ephemeral)
            keys == derive(Transcript(i, bundle.identity_signing, bundle,
                        x448_dh(i, bundle.one_time_key), x448_dh(ephemeral, bundle.identity_kem),
                        x448_dh(ephemeral, bundle.one_time_key),
                        <<"shared", ciphertext>>, li_capable))
        IN  /\ verify(signed)
            /\ validate_timestamps(bundle, now)
            /\ started' = started \cup
                 {[initiator |-> i, bundle |-> bundle, li_capable |-> li_capable, at |-> now,
                   session_keys |-> keys,
                   initial_message |-> [ephemeral_public |-> ephemeral, pq_ciphertext |-> ciphertext]]}
    /\ UNCHANGED <<now, otks, deletes, bundles, accepted>>

(* Responder::establish on a first message, which the network repeats or   *)
(* delays at will.  The host finds bundle and key by the otk_key_id the    *)
(* initiator names, and may be wrong about everything else; by the contract*)
(* in responder.rs it then deletes the one-time key.                       *)
ResponderEstablish(session, otk, signing, kem, bundle, li_capable) ==
    LET message == session.initial_message
        dh1 == x448_dh(otk, kem)
        dh2 == x448_dh(Responder, message.ephemeral_public)
        dh3 == x448_dh(otk, message.ephemeral_public)
        pq_ss == sntrup_decapsulate(otk, message.pq_ciphertext)
    IN  swap_directions(derive(Transcript(signing, Responder, bundle, dh1, dh2, dh3, pq_ss,
                                          li_capable)))
DeleteUsed_mutant(otk) == otks' = otks
DeleteUsed(otk) == otks' = IF deletes THEN otks \ {otk} ELSE otks

Accept ==
    /\ Cardinality(started) + Len(accepted) < MaxSessions
    /\ \E session \in started, otk \in otks, signing \in Initiators, kem \in Initiators,
          published \in bundles, li_capable \in BOOLEAN :
        LET bundle == published.bundle IN
        /\ bundle.otk_key_id = session.bundle.otk_key_id
        /\ accepted' = Append(accepted,
             [session |-> session, otk |-> otk, signing |-> signing, kem |-> kem,
              bundle |-> bundle, li_capable |-> li_capable,
              session_keys |-> ResponderEstablish(session, otk, signing, kem, bundle, li_capable)])
        /\ DeleteUsed(otk)
    /\ UNCHANGED <<now, deletes, bundles, started>>

Next == Tick \/ PublishBuilt \/ x3dh_create_bundle \/ Accept \/ \E i \in Initiators : InitiatorEstablish(i)

Spec == Init /\ [][Next]_vars
-----------------------------------------------------------------------------
(* A responder whose host was right about the initiator, the bundle, the   *)
(* one-time key and the flags.                                             *)
Right(a, s) ==
    /\ a.session = s
    /\ a.signing = s.initiator /\ a.kem = s.initiator /\ a.bundle = s.bundle
    /\ a.otk = s.bundle.one_time_key /\ a.li_capable = s.li_capable

(* The root keys of an initiator and a responder are the same exactly if   *)
(* the responder answers that session and its host was right about all of  *)
(* it; and then each sends on the chain the other receives on.             *)
SameKeysIffRight ==
    \A s \in started, n \in DOMAIN accepted :
        LET a == accepted[n] IN
        /\ (s.session_keys.root_key = a.session_keys.root_key) = Right(a, s)
        /\ Right(a, s) => /\ a.session_keys = swap_directions(s.session_keys)
                          /\ s.session_keys.send_chain_key # a.session_keys.send_chain_key

(* A host that deletes one-time keys never derives one session twice from  *)
(* a repeated first message, and no two initiators share keys.             *)
SessionsAreDistinct ==
    /\ \A s, t \in started : s.session_keys.root_key = t.session_keys.root_key => s = t
    /\ deletes => \A m, n \in DOMAIN accepted :
        accepted[m].session_keys.root_key = accepted[n].session_keys.root_key => m = n

(* A session is started only on a bundle the responder published as it is, *)
(* at a time the bundle allows, whatever validity the server wrote in.     *)
OnlyPublishedBundlesStart ==
    \A s \in started :
        /\ \E b \in bundles : b.bundle = s.bundle
        /\ s.bundle.timestamp <= s.at /\ s.at <= s.bundle.expiration
=============================================================================
