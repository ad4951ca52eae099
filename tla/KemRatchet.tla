----------------------------- MODULE KemRatchet -----------------------------
(***************************************************************************)
(* The pairwise KEM ratchet of crates/trelis-ratchet: two KemRatchet       *)
(* values, one per end of a session, that exchange messages over a network *)
(* which may lose, delay, duplicate and reorder them.  A native party      *)
(* keeps its KemRatchet in memory; a party in wasm is driven through       *)
(* crates/trelis-wasm, whose ratchet_send and ratchet_receive rebuild the  *)
(* KemRatchet from a state blob at every call and hand back a new blob.    *)
(*                                                                         *)
(* Key material is symbolic.  A root key is the sequence of the inputs     *)
(* that were hashed into it, so two root keys are equal exactly when they  *)
(* were derived alike; key identifiers and KEM shared secrets are drawn    *)
(* from one counter of fresh values.                                       *)
(***************************************************************************)
EXTENDS Integers, Sequences

CONSTANTS
    Initiator, Responder,           \* the two ends of the session
    WasmEnds,                       \* which ends may be the wasm binding: sets of parties
    MAX_PREVIOUS_KEYPAIRS,
    SESSION_EXHAUSTION_THRESHOLD,
    MaxSends                        \* bound on the messages of a behaviour

Parties == {Initiator, Responder}

ASSUME PartiesAssumption == Initiator # Responder /\ WasmEnds \subseteq SUBSET Parties
ASSUME LimitsAssumption ==
    /\ MAX_PREVIOUS_KEYPAIRS \in Nat \ {0}
    /\ SESSION_EXHAUSTION_THRESHOLD \in Nat
    /\ MaxSends \in Nat

VARIABLES
    wasm,               \* the ends driven through the wasm binding
    turns,              \* the hosts keep to taking turns and lose nothing
    our_key_id,         \* party -> identifier of its current keypair
    previous_keypairs,  \* party -> identifiers of the keypairs it retains
    their_key_id,       \* party -> the peer's key, NoPeerKey until one is known
    root_key,           \* party -> its root key
    send_count, recv_count, status,
    net,                \* every message ever released to the network
    next_value,         \* the next value never drawn before
    points              \* history: the session states some send has created

party == <<our_key_id, previous_keypairs, their_key_id, root_key,
           send_count, recv_count, status>>
vars == <<wasm, turns, our_key_id, previous_keypairs, their_key_id, root_key,
          send_count, recv_count, status, net, next_value, points>>

Peer(p) == IF p = Initiator THEN Responder ELSE Initiator

NoPeerKey == 0
InitResponderKey == 1   \* the keypair behind the responder's bundle
InitInitiatorKey == 2   \* generated by init_initiator
FirstFresh == 3

RatchetStatus == {"Uninitialised", "Active", "AwaitingReply", "Stale", "Compromised"}
-----------------------------------------------------------------------------
(***************************************************************************)
(* Key derivation.  INIT marks an application of derive_initial_root_key;  *)
(* kdf_rk yields the new root key and the message key from the same input, *)
(* so one value stands for the pair.                                       *)
(***************************************************************************)
INIT == 0
SessionKey == <<>>
ZeroKey == <<>>
derive_initial_root_key(key) == Append(key, INIT)
set_recv_count_mutant(message_number) == message_number   \* forgets the + 1
set_recv_count(message_number) == message_number + 1

kdf_rk_mutant(root, shared_secret) == <<shared_secret>>   \* root key not mixed in
kdf_rk(root, shared_secret) == Append(root, shared_secret)

Message == [from : Parties, recipient_key_id : Nat, sender_public_key : Nat,
            encapsulation : Nat, message_number : Nat, message_key : Seq(Nat)]

(***************************************************************************)
(* What a call works on.  deserialize_ratchet_state rebuilds the state     *)
(* with init_responder, which passes the stored root key through           *)
(* derive_initial_root_key, retains no previous keypair, and fails on a    *)
(* send counter at the exhaustion threshold; the other fields survive.     *)
(***************************************************************************)
LoadedRoot_mutant(p, root) == root   \* restores the stored root key verbatim
LoadedRoot(p, root) == IF p \in wasm THEN derive_initial_root_key(root) ELSE root
LoadedPrevious(p) == IF p \in wasm THEN <<>> ELSE previous_keypairs[p]
LoadSucceeds(p) == p \in wasm => send_count[p] < SESSION_EXHAUSTION_THRESHOLD

validate_can_send(p) ==
    /\ status[p] \notin {"Uninitialised", "Compromised"}
    /\ send_count[p] < SESSION_EXHAUSTION_THRESHOLD
    /\ their_key_id[p] # NoPeerKey

validate_can_receive(p) == status[p] \notin {"Uninitialised", "Compromised"}

find_keypair(p, key_id) ==
    \/ key_id = our_key_id[p]
    \/ \E i \in 1..Len(LoadedPrevious(p)) : LoadedPrevious(p)[i] = key_id

rotate_keypair_mutant(previous, old_key_id) == Append(previous, old_key_id)   \* no eviction
rotate_keypair(previous, old_key_id) ==
    Append(IF Len(previous) >= MAX_PREVIOUS_KEYPAIRS THEN Tail(previous) ELSE previous,
           old_key_id)
-----------------------------------------------------------------------------
Init ==
    /\ wasm \in WasmEnds
    /\ turns \in BOOLEAN /\ (turns => wasm \in {{}, Parties})
    /\ our_key_id = [p \in Parties |->
                        IF p = Initiator THEN InitInitiatorKey ELSE InitResponderKey]
    /\ previous_keypairs = [p \in Parties |-> <<>>]
    /\ their_key_id = [p \in Parties |->
                        IF p = Initiator THEN InitResponderKey ELSE NoPeerKey]
    /\ root_key = [p \in Parties |-> derive_initial_root_key(SessionKey)]
    /\ send_count = [p \in Parties |-> 0]
    /\ recv_count = [p \in Parties |-> 0]
    /\ status = [p \in Parties |-> "Active"]
    /\ net = {}
    /\ next_value = FirstFresh
    /\ points = {[root |-> derive_initial_root_key(SessionKey),
                  key  |-> our_key_id,
                  sent |-> send_count]}

(***************************************************************************)
(* The message send_message builds: encapsulated to the peer's key under   *)
(* the loaded root key, carrying a fresh public key and the send counter.  *)
(***************************************************************************)
OutgoingMessage_mutant(p) ==   \* numbered after the counter was incremented
    [from              |-> p,
     recipient_key_id  |-> their_key_id[p],
     sender_public_key |-> next_value,
     encapsulation     |-> next_value,
     message_number    |-> send_count[p] + 1,
     message_key       |-> kdf_rk(LoadedRoot(p, root_key[p]), next_value)]
OutgoingMessage_stale(p) ==   \* keyed from the blob's root key, not the loaded one
    [from              |-> p,
     recipient_key_id  |-> their_key_id[p],
     sender_public_key |-> next_value,
     encapsulation     |-> next_value,
     message_number    |-> send_count[p],
     message_key       |-> kdf_rk(root_key[p], next_value)]
OutgoingMessage(p) ==
    [from              |-> p,
     recipient_key_id  |-> their_key_id[p],
     sender_public_key |-> next_value,
     encapsulation     |-> next_value,
     message_number    |-> send_count[p],
     message_key       |-> kdf_rk(LoadedRoot(p, root_key[p]), next_value)]

(***************************************************************************)
(* The session state the message leads to, whoever reaches it: the root    *)
(* key, each party's current key and the number of messages of each.       *)
(***************************************************************************)
NextPoint(p) ==
    [root |-> kdf_rk(LoadedRoot(p, root_key[p]), next_value),
     key  |-> [q \in Parties |->
                IF q = p THEN next_value
                ELSE their_key_id[p]],
     sent |-> [q \in Parties |->
                IF q = p THEN send_count[p] + 1 ELSE recv_count[p]]]

Release(p) ==
    /\ next_value < FirstFresh + MaxSends
    /\ LoadSucceeds(p)
    /\ validate_can_send(p)
    /\ net' = net \cup {OutgoingMessage(p)}
    /\ points' = points \cup {NextPoint(p)}
    /\ next_value' = next_value + 1

(* send_message, and for a wasm party ratchet_send with its blob saved.    *)
Send(p) ==
    /\ Release(p)
    /\ previous_keypairs' = [previous_keypairs EXCEPT
                               ![p] = rotate_keypair(LoadedPrevious(p), our_key_id[p])]
    /\ our_key_id' = [our_key_id EXCEPT ![p] = next_value]
    /\ root_key' = [root_key EXCEPT ![p] = kdf_rk(LoadedRoot(p, @), next_value)]
    /\ send_count' = [send_count EXCEPT ![p] = @ + 1]
    /\ status' = [status EXCEPT ![p] = "AwaitingReply"]
    /\ UNCHANGED <<their_key_id, recv_count>>

(* ratchet_send returns, the message goes out, and the host stops before   *)
(* it saved the new blob: the next call starts again from the old one.     *)
SendUnsaved(p) ==
    /\ p \in wasm
    /\ Release(p)
    /\ UNCHANGED party

(***************************************************************************)
(* The checks of receive_message before decryption, and the AEAD check:    *)
(* the tag verifies when both ends derived the message key from the same   *)
(* root key.  A message that fails a check leaves the state as it was.     *)
(***************************************************************************)
Deliverable(p, m) ==
    /\ m.from = Peer(p)
    /\ LoadSucceeds(p)
    /\ validate_can_receive(p)
    /\ m.message_number = recv_count[p]
    /\ find_keypair(p, m.recipient_key_id)

Decrypts(p, m) == kdf_rk(LoadedRoot(p, root_key[p]), m.encapsulation) = m.message_key

Receive(p) == \E m \in net :
    /\ Deliverable(p, m)
    /\ Decrypts(p, m)
    /\ root_key' = [root_key EXCEPT ![p] = kdf_rk(LoadedRoot(p, @), m.encapsulation)]
    /\ their_key_id' = [their_key_id EXCEPT ![p] = m.sender_public_key]
    /\ recv_count' = [recv_count EXCEPT ![p] = set_recv_count(m.message_number)]
    /\ status' = [status EXCEPT ![p] = "Active"]
    /\ previous_keypairs' = [previous_keypairs EXCEPT ![p] = LoadedPrevious(p)]
    /\ UNCHANGED <<our_key_id, send_count, net, next_value, points>>

(* mark_compromised, which the wasm binding does not export.               *)
MarkCompromised(p) ==
    /\ p \notin wasm
    /\ status' = [status EXCEPT ![p] = "Compromised"]
    /\ UNCHANGED <<our_key_id, previous_keypairs, their_key_id, root_key,
                   send_count, recv_count, net, next_value, points>>

(* zeroize: the secrets are erased and every later send or receive is      *)
(* refused.                                                                *)
Zeroize(p) ==
    /\ p \notin wasm
    /\ status' = [status EXCEPT ![p] = "Uninitialised"]
    /\ root_key' = [root_key EXCEPT ![p] = ZeroKey]
    /\ previous_keypairs' = [previous_keypairs EXCEPT ![p] = <<>>]
    /\ send_count' = [send_count EXCEPT ![p] = 0]
    /\ recv_count' = [recv_count EXCEPT ![p] = 0]
    /\ UNCHANGED <<our_key_id, their_key_id, net, next_value, points>>

(***************************************************************************)
(* Hosts that take turns use the ratchet as it can be used without loss: a *)
(* party sends only when it has taken everything its peer sent, saves      *)
(* every blob, nobody ends the session and both ends run through the same  *)
(* binding.  Other hosts do as they please.                                *)
(***************************************************************************)
InTurn(p) == turns => recv_count[p] = send_count[Peer(p)]

Next ==
    /\ UNCHANGED <<wasm, turns>>
    /\ \E p \in Parties :
          \/ InTurn(p) /\ Send(p)
          \/ Receive(p)
          \/ ~ turns /\ SendUnsaved(p)
          \/ ~ turns /\ MarkCompromised(p)
          \/ ~ turns /\ Zeroize(p)

(* Between hosts that take turns a message that can be taken is eventually *)
(* taken: the ordered, reliable transport that receive.rs requires.        *)
Fairness ==
    \A p \in Parties : WF_vars(turns /\ UNCHANGED <<wasm, turns>> /\ Receive(p))

Spec == Init /\ [][Next]_vars /\ Fairness
-----------------------------------------------------------------------------
TypeOK ==
    /\ wasm \subseteq Parties /\ turns \in BOOLEAN
    /\ our_key_id \in [Parties -> Nat]
    /\ previous_keypairs \in [Parties -> Seq(Nat)]
    /\ \A p \in Parties : Len(previous_keypairs[p]) <= MAX_PREVIOUS_KEYPAIRS
    /\ their_key_id \in [Parties -> Nat]
    /\ root_key \in [Parties -> Seq(Nat)]
    /\ send_count \in [Parties -> Nat]
    /\ recv_count \in [Parties -> Nat]
    /\ status \in [Parties -> RatchetStatus]
    /\ net \subseteq Message
    /\ next_value \in Nat
    /\ points \subseteq [root : Seq(Nat), key : [Parties -> Nat], sent : [Parties -> Nat]]

(* The secrets of p have not been erased.                                  *)
Live(p) == root_key[p] # ZeroKey

(* Two live ends that hold the same root key agree on everything else: the *)
(* counters of each match the other's and each would encrypt to the        *)
(* other's current keypair.  send_message and receive_message update these *)
(* fields one by one, and no message carries the peer's view of them.      *)
SyncedAgree ==
    (\A p \in Parties : Live(p)) /\ root_key[Initiator] = root_key[Responder] =>
        \A p \in Parties :
            /\ send_count[p] = recv_count[Peer(p)]
            /\ \/ their_key_id[p] = our_key_id[Peer(p)]
               \/ their_key_id[p] = NoPeerKey /\ p = Responder /\ recv_count[p] = 0

(* A message a party can decrypt was encrypted to the party's current      *)
(* keypair: the keypairs rotate_keypair retains and find_keypair searches  *)
(* never open anything, whatever the network delivers.                     *)
OnlyCurrentKeypairDecrypts ==
    \A p \in Parties, m \in net :
        Deliverable(p, m) /\ Decrypts(p, m) => m.recipient_key_id = our_key_id[p]

(* Each live party stands at a session state that a send (or the           *)
(* handshake) created, and its fields are that state's: its own key and    *)
(* counter, and for the peer those of the last message it took.  So the    *)
(* fields can never mix two session states, whatever is lost, replayed,    *)
(* delivered late or sent twice after a blob was not saved.                *)
AtPoint(p, x) ==
    /\ root_key[p] = x.root
    /\ our_key_id[p] = x.key[p]
    /\ send_count[p] = x.sent[p]
    /\ recv_count[p] = x.sent[Peer(p)]
    /\ \/ their_key_id[p] = x.key[Peer(p)]
       \/ their_key_id[p] = NoPeerKey /\ p = Responder /\ recv_count[p] = 0
StateIsAPoint == \A p \in Parties : Live(p) => \E x \in points : AtPoint(p, x)

Prefix(s, t) == Len(s) <= Len(t) /\ \A i \in 1..Len(s) : s[i] = t[i]

(* Neither end's root key extends the other's: each has mixed in a message *)
(* the other has not, as after two sends that cross on the wire.           *)
Diverged ==
    /\ \A p \in Parties : Live(p)
    /\ ~ Prefix(root_key[Initiator], root_key[Responder])
    /\ ~ Prefix(root_key[Responder], root_key[Initiator])

(* Divergence is final.  Once the root keys have parted no message is ever *)
(* accepted again in either direction, although both ends may still report *)
(* Active and go on sending: only a new session helps.                     *)
DivergenceIsFinal ==
    [][Diverged /\ (\A p \in Parties : Live(p)')
         => Diverged' /\ recv_count' = recv_count]_vars

(* A native end and a wasm end never exchange a message: the wasm end      *)
(* derives a further key from its stored root key at each call, so no tag  *)
(* verifies in either direction.                                           *)
MixedPairIsMute ==
    (wasm # {} /\ wasm # Parties) => \A p \in Parties : recv_count[p] = 0

(* Every message in flight whose turn it is and whose keypair the receiver *)
(* still holds decrypts, the ordinary turn-taking exchange.                *)
NextMessageDecrypts ==
    \A p \in Parties, m \in net : Deliverable(p, m) => Decrypts(p, m)

(* Between hosts that take turns that is every message in flight.          *)
TurnsAlwaysDecrypt == turns => NextMessageDecrypts

(* Between hosts that take turns every message sent is eventually taken by *)
(* the peer, unless the peer's own sends have exhausted its state: a blob  *)
(* at the threshold no longer loads, not even to receive.                  *)
EverySendIsTaken ==
    \A p \in Parties : turns /\ send_count[p] > recv_count[Peer(p)]
        ~> send_count[p] = recv_count[Peer(p)] \/ ~ LoadSucceeds(Peer(p))

(* "A live ratchet can never reach that value": send_count stays below the *)
(* exhaustion threshold (set_send_count, state.rs).                        *)
LiveCountBelowThreshold ==
    \A p \in Parties : send_count[p] < SESSION_EXHAUSTION_THRESHOLD

(* derive_initial_root_key "is used once at session establishment": no     *)
(* root key passed through it again (kdf.rs).                              *)
InitialDerivationOnce ==
    \A p \in Parties : \A i \in 2..Len(root_key[p]) : root_key[p][i] # INIT
=============================================================================
