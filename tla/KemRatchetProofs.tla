-------------------------- MODULE KemRatchetProofs --------------------------
(***************************************************************************)
(* Proofs about KemRatchet, for every choice of the constants: any split   *)
(* of the two ends between the native library and the wasm binding, any    *)
(* retention limit and any exhaustion threshold.                           *)
(***************************************************************************)
EXTENDS KemRatchet, TLAPS, SequenceTheorems

Below(root, b) == \A i \in 1..Len(root) : root[i] < b

(* A root key determines the session state it belongs to, and every root   *)
(* key is a hash chain over values already drawn whose only applications   *)
(* of derive_initial_root_key are the first one and those of a wasm load,  *)
(* never the last link after the first.                                    *)
PointsOK ==
    /\ next_value >= FirstFresh
    /\ \A x, y \in points : x.root = y.root => x = y
    /\ \A x \in points :
          /\ Len(x.root) >= 1
          /\ Below(x.root, next_value)
          /\ Len(x.root) > 1 => x.root[Len(x.root)] # INIT

(* The session state a message was sent from, and the one it leads to.     *)
SentFrom(m, x) ==
    /\ m.message_key = kdf_rk(LoadedRoot(m.from, x.root), m.encapsulation)
    /\ m.recipient_key_id = x.key[Peer(m.from)]
    /\ m.message_number = x.sent[m.from]
    /\ [root |-> m.message_key,
        key  |-> [x.key EXCEPT ![m.from] = m.sender_public_key],
        sent |-> [x.sent EXCEPT ![m.from] = @ + 1]] \in points
    /\ Live(m.from) => Prefix(x.root, root_key[m.from])

NetOK == \A m \in net : \E x \in points : SentFrom(m, x)

(* A party whose secrets were erased can neither send nor receive.         *)
ErasedIsEnded ==
    \A p \in Parties : ~ Live(p) => status[p] \in {"Uninitialised", "Compromised"}

(* The inductive invariant.  StateIsAPoint alone is not inductive: taking  *)
(* a message keeps it only because the message was itself sent from the    *)
(* very session state the receiver is in.                                  *)
IndInv == TypeOK /\ PointsOK /\ StateIsAPoint /\ NetOK /\ ErasedIsEnded
-----------------------------------------------------------------------------
(* The root key a call works on is a root key (deserialize_ratchet_state). *)
LEMMA LoadedRootType ==
    ASSUME NEW p \in Parties, NEW r \in Seq(Nat)
    PROVE  LoadedRoot(p, r) \in Seq(Nat)
BY AppendProperties DEF LoadedRoot, derive_initial_root_key, INIT

(* Chain c extends chain r, ends in the value ss and adds nothing else but *)
(* the mark of a load.                                                     *)
Extends(r, ss, c) ==
    /\ c \in Seq(Nat)
    /\ Len(c) > Len(r)
    /\ c[Len(c)] = ss
    /\ Prefix(r, c)
    /\ \A b \in Nat : ss < b /\ 0 < b /\ Below(r, b) => Below(c, b)

(* What kdf_rk over a loaded root key builds.                              *)
LEMMA ChainStep ==
    ASSUME NEW p \in Parties, NEW r \in Seq(Nat), NEW ss \in Nat
    PROVE  Extends(r, ss, kdf_rk(LoadedRoot(p, r), ss))
<1> DEFINE l == LoadedRoot(p, r)
           c == kdf_rk(l, ss)
<1>1. /\ l \in Seq(Nat)
      /\ Len(l) \in Nat /\ Len(r) \in Nat /\ Len(l) >= Len(r)
      /\ \A i \in 1..Len(r) : l[i] = r[i]
      /\ \A i \in 1..Len(l) : i \in 1..Len(r) \/ l[i] = 0
  <2>1. CASE p \in wasm
    BY <2>1, AppendProperties DEF LoadedRoot, derive_initial_root_key, INIT
  <2>2. CASE p \notin wasm
    BY <2>2, LenProperties DEF LoadedRoot
  <2> QED BY <2>1, <2>2
<1> HIDE DEF l
<1>2. /\ c \in Seq(Nat)
      /\ Len(c) = Len(l) + 1
      /\ c[Len(l) + 1] = ss
      /\ \A i \in 1..Len(l) : c[i] = l[i]
  BY <1>1, AppendProperties DEF kdf_rk
<1> HIDE DEF c
<1>3. Prefix(r, c)
  BY <1>1, <1>2 DEF Prefix
<1>4. ASSUME NEW b \in Nat, ss < b, 0 < b, Below(r, b), NEW i \in 1..Len(c)
      PROVE  c[i] < b
  <2>1. CASE i = Len(l) + 1  BY <2>1, <1>2, <1>4
  <2>2. CASE i \in 1..Len(l)  BY <2>2, <1>1, <1>2, <1>4 DEF Below
  <2> QED BY <2>1, <2>2, <1>1, <1>2
<1>5. \A b \in Nat : ss < b /\ 0 < b /\ Below(r, b) => Below(c, b)
  BY <1>4 DEF Below
<1>6. Extends(r, ss, c)
  BY <1>1, <1>2, <1>3, <1>5 DEF Extends
<1> QED BY <1>6 DEF l, c

(* Prefix is transitive: used when a root key grows along its history.     *)
LEMMA PrefixTransitive ==
    ASSUME NEW r \in Seq(Nat), NEW s \in Seq(Nat), NEW t \in Seq(Nat),
           Prefix(r, s), Prefix(s, t)
    PROVE  Prefix(r, t)
<1>1. Len(r) \in Nat /\ Len(s) \in Nat /\ Len(t) \in Nat  BY LenProperties
<1> QED BY <1>1 DEF Prefix

(* Every root key is a prefix of itself.                                   *)
LEMMA PrefixReflexive == ASSUME NEW r \in Seq(Nat) PROVE Prefix(r, r)
BY LenProperties DEF Prefix

(* The two ends are distinct and each is the other's peer.                 *)
LEMMA PeerFacts ==
    ASSUME NEW p \in Parties
    PROVE  Peer(p) \in Parties /\ Peer(p) # p /\ Peer(Peer(p)) = p
           /\ \A q \in Parties : q = p \/ q = Peer(p)
BY PartiesAssumption DEF Peer, Parties

(* A load does the same before and after a step: no end changes its        *)
(* binding.                                                                *)
LEMMA LoadIsStable ==
    ASSUME UNCHANGED wasm
    PROVE  \A p, r : LoadedRoot(p, r)' = LoadedRoot(p, r)
BY DEF LoadedRoot

(* A message that decrypts was sent from the session state its receiver is *)
(* in, and both ends are of the same kind.                                 *)
LEMMA AcceptedAtItsPoint ==
    ASSUME IndInv, NEW p \in Parties, Live(p), NEW m \in net,
           m.from = Peer(p), Decrypts(p, m)
    PROVE  /\ p \in wasm <=> Peer(p) \in wasm
           /\ \E x \in points : AtPoint(p, x) /\ SentFrom(m, x)
<1>1. PICK x \in points : AtPoint(p, x)
  BY DEF IndInv, StateIsAPoint
<1>2. PICK y \in points : SentFrom(m, y)
  BY DEF IndInv, NetOK
<1> DEFINE lx == LoadedRoot(p, x.root)
           ly == LoadedRoot(Peer(p), y.root)
<1>3. x.root \in Seq(Nat) /\ y.root \in Seq(Nat) /\ m.encapsulation \in Nat
  BY DEF IndInv, TypeOK, Message
<1>4. lx \in Seq(Nat) /\ ly \in Seq(Nat)
  BY <1>3, LoadedRootType, PeerFacts
<1>5. Append(lx, m.encapsulation) = Append(ly, m.encapsulation)
  BY <1>1, <1>2 DEF Decrypts, SentFrom, AtPoint, kdf_rk
<1>6. lx = ly
  <2> HIDE DEF lx, ly
  <2> QED BY <1>3, <1>4, <1>5, AppendInjective
<1>7. Len(x.root) >= 1 /\ Len(y.root) >= 1
      /\ (Len(x.root) > 1 => x.root[Len(x.root)] # INIT)
      /\ (Len(y.root) > 1 => y.root[Len(y.root)] # INIT)
  BY DEF IndInv, PointsOK
<1>8. ASSUME NEW r \in Seq(Nat), NEW s \in Seq(Nat), Len(s) >= 1, r = Append(s, INIT)
      PROVE  Len(r) > 1 /\ r[Len(r)] = INIT
  BY <1>8, AppendProperties, LenProperties DEF INIT
<1>9. p \in wasm <=> Peer(p) \in wasm
  <2>1. ASSUME p \in wasm, Peer(p) \notin wasm PROVE FALSE
    <3>1. y.root = Append(x.root, INIT)
      BY <1>6, <2>1 DEF LoadedRoot, derive_initial_root_key
    <3> QED BY <3>1, <1>3, <1>7, <1>8
  <2>2. ASSUME p \notin wasm, Peer(p) \in wasm PROVE FALSE
    <3>1. x.root = Append(y.root, INIT)
      BY <1>6, <2>2 DEF LoadedRoot, derive_initial_root_key
    <3> QED BY <3>1, <1>3, <1>7, <1>8
  <2> QED BY <2>1, <2>2
<1>10. x.root = y.root
  <2>1. CASE p \in wasm
    <3>1. Append(x.root, INIT) = Append(y.root, INIT)
      BY <1>6, <1>9, <2>1 DEF LoadedRoot, derive_initial_root_key
    <3>2. ASSUME NEW r \in Seq(Nat), NEW s \in Seq(Nat), Append(r, INIT) = Append(s, INIT)
          PROVE  r = s
      <4>1. INIT \in Nat  BY DEF INIT
      <4> QED BY <3>2, <4>1, AppendInjective
    <3> QED BY <3>1, <3>2, <1>3
  <2>2. CASE p \notin wasm
    BY <1>6, <1>9, <2>2 DEF LoadedRoot
  <2> QED BY <2>1, <2>2
<1>11. x = y
  BY <1>10 DEF IndInv, PointsOK
<1> QED BY <1>1, <1>2, <1>9, <1>11
-----------------------------------------------------------------------------
(* The first half of a send: what releasing a message does to the network  *)
(* and to the session states that exist.                                   *)
LEMMA ReleaseStep ==
    ASSUME IndInv, NEW p \in Parties, Release(p)
    PROVE  /\ net' \subseteq Message
           /\ next_value' \in Nat
           /\ points' \subseteq [root : Seq(Nat), key : [Parties -> Nat], sent : [Parties -> Nat]]
           /\ PointsOK'
           /\ NextPoint(p) \in points'
           /\ NextPoint(p).root = kdf_rk(LoadedRoot(p, root_key[p]), next_value)
           /\ \E x \in points :
                /\ AtPoint(p, x)
                /\ OutgoingMessage(p).recipient_key_id = x.key[Peer(p)]
                /\ NextPoint(p) = [root |-> OutgoingMessage(p).message_key,
                                   key  |-> [x.key EXCEPT ![p] = next_value],
                                   sent |-> [x.sent EXCEPT ![p] = @ + 1]]
<1>1. PICK x \in points : AtPoint(p, x)
  BY DEF IndInv, StateIsAPoint, ErasedIsEnded, Release, validate_can_send
<1>2. their_key_id[p] = x.key[Peer(p)]
  BY <1>1 DEF AtPoint, Release, validate_can_send
<1>3. /\ x.root \in Seq(Nat) /\ root_key[p] = x.root
      /\ x.key \in [Parties -> Nat] /\ x.sent \in [Parties -> Nat]
      /\ next_value \in Nat /\ next_value >= 3
      /\ Peer(p) \in Parties
  BY <1>1, PeerFacts DEF IndInv, TypeOK, PointsOK, AtPoint, FirstFresh
<1> DEFINE r == kdf_rk(LoadedRoot(p, x.root), next_value)
<1>4. /\ r \in Seq(Nat)
      /\ Len(r) > Len(x.root)
      /\ r[Len(r)] = next_value
      /\ \A b \in Nat : next_value < b /\ 0 < b /\ Below(x.root, b) => Below(r, b)
  <2> DEFINE rt == x.root
  <2>1. rt \in Seq(Nat) /\ next_value \in Nat  BY <1>3
  <2>2. r = kdf_rk(LoadedRoot(p, rt), next_value)  OBVIOUS
  <2> HIDE DEF rt, r
  <2>3. Extends(rt, next_value, r)  BY <2>1, <2>2, ChainStep
  <2> QED BY <2>3 DEF Extends, rt
<1>5. NextPoint(p).root = r /\ OutgoingMessage(p).message_key = r
  BY <1>3 DEF NextPoint, OutgoingMessage
<1>6. NextPoint(p) = [root |-> r, key |-> [x.key EXCEPT ![p] = next_value],
                      sent |-> [x.sent EXCEPT ![p] = @ + 1]]
  <2>1. [q \in Parties |-> IF q = p THEN next_value ELSE their_key_id[p]]
            = [x.key EXCEPT ![p] = next_value]
    BY <1>2, <1>3, PeerFacts
  <2>2. [q \in Parties |-> IF q = p THEN send_count[p] + 1 ELSE recv_count[p]]
            = [x.sent EXCEPT ![p] = @ + 1]
    BY <1>1, <1>3, PeerFacts DEF AtPoint
  <2> QED BY <1>3, <2>1, <2>2 DEF NextPoint
<1> HIDE DEF r
<1>7. OutgoingMessage(p) \in Message
  BY <1>2, <1>3, <1>4, <1>5 DEF OutgoingMessage, Message, IndInv, TypeOK
<1>8. NextPoint(p) \in [root : Seq(Nat), key : [Parties -> Nat], sent : [Parties -> Nat]]
  BY <1>3, <1>4, <1>6
<1>9. net' = net \cup {OutgoingMessage(p)} /\ points' = points \cup {NextPoint(p)}
      /\ next_value' = next_value + 1
  BY DEF Release
<1>10. PointsOK'
  <2>1. ASSUME NEW y \in points PROVE y.root # r /\ y.root \in Seq(Nat)
    <3>1. y.root \in Seq(Nat) /\ \A i \in 1..Len(y.root) : y.root[i] < next_value
      BY DEF IndInv, PointsOK, TypeOK, Below
    <3>2. Len(r) \in Nat /\ Len(x.root) \in Nat /\ Len(r) \in 1..Len(r)
      BY <1>3, <1>4, LenProperties
    <3>3. y.root = r => r[Len(r)] < next_value  BY <3>1, <3>2
    <3> QED BY <1>3, <1>4, <3>1, <3>3
  <2>2. ASSUME NEW y \in points', NEW z \in points', y.root = z.root PROVE y = z
    BY <2>1, <2>2, <1>5, <1>9 DEF IndInv, PointsOK
  <2>3. ASSUME NEW y \in points'
        PROVE /\ Len(y.root) >= 1
              /\ Below(y.root, next_value')
              /\ Len(y.root) > 1 => y.root[Len(y.root)] # INIT
    <3>1. CASE y \in points
      <4>1. \A i \in 1..Len(y.root) : y.root[i] < next_value /\ y.root[i] \in Nat
        BY <3>1, <2>1, ElementOfSeq DEF IndInv, PointsOK, Below
      <4>2. Below(y.root, next_value')
        BY <4>1, <1>3, <1>9 DEF Below
      <4> QED BY <3>1, <4>2 DEF IndInv, PointsOK
    <3>2. CASE y = NextPoint(p)
      <4>1. Len(r) \in Nat /\ Len(x.root) \in Nat  BY <1>3, <1>4, LenProperties
      <4>2. Below(x.root, next_value + 1)
        <5>1. \A i \in 1..Len(x.root) : x.root[i] < next_value /\ x.root[i] \in Nat
          BY <1>3, ElementOfSeq DEF IndInv, PointsOK, Below
        <5> QED BY <5>1, <1>3 DEF Below
      <4>3. next_value + 1 \in Nat /\ next_value < next_value + 1 /\ 0 < next_value + 1  BY <1>3
      <4>4. Below(r, next_value + 1)
        BY <4>2, <4>3, <1>4
      <4>5. y.root = r  BY <3>2, <1>5
      <4>6. Len(r) >= 1 /\ r[Len(r)] # INIT
        BY <4>1, <1>3, <1>4 DEF INIT
      <4> QED BY <4>4, <4>5, <4>6, <1>9
    <3> QED BY <3>1, <3>2, <1>9
  <2>4. next_value' >= FirstFresh  BY <1>3, <1>9 DEF FirstFresh
  <2> QED BY <2>2, <2>3, <2>4 DEF PointsOK
<1>11. OutgoingMessage(p).recipient_key_id = x.key[Peer(p)]
  BY <1>2 DEF OutgoingMessage
<1>12. r = kdf_rk(LoadedRoot(p, root_key[p]), next_value)
  BY <1>3 DEF r
<1>13. net' \subseteq Message /\ next_value' \in Nat
      /\ points' \subseteq [root : Seq(Nat), key : [Parties -> Nat], sent : [Parties -> Nat]]
  <2>1. net \subseteq Message
        /\ points \subseteq [root : Seq(Nat), key : [Parties -> Nat], sent : [Parties -> Nat]]
    BY DEF IndInv, TypeOK
  <2>2. net' \subseteq Message  BY <2>1, <1>7, <1>9
  <2>3. points' \subseteq [root : Seq(Nat), key : [Parties -> Nat], sent : [Parties -> Nat]]
    BY <2>1, <1>8, <1>9
  <2>4. next_value' \in Nat  BY <1>3, <1>9
  <2> QED BY <2>2, <2>3, <2>4
<1>14. NextPoint(p) = [root |-> OutgoingMessage(p).message_key,
                       key  |-> [x.key EXCEPT ![p] = next_value],
                       sent |-> [x.sent EXCEPT ![p] = @ + 1]]
  BY <1>5, <1>6
<1> QED
  BY <1>1, <1>5, <1>9, <1>10, <1>11, <1>12, <1>13, <1>14

(* The messages already released stay explained as the root keys of live   *)
(* parties grow.                                                           *)
LEMMA OldMessagesExplained ==
    ASSUME IndInv, UNCHANGED <<wasm, turns>>, points \subseteq points', root_key' \in [Parties -> Seq(Nat)],
           \A q \in Parties : Live(q)' => Live(q) /\ Prefix(root_key[q], root_key'[q]),
           NEW m \in net
    PROVE  \E x \in points' : SentFrom(m, x)'
<1>1. PICK x \in points : SentFrom(m, x)
  BY DEF IndInv, NetOK
<1>2. x.root \in Seq(Nat) /\ m.from \in Parties /\ root_key[m.from] \in Seq(Nat)
      /\ root_key'[m.from] \in Seq(Nat)
  BY DEF IndInv, TypeOK, Message
<1>3. Live(m.from)' => Prefix(x.root, root_key'[m.from])
  BY <1>1, <1>2, PrefixTransitive DEF SentFrom
<1>4. SentFrom(m, x)'
  BY <1>1, <1>3, LoadIsStable DEF SentFrom
<1> QED BY <1>4
-----------------------------------------------------------------------------
(* What init_initiator and init_responder leave satisfies IndInv.          *)
LEMMA InitIndInv == Init => IndInv
<1> SUFFICES ASSUME Init PROVE IndInv
  OBVIOUS
<1> DEFINE r0 == derive_initial_root_key(SessionKey)
<1>1. r0 = <<0>> /\ r0 \in Seq(Nat) /\ Len(r0) = 1
  BY DEF derive_initial_root_key, SessionKey, INIT
<1>2. InitResponderKey \in Nat /\ InitInitiatorKey \in Nat /\ NoPeerKey \in Nat
  BY DEF InitResponderKey, InitInitiatorKey, NoPeerKey
<1>3. TypeOK
  <2>1. \A p \in Parties : previous_keypairs[p] = <<>>  BY DEF Init
  <2>2. previous_keypairs \in [Parties -> Seq(Nat)]  BY DEF Init
  <2>3. \A p \in Parties : Len(previous_keypairs[p]) <= MAX_PREVIOUS_KEYPAIRS
    BY <2>1, LimitsAssumption
  <2>7. wasm \subseteq Parties /\ turns \in BOOLEAN  BY PartiesAssumption DEF Init
  <2>4. /\ our_key_id \in [Parties -> Nat]
        /\ their_key_id \in [Parties -> Nat]
        /\ send_count \in [Parties -> Nat]
        /\ recv_count \in [Parties -> Nat]
        /\ status \in [Parties -> RatchetStatus]
        /\ net \subseteq Message
        /\ next_value \in Nat
    BY <1>2 DEF Init, RatchetStatus, FirstFresh
  <2>5. root_key \in [Parties -> Seq(Nat)]
    BY <1>1 DEF Init
  <2>6. points \subseteq [root : Seq(Nat), key : [Parties -> Nat], sent : [Parties -> Nat]]
    BY <1>1, <2>4 DEF Init
  <2> QED BY <2>2, <2>3, <2>4, <2>5, <2>6, <2>7 DEF TypeOK
<1>4. PointsOK
  BY <1>1 DEF Init, PointsOK, Below, FirstFresh, INIT
<1>5. StateIsAPoint
  <2> DEFINE x0 == [root |-> r0, key |-> our_key_id, sent |-> send_count]
  <2>1. x0 \in points  BY DEF Init
  <2>2. ASSUME NEW p \in Parties PROVE AtPoint(p, x0)
    BY PartiesAssumption DEF Init, AtPoint, Peer, Parties
  <2> QED BY <2>1, <2>2 DEF StateIsAPoint
<1>6. NetOK
  BY DEF Init, NetOK
<1>7. ErasedIsEnded
  BY <1>1 DEF Init, ErasedIsEnded, Live, ZeroKey
<1> QED BY <1>3, <1>4, <1>5, <1>6, <1>7 DEF IndInv

(* send_message, with its blob saved, preserves IndInv.                    *)
LEMMA SendInductive ==
    ASSUME IndInv, NEW p \in Parties, Send(p), UNCHANGED <<wasm, turns>>
    PROVE  IndInv'
<1>1. Release(p)  BY DEF Send
<1>2. PICK x \in points :
        /\ AtPoint(p, x)
        /\ OutgoingMessage(p).recipient_key_id = x.key[Peer(p)]
        /\ NextPoint(p) = [root |-> OutgoingMessage(p).message_key,
                           key  |-> [x.key EXCEPT ![p] = next_value],
                           sent |-> [x.sent EXCEPT ![p] = @ + 1]]
  BY <1>1, ReleaseStep
<1>3. /\ x.root \in Seq(Nat) /\ x.key \in [Parties -> Nat] /\ x.sent \in [Parties -> Nat]
      /\ root_key \in [Parties -> Seq(Nat)] /\ next_value \in Nat
      /\ Peer(p) \in Parties /\ Peer(p) # p
      /\ x.root = root_key[p]
  BY <1>2, PeerFacts DEF IndInv, TypeOK, AtPoint
<1> DEFINE r == kdf_rk(LoadedRoot(p, root_key[p]), next_value)
<1>4. r \in Seq(Nat) /\ Prefix(root_key[p], r)
  BY <1>3, ChainStep DEF Extends
<1>5. NextPoint(p) \in points' /\ NextPoint(p).root = r
  BY <1>1, ReleaseStep
<1>6. root_key' = [root_key EXCEPT ![p] = r]
  BY <1>3 DEF Send
<1> HIDE DEF r
<1>7. root_key' \in [Parties -> Seq(Nat)]
      /\ \A q \in Parties : Prefix(root_key[q], root_key'[q])
  BY <1>3, <1>4, <1>6, PrefixReflexive
<1>8. TypeOK'
  <2>1. LoadedPrevious(p) \in Seq(Nat)
        /\ Len(LoadedPrevious(p)) <= MAX_PREVIOUS_KEYPAIRS
        /\ our_key_id[p] \in Nat
    <3>1. Len(<<>>) <= MAX_PREVIOUS_KEYPAIRS  BY LimitsAssumption
    <3> QED BY <3>1 DEF LoadedPrevious, IndInv, TypeOK
  <2> DEFINE v == rotate_keypair(LoadedPrevious(p), our_key_id[p])
  <2>2. v \in Seq(Nat) /\ Len(v) <= MAX_PREVIOUS_KEYPAIRS
    BY <2>1, LimitsAssumption DEF rotate_keypair
  <2> HIDE DEF v
  <2>3. previous_keypairs' = [previous_keypairs EXCEPT ![p] = v]
    BY DEF Send, v
  <2>4. previous_keypairs' \in [Parties -> Seq(Nat)]
        /\ \A q \in Parties : Len(previous_keypairs'[q]) <= MAX_PREVIOUS_KEYPAIRS
    BY <2>2, <2>3 DEF IndInv, TypeOK
  <2>5. /\ our_key_id' \in [Parties -> Nat]
        /\ their_key_id' \in [Parties -> Nat]
        /\ send_count' \in [Parties -> Nat]
        /\ recv_count' \in [Parties -> Nat]
        /\ status' \in [Parties -> RatchetStatus]
    BY DEF Send, IndInv, TypeOK, RatchetStatus
  <2>6. net' \subseteq Message /\ next_value' \in Nat
        /\ points' \subseteq [root : Seq(Nat), key : [Parties -> Nat], sent : [Parties -> Nat]]
    BY <1>1, ReleaseStep
  <2>7. wasm' \subseteq Parties /\ turns' \in BOOLEAN  BY DEF IndInv, TypeOK
  <2> QED BY <1>7, <2>4, <2>5, <2>6, <2>7 DEF TypeOK
<1>9. PointsOK'  BY <1>1, ReleaseStep
<1>10. points \subseteq points'  BY <1>1 DEF Release
<1>11. /\ \A q \in Parties : Live(q)' => Live(q)
       /\ Live(p)'
  <2>1. Live(p)
    BY <1>1 DEF Release, validate_can_send, IndInv, ErasedIsEnded
  <2>2. Live(p)'
    BY <1>3, <1>4, <1>6, <2>1 DEF Live, Prefix, ZeroKey
  <2> QED BY <1>3, <1>6, <2>1, <2>2 DEF Live
<1>12. StateIsAPoint'
  <2> SUFFICES ASSUME NEW q \in Parties, Live(q)'
               PROVE  \E y \in points' : AtPoint(q, y)'
    BY DEF StateIsAPoint
  <2>1. CASE q = p
    <3>1. PICK y \in points' : y = NextPoint(p)  BY <1>5
    <3>2. /\ root_key'[p] = y.root
          /\ our_key_id'[p] = y.key[p]
          /\ send_count'[p] = y.sent[p]
      <4>1. y.root = r /\ y.key = [x.key EXCEPT ![p] = next_value]
            /\ y.sent = [x.sent EXCEPT ![p] = @ + 1]
        BY <3>1, <1>2, <1>5
      <4>2. root_key'[p] = r  BY <1>3, <1>6
      <4>3. our_key_id'[p] = next_value /\ send_count'[p] = x.sent[p] + 1
        BY <1>2 DEF Send, AtPoint, IndInv, TypeOK
      <4> QED BY <4>1, <4>2, <4>3, <1>3
    <3>3. /\ recv_count'[p] = y.sent[Peer(p)]
          /\ their_key_id'[p] = y.key[Peer(p)]
      BY <3>1, <1>1, <1>2, <1>3 DEF Send, AtPoint, Release, validate_can_send
    <3>4. AtPoint(p, y)'
      BY <3>2, <3>3 DEF AtPoint
    <3> QED BY <2>1, <3>4
  <2>2. CASE q # p
    <3>1. PICK y \in points : AtPoint(q, y)
      BY <1>11 DEF IndInv, StateIsAPoint
    <3>2. AtPoint(q, y)'
      BY <2>2, <3>1 DEF AtPoint, Send, IndInv, TypeOK
    <3> QED BY <3>2, <1>10
  <2> QED BY <2>1, <2>2
<1>13. NetOK'
  <2> SUFFICES ASSUME NEW m \in net' PROVE \E y \in points' : SentFrom(m, y)'
    BY DEF NetOK
  <2>1. CASE m \in net
    BY <2>1, <1>7, <1>10, <1>11, OldMessagesExplained
  <2>2. CASE m = OutgoingMessage(p)
    <3>1. m.from = p /\ m.sender_public_key = next_value /\ m.encapsulation = next_value
          /\ m.message_number = x.sent[p]
          /\ m.message_key = r
      BY <2>2, <1>2 DEF OutgoingMessage, AtPoint, r
    <3>2. SentFrom(m, x)'
      BY <2>2, <3>1, <1>2, <1>3, <1>4, <1>5, <1>6, LoadIsStable DEF SentFrom, r
    <3> QED BY <3>2, <1>10
  <2> QED BY <2>1, <2>2, <1>1 DEF Release
<1>14. ErasedIsEnded'
  BY <1>3, <1>6, <1>11 DEF Send, ErasedIsEnded, Live, IndInv, TypeOK
<1> QED BY <1>8, <1>9, <1>12, <1>13, <1>14 DEF IndInv

(* A ratchet_send whose blob is lost preserves IndInv.                     *)
LEMMA SendUnsavedInductive ==
    ASSUME IndInv, NEW p \in Parties, SendUnsaved(p), UNCHANGED <<wasm, turns>>
    PROVE  IndInv'
<1>1. Release(p) /\ UNCHANGED party  BY DEF SendUnsaved
<1>2. PICK x \in points :
        /\ AtPoint(p, x)
        /\ OutgoingMessage(p).recipient_key_id = x.key[Peer(p)]
        /\ NextPoint(p) = [root |-> OutgoingMessage(p).message_key,
                           key  |-> [x.key EXCEPT ![p] = next_value],
                           sent |-> [x.sent EXCEPT ![p] = @ + 1]]
  BY <1>1, ReleaseStep
<1>3. NextPoint(p) \in points' /\ points \subseteq points'
  BY <1>1, ReleaseStep DEF Release
<1>4. TypeOK'
  <2>1. net' \subseteq Message /\ next_value' \in Nat
        /\ points' \subseteq [root : Seq(Nat), key : [Parties -> Nat], sent : [Parties -> Nat]]
    BY <1>1, ReleaseStep
  <2> QED BY <2>1, <1>1 DEF party, IndInv, TypeOK
<1>5. PointsOK'  BY <1>1, ReleaseStep
<1>6. StateIsAPoint'
  <2> SUFFICES ASSUME NEW q \in Parties, Live(q)'
               PROVE  \E y \in points' : AtPoint(q, y)'
    BY DEF StateIsAPoint
  <2>1. PICK y \in points : AtPoint(q, y)
    BY <1>1 DEF IndInv, StateIsAPoint, Live, party
  <2>2. AtPoint(q, y)'
    BY <2>1, <1>1 DEF AtPoint, party
  <2> QED BY <2>2, <1>3
<1>7. root_key' \in [Parties -> Seq(Nat)]
      /\ \A q \in Parties : Live(q)' => Live(q) /\ Prefix(root_key[q], root_key'[q])
  BY <1>1, PrefixReflexive DEF party, Live, IndInv, TypeOK
<1>8. NetOK'
  <2> SUFFICES ASSUME NEW m \in net' PROVE \E y \in points' : SentFrom(m, y)'
    BY DEF NetOK
  <2>1. CASE m \in net
    BY <2>1, <1>3, <1>7, OldMessagesExplained
  <2>2. CASE m = OutgoingMessage(p)
    <3>1. m.from = p /\ m.sender_public_key = next_value /\ m.encapsulation = next_value
          /\ m.message_number = x.sent[p]
          /\ m.message_key = kdf_rk(LoadedRoot(p, x.root), next_value)
      BY <2>2, <1>2 DEF OutgoingMessage, AtPoint
    <3>2. Prefix(x.root, root_key'[p])
      BY <1>1, <1>2, PrefixReflexive DEF AtPoint, party, IndInv, TypeOK
    <3>3. SentFrom(m, x)'
      BY <2>2, <3>1, <3>2, <1>2, <1>3, LoadIsStable DEF SentFrom
    <3> QED BY <3>3, <1>3
  <2> QED BY <2>1, <2>2, <1>1 DEF Release
<1>9. ErasedIsEnded'
  BY <1>1 DEF IndInv, ErasedIsEnded, Live, party
<1> QED BY <1>4, <1>5, <1>6, <1>8, <1>9 DEF IndInv

(* receive_message preserves IndInv.                                       *)
LEMMA ReceiveInductive ==
    ASSUME IndInv, NEW p \in Parties, Receive(p), UNCHANGED <<wasm, turns>>
    PROVE  IndInv'
<1>1. PICK m \in net :
        /\ Deliverable(p, m)
        /\ Decrypts(p, m)
        /\ root_key' = [root_key EXCEPT ![p] = kdf_rk(LoadedRoot(p, @), m.encapsulation)]
        /\ their_key_id' = [their_key_id EXCEPT ![p] = m.sender_public_key]
        /\ recv_count' = [recv_count EXCEPT ![p] = set_recv_count(m.message_number)]
        /\ status' = [status EXCEPT ![p] = "Active"]
        /\ previous_keypairs' = [previous_keypairs EXCEPT ![p] = LoadedPrevious(p)]
        /\ UNCHANGED <<our_key_id, send_count, net, next_value, points>>
  BY DEF Receive
<1>2. m.from = Peer(p) /\ Live(p)
  BY <1>1 DEF Deliverable, validate_can_receive, IndInv, ErasedIsEnded
<1>3. PICK x \in points : AtPoint(p, x) /\ SentFrom(m, x)
  BY <1>1, <1>2, AcceptedAtItsPoint
<1>4. /\ m \in Message /\ m.encapsulation \in Nat /\ m.sender_public_key \in Nat
      /\ m.message_number \in Nat /\ m.message_key \in Seq(Nat)
      /\ x.key \in [Parties -> Nat] /\ x.sent \in [Parties -> Nat]
      /\ root_key \in [Parties -> Seq(Nat)]
      /\ Peer(p) \in Parties /\ Peer(p) # p
  BY <1>3, PeerFacts DEF IndInv, TypeOK, Message
<1>5. root_key' = [root_key EXCEPT ![p] = m.message_key]
  BY <1>1, <1>4 DEF Decrypts
<1>6. root_key' \in [Parties -> Seq(Nat)]
      /\ \A q \in Parties : Prefix(root_key[q], root_key'[q])
  <2>1. Prefix(root_key[p], m.message_key)
    <3>1. kdf_rk(LoadedRoot(p, root_key[p]), m.encapsulation) = m.message_key
      BY <1>1 DEF Decrypts
    <3>2. root_key[p] \in Seq(Nat)  BY <1>4
    <3>3. Extends(root_key[p], m.encapsulation,
                  kdf_rk(LoadedRoot(p, root_key[p]), m.encapsulation))
      BY <3>2, <1>4, ChainStep
    <3> QED BY <3>1, <3>3 DEF Extends
  <2> QED BY <2>1, <1>4, <1>5, PrefixReflexive
<1>11. \A q \in Parties : Live(q)' => Live(q)
  BY <1>2, <1>4, <1>5 DEF Live
<1>12. ErasedIsEnded'
  <2>1. Live(p)'
    BY <1>2, <1>4, <1>6 DEF Live, Prefix, ZeroKey
  <2> QED BY <2>1, <1>1, <1>4, <1>5 DEF ErasedIsEnded, Live, IndInv, TypeOK
<1>7. TypeOK'
  <2>1. LoadedPrevious(p) \in Seq(Nat)
        /\ Len(LoadedPrevious(p)) <= MAX_PREVIOUS_KEYPAIRS
    <3>1. Len(<<>>) <= MAX_PREVIOUS_KEYPAIRS  BY LimitsAssumption
    <3> QED BY <3>1 DEF LoadedPrevious, IndInv, TypeOK
  <2>2. previous_keypairs' \in [Parties -> Seq(Nat)]
        /\ \A q \in Parties : Len(previous_keypairs'[q]) <= MAX_PREVIOUS_KEYPAIRS
    BY <1>1, <2>1 DEF IndInv, TypeOK
  <2>3. recv_count' \in [Parties -> Nat] /\ their_key_id' \in [Parties -> Nat]
        /\ status' \in [Parties -> RatchetStatus]
    <3>1. set_recv_count(m.message_number) \in Nat  BY <1>4 DEF set_recv_count
    <3>2. recv_count' \in [Parties -> Nat]  BY <1>1, <3>1 DEF IndInv, TypeOK
    <3>3. their_key_id' \in [Parties -> Nat]  BY <1>1, <1>4 DEF IndInv, TypeOK
    <3>4. status' \in [Parties -> RatchetStatus]
      BY <1>1 DEF IndInv, TypeOK, RatchetStatus
    <3> QED BY <3>2, <3>3, <3>4
  <2> QED BY <1>1, <1>6, <2>2, <2>3 DEF IndInv, TypeOK
<1>8. PointsOK'
  BY <1>1 DEF IndInv, PointsOK
<1>9. StateIsAPoint'
  <2> SUFFICES ASSUME NEW q \in Parties, Live(q)'
               PROVE  \E y \in points' : AtPoint(q, y)'
    BY DEF StateIsAPoint
  <2>1. CASE q = p
    <3>1. PICK y \in points :
             y = [root |-> m.message_key,
                  key  |-> [x.key EXCEPT ![m.from] = m.sender_public_key],
                  sent |-> [x.sent EXCEPT ![m.from] = @ + 1]]
      BY <1>3 DEF SentFrom
    <3>2. /\ y.root = m.message_key
          /\ y.key[p] = x.key[p] /\ y.key[Peer(p)] = m.sender_public_key
          /\ y.sent[p] = x.sent[p] /\ y.sent[Peer(p)] = x.sent[Peer(p)] + 1
      BY <3>1, <1>2, <1>4
    <3>3. root_key'[p] = y.root  BY <3>2, <1>4, <1>5
    <3>4. our_key_id'[p] = y.key[p] /\ send_count'[p] = y.sent[p]
      BY <3>2, <1>1, <1>3 DEF AtPoint
    <3>5. recv_count'[p] = y.sent[Peer(p)] /\ their_key_id'[p] = y.key[Peer(p)]
      BY <3>2, <1>1, <1>2, <1>3 DEF SentFrom, set_recv_count, IndInv, TypeOK
    <3>6. AtPoint(p, y)'  BY <3>3, <3>4, <3>5 DEF AtPoint
    <3> QED BY <2>1, <3>6, <1>1
  <2>2. CASE q # p
    <3>1. PICK y \in points : AtPoint(q, y)
      BY <2>2, <1>1 DEF IndInv, StateIsAPoint, Live, TypeOK
    <3>2. AtPoint(q, y)'
      BY <2>2, <3>1, <1>1 DEF AtPoint, IndInv, TypeOK
    <3> QED BY <3>2, <1>1
  <2> QED BY <2>1, <2>2
<1>10. NetOK'
  <2> SUFFICES ASSUME NEW n \in net PROVE \E y \in points' : SentFrom(n, y)'
    BY <1>1 DEF NetOK
  <2> QED BY <1>1, <1>6, <1>11, OldMessagesExplained
<1> QED BY <1>7, <1>8, <1>9, <1>10, <1>12 DEF IndInv

(* mark_compromised and zeroize preserve IndInv.                           *)
LEMMA EndInductive ==
    ASSUME IndInv, NEW p \in Parties, MarkCompromised(p) \/ Zeroize(p), UNCHANGED <<wasm, turns>>
    PROVE  IndInv'
<1>1. /\ UNCHANGED <<our_key_id, their_key_id, net, next_value, points>>
      /\ \A q \in Parties : Live(q)' =>
            /\ Live(q)
            /\ root_key'[q] = root_key[q]
            /\ send_count'[q] = send_count[q]
            /\ recv_count'[q] = recv_count[q]
  BY DEF MarkCompromised, Zeroize, Live, IndInv, TypeOK
<1>2. TypeOK'
  <2>1. ZeroKey \in Seq(Nat) /\ <<>> \in Seq(Nat) /\ Len(<<>>) <= MAX_PREVIOUS_KEYPAIRS
    BY LimitsAssumption DEF ZeroKey
  <2>2. CASE MarkCompromised(p)
    BY <2>2 DEF MarkCompromised, IndInv, TypeOK, RatchetStatus
  <2>3. CASE Zeroize(p)
    <3>1. previous_keypairs' \in [Parties -> Seq(Nat)]
          /\ \A q \in Parties : Len(previous_keypairs'[q]) <= MAX_PREVIOUS_KEYPAIRS
      BY <2>1, <2>3 DEF Zeroize, IndInv, TypeOK
    <3>2. root_key' \in [Parties -> Seq(Nat)] /\ send_count' \in [Parties -> Nat]
          /\ recv_count' \in [Parties -> Nat] /\ status' \in [Parties -> RatchetStatus]
      BY <2>1, <2>3 DEF Zeroize, IndInv, TypeOK, RatchetStatus
    <3> QED BY <3>1, <3>2, <1>1 DEF IndInv, TypeOK
  <2> QED BY <2>2, <2>3
<1>3. PointsOK'
  BY <1>1 DEF IndInv, PointsOK
<1>4. StateIsAPoint'
  <2> SUFFICES ASSUME NEW q \in Parties, Live(q)'
               PROVE  \E y \in points : AtPoint(q, y)'
    BY <1>1 DEF StateIsAPoint
  <2>1. PICK y \in points : AtPoint(q, y)
    BY <1>1 DEF IndInv, StateIsAPoint
  <2>2. AtPoint(q, y)'
    BY <2>1, <1>1 DEF AtPoint
  <2> QED BY <2>2
<1>5. NetOK'
  <2> SUFFICES ASSUME NEW n \in net PROVE \E y \in points' : SentFrom(n, y)'
    BY <1>1 DEF NetOK
  <2>1. \A q \in Parties : Live(q)' => Live(q) /\ Prefix(root_key[q], root_key'[q])
    BY <1>1, PrefixReflexive DEF IndInv, TypeOK
  <2> QED BY <1>1, <1>2, <2>1, OldMessagesExplained DEF TypeOK
<1>6. ErasedIsEnded'
  BY DEF MarkCompromised, Zeroize, ErasedIsEnded, Live, IndInv, TypeOK
<1> QED BY <1>2, <1>3, <1>4, <1>5, <1>6 DEF IndInv

(* A step that changes nothing preserves IndInv.                           *)
LEMMA StutterInductive ==
    ASSUME IndInv, UNCHANGED vars
    PROVE  IndInv'
<1>1. TypeOK'  BY DEF vars, IndInv, TypeOK
<1>2. PointsOK'  BY DEF vars, IndInv, PointsOK
<1>3. StateIsAPoint'
  <2>1. \A q \in Parties, y \in points : AtPoint(q, y)' <=> AtPoint(q, y)
    BY DEF vars, AtPoint
  <2> QED BY <2>1 DEF vars, IndInv, StateIsAPoint, Live
<1>4. NetOK'
  <2>1. \A n \in net, y \in points : SentFrom(n, y)' <=> SentFrom(n, y)
    BY LoadIsStable DEF vars, SentFrom, Live
  <2> QED BY <2>1 DEF vars, IndInv, NetOK
<1>5. ErasedIsEnded'
  BY DEF vars, IndInv, ErasedIsEnded, Live
<1> QED BY <1>1, <1>2, <1>3, <1>4, <1>5 DEF IndInv

(* Every state of the specification satisfies the inductive invariant.     *)
THEOREM IndInvHolds == Spec => []IndInv
<1>1. Init => IndInv  BY InitIndInv
<1>2. IndInv /\ [Next]_vars => IndInv'
  <2> SUFFICES ASSUME IndInv, [Next]_vars PROVE IndInv'
    OBVIOUS
  <2>1. CASE UNCHANGED vars  BY <2>1, StutterInductive
  <2>2. ASSUME UNCHANGED <<wasm, turns>>, NEW p \in Parties, Send(p) PROVE IndInv'
    BY <2>2, SendInductive
  <2>3. ASSUME UNCHANGED <<wasm, turns>>, NEW p \in Parties, SendUnsaved(p) PROVE IndInv'
    BY <2>3, SendUnsavedInductive
  <2>4. ASSUME UNCHANGED <<wasm, turns>>, NEW p \in Parties, Receive(p) PROVE IndInv'
    BY <2>4, ReceiveInductive
  <2>5. ASSUME UNCHANGED <<wasm, turns>>, NEW p \in Parties, MarkCompromised(p) \/ Zeroize(p)
        PROVE  IndInv'
    BY <2>5, EndInductive
  <2> QED BY <2>1, <2>2, <2>3, <2>4, <2>5 DEF Next
<1> QED BY <1>1, <1>2, PTL DEF Spec
-----------------------------------------------------------------------------
(* The state keeps its type, the retention limit included.                 *)
THEOREM TypeCorrect == Spec => []TypeOK
BY IndInvHolds, PTL DEF IndInv

(* The fields of a live party always belong to one session state that the  *)
(* handshake or a send created.                                            *)
THEOREM StateIsAlwaysAPoint == Spec => []StateIsAPoint
BY IndInvHolds, PTL DEF IndInv

(* Equal root keys mean equal views of the session.                        *)
THEOREM SyncedEndsAgree == Spec => []SyncedAgree
<1>1. IndInv => SyncedAgree
  <2> SUFFICES ASSUME IndInv, \A p \in Parties : Live(p),
                      root_key[Initiator] = root_key[Responder],
                      NEW p \in Parties
               PROVE  /\ send_count[p] = recv_count[Peer(p)]
                      /\ \/ their_key_id[p] = our_key_id[Peer(p)]
                         \/ their_key_id[p] = NoPeerKey /\ p = Responder /\ recv_count[p] = 0
    BY DEF SyncedAgree
  <2>1. Peer(p) \in Parties /\ Peer(Peer(p)) = p  BY PeerFacts
  <2>2. root_key[p] = root_key[Peer(p)]
    BY DEF Peer, Parties
  <2>3. PICK x \in points : AtPoint(p, x)
    BY DEF IndInv, StateIsAPoint
  <2>4. PICK y \in points : AtPoint(Peer(p), y)
    BY <2>1 DEF IndInv, StateIsAPoint
  <2>5. x = y
    BY <2>2, <2>3, <2>4 DEF AtPoint, IndInv, PointsOK
  <2> QED BY <2>1, <2>3, <2>4, <2>5 DEF AtPoint
<1> QED BY <1>1, IndInvHolds, PTL

(* No retained keypair ever opens a message.                               *)
THEOREM RetainedKeypairsOpenNothing == Spec => []OnlyCurrentKeypairDecrypts
<1>1. IndInv => OnlyCurrentKeypairDecrypts
  <2> SUFFICES ASSUME IndInv, NEW p \in Parties, NEW m \in net,
                      Deliverable(p, m), Decrypts(p, m)
               PROVE  m.recipient_key_id = our_key_id[p]
    BY DEF OnlyCurrentKeypairDecrypts
  <2>1. m.from = Peer(p) /\ Live(p)
    BY DEF Deliverable, validate_can_receive, IndInv, ErasedIsEnded
  <2>2. PICK x \in points : AtPoint(p, x) /\ SentFrom(m, x)
    BY <2>1, AcceptedAtItsPoint
  <2> QED BY <2>1, <2>2, PeerFacts DEF AtPoint, SentFrom
<1> QED BY <1>1, IndInvHolds, PTL

(* A native end and a wasm end never exchange a message.                   *)
THEOREM MixedPairStaysMute == Spec => []MixedPairIsMute
<1>1. Init => MixedPairIsMute
  BY DEF Init, MixedPairIsMute
<1>2. IndInv /\ MixedPairIsMute /\ [Next]_vars => MixedPairIsMute'
  <2> SUFFICES ASSUME IndInv, MixedPairIsMute, [Next]_vars,
                      wasm' # {}, wasm' # Parties, NEW q \in Parties
               PROVE  recv_count'[q] = 0
    BY DEF MixedPairIsMute
  <2>0. wasm' = wasm /\ wasm \subseteq Parties
    BY DEF Next, vars, IndInv, TypeOK
  <2>1. recv_count[q] = 0 /\ recv_count \in [Parties -> Nat]
    BY <2>0 DEF MixedPairIsMute, IndInv, TypeOK
  <2>2. CASE UNCHANGED vars  BY <2>1, <2>2 DEF vars
  <2>3. ASSUME NEW p \in Parties,
               Send(p) \/ SendUnsaved(p) \/ MarkCompromised(p) \/ Zeroize(p)
        PROVE  recv_count'[q] = 0
    BY <2>1, <2>3 DEF Send, SendUnsaved, MarkCompromised, Zeroize, party
  <2>4. ASSUME NEW p \in Parties, Receive(p) PROVE FALSE
    <3>1. PICK m \in net : Deliverable(p, m) /\ Decrypts(p, m)
      BY <2>4 DEF Receive
    <3>2. m.from = Peer(p) /\ Live(p)
      BY <3>1 DEF Deliverable, validate_can_receive, IndInv, ErasedIsEnded
    <3>3. p \in wasm <=> Peer(p) \in wasm
      BY <3>1, <3>2, AcceptedAtItsPoint
    <3> QED BY <2>0, <3>3, PeerFacts
  <2> QED BY <2>2, <2>3, <2>4 DEF Next
<1> QED BY <1>1, <1>2, IndInvHolds, PTL DEF Spec

(* Once the root keys of the two ends have parted they stay apart and      *)
(* nothing is accepted again.                                              *)
THEOREM DivergedForGood == Spec => DivergenceIsFinal
<1>1. IndInv /\ [Next]_vars => [Diverged /\ (\A p \in Parties : Live(p)')
                                  => Diverged' /\ recv_count' = recv_count]_vars
  <2> SUFFICES ASSUME IndInv, Next, Diverged, \A p \in Parties : Live(p)'
               PROVE  Diverged' /\ recv_count' = recv_count
    OBVIOUS
  <2>1. Initiator \in Parties /\ Responder \in Parties /\ Initiator # Responder
    BY PartiesAssumption DEF Parties
  <2>2. ASSUME NEW s \in Seq(Nat), NEW t \in Seq(Nat), NEW u \in Seq(Nat),
               ~ Prefix(s, t), ~ Prefix(t, s), Prefix(t, u)
        PROVE  ~ Prefix(s, u) /\ ~ Prefix(u, s)
    <3>1. Len(s) \in Nat /\ Len(t) \in Nat /\ Len(u) \in Nat  BY LenProperties
    <3>2. ~ Prefix(s, u)
      <4>1. CASE Len(s) <= Len(t)
        <5>1. PICK i \in 1 .. Len(s) : s[i] # t[i]  BY <2>2, <4>1 DEF Prefix
        <5>2. i \in 1 .. Len(t)  BY <3>1, <4>1
        <5>3. u[i] = t[i]  BY <2>2, <5>2 DEF Prefix
        <5> QED BY <5>1, <5>3 DEF Prefix
      <4>2. CASE Len(t) < Len(s)
        <5>1. PICK i \in 1 .. Len(t) : t[i] # s[i]  BY <2>2, <3>1, <4>2 DEF Prefix
        <5>2. i \in 1 .. Len(s)  BY <3>1, <4>2
        <5>3. u[i] = t[i]  BY <2>2 DEF Prefix
        <5> QED BY <5>1, <5>2, <5>3 DEF Prefix
      <4> QED BY <4>1, <4>2, <3>1
    <3>3. ~ Prefix(u, s)  BY <2>2, PrefixTransitive
    <3> QED BY <3>2, <3>3
  <2>3. root_key \in [Parties -> Seq(Nat)]  BY DEF IndInv, TypeOK
  <2>4. ASSUME NEW p \in Parties, Send(p)
        PROVE  Diverged' /\ recv_count' = recv_count
    <3>1. next_value \in Nat /\ root_key[p] \in Seq(Nat)  BY DEF IndInv, TypeOK
    <3>2. Extends(root_key[p], next_value, kdf_rk(LoadedRoot(p, root_key[p]), next_value))
      BY <3>1, ChainStep
    <3> DEFINE r == kdf_rk(LoadedRoot(p, root_key[p]), next_value)
    <3>3. r \in Seq(Nat) /\ Prefix(root_key[p], r)  BY <3>2 DEF Extends
    <3>4. root_key' = [root_key EXCEPT ![p] = r]  BY <2>3, <2>4 DEF Send
    <3> HIDE DEF r
    <3>5. CASE p = Initiator
      <4>1. root_key'[Initiator] = r /\ root_key'[Responder] = root_key[Responder]
        BY <2>1, <2>3, <3>4, <3>5
      <4>2. ~ Prefix(root_key[Responder], r) /\ ~ Prefix(r, root_key[Responder])
        BY <2>1, <2>2, <2>3, <3>3, <3>5 DEF Diverged
      <4> QED BY <4>1, <4>2, <2>4 DEF Diverged, Send
    <3>6. CASE p = Responder
      <4>1. root_key'[Responder] = r /\ root_key'[Initiator] = root_key[Initiator]
        BY <2>1, <2>3, <3>4, <3>6
      <4>2. ~ Prefix(root_key[Initiator], r) /\ ~ Prefix(r, root_key[Initiator])
        BY <2>1, <2>2, <2>3, <3>3, <3>6 DEF Diverged
      <4> QED BY <4>1, <4>2, <2>4 DEF Diverged, Send
    <3> QED BY <3>5, <3>6 DEF Parties
  <2>5. ASSUME NEW p \in Parties, Receive(p) PROVE FALSE
    <3>1. PICK m \in net : Deliverable(p, m) /\ Decrypts(p, m)
      BY <2>5 DEF Receive
    <3>2. m.from = Peer(p) /\ Live(p) /\ Live(Peer(p)) /\ Peer(p) \in Parties
      BY <3>1, PeerFacts DEF Deliverable, Diverged
    <3>3. PICK x \in points : AtPoint(p, x) /\ SentFrom(m, x)
      BY <3>1, <3>2, AcceptedAtItsPoint
    <3>4. Prefix(root_key[p], root_key[Peer(p)])
      BY <3>2, <3>3 DEF AtPoint, SentFrom
    <3> QED BY <3>4 DEF Diverged, Peer, Parties
  <2>6. ASSUME NEW p \in Parties, SendUnsaved(p) \/ MarkCompromised(p)
        PROVE  Diverged' /\ recv_count' = recv_count
    BY <2>6 DEF SendUnsaved, MarkCompromised, party, Diverged
  <2>7. ASSUME NEW p \in Parties, Zeroize(p) PROVE FALSE
    BY <2>7 DEF Zeroize, Live, IndInv, TypeOK
  <2> QED BY <2>4, <2>5, <2>6, <2>7 DEF Next
<1> QED BY <1>1, IndInvHolds, PTL DEF Spec, DivergenceIsFinal
-----------------------------------------------------------------------------
(* Between hosts that take turns at most one end has messages in flight;   *)
(* they are numbered without a gap from what the other end expects next,   *)
(* the first is keyed from the root key of the end that expects it, each   *)
(* other from the one before it, and the last leaves the sender where it   *)
(* is.                                                                     *)
SentUnder(m, root) == m.message_key = kdf_rk(LoadedRoot(m.from, root), m.encapsulation)
AfterTheOneBefore(m) ==
    \E n \in net : /\ n.from = m.from /\ n.message_number = m.message_number - 1
                   /\ SentUnder(m, n.message_key)
LastSent(p) ==
    \E n \in net : /\ n.from = p /\ n.message_number = send_count[p] - 1
                   /\ n.message_key = root_key[p]
TurnInv ==
    /\ wasm \in {{}, Parties}
    /\ \A p \in Parties : send_count[p] >= recv_count[Peer(p)]
    /\ \E p \in Parties : recv_count[p] = send_count[Peer(p)]
    /\ (\A p \in Parties : recv_count[p] = send_count[Peer(p)]) =>
          root_key[Initiator] = root_key[Responder]
    /\ \A m, n \in net : m.from = n.from /\ m.message_number = n.message_number => m = n
    /\ \A m \in net :
          /\ m.message_number < send_count[m.from]
          /\ m.message_number = recv_count[Peer(m.from)] =>
                SentUnder(m, root_key[Peer(m.from)])
          /\ m.message_number > recv_count[Peer(m.from)] => AfterTheOneBefore(m)
    /\ \A p \in Parties : send_count[p] > recv_count[Peer(p)] => LastSent(p)

(* A load does the same at both ends of a pair of one kind.                *)
LEMMA SameLoad ==
    ASSUME wasm \in {{}, Parties}, NEW p \in Parties
    PROVE  \A r : LoadedRoot(p, r) = LoadedRoot(Peer(p), r)
BY PeerFacts DEF LoadedRoot

LEMMA TurnSend ==
    ASSUME TypeOK, TurnInv, NEW p \in Parties, recv_count[p] = send_count[Peer(p)], Send(p),
           UNCHANGED <<wasm, turns>>
    PROVE  TurnInv'
<1> PICK q : q = Peer(p)
  OBVIOUS
<1>1. q \in Parties /\ p # q /\ Peer(q) = p /\ \A o \in Parties : o = p \/ o = q
  BY PeerFacts
<1> PICK k : k = OutgoingMessage(p)
  OBVIOUS
<1> PICK r : r = kdf_rk(LoadedRoot(p, root_key[p]), next_value)
  OBVIOUS
<1>2. /\ k.from = p /\ k.message_number = send_count[p] /\ k.encapsulation = next_value
      /\ k.message_key = r
  BY DEF OutgoingMessage
<1>3. /\ net' = net \cup {k} /\ recv_count' = recv_count
      /\ root_key'[p] = r /\ root_key'[q] = root_key[q]
      /\ send_count'[p] = send_count[p] + 1 /\ send_count'[q] = send_count[q]
  BY <1>1 DEF Send, Release, TypeOK
<1>4. /\ send_count[p] \in Nat /\ send_count[q] \in Nat
      /\ recv_count[p] \in Nat /\ recv_count[q] \in Nat
      /\ recv_count[p] = send_count[q] /\ send_count[p] >= recv_count[q]
  BY <1>1 DEF TypeOK, TurnInv
<1>5. \A m \in net : m.from \in Parties /\ m.message_number \in Nat
  BY DEF TypeOK, Message
<1>6. \A m, root : SentUnder(m, root)' <=> SentUnder(m, root)
  BY LoadIsStable DEF SentUnder
<1>7. SentUnder(k, root_key[p])
  BY <1>2 DEF SentUnder
<1>8. \A m \in net : m.from = p => m.message_number < send_count[p]
  BY DEF TurnInv
<1>9. \A m, n \in net' : m.from = n.from /\ m.message_number = n.message_number => m = n
  BY <1>2, <1>3, <1>4, <1>8 DEF TurnInv
<1>10. ASSUME NEW m \in net
       PROVE  /\ (m.message_number < send_count[m.from])'
              /\ (m.message_number = recv_count[Peer(m.from)])' =>
                    SentUnder(m, root_key'[Peer(m.from)])
              /\ (m.message_number > recv_count[Peer(m.from)])' => AfterTheOneBefore(m)'
  <2>1. /\ m.message_number < send_count[m.from]
        /\ m.message_number = recv_count[Peer(m.from)] =>
              SentUnder(m, root_key[Peer(m.from)])
        /\ m.message_number > recv_count[Peer(m.from)] => AfterTheOneBefore(m)
    BY DEF TurnInv
  <2>2. (m.message_number < send_count[m.from])'
    BY <1>1, <1>3, <1>4, <1>5, <2>1
  <2>3. m.from = q => m.message_number < recv_count[p]
    BY <1>4, <2>1
  <2>4. AfterTheOneBefore(m) => AfterTheOneBefore(m)'
    BY <1>3, <1>6 DEF AfterTheOneBefore
  <2>5. CASE m.from = p
    BY <1>3, <2>1, <2>2, <2>4, <2>5
  <2>6. CASE m.from = q
    BY <1>1, <1>3, <1>4, <1>5, <2>2, <2>3, <2>6
  <2> QED BY <1>1, <1>5, <2>5, <2>6
<1>11. /\ k.message_number < send_count'[p]
       /\ k.message_number = recv_count[q] => SentUnder(k, root_key'[q])
       /\ k.message_number > recv_count[q] => AfterTheOneBefore(k)'
  <2>1. CASE send_count[p] = recv_count[q]
    <3>1. root_key[p] = root_key[q]
      <4>1. \A o \in Parties : recv_count[o] = send_count[Peer(o)]
        BY <1>1, <1>4, <2>1
      <4>2. root_key[Initiator] = root_key[Responder]
        BY <4>1 DEF TurnInv
      <4> QED BY <4>2 DEF Peer, Parties
    <3> QED BY <1>2, <1>3, <1>4, <1>7, <2>1, <3>1
  <2>2. CASE send_count[p] > recv_count[q]
    <3>1. PICK n \in net : /\ n.from = p /\ n.message_number = send_count[p] - 1
                           /\ n.message_key = root_key[p]
      BY <2>2 DEF TurnInv, LastSent
    <3>2. AfterTheOneBefore(k)'
      BY <1>2, <1>3, <1>6, <1>7, <3>1 DEF AfterTheOneBefore
    <3> QED BY <1>2, <1>3, <1>4, <2>2, <3>2
  <2> QED BY <1>4, <2>1, <2>2
<1>12. \A m \in net' :
          /\ m.message_number < send_count'[m.from]
          /\ m.message_number = recv_count'[Peer(m.from)] =>
                SentUnder(m, root_key[Peer(m.from)])'
          /\ m.message_number > recv_count'[Peer(m.from)] => AfterTheOneBefore(m)'
  <2>1. ASSUME NEW m \in net'
        PROVE  /\ m.message_number < send_count'[m.from]
               /\ m.message_number = recv_count'[Peer(m.from)] =>
                     SentUnder(m, root_key'[Peer(m.from)])
               /\ m.message_number > recv_count'[Peer(m.from)] => AfterTheOneBefore(m)'
    BY <1>2, <1>3, <1>10, <1>11
  <2>2. \A m, root : SentUnder(m, root) => m.message_key = kdf_rk(LoadedRoot(m.from, root), m.encapsulation)
    BY DEF SentUnder
  <2>3. \A m, root : LoadedRoot(m.from, root)' = LoadedRoot(m.from, root)
    BY LoadIsStable
  <2> QED BY <2>1, <2>2, <2>3 DEF SentUnder
<1>13. \A o \in Parties : (send_count[o] > recv_count[Peer(o)])' => LastSent(o)'
  <2>1. LastSent(p)'
    BY <1>2, <1>3, <1>4 DEF LastSent
  <2>2. ~ (send_count[q] > recv_count[p])
    BY <1>4
  <2> QED BY <1>1, <1>3, <2>1, <2>2
<1>14. (\E o \in Parties : recv_count[o] = send_count[Peer(o)])'
  BY <1>3, <1>4
<1>15. (\A o \in Parties : send_count[o] >= recv_count[Peer(o)])'
  BY <1>1, <1>3, <1>4
<1>16. ~ (\A o \in Parties : recv_count[o] = send_count[Peer(o)])'
  BY <1>1, <1>3, <1>4
<1>17. wasm' \in {{}, Parties}
  BY DEF TurnInv
<1> QED BY <1>9, <1>12, <1>13, <1>14, <1>15, <1>16, <1>17 DEF TurnInv

LEMMA TurnReceive ==
    ASSUME TypeOK, TurnInv, NEW p \in Parties, Receive(p), UNCHANGED <<wasm, turns>>
    PROVE  TurnInv'
<1> PICK q : q = Peer(p)
  OBVIOUS
<1>1. q \in Parties /\ p # q /\ Peer(q) = p /\ \A o \in Parties : o = p \/ o = q
  BY PeerFacts
<1>2. PICK k \in net :
        /\ Deliverable(p, k)
        /\ Decrypts(p, k)
        /\ root_key' = [root_key EXCEPT ![p] = kdf_rk(LoadedRoot(p, @), k.encapsulation)]
        /\ recv_count' = [recv_count EXCEPT ![p] = set_recv_count(k.message_number)]
        /\ UNCHANGED <<send_count, net>>
  BY DEF Receive
<1>3. k.from = q /\ k.message_number = recv_count[p] /\ k.message_number \in Nat
  BY <1>2 DEF Deliverable, TypeOK, Message
<1>4. /\ root_key'[p] = k.message_key /\ root_key'[q] = root_key[q]
      /\ recv_count'[p] = recv_count[p] + 1 /\ recv_count'[q] = recv_count[q]
      /\ send_count' = send_count /\ net' = net
  BY <1>1, <1>2, <1>3 DEF TypeOK, Decrypts, set_recv_count
<1>5. /\ send_count[p] \in Nat /\ send_count[q] \in Nat
      /\ recv_count[p] \in Nat /\ recv_count[q] \in Nat
  BY <1>1 DEF TypeOK
<1>6. recv_count[p] < send_count[q]
  BY <1>2, <1>3 DEF TurnInv
<1>7. recv_count[q] = send_count[p]
  <2>1. PICK o \in Parties : recv_count[o] = send_count[Peer(o)]
    BY DEF TurnInv
  <2>2. o # p
    BY <1>5, <1>6, <2>1
  <2> QED BY <1>1, <2>1, <2>2
<1>8. \A m \in net : m.from \in Parties /\ m.message_number \in Nat
  BY DEF TypeOK, Message
<1>9. \A m, root : SentUnder(m, root)' <=> SentUnder(m, root)
  BY LoadIsStable DEF SentUnder
<1>10. ASSUME NEW m \in net
       PROVE  /\ (m.message_number < send_count[m.from])'
              /\ m.message_number = recv_count'[Peer(m.from)] =>
                    SentUnder(m, root_key'[Peer(m.from)])
              /\ m.message_number > recv_count'[Peer(m.from)] => AfterTheOneBefore(m)'
  <2>1. /\ m.message_number < send_count[m.from]
        /\ m.message_number > recv_count[Peer(m.from)] => AfterTheOneBefore(m)
    BY DEF TurnInv
  <2>2. AfterTheOneBefore(m) => AfterTheOneBefore(m)'
    BY <1>4, <1>9 DEF AfterTheOneBefore
  <2>3. CASE m.from = p
    BY <1>1, <1>4, <1>5, <1>7, <1>8, <2>1, <2>3
  <2>4. CASE m.from = q /\ m.message_number = recv_count[p] + 1
    <3>1. AfterTheOneBefore(m)
      BY <1>1, <1>5, <2>1, <2>4
    <3>2. PICK n \in net : /\ n.from = q /\ n.message_number = m.message_number - 1
                           /\ SentUnder(m, n.message_key)
      BY <2>4, <3>1 DEF AfterTheOneBefore
    <3>3. n.message_number = k.message_number
      BY <1>3, <1>5, <2>4, <3>2
    <3>4. n = k
      BY <1>3, <3>2, <3>3 DEF TurnInv
    <3>5. SentUnder(m, root_key'[p])
      BY <1>4, <3>2, <3>4
    <3> QED BY <1>1, <1>4, <1>5, <2>1, <2>4, <3>5
  <2>5. CASE m.from = q /\ m.message_number # recv_count[p] + 1
    BY <1>1, <1>4, <1>5, <1>8, <2>1, <2>2, <2>5
  <2> QED BY <1>1, <1>8, <2>3, <2>4, <2>5
<1>11. \A m \in net' :
          /\ m.message_number < send_count'[m.from]
          /\ m.message_number = recv_count'[Peer(m.from)] =>
                SentUnder(m, root_key[Peer(m.from)])'
          /\ m.message_number > recv_count'[Peer(m.from)] => AfterTheOneBefore(m)'
  <2>1. ASSUME NEW m \in net'
        PROVE  /\ m.message_number < send_count'[m.from]
               /\ m.message_number = recv_count'[Peer(m.from)] =>
                     SentUnder(m, root_key'[Peer(m.from)])
               /\ m.message_number > recv_count'[Peer(m.from)] => AfterTheOneBefore(m)'
    BY <1>4, <1>10
  <2>2. \A m, root : SentUnder(m, root) => m.message_key = kdf_rk(LoadedRoot(m.from, root), m.encapsulation)
    BY DEF SentUnder
  <2>3. \A m, root : LoadedRoot(m.from, root)' = LoadedRoot(m.from, root)
    BY LoadIsStable
  <2> QED BY <2>1, <2>2, <2>3 DEF SentUnder
<1>12. PICK n \in net : /\ n.from = q /\ n.message_number = send_count[q] - 1
                        /\ n.message_key = root_key[q]
  BY <1>1, <1>5, <1>6 DEF TurnInv, LastSent
<1>13. \A o \in Parties : (send_count[o] > recv_count[Peer(o)])' => LastSent(o)'
  <2>1. LastSent(q)'
    BY <1>4, <1>12 DEF LastSent
  <2>2. ~ (send_count[p] > recv_count[q])
    BY <1>5, <1>7
  <2> QED BY <1>1, <1>4, <2>1, <2>2
<1>14. (\A o \in Parties : recv_count[o] = send_count[Peer(o)])' =>
          root_key'[Initiator] = root_key'[Responder]
  <2> SUFFICES ASSUME recv_count'[p] = send_count'[q]
               PROVE  root_key'[Initiator] = root_key'[Responder]
    OBVIOUS
  <2>1. n.message_number = k.message_number
    <3>1. recv_count[p] + 1 = send_count[q]
      BY <1>4
    <3>2. send_count[q] - 1 = recv_count[p]
      BY <1>5, <3>1
    <3> QED BY <1>3, <1>12, <3>2
  <2>2. n = k
    BY <1>3, <1>12, <2>1 DEF TurnInv
  <2>3. root_key'[p] = root_key'[q]
    BY <1>4, <1>12, <2>2
  <2> QED BY <2>3 DEF Peer, Parties
<1>15. (\E o \in Parties : recv_count[o] = send_count[Peer(o)])'
  BY <1>1, <1>4, <1>7
<1>16. (\A o \in Parties : send_count[o] >= recv_count[Peer(o)])'
  BY <1>1, <1>4, <1>5, <1>6, <1>7
<1>17. wasm' \in {{}, Parties} /\ \A m, o \in net' :
          m.from = o.from /\ m.message_number = o.message_number => m = o
  BY <1>4 DEF TurnInv
<1> QED BY <1>11, <1>13, <1>14, <1>15, <1>16, <1>17 DEF TurnInv

(* Between hosts that take turns, every message in flight whose turn it is *)
(* decrypts: send_message and receive_message move the root key, the       *)
(* counters and the message keys in step.                                  *)
THEOREM TurnTakersAlwaysRead == Spec => []TurnsAlwaysDecrypt
<1>1. Init => (turns => TurnInv)
  <2> SUFFICES ASSUME Init, turns PROVE TurnInv
    OBVIOUS
  <2>1. \A p \in Parties : Peer(p) \in Parties
    BY PeerFacts
  <2>2. /\ wasm \in {{}, Parties} /\ net = {} /\ root_key[Initiator] = root_key[Responder]
        /\ \A p \in Parties : send_count[p] = 0 /\ recv_count[p] = 0
    BY DEF Init, Parties
  <2>3. Initiator \in Parties
    BY DEF Parties
  <2> QED BY <2>1, <2>2, <2>3 DEF TurnInv
<1>2. TypeOK /\ (turns => TurnInv) /\ [Next]_vars => (turns => TurnInv)'
  <2> SUFFICES ASSUME TypeOK, turns => TurnInv, [Next]_vars, turns' PROVE TurnInv'
    OBVIOUS
  <2>1. UNCHANGED <<wasm, turns>> /\ turns /\ TurnInv
    BY DEF Next, vars
  <2>2. CASE UNCHANGED vars
    <3>1. \A r, p : LoadedRoot(p, r)' = LoadedRoot(p, r)
      BY <2>1, LoadIsStable
    <3>2. \A m, root : SentUnder(m, root)' <=> SentUnder(m, root)
      BY <3>1 DEF SentUnder
    <3>3. \A m : AfterTheOneBefore(m) => AfterTheOneBefore(m)'
      BY <2>2, <3>2 DEF AfterTheOneBefore, vars
    <3>4. \A p : LastSent(p) => LastSent(p)'
      BY <2>2 DEF LastSent, vars
    <3>5. UNCHANGED <<wasm, net, root_key, send_count, recv_count>>
      BY <2>2 DEF vars
    <3>6. \A m \in net : SentUnder(m, root_key[Peer(m.from)]) => SentUnder(m, root_key[Peer(m.from)])'
      BY <3>1, <3>5 DEF SentUnder
    <3> QED BY <2>1, <3>3, <3>4, <3>5, <3>6 DEF TurnInv
  <2>3. ASSUME NEW p \in Parties, Send(p), InTurn(p) PROVE TurnInv'
    BY <2>1, <2>3, TurnSend DEF InTurn
  <2>4. ASSUME NEW p \in Parties, Receive(p) PROVE TurnInv'
    BY <2>1, <2>4, TurnReceive
  <2> QED BY <2>1, <2>2, <2>3, <2>4 DEF Next
<1>3. TypeOK /\ (turns => TurnInv) => TurnsAlwaysDecrypt
  <2> SUFFICES ASSUME TypeOK, TurnInv, NEW p \in Parties, NEW m \in net, Deliverable(p, m)
               PROVE  Decrypts(p, m)
    BY DEF TurnsAlwaysDecrypt, NextMessageDecrypts
  <2>1. m.from = Peer(p) /\ Peer(m.from) = p /\ m.message_number = recv_count[p]
    BY PeerFacts DEF Deliverable
  <2>2. SentUnder(m, root_key[p])
    BY <2>1 DEF TurnInv
  <2>3. LoadedRoot(m.from, root_key[p]) = LoadedRoot(p, root_key[p])
    BY <2>1, SameLoad DEF TurnInv
  <2> QED BY <2>2, <2>3 DEF SentUnder, Decrypts
<1> QED BY <1>1, <1>2, <1>3, TypeCorrect, PTL DEF Spec
=============================================================================
