----------------------------- MODULE MCDevices -----------------------------
(* What the devices of an account keep and exchange, in one run of five      *)
(* subjects: the retained keys of a thread, the signed records of accounts,  *)
(* safety numbers, the group sessions of wasm hosts, and the commits and     *)
(* welcomes that a server hands over.                                        *)
EXTENDS RetainedKeys, Accounts, SafetyNumbers, WasmGroup, CommitWire

VARIABLE subject

all_vars == << subject, vars, acct_vars, compared, wasm_vars, wire_vars >>

(* A subject that is not the behaviour's stays at one of its initial states. *)
MCInit ==
    /\ subject \in {"retained keys", "accounts", "safety numbers", "wasm groups",
                    "commit wires"}
    /\ Init /\ AcctInit /\ NumberInit /\ WasmInit /\ WireInit
    /\ subject # "wasm groups" => stored = {}
    /\ subject # "retained keys" => \A d \in Devices : history_sync_enabled[d]

MCNext ==
    \/ /\ subject = "retained keys" /\ Next
       /\ UNCHANGED << subject, acct_vars, compared, wasm_vars, wire_vars >>
    \/ /\ subject = "accounts" /\ AcctNext
       /\ UNCHANGED << subject, vars, compared, wasm_vars, wire_vars >>
    \/ /\ subject = "safety numbers" /\ NumberNext
       /\ UNCHANGED << subject, vars, acct_vars, wasm_vars, wire_vars >>
    \/ /\ subject = "wasm groups" /\ WasmNext
       /\ UNCHANGED << subject, vars, acct_vars, compared, wire_vars >>
    \/ /\ subject = "commit wires" /\ WireNext
       /\ UNCHANGED << subject, vars, acct_vars, compared, wasm_vars >>

MCSpec == MCInit /\ [][MCNext]_all_vars

(* A store of two keys, and four messages of which two carry one sequence    *)
(* number and whose times do not follow their order.                         *)
MCMessages == 1..4
MCsequence == <<1, 2, 2, 3>>
MCtimestamp == <<1, 3, 2, 2>>

(* Two accounts that share an identity key and a first device, so that what  *)
(* is signed for one could be taken for the other.                           *)
MCUsers == {"alice", "bob"}
IdentityA == generate_from_seed("a").signing
IdentityB == generate_from_seed("b").signing
Recovery == derive_recovery_keypair("a")
Phone == generate_from_seed("phone").signing
Laptop == generate_from_seed("laptop").signing
MCroot == [u \in MCUsers |-> IdentityA]
MCfounder == [u \in MCUsers |-> Phone]

Approving(id, device, user, new_device, nonce, identity) ==
    [device_id |-> id, key |-> device, user_id |-> user, new_device |-> new_device,
     server_nonce |-> nonce, identity |-> identity]
MCApprovals == {
    Approving("phone", Phone, "alice", Laptop, "n1", IdentityA),
    Approving("phone", Phone, "alice", Recovery, "n1", IdentityA),
    Approving("phone", Phone, "bob", Laptop, "n2", IdentityB),
    Approving("laptop", Laptop, "alice", Recovery, "n2", IdentityA)}
MCRevocations == {
    [device_id |-> "phone", reason |-> 2, key |-> IdentityA],
    [device_id |-> "laptop", reason |-> 0, key |-> IdentityB]}
MCNotices == {
    [compromised |-> IdentityA, reason |-> 255, key |-> Recovery],
    [compromised |-> Recovery, reason |-> 2, key |-> Recovery]}
Rotating(old, new, user) == [old |-> old, new |-> new, user_id |-> user]
MCRotations == {
    Rotating(IdentityA, IdentityB, "alice"), Rotating(IdentityB, IdentityA, "alice"),
    Rotating(IdentityB, Recovery, "bob"), Rotating(IdentityA, IdentityA, "bob")}
MCCertificates == {
    [key |-> Recovery, subject |-> generate_from_seed("a"), lifetime |-> 1],
    [key |-> Recovery, subject |-> generate_from_seed("b"), lifetime |-> 0]}
MCNumbers == {[number |-> "x", key |-> IdentityA], [number |-> "y", key |-> IdentityB]}
MCOneTimeKeys == {[kem |-> "o1", key |-> IdentityA], [kem |-> "o2", key |-> IdentityA]}
MCVerifyingKeys == {IdentityA, IdentityB, Recovery}

(* Two members of one group, one of whom is alone in a second one.           *)
MCWasmUsers == {"ann", "ben"}
MCLeafOf == [ann |-> 1, ben |-> 2]
MCSessionIds == {<<0, "ann">>, <<0, "ben">>, <<1, "ann">>}

(* Two groups, the first of which its hosts moved along in two ways.         *)
MCPlaces == {[group |-> 0, deltas |-> <<1>>], [group |-> 0, deltas |-> <<2>>],
             [group |-> 1, deltas |-> << >>]}

MCDeviceLists == {<< >>, <<1>>, <<1, 2>>, <<2, 1>>, <<1, 1>>}
Bytes == {0, 77, 255}
MCFingerprintBytes == {<<a, b, c, d, e>> : a, b, c, d, e \in Bytes}
=============================================================================
