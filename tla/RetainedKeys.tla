---------------------------- MODULE RetainedKeys ----------------------------
(***************************************************************************)
(* The retained message keys of one thread on the devices of one account   *)
(* (crates/trelis-multidevice: settings, history, retained_key).  While    *)
(* history sync is on, a device retains the key of every message it takes  *)
(* in a ThreadKeyStore, a bounded vector sorted by sequence number; it     *)
(* shares the store with other devices in a signed message, which they     *)
(* merge into theirs, late, repeatedly or never.  A device in Wasm keeps   *)
(* its store as the blob of crates/trelis-wasm and reloads it at each      *)
(* call.                                                                   *)
(*                                                                         *)
(* A retained key is represented by its message: the message_id decides    *)
(* the key, the sequence number and the timestamp.                         *)
(***************************************************************************)
EXTENDS Integers, Sequences, FiniteSets

CONSTANTS
    Devices,
    Wasm,               \* the devices whose store is the wasm blob
    Messages,           \* the messages of the thread, by message_id
    sequence,           \* message -> its sequence number in the thread
    timestamp,          \* message -> its time
    MAX_RETAINED_KEYS,
    MaxShares           \* bound on the history shares of a behaviour

ASSUME StoreAssumption ==
    /\ Wasm \subseteq Devices
    /\ sequence \in [Messages -> Nat] /\ timestamp \in [Messages -> Nat]
    /\ MAX_RETAINED_KEYS \in Nat \ {0}
    /\ MaxShares \in Nat

VARIABLES
    history_sync_enabled,   \* device -> ThreadSettings::history_sync_enabled
    keys,                   \* device -> ThreadKeyStore::keys
    taken,                  \* device -> the messages it has decrypted itself
    shares,                 \* every HistoryKeyShareMessage ever released
    offered                 \* history: device -> the messages given to its store
                            \* since keys were last removed from it on purpose

vars == <<history_sync_enabled, keys, taken, shares, offered>>

Held(ks) == {ks[i] : i \in 1..Len(ks)}
Sorted(ks) == \A i, j \in 1..Len(ks) : i < j => sequence[ks[i]] <= sequence[ks[j]]
Distinct(ks) == \A i, j \in 1..Len(ks) : ks[i] = ks[j] => i = j
-----------------------------------------------------------------------------
(***************************************************************************)
(* binary_search_by_key on a sorted vector: the place of any entry of this *)
(* sequence number, the library does not say which, or the gap it belongs  *)
(* in.                                                                     *)
(***************************************************************************)
binary_search_by_key(ks, s) ==
    LET hits == {i \in 1..Len(ks) : sequence[ks[i]] = s}
    IN  IF hits # {} THEN hits
        ELSE {p \in 1..Len(ks) + 1 : /\ \A i \in 1..p - 1 : sequence[ks[i]] < s
                                     /\ \A i \in p..Len(ks) : sequence[ks[i]] > s}

InsertKey(ks, p, m) ==
    [i \in 1..Len(ks) + 1 |-> IF i < p THEN ks[i] ELSE IF i = p THEN m ELSE ks[i - 1]]

enforce_cap_mutant(ks) ==   \* drops from the back, the newest keys
    IF Len(ks) > MAX_RETAINED_KEYS THEN SubSeq(ks, 1, MAX_RETAINED_KEYS) ELSE ks
enforce_cap(ks) ==
    IF Len(ks) > MAX_RETAINED_KEYS
    THEN SubSeq(ks, Len(ks) - MAX_RETAINED_KEYS + 1, Len(ks))
    ELSE ks

Inserted(ks, m) == {InsertKey(ks, p, m) : p \in binary_search_by_key(ks, sequence[m])}

(* The stores retain_key and merge may leave.  retain_key inserts whatever *)
(* it is given; merge skips a message_id it holds and caps once, at the    *)
(* end.                                                                    *)
retain_key(ks, m) == {enforce_cap(r) : r \in Inserted(ks, m)}

merge(ks, other) ==
    LET Merged[n \in 0..Len(other)] ==
          IF n = 0 THEN {ks}
          ELSE UNION {IF other[n] \in Held(r) THEN {r} ELSE Inserted(r, other[n]) :
                        r \in Merged[n - 1]}
    IN  {enforce_cap(r) : r \in Merged[Len(other)]}

(* Vec::retain: the keys that are recent enough, in their order.           *)
prune_before(ks, t) ==
    LET Kept[n \in 0..Len(ks)] ==
          IF n = 0 THEN <<>>
          ELSE IF timestamp[ks[n]] >= t THEN Append(Kept[n - 1], ks[n])
          ELSE Kept[n - 1]
    IN  Kept[Len(ks)]

(* deserialize_thread_key_store retains the stored keys one by one.        *)
deserialize_thread_key_store(ks) ==
    LET Loaded[n \in 0..Len(ks)] ==
          IF n = 0 THEN {<<>>} ELSE UNION {retain_key(r, ks[n]) : r \in Loaded[n - 1]}
    IN  Loaded[Len(ks)]

Store(d) == IF d \in Wasm THEN deserialize_thread_key_store(keys[d]) ELSE {keys[d]}
-----------------------------------------------------------------------------
(* A thread starts with history sync on (ThreadSettings::new) or, on a     *)
(* sensitive thread, off (new_ephemeral), and an empty store.              *)
Init ==
    /\ history_sync_enabled \in {[d \in Devices |-> b] : b \in BOOLEAN}
    /\ keys = [d \in Devices |-> <<>>]
    /\ taken = [d \in Devices |-> {}]
    /\ shares = {}
    /\ offered = [d \in Devices |-> {}]

enable_history_sync(d) ==
    /\ history_sync_enabled' = [history_sync_enabled EXCEPT ![d] = TRUE]
    /\ UNCHANGED <<keys, taken, shares, offered>>

disable_history_sync(d) ==
    /\ history_sync_enabled' = [history_sync_enabled EXCEPT ![d] = FALSE]
    /\ UNCHANGED <<keys, taken, shares, offered>>

(* The host decrypts a message, once, and retains its key if sync is on.   *)
Take(d, m) ==
    /\ m \notin taken[d]
    /\ taken' = [taken EXCEPT ![d] = @ \cup {m}]
    /\ IF history_sync_enabled[d]
       THEN /\ \E ks \in Store(d) : \E r \in retain_key(ks, m) :
                    keys' = [keys EXCEPT ![d] = r]
            /\ offered' = [offered EXCEPT ![d] = @ \cup {m}]
       ELSE UNCHANGED <<keys, offered>>
    /\ UNCHANGED <<history_sync_enabled, shares>>

(* HistoryKeyShareMessage::new over get_all_keys.                          *)
Share(d) ==
    /\ Cardinality(shares) < MaxShares
    /\ keys[d] # <<>>
    /\ \E ks \in Store(d) : shares' = shares \cup {[from |-> d, keys |-> ks]}
    /\ UNCHANGED <<history_sync_enabled, keys, taken, offered>>

(* A share whose signature verifies is merged, whenever it arrives.        *)
Merge(d) == \E share \in shares :
    /\ share.from # d
    /\ \E ks \in Store(d) : \E r \in merge(ks, share.keys) :
            keys' = [keys EXCEPT ![d] = r]
    /\ offered' = [offered EXCEPT ![d] = @ \cup Held(share.keys)]
    /\ UNCHANGED <<history_sync_enabled, taken, shares>>

Removed(d, r) ==
    /\ keys' = [keys EXCEPT ![d] = r]
    /\ offered' = [offered EXCEPT ![d] = Held(r)]
    /\ UNCHANGED <<history_sync_enabled, taken, shares>>

Prune(d) == \E t \in {timestamp[m] : m \in Messages}, ks \in Store(d) :
    Removed(d, prune_before(ks, t))

Clear(d) == Removed(d, <<>>)

Next == \E d \in Devices :
    \/ enable_history_sync(d)
    \/ disable_history_sync(d)
    \/ \E m \in Messages : Take(d, m)
    \/ Share(d)
    \/ Merge(d)
    \/ Prune(d)
    \/ Clear(d)

Spec == Init /\ [][Next]_vars
-----------------------------------------------------------------------------
(* The store keeps its type, its order and its bound, which is what every  *)
(* binary search in it relies on.                                          *)
TypeOK ==
    /\ history_sync_enabled \in [Devices -> BOOLEAN]
    /\ \A d \in Devices :
          /\ keys[d] \in Seq(Messages)
          /\ Len(keys[d]) <= MAX_RETAINED_KEYS
          /\ Sorted(keys[d])
    /\ taken \in [Devices -> SUBSET Messages]
    /\ \A share \in shares : share.from \in Devices /\ share.keys \in Seq(Messages)

(* "The retained set is always the most-recent MAX_RETAINED_KEYS"          *)
(* (retain_key): a key given to the store since the last removal and no    *)
(* longer held gave way to as many distinct keys, none of them older.      *)
MostRecent(d) == \A m \in offered[d] \ Held(keys[d]) :
    /\ Cardinality(Held(keys[d])) = MAX_RETAINED_KEYS
    /\ \A n \in Held(keys[d]) : sequence[n] >= sequence[m]

MostRecentRetained == \A d \in Devices : MostRecent(d)

(* A message is in a store twice only where it was both taken and merged:  *)
(* neither a repeated share nor a reload doubles it.                       *)
DoubledOnlyIfTaken(d) == \A i, j \in 1..Len(keys[d]) :
    i # j /\ keys[d][i] = keys[d][j] =>
        /\ keys[d][i] \in taken[d]
        /\ Cardinality({n \in 1..Len(keys[d]) : keys[d][n] = keys[d][i]}) = 2

(* As long as no message is in the store twice, which takes both a taken   *)
(* and a merged key of it, the store has the most recent keys, in whatever *)
(* order keys are retained, merged from late or repeated shares, and       *)
(* reloaded from the blob.  So two devices that were given the same        *)
(* messages hold the same run of sequence numbers.                         *)
MostRecentUnlessDoubled ==
    TypeOK /\ \A d \in Devices :
        IF Distinct(keys[d]) THEN MostRecent(d) ELSE DoubledOnlyIfTaken(d)
=============================================================================
