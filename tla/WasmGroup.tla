----------------------------- MODULE WasmGroup -----------------------------
(* The group sessions of crates/trelis-wasm, and the hosts that keep them.   *)
(* Every call takes a session blob, rebuilds a CocoaSession from it, runs    *)
(* one operation and returns a new blob; an operation that fails half way    *)
(* leaves the blob as it was.  A host keeps every blob it was ever given,    *)
(* starts again from any of them through the checked door only, and writes   *)
(* blob and watermark before a message leaves (CocoaChannel has these as     *)
(* separate writes).  It may look the watermark up under another of its      *)
(* sessions.  Group 0 was made by a native creator; group 1 is made here.    *)
EXTENDS Commits

CONSTANTS
    WasmUsers,      \* users whose sessions are kept by a wasm host
    LeafOf,         \* their leaves in group 0
    GroupSize,      \* the members of group 0
    SessionIds,     \* the pairs of a group, 0 or 1, and a user considered
    LegacyUsers,    \* the users that may start with a blob of the older format
    HostDeltas,     \* what hosts may pass to cocoa_advance_epoch
    NewMember, MaxGroupSize,
    MaxDraws, MaxEpochs, MaxTexts   \* bounds on a behaviour

ASSUME WasmAssumption ==
    /\ SessionIds \subseteq {0, 1} \X WasmUsers
    /\ LegacyUsers \subseteq WasmUsers
    /\ NewMember \notin WasmUsers
    /\ {MaxDraws, MaxEpochs, MaxTexts, GroupSize, MaxGroupSize} \subseteq Nat
    /\ LeafOf \in [WasmUsers -> Nat]
    /\ \A u, v \in WasmUsers : LeafOf[u] = LeafOf[v] => u = v
    /\ {depth_for_members(1), depth_for_members(GroupSize)} \subseteq Nat

VARIABLES
    stored,     \* every [blob, steps] a host keeps; steps is history: how the
                \* secret came to be
    loaded,     \* identity -> the one of them its host goes on from, or Nothing
    marks,      \* identity -> the watermark its host keeps
    texts,      \* every message sent, with the steps of its sender
    wires,      \* every [wire, seed] handed to the server: a commit as it was
                \* serialised, and, as history, its leaf seed
    draws       \* the randomness used so far

wasm_vars == <<stored, loaded, marks, texts, wires, draws>>

Nothing == [nothing |-> TRUE]
Start == [epoch |-> 0, counter |-> 0]
own_key(u) == <<"key", u, 0>>

(* A blob that the older version of the library saved.                       *)
legacy(u) ==
    [blob |-> [serialize_cocoa_session(join_group(0, u, own_key(u), LeafOf[u],
                   depth_for_members(GroupSize), GroupSize, <<"group", 0>>, Zeros))
               EXCEPT !.epoch_secret = NoSecret],
     steps |-> <<<<"legacy", 0>>>>]

WasmInit ==
    /\ \E users \in SUBSET LegacyUsers : stored = {legacy(u) : u \in users}
    /\ loaded = [i \in SessionIds |-> Nothing]
    /\ marks = [i \in SessionIds |-> Start]
    /\ texts = {} /\ wires = {}
    /\ draws = 0

Live(i) == loaded[i] # Nothing
session(i) == deserialize_cocoa_session(loaded[i].blob)

(* The host keeps what a call returned, and the watermark past it.           *)
Keep(i, s, steps) ==
    LET entry == [blob |-> serialize_cocoa_session(s), steps |-> steps] IN
    /\ stored' = stored \cup {entry}
    /\ loaded' = [loaded EXCEPT ![i] = entry]
    /\ marks' = [marks EXCEPT ![i] = advanced(@, s.epoch.number, s.epoch.message_counter)]
Steps(i) == loaded[i].steps
-----------------------------------------------------------------------------
(* A session begins, for an identity its host holds none of: the handlers    *)
(* keep no record of the welcomes they processed.                            *)
Fresh(i) == \A e \in stored : <<e.blob.group_id, e.blob.user_id>> # i

cocoa_create_group(u) ==
    /\ <<1, u>> \in SessionIds /\ \A v \in WasmUsers : Fresh(<<1, v>>)
    /\ Keep(<<1, u>>, create_session(1, u, own_key(u), 1, <<"group", 1>>), <<<<"group", 1>>>>)
    /\ UNCHANGED <<texts, wires, draws>>

(* A welcome of the native create_group.  One that cocoa_add_member returned *)
(* does not open: its associated data are not those process_welcome uses.    *)
cocoa_process_welcome(u) ==
    /\ <<0, u>> \in SessionIds /\ Fresh(<<0, u>>)
    /\ Keep(<<0, u>>, join_group(0, u, own_key(u), LeafOf[u], depth_for_members(GroupSize),
                                 GroupSize, <<"group", 0>>, Zeros), <<<<"group", 0>>>>)
    /\ UNCHANGED <<texts, wires, draws>>

(* The host starts from a stored blob, with the watermark it keeps under i.  *)
cocoa_deserialize_checked(i) == \E e \in stored :
    LET s == deserialize_cocoa_session_checked(e.blob, marks[i], i[1], i[2]) IN
    /\ e.blob.user_id = i[2]
    /\ s # Refused
    /\ Keep(i, s, e.steps)
    /\ UNCHANGED <<texts, wires, draws>>
-----------------------------------------------------------------------------
cocoa_encrypt(i) ==
    /\ Live(i) /\ Cardinality(texts) < MaxTexts
    /\ LET sent == encrypt(session(i), [text |-> Cardinality(texts)]) IN
       /\ Keep(i, sent[1], Steps(i))
       /\ texts' = texts \cup {[wire |-> sent[2], group |-> i[1], steps |-> Steps(i)]}
    /\ UNCHANGED <<wires, draws>>

(* The host's delta and transcript, which members agree on outside.          *)
cocoa_advance_epoch(i, d) ==
    /\ Live(i) /\ session(i).epoch.number < MaxEpochs
    /\ Keep(i, advance_session(session(i), <<"host", d>>, <<"host", d>>),
            Append(Steps(i), <<"host", d>>))
    /\ UNCHANGED <<texts, wires, draws>>

cocoa_rotate_keypair(i) ==
    /\ Live(i) /\ draws < MaxDraws
    /\ Keep(i, rotate_keypair(session(i), <<"key", i[2], draws + 1>>), Steps(i))
    /\ draws' = draws + 1
    /\ UNCHANGED <<texts, wires>>
-----------------------------------------------------------------------------
(* Commits.  The tree of a rebuilt session is empty, so a path has no seed   *)
(* for anyone but a member being added; and what the binding serialises has  *)
(* no path at all.                                                           *)
serialize_add_commit(c) == [c EXCEPT !.path_updates = << >>]
serialize_update_commit(c) == [c EXCEPT !.path_updates = << >>]
serialize_remove_commit(c) == [c EXCEPT !.path_updates = << >>]

(* The leaf seed of a commit, drawn by a user, and the root seed above it.   *)
Drawn(u) == <<"drawn", u, draws + 1>>
RootOf(seed, tree_depth) == derive_path_seeds(seed, tree_depth + 1)[tree_depth + 1]

(* The committer, in session s, moves on along its own commit.               *)
Commit(i, s, c, wire) ==
    /\ s.epoch.number < MaxEpochs /\ draws < MaxDraws
    /\ Keep(i, advance_session(s, RootOf(Drawn(i[2]), s.tree.tree_depth),
                               h3_transcript_hash(transcript_hash(s), c.round_hash)),
            Append(Steps(i), Drawn(i[2])))
    /\ wires' = wires \cup {[wire |-> wire, seed |-> Drawn(i[2])]}
    /\ draws' = draws + 1
    /\ UNCHANGED texts

OneTimeKey(u, at) == {[at |-> at, key |-> <<"one-time", u>>]}

cocoa_add_member(i) ==
    /\ Live(i)
    /\ LET s == session(i)
           at == s.tree.member_count
           grown == [s EXCEPT !.tree = set_member_count(grow_if_needed(@, at + 1), at + 1)]
           c == build_commit("add", grown, i[2], NewMember, at, Drawn(i[2]),
                    compute_resolution_keys(grown.tree, s.our_leaf_position, {},
                                            OneTimeKey(NewMember, at)))
       IN /\ ~ is_member(s, NewMember) /\ at + 1 <= MaxGroupSize
          /\ Commit(i, insert_member(grown, NewMember), c, serialize_add_commit(c))

cocoa_create_update(i) ==
    /\ Live(i)
    /\ LET s == session(i)
           c == build_commit("update", s, i[2], NewMember, s.our_leaf_position, Drawn(i[2]),
                    compute_resolution_keys(s.tree, s.our_leaf_position, {}, {}))
       IN Commit(i, rotate_keypair(s, <<"key", i[2], draws + 1>>), c, serialize_update_commit(c))

cocoa_remove_member(i) == \E v \in WasmUsers :
    /\ Live(i) /\ i[1] = 0
    /\ LET s == session(i)
           c == build_commit("remove", s, i[2], v, LeafOf[v], Drawn(i[2]),
                    compute_resolution_keys(s.tree, s.our_leaf_position, {}, {}))
       IN /\ LeafOf[v] # s.our_leaf_position /\ LeafOf[v] < s.tree.member_count
          /\ Commit(i, s, c, serialize_remove_commit(c))

(* A native member of group 0 has the leaves of the others in its tree, and  *)
(* commits from its first epoch; its host serialises the commit as the       *)
(* binding does.                                                             *)
native_tree ==
    LET depth == depth_for_members(GroupSize)
        leaves == {leaf(depth, LeafOf[v]) : v \in WasmUsers}
        Key(n) == own_key(CHOOSE v \in WasmUsers : LeafOf[v] = n.position)
    IN [tree_depth |-> depth, member_count |-> GroupSize,
        nodes |-> [n \in leaves \cup {m \in NodeIndex(depth) : m.depth < depth} |->
                      IF n \in leaves THEN populated(Key(n)) ELSE blank]]
native_session ==
    [join_group(0, NewMember, <<"native">>, 0, depth_for_members(GroupSize), GroupSize,
                <<"group", 0>>, Zeros) EXCEPT !.tree = native_tree]
native_commit(kind, v) ==
    LET s == native_session
        removed == IF kind = "remove" THEN path_to_root(leaf(s.tree.tree_depth, LeafOf[v])) ELSE {}
        added == IF kind = "add" THEN OneTimeKey(NewMember, GroupSize) ELSE {}
        grown == [s EXCEPT !.tree = IF kind = "add" THEN grow_if_needed(@, GroupSize + 1) ELSE @]
        c == build_commit(kind, grown, NewMember, IF kind = "remove" THEN v ELSE NewMember,
                IF kind = "remove" THEN LeafOf[v] ELSE GroupSize, Drawn(NewMember),
                compute_resolution_keys(grown.tree, 0, removed, added))
    IN /\ draws < MaxDraws
       /\ wires' = wires \cup {[seed |-> Drawn(NewMember), wire |->
              CASE kind = "add" -> serialize_add_commit(c)
                [] kind = "update" -> serialize_update_commit(c)
                [] kind = "remove" -> serialize_remove_commit(c)]}
       /\ draws' = draws + 1
       /\ UNCHANGED <<stored, loaded, marks, texts>>
-----------------------------------------------------------------------------
(* The host names the committer rightly; a refused commit costs it nothing.  *)
Process(i, w, s) ==
    /\ Live(i)
    /\ IF s = Refused THEN UNCHANGED <<stored, loaded, marks>>
       ELSE Keep(i, s, Append(Steps(i), w.seed))
    /\ UNCHANGED <<texts, wires, draws>>

Named(w) == w.wire.signature.by
cocoa_process_add(i) == \E w \in wires :
    w.wire.kind = "add" /\ Process(i, w, process_add(session(i), w.wire, Named(w)))
cocoa_process_update(i) == \E w \in wires :
    w.wire.kind = "update" /\ Process(i, w, process_update(session(i), w.wire, Named(w)))
cocoa_process_remove(i) == \E w \in wires :
    w.wire.kind = "remove" /\ Process(i, w, process_remove(session(i), w.wire, Named(w)))

WasmNext ==
    \/ \E u \in WasmUsers : cocoa_create_group(u) \/ cocoa_process_welcome(u)
    \/ \E v \in WasmUsers, kind \in {"add", "update", "remove"} : native_commit(kind, v)
    \/ \E i \in SessionIds :
        \/ cocoa_deserialize_checked(i)
        \/ cocoa_encrypt(i)
        \/ \E d \in HostDeltas : cocoa_advance_epoch(i, d)
        \/ cocoa_rotate_keypair(i)
        \/ cocoa_add_member(i)
        \/ cocoa_create_update(i)
        \/ cocoa_remove_member(i)
        \/ cocoa_process_add(i)
        \/ cocoa_process_update(i)
        \/ cocoa_process_remove(i)

WasmSpec == WasmInit /\ [][WasmNext]_wasm_vars
-----------------------------------------------------------------------------
(* A message is opened exactly by the sessions whose secret came about in    *)
(* the way the sender's had when it was sent, with no field of it altered;   *)
(* and, once they moved on, with the secret they had.  Any number of blobs,  *)
(* restores and calls may lie between.                                       *)
Altered(m) ==
    {m} \cup {[m EXCEPT !.sender_leaf_position = @ + 1], [m EXCEPT !.counter = @ + 1],
              [m EXCEPT !.epoch = @ + 1]}

ReadIffSameHistory ==
    \A e \in stored, t \in texts : \A m \in Altered(t.wire) :
        LET s == deserialize_cocoa_session(e.blob)
            same == e.steps = t.steps /\ m = t.wire
            later == advance_session(s, Zeros, Zeros)
        IN /\ (decrypt(s, m) # Refused) = same
           /\ (decrypt_with_epoch_secret(later, s.epoch.secrets.epoch_secret, m)
                 # Refused) = same

(* What cocoa_process_update says of itself ("Process an update commit from *)
(* another group member"): a session that stands where another member made  *)
(* an update moves along it.                                                *)
MadeAt(c, s) ==
    /\ c.group_id = s.group_id /\ c.epoch = s.epoch.number + 1
    /\ \E delta \in {c.confirmation_tag[2]} :
          c.confirmation_tag = compute_confirmation_tag(delta,
              h3_transcript_hash(transcript_hash(s), c.round_hash), c.epoch)

OthersUpdatesLand ==
    \A i \in SessionIds, w \in wires :
        /\ Live(i) /\ w.wire.kind = "update" /\ Named(w) # i[2]
        /\ MadeAt(w.wire, session(i))
        => process_update(session(i), w.wire, Named(w)) # Refused

(* No two messages are sealed with one key and nonce, although the host may  *)
(* start from any blob it ever kept and may look up the watermark of another *)
(* of its sessions.                                                          *)
NoKeyTwice ==
    \A t, v \in texts :
        t.wire.ciphertext.key = v.wire.ciphertext.key => t = v
=============================================================================
