---------------------------- MODULE CocoaSession ----------------------------
(* The functions of crates/trelis-cocoa/src/session.rs, epoch.rs and         *)
(* key_schedule.rs, and the session blob of crates/trelis-wasm.  Hashes and  *)
(* derived keys are symbolic: the tuple of what went into them.              *)
EXTENDS RatchetTree, Sequences

Refused == [error |-> TRUE]
Zeros == <<"zeros">>
-----------------------------------------------------------------------------
(* Key schedule. *)
h3_round_hash(root_label, removed, added) == <<"round", root_label, removed, added>>
h3_transcript_hash(prev, round_hash) == <<"transcript", prev, round_hash>>
h5_epoch_secret(init_secret, delta_root, transcript) ==
    <<"epoch", init_secret, delta_root, transcript>>

(* EpochSecrets::derive: three secrets of one, none of which gives another.  *)
derive(epoch_secret) ==
    [epoch_secret |-> epoch_secret,
     app_secret   |-> <<"app", epoch_secret>>,
     conf_key     |-> <<"conf", epoch_secret>>,
     init_secret  |-> <<"init", epoch_secret>>]

(* The key and the nonce of a message are functions of the same three.       *)
derive_message_key(secrets, sender, counter) ==
    [key     |-> <<"key", secrets.app_secret, sender, counter>>,
     nonce   |-> <<"nonce", secrets.app_secret, sender, counter>>,
     counter |-> counter]
-----------------------------------------------------------------------------
(* Epoch.  The counter is this member's own; it starts again at 0.           *)
restore_epoch(epoch_secret, transcript, number) ==
    [number |-> number, secrets |-> derive(epoch_secret), message_counter |-> 0,
     transcript_hash |-> transcript]
initial_epoch(epoch_secret, transcript) == restore_epoch(epoch_secret, transcript, 0)
advance(init_secret, delta_root, transcript, prev_number) ==
    restore_epoch(h5_epoch_secret(init_secret, delta_root, transcript), transcript,
                  prev_number + 1)

next_message_key(epoch, leaf_position) ==
    <<derive_message_key(epoch.secrets, leaf_position, epoch.message_counter),
      [epoch EXCEPT !.message_counter = @ + 1]>>
message_key_for_counter(epoch, sender, counter) ==
    derive_message_key(epoch.secrets, sender, counter)
-----------------------------------------------------------------------------
(* CocoaSession.  Every constructor starts with a tree that holds no node    *)
(* and a registry of its own member alone.                                   *)
session_of(group, user, keypair, position, depth, count, epoch) ==
    [group_id |-> group, our_user_id |-> user, our_keypair |-> keypair,
     our_leaf_position |-> position, epoch |-> epoch, members |-> {user},
     tree |-> [tree_depth |-> depth, member_count |-> count, nodes |-> EmptyNodes]]

create_session(group, user, keypair, initial_members, epoch_secret) ==
    session_of(group, user, keypair, 0, depth_for_members(initial_members),
               initial_members, initial_epoch(epoch_secret, Zeros))

join_group(group, user, keypair, position, depth, count, epoch_secret, transcript) ==
    session_of(group, user, keypair, position, depth, count,
               initial_epoch(epoch_secret, transcript))

(* WR-06: the stored secret is that of the stored epoch.                     *)
restore_session(group, user, keypair, position, depth, count, epoch_secret, transcript, number) ==
    session_of(group, user, keypair, position, depth, count,
               restore_epoch(epoch_secret, transcript, number))

transcript_hash(s) == s.epoch.transcript_hash
is_member(s, id) == id \in s.members
insert_member(s, id) == [s EXCEPT !.members = @ \cup {id}]

(* Forward only; a fresh epoch is at 0.                                      *)
set_message_counter(s, counter) ==
    IF counter < s.epoch.message_counter THEN Refused
    ELSE [s EXCEPT !.epoch.message_counter = counter]

advance_session(s, delta_root, transcript) ==
    [s EXCEPT !.epoch = advance(s.epoch.secrets.init_secret, delta_root, transcript,
                                s.epoch.number)]

rotate_keypair(s, keypair) == [s EXCEPT !.our_keypair = keypair]
-----------------------------------------------------------------------------
(* Messages.  A sealed text opens with its key, its nonce and its data.      *)
aad(group, epoch, sender, counter) == <<group, epoch, sender, counter>>

seal(k, text, data) == [key |-> k.key, nonce |-> k.nonce, aad |-> data, text |-> text]
open(k, sealed, data) ==
    IF sealed.key = k.key /\ sealed.nonce = k.nonce /\ sealed.aad = data
    THEN sealed.text ELSE Refused

(* encrypt: the session whose counter moved on, and the message.             *)
encrypt(s, text) ==
    LET next == next_message_key(s.epoch, s.our_leaf_position)
        k == next[1]
    IN <<[s EXCEPT !.epoch = next[2]],
         [epoch |-> s.epoch.number, sender_leaf_position |-> s.our_leaf_position,
          counter |-> k.counter,
          ciphertext |-> seal(k, text, aad(s.group_id, s.epoch.number,
                                           s.our_leaf_position, k.counter))]>>

open_with(s, k, m) ==
    open(k, m.ciphertext, aad(s.group_id, m.epoch, m.sender_leaf_position, m.counter))

decrypt(s, m) ==
    IF m.epoch # s.epoch.number THEN Refused
    ELSE open_with(s, message_key_for_counter(s.epoch, m.sender_leaf_position, m.counter), m)

(* The secret of an earlier epoch, handed over with the history.             *)
decrypt_with_epoch_secret(s, epoch_secret, m) ==
    open_with(s, derive_message_key(derive(epoch_secret), m.sender_leaf_position,
                                    m.counter), m)
-----------------------------------------------------------------------------
(* The watermark and the blob.  A blob of the older, shorter format has      *)
(* neither secret nor counter.                                               *)
Below(w, epoch, counter) ==
    \/ epoch < w.epoch
    \/ epoch = w.epoch /\ counter < w.counter
advanced(w, epoch, counter) ==
    IF Below(w, epoch, counter) THEN w ELSE [epoch |-> epoch, counter |-> counter]

NoSecret == <<"none">>

serialize_cocoa_session(s) ==
    [group_id |-> s.group_id, user_id |-> s.our_user_id, epoch_number |-> s.epoch.number,
     leaf_position |-> s.our_leaf_position, member_count |-> s.tree.member_count,
     tree_depth |-> s.tree.tree_depth, transcript_hash |-> transcript_hash(s),
     epoch_secret |-> s.epoch.secrets.epoch_secret,
     message_counter |-> s.epoch.message_counter, our_keypair |-> s.our_keypair]

parse_cocoa_session_v2(blob) ==
    IF blob.epoch_secret # NoSecret THEN blob
    ELSE [blob EXCEPT !.epoch_secret = <<"legacy", blob.transcript_hash>>,
                      !.message_counter = 0]

restored(p) ==
    restore_session(p.group_id, p.user_id, p.our_keypair, p.leaf_position, p.tree_depth,
                    p.member_count, p.epoch_secret, p.transcript_hash, p.epoch_number)

(* The door before WR-06: joined at epoch 0, advanced once for every epoch.  *)
rejoined(p) ==
    LET joined == join_group(p.group_id, p.user_id, p.our_keypair, p.leaf_position,
                             p.tree_depth, p.member_count, p.epoch_secret, p.transcript_hash)
        Again[n \in 0..p.epoch_number] ==
            IF n = 0 THEN joined ELSE advance_session(Again[n - 1], Zeros, p.transcript_hash)
    IN Again[p.epoch_number]

rejoin_mutant(blob) ==
    LET p == parse_cocoa_session_v2(blob)
    IN set_message_counter(rejoined(p), p.message_counter)
deserialize_cocoa_session(blob) ==
    LET p == parse_cocoa_session_v2(blob)
    IN set_message_counter(restored(p), p.message_counter)

(* restore_session_checked: the watermark before anything is rebuilt.        *)
restore_session_checked(w, p) ==
    IF Below(w, p.epoch_number, p.message_counter) THEN Refused
    ELSE set_message_counter(restored(p), p.message_counter)

(* WR-02: the identity the watermark was looked up under comes first.        *)
deserialize_checked_mutant(blob, w, group, user) ==
    LET p == parse_cocoa_session_v2(blob) IN restore_session_checked(w, p)
deserialize_cocoa_session_checked(blob, w, group, user) ==
    LET p == parse_cocoa_session_v2(blob)
    IN IF p.group_id # group \/ p.user_id # user THEN Refused
       ELSE restore_session_checked(w, p)
=============================================================================
