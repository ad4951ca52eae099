------------------------------ MODULE Commits ------------------------------
(* What the group operations of crates/trelis-cocoa/src/operations put on    *)
(* the wire, what they sign of it, and what they check when it comes back:   *)
(* commits with their path of sealed seeds, and welcomes.                    *)
(* A signature, a hash and a sealed seed are symbolic: what went into them.  *)
(* Size limits and parent hashes, which the hash of the path covers, are in  *)
(* CocoaGroup.                                                               *)
EXTENDS CocoaSession
-----------------------------------------------------------------------------
(* The chain of seeds from a leaf to the root, one keypair for each.         *)
derive_h1_seed(seed) == <<"H1", seed>>
derive_path_seeds(leaf_seed, length) ==
    LET Seeds[n \in 1..length] == IF n = 1 THEN leaf_seed ELSE derive_h1_seed(Seeds[n - 1])
    IN Seeds
derive_node_keypair(seed) == <<"keypair", seed>>
derive_delta_root(root_seed) == root_seed

(* A seed is sealed to one keypair, for one node.                            *)
build_seed_aad(n) == <<"cocoa-seed-encrypt", 1, n.depth, n.position>>
encrypt_seed_to_recipient(seed, key, n) ==
    [encapsulation |-> key, ciphertext |-> [seed |-> seed, aad |-> build_seed_aad(n)]]
encrypt_seed_to_resolution(seed, keys, n) ==
    {encrypt_seed_to_recipient(seed, key, n) : key \in keys}
(* The seeds of an update that our keypair opens.                            *)
decrypt_seed(update, our_keypair) ==
    {e.ciphertext.seed : e \in {x \in update.encrypted_seeds :
        /\ x.encapsulation = our_keypair
        /\ x.ciphertext.aad = build_seed_aad(update.node_index)}}

(* Whom the seed of each level is sealed to: the resolution of the sibling,  *)
(* without a removed leaf and with a member to be added.                     *)
compute_resolution_keys(tree, position, removed, added) ==
    [level \in 1..(tree.tree_depth + 1) |->
        LET n == PathNode(leaf(tree.tree_depth, position), level - 1)
            kept == {m \in compute_lj(tree, n) : m \notin removed /\ is_populated(tree, m)}
        IN {public_key(tree, m) : m \in kept} \cup
           {x.key : x \in {y \in added :
               n.depth > 0 /\ sibling(n) \in path_to_root(leaf(tree.tree_depth, y.at))}}]

(* The path of a commit: for every level a node, its key and its seeds.      *)
build_path_updates(tree_depth, position, path_seeds, resolution_keys) ==
    [level \in 1..(tree_depth + 1) |->
        LET n == PathNode(leaf(tree_depth, position), level - 1)
        IN [node_index |-> n, new_public_key |-> derive_node_keypair(path_seeds[level]),
            encrypted_seeds |->
                encrypt_seed_to_resolution(path_seeds[level], resolution_keys[level], n)]]

(* The first level that opens gives the rest of the chain, whose keys must   *)
(* be those announced; the result is the set of the root seed, or empty.     *)
apply_path_updates(path, our_keypair) ==
    LET levels == {n \in DOMAIN path : decrypt_seed(path[n], our_keypair) # {}} IN
    IF levels = {} THEN {}
    ELSE LET first == CHOOSE n \in levels : \A m \in levels : n <= m
             seeds == derive_path_seeds(CHOOSE s \in decrypt_seed(path[first], our_keypair) : TRUE,
                                        Len(path) - first + 1)
         IN IF \A n \in first..Len(path) :
                   path[n].new_public_key = derive_node_keypair(seeds[n - first + 1])
            THEN {derive_delta_root(seeds[Len(path) - first + 1])} ELSE {}

(* An add or a remove without a path gives a root of zeros.                  *)
delta_root_of(s, c) ==
    IF c.path_updates = << >> /\ c.kind # "update" THEN {Zeros}
    ELSE apply_path_updates(c.path_updates, s.our_keypair)

compute_root_label(delta_root) == <<"root label", delta_root>>
compute_confirmation_tag(delta_root, transcript, epoch) == <<"tag", delta_root, transcript, epoch>>
serialise_path_updates(path) == path
hash_path_updates(bytes) == <<"path", bytes>>
-----------------------------------------------------------------------------
(* What a commit's signature covers.  The user id is that of the identity.   *)
derive_user_id_from_identity(identity) == <<"user id", identity>>
as_byte(kind) == CASE kind = "add" -> 1 [] kind = "remove" -> 2 [] kind = "update" -> 3
CommitContent(c, identity) ==
    [group_id |-> c.group_id, epoch |-> c.epoch, commit_type |-> c.kind,
     round_hash |-> c.round_hash,
     path_updates_hash |-> hash_path_updates(serialise_path_updates(c.path_updates)),
     committer_leaf_position |-> c.committer_leaf_position,
     committer_user_id |-> derive_user_id_from_identity(identity)]
to_bytes(content) ==
    <<content.group_id, content.epoch, as_byte(content.commit_type), content.round_hash,
      content.path_updates_hash, content.committer_leaf_position, content.committer_user_id>>
sign_commit(identity, content) ==
    [by |-> identity, context |-> "cocoa-sa-commit-sign-v1", over |-> to_bytes(content)]
verify_commit_signature(identity, content, signature) ==
    signature = sign_commit(identity, content)

(* An add, update or remove by a session, with a seed drawn for it.          *)
RemovedUsers(c) == IF c.kind = "remove" THEN {c.subject} ELSE {}
AddedUsers(c) == IF c.kind = "add" THEN {c.subject} ELSE {}
build_commit(kind, s, identity, subject, at, leaf_seed, resolution_keys) ==
    LET seeds == derive_path_seeds(leaf_seed, s.tree.tree_depth + 1)
        delta == derive_delta_root(seeds[Len(seeds)])
        change == [kind |-> kind, subject |-> subject]
        round == h3_round_hash(compute_root_label(delta), RemovedUsers(change), AddedUsers(change))
        unsigned ==
            [kind |-> kind, group_id |-> s.group_id, epoch |-> s.epoch.number + 1,
             subject |-> subject, at |-> at, committer_leaf_position |-> s.our_leaf_position,
             path_updates |-> build_path_updates(s.tree.tree_depth, s.our_leaf_position, seeds,
                                                 resolution_keys),
             round_hash |-> round,
             confirmation_tag |-> compute_confirmation_tag(delta,
                 h3_transcript_hash(transcript_hash(s), round), s.epoch.number + 1)]
    IN [f \in DOMAIN unsigned \cup {"signature"} |->
           IF f = "signature" THEN sign_commit(identity, CommitContent(unsigned, identity))
           ELSE unsigned[f]]

(* The checks that process_add, process_update and process_remove make       *)
(* alike, and the round hash they compute from what they derived themselves. *)
round_hash_matches_mutant(c, delta) == TRUE
round_hash_matches(c, delta) ==
    c.round_hash = h3_round_hash(compute_root_label(delta), RemovedUsers(c), AddedUsers(c))
commit_verifies(s, tree, c, identity) ==
    /\ c.group_id = s.group_id
    /\ c.epoch = s.epoch.number + 1
    /\ verify_commit_signature(identity, CommitContent(c, identity), c.signature)
    /\ c.committer_leaf_position < s.tree.member_count
    /\ ~ is_blank(tree, leaf(tree.tree_depth, c.committer_leaf_position))
    /\ \E delta \in delta_root_of(s, c) :
        /\ c.confirmation_tag = compute_confirmation_tag(delta,
               h3_transcript_hash(transcript_hash(s), c.round_hash), c.epoch)
        /\ round_hash_matches(c, delta)

(* The tree takes the announced keys.                                        *)
update_tree_from_path_updates(tree, path) ==
    insert(tree, [n \in {path[level].node_index : level \in DOMAIN path} |->
        populated((CHOOSE u \in {path[level] : level \in DOMAIN path} :
                       u.node_index = n).new_public_key)])

(* The session moves along a commit it verified, with the tree it made of it.*)
move_along(s, c, tree) ==
    LET delta == CHOOSE d \in delta_root_of(s, c) : TRUE
    IN advance_session([s EXCEPT !.tree = tree], delta,
                       h3_transcript_hash(transcript_hash(s), c.round_hash))

(* The three handlers: the session after the commit, or an error.            *)
process_add(s, c, identity) ==
    LET count == c.at + 1
        scratch == grow_if_needed(s.tree, count)
        written == update_tree_from_path_updates(set_member_count(scratch, count), c.path_updates)
    IN IF /\ commit_verifies(s, scratch, c, identity)
          /\ ~ is_member(s, c.subject)
          /\ ~ is_populated(scratch, leaf(scratch.tree_depth, c.at))
       THEN insert_member(move_along(s, c, mark_member_as_unmerged(written, c.at)), c.subject)
       ELSE Refused
process_update(s, c, identity) ==
    LET written == update_tree_from_path_updates(s.tree, c.path_updates)
    IN IF commit_verifies(s, s.tree, c, identity)
       THEN move_along(s, c, clear_unmerged_on_path(written, c.committer_leaf_position,
                                                    s.our_leaf_position))
       ELSE Refused
process_remove(s, c, identity) ==
    LET scratch == blank_node(s.tree, leaf(s.tree.tree_depth, c.at))
        written == update_tree_from_path_updates(scratch, c.path_updates)
    IN IF c.at # s.our_leaf_position /\ commit_verifies(s, s.tree, c, identity)
       THEN [move_along(s, c, written) EXCEPT !.members = @ \ {c.subject}]
       ELSE Refused
process_commit(s, c, identity) ==
    CASE c.kind = "add" -> process_add(s, c, identity)
      [] c.kind = "update" -> process_update(s, c, identity)
      [] c.kind = "remove" -> process_remove(s, c, identity)
-----------------------------------------------------------------------------
(* Welcomes.  An encapsulation has two parts, one for each KEM, and both are *)
(* of one secret; encrypted_info is a nonce and what is sealed.              *)
encapsulate(key, draw) == <<<<"x448", key, draw>>, <<"sntrup761", key, draw>>>>
decapsulate(kem, e) == <<"shared", kem, Tail(e[1]), Tail(e[2])>>
derive_welcome_key(shared_secret) == <<"welcome key", shared_secret>>
Shared(key, draw) == decapsulate(key, encapsulate(key, draw))

encrypt_welcome_info(info, key, draw, data) ==
    <<<<"nonce", draw>>, [key |-> derive_welcome_key(Shared(key, draw)), aad |-> data,
                          nonce |-> draw, text |-> info]>>
(* The text of a welcome, in a set; nothing if it does not open.             *)
decrypt_welcome_info(info, encapsulation, kem, data) ==
    IF /\ info[2].key = derive_welcome_key(decapsulate(kem, encapsulation))
       /\ info[1] = <<"nonce", info[2].nonce>>
       /\ info[2].aad = data
    THEN {info[2].text} ELSE {}

(* WR-05: the lengths keep the boundary of the last two fields.              *)
welcome_sign_body(w) ==
    <<w.group_id, w.epoch, w.leaf_position, w.tree_depth, w.member_count,
      Len(w.encapsulation)>> \o w.encapsulation \o <<Len(w.encrypted_info)>> \o w.encrypted_info
sign_welcome(identity, w) ==
    [by |-> identity, context |-> "cocoa-sa-welcome-sign-v1", over |-> welcome_sign_body(w)]
welcome(s, identity, epoch, position, count, info, key, draw, data) ==
    LET unsigned ==
            [group_id |-> s.group_id, epoch |-> epoch, leaf_position |-> position,
             tree_depth |-> s.tree.tree_depth, member_count |-> count,
             encrypted_info |-> encrypt_welcome_info(info, key, draw, data),
             encapsulation |-> encapsulate(key, draw)]
    IN [f \in DOMAIN unsigned \cup {"signature"} |->
           IF f = "signature" THEN sign_welcome(identity, unsigned) ELSE unsigned[f]]

(* A session, or the name of the step that failed.                           *)
process_welcome(user, kem, w, identity) ==
    IF w.signature # sign_welcome(identity, w) THEN [error |-> "signature"]
    ELSE IF Len(w.encapsulation) # 2 THEN [error |-> "malformed"]
    ELSE LET opened == decrypt_welcome_info(w.encrypted_info, w.encapsulation, kem,
                                            <<"group id", w.group_id>>)
         IN IF opened = {} THEN [error |-> "sealed"]
            ELSE LET text == CHOOSE t \in opened : TRUE
                     joined == join_group(w.group_id, user, kem, w.leaf_position, w.tree_depth,
                                          w.member_count, text[1], text[2])
                     Advanced[n \in 0..w.epoch] ==
                         IF n = 0 THEN joined ELSE advance_session(Advanced[n - 1], Zeros, text[2])
                 IN Advanced[w.epoch]
=============================================================================
