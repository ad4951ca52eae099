---------------------------- MODULE CocoaGroup ----------------------------
(***************************************************************************)
(* The group operations of crates/trelis-cocoa: several CocoaSessions, one *)
(* per member, that create commits (update, add, remove) and process the   *)
(* commits of others.  The server that carries commits is not trusted to   *)
(* order them: a commit may reach a member late, never, more than once, or *)
(* after a rival commit for the same epoch.                                *)
(*                                                                         *)
(* Keys are symbolic.  The operation numbered n draws a leaf seed; the     *)
(* node at a level of its path gets the key <<n, level>>.  A founder's own *)
(* keypair is <<0, position>>, a rotated keypair <<n, ROTATED>>, and a new *)
(* member's one-time key <<n, ONE_TIME>>.  The tree of a new session is    *)
(* empty: the nodes a host puts into it come from outside the library.     *)
(***************************************************************************)
EXTENDS RatchetTree, Sequences

CONSTANTS
    Founders,       \* the users create_group is called with, in leaf order
    Online,         \* those of them that take part; the first creates the group
    Newcomers,      \* users that may be added later
    HostViews,      \* what a host may put into the tree of a new session
    MAX_GROUP_SIZE, MAX_TREE_DEPTH, MAX_UNMERGED_LEAVES,
    MaxOperations, MaxFailures   \* bounds on a behaviour

Creator == Founders[1]
FounderSet == {Founders[i] : i \in 1..Len(Founders)}
Users == FounderSet \cup Newcomers
PositionOf(u) == (CHOOSE i \in 1..Len(Founders) : Founders[i] = u) - 1

ASSUME MembersAssumption ==
    /\ Len(Founders) \in Nat \ {0}
    /\ \A i, j \in 1..Len(Founders) : Founders[i] = Founders[j] => i = j
    /\ Creator \in Online
    /\ Online \subseteq FounderSet
    /\ Newcomers \cap FounderSet = {}
    /\ HostViews # {} /\ HostViews \subseteq {"empty", "founders"}
ASSUME GroupLimitsAssumption ==
    /\ {MAX_TREE_DEPTH, MAX_UNMERGED_LEAVES, MaxOperations, MaxFailures} \subseteq Nat
    /\ MAX_GROUP_SIZE \in Nat \ {0}
    /\ Len(Founders) <= MAX_GROUP_SIZE
    /\ depth_for_members(Len(Founders)) \in 0..MAX_TREE_DEPTH
(* True of powers of two whatever the limits; the proofs rest on it.       *)
ASSUME PowersAssumption ==
    /\ \A level \in 0..MAX_TREE_DEPTH : 2^level > 0
    /\ \A count \in 1..MAX_GROUP_SIZE : depth_for_members(count) \in Nat

VARIABLES
    session,    \* user -> its CocoaSession, or NoSession
    commits,    \* every commit handed to the server
    welcomes,   \* every welcome handed to the server
    fresh,      \* the number of the next operation
    failed      \* history: users an operation of whose failed half way

group_vars == <<session, commits, welcomes, fresh, failed>>

NoSession == [position |-> -1]
Joined == {u \in Online : session[u] # NoSession}

ROTATED == -1
ONE_TIME == -2
FounderKey(u) == <<0, PositionOf(u)>>
-----------------------------------------------------------------------------
check_size_limits_mutant(depth, size, unmerged) == unmerged <= MAX_UNMERGED_LEAVES
check_size_limits(depth, size, unmerged) ==
    /\ size <= MAX_GROUP_SIZE
    /\ depth <= MAX_TREE_DEPTH
    /\ unmerged <= MAX_UNMERGED_LEAVES

check_group_growth_limits(count) == check_size_limits(depth_for_members(count), count, 0)

(* What the host knows of a new group: nothing, or the leaves of the       *)
(* founders and that everything above them is blank.                       *)
HostNodes(host, tree_depth) ==
    IF host = "empty" THEN EmptyNodes
    ELSE [n \in {m \in NodeIndex(tree_depth) :
                    m.depth = tree_depth => m.position < Len(Founders)} |->
            IF n.depth = tree_depth THEN populated(<<0, n.position>>) ELSE blank]

(* CocoaSession::create_group and join_group at epoch 0, then the host.    *)
new_session(u, position, tree_depth, member_count, host) ==
    [position   |-> position,
     view       |-> [tree_depth   |-> tree_depth,
                     member_count |-> member_count,
                     nodes        |-> HostNodes(host, tree_depth)],
     keypair    |-> FounderKey(u),
     secret     |-> <<>>,      \* the delta roots mixed into the epoch secret
     transcript |-> <<>>,      \* the rounds hashed into the transcript
     members    |-> {u}]

epoch_number(s) == Len(s.transcript)

advance_epoch(s, n, round) ==
    [s EXCEPT !.secret = Append(@, n), !.transcript = Append(@, round)]

rotate_session_keypair(s, n) == [s EXCEPT !.keypair = <<n, ROTATED>>]

insert_member_mutant(s, u) == s   \* the registry is not told
insert_member(s, u) == [s EXCEPT !.members = @ \cup {u}]
remove_member_entry(s, u) == [s EXCEPT !.members = @ \ {u}]

(* create_group: the creator's session and a welcome for everyone else.    *)
GroupInit == \E host \in HostViews :
    LET count == Len(Founders)
        depth == depth_for_members(count)
    IN /\ session = [u \in Online |->
            IF u = Creator THEN new_session(u, 0, depth, count, host) ELSE NoSession]
       /\ welcomes = {[to |-> u, position |-> PositionOf(u), tree_depth |-> depth,
                       member_count |-> count, aad |-> "group_id"] :
                          u \in FounderSet \ {Creator}}
       /\ commits = {}
       /\ fresh = 1
       /\ failed = {}

(* process_welcome decrypts with the group id as associated data, which    *)
(* create_group sealed with and add_member did not.                        *)
process_welcome(u) == \E w \in welcomes, host \in HostViews :
    /\ session[u] = NoSession
    /\ w.to = u
    /\ check_size_limits(w.tree_depth, w.member_count, 0)
    /\ w.aad = "group_id"
    /\ session' = [session EXCEPT ![u] =
                      new_session(u, w.position, w.tree_depth, w.member_count, host)]
    /\ UNCHANGED <<commits, welcomes, fresh, failed>>
-----------------------------------------------------------------------------
(***************************************************************************)
(* Building a commit.                                                      *)
(***************************************************************************)
NoUser == "none"
NoLeaf == -1

Recipients(view, nodes) ==
    {[position |-> n.position, key |-> public_key(view, n)] :
        n \in {m \in nodes : is_populated(view, m)}}

(* compute_resolution_sets_and_keys, and its variants for add and remove.  *)
UpdateRecipients(view, path_node) == Recipients(view, compute_lj(view, path_node))

is_in_sibling_subtree(path_node, target) ==
    /\ path_node.depth > 0
    /\ \/ target = sibling(path_node)
       \/ is_descendant_of(target, sibling(path_node))

AddRecipients(view, path_node, new_leaf, one_time_key) ==
    UpdateRecipients(view, path_node) \cup
        IF is_in_sibling_subtree(path_node, new_leaf)
        THEN {[position |-> new_leaf.position, key |-> one_time_key]}
        ELSE {}

RemoveRecipients(view, path_node, removed_leaf) ==
    Recipients(view, {n \in compute_lj(view, path_node) :
                          n # removed_leaf /\ ~ is_descendant_of(removed_leaf, n)})

our_leaf(s) == leaf(s.view.tree_depth, s.position)
our_path(s) == path_to_root(our_leaf(s))

(* build_path_updates_with_seeds: at each level the label of the sibling   *)
(* that h1 binds, and the recipients of the seed, whose keys h2 binds.     *)
build_path(s, recipients) ==
    [level \in 0..s.view.tree_depth |->
        LET v == PathNode(our_leaf(s), level)
        IN [label |-> IF level = 0 THEN NoKey ELSE sibling_label(s.view, v),
            seeds |-> recipients[v]]]

(* The signed commit, and the transcript its confirmation tag extends.     *)
commit(u, s, kind, subject, at, path) ==
    [committer  |-> u,
     leaf       |-> s.position,
     tree_depth |-> s.view.tree_depth,
     kind       |-> kind,
     at         |-> at,
     epoch      |-> epoch_number(s) + 1,
     path       |-> path,
     transcript |-> s.transcript,
     round      |-> [root |-> fresh, kind |-> kind, subject |-> subject]]

Publish(u, s, c) ==
    /\ commits' = commits \cup {c}
    /\ session' = [session EXCEPT ![u] = s]
    /\ fresh' = fresh + 1
    /\ UNCHANGED failed

(* Randomness, encapsulation or signing failed: the call returns an error  *)
(* and the session keeps what was already written.                         *)
Fail(u, s) ==
    /\ Cardinality(failed) < MaxFailures
    /\ failed' = failed \cup {u}
    /\ session' = [session EXCEPT ![u] = s]
    /\ fresh' = fresh + 1
    /\ UNCHANGED <<commits, welcomes>>

create_update(u) ==
    LET s == session[u]
        c == commit(u, s, "update", NoUser, NoLeaf,
                    build_path(s, [v \in our_path(s) |-> UpdateRecipients(s.view, v)]))
        rotated == rotate_session_keypair(s, fresh)
    IN /\ u \in Joined
       /\ fresh <= MaxOperations
       /\ \/ Publish(u, advance_epoch(rotated, fresh, c.round), c) /\ UNCHANGED welcomes
          \/ Fail(u, rotated)

add_member(u, new) ==
    LET s == session[u]
        new_position == s.view.member_count
        count == new_position + 1
        grown == [s EXCEPT !.view = grow_if_needed(@, count)]
        new_leaf == leaf(grown.view.tree_depth, new_position)
        c == commit(u, grown, "add", new, new_position,
                    build_path(grown, [v \in our_path(grown) |->
                        AddRecipients(grown.view, v, new_leaf, <<fresh, ONE_TIME>>)]))
        counted == [grown EXCEPT !.view = set_member_count(@, count)]
        marked == [counted EXCEPT !.view = mark_member_as_unmerged(@, new_position)]
    IN /\ u \in Joined
       /\ fresh <= MaxOperations
       /\ new \notin s.members
       /\ check_group_growth_limits(count)
       /\ \/ /\ Publish(u, insert_member(advance_epoch(marked, fresh, c.round), new), c)
             /\ welcomes' = welcomes \cup
                   {[to |-> new, position |-> new_position,
                     tree_depth |-> grown.view.tree_depth, member_count |-> count,
                     aad |-> "cocoa-welcome-add"]}
          \/ Fail(u, grown)
          \/ Fail(u, counted)

(* The leaves the host knows: those of the founders, and of the members    *)
(* added by commits this session went through.                             *)
Rounds(s) == {s.transcript[i] : i \in 1..Len(s.transcript)}
Roster(s) ==
    {[user |-> f, position |-> PositionOf(f)] : f \in FounderSet} \cup
    {[user |-> c.round.subject, position |-> c.at] :
        c \in {d \in commits : d.kind = "add" /\ d.round \in Rounds(s)}}

remove_member(u, member) ==
    LET s == session[u]
        removed_leaf == leaf(s.view.tree_depth, member.position)
        blanked == [s EXCEPT !.view = blank_node(@, removed_leaf)]
        c == commit(u, blanked, "remove", member.user, member.position,
                    build_path(blanked, [v \in our_path(blanked) |->
                        RemoveRecipients(blanked.view, v, removed_leaf)]))
    IN /\ u \in Joined
       /\ fresh <= MaxOperations
       /\ member.position # s.position
       /\ member.position < s.view.member_count
       /\ \/ Publish(u, advance_epoch(blanked, fresh, c.round), c) /\ UNCHANGED welcomes
          \/ Fail(u, blanked)
-----------------------------------------------------------------------------
(***************************************************************************)
(* Processing a commit.  The signature verifies: the host supplies the     *)
(* committer's identity, and the server cannot forge one.                  *)
(***************************************************************************)
node_index(c, level) == PathNode(leaf(c.tree_depth, c.leaf), level)

(* apply_path_updates: some level has a seed encrypted to our keypair, and *)
(* the chain from it leads to the delta root.                              *)
apply_path_updates(s, c) ==
    \E level \in DOMAIN c.path : \E e \in c.path[level].seeds : e.key = s.keypair

(* The confirmation tag binds the delta root, the transcript and the epoch;*)
(* the delta root that apply_path_updates returns is the committer's.      *)
confirmation_tag_matches_mutant(s, c) == TRUE   \* the tag is not compared
confirmation_tag_matches(s, c) == c.transcript = s.transcript

verify_parent_hashes(view, c) ==
    \A level \in DOMAIN c.path \ {0} :
        LET v == node_index(c, level)
            update == c.path[level]
            local == Recipients(view, IF v.depth = 0 THEN {} ELSE resolve(view, sibling(v)))
            Positions(seeds) == {e.position : e \in seeds}
            KeysOf(seeds) == {e.key : e \in seeds}
        IN /\ sibling_label(view, v) = update.label
           /\ v.depth = 0 \/ complete(view, sibling(v)) =>
                /\ Positions(update.seeds) = Positions(local)
                /\ KeysOf(update.seeds) = KeysOf(local)

committer_leaf_is_valid(s, view, c) ==
    /\ c.leaf < s.view.member_count
    /\ ~ is_blank(view, leaf(view.tree_depth, c.leaf))

update_tree_mutant(view, c) == view   \* the path is not written
update_tree_from_path_updates(view, c) ==
    insert(view, [n \in {node_index(c, level) : level \in DOMAIN c.path} |->
                     populated(<<c.round.root, c.tree_depth - n.depth>>)])

Accepts(s, c) ==
    /\ c.epoch = epoch_number(s) + 1
    /\ apply_path_updates(s, c)
    /\ confirmation_tag_matches(s, c)

process_update(u, c) ==
    LET s == session[u]
        updated == update_tree_from_path_updates(s.view, c)
    IN /\ u \in Joined /\ c.kind = "update"
       /\ check_size_limits(s.view.tree_depth, s.view.member_count,
                            total_unmerged_leaves(s.view))
       /\ committer_leaf_is_valid(s, s.view, c)
       /\ Accepts(s, c)
       /\ verify_parent_hashes(s.view, c)
       /\ session' = [session EXCEPT ![u] =
             advance_epoch([s EXCEPT !.view =
                 clear_unmerged_on_path(updated, c.leaf, s.position)], c.round.root, c.round)]
       /\ UNCHANGED <<commits, welcomes, fresh, failed>>

(* What process_add makes of the session's tree once every check passed.   *)
grow_for_add_mutant(view, count) == grow_if_needed(view, count)   \* count not set
grow_for_add(view, count) == set_member_count(grow_if_needed(view, count), count)

process_add(u, c) ==
    LET s == session[u]
        count == c.at + 1
        scratch == grow_if_needed(s.view, count)
        updated == update_tree_from_path_updates(grow_for_add(s.view, count), c)
        marked == mark_member_as_unmerged(updated, c.at)
    IN /\ u \in Joined /\ c.kind = "add"
       /\ check_size_limits(depth_for_members(count), count, total_unmerged_leaves(s.view))
       /\ committer_leaf_is_valid(s, scratch, c)
       /\ c.round.subject \notin s.members
       /\ ~ is_populated(scratch, leaf(scratch.tree_depth, c.at))
       /\ Accepts(s, c)
       /\ verify_parent_hashes(scratch, c)
       /\ session' = [session EXCEPT ![u] =
             insert_member(advance_epoch([s EXCEPT !.view = marked],
                                         c.round.root, c.round), c.round.subject)]
       /\ UNCHANGED <<commits, welcomes, fresh, failed>>

process_remove(u, c) ==
    LET s == session[u]
        scratch == blank_node(s.view, leaf(s.view.tree_depth, c.at))
        updated == update_tree_from_path_updates(scratch, c)
    IN /\ u \in Joined /\ c.kind = "remove"
       /\ check_size_limits(s.view.tree_depth, s.view.member_count,
                            total_unmerged_leaves(s.view))
       /\ c.at # s.position
       /\ committer_leaf_is_valid(s, s.view, c)
       /\ Accepts(s, c)
       /\ verify_parent_hashes(scratch, c)
       /\ session' = [session EXCEPT ![u] =
             remove_member_entry(advance_epoch([s EXCEPT !.view = updated],
                                               c.round.root, c.round), c.round.subject)]
       /\ UNCHANGED <<commits, welcomes, fresh, failed>>
-----------------------------------------------------------------------------
GroupNext == \E u \in Online :
    \/ process_welcome(u)
    \/ create_update(u)
    \/ \E new \in Users : add_member(u, new)
    \/ u \in Joined /\ \E member \in Roster(session[u]) : remove_member(u, member)
    \/ \E c \in commits :
        \/ process_update(u, c)
        \/ process_add(u, c)
        \/ process_remove(u, c)

GroupSpec == GroupInit /\ [][GroupNext]_group_vars
-----------------------------------------------------------------------------
Round == [root : Nat, kind : {"update", "add", "remove"}, subject : Users \cup {NoUser}]
KeysInUse == {NoKey} \cup (Nat \X Int)

SessionOK(s) ==
    /\ DOMAIN s = {"position", "view", "keypair", "secret", "transcript", "members"}
    /\ s.position \in 0..(s.view.member_count - 1)
    /\ s.view.tree_depth \in 0..MAX_TREE_DEPTH
    /\ s.view.member_count \in 1..MAX_GROUP_SIZE
    /\ \A n \in DOMAIN s.view.nodes :
          /\ n \in [depth : Nat, position : Nat]
          /\ s.view.nodes[n].key \in KeysInUse
          /\ s.view.nodes[n].unmerged \subseteq Nat
    /\ s.keypair \in KeysInUse
    /\ s.secret \in Seq(Nat)
    /\ s.transcript \in Seq(Round)
    /\ s.members \subseteq Users

(* Types, and the group size and tree depth within their limits in every   *)
(* session: check_group_growth_limits comes before the growth.             *)
GroupTypeOK ==
    /\ \A u \in Online : session[u] = NoSession \/ SessionOK(session[u])
    /\ \A c \in commits : c.round \in Round /\ c.transcript \in Seq(Round)
    /\ fresh \in Nat
    /\ failed \subseteq Online

(* Members walk one tree of commits: rival commits for one epoch split the *)
(* group into branches whose secrets never mix, and a commit that was      *)
(* delayed, repeated or made on another branch is never applied (the       *)
(* confirmation tag binds the transcript, advance_epoch extends it).       *)
Roots(rounds) == [i \in 1..Len(rounds) |-> rounds[i].root]

Walk == INSTANCE CommitTree WITH
    Members  <- Online,
    Commits  <- 1..MaxOperations,
    branches <- {<<>>} \cup {Roots(Append(c.transcript, c.round)) : c \in commits},
    at       <- [u \in Online |-> IF session[u] = NoSession THEN <<>> ELSE session[u].secret]

MembersWalkOneTree == Walk!Spec

(* A commit replaces its committer's key material for whoever takes it     *)
(* (create_update "provides post-compromise security by replacing our key  *)
(* material", update.rs): no commit that another member makes on top of it *)
(* seals a seed to a keypair that its committer held before.               *)
(* (A member whose own add failed half way holds a tree one level too deep *)
(* and writes the paths of others to the wrong nodes; it is left out.)     *)
History(c) == {c.transcript[i] : i \in 1..Len(c.transcript)}
HeldBefore(c) ==
    {<<0, c.leaf>>} \cup
    {<<b.round.root, ROTATED>> : b \in {m \in commits :
        m.committer = c.committer /\ m.kind = "update" /\ m.round \in History(c)}}

ReplacedKeysGetNothing ==
    \A c, d \in commits :
        /\ c.round \in History(d)
        /\ c.committer \notin failed \cup {d.committer} /\ d.committer \notin failed
        => \A level \in DOMAIN d.path : \A e \in d.path[level].seeds : e.key \notin HeldBefore(c)

(* What process_update says of itself ("derive the new epoch secret") and  *)
(* create_update of its rotation ("Rotate our keypair to match the new     *)
(* leaf key", update.rs 147): a member who stands where an update was made *)
(* finds a seed in it that it can open.                                    *)
UpdatesAreTaken ==
    \A c \in commits, u \in Joined \ failed :
        /\ c.kind = "update" /\ c.committer \notin failed \cup {u}
        /\ c.transcript = session[u].transcript
        => apply_path_updates(session[u], c)

(* Once a member's leaf is removed, neither the removing commit nor any    *)
(* commit made on that branch later seals a seed to the keypair the        *)
(* removed session holds ("encrypts seeds to resolution sets (excluding    *)
(* the removed member)", remove.rs).                                       *)
RemovedBefore(c, position) ==
    \E r \in commits :
        /\ r.kind = "remove" /\ r.at = position
        /\ r = c \/ \E i \in 1..Len(c.transcript) : c.transcript[i] = r.round

RemovedGetsNothing ==
    \A u \in Joined, c \in commits :
        RemovedBefore(c, session[u].position) =>
            \A level \in DOMAIN c.path : \A e \in c.path[level].seeds :
                e.key # session[u].keypair

(* Two members with the same history, neither of whom had an operation     *)
(* fail half way, hold trees of one depth and one member count, so every   *)
(* node index means the same to both.                                      *)
GeometryAgrees ==
    \A u, v \in Joined \ failed :
        session[u].transcript = session[v].transcript =>
            /\ session[u].view.tree_depth = session[v].view.tree_depth
            /\ session[u].view.member_count = session[v].view.member_count

(* No history adds a user twice without removing it in between: the double *)
(* join guards of add_member and process_add hold across sessions.         *)
NoDoubleAdd ==
    \A u \in Joined : LET t == session[u].transcript IN
        \A i, j \in 1..Len(t) :
            i < j /\ t[i].kind = "add" /\ t[j].kind = "add" /\ t[i].subject = t[j].subject =>
                \E k \in i..j : t[k].kind = "remove" /\ t[k].subject = t[i].subject
=============================================================================
