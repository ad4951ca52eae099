---------------------------- MODULE RatchetTree ----------------------------
(***************************************************************************)
(* The ratchet tree of crates/trelis-cocoa/src/tree: node indices, the     *)
(* partial view a member keeps, and the operations of PartialTreeView on   *)
(* it.  A node state is the key it is populated with, NoKey when it is     *)
(* blank, and the leaves that are unmerged at it; the signatures, hashes   *)
(* and origins a populated node also stores decide nothing.                *)
(***************************************************************************)
EXTENDS Integers, FiniteSets, FiniteSetsExt

NoKey == <<>>
-----------------------------------------------------------------------------
(***************************************************************************)
(* NodeIndex: the root has depth 0, and depth d has the positions          *)
(* 0 .. 2^d - 1.                                                           *)
(***************************************************************************)
NodeIndex(tree_depth) ==
    {n \in [depth : 0..tree_depth, position : 0..(2^tree_depth - 1)] :
        n.position < 2^n.depth}

leaf(tree_depth, position) == [depth |-> tree_depth, position |-> position]

sibling(n) ==
    [n EXCEPT !.position = IF n.position % 2 = 0 THEN @ + 1 ELSE @ - 1]

(* The ancestor of n at a depth at or above its own.                       *)
AncestorAt(n, depth) ==
    [depth |-> depth, position |-> n.position \div 2^(n.depth - depth)]

is_descendant_of(n, other) ==
    other.depth < n.depth /\ AncestorAt(n, other.depth) = other

(* The node a number of levels above a leaf; level 0 is the leaf itself.   *)
PathNode(l, level) == AncestorAt(l, l.depth - level)
path_to_root(l) == {PathNode(l, level) : level \in 0..l.depth}

(* ceil(log2(count)), and 0 for no member.                                 *)
depth_for_members(count) ==
    CHOOSE d \in 0..count : 2^d >= count /\ (d = 0 \/ 2^(d - 1) < count)
-----------------------------------------------------------------------------
(***************************************************************************)
(* PartialTreeView.                                                        *)
(***************************************************************************)
EmptyNodes == [n \in {} |-> NoKey]
blank == [key |-> NoKey, unmerged |-> {}]
populated(key) == [key |-> key, unmerged |-> {}]

contains(view, n) == n \in DOMAIN view.nodes
public_key(view, n) == IF contains(view, n) THEN view.nodes[n].key ELSE NoKey
is_populated(view, n) == public_key(view, n) # NoKey
is_blank(view, n) == contains(view, n) /\ view.nodes[n].key = NoKey

(* insert, once for each of a set of nodes given with their states.        *)
insert(view, states) ==
    [view EXCEPT !.nodes =
        [n \in DOMAIN view.nodes \cup DOMAIN states |->
            IF n \in DOMAIN states THEN states[n] ELSE view.nodes[n]]]

set_member_count(view, count) == [view EXCEPT !.member_count = count]

blank_node_mutant(view, n) == view   \* the leaf keeps its key
blank_node(view, n) ==
    IF contains(view, n) THEN [view EXCEPT !.nodes[n] = blank] ELSE view

(* One level: every node the view holds moves down with its position.      *)
grow_tree(view) ==
    [view EXCEPT
        !.tree_depth = @ + 1,
        !.nodes = [n \in {[m EXCEPT !.depth = @ + 1] : m \in DOMAIN view.nodes} |->
                      view.nodes[[n EXCEPT !.depth = @ - 1]]]]

grow_if_needed(view, count) ==
    IF depth_for_members(count) > view.tree_depth THEN grow_tree(view) ELSE view

total_unmerged_leaves(view) ==
    MapThenSumSet(LAMBDA n : Cardinality(view.nodes[n].unmerged), DOMAIN view.nodes)

(* add_unmerged_leaf on the blank nodes of the new member's path.          *)
mark_member_as_unmerged(view, position) ==
    [view EXCEPT !.nodes = [n \in DOMAIN view.nodes |->
        IF /\ n \in path_to_root(leaf(view.tree_depth, position))
           /\ is_blank(view, n)
        THEN [view.nodes[n] EXCEPT !.unmerged = @ \cup {position}]
        ELSE view.nodes[n]]]

(* remove_unmerged_leaf of our position along the updater's path.          *)
clear_unmerged_on_path(view, updater_position, our_position) ==
    [view EXCEPT !.nodes = [n \in DOMAIN view.nodes |->
        IF n \in path_to_root(leaf(view.tree_depth, updater_position))
        THEN [view.nodes[n] EXCEPT !.unmerged = @ \ {our_position}]
        ELSE view.nodes[n]]]
-----------------------------------------------------------------------------
(***************************************************************************)
(* Resolution.  resolve descends from a node through blank internal nodes  *)
(* and stops at a populated node, at a leaf and at a node the view does    *)
(* not hold.                                                               *)
(***************************************************************************)
Visited(view, w) ==
    {w} \cup {n \in NodeIndex(view.tree_depth) :
        /\ is_descendant_of(n, w)
        /\ \A depth \in w.depth..(n.depth - 1) : is_blank(view, AncestorAt(n, depth))}

resolve(view, w) == {n \in Visited(view, w) : is_populated(view, n)}

(* reconstruct_resolution_complete: the view holds every node visited.     *)
complete(view, w) == \A n \in Visited(view, w) : contains(view, n)

(* The resolution of the sibling of a path node together with its unmerged *)
(* leaves, which only blank nodes have.                                    *)
compute_lj(view, path_node) ==
    IF path_node.depth = 0 THEN {}
    ELSE LET resolution == resolve(view, sibling(path_node)) IN
         resolution \cup
             {leaf(view.tree_depth, position) :
                 position \in UNION {view.nodes[n].unmerged : n \in resolution}}

(* The key the tree label of the sibling binds; none for the root.         *)
sibling_label(view, path_node) ==
    IF path_node.depth = 0 THEN NoKey ELSE public_key(view, sibling(path_node))
=============================================================================
