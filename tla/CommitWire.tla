----------------------------- MODULE CommitWire -----------------------------
(* Commits and welcomes between members, with a server that may put together *)
(* what it hands over from those of two: three founders hold sessions of two *)
(* groups, one of which has forked; two of them commit and welcome.          *)
EXTENDS Commits

CONSTANTS
    Committers,     \* leaves, and identities, of the founders that commit
    Receivers,      \* those that take commits
    Applicants,     \* users that may be added
    Places,         \* where a founder's session may be, see founder_session
    MaxSent         \* bound on what is made

(* Of the three founders some commit and some receive; who is added is none  *)
(* of them.  A transcript that hosts pass on tells the history before it.    *)
ASSUME MembersAssumption ==
    /\ Committers \cup Receivers \subseteq 0..2 /\ Applicants \cap 0..2 = {}
ASSUME PlacesAssumption ==
    /\ \A p \in Places : p.deltas \in Seq(Nat)
    /\ \A p, q \in Places :
          /\ p.group = q.group /\ Len(p.deltas) = Len(q.deltas)
          /\ p.deltas # << >> => p.deltas[Len(p.deltas)] = q.deltas[Len(q.deltas)]
          => p = q
(* Four members fill a tree of depth two: all that the proofs need to know   *)
(* of the powers of two in depth_for_members.                                *)
ASSUME RoomAssumption == depth_for_members(4) = 2

VARIABLES
    sent,       \* every commit made: where, and the wire
    welcomed,   \* every welcome made: where, for whom, and the wire
    landed      \* what became of the wire handed over, with it; or NotYet

NotYet == [what |-> "nothing"]
wire_vars == <<sent, welcomed, landed>>
-----------------------------------------------------------------------------
(* Three founders, whose leaves are 0, 1 and 2 and whose hosts filled in the *)
(* leaves of the new group.  A place is a group and the deltas its hosts     *)
(* moved it along by; two places of one group and length are a fork.         *)
Founders == 0..2
identity_kem(u) == <<"identity", u>>
one_time_key(u) == <<"one-time", u>>
founders_tree ==
    [nodes |-> [n \in {m \in NodeIndex(2) : m.depth = 2 => m.position \in Founders} |->
                   IF n.depth = 2 THEN populated(identity_kem(n.position)) ELSE blank],
     tree_depth |-> 2, member_count |-> 3]

founder_session(u, place) ==
    LET founded == [join_group(place.group, u, identity_kem(u), u, 2, 3,
                               <<"group", place.group>>, Zeros) EXCEPT !.tree = founders_tree]
        Moved[n \in 0..Len(place.deltas)] ==
            IF n = 0 THEN founded
            ELSE advance_session(Moved[n - 1], <<"host", place.deltas[n]>>,
                                 <<"host", place.deltas[n]>>)
    IN Moved[Len(place.deltas)]

WireInit == sent = {} /\ welcomed = {} /\ landed = NotYet

Room == landed = NotYet /\ Cardinality(sent) + Cardinality({w.place : w \in welcomed}) < MaxSent
Draw == <<"drawn", Cardinality(sent)>>

(* create_group: the first founder welcomes the other two.                   *)
create_group(place) ==
    /\ Room /\ place.deltas = << >>
    /\ welcomed' = welcomed \cup
          {[by |-> 0, place |-> place, to |-> identity_kem(u), wire |->
                welcome(founder_session(0, place), 0, 0, u, 3,
                        <<<<"group", place.group>>, Zeros>>, identity_kem(u), <<"founding", place.group, u>>,
                        <<"group id", place.group>>)] : u \in Founders \ {0}}
    /\ UNCHANGED <<sent, landed>>

MakeCommit(u, place, c, welcomes) ==
    /\ Room
    /\ sent' = sent \cup {[by |-> u, place |-> place, wire |-> c]}
    /\ welcomed' = welcomed \cup welcomes
    /\ UNCHANGED landed

add_member(u, place, x) ==
    LET s == founder_session(u, place)
        at == s.tree.member_count
        grown == [s EXCEPT !.tree = grow_if_needed(@, at + 1)]
        c == build_commit("add", grown, u, x, at, Draw,
                compute_resolution_keys(grown.tree, u, {}, {[at |-> at, key |-> one_time_key(x)]}))
        delta == derive_delta_root(derive_path_seeds(Draw, grown.tree.tree_depth + 1)[3])
        serialise_tree_info == [n \in path_to_root(leaf(2, u)) |-> public_key(grown.tree, n)]
        info == <<s.epoch.secrets.init_secret,
                  h3_transcript_hash(transcript_hash(s), c.round_hash), delta,
                  serialise_tree_info>>
    IN MakeCommit(u, place, c,
          {[by |-> u, place |-> place, to |-> one_time_key(x), wire |->
                welcome(grown, u, s.epoch.number + 1, at, at + 1, info, one_time_key(x), Draw,
                        <<"cocoa-welcome-add">>)]})

(* An update names nobody; the server may say that it does.                  *)
create_update(u, place) ==
    LET s == founder_session(u, place)
    IN MakeCommit(u, place,
          build_commit("update", s, u, CHOOSE x \in Applicants : TRUE, 3, Draw,
                       compute_resolution_keys(s.tree, u, {}, {})), {})

remove_member(u, place, v) ==
    LET s == founder_session(u, place)
        removed == leaf(s.tree.tree_depth, v)
        blanked == [s EXCEPT !.tree = blank_node(@, removed)]
    IN /\ v # u
       /\ MakeCommit(u, place,
             build_commit("remove", blanked, u, v, v, Draw,
                          compute_resolution_keys(blanked.tree, u, path_to_root(removed), {})), {})

(* What can be put together from two wires: up to two fields of the other,   *)
(* or one node of the other's path.                                          *)
Mixtures(c, d) ==
    {[f \in DOMAIN c |-> IF f \in fields THEN d[f] ELSE c[f]] :
        fields \in {S \in SUBSET DOMAIN c : Cardinality(S) <= 2}}
PathMixtures(c, d) ==
    {[c EXCEPT !.path_updates[n] = d.path_updates[n]] : n \in DOMAIN c.path_updates}
(* The last two fields of a welcome, split elsewhere.                        *)
Resplit(w) ==
    LET both == w.encapsulation \o w.encrypted_info IN
    {[w EXCEPT !.encapsulation = SubSeq(both, 1, n),
               !.encrypted_info = SubSeq(both, n + 1, Len(both))] : n \in 1..3}

(* A commit reaches a receiver whose host names some identity; one that was  *)
(* put together and is refused leaves no trace.                              *)
TakeCommit(r, place, identity) == \E c, d \in sent :
    \E w \in Mixtures(c.wire, d.wire) \cup PathMixtures(c.wire, d.wire) :
        LET s == founder_session(r, place)
            after == process_commit(s, w, identity)
        IN /\ landed = NotYet
           /\ after # Refused \/ (w = c.wire /\ c.place = place /\ c.by = identity)
           /\ landed' = [what |-> "commit", wire |-> w, identity |-> identity, place |-> place,
                         receiver |-> r, after |-> after]
           /\ UNCHANGED <<sent, welcomed>>

TakeWelcome(identity) == \E c, d \in welcomed :
    \E w \in Mixtures(c.wire, d.wire) \cup Resplit(c.wire), kem \in {c.to, d.to} :
        LET after == process_welcome(kem[2], kem, w, identity)
        IN /\ landed = NotYet
           /\ after # [error |-> "signature"] \/ (w = c.wire /\ c.by = identity)
           /\ landed' = [what |-> "welcome", wire |-> w, identity |-> identity, kem |-> kem,
                         after |-> after]
           /\ UNCHANGED <<sent, welcomed>>

WireNext ==
    \/ \E place \in Places :
        \/ create_group(place)
        \/ \E u \in Committers :
            \/ \E x \in Applicants : add_member(u, place, x)
            \/ create_update(u, place)
            \/ \E v \in Founders : remove_member(u, place, v)
        \/ \E r \in Receivers, u \in Committers : TakeCommit(r, place, u)
    \/ \E u \in Committers : TakeWelcome(u)

WireSpec == WireInit /\ [][WireNext]_wire_vars
-----------------------------------------------------------------------------
(* A member moves along a commit exactly if it is one that the named         *)
(* committer made at the member's own place and sealed to the member, with   *)
(* no field of it altered but the leaf position of an added or removed       *)
(* member, which neither signature nor round hash covers; and it then shares *)
(* the committer's next secret.  What the server puts together of others is  *)
(* refused.                                                                  *)
Unbound(c) == IF c.kind = "update" THEN {"at", "subject"} ELSE {"at"}
SameCommit(c, d) == \A f \in DOMAIN c \ Unbound(c) : c[f] = d[f]
SealedTo(r, c) == \E n \in DOMAIN c.path_updates :
    decrypt_seed(c.path_updates[n], identity_kem(r)) # {}

CommitsLandAsMade ==
    LET x == landed IN x.what = "commit" =>
        ((x.after # Refused) =
            \E c \in sent :
                /\ c.by = x.identity /\ c.place = x.place
                /\ SameCommit(c.wire, x.wire)
                /\ SealedTo(x.receiver, c.wire))

(* Every welcome whose signature is accepted is one the named member made,   *)
(* as it was made, so that nothing else is ever decapsulated; it opens for   *)
(* no keypair but the one it was made for; and a founder joins with the      *)
(* creator's first secret, at its own leaf.                                  *)
WelcomesJoinAsMade ==
    LET x == landed IN x.what = "welcome" =>
        \E c \in welcomed :
            /\ c.by = x.identity /\ c.wire = x.wire
            /\ c.to # x.kem => x.after = [error |-> "sealed"]
            /\ c.to = x.kem /\ c.wire.epoch = 0 =>
                  /\ x.after.epoch = founder_session(0, c.place).epoch
                  /\ identity_kem(x.after.our_leaf_position) = x.kem
                  /\ x.after.tree.tree_depth = 2 /\ x.after.tree.member_count = 3

(* What add_member says of its welcome ("so the new member can authenticate  *)
(* the welcome in process_welcome before adopting group state", add.rs 398): *)
(* with its one-time key, the added member joins there, in the epoch its     *)
(* adder moves on to.                                                        *)
NextEpoch(c) ==
    LET info == c.wire.encrypted_info[2].text
    IN advance_session(founder_session(c.by, c.place), info[3], info[2]).epoch
AddedMembersJoin ==
    LET x == landed IN x.what = "welcome" =>
        \A c \in welcomed :
            c.by = x.identity /\ c.wire = x.wire /\ c.to = x.kem /\ c.wire.epoch > 0 =>
                "epoch" \in DOMAIN x.after /\ x.after.epoch = NextEpoch(c)

(* Whatever the server puts together, what lands is what was made.           *)
WiresLandAsMade == CommitsLandAsMade /\ WelcomesJoinAsMade
=============================================================================
