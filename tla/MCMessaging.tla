----------------------------- MODULE MCMessaging -----------------------------
(* What seals the messages of users, in one run of three subjects: the       *)
(* ratchet of two ends, the counter and watermark of a group member, and the *)
(* commits that give a group its secrets.                                    *)
EXTENDS KemRatchet, CocoaChannel, MCCocoaGroup

VARIABLE subject

all_vars == << subject, vars, channel_vars, group_vars >>

(* A subject that is not the behaviour's stays at one of its initial states. *)
MCInit ==
    /\ subject \in {"ratchet", "channel", "group"}
    /\ Init /\ ChannelInit /\ GroupInit
    /\ subject # "ratchet" => wasm = {} /\ ~ turns
    /\ subject # "channel" => blob_first

MCNext ==
    \/ subject = "ratchet" /\ Next /\ UNCHANGED << subject, channel_vars, group_vars >>
    \/ subject = "channel" /\ ChannelNext /\ UNCHANGED << subject, vars, group_vars >>
    \/ subject = "group" /\ GroupNext /\ UNCHANGED << subject, vars, channel_vars >>

MCSpec == MCInit /\ [][MCNext]_all_vars /\ Fairness
=============================================================================
