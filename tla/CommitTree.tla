---------------------------- MODULE CommitTree ----------------------------
(***************************************************************************)
(* What the commits of a group promise: every commit starts a branch of    *)
(* one tree of histories, and a member only ever steps from the end of its *)
(* branch to a commit made there, its own or another's.  Members that hold *)
(* one epoch secret have therefore gone through the same commits, and no   *)
(* member skips, repeats or swaps one, whatever the server delivers.       *)
(***************************************************************************)
EXTENDS Naturals, Sequences

CONSTANTS Members, Commits

VARIABLES
    branches,   \* the histories that exist
    at          \* member -> the history behind its epoch secret

vars == <<branches, at>>

Init ==
    /\ branches = {<<>>}
    /\ at = [m \in Members |-> <<>>]

Commit(m) == \E c \in Commits :
    /\ \A b \in branches : \A i \in 1..Len(b) : b[i] # c
    /\ branches' = branches \cup {Append(at[m], c)}
    /\ at' = [at EXCEPT ![m] = Append(@, c)]

Follow(m) == \E c \in Commits :
    /\ Append(at[m], c) \in branches
    /\ at' = [at EXCEPT ![m] = Append(@, c)]
    /\ UNCHANGED branches

Next == \E m \in Members : Commit(m) \/ Follow(m)

Spec == Init /\ [][Next]_vars
=============================================================================
