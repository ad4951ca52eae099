----------------------------- MODULE NonceOnce ------------------------------
(***************************************************************************)
(* What the sending side of a CoCoA session promises about the AEAD: a     *)
(* pair of message key and nonce protects at most one message that leaves  *)
(* the device, whatever crashes, restores and rollbacks happen in between. *)
(***************************************************************************)
CONSTANTS Keys, Messages
VARIABLE out    \* the (key, message) pairs that left the device

Pair == [key : Keys, msg : Messages]

Init == out = {}

(* Next picks the pair from out' so that TLC need not enumerate the keys.  *)
Emit(o) ==
    /\ o \in Pair
    /\ \A p \in out : p.key # o.key
    /\ out' = out \cup {o}

Next == \E o \in out' : Emit(o)

Spec == Init /\ [][Next]_out
=============================================================================
