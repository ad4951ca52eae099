--------------------------- MODULE MCEstablishment ---------------------------
(* Session establishment, the bytes that first messages, bundles and the     *)
(* messages of a session travel as, and the boxes in which several threads   *)
(* keep the secrets of sessions, in one run of three subjects.               *)
EXTENDS Establishment, WireFormat, LockedMemory, TLC

VARIABLE subject

(* A subject that is not the behaviour's stays at one of its initial states. *)
MCInit ==
    /\ subject \in {"sessions", "bytes", "boxes"}
    /\ Init /\ ByteInit /\ BoxInit
    /\ subject # "sessions" => deletes
    /\ subject # "bytes" => Len(writer.buf) = 4

MCNext ==
    \/ subject = "sessions" /\ Next /\ UNCHANGED <<subject, byte_vars, box_vars>>
    \/ subject = "bytes" /\ ByteNext /\ UNCHANGED <<subject, vars, box_vars>>
    \/ subject = "boxes" /\ BoxNext /\ UNCHANGED <<subject, vars, byte_vars>>

MCSpec == MCInit /\ [][MCNext]_<<subject, vars, byte_vars, box_vars>>

(* Initiators, one-time keypairs and boxes are interchangeable.              *)
Symmetric == Permutations(Initiators) \cup Permutations(OneTimeKeys) \cup Permutations(Boxes)

(* Every kind of call once, and a length that may not fit with its data.     *)
MCWireCalls == {
    [call |-> "uint", width |-> 1, value |-> 5], [call |-> "uint", width |-> 4, value |-> 7],
    [call |-> "bytes", value |-> <<4, 3>>], [call |-> "header", value |-> << >>],
    [call |-> "length prefixed", value |-> <<4>>],
    [call |-> "length prefixed", value |-> <<1, 2, 3>>]}
MCPayloads == {<< >>, <<3>>, <<3, 4>>}
=============================================================================
