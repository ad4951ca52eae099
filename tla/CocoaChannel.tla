---------------------------- MODULE CocoaChannel ----------------------------
(***************************************************************************)
(* One member's sending side of crates/trelis-cocoa: CocoaSession::encrypt *)
(* and advance_epoch over the Epoch's counter, the session blob, and the   *)
(* SessionWatermark that guards restores of it, together with the host     *)
(* application that stores both.  The blob and the watermark are separate  *)
(* durable writes; the host may stop between any two of its steps, and     *)
(* storage may hand back any blob it was ever given.                       *)
(*                                                                         *)
(* The host keeps the contract of restore_session_checked: it loads only   *)
(* through the checked door and releases a ciphertext only once the        *)
(* watermark past it is durable.                                           *)
(***************************************************************************)
EXTENDS Integers, Sequences

CONSTANTS
    Instances,      \* the running copies of the application for this member
    Commits,        \* the commits an epoch can end with
    SaveOrders,     \* the hosts considered: those that save the blob first or not
    MaxEpoch, MaxMessages   \* bounds on a behaviour

ASSUME ChannelAssumption ==
    /\ SaveOrders \subseteq BOOLEAN
    /\ MaxEpoch \in Nat
    /\ MaxMessages \in Nat

VARIABLES
    blob_first, \* whether this host saves the blob before the watermark
    live,       \* instance -> the session in its memory, or NotRunning
    pending,    \* instance -> ciphertexts produced and not yet released
    blobs,      \* every session blob storage was given and may return
    disk,       \* the newest of them
    mark,       \* the durable watermark
    sent,       \* ciphertexts released to the group
    produced    \* number of ciphertexts produced so far

channel_vars == <<blob_first, live, pending, blobs, disk, mark, sent, produced>>

(* The epoch secret is the chain of commits that h5_epoch_secret mixed in; *)
(* the message key and the nonce are a function of it, the leaf, which is  *)
(* this member's throughout, and the counter.                              *)
Session == [epoch : Nat, secret : Seq(Commits), counter : Nat]
NotRunning == [epoch |-> 0, secret |-> <<>>, counter |-> -1]
Ciphertext == [epoch : Nat, secret : Seq(Commits), counter : Nat, msg : Nat]
Watermark == [epoch : Nat, counter : Nat]

Below(a, b) ==
    \/ a.epoch < b.epoch
    \/ a.epoch = b.epoch /\ a.counter < b.counter

of_session_mutant(s) == [epoch |-> s.epoch, counter |-> s.counter - 1]   \* the last used, not the next
of_session(s) == [epoch |-> s.epoch, counter |-> s.counter]
advanced(w, s) == IF Below(w, s) THEN of_session(s) ELSE w

check_mutant(w, b) == b.epoch >= w.epoch   \* compares the epoch only
check(w, b) == ~ Below(b, w)
-----------------------------------------------------------------------------
initial == [epoch |-> 0, secret |-> <<>>, counter |-> 0]

(* A session was created or joined, its first blob and watermark saved.    *)
ChannelInit ==
    /\ blob_first \in SaveOrders
    /\ live = [i \in Instances |-> NotRunning]
    /\ pending = [i \in Instances |-> {}]
    /\ blobs = {initial}
    /\ disk = initial
    /\ mark = of_session(initial)
    /\ sent = {}
    /\ produced = 0

Running(i) == live[i] # NotRunning

next_message_key(s) == [s EXCEPT !.counter = @ + 1]

(* encrypt: the key at the session's counter, which then moves on.         *)
encrypt(i) ==
    /\ Running(i)
    /\ produced < MaxMessages
    /\ pending' = [pending EXCEPT ![i] = @ \cup
                     {[epoch |-> live[i].epoch, secret |-> live[i].secret,
                       counter |-> live[i].counter, msg |-> produced]}]
    /\ live' = [live EXCEPT ![i] = next_message_key(@)]
    /\ produced' = produced + 1
    /\ UNCHANGED <<blobs, disk, mark, sent>>

(* advance with the delta of commit c: a new secret, counter 0.            *)
advance(i, c) ==
    /\ Running(i)
    /\ live[i].epoch < MaxEpoch
    /\ live' = [live EXCEPT ![i] = [epoch   |-> live[i].epoch + 1,
                                    secret  |-> Append(live[i].secret, c),
                                    counter |-> 0]]
    /\ UNCHANGED <<pending, blobs, disk, mark, sent, produced>>

(* serialize_cocoa_session, and the host's write of the result.            *)
SaveBlob(i) ==
    /\ Running(i)
    /\ disk' = live[i]
    /\ blobs' = blobs \cup {live[i]}
    /\ UNCHANGED <<live, pending, mark, sent, produced>>

(* The host's write of the watermark of the session it holds: of_session,  *)
(* as cocoa_session_watermark computes it, or its maximum with the old.    *)
SaveWatermark(i) ==
    /\ Running(i)
    /\ blob_first => disk = live[i]
    /\ mark' \in {of_session(live[i]), advanced(mark, live[i])}
    /\ UNCHANGED <<live, pending, blobs, disk, sent, produced>>

(* The contract: the watermark past the ciphertext is durable first.       *)
MayRelease_mutant(c) == TRUE   \* released before the watermark is durable
MayRelease(c) == Below(c, mark)

ReleaseCiphertext(i) == \E c \in pending[i] :
    /\ MayRelease(c)
    /\ sent' = sent \cup {c}
    /\ pending' = [pending EXCEPT ![i] = @ \ {c}]
    /\ UNCHANGED <<live, blobs, disk, mark, produced>>

(* The instance stops: its memory and what it has not released are lost.   *)
Crash(i) ==
    /\ Running(i)
    /\ live' = [live EXCEPT ![i] = NotRunning]
    /\ pending' = [pending EXCEPT ![i] = {}]
    /\ UNCHANGED <<blobs, disk, mark, sent, produced>>

(* restore_session_checked on whatever blob storage returns: the watermark *)
(* is checked, the epoch is rebuilt at counter 0 and set_message_counter   *)
(* moves it forward to the stored counter.                                 *)
restore(b) == [b EXCEPT !.counter = 0]

set_message_counter_mutant(s, counter) == s   \* left at the rebuilt epoch's 0
set_message_counter(s, counter) == [s EXCEPT !.counter = counter]

restore_session_checked(i) == \E b \in blobs :
    /\ ~ Running(i)
    /\ check(mark, b)
    /\ b.counter >= restore(b).counter
    /\ live' = [live EXCEPT ![i] = set_message_counter(restore(b), b.counter)]
    /\ UNCHANGED <<pending, blobs, disk, mark, sent, produced>>

ChannelNext ==
    /\ UNCHANGED blob_first
    /\ \E i \in Instances :
          \/ encrypt(i)
          \/ \E c \in Commits : advance(i, c)
          \/ SaveBlob(i)
          \/ SaveWatermark(i)
          \/ ReleaseCiphertext(i)
          \/ Crash(i)
          \/ restore_session_checked(i)

ChannelSpec == ChannelInit /\ [][ChannelNext]_channel_vars
-----------------------------------------------------------------------------
ChannelTypeOK ==
    /\ blob_first \in BOOLEAN
    /\ live \in [Instances -> Session \cup {NotRunning}]
    /\ pending \in [Instances -> SUBSET Ciphertext]
    /\ blobs \subseteq Session
    /\ disk \in blobs
    /\ mark \in Watermark
    /\ sent \subseteq Ciphertext
    /\ produced \in Nat

(* No two messages ever leave the device under one key and nonce: not      *)
(* after a crash before a save, nor after storage returned a stale blob,   *)
(* nor on two branches of the group (Epoch::set_message_counter and        *)
(* SessionWatermark::check name this as what they are for).                *)
NoNonceReuse ==
    \A a, b \in sent : a.secret = b.secret /\ a.counter = b.counter => a = b

(* "The honest newest-blob reload ... still pass": the checked door        *)
(* accepts the newest blob the host saved, so a crash never locks the      *)
(* member out of its own session.                                          *)
HonestReloadAccepted == check(mark, disk)

(* So it does for every host that saves the blob before it moves the       *)
(* watermark (SessionWatermark::check).                                    *)
BlobFirstReloadAccepted == blob_first => HonestReloadAccepted

(* The channel implements the abstract promise.                            *)
Emission(c) == [key |-> [secret |-> c.secret, counter |-> c.counter], msg |-> c.msg]

Promise == INSTANCE NonceOnce WITH
    Keys     <- [secret : Seq(Commits), counter : Nat],
    Messages <- Nat,
    out      <- {Emission(c) : c \in sent}

KeepsPromise == Promise!Spec
=============================================================================
