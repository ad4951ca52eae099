------------------------- MODULE CocoaChannelProofs -------------------------
(***************************************************************************)
(* Proofs about CocoaChannel for every set of commits, bound and length of *)
(* behaviour, of a member whose session runs in at most one instance.      *)
(*                                                                         *)
(* The argument orders everything by position, the pair of epoch and       *)
(* counter.  What was released lies below the durable watermark, the       *)
(* watermark never passes the session in memory, and what was produced     *)
(* lies below that session: so the position the next encrypt uses is new.  *)
(***************************************************************************)
EXTENDS CocoaChannel, TLAPS

SingleInstance == \A i, j \in Instances : i = j

(* What can still leave the device, or already has.                        *)
Out == sent \cup UNION {pending[i] : i \in Instances}

(* The chain of commits in a secret is as long as the epoch number, so     *)
(* equal secrets mean equal epochs.                                        *)
Chained(s) == Len(s.secret) = s.epoch

AllChained ==
    /\ \A i \in Instances : Running(i) => Chained(live[i])
    /\ \A b \in blobs : Chained(b)
    /\ \A c \in Out : Chained(c)

ReleasedBelowMark == \A c \in sent : Below(c, mark)
MarkBehindLive == \A i \in Instances : Running(i) => check(mark, live[i])
PendingBelowLive ==
    \A i \in Instances : \A c \in pending[i] : Running(i) /\ Below(c, live[i])
PositionsDiffer ==
    \A a, b \in Out : a.epoch = b.epoch /\ a.counter = b.counter => a = b

IndInv ==
    /\ ChannelTypeOK
    /\ AllChained
    /\ ReleasedBelowMark
    /\ MarkBehindLive
    /\ PendingBelowLive
    /\ PositionsDiffer
-----------------------------------------------------------------------------
(* Below orders positions strictly and totally: Epoch::message_counter and *)
(* SessionWatermark::check compare them lexicographically.                 *)
LEMMA BelowFacts ==
    ASSUME NEW a, NEW b, NEW c,
           a.epoch \in Int, b.epoch \in Int, c.epoch \in Int,
           a.counter \in Int, b.counter \in Int, c.counter \in Int
    PROVE  /\ Below(a, b) /\ Below(b, c) => Below(a, c)
           /\ Below(a, b) /\ check(b, c) => Below(a, c)
           /\ Below(a, b) => ~ (a.epoch = b.epoch /\ a.counter = b.counter)
BY DEF Below, check

(* What the type invariant says of the members of the state's sets.        *)
LEMMA TypeFacts ==
    ASSUME ChannelTypeOK
    PROVE  /\ \A i \in Instances : Running(i) => live[i] \in Session
           /\ \A i \in Instances : live[i].epoch \in Int /\ live[i].counter \in Int
           /\ mark.epoch \in Int /\ mark.counter \in Int
           /\ \A c \in Out : c \in Ciphertext
           /\ \A i \in Instances : \A c \in pending[i] : c \in Out
           /\ disk \in Session
BY DEF ChannelTypeOK, Running, Session, NotRunning, Ciphertext, Watermark, Out

(* The session is freshly created or joined and nothing has been sent.     *)
LEMMA InitIndInv == ChannelInit => IndInv
BY ChannelAssumption
   DEF ChannelInit, initial, IndInv, ChannelTypeOK, AllChained, ReleasedBelowMark, MarkBehindLive,
       PendingBelowLive, PositionsDiffer, Out, Session, NotRunning, Watermark,
       of_session, Running, Chained
-----------------------------------------------------------------------------
(* encrypt takes a position nothing produced or released has.              *)
LEMMA EncryptInductive ==
    ASSUME SingleInstance, IndInv, UNCHANGED blob_first, NEW i \in Instances, encrypt(i)
    PROVE  IndInv'
<1> DEFINE new == [epoch |-> live[i].epoch, secret |-> live[i].secret,
                   counter |-> live[i].counter, msg |-> produced]
           next == [live[i] EXCEPT !.counter = @ + 1]
<1>1. /\ Running(i) /\ live[i] \in Session
      /\ pending' = [pending EXCEPT ![i] = @ \cup {new}]
      /\ live' = [live EXCEPT ![i] = next]
      /\ produced' = produced + 1
      /\ UNCHANGED <<blobs, disk, mark, sent>>
  BY TypeFacts DEF IndInv, encrypt, next_message_key
<1>2. /\ next \in Session
      /\ next.epoch = live[i].epoch /\ next.secret = live[i].secret
      /\ next.counter = live[i].counter + 1
  BY <1>1 DEF Session
<1>3. new \in Ciphertext
  BY <1>1 DEF IndInv, ChannelTypeOK, Session, Ciphertext
<1>4. /\ new.epoch = live[i].epoch /\ new.counter = live[i].counter
      /\ new.secret = live[i].secret
  OBVIOUS
<1>5. ChannelTypeOK /\ pending \in [Instances -> SUBSET Ciphertext]
      /\ live \in [Instances -> Session \cup {NotRunning}]
  BY DEF IndInv, ChannelTypeOK
<1>6. Out' = Out \cup {new} /\ pending'[i] = pending[i] \cup {new}
      /\ live'[i] = next
  BY <1>1, <1>5 DEF Out
<1>7. \A j \in Instances : j = i
  BY DEF SingleInstance
<1> HIDE DEF new, next
<1>8. Running(i)'
  BY <1>2, <1>6 DEF Running, Session, NotRunning
<1>9. ChannelTypeOK'
  BY <1>1, <1>2, <1>3, <1>5 DEF ChannelTypeOK
<1>10. AllChained'
  BY <1>1, <1>2, <1>4, <1>6, <1>7 DEF IndInv, AllChained, Chained, Running
<1>11. ReleasedBelowMark'
  BY <1>1 DEF IndInv, ReleasedBelowMark, Below
<1>12. MarkBehindLive'
  BY <1>1, <1>2, <1>5, <1>6, <1>7, TypeFacts DEF IndInv, MarkBehindLive, check, Below, Session
<1>13. PendingBelowLive'
  <2> SUFFICES ASSUME NEW c \in pending'[i] PROVE Below(c, next)
    BY <1>6, <1>7, <1>8 DEF PendingBelowLive, Running, Below
  <2>1. CASE c = new
    BY <2>1, <1>1, <1>2, <1>4 DEF Below, Session
  <2>2. CASE c \in pending[i]
    <3>1. Below(c, live[i]) /\ c \in Ciphertext
      BY <2>2, <1>5, TypeFacts DEF IndInv, PendingBelowLive
    <3> QED BY <3>1, <1>1, <1>2 DEF Below, Session, Ciphertext
  <2> QED BY <2>1, <2>2, <1>6
<1>14. PositionsDiffer'
  <2>1. ASSUME NEW c \in Out
        PROVE  Below(c, live[i])
    <3>1. CASE c \in sent
      BY <3>1, <1>1, <1>5, TypeFacts, BelowFacts
         DEF IndInv, ReleasedBelowMark, MarkBehindLive, Ciphertext, Session
    <3>2. CASE c \notin sent
      BY <3>2, <1>7 DEF IndInv, PendingBelowLive, Out
    <3> QED BY <3>1, <3>2
  <2>2. ASSUME NEW c \in Out
        PROVE  ~ (c.epoch = new.epoch /\ c.counter = new.counter)
    <3>1. c \in Ciphertext /\ Below(c, live[i])
      BY <2>1, <1>5, TypeFacts
    <3> QED BY <3>1, <1>1, <1>4 DEF Below, Ciphertext, Session
  <2> QED BY <2>2, <1>6 DEF IndInv, PositionsDiffer
<1> QED BY <1>9, <1>10, <1>11, <1>12, <1>13, <1>14 DEF IndInv

(* A new epoch lies above every position of the one it ends.               *)
LEMMA AdvanceInductive ==
    ASSUME SingleInstance, IndInv, UNCHANGED blob_first, NEW i \in Instances, NEW c \in Commits,
           advance(i, c)
    PROVE  IndInv'
<1> DEFINE next == [epoch   |-> live[i].epoch + 1,
                    secret  |-> Append(live[i].secret, c),
                    counter |-> 0]
<1>1. /\ Running(i) /\ live[i] \in Session
      /\ live' = [live EXCEPT ![i] = next]
      /\ UNCHANGED <<pending, blobs, disk, mark, sent, produced>>
  BY TypeFacts DEF IndInv, advance
<1>2. /\ next \in Session
      /\ next.epoch = live[i].epoch + 1 /\ next.counter = 0
      /\ Len(next.secret) = Len(live[i].secret) + 1
  BY <1>1 DEF Session
<1> HIDE DEF next
<1>3. ChannelTypeOK /\ live \in [Instances -> Session \cup {NotRunning}]
  BY DEF IndInv, ChannelTypeOK
<1>4. Out' = Out /\ live'[i] = next /\ \A j \in Instances : j = i
  BY <1>1, <1>3 DEF Out, SingleInstance
<1>5. Running(i)'
  BY <1>2, <1>4 DEF Running, Session, NotRunning
<1>6. ChannelTypeOK'
  BY <1>1, <1>2, <1>3 DEF ChannelTypeOK
<1>7. AllChained'
  <2>1. Chained(next)
    BY <1>1, <1>2 DEF IndInv, AllChained, Chained
  <2> QED BY <2>1, <1>1, <1>4 DEF IndInv, AllChained, Chained
<1>8. ReleasedBelowMark'
  BY <1>1 DEF IndInv, ReleasedBelowMark, Below
<1>9. MarkBehindLive'
  BY <1>1, <1>2, <1>3, <1>4, TypeFacts DEF IndInv, MarkBehindLive, check, Below, Session
<1>10. PendingBelowLive'
  <2> SUFFICES ASSUME NEW d \in pending[i] PROVE Below(d, next)
    BY <1>1, <1>4, <1>5 DEF PendingBelowLive, Running, Below
  <2>1. Below(d, live[i]) /\ d \in Ciphertext
    BY <1>3, TypeFacts DEF IndInv, PendingBelowLive
  <2> QED BY <2>1, <1>1, <1>2 DEF Below, Session, Ciphertext
<1>11. PositionsDiffer'
  BY <1>4 DEF IndInv, PositionsDiffer
<1> QED BY <1>6, <1>7, <1>8, <1>9, <1>10, <1>11 DEF IndInv

(* Saving a blob changes only what a later restore may return.             *)
LEMMA SaveBlobInductive ==
    ASSUME IndInv, UNCHANGED blob_first, NEW i \in Instances, SaveBlob(i)
    PROVE  IndInv'
<1>1. /\ Running(i) /\ live[i] \in Session
      /\ disk' = live[i] /\ blobs' = blobs \cup {live[i]}
      /\ UNCHANGED <<live, pending, mark, sent, produced>>
  BY TypeFacts DEF IndInv, SaveBlob
<1>2. ChannelTypeOK'
  BY <1>1 DEF IndInv, ChannelTypeOK
<1>3. Out' = Out
  BY <1>1 DEF Out
<1>4. AllChained'
  BY <1>1, <1>3 DEF IndInv, AllChained, Chained, Running
<1>5. ReleasedBelowMark' /\ MarkBehindLive' /\ PendingBelowLive' /\ PositionsDiffer'
  BY <1>1, <1>3 DEF IndInv, ReleasedBelowMark, MarkBehindLive, PendingBelowLive,
     PositionsDiffer, Below, check, Running
<1> QED BY <1>2, <1>4, <1>5 DEF IndInv

(* The watermark only moves up, to the session in memory.                  *)
LEMMA WatermarkMovesToLive ==
    ASSUME IndInv, NEW i \in Instances, SaveWatermark(i)
    PROVE  mark' = of_session(live[i])
<1>1. /\ mark.epoch \in Int /\ mark.counter \in Int /\ mark \in Watermark
      /\ live[i].epoch \in Int /\ live[i].counter \in Int
      /\ ~ Below(live[i], mark)
  BY TypeFacts DEF IndInv, ChannelTypeOK, MarkBehindLive, check, SaveWatermark
<1>2. ~ Below(mark, live[i]) => mark = of_session(live[i])
  BY <1>1 DEF Below, of_session, Watermark
<1> QED BY <1>2 DEF SaveWatermark, advanced

(* Saving the watermark keeps what was released below it.                  *)
LEMMA SaveWatermarkInductive ==
    ASSUME SingleInstance, IndInv, UNCHANGED blob_first, NEW i \in Instances, SaveWatermark(i)
    PROVE  IndInv'
<1>1. /\ Running(i) /\ live[i] \in Session
      /\ mark' = of_session(live[i])
      /\ mark'.epoch = live[i].epoch /\ mark'.counter = live[i].counter
      /\ UNCHANGED <<live, pending, blobs, disk, sent, produced>>
  BY TypeFacts, WatermarkMovesToLive DEF IndInv, SaveWatermark, of_session
<1>2. ChannelTypeOK'
  BY <1>1 DEF IndInv, ChannelTypeOK, of_session, Watermark, Session
<1>3. Out' = Out
  BY <1>1 DEF Out
<1>4. AllChained' /\ PendingBelowLive' /\ PositionsDiffer'
  BY <1>1, <1>3 DEF IndInv, AllChained, Chained, Running, PendingBelowLive,
     PositionsDiffer, Below
<1>5. ReleasedBelowMark'
  <2> SUFFICES ASSUME NEW c \in sent PROVE Below(c, mark')
    BY <1>1 DEF ReleasedBelowMark, Below
  <2>1. Below(c, mark) /\ check(mark, live[i]) /\ c \in Ciphertext
    BY <1>1, TypeFacts DEF IndInv, ReleasedBelowMark, MarkBehindLive, Out
  <2>2. Below(c, live[i])
    BY <2>1, <1>1, TypeFacts DEF IndInv, Below, check, Ciphertext, Session
  <2> QED BY <2>2, <1>1 DEF Below
<1>6. MarkBehindLive'
  BY <1>1 DEF SingleInstance, MarkBehindLive, check, Below, Session, Running
<1> QED BY <1>2, <1>4, <1>5, <1>6 DEF IndInv

(* A ciphertext leaves only when the watermark is past it.                 *)
LEMMA ReleaseInductive ==
    ASSUME IndInv, UNCHANGED blob_first, NEW i \in Instances, ReleaseCiphertext(i)
    PROVE  IndInv'
<1>1. PICK c \in pending[i] :
        /\ Below(c, mark)
        /\ sent' = sent \cup {c}
        /\ pending' = [pending EXCEPT ![i] = @ \ {c}]
        /\ UNCHANGED <<live, blobs, disk, mark, produced>>
  BY DEF ReleaseCiphertext, MayRelease
<1>2. ChannelTypeOK'
  BY <1>1 DEF IndInv, ChannelTypeOK
<1>3. Out' \subseteq Out
  BY <1>1 DEF Out, IndInv, ChannelTypeOK
<1>4. \A j \in Instances : pending'[j] \subseteq pending[j]
  BY <1>1 DEF IndInv, ChannelTypeOK
<1>5. AllChained' /\ PositionsDiffer'
  BY <1>1, <1>3 DEF IndInv, AllChained, Chained, Running, PositionsDiffer
<1>6. ReleasedBelowMark' /\ MarkBehindLive' /\ PendingBelowLive'
  BY <1>1, <1>4 DEF IndInv, ReleasedBelowMark, MarkBehindLive, PendingBelowLive,
     Below, check, Running
<1> QED BY <1>2, <1>5, <1>6 DEF IndInv

(* A crash loses the session and what it had not released.                 *)
LEMMA CrashInductive ==
    ASSUME IndInv, UNCHANGED blob_first, NEW i \in Instances, Crash(i)
    PROVE  IndInv'
<1>1. /\ live' = [live EXCEPT ![i] = NotRunning]
      /\ pending' = [pending EXCEPT ![i] = {}]
      /\ UNCHANGED <<blobs, disk, mark, sent, produced>>
  BY DEF Crash
<1>2. ChannelTypeOK'
  BY <1>1 DEF IndInv, ChannelTypeOK
<1>3. Out' \subseteq Out
  BY <1>1 DEF Out, IndInv, ChannelTypeOK
<1>4. /\ live'[i] = NotRunning /\ pending'[i] = {}
      /\ \A j \in Instances \ {i} : live'[j] = live[j] /\ pending'[j] = pending[j]
  BY <1>1 DEF IndInv, ChannelTypeOK
<1>5. AllChained' /\ PositionsDiffer'
  BY <1>1, <1>3, <1>4 DEF IndInv, AllChained, Chained, Running, PositionsDiffer
<1>6. ReleasedBelowMark' /\ MarkBehindLive' /\ PendingBelowLive'
  BY <1>1, <1>4 DEF IndInv, ReleasedBelowMark, MarkBehindLive, PendingBelowLive,
     Below, check, Running
<1> QED BY <1>2, <1>5, <1>6 DEF IndInv

(* The checked door admits only a blob the watermark has not passed, and   *)
(* moving the rebuilt counter forward yields the saved session.            *)
LEMMA RestoreInductive ==
    ASSUME SingleInstance, IndInv, UNCHANGED blob_first, NEW i \in Instances, restore_session_checked(i)
    PROVE  IndInv'
<1>1. PICK b \in blobs :
        /\ ~ Running(i)
        /\ check(mark, b)
        /\ live' = [live EXCEPT ![i] = set_message_counter(restore(b), b.counter)]
        /\ UNCHANGED <<pending, blobs, disk, mark, sent, produced>>
  BY DEF restore_session_checked
<1>2. b \in Session /\ set_message_counter(restore(b), b.counter) = b
  BY DEF IndInv, ChannelTypeOK, Session, set_message_counter, restore
<1>3. live'[i] = b /\ live' = [live EXCEPT ![i] = b] /\ \A j \in Instances : j = i
  BY <1>1, <1>2 DEF IndInv, ChannelTypeOK, SingleInstance
<1>4. ChannelTypeOK'
  BY <1>1, <1>2, <1>3 DEF IndInv, ChannelTypeOK
<1>5. Out' = Out /\ pending[i] = {}
  BY <1>1 DEF Out, IndInv, PendingBelowLive
<1>6. AllChained' /\ PositionsDiffer'
  BY <1>1, <1>3, <1>5 DEF IndInv, AllChained, Chained, PositionsDiffer
<1>7. ReleasedBelowMark' /\ MarkBehindLive' /\ PendingBelowLive'
  BY <1>1, <1>3, <1>5 DEF IndInv, ReleasedBelowMark, MarkBehindLive, PendingBelowLive,
     Below, check
<1> QED BY <1>4, <1>6, <1>7 DEF IndInv

(* A step that changes nothing changes no invariant.                       *)
LEMMA StutterInductive ==
    ASSUME IndInv, UNCHANGED channel_vars
    PROVE  IndInv'
BY DEF channel_vars, IndInv, ChannelTypeOK, AllChained, ReleasedBelowMark, MarkBehindLive,
   PendingBelowLive, PositionsDiffer, Out, Running, Chained, Below, check
-----------------------------------------------------------------------------
(* The inductive invariant holds in every behaviour of a single instance.  *)
THEOREM IndInvHolds ==
    ASSUME SingleInstance
    PROVE  ChannelSpec => []IndInv
<1>1. ASSUME IndInv, [ChannelNext]_channel_vars
      PROVE  IndInv'
  <2>1. CASE UNCHANGED channel_vars
    BY <1>1, <2>1, StutterInductive
  <2>2. CASE ChannelNext
    <3> PICK i \in Instances :
          \/ encrypt(i)
          \/ \E c \in Commits : advance(i, c)
          \/ SaveBlob(i)
          \/ SaveWatermark(i)
          \/ ReleaseCiphertext(i)
          \/ Crash(i)
          \/ restore_session_checked(i)
      BY <2>2 DEF ChannelNext
    <3>1. CASE encrypt(i)
      BY <1>1, <2>2, <3>1, EncryptInductive DEF ChannelNext
    <3>2. CASE \E c \in Commits : advance(i, c)
      BY <1>1, <2>2, <3>2, AdvanceInductive DEF ChannelNext
    <3>3. CASE SaveBlob(i)
      BY <1>1, <2>2, <3>3, SaveBlobInductive DEF ChannelNext
    <3>4. CASE SaveWatermark(i)
      BY <1>1, <2>2, <3>4, SaveWatermarkInductive DEF ChannelNext
    <3>5. CASE ReleaseCiphertext(i)
      BY <1>1, <2>2, <3>5, ReleaseInductive DEF ChannelNext
    <3>6. CASE Crash(i)
      BY <1>1, <2>2, <3>6, CrashInductive DEF ChannelNext
    <3>7. CASE restore_session_checked(i)
      BY <1>1, <2>2, <3>7, RestoreInductive DEF ChannelNext
    <3> QED BY <3>1, <3>2, <3>3, <3>4, <3>5, <3>6, <3>7
  <2> QED BY <1>1, <2>1, <2>2
<1> QED BY <1>1, InitIndInv, PTL DEF ChannelSpec

(* Type correctness of the channel.                                        *)
THEOREM TypeCorrect ==
    ASSUME SingleInstance
    PROVE  ChannelSpec => []ChannelTypeOK
<1>1. IndInv => ChannelTypeOK
  BY DEF IndInv
<1> QED BY <1>1, IndInvHolds, PTL

(* NoNonceReuse: no two ciphertexts released by a single instance carry    *)
(* one key and nonce, whatever blobs storage returns and whenever the      *)
(* instance stops (Epoch::set_message_counter, SessionWatermark::check).   *)
THEOREM NoNonceIsReused ==
    ASSUME SingleInstance
    PROVE  ChannelSpec => []NoNonceReuse
<1>1. ASSUME IndInv
      PROVE  NoNonceReuse
  <2> SUFFICES ASSUME NEW a \in sent, NEW b \in sent,
                      a.secret = b.secret, a.counter = b.counter
               PROVE  a = b
    BY DEF NoNonceReuse
  <2>1. a \in Out /\ b \in Out
    BY DEF Out
  <2>2. a.epoch = b.epoch
    BY <1>1, <2>1 DEF IndInv, AllChained, Chained
  <2> QED BY <1>1, <2>1, <2>2 DEF IndInv, PositionsDiffer
<1> QED BY <1>1, IndInvHolds, PTL

(* BlobFirstReloadAccepted: when the host saves the blob before it moves   *)
(* the watermark, the newest blob always passes SessionWatermark::check.   *)
THEOREM HonestReloadIsAccepted ==
    ASSUME SingleInstance
    PROVE  ChannelSpec => []BlobFirstReloadAccepted
<1>1. ChannelInit => BlobFirstReloadAccepted
  BY DEF ChannelInit, BlobFirstReloadAccepted, HonestReloadAccepted, check, Below, of_session, initial
<1>2. ASSUME IndInv, BlobFirstReloadAccepted, [ChannelNext]_channel_vars
      PROVE  BlobFirstReloadAccepted'
  <2>0. blob_first' = blob_first  BY <1>2 DEF ChannelNext, channel_vars
  <2> SUFFICES ASSUME blob_first PROVE HonestReloadAccepted'
    BY <2>0 DEF BlobFirstReloadAccepted
  <2>9. HonestReloadAccepted  BY <1>2 DEF BlobFirstReloadAccepted
  <2>1. CASE UNCHANGED <<disk, mark>>
    BY <2>1, <2>9 DEF HonestReloadAccepted, check, Below
  <2>2. ASSUME NEW i \in Instances, SaveBlob(i)
        PROVE  HonestReloadAccepted'
    BY <1>2, <2>2 DEF IndInv, MarkBehindLive, SaveBlob, HonestReloadAccepted, check, Below
  <2>3. ASSUME NEW i \in Instances, SaveWatermark(i)
        PROVE  HonestReloadAccepted'
    <3>1. mark' = of_session(live[i]) /\ disk' = live[i]
      BY <1>2, <2>3, WatermarkMovesToLive DEF SaveWatermark
    <3>2. live[i].epoch \in Int /\ live[i].counter \in Int
      BY <1>2, TypeFacts DEF IndInv
    <3> QED BY <3>1, <3>2 DEF HonestReloadAccepted, check, Below, of_session
  <2> QED BY <1>2, <2>1, <2>2, <2>3
          DEF ChannelNext, channel_vars, encrypt, advance, ReleaseCiphertext, Crash, restore_session_checked
<1> QED BY <1>1, <1>2, IndInvHolds, PTL DEF ChannelSpec

(* KeepsPromise: the channel implements NonceOnce.  Only ReleaseCiphertext changes   *)
(* what left the device, and the pair it adds is new.                      *)
THEOREM ImplementsNonceOnce ==
    ASSUME SingleInstance
    PROVE  ChannelSpec => KeepsPromise
<1> DEFINE out == {Emission(c) : c \in sent}
<1>1. ChannelInit => Promise!Init
  BY DEF ChannelInit, Promise!Init
<1>2. ASSUME IndInv, [ChannelNext]_channel_vars
      PROVE  [Promise!Next]_out
  <2>1. CASE sent' = sent
    BY <2>1 DEF Emission
  <2>2. ASSUME NEW i \in Instances, ReleaseCiphertext(i)
        PROVE  [Promise!Next]_out
    <3>1. PICK c \in pending[i] :
            Below(c, mark) /\ sent' = sent \cup {c}
      BY <2>2 DEF ReleaseCiphertext, MayRelease
    <3>2. /\ c \in Out /\ c \in Ciphertext
          /\ \A d \in sent : d \in Out
      BY <1>2, <3>1, TypeFacts DEF IndInv, Out
    <3>3. out' = out \cup {Emission(c)}
      BY <3>1 DEF Emission
    <3>4. Emission(c) \in Promise!Pair
      BY <3>2 DEF Emission, Promise!Pair, Ciphertext
    <3>5. CASE c \in sent
      BY <2>1, <3>1, <3>5
    <3>6. CASE c \notin sent
      <4>1. \A d \in sent : Emission(d).key # Emission(c).key
        <5> SUFFICES ASSUME NEW d \in sent, Emission(d).key = Emission(c).key
                     PROVE  FALSE
          OBVIOUS
        <5>1. d.secret = c.secret /\ d.counter = c.counter
          BY DEF Emission
        <5>2. d.epoch = c.epoch
          BY <1>2, <3>2, <5>1 DEF IndInv, AllChained, Chained
        <5> QED BY <1>2, <3>2, <3>6, <5>1, <5>2 DEF IndInv, PositionsDiffer
      <4>2. \A o \in out : o.key # Emission(c).key
        BY <4>1
      <4> QED BY <3>3, <3>4, <4>2 DEF Promise!Next, Promise!Emit
    <3> QED BY <3>5, <3>6
  <2> QED BY <1>2, <2>1, <2>2
          DEF ChannelNext, channel_vars, encrypt, advance, SaveBlob, SaveWatermark, Crash,
              restore_session_checked
<1> QED BY <1>1, <1>2, IndInvHolds, PTL DEF ChannelSpec, KeepsPromise, Promise!Spec
=============================================================================
