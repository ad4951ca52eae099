-------------------------- MODULE CocoaGroupProofs --------------------------
(***************************************************************************)
(* Proofs about CocoaGroup for every group, host, limit and number of      *)
(* operations and failures.                                                *)
(*                                                                         *)
(* A session's secret and its transcript grow together, so the epoch       *)
(* secret is a function of the transcript the confirmation tag compares:   *)
(* whoever takes a commit stands where its committer stood.  And a user    *)
(* whose last change in a transcript is an add is in the registry of the   *)
(* session with that transcript.  Then, by parts of the module: what keys  *)
(* open, the geometry of the trees, and their types and limits.            *)
(***************************************************************************)
EXTENDS CocoaGroup, SequenceTheorems, WellFoundedInduction, TLAPS

(* The fields of a session, whatever their values.                         *)
Shape(s) ==
    s \in [position : {s.position}, view : {s.view}, keypair : {s.keypair},
           secret : {s.secret}, transcript : {s.transcript}, members : {s.members}]

(* Every add of a transcript is followed by a remove of the same user, or  *)
(* the user is registered.                                                 *)
RemovedAfter(t, i) ==
    \E k \in 1..Len(t) : i <= k /\ t[k].kind = "remove" /\ t[k].subject = t[i].subject
Registered(t, members) ==
    \A i \in 1..Len(t) :
        t[i].kind = "add" => t[i].subject \in members \/ RemovedAfter(t, i)
NotTwice(t) ==
    \A i, j \in 1..Len(t) :
        i < j /\ t[i].kind = "add" /\ t[j].kind = "add" /\ t[i].subject = t[j].subject =>
            \E k \in i..j : t[k].kind = "remove" /\ t[k].subject = t[i].subject

(* The operations of a transcript are among those numbered below n.        *)
Earlier(t, n) == \A i \in 1..Len(t) : t[i].root \in 1..(n - 1)

Sound(s, n) ==
    /\ Shape(s)
    /\ s.transcript \in Seq(Round)
    /\ s.secret = Roots(s.transcript)
    /\ Earlier(s.transcript, n)
    /\ Registered(s.transcript, s.members)
    /\ NotTwice(s.transcript)

CommitSound(c, n) ==
    /\ c.round \in Round /\ c.kind = c.round.kind
    /\ c.round.root \in 1..(n - 1)
    /\ c.transcript \in Seq(Round)
    /\ Earlier(c.transcript, n)

IndInv ==
    /\ fresh \in Nat \ {0} /\ fresh <= MaxOperations + 1
    /\ session = [u \in Online |-> session[u]]
    /\ \A u \in Joined : Sound(session[u], fresh)
    /\ \A c \in commits : CommitSound(c, fresh)
-----------------------------------------------------------------------------
(* The two chains grow in step, as advance_epoch extends both.             *)
LEMMA RootsAppend ==
    ASSUME NEW t \in Seq(Round), NEW r \in Round
    PROVE  /\ Roots(t) \in Seq(Nat)
           /\ Roots(Append(t, r)) = Append(Roots(t), r.root)
           /\ Append(t, r) \in Seq(Round)
<1> DEFINE a == Append(t, r)
<1>1. a \in Seq(Round) /\ Len(a) = Len(t) + 1 /\ Len(t) \in Nat
  BY AppendProperties, LenProperties
<1>2. (\A i \in 1..Len(t) : a[i] = t[i] /\ t[i] \in Round) /\ a[Len(t) + 1] = r
  BY AppendProperties, ElementOfSeq
<1>3. \A i \in 1..Len(t) : t[i].root \in Nat
  BY <1>2 DEF Round
<1>4. Roots(t) \in Seq(Nat) /\ Len(Roots(t)) = Len(t)
  <2>1. Roots(t) \in [1..Len(t) -> Nat]
    BY <1>3 DEF Roots
  <2> QED BY <1>1, <2>1
<1>5. r.root \in Nat
  BY DEF Round
<1> DEFINE b == Append(Roots(t), r.root)
<1>6. b \in Seq(Nat) /\ Len(b) = Len(t) + 1
  BY <1>4, <1>5, AppendProperties
<1>7. (\A i \in 1..Len(t) : b[i] = t[i].root) /\ b[Len(t) + 1] = r.root
  BY <1>1, <1>4, <1>5, AppendProperties DEF Roots
<1>8. Roots(a) = [i \in 1..(Len(t) + 1) |-> a[i].root]
  BY <1>1 DEF Roots
<1>9. b = [i \in 1..(Len(t) + 1) |-> b[i]]
  BY <1>6, LenProperties
<1>10. \A i \in 1..(Len(t) + 1) : b[i] = a[i].root
  <2> SUFFICES ASSUME NEW i \in 1..(Len(t) + 1) PROVE b[i] = a[i].root
    OBVIOUS
  <2>1. CASE i \in 1..Len(t)
    BY <1>2, <1>7, <2>1
  <2>2. CASE i = Len(t) + 1
    BY <1>2, <1>7, <2>2
  <2> HIDE DEF a, b
  <2> QED BY <1>1, <2>1, <2>2
<1>11. Roots(a) = b
  BY <1>8, <1>9, <1>10
<1> QED BY <1>1, <1>4, <1>11

(* The setters of a session touch the field they set.                      *)
LEMMA SetView ==
    ASSUME NEW s, Shape(s), NEW view
    PROVE  LET r == [s EXCEPT !.view = view]
           IN  Shape(r) /\ r.position = s.position /\ r.secret = s.secret
               /\ r.transcript = s.transcript /\ r.members = s.members
               /\ r.view = view
BY DEF Shape

LEMMA SetKeypair ==
    ASSUME NEW s, Shape(s), NEW n
    PROVE  LET r == rotate_session_keypair(s, n)
           IN  Shape(r) /\ r.position = s.position /\ r.secret = s.secret
               /\ r.transcript = s.transcript /\ r.members = s.members
BY DEF Shape, rotate_session_keypair

LEMMA SetMembers ==
    ASSUME NEW s, Shape(s), NEW u
    PROVE  /\ LET r == insert_member(s, u)
              IN  Shape(r) /\ r.position = s.position /\ r.secret = s.secret
                  /\ r.transcript = s.transcript /\ r.members = s.members \cup {u}
           /\ LET r == remove_member_entry(s, u)
              IN  Shape(r) /\ r.position = s.position /\ r.secret = s.secret
                  /\ r.transcript = s.transcript /\ r.members = s.members \ {u}
BY DEF Shape, insert_member, remove_member_entry

LEMMA SetEpoch ==
    ASSUME NEW s, Shape(s), NEW n, NEW round
    PROVE  LET r == advance_epoch(s, n, round)
           IN  Shape(r) /\ r.position = s.position /\ r.secret = Append(s.secret, n)
               /\ r.transcript = Append(s.transcript, round) /\ r.members = s.members
BY DEF Shape, advance_epoch

(* A session is never taken for its absence.                               *)
LEMMA ShapeIsJoined == ASSUME NEW s, Shape(s) PROVE s # NoSession
<1>1. DOMAIN s = {"position", "view", "keypair", "secret", "transcript", "members"}
  BY DEF Shape
<1>2. DOMAIN NoSession = {"position"}
  BY DEF NoSession
<1> QED BY <1>1, <1>2
-----------------------------------------------------------------------------
(* What committing or taking the round r makes of a session.               *)
Extended(s2, s, r) ==
    /\ Shape(s2)
    /\ s2.secret = Append(s.secret, r.root)
    /\ s2.transcript = Append(s.transcript, r)
    /\ r.kind = "add" => r.subject \notin s.members /\ r.subject \in s2.members
    /\ \A x \in s.members : x \in s2.members \/ (r.kind = "remove" /\ x = r.subject)

(* Registry and transcript stay in step: the double-join guards of         *)
(* add_member and process_add, the prune of process_remove.                *)
LEMMA RegistryFollows ==
    ASSUME NEW t \in Seq(Round), NEW r \in Round, NEW members, NEW members2,
           Registered(t, members), NotTwice(t),
           r.kind = "add" => r.subject \notin members /\ r.subject \in members2,
           \A x \in members : x \in members2 \/ (r.kind = "remove" /\ x = r.subject)
    PROVE  Registered(Append(t, r), members2) /\ NotTwice(Append(t, r))
<1> DEFINE a == Append(t, r)
<1>1. /\ Len(t) \in Nat /\ Len(a) = Len(t) + 1
      /\ \A i \in 1..Len(t) : a[i] = t[i]
      /\ a[Len(t) + 1] = r
  BY AppendProperties, LenProperties
<1> HIDE DEF a
<1>2. ASSUME NEW i \in 1..Len(t), RemovedAfter(t, i)
      PROVE  \E k \in 1..Len(t) : i <= k /\ a[k].kind = "remove" /\ a[k].subject = a[i].subject
  BY <1>1, <1>2 DEF RemovedAfter
<1>3. ASSUME NEW i \in 1..Len(a), a[i].kind = "add"
      PROVE  a[i].subject \in members2 \/ RemovedAfter(a, i)
  <2>1. CASE i = Len(t) + 1
    BY <1>1, <1>3, <2>1
  <2>2. CASE i \in 1..Len(t) /\ RemovedAfter(t, i)
    <3>1. PICK k \in 1..Len(t) : i <= k /\ a[k].kind = "remove" /\ a[k].subject = a[i].subject
      BY <1>2, <2>2
    <3>2. k \in 1..Len(a)
      BY <1>1
    <3> QED BY <3>1, <3>2 DEF RemovedAfter
  <2>3. CASE i \in 1..Len(t) /\ t[i].subject \in members
    <3>1. CASE t[i].subject \in members2
      BY <1>1, <2>3, <3>1
    <3>2. CASE r.kind = "remove" /\ t[i].subject = r.subject
      <4>1. Len(t) + 1 \in 1..Len(a) /\ i <= Len(t) + 1
        BY <1>1, <2>3
      <4>2. a[Len(t) + 1].kind = "remove" /\ a[Len(t) + 1].subject = a[i].subject
        BY <1>1, <2>3, <3>2
      <4> QED BY <4>1, <4>2 DEF RemovedAfter
    <3> QED BY <2>3, <3>1, <3>2
  <2>4. i \in 1..Len(t) \/ i = Len(t) + 1
    BY <1>1
  <2>5. i \in 1..Len(t) => t[i].kind = "add"
    BY <1>1, <1>3
  <2> QED BY <2>1, <2>2, <2>3, <2>4, <2>5 DEF Registered
<1>4. ASSUME NEW i \in 1..Len(a), NEW j \in 1..Len(a), i < j,
             a[i].kind = "add", a[j].kind = "add", a[i].subject = a[j].subject
      PROVE  \E k \in i..j : a[k].kind = "remove" /\ a[k].subject = a[i].subject
  <2>1. CASE j \in 1..Len(t)
    <3>1. i \in 1..Len(t) /\ a[i] = t[i] /\ a[j] = t[j]
      BY <1>1, <1>4, <2>1
    <3>2. PICK k \in i..j : t[k].kind = "remove" /\ t[k].subject = t[i].subject
      BY <1>4, <2>1, <3>1 DEF NotTwice
    <3>3. a[k] = t[k]
      BY <1>1, <2>1, <3>1
    <3> QED BY <3>1, <3>2, <3>3
  <2>2. CASE j = Len(t) + 1
    <3>1. i \in 1..Len(t) /\ a[i] = t[i] /\ a[j] = r
      BY <1>1, <1>4, <2>2
    <3>2. RemovedAfter(t, i)
      BY <1>4, <3>1 DEF Registered
    <3>3. PICK k \in 1..Len(t) : i <= k /\ a[k].kind = "remove" /\ a[k].subject = a[i].subject
      BY <1>2, <3>1, <3>2
    <3>4. k \in i..j
      BY <1>1, <2>2, <3>1, <3>3
    <3> QED BY <3>3, <3>4
  <2> QED BY <1>1, <2>1, <2>2
<1>5. Registered(a, members2)
  BY <1>3 DEF Registered
<1>6. NotTwice(a)
  BY <1>4 DEF NotTwice
<1> QED BY <1>5, <1>6 DEF a

(* A sound session stays sound when it is extended, and while others go on.*)
LEMMA ExtendedSound ==
    ASSUME NEW n \in Nat \ {0}, NEW m \in Nat \ {0}, n <= m,
           NEW s, NEW s2, NEW r \in Round,
           Sound(s, n), Extended(s2, s, r), r.root \in 1..(m - 1)
    PROVE  Sound(s2, m)
<1> DEFINE t == s.transcript
           a == Append(t, r)
<1>1. /\ t \in Seq(Round) /\ s.secret = Roots(t) /\ Earlier(t, n)
      /\ Registered(t, s.members) /\ NotTwice(t)
  BY DEF Sound
<1>2. Shape(s2) /\ s2.transcript = a /\ s2.secret = Append(Roots(t), r.root)
  BY <1>1 DEF Extended
<1>3. a \in Seq(Round) /\ s2.secret = Roots(a)
  BY <1>1, <1>2, RootsAppend
<1>4. Registered(a, s2.members) /\ NotTwice(a)
  <2> HIDE DEF t
  <2> QED BY <1>1, RegistryFollows DEF Extended
<1>5. Earlier(a, m)
  <2>1. /\ Len(t) \in Nat /\ Len(a) = Len(t) + 1
        /\ \A i \in 1..Len(t) : a[i] = t[i]
        /\ a[Len(t) + 1] = r
    BY <1>1, AppendProperties, LenProperties
  <2>2. \A i \in 1..Len(t) : a[i].root \in 1..(m - 1)
    BY <1>1, <2>1 DEF Earlier
  <2> QED BY <2>1, <2>2 DEF Earlier
<1> QED BY <1>2, <1>3, <1>4, <1>5 DEF Sound

LEMMA StillSound ==
    ASSUME NEW n \in Nat \ {0}, NEW m \in Nat \ {0}, n <= m
    PROVE  /\ \A s : Sound(s, n) => Sound(s, m)
           /\ \A c : CommitSound(c, n) => CommitSound(c, m)
<1>1. \A t : Earlier(t, n) => Earlier(t, m)
  BY DEF Earlier
<1> QED BY <1>1 DEF Sound, CommitSound
-----------------------------------------------------------------------------
(* The mapped variables of CommitTree.                                     *)
Branches == {<<>>} \cup {Roots(Append(c.transcript, c.round)) : c \in commits}
At == [u \in Online |-> IF session[u] = NoSession THEN <<>> ELSE session[u].secret]

(* One session is written, the others keep theirs.                         *)
LEMMA OneWritten ==
    ASSUME IndInv, NEW u \in Online, NEW s2, Shape(s2),
           session' = [session EXCEPT ![u] = s2]
    PROVE  /\ session'[u] = s2
           /\ \A v \in Online \ {u} : session'[v] = session[v]
           /\ session' = [v \in Online |-> session'[v]]
           /\ \A v \in Joined' : v = u \/ v \in Joined
           /\ At' = [At EXCEPT ![u] = s2.secret]
<1>1. /\ session'[u] = s2
      /\ \A v \in Online \ {u} : session'[v] = session[v]
      /\ session' = [v \in Online |-> session'[v]]
  BY DEF IndInv
<1>2. \A v \in Joined' : v = u \/ v \in Joined
  BY <1>1 DEF Joined
<1>3. s2 # NoSession
  BY ShapeIsJoined
<1>4. At' = [v \in Online |-> IF v = u THEN s2.secret
                             ELSE IF session[v] = NoSession THEN <<>> ELSE session[v].secret]
  BY <1>1, <1>3 DEF At
<1>5. [At EXCEPT ![u] = s2.secret] =
        [v \in Online |-> IF v = u THEN s2.secret
                         ELSE IF session[v] = NoSession THEN <<>> ELSE session[v].secret]
  BY DEF At
<1> QED BY <1>1, <1>2, <1>4, <1>5

(* The invariant after a step that writes one session.                     *)
LEMMA WriteInductive ==
    ASSUME IndInv, NEW u \in Online, NEW s2,
           session' = [session EXCEPT ![u] = s2],
           fresh' \in Nat \ {0}, fresh <= fresh', fresh' <= MaxOperations + 1,
           Sound(s2, fresh'),
           \A c \in commits' : c \in commits \/ CommitSound(c, fresh')
    PROVE  IndInv'
<1>1. Shape(s2)
  BY DEF Sound
<1>2. /\ session'[u] = s2
      /\ \A v \in Online \ {u} : session'[v] = session[v]
      /\ session' = [v \in Online |-> session'[v]]
      /\ \A v \in Joined' : v = u \/ v \in Joined
  BY <1>1, OneWritten
<1>3. fresh \in Nat \ {0}
  BY DEF IndInv
<1>4. \A v \in Joined' : Sound(session'[v], fresh')
  <2> SUFFICES ASSUME NEW v \in Joined' PROVE Sound(session'[v], fresh')
    OBVIOUS
  <2>1. v \in Online
    BY DEF Joined
  <2>2. CASE v = u
    BY <1>2, <2>2
  <2>3. CASE v # u
    <3>1. session'[v] = session[v] /\ v \in Joined
      BY <1>2, <2>1, <2>3
    <3>2. Sound(session[v], fresh)
      BY <3>1 DEF IndInv
    <3> QED BY <1>3, <3>1, <3>2, StillSound
  <2> QED BY <2>2, <2>3
<1>5. \A c \in commits' : CommitSound(c, fresh')
  BY <1>3, StillSound DEF IndInv
<1> QED BY <1>2, <1>4, <1>5 DEF IndInv

(* The three kinds of step.  A quiet one writes a session without moving   *)
(* its chains.                                                             *)
LEMMA QuietStep ==
    ASSUME IndInv, NEW u \in Joined, NEW s2, Shape(s2),
           s2.secret = session[u].secret, s2.transcript = session[u].transcript,
           s2.members = session[u].members,
           session' = [session EXCEPT ![u] = s2],
           fresh' = fresh \/ (fresh' = fresh + 1 /\ fresh <= MaxOperations),
           commits' = commits
    PROVE  IndInv' /\ UNCHANGED <<Branches, At>>
<1>1. u \in Online /\ session[u] # NoSession /\ Sound(session[u], fresh)
  BY DEF Joined, IndInv
<1>2. /\ fresh \in Nat \ {0} /\ fresh' \in Nat \ {0}
      /\ fresh <= fresh' /\ fresh' <= MaxOperations + 1
  BY GroupLimitsAssumption DEF IndInv
<1>3. Sound(s2, fresh')
  <2>1. Sound(s2, fresh)
    BY <1>1 DEF Sound
  <2> QED BY <1>2, <2>1, StillSound
<1>4. IndInv'
  BY <1>1, <1>2, <1>3, WriteInductive
<1>5. At' = [At EXCEPT ![u] = s2.secret]
  BY <1>1, OneWritten
<1>6. At[u] = s2.secret /\ At = [v \in Online |-> At[v]]
  BY <1>1 DEF At
<1>7. At' = At
  <2> HIDE DEF At
  <2> QED BY <1>1, <1>5, <1>6
<1>8. Branches' = Branches
  BY DEF Branches
<1> QED BY <1>4, <1>7, <1>8

(* A new session stands at the beginning, with only itself registered.     *)
LEMMA NewSessionSound ==
    ASSUME NEW n \in Nat \ {0}, NEW u, NEW position, NEW depth, NEW count, NEW host
    PROVE  LET s == new_session(u, position, depth, count, host)
           IN  Sound(s, n) /\ s.secret = <<>>
<1> DEFINE s == new_session(u, position, depth, count, host)
<1>1. Shape(s) /\ s.secret = <<>> /\ s.transcript = <<>>
  BY DEF new_session, Shape
<1>2. <<>> \in Seq(Round) /\ Len(<<>>) = 0 /\ Roots(<<>>) = <<>>
  BY DEF Roots
<1>3. Earlier(<<>>, n) /\ Registered(<<>>, s.members) /\ NotTwice(<<>>)
  BY <1>2 DEF Earlier, Registered, NotTwice
<1> HIDE DEF s
<1>4. Sound(s, n) /\ s.secret = <<>>
  BY <1>1, <1>2, <1>3 DEF Sound
<1> QED BY <1>4 DEF s

LEMMA WelcomeStep ==
    ASSUME IndInv, NEW u \in Online, process_welcome(u)
    PROVE  IndInv' /\ UNCHANGED <<Branches, At>>
<1>1. PICK w \in welcomes, host \in HostViews :
        /\ session[u] = NoSession
        /\ session' = [session EXCEPT ![u] =
                          new_session(u, w.position, w.tree_depth, w.member_count, host)]
        /\ UNCHANGED <<commits, welcomes, fresh, failed>>
  BY DEF process_welcome
<1> DEFINE s2 == new_session(u, w.position, w.tree_depth, w.member_count, host)
<1>2. fresh \in Nat \ {0} /\ fresh' = fresh
  BY <1>1 DEF IndInv
<1>3. Sound(s2, fresh') /\ s2.secret = <<>> /\ session' = [session EXCEPT ![u] = s2]
  BY <1>1, <1>2, NewSessionSound
<1> HIDE DEF s2
<1>4. IndInv'
  <2>1. fresh <= fresh' /\ fresh' <= MaxOperations + 1 /\ commits' = commits
    BY <1>1, <1>2 DEF IndInv
  <2> QED BY <1>2, <1>3, <2>1, WriteInductive
<1>5. At' = [At EXCEPT ![u] = <<>>]
  BY <1>3, OneWritten DEF Sound
<1>6. At[u] = <<>> /\ At = [v \in Online |-> At[v]]
  BY <1>1 DEF At
<1>7. At' = At
  <2> HIDE DEF At
  <2> QED BY <1>5, <1>6
<1>8. Branches' = Branches
  BY <1>1 DEF Branches
<1> QED BY <1>4, <1>7, <1>8

(* What others can reach was made by earlier operations.                   *)
LEMMA BranchesAreEarlier ==
    ASSUME IndInv
    PROVE  \A b \in Branches : \A i \in 1..Len(b) : b[i] # fresh
<1> SUFFICES ASSUME NEW b \in Branches, NEW i \in 1..Len(b) PROVE b[i] # fresh
  OBVIOUS
<1>1. CASE b = <<>>
  BY <1>1
<1>2. CASE \E c \in commits : b = Roots(Append(c.transcript, c.round))
  <2>1. PICK c \in commits : b = Roots(Append(c.transcript, c.round))
    BY <1>2
  <2>2. CommitSound(c, fresh) /\ fresh \in Nat \ {0}
    BY DEF IndInv
  <2> DEFINE t == c.transcript
             a == Append(t, c.round)
  <2>3. /\ t \in Seq(Round) /\ c.round \in Round /\ Earlier(t, fresh)
        /\ c.round.root \in 1..(fresh - 1)
    BY <2>2 DEF CommitSound
  <2>4. /\ Len(t) \in Nat /\ Len(a) = Len(t) + 1
        /\ \A j \in 1..Len(t) : a[j] = t[j]
        /\ a[Len(t) + 1] = c.round
    BY <2>3, AppendProperties, LenProperties
  <2>5. \A j \in 1..Len(a) : a[j].root \in 1..(fresh - 1)
    BY <2>3, <2>4 DEF Earlier
  <2>6. b = [j \in 1..Len(a) |-> a[j].root]
    BY <2>1 DEF Roots
  <2>7. Len(b) = Len(a)
    <3>1. a \in Seq(Round) /\ Len(a) \in Nat
      BY <2>3, <2>4, AppendProperties
    <3>2. b \in [1..Len(a) -> Nat]
      BY <2>2, <2>5, <2>6
    <3> HIDE DEF a
    <3> QED BY <3>1, <3>2
  <2> HIDE DEF a
  <2> QED BY <2>2, <2>5, <2>6, <2>7
<1> QED BY <1>1, <1>2 DEF Branches

(* A member commits on top of its own history.                             *)
LEMMA CommitStep ==
    ASSUME IndInv, NEW u \in Joined, NEW s2, NEW k,
           fresh <= MaxOperations, fresh' = fresh + 1,
           k.round \in Round, k.kind = k.round.kind, k.round.root = fresh,
           k.transcript = session[u].transcript,
           Extended(s2, session[u], k.round),
           session' = [session EXCEPT ![u] = s2], commits' = commits \cup {k}
    PROVE  /\ IndInv'
           /\ fresh \in 1..MaxOperations
           /\ \A b \in Branches : \A i \in 1..Len(b) : b[i] # fresh
           /\ Branches' = Branches \cup {Append(At[u], fresh)}
           /\ At' = [At EXCEPT ![u] = Append(@, fresh)]
<1>1. u \in Online /\ session[u] # NoSession /\ Sound(session[u], fresh)
  BY DEF Joined, IndInv
<1>2. fresh \in Nat \ {0} /\ fresh' \in Nat \ {0} /\ fresh <= fresh'
      /\ fresh \in 1..(fresh' - 1) /\ fresh \in 1..MaxOperations
      /\ fresh' <= MaxOperations + 1
  BY GroupLimitsAssumption DEF IndInv
<1>3. Sound(s2, fresh')
  BY <1>1, <1>2, ExtendedSound
<1>4. CommitSound(k, fresh')
  <2>1. k.transcript \in Seq(Round) /\ Earlier(k.transcript, fresh)
    BY <1>1 DEF Sound
  <2>2. Earlier(k.transcript, fresh')
    BY <1>2, <2>1 DEF Earlier
  <2> QED BY <1>2, <2>1, <2>2 DEF CommitSound
<1>5. IndInv'
  <2>1. \A c \in commits' : c \in commits \/ CommitSound(c, fresh')
    BY <1>4
  <2>2. session' = [session EXCEPT ![u] = s2]
    OBVIOUS
  <2> QED BY <1>1, <1>2, <1>3, <2>1, <2>2, WriteInductive
<1>6. At[u] = session[u].secret
  BY <1>1 DEF At
<1>7. s2.secret = Append(At[u], fresh) /\ Shape(s2)
  BY <1>6 DEF Extended
<1>8. At' = [At EXCEPT ![u] = Append(@, fresh)]
  BY <1>1, <1>7, OneWritten
<1>9. Roots(Append(k.transcript, k.round)) = Append(At[u], fresh)
  BY <1>1, <1>6, RootsAppend DEF Sound
<1>10. Branches' = Branches \cup {Append(At[u], fresh)}
  BY <1>9 DEF Branches
<1> QED BY <1>2, <1>5, <1>8, <1>10, BranchesAreEarlier

(* A member takes a commit made where it stands.                           *)
LEMMA FollowStep ==
    ASSUME IndInv, NEW u \in Joined, NEW s2, NEW c \in commits,
           c.transcript = session[u].transcript,
           Extended(s2, session[u], c.round),
           session' = [session EXCEPT ![u] = s2], UNCHANGED <<commits, fresh>>
    PROVE  /\ IndInv'
           /\ c.round.root \in 1..MaxOperations
           /\ Append(At[u], c.round.root) \in Branches
           /\ At' = [At EXCEPT ![u] = Append(@, c.round.root)]
           /\ Branches' = Branches
<1>1. u \in Online /\ session[u] # NoSession /\ Sound(session[u], fresh)
  BY DEF Joined, IndInv
<1>2. CommitSound(c, fresh) /\ fresh \in Nat \ {0} /\ fresh' = fresh
  BY DEF IndInv
<1>3. /\ c.round \in Round /\ c.round.root \in 1..(fresh - 1)
      /\ c.round.root \in 1..MaxOperations
  BY <1>2, GroupLimitsAssumption DEF CommitSound, IndInv
<1>4. Sound(s2, fresh')
  BY <1>1, <1>2, <1>3, ExtendedSound
<1>5. IndInv'
  <2>1. fresh <= fresh' /\ fresh' <= MaxOperations + 1 /\ commits' = commits
    BY <1>2 DEF IndInv
  <2> QED BY <1>1, <1>2, <1>4, <2>1, WriteInductive
<1>6. At[u] = session[u].secret
  BY <1>1 DEF At
<1>7. s2.secret = Append(At[u], c.round.root) /\ Shape(s2)
  BY <1>6 DEF Extended
<1>8. At' = [At EXCEPT ![u] = Append(@, c.round.root)]
  BY <1>1, <1>7, OneWritten
<1>9. Roots(Append(c.transcript, c.round)) = Append(At[u], c.round.root)
  BY <1>1, <1>3, <1>6, RootsAppend DEF Sound
<1>10. Append(At[u], c.round.root) \in Branches /\ Branches' = Branches
  BY <1>9 DEF Branches
<1> QED BY <1>3, <1>5, <1>8, <1>10
-----------------------------------------------------------------------------
(* The step of CommitTree that a step of the group amounts to.             *)
TreeCommit(u) == \E n \in 1..MaxOperations :
    /\ \A b \in Branches : \A i \in 1..Len(b) : b[i] # n
    /\ Branches' = Branches \cup {Append(At[u], n)}
    /\ At' = [At EXCEPT ![u] = Append(@, n)]

TreeFollow(u) == \E n \in 1..MaxOperations :
    /\ Append(At[u], n) \in Branches
    /\ At' = [At EXCEPT ![u] = Append(@, n)]
    /\ Branches' = Branches

TreeStep(u) == TreeCommit(u) \/ TreeFollow(u) \/ UNCHANGED <<Branches, At>>

(* The failed variant of a creating handler.                               *)
LEMMA FailStep ==
    ASSUME IndInv, NEW u \in Joined, NEW s2, fresh <= MaxOperations,
           Shape(s2), s2.secret = session[u].secret,
           s2.transcript = session[u].transcript, s2.members = session[u].members,
           Fail(u, s2)
    PROVE  IndInv' /\ TreeStep(u)
<1>1. /\ session' = [session EXCEPT ![u] = s2]
      /\ fresh' = fresh + 1 /\ commits' = commits
  BY DEF Fail
<1>2. IndInv' /\ UNCHANGED <<Branches, At>>
  BY <1>1, QuietStep
<1> QED BY <1>2 DEF TreeStep

(* The successful variant.                                                 *)
LEMMA PublishStep ==
    ASSUME IndInv, NEW u \in Joined, NEW s2, NEW k, fresh <= MaxOperations,
           k.round \in Round, k.kind = k.round.kind, k.round.root = fresh,
           k.transcript = session[u].transcript,
           Extended(s2, session[u], k.round),
           Publish(u, s2, k)
    PROVE  IndInv' /\ TreeStep(u)
<1>1. /\ session' = [session EXCEPT ![u] = s2]
      /\ fresh' = fresh + 1 /\ commits' = commits \cup {k}
  BY DEF Publish
<1>2. /\ IndInv'
      /\ fresh \in 1..MaxOperations
      /\ \A b \in Branches : \A i \in 1..Len(b) : b[i] # fresh
      /\ Branches' = Branches \cup {Append(At[u], fresh)}
      /\ At' = [At EXCEPT ![u] = Append(@, fresh)]
  BY <1>1, CommitStep
<1> HIDE DEF Branches, At
<1>3. TreeCommit(u)
  BY <1>2 DEF TreeCommit
<1> QED BY <1>2, <1>3 DEF TreeStep

(* A processed commit.                                                     *)
LEMMA ProcessStep ==
    ASSUME IndInv, NEW u \in Joined, NEW s2, NEW c \in commits,
           c.transcript = session[u].transcript,
           Extended(s2, session[u], c.round),
           session' = [session EXCEPT ![u] = s2], UNCHANGED <<commits, fresh>>
    PROVE  IndInv' /\ TreeStep(u)
<1>1. /\ IndInv'
      /\ c.round.root \in 1..MaxOperations
      /\ Append(At[u], c.round.root) \in Branches
      /\ At' = [At EXCEPT ![u] = Append(@, c.round.root)]
      /\ Branches' = Branches
  BY FollowStep
<1>2. TreeFollow(u)
  BY <1>1 DEF TreeFollow
<1> QED BY <1>1, <1>2 DEF TreeStep
-----------------------------------------------------------------------------
(* What a committer announces: its own transcript and the new delta root.  *)
LEMMA CommitFields ==
    ASSUME fresh \in Nat, NEW u, NEW s, NEW kind \in {"update", "add", "remove"},
           NEW subject \in Users \cup {NoUser}, NEW position, NEW path
    PROVE  LET c == commit(u, s, kind, subject, position, path)
           IN  /\ c.round = [root |-> fresh, kind |-> kind, subject |-> subject]
               /\ c.round \in Round /\ c.kind = c.round.kind
               /\ c.transcript = s.transcript
BY DEF commit, Round

LEMMA JoinedSession ==
    ASSUME IndInv, NEW u \in Joined
    PROVE  Shape(session[u]) /\ fresh \in Nat
BY DEF IndInv, Sound

(* create_update, whether it returns a commit or an error.                 *)
LEMMA CreateUpdateStep ==
    ASSUME IndInv, NEW u \in Online, create_update(u)
    PROVE  IndInv' /\ TreeStep(u)
<1> DEFINE s == session[u]
           path == build_path(s, [v \in our_path(s) |-> UpdateRecipients(s.view, v)])
           c == commit(u, s, "update", NoUser, NoLeaf, path)
           rotated == rotate_session_keypair(s, fresh)
           s2 == advance_epoch(rotated, fresh, c.round)
<1>1. u \in Joined /\ fresh <= MaxOperations /\ (Publish(u, s2, c) \/ Fail(u, rotated))
  BY DEF create_update
<1>2. Shape(s) /\ fresh \in Nat
  BY <1>1, JoinedSession
<1>3. /\ Shape(rotated) /\ rotated.secret = s.secret
      /\ rotated.transcript = s.transcript /\ rotated.members = s.members
  BY <1>2, SetKeypair
<1>4. /\ c.round \in Round /\ c.round.root = fresh /\ c.kind = c.round.kind
      /\ c.round.kind = "update" /\ c.transcript = s.transcript
  <2> HIDE DEF path, s
  <2>1. /\ c.round = [root |-> fresh, kind |-> "update", subject |-> NoUser]
        /\ c.round \in Round /\ c.kind = c.round.kind /\ c.transcript = s.transcript
    BY <1>2, CommitFields
  <2> QED BY <2>1
<1> HIDE DEF c, rotated
<1>5. Extended(s2, s, c.round)
  <2>1. /\ Shape(s2) /\ s2.secret = Append(rotated.secret, fresh)
        /\ s2.transcript = Append(rotated.transcript, c.round)
        /\ s2.members = rotated.members
    BY <1>3, SetEpoch
  <2> HIDE DEF s2, s
  <2> QED BY <1>3, <1>4, <2>1 DEF Extended
<1> HIDE DEF s2
<1>6. CASE Publish(u, s2, c)
  BY <1>1, <1>4, <1>5, <1>6, PublishStep
<1>7. CASE Fail(u, rotated)
  BY <1>1, <1>3, <1>7, FailStep
<1> QED BY <1>1, <1>6, <1>7

(* add_member: a registered user is refused, the new one is registered.    *)
LEMMA AddMemberStep ==
    ASSUME IndInv, NEW u \in Online, NEW new \in Users, add_member(u, new)
    PROVE  IndInv' /\ TreeStep(u)
<1> DEFINE s == session[u]
           new_position == s.view.member_count
           count == new_position + 1
           grown == [s EXCEPT !.view = grow_if_needed(@, count)]
           new_leaf == leaf(grown.view.tree_depth, new_position)
           path == build_path(grown, [v \in our_path(grown) |->
                       AddRecipients(grown.view, v, new_leaf, <<fresh, ONE_TIME>>)])
           c == commit(u, grown, "add", new, new_position, path)
           counted == [grown EXCEPT !.view = set_member_count(@, count)]
           marked == [counted EXCEPT !.view = mark_member_as_unmerged(@, new_position)]
           advanced == advance_epoch(marked, fresh, c.round)
           s2 == insert_member(advanced, new)
<1>1. /\ u \in Joined /\ fresh <= MaxOperations /\ new \notin s.members
      /\ Publish(u, s2, c) \/ Fail(u, grown) \/ Fail(u, counted)
  BY DEF add_member
<1>2. Shape(s) /\ fresh \in Nat
  BY <1>1, JoinedSession
<1>3. /\ Shape(grown) /\ grown.secret = s.secret
      /\ grown.transcript = s.transcript /\ grown.members = s.members
  <2> HIDE DEF s, count
  <2> QED BY <1>2, SetView
<1>4. /\ c.round \in Round /\ c.round.root = fresh /\ c.kind = c.round.kind
      /\ c.round.kind = "add" /\ c.round.subject = new /\ c.transcript = s.transcript
  <2> HIDE DEF path, s, grown, new_position
  <2>1. /\ c.round = [root |-> fresh, kind |-> "add", subject |-> new]
        /\ c.round \in Round /\ c.kind = c.round.kind /\ c.transcript = grown.transcript
    BY <1>2, CommitFields
  <2> QED BY <1>3, <2>1
<1>5. /\ Shape(counted) /\ counted.secret = s.secret
      /\ counted.transcript = s.transcript /\ counted.members = s.members
  <2> HIDE DEF s, grown, count
  <2> QED BY <1>3, SetView
<1>6. /\ Shape(marked) /\ marked.secret = s.secret
      /\ marked.transcript = s.transcript /\ marked.members = s.members
  <2> HIDE DEF s, counted, new_position
  <2> QED BY <1>5, SetView
<1> HIDE DEF c, marked, counted, grown
<1>7. /\ Shape(advanced) /\ advanced.secret = Append(s.secret, fresh)
      /\ advanced.transcript = Append(s.transcript, c.round)
      /\ advanced.members = s.members
  <2> PICK round : round = c.round
    OBVIOUS
  <2>1. advanced = advance_epoch(marked, fresh, round)
    OBVIOUS
  <2> HIDE DEF s, advanced
  <2> QED BY ONLY <1>6, <2>1, round = c.round, SetEpoch
<1> HIDE DEF advanced
<1>8. Extended(s2, s, c.round)
  <2>1. /\ Shape(s2) /\ s2.secret = advanced.secret
        /\ s2.transcript = advanced.transcript
        /\ s2.members = advanced.members \cup {new}
    BY <1>7, SetMembers
  <2> HIDE DEF s2, s
  <2> QED BY <1>1, <1>4, <1>7, <2>1 DEF Extended
<1> HIDE DEF s2
<1>9. CASE Publish(u, s2, c)
  BY <1>1, <1>4, <1>8, <1>9, PublishStep
<1>10. CASE Fail(u, grown)
  BY <1>1, <1>3, <1>10, FailStep
<1>11. CASE Fail(u, counted)
  BY <1>1, <1>5, <1>11, FailStep
<1> QED BY <1>1, <1>9, <1>10, <1>11

(* The members a host can name are users of the group.                     *)
LEMMA RosterUsers ==
    ASSUME IndInv, NEW s, NEW member \in Roster(s)
    PROVE  member.user \in Users \cup {NoUser}
<1>1. CASE \E f \in FounderSet : member = [user |-> f, position |-> PositionOf(f)]
  BY <1>1 DEF Users
<1>2. CASE \E c \in commits : member = [user |-> c.round.subject, position |-> c.at]
  BY <1>2 DEF IndInv, CommitSound, Round
<1> QED BY <1>1, <1>2 DEF Roster

(* remove_member leaves the remover's registry as it is.                   *)
LEMMA RemoveMemberStep ==
    ASSUME IndInv, NEW u \in Joined, NEW member \in Roster(session[u]),
           remove_member(u, member)
    PROVE  IndInv' /\ TreeStep(u)
<1> DEFINE s == session[u]
           removed_leaf == leaf(s.view.tree_depth, member.position)
           blanked == [s EXCEPT !.view = blank_node(@, removed_leaf)]
           path == build_path(blanked, [v \in our_path(blanked) |->
                       RemoveRecipients(blanked.view, v, removed_leaf)])
           c == commit(u, blanked, "remove", member.user, member.position, path)
           s2 == advance_epoch(blanked, fresh, c.round)
<1>1. fresh <= MaxOperations /\ (Publish(u, s2, c) \/ Fail(u, blanked))
  BY DEF remove_member
<1>2. Shape(s) /\ fresh \in Nat
  BY JoinedSession
<1>3. /\ Shape(blanked) /\ blanked.secret = s.secret
      /\ blanked.transcript = s.transcript /\ blanked.members = s.members
  <2> HIDE DEF s, removed_leaf
  <2> QED BY <1>2, SetView
<1>4. /\ c.round \in Round /\ c.round.root = fresh /\ c.kind = c.round.kind
      /\ c.round.kind = "remove" /\ c.transcript = s.transcript
  <2>1. member.user \in Users \cup {NoUser}
    BY RosterUsers
  <2> HIDE DEF path, s, blanked
  <2>2. /\ c.round = [root |-> fresh, kind |-> "remove", subject |-> member.user]
        /\ c.round \in Round /\ c.kind = c.round.kind /\ c.transcript = blanked.transcript
    BY <1>2, <2>1, CommitFields
  <2> QED BY <1>3, <2>2
<1> HIDE DEF c, blanked
<1>5. Extended(s2, s, c.round)
  <2>1. /\ Shape(s2) /\ s2.secret = Append(blanked.secret, fresh)
        /\ s2.transcript = Append(blanked.transcript, c.round)
        /\ s2.members = blanked.members
    BY <1>3, SetEpoch
  <2> HIDE DEF s2, s
  <2> QED BY <1>3, <1>4, <2>1 DEF Extended
<1> HIDE DEF s2
<1>6. CASE Publish(u, s2, c)
  BY <1>1, <1>4, <1>5, <1>6, PublishStep
<1>7. CASE Fail(u, blanked)
  BY <1>1, <1>3, <1>7, FailStep
<1> QED BY <1>1, <1>6, <1>7

(* process_update: the tag was compared with our own transcript.           *)
LEMMA ProcessUpdateStep ==
    ASSUME IndInv, NEW u \in Online, NEW c \in commits, process_update(u, c)
    PROVE  IndInv' /\ TreeStep(u)
<1> DEFINE s == session[u]
           view == clear_unmerged_on_path(update_tree_from_path_updates(s.view, c),
                                          c.leaf, s.position)
           viewed == [s EXCEPT !.view = view]
           s2 == advance_epoch(viewed, c.round.root, c.round)
<1>1. /\ u \in Joined /\ c.kind = "update" /\ c.transcript = s.transcript
      /\ session' = [session EXCEPT ![u] = s2] /\ UNCHANGED <<commits, fresh>>
  BY DEF process_update, Accepts, confirmation_tag_matches
<1>2. Shape(s)
  BY <1>1, JoinedSession
<1>3. /\ Shape(viewed) /\ viewed.secret = s.secret
      /\ viewed.transcript = s.transcript /\ viewed.members = s.members
  <2> HIDE DEF s, view
  <2> QED BY <1>2, SetView
<1> HIDE DEF viewed
<1>4. /\ Shape(s2) /\ s2.secret = Append(viewed.secret, c.round.root)
      /\ s2.transcript = Append(viewed.transcript, c.round)
      /\ s2.members = viewed.members
  BY <1>3, SetEpoch
<1>5. c.round.kind # "add"
  BY <1>1 DEF IndInv, CommitSound
<1> HIDE DEF s2
<1>6. Extended(s2, s, c.round)
  <2> HIDE DEF s
  <2> QED BY <1>3, <1>4, <1>5 DEF Extended
<1> QED BY <1>1, <1>6, ProcessStep

(* process_add: a registered user is refused, the new one is registered.   *)
LEMMA ProcessAddStep ==
    ASSUME IndInv, NEW u \in Online, NEW c \in commits, process_add(u, c)
    PROVE  IndInv' /\ TreeStep(u)
<1> DEFINE s == session[u]
           new == c.round.subject
           view == mark_member_as_unmerged(
                       update_tree_from_path_updates(grow_for_add(s.view, c.at + 1), c), c.at)
           viewed == [s EXCEPT !.view = view]
           advanced == advance_epoch(viewed, c.round.root, c.round)
           s2 == insert_member(advanced, new)
<1>1. /\ u \in Joined /\ c.kind = "add" /\ c.transcript = s.transcript
      /\ new \notin s.members
      /\ session' = [session EXCEPT ![u] = s2] /\ UNCHANGED <<commits, fresh>>
  BY DEF process_add, Accepts, confirmation_tag_matches
<1>2. Shape(s)
  BY <1>1, JoinedSession
<1>3. /\ Shape(viewed) /\ viewed.secret = s.secret
      /\ viewed.transcript = s.transcript /\ viewed.members = s.members
  <2> HIDE DEF s, view
  <2> QED BY <1>2, SetView
<1> HIDE DEF viewed
<1>4. /\ Shape(advanced) /\ advanced.secret = Append(viewed.secret, c.round.root)
      /\ advanced.transcript = Append(viewed.transcript, c.round)
      /\ advanced.members = viewed.members
  BY <1>3, SetEpoch
<1> HIDE DEF advanced
<1>5. /\ Shape(s2) /\ s2.secret = advanced.secret
      /\ s2.transcript = advanced.transcript /\ s2.members = advanced.members \cup {new}
  BY <1>4, SetMembers
<1> HIDE DEF s2
<1>6. Extended(s2, s, c.round)
  <2> HIDE DEF s
  <2> QED BY <1>1, <1>3, <1>4, <1>5 DEF Extended
<1> QED BY <1>1, <1>6, ProcessStep

(* process_remove: only the removed user is dropped from the registry.     *)
LEMMA ProcessRemoveStep ==
    ASSUME IndInv, NEW u \in Online, NEW c \in commits, process_remove(u, c)
    PROVE  IndInv' /\ TreeStep(u)
<1> DEFINE s == session[u]
           view == update_tree_from_path_updates(
                       blank_node(s.view, leaf(s.view.tree_depth, c.at)), c)
           viewed == [s EXCEPT !.view = view]
           advanced == advance_epoch(viewed, c.round.root, c.round)
           s2 == remove_member_entry(advanced, c.round.subject)
<1>1. /\ u \in Joined /\ c.kind = "remove" /\ c.transcript = s.transcript
      /\ session' = [session EXCEPT ![u] = s2] /\ UNCHANGED <<commits, fresh>>
  BY DEF process_remove, Accepts, confirmation_tag_matches
<1>2. Shape(s)
  BY <1>1, JoinedSession
<1>3. /\ Shape(viewed) /\ viewed.secret = s.secret
      /\ viewed.transcript = s.transcript /\ viewed.members = s.members
  <2> HIDE DEF s, view
  <2> QED BY <1>2, SetView
<1> HIDE DEF viewed
<1>4. /\ Shape(advanced) /\ advanced.secret = Append(viewed.secret, c.round.root)
      /\ advanced.transcript = Append(viewed.transcript, c.round)
      /\ advanced.members = viewed.members
  BY <1>3, SetEpoch
<1> HIDE DEF advanced
<1>5. /\ Shape(s2) /\ s2.secret = advanced.secret
      /\ s2.transcript = advanced.transcript
      /\ s2.members = advanced.members \ {c.round.subject}
  BY <1>4, SetMembers
<1> HIDE DEF s2
<1>6. c.round.kind = "remove"
  BY <1>1 DEF IndInv, CommitSound
<1>7. Extended(s2, s, c.round)
  <2> HIDE DEF s
  <2> QED BY <1>3, <1>4, <1>5, <1>6 DEF Extended
<1> QED BY <1>1, <1>7, ProcessStep
-----------------------------------------------------------------------------
(* Every step of the group keeps the invariant and is a step of the tree.  *)
LEMMA GroupStep ==
    ASSUME IndInv, [GroupNext]_group_vars
    PROVE  IndInv' /\ ((\E u \in Online : TreeStep(u)) \/ UNCHANGED <<Branches, At>>)
<1>1. CASE UNCHANGED group_vars
  <2>1. UNCHANGED <<session, commits, fresh>>
    BY <1>1 DEF group_vars
  <2>2. Joined' = Joined
    BY <2>1 DEF Joined
  <2>3. IndInv'
    BY <2>1, <2>2 DEF IndInv
  <2> QED BY <2>1, <2>3 DEF Branches, At
<1>2. ASSUME NEW u \in Online, process_welcome(u)
      PROVE  IndInv' /\ TreeStep(u)
  BY <1>2, WelcomeStep DEF TreeStep
<1>3. ASSUME NEW u \in Online, create_update(u)
      PROVE  IndInv' /\ TreeStep(u)
  BY <1>3, CreateUpdateStep
<1>4. ASSUME NEW u \in Online, NEW new \in Users, add_member(u, new)
      PROVE  IndInv' /\ TreeStep(u)
  BY <1>4, AddMemberStep
<1>5. ASSUME NEW u \in Joined, NEW member \in Roster(session[u]), remove_member(u, member)
      PROVE  IndInv' /\ TreeStep(u)
  BY <1>5, RemoveMemberStep
<1>6. ASSUME NEW u \in Online, NEW c \in commits,
             process_update(u, c) \/ process_add(u, c) \/ process_remove(u, c)
      PROVE  IndInv' /\ TreeStep(u)
  BY <1>6, ProcessUpdateStep, ProcessAddStep, ProcessRemoveStep
<1> QED BY <1>1, <1>2, <1>3, <1>4, <1>5, <1>6 DEF GroupNext

(* create_group leaves one session at the empty history and no commits.    *)
LEMMA GroupStart == GroupInit => IndInv /\ Branches = {<<>>} /\ At = [u \in Online |-> <<>>]
<1> SUFFICES ASSUME GroupInit PROVE IndInv /\ Branches = {<<>>} /\ At = [u \in Online |-> <<>>]
  OBVIOUS
<1> DEFINE depth == depth_for_members(Len(Founders))
<1>1. PICK host \in HostViews :
        /\ session = [u \in Online |->
              IF u = Creator THEN new_session(u, 0, depth, Len(Founders), host)
                             ELSE NoSession]
        /\ commits = {} /\ fresh = 1
  BY DEF GroupInit
<1> DEFINE s == new_session(Creator, 0, depth, Len(Founders), host)
<1>2. Sound(s, 1) /\ s.secret = <<>>
  BY NewSessionSound
<1>3. \A u \in Online : session[u] = s \/ session[u] = NoSession
  BY <1>1
<1> HIDE DEF s
<1>4. IndInv
  <2>1. session = [u \in Online |-> session[u]]
    BY <1>1
  <2>2. \A u \in Joined : Sound(session[u], fresh)
    BY <1>1, <1>2, <1>3 DEF Joined
  <2>3. fresh \in Nat \ {0} /\ fresh <= MaxOperations + 1 /\ commits = {}
    BY <1>1, GroupLimitsAssumption
  <2> QED BY <2>1, <2>2, <2>3 DEF IndInv
<1>5. Branches = {<<>>}
  BY <1>1 DEF Branches
<1>6. At = [u \in Online |-> <<>>]
  <2>1. \A u \in Online :
          (IF session[u] = NoSession THEN <<>> ELSE session[u].secret) = <<>>
    BY <1>2, <1>3
  <2> QED BY <2>1 DEF At
<1> QED BY <1>4, <1>5, <1>6

(* In every reachable state each session's secret is the chain of the      *)
(* rounds in its transcript, each member whose last change there is an add *)
(* is registered, and every commit extends a transcript of earlier rounds: *)
(* what advance_epoch, insert_member and remove_member keep in step.       *)
THEOREM IndInvHolds == GroupSpec => []IndInv
<1>1. GroupInit => IndInv
  BY GroupStart
<1>2. IndInv /\ [GroupNext]_group_vars => IndInv'
  BY GroupStep
<1> QED BY <1>1, <1>2, PTL DEF GroupSpec

(* The double join guards of add_member and process_add hold across        *)
(* sessions: no transcript adds a user twice without removing it between.  *)
THEOREM NoDoubleAddHolds == GroupSpec => []NoDoubleAdd
<1>1. IndInv => NoDoubleAdd
  BY DEF IndInv, Sound, NotTwice, NoDoubleAdd
<1> QED BY <1>1, IndInvHolds, PTL

(* The group implements CommitTree: whoever's session takes a commit, its  *)
(* own or another's, steps from the end of its history to a commit made    *)
(* there (the confirmation tag binds the transcript).                      *)
THEOREM GroupImplementsCommitTree == GroupSpec => MembersWalkOneTree
<1>1. GroupInit => Walk!Init
  BY GroupStart DEF Walk!Init, Branches, At
<1>2. IndInv /\ [GroupNext]_group_vars => [Walk!Next]_(Walk!vars)
  <2> SUFFICES ASSUME IndInv, [GroupNext]_group_vars PROVE [Walk!Next]_(Walk!vars)
    OBVIOUS
  <2>1. CASE UNCHANGED <<Branches, At>>
    BY <2>1 DEF Walk!vars, Branches, At
  <2>2. ASSUME NEW u \in Online, TreeCommit(u) PROVE Walk!Commit(u)
    BY <2>2 DEF TreeCommit, Walk!Commit, Branches, At
  <2>3. ASSUME NEW u \in Online, TreeFollow(u) PROVE Walk!Follow(u)
    BY <2>3 DEF TreeFollow, Walk!Follow, Branches, At
  <2>4. (\E u \in Online : TreeStep(u)) \/ UNCHANGED <<Branches, At>>
    BY GroupStep
  <2> QED BY <2>1, <2>2, <2>3, <2>4 DEF TreeStep, Walk!Next
<1> QED BY <1>1, <1>2, IndInvHolds, PTL DEF GroupSpec, MembersWalkOneTree, Walk!Spec

-----------------------------------------------------------------------------
(* Who can read whose commits, and where a commit writes.                  *)
(*                                                                         *)
(* A session can open a seed only with the keypair its user came with:     *)
(* rotated keypairs are never announced, so no view holds one.  A view     *)
(* holds the keypair of a founder at the leaf of that founder only, until  *)
(* a path or a removal overwrites the leaf, and no step brings it back.    *)
(* And the depth and member count of a session are a function of its       *)
(* transcript, unless an operation of it failed half way.                  *)

(* What a view may hold: nothing, a founder's key at its leaf, or the key  *)
(* of a path.                                                              *)
PathKey(key) == \E n \in Nat \ {0}, level \in Nat : key = <<n, level>>
SeedKey(key) ==
    \/ \E position : key = <<0, position>>
    \/ PathKey(key)
    \/ \E n \in Nat \ {0} : key = <<n, ONE_TIME>>
Holds(view, position) == \E n \in DOMAIN view.nodes : view.nodes[n].key = <<0, position>>

IsFcn(f) == f = [x \in DOMAIN f |-> f[x]]
NodeOK(view, n) ==
    /\ n = leaf(n.depth, n.position) /\ n.depth \in Int
    /\ view.nodes[n] = [key |-> view.nodes[n].key, unmerged |-> view.nodes[n].unmerged]
    /\ \/ view.nodes[n].key = NoKey
       \/ PathKey(view.nodes[n].key)
       \/ view.nodes[n].key = <<0, n.position>> /\ n = leaf(view.tree_depth, n.position)
ViewOK(view) ==
    /\ view \in [tree_depth : {view.tree_depth}, member_count : {view.member_count},
                 nodes : {view.nodes}]
    /\ view.tree_depth \in Nat
    /\ IsFcn(view.nodes)
    /\ \A n \in DOMAIN view.nodes : NodeOK(view, n)

Seals(c, key) == \E level \in DOMAIN c.path : \E e \in c.path[level].seeds : e.key = key

(* The commits of a transcript are those made at its prefixes.             *)
In(t, round) == \E i \in 1..Len(t) : t[i] = round
Prefixes(t) ==
    \A c \in commits, i \in 1..Len(t) : t[i] = c.round =>
        Len(c.transcript) = i - 1 /\ \A k \in 1..(i - 1) : c.transcript[k] = t[k]

(* The founders' keys of which nothing is left once t is behind.           *)
GoneAfter(t, u, position) ==
    \/ \E r \in commits : r.kind = "remove" /\ In(t, r.round) /\ r.at = position
    \/ \E c \in commits : /\ c.committer \notin failed \cup {u} /\ u \notin failed
                          /\ In(t, c.round) /\ position = PositionOf(c.committer)

SessionKeys(u, s) ==
    /\ u \in FounderSet /\ s.position = PositionOf(u)
    /\ ViewOK(s.view)
    /\ s.keypair = <<0, PositionOf(u)>> \/ \E n \in Nat \ {0} : s.keypair = <<n, ROTATED>>
    /\ Prefixes(s.transcript)
    /\ \A position : GoneAfter(s.transcript, u, position) => ~ Holds(s.view, position)
    /\ \A c \in commits : In(s.transcript, c.round) /\ c.committer # u =>
          Seals(c, <<0, PositionOf(u)>>)

CommitKeys(c) ==
    /\ c.committer \in Online /\ c.leaf = PositionOf(c.committer)
    /\ c.tree_depth \in Nat /\ DOMAIN c.path = 0..c.tree_depth
    /\ \A level \in DOMAIN c.path : \A e \in c.path[level].seeds : SeedKey(e.key)
    /\ \A position : GoneAfter(c.transcript, c.committer, position) \/
                     (c.kind = "remove" /\ c.at = position) => ~ Seals(c, <<0, position>>)
    /\ c.committer \in Joined /\ In(session[c.committer].transcript, c.round)

(* The depth and count of a member who went through t: those of the new    *)
(* group, changed by every add.                                            *)
Founding == [depth |-> depth_for_members(Len(Founders)), count |-> Len(Founders)]
After(shape, c) ==
    IF c.kind # "add" THEN shape
    ELSE [depth |-> IF depth_for_members(c.at + 1) > shape.depth THEN shape.depth + 1
                    ELSE shape.depth,
          count |-> c.at + 1]
Trace(C, g, t) ==
    /\ g[0] = Founding
    /\ \A i \in 1..Len(t) : \E c \in C : c.round = t[i] /\ g[i] = After(g[i - 1], c)
ShapeOf(view) == [depth |-> view.tree_depth, count |-> view.member_count]
SessionGeometry(s) == \E g :
    Trace(commits, g, s.transcript) /\ g[Len(s.transcript)] = ShapeOf(s.view)
CommitGeometry(c) == \E g :
    /\ Trace(commits, g, Append(c.transcript, c.round))
    /\ g[Len(c.transcript) + 1].depth = c.tree_depth

KeysInv ==
    /\ \A u \in Joined : SessionKeys(u, session[u])
    /\ \A c \in commits : CommitKeys(c)
    /\ \A c, d \in commits : c.round = d.round => c = d
    /\ \A w \in welcomes : w.aad = "group_id" =>
          /\ w.to \in FounderSet /\ w.position = PositionOf(w.to)
          /\ w.tree_depth = Founding.depth /\ w.member_count = Founding.count
GeometryInv ==
    /\ \A u \in Joined \ failed : SessionGeometry(session[u])
    /\ \A c \in commits : c.committer \notin failed => CommitGeometry(c)
-----------------------------------------------------------------------------
(* Keys.                                                                   *)
LEMMA KeyFacts ==
    ASSUME NEW key
    PROVE  /\ PathKey(key) => \A position : key # <<0, position>>
           /\ PathKey(key) => SeedKey(key)
           /\ SeedKey(key) => key # NoKey /\ \A n \in Nat \ {0} : key # <<n, ROTATED>>
           /\ \A position : SeedKey(<<0, position>>)
           /\ \A n \in Nat \ {0} : SeedKey(<<n, ONE_TIME>>)
           /\ \A n \in Nat \ {0} : \A position : <<n, ONE_TIME>> # <<0, position>>
           /\ \A p, q : <<0, p>> = <<0, q>> => p = q
           /\ \A position : <<0, position>> # NoKey
BY DEF PathKey, SeedKey, NoKey, ROTATED, ONE_TIME

LEMMA ViewFacts ==
    ASSUME NEW view, ViewOK(view), NEW nodes, NEW depth, NEW count
    PROVE  /\ [view EXCEPT !.nodes = nodes] \in
                 [tree_depth : {view.tree_depth}, member_count : {view.member_count},
                  nodes : {nodes}]
           /\ [view EXCEPT !.tree_depth = depth, !.nodes = nodes] \in
                 [tree_depth : {depth}, member_count : {view.member_count}, nodes : {nodes}]
           /\ [view EXCEPT !.member_count = count] \in
                 [tree_depth : {view.tree_depth}, member_count : {count}, nodes : {view.nodes}]
BY DEF ViewOK

(* A view whose nodes keep their keys, or take path keys or none.          *)
LEMMA ViewChanges ==
    ASSUME NEW view, ViewOK(view), NEW v, NEW nodes, NEW count,
           v \in [tree_depth : {view.tree_depth}, member_count : {count}, nodes : {nodes}],
           IsFcn(nodes),
           \A n \in DOMAIN nodes :
              /\ n = leaf(n.depth, n.position) /\ n.depth \in Int
              /\ nodes[n] = [key |-> nodes[n].key, unmerged |-> nodes[n].unmerged]
              /\ \/ nodes[n].key = NoKey \/ PathKey(nodes[n].key)
                 \/ n \in DOMAIN view.nodes /\ nodes[n].key = view.nodes[n].key
    PROVE  /\ ViewOK(v) /\ v.tree_depth = view.tree_depth /\ v.member_count = count
           /\ \A position : Holds(v, position) => Holds(view, position)
           /\ \A position : (\A n \in DOMAIN nodes :
                  n = leaf(view.tree_depth, position) => nodes[n].key # <<0, position>>) =>
                  ~ Holds(v, position)
<1>1. v.tree_depth = view.tree_depth /\ v.member_count = count /\ v.nodes = nodes
  OBVIOUS
<1>2. \A n \in DOMAIN nodes : NodeOK(v, n)
  BY <1>1 DEF NodeOK, ViewOK
<1>3. ViewOK(v)
  BY <1>1, <1>2 DEF ViewOK
<1>4. ASSUME NEW position, Holds(v, position) PROVE Holds(view, position)
  <2>1. PICK n \in DOMAIN nodes : nodes[n].key = <<0, position>>
    BY <1>1, <1>4 DEF Holds
  <2> QED BY <2>1, KeyFacts DEF Holds
<1>5. ASSUME NEW position, Holds(v, position)
      PROVE  \E n \in DOMAIN nodes :
                n = leaf(view.tree_depth, position) /\ nodes[n].key = <<0, position>>
  <2>1. PICK n \in DOMAIN nodes : nodes[n].key = <<0, position>>
    BY <1>1, <1>5 DEF Holds
  <2>2. nodes[n].key = <<0, n.position>> /\ n = leaf(view.tree_depth, n.position)
    <3>1. ~ PathKey(nodes[n].key) /\ nodes[n].key # NoKey /\ NodeOK(v, n)
      BY <1>2, <2>1, KeyFacts
    <3> QED BY <1>1, <3>1 DEF NodeOK
  <2>3. n.position = position
    BY <2>1, <2>2, KeyFacts
  <2> QED BY <2>1, <2>2, <2>3
<1> QED BY <1>1, <1>3, <1>4, <1>5

LEMMA SetMemberCount ==
    ASSUME NEW view, ViewOK(view), NEW count
    PROVE  LET v == set_member_count(view, count)
           IN  /\ ViewOK(v) /\ v.tree_depth = view.tree_depth /\ v.member_count = count
               /\ \A position : Holds(v, position) => Holds(view, position)
<1>1. set_member_count(view, count) \in
        [tree_depth : {view.tree_depth}, member_count : {count}, nodes : {view.nodes}]
  BY ViewFacts DEF set_member_count
<1> QED BY <1>1, ViewChanges DEF ViewOK, NodeOK

LEMMA UnmergedChange ==
    ASSUME NEW view, ViewOK(view), NEW position, NEW other
    PROVE  \A v \in {mark_member_as_unmerged(view, position),
                     clear_unmerged_on_path(view, position, other)} :
               /\ ViewOK(v) /\ ShapeOf(v) = ShapeOf(view)
               /\ \A p : Holds(v, p) => Holds(view, p)
<1> DEFINE N(v) == \E nodes : v = [view EXCEPT !.nodes = nodes]
               /\ nodes = [n \in DOMAIN view.nodes |-> nodes[n]]
               /\ \A n \in DOMAIN view.nodes : \E unmerged :
                      nodes[n] = [key |-> view.nodes[n].key, unmerged |-> unmerged]
<1>1. \A n \in DOMAIN view.nodes : \A X :
        [view.nodes[n] EXCEPT !.unmerged = X] = [key |-> view.nodes[n].key, unmerged |-> X]
  BY DEF ViewOK, NodeOK
<1>2. N(mark_member_as_unmerged(view, position))
  <2>1. PICK nodes : nodes = [n \in DOMAIN view.nodes |->
        IF /\ n \in path_to_root(leaf(view.tree_depth, position))
           /\ is_blank(view, n)
        THEN [view.nodes[n] EXCEPT !.unmerged = @ \cup {position}]
        ELSE view.nodes[n]]
    OBVIOUS
  <2>2. \A n \in DOMAIN view.nodes : \E unmerged :
          nodes[n] = [key |-> view.nodes[n].key, unmerged |-> unmerged]
    BY <1>1, <2>1 DEF ViewOK, NodeOK
  <2> QED BY <2>1, <2>2 DEF mark_member_as_unmerged
<1>3. N(clear_unmerged_on_path(view, position, other))
  <2>1. PICK nodes : nodes = [n \in DOMAIN view.nodes |->
        IF n \in path_to_root(leaf(view.tree_depth, position))
        THEN [view.nodes[n] EXCEPT !.unmerged = @ \ {other}]
        ELSE view.nodes[n]]
    OBVIOUS
  <2>2. \A n \in DOMAIN view.nodes : \E unmerged :
          nodes[n] = [key |-> view.nodes[n].key, unmerged |-> unmerged]
    BY <1>1, <2>1 DEF ViewOK, NodeOK
  <2> QED BY <2>1, <2>2 DEF clear_unmerged_on_path
<1>4. ASSUME NEW v, N(v)
      PROVE  /\ ViewOK(v) /\ ShapeOf(v) = ShapeOf(view)
             /\ \A p : Holds(v, p) => Holds(view, p)
  <2>1. PICK nodes : /\ v = [view EXCEPT !.nodes = nodes]
                     /\ nodes = [n \in DOMAIN view.nodes |-> nodes[n]]
                     /\ \A n \in DOMAIN view.nodes : \E unmerged :
                            nodes[n] = [key |-> view.nodes[n].key, unmerged |-> unmerged]
    BY <1>4
  <2>2. v \in [tree_depth : {view.tree_depth}, member_count : {view.member_count},
               nodes : {nodes}]
    BY <2>1, ViewFacts
  <2>3. /\ DOMAIN nodes = DOMAIN view.nodes
        /\ IsFcn(nodes)
        /\ \A n \in DOMAIN nodes :
              /\ n = leaf(n.depth, n.position) /\ n.depth \in Int
              /\ nodes[n] = [key |-> nodes[n].key, unmerged |-> nodes[n].unmerged]
              /\ nodes[n].key = view.nodes[n].key
    BY <2>1 DEF ViewOK, NodeOK, IsFcn
  <2>4. /\ ViewOK(v) /\ v.tree_depth = view.tree_depth
        /\ v.member_count = view.member_count
        /\ \A p : Holds(v, p) => Holds(view, p)
    BY <2>2, <2>3, ViewChanges
  <2> QED BY <2>4 DEF ShapeOf
<1> HIDE DEF N
<1> QED BY <1>2, <1>3, <1>4

(* The leaf of a removed member is blank.                                  *)
LEMMA BlankLeaf ==
    ASSUME NEW view, ViewOK(view), NEW position
    PROVE  LET v == blank_node(view, leaf(view.tree_depth, position))
           IN  /\ ViewOK(v) /\ ShapeOf(v) = ShapeOf(view)
               /\ \A p : Holds(v, p) => Holds(view, p)
               /\ ~ Holds(v, position)
<1> PICK l : l = leaf(view.tree_depth, position)
  OBVIOUS
<1>1. CASE contains(view, l)
  <2>1. PICK nodes : nodes = [view.nodes EXCEPT ![l] = blank]
    OBVIOUS
  <2>2. blank_node(view, l) \in [tree_depth : {view.tree_depth},
                                 member_count : {view.member_count}, nodes : {nodes}]
    <3>1. blank_node(view, l) = [view EXCEPT !.nodes = nodes]
      BY <1>1, <2>1 DEF blank_node
    <3> QED BY <3>1, ViewFacts
  <2>3. /\ DOMAIN nodes = DOMAIN view.nodes /\ l \in DOMAIN nodes
        /\ IsFcn(nodes)
        /\ nodes[l] = blank
        /\ \A n \in DOMAIN nodes : n # l => nodes[n] = view.nodes[n]
    BY <1>1, <2>1 DEF contains, ViewOK, IsFcn
  <2>4. blank = [key |-> blank.key, unmerged |-> blank.unmerged] /\ blank.key = NoKey
    BY DEF blank
  <2>5. /\ \A n \in DOMAIN nodes :
              /\ n = leaf(n.depth, n.position) /\ n.depth \in Int
              /\ nodes[n] = [key |-> nodes[n].key, unmerged |-> nodes[n].unmerged]
              /\ \/ nodes[n].key = NoKey \/ PathKey(nodes[n].key)
                 \/ n \in DOMAIN view.nodes /\ nodes[n].key = view.nodes[n].key
    BY <2>3, <2>4 DEF ViewOK, NodeOK
  <2>6. \A n \in DOMAIN nodes :
            n = leaf(view.tree_depth, position) => nodes[n].key # <<0, position>>
    BY <2>3, <2>4, KeyFacts
  <2> PICK v : v = blank_node(view, l)
    OBVIOUS
  <2>7. /\ ViewOK(v) /\ v.tree_depth = view.tree_depth
        /\ v.member_count = view.member_count
        /\ \A p : Holds(v, p) => Holds(view, p)
        /\ (\A n \in DOMAIN nodes : n = leaf(view.tree_depth, position) =>
                 nodes[n].key # <<0, position>>) => ~ Holds(v, position)
    BY <2>2, <2>3, <2>5, ViewChanges
  <2>8. ~ Holds(v, position)
    BY <2>6, <2>7
  <2> QED BY <2>7, <2>8 DEF ShapeOf
<1>2. CASE ~ contains(view, l)
  <2>1. blank_node(view, l) = view
    BY <1>2 DEF blank_node
  <2>2. ~ Holds(view, position)
    <3> SUFFICES ASSUME NEW n \in DOMAIN view.nodes, view.nodes[n].key = <<0, position>>
                 PROVE  FALSE
      BY DEF Holds
    <3>1. view.nodes[n].key = <<0, n.position>> /\ n = leaf(view.tree_depth, n.position)
      BY KeyFacts DEF ViewOK, NodeOK
    <3>2. n.position = position
      BY <3>1, KeyFacts
    <3> QED BY <1>2, <3>1, <3>2 DEF contains
  <2> QED BY <2>1, <2>2
<1> QED BY <1>1, <1>2

(* Growing moves every node down a level, the leaves with it.              *)
LEMMA LeafFacts ==
    ASSUME NEW depth \in Int, NEW position
    PROVE  /\ leaf(depth, position).depth = depth /\ leaf(depth, position).position = position
           /\ [leaf(depth, position) EXCEPT !.depth = @ + 1] = leaf(depth + 1, position)
           /\ [leaf(depth, position) EXCEPT !.depth = @ - 1] = leaf(depth - 1, position)
<1> PICK n : n = leaf(depth, position)
  OBVIOUS
<1>1. n.depth = depth /\ n.position = position
  BY DEF leaf
<1>2. n \in [depth : {depth}, position : {position}]
  BY DEF leaf
<1>3. [n EXCEPT !.depth = depth + 1] = [depth |-> depth + 1, position |-> position]
  BY <1>2
<1>4. [n EXCEPT !.depth = depth - 1] = [depth |-> depth - 1, position |-> position]
  BY <1>2
<1> QED BY <1>1, <1>3, <1>4 DEF leaf

LEMMA GrowTree ==
    ASSUME NEW view, ViewOK(view)
    PROVE  LET v == grow_tree(view)
           IN  /\ ViewOK(v) /\ v.tree_depth = view.tree_depth + 1
               /\ v.member_count = view.member_count
               /\ \A position : Holds(v, position) => Holds(view, position)
<1> PICK nodes : nodes = [n \in {[m EXCEPT !.depth = @ + 1] : m \in DOMAIN view.nodes} |->
                             view.nodes[[n EXCEPT !.depth = @ - 1]]]
  OBVIOUS
<1> PICK v : v = grow_tree(view)
  OBVIOUS
<1>1. v \in [tree_depth : {view.tree_depth + 1}, member_count : {view.member_count},
             nodes : {nodes}]
  <2>1. v = [view EXCEPT !.tree_depth = view.tree_depth + 1, !.nodes = nodes]
    BY DEF grow_tree
  <2> QED BY <2>1, ViewFacts
<1>2. IsFcn(nodes)
  BY DEF IsFcn
<1>3. ASSUME NEW n \in DOMAIN nodes
      PROVE  \E m \in DOMAIN view.nodes :
                /\ m = leaf(m.depth, m.position) /\ m.depth \in Int
                /\ n = leaf(m.depth + 1, m.position)
                /\ n.depth = m.depth + 1 /\ n.position = m.position
                /\ nodes[n] = view.nodes[m]
  <2>1. PICK m \in DOMAIN view.nodes : n = [m EXCEPT !.depth = @ + 1]
    OBVIOUS
  <2>2. m = leaf(m.depth, m.position) /\ m.depth \in Int
    BY DEF ViewOK, NodeOK
  <2>3. n = leaf(m.depth + 1, m.position)
    <3>1. [leaf(m.depth, m.position) EXCEPT !.depth = @ + 1] = leaf(m.depth + 1, m.position)
      BY <2>2, LeafFacts
    <3> QED BY <2>1, <2>2, <3>1
  <2> PICK d \in Int : d = m.depth + 1
    BY <2>2
  <2>4. d \in Int /\ d - 1 = m.depth /\ n = leaf(d, m.position)
    <3>1. d - 1 = m.depth
      BY <2>2
    <3>2. d = m.depth + 1
      OBVIOUS
    <3>3. n = leaf(d, m.position)
      BY ONLY <2>3, <3>2
    <3> QED BY <3>1, <3>3
  <2>5. /\ leaf(d, m.position).depth = d /\ leaf(d, m.position).position = m.position
        /\ [leaf(d, m.position) EXCEPT !.depth = @ - 1] = leaf(d - 1, m.position)
    BY <2>4, LeafFacts
  <2>6. n.depth = d /\ n.position = m.position /\ [n EXCEPT !.depth = @ - 1] = m
    <3>1. n.depth = d /\ n.position = m.position
      BY <2>4, <2>5
    <3>2. [n EXCEPT !.depth = @ - 1] = leaf(d - 1, m.position)
      BY ONLY <2>4, <2>5
    <3>3. leaf(d - 1, m.position) = m
      BY <2>2, <2>4
    <3> QED BY <3>1, <3>2, <3>3
  <2>7. nodes[n] = view.nodes[[n EXCEPT !.depth = @ - 1]]
    OBVIOUS
  <2>8. nodes[n] = view.nodes[m] /\ n.depth = m.depth + 1
    BY <2>6, <2>7
  <2> QED BY <2>2, <2>3, <2>6, <2>8
<1>4. ASSUME NEW n \in DOMAIN nodes PROVE NodeOK(v, n)
  <2>1. PICK m \in DOMAIN view.nodes :
                /\ m = leaf(m.depth, m.position) /\ m.depth \in Int
                /\ n = leaf(m.depth + 1, m.position)
                /\ n.depth = m.depth + 1 /\ n.position = m.position
                /\ nodes[n] = view.nodes[m]
    BY <1>3
  <2>2. NodeOK(view, m)
    BY DEF ViewOK
  <2>3. v.nodes = nodes /\ v.tree_depth = view.tree_depth + 1
    BY <1>1
  <2>4. m = leaf(view.tree_depth, m.position) => n = leaf(v.tree_depth, n.position)
    <3>1. view.tree_depth \in Int
      BY DEF ViewOK
    <3>2. m = leaf(view.tree_depth, m.position) => m.depth = view.tree_depth
      BY DEF leaf
    <3> QED BY <2>1, <2>3, <3>2
  <2>5. v.nodes[n] = view.nodes[m] /\ n = leaf(n.depth, n.position) /\ n.depth \in Int
    <3>1. n.depth \in Int /\ leaf(n.depth, n.position) = leaf(m.depth + 1, m.position)
      BY <2>1
    <3> QED BY <2>1, <2>3, <3>1
  <2>6. \/ view.nodes[m].key = NoKey \/ PathKey(view.nodes[m].key)
        \/ view.nodes[m].key = <<0, m.position>> /\ m = leaf(view.tree_depth, m.position)
    BY <2>2 DEF NodeOK
  <2>7. view.nodes[m] = [key |-> view.nodes[m].key, unmerged |-> view.nodes[m].unmerged]
    BY <2>2 DEF NodeOK
  <2>8. <<0, m.position>> = <<0, n.position>>
    BY <2>1
  <2> QED BY <2>4, <2>5, <2>6, <2>7, <2>8 DEF NodeOK
<1>5. ViewOK(v)
  <2>1. v.nodes = nodes /\ v.tree_depth = view.tree_depth + 1
        /\ v.member_count = view.member_count /\ view.tree_depth \in Nat
    BY <1>1 DEF ViewOK
  <2> HIDE DEF IsFcn
  <2> QED BY <1>1, <1>2, <1>4, <2>1 DEF ViewOK
<1>6. ASSUME NEW position, Holds(v, position) PROVE Holds(view, position)
  <2>1. PICK n \in DOMAIN nodes : nodes[n].key = <<0, position>>
    BY <1>1, <1>6 DEF Holds
  <2> QED BY <1>3, <2>1 DEF Holds
<1> QED BY <1>1, <1>5, <1>6

LEMMA GrowIfNeeded ==
    ASSUME NEW view, ViewOK(view), NEW count
    PROVE  LET v == grow_if_needed(view, count)
           IN  /\ ViewOK(v) /\ v.member_count = view.member_count
               /\ v.tree_depth = IF depth_for_members(count) > view.tree_depth
                                 THEN view.tree_depth + 1 ELSE view.tree_depth
               /\ \A position : Holds(v, position) => Holds(view, position)
BY GrowTree DEF grow_if_needed

(* Writing a path replaces keys by those of the path: the committer's leaf *)
(* among them, when both trees are as deep.                                *)
LEMMA PathNodeFacts ==
    ASSUME NEW depth \in Nat, NEW position, NEW level \in Nat
    PROVE  LET n == PathNode(leaf(depth, position), level)
           IN  /\ n = leaf(n.depth, n.position) /\ n.depth = depth - level
               /\ level = 0 /\ position \in Nat => n = leaf(depth, position)
<1>1. /\ leaf(depth, position).depth = depth /\ leaf(depth, position).position = position
  BY DEF leaf
<1>2. PathNode(leaf(depth, position), level) =
        [depth |-> depth - level, position |-> position \div 2^(depth - (depth - level))]
  BY <1>1 DEF PathNode, AncestorAt
<1>3. ASSUME position \in Nat
      PROVE  PathNode(leaf(depth, position), 0) = leaf(depth, position)
  <2>1. depth - (depth - 0) = 0 /\ depth - 0 = depth
    OBVIOUS
  <2>2. position \div 2^0 = position
    BY <1>3
  <2>3. PathNode(leaf(depth, position), 0) =
          [depth |-> depth - 0, position |-> position \div 2^(depth - (depth - 0))]
    BY <1>1 DEF PathNode, AncestorAt
  <2> QED BY <2>1, <2>2, <2>3 DEF leaf
<1> QED BY <1>2, <1>3 DEF leaf

LEMMA PathWritten ==
    ASSUME NEW view, ViewOK(view), NEW c, c.tree_depth \in Nat,
           DOMAIN c.path = 0..c.tree_depth, c.round.root \in Nat \ {0}, c.leaf \in Nat
    PROVE  LET v == update_tree_from_path_updates(view, c)
           IN  /\ ViewOK(v) /\ ShapeOf(v) = ShapeOf(view)
               /\ \A position : Holds(v, position) => Holds(view, position)
               /\ c.tree_depth = view.tree_depth => ~ Holds(v, c.leaf)
<1> PICK W : W = {node_index(c, level) : level \in DOMAIN c.path}
  OBVIOUS
<1> PICK states : states = [n \in W |-> populated(<<c.round.root, c.tree_depth - n.depth>>)]
  OBVIOUS
<1> PICK nodes : nodes = [n \in DOMAIN view.nodes \cup DOMAIN states |->
                             IF n \in DOMAIN states THEN states[n] ELSE view.nodes[n]]
  OBVIOUS
<1> PICK v : v = update_tree_from_path_updates(view, c)
  OBVIOUS
<1>1. v \in [tree_depth : {view.tree_depth}, member_count : {view.member_count},
             nodes : {nodes}]
  <2>1. v = [view EXCEPT !.nodes = nodes]
    BY DEF update_tree_from_path_updates, insert
  <2> QED BY <2>1, ViewFacts
<1>2. IsFcn(nodes)
  BY DEF IsFcn
<1>3. ASSUME NEW n \in W
      PROVE  /\ n = leaf(n.depth, n.position) /\ n.depth \in Int
             /\ PathKey(<<c.round.root, c.tree_depth - n.depth>>)
  <2>1. PICK level \in 0..c.tree_depth : n = node_index(c, level)
    BY <1>3
  <2>2. n = leaf(n.depth, n.position) /\ n.depth = c.tree_depth - level
    BY <2>1, PathNodeFacts DEF node_index
  <2>3. c.tree_depth - n.depth = level /\ n.depth \in Int
    BY <2>2
  <2>4. PathKey(<<c.round.root, level>>)
    BY DEF PathKey
  <2> QED BY <2>2, <2>3, <2>4
<1>4. ASSUME NEW n \in DOMAIN nodes
      PROVE  /\ n = leaf(n.depth, n.position) /\ n.depth \in Int
             /\ nodes[n] = [key |-> nodes[n].key, unmerged |-> nodes[n].unmerged]
             /\ \/ PathKey(nodes[n].key)
                \/ n \notin W /\ n \in DOMAIN view.nodes /\ nodes[n].key = view.nodes[n].key
  <2>1. CASE n \in W
    <3> PICK key : key = <<c.round.root, c.tree_depth - n.depth>>
      OBVIOUS
    <3>1. nodes[n] = [key |-> key, unmerged |-> {}]
      BY <2>1 DEF populated
    <3>2. nodes[n].key = key /\ nodes[n].unmerged = {}
      BY <3>1
    <3>3. PathKey(key)
      BY <1>3, <2>1
    <3> QED BY <1>3, <2>1, <3>1, <3>2, <3>3
  <2>2. CASE n \notin W
    <3>1. n \in DOMAIN view.nodes /\ nodes[n] = view.nodes[n]
      BY <2>2
    <3> QED BY <2>2, <3>1 DEF ViewOK, NodeOK
  <2> QED BY <2>1, <2>2
<1>5. /\ ViewOK(v) /\ v.tree_depth = view.tree_depth /\ v.member_count = view.member_count
      /\ \A position : Holds(v, position) => Holds(view, position)
      /\ (\A n \in DOMAIN nodes : n = leaf(view.tree_depth, c.leaf) =>
              nodes[n].key # <<0, c.leaf>>) => ~ Holds(v, c.leaf)
  <2>1. \A n \in DOMAIN nodes :
           /\ n = leaf(n.depth, n.position) /\ n.depth \in Int
           /\ nodes[n] = [key |-> nodes[n].key, unmerged |-> nodes[n].unmerged]
           /\ \/ nodes[n].key = NoKey \/ PathKey(nodes[n].key)
              \/ n \in DOMAIN view.nodes /\ nodes[n].key = view.nodes[n].key
    BY <1>4
  <2>2. ViewOK(view)
    OBVIOUS
  <2>3. /\ ViewOK(v) /\ v.tree_depth = view.tree_depth /\ v.member_count = view.member_count
        /\ \A position : Holds(v, position) => Holds(view, position)
        /\ \A position : (\A n \in DOMAIN nodes : n = leaf(view.tree_depth, position) =>
              nodes[n].key # <<0, position>>) => ~ Holds(v, position)
    BY ONLY <1>1, <1>2, <2>1, <2>2, ViewChanges
  <2> QED BY <2>3
<1>6. ASSUME c.tree_depth = view.tree_depth PROVE ~ Holds(v, c.leaf)
  <2>1. 0 \in DOMAIN c.path
    OBVIOUS
  <2>2. node_index(c, 0) \in W /\ node_index(c, 0) = leaf(view.tree_depth, c.leaf)
    BY <1>6, <2>1, PathNodeFacts DEF node_index
  <2>3. \A n \in DOMAIN nodes : n = leaf(view.tree_depth, c.leaf) =>
              nodes[n].key # <<0, c.leaf>>
    <3> SUFFICES ASSUME NEW n \in DOMAIN nodes, n = leaf(view.tree_depth, c.leaf)
                 PROVE  nodes[n].key # <<0, c.leaf>>
      OBVIOUS
    <3>1. n \in W
      BY <2>2
    <3>2. PathKey(nodes[n].key)
      BY <1>4, <3>1
    <3> QED BY <3>2, KeyFacts
  <2> QED BY <1>5, <2>3
<1> QED BY <1>5, <1>6 DEF ShapeOf
-----------------------------------------------------------------------------
(* Transcripts.                                                            *)
LEMMA Appended ==
    ASSUME NEW t \in Seq(Round), NEW r \in Round
    PROVE  /\ Len(t) \in Nat /\ Len(Append(t, r)) = Len(t) + 1
           /\ \A i \in 1..Len(t) : Append(t, r)[i] = t[i]
           /\ Append(t, r)[Len(t) + 1] = r
           /\ \A round : In(Append(t, r), round) <=> In(t, round) \/ round = r
<1> PICK a : a = Append(t, r)
  OBVIOUS
<1>1. /\ Len(t) \in Nat /\ Len(a) = Len(t) + 1
      /\ \A i \in 1..Len(t) : a[i] = t[i]
      /\ a[Len(t) + 1] = r
  BY AppendProperties, LenProperties
<1>2. ASSUME NEW round PROVE In(a, round) <=> In(t, round) \/ round = r
  <2>1. ASSUME In(a, round) PROVE In(t, round) \/ round = r
    <3>1. PICK i \in 1..Len(a) : a[i] = round
      BY <2>1 DEF In
    <3>2. i \in 1..Len(t) \/ i = Len(t) + 1
      BY <1>1, <3>1
    <3> QED BY <1>1, <3>1, <3>2 DEF In
  <2>2. ASSUME In(t, round) PROVE In(a, round)
    <3>1. PICK i \in 1..Len(t) : t[i] = round
      BY <2>2 DEF In
    <3>2. i \in 1..Len(a) /\ a[i] = round
      BY <1>1, <3>1
    <3> QED BY <3>2 DEF In
  <2>3. In(a, r)
    <3>1. Len(t) + 1 \in 1..Len(a)
      BY <1>1
    <3> QED BY <1>1, <3>1 DEF In
  <2> QED BY <2>1, <2>2, <2>3
<1> QED BY <1>1, <1>2

(* Two members who went through the same rounds went through the same      *)
(* shapes.  The library's induction takes a predicate; the least index at  *)
(* which two traces differ does without.                                   *)
LEMMA TraceUnique ==
    ASSUME NEW C, \A c, d \in C : c.round = d.round => c = d,
           NEW t, Len(t) \in Nat, NEW g, Trace(C, g, t), NEW h, Trace(C, h, t)
    PROVE  g[Len(t)] = h[Len(t)]
<1> PICK T : T = {i \in 0..Len(t) : g[i] # h[i]}
  OBVIOUS
<1>1. ASSUME T # {} PROVE FALSE
  <2>1. PICK i \in T : \A j \in T : ~ (<<j, i>> \in OpToRel(<, Nat))
    <3>1. T \subseteq Nat
      OBVIOUS
    <3> QED BY <1>1, <3>1, WFMin, NatLessThanWellFounded
  <2>2. i # 0
    BY DEF Trace
  <2>3. i \in 1..Len(t) /\ i - 1 \in 0..Len(t) /\ i - 1 \in Nat /\ i \in Nat /\ i - 1 < i
    BY <2>2
  <2>4. <<i - 1, i>> \in OpToRel(<, Nat)
    BY <2>3 DEF OpToRel
  <2>5. g[i - 1] = h[i - 1]
    BY <2>1, <2>3, <2>4
  <2>6. PICK c \in C : c.round = t[i] /\ g[i] = After(g[i - 1], c)
    BY <2>3 DEF Trace
  <2>7. PICK d \in C : d.round = t[i] /\ h[i] = After(h[i - 1], d)
    BY <2>3 DEF Trace
  <2> QED BY <2>5, <2>6, <2>7
<1> QED BY <1>1

LEMMA TraceExtends ==
    ASSUME NEW C, NEW t \in Seq(Round), NEW c \in C, c.round \in Round, NEW g, Trace(C, g, t)
    PROVE  \E h : Trace(C, h, Append(t, c.round)) /\ h[Len(t) + 1] = After(g[Len(t)], c)
<1> PICK h : h = [i \in 0..(Len(t) + 1) |-> IF i <= Len(t) THEN g[i] ELSE After(g[Len(t)], c)]
  OBVIOUS
<1> PICK a : a = Append(t, c.round)
  OBVIOUS
<1>1. /\ Len(t) \in Nat /\ Len(a) = Len(t) + 1
      /\ \A i \in 1..Len(t) : a[i] = t[i]
      /\ a[Len(t) + 1] = c.round
  BY Appended
<1>2. (\A i \in 0..Len(t) : h[i] = g[i]) /\ h[Len(t) + 1] = After(g[Len(t)], c)
  BY <1>1
<1>3. h[0] = Founding
  BY <1>1, <1>2 DEF Trace
<1>4. ASSUME NEW i \in 1..Len(a)
      PROVE  \E d \in C : d.round = a[i] /\ h[i] = After(h[i - 1], d)
  <2>1. CASE i = Len(t) + 1
    <3>1. h[i - 1] = g[Len(t)]
      BY <1>1, <1>2, <2>1
    <3> QED BY <1>1, <1>2, <2>1, <3>1
  <2>2. CASE i # Len(t) + 1
    <3>1. i \in 1..Len(t) /\ i - 1 \in 0..Len(t) /\ i \in 0..Len(t)
      BY <1>1, <2>2
    <3>2. PICK d \in C : d.round = t[i] /\ g[i] = After(g[i - 1], d)
      BY <3>1 DEF Trace
    <3> QED BY <1>1, <1>2, <3>1, <3>2
  <2> QED BY <2>1, <2>2
<1>5. Trace(C, h, a)
  BY <1>3, <1>4 DEF Trace
<1> QED BY <1>2, <1>5

LEMMA TraceStays ==
    ASSUME NEW C, NEW D, C \subseteq D, NEW t, NEW g, Trace(C, g, t)
    PROVE  Trace(D, g, t)
BY DEF Trace
-----------------------------------------------------------------------------
(* Whose keys are gone after a transcript does not change while others go  *)
(* on, and one more round adds what that commit removed or rotated.        *)
LEMMA GoneExtends ==
    ASSUME IndInv, failed \subseteq failed',
           NEW t \in Seq(Round), Earlier(t, fresh), NEW c,
           commits' \subseteq commits \cup {c},
           c \in commits' \ commits => c.round.root = fresh
    PROVE  /\ ~ (c \in commits' \ commits /\ In(t, c.round))
           /\ \A u, p : GoneAfter(t, u, p)' => GoneAfter(t, u, p)
           /\ (c.round \in Round /\ \A d \in commits' : d.round = c.round => d = c) =>
                 \A u, p : GoneAfter(Append(t, c.round), u, p)' =>
                    \/ GoneAfter(t, u, p)
                    \/ c.kind = "remove" /\ c.at = p
                    \/ /\ c.committer \notin failed' \cup {u} /\ u \notin failed'
                       /\ p = PositionOf(c.committer)
<1>1. ASSUME c \in commits' \ commits, In(t, c.round) PROVE FALSE
  <2>1. PICK i \in 1..Len(t) : t[i] = c.round
    BY <1>1 DEF In
  <2>2. t[i].root \in 1..(fresh - 1) /\ t[i].root = fresh /\ fresh \in Nat
    BY <1>1, <2>1 DEF Earlier, IndInv
  <2> QED BY <2>2
<1>2. ASSUME NEW u, NEW p, GoneAfter(t, u, p)' PROVE GoneAfter(t, u, p)
  BY <1>1, <1>2 DEF GoneAfter
<1>3. ASSUME c.round \in Round, \A d \in commits' : d.round = c.round => d = c,
             NEW u, NEW p, GoneAfter(Append(t, c.round), u, p)'
      PROVE  \/ GoneAfter(t, u, p)
             \/ c.kind = "remove" /\ c.at = p
             \/ /\ c.committer \notin failed' \cup {u} /\ u \notin failed'
                /\ p = PositionOf(c.committer)
  <2>1. \A round : In(Append(t, c.round), round) => In(t, round) \/ round = c.round
    BY <1>3, Appended
  <2>2. ASSUME NEW r \in commits', r.kind = "remove", In(Append(t, c.round), r.round),
               r.at = p
        PROVE  GoneAfter(t, u, p) \/ (c.kind = "remove" /\ c.at = p)
    BY <1>1, <1>3, <2>1, <2>2 DEF GoneAfter
  <2>3. ASSUME NEW r \in commits', r.committer \notin failed' \cup {u}, u \notin failed',
               In(Append(t, c.round), r.round), p = PositionOf(r.committer)
        PROVE  \/ GoneAfter(t, u, p)
               \/ /\ c.committer \notin failed' \cup {u} /\ u \notin failed'
                  /\ p = PositionOf(c.committer)
    BY <1>1, <1>3, <2>1, <2>3 DEF GoneAfter
  <2> QED BY <1>3, <2>2, <2>3 DEF GoneAfter
<1> QED BY <1>1, <1>2, <1>3

LEMMA PrefixesExtend ==
    ASSUME IndInv, NEW t \in Seq(Round), Earlier(t, fresh), Prefixes(t), NEW c,
           commits' \subseteq commits \cup {c},
           c \in commits' \ commits => c.round.root = fresh
    PROVE  /\ Prefixes(t)'
           /\ /\ c.round \in Round /\ c.transcript = t
              /\ \A d \in commits' : d.round = c.round => d = c
              => Prefixes(Append(t, c.round))'
<1>1. \A d \in commits', i \in 1..Len(t) : t[i] = d.round => d \in commits
  <2> SUFFICES ASSUME NEW d \in commits', NEW i \in 1..Len(t), t[i] = d.round, d \notin commits
               PROVE  FALSE
    OBVIOUS
  <2>1. t[i].root \in 1..(fresh - 1) /\ t[i].root = fresh /\ fresh \in Nat
    BY DEF Earlier, IndInv
  <2> QED BY <2>1
<1>2. Prefixes(t)'
  BY <1>1 DEF Prefixes
<1>3. ASSUME c.round \in Round, c.transcript = t, \A d \in commits' : d.round = c.round => d = c
      PROVE  Prefixes(Append(t, c.round))'
  <2> PICK a : a = Append(t, c.round)
    OBVIOUS
  <2>1. /\ Len(t) \in Nat /\ Len(a) = Len(t) + 1
        /\ \A i \in 1..Len(t) : a[i] = t[i]
        /\ a[Len(t) + 1] = c.round
    BY <1>3, Appended
  <2>2. ASSUME NEW d \in commits', NEW i \in 1..Len(a), a[i] = d.round
        PROVE  Len(d.transcript) = i - 1 /\ \A k \in 1..(i - 1) : d.transcript[k] = a[k]
    <3>1. CASE i = Len(t) + 1
      <4>1. d = c
        BY <1>3, <2>1, <2>2, <3>1
      <4> QED BY <1>3, <2>1, <3>1, <4>1
    <3>2. CASE i # Len(t) + 1
      <4>1. i \in 1..Len(t) /\ \A k \in 1..(i - 1) : k \in 1..Len(t)
        BY <2>1, <3>2
      <4>2. d \in commits /\ t[i] = d.round
        BY <1>1, <2>1, <2>2, <4>1
      <4>3. Len(d.transcript) = i - 1 /\ \A k \in 1..(i - 1) : d.transcript[k] = t[k]
        BY <4>1, <4>2 DEF Prefixes
      <4> QED BY <2>1, <4>1, <4>3
    <3> QED BY <3>1, <3>2
  <2>3. Prefixes(a)'
    BY <2>2 DEF Prefixes
  <2> QED BY <2>3
<1> QED BY <1>2, <1>3

(* A step that writes one session, and announces a commit or none.         *)
LEMMA KeysStep ==
    ASSUME IndInv, KeysInv, NEW u \in Online, NEW s2, Shape(s2),
           session' = [session EXCEPT ![u] = s2], failed \subseteq failed', NEW c,
           commits \subseteq commits', commits' \subseteq commits \cup {c},
           c \in commits' \ commits => c.round.root = fresh /\ CommitKeys(c)',
           u \in Joined => \A round : In(session[u].transcript, round) => In(s2.transcript, round),
           SessionKeys(u, s2)',
           \A w \in welcomes' : w \in welcomes \/ w.aad # "group_id"
    PROVE  KeysInv'
<1>1. /\ session'[u] = s2
      /\ \A v \in Online \ {u} : session'[v] = session[v]
      /\ \A v \in Joined' : v = u \/ v \in Joined
      /\ \A v \in Joined : v \in Joined'
  <2>1. /\ session'[u] = s2
        /\ \A v \in Online \ {u} : session'[v] = session[v]
        /\ \A v \in Joined' : v = u \/ v \in Joined
    BY OneWritten
  <2>2. s2 # NoSession
    BY ShapeIsJoined
  <2> QED BY <2>1, <2>2 DEF Joined
<1>2. ASSUME NEW v \in Joined' PROVE SessionKeys(v, session[v])'
  <2>1. CASE v = u
    BY <1>1, <2>1
  <2>2. CASE v # u
    <3> PICK s : s = session[v]
      OBVIOUS
    <3>1. v \in Joined /\ v \in Online /\ session'[v] = s
      BY <1>1, <2>2 DEF Joined
    <3>2. SessionKeys(v, s) /\ Sound(s, fresh)
      BY <3>1 DEF KeysInv, IndInv
    <3>3. s.transcript \in Seq(Round) /\ Earlier(s.transcript, fresh)
      BY <3>2 DEF Sound
    <3> PICK t : t = s.transcript
      OBVIOUS
    <3>4. /\ ~ (c \in commits' \ commits /\ In(t, c.round))
          /\ \A p : GoneAfter(t, v, p)' => GoneAfter(t, v, p)
          /\ Prefixes(t)'
      BY <3>2, <3>3, GoneExtends, PrefixesExtend DEF SessionKeys
    <3>5. \A p : GoneAfter(t, v, p)' => ~ Holds(s.view, p)
      BY <3>2, <3>4 DEF SessionKeys
    <3>6. \A d \in commits' : In(t, d.round) /\ d.committer # v => Seals(d, <<0, PositionOf(v)>>)
      BY <3>2, <3>4 DEF SessionKeys
    <3>7. SessionKeys(v, s)'
      BY <3>2, <3>4, <3>5, <3>6 DEF SessionKeys
    <3> QED BY <3>1, <3>7
  <2> QED BY <2>1, <2>2
<1>3. ASSUME NEW d \in commits' PROVE CommitKeys(d)'
  <2>1. CASE d \in commits
    <3>1. CommitKeys(d) /\ CommitSound(d, fresh)
      BY <2>1 DEF KeysInv, IndInv
    <3> PICK v : v = d.committer
      OBVIOUS
    <3> PICK t : t = d.transcript
      OBVIOUS
    <3>2. t \in Seq(Round) /\ Earlier(t, fresh)
      BY <3>1 DEF CommitSound
    <3>3. \A p : GoneAfter(t, v, p)' => GoneAfter(t, v, p)
      BY <3>2, GoneExtends
    <3>4. v \in Joined' /\ In(session'[v].transcript, d.round)
      <4>1. v \in Online /\ v \in Joined /\ In(session[v].transcript, d.round)
        BY <3>1 DEF CommitKeys
      <4> QED BY <1>1, <4>1
    <3> QED BY <3>1, <3>3, <3>4 DEF CommitKeys
  <2>2. CASE d \notin commits
    BY <2>2
  <2> QED BY <2>1, <2>2
<1>4. \A d, e \in commits' : d.round = e.round => d = e
  <2>1. \A d \in commits : d.round.root \in 1..(fresh - 1) /\ fresh \in Nat
    BY DEF IndInv, CommitSound
  <2>2. \A d \in commits : d.round.root # fresh
    BY <2>1
  <2> QED BY <2>2 DEF KeysInv
<1>5. \A w \in welcomes' : w.aad = "group_id" =>
          /\ w.to \in FounderSet /\ w.position = PositionOf(w.to)
          /\ w.tree_depth = Founding.depth /\ w.member_count = Founding.count
  BY DEF KeysInv
<1> QED BY <1>2, <1>3, <1>4, <1>5 DEF KeysInv, Founding

(* The session of whoever commits or takes a commit.                       *)
KeypairKept(s2, s) ==
    s2.keypair = s.keypair \/ \E n \in Nat \ {0} : s2.keypair = <<n, ROTATED>>
ViewShrinks(s2, s) ==
    ViewOK(s2.view) /\ \A p : Holds(s2.view, p) => Holds(s.view, p)

LEMMA SessionExtends ==
    ASSUME IndInv, KeysInv, NEW u \in Joined, NEW s2, NEW c,
           c.round \in Round, c.transcript = session[u].transcript,
           c \in commits', commits' \subseteq commits \cup {c},
           c \in commits' \ commits => c.round.root = fresh, failed \subseteq failed',
           s2.position = session[u].position, KeypairKept(s2, session[u]),
           ViewShrinks(s2, session[u]), s2.transcript = Append(session[u].transcript, c.round),
           c.kind = "remove" => ~ Holds(s2.view, c.at),
           c.committer \notin failed' \cup {u} /\ u \notin failed' =>
               ~ Holds(s2.view, PositionOf(c.committer)),
           c.committer # u => Seals(c, <<0, PositionOf(u)>>)
    PROVE  SessionKeys(u, s2)'
<1> PICK s : s = session[u]
  OBVIOUS
<1> PICK t : t = s.transcript
  OBVIOUS
<1>1. SessionKeys(u, s) /\ t \in Seq(Round) /\ Earlier(t, fresh)
  BY DEF KeysInv, IndInv, Sound
<1>2. \A d \in commits' : d.round = c.round => d = c
  <2>1. \A d \in commits : d.round.root \in 1..(fresh - 1) /\ fresh \in Nat
    BY DEF IndInv, CommitSound
  <2>2. \A d \in commits : d.round.root # fresh
    BY <2>1
  <2> QED BY <2>2 DEF KeysInv
<1>3. /\ ~ (c \in commits' \ commits /\ In(t, c.round))
      /\ \A p : GoneAfter(Append(t, c.round), u, p)' =>
                    \/ GoneAfter(t, u, p)
                    \/ c.kind = "remove" /\ c.at = p
                    \/ /\ c.committer \notin failed' \cup {u} /\ u \notin failed'
                       /\ p = PositionOf(c.committer)
      /\ \A round : In(Append(t, c.round), round) <=> In(t, round) \/ round = c.round
  BY <1>1, <1>2, GoneExtends, Appended
<1>4. Prefixes(Append(t, c.round))'
  BY <1>1, <1>2, PrefixesExtend DEF SessionKeys
<1>5. \A p : GoneAfter(Append(t, c.round), u, p)' => ~ Holds(s2.view, p)
  BY <1>1, <1>3 DEF SessionKeys, ViewShrinks
<1>6. \A d \in commits' : In(Append(t, c.round), d.round) /\ d.committer # u =>
          Seals(d, <<0, PositionOf(u)>>)
  BY <1>1, <1>2, <1>3 DEF SessionKeys
<1>7. s2.keypair = <<0, PositionOf(u)>> \/ \E n \in Nat \ {0} : s2.keypair = <<n, ROTATED>>
  BY <1>1 DEF SessionKeys, KeypairKept
<1>8. s2.transcript = Append(t, c.round) /\ u \in FounderSet /\ s2.position = PositionOf(u)
      /\ ViewOK(s2.view)
  BY <1>1 DEF SessionKeys, ViewShrinks
<1> QED BY <1>4, <1>5, <1>6, <1>7, <1>8 DEF SessionKeys

(* The three kinds of step.                                                *)
LEMMA ProcessKeys ==
    ASSUME IndInv, KeysInv, NEW u \in Joined, NEW s2, NEW c \in commits, Shape(s2),
           c.transcript = session[u].transcript,
           session' = [session EXCEPT ![u] = s2], UNCHANGED <<commits, welcomes, fresh, failed>>,
           s2.position = session[u].position, s2.keypair = session[u].keypair,
           ViewShrinks(s2, session[u]), s2.transcript = Append(session[u].transcript, c.round),
           c.kind = "remove" => ~ Holds(s2.view, c.at),
           c.committer \notin failed \cup {u} /\ u \notin failed =>
               ~ Holds(s2.view, PositionOf(c.committer)),
           Seals(c, session[u].keypair)
    PROVE  KeysInv'
<1>1. c.round \in Round /\ u \in Online /\ session[u].transcript \in Seq(Round)
  BY DEF IndInv, CommitSound, Sound, Joined
<1>2. SessionKeys(u, session[u]) /\ CommitKeys(c)
  BY DEF KeysInv
<1>3. Seals(c, <<0, PositionOf(u)>>)
  <2>1. PICK level \in DOMAIN c.path : \E e \in c.path[level].seeds : e.key = session[u].keypair
    BY DEF Seals
  <2>2. SeedKey(session[u].keypair)
    BY <1>2, <2>1 DEF CommitKeys
  <2>3. session[u].keypair = <<0, PositionOf(u)>>
    BY <1>2, <2>2, KeyFacts DEF SessionKeys
  <2> QED BY <2>3
<1>4. SessionKeys(u, s2)'
  <2>1. KeypairKept(s2, session[u])
    BY DEF KeypairKept
  <2> QED BY <1>1, <1>3, <2>1, SessionExtends
<1>5. \A round : In(session[u].transcript, round) => In(s2.transcript, round)
  BY <1>1, Appended
<1> QED BY <1>1, <1>4, <1>5, KeysStep

(* What u announces, built from the session s.                             *)
Made(c, u, s) ==
    /\ c.committer = u /\ c.leaf = s.position /\ c.tree_depth = s.view.tree_depth
    /\ c.transcript = s.transcript /\ c.round.root = fresh
    /\ DOMAIN c.path = 0..c.tree_depth
    /\ \A level \in DOMAIN c.path : \A e \in c.path[level].seeds :
          SeedKey(e.key) /\ \A p : e.key = <<0, p>> => Holds(s.view, p)

LEMMA PublishKeys ==
    ASSUME IndInv, KeysInv, NEW u \in Joined, NEW s1, NEW s2, NEW c, Shape(s2),
           c.round \in Round, Made(c, u, s1), Publish(u, s2, c),
           s1.position = session[u].position, s1.transcript = session[u].transcript,
           ViewShrinks(s1, session[u]), ViewShrinks(s2, s1),
           s2.position = session[u].position, KeypairKept(s2, session[u]),
           s2.transcript = Append(session[u].transcript, c.round),
           c.kind = "remove" => ~ Holds(s1.view, c.at),
           \A w \in welcomes' : w \in welcomes \/ w.aad # "group_id"
    PROVE  KeysInv'
<1>1. u \in Online /\ session[u].transcript \in Seq(Round) /\ Earlier(session[u].transcript, fresh)
  BY DEF IndInv, Sound, Joined
<1>2. /\ commits' = commits \cup {c} /\ c.round.root = fresh /\ c.committer = u
      /\ c.transcript = session[u].transcript
      /\ session' = [session EXCEPT ![u] = s2] /\ failed' = failed
  BY DEF Publish, Made
<1>3. SessionKeys(u, session[u])
  BY DEF KeysInv
<1>4. SessionKeys(u, s2)'
  <2>1. ViewShrinks(s2, session[u]) /\ (c.kind = "remove" => ~ Holds(s2.view, c.at))
    BY DEF ViewShrinks
  <2> QED BY <1>2, <2>1, SessionExtends
<1>5. \A round : In(session[u].transcript, round) => In(s2.transcript, round)
  BY <1>1, Appended
<1>6. CommitKeys(c)'
  <2> PICK t : t = session[u].transcript
    OBVIOUS
  <2>1. \A p : GoneAfter(t, u, p)' => GoneAfter(t, u, p)
    BY <1>1, <1>2, GoneExtends
  <2>2. ASSUME NEW p, GoneAfter(t, u, p)' \/ (c.kind = "remove" /\ c.at = p)
        PROVE  ~ Seals(c, <<0, p>>)
    <3>1. ~ Holds(s1.view, p)
      BY <1>3, <2>1, <2>2 DEF SessionKeys, ViewShrinks
    <3> QED BY <3>1 DEF Seals, Made
  <2>3. u \in Joined' /\ In(session'[u].transcript, c.round)
    <3>1. session'[u] = s2 /\ s2 # NoSession
      BY <1>1, <1>2, OneWritten, ShapeIsJoined
    <3>2. In(s2.transcript, c.round)
      BY <1>1, Appended
    <3> QED BY <1>1, <3>1, <3>2 DEF Joined
  <2>4. /\ c.committer = u /\ c.leaf = PositionOf(u) /\ c.tree_depth \in Nat
        /\ c.transcript = t
        /\ DOMAIN c.path = 0..c.tree_depth
        /\ \A level \in DOMAIN c.path : \A e \in c.path[level].seeds : SeedKey(e.key)
    BY <1>2, <1>3 DEF Made, SessionKeys, ViewShrinks, ViewOK
  <2> QED BY <1>1, <2>2, <2>3, <2>4 DEF CommitKeys
<1> QED BY <1>1, <1>2, <1>4, <1>5, <1>6, KeysStep

LEMMA FailKeys ==
    ASSUME IndInv, KeysInv, NEW u \in Joined, NEW s2, Shape(s2), Fail(u, s2),
           s2.position = session[u].position, KeypairKept(s2, session[u]),
           ViewShrinks(s2, session[u]), s2.transcript = session[u].transcript
    PROVE  KeysInv'
<1>1. /\ u \in Online /\ session[u].transcript \in Seq(Round)
      /\ Earlier(session[u].transcript, fresh) /\ SessionKeys(u, session[u])
  BY DEF IndInv, Sound, Joined, KeysInv
<1>2. /\ session' = [session EXCEPT ![u] = s2] /\ failed \subseteq failed'
      /\ UNCHANGED <<commits, welcomes>>
  BY DEF Fail
<1>3. SessionKeys(u, s2)'
  <2> PICK t : t = session[u].transcript
    OBVIOUS
  <2>1. (\A p : GoneAfter(t, u, p)' => GoneAfter(t, u, p)) /\ Prefixes(t)'
    BY <1>1, <1>2, GoneExtends, PrefixesExtend DEF SessionKeys
  <2>2. s2.keypair = <<0, PositionOf(u)>> \/ \E n \in Nat \ {0} : s2.keypair = <<n, ROTATED>>
    BY <1>1 DEF SessionKeys, KeypairKept
  <2>3. s2.transcript = t /\ u \in FounderSet /\ s2.position = PositionOf(u)
        /\ ViewOK(s2.view) /\ \A p : GoneAfter(t, u, p)' => ~ Holds(s2.view, p)
    BY <1>1, <2>1 DEF SessionKeys, ViewShrinks
  <2>4. \A d \in commits' : In(t, d.round) /\ d.committer # u => Seals(d, <<0, PositionOf(u)>>)
    BY <1>1, <1>2 DEF SessionKeys
  <2> QED BY <2>1, <2>2, <2>3, <2>4 DEF SessionKeys
<1> QED BY <1>1, <1>2, <1>3, KeysStep
-----------------------------------------------------------------------------
(* The geometry of whoever commits or takes a commit.                      *)
LEMMA GeometryStep ==
    ASSUME IndInv, GeometryInv, NEW u \in Online, NEW s2, Shape(s2),
           session' = [session EXCEPT ![u] = s2], failed \subseteq failed', NEW c,
           commits \subseteq commits', commits' \subseteq commits \cup {c},
           c \in commits' \ commits /\ c.committer \notin failed' => CommitGeometry(c)',
           u \notin failed' => SessionGeometry(s2)'
    PROVE  GeometryInv'
<1>1. /\ session'[u] = s2
      /\ \A v \in Online \ {u} : session'[v] = session[v]
      /\ \A v \in Joined' : v = u \/ v \in Joined
  BY OneWritten
<1>2. ASSUME NEW v \in Joined' \ failed' PROVE SessionGeometry(session[v])'
  <2>1. CASE v = u
    BY <1>1, <1>2, <2>1
  <2>2. CASE v # u
    <3> PICK s : s = session[v]
      OBVIOUS
    <3>1. v \in Joined \ failed /\ session'[v] = s
      BY <1>1, <1>2, <2>2 DEF Joined
    <3>2. PICK g : Trace(commits, g, s.transcript) /\ g[Len(s.transcript)] = ShapeOf(s.view)
      BY <3>1 DEF GeometryInv, SessionGeometry
    <3>3. Trace(commits', g, s.transcript)
      BY <3>2, TraceStays
    <3>4. SessionGeometry(s)'
      BY <3>2, <3>3 DEF SessionGeometry
    <3> QED BY <3>1, <3>4
  <2> QED BY <2>1, <2>2
<1>3. ASSUME NEW d \in commits', d.committer \notin failed' PROVE CommitGeometry(d)'
  <2>1. CASE d \in commits
    <3> PICK t : t = Append(d.transcript, d.round)
      OBVIOUS
    <3>1. PICK g : Trace(commits, g, t) /\ g[Len(d.transcript) + 1].depth = d.tree_depth
      BY <1>3, <2>1 DEF GeometryInv, CommitGeometry
    <3>2. Trace(commits', g, t)
      BY <3>1, TraceStays
    <3> QED BY <3>1, <3>2 DEF CommitGeometry
  <2>2. CASE d \notin commits
    BY <1>3, <2>2
  <2> QED BY <2>1, <2>2
<1> QED BY <1>2, <1>3 DEF GeometryInv

LEMMA GeometryExtends ==
    ASSUME IndInv, GeometryInv, NEW u \in Joined \ failed, NEW s2, NEW c \in commits',
           commits \subseteq commits', c.round \in Round, c.transcript = session[u].transcript,
           s2.transcript = Append(session[u].transcript, c.round),
           ShapeOf(s2.view) = After(ShapeOf(session[u].view), c)
    PROVE  \E h : /\ Trace(commits', h, Append(c.transcript, c.round))
                  /\ Trace(commits', h, s2.transcript)
                  /\ h[Len(c.transcript) + 1] = ShapeOf(s2.view)
                  /\ h[Len(s2.transcript)] = ShapeOf(s2.view)
<1> PICK t : t = session[u].transcript
  OBVIOUS
<1>1. t \in Seq(Round)
  BY DEF IndInv, Sound
<1>2. PICK g : Trace(commits, g, t) /\ g[Len(t)] = ShapeOf(session[u].view)
  BY DEF GeometryInv, SessionGeometry
<1>3. Trace(commits', g, t)
  BY <1>2, TraceStays
<1>4. PICK h : Trace(commits', h, Append(t, c.round)) /\ h[Len(t) + 1] = After(g[Len(t)], c)
  BY <1>1, <1>3, TraceExtends
<1>5. Len(Append(t, c.round)) = Len(t) + 1
  BY <1>1, Appended
<1> QED BY <1>2, <1>4, <1>5

LEMMA PublishGeometry ==
    ASSUME IndInv, GeometryInv, NEW u \in Joined, NEW s2, NEW c, Shape(s2),
           c.round \in Round, c.transcript = session[u].transcript, c.committer = u,
           Publish(u, s2, c), s2.transcript = Append(session[u].transcript, c.round),
           ShapeOf(s2.view) = After(ShapeOf(session[u].view), c),
           c.tree_depth = s2.view.tree_depth
    PROVE  GeometryInv'
<1>1. /\ commits' = commits \cup {c} /\ session' = [session EXCEPT ![u] = s2]
      /\ failed' = failed /\ u \in Online
  BY DEF Publish, Joined
<1>2. CASE u \notin failed
  <2>1. PICK h : /\ Trace(commits', h, Append(c.transcript, c.round))
                 /\ Trace(commits', h, s2.transcript)
                 /\ h[Len(c.transcript) + 1] = ShapeOf(s2.view)
                 /\ h[Len(s2.transcript)] = ShapeOf(s2.view)
    <3>1. u \in Joined \ failed /\ c \in commits' /\ commits \subseteq commits'
      BY <1>1, <1>2
    <3> QED BY ONLY <3>1, GeometryExtends, IndInv, GeometryInv, c.round \in Round,
              c.transcript = session[u].transcript,
              s2.transcript = Append(session[u].transcript, c.round),
              ShapeOf(s2.view) = After(ShapeOf(session[u].view), c)
  <2>2. CommitGeometry(c)'
    BY <2>1 DEF CommitGeometry, ShapeOf
  <2>3. SessionGeometry(s2)'
    BY <2>1 DEF SessionGeometry
  <2> QED BY <1>1, <2>2, <2>3, GeometryStep
<1>3. CASE u \in failed
  BY <1>1, <1>3, GeometryStep
<1> QED BY <1>2, <1>3

(* Whoever takes a commit ends with a tree as deep as its committer's.     *)
LEMMA ProcessGeometry ==
    ASSUME IndInv, KeysInv, GeometryInv, NEW u \in Joined, NEW s2, NEW c \in commits, Shape(s2),
           c.transcript = session[u].transcript,
           session' = [session EXCEPT ![u] = s2], UNCHANGED <<commits, failed>>,
           s2.transcript = Append(session[u].transcript, c.round),
           ShapeOf(s2.view) = After(ShapeOf(session[u].view), c)
    PROVE  /\ GeometryInv'
           /\ c.committer \notin failed /\ u \notin failed => c.tree_depth = s2.view.tree_depth
<1>1. c.round \in Round /\ u \in Online /\ c.transcript \in Seq(Round)
  BY DEF IndInv, CommitSound, Joined
<1>2. CASE u \notin failed
  <2>1. PICK h : /\ Trace(commits', h, Append(c.transcript, c.round))
                 /\ Trace(commits', h, s2.transcript)
                 /\ h[Len(c.transcript) + 1] = ShapeOf(s2.view)
                 /\ h[Len(s2.transcript)] = ShapeOf(s2.view)
    BY <1>1, <1>2, GeometryExtends
  <2>2. SessionGeometry(s2)'
    BY <2>1 DEF SessionGeometry
  <2>3. ASSUME c.committer \notin failed PROVE c.tree_depth = s2.view.tree_depth
    <3> PICK t : t = Append(c.transcript, c.round)
      OBVIOUS
    <3>1. PICK g : Trace(commits, g, t) /\ g[Len(c.transcript) + 1].depth = c.tree_depth
      BY <2>3 DEF GeometryInv, CommitGeometry
    <3>2. Len(t) = Len(c.transcript) + 1 /\ Len(t) \in Nat
      BY <1>1, Appended
    <3>3. \A d, e \in commits : d.round = e.round => d = e
      BY DEF KeysInv
    <3>4. g[Len(t)] = h[Len(t)]
      <4>1. Trace(commits, h, t)
        BY <2>1
      <4> QED BY ONLY <3>1, <3>2, <3>3, <4>1, TraceUnique
    <3> QED BY <2>1, <3>1, <3>2, <3>4 DEF ShapeOf
  <2> QED BY <2>2, <2>3, GeometryStep, <1>1
<1>3. CASE u \in failed
  BY <1>1, <1>3, GeometryStep
<1> QED BY <1>2, <1>3

LEMMA FailGeometry ==
    ASSUME IndInv, GeometryInv, NEW u \in Joined, NEW s2, Shape(s2), Fail(u, s2)
    PROVE  GeometryInv'
<1>1. /\ session' = [session EXCEPT ![u] = s2] /\ failed' = failed \cup {u}
      /\ commits' = commits /\ u \in Online
  BY DEF Fail, Joined
<1> QED BY <1>1, GeometryStep
-----------------------------------------------------------------------------
(* What the commit of a session seals to: keys its view holds, and the     *)
(* one-time key of a member it adds.                                       *)
Sealable(view, e) == SeedKey(e.key) /\ \A p : e.key = <<0, p>> => Holds(view, p)

LEMMA RecipientKeys ==
    ASSUME NEW view, ViewOK(view), NEW nodes, NEW e \in Recipients(view, nodes)
    PROVE  Sealable(view, e)
<1>1. PICK n : is_populated(view, n) /\ e = [position |-> n.position, key |-> public_key(view, n)]
  BY DEF Recipients
<1>2. n \in DOMAIN view.nodes /\ e.key = view.nodes[n].key /\ e.key # NoKey
  BY <1>1 DEF is_populated, public_key, contains
<1>3. PathKey(e.key) \/ e.key = <<0, n.position>>
  BY <1>2 DEF ViewOK, NodeOK
<1>4. SeedKey(e.key)
  BY <1>3, KeyFacts
<1>5. \A p : e.key = <<0, p>> => Holds(view, p)
  BY <1>2 DEF Holds
<1> QED BY <1>4, <1>5 DEF Sealable

LEMMA AllRecipientKeys ==
    ASSUME fresh \in Nat \ {0}, NEW view, ViewOK(view), NEW n, NEW l
    PROVE  /\ \A e \in UpdateRecipients(view, n) : Sealable(view, e)
           /\ \A e \in RemoveRecipients(view, n, l) : Sealable(view, e)
           /\ \A e \in AddRecipients(view, n, l, <<fresh, ONE_TIME>>) : Sealable(view, e)
<1>1. \A e \in UpdateRecipients(view, n) : Sealable(view, e)
  BY RecipientKeys DEF UpdateRecipients
<1>2. \A e \in RemoveRecipients(view, n, l) : Sealable(view, e)
  BY RecipientKeys DEF RemoveRecipients
<1>3. ASSUME NEW e, e = [position |-> l.position, key |-> <<fresh, ONE_TIME>>]
      PROVE  Sealable(view, e)
  BY <1>3, KeyFacts DEF Sealable
<1>4. \A e \in AddRecipients(view, n, l, <<fresh, ONE_TIME>>) : Sealable(view, e)
  BY <1>1, <1>3 DEF AddRecipients
<1> QED BY <1>1, <1>2, <1>4

LEMMA CommitMade ==
    ASSUME NEW u, NEW s, ViewOK(s.view), NEW kind, NEW subject, NEW at, NEW recipients,
           \A v \in our_path(s) : \A e \in recipients[v] : Sealable(s.view, e)
    PROVE  LET c == commit(u, s, kind, subject, at, build_path(s, recipients))
           IN  Made(c, u, s) /\ c.at = at /\ c.kind = kind
<1> PICK path : path = build_path(s, recipients)
  OBVIOUS
<1> PICK c : c = commit(u, s, kind, subject, at, path)
  OBVIOUS
<1>1. /\ c.committer = u /\ c.leaf = s.position /\ c.tree_depth = s.view.tree_depth
      /\ c.transcript = s.transcript /\ c.round.root = fresh /\ c.path = path
      /\ c.at = at /\ c.kind = kind
  BY DEF commit
<1>2. DOMAIN path = 0..s.view.tree_depth
  BY DEF build_path
<1>3. ASSUME NEW level \in 0..s.view.tree_depth, NEW e \in path[level].seeds
      PROVE  Sealable(s.view, e)
  <2>1. PathNode(our_leaf(s), level) \in our_path(s)
    BY DEF our_path, our_leaf, path_to_root, leaf
  <2>2. path[level].seeds = recipients[PathNode(our_leaf(s), level)]
    BY DEF build_path
  <2> QED BY <2>1, <2>2
<1> QED BY <1>1, <1>2, <1>3 DEF Made, Sealable

(* The setters again: what CocoaGroupProofs does not need of them.         *)
LEMMA SetterKeys ==
    ASSUME NEW s, Shape(s)
    PROVE  /\ \A view : [s EXCEPT !.view = view].keypair = s.keypair
           /\ \A n : rotate_session_keypair(s, n).view = s.view
           /\ \A n : rotate_session_keypair(s, n).keypair = <<n, ROTATED>>
           /\ \A n, r : advance_epoch(s, n, r).view = s.view
           /\ \A n, r : advance_epoch(s, n, r).keypair = s.keypair
           /\ \A u : insert_member(s, u).view = s.view
           /\ \A u : insert_member(s, u).keypair = s.keypair
           /\ \A u : remove_member_entry(s, u).view = s.view
           /\ \A u : remove_member_entry(s, u).keypair = s.keypair
BY DEF Shape, rotate_session_keypair, advance_epoch, insert_member, remove_member_entry

Invariant == IndInv /\ KeysInv /\ GeometryInv

LEMMA JoinedKeys ==
    ASSUME Invariant, NEW u \in Joined
    PROVE  /\ Shape(session[u]) /\ fresh \in Nat \ {0} /\ SessionKeys(u, session[u])
           /\ ViewOK(session[u].view) /\ session[u].transcript \in Seq(Round)
BY DEF Invariant, IndInv, KeysInv, Sound, SessionKeys

(* create_update leaves the view alone.                                    *)
LEMMA CreateUpdateKeys ==
    ASSUME Invariant, NEW u \in Online, create_update(u)
    PROVE  KeysInv' /\ GeometryInv'
<1> PICK s : s = session[u]
  OBVIOUS
<1> PICK recipients : recipients = [v \in our_path(s) |-> UpdateRecipients(s.view, v)]
  OBVIOUS
<1> PICK c : c = commit(u, s, "update", NoUser, NoLeaf, build_path(s, recipients))
  OBVIOUS
<1> PICK rotated : rotated = rotate_session_keypair(s, fresh)
  OBVIOUS
<1> PICK s2 : s2 = advance_epoch(rotated, fresh, c.round)
  OBVIOUS
<1>1. u \in Joined /\ \/ Publish(u, s2, c) /\ UNCHANGED welcomes
                      \/ Fail(u, rotated)
  BY DEF create_update
<1>2. /\ Shape(s) /\ fresh \in Nat \ {0} /\ ViewOK(s.view) /\ s.transcript \in Seq(Round)
  BY <1>1, JoinedKeys
<1>3. Made(c, u, s) /\ c.kind = "update"
  <2>1. \A v \in our_path(s) : \A e \in recipients[v] : Sealable(s.view, e)
    BY <1>2, AllRecipientKeys
  <2> QED BY <1>2, <2>1, CommitMade
<1>4. c.round \in Round
  BY <1>2, CommitFields
<1>5. /\ Shape(rotated) /\ rotated.position = s.position /\ rotated.transcript = s.transcript
      /\ rotated.view = s.view /\ rotated.keypair = <<fresh, ROTATED>>
  BY <1>2, SetKeypair, SetterKeys
<1>6. /\ Shape(s2) /\ s2.position = s.position /\ s2.view = s.view
      /\ s2.transcript = Append(s.transcript, c.round) /\ s2.keypair = <<fresh, ROTATED>>
  BY <1>5, SetEpoch, SetterKeys
<1>7. /\ ViewShrinks(s, s) /\ ViewShrinks(s2, s) /\ ViewShrinks(rotated, s)
      /\ KeypairKept(s2, s) /\ KeypairKept(rotated, s)
  BY <1>2, <1>5, <1>6 DEF ViewShrinks, KeypairKept
<1>8. CASE Publish(u, s2, c) /\ UNCHANGED welcomes
  <2>1. KeysInv'
    BY <1>1, <1>3, <1>4, <1>6, <1>7, <1>8, PublishKeys DEF Invariant
  <2>2. ShapeOf(s2.view) = After(ShapeOf(s.view), c)
    BY <1>3, <1>6 DEF After
  <2>3. c.transcript = s.transcript /\ c.committer = u /\ c.tree_depth = s2.view.tree_depth
    BY <1>3, <1>6 DEF Made
  <2>4. GeometryInv'
    BY <1>1, <1>4, <1>6, <1>8, <2>2, <2>3, PublishGeometry DEF Invariant
  <2> QED BY <2>1, <2>4
<1>9. CASE Fail(u, rotated)
  BY <1>1, <1>5, <1>7, <1>9, FailKeys, FailGeometry DEF Invariant
<1> QED BY <1>1, <1>8, <1>9

(* add_member grows the tree if it must, counts the new leaf, and marks it *)
(* unmerged; what failed half way keeps the growth.                        *)
LEMMA AddMemberKeys ==
    ASSUME Invariant, NEW u \in Online, NEW new \in Users, add_member(u, new)
    PROVE  KeysInv' /\ GeometryInv'
<1>s. PICK s : s = session[u]
  OBVIOUS
<1>position. PICK position : position = s.view.member_count
  OBVIOUS
<1>view. PICK view : view = grow_if_needed(s.view, position + 1)
  OBVIOUS
<1>grown. PICK grown : grown = [s EXCEPT !.view = view]
  OBVIOUS
<1>l. PICK l : l = leaf(grown.view.tree_depth, position)
  OBVIOUS
<1>recipients. PICK recipients : recipients = [v \in our_path(grown) |->
        AddRecipients(grown.view, v, l, <<fresh, ONE_TIME>>)]
  OBVIOUS
<1>c. PICK c : c = commit(u, grown, "add", new, position, build_path(grown, recipients))
  OBVIOUS
<1>view2. PICK view2 : view2 = set_member_count(grown.view, position + 1)
  OBVIOUS
<1>counted. PICK counted : counted = [grown EXCEPT !.view = view2]
  OBVIOUS
<1>view3. PICK view3 : view3 = mark_member_as_unmerged(counted.view, position)
  OBVIOUS
<1>marked. PICK marked : marked = [counted EXCEPT !.view = view3]
  OBVIOUS
<1>advanced. PICK advanced : advanced = advance_epoch(marked, fresh, c.round)
  OBVIOUS
<1>s2. PICK s2 : s2 = insert_member(advanced, new)
  OBVIOUS
<1>1. /\ u \in Joined
      /\ \/ /\ Publish(u, s2, c)
            /\ welcomes' = welcomes \cup
                   {[to |-> new, position |-> position,
                     tree_depth |-> grown.view.tree_depth, member_count |-> position + 1,
                     aad |-> "cocoa-welcome-add"]}
         \/ Fail(u, grown)
         \/ Fail(u, counted)
  <2> DEFINE S == session[u]
             Position == S.view.member_count
             Grown == [S EXCEPT !.view = grow_if_needed(@, Position + 1)]
             Leaf == leaf(Grown.view.tree_depth, Position)
             Path == build_path(Grown, [v \in our_path(Grown) |->
                         AddRecipients(Grown.view, v, Leaf, <<fresh, ONE_TIME>>)])
             C == commit(u, Grown, "add", new, Position, Path)
             Counted == [Grown EXCEPT !.view = set_member_count(@, Position + 1)]
             Marked == [Counted EXCEPT !.view = mark_member_as_unmerged(@, Position)]
             S2 == insert_member(advance_epoch(Marked, fresh, C.round), new)
  <2>1. /\ u \in Joined
        /\ \/ /\ Publish(u, S2, C)
              /\ welcomes' = welcomes \cup
                     {[to |-> new, position |-> Position,
                       tree_depth |-> Grown.view.tree_depth, member_count |-> Position + 1,
                       aad |-> "cocoa-welcome-add"]}
           \/ Fail(u, Grown)
           \/ Fail(u, Counted)
    BY DEF add_member
  <2>2. S = s /\ Position = position
    BY <1>s, <1>position
  <2> HIDE DEF S, Position
  <2>3. Grown = grown
    BY <1>view, <1>grown, <2>2
  <2> HIDE DEF Grown
  <2>4. Path = build_path(grown, recipients) /\ C = c
    BY <1>l, <1>recipients, <1>c, <2>2, <2>3
  <2>5. Counted = counted
    BY <1>view2, <1>counted, <2>2, <2>3
  <2> HIDE DEF Counted
  <2>6. Marked = marked
    BY <1>view3, <1>marked, <2>2, <2>5
  <2> HIDE DEF Marked, C
  <2>7. S2 = s2
    BY <1>advanced, <1>s2, <2>4, <2>6
  <2> HIDE DEF S2
  <2> QED BY <2>1, <2>2, <2>3, <2>4, <2>5, <2>7
<1>2. /\ Shape(s) /\ fresh \in Nat \ {0} /\ ViewOK(s.view) /\ s.transcript \in Seq(Round)
  BY <1>1, <1>s, JoinedKeys
<1>3. /\ ViewOK(view)
      /\ view.tree_depth = IF depth_for_members(position + 1) > s.view.tree_depth
                           THEN s.view.tree_depth + 1 ELSE s.view.tree_depth
      /\ \A p : Holds(view, p) => Holds(s.view, p)
  BY <1>2, <1>view, GrowIfNeeded
<1>4. /\ Shape(grown) /\ grown.position = s.position /\ grown.transcript = s.transcript
      /\ grown.view = view /\ grown.keypair = s.keypair
  BY ONLY <1>2, <1>grown, SetView, SetterKeys
<1>5. Made(c, u, grown) /\ c.kind = "add" /\ c.at = position
  <2>1. \A v \in our_path(grown) : \A e \in recipients[v] : Sealable(grown.view, e)
    BY <1>2, <1>3, <1>4, <1>recipients, AllRecipientKeys
  <2> QED BY <1>3, <1>4, <1>c, <2>1, CommitMade
<1>6. c.round \in Round
  BY <1>2, <1>c, CommitFields
<1>7. /\ ViewOK(view2) /\ view2.tree_depth = view.tree_depth
      /\ view2.member_count = position + 1
      /\ \A p : Holds(view2, p) => Holds(view, p)
  BY <1>3, <1>4, <1>view2, SetMemberCount
<1>8. /\ Shape(counted) /\ counted.position = s.position
      /\ counted.transcript = s.transcript
      /\ counted.view = view2 /\ counted.keypair = s.keypair
  BY <1>4, <1>counted, SetView, SetterKeys
<1>9. /\ ViewOK(view3) /\ ShapeOf(view3) = ShapeOf(view2)
      /\ \A p : Holds(view3, p) => Holds(view2, p)
  BY <1>7, <1>8, <1>view3, UnmergedChange
<1>10. /\ Shape(marked) /\ marked.position = s.position
       /\ marked.transcript = s.transcript
       /\ marked.view = view3 /\ marked.keypair = s.keypair
  BY <1>8, <1>marked, SetView, SetterKeys
<1>11. /\ Shape(advanced) /\ advanced.position = s.position
       /\ advanced.transcript = Append(s.transcript, c.round)
       /\ advanced.view = view3 /\ advanced.keypair = s.keypair
  BY <1>10, <1>advanced, SetEpoch, SetterKeys
<1>12. /\ Shape(s2) /\ s2.position = s.position
       /\ s2.transcript = Append(s.transcript, c.round)
       /\ s2.view = view3 /\ s2.keypair = s.keypair
  BY <1>11, <1>s2, SetMembers, SetterKeys
<1>13. /\ ViewShrinks(grown, s) /\ ViewShrinks(counted, s) /\ ViewShrinks(s2, grown)
       /\ KeypairKept(grown, s) /\ KeypairKept(counted, s) /\ KeypairKept(s2, s)
  BY <1>3, <1>4, <1>7, <1>8, <1>9, <1>12 DEF ViewShrinks, KeypairKept
<1>14. CASE /\ Publish(u, s2, c)
            /\ welcomes' = welcomes \cup
                   {[to |-> new, position |-> position,
                     tree_depth |-> grown.view.tree_depth, member_count |-> position + 1,
                     aad |-> "cocoa-welcome-add"]}
  <2>1. \A w \in welcomes' : w \in welcomes \/ w.aad # "group_id"
    BY <1>14
  <2>2. KeysInv'
    BY <1>1, <1>s, <1>2, <1>4, <1>5, <1>6, <1>12, <1>13, <1>14, <2>1, PublishKeys DEF Invariant
  <2>3. ShapeOf(s2.view) = After(ShapeOf(s.view), c)
    <3>1. ShapeOf(s2.view) = [depth |-> view.tree_depth, count |-> position + 1]
      BY <1>7, <1>9, <1>12 DEF ShapeOf
    <3>2. ShapeOf(s.view).depth = s.view.tree_depth
      BY DEF ShapeOf
    <3> QED BY <1>3, <1>5, <3>1, <3>2 DEF After
  <2>4. c.transcript = s.transcript /\ c.committer = u /\ c.tree_depth = s2.view.tree_depth
    <3>1. s2.view.tree_depth = view.tree_depth
      BY <1>7, <1>9, <1>12 DEF ShapeOf
    <3> QED BY <1>4, <1>5, <3>1 DEF Made
  <2>5. GeometryInv'
    BY <1>1, <1>s, <1>6, <1>12, <1>14, <2>3, <2>4, PublishGeometry DEF Invariant
  <2> QED BY <2>2, <2>5
<1>15. CASE Fail(u, grown)
  BY <1>1, <1>s, <1>4, <1>13, <1>15, FailKeys, FailGeometry DEF Invariant
<1>16. CASE Fail(u, counted)
  BY <1>1, <1>s, <1>8, <1>13, <1>16, FailKeys, FailGeometry DEF Invariant
<1> QED BY <1>1, <1>14, <1>15, <1>16

(* remove_member blanks the leaf before it computes the recipients.        *)
LEMMA RemoveMemberKeys ==
    ASSUME Invariant, NEW u \in Joined, NEW member \in Roster(session[u]),
           remove_member(u, member)
    PROVE  KeysInv' /\ GeometryInv'
<1>s. PICK s : s = session[u]
  OBVIOUS
<1>l. PICK l : l = leaf(s.view.tree_depth, member.position)
  OBVIOUS
<1>view. PICK view : view = blank_node(s.view, l)
  OBVIOUS
<1>blanked. PICK blanked : blanked = [s EXCEPT !.view = view]
  OBVIOUS
<1>recipients. PICK recipients : recipients = [v \in our_path(blanked) |->
        RemoveRecipients(blanked.view, v, l)]
  OBVIOUS
<1>c. PICK c : c = commit(u, blanked, "remove", member.user, member.position,
                        build_path(blanked, recipients))
  OBVIOUS
<1>s2. PICK s2 : s2 = advance_epoch(blanked, fresh, c.round)
  OBVIOUS
<1>1. \/ Publish(u, s2, c) /\ UNCHANGED welcomes
      \/ Fail(u, blanked)
  BY <1>s, <1>l, <1>view, <1>blanked, <1>recipients, <1>c, <1>s2 DEF remove_member
<1>2. IndInv /\ Shape(s) /\ fresh \in Nat \ {0} /\ ViewOK(s.view) /\ s.transcript \in Seq(Round)
  BY <1>s, JoinedKeys DEF Invariant
<1>3. /\ ViewOK(view) /\ ShapeOf(view) = ShapeOf(s.view)
      /\ \A p : Holds(view, p) => Holds(s.view, p)
      /\ ~ Holds(view, member.position)
  BY <1>2, <1>l, <1>view, BlankLeaf
<1>4. /\ Shape(blanked) /\ blanked.position = s.position
      /\ blanked.transcript = s.transcript
      /\ blanked.view = view /\ blanked.keypair = s.keypair
  BY ONLY <1>2, <1>blanked, SetView, SetterKeys
<1>5. Made(c, u, blanked) /\ c.kind = "remove" /\ c.at = member.position
  <2>1. \A v \in our_path(blanked) : \A e \in recipients[v] : Sealable(blanked.view, e)
    BY <1>2, <1>3, <1>4, <1>recipients, AllRecipientKeys
  <2> QED BY <1>3, <1>4, <1>c, <2>1, CommitMade
<1>6. c.round \in Round
  <2>1. member.user \in Users \cup {NoUser}
    BY <1>2, RosterUsers
  <2> QED BY <1>2, <1>c, <2>1, CommitFields
<1>7. /\ Shape(s2) /\ s2.position = s.position
      /\ s2.transcript = Append(s.transcript, c.round)
      /\ s2.view = view /\ s2.keypair = s.keypair
  BY <1>4, <1>s2, SetEpoch, SetterKeys
<1>8. /\ ViewShrinks(blanked, s) /\ ViewShrinks(s2, blanked)
      /\ KeypairKept(blanked, s) /\ KeypairKept(s2, s)
  BY <1>3, <1>4, <1>7 DEF ViewShrinks, KeypairKept
<1>9. CASE Publish(u, s2, c) /\ UNCHANGED welcomes
  <2>1. c.kind = "remove" => ~ Holds(blanked.view, c.at)
    BY <1>3, <1>4, <1>5
  <2>2. KeysInv'
    BY <1>s, <1>4, <1>5, <1>6, <1>7, <1>8, <1>9, <2>1, PublishKeys DEF Invariant
  <2>3. ShapeOf(s2.view) = After(ShapeOf(s.view), c)
    BY <1>3, <1>5, <1>7 DEF After
  <2>4. c.transcript = s.transcript /\ c.committer = u /\ c.tree_depth = s2.view.tree_depth
    BY <1>3, <1>4, <1>5, <1>7 DEF Made, ShapeOf
  <2>5. GeometryInv'
    BY <1>s, <1>6, <1>7, <1>9, <2>3, <2>4, PublishGeometry DEF Invariant
  <2> QED BY <2>2, <2>5
<1>10. CASE Fail(u, blanked)
  BY <1>s, <1>4, <1>8, <1>10, FailKeys, FailGeometry DEF Invariant
<1> QED BY <1>1, <1>9, <1>10
-----------------------------------------------------------------------------
(* What every process_* does with a commit: the path is written over a     *)
(* view prepared for it, and the leaf of its committer with it.            *)
LEMMA TakenPath ==
    ASSUME Invariant, NEW c \in commits, NEW view, ViewOK(view)
    PROVE  LET v == update_tree_from_path_updates(view, c)
           IN  /\ ViewOK(v) /\ ShapeOf(v) = ShapeOf(view)
               /\ \A p : Holds(v, p) => Holds(view, p)
               /\ c.tree_depth = view.tree_depth => ~ Holds(v, PositionOf(c.committer))
<1>1. CommitKeys(c) /\ c.round.root \in Nat \ {0}
  BY DEF Invariant, KeysInv, IndInv, CommitSound
<1>2. c.leaf = PositionOf(c.committer) /\ c.committer \in FounderSet
  BY <1>1 DEF CommitKeys, Invariant, KeysInv, SessionKeys
<1>3. \A v \in FounderSet : PositionOf(v) \in Nat
  BY DEF FounderSet, PositionOf
<1>4. c.leaf \in Nat
  BY <1>2, <1>3
<1> QED BY <1>1, <1>2, <1>4, PathWritten DEF CommitKeys

LEMMA TakenKeys ==
    ASSUME Invariant, NEW u \in Joined, NEW c \in commits, NEW s2, NEW view, NEW written,
           Accepts(session[u], c), Shape(s2), session' = [session EXCEPT ![u] = s2],
           UNCHANGED <<commits, welcomes, fresh, failed>>,
           s2.position = session[u].position, s2.keypair = session[u].keypair,
           s2.transcript = Append(session[u].transcript, c.round),
           ViewOK(view), \A p : Holds(view, p) => Holds(session[u].view, p),
           ShapeOf(view) = After(ShapeOf(session[u].view), c),
           written = update_tree_from_path_updates(view, c),
           ViewOK(written) =>
               /\ ViewOK(s2.view) /\ ShapeOf(s2.view) = ShapeOf(written)
               /\ \A p : Holds(s2.view, p) => Holds(written, p),
           c.kind = "remove" => ~ Holds(view, c.at)
    PROVE  KeysInv' /\ GeometryInv'
<1>1. /\ ViewOK(written) /\ ShapeOf(written) = ShapeOf(view)
      /\ \A p : Holds(written, p) => Holds(view, p)
      /\ c.tree_depth = view.tree_depth => ~ Holds(written, PositionOf(c.committer))
  BY TakenPath
<1>2. /\ ViewOK(s2.view) /\ ShapeOf(s2.view) = ShapeOf(view)
      /\ \A p : Holds(s2.view, p) => Holds(written, p)
  BY <1>1
<1>3. c.transcript = session[u].transcript /\ Seals(c, session[u].keypair)
  BY DEF Accepts, confirmation_tag_matches, apply_path_updates, Seals
<1>4. /\ GeometryInv'
      /\ c.committer \notin failed /\ u \notin failed => c.tree_depth = s2.view.tree_depth
  BY <1>2, <1>3, ProcessGeometry DEF Invariant
<1>5. s2.view.tree_depth = view.tree_depth
  BY <1>2 DEF ShapeOf
<1>6. ViewShrinks(s2, session[u])
  BY <1>1, <1>2 DEF ViewShrinks
<1>7. /\ c.kind = "remove" => ~ Holds(s2.view, c.at)
      /\ c.committer \notin failed \cup {u} /\ u \notin failed =>
             ~ Holds(s2.view, PositionOf(c.committer))
  BY <1>1, <1>2, <1>4, <1>5
<1>8. KeysInv'
  BY <1>3, <1>6, <1>7, ProcessKeys DEF Invariant
<1> QED BY <1>4, <1>8

LEMMA ProcessUpdateKeys ==
    ASSUME Invariant, NEW u \in Online, NEW c \in commits, process_update(u, c)
    PROVE  KeysInv' /\ GeometryInv'
<1>s. PICK s : s = session[u]
  OBVIOUS
<1>written. PICK written : written = update_tree_from_path_updates(s.view, c)
  OBVIOUS
<1>view. PICK view : view = clear_unmerged_on_path(written, c.leaf, s.position)
  OBVIOUS
<1>viewed. PICK viewed : viewed = [s EXCEPT !.view = view]
  OBVIOUS
<1>s2. PICK s2 : s2 = advance_epoch(viewed, c.round.root, c.round)
  OBVIOUS
<1>1. /\ u \in Joined /\ c.kind = "update" /\ Accepts(s, c)
      /\ session' = [session EXCEPT ![u] = s2]
      /\ UNCHANGED <<commits, welcomes, fresh, failed>>
  BY <1>s, <1>written, <1>view, <1>viewed, <1>s2 DEF process_update
<1>2. Shape(s) /\ ViewOK(s.view)
  BY <1>1, <1>s, JoinedKeys
<1>3. /\ Shape(viewed) /\ viewed.position = s.position
      /\ viewed.transcript = s.transcript
      /\ viewed.view = view /\ viewed.keypair = s.keypair
  BY <1>2, <1>viewed, SetView, SetterKeys
<1>4. /\ Shape(s2) /\ s2.position = s.position /\ s2.keypair = s.keypair
      /\ s2.transcript = Append(s.transcript, c.round) /\ s2.view = view
  BY <1>3, <1>s2, SetEpoch, SetterKeys
<1>5. ViewOK(written) =>
         /\ ViewOK(s2.view) /\ ShapeOf(s2.view) = ShapeOf(written)
         /\ \A p : Holds(s2.view, p) => Holds(written, p)
  BY <1>4, <1>view, UnmergedChange
<1>6. ShapeOf(s.view) = After(ShapeOf(s.view), c)
  BY <1>1 DEF After
<1> QED BY <1>s, <1>written, <1>1, <1>2, <1>4, <1>5, <1>6, TakenKeys

LEMMA ProcessAddKeys ==
    ASSUME Invariant, NEW u \in Online, NEW c \in commits, process_add(u, c)
    PROVE  KeysInv' /\ GeometryInv'
<1>s. PICK s : s = session[u]
  OBVIOUS
<1>grown. PICK grown : grown = grow_if_needed(s.view, c.at + 1)
  OBVIOUS
<1>counted. PICK counted : counted = set_member_count(grown, c.at + 1)
  OBVIOUS
<1>written. PICK written : written = update_tree_from_path_updates(counted, c)
  OBVIOUS
<1>view. PICK view : view = mark_member_as_unmerged(written, c.at)
  OBVIOUS
<1>viewed. PICK viewed : viewed = [s EXCEPT !.view = view]
  OBVIOUS
<1>advanced. PICK advanced : advanced = advance_epoch(viewed, c.round.root, c.round)
  OBVIOUS
<1>s2. PICK s2 : s2 = insert_member(advanced, c.round.subject)
  OBVIOUS
<1>1. /\ u \in Joined /\ c.kind = "add" /\ Accepts(s, c)
      /\ session' = [session EXCEPT ![u] = s2]
      /\ UNCHANGED <<commits, welcomes, fresh, failed>>
  BY <1>s, <1>grown, <1>counted, <1>written, <1>view, <1>viewed, <1>advanced, <1>s2
     DEF process_add, grow_for_add
<1>2. Shape(s) /\ ViewOK(s.view)
  BY <1>1, <1>s, JoinedKeys
<1>3. /\ Shape(viewed) /\ viewed.position = s.position
      /\ viewed.transcript = s.transcript
      /\ viewed.view = view /\ viewed.keypair = s.keypair
  BY <1>2, <1>viewed, SetView, SetterKeys
<1>4. /\ Shape(advanced) /\ advanced.position = s.position /\ advanced.keypair = s.keypair
      /\ advanced.transcript = Append(s.transcript, c.round) /\ advanced.view = view
  BY <1>3, <1>advanced, SetEpoch, SetterKeys
<1>5. /\ Shape(s2) /\ s2.position = s.position /\ s2.keypair = s.keypair
      /\ s2.transcript = Append(s.transcript, c.round) /\ s2.view = view
  BY <1>4, <1>s2, SetMembers, SetterKeys
<1>6. ViewOK(written) =>
         /\ ViewOK(s2.view) /\ ShapeOf(s2.view) = ShapeOf(written)
         /\ \A p : Holds(s2.view, p) => Holds(written, p)
  BY <1>5, <1>view, UnmergedChange
<1>7. /\ ViewOK(grown)
      /\ grown.tree_depth = IF depth_for_members(c.at + 1) > s.view.tree_depth
                            THEN s.view.tree_depth + 1 ELSE s.view.tree_depth
      /\ \A p : Holds(grown, p) => Holds(s.view, p)
  BY <1>2, <1>grown, GrowIfNeeded
<1>8. /\ ViewOK(counted) /\ counted.tree_depth = grown.tree_depth
      /\ counted.member_count = c.at + 1
      /\ \A p : Holds(counted, p) => Holds(grown, p)
  BY <1>7, <1>counted, SetMemberCount
<1>9. ShapeOf(counted) = After(ShapeOf(s.view), c)
  <2>1. ShapeOf(counted) = [depth |-> grown.tree_depth, count |-> c.at + 1]
    BY <1>8 DEF ShapeOf
  <2>2. ShapeOf(s.view).depth = s.view.tree_depth
    BY DEF ShapeOf
  <2> QED BY <1>1, <1>7, <2>1, <2>2 DEF After
<1> QED BY <1>s, <1>written, <1>1, <1>5, <1>6, <1>7, <1>8, <1>9, TakenKeys

LEMMA ProcessRemoveKeys ==
    ASSUME Invariant, NEW u \in Online, NEW c \in commits, process_remove(u, c)
    PROVE  KeysInv' /\ GeometryInv'
<1>s. PICK s : s = session[u]
  OBVIOUS
<1>scratch. PICK scratch : scratch = blank_node(s.view, leaf(s.view.tree_depth, c.at))
  OBVIOUS
<1>written. PICK written : written = update_tree_from_path_updates(scratch, c)
  OBVIOUS
<1>viewed. PICK viewed : viewed = [s EXCEPT !.view = written]
  OBVIOUS
<1>advanced. PICK advanced : advanced = advance_epoch(viewed, c.round.root, c.round)
  OBVIOUS
<1>s2. PICK s2 : s2 = remove_member_entry(advanced, c.round.subject)
  OBVIOUS
<1>1. /\ u \in Joined /\ c.kind = "remove" /\ Accepts(s, c)
      /\ session' = [session EXCEPT ![u] = s2]
      /\ UNCHANGED <<commits, welcomes, fresh, failed>>
  BY <1>s, <1>scratch, <1>written, <1>viewed, <1>advanced, <1>s2 DEF process_remove
<1>2. Shape(s) /\ ViewOK(s.view)
  BY <1>1, <1>s, JoinedKeys
<1>3. /\ Shape(viewed) /\ viewed.position = s.position
      /\ viewed.transcript = s.transcript
      /\ viewed.view = written /\ viewed.keypair = s.keypair
  BY <1>2, <1>viewed, SetView, SetterKeys
<1>4. /\ Shape(advanced) /\ advanced.position = s.position /\ advanced.keypair = s.keypair
      /\ advanced.transcript = Append(s.transcript, c.round) /\ advanced.view = written
  BY <1>3, <1>advanced, SetEpoch, SetterKeys
<1>5. /\ Shape(s2) /\ s2.position = s.position /\ s2.keypair = s.keypair
      /\ s2.transcript = Append(s.transcript, c.round) /\ s2.view = written
  BY <1>4, <1>s2, SetMembers, SetterKeys
<1>6. /\ ViewOK(scratch) /\ ShapeOf(scratch) = ShapeOf(s.view)
      /\ \A p : Holds(scratch, p) => Holds(s.view, p)
      /\ ~ Holds(scratch, c.at)
  BY <1>2, <1>scratch, BlankLeaf
<1>7. ShapeOf(scratch) = After(ShapeOf(s.view), c)
  BY <1>1, <1>6 DEF After
<1> QED BY <1>s, <1>written, <1>1, <1>5, <1>6, <1>7, TakenKeys
-----------------------------------------------------------------------------
(* A new session: the founders' keys at their leaves, or an empty tree.    *)
LEMMA HostNodesOK ==
    ASSUME NEW view, NEW host, NEW depth \in Nat, NEW count,
           view = [tree_depth |-> depth, member_count |-> count,
                   nodes |-> HostNodes(host, depth)]
    PROVE  ViewOK(view) /\ ShapeOf(view) = [depth |-> depth, count |-> count]
<1>1. /\ view.tree_depth = depth /\ view.member_count = count
      /\ view.nodes = HostNodes(host, depth)
      /\ view \in [tree_depth : {view.tree_depth}, member_count : {view.member_count},
                   nodes : {view.nodes}]
  OBVIOUS
<1>2. ASSUME NEW n \in DOMAIN view.nodes PROVE NodeOK(view, n)
  <2>1. host # "empty" /\ n \in NodeIndex(depth)
    BY <1>1 DEF HostNodes, EmptyNodes
  <2>2. n = leaf(n.depth, n.position) /\ n.depth \in Int
    BY <2>1 DEF NodeIndex, leaf
  <2>3. view.nodes[n] = IF n.depth = depth THEN populated(<<0, n.position>>) ELSE blank
    BY <1>1, <2>1 DEF HostNodes
  <2>4. CASE n.depth = depth
    <3> PICK key : key = <<0, n.position>>
      OBVIOUS
    <3>1. view.nodes[n] = [key |-> key, unmerged |-> {}]
      BY <2>3, <2>4 DEF populated
    <3>2. view.nodes[n].key = key /\ view.nodes[n].unmerged = {}
      BY <3>1
    <3>3. n = leaf(view.tree_depth, n.position)
      BY <1>1, <2>2, <2>4
    <3> QED BY <2>2, <3>1, <3>2, <3>3 DEF NodeOK
  <2>5. CASE n.depth # depth
    BY <2>2, <2>3, <2>5 DEF NodeOK, blank
  <2> QED BY <2>4, <2>5
<1>3. IsFcn(view.nodes)
  BY <1>1 DEF HostNodes, EmptyNodes, IsFcn
<1>4. ViewOK(view)
  BY <1>1, <1>2, <1>3 DEF ViewOK
<1> QED BY <1>1, <1>4 DEF ShapeOf

LEMMA NewSession ==
    ASSUME NEW u \in FounderSet, NEW host, NEW s,
           s = new_session(u, PositionOf(u), Founding.depth, Founding.count, host)
    PROVE  /\ Shape(s) /\ s.transcript = <<>> /\ SessionKeys(u, s) /\ SessionGeometry(s)
<1> PICK view : view = [tree_depth   |-> Founding.depth,
                        member_count |-> Founding.count,
                        nodes        |-> HostNodes(host, Founding.depth)]
  OBVIOUS
<1>1. /\ Shape(s) /\ s.position = PositionOf(u) /\ s.view = view
      /\ s.keypair = <<0, PositionOf(u)>> /\ s.transcript = <<>>
  BY DEF new_session, FounderKey, Shape
<1>2. Founding.depth \in Nat /\ Founding = [depth |-> Founding.depth, count |-> Founding.count]
  BY GroupLimitsAssumption DEF Founding
<1>3. ViewOK(view) /\ ShapeOf(view) = Founding
  BY <1>2, HostNodesOK
<1>4. Len(<<>>) = 0 /\ \A round : ~ In(<<>>, round)
  BY DEF In
<1>5. SessionKeys(u, s)
  BY <1>1, <1>3, <1>4 DEF SessionKeys, Prefixes, GoneAfter
<1>6. SessionGeometry(s)
  <2> PICK g : g = [i \in {0} |-> Founding]
    OBVIOUS
  <2>1. Trace(commits, g, <<>>) /\ g[0] = Founding
    BY <1>4 DEF Trace
  <2> QED BY <1>1, <1>3, <1>4, <2>1 DEF SessionGeometry
<1> QED BY <1>1, <1>5, <1>6

LEMMA WelcomeKeys ==
    ASSUME Invariant, NEW u \in Online, process_welcome(u)
    PROVE  KeysInv' /\ GeometryInv'
<1>1. PICK w \in welcomes, host \in HostViews :
        /\ session[u] = NoSession /\ w.to = u /\ w.aad = "group_id"
        /\ session' = [session EXCEPT ![u] =
                          new_session(u, w.position, w.tree_depth, w.member_count, host)]
        /\ UNCHANGED <<commits, welcomes, fresh, failed>>
  BY DEF process_welcome
<1> PICK s2 : s2 = new_session(u, w.position, w.tree_depth, w.member_count, host)
  OBVIOUS
<1>2. /\ u \in FounderSet /\ w.position = PositionOf(u)
      /\ w.tree_depth = Founding.depth /\ w.member_count = Founding.count
  BY <1>1 DEF Invariant, KeysInv
<1>3. Shape(s2) /\ SessionKeys(u, s2) /\ SessionGeometry(s2)
  BY <1>2, NewSession
<1>4. session' = [session EXCEPT ![u] = s2]
  BY <1>1
<1>5. SessionKeys(u, s2)' /\ SessionGeometry(s2)'
  BY <1>1, <1>3 DEF SessionKeys, Prefixes, GoneAfter, SessionGeometry
<1>6. ~ (u \in Joined)
  BY <1>1 DEF Joined
<1>7. KeysInv'
  BY <1>1, <1>3, <1>4, <1>5, <1>6, KeysStep DEF Invariant
<1>8. GeometryInv'
  BY <1>1, <1>3, <1>4, <1>5, GeometryStep DEF Invariant
<1> QED BY <1>7, <1>8
-----------------------------------------------------------------------------
LEMMA KeysInit == ASSUME GroupInit PROVE KeysInv /\ GeometryInv
<1> PICK host \in HostViews :
        /\ session = [u \in Online |->
              IF u = Creator THEN new_session(u, 0, Founding.depth, Founding.count, host)
                             ELSE NoSession]
        /\ welcomes = {[to |-> u, position |-> PositionOf(u), tree_depth |-> Founding.depth,
                        member_count |-> Founding.count, aad |-> "group_id"] :
                          u \in FounderSet \ {Creator}}
        /\ commits = {}
  BY DEF GroupInit, Founding
<1>1. Creator \in FounderSet /\ Creator \in Online
  BY MembersAssumption DEF FounderSet, Creator
<1>2. PositionOf(Creator) = 0
  <2>1. 1 \in 1..Len(Founders) /\ Founders[1] = Creator
    BY MembersAssumption DEF Creator
  <2>2. \A i \in 1..Len(Founders) : Founders[i] = Creator => i = 1
    BY <2>1, MembersAssumption
  <2>3. (CHOOSE i \in 1..Len(Founders) : Founders[i] = Creator) = 1
    BY <2>1, <2>2
  <2> QED BY <2>3 DEF PositionOf
<1> PICK s : s = new_session(Creator, 0, Founding.depth, Founding.count, host)
  OBVIOUS
<1>3. SessionKeys(Creator, s) /\ SessionGeometry(s)
  BY <1>1, <1>2, NewSession
<1>4. Joined \subseteq {Creator} /\ session[Creator] = s
  BY <1>1 DEF Joined
<1>5. \A u \in Joined : SessionKeys(u, session[u]) /\ SessionGeometry(session[u])
  BY <1>3, <1>4
<1>6. \A w \in welcomes : w.aad = "group_id" =>
          /\ w.to \in FounderSet /\ w.position = PositionOf(w.to)
          /\ w.tree_depth = Founding.depth /\ w.member_count = Founding.count
  OBVIOUS
<1> QED BY <1>5, <1>6 DEF KeysInv, GeometryInv

LEMMA KeysPreserved ==
    ASSUME Invariant, [GroupNext]_group_vars
    PROVE  KeysInv' /\ GeometryInv'
<1>1. CASE UNCHANGED group_vars
  <2>1. UNCHANGED <<session, commits, welcomes, fresh, failed>>
    BY <1>1 DEF group_vars
  <2>2. Joined' = Joined
    BY <2>1 DEF Joined
  <2>3. KeysInv'
    <3>1. \A t, u, p : GoneAfter(t, u, p)' <=> GoneAfter(t, u, p)
      BY <2>1 DEF GoneAfter
    <3>2. \A t : Prefixes(t)' <=> Prefixes(t)
      BY <2>1 DEF Prefixes
    <3>3. \A u, s : SessionKeys(u, s) => SessionKeys(u, s)'
      BY <2>1, <3>1, <3>2 DEF SessionKeys
    <3>4. \A c : CommitKeys(c) => CommitKeys(c)'
      BY <2>1, <2>2, <3>1 DEF CommitKeys
    <3>5. \A u \in Joined' : SessionKeys(u, session[u])'
      <4> SUFFICES ASSUME NEW u \in Joined PROVE SessionKeys(u, session[u])'
        BY <2>2
      <4> PICK s : s = session[u]
        OBVIOUS
      <4>1. SessionKeys(u, s) /\ session'[u] = s
        BY <2>1 DEF Invariant, KeysInv
      <4> QED BY <3>3, <4>1
    <3> QED BY <2>1, <3>4, <3>5 DEF Invariant, KeysInv, Founding
  <2>4. GeometryInv'
    BY <2>1, <2>2 DEF Invariant, GeometryInv, SessionGeometry, CommitGeometry
  <2> QED BY <2>3, <2>4
<1>2. ASSUME NEW u \in Online, process_welcome(u)
      PROVE  KeysInv' /\ GeometryInv'
  BY <1>2, WelcomeKeys
<1>3. ASSUME NEW u \in Online, create_update(u)
      PROVE  KeysInv' /\ GeometryInv'
  BY <1>3, CreateUpdateKeys
<1>4. ASSUME NEW u \in Online, NEW new \in Users, add_member(u, new)
      PROVE  KeysInv' /\ GeometryInv'
  BY <1>4, AddMemberKeys
<1>5. ASSUME NEW u \in Joined, NEW member \in Roster(session[u]), remove_member(u, member)
      PROVE  KeysInv' /\ GeometryInv'
  BY <1>5, RemoveMemberKeys
<1>6. ASSUME NEW u \in Online, NEW c \in commits,
             process_update(u, c) \/ process_add(u, c) \/ process_remove(u, c)
      PROVE  KeysInv' /\ GeometryInv'
  BY <1>6, ProcessUpdateKeys, ProcessAddKeys, ProcessRemoveKeys
<1> QED BY <1>1, <1>2, <1>3, <1>4, <1>5, <1>6 DEF GroupNext

(* In every reachable state a session can open only what is sealed to the  *)
(* key its user came with, a view holds that key at most at the leaf of    *)
(* its user, and not after a removal of the leaf or a commit of its user;  *)
(* and depth and member count are those the transcript leads to.           *)
THEOREM InvariantHolds == GroupSpec => []Invariant
<1>1. GroupInit => Invariant
  BY GroupStart, KeysInit DEF Invariant
<1>2. Invariant /\ [GroupNext]_group_vars => Invariant'
  BY GroupStep, KeysPreserved DEF Invariant
<1> QED BY <1>1, <1>2, PTL DEF GroupSpec
-----------------------------------------------------------------------------
(* The removing commit and every commit made after it seal nothing to the  *)
(* keypair of the removed session: blank_node clears the leaf before       *)
(* remove_member computes the recipients, process_remove clears it too,    *)
(* and no later step writes the key back.                                  *)
THEOREM RemovedMembersAreOut == GroupSpec => []RemovedGetsNothing
<1>1. Invariant => RemovedGetsNothing
  <2> SUFFICES ASSUME Invariant, NEW u \in Joined, NEW c \in commits,
                      RemovedBefore(c, session[u].position),
                      NEW level \in DOMAIN c.path, NEW e \in c.path[level].seeds,
                      e.key = session[u].keypair
               PROVE  FALSE
    BY DEF RemovedGetsNothing
  <2>1. SessionKeys(u, session[u]) /\ CommitKeys(c)
    BY DEF Invariant, KeysInv
  <2>2. session[u].keypair = <<0, PositionOf(u)>> /\ session[u].position = PositionOf(u)
    <3>1. SeedKey(session[u].keypair)
      BY <2>1 DEF CommitKeys
    <3> QED BY <2>1, <3>1, KeyFacts DEF SessionKeys
  <2>3. Seals(c, <<0, PositionOf(u)>>)
    BY <2>2 DEF Seals
  <2>4. PICK r \in commits :
           /\ r.kind = "remove" /\ r.at = PositionOf(u)
           /\ r = c \/ \E i \in 1..Len(c.transcript) : c.transcript[i] = r.round
    BY <2>2 DEF RemovedBefore
  <2>5. \/ GoneAfter(c.transcript, c.committer, PositionOf(u))
        \/ c.kind = "remove" /\ c.at = PositionOf(u)
    BY <2>4 DEF GoneAfter, In
  <2> QED BY <2>1, <2>3, <2>5 DEF CommitKeys
<1> QED BY <1>1, InvariantHolds, PTL

(* Members with one history, none of whose operations failed half way,     *)
(* hold trees of one depth and one count: add_member and process_add grow  *)
(* and count alike.                                                        *)
THEOREM TreesAgree == GroupSpec => []GeometryAgrees
<1>1. Invariant => GeometryAgrees
  <2> SUFFICES ASSUME Invariant, NEW u \in Joined \ failed, NEW v \in Joined \ failed,
                      session[u].transcript = session[v].transcript
               PROVE  /\ session[u].view.tree_depth = session[v].view.tree_depth
                      /\ session[u].view.member_count = session[v].view.member_count
    BY DEF GeometryAgrees
  <2> PICK t : t = session[u].transcript
    OBVIOUS
  <2>1. PICK g : Trace(commits, g, t) /\ g[Len(t)] = ShapeOf(session[u].view)
    BY DEF Invariant, GeometryInv, SessionGeometry
  <2>2. PICK h : Trace(commits, h, t) /\ h[Len(t)] = ShapeOf(session[v].view)
    BY DEF Invariant, GeometryInv, SessionGeometry
  <2>3. Len(t) \in Nat /\ \A c, d \in commits : c.round = d.round => c = d
    <3>1. t \in Seq(Round)
      BY JoinedKeys
    <3>2. Len(t) \in Nat
      BY <3>1, LenProperties
    <3> QED BY <3>2 DEF Invariant, KeysInv
  <2>4. ShapeOf(session[u].view) = ShapeOf(session[v].view)
    BY <2>1, <2>2, <2>3, TraceUnique
  <2> QED BY <2>4 DEF ShapeOf
<1> QED BY <1>1, InvariantHolds, PTL

(* No commit made on top of another's commit seals a seed to a keypair the  *)
(* other's author held before: the path of the first overwrote the leaf    *)
(* that held the founder's key, and a rotated keypair is never announced.  *)
THEOREM ReplacedKeysStayOut == GroupSpec => []ReplacedKeysGetNothing
<1>1. Invariant => ReplacedKeysGetNothing
  <2> SUFFICES ASSUME Invariant, NEW c \in commits, NEW d \in commits,
                      c.round \in History(d),
                      c.committer \notin failed \cup {d.committer}, d.committer \notin failed,
                      NEW level \in DOMAIN d.path, NEW e \in d.path[level].seeds,
                      e.key \in HeldBefore(c)
               PROVE  FALSE
    BY DEF ReplacedKeysGetNothing
  <2>1. CommitKeys(c) /\ CommitKeys(d)
    BY DEF Invariant, KeysInv
  <2>2. In(d.transcript, c.round)
    BY DEF History, In
  <2>3. GoneAfter(d.transcript, d.committer, PositionOf(c.committer))
    BY <2>2 DEF GoneAfter
  <2>4. ~ Seals(d, <<0, PositionOf(c.committer)>>)
    BY <2>1, <2>3 DEF CommitKeys
  <2>5. e.key # <<0, c.leaf>>
    BY <2>1, <2>4 DEF CommitKeys, Seals
  <2>6. ASSUME NEW b \in commits PROVE e.key # <<b.round.root, ROTATED>>
    <3>1. b.round.root \in Nat \ {0}
      BY DEF Invariant, IndInv, CommitSound
    <3>2. SeedKey(e.key)
      BY <2>1 DEF CommitKeys
    <3> QED BY <3>1, <3>2, KeyFacts
  <2> QED BY <2>5, <2>6 DEF HeldBefore
<1> QED BY <1>1, InvariantHolds, PTL

(* Whoever took a commit holds no founder's key for its committer from     *)
(* then on, so nothing it commits later is sealed to that key; and of two  *)
(* commits that each other's committers took, one was made after the other.*)
LEMMA LaterDoesNotSeal ==
    ASSUME Invariant, NEW u \in Joined \ failed, NEW v \in Joined \ failed, u # v,
           NEW t, Prefixes(t), NEW c \in commits, c.committer = v, NEW d \in commits, d.committer = u,
           NEW i \in 1..Len(t), t[i] = c.round, NEW j \in 1..Len(t), t[j] = d.round, i < j
    PROVE  ~ Seals(d, <<0, PositionOf(v)>>)
<1>1. Len(d.transcript) = j - 1 /\ \A k \in 1..(j - 1) : d.transcript[k] = t[k]
  BY DEF Prefixes
<1>2. i \in 1..(j - 1)
  OBVIOUS
<1>3. In(d.transcript, c.round)
  BY <1>1, <1>2 DEF In
<1>4. GoneAfter(d.transcript, u, PositionOf(v))
  BY <1>3 DEF GoneAfter
<1> QED BY <1>4 DEF Invariant, KeysInv, CommitKeys

(* So no two members ever take commits of each other.  create_update       *)
(* rotates to a keypair unrelated to the leaf key it announces, add_member *)
(* and remove_member keep the old one.  (A member whose own add failed     *)
(* half way writes the paths of others to the wrong nodes.)                *)
Took(u, v) ==
    \E c \in commits : c.committer = v /\ u # v /\ c.round \in Rounds(session[u])

CommitsFlowOneWay ==
    \A u, v \in Joined \ failed : ~ (Took(u, v) /\ Took(v, u))

THEOREM OneDirection == GroupSpec => []CommitsFlowOneWay
<1>1. Invariant => CommitsFlowOneWay
  <2> SUFFICES ASSUME Invariant, NEW u \in Joined \ failed, NEW v \in Joined \ failed,
                      Took(u, v), Took(v, u)
               PROVE  FALSE
    BY DEF CommitsFlowOneWay
  <2> PICK t : t = session[u].transcript
    OBVIOUS
  <2>1. PICK c \in commits : c.committer = v /\ u # v /\ c.round \in Rounds(session[u])
    BY DEF Took
  <2>2. PICK d \in commits : d.committer = u /\ d.round \in Rounds(session[v])
    BY DEF Took
  <2>3. SessionKeys(u, session[u]) /\ SessionKeys(v, session[v]) /\ CommitKeys(d)
    BY DEF Invariant, KeysInv
  <2>4. Seals(c, <<0, PositionOf(u)>>) /\ Seals(d, <<0, PositionOf(v)>>)
    BY <2>1, <2>2, <2>3 DEF SessionKeys, Rounds, In
  <2>5. PICK i \in 1..Len(t) : t[i] = c.round
    BY <2>1 DEF Rounds
  <2>6. PICK j \in 1..Len(t) : t[j] = d.round
    BY <2>2, <2>3 DEF CommitKeys, In
  <2>7. i # j
    BY <2>1, <2>2, <2>5, <2>6 DEF Invariant, KeysInv
  <2>8. Prefixes(t)
    BY <2>3 DEF SessionKeys
  <2>9. CASE i < j
    BY <2>1, <2>2, <2>4, <2>5, <2>6, <2>8, <2>9, LaterDoesNotSeal
  <2>10. CASE j < i
    BY <2>1, <2>2, <2>4, <2>5, <2>6, <2>8, <2>10, LaterDoesNotSeal
  <2> QED BY <2>7, <2>9, <2>10
<1> QED BY <1>1, InvariantHolds, PTL
-----------------------------------------------------------------------------
(* Types and limits.  Trees grow by one level, and only after the depth    *)
(* for the new count was found within its limit; the count never falls     *)
(* below that of the founders, whose positions are therefore all in it;    *)
(* and an add announces a user and the position it was counted at.         *)
NodeTyped(n, state) ==
    /\ n.depth \in Nat /\ n.position \in Nat
    /\ state.key \in KeysInUse /\ state.unmerged \subseteq Nat
ViewTyped(view) ==
    /\ view.tree_depth \in 0..MAX_TREE_DEPTH
    /\ view.member_count \in Len(Founders)..MAX_GROUP_SIZE
    /\ \A n \in DOMAIN view.nodes : NodeTyped(n, view.nodes[n])
SessionTyped(s) == ViewTyped(s.view) /\ s.members \subseteq Users
CommitTyped(c) ==
    /\ c.tree_depth \in 0..MAX_TREE_DEPTH
    /\ c.kind = "add" => /\ c.at \in Nat /\ c.at >= Len(Founders)
                         /\ c.round.subject \in Users

TypeInv ==
    /\ \A u \in Joined : SessionTyped(session[u])
    /\ \A c \in commits : CommitTyped(c)
    /\ failed \subseteq Online

LEMMA Limits ==
    /\ Len(Founders) \in Nat /\ Len(Founders) >= 1
    /\ MAX_GROUP_SIZE \in Nat /\ Len(Founders) <= MAX_GROUP_SIZE
    /\ MAX_TREE_DEPTH \in Nat /\ Founding.depth \in 0..MAX_TREE_DEPTH
    /\ Founding.count = Len(Founders)
BY MembersAssumption, GroupLimitsAssumption DEF Founding

LEMMA FounderPlaces ==
    ASSUME NEW u \in FounderSet
    PROVE  PositionOf(u) \in 0..(Len(Founders) - 1)
<1>1. \E i \in 1..Len(Founders) : Founders[i] = u
  BY DEF FounderSet
<1> PICK i : i = CHOOSE k \in 1..Len(Founders) : Founders[k] = u
  OBVIOUS
<1>2. i \in 1..Len(Founders)
  BY <1>1
<1>3. PositionOf(u) = i - 1
  BY DEF PositionOf
<1> QED BY ONLY <1>2, <1>3, Limits

LEMMA KeysAreUsed ==
    /\ NoKey \in KeysInUse
    /\ \A n \in Nat, k \in Int : <<n, k>> \in KeysInUse
    /\ ROTATED \in Int
BY DEF KeysInUse, ROTATED

LEMMA NodesTyped ==
    ASSUME NEW view, ViewOK(view), ViewTyped(view), NEW nodes,
           \A n \in DOMAIN nodes : NodeTyped(n, nodes[n])
    PROVE  ViewTyped([view EXCEPT !.nodes = nodes])
<1> PICK v : v = [view EXCEPT !.nodes = nodes]
  OBVIOUS
<1>1. v.tree_depth = view.tree_depth /\ v.member_count = view.member_count /\ v.nodes = nodes
  BY ViewFacts
<1>2. \A n \in DOMAIN v.nodes : NodeTyped(n, v.nodes[n])
  BY <1>1
<1> QED BY <1>1, <1>2 DEF ViewTyped

LEMMA CountTyped ==
    ASSUME NEW view, ViewOK(view), ViewTyped(view), NEW count \in Len(Founders)..MAX_GROUP_SIZE
    PROVE  ViewTyped(set_member_count(view, count))
<1> PICK v : v = set_member_count(view, count)
  OBVIOUS
<1>1. v.tree_depth = view.tree_depth /\ v.member_count = count /\ v.nodes = view.nodes
  BY ViewFacts DEF set_member_count
<1> QED BY <1>1 DEF ViewTyped

(* The state of a node whose unmerged leaves are changed.                  *)
LEMMA StateTyped ==
    ASSUME NEW view, ViewOK(view), ViewTyped(view), NEW n \in DOMAIN view.nodes
    PROVE  /\ NodeTyped(n, view.nodes[n])
           /\ \A X \in SUBSET Nat : NodeTyped(n, [view.nodes[n] EXCEPT !.unmerged = X])
<1> PICK state : state = view.nodes[n]
  OBVIOUS
<1>1. NodeTyped(n, state) /\ state = [key |-> state.key, unmerged |-> state.unmerged]
  BY DEF ViewTyped, ViewOK, NodeOK
<1>2. ASSUME NEW X \in SUBSET Nat PROVE NodeTyped(n, [state EXCEPT !.unmerged = X])
  <2>1. [state EXCEPT !.unmerged = X].key = state.key
        /\ [state EXCEPT !.unmerged = X].unmerged = X
    BY <1>1
  <2> QED BY <1>1, <2>1 DEF NodeTyped
<1> QED BY <1>1, <1>2

LEMMA MarkTyped ==
    ASSUME NEW view, ViewOK(view), ViewTyped(view), NEW position \in Nat
    PROVE  ViewTyped(mark_member_as_unmerged(view, position))
<1> PICK nodes : nodes = [n \in DOMAIN view.nodes |->
        IF /\ n \in path_to_root(leaf(view.tree_depth, position))
           /\ is_blank(view, n)
        THEN [view.nodes[n] EXCEPT !.unmerged = @ \cup {position}]
        ELSE view.nodes[n]]
  OBVIOUS
<1>1. ASSUME NEW n \in DOMAIN nodes PROVE NodeTyped(n, nodes[n])
  <2> PICK unmerged : unmerged = view.nodes[n].unmerged \cup {position}
    OBVIOUS
  <2>1. nodes[n] = view.nodes[n] \/ nodes[n] = [view.nodes[n] EXCEPT !.unmerged = unmerged]
    OBVIOUS
  <2>2. NodeTyped(n, view.nodes[n]) /\ n \in DOMAIN view.nodes
    BY StateTyped
  <2>3. unmerged \in SUBSET Nat
    BY <2>2 DEF NodeTyped
  <2> QED BY <2>1, <2>2, <2>3, StateTyped
<1>2. mark_member_as_unmerged(view, position) = [view EXCEPT !.nodes = nodes]
  BY DEF mark_member_as_unmerged
<1> QED BY ONLY <1>1, <1>2, ViewOK(view), ViewTyped(view), NodesTyped

LEMMA ClearTyped ==
    ASSUME NEW view, ViewOK(view), ViewTyped(view), NEW position, NEW other
    PROVE  ViewTyped(clear_unmerged_on_path(view, position, other))
<1> PICK nodes : nodes = [n \in DOMAIN view.nodes |->
        IF n \in path_to_root(leaf(view.tree_depth, position))
        THEN [view.nodes[n] EXCEPT !.unmerged = @ \ {other}]
        ELSE view.nodes[n]]
  OBVIOUS
<1>1. ASSUME NEW n \in DOMAIN nodes PROVE NodeTyped(n, nodes[n])
  <2> PICK unmerged : unmerged = view.nodes[n].unmerged \ {other}
    OBVIOUS
  <2>1. nodes[n] = view.nodes[n] \/ nodes[n] = [view.nodes[n] EXCEPT !.unmerged = unmerged]
    OBVIOUS
  <2>2. NodeTyped(n, view.nodes[n]) /\ n \in DOMAIN view.nodes
    BY StateTyped
  <2>3. unmerged \in SUBSET Nat
    BY <2>2 DEF NodeTyped
  <2> QED BY <2>1, <2>2, <2>3, StateTyped
<1>2. clear_unmerged_on_path(view, position, other) = [view EXCEPT !.nodes = nodes]
  BY DEF clear_unmerged_on_path
<1> QED BY ONLY <1>1, <1>2, ViewOK(view), ViewTyped(view), NodesTyped

LEMMA BlankTyped ==
    ASSUME NEW view, ViewOK(view), ViewTyped(view), NEW l
    PROVE  ViewTyped(blank_node(view, l))
<1>1. CASE contains(view, l)
  <2> PICK nodes : nodes = [view.nodes EXCEPT ![l] = blank]
    OBVIOUS
  <2>1. ASSUME NEW n \in DOMAIN nodes PROVE NodeTyped(n, nodes[n])
    <3>1. n \in DOMAIN view.nodes /\ (nodes[n] = blank \/ nodes[n] = view.nodes[n])
      BY DEF ViewOK, IsFcn
    <3>2. NodeTyped(n, view.nodes[n])
      BY <3>1, StateTyped
    <3>3. blank.key = NoKey /\ blank.unmerged = {}
      BY DEF blank
    <3> QED BY <3>1, <3>2, <3>3, KeysAreUsed DEF NodeTyped
  <2>2. blank_node(view, l) = [view EXCEPT !.nodes = nodes]
    BY <1>1 DEF blank_node
  <2> QED BY ONLY <2>1, <2>2, ViewOK(view), ViewTyped(view), NodesTyped
<1>2. CASE ~ contains(view, l)
  BY <1>2 DEF blank_node
<1> QED BY <1>1, <1>2

(* Growth within the limits on the new count.                              *)
LEMMA GrowTyped ==
    ASSUME NEW view, ViewOK(view), ViewTyped(view), NEW count \in 1..MAX_GROUP_SIZE,
           depth_for_members(count) <= MAX_TREE_DEPTH
    PROVE  ViewTyped(grow_if_needed(view, count))
<1>1. depth_for_members(count) \in Nat
  BY PowersAssumption
<1>2. CASE depth_for_members(count) > view.tree_depth
  <2> PICK v : v = grow_tree(view)
    OBVIOUS
  <2> PICK nodes : nodes = [n \in {[m EXCEPT !.depth = @ + 1] : m \in DOMAIN view.nodes} |->
                             view.nodes[[n EXCEPT !.depth = @ - 1]]]
    OBVIOUS
  <2>1. v.tree_depth = view.tree_depth + 1 /\ v.member_count = view.member_count
        /\ v.nodes = nodes
    <3>1. v = [view EXCEPT !.tree_depth = view.tree_depth + 1, !.nodes = nodes]
      BY DEF grow_tree
    <3> QED BY <3>1, ViewFacts
  <2>2. ASSUME NEW n \in DOMAIN nodes PROVE NodeTyped(n, nodes[n])
    <3>1. PICK m \in DOMAIN view.nodes : n = [m EXCEPT !.depth = @ + 1]
      OBVIOUS
    <3>2. NodeTyped(m, view.nodes[m])
      BY StateTyped
    <3>3. m = leaf(m.depth, m.position) /\ m.depth \in Int
      BY DEF ViewOK, NodeOK
    <3> PICK d, p : d = m.depth /\ p = m.position
      OBVIOUS
    <3>4. n = leaf(d + 1, p)
      <4>1. d \in Int /\ m = leaf(d, p) /\ n = [m EXCEPT !.depth = @ + 1]
        BY <3>1, <3>3
      <4>2. [leaf(d, p) EXCEPT !.depth = @ + 1] = leaf(d + 1, p)
        BY ONLY <4>1, LeafFacts
      <4> QED BY ONLY <4>1, <4>2
    <3>5. n.depth = d + 1 /\ n.position = p /\ [n EXCEPT !.depth = @ - 1] = m
      <4> PICK e \in Int : e = d + 1
        BY <3>3
      <4>1. /\ leaf(e, p).depth = e /\ leaf(e, p).position = p
            /\ [leaf(e, p) EXCEPT !.depth = @ - 1] = leaf(e - 1, p)
        BY ONLY e \in Int, LeafFacts
      <4>2. e - 1 = d
        BY <3>3
      <4>3. leaf(e - 1, p) = m
        BY <3>3, <4>2
      <4> QED BY <3>4, <4>1, <4>3
    <3>6. nodes[n] = view.nodes[m]
      BY <3>5
    <3> QED BY <3>2, <3>5, <3>6 DEF NodeTyped
  <2>3. view.tree_depth + 1 \in 0..MAX_TREE_DEPTH
    BY <1>1, <1>2, Limits DEF ViewTyped
  <2>4. \A n \in DOMAIN v.nodes : NodeTyped(n, v.nodes[n])
    BY ONLY <2>1, <2>2
  <2>5. ViewTyped(v)
    BY <2>1, <2>3, <2>4 DEF ViewTyped
  <2> QED BY <1>2, <2>5 DEF grow_if_needed
<1>3. CASE ~ (depth_for_members(count) > view.tree_depth)
  BY <1>3 DEF grow_if_needed
<1> QED BY <1>2, <1>3

(* The nodes of a path, in a tree of any admitted depth.                   *)
LEMMA PathNodeTyped ==
    ASSUME NEW depth \in 0..MAX_TREE_DEPTH, NEW position \in Nat, NEW level \in 0..depth
    PROVE  LET n == PathNode(leaf(depth, position), level)
           IN  n.depth = depth - level /\ n.depth \in Nat /\ n.position \in Nat
<1>1. MAX_TREE_DEPTH \in Nat /\ depth \in Nat /\ level \in 0..MAX_TREE_DEPTH
  BY Limits
<1>2. depth - (depth - level) = level /\ depth - level \in Nat
  BY <1>1
<1>3. 2^level \in Nat \ {0}
  BY <1>1, PowersAssumption
<1>4. position \div 2^level \in Nat
  BY ONLY <1>3, position \in Nat
<1>5. leaf(depth, position).depth = depth /\ leaf(depth, position).position = position
  BY DEF leaf
<1>6. PathNode(leaf(depth, position), level) =
        [depth |-> depth - level, position |-> position \div 2^level]
  BY <1>2, <1>5 DEF PathNode, AncestorAt
<1> QED BY ONLY <1>2, <1>4, <1>6

LEMMA WriteTyped ==
    ASSUME NEW view, ViewOK(view), ViewTyped(view), NEW c, c.tree_depth \in 0..MAX_TREE_DEPTH,
           DOMAIN c.path = 0..c.tree_depth, c.round.root \in Nat, c.leaf \in Nat
    PROVE  ViewTyped(update_tree_from_path_updates(view, c))
<1> PICK W : W = {node_index(c, level) : level \in DOMAIN c.path}
  OBVIOUS
<1> PICK states : states = [n \in W |-> populated(<<c.round.root, c.tree_depth - n.depth>>)]
  OBVIOUS
<1> PICK nodes : nodes = [n \in DOMAIN view.nodes \cup DOMAIN states |->
                             IF n \in DOMAIN states THEN states[n] ELSE view.nodes[n]]
  OBVIOUS
<1>1. ASSUME NEW n \in W
      PROVE  n.depth \in Nat /\ n.position \in Nat /\ c.tree_depth - n.depth \in Int
  <2>1. PICK level \in 0..c.tree_depth : n = PathNode(leaf(c.tree_depth, c.leaf), level)
    BY DEF node_index
  <2>2. n.depth \in Nat /\ n.position \in Nat
    BY <2>1, PathNodeTyped
  <2>3. c.tree_depth \in Int
    OBVIOUS
  <2> QED BY ONLY <2>2, <2>3
<1>2. ASSUME NEW n \in DOMAIN nodes PROVE NodeTyped(n, nodes[n])
  <2>1. CASE n \in W
    <3> PICK key : key = <<c.round.root, c.tree_depth - n.depth>>
      OBVIOUS
    <3>1. nodes[n] = [key |-> key, unmerged |-> {}]
      BY <2>1 DEF populated
    <3>2. key \in KeysInUse
      BY <1>1, <2>1, KeysAreUsed
    <3>3. nodes[n].key = key /\ nodes[n].unmerged = {}
      BY ONLY <3>1
    <3> QED BY <1>1, <2>1, <3>2, <3>3 DEF NodeTyped
  <2>2. CASE n \notin W
    <3>1. n \in DOMAIN view.nodes /\ nodes[n] = view.nodes[n]
      BY <2>2
    <3> QED BY <3>1, StateTyped
  <2> QED BY <2>1, <2>2
<1>3. update_tree_from_path_updates(view, c) = [view EXCEPT !.nodes = nodes]
  BY DEF update_tree_from_path_updates, insert
<1> QED BY ONLY <1>2, <1>3, ViewOK(view), ViewTyped(view), NodesTyped

(* One session was written, by an operation, a commit or a failure.        *)
LEMMA TypedStep ==
    ASSUME IndInv, TypeInv, NEW u \in Online, NEW s2, Shape(s2), SessionTyped(s2),
           session' = [session EXCEPT ![u] = s2],
           \A c \in commits' : c \in commits \/ CommitTyped(c),
           failed' \subseteq failed \cup {u}
    PROVE  TypeInv'
<1>1. /\ session'[u] = s2
      /\ \A v \in Online \ {u} : session'[v] = session[v]
      /\ \A v \in Joined' : v = u \/ v \in Joined
  BY OneWritten
<1>2. ASSUME NEW v \in Joined' PROVE SessionTyped(session'[v])
  <2>1. CASE v = u
    BY <1>1, <2>1
  <2>2. CASE v # u
    BY <1>1, <2>2 DEF TypeInv, Joined
  <2> QED BY <2>1, <2>2
<1>3. \A c \in commits' : CommitTyped(c)
  BY DEF TypeInv
<1>4. failed' \subseteq Online
  BY DEF TypeInv
<1> QED BY ONLY <1>2, <1>3, <1>4 DEF TypeInv, SessionTyped

LEMMA JoinedTyped ==
    ASSUME Invariant, TypeInv, NEW u \in Joined
    PROVE  /\ u \in Online /\ SessionTyped(session[u]) /\ ViewTyped(session[u].view)
           /\ Shape(session[u]) /\ ViewOK(session[u].view) /\ fresh \in Nat /\ IndInv
BY JoinedKeys DEF TypeInv, Joined, SessionTyped, Invariant

(* What was published or failed half way leaves both as they should be.    *)
LEMMA PublishTyped ==
    ASSUME IndInv, TypeInv, NEW u \in Online, NEW s2, Shape(s2), SessionTyped(s2), NEW c,
           CommitTyped(c), Publish(u, s2, c)
    PROVE  TypeInv'
<1>1. /\ session' = [session EXCEPT ![u] = s2] /\ commits' = commits \cup {c}
      /\ failed' = failed
  BY DEF Publish
<1> QED BY <1>1, TypedStep

LEMMA FailTyped ==
    ASSUME IndInv, TypeInv, NEW u \in Online, NEW s2, Shape(s2), SessionTyped(s2), Fail(u, s2)
    PROVE  TypeInv'
<1>1. /\ session' = [session EXCEPT ![u] = s2] /\ commits' = commits
      /\ failed' = failed \cup {u}
  BY DEF Fail
<1> QED BY <1>1, TypedStep

LEMMA CommitIsTyped ==
    ASSUME NEW u, NEW s, ViewTyped(s.view), NEW kind, NEW subject, NEW at, NEW path,
           kind = "add" => at \in Nat /\ at >= Len(Founders) /\ subject \in Users
    PROVE  CommitTyped(commit(u, s, kind, subject, at, path))
<1> PICK c : c = commit(u, s, kind, subject, at, path)
  OBVIOUS
<1>1. c.tree_depth = s.view.tree_depth /\ c.kind = kind /\ c.at = at /\ c.round.subject = subject
  BY DEF commit
<1> QED BY <1>1 DEF CommitTyped, ViewTyped

LEMMA CreateUpdateTyped ==
    ASSUME Invariant, TypeInv, NEW u \in Online, create_update(u)
    PROVE  TypeInv'
<1> PICK s : s = session[u]
  OBVIOUS
<1> PICK path : path = build_path(s, [v \in our_path(s) |-> UpdateRecipients(s.view, v)])
  OBVIOUS
<1> PICK c : c = commit(u, s, "update", NoUser, NoLeaf, path)
  OBVIOUS
<1> PICK rotated : rotated = rotate_session_keypair(s, fresh)
  OBVIOUS
<1> PICK s2 : s2 = advance_epoch(rotated, fresh, c.round)
  OBVIOUS
<1>1. u \in Joined /\ (Publish(u, s2, c) \/ Fail(u, rotated))
  BY DEF create_update
<1>2. SessionTyped(s) /\ ViewTyped(s.view) /\ Shape(s) /\ IndInv
  BY <1>1, JoinedTyped
<1>3. Shape(rotated) /\ rotated.view = s.view /\ rotated.members = s.members
  BY <1>2, SetKeypair, SetterKeys
<1>4. Shape(s2) /\ s2.view = s.view /\ s2.members = s.members
  BY <1>3, SetEpoch, SetterKeys
<1>5. SessionTyped(s2) /\ SessionTyped(rotated)
  BY <1>2, <1>3, <1>4 DEF SessionTyped
<1>6. CommitTyped(c)
  BY <1>2, CommitIsTyped
<1> QED BY <1>1, <1>2, <1>3, <1>4, <1>5, <1>6, PublishTyped, FailTyped

LEMMA RemoveMemberTyped ==
    ASSUME Invariant, TypeInv, NEW u \in Joined, NEW member \in Roster(session[u]),
           remove_member(u, member)
    PROVE  TypeInv'
<1>s. PICK s : s = session[u]
  OBVIOUS
<1>l. PICK l : l = leaf(s.view.tree_depth, member.position)
  OBVIOUS
<1>view. PICK view : view = blank_node(s.view, l)
  OBVIOUS
<1>blanked. PICK blanked : blanked = [s EXCEPT !.view = view]
  OBVIOUS
<1>recipients. PICK recipients : recipients = [v \in our_path(blanked) |->
        RemoveRecipients(blanked.view, v, l)]
  OBVIOUS
<1>c. PICK c : c = commit(u, blanked, "remove", member.user, member.position,
                        build_path(blanked, recipients))
  OBVIOUS
<1>s2. PICK s2 : s2 = advance_epoch(blanked, fresh, c.round)
  OBVIOUS
<1>1. \/ Publish(u, s2, c) /\ UNCHANGED welcomes
      \/ Fail(u, blanked)
  BY ONLY remove_member(u, member), <1>s, <1>l, <1>view, <1>blanked, <1>recipients, <1>c, <1>s2
     DEF remove_member
<1>2. u \in Online /\ SessionTyped(s) /\ ViewTyped(s.view) /\ ViewOK(s.view) /\ Shape(s) /\ IndInv
  BY <1>s, JoinedTyped
<1>3. ViewTyped(view)
  BY <1>2, <1>view, BlankTyped
<1>4. Shape(blanked) /\ blanked.view = view /\ blanked.members = s.members
  BY <1>2, <1>blanked, SetView
<1>5. Shape(s2) /\ s2.view = view /\ s2.members = s.members
  BY <1>4, <1>s2, SetEpoch, SetterKeys
<1>6. SessionTyped(s2) /\ SessionTyped(blanked)
  BY <1>2, <1>3, <1>4, <1>5 DEF SessionTyped
<1>7. CommitTyped(c)
  <2>1. ViewTyped(blanked.view) /\ "remove" # "add"
    BY <1>3, <1>4
  <2> QED BY ONLY <1>c, <2>1, CommitIsTyped
<1> QED BY <1>1, <1>2, <1>4, <1>5, <1>6, <1>7, PublishTyped, FailTyped

(* add_member: the count is checked before the growth that it asks for.    *)
LEMMA AddMemberTyped ==
    ASSUME Invariant, TypeInv, NEW u \in Online, NEW new \in Users, add_member(u, new)
    PROVE  TypeInv'
<1>s. PICK s : s = session[u]
  OBVIOUS
<1>position. PICK position : position = s.view.member_count
  OBVIOUS
<1>view. PICK view : view = grow_if_needed(s.view, position + 1)
  OBVIOUS
<1>grown. PICK grown : grown = [s EXCEPT !.view = view]
  OBVIOUS
<1>l. PICK l : l = leaf(grown.view.tree_depth, position)
  OBVIOUS
<1>recipients. PICK recipients : recipients = [v \in our_path(grown) |->
        AddRecipients(grown.view, v, l, <<fresh, ONE_TIME>>)]
  OBVIOUS
<1>c. PICK c : c = commit(u, grown, "add", new, position, build_path(grown, recipients))
  OBVIOUS
<1>view2. PICK view2 : view2 = set_member_count(grown.view, position + 1)
  OBVIOUS
<1>counted. PICK counted : counted = [grown EXCEPT !.view = view2]
  OBVIOUS
<1>view3. PICK view3 : view3 = mark_member_as_unmerged(counted.view, position)
  OBVIOUS
<1>marked. PICK marked : marked = [counted EXCEPT !.view = view3]
  OBVIOUS
<1>advanced. PICK advanced : advanced = advance_epoch(marked, fresh, c.round)
  OBVIOUS
<1>s2. PICK s2 : s2 = insert_member(advanced, new)
  OBVIOUS
<1>1. /\ u \in Joined /\ check_group_growth_limits(position + 1)
      /\ \/ /\ Publish(u, s2, c)
            /\ welcomes' = welcomes \cup
                   {[to |-> new, position |-> position,
                     tree_depth |-> grown.view.tree_depth, member_count |-> position + 1,
                     aad |-> "cocoa-welcome-add"]}
         \/ Fail(u, grown)
         \/ Fail(u, counted)
  <2> DEFINE S == session[u]
             Position == S.view.member_count
             Grown == [S EXCEPT !.view = grow_if_needed(@, Position + 1)]
             Leaf == leaf(Grown.view.tree_depth, Position)
             Path == build_path(Grown, [v \in our_path(Grown) |->
                         AddRecipients(Grown.view, v, Leaf, <<fresh, ONE_TIME>>)])
             C == commit(u, Grown, "add", new, Position, Path)
             Counted == [Grown EXCEPT !.view = set_member_count(@, Position + 1)]
             Marked == [Counted EXCEPT !.view = mark_member_as_unmerged(@, Position)]
             S2 == insert_member(advance_epoch(Marked, fresh, C.round), new)
  <2>1. /\ u \in Joined /\ check_group_growth_limits(Position + 1)
        /\ \/ /\ Publish(u, S2, C)
              /\ welcomes' = welcomes \cup
                     {[to |-> new, position |-> Position,
                       tree_depth |-> Grown.view.tree_depth, member_count |-> Position + 1,
                       aad |-> "cocoa-welcome-add"]}
           \/ Fail(u, Grown)
           \/ Fail(u, Counted)
    BY DEF add_member
  <2>2. S = s /\ Position = position
    BY <1>s, <1>position
  <2> HIDE DEF S, Position
  <2>3. Grown = grown
    BY <1>view, <1>grown, <2>2
  <2> HIDE DEF Grown
  <2>4. Path = build_path(grown, recipients) /\ C = c
    BY <1>l, <1>recipients, <1>c, <2>2, <2>3
  <2>5. Counted = counted
    BY <1>view2, <1>counted, <2>2, <2>3
  <2> HIDE DEF Counted
  <2>6. Marked = marked
    BY <1>view3, <1>marked, <2>2, <2>5
  <2> HIDE DEF Marked, C
  <2>7. S2 = s2
    BY <1>advanced, <1>s2, <2>4, <2>6
  <2> HIDE DEF S2
  <2> QED BY <2>1, <2>2, <2>3, <2>4, <2>5, <2>7
<1>2. SessionTyped(s) /\ ViewTyped(s.view) /\ ViewOK(s.view) /\ Shape(s) /\ IndInv
  BY <1>1, <1>s, JoinedTyped
<1>3. /\ position \in Nat /\ position >= Len(Founders)
      /\ position + 1 \in 1..MAX_GROUP_SIZE
      /\ position + 1 \in Len(Founders)..MAX_GROUP_SIZE
      /\ depth_for_members(position + 1) <= MAX_TREE_DEPTH
  <2>1. position \in Len(Founders)..MAX_GROUP_SIZE
    BY <1>2, <1>position DEF ViewTyped
  <2>2. position + 1 <= MAX_GROUP_SIZE /\ depth_for_members(position + 1) <= MAX_TREE_DEPTH
    BY <1>1 DEF check_group_growth_limits, check_size_limits
  <2> QED BY ONLY <2>1, <2>2, Limits
<1>4. ViewTyped(view) /\ ViewOK(view)
  BY ONLY <1>2, <1>3, <1>view, GrowTyped, GrowIfNeeded
<1>5. Shape(grown) /\ grown.view = view /\ grown.members = s.members
  BY ONLY <1>2, <1>grown, SetView
<1>6. ViewTyped(view2) /\ ViewOK(view2)
  BY ONLY <1>3, <1>4, <1>5, <1>view2, CountTyped, SetMemberCount
<1>7. Shape(counted) /\ counted.view = view2 /\ counted.members = s.members
  BY ONLY <1>5, <1>counted, SetView
<1>8. ViewTyped(view3)
  BY ONLY <1>3, <1>6, <1>7, <1>view3, MarkTyped
<1>9. Shape(marked) /\ marked.view = view3 /\ marked.members = s.members
  BY ONLY <1>7, <1>marked, SetView
<1>10. Shape(advanced) /\ advanced.view = view3 /\ advanced.members = s.members
  BY ONLY <1>9, <1>advanced, SetEpoch, SetterKeys
<1>11. Shape(s2) /\ s2.view = view3 /\ s2.members = s.members \cup {new}
  BY ONLY <1>10, <1>s2, SetMembers, SetterKeys
<1>12. CommitTyped(c)
  <2>1. ViewTyped(grown.view) /\ new \in Users
    BY ONLY <1>4, <1>5, new \in Users
  <2> QED BY ONLY <1>3, <1>c, <2>1, CommitIsTyped
<1>13. SessionTyped(s2) /\ SessionTyped(grown) /\ SessionTyped(counted)
  BY <1>2, <1>4, <1>5, <1>6, <1>7, <1>8, <1>11 DEF SessionTyped
<1>14. CASE Publish(u, s2, c)
  BY ONLY <1>2, <1>11, <1>12, <1>13, <1>14, TypeInv, u \in Online, PublishTyped
<1>15. CASE Fail(u, grown)
  BY ONLY <1>2, <1>5, <1>13, <1>15, TypeInv, u \in Online, FailTyped
<1>16. CASE Fail(u, counted)
  BY ONLY <1>2, <1>7, <1>13, <1>16, TypeInv, u \in Online, FailTyped
<1> QED BY <1>1, <1>14, <1>15, <1>16

(* A path of another member writes nodes of the tree's kind.               *)
LEMMA TakenTyped ==
    ASSUME Invariant, TypeInv, NEW c \in commits, NEW view, ViewOK(view), ViewTyped(view)
    PROVE  LET v == update_tree_from_path_updates(view, c)
           IN  ViewOK(v) /\ ViewTyped(v)
<1>1. CommitKeys(c) /\ c.round.root \in Nat
  BY DEF Invariant, KeysInv, IndInv, CommitSound
<1>2. c.leaf \in Nat
  <2>1. c.leaf = PositionOf(c.committer) /\ c.committer \in FounderSet
    BY <1>1 DEF CommitKeys, Invariant, KeysInv, SessionKeys
  <2> QED BY <2>1, FounderPlaces, Limits
<1>3. CommitTyped(c)
  BY DEF TypeInv
<1>4. c.tree_depth \in 0..MAX_TREE_DEPTH /\ DOMAIN c.path = 0..c.tree_depth
  BY <1>1, <1>3 DEF CommitTyped, CommitKeys
<1>5. ViewTyped(update_tree_from_path_updates(view, c))
  BY ONLY ViewOK(view), ViewTyped(view), <1>1, <1>2, <1>4, WriteTyped
<1> QED BY <1>5, TakenPath

LEMMA ProcessTyped ==
    ASSUME IndInv, TypeInv, NEW u \in Online, NEW s2, Shape(s2), SessionTyped(s2),
           session' = [session EXCEPT ![u] = s2], UNCHANGED <<commits, welcomes, fresh, failed>>
    PROVE  TypeInv'
BY TypedStep

LEMMA ProcessUpdateTyped ==
    ASSUME Invariant, TypeInv, NEW u \in Online, NEW c \in commits, process_update(u, c)
    PROVE  TypeInv'
<1>s. PICK s : s = session[u]
  OBVIOUS
<1>written. PICK written : written = update_tree_from_path_updates(s.view, c)
  OBVIOUS
<1>view. PICK view : view = clear_unmerged_on_path(written, c.leaf, s.position)
  OBVIOUS
<1>viewed. PICK viewed : viewed = [s EXCEPT !.view = view]
  OBVIOUS
<1>s2. PICK s2 : s2 = advance_epoch(viewed, c.round.root, c.round)
  OBVIOUS
<1>1. /\ u \in Joined /\ session' = [session EXCEPT ![u] = s2]
      /\ UNCHANGED <<commits, welcomes, fresh, failed>>
  BY <1>s, <1>written, <1>view, <1>viewed, <1>s2 DEF process_update
<1>2. SessionTyped(s) /\ ViewTyped(s.view) /\ ViewOK(s.view) /\ Shape(s) /\ IndInv
  BY <1>1, <1>s, JoinedTyped
<1>3. ViewOK(written) /\ ViewTyped(written)
  BY <1>2, <1>written, TakenTyped
<1>4. ViewTyped(view)
  BY ONLY <1>3, <1>view, ClearTyped
<1>5. Shape(viewed) /\ viewed.view = view /\ viewed.members = s.members
  BY ONLY <1>2, <1>viewed, SetView
<1>6. Shape(s2) /\ s2.view = view /\ s2.members = s.members
  BY ONLY <1>5, <1>s2, SetEpoch, SetterKeys
<1>7. SessionTyped(s2)
  BY ONLY <1>2, <1>4, <1>6 DEF SessionTyped
<1> QED BY <1>1, <1>2, <1>6, <1>7, ProcessTyped

(* process_add: the limits are checked for the new count too.              *)
LEMMA ProcessAddTyped ==
    ASSUME Invariant, TypeInv, NEW u \in Online, NEW c \in commits, process_add(u, c)
    PROVE  TypeInv'
<1>s. PICK s : s = session[u]
  OBVIOUS
<1>grown. PICK grown : grown = grow_if_needed(s.view, c.at + 1)
  OBVIOUS
<1>counted. PICK counted : counted = set_member_count(grown, c.at + 1)
  OBVIOUS
<1>written. PICK written : written = update_tree_from_path_updates(counted, c)
  OBVIOUS
<1>view. PICK view : view = mark_member_as_unmerged(written, c.at)
  OBVIOUS
<1>viewed. PICK viewed : viewed = [s EXCEPT !.view = view]
  OBVIOUS
<1>advanced. PICK advanced : advanced = advance_epoch(viewed, c.round.root, c.round)
  OBVIOUS
<1>s2. PICK s2 : s2 = insert_member(advanced, c.round.subject)
  OBVIOUS
<1>1. /\ u \in Joined /\ c.kind = "add" /\ session' = [session EXCEPT ![u] = s2]
      /\ UNCHANGED <<commits, welcomes, fresh, failed>>
  BY <1>s, <1>grown, <1>counted, <1>written, <1>view, <1>viewed, <1>advanced, <1>s2
     DEF process_add, grow_for_add
<1>2. SessionTyped(s) /\ ViewTyped(s.view) /\ ViewOK(s.view) /\ Shape(s) /\ IndInv
  BY <1>1, <1>s, JoinedTyped
<1>3. c.at \in Nat /\ c.at >= Len(Founders) /\ c.round.subject \in Users
  BY <1>1 DEF TypeInv, CommitTyped
<1>4. /\ c.at + 1 \in 1..MAX_GROUP_SIZE /\ c.at + 1 \in Len(Founders)..MAX_GROUP_SIZE
      /\ depth_for_members(c.at + 1) <= MAX_TREE_DEPTH
  <2>1. c.at + 1 <= MAX_GROUP_SIZE /\ depth_for_members(c.at + 1) <= MAX_TREE_DEPTH
    BY DEF process_add, check_size_limits
  <2> QED BY ONLY <1>3, <2>1, Limits
<1>5. ViewTyped(grown) /\ ViewOK(grown)
  BY ONLY <1>2, <1>4, <1>grown, GrowTyped, GrowIfNeeded
<1>6. ViewTyped(counted) /\ ViewOK(counted)
  BY ONLY <1>4, <1>5, <1>counted, CountTyped, SetMemberCount
<1>7. ViewTyped(written) /\ ViewOK(written)
  BY <1>6, <1>written, TakenTyped
<1>8. ViewTyped(view)
  BY ONLY <1>3, <1>7, <1>view, MarkTyped
<1>9. Shape(viewed) /\ viewed.view = view /\ viewed.members = s.members
  BY ONLY <1>2, <1>viewed, SetView
<1>10. Shape(advanced) /\ advanced.view = view /\ advanced.members = s.members
  BY ONLY <1>9, <1>advanced, SetEpoch, SetterKeys
<1>11. Shape(s2) /\ s2.view = view /\ s2.members = s.members \cup {c.round.subject}
  BY ONLY <1>10, <1>s2, SetMembers, SetterKeys
<1>12. SessionTyped(s2)
  BY ONLY <1>2, <1>3, <1>8, <1>11 DEF SessionTyped
<1> QED BY <1>1, <1>2, <1>11, <1>12, ProcessTyped

LEMMA ProcessRemoveTyped ==
    ASSUME Invariant, TypeInv, NEW u \in Online, NEW c \in commits, process_remove(u, c)
    PROVE  TypeInv'
<1>s. PICK s : s = session[u]
  OBVIOUS
<1>scratch. PICK scratch : scratch = blank_node(s.view, leaf(s.view.tree_depth, c.at))
  OBVIOUS
<1>written. PICK written : written = update_tree_from_path_updates(scratch, c)
  OBVIOUS
<1>viewed. PICK viewed : viewed = [s EXCEPT !.view = written]
  OBVIOUS
<1>advanced. PICK advanced : advanced = advance_epoch(viewed, c.round.root, c.round)
  OBVIOUS
<1>s2. PICK s2 : s2 = remove_member_entry(advanced, c.round.subject)
  OBVIOUS
<1>1. /\ u \in Joined /\ session' = [session EXCEPT ![u] = s2]
      /\ UNCHANGED <<commits, welcomes, fresh, failed>>
  BY <1>s, <1>scratch, <1>written, <1>viewed, <1>advanced, <1>s2 DEF process_remove
<1>2. SessionTyped(s) /\ ViewTyped(s.view) /\ ViewOK(s.view) /\ Shape(s) /\ IndInv
  BY <1>1, <1>s, JoinedTyped
<1>3. ViewTyped(scratch) /\ ViewOK(scratch)
  BY ONLY <1>2, <1>scratch, BlankTyped, BlankLeaf
<1>4. ViewTyped(written)
  BY <1>3, <1>written, TakenTyped
<1>5. Shape(viewed) /\ viewed.view = written /\ viewed.members = s.members
  BY ONLY <1>2, <1>viewed, SetView
<1>6. Shape(advanced) /\ advanced.view = written /\ advanced.members = s.members
  BY ONLY <1>5, <1>advanced, SetEpoch, SetterKeys
<1>7. Shape(s2) /\ s2.view = written /\ s2.members = s.members \ {c.round.subject}
  BY ONLY <1>6, <1>s2, SetMembers, SetterKeys
<1>8. SessionTyped(s2)
  BY ONLY <1>2, <1>4, <1>7 DEF SessionTyped
<1> QED BY <1>1, <1>2, <1>7, <1>8, ProcessTyped

(* A new session has the founders' count and depth.                        *)
LEMMA NewTyped ==
    ASSUME NEW u \in FounderSet, NEW host, NEW s,
           s = new_session(u, PositionOf(u), Founding.depth, Founding.count, host)
    PROVE  Shape(s) /\ SessionTyped(s)
<1> PICK depth : depth = Founding.depth
  OBVIOUS
<1> PICK view : view = [tree_depth |-> depth, member_count |-> Founding.count,
                        nodes |-> HostNodes(host, depth)]
  OBVIOUS
<1>1. Shape(s) /\ s.view = view /\ s.members = {u}
  BY DEF new_session, Shape
<1>2. /\ view.tree_depth = depth /\ view.member_count = Founding.count
      /\ view.nodes = HostNodes(host, depth)
  OBVIOUS
<1>3. ASSUME NEW n \in DOMAIN view.nodes PROVE NodeTyped(n, view.nodes[n])
  <2>1. host # "empty" /\ n \in NodeIndex(depth)
    BY <1>2 DEF HostNodes, EmptyNodes
  <2>2. n.depth \in 0..depth /\ n.position \in 0..(2^depth - 1)
    BY <2>1 DEF NodeIndex
  <2>3. depth \in Nat /\ 2^depth \in Int
    BY Limits
  <2>4. n.depth \in Nat /\ n.position \in Nat
    BY ONLY <2>2, <2>3
  <2>5. view.nodes[n] = IF n.depth = depth THEN populated(<<0, n.position>>) ELSE blank
    BY <1>2, <2>1 DEF HostNodes
  <2> PICK key : key = <<0, n.position>>
    OBVIOUS
  <2>6. key \in KeysInUse /\ NoKey \in KeysInUse
    BY <2>4, KeysAreUsed
  <2>7. view.nodes[n] = [key |-> key, unmerged |-> {}] \/ view.nodes[n] = [key |-> NoKey, unmerged |-> {}]
    BY <2>5 DEF populated, blank
  <2>8. (view.nodes[n].key = key \/ view.nodes[n].key = NoKey) /\ view.nodes[n].unmerged = {}
    BY ONLY <2>7
  <2> QED BY ONLY <2>4, <2>6, <2>8 DEF NodeTyped
<1>4. ViewTyped(view)
  BY ONLY <1>2, <1>3, depth = Founding.depth, Limits DEF ViewTyped
<1>5. {u} \subseteq Users
  BY DEF Users
<1> QED BY ONLY <1>1, <1>4, <1>5 DEF SessionTyped

LEMMA WelcomeTyped ==
    ASSUME Invariant, TypeInv, NEW u \in Online, process_welcome(u)
    PROVE  TypeInv'
<1>1. PICK w \in welcomes, host \in HostViews :
        /\ w.to = u /\ w.aad = "group_id"
        /\ session' = [session EXCEPT ![u] =
                          new_session(u, w.position, w.tree_depth, w.member_count, host)]
        /\ UNCHANGED <<commits, welcomes, fresh, failed>>
  BY DEF process_welcome
<1> PICK s2 : s2 = new_session(u, w.position, w.tree_depth, w.member_count, host)
  OBVIOUS
<1>2. /\ u \in FounderSet /\ w.position = PositionOf(u)
      /\ w.tree_depth = Founding.depth /\ w.member_count = Founding.count
  BY <1>1 DEF Invariant, KeysInv
<1>3. Shape(s2) /\ SessionTyped(s2)
  BY <1>2, NewTyped
<1> QED BY <1>1, <1>3, ProcessTyped DEF Invariant

LEMMA TypeInit == ASSUME GroupInit PROVE TypeInv
<1> PICK host \in HostViews :
        /\ session = [u \in Online |->
              IF u = Creator THEN new_session(u, 0, Founding.depth, Founding.count, host)
                             ELSE NoSession]
        /\ commits = {} /\ failed = {}
  BY DEF GroupInit, Founding
<1>1. Creator \in FounderSet /\ Creator \in Online
  BY MembersAssumption DEF FounderSet, Creator
<1>2. PositionOf(Creator) = 0
  <2>1. 1 \in 1..Len(Founders) /\ Founders[1] = Creator
    BY Limits DEF Creator
  <2>2. \A i \in 1..Len(Founders) : Founders[i] = Creator => i = 1
    BY <2>1, MembersAssumption
  <2>3. (CHOOSE i \in 1..Len(Founders) : Founders[i] = Creator) = 1
    BY <2>1, <2>2
  <2> QED BY <2>3 DEF PositionOf
<1> PICK s : s = new_session(Creator, 0, Founding.depth, Founding.count, host)
  OBVIOUS
<1>3. SessionTyped(s)
  BY <1>1, <1>2, NewTyped
<1>4. Joined \subseteq {Creator} /\ session[Creator] = s
  BY <1>1 DEF Joined
<1> QED BY <1>3, <1>4 DEF TypeInv

LEMMA TypePreserved ==
    ASSUME Invariant, TypeInv, [GroupNext]_group_vars
    PROVE  TypeInv'
<1>1. CASE UNCHANGED group_vars
  BY <1>1 DEF group_vars, TypeInv, Joined
<1>2. ASSUME NEW u \in Online, process_welcome(u) PROVE TypeInv'
  BY <1>2, WelcomeTyped
<1>3. ASSUME NEW u \in Online, create_update(u) PROVE TypeInv'
  BY <1>3, CreateUpdateTyped
<1>4. ASSUME NEW u \in Online, NEW new \in Users, add_member(u, new) PROVE TypeInv'
  BY <1>4, AddMemberTyped
<1>5. ASSUME NEW u \in Joined, NEW member \in Roster(session[u]), remove_member(u, member)
      PROVE  TypeInv'
  BY <1>5, RemoveMemberTyped
<1>6. ASSUME NEW u \in Online, NEW c \in commits,
             process_update(u, c) \/ process_add(u, c) \/ process_remove(u, c)
      PROVE  TypeInv'
  BY <1>6, ProcessUpdateTyped, ProcessAddTyped, ProcessRemoveTyped
<1> QED BY <1>1, <1>2, <1>3, <1>4, <1>5, <1>6 DEF GroupNext

(* In every reachable state the tree depth and member count of a session   *)
(* are within their limits and its position below the count, its nodes     *)
(* have keys of known operations, and nobody but users is registered:      *)
(* add_member and process_add check the count before they grow the tree.   *)
THEOREM TypesHold == GroupSpec => []GroupTypeOK
<1>1. GroupSpec => [](Invariant /\ TypeInv)
  <2>1. GroupInit => TypeInv
    BY TypeInit
  <2>2. Invariant /\ TypeInv /\ [GroupNext]_group_vars => TypeInv'
    BY TypePreserved
  <2> QED BY <2>1, <2>2, InvariantHolds, PTL DEF GroupSpec
<1>2. Invariant /\ TypeInv => GroupTypeOK
  <2> SUFFICES ASSUME Invariant, TypeInv PROVE GroupTypeOK
    OBVIOUS
  <2>1. ASSUME NEW u \in Joined PROVE SessionOK(session[u])
    <3> PICK s : s = session[u]
      OBVIOUS
    <3>1. SessionTyped(s) /\ ViewTyped(s.view) /\ Shape(s) /\ ViewOK(s.view)
      BY JoinedTyped
    <3>2. SessionKeys(u, s) /\ Sound(s, fresh)
      BY DEF Invariant, KeysInv, IndInv
    <3>3. DOMAIN s = {"position", "view", "keypair", "secret", "transcript", "members"}
      BY <3>1 DEF Shape
    <3>4. s.position \in 0..(s.view.member_count - 1) /\ s.view.member_count \in 1..MAX_GROUP_SIZE
      <4>1. s.position \in 0..(Len(Founders) - 1)
        BY <3>2, FounderPlaces DEF SessionKeys
      <4>2. s.view.member_count \in Len(Founders)..MAX_GROUP_SIZE
        BY <3>1 DEF ViewTyped
      <4> QED BY ONLY <4>1, <4>2, Limits
    <3>5. ASSUME NEW n \in DOMAIN s.view.nodes
          PROVE  /\ n \in [depth : Nat, position : Nat]
                 /\ s.view.nodes[n].key \in KeysInUse
                 /\ s.view.nodes[n].unmerged \subseteq Nat
      <4>1. NodeTyped(n, s.view.nodes[n]) /\ n = leaf(n.depth, n.position)
        BY <3>1 DEF ViewTyped, ViewOK, NodeOK
      <4> QED BY ONLY <4>1 DEF NodeTyped, leaf
    <3>6. s.keypair \in KeysInUse
      <4>1. PositionOf(u) \in Int
        BY <3>2, FounderPlaces, Limits DEF SessionKeys
      <4> QED BY <3>2, <4>1, KeysAreUsed DEF SessionKeys
    <3>7. s.transcript \in Seq(Round) /\ s.secret \in Seq(Nat)
      <4>1. s.transcript \in Seq(Round) /\ s.secret = Roots(s.transcript)
        BY <3>2 DEF Sound
      <4> PICK t : t = s.transcript
        OBVIOUS
      <4>2. Len(t) \in Nat /\ \A i \in 1..Len(t) : t[i].root \in Nat
        <5>1. t \in Seq(Round)
          BY <4>1
        <5>2. Len(t) \in Nat /\ t \in [1..Len(t) -> Round]
          BY ONLY <5>1, LenProperties
        <5>3. \A r \in Round : r.root \in Nat
          BY DEF Round
        <5> QED BY ONLY <5>2, <5>3
      <4>3. Roots(t) \in [1..Len(t) -> Nat]
        BY <4>2 DEF Roots
      <4> QED BY <4>1, <4>2, <4>3, SeqDef
    <3>8. s.view.tree_depth \in 0..MAX_TREE_DEPTH /\ s.members \subseteq Users
      BY <3>1 DEF ViewTyped, SessionTyped
    <3> QED BY ONLY <3>3, <3>4, <3>5, <3>6, <3>7, <3>8, s = session[u] DEF SessionOK
  <2>2. \A u \in Online : session[u] = NoSession \/ SessionOK(session[u])
    BY <2>1 DEF Joined
  <2>3. /\ \A c \in commits : c.round \in Round /\ c.transcript \in Seq(Round)
        /\ fresh \in Nat /\ failed \subseteq Online
    BY DEF Invariant, IndInv, CommitSound, TypeInv
  <2> QED BY ONLY <2>2, <2>3 DEF GroupTypeOK
<1> QED BY <1>1, <1>2, PTL
=============================================================================
