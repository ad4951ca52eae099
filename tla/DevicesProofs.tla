--------------------------- MODULE DevicesProofs ---------------------------
(***************************************************************************)
(* Proofs about what devices and hosts keep and exchange.  First           *)
(* RetainedKeys, for any devices, messages, sequence numbers (equal ones   *)
(* included) and times, and any bound on a store; then WasmGroup, for any  *)
(* users, groups of any size and any number of blobs, messages, epochs and *)
(* commits; then CommitWire, for any founders that commit or receive, any  *)
(* places of their sessions and any number of commits and welcomes.        *)
(***************************************************************************)
EXTENDS RetainedKeys, WasmGroup, CommitWire, TLAPS, FiniteSetTheorems, FunctionTheorems,
        SequenceTheorems, WellFoundedInduction

-----------------------------------------------------------------------------
(* RetainedKeys.                                                           *)
AtMostOnce(ks, x) == \A i, j \in 1..Len(ks) : ks[i] = x /\ ks[j] = x => i = j
AtMostTwice(ks, x) == \A i, j, k \in 1..Len(ks) :
    ks[i] = x /\ ks[j] = x /\ ks[k] = x => i = j \/ i = k \/ j = k

(* The last MAX_RETAINED_KEYS entries are not older than s: what a merge   *)
(* may say of a store that it has not capped yet.                          *)
Newest(ks, s) ==
    /\ Len(ks) >= MAX_RETAINED_KEYS
    /\ \A i \in 1..Len(ks) : i > Len(ks) - MAX_RETAINED_KEYS => sequence[ks[i]] >= s
Keeps(ks, given) == \A m \in given : m \in Held(ks) \/ Newest(ks, sequence[m])

(* No message is in the store more than twice, nor twice unless the device *)
(* took it itself.                                                         *)
Within(ks, own) == \A x : AtMostTwice(ks, x) /\ (x \notin own => AtMostOnce(ks, x))

StoreOK(ks, given, own) ==
    /\ ks \in Seq(Messages) /\ Len(ks) <= MAX_RETAINED_KEYS
    /\ Sorted(ks) /\ Keeps(ks, given) /\ Within(ks, own)

(* The inductive invariant.  MostRecentUnlessDoubled is not: while a store *)
(* has a message twice it says nothing of what was dropped before.         *)
IInv ==
    /\ TypeOK
    /\ keys \in [Devices -> Seq(Messages)]
    /\ offered \in [Devices -> SUBSET Messages]
    /\ \A d \in Devices : StoreOK(keys[d], offered[d], taken[d])
-----------------------------------------------------------------------------
(* Stores.                                                                 *)
LEMMA StoreFacts ==
    ASSUME NEW ks \in Seq(Messages)
    PROVE  /\ Len(ks) \in Nat /\ DOMAIN ks = 1..Len(ks)
           /\ \A i \in 1..Len(ks) : /\ ks[i] \in Messages /\ sequence[ks[i]] \in Nat
                                    /\ ks[i] \in Held(ks)
           /\ \A x \in Held(ks) : \E i \in 1..Len(ks) : ks[i] = x
           /\ Held(ks) \subseteq Messages
<1>1. Len(ks) \in Nat /\ ks \in [1..Len(ks) -> Messages]
  BY LenProperties
<1> QED BY <1>1, StoreAssumption DEF Held

(* A place where m keeps a store sorted, as every search finds one.        *)
Fits(ks, p, m) ==
    /\ p \in 1..Len(ks) + 1
    /\ \A i \in 1..Len(ks) : i < p => sequence[ks[i]] <= sequence[m]
    /\ \A i \in 1..Len(ks) : i >= p => sequence[ks[i]] >= sequence[m]

LEMMA SearchFacts ==
    ASSUME NEW ks \in Seq(Messages), NEW m \in Messages, Sorted(ks),
           NEW p \in binary_search_by_key(ks, sequence[m])
    PROVE  Fits(ks, p, m)
<1> PICK s : s = sequence[m]
  OBVIOUS
<1> DEFINE hits == {i \in 1..Len(ks) : sequence[ks[i]] = s}
<1>1. CASE hits # {}
  <2>1. p \in 1..Len(ks) /\ sequence[ks[p]] = s
    BY <1>1 DEF binary_search_by_key
  <2>2. p \in Nat /\ s \in Nat /\ \A i \in 1..Len(ks) : sequence[ks[i]] \in Nat
    BY <2>1, StoreFacts
  <2> QED BY <2>1, <2>2, StoreFacts DEF Sorted, Fits
<1>2. CASE hits = {}
  <2>1. /\ p \in 1..Len(ks) + 1
        /\ \A i \in 1..p - 1 : sequence[ks[i]] < s
        /\ \A i \in p..Len(ks) : sequence[ks[i]] > s
    BY <1>2 DEF binary_search_by_key
  <2>2. Len(ks) \in Nat /\ \A i \in 1..Len(ks) : sequence[ks[i]] \in Nat
    BY StoreFacts
  <2> QED BY <2>1, <2>2, StoreAssumption DEF Fits
<1> QED BY <1>1, <1>2

LEMMA InsertFacts ==
    ASSUME NEW ks \in Seq(Messages), NEW m \in Messages, Sorted(ks),
           NEW p, Fits(ks, p, m)
    PROVE  LET r == InsertKey(ks, p, m)
           IN  /\ r \in Seq(Messages) /\ Len(r) = Len(ks) + 1 /\ p \in 1..Len(r)
               /\ \A i \in 1..Len(r) :
                     r[i] = IF i < p THEN ks[i] ELSE IF i = p THEN m ELSE ks[i - 1]
               /\ Sorted(r)
               /\ Held(r) = Held(ks) \cup {m}
<1> DEFINE r == InsertKey(ks, p, m)
<1>1. sequence[m] \in Nat
  BY StoreAssumption
<1>2. /\ Len(ks) \in Nat /\ p \in 1..Len(ks) + 1
      /\ \A i \in 1..Len(ks) : i < p => sequence[ks[i]] <= sequence[m]
      /\ \A i \in 1..Len(ks) : i >= p => sequence[ks[i]] >= sequence[m]
  BY StoreFacts DEF Fits
<1>3. \A i \in 1..Len(ks) : ks[i] \in Messages /\ sequence[ks[i]] \in Nat /\ ks[i] \in Held(ks)
  BY StoreFacts
<1>4. r = [i \in 1..Len(ks) + 1 |->
             IF i < p THEN ks[i] ELSE IF i = p THEN m ELSE ks[i - 1]]
  BY DEF InsertKey
<1>5. r \in [1..Len(ks) + 1 -> Messages]
  <2>1. \A i \in 1..Len(ks) + 1 :
           (IF i < p THEN ks[i] ELSE IF i = p THEN m ELSE ks[i - 1]) \in Messages
    <3> TAKE i \in 1..Len(ks) + 1
    <3>1. CASE i < p
      BY <1>2, <1>3, <3>1
    <3>2. CASE i = p
      BY <3>2
    <3>3. CASE i > p
      <4>1. i - 1 \in 1..Len(ks)
        BY <1>2, <3>3
      <4> QED BY <1>2, <1>3, <3>3, <4>1
    <3> QED BY <1>2, <3>1, <3>2, <3>3
  <2> QED BY <1>4, <2>1
<1>6. r \in Seq(Messages) /\ Len(r) = Len(ks) + 1
  BY <1>2, <1>5, SeqDef, LenProperties
<1>7. \A i \in 1..Len(r) : r[i] = IF i < p THEN ks[i] ELSE IF i = p THEN m ELSE ks[i - 1]
  BY <1>4, <1>6
<1> HIDE DEF r
<1>8. Sorted(r)
  <2> SUFFICES ASSUME NEW i \in 1..Len(r), NEW j \in 1..Len(r), i < j
               PROVE  sequence[r[i]] <= sequence[r[j]]
    BY DEF Sorted
  <2>1. CASE j < p
    <3>1. Len(ks) \in Nat /\ p \in Nat /\ p <= Len(ks) + 1
      BY <1>2
    <3>2. i < p /\ i \in 1..Len(ks) /\ j \in 1..Len(ks)
      BY ONLY <1>6, <2>1, <3>1, i < j, i \in 1..Len(r), j \in 1..Len(r)
    <3>3. r[i] = ks[i] /\ r[j] = ks[j]
      BY ONLY <1>7, <2>1, <3>2, i \in 1..Len(r), j \in 1..Len(r)
    <3>4. sequence[ks[i]] <= sequence[ks[j]]
      BY ONLY <3>2, i < j, Sorted(ks) DEF Sorted
    <3> QED BY ONLY <3>3, <3>4
  <2>2. CASE j = p
    <3>1. Len(ks) \in Nat /\ p \in Nat /\ p <= Len(ks) + 1
      BY <1>2
    <3>2. i < p /\ i \in 1..Len(ks)
      BY ONLY <1>6, <2>2, <3>1, i < j, i \in 1..Len(r), j \in 1..Len(r)
    <3>3. r[i] = ks[i] /\ r[j] = m
      BY ONLY <1>7, <2>2, <3>1, <3>2, i \in 1..Len(r), j \in 1..Len(r)
    <3>4. sequence[ks[i]] <= sequence[m]
      BY ONLY <1>2, <3>2
    <3> QED BY ONLY <3>3, <3>4
  <2>3. CASE j > p
    <3>1. r[j] = ks[j - 1] /\ j - 1 \in 1..Len(ks) /\ j - 1 >= p
      <4>1. /\ p \in Nat /\ j \in Nat /\ Len(ks) \in Nat /\ 1 <= p /\ j <= Len(ks) + 1
            /\ j \in 1..Len(r)
        BY <1>2, <1>6
      <4>2. r[j] = ks[j - 1]
        BY ONLY <1>7, <2>3, <4>1
      <4>3. j - 1 \in 1..Len(ks) /\ j - 1 >= p
        BY ONLY <2>3, <4>1
      <4> QED BY <4>2, <4>3
    <3>2. CASE i < p
      <4>1. i \in 1..Len(ks) /\ r[i] = ks[i]
        BY <1>2, <1>6, <1>7, <3>2
      <4>2. /\ sequence[ks[i]] <= sequence[m] /\ sequence[m] <= sequence[ks[j - 1]]
            /\ sequence[ks[i]] \in Nat /\ sequence[ks[j - 1]] \in Nat
        BY <1>1, <1>2, <1>3, <3>1, <3>2, <4>1
      <4> QED BY <1>1, <3>1, <4>1, <4>2
    <3>3. CASE i = p
      BY <1>2, <1>6, <1>7, <3>1, <3>3
    <3>4. CASE i > p
      <4>1. r[i] = ks[i - 1] /\ i - 1 \in 1..Len(ks) /\ i - 1 < j - 1
        BY <1>2, <1>6, <1>7, <3>4
      <4> QED BY <3>1, <4>1 DEF Sorted
    <3> QED BY <1>2, <3>2, <3>3, <3>4
  <2> QED BY <1>2, <2>1, <2>2, <2>3
<1>9. Held(r) = Held(ks) \cup {m}
  <2>1. ASSUME NEW x \in Held(r) PROVE x \in Held(ks) \cup {m}
    <3>1. PICK i \in 1..Len(r) : r[i] = x
      BY <1>6, <2>1, StoreFacts
    <3>2. CASE i < p
      BY <1>2, <1>3, <1>6, <1>7, <3>1, <3>2
    <3>3. CASE i = p
      BY <1>7, <3>1, <3>3
    <3>4. CASE i > p
      <4>1. r[i] = ks[i - 1] /\ i - 1 \in 1..Len(ks)
        BY <1>2, <1>6, <1>7, <3>4
      <4> QED BY <1>3, <3>1, <4>1
    <3> QED BY <1>2, <3>2, <3>3, <3>4
  <2>2. ASSUME NEW x \in Held(ks) PROVE x \in Held(r)
    <3>1. PICK i \in 1..Len(ks) : ks[i] = x
      BY <2>2, StoreFacts
    <3>2. \E k \in 1..Len(r) : r[k] = x
      <4>1. CASE i < p
        <5>1. i \in 1..Len(r)
          BY <1>2, <1>6
        <5>2. r[i] = ks[i]
          BY <1>7, <4>1, <5>1
        <5> QED BY <3>1, <5>1, <5>2
      <4>2. CASE i >= p
        <5>1. i + 1 \in 1..Len(r) /\ ~(i + 1 < p) /\ i + 1 # p /\ (i + 1) - 1 = i
          BY <1>2, <1>6, <4>2
        <5> QED BY <1>7, <3>1, <5>1
      <4> QED BY <1>2, <4>1, <4>2
    <3> QED BY <1>6, <3>2, StoreFacts
  <2>3. m \in Held(r)
    <3>1. p \in 1..Len(r) /\ r[p] = m
      BY <1>2, <1>6, <1>7
    <3> QED BY <1>6, <3>1, StoreFacts
  <2> QED BY <2>1, <2>2, <2>3
<1> QED BY <1>2, <1>6, <1>7, <1>8, <1>9 DEF r

(* An insertion displaces nothing that has to stay.                        *)
LEMMA InsertKeeps ==
    ASSUME NEW ks \in Seq(Messages), NEW m \in Messages, Sorted(ks),
           NEW p, Fits(ks, p, m),
           NEW given \in SUBSET Messages, Keeps(ks, given)
    PROVE  Keeps(InsertKey(ks, p, m), given \cup {m})
<1> DEFINE r == InsertKey(ks, p, m)
<1>1. /\ r \in Seq(Messages) /\ Len(r) = Len(ks) + 1 /\ p \in 1..Len(r)
      /\ \A i \in 1..Len(r) :
            r[i] = IF i < p THEN ks[i] ELSE IF i = p THEN m ELSE ks[i - 1]
      /\ Held(r) = Held(ks) \cup {m}
  BY InsertFacts
<1>2. /\ Len(ks) \in Nat /\ \A i \in 1..Len(ks) : sequence[ks[i]] \in Nat
      /\ \A i \in 1..Len(ks) : i < p => sequence[ks[i]] <= sequence[m]
  BY StoreFacts DEF Fits
<1> HIDE DEF r
<1> SUFFICES ASSUME NEW x \in given, ~ x \in Held(r) PROVE Newest(r, sequence[x])
  BY <1>1 DEF Keeps, r
<1>3. Newest(ks, sequence[x])
  BY <1>1 DEF Keeps
<1>4. sequence[x] \in Nat /\ sequence[m] \in Nat /\ MAX_RETAINED_KEYS \in Nat \ {0}
  BY StoreAssumption
<1>5. ASSUME NEW i \in 1..Len(r), i > Len(r) - MAX_RETAINED_KEYS
      PROVE  sequence[r[i]] >= sequence[x]
  <2>1. CASE i < p
    <3>1. i \in 1..Len(ks) /\ i > Len(ks) - MAX_RETAINED_KEYS /\ r[i] = ks[i]
      BY <1>1, <1>2, <1>4, <1>5, <2>1
    <3> QED BY <1>3, <3>1 DEF Newest
  <2>2. CASE i = p
    <3>1. i - 1 \in 1..Len(ks) /\ i - 1 > Len(ks) - MAX_RETAINED_KEYS
      BY <1>1, <1>2, <1>3, <1>4, <1>5 DEF Newest
    <3>2. sequence[ks[i - 1]] >= sequence[x] /\ sequence[ks[i - 1]] <= sequence[m]
      BY <1>2, <1>3, <2>2, <3>1 DEF Newest
    <3> QED BY <1>1, <1>2, <1>4, <2>2, <3>1, <3>2
  <2>3. CASE i > p
    <3>1. i - 1 \in 1..Len(ks) /\ i - 1 > Len(ks) - MAX_RETAINED_KEYS /\ r[i] = ks[i - 1]
      BY <1>1, <1>2, <1>4, <1>5, <2>3
    <3> QED BY <1>3, <3>1 DEF Newest
  <2> QED BY <1>1, <2>1, <2>2, <2>3
<1> QED BY <1>1, <1>2, <1>3, <1>4, <1>5 DEF Newest

(* An insertion adds one occurrence of what is inserted.                   *)
LEMMA InsertCounts ==
    ASSUME NEW ks \in Seq(Messages), NEW m \in Messages, Sorted(ks),
           NEW p, Fits(ks, p, m)
    PROVE  LET r == InsertKey(ks, p, m)
           IN  /\ \A x : x # m /\ AtMostOnce(ks, x) => AtMostOnce(r, x)
               /\ \A x : x # m /\ AtMostTwice(ks, x) => AtMostTwice(r, x)
               /\ m \notin Held(ks) => AtMostOnce(r, m)
               /\ AtMostOnce(ks, m) => AtMostTwice(r, m)
<1> DEFINE r == InsertKey(ks, p, m)
           Source(i) == IF i < p THEN i ELSE i - 1
<1>1. /\ Len(ks) \in Nat /\ Len(r) = Len(ks) + 1 /\ p \in 1..Len(r)
      /\ \A i \in 1..Len(r) :
            r[i] = IF i < p THEN ks[i] ELSE IF i = p THEN m ELSE ks[i - 1]
  <2>1. Len(ks) \in Nat
    BY StoreFacts
  <2> QED BY ONLY <2>1, Sorted(ks), Fits(ks, p, m), InsertFacts
<1>2. ASSUME NEW i \in 1..Len(r), i # p
      PROVE  Source(i) \in 1..Len(ks) /\ r[i] = ks[Source(i)]
  <2>1. CASE i < p
    BY <1>1, <2>1
  <2>2. CASE i > p
    BY <1>1, <2>2
  <2> QED BY <1>1, <1>2, <2>1, <2>2
<1>3. ASSUME NEW i \in 1..Len(r), NEW j \in 1..Len(r), i # p, j # p, Source(i) = Source(j)
      PROVE  i = j
  BY <1>1, <1>3
<1>4. r[p] = m
  BY <1>1
<1> HIDE DEF r, Source
<1>5. ASSUME NEW x, x # m, AtMostOnce(ks, x) PROVE AtMostOnce(r, x)
  BY <1>2, <1>3, <1>4, <1>5 DEF AtMostOnce
<1>6. ASSUME NEW x, x # m, AtMostTwice(ks, x) PROVE AtMostTwice(r, x)
  <2> SUFFICES ASSUME NEW i \in 1..Len(r), NEW j \in 1..Len(r), NEW k \in 1..Len(r),
                      r[i] = x, r[j] = x, r[k] = x
               PROVE  i = j \/ i = k \/ j = k
    BY DEF AtMostTwice
  <2>1. i # p /\ j # p /\ k # p
    BY <1>4, <1>6
  <2>2. Source(i) = Source(j) \/ Source(i) = Source(k) \/ Source(j) = Source(k)
    BY <1>2, <1>6, <2>1 DEF AtMostTwice
  <2> QED BY <1>3, <2>1, <2>2
<1>7. ASSUME m \notin Held(ks) PROVE AtMostOnce(r, m)
  <2>1. \A i \in 1..Len(ks) : ks[i] # m
    BY <1>7, StoreFacts
  <2> QED BY <1>2, <2>1 DEF AtMostOnce
<1>8. ASSUME AtMostOnce(ks, m) PROVE AtMostTwice(r, m)
  <2> SUFFICES ASSUME NEW i \in 1..Len(r), NEW j \in 1..Len(r), NEW k \in 1..Len(r),
                      r[i] = m, r[j] = m, r[k] = m, i # j, i # k, j # k
               PROVE  FALSE
    BY DEF AtMostTwice
  <2>1. \A a, b \in 1..Len(r) : a # p /\ b # p /\ r[a] = m /\ r[b] = m => a = b
    BY <1>2, <1>3, <1>8 DEF AtMostOnce
  <2> QED BY <2>1
<1> QED BY <1>5, <1>6, <1>7, <1>8 DEF r

(* Capping a sorted store drops what has to give way, and nothing else.    *)
LEMMA CapFacts ==
    ASSUME NEW ks \in Seq(Messages), Sorted(ks)
    PROVE  LET c == enforce_cap(ks)
           IN  /\ c \in Seq(Messages) /\ Len(c) <= MAX_RETAINED_KEYS /\ Sorted(c)
               /\ Len(ks) <= MAX_RETAINED_KEYS => c = ks
               /\ \A given \in SUBSET Messages : Keeps(ks, given) => Keeps(c, given)
               /\ \A x : /\ AtMostOnce(ks, x) => AtMostOnce(c, x)
                         /\ AtMostTwice(ks, x) => AtMostTwice(c, x)
<1>1. Len(ks) \in Nat /\ MAX_RETAINED_KEYS \in Nat \ {0}
  BY StoreFacts, StoreAssumption
<1>2. CASE Len(ks) <= MAX_RETAINED_KEYS
  <2>1. enforce_cap(ks) = ks
    BY <1>1, <1>2 DEF enforce_cap
  <2> QED BY <1>2, <2>1
<1>3. CASE Len(ks) > MAX_RETAINED_KEYS
  <2> DEFINE lost == Len(ks) - MAX_RETAINED_KEYS
             c == enforce_cap(ks)
  <2>1. lost \in Nat \ {0} /\ Len(ks) = lost + MAX_RETAINED_KEYS
    BY <1>1, <1>3
  <2>2. c = SubSeq(ks, lost + 1, Len(ks))
    BY <1>3 DEF enforce_cap
  <2> HIDE DEF lost, c
  <2>3. /\ c \in Seq(Messages) /\ Len(c) = MAX_RETAINED_KEYS
        /\ \A i \in 1..Len(c) : c[i] = ks[lost + i] /\ lost + i \in 1..Len(ks)
    <3>1. lost + 1 \in 1..Len(ks) /\ Len(ks) \in lost + 1 - 1..Len(ks)
      BY <1>1, <2>1
    <3>2. \A i \in lost + 1..Len(ks) : ks[i] \in Messages
      BY <2>1, StoreFacts
    <3>3. Len(ks) - (lost + 1) + 1 = MAX_RETAINED_KEYS
      BY <1>1, <2>1
    <3>4. c = [i \in 1..MAX_RETAINED_KEYS |-> ks[i + (lost + 1) - 1]]
      BY <1>1, <2>1, <2>2, <3>3
    <3>5. \A i \in 1..MAX_RETAINED_KEYS :
            /\ i + (lost + 1) - 1 = lost + i /\ lost + i \in 1..Len(ks)
            /\ lost + i \in lost + 1..Len(ks)
      BY <1>1, <2>1
    <3>6. c \in [1..MAX_RETAINED_KEYS -> Messages]
      BY <3>2, <3>4, <3>5
    <3>7. c \in Seq(Messages) /\ Len(c) = MAX_RETAINED_KEYS
      BY <1>1, <3>6, SeqDef, LenProperties
    <3> QED BY <3>4, <3>5, <3>7
  <2>4. Sorted(c)
    <3> SUFFICES ASSUME NEW i \in 1..Len(c), NEW j \in 1..Len(c), i < j
                 PROVE  sequence[c[i]] <= sequence[c[j]]
      BY DEF Sorted
    <3>1. lost + i \in 1..Len(ks) /\ lost + j \in 1..Len(ks) /\ lost + i < lost + j
      BY <2>1, <2>3
    <3> QED BY <2>3, <3>1 DEF Sorted
  <2>5. ASSUME NEW given \in SUBSET Messages, Keeps(ks, given), NEW m \in given,
               m \notin Held(c)
        PROVE  Newest(c, sequence[m])
    <3>1. CASE m \in Held(ks)
      <4>1. PICK i \in 1..Len(ks) : ks[i] = m
        BY <3>1, StoreFacts
      <4>2. i <= lost
        <5> SUFFICES ASSUME i > lost PROVE FALSE
          BY <2>1
        <5>1. i - lost \in 1..Len(c) /\ lost + (i - lost) = i
          BY <1>1, <2>1, <2>3
        <5>2. c[i - lost] = m
          BY <2>3, <4>1, <5>1
        <5> QED BY <2>3, <2>5, <5>1, <5>2, StoreFacts
      <4>3. \A k \in 1..Len(c) : sequence[c[k]] >= sequence[m]
        <5> TAKE k \in 1..Len(c)
        <5>1. lost + k \in 1..Len(ks) /\ i < lost + k /\ c[k] = ks[lost + k]
          BY <1>1, <2>1, <2>3, <4>2
        <5>2. sequence[ks[i]] <= sequence[ks[lost + k]]
          BY <5>1 DEF Sorted
        <5> QED BY <4>1, <5>1, <5>2, StoreFacts
      <4> QED BY <1>1, <2>3, <4>3 DEF Newest
    <3>2. CASE Newest(ks, sequence[m])
      <4>1. \A k \in 1..Len(c) : sequence[c[k]] >= sequence[m]
        <5> TAKE k \in 1..Len(c)
        <5>1. lost + k \in 1..Len(ks) /\ c[k] = ks[lost + k]
              /\ lost + k > Len(ks) - MAX_RETAINED_KEYS
          BY <1>1, <2>1, <2>3
        <5> QED BY <3>2, <5>1 DEF Newest
      <4> QED BY <1>1, <2>3, <4>1 DEF Newest
    <3> QED BY <2>5, <3>1, <3>2 DEF Keeps
  <2>6. \A i, j \in 1..Len(c) : lost + i = lost + j => i = j
    BY <2>1
  <2>7. ASSUME NEW x, AtMostOnce(ks, x) PROVE AtMostOnce(c, x)
    BY <2>3, <2>6, <2>7 DEF AtMostOnce
  <2>8. ASSUME NEW x, AtMostTwice(ks, x) PROVE AtMostTwice(c, x)
    <3> SUFFICES ASSUME NEW i \in 1..Len(c), NEW j \in 1..Len(c), NEW k \in 1..Len(c),
                        c[i] = x, c[j] = x, c[k] = x
                 PROVE  i = j \/ i = k \/ j = k
      BY DEF AtMostTwice
    <3>1. lost + i = lost + j \/ lost + i = lost + k \/ lost + j = lost + k
      BY <2>3, <2>8 DEF AtMostTwice
    <3> QED BY <2>6, <3>1
  <2>9. \A given \in SUBSET Messages : Keeps(ks, given) => Keeps(c, given)
    BY <2>5 DEF Keeps
  <2>10. Len(c) <= MAX_RETAINED_KEYS
    BY <1>1, <2>3
  <2> QED BY <1>1, <1>3, <2>3, <2>4, <2>7, <2>8, <2>9, <2>10 DEF c
<1> QED BY <1>1, <1>2, <1>3
-----------------------------------------------------------------------------
(* Recursion.  Induction over 0..n and the existence of a function defined *)
(* by recursion over it, stated with sets and functions where the library  *)
(* has operators.                                                          *)
LEMMA UpTo ==
    ASSUME NEW n \in Nat, NEW G, 0 \in G, \A i \in 1..n : i - 1 \in G => i \in G
    PROVE  \A i \in 0..n : i \in G
<1> PICK T : T = {i \in 0..n : i \notin G}
  OBVIOUS
<1>1. ASSUME T # {} PROVE FALSE
  <2>1. PICK i \in T : \A j \in T : ~ (<<j, i>> \in OpToRel(<, Nat))
    <3>1. T \subseteq Nat
      OBVIOUS
    <3> QED BY <1>1, <3>1, WFMin, NatLessThanWellFounded
  <2>2. i \in 1..n /\ i - 1 \in 0..n /\ i - 1 \in Nat /\ i \in Nat /\ i - 1 < i
    OBVIOUS
  <2>3. <<i - 1, i>> \in OpToRel(<, Nat)
    BY <2>2 DEF OpToRel
  <2>4. i - 1 \in G
    BY <2>1, <2>2, <2>3
  <2> QED BY <2>2, <2>4
<1> QED BY <1>1

StepsInto(n, T, start, F) ==
    /\ n \in Nat /\ start \in T[0]
    /\ \A i \in 1..n : \A X \in T[i - 1] : F[i][X] \in T[i]
Run(f, n, start, F) ==
    /\ f = [i \in 0..n |-> f[i]] /\ f[0] = start
    /\ \A i \in 1..n : f[i] = F[i][f[i - 1]]

LEMMA Recursion ==
    ASSUME NEW n, NEW T, NEW start, NEW F, StepsInto(n, T, start, F)
    PROVE  \E f : Run(f, n, start, F) /\ \A i \in 0..n : f[i] \in T[i]
<1> USE DEF StepsInto
<1> DEFINE Up(f, m) == f = [i \in 0..m |-> IF i = 0 THEN start ELSE F[i][f[i - 1]]]
           Typed(f, m) == \A i \in 0..m : f[i] \in T[i]
<1> PICK G : G = {m \in 0..n : \E f : Up(f, m) /\ Typed(f, m)}
  OBVIOUS
<1>1. 0 \in G
  <2> PICK f : f = [i \in 0..0 |-> start]
    OBVIOUS
  <2>1. 0..0 = {0}
    OBVIOUS
  <2>2. Up(f, 0)
    BY <2>1
  <2>3. Typed(f, 0)
    BY <2>1
  <2> QED BY <2>2, <2>3
<1>2. ASSUME NEW m \in 1..n, m - 1 \in G PROVE m \in G
  <2>1. PICK g : Up(g, m - 1) /\ Typed(g, m - 1)
    BY <1>2
  <2> PICK f : f = [i \in 0..m |-> IF i = m THEN F[m][g[m - 1]] ELSE g[i]]
    OBVIOUS
  <2>2. \A i \in 0..m : i # m => i \in 0..m - 1 /\ f[i] = g[i]
    OBVIOUS
  <2>3. m \in Nat /\ m # 0 /\ m - 1 \in 0..m - 1 /\ m - 1 \in 0..m /\ m - 1 # m /\ m \in 0..m
    OBVIOUS
  <2>4. f[m] = F[m][g[m - 1]] /\ f[m - 1] = g[m - 1]
    BY <2>2, <2>3
  <2>5. \A i \in 0..m : f[i] = IF i = 0 THEN start ELSE F[i][f[i - 1]]
    <3> TAKE i \in 0..m
    <3>1. CASE i = m
      BY <2>3, <2>4, <3>1
    <3>2. CASE i # m
      <4>1. i \in 0..m - 1 /\ f[i] = g[i] /\ (i # 0 => i - 1 \in 0..m /\ i - 1 # m)
        BY <2>2, <3>2
      <4>2. g[i] = IF i = 0 THEN start ELSE F[i][g[i - 1]]
        BY <2>1, <4>1
      <4>3. i # 0 => f[i - 1] = g[i - 1]
        BY <2>2, <4>1
      <4> QED BY <4>1, <4>2, <4>3
    <3> QED BY <3>1, <3>2
  <2>6. Up(f, m)
    BY <2>5
  <2>7. Typed(f, m)
    <3> SUFFICES ASSUME NEW i \in 0..m PROVE f[i] \in T[i]
      OBVIOUS
    <3>1. CASE i = m
      <4>1. g[m - 1] \in T[m - 1]
        BY <2>1, <2>3
      <4> QED BY <2>4, <3>1, <4>1
    <3>2. CASE i # m
      BY <2>1, <2>2, <3>2
    <3> QED BY <3>1, <3>2
  <2>8. m \in 0..n
    OBVIOUS
  <2> QED BY <2>6, <2>7, <2>8
<1>3. \A m \in 0..n : m \in G
  BY <1>1, <1>2, UpTo
<1>4. n \in G
  BY <1>3
<1>5. PICK f : Up(f, n) /\ Typed(f, n)
  BY <1>4
<1>6. f = [i \in 0..n |-> f[i]] /\ f[0] = start
  BY <1>5
<1>7. \A i \in 1..n : f[i] = F[i][f[i - 1]]
  BY <1>5
<1> QED BY <1>5, <1>6, <1>7 DEF Run
-----------------------------------------------------------------------------
(* What a merge has made of the store after the first n keys of a share.   *)
LEMMA MergedFacts ==
    ASSUME NEW ks \in Seq(Messages), Sorted(ks), NEW other \in Seq(Messages),
           NEW given \in SUBSET Messages, Keeps(ks, given), NEW own, Within(ks, own),
           NEW r \in merge(ks, other)
    PROVE  StoreOK(r, given \cup Held(other), own)
<1> DEFINE To(n) == given \cup {other[i] : i \in 1..n}
           Good(n) == {q \in Seq(Messages) : Sorted(q) /\ Keeps(q, To(n)) /\ Within(q, own)}
           Body(n, X) == UNION {IF other[n] \in Held(q) THEN {q} ELSE Inserted(q, other[n]) :
                                  q \in X}
<1> DEFINE Merged[n \in 0..Len(other)] == IF n = 0 THEN {ks} ELSE Body(n, Merged[n - 1])
<1>1. Len(other) \in Nat /\ \A n \in 1..Len(other) : other[n] \in Messages
  BY StoreFacts
<1>2. ks \in Good(0)
  <2>1. To(0) = given
    OBVIOUS
  <2> QED BY <2>1
<1>3. ASSUME NEW n \in 1..Len(other), NEW q \in Good(n - 1), other[n] \in Held(q)
      PROVE  q \in Good(n)
  <2>1. \A m \in To(n) : m \in To(n - 1) \/ m = other[n]
    BY <1>1
  <2>2. Keeps(q, To(n))
    BY <1>3, <2>1 DEF Keeps
  <2> QED BY <2>2
<1>4. ASSUME NEW n \in 1..Len(other), NEW q \in Good(n - 1), other[n] \notin Held(q),
             NEW t \in Inserted(q, other[n])
      PROVE  t \in Good(n)
  <2> PICK m \in Messages : m = other[n]
    BY <1>1
  <2>1. PICK p : Fits(q, p, m) /\ t = InsertKey(q, p, m)
    BY SearchFacts DEF Inserted
  <2>2. q \in Seq(Messages) /\ Sorted(q) /\ Keeps(q, To(n - 1)) /\ Within(q, own)
    OBVIOUS
  <2>3. t \in Seq(Messages) /\ Sorted(t)
    BY <2>1, <2>2, InsertFacts
  <2>4. To(n - 1) \in SUBSET Messages /\ To(n) = To(n - 1) \cup {m}
    BY <1>1
  <2>5. Keeps(t, To(n))
    BY <2>1, <2>2, <2>4, InsertKeeps
  <2>6. Within(t, own)
    <3>1. \A x : x # m => AtMostTwice(t, x) /\ (x \notin own => AtMostOnce(t, x))
      BY <2>1, <2>2, InsertCounts DEF Within
    <3>2. AtMostOnce(t, m)
      BY <1>4, <2>1, <2>2, InsertCounts
    <3>3. AtMostTwice(t, m)
      BY <3>2 DEF AtMostOnce, AtMostTwice
    <3> QED BY <3>1, <3>2, <3>3 DEF Within
  <2> QED BY <2>3, <2>5, <2>6
<1>5. \A n \in 1..Len(other) : \A X \in SUBSET Good(n - 1) : Body(n, X) \in SUBSET Good(n)
  <2> SUFFICES ASSUME NEW n \in 1..Len(other), NEW X \in SUBSET Good(n - 1),
                      NEW t \in Body(n, X)
               PROVE  t \in Good(n)
    OBVIOUS
  <2>1. PICK q \in X : t \in IF other[n] \in Held(q) THEN {q} ELSE Inserted(q, other[n])
    OBVIOUS
  <2>2. q \in Good(n - 1)
    OBVIOUS
  <2> HIDE DEF Good
  <2>3. CASE other[n] \in Held(q)
    BY <1>3, <2>1, <2>2, <2>3
  <2>4. CASE other[n] \notin Held(q)
    BY <1>4, <2>1, <2>2, <2>4
  <2> QED BY <2>3, <2>4
<1> HIDE DEF Good, Body
<1>6. /\ Merged = [n \in 0..Len(other) |-> IF n = 0 THEN {ks} ELSE Body(n, Merged[n - 1])]
      /\ \A n \in 0..Len(other) : Merged[n] \in SUBSET Good(n)
  <2> PICK T : T = [n \in 0..Len(other) |-> SUBSET Good(n)]
    OBVIOUS
  <2> PICK F : F = [n \in 1..Len(other) |-> [X \in SUBSET Good(n - 1) |-> Body(n, X)]]
    OBVIOUS
  <2>1. \A n \in 1..Len(other) : n - 1 \in 0..Len(other) /\ n \in 0..Len(other)
    BY <1>1
  <2>2. \A n \in 1..Len(other) : T[n - 1] = SUBSET Good(n - 1) /\ T[n] = SUBSET Good(n)
    BY <2>1
  <2>3. \A n \in 1..Len(other) : \A X \in T[n - 1] : F[n][X] = Body(n, X) /\ F[n][X] \in T[n]
    BY <1>5, <2>2
  <2>4. {ks} \in T[0]
    BY <1>1, <1>2
  <2>5. StepsInto(Len(other), T, {ks}, F)
    BY <1>1, <2>3, <2>4 DEF StepsInto
  <2>6. PICK f : /\ Run(f, Len(other), {ks}, F)
                 /\ \A n \in 0..Len(other) : f[n] \in T[n]
    BY ONLY <2>5, Recursion
  <2>11. f = [n \in 0..Len(other) |-> IF n = 0 THEN {ks} ELSE Body(n, f[n - 1])]
    <3>1. ASSUME NEW n \in 0..Len(other), n # 0 PROVE f[n] = Body(n, f[n - 1])
      <4>1. n \in 1..Len(other) /\ n - 1 \in 0..Len(other)
        BY <1>1, <3>1
      <4>2. f[n - 1] \in T[n - 1] /\ f[n] = F[n][f[n - 1]]
        BY ONLY <2>6, <4>1 DEF Run
      <4> QED BY ONLY <2>3, <4>1, <4>2
    <3> QED BY ONLY <2>6, <3>1 DEF Run
  <2>7. Merged = [n \in 0..Len(other) |-> IF n = 0 THEN {ks} ELSE Body(n, Merged[n - 1])]
    BY <2>11, Zenon
  <2> HIDE DEF Merged
  <2> PICK G : G = {n \in 0..Len(other) : Merged[n] \in T[n]}
    OBVIOUS
  <2>8. 0 \in G
    BY <1>1, <2>4, <2>7
  <2>9. ASSUME NEW n \in 1..Len(other), n - 1 \in G PROVE n \in G
    <3>1. n \in 0..Len(other) /\ n # 0
      BY <1>1
    <3>2. Merged[n] = Body(n, Merged[n - 1])
      BY ONLY <2>7, <3>1
    <3>3. Merged[n - 1] \in T[n - 1]
      BY <2>9
    <3>4. Merged[n] \in T[n]
      BY ONLY <2>3, <2>9, <3>2, <3>3
    <3> QED BY <3>1, <3>4
  <2>10. \A n \in 0..Len(other) : n \in G
    <3>1. \A n \in 1..Len(other) : n - 1 \in G => n \in G
      BY ONLY <2>9
    <3>2. Len(other) \in Nat
      BY <1>1
    <3> QED BY ONLY <2>8, <3>1, <3>2, UpTo
  <2> QED BY <2>7, <2>10
<1>7. merge(ks, other) = {enforce_cap(q) : q \in Merged[Len(other)]}
  BY DEF merge, Body
<1> HIDE DEF Merged
<1>8. PICK q \in Good(Len(other)) : r = enforce_cap(q)
  BY <1>1, <1>6, <1>7
<1>9. q \in Seq(Messages) /\ Sorted(q) /\ Keeps(q, To(Len(other))) /\ Within(q, own)
  BY DEF Good
<1>10. To(Len(other)) = given \cup Held(other) /\ To(Len(other)) \in SUBSET Messages
  BY <1>1 DEF Held
<1>11. Keeps(r, given \cup Held(other))
  BY <1>8, <1>9, <1>10, CapFacts
<1>12. Within(r, own)
  BY <1>8, <1>9, CapFacts DEF Within
<1> QED BY <1>8, <1>9, <1>11, <1>12, CapFacts DEF StoreOK

(* Loading a blob retains its keys one by one.  It may exchange keys of    *)
(* one sequence number, and changes nothing else.                          *)
LEMMA LoadedFacts ==
    ASSUME NEW ks, NEW given \in SUBSET Messages, NEW own, StoreOK(ks, given, own),
           NEW r \in deserialize_thread_key_store(ks)
    PROVE  StoreOK(r, given, own)
<1> DEFINE Once(n, x) == \A i, j \in 1..n : ks[i] = x /\ ks[j] = x => i = j
           Twice(n, x) == \A i, j, k \in 1..n :
                ks[i] = x /\ ks[j] = x /\ ks[k] = x => i = j \/ i = k \/ j = k
           First(n) == {ks[i] : i \in 1..n}
           Good(n) == {q \in Seq(Messages) :
                /\ Len(q) = n /\ Sorted(q) /\ Held(q) = First(n)
                /\ \A x : Once(n, x) => AtMostOnce(q, x)
                /\ \A x : Twice(n, x) => AtMostTwice(q, x)}
           Body(n, X) == UNION {retain_key(q, ks[n]) : q \in X}
<1> DEFINE Loaded[n \in 0..Len(ks)] == IF n = 0 THEN {<<>>} ELSE Body(n, Loaded[n - 1])
<1>1. /\ ks \in Seq(Messages) /\ Len(ks) \in Nat /\ Len(ks) <= MAX_RETAINED_KEYS
      /\ \A n \in 1..Len(ks) : ks[n] \in Messages
      /\ MAX_RETAINED_KEYS \in Nat \ {0}
  BY StoreFacts, StoreAssumption DEF StoreOK
<1>2. <<>> \in Good(0)
  <2> PICK e : e = <<>>
    OBVIOUS
  <2>1. e \in Seq(Messages) /\ Len(e) = 0
    BY EmptySeq
  <2>2. Held(e) = First(0) /\ Sorted(e)
    BY <2>1 DEF Held, Sorted
  <2>3. \A x : AtMostOnce(e, x) /\ AtMostTwice(e, x)
    BY <2>1 DEF AtMostOnce, AtMostTwice
  <2> QED BY <2>1, <2>2, <2>3
<1>3. ASSUME NEW n \in 1..Len(ks), NEW q \in Good(n - 1), NEW t \in retain_key(q, ks[n])
      PROVE  t \in Good(n)
  <2> PICK m \in Messages : m = ks[n]
    BY <1>1
  <2>1. PICK p : Fits(q, p, m) /\ t = enforce_cap(InsertKey(q, p, m))
    BY SearchFacts DEF retain_key, Inserted
  <2>2. /\ q \in Seq(Messages) /\ Len(q) = n - 1 /\ Sorted(q) /\ Held(q) = First(n - 1)
        /\ \A x : Once(n - 1, x) => AtMostOnce(q, x)
        /\ \A x : Twice(n - 1, x) => AtMostTwice(q, x)
    OBVIOUS
  <2> PICK u : u = InsertKey(q, p, m)
    OBVIOUS
  <2>3. u \in Seq(Messages) /\ Len(u) = Len(q) + 1 /\ Sorted(u) /\ Held(u) = Held(q) \cup {m}
    BY <2>1, <2>2, InsertFacts
  <2>4. Len(u) = n /\ Len(u) <= MAX_RETAINED_KEYS
    BY <1>1, <2>2, <2>3
  <2>5. t = u
    BY <2>1, <2>3, <2>4, CapFacts
  <2>6. Held(u) = First(n)
    <3>1. First(n) = First(n - 1) \cup {m}
      BY <1>1
    <3> QED BY <2>2, <2>3, <3>1
  <2>7. \A i \in 1..n - 1 : i \in 1..n /\ i # n
    BY <1>1
  <2>8. n \in 1..n
    BY <1>1
  <2>9. ASSUME NEW x, x # m
        PROVE  (Once(n, x) => AtMostOnce(u, x)) /\ (Twice(n, x) => AtMostTwice(u, x))
    <3>1. (Once(n, x) => Once(n - 1, x)) /\ (Twice(n, x) => Twice(n - 1, x))
      BY <2>7
    <3> QED BY <2>1, <2>2, <2>9, <3>1, InsertCounts
  <2>10. ASSUME Once(n, m) PROVE AtMostOnce(u, m)
    <3>1. m \notin First(n - 1)
      BY <2>7, <2>8, <2>10
    <3> QED BY <2>1, <2>2, <3>1, InsertCounts
  <2>11. ASSUME Twice(n, m) PROVE AtMostTwice(u, m)
    <3>1. Once(n - 1, m)
      BY <2>7, <2>8, <2>11
    <3>2. AtMostOnce(q, m)
      BY <2>2, <3>1
    <3> QED BY <2>1, <2>2, <3>2, InsertCounts
  <2> HIDE DEF Once, Twice, First
  <2>12. \A x : (Once(n, x) => AtMostOnce(u, x)) /\ (Twice(n, x) => AtMostTwice(u, x))
    BY <2>9, <2>10, <2>11
  <2> QED BY <2>3, <2>4, <2>5, <2>6, <2>12
<1>4. \A n \in 1..Len(ks) : \A X \in SUBSET Good(n - 1) : Body(n, X) \in SUBSET Good(n)
  <2> SUFFICES ASSUME NEW n \in 1..Len(ks), NEW X \in SUBSET Good(n - 1), NEW t \in Body(n, X)
               PROVE  t \in Good(n)
    OBVIOUS
  <2>1. PICK q \in X : t \in retain_key(q, ks[n])
    OBVIOUS
  <2>2. q \in Good(n - 1)
    OBVIOUS
  <2> QED BY ONLY <1>3, <2>1, <2>2
<1> HIDE DEF Good, Body
<1>5. /\ Loaded = [n \in 0..Len(ks) |-> IF n = 0 THEN {<<>>} ELSE Body(n, Loaded[n - 1])]
      /\ \A n \in 0..Len(ks) : Loaded[n] \in SUBSET Good(n)
  <2> PICK T : T = [n \in 0..Len(ks) |-> SUBSET Good(n)]
    OBVIOUS
  <2> PICK F : F = [n \in 1..Len(ks) |-> [X \in SUBSET Good(n - 1) |-> Body(n, X)]]
    OBVIOUS
  <2>1. \A n \in 1..Len(ks) : n - 1 \in 0..Len(ks) /\ n \in 0..Len(ks)
    BY <1>1
  <2>2. \A n \in 1..Len(ks) : T[n - 1] = SUBSET Good(n - 1) /\ T[n] = SUBSET Good(n)
    BY <2>1
  <2>3. \A n \in 1..Len(ks) : \A X \in T[n - 1] : F[n][X] = Body(n, X) /\ F[n][X] \in T[n]
    BY <1>4, <2>2
  <2>4. {<<>>} \in T[0]
    BY <1>1, <1>2
  <2>5. StepsInto(Len(ks), T, {<<>>}, F)
    BY <1>1, <2>3, <2>4 DEF StepsInto
  <2>6. PICK f : /\ Run(f, Len(ks), {<<>>}, F)
                 /\ \A n \in 0..Len(ks) : f[n] \in T[n]
    BY ONLY <2>5, Recursion
  <2>7. f = [n \in 0..Len(ks) |-> IF n = 0 THEN {<<>>} ELSE Body(n, f[n - 1])]
    <3>1. ASSUME NEW n \in 0..Len(ks), n # 0 PROVE f[n] = Body(n, f[n - 1])
      <4>1. n \in 1..Len(ks) /\ n - 1 \in 0..Len(ks)
        BY <1>1, <3>1
      <4>2. f[n - 1] \in T[n - 1] /\ f[n] = F[n][f[n - 1]]
        BY ONLY <2>6, <4>1 DEF Run
      <4> QED BY ONLY <2>3, <4>1, <4>2
    <3> QED BY ONLY <2>6, <3>1 DEF Run
  <2>8. Loaded = [n \in 0..Len(ks) |-> IF n = 0 THEN {<<>>} ELSE Body(n, Loaded[n - 1])]
    BY <2>7, Zenon
  <2> HIDE DEF Loaded
  <2> PICK G : G = {n \in 0..Len(ks) : Loaded[n] \in T[n]}
    OBVIOUS
  <2>9. 0 \in G
    BY <1>1, <2>4, <2>8
  <2>10. ASSUME NEW n \in 1..Len(ks), n - 1 \in G PROVE n \in G
    <3>1. n \in 0..Len(ks) /\ n # 0
      BY <1>1
    <3>2. Loaded[n] = Body(n, Loaded[n - 1])
      BY ONLY <2>8, <3>1
    <3>3. Loaded[n - 1] \in T[n - 1]
      BY <2>10
    <3>4. Loaded[n] \in T[n]
      BY ONLY <2>3, <2>10, <3>2, <3>3
    <3> QED BY <3>1, <3>4
  <2>11. \A n \in 0..Len(ks) : n \in G
    <3>1. \A n \in 1..Len(ks) : n - 1 \in G => n \in G
      BY ONLY <2>10
    <3>2. Len(ks) \in Nat
      BY <1>1
    <3> QED BY ONLY <2>9, <3>1, <3>2, UpTo
  <2> QED BY <2>8, <2>11
<1>6. deserialize_thread_key_store(ks) = Loaded[Len(ks)]
  BY DEF deserialize_thread_key_store, Body
<1> HIDE DEF Loaded
<1>7. r \in Good(Len(ks))
  BY <1>1, <1>5, <1>6
<1>8. /\ r \in Seq(Messages) /\ Len(r) = Len(ks) /\ Sorted(r) /\ Held(r) = Held(ks)
      /\ \A x : Once(Len(ks), x) => AtMostOnce(r, x)
      /\ \A x : Twice(Len(ks), x) => AtMostTwice(r, x)
  BY <1>7 DEF Good, Held
<1>9. Within(r, own)
  <2>1. \A x : /\ Once(Len(ks), x) <=> AtMostOnce(ks, x)
               /\ Twice(Len(ks), x) <=> AtMostTwice(ks, x)
    BY DEF AtMostOnce, AtMostTwice
  <2> QED BY <1>8, <2>1 DEF StoreOK, Within
<1>10. Keeps(r, given)
  <2> SUFFICES ASSUME NEW m \in given, m \notin Held(r) PROVE Newest(r, sequence[m])
    BY DEF Keeps
  <2>1. Newest(ks, sequence[m])
    BY <1>8 DEF StoreOK, Keeps
  <2>2. Len(ks) = MAX_RETAINED_KEYS
    BY <1>1, <2>1 DEF Newest
  <2>3. \A x \in Held(ks) : sequence[x] >= sequence[m]
    <3> TAKE x \in Held(ks)
    <3>1. PICK i \in 1..Len(ks) : ks[i] = x
      BY <1>1, StoreFacts
    <3>2. i > Len(ks) - MAX_RETAINED_KEYS
      BY <1>1, <2>2
    <3> QED BY <2>1, <3>1, <3>2 DEF Newest
  <2>4. \A i \in 1..Len(r) : r[i] \in Held(ks)
    BY <1>8, StoreFacts
  <2> QED BY <1>1, <1>8, <2>2, <2>3, <2>4 DEF Newest
<1> QED BY <1>1, <1>8, <1>9, <1>10 DEF StoreOK

(* A removal keeps a part of the store in its order.                       *)
LEMMA KeptFacts ==
    ASSUME NEW ks, NEW given, NEW own, StoreOK(ks, given, own), NEW time
    PROVE  StoreOK(prune_before(ks, time), Held(prune_before(ks, time)), own)
<1> DEFINE Once(n, x) == \A i, j \in 1..n : ks[i] = x /\ ks[j] = x => i = j
           Twice(n, x) == \A i, j, k \in 1..n :
                ks[i] = x /\ ks[j] = x /\ ks[k] = x => i = j \/ i = k \/ j = k
           First(n) == {ks[i] : i \in 1..n}
           Good(n) == {q \in Seq(Messages) :
                /\ Len(q) <= n /\ Sorted(q) /\ Held(q) \subseteq First(n)
                /\ \A x : Once(n, x) => AtMostOnce(q, x)
                /\ \A x : Twice(n, x) => AtMostTwice(q, x)}
           Body(n, q) == IF timestamp[ks[n]] >= time THEN Append(q, ks[n]) ELSE q
<1> DEFINE Kept[n \in 0..Len(ks)] == IF n = 0 THEN <<>> ELSE Body(n, Kept[n - 1])
<1>1. /\ ks \in Seq(Messages) /\ Len(ks) \in Nat /\ Len(ks) <= MAX_RETAINED_KEYS
      /\ \A n \in 1..Len(ks) : ks[n] \in Messages /\ sequence[ks[n]] \in Nat
      /\ MAX_RETAINED_KEYS \in Nat \ {0} /\ Sorted(ks)
  BY StoreFacts, StoreAssumption DEF StoreOK
<1>2. <<>> \in Good(0)
  <2> PICK e : e = <<>>
    OBVIOUS
  <2>1. e \in Seq(Messages) /\ Len(e) = 0
    BY EmptySeq
  <2>2. Held(e) = {} /\ Sorted(e)
    BY <2>1 DEF Held, Sorted
  <2>3. \A x : AtMostOnce(e, x) /\ AtMostTwice(e, x)
    BY <2>1 DEF AtMostOnce, AtMostTwice
  <2> QED BY <2>1, <2>2, <2>3
<1>3. ASSUME NEW n \in 1..Len(ks), NEW q \in Good(n - 1)
      PROVE  q \in Good(n) /\ Append(q, ks[n]) \in Good(n)
  <2> PICK m \in Messages : m = ks[n]
    BY <1>1
  <2>1. /\ q \in Seq(Messages) /\ Len(q) <= n - 1 /\ Sorted(q) /\ Held(q) \subseteq First(n - 1)
        /\ \A x : Once(n - 1, x) => AtMostOnce(q, x)
        /\ \A x : Twice(n - 1, x) => AtMostTwice(q, x)
    OBVIOUS
  <2>2. \A i \in 1..n - 1 : i \in 1..n /\ i # n /\ i \in 1..Len(ks) /\ i < n
    BY <1>1
  <2>3. n \in 1..n /\ n \in Nat
    BY <1>1
  <2>4. Len(q) \in Nat /\ Len(q) <= n /\ Len(q) + 1 <= n
    BY <2>1, <2>3, StoreFacts
  <2>5. First(n) = First(n - 1) \cup {m}
    BY <1>1
  <2>6. \A x : (Once(n, x) => Once(n - 1, x)) /\ (Twice(n, x) => Twice(n - 1, x))
    BY <2>2
  <2>7. q \in Good(n)
    BY <2>1, <2>4, <2>5, <2>6
  <2> PICK u : u = InsertKey(q, Len(q) + 1, m)
    OBVIOUS
  <2>8. \A i \in 1..Len(q) : sequence[q[i]] <= sequence[m]
    <3> TAKE i \in 1..Len(q)
    <3>1. PICK k \in 1..n - 1 : q[i] = ks[k]
      BY <2>1, StoreFacts
    <3> QED BY <1>1, <2>2, <3>1 DEF Sorted
  <2>9. Fits(q, Len(q) + 1, m)
    BY <2>4, <2>8 DEF Fits
  <2>10. u \in Seq(Messages) /\ Len(u) = Len(q) + 1 /\ Sorted(u) /\ Held(u) = Held(q) \cup {m}
    BY <2>1, <2>9, InsertFacts
  <2>11. Append(q, m) = u
    <3>1. Append(q, m) \in Seq(Messages) /\ Len(Append(q, m)) = Len(q) + 1
          /\ (\A i \in 1..Len(q) : Append(q, m)[i] = q[i]) /\ Append(q, m)[Len(q) + 1] = m
      BY <2>1, AppendProperties
    <3>2. \A i \in 1..Len(q) + 1 :
             u[i] = IF i < Len(q) + 1 THEN q[i] ELSE IF i = Len(q) + 1 THEN m ELSE q[i - 1]
      BY <2>1, <2>9, <2>10, InsertFacts
    <3>3. \A i \in 1..Len(q) + 1 : Append(q, m)[i] = u[i]
      BY <2>4, <3>1, <3>2
    <3> QED BY <2>10, <3>1, <3>3, SeqEqual
  <2>12. ASSUME NEW x, x # m
         PROVE  (Once(n, x) => AtMostOnce(u, x)) /\ (Twice(n, x) => AtMostTwice(u, x))
    <3>1. (AtMostOnce(q, x) => AtMostOnce(u, x)) /\ (AtMostTwice(q, x) => AtMostTwice(u, x))
      <4>1. q \in Seq(Messages) /\ Sorted(q)
        BY <2>1
      <4> QED BY ONLY <4>1, <2>9, <2>12, InsertCounts, m \in Messages, u = InsertKey(q, Len(q) + 1, m)
    <3>2. /\ Once(n, x) => AtMostOnce(q, x)
          /\ Twice(n, x) => AtMostTwice(q, x)
      <4> HIDE DEF Once, Twice
      <4> QED BY ONLY <2>1, <2>6
    <3> QED BY <3>1, <3>2
  <2>13. ASSUME Once(n, m) PROVE AtMostOnce(u, m)
    <3>1. m \notin First(n - 1)
      BY <2>2, <2>3, <2>13
    <3> QED BY <2>1, <2>9, <3>1, InsertCounts
  <2>14. ASSUME Twice(n, m) PROVE AtMostTwice(u, m)
    <3>1. Once(n - 1, m)
      BY <2>2, <2>3, <2>14
    <3>2. AtMostOnce(q, m)
      BY <2>1, <3>1
    <3> QED BY <2>1, <2>9, <3>2, InsertCounts
  <2> HIDE DEF Once, Twice, First
  <2>15. \A x : (Once(n, x) => AtMostOnce(u, x)) /\ (Twice(n, x) => AtMostTwice(u, x))
    BY <2>12, <2>13, <2>14
  <2> QED BY <2>1, <2>4, <2>5, <2>7, <2>10, <2>11, <2>15
<1>4. \A n \in 1..Len(ks) : \A q \in Good(n - 1) : Body(n, q) \in Good(n)
  BY ONLY <1>3
<1> HIDE DEF Good, Body
<1>5. /\ Kept = [n \in 0..Len(ks) |-> IF n = 0 THEN <<>> ELSE Body(n, Kept[n - 1])]
      /\ \A n \in 0..Len(ks) : Kept[n] \in Good(n)
  <2> PICK T : T = [n \in 0..Len(ks) |-> Good(n)]
    OBVIOUS
  <2> PICK F : F = [n \in 1..Len(ks) |-> [q \in Good(n - 1) |-> Body(n, q)]]
    OBVIOUS
  <2>1. \A n \in 1..Len(ks) : n - 1 \in 0..Len(ks) /\ n \in 0..Len(ks)
    BY <1>1
  <2>2. \A n \in 1..Len(ks) : T[n - 1] = Good(n - 1) /\ T[n] = Good(n)
    BY <2>1
  <2>3. \A n \in 1..Len(ks) : \A q \in T[n - 1] : F[n][q] = Body(n, q) /\ F[n][q] \in T[n]
    BY <1>4, <2>2
  <2>4. <<>> \in T[0]
    BY <1>1, <1>2
  <2>5. StepsInto(Len(ks), T, <<>>, F)
    BY <1>1, <2>3, <2>4 DEF StepsInto
  <2>6. PICK f : /\ Run(f, Len(ks), <<>>, F)
                 /\ \A n \in 0..Len(ks) : f[n] \in T[n]
    BY ONLY <2>5, Recursion
  <2>7. f = [n \in 0..Len(ks) |-> IF n = 0 THEN <<>> ELSE Body(n, f[n - 1])]
    <3>1. ASSUME NEW n \in 0..Len(ks), n # 0 PROVE f[n] = Body(n, f[n - 1])
      <4>1. n \in 1..Len(ks) /\ n - 1 \in 0..Len(ks)
        BY <1>1, <3>1
      <4>2. f[n - 1] \in T[n - 1] /\ f[n] = F[n][f[n - 1]]
        BY ONLY <2>6, <4>1 DEF Run
      <4> QED BY ONLY <2>3, <4>1, <4>2
    <3> QED BY ONLY <2>6, <3>1 DEF Run
  <2>8. Kept = [n \in 0..Len(ks) |-> IF n = 0 THEN <<>> ELSE Body(n, Kept[n - 1])]
    BY <2>7, Zenon
  <2> HIDE DEF Kept
  <2> PICK G : G = {n \in 0..Len(ks) : Kept[n] \in T[n]}
    OBVIOUS
  <2>9. 0 \in G
    BY <1>1, <2>4, <2>8
  <2>10. ASSUME NEW n \in 1..Len(ks), n - 1 \in G PROVE n \in G
    <3>1. n \in 0..Len(ks) /\ n # 0
      BY <1>1
    <3>2. Kept[n] = Body(n, Kept[n - 1])
      BY ONLY <2>8, <3>1
    <3>3. Kept[n - 1] \in T[n - 1]
      BY <2>10
    <3>4. Kept[n] \in T[n]
      BY ONLY <2>3, <2>10, <3>2, <3>3
    <3> QED BY <3>1, <3>4
  <2>11. \A n \in 0..Len(ks) : n \in G
    <3>1. \A n \in 1..Len(ks) : n - 1 \in G => n \in G
      BY ONLY <2>10
    <3>2. Len(ks) \in Nat
      BY <1>1
    <3> QED BY ONLY <2>9, <3>1, <3>2, UpTo
  <2>12. \A n \in 0..Len(ks) : Kept[n] \in Good(n)
    BY <2>11
  <2> QED BY <2>8, <2>12
<1>6. prune_before(ks, time) = Kept[Len(ks)]
  BY DEF prune_before, Body
<1> HIDE DEF Kept
<1> PICK r : r = prune_before(ks, time)
  OBVIOUS
<1>7. r \in Good(Len(ks))
  BY <1>1, <1>5, <1>6
<1>8. /\ r \in Seq(Messages) /\ Len(r) <= Len(ks) /\ Sorted(r)
      /\ \A x : Once(Len(ks), x) => AtMostOnce(r, x)
      /\ \A x : Twice(Len(ks), x) => AtMostTwice(r, x)
  BY <1>7 DEF Good
<1>9. Within(r, own)
  <2>1. \A x : /\ Once(Len(ks), x) <=> AtMostOnce(ks, x)
               /\ Twice(Len(ks), x) <=> AtMostTwice(ks, x)
    BY DEF AtMostOnce, AtMostTwice
  <2> QED BY <1>8, <2>1 DEF StoreOK, Within
<1>10. Len(r) <= MAX_RETAINED_KEYS
  BY <1>1, <1>8, StoreFacts
<1> QED BY <1>8, <1>9, <1>10 DEF StoreOK, Keeps

(* A device retains a key once itself, so the key is there at most twice.  *)
LEMMA RetainedFacts ==
    ASSUME NEW ks, NEW given \in SUBSET Messages, NEW own, StoreOK(ks, given, own),
           NEW m \in Messages, m \notin own, NEW r \in retain_key(ks, m)
    PROVE  StoreOK(r, given \cup {m}, own \cup {m})
<1>1. ks \in Seq(Messages) /\ Sorted(ks) /\ Keeps(ks, given) /\ Within(ks, own)
  BY DEF StoreOK
<1>2. PICK p : Fits(ks, p, m) /\ r = enforce_cap(InsertKey(ks, p, m))
  BY <1>1, SearchFacts DEF retain_key, Inserted
<1> PICK u : u = InsertKey(ks, p, m)
  OBVIOUS
<1>3. u \in Seq(Messages) /\ Sorted(u)
  BY <1>1, <1>2, InsertFacts
<1>4. Keeps(u, given \cup {m})
  BY <1>1, <1>2, InsertKeeps
<1>5. Within(u, own \cup {m})
  <2>1. AtMostOnce(ks, m)
    BY <1>1 DEF Within
  <2> QED BY <1>1, <1>2, <2>1, InsertCounts DEF Within
<1>6. Keeps(r, given \cup {m})
  <2>1. given \cup {m} \in SUBSET Messages
    OBVIOUS
  <2> QED BY <1>2, <1>3, <1>4, <2>1, CapFacts
<1>7. Within(r, own \cup {m})
  BY <1>2, <1>3, <1>5, CapFacts DEF Within
<1> QED BY <1>2, <1>3, <1>6, <1>7, CapFacts DEF StoreOK

LEMMA StoreLoads ==
    ASSUME IInv, NEW d \in Devices, NEW ks \in Store(d)
    PROVE  StoreOK(ks, offered[d], taken[d])
BY LoadedFacts DEF IInv, Store
-----------------------------------------------------------------------------
LEMMA InitIInv == Init => IInv
<1> SUFFICES ASSUME Init PROVE IInv
  OBVIOUS
<1> PICK e : e = <<>>
  OBVIOUS
<1>1. e \in Seq(Messages) /\ Len(e) = 0 /\ 0 <= MAX_RETAINED_KEYS
  BY EmptySeq, StoreAssumption
<1>2. Sorted(e) /\ Keeps(e, {}) /\ Within(e, {})
  BY <1>1 DEF Sorted, Keeps, Within, AtMostOnce, AtMostTwice
<1>3. \A d \in Devices : keys[d] = e /\ offered[d] = {} /\ taken[d] = {}
  BY DEF Init
<1>4. keys \in [Devices -> Seq(Messages)]
  BY <1>1 DEF Init
<1>5. TypeOK
  BY <1>1, <1>2, <1>3 DEF Init, TypeOK
<1> QED BY <1>1, <1>2, <1>3, <1>4, <1>5 DEF IInv, StoreOK, Init

(* A step changes the store of one device to one that is in order.         *)
LEMMA StoreChanges ==
    ASSUME IInv, NEW d \in Devices, NEW r, NEW given \in SUBSET Messages,
           NEW own \in SUBSET Messages, StoreOK(r, given, own),
           keys' = [keys EXCEPT ![d] = r], offered' = [offered EXCEPT ![d] = given],
           taken' = [taken EXCEPT ![d] = own],
           UNCHANGED <<history_sync_enabled, shares>>
    PROVE  IInv'
<1>1. \A c \in Devices : StoreOK(keys'[c], offered'[c], taken'[c])
  BY DEF IInv, TypeOK
<1>2. r \in Seq(Messages)
  BY DEF StoreOK
<1>3. keys' \in [Devices -> Seq(Messages)]
  BY <1>2 DEF IInv
<1>4. offered' \in [Devices -> SUBSET Messages]
  BY DEF IInv
<1>5. TypeOK'
  BY <1>1 DEF IInv, TypeOK, StoreOK
<1> QED BY <1>1, <1>3, <1>4, <1>5 DEF IInv

LEMMA NextIInv == IInv /\ [Next]_vars => IInv'
<1> SUFFICES ASSUME IInv, [Next]_vars PROVE IInv'
  OBVIOUS
<1>1. CASE UNCHANGED vars
  BY <1>1 DEF vars, IInv, TypeOK
<1>2. ASSUME NEW d \in Devices, enable_history_sync(d) \/ disable_history_sync(d)
      PROVE  IInv'
  <2>1. history_sync_enabled' \in [Devices -> BOOLEAN]
    BY <1>2 DEF IInv, TypeOK, enable_history_sync, disable_history_sync
  <2> QED BY <1>2, <2>1 DEF IInv, TypeOK, enable_history_sync, disable_history_sync
<1>3. ASSUME NEW d \in Devices, NEW m \in Messages, Take(d, m) PROVE IInv'
  <2>1. CASE history_sync_enabled[d]
    <3>0. PICK ks \in Store(d) : \E r \in retain_key(ks, m) : keys' = [keys EXCEPT ![d] = r]
      BY <1>3, <2>1 DEF Take
    <3>1. PICK r \in retain_key(ks, m) : keys' = [keys EXCEPT ![d] = r]
      BY <3>0
    <3>2. /\ m \notin taken[d] /\ offered' = [offered EXCEPT ![d] = offered[d] \cup {m}]
          /\ taken' = [taken EXCEPT ![d] = taken[d] \cup {m}]
          /\ UNCHANGED <<history_sync_enabled, shares>>
      BY <1>3, <2>1 DEF Take
    <3>3. /\ offered[d] \in SUBSET Messages /\ offered[d] \cup {m} \in SUBSET Messages
          /\ taken[d] \cup {m} \in SUBSET Messages
      BY DEF IInv, TypeOK
    <3>4. StoreOK(r, offered[d] \cup {m}, taken[d] \cup {m})
      BY <3>2, <3>3, StoreLoads, RetainedFacts
    <3> QED BY <3>1, <3>2, <3>3, <3>4, StoreChanges
  <2>2. CASE ~ history_sync_enabled[d]
    <3>1. UNCHANGED <<history_sync_enabled, keys, shares, offered>>
          /\ taken' = [taken EXCEPT ![d] = taken[d] \cup {m}]
      BY <1>3, <2>2 DEF Take
    <3>2. \A c \in Devices : taken[c] \subseteq taken'[c] /\ taken' \in [Devices -> SUBSET Messages]
      BY <3>1 DEF IInv, TypeOK
    <3>3. \A c \in Devices : StoreOK(keys[c], offered[c], taken'[c])
      BY <3>2 DEF IInv, StoreOK, Within
    <3> QED BY <3>1, <3>2, <3>3 DEF IInv, TypeOK
  <2> QED BY <2>1, <2>2
<1>4. ASSUME NEW d \in Devices, Share(d) PROVE IInv'
  <2>1. PICK ks \in Store(d) : shares' = shares \cup {[from |-> d, keys |-> ks]}
    BY <1>4 DEF Share
  <2>2. ks \in Seq(Messages)
    BY StoreLoads DEF StoreOK
  <2>3. \A share \in shares' : share.from \in Devices /\ share.keys \in Seq(Messages)
    BY <2>1, <2>2 DEF IInv, TypeOK
  <2> QED BY <1>4, <2>3 DEF Share, IInv, TypeOK
<1>5. ASSUME NEW d \in Devices, Merge(d) PROVE IInv'
  <2>0. PICK share \in shares, ks \in Store(d) : \E r \in merge(ks, share.keys) :
            /\ keys' = [keys EXCEPT ![d] = r]
            /\ offered' = [offered EXCEPT ![d] = offered[d] \cup Held(share.keys)]
            /\ UNCHANGED <<history_sync_enabled, taken, shares>>
    BY <1>5 DEF Merge
  <2>1. PICK r \in merge(ks, share.keys) :
            /\ keys' = [keys EXCEPT ![d] = r]
            /\ offered' = [offered EXCEPT ![d] = offered[d] \cup Held(share.keys)]
            /\ UNCHANGED <<history_sync_enabled, taken, shares>>
    BY <2>0
  <2>2. share.keys \in Seq(Messages) /\ Held(share.keys) \subseteq Messages
    BY StoreFacts DEF IInv, TypeOK
  <2>3. /\ offered[d] \in SUBSET Messages /\ taken[d] \in SUBSET Messages
        /\ offered[d] \cup Held(share.keys) \in SUBSET Messages
    BY <2>2 DEF IInv, TypeOK
  <2>4. StoreOK(ks, offered[d], taken[d])
    BY StoreLoads
  <2>5. StoreOK(r, offered[d] \cup Held(share.keys), taken[d])
    BY <2>2, <2>3, <2>4, MergedFacts DEF StoreOK
  <2>6. taken' = [taken EXCEPT ![d] = taken[d]]
    BY <2>1 DEF IInv, TypeOK
  <2> QED BY <2>1, <2>3, <2>5, <2>6, StoreChanges
<1>6. ASSUME NEW d \in Devices, NEW r, StoreOK(r, Held(r), taken[d]), Removed(d, r)
      PROVE  IInv'
  <2>1. Held(r) \in SUBSET Messages
    BY <1>6, StoreFacts DEF StoreOK
  <2>2. taken' = [taken EXCEPT ![d] = taken[d]] /\ taken[d] \in SUBSET Messages
    BY <1>6 DEF Removed, IInv, TypeOK
  <2> QED BY <1>6, <2>1, <2>2, StoreChanges DEF Removed
<1>7. ASSUME NEW d \in Devices, Prune(d) PROVE IInv'
  <2>1. PICK ks \in Store(d) : \E time : Removed(d, prune_before(ks, time))
    BY <1>7 DEF Prune
  <2>2. PICK time : Removed(d, prune_before(ks, time))
    BY <2>1
  <2>3. StoreOK(prune_before(ks, time), Held(prune_before(ks, time)), taken[d])
    BY StoreLoads, KeptFacts
  <2> QED BY <1>6, <2>2, <2>3
<1>8. ASSUME NEW d \in Devices, Clear(d) PROVE IInv'
  <2> PICK e : e = <<>>
    OBVIOUS
  <2>1. e \in Seq(Messages) /\ Len(e) = 0 /\ 0 <= MAX_RETAINED_KEYS
    BY EmptySeq, StoreAssumption
  <2>2. StoreOK(e, Held(e), taken[d])
    BY <2>1 DEF StoreOK, Sorted, Keeps, Within, AtMostOnce, AtMostTwice
  <2> QED BY <1>6, <1>8, <2>2 DEF Clear
<1> QED BY <1>1, <1>2, <1>3, <1>4, <1>5, <1>7, <1>8 DEF Next

LEMMA SpecIInv == Spec => []IInv
BY InitIInv, NextIInv, PTL DEF Spec

(* A store of distinct keys is full exactly when it holds that many.       *)
LEMMA DistinctCounts ==
    ASSUME NEW ks \in Seq(Messages), Distinct(ks)
    PROVE  IsFiniteSet(Held(ks)) /\ Cardinality(Held(ks)) = Len(ks)
<1>1. Len(ks) \in Nat
  BY StoreFacts
<1>2. ks \in Bijection(1..Len(ks), Held(ks))
  <2>1. ks \in [1..Len(ks) -> Held(ks)]
    <3>1. DOMAIN ks = 1..Len(ks) /\ \A i \in 1..Len(ks) : ks[i] \in Held(ks)
      BY StoreFacts
    <3>2. ks \in [1..Len(ks) -> Messages]
      BY LenProperties
    <3> QED BY <3>1, <3>2
  <2>2. \A x \in Held(ks) : \E i \in 1..Len(ks) : ks[i] = x
    BY StoreFacts
  <2>3. \A i, j \in 1..Len(ks) : ks[i] = ks[j] => i = j
    BY DEF Distinct
  <2> QED BY <2>1, <2>2, <2>3, Fun_IsBij
<1>3. IsFiniteSet(1..Len(ks)) /\ Cardinality(1..Len(ks)) = Len(ks)
  <2>1. 1 \in Int /\ Len(ks) \in Int /\ (IF 1 > Len(ks) THEN 0 ELSE Len(ks) - 1 + 1) = Len(ks)
    BY ONLY <1>1
  <2>2. /\ IsFiniteSet(1..Len(ks))
        /\ Cardinality(1..Len(ks)) = IF 1 > Len(ks) THEN 0 ELSE Len(ks) - 1 + 1
    BY ONLY <2>1, FS_Interval
  <2> QED BY ONLY <2>1, <2>2
<1> QED BY <1>2, <1>3, FS_Bijection DEF ExistsBijection

(* The retained keys are the most recent of what was given to the store    *)
(* since the last removal, or one message is there exactly twice and was   *)
(* both taken and merged: retain_key, merge, prune_before, clear and the   *)
(* reload of the blob, over every history of sharing.                      *)
THEOREM StoresKeepTheNewest == Spec => []MostRecentUnlessDoubled
<1>1. IInv => MostRecentUnlessDoubled
  <2> SUFFICES ASSUME IInv, NEW d \in Devices
               PROVE  IF Distinct(keys[d]) THEN MostRecent(d) ELSE DoubledOnlyIfTaken(d)
    BY DEF MostRecentUnlessDoubled, IInv
  <2> PICK ks : ks = keys[d]
    OBVIOUS
  <2>1. /\ ks \in Seq(Messages) /\ Len(ks) <= MAX_RETAINED_KEYS
        /\ Keeps(ks, offered[d]) /\ Within(ks, taken[d])
        /\ MAX_RETAINED_KEYS \in Nat /\ Len(ks) \in Nat
    BY StoreAssumption, StoreFacts DEF IInv, StoreOK
  <2>2. ASSUME Distinct(ks), NEW m \in offered[d] \ Held(ks)
        PROVE  /\ Cardinality(Held(ks)) = MAX_RETAINED_KEYS
               /\ \A n \in Held(ks) : sequence[n] >= sequence[m]
    <3>1. Newest(ks, sequence[m])
      BY <2>1, <2>2 DEF Keeps
    <3>2. Len(ks) = MAX_RETAINED_KEYS
      BY <2>1, <3>1 DEF Newest
    <3>3. \A i \in 1..Len(ks) : i > Len(ks) - MAX_RETAINED_KEYS
      BY <2>1, <3>2
    <3>4. \A n \in Held(ks) : sequence[n] >= sequence[m]
      BY <2>1, <3>1, <3>3, StoreFacts DEF Newest
    <3> QED BY <2>1, <2>2, <3>2, <3>4, DistinctCounts
  <2>3. ASSUME NEW i \in 1..Len(ks), NEW j \in 1..Len(ks), i # j, ks[i] = ks[j]
        PROVE  /\ ks[i] \in taken[d]
               /\ Cardinality({n \in 1..Len(ks) : ks[n] = ks[i]}) = 2
    <3>1. ks[i] \in taken[d] /\ AtMostTwice(ks, ks[i])
      BY <2>1, <2>3 DEF Within, AtMostOnce
    <3>2. {n \in 1..Len(ks) : ks[n] = ks[i]} = {i} \cup {j}
      BY <2>3, <3>1 DEF AtMostTwice
    <3>3. IsFiniteSet({i}) /\ Cardinality({i}) = 1
      BY FS_Singleton
    <3>4. j \notin {i}
      BY <2>3
    <3>5. Cardinality({i} \cup {j}) = Cardinality({i}) + 1
      BY ONLY <3>3, <3>4, FS_AddElement
    <3>6. Cardinality({n \in 1..Len(ks) : ks[n] = ks[i]}) = Cardinality({i} \cup {j})
      BY <3>2, Zenon
    <3> QED BY ONLY <3>1, <3>3, <3>5, <3>6
  <2> QED BY <2>2, <2>3 DEF MostRecent, DoubledOnlyIfTaken
<1> QED BY <1>1, SpecIInv, PTL

-----------------------------------------------------------------------------
(* WasmGroup.                                                              *)

(* The secret and the counter that a blob stands for.                      *)
SecretOf(b) == parse_cocoa_session_v2(b).epoch_secret
CounterOf(b) == parse_cocoa_session_v2(b).message_counter
Identity(b) == <<b.group_id, b.user_id>>

IsTuple(q) == Len(q) \in Nat /\ q = [n \in 1..Len(q) |-> q[n]]

BlobOK(b) ==
    /\ b \in [group_id : {0, 1}, user_id : WasmUsers, epoch_number : Nat,
              leaf_position : Nat, member_count : {b.member_count}, tree_depth : Nat,
              transcript_hash : {b.transcript_hash}, epoch_secret : {b.epoch_secret},
              message_counter : Nat, our_keypair : {b.our_keypair}]
    /\ b.leaf_position = IF b.group_id = 0 THEN LeafOf[b.user_id] ELSE 0
    /\ b.epoch_secret = NoSecret =>
          b.epoch_number = 0 /\ b.group_id = 0 /\ b.transcript_hash = Zeros

(* How an entry came to be: from a beginning, or by a step from another.   *)
Begins(e) ==
    /\ e.blob.epoch_number = 0
    /\ \/ SecretOf(e.blob) = <<"group", e.blob.group_id>>
          /\ e.steps = <<<<"group", e.blob.group_id>>>>
       \/ SecretOf(e.blob) = <<"legacy", Zeros>> /\ e.blob.group_id = 0
          /\ e.steps = <<<<"legacy", 0>>>>
Host(d) == <<"host", d>>
Drawing(u, n) == <<"drawn", u, n>>
IsHost(x) == \E d : x = Host(d)
IsDrawn(x, u) == \E n \in 1..draws : x = Drawing(u, n)
Mixed(x, root, transcript) ==
    \/ IsHost(x) /\ root = x /\ transcript = x
    \/ (\E u : IsDrawn(x, u)) /\ \E depth \in Nat : root = RootOf(x, depth)
Follows(e, p, x) ==
    /\ p.blob.group_id = e.blob.group_id /\ e.blob.epoch_number = p.blob.epoch_number + 1
    /\ e.steps = Append(p.steps, x)
    /\ IsHost(x) \/ IsDrawn(x, e.blob.user_id)
    /\ \E root, transcript :
          /\ SecretOf(e.blob) = <<"epoch", <<"init", SecretOf(p.blob)>>, root, transcript>>
          /\ Mixed(x, root, transcript)

OwnSteps(q, u) == \A n \in 2..Len(q) : IsHost(q[n]) \/ IsDrawn(q[n], u)
EntryOK(e) ==
    /\ e = [blob |-> e.blob, steps |-> e.steps]
    /\ BlobOK(e.blob) /\ IsTuple(e.steps)
    /\ OwnSteps(e.steps, e.blob.user_id)
    /\ Begins(e) \/ \E p \in stored : \E x : Follows(e, p, x)

(* The secret tells the epoch, the group and the steps; group 1 has one    *)
(* member.                                                                 *)
Agree(e, f) ==
    /\ SecretOf(e.blob) = SecretOf(f.blob) =>
          e.blob.epoch_number = f.blob.epoch_number /\ e.blob.group_id = f.blob.group_id
    /\ SecretOf(e.blob) = SecretOf(f.blob) <=> e.steps = f.steps
    /\ e.blob.group_id = 1 /\ f.blob.group_id = 1 => e.blob.user_id = f.blob.user_id
StoredOK ==
    /\ \A e \in stored : EntryOK(e)
    /\ \A e, f \in stored : Agree(e, f)

(* Where a host goes on from is where its watermark is.                    *)
LoadedOK ==
    /\ loaded = [i \in SessionIds |-> loaded[i]]
    /\ marks \in [SessionIds -> [epoch : Nat, counter : Nat]]
    /\ \A i \in SessionIds : IF ~ Live(i) THEN marks[i] = Start ELSE
          /\ loaded[i] \in stored
          /\ Identity(loaded[i].blob) = i /\ loaded[i].blob.epoch_secret # NoSecret
          /\ marks[i] = [epoch |-> loaded[i].blob.epoch_number,
                         counter |-> loaded[i].blob.message_counter]

(* A message was sealed by a session that was stored, below the watermark. *)
SealedBy(b, counter, text) ==
    [epoch |-> b.epoch_number, sender_leaf_position |-> b.leaf_position, counter |-> counter,
     ciphertext |-> seal(derive_message_key(derive(SecretOf(b)), b.leaf_position, counter),
                         [text |-> text],
                         aad(b.group_id, b.epoch_number, b.leaf_position, counter))]
TextOK(t) == \E e \in stored :
    /\ t.steps = e.steps /\ t.group = e.blob.group_id
    /\ Identity(e.blob) \in SessionIds
    /\ t.wire.counter \in Nat
    /\ \E text : t.wire = SealedBy(e.blob, t.wire.counter, text)
    /\ Below(marks[Identity(e.blob)], e.blob.epoch_number, t.wire.counter)

(* A commit arrives without its path, and its tag is about a root that no  *)
(* one can derive without it.                                              *)
WireOK(w) ==
    /\ w.wire.path_updates = << >> /\ w.wire.kind \in {"add", "update", "remove"}
    /\ \E delta, transcript, epoch :
          /\ w.wire.confirmation_tag = compute_confirmation_tag(delta, transcript, epoch)
          /\ delta # Zeros

WasmInv ==
    /\ draws \in Nat
    /\ StoredOK /\ LoadedOK
    /\ \A t \in texts : TextOK(t)
    /\ \A w \in wires : WireOK(w)
    /\ NoKeyTwice
-----------------------------------------------------------------------------
(* Chains of seeds.  The one that derive_path_seeds makes exists, and two   *)
(* meet only if they start alike.                                          *)
Chain(f, n, s) ==
    /\ f = [i \in 1..n |-> f[i]] /\ f[1] = s
    /\ \A i \in 2..n : f[i] = derive_h1_seed(f[i - 1])
Unhashed(s) == \A x : s # derive_h1_seed(x)

LEMMA Unhash == \A x, y : derive_h1_seed(x) = derive_h1_seed(y) => x = y
BY DEF derive_h1_seed

LEMMA ChainExists ==
    ASSUME NEW n \in Nat, NEW s
    PROVE  \E f : Chain(f, n + 1, s)
<1> PICK G : G = {i \in 0..n : \E f : Chain(f, i + 1, s)}
  OBVIOUS
<1>1. 0 \in G
  <2> PICK f : f = [i \in 1..(0 + 1) |-> s]
    OBVIOUS
  <2>1. Chain(f, 0 + 1, s)
    BY DEF Chain
  <2> QED BY <2>1
<1>2. \A i \in 1..n : i - 1 \in G => i \in G
  <2> SUFFICES ASSUME NEW i \in 1..n, i - 1 \in G PROVE i \in G
    OBVIOUS
  <2>1. PICK f : Chain(f, i, s)
    OBVIOUS
  <2> PICK g : g = [k \in 1..(i + 1) |-> IF k = i + 1 THEN derive_h1_seed(f[i]) ELSE f[k]]
    OBVIOUS
  <2>2. Chain(g, i + 1, s)
    <3>1. g[1] = s
      BY <2>1 DEF Chain
    <3>2. \A k \in 2..(i + 1) : g[k] = derive_h1_seed(g[k - 1])
      <4> TAKE k \in 2..(i + 1)
      <4>1. CASE k = i + 1
        BY <4>1
      <4>2. CASE k # i + 1
        <5>1. k \in 2..i /\ k \in 1..(i + 1) /\ k - 1 \in 1..(i + 1) /\ k - 1 # i + 1
          BY <4>2
        <5> QED BY <2>1, <4>2, <5>1 DEF Chain
      <4> QED BY <4>1, <4>2
    <3> QED BY <3>1, <3>2 DEF Chain
  <2> QED BY <2>2
<1>3. \A i \in 0..n : i \in G
  BY ONLY n \in Nat, <1>1, <1>2, UpTo
<1>4. n \in G
  BY <1>3
<1> QED BY <1>4

LEMMA SeedsChain ==
    ASSUME NEW n \in Nat, NEW s
    PROVE  Chain(derive_path_seeds(s, n + 1), n + 1, s)
<1> DEFINE Seeds[k \in 1..(n + 1)] == IF k = 1 THEN s ELSE derive_h1_seed(Seeds[k - 1])
<1>1. PICK f : Chain(f, n + 1, s)
  BY ChainExists
<1>2. f = [k \in 1..(n + 1) |-> IF k = 1 THEN s ELSE derive_h1_seed(f[k - 1])]
  <2>1. \A k \in 1..(n + 1) : f[k] = IF k = 1 THEN s ELSE derive_h1_seed(f[k - 1])
    BY <1>1 DEF Chain
  <2> HIDE DEF Seeds
  <2> QED BY <1>1, <2>1 DEF Chain
<1>3. Seeds = [k \in 1..(n + 1) |-> IF k = 1 THEN s ELSE derive_h1_seed(Seeds[k - 1])]
  BY <1>2, Zenon
<1>4. derive_path_seeds(s, n + 1) = Seeds
  BY DEF derive_path_seeds
<1> HIDE DEF Seeds
<1>5. Chain(Seeds, n + 1, s)
  BY <1>3 DEF Chain
<1> QED BY <1>4, <1>5

LEMMA ChainsMeet ==
    ASSUME NEW n \in Nat, NEW m \in Nat, NEW s, NEW t, NEW f, NEW g,
           Chain(f, n + 1, s), Chain(g, m + 1, t), Unhashed(s), Unhashed(t),
           f[n + 1] = g[m + 1]
    PROVE  s = t
<1> PICK G : G = {i \in 0..n : \A j \in 1..(m + 1) : f[i + 1] = g[j] => s = t}
  OBVIOUS
<1>1. 0 \in G
  <2>1. ASSUME NEW j \in 1..(m + 1), f[1] = g[j] PROVE s = t
    <3>1. CASE j = 1
      BY <2>1, <3>1 DEF Chain
    <3>2. CASE j # 1
      <4>1. j \in 2..(m + 1)
        BY <3>2
      <4> QED BY <2>1, <4>1 DEF Chain, Unhashed
    <3> QED BY <3>1, <3>2
  <2> QED BY <2>1
<1>2. \A i \in 1..n : i - 1 \in G => i \in G
  <2> SUFFICES ASSUME NEW i \in 1..n, i - 1 \in G, NEW j \in 1..(m + 1), f[i + 1] = g[j]
               PROVE  s = t
    OBVIOUS
  <2>1. f[i + 1] = derive_h1_seed(f[i])
    <3>1. i + 1 \in 2..(n + 1) /\ (i + 1) - 1 = i
      OBVIOUS
    <3> QED BY <3>1 DEF Chain
  <2>2. j # 1
    BY <2>1 DEF Chain, Unhashed
  <2>3. j - 1 \in 1..(m + 1) /\ g[j] = derive_h1_seed(g[j - 1])
    <3>1. j \in 2..(m + 1)
      BY <2>2
    <3> QED BY <3>1 DEF Chain
  <2>4. f[i] = g[j - 1]
    BY <2>1, <2>3, Unhash
  <2>5. (i - 1) + 1 = i
    OBVIOUS
  <2> QED BY <2>3, <2>4, <2>5
<1>3. \A i \in 0..n : i \in G
  BY ONLY n \in Nat, <1>1, <1>2, UpTo
<1>4. n \in G
  BY <1>3
<1> QED BY <1>4

(* What the root seed tells of the leaf seed.                              *)
LEMMA RootFacts ==
    ASSUME NEW u, NEW n, NEW L \in Nat, NEW v, NEW m, NEW M \in Nat, NEW d
    PROVE  /\ RootOf(Drawing(u, n), L) = RootOf(Drawing(v, m), M) =>
                  Drawing(u, n) = Drawing(v, m)
           /\ RootOf(Drawing(u, n), L) # Host(d)
           /\ RootOf(Drawing(u, n), L) # Zeros
<1>1. Unhashed(Drawing(u, n)) /\ Unhashed(Drawing(v, m))
  BY DEF Unhashed, Drawing, derive_h1_seed
<1>2. Chain(derive_path_seeds(Drawing(u, n), L + 1), L + 1, Drawing(u, n))
  BY SeedsChain
<1>3. Chain(derive_path_seeds(Drawing(v, m), M + 1), M + 1, Drawing(v, m))
  BY SeedsChain
<1>4. RootOf(Drawing(u, n), L) = RootOf(Drawing(v, m), M) => Drawing(u, n) = Drawing(v, m)
  BY <1>1, <1>2, <1>3, ChainsMeet DEF RootOf
<1>5. RootOf(Drawing(u, n), L) # Host(d) /\ RootOf(Drawing(u, n), L) # Zeros
  <2> PICK f : f = derive_path_seeds(Drawing(u, n), L + 1)
    OBVIOUS
  <2>1. f[L + 1] = Drawing(u, n) \/ \E x : f[L + 1] = derive_h1_seed(x)
    <3>1. CASE L = 0
      BY <1>2, <3>1 DEF Chain
    <3>2. CASE L # 0
      <4>1. L + 1 \in 2..(L + 1)
        BY <3>2
      <4>2. f[L + 1] = derive_h1_seed(f[(L + 1) - 1])
        BY <1>2, <4>1 DEF Chain
      <4> QED BY <4>2
    <3> QED BY <3>1, <3>2
  <2> QED BY <2>1 DEF RootOf, Drawing, Host, Zeros, derive_h1_seed
<1> QED BY <1>4, <1>5

LEMMA RootNotHost == \A u, n, d : \A L \in Nat : RootOf(Drawing(u, n), L) # Host(d)
BY RootFacts
LEMMA RootNotZeros == \A u, n : \A L \in Nat : RootOf(Drawing(u, n), L) # Zeros
BY RootFacts
LEMMA RootsMeet == \A u, n, v, m : \A L, M \in Nat :
    RootOf(Drawing(u, n), L) = RootOf(Drawing(v, m), M) => Drawing(u, n) = Drawing(v, m)
BY RootFacts
LEMMA Tags == \A x, u, n : IsHost(x) => x # Drawing(u, n)
BY DEF IsHost, Host, Drawing
-----------------------------------------------------------------------------
(* Sequences.                                                              *)
LEMMA TupleSeq ==
    ASSUME NEW q, IsTuple(q), NEW S, \A n \in 1..Len(q) : q[n] \in S
    PROVE  q \in Seq(S)
<1>1. q \in [1..Len(q) -> S]
  BY DEF IsTuple
<1> QED BY <1>1, SeqDef DEF IsTuple

LEMMA AppendFacts ==
    ASSUME NEW q, IsTuple(q), NEW x
    PROVE  /\ IsTuple(Append(q, x)) /\ Len(Append(q, x)) = Len(q) + 1
           /\ \A n \in 1..Len(q) : Append(q, x)[n] = q[n]
           /\ Append(q, x)[Len(q) + 1] = x
<1> PICK S : S = {q[n] : n \in 1..Len(q)} \cup {x}
  OBVIOUS
<1>1. q \in Seq(S) /\ x \in S
  BY TupleSeq
<1> PICK r : r = Append(q, x)
  OBVIOUS
<1>2. /\ r \in Seq(S) /\ Len(r) = Len(q) + 1 /\ r[Len(q) + 1] = x
      /\ \A n \in 1..Len(q) : r[n] = q[n]
  BY <1>1
<1>3. Len(r) \in Nat /\ r = [n \in 1..Len(r) |-> r[n]]
  BY <1>2, LenProperties
<1> QED BY <1>2, <1>3 DEF IsTuple

LEMMA AppendSame ==
    ASSUME NEW q, IsTuple(q), NEW x, NEW p, IsTuple(p), NEW y, Append(q, x) = Append(p, y)
    PROVE  q = p /\ x = y
<1>1. Len(q) + 1 = Len(p) + 1 /\ Len(q) \in Nat /\ Len(p) \in Nat
  BY AppendFacts DEF IsTuple
<1>2. Len(q) = Len(p)
  BY <1>1
<1>3. x = y
  BY <1>2, AppendFacts
<1>4. \A n \in 1..Len(q) : q[n] = p[n]
  BY <1>2, AppendFacts
<1>5. q = [n \in 1..Len(q) |-> q[n]] /\ p = [n \in 1..Len(q) |-> p[n]]
  BY <1>2 DEF IsTuple
<1> QED BY <1>3, <1>4, <1>5

LEMMA OneStep == \A x : IsTuple(<<x>>) /\ <<x>> = Append(<<>>, x) /\ IsTuple(<<>>)
BY DEF IsTuple
-----------------------------------------------------------------------------
(* Sessions and blobs.                                                     *)
IsSession(s) ==
    /\ s = [group_id |-> s.group_id, our_user_id |-> s.our_user_id,
            our_keypair |-> s.our_keypair, our_leaf_position |-> s.our_leaf_position,
            epoch |-> s.epoch, members |-> s.members, tree |-> s.tree]
    /\ s.epoch = [number |-> s.epoch.number, secrets |-> s.epoch.secrets,
                  message_counter |-> s.epoch.message_counter,
                  transcript_hash |-> s.epoch.transcript_hash]
    /\ s.tree = [tree_depth |-> s.tree.tree_depth, member_count |-> s.tree.member_count,
                 nodes |-> s.tree.nodes]
    /\ s.tree.tree_depth \in Nat

(* A session that stands where the one of a blob does, but for its counter *)
(* and what says nothing about messages.                                   *)
Stands(s, b) ==
    /\ IsSession(s)
    /\ s.group_id = b.group_id /\ s.our_user_id = b.user_id
    /\ s.our_leaf_position = b.leaf_position
    /\ s.epoch.number = b.epoch_number /\ s.epoch.secrets = derive(SecretOf(b))
    /\ s.epoch.transcript_hash = b.transcript_hash

LEMMA BlobFacts ==
    ASSUME NEW b, BlobOK(b)
    PROVE  /\ CounterOf(b) \in Nat
           /\ SecretOf(b) = IF b.epoch_secret # NoSecret THEN b.epoch_secret
                            ELSE <<"legacy", b.transcript_hash>>
           /\ b.epoch_secret # NoSecret => CounterOf(b) = b.message_counter
           /\ LET p == parse_cocoa_session_v2(b) IN
              /\ p.group_id = b.group_id /\ p.user_id = b.user_id
              /\ p.our_keypair = b.our_keypair /\ p.leaf_position = b.leaf_position
              /\ p.epoch_number = b.epoch_number /\ p.transcript_hash = b.transcript_hash
              /\ p.tree_depth = b.tree_depth /\ p.member_count = b.member_count
BY DEF BlobOK, SecretOf, CounterOf, parse_cocoa_session_v2

LEMMA RebuiltFacts ==
    ASSUME NEW b, BlobOK(b), NEW s, s = deserialize_cocoa_session(b)
    PROVE  /\ s # Refused /\ Stands(s, b)
           /\ s.epoch.message_counter = CounterOf(b)
           /\ s.members = {b.user_id} /\ s.tree.nodes = EmptyNodes
<1> PICK p : p = parse_cocoa_session_v2(b)
  OBVIOUS
<1> PICK r : r = restored(p)
  OBVIOUS
<1>1. p.message_counter \in Nat /\ p.message_counter = CounterOf(b)
  BY BlobFacts DEF CounterOf
<1>2. r = [group_id |-> b.group_id, our_user_id |-> b.user_id, our_keypair |-> b.our_keypair,
           our_leaf_position |-> b.leaf_position,
           epoch |-> [number |-> b.epoch_number, secrets |-> derive(SecretOf(b)),
                      message_counter |-> 0, transcript_hash |-> b.transcript_hash],
           members |-> {b.user_id},
           tree |-> [tree_depth |-> b.tree_depth, member_count |-> b.member_count,
                     nodes |-> EmptyNodes]]
  BY BlobFacts DEF restored, restore_session, restore_epoch, session_of, SecretOf
<1>3. s = set_message_counter(r, CounterOf(b))
  BY <1>1 DEF deserialize_cocoa_session
<1>4. s = [r EXCEPT !.epoch.message_counter = CounterOf(b)]
  BY <1>1, <1>2, <1>3 DEF set_message_counter
<1>5. b.tree_depth \in Nat
  BY DEF BlobOK
<1>6. s.group_id = b.group_id
  BY <1>2, <1>4
<1>7. s # Refused
  BY <1>2, <1>4 DEF Refused
<1>8. s = [group_id |-> b.group_id, our_user_id |-> b.user_id, our_keypair |-> b.our_keypair,
           our_leaf_position |-> b.leaf_position,
           epoch |-> [number |-> b.epoch_number, secrets |-> derive(SecretOf(b)),
                      message_counter |-> CounterOf(b), transcript_hash |-> b.transcript_hash],
           members |-> {b.user_id},
           tree |-> [tree_depth |-> b.tree_depth, member_count |-> b.member_count,
                     nodes |-> EmptyNodes]]
  <2> PICK e : e = [number |-> b.epoch_number, secrets |-> derive(SecretOf(b)),
                    message_counter |-> CounterOf(b), transcript_hash |-> b.transcript_hash]
    OBVIOUS
  <2>1. [r.epoch EXCEPT !.message_counter = CounterOf(b)] = e
    BY <1>2
  <2>2. s = [r EXCEPT !.epoch = e]
    BY <1>4, <2>1
  <2> QED BY <1>2, <2>2
<1>9. Stands(s, b)
  BY <1>5, <1>8 DEF Stands, IsSession
<1> QED BY <1>7, <1>8, <1>9

LEMMA WrittenFacts ==
    ASSUME NEW b, BlobOK(b), NEW s, Stands(s, b), s.epoch.message_counter \in Nat,
           SecretOf(b) # NoSecret, NEW c, c = serialize_cocoa_session(s)
    PROVE  /\ BlobOK(c) /\ SecretOf(c) = SecretOf(b) /\ c.epoch_secret # NoSecret
           /\ Identity(c) = Identity(b) /\ c.group_id = b.group_id /\ c.user_id = b.user_id
           /\ c.epoch_number = b.epoch_number /\ c.leaf_position = b.leaf_position
           /\ c.message_counter = s.epoch.message_counter
<1>1. c = [group_id |-> b.group_id, user_id |-> b.user_id, epoch_number |-> b.epoch_number,
           leaf_position |-> b.leaf_position, member_count |-> s.tree.member_count,
           tree_depth |-> s.tree.tree_depth, transcript_hash |-> b.transcript_hash,
           epoch_secret |-> SecretOf(b), message_counter |-> s.epoch.message_counter,
           our_keypair |-> s.our_keypair]
  BY DEF serialize_cocoa_session, Stands, derive, transcript_hash
<1>2. BlobOK(c)
  BY <1>1 DEF BlobOK, Stands, IsSession
<1>3. SecretOf(c) = SecretOf(b)
  BY <1>1, <1>2, BlobFacts
<1> QED BY <1>1, <1>2, <1>3 DEF Identity

LEMMA AdvancedFacts ==
    ASSUME NEW b, BlobOK(b), NEW s, Stands(s, b), NEW root, NEW transcript,
           NEW c, c = serialize_cocoa_session(advance_session(s, root, transcript))
    PROVE  /\ BlobOK(c) /\ c.epoch_secret # NoSecret
           /\ SecretOf(c) = <<"epoch", <<"init", SecretOf(b)>>, root, transcript>>
           /\ Identity(c) = Identity(b) /\ c.group_id = b.group_id /\ c.user_id = b.user_id
           /\ c.epoch_number = b.epoch_number + 1 /\ c.message_counter = 0
<1> PICK secret : secret = <<"epoch", <<"init", SecretOf(b)>>, root, transcript>>
  OBVIOUS
<1> PICK e : e = [number |-> b.epoch_number + 1, secrets |-> derive(secret),
                  message_counter |-> 0, transcript_hash |-> transcript]
  OBVIOUS
<1> PICK t : t = advance_session(s, root, transcript)
  OBVIOUS
<1>1. t = [s EXCEPT !.epoch = e]
  BY DEF advance_session, advance, restore_epoch, h5_epoch_secret, Stands, derive
<1>2. /\ t.group_id = b.group_id /\ t.our_user_id = b.user_id /\ t.epoch = e
      /\ t.our_leaf_position = b.leaf_position /\ t.tree = s.tree
      /\ t.our_keypair = s.our_keypair
  BY <1>1 DEF Stands, IsSession
<1>3. c = [group_id |-> b.group_id, user_id |-> b.user_id, epoch_number |-> b.epoch_number + 1,
           leaf_position |-> b.leaf_position, member_count |-> s.tree.member_count,
           tree_depth |-> s.tree.tree_depth, transcript_hash |-> transcript,
           epoch_secret |-> secret, message_counter |-> 0, our_keypair |-> s.our_keypair]
  <2>1. c = serialize_cocoa_session(t)
    OBVIOUS
  <2>2. /\ e.number = b.epoch_number + 1 /\ e.secrets.epoch_secret = secret
        /\ e.message_counter = 0 /\ e.transcript_hash = transcript
    BY DEF derive
  <2> QED BY ONLY <1>2, <2>1, <2>2 DEF serialize_cocoa_session, transcript_hash
<1>4. secret # NoSecret
  BY DEF NoSecret
<1>5. BlobOK(c)
  BY <1>3, <1>4 DEF BlobOK, Stands, IsSession
<1>6. SecretOf(c) = secret
  BY <1>3, <1>4, <1>5, BlobFacts
<1> QED BY <1>3, <1>4, <1>5, <1>6 DEF Identity

LEMMA EntrySecret == ASSUME NEW e, EntryOK(e) PROVE SecretOf(e.blob) # NoSecret
BY DEF EntryOK, Begins, Follows, NoSecret
-----------------------------------------------------------------------------
(* What a host keeps.                                                      *)
LEMMA FollowsOn ==
    ASSUME NEW e, NEW p, NEW x, Follows(e, p, x), draws \in Nat, draws' \in Nat, draws <= draws'
    PROVE  Follows(e, p, x)'
<1>1. \A u : IsDrawn(x, u) => IsDrawn(x, u)'
  BY DEF IsDrawn
<1>2. \A root, transcript : Mixed(x, root, transcript) => Mixed(x, root, transcript)'
  BY <1>1 DEF Mixed
<1> QED BY <1>1, <1>2 DEF Follows

LEMMA EntryOn ==
    ASSUME NEW e, EntryOK(e), draws \in Nat, draws' \in Nat, draws <= draws',
           stored \subseteq stored'
    PROVE  EntryOK(e)'
<1>1. \A x, u : IsDrawn(x, u) => IsDrawn(x, u)'
  BY DEF IsDrawn
<1>2. OwnSteps(e.steps, e.blob.user_id)'
  BY <1>1 DEF EntryOK, OwnSteps
<1>3. Begins(e) \/ \E p \in stored' : \E x : Follows(e, p, x)'
  BY FollowsOn DEF EntryOK
<1> QED BY <1>2, <1>3 DEF EntryOK

Known == StoredOK /\ LoadedOK /\ draws \in Nat
LEMMA KeepEntry ==
    ASSUME Known, NEW i \in SessionIds, NEW s, NEW steps, Keep(i, s, steps),
           draws' \in Nat, draws <= draws',
           NEW n, n = [blob |-> serialize_cocoa_session(s), steps |-> steps],
           BlobOK(n.blob), IsTuple(steps), n.blob.epoch_secret # NoSecret,
           OwnSteps(steps, n.blob.user_id)',
           Begins(n) \/ \E p \in stored : \E x : Follows(n, p, x)',
           \A f \in stored : Agree(n, f), Identity(n.blob) = i,
           ~ Below(marks[i], n.blob.epoch_number, n.blob.message_counter)
    PROVE  /\ Known' /\ stored' = stored \cup {n}
           /\ marks' = [marks EXCEPT ![i] = [epoch |-> n.blob.epoch_number,
                                             counter |-> n.blob.message_counter]]
<1>1. /\ stored' = stored \cup {n} /\ loaded' = [loaded EXCEPT ![i] = n]
      /\ marks' = [marks EXCEPT ![i] = [epoch |-> n.blob.epoch_number,
                                        counter |-> n.blob.message_counter]]
  BY DEF Keep, advanced, serialize_cocoa_session
<1>2. EntryOK(n)'
  BY <1>1 DEF EntryOK
<1>3. \A e \in stored' : EntryOK(e)'
  BY <1>1, <1>2, EntryOn DEF Known, StoredOK
<1>4. \A e, f \in stored' : Agree(e, f)
  <2>1. Agree(n, n)
    BY DEF Agree
  <2>2. \A f \in stored : Agree(f, n)
    BY DEF Agree
  <2> QED BY <1>1, <2>1, <2>2 DEF Known, StoredOK
<1>5. LoadedOK'
  <2>1. loaded' = [j \in SessionIds |-> loaded'[j]]
    BY <1>1 DEF Known, LoadedOK
  <2>2. marks' \in [SessionIds -> [epoch : Nat, counter : Nat]]
    BY <1>1 DEF Known, LoadedOK, BlobOK
  <2>3. ASSUME NEW j \in SessionIds
        PROVE  IF ~ Live(j)' THEN marks'[j] = Start ELSE
                 /\ loaded'[j] \in stored'
                 /\ Identity(loaded'[j].blob) = j /\ loaded'[j].blob.epoch_secret # NoSecret
                 /\ marks'[j] = [epoch |-> loaded'[j].blob.epoch_number,
                                 counter |-> loaded'[j].blob.message_counter]
    <3>1. CASE j = i
      <4>1. loaded'[i] = n /\ marks'[i] = [epoch |-> n.blob.epoch_number,
                                           counter |-> n.blob.message_counter]
        BY <1>1 DEF Known, LoadedOK
      <4>2. n # Nothing
        BY DEF Nothing
      <4> QED BY <1>1, <3>1, <4>1, <4>2 DEF Live
    <3>2. CASE j # i
      <4>1. loaded'[j] = loaded[j] /\ marks'[j] = marks[j] /\ (Live(j)' <=> Live(j))
        BY <1>1, <3>2 DEF Known, LoadedOK, Live
      <4> QED BY <1>1, <4>1 DEF Known, LoadedOK
    <3> QED BY <3>1, <3>2
  <2> QED BY <2>1, <2>2, <2>3 DEF LoadedOK
<1> QED BY <1>1, <1>3, <1>4, <1>5 DEF Known, StoredOK

(* The same secret again: sealed with, given another keypair or loaded.    *)
LEMMA KeepSame ==
    ASSUME Known, NEW i \in SessionIds, NEW e \in stored, Identity(e.blob) = i,
           NEW s, Stands(s, e.blob), s.epoch.message_counter \in Nat, Keep(i, s, e.steps),
           ~ Below(marks[i], s.epoch.number, s.epoch.message_counter),
           draws' \in Nat, draws <= draws'
    PROVE  /\ Known' /\ stored \subseteq stored'
           /\ marks' = [marks EXCEPT ![i] = [epoch |-> s.epoch.number,
                                             counter |-> s.epoch.message_counter]]
<1>1. EntryOK(e) /\ BlobOK(e.blob) /\ SecretOf(e.blob) # NoSecret
  BY EntrySecret DEF Known, StoredOK, EntryOK
<1> PICK n : n = [blob |-> serialize_cocoa_session(s), steps |-> e.steps]
  OBVIOUS
<1>2. /\ BlobOK(n.blob) /\ SecretOf(n.blob) = SecretOf(e.blob)
      /\ n.blob.epoch_secret # NoSecret
      /\ Identity(n.blob) = Identity(e.blob) /\ n.blob.group_id = e.blob.group_id
      /\ n.blob.user_id = e.blob.user_id /\ n.blob.epoch_number = e.blob.epoch_number
      /\ n.blob.message_counter = s.epoch.message_counter
  BY <1>1, WrittenFacts
<1>3. n.steps = e.steps /\ IsTuple(e.steps)
  BY <1>1 DEF EntryOK
<1>4. \A f \in stored : Agree(n, f)
  <2> TAKE f \in stored
  <2>1. Agree(e, f)
    BY DEF Known, StoredOK
  <2> QED BY <1>2, <1>3, <2>1 DEF Agree
<1>5. OwnSteps(e.steps, n.blob.user_id)'
  BY <1>1, <1>2 DEF EntryOK, OwnSteps, IsDrawn, Known
<1>6. Begins(n) \/ \E p \in stored : \E x : Follows(n, p, x)'
  <2>1. CASE Begins(e)
    BY <1>2, <1>3, <2>1 DEF Begins
  <2>2. ASSUME NEW p \in stored, NEW x, Follows(e, p, x) PROVE Follows(n, p, x)'
    <3>1. Follows(e, p, x)'
      BY <2>2, FollowsOn DEF Known
    <3> QED BY <1>2, <1>3, <3>1 DEF Follows
  <2> QED BY <1>1, <2>1, <2>2 DEF EntryOK
<1>7. s.epoch.number = n.blob.epoch_number
  BY <1>2 DEF Stands
<1>8. /\ Known' /\ stored' = stored \cup {n}
      /\ marks' = [marks EXCEPT ![i] = [epoch |-> n.blob.epoch_number,
                                        counter |-> n.blob.message_counter]]
  BY <1>2, <1>3, <1>4, <1>5, <1>6, <1>7, KeepEntry
<1> QED BY <1>2, <1>7, <1>8

(* A secret made of the last one, by what the host passed in or by a seed  *)
(* that was never drawn before.                                            *)
New(x, root, transcript) ==
    \/ IsHost(x) /\ root = x /\ transcript = x
    \/ \E u : x = Drawing(u, draws + 1) /\ \E depth \in Nat : root = RootOf(x, depth)

LEMMA RootsApart ==
    ASSUME NEW x, NEW root, NEW transcript, New(x, root, transcript), NEW y, NEW other,
           NEW another, Mixed(y, other, another), root = other
    PROVE  x = y
<1>1. CASE IsHost(x)
  <2>1. CASE IsHost(y)
    BY <1>1, <2>1, RootFacts DEF New, Mixed, IsHost, Host, Drawing, IsDrawn
  <2>2. CASE ~ IsHost(y)
    <3>1. PICK v : IsDrawn(y, v) /\ \E depth \in Nat : other = RootOf(y, depth)
      BY <2>2 DEF Mixed
    <3>2. PICK m \in 1..draws : y = Drawing(v, m)
      BY <3>1 DEF IsDrawn
    <3>3. PICK M \in Nat : other = RootOf(y, M)
      BY <3>1
    <3>4. PICK d : x = Host(d)
      BY <1>1 DEF IsHost
    <3>5. x # Drawing(v, m) /\ \A u : x # Drawing(u, draws + 1)
      BY <3>4 DEF Host, Drawing
    <3>6. root = Host(d)
      BY <3>4, <3>5 DEF New
    <3> QED BY <3>2, <3>3, <3>6, RootNotHost
  <2> QED BY <2>1, <2>2
<1>2. CASE ~ IsHost(x)
  <2>1. PICK u : x = Drawing(u, draws + 1) /\ \E depth \in Nat : root = RootOf(x, depth)
    BY <1>2 DEF New
  <2>2. PICK L \in Nat : root = RootOf(Drawing(u, draws + 1), L)
    BY <2>1
  <2>3. CASE IsHost(y) /\ other = y
    <3>1. PICK d : y = Host(d)
      BY <2>3 DEF IsHost
    <3> QED BY <2>2, <2>3, <3>1, RootNotHost
  <2>4. CASE (\E v : IsDrawn(y, v)) /\ \E depth \in Nat : other = RootOf(y, depth)
    <3>1. PICK v : IsDrawn(y, v)
      BY <2>4
    <3>2. PICK m \in 1..draws : y = Drawing(v, m)
      BY <3>1 DEF IsDrawn
    <3>3. PICK M \in Nat : other = RootOf(Drawing(v, m), M)
      BY <2>4, <3>2
    <3>4. Drawing(u, draws + 1) = Drawing(v, m)
      <4>1. RootOf(Drawing(u, draws + 1), L) = RootOf(Drawing(v, m), M)
        BY <2>2, <3>3
      <4> QED BY ONLY L \in Nat, M \in Nat, <4>1, RootsMeet
    <3> QED BY <2>1, <3>2, <3>4
  <2> QED BY <2>3, <2>4 DEF Mixed
<1> QED BY <1>1, <1>2

LEMMA NextAgrees ==
    ASSUME Known, NEW p \in stored, NEW n, NEW x, NEW root, NEW transcript,
           New(x, root, transcript),
           SecretOf(n.blob) = <<"epoch", <<"init", SecretOf(p.blob)>>, root, transcript>>,
           n.blob.group_id = p.blob.group_id, n.blob.user_id = p.blob.user_id,
           n.blob.epoch_number = p.blob.epoch_number + 1, n.steps = Append(p.steps, x),
           NEW f \in stored
    PROVE  Agree(n, f)
<1>1. Agree(p, f) /\ EntryOK(f) /\ IsTuple(p.steps)
  BY DEF Known, StoredOK, EntryOK
<1>2. CASE Begins(f)
  <2>1. SecretOf(n.blob) # SecretOf(f.blob)
    BY <1>2 DEF Begins
  <2>2. n.steps # f.steps
    <3>1. PICK y : f.steps = <<y>> /\ (y = <<"group", f.blob.group_id>> \/ y = <<"legacy", 0>>)
      BY <1>2 DEF Begins
    <3>2. x # y
      BY <3>1 DEF New, IsHost, Host, Drawing
    <3>3. f.steps = Append(<<>>, y) /\ IsTuple(<<>>)
      BY <3>1, OneStep
    <3>4. Append(p.steps, x) # Append(<<>>, y)
      <4>1. IsTuple(p.steps) /\ IsTuple(<<>>)
        BY ONLY <1>1, <3>3
      <4> QED BY ONLY <4>1, <3>2, AppendSame
    <3> QED BY <3>3, <3>4
  <2> QED BY <1>1, <2>1, <2>2 DEF Agree
<1>3. ASSUME NEW q \in stored, NEW y, Follows(f, q, y)
      PROVE  Agree(n, f)
  <2>1. Agree(p, q) /\ IsTuple(q.steps)
    BY DEF Known, StoredOK, EntryOK
  <2>2. /\ q.blob.group_id = f.blob.group_id /\ f.blob.epoch_number = q.blob.epoch_number + 1
        /\ f.steps = Append(q.steps, y)
    BY <1>3 DEF Follows
  <2>3. PICK other, another :
          /\ SecretOf(f.blob) = <<"epoch", <<"init", SecretOf(q.blob)>>, other, another>>
          /\ Mixed(y, other, another)
    BY <1>3 DEF Follows
  <2>4. ASSUME SecretOf(n.blob) = SecretOf(f.blob)
        PROVE  /\ n.blob.epoch_number = f.blob.epoch_number
               /\ n.blob.group_id = f.blob.group_id /\ n.steps = f.steps
    <3>1. SecretOf(p.blob) = SecretOf(q.blob) /\ root = other
      BY <2>3, <2>4
    <3>2. x = y
      BY <2>3, <3>1, RootsApart
    <3> QED BY <2>1, <2>2, <3>1, <3>2 DEF Agree
  <2>5. ASSUME n.steps = f.steps PROVE SecretOf(n.blob) = SecretOf(f.blob)
    <3>1. p.steps = q.steps /\ x = y
      <4>1. Append(p.steps, x) = Append(q.steps, y)
        BY <2>2, <2>5
      <4>2. IsTuple(p.steps) /\ IsTuple(q.steps)
        BY <1>1, <2>1
      <4> PICK before : before = p.steps
        OBVIOUS
      <4> PICK past : past = q.steps
        OBVIOUS
      <4>3. IsTuple(before) /\ IsTuple(past) /\ Append(before, x) = Append(past, y)
        BY ONLY <4>1, <4>2, before = p.steps, past = q.steps
      <4>4. before = past /\ x = y
        BY ONLY <4>3, AppendSame
      <4> QED BY ONLY <4>4, before = p.steps, past = q.steps
    <3>2. SecretOf(p.blob) = SecretOf(q.blob)
      BY <2>1, <3>1 DEF Agree
    <3>3. root = other /\ transcript = another
      <4>1. CASE IsHost(y)
        <5>1. PICK d : y = Host(d)
          BY <4>1 DEF IsHost
        <5>2. \A u, m : y # Drawing(u, m)
          BY <5>1 DEF Host, Drawing
        <5>3. root = y /\ transcript = y
          BY <3>1, <5>2 DEF New
        <5>4. other = y /\ another = y
          BY <2>3, <5>2 DEF Mixed, IsDrawn
        <5> QED BY <5>3, <5>4
      <4>2. CASE ~ IsHost(y)
        <5>1. PICK u : y = Drawing(u, draws + 1)
          BY <3>1, <4>2 DEF New
        <5>2. PICK v : IsDrawn(y, v)
          BY <2>3, <4>2 DEF Mixed
        <5>3. PICK m \in 1..draws : y = Drawing(v, m)
          BY <5>2 DEF IsDrawn
        <5>4. m = draws + 1
          BY <5>1, <5>3 DEF Drawing
        <5> QED BY <5>4 DEF Known
      <4> QED BY <4>1, <4>2
    <3> QED BY <2>3, <3>2, <3>3
  <2> QED BY <1>1, <2>4, <2>5 DEF Agree
<1> QED BY <1>1, <1>2, <1>3 DEF EntryOK

LEMMA KeepNext ==
    ASSUME Known, NEW i \in SessionIds, NEW e \in stored, Identity(e.blob) = i,
           marks[i].epoch = e.blob.epoch_number,
           NEW s, Stands(s, e.blob), NEW x, NEW root, NEW transcript, New(x, root, transcript),
           Keep(i, advance_session(s, root, transcript), Append(e.steps, x)),
           draws' \in Nat, draws <= draws', IsHost(x) \/ IsDrawn(x, i[2])'
    PROVE  /\ Known' /\ stored \subseteq stored'
           /\ marks' = [marks EXCEPT ![i] = [epoch |-> e.blob.epoch_number + 1, counter |-> 0]]
<1>1. EntryOK(e) /\ BlobOK(e.blob) /\ IsTuple(e.steps)
  BY DEF Known, StoredOK, EntryOK
<1> PICK steps : steps = Append(e.steps, x)
  OBVIOUS
<1> PICK n : n = [blob |-> serialize_cocoa_session(advance_session(s, root, transcript)),
                  steps |-> steps]
  OBVIOUS
<1>2. /\ BlobOK(n.blob) /\ n.blob.epoch_secret # NoSecret
      /\ SecretOf(n.blob) = <<"epoch", <<"init", SecretOf(e.blob)>>, root, transcript>>
      /\ Identity(n.blob) = Identity(e.blob) /\ n.blob.group_id = e.blob.group_id
      /\ n.blob.user_id = e.blob.user_id /\ n.blob.epoch_number = e.blob.epoch_number + 1
      /\ n.blob.message_counter = 0
  BY <1>1, AdvancedFacts
<1>3. n.steps = Append(e.steps, x) /\ IsTuple(steps)
  BY <1>1, AppendFacts
<1>4. \A f \in stored : Agree(n, f)
  BY <1>2, <1>3, NextAgrees
<1>5. i[2] = n.blob.user_id
  BY <1>2 DEF Identity
<1>6. OwnSteps(steps, n.blob.user_id)'
  <2> SUFFICES ASSUME NEW k \in 2..Len(steps)
               PROVE  IsHost(steps[k]) \/ IsDrawn(steps[k], n.blob.user_id)'
    BY DEF OwnSteps
  <2>1. Len(steps) = Len(e.steps) + 1 /\ Len(e.steps) \in Nat
    BY <1>1, AppendFacts DEF IsTuple
  <2>2. CASE k = Len(e.steps) + 1
    <3>1. steps[k] = x
      BY <1>1, <2>2, AppendFacts
    <3> QED BY <1>5, <3>1
  <2>3. CASE k # Len(e.steps) + 1
    <3>1. k \in 2..Len(e.steps) /\ k \in 1..Len(e.steps)
      BY <2>1, <2>3
    <3>2. steps[k] = e.steps[k]
      BY <1>1, <3>1, AppendFacts
    <3>3. IsHost(e.steps[k]) \/ IsDrawn(e.steps[k], e.blob.user_id)
      BY <1>1, <3>1 DEF EntryOK, OwnSteps
    <3> QED BY <1>2, <3>2, <3>3 DEF IsDrawn, Known
  <2> QED BY <2>2, <2>3
<1>7. Follows(n, e, x)'
  <2>1. Mixed(x, root, transcript)'
    BY Tags DEF New, Mixed
  <2>2. IsHost(x) \/ IsDrawn(x, n.blob.user_id)'
    BY <1>5
  <2> QED BY <1>2, <1>3, <2>1, <2>2 DEF Follows
<1>8. ~ Below(marks[i], n.blob.epoch_number, n.blob.message_counter)
  BY <1>1, <1>2 DEF Below, BlobOK
<1>9. /\ Known' /\ stored' = stored \cup {n}
      /\ marks' = [marks EXCEPT ![i] = [epoch |-> n.blob.epoch_number,
                                        counter |-> n.blob.message_counter]]
  <2> PICK t : t = advance_session(s, root, transcript)
    OBVIOUS
  <2>1. Keep(i, t, steps) /\ n = [blob |-> serialize_cocoa_session(t), steps |-> steps]
    OBVIOUS
  <2>2. Identity(n.blob) = i
    BY <1>2
  <2>3. Begins(n) \/ \E p \in stored : \E y : Follows(n, p, y)'
    BY <1>7
  <2> QED BY ONLY Known, i \in SessionIds, draws' \in Nat, draws <= draws',
             <1>2, <1>3, <1>4, <1>6, <1>8, <2>1, <2>2, <2>3, KeepEntry
<1> QED BY <1>2, <1>9

(* A session begins where its host holds none.                             *)
LEMMA KeepFirst ==
    ASSUME Known, NEW i \in SessionIds, Fresh(i), NEW s, IsSession(s),
           s.group_id = i[1], s.our_user_id = i[2],
           s.our_leaf_position = IF i[1] = 0 THEN LeafOf[i[2]] ELSE 0,
           s.epoch = initial_epoch(<<"group", i[1]>>, Zeros),
           i[1] = 1 => \A v \in WasmUsers : Fresh(<<1, v>>),
           Keep(i, s, <<<<"group", i[1]>>>>), draws' = draws
    PROVE  /\ Known' /\ stored \subseteq stored' /\ marks[i] = Start
           /\ marks' = [marks EXCEPT ![i] = Start]
<1>1. i[1] \in {0, 1} /\ i[2] \in WasmUsers /\ i = <<i[1], i[2]>>
  BY WasmAssumption
<1> PICK steps : steps = <<<<"group", i[1]>>>>
  OBVIOUS
<1> PICK n : n = [blob |-> serialize_cocoa_session(s), steps |-> steps]
  OBVIOUS
<1>2. n.blob = [group_id |-> i[1], user_id |-> i[2], epoch_number |-> 0,
                leaf_position |-> IF i[1] = 0 THEN LeafOf[i[2]] ELSE 0,
                member_count |-> s.tree.member_count, tree_depth |-> s.tree.tree_depth,
                transcript_hash |-> Zeros, epoch_secret |-> <<"group", i[1]>>,
                message_counter |-> 0, our_keypair |-> s.our_keypair]
  BY DEF serialize_cocoa_session, initial_epoch, restore_epoch, derive, transcript_hash
<1>3. <<"group", i[1]>> # NoSecret
  BY DEF NoSecret
<1>4. BlobOK(n.blob)
  BY <1>1, <1>2, <1>3, WasmAssumption DEF BlobOK, IsSession
<1>5. SecretOf(n.blob) = <<"group", i[1]>>
  BY <1>2, <1>3, <1>4, BlobFacts
<1>6. IsTuple(steps) /\ Len(steps) = 1 /\ n.steps = steps
  BY OneStep
<1>7. Begins(n)
  BY <1>2, <1>5, <1>6 DEF Begins
<1>8. \A f \in stored : Agree(n, f)
  <2> TAKE f \in stored
  <2>1. EntryOK(f) /\ BlobOK(f.blob)
    BY DEF Known, StoredOK, EntryOK
  <2>2. n.blob.group_id = 1 /\ f.blob.group_id = 1 => n.blob.user_id = f.blob.user_id
    BY <1>2, <2>1 DEF Fresh, BlobOK
  <2>3. CASE Begins(f)
    BY <1>2, <1>5, <1>6, <2>2, <2>3 DEF Begins, Agree
  <2>4. ASSUME NEW q \in stored, NEW y, Follows(f, q, y) PROVE Agree(n, f)
    <3>1. IsTuple(q.steps) /\ f.steps = Append(q.steps, y)
      BY <2>4 DEF Known, StoredOK, EntryOK, Follows
    <3>2. steps = Append(<<>>, <<"group", i[1]>>) /\ IsTuple(<<>>)
      BY OneStep
    <3>3. y # <<"group", i[1]>>
      BY <2>4 DEF Follows, IsHost, Host, IsDrawn, Drawing
    <3>4. steps # f.steps
      BY ONLY <3>1, <3>2, <3>3, AppendSame
    <3>5. SecretOf(f.blob) # <<"group", i[1]>>
      BY <2>4 DEF Follows
    <3> QED BY <1>5, <1>6, <2>2, <3>4, <3>5 DEF Agree
  <2> QED BY <2>1, <2>3, <2>4 DEF EntryOK
<1>9. marks[i] = Start
  <2>1. CASE Live(i)
    <3>1. loaded[i] \in stored /\ Identity(loaded[i].blob) = i
      BY <2>1 DEF Known, LoadedOK
    <3> QED BY <3>1 DEF Fresh, Identity
  <2> QED BY <2>1 DEF Known, LoadedOK
<1>10. ~ Below(marks[i], n.blob.epoch_number, n.blob.message_counter)
  BY <1>2, <1>9 DEF Below, Start
<1>11. Identity(n.blob) = i /\ n.blob.epoch_secret # NoSecret
  BY <1>1, <1>2, <1>3 DEF Identity
<1>12. OwnSteps(steps, n.blob.user_id)'
  BY <1>6 DEF OwnSteps
<1>13. /\ Known' /\ stored' = stored \cup {n}
       /\ marks' = [marks EXCEPT ![i] = [epoch |-> n.blob.epoch_number,
                                         counter |-> n.blob.message_counter]]
  <2>1. draws' \in Nat /\ draws <= draws'
    BY DEF Known
  <2> QED BY <1>4, <1>6, <1>7, <1>8, <1>10, <1>11, <1>12, <2>1, KeepEntry
<1> QED BY <1>2, <1>9, <1>13 DEF Start
-----------------------------------------------------------------------------
(* What was sent.                                                          *)
LEMMA TextOn ==
    ASSUME Known, NEW t, TextOK(t), stored \subseteq stored', NEW i \in SessionIds,
           NEW a \in Nat, NEW c \in Nat, ~ Below(marks[i], a, c),
           marks' = [marks EXCEPT ![i] = [epoch |-> a, counter |-> c]]
    PROVE  TextOK(t)'
<1>1. PICK e \in stored :
        /\ t.steps = e.steps /\ t.group = e.blob.group_id
        /\ Identity(e.blob) \in SessionIds /\ t.wire.counter \in Nat
        /\ \E text : t.wire = SealedBy(e.blob, t.wire.counter, text)
        /\ Below(marks[Identity(e.blob)], e.blob.epoch_number, t.wire.counter)
  BY DEF TextOK
<1> PICK j \in SessionIds : j = Identity(e.blob)
  BY <1>1
<1> PICK k : k = t.wire.counter
  OBVIOUS
<1>2. e.blob.epoch_number \in Nat /\ k \in Nat
  BY <1>1 DEF Known, StoredOK, EntryOK, BlobOK
<1>3. marks[j].epoch \in Nat /\ marks[j].counter \in Nat /\ marks[i].epoch \in Nat
      /\ marks[i].counter \in Nat
  BY DEF Known, LoadedOK
<1>4. Below(marks'[j], e.blob.epoch_number, k)
  <2>1. CASE j = i
    <3>1. marks'[i] = [epoch |-> a, counter |-> c]
      BY DEF Known, LoadedOK
    <3>2. Below(marks[i], e.blob.epoch_number, k)
      BY <1>1, <2>1
    <3> QED BY <1>2, <1>3, <2>1, <3>1, <3>2 DEF Below
  <2>2. CASE j # i
    <3>1. marks'[j] = marks[j]
      BY <2>2 DEF Known, LoadedOK
    <3> QED BY <1>1, <3>1
  <2> QED BY <2>1, <2>2
<1> QED BY <1>1, <1>4 DEF TextOK

(* A step that sends no message.                                           *)
LEMMA Quiet ==
    ASSUME WasmInv, NEW i \in SessionIds, NEW a \in Nat, NEW c \in Nat,
           ~ Below(marks[i], a, c), Known', stored \subseteq stored',
           marks' = [marks EXCEPT ![i] = [epoch |-> a, counter |-> c]],
           texts' = texts, \A w \in wires' : WireOK(w)
    PROVE  WasmInv'
<1>1. Known
  BY DEF WasmInv, Known
<1>2. \A t \in texts' : TextOK(t)'
  <2> TAKE t \in texts'
  <2>1. TextOK(t)
    BY DEF WasmInv
  <2> QED BY <1>1, <2>1, TextOn
<1>3. NoKeyTwice'
  BY DEF WasmInv, NoKeyTwice
<1> QED BY <1>2, <1>3 DEF WasmInv, Known

LEMMA LiveFacts ==
    ASSUME Known, NEW i \in SessionIds, Live(i), NEW s, s = session(i)
    PROVE  /\ loaded[i] \in stored /\ Identity(loaded[i].blob) = i /\ EntryOK(loaded[i])
           /\ Stands(s, loaded[i].blob)
           /\ i[1] = loaded[i].blob.group_id /\ i[2] = loaded[i].blob.user_id
           /\ s.epoch.message_counter \in Nat /\ s.epoch.number \in Nat
           /\ marks[i] = [epoch |-> s.epoch.number, counter |-> s.epoch.message_counter]
           /\ loaded[i].blob.epoch_number \in Nat
           /\ marks[i].epoch = loaded[i].blob.epoch_number
<1> PICK e : e = loaded[i]
  OBVIOUS
<1>1. /\ e \in stored /\ Identity(e.blob) = i /\ e.blob.epoch_secret # NoSecret
      /\ marks[i] = [epoch |-> e.blob.epoch_number, counter |-> e.blob.message_counter]
  BY DEF Known, LoadedOK
<1>2. EntryOK(e) /\ BlobOK(e.blob)
  BY <1>1 DEF Known, StoredOK, EntryOK
<1>3. s = deserialize_cocoa_session(e.blob)
  BY DEF session
<1>4. Stands(s, e.blob) /\ s.epoch.message_counter = CounterOf(e.blob)
  BY <1>2, <1>3, RebuiltFacts
<1>5. CounterOf(e.blob) = e.blob.message_counter /\ CounterOf(e.blob) \in Nat
  BY <1>1, <1>2, BlobFacts
<1>6. s.epoch.number = e.blob.epoch_number /\ e.blob.epoch_number \in Nat
  BY <1>2, <1>4 DEF Stands, BlobOK
<1> QED BY <1>1, <1>2, <1>4, <1>5, <1>6 DEF Identity
-----------------------------------------------------------------------------
(* Commits on the wire.                                                    *)
LEMMA SeedsLen ==
    ASSUME NEW n \in Nat, NEW s
    PROVE  Len(derive_path_seeds(s, n + 1)) = n + 1
<1> PICK f : f = derive_path_seeds(s, n + 1)
  OBVIOUS
<1> PICK S : S = {f[i] : i \in 1..(n + 1)}
  OBVIOUS
<1>1. f = [i \in 1..(n + 1) |-> f[i]]
  BY SeedsChain DEF Chain
<1>2. f \in [1..(n + 1) -> S] /\ n + 1 \in Nat
  BY <1>1
<1>3. f \in Seq(S) /\ DOMAIN f = 1..(n + 1)
  BY <1>2, SeqDef
<1>4. DOMAIN f = 1..Len(f) /\ Len(f) \in Nat
  BY <1>3, LenProperties
<1> QED BY <1>2, <1>3, <1>4

LEMMA CommitTags ==
    ASSUME NEW kind, NEW s, s.tree.tree_depth \in Nat, NEW id, NEW subject, NEW at, NEW u, NEW n,
           NEW key_sets, NEW c, c = build_commit(kind, s, id, subject, at, Drawing(u, n), key_sets)
    PROVE  /\ [c EXCEPT !.path_updates = << >>].kind = kind
           /\ [c EXCEPT !.path_updates = << >>].path_updates = << >>
           /\ \E delta, transcript, epoch :
                 /\ [c EXCEPT !.path_updates = << >>].confirmation_tag
                      = compute_confirmation_tag(delta, transcript, epoch)
                 /\ delta # Zeros
<1> PICK delta : delta = RootOf(Drawing(u, n), s.tree.tree_depth)
  OBVIOUS
<1>1. delta # Zeros
  BY RootNotZeros
<1> DEFINE seeds == derive_path_seeds(Drawing(u, n), s.tree.tree_depth + 1)
           top == derive_delta_root(seeds[Len(seeds)])
<1>2. top = delta
  BY SeedsLen DEF derive_delta_root, RootOf
<1> DEFINE change == [kind |-> kind, subject |-> subject]
           round == h3_round_hash(compute_root_label(top), RemovedUsers(change),
                                  AddedUsers(change))
           transcript == h3_transcript_hash(transcript_hash(s), round)
           path == build_path_updates(s.tree.tree_depth, s.our_leaf_position, seeds, key_sets)
           unsigned == [kind |-> kind, group_id |-> s.group_id, epoch |-> s.epoch.number + 1,
                        subject |-> subject, at |-> at,
                        committer_leaf_position |-> s.our_leaf_position,
                        path_updates |-> path, round_hash |-> round,
                        confirmation_tag |->
                            compute_confirmation_tag(top, transcript, s.epoch.number + 1)]
           signature == sign_commit(id, CommitContent(unsigned, id))
<1>3. c = [f \in DOMAIN unsigned \cup {"signature"} |->
              IF f = "signature" THEN signature ELSE unsigned[f]]
  BY DEF build_commit
<1> HIDE DEF top, round, transcript, path, signature, seeds
<1>4. /\ DOMAIN unsigned = {"kind", "group_id", "epoch", "subject", "at",
                            "committer_leaf_position", "path_updates", "round_hash",
                            "confirmation_tag"}
      /\ unsigned["kind"] = kind
      /\ unsigned["confirmation_tag"] =
           compute_confirmation_tag(top, transcript, s.epoch.number + 1)
  OBVIOUS
<1> HIDE DEF unsigned
<1>5. /\ DOMAIN c = DOMAIN unsigned \cup {"signature"} /\ c["kind"] = kind
      /\ c["confirmation_tag"] = compute_confirmation_tag(top, transcript, s.epoch.number + 1)
  BY <1>3, <1>4
<1>6. /\ [c EXCEPT !.path_updates = << >>].kind = kind
      /\ [c EXCEPT !.path_updates = << >>].path_updates = << >>
      /\ [c EXCEPT !.path_updates = << >>].confirmation_tag
           = compute_confirmation_tag(delta, transcript, s.epoch.number + 1)
  BY <1>2, <1>4, <1>5
<1> QED BY <1>1, <1>6

(* No session takes one.                                                   *)
LEMMA Unverified ==
    ASSUME NEW w, WireOK(w), NEW s, NEW tree, NEW id
    PROVE  ~ commit_verifies(s, tree, w.wire, id)
<1> SUFFICES ASSUME commit_verifies(s, tree, w.wire, id) PROVE FALSE
  OBVIOUS
<1>1. PICK delta, transcript, epoch :
        /\ w.wire.confirmation_tag = compute_confirmation_tag(delta, transcript, epoch)
        /\ delta # Zeros
  BY DEF WireOK
<1>2. PICK other \in delta_root_of(s, w.wire) :
        w.wire.confirmation_tag = compute_confirmation_tag(other,
            h3_transcript_hash(transcript_hash(s), w.wire.round_hash), w.wire.epoch)
  BY DEF commit_verifies
<1>3. other = delta
  BY <1>1, <1>2 DEF compute_confirmation_tag
<1>4. CASE w.wire.kind # "update"
  <2>1. delta_root_of(s, w.wire) = {Zeros}
    BY <1>4 DEF delta_root_of, WireOK
  <2> QED BY <1>1, <1>2, <1>3, <2>1
<1>5. CASE w.wire.kind = "update"
  <2>1. delta_root_of(s, w.wire) = apply_path_updates(<< >>, s.our_keypair)
    BY <1>5 DEF delta_root_of, WireOK
  <2>2. {n \in DOMAIN << >> : decrypt_seed(<< >>[n], s.our_keypair) # {}} = {}
    OBVIOUS
  <2>3. apply_path_updates(<< >>, s.our_keypair) = {}
    BY <2>2 DEF apply_path_updates
  <2> QED BY <1>2, <2>1, <2>3
<1> QED BY <1>4, <1>5

LEMMA ForeignRefused ==
    ASSUME NEW w, WireOK(w), NEW s, NEW id
    PROVE  /\ process_add(s, w.wire, id) = Refused
           /\ process_update(s, w.wire, id) = Refused
           /\ process_remove(s, w.wire, id) = Refused
BY Unverified DEF process_add, process_update, process_remove
-----------------------------------------------------------------------------
(* The steps.                                                              *)
LEMMA Stutter == WasmInv /\ UNCHANGED wasm_vars => WasmInv'
<1> SUFFICES ASSUME WasmInv, UNCHANGED wasm_vars PROVE WasmInv'
  OBVIOUS
<1>1. /\ stored' = stored /\ loaded' = loaded /\ marks' = marks /\ texts' = texts
      /\ wires' = wires /\ draws' = draws
  BY DEF wasm_vars
<1>2. StoredOK'
  <2>1. \A e \in stored : EntryOK(e)'
    BY <1>1, EntryOn DEF WasmInv, StoredOK
  <2> QED BY <1>1, <2>1 DEF WasmInv, StoredOK
<1>3. LoadedOK'
  BY <1>1 DEF WasmInv, LoadedOK, Live
<1>4. \A t \in texts' : TextOK(t)'
  BY <1>1 DEF WasmInv, TextOK
<1>5. NoKeyTwice'
  BY <1>1 DEF WasmInv, NoKeyTwice
<1> QED BY <1>1, <1>2, <1>3, <1>4, <1>5 DEF WasmInv

LEMMA StepCreate ==
    ASSUME WasmInv, NEW u \in WasmUsers, cocoa_create_group(u)
    PROVE  WasmInv'
<1> PICK i \in SessionIds : i = <<1, u>>
  BY DEF cocoa_create_group
<1> PICK s : s = create_session(1, u, own_key(u), 1, <<"group", 1>>)
  OBVIOUS
<1>1. /\ \A v \in WasmUsers : Fresh(<<1, v>>)
      /\ Keep(i, s, <<<<"group", 1>>>>)
      /\ texts' = texts /\ wires' = wires /\ draws' = draws
  BY DEF cocoa_create_group
<1>2. /\ IsSession(s) /\ s.group_id = 1 /\ s.our_user_id = u /\ s.our_leaf_position = 0
      /\ s.epoch = initial_epoch(<<"group", 1>>, Zeros)
  BY WasmAssumption DEF create_session, session_of, IsSession, initial_epoch, restore_epoch
<1>3. i[1] = 1 /\ i[2] = u /\ Fresh(i)
  BY <1>1
<1>4. Known
  BY DEF WasmInv, Known
<1>5. /\ Known' /\ stored \subseteq stored' /\ marks[i] = Start
      /\ marks' = [marks EXCEPT ![i] = Start]
  BY <1>1, <1>2, <1>3, <1>4, KeepFirst
<1>6. ~ Below(marks[i], 0, 0)
  BY <1>5 DEF Start, Below
<1> QED BY <1>1, <1>5, <1>6, Quiet DEF Start, WasmInv

LEMMA StepWelcome ==
    ASSUME WasmInv, NEW u \in WasmUsers, cocoa_process_welcome(u)
    PROVE  WasmInv'
<1> PICK i \in SessionIds : i = <<0, u>>
  BY DEF cocoa_process_welcome
<1> PICK s : s = join_group(0, u, own_key(u), LeafOf[u], depth_for_members(GroupSize),
                            GroupSize, <<"group", 0>>, Zeros)
  OBVIOUS
<1>1. /\ Fresh(i) /\ Keep(i, s, <<<<"group", 0>>>>)
      /\ texts' = texts /\ wires' = wires /\ draws' = draws
  BY DEF cocoa_process_welcome
<1>2. /\ IsSession(s) /\ s.group_id = 0 /\ s.our_user_id = u /\ s.our_leaf_position = LeafOf[u]
      /\ s.epoch = initial_epoch(<<"group", 0>>, Zeros)
  BY WasmAssumption DEF join_group, session_of, IsSession, initial_epoch, restore_epoch
<1>3. i[1] = 0 /\ i[2] = u
  OBVIOUS
<1>4. Known
  BY DEF WasmInv, Known
<1>5. /\ Known' /\ stored \subseteq stored' /\ marks[i] = Start
      /\ marks' = [marks EXCEPT ![i] = Start]
  BY <1>1, <1>2, <1>3, <1>4, KeepFirst
<1>6. ~ Below(marks[i], 0, 0)
  BY <1>5 DEF Start, Below
<1> QED BY <1>1, <1>5, <1>6, Quiet DEF Start, WasmInv

LEMMA StepLoad ==
    ASSUME WasmInv, NEW i \in SessionIds, cocoa_deserialize_checked(i)
    PROVE  WasmInv'
<1> PICK e \in stored : LET s == deserialize_cocoa_session_checked(e.blob, marks[i], i[1], i[2]) IN
        /\ s # Refused
        /\ Keep(i, s, e.steps)
        /\ UNCHANGED <<texts, wires, draws>>
  BY DEF cocoa_deserialize_checked
<1> PICK s : s = deserialize_cocoa_session_checked(e.blob, marks[i], i[1], i[2])
  OBVIOUS
<1> PICK p : p = parse_cocoa_session_v2(e.blob)
  OBVIOUS
<1>1. /\ s # Refused /\ Keep(i, s, e.steps) /\ draws' = draws
      /\ texts' = texts /\ wires' = wires
  OBVIOUS
<1>2. BlobOK(e.blob) /\ i = <<i[1], i[2]>> /\ Known
  BY WasmAssumption DEF WasmInv, Known, StoredOK, EntryOK
<1>3. /\ p.group_id = e.blob.group_id /\ p.user_id = e.blob.user_id
      /\ p.epoch_number = e.blob.epoch_number /\ p.message_counter = CounterOf(e.blob)
  BY <1>2, BlobFacts DEF CounterOf
<1>4. /\ p.group_id = i[1] /\ p.user_id = i[2]
      /\ ~ Below(marks[i], p.epoch_number, p.message_counter)
      /\ s = deserialize_cocoa_session(e.blob)
  BY <1>1 DEF deserialize_cocoa_session_checked, restore_session_checked,
              deserialize_cocoa_session
<1>5. Stands(s, e.blob) /\ s.epoch.message_counter = CounterOf(e.blob) /\ CounterOf(e.blob) \in Nat
  BY <1>2, <1>4, RebuiltFacts, BlobFacts
<1>6. Identity(e.blob) = i
  BY <1>2, <1>3, <1>4 DEF Identity
<1>7. s.epoch.number = e.blob.epoch_number /\ s.epoch.number \in Nat
  BY <1>2, <1>5 DEF Stands, BlobOK
<1>8. /\ s.epoch.message_counter \in Nat
      /\ ~ Below(marks[i], s.epoch.number, s.epoch.message_counter)
  BY <1>3, <1>4, <1>5, <1>7
<1>9. draws' \in Nat /\ draws <= draws'
  BY <1>1 DEF WasmInv
<1>10. /\ Known' /\ stored \subseteq stored'
       /\ marks' = [marks EXCEPT ![i] = [epoch |-> s.epoch.number,
                                         counter |-> s.epoch.message_counter]]
  BY <1>1, <1>2, <1>5, <1>6, <1>8, <1>9, KeepSame
<1> QED BY <1>1, <1>7, <1>8, <1>10, Quiet DEF WasmInv

LEMMA StepRotate ==
    ASSUME WasmInv, NEW i \in SessionIds, cocoa_rotate_keypair(i)
    PROVE  WasmInv'
<1> PICK s : s = session(i)
  OBVIOUS
<1> PICK e : e = loaded[i]
  OBVIOUS
<1> PICK t : t = rotate_keypair(s, <<"key", i[2], draws + 1>>)
  OBVIOUS
<1>1. /\ Live(i) /\ Keep(i, t, e.steps) /\ draws' = draws + 1
      /\ texts' = texts /\ wires' = wires
  BY DEF cocoa_rotate_keypair, Steps
<1>2. Known
  BY DEF WasmInv, Known
<1>3. /\ e \in stored /\ Identity(e.blob) = i /\ Stands(s, e.blob)
      /\ s.epoch.message_counter \in Nat /\ s.epoch.number \in Nat
      /\ marks[i] = [epoch |-> s.epoch.number, counter |-> s.epoch.message_counter]
  BY <1>1, <1>2, LiveFacts
<1>4. Stands(t, e.blob) /\ t.epoch = s.epoch
  BY <1>3 DEF rotate_keypair, Stands, IsSession
<1>5. ~ Below(marks[i], s.epoch.number, s.epoch.message_counter)
  BY <1>3 DEF Below
<1>6. draws' \in Nat /\ draws <= draws'
  BY <1>1 DEF WasmInv
<1>7. /\ Known' /\ stored \subseteq stored'
      /\ marks' = [marks EXCEPT ![i] = [epoch |-> s.epoch.number,
                                        counter |-> s.epoch.message_counter]]
  BY <1>1, <1>2, <1>3, <1>4, <1>5, <1>6, KeepSame
<1> QED BY <1>1, <1>3, <1>5, <1>7, Quiet DEF WasmInv

LEMMA StepAdvance ==
    ASSUME WasmInv, NEW i \in SessionIds, NEW d, cocoa_advance_epoch(i, d)
    PROVE  WasmInv'
<1> PICK s : s = session(i)
  OBVIOUS
<1> PICK e : e = loaded[i]
  OBVIOUS
<1> PICK next : next = e.blob.epoch_number + 1
  OBVIOUS
<1> PICK x : x = Host(d)
  OBVIOUS
<1>1. /\ Live(i) /\ Keep(i, advance_session(s, x, x), Append(e.steps, x)) /\ draws' = draws
      /\ texts' = texts /\ wires' = wires
  BY DEF cocoa_advance_epoch, Steps, Host
<1>2. Known
  BY DEF WasmInv, Known
<1>3. /\ e \in stored /\ Identity(e.blob) = i /\ Stands(s, e.blob)
      /\ e.blob.epoch_number \in Nat /\ marks[i].epoch = e.blob.epoch_number
  BY <1>1, <1>2, LiveFacts
<1>4. New(x, x, x) /\ IsHost(x)
  BY DEF New, IsHost
<1>5. draws' \in Nat /\ draws <= draws'
  BY <1>1 DEF WasmInv
<1>6. /\ Known' /\ stored \subseteq stored'
      /\ marks' = [marks EXCEPT ![i] = [epoch |-> next, counter |-> 0]]
  BY <1>1, <1>2, <1>3, <1>4, <1>5, KeepNext
<1>7. next \in Nat /\ ~ Below(marks[i], next, 0)
  BY <1>3 DEF Below
<1> QED BY <1>1, <1>3, <1>6, <1>7, Quiet DEF WasmInv

(* The committer's own commit, made of any session that stands where its   *)
(* blob does.                                                              *)
LEMMA StepCommit ==
    ASSUME WasmInv, NEW i \in SessionIds, Live(i), NEW s, Stands(s, loaded[i].blob),
           NEW c, NEW wire, Commit(i, s, c, wire),
           WireOK([wire |-> wire, seed |-> Drawn(i[2])])
    PROVE  WasmInv'
<1> PICK e : e = loaded[i]
  OBVIOUS
<1> PICK next : next = e.blob.epoch_number + 1
  OBVIOUS
<1> PICK x : x = Drawing(i[2], draws + 1)
  OBVIOUS
<1> PICK root : root = RootOf(x, s.tree.tree_depth)
  OBVIOUS
<1> PICK transcript : transcript = h3_transcript_hash(transcript_hash(s), c.round_hash)
  OBVIOUS
<1>1. /\ Keep(i, advance_session(s, root, transcript), Append(e.steps, x)) /\ draws' = draws + 1
      /\ texts' = texts /\ wires' = wires \cup {[wire |-> wire, seed |-> Drawn(i[2])]}
  BY DEF Commit, Steps, Drawn, Drawing
<1>2. Known
  BY DEF WasmInv, Known
<1>3. /\ e \in stored /\ Identity(e.blob) = i
      /\ e.blob.epoch_number \in Nat /\ marks[i].epoch = e.blob.epoch_number
  <2> PICK t : t = session(i)
    OBVIOUS
  <2> QED BY <1>2, LiveFacts
<1>4. New(x, root, transcript)
  BY DEF New, Stands, IsSession
<1>5. draws' \in Nat /\ draws <= draws' /\ draws + 1 \in 1..draws'
  BY <1>1 DEF WasmInv
<1>6. IsDrawn(x, i[2])'
  BY <1>5 DEF IsDrawn
<1>7. /\ Known' /\ stored \subseteq stored'
      /\ marks' = [marks EXCEPT ![i] = [epoch |-> next, counter |-> 0]]
  BY <1>1, <1>2, <1>3, <1>4, <1>5, <1>6, KeepNext
<1>8. next \in Nat /\ ~ Below(marks[i], next, 0)
  BY <1>3 DEF Below
<1>9. \A w \in wires' : WireOK(w)
  BY <1>1 DEF WasmInv
<1> QED BY <1>1, <1>3, <1>7, <1>8, <1>9, Quiet

LEMMA WireFacts ==
    ASSUME NEW kind \in {"add", "update", "remove"}, NEW s, s.tree.tree_depth \in Nat, NEW id,
           NEW subject, NEW at, NEW u, NEW key_sets, NEW c,
           c = build_commit(kind, s, id, subject, at, Drawn(u), key_sets), NEW seed
    PROVE  WireOK([wire |-> [c EXCEPT !.path_updates = << >>], seed |-> seed])
<1>1. c = build_commit(kind, s, id, subject, at, Drawing(u, draws + 1), key_sets)
  BY DEF Drawn, Drawing
<1> PICK wire : wire = [c EXCEPT !.path_updates = << >>]
  OBVIOUS
<1>2. /\ wire.kind = kind /\ wire.path_updates = << >>
      /\ \E delta, transcript, epoch :
            /\ wire.confirmation_tag = compute_confirmation_tag(delta, transcript, epoch)
            /\ delta # Zeros
  BY <1>1, CommitTags
<1> QED BY <1>2 DEF WireOK

LEMMA GrownFacts ==
    ASSUME NEW t, t.tree_depth \in Nat, NEW n,
           t = [tree_depth |-> t.tree_depth, member_count |-> t.member_count, nodes |-> t.nodes],
           NEW g, g = grow_if_needed(t, n)
    PROVE  /\ g = [tree_depth |-> g.tree_depth, member_count |-> g.member_count,
                   nodes |-> g.nodes]
           /\ g.tree_depth \in Nat
<1>1. \A other : [t EXCEPT !.tree_depth = @ + 1, !.nodes = other]
                   = [tree_depth |-> t.tree_depth + 1, member_count |-> t.member_count,
                      nodes |-> other]
  <2> TAKE other
  <2> PICK depth, count, nodes : depth = t.tree_depth /\ count = t.member_count /\ nodes = t.nodes
    OBVIOUS
  <2>1. t = [tree_depth |-> depth, member_count |-> count, nodes |-> nodes]
    OBVIOUS
  <2>2. [t EXCEPT !.tree_depth = @ + 1] =
          [tree_depth |-> depth + 1, member_count |-> count, nodes |-> nodes]
    BY ONLY <2>1
  <2>3. [t EXCEPT !.tree_depth = @ + 1, !.nodes = other] =
          [[t EXCEPT !.tree_depth = @ + 1] EXCEPT !.nodes = other]
    OBVIOUS
  <2>4. [[tree_depth |-> depth + 1, member_count |-> count, nodes |-> nodes]
             EXCEPT !.nodes = other] =
          [tree_depth |-> depth + 1, member_count |-> count, nodes |-> other]
    BY ONLY TRUE
  <2> QED BY <2>2, <2>3, <2>4
<1>2. \E other : grow_tree(t) = [tree_depth |-> t.tree_depth + 1,
                                 member_count |-> t.member_count, nodes |-> other]
  BY <1>1 DEF grow_tree
<1>3. g = t \/ g = grow_tree(t)
  BY DEF grow_if_needed
<1> QED BY <1>2, <1>3

LEMMA StepAdd ==
    ASSUME WasmInv, NEW i \in SessionIds, cocoa_add_member(i)
    PROVE  WasmInv'
<1> PICK s : s = session(i)
  OBVIOUS
<1> PICK at : at = s.tree.member_count
  OBVIOUS
<1> PICK g : g = grow_if_needed(s.tree, at + 1)
  OBVIOUS
<1> PICK grown : grown = [s EXCEPT !.tree = set_member_count(g, at + 1)]
  OBVIOUS
<1> PICK joined : joined = insert_member(grown, NewMember)
  OBVIOUS
<1> PICK c : c = build_commit("add", grown, i[2], NewMember, at, Drawn(i[2]),
                     compute_resolution_keys(grown.tree, s.our_leaf_position, {},
                                             OneTimeKey(NewMember, at)))
  OBVIOUS
<1>1. Live(i) /\ Commit(i, joined, c, serialize_add_commit(c))
  BY DEF cocoa_add_member
<1>2. Stands(s, loaded[i].blob)
  BY <1>1, LiveFacts DEF WasmInv, Known
<1>3. /\ g = [tree_depth |-> g.tree_depth, member_count |-> g.member_count, nodes |-> g.nodes]
      /\ g.tree_depth \in Nat
  BY <1>2, GrownFacts DEF Stands, IsSession
<1> PICK h : h = set_member_count(g, at + 1)
  OBVIOUS
<1>4. /\ h = [tree_depth |-> h.tree_depth, member_count |-> h.member_count, nodes |-> h.nodes]
      /\ h.tree_depth \in Nat /\ grown = [s EXCEPT !.tree = h]
  BY <1>3 DEF set_member_count
<1>5. Stands(grown, loaded[i].blob) /\ grown.tree.tree_depth \in Nat
  BY <1>2, <1>4 DEF Stands, IsSession
<1>6. Stands(joined, loaded[i].blob)
  BY <1>5 DEF Stands, IsSession, insert_member
<1>7. WireOK([wire |-> serialize_add_commit(c), seed |-> Drawn(i[2])])
  <2>1. grown.tree.tree_depth \in Nat /\ "add" \in {"add", "update", "remove"}
    BY ONLY <1>5
  <2>2. serialize_add_commit(c) = [c EXCEPT !.path_updates = << >>]
    BY ONLY DEF serialize_add_commit
  <2> PICK sets : sets = compute_resolution_keys(grown.tree, s.our_leaf_position, {}, OneTimeKey(NewMember, at))
    OBVIOUS
  <2>3. c = build_commit("add", grown, i[2], NewMember, at, Drawn(i[2]), sets)
    BY ONLY sets = compute_resolution_keys(grown.tree, s.our_leaf_position, {}, OneTimeKey(NewMember, at)),
            c = build_commit("add", grown, i[2], NewMember, at, Drawn(i[2]),
                     compute_resolution_keys(grown.tree, s.our_leaf_position, {},
                                             OneTimeKey(NewMember, at)))
  <2>4. WireOK([wire |-> [c EXCEPT !.path_updates = << >>], seed |-> Drawn(i[2])])
    BY ONLY <2>1, <2>3, WireFacts
  <2> QED BY ONLY <2>2, <2>4
<1> QED BY <1>1, <1>6, <1>7, StepCommit

LEMMA StepUpdate ==
    ASSUME WasmInv, NEW i \in SessionIds, cocoa_create_update(i)
    PROVE  WasmInv'
<1> PICK s : s = session(i)
  OBVIOUS
<1> PICK t : t = rotate_keypair(s, <<"key", i[2], draws + 1>>)
  OBVIOUS
<1> PICK c : c = build_commit("update", s, i[2], NewMember, s.our_leaf_position, Drawn(i[2]),
                     compute_resolution_keys(s.tree, s.our_leaf_position, {}, {}))
  OBVIOUS
<1>1. Live(i) /\ Commit(i, t, c, serialize_update_commit(c))
  BY DEF cocoa_create_update
<1>2. Stands(s, loaded[i].blob)
  BY <1>1, LiveFacts DEF WasmInv, Known
<1>3. Stands(t, loaded[i].blob) /\ s.tree.tree_depth \in Nat
  BY <1>2 DEF Stands, IsSession, rotate_keypair
<1>4. WireOK([wire |-> serialize_update_commit(c), seed |-> Drawn(i[2])])
  BY <1>3, WireFacts DEF serialize_update_commit
<1> QED BY <1>1, <1>3, <1>4, StepCommit

LEMMA StepRemove ==
    ASSUME WasmInv, NEW i \in SessionIds, cocoa_remove_member(i)
    PROVE  WasmInv'
<1> PICK s : s = session(i)
  OBVIOUS
<1> PICK v \in WasmUsers : Live(i) /\
        LET c == build_commit("remove", s, i[2], v, LeafOf[v], Drawn(i[2]),
                    compute_resolution_keys(s.tree, s.our_leaf_position, {}, {}))
        IN Commit(i, s, c, serialize_remove_commit(c))
  BY DEF cocoa_remove_member
<1> PICK c : c = build_commit("remove", s, i[2], v, LeafOf[v], Drawn(i[2]),
                     compute_resolution_keys(s.tree, s.our_leaf_position, {}, {}))
  OBVIOUS
<1>1. Live(i) /\ Commit(i, s, c, serialize_remove_commit(c))
  OBVIOUS
<1>2. Stands(s, loaded[i].blob) /\ s.tree.tree_depth \in Nat
  BY <1>1, LiveFacts DEF WasmInv, Known, Stands, IsSession
<1>3. WireOK([wire |-> serialize_remove_commit(c), seed |-> Drawn(i[2])])
  BY <1>2, WireFacts DEF serialize_remove_commit
<1> QED BY <1>1, <1>2, <1>3, StepCommit

(* A step of others, that hands a commit to the server.                    *)
LEMMA StepNative ==
    ASSUME WasmInv, NEW kind \in {"add", "update", "remove"}, NEW v \in WasmUsers,
           native_commit(kind, v)
    PROVE  WasmInv'
<1> PICK s : s = native_session
  OBVIOUS
<1> PICK g : g = IF kind = "add" THEN grow_if_needed(s.tree, GroupSize + 1) ELSE s.tree
  OBVIOUS
<1> PICK grown : grown = [s EXCEPT !.tree = g]
  OBVIOUS
<1> PICK c : \E subject, at, key_sets :
        /\ c = build_commit(kind, grown, NewMember, subject, at, Drawn(NewMember), key_sets)
        /\ wires' = wires \cup {[seed |-> Drawn(NewMember), wire |->
              CASE kind = "add" -> serialize_add_commit(c)
                [] kind = "update" -> serialize_update_commit(c)
                [] kind = "remove" -> serialize_remove_commit(c)]}
  BY DEF native_commit
<1>1. /\ draws' = draws + 1
      /\ stored' = stored /\ loaded' = loaded /\ marks' = marks /\ texts' = texts
  BY DEF native_commit
<1>2. grown.tree.tree_depth \in Nat
  <2>1. s.tree = native_tree /\ DOMAIN s = {"group_id", "our_user_id", "our_keypair",
                                            "our_leaf_position", "epoch", "members", "tree"}
    BY DEF native_session, join_group, session_of
  <2>2. /\ native_tree = [tree_depth |-> native_tree.tree_depth,
                          member_count |-> native_tree.member_count,
                          nodes |-> native_tree.nodes]
        /\ native_tree.tree_depth \in Nat
    BY WasmAssumption DEF native_tree
  <2>3. g.tree_depth \in Nat
    BY <2>1, <2>2, GrownFacts
  <2> QED BY <2>1, <2>3
<1>3. [seed |-> Drawn(NewMember), wire |-> [c EXCEPT !.path_updates = << >>]] =
      [wire |-> [c EXCEPT !.path_updates = << >>], seed |-> Drawn(NewMember)]
  OBVIOUS
<1>4. WireOK([seed |-> Drawn(NewMember), wire |-> [c EXCEPT !.path_updates = << >>]])
  <2> PICK subject, at, key_sets :
        c = build_commit(kind, grown, NewMember, subject, at, Drawn(NewMember), key_sets)
    OBVIOUS
  <2>1. WireOK([wire |-> [c EXCEPT !.path_updates = << >>], seed |-> Drawn(NewMember)])
    BY ONLY <1>2, kind \in {"add", "update", "remove"}, WireFacts,
            c = build_commit(kind, grown, NewMember, subject, at, Drawn(NewMember), key_sets)
  <2> QED BY <1>3, <2>1
<1>5. \A w \in wires' : WireOK(w)
  BY <1>4 DEF WasmInv, serialize_add_commit, serialize_update_commit, serialize_remove_commit
<1>6. draws' \in Nat /\ draws <= draws'
  BY <1>1 DEF WasmInv
<1>7. StoredOK'
  <2>1. \A e \in stored : EntryOK(e)'
    BY <1>1, <1>6, EntryOn DEF WasmInv, StoredOK
  <2> QED BY <1>1, <2>1 DEF WasmInv, StoredOK
<1>8. LoadedOK'
  BY <1>1 DEF WasmInv, LoadedOK, Live
<1>9. (\A t \in texts' : TextOK(t)') /\ NoKeyTwice'
  BY <1>1 DEF WasmInv, TextOK, NoKeyTwice
<1> QED BY <1>5, <1>6, <1>7, <1>8, <1>9 DEF WasmInv

LEMMA StepProcess ==
    ASSUME WasmInv, NEW i \in SessionIds,
           cocoa_process_add(i) \/ cocoa_process_update(i) \/ cocoa_process_remove(i)
    PROVE  WasmInv'
<1>1. \E w \in wires : Process(i, w, Refused)
  <2>1. \A w \in wires :
          /\ process_add(session(i), w.wire, Named(w)) = Refused
          /\ process_update(session(i), w.wire, Named(w)) = Refused
          /\ process_remove(session(i), w.wire, Named(w)) = Refused
    BY ForeignRefused DEF WasmInv
  <2> QED BY <2>1 DEF cocoa_process_add, cocoa_process_update, cocoa_process_remove
<1>2. UNCHANGED wasm_vars
  BY <1>1 DEF Process, wasm_vars
<1> QED BY <1>2, Stutter

LEMMA StepEncrypt ==
    ASSUME WasmInv, NEW i \in SessionIds, cocoa_encrypt(i)
    PROVE  WasmInv'
<1> PICK s : s = session(i)
  OBVIOUS
<1> PICK e : e = loaded[i]
  OBVIOUS
<1> PICK text : text = Cardinality(texts)
  OBVIOUS
<1> PICK out : out = encrypt(s, [text |-> text])
  OBVIOUS
<1> PICK new : new = [wire |-> out[2], group |-> i[1], steps |-> e.steps]
  OBVIOUS
<1> PICK k : k = s.epoch.message_counter
  OBVIOUS
<1>1. /\ Live(i) /\ Keep(i, out[1], e.steps) /\ draws' = draws
      /\ texts' = texts \cup {new} /\ wires' = wires
  BY DEF cocoa_encrypt, Steps
<1>2. Known
  BY DEF WasmInv, Known
<1>3. /\ e \in stored /\ Identity(e.blob) = i /\ Stands(s, e.blob)
      /\ i[1] = e.blob.group_id
      /\ k \in Nat /\ s.epoch.number \in Nat
      /\ marks[i] = [epoch |-> s.epoch.number, counter |-> k]
  BY <1>1, <1>2, LiveFacts
<1> PICK t : t = out[1]
  OBVIOUS
<1> PICK b : b = e.blob
  OBVIOUS
<1>4. /\ out = <<t, out[2]>>
      /\ t = [s EXCEPT !.epoch = [s.epoch EXCEPT !.message_counter = @ + 1]]
      /\ out[2] = SealedBy(b, k, text)
  BY <1>3 DEF encrypt, next_message_key, derive_message_key, SealedBy, Stands
<1>5. Stands(t, b) /\ t.epoch.message_counter = k + 1 /\ t.epoch.number = s.epoch.number
  BY <1>3, <1>4 DEF Stands, IsSession
<1>6. k + 1 \in Nat /\ ~ Below(marks[i], s.epoch.number, k + 1)
  BY <1>3 DEF Below
<1>7. draws' \in Nat /\ draws <= draws'
  BY <1>1 DEF WasmInv
<1>8. /\ Known' /\ stored \subseteq stored'
      /\ marks' = [marks EXCEPT ![i] = [epoch |-> s.epoch.number, counter |-> k + 1]]
  BY <1>1, <1>2, <1>3, <1>5, <1>6, <1>7, KeepSame
<1>9. new.wire = SealedBy(b, k, text) /\ new.wire.counter = k
  BY <1>4 DEF SealedBy
<1>10. TextOK(new)'
  <2>1. marks'[i] = [epoch |-> s.epoch.number, counter |-> k + 1]
    BY <1>2, <1>8 DEF Known, LoadedOK
  <2>2. Below(marks'[i], b.epoch_number, k)
    BY <1>3, <2>1 DEF Below, Stands
  <2>3. e \in stored' /\ new.steps = e.steps /\ new.group = b.group_id
    BY <1>3, <1>8
  <2> QED BY <1>3, <1>9, <2>2, <2>3 DEF TextOK
<1>11. \A v \in texts : TextOK(v)'
  <2> TAKE v \in texts
  <2>1. TextOK(v)
    BY DEF WasmInv
  <2> QED BY <1>2, <1>3, <1>6, <1>8, <2>1, TextOn
(* An older text with the same key was sealed by the same identity in the  *)
(* same epoch, with a counter below.                                       *)
<1>12. ASSUME NEW v \in texts, v.wire.ciphertext.key = new.wire.ciphertext.key
       PROVE  FALSE
  <2>1. PICK f \in stored :
          /\ \E other : v.wire = SealedBy(f.blob, v.wire.counter, other)
          /\ Below(marks[Identity(f.blob)], f.blob.epoch_number, v.wire.counter)
    BY DEF WasmInv, TextOK
  <2>2. /\ v.wire.ciphertext.key = <<"key", <<"app", SecretOf(f.blob)>>,
                                     f.blob.leaf_position, v.wire.counter>>
        /\ new.wire.ciphertext.key = <<"key", <<"app", SecretOf(b)>>, b.leaf_position, k>>
    BY <1>9, <2>1 DEF SealedBy, seal, derive_message_key, derive
  <2>3. /\ SecretOf(f.blob) = SecretOf(b) /\ f.blob.leaf_position = b.leaf_position
        /\ v.wire.counter = k
    BY <1>12, <2>2
  <2>4. Agree(f, e) /\ BlobOK(f.blob) /\ BlobOK(b)
    BY <1>2, <1>3 DEF Known, StoredOK, EntryOK
  <2>5. f.blob.epoch_number = b.epoch_number /\ f.blob.group_id = b.group_id
    BY <2>3, <2>4 DEF Agree
  <2>6. f.blob.user_id = b.user_id
    <3>1. f.blob.user_id \in WasmUsers /\ b.user_id \in WasmUsers /\ b.group_id \in {0, 1}
      BY <2>4 DEF BlobOK
    <3>2. CASE b.group_id = 0
      <4>1. /\ f.blob.leaf_position = LeafOf[f.blob.user_id]
            /\ b.leaf_position = LeafOf[b.user_id]
        BY <2>4, <2>5, <3>2 DEF BlobOK
      <4> QED BY <2>3, <3>1, <4>1, WasmAssumption
    <3>3. CASE b.group_id = 1
      BY <2>4, <2>5, <3>3 DEF Agree
    <3> QED BY <3>1, <3>2, <3>3
  <2>7. Identity(f.blob) = i
    BY <1>3, <2>5, <2>6 DEF Identity
  <2>8. Below(marks[i], s.epoch.number, k)
    BY <1>3, <2>1, <2>3, <2>5, <2>7 DEF Stands
  <2> QED BY <1>3, <2>8 DEF Below
<1>13. NoKeyTwice'
  BY <1>1, <1>12 DEF WasmInv, NoKeyTwice
<1> QED BY <1>1, <1>7, <1>8, <1>10, <1>11, <1>13 DEF WasmInv, Known
-----------------------------------------------------------------------------
LEMMA WasmInitInv == WasmInit => WasmInv
<1> SUFFICES ASSUME WasmInit PROVE WasmInv
  OBVIOUS
<1> PICK users \in SUBSET LegacyUsers : stored = {legacy(u) : u \in users}
  BY DEF WasmInit
<1>1. ASSUME NEW u \in users
      PROVE  /\ legacy(u).blob.group_id = 0 /\ legacy(u).steps = <<<<"legacy", 0>>>>
             /\ legacy(u).blob.epoch_number = 0 /\ BlobOK(legacy(u).blob)
             /\ SecretOf(legacy(u).blob) = <<"legacy", Zeros>>
             /\ legacy(u) = [blob |-> legacy(u).blob, steps |-> legacy(u).steps]
  <2>1. u \in WasmUsers
    BY WasmAssumption
  <2>2. serialize_cocoa_session(join_group(0, u, own_key(u), LeafOf[u],
            depth_for_members(GroupSize), GroupSize, <<"group", 0>>, Zeros)) =
          [group_id |-> 0, user_id |-> u, epoch_number |-> 0,
           leaf_position |-> LeafOf[u], member_count |-> GroupSize,
           tree_depth |-> depth_for_members(GroupSize), transcript_hash |-> Zeros,
           epoch_secret |-> <<"group", 0>>, message_counter |-> 0, our_keypair |-> own_key(u)]
    BY DEF serialize_cocoa_session, join_group, session_of, initial_epoch, restore_epoch,
           derive, transcript_hash
  <2>3. legacy(u).blob =
          [group_id |-> 0, user_id |-> u, epoch_number |-> 0,
           leaf_position |-> LeafOf[u], member_count |-> GroupSize,
           tree_depth |-> depth_for_members(GroupSize), transcript_hash |-> Zeros,
           epoch_secret |-> NoSecret, message_counter |-> 0, our_keypair |-> own_key(u)]
    BY <2>2 DEF legacy
  <2>4. BlobOK(legacy(u).blob)
    BY <2>1, <2>3, WasmAssumption DEF BlobOK
  <2>5. SecretOf(legacy(u).blob) = <<"legacy", Zeros>>
    BY <2>3, <2>4, BlobFacts
  <2> QED BY <2>3, <2>4, <2>5 DEF legacy
<1>2. \A e \in stored : EntryOK(e)
  <2> TAKE e \in stored
  <2>1. PICK u \in users : e = legacy(u)
    OBVIOUS
  <2>2. IsTuple(e.steps) /\ Len(e.steps) = 1 /\ e.steps = <<<<"legacy", 0>>>>
    <3>1. e.steps = <<<<"legacy", 0>>>>
      BY <1>1, <2>1
    <3>2. IsTuple(<<<<"legacy", 0>>>>) /\ Len(<<<<"legacy", 0>>>>) = 1
      BY ONLY OneStep
    <3> QED BY <3>1, <3>2
  <2>3. Begins(e)
    BY <1>1, <2>1, <2>2 DEF Begins
  <2>4. OwnSteps(e.steps, e.blob.user_id)
    BY <2>2 DEF OwnSteps
  <2> QED BY <1>1, <2>1, <2>2, <2>3, <2>4 DEF EntryOK
<1>3. \A e, f \in stored : Agree(e, f)
  BY <1>1 DEF Agree
<1>4. LoadedOK
  BY DEF WasmInit, LoadedOK, Live, Start
<1> QED BY <1>2, <1>3, <1>4 DEF WasmInit, WasmInv, StoredOK, NoKeyTwice

LEMMA WasmNextInv == WasmInv /\ [WasmNext]_wasm_vars => WasmInv'
<1> SUFFICES ASSUME WasmInv, [WasmNext]_wasm_vars PROVE WasmInv'
  OBVIOUS
<1>1. ASSUME NEW u \in WasmUsers, cocoa_create_group(u) PROVE WasmInv'
  BY <1>1, StepCreate
<1>2. ASSUME NEW u \in WasmUsers, cocoa_process_welcome(u) PROVE WasmInv'
  BY <1>2, StepWelcome
<1>3. ASSUME NEW v \in WasmUsers, NEW kind \in {"add", "update", "remove"},
             native_commit(kind, v)
      PROVE  WasmInv'
  BY <1>3, StepNative
<1>4. ASSUME NEW i \in SessionIds, cocoa_deserialize_checked(i) PROVE WasmInv'
  BY <1>4, StepLoad
<1>5. ASSUME NEW i \in SessionIds, cocoa_encrypt(i) PROVE WasmInv'
  BY <1>5, StepEncrypt
<1>6. ASSUME NEW i \in SessionIds, NEW d \in HostDeltas, cocoa_advance_epoch(i, d)
      PROVE  WasmInv'
  BY <1>6, StepAdvance
<1>7. ASSUME NEW i \in SessionIds, cocoa_rotate_keypair(i) PROVE WasmInv'
  BY <1>7, StepRotate
<1>8. ASSUME NEW i \in SessionIds, cocoa_add_member(i) PROVE WasmInv'
  BY <1>8, StepAdd
<1>9. ASSUME NEW i \in SessionIds, cocoa_create_update(i) PROVE WasmInv'
  BY <1>9, StepUpdate
<1>10. ASSUME NEW i \in SessionIds, cocoa_remove_member(i) PROVE WasmInv'
  BY <1>10, StepRemove
<1>11. ASSUME NEW i \in SessionIds,
              cocoa_process_add(i) \/ cocoa_process_update(i) \/ cocoa_process_remove(i)
       PROVE  WasmInv'
  BY <1>11, StepProcess
<1> QED BY <1>1, <1>2, <1>3, <1>4, <1>5, <1>6, <1>7, <1>8, <1>9, <1>10, <1>11, Stutter
        DEF WasmNext

LEMMA WasmInvHolds == WasmSpec => []WasmInv
<1>1. WasmInit => WasmInv
  BY WasmInitInv
<1>2. WasmInv /\ [WasmNext]_wasm_vars => WasmInv'
  BY WasmNextInv
<1> QED BY <1>1, <1>2, PTL DEF WasmSpec

(* No two messages are sealed with one key, whichever of its blobs a host  *)
(* starts from: each lies below the watermark of its identity, and the new *)
(* one is at it.                                                           *)
THEOREM SealedOnce == WasmSpec => []NoKeyTwice
<1>1. WasmInv => NoKeyTwice
  BY DEF WasmInv
<1> QED BY <1>1, WasmInvHolds, PTL

LEMMA OpensAsSealed ==
    ASSUME NEW f, BlobOK(f), NEW c \in Nat, NEW text, NEW w, w = SealedBy(f, c, text),
           NEW m \in Altered(w), NEW s, NEW secret, NEW b, BlobOK(b), s.group_id = b.group_id,
           secret = SecretOf(f) =>
               b.epoch_number = f.epoch_number /\ b.group_id = f.group_id
    PROVE  (open_with(s, derive_message_key(derive(secret), m.sender_leaf_position, m.counter), m)
              # Refused) <=> (secret = SecretOf(f) /\ m = w)
<1>1. /\ m.ciphertext = w.ciphertext
      /\ \/ m = w
         \/ m # w /\ m.sender_leaf_position # w.sender_leaf_position
         \/ m # w /\ m.counter # w.counter
         \/ m # w /\ m.epoch # w.epoch
  <2>1. w.sender_leaf_position \in Nat /\ w.counter \in Nat /\ w.epoch \in Nat
    BY DEF SealedBy, BlobOK
  <2>2. w.sender_leaf_position + 1 # w.sender_leaf_position /\ w.counter + 1 # w.counter
        /\ w.epoch + 1 # w.epoch
    BY <2>1
  <2>3. DOMAIN w = {"epoch", "sender_leaf_position", "counter", "ciphertext"}
    BY DEF SealedBy
  <2>4. CASE m = w
    BY <2>4
  <2>5. CASE m = [w EXCEPT !.sender_leaf_position = @ + 1]
    BY <2>2, <2>3, <2>5
  <2>6. CASE m = [w EXCEPT !.counter = @ + 1]
    BY <2>2, <2>3, <2>6
  <2>7. CASE m = [w EXCEPT !.epoch = @ + 1]
    BY <2>2, <2>3, <2>7
  <2> QED BY <2>4, <2>5, <2>6, <2>7 DEF Altered
<1>2. /\ w.ciphertext.key = <<"key", <<"app", SecretOf(f)>>, f.leaf_position, c>>
      /\ w.ciphertext.nonce = <<"nonce", <<"app", SecretOf(f)>>, f.leaf_position, c>>
      /\ w.ciphertext.aad = <<f.group_id, f.epoch_number, f.leaf_position, c>>
      /\ w.ciphertext.text = [text |-> text]
      /\ w.sender_leaf_position = f.leaf_position /\ w.counter = c /\ w.epoch = f.epoch_number
  BY DEF SealedBy, seal, derive_message_key, derive, aad
<1>3. [text |-> text] # Refused
  BY DEF Refused
<1>4. open_with(s, derive_message_key(derive(secret), m.sender_leaf_position, m.counter), m)
        = IF /\ w.ciphertext.key = <<"key", <<"app", secret>>, m.sender_leaf_position, m.counter>>
             /\ w.ciphertext.nonce = <<"nonce", <<"app", secret>>, m.sender_leaf_position,
                                       m.counter>>
             /\ w.ciphertext.aad = <<b.group_id, m.epoch, m.sender_leaf_position, m.counter>>
          THEN [text |-> text] ELSE Refused
  BY <1>1, <1>2 DEF open_with, open, derive_message_key, derive, aad
<1>5. CASE secret = SecretOf(f) /\ m = w
  BY <1>2, <1>3, <1>4, <1>5
<1>6. CASE secret # SecretOf(f)
  BY <1>2, <1>4, <1>6
<1>7. CASE m # w
  BY <1>1, <1>2, <1>4, <1>7
<1> QED BY <1>5, <1>6, <1>7

(* A blob's session opens a message exactly if its secret came about as    *)
(* the sender's had, since secrets and steps tell each other.              *)
THEOREM OpenedBySameHistory == WasmSpec => []ReadIffSameHistory
<1>1. WasmInv => ReadIffSameHistory
  <2> SUFFICES ASSUME WasmInv, NEW e \in stored, NEW t \in texts, NEW m \in Altered(t.wire)
               PROVE  LET s == deserialize_cocoa_session(e.blob)
                          same == e.steps = t.steps /\ m = t.wire
                          later == advance_session(s, Zeros, Zeros)
                      IN /\ (decrypt(s, m) # Refused) = same
                         /\ (decrypt_with_epoch_secret(later, s.epoch.secrets.epoch_secret, m)
                               # Refused) = same
    BY DEF ReadIffSameHistory
  <2> PICK s : s = deserialize_cocoa_session(e.blob)
    OBVIOUS
  <2> PICK later : later = advance_session(s, Zeros, Zeros)
    OBVIOUS
  <2> PICK w : w = t.wire
    OBVIOUS
  <2>1. PICK f \in stored :
          /\ t.steps = f.steps /\ w.counter \in Nat
          /\ \E text : w = SealedBy(f.blob, w.counter, text)
    BY DEF WasmInv, TextOK
  <2>2. BlobOK(e.blob) /\ BlobOK(f.blob) /\ Agree(e, f)
    BY DEF WasmInv, StoredOK, EntryOK
  <2>3. Stands(s, e.blob)
    BY <2>2, RebuiltFacts
  <2> PICK secret : secret = SecretOf(e.blob)
    OBVIOUS
  <2>4. s.group_id = e.blob.group_id /\ s.epoch.number = e.blob.epoch_number
        /\ s.epoch.secrets = derive(secret) /\ s.epoch.secrets.epoch_secret = secret
    BY <2>3 DEF Stands, derive
  <2>5. later.group_id = e.blob.group_id
    BY <2>3 DEF advance_session, Stands, IsSession
  <2>6. secret = SecretOf(f.blob) =>
          e.blob.epoch_number = f.blob.epoch_number /\ e.blob.group_id = f.blob.group_id
    BY <2>2 DEF Agree
  <2> PICK key : key = derive_message_key(derive(secret), m.sender_leaf_position, m.counter)
    OBVIOUS
  <2>7. /\ (open_with(s, key, m) # Refused) <=> (secret = SecretOf(f.blob) /\ m = w)
        /\ (open_with(later, key, m) # Refused) <=> (secret = SecretOf(f.blob) /\ m = w)
    <3> PICK text : w = SealedBy(f.blob, w.counter, text)
      BY <2>1
    <3>1. m \in Altered(w)
      OBVIOUS
    <3> QED BY <2>1, <2>2, <2>4, <2>5, <2>6, <3>1, OpensAsSealed
  <2>8. secret = SecretOf(f.blob) <=> e.steps = t.steps
    BY <2>1, <2>2 DEF Agree
  <2>9. m = w /\ secret = SecretOf(f.blob) => m.epoch = s.epoch.number
    BY <2>1, <2>4, <2>6 DEF SealedBy
  <2>10. decrypt(s, m) = IF m.epoch # s.epoch.number THEN Refused ELSE open_with(s, key, m)
    BY <2>4 DEF decrypt, message_key_for_counter
  <2>11. decrypt_with_epoch_secret(later, s.epoch.secrets.epoch_secret, m)
           = open_with(later, key, m)
    BY <2>4 DEF decrypt_with_epoch_secret
  <2>12. (decrypt(s, m) # Refused) <=> (e.steps = t.steps /\ m = t.wire)
    BY <2>7, <2>8, <2>9, <2>10
  <2>13. (decrypt_with_epoch_secret(later, s.epoch.secrets.epoch_secret, m) # Refused)
           <=> (e.steps = t.steps /\ m = t.wire)
    BY <2>7, <2>8, <2>11
  <2> QED BY <2>12, <2>13
<1> QED BY <1>1, WasmInvHolds, PTL

-----------------------------------------------------------------------------
(* CommitWire.  Where hosts have moved a founder's session to.             *)
Transcript(p, n) == IF n = 0 THEN Zeros ELSE <<"host", p.deltas[n]>>
EpochOf(n, secrets, transcript) ==
    [number |-> n, secrets |-> secrets, message_counter |-> 0, transcript_hash |-> transcript]
SessionAt(u, p, epoch) ==
    [group_id |-> p.group, our_user_id |-> u, our_keypair |-> identity_kem(u),
     our_leaf_position |-> u, epoch |-> epoch, members |-> {u}, tree |-> founders_tree]
First(p) == EpochOf(0, derive(<<"group", p.group>>), Zeros)
Reached(s, u, p, n) == \E secrets : s = SessionAt(u, p, EpochOf(n, secrets, Transcript(p, n)))

MovedBy(p, s, n) == advance_session(s, <<"host", p.deltas[n]>>, <<"host", p.deltas[n]>>)
Moves(f, u, p, n) ==
    /\ f = [i \in 0..n |-> f[i]] /\ f[0] = SessionAt(u, p, First(p))
    /\ \A i \in 1..n : f[i] = MovedBy(p, f[i - 1], i)

LEMMA MovesExist ==
    ASSUME NEW u, NEW p, NEW n \in Nat
    PROVE  \E f : Moves(f, u, p, n)
<1> PICK G : G = {i \in 0..n : \E f : Moves(f, u, p, i)}
  OBVIOUS
<1>1. 0 \in G
  <2> PICK f : f = [i \in 0..0 |-> SessionAt(u, p, First(p))]
    OBVIOUS
  <2>1. Moves(f, u, p, 0)
    BY DEF Moves
  <2> QED BY <2>1
<1>2. \A i \in 1..n : i - 1 \in G => i \in G
  <2> SUFFICES ASSUME NEW i \in 1..n, i - 1 \in G PROVE i \in G
    OBVIOUS
  <2>1. PICK f : Moves(f, u, p, i - 1)
    OBVIOUS
  <2> PICK g : g = [k \in 0..i |-> IF k = i THEN MovedBy(p, f[i - 1], i) ELSE f[k]]
    OBVIOUS
  <2>2. g[0] = SessionAt(u, p, First(p))
    BY <2>1 DEF Moves
  <2>3. \A k \in 1..i : g[k] = MovedBy(p, g[k - 1], k)
    <3> TAKE k \in 1..i
    <3>1. k - 1 \in 0..i /\ k - 1 # i /\ k \in 0..i /\ g[k - 1] = f[k - 1]
      OBVIOUS
    <3>2. CASE k = i
      BY <3>1, <3>2
    <3>3. CASE k # i
      <4>1. k \in 1..(i - 1) /\ g[k] = f[k]
        BY <3>3
      <4> QED BY <2>1, <3>1, <4>1 DEF Moves
    <3> QED BY <3>2, <3>3
  <2>4. Moves(g, u, p, i)
    BY <2>2, <2>3 DEF Moves
  <2> QED BY <2>4
<1>3. \A i \in 0..n : i \in G
  BY ONLY n \in Nat, <1>1, <1>2, UpTo
<1> QED BY <1>3

LEMMA FoundedFacts ==
    ASSUME NEW u, NEW p
    PROVE  [join_group(p.group, u, identity_kem(u), u, 2, 3, <<"group", p.group>>, Zeros)
               EXCEPT !.tree = founders_tree] = SessionAt(u, p, First(p))
<1> PICK t : t = founders_tree
  OBVIOUS
<1> QED BY DEF join_group, session_of, initial_epoch, restore_epoch, SessionAt, First, EpochOf

LEMMA MovedFacts ==
    ASSUME NEW s, NEW u, NEW p, NEW n \in Nat \ {0}, Reached(s, u, p, n - 1)
    PROVE  Reached(MovedBy(p, s, n), u, p, n)
<1> PICK secrets : s = SessionAt(u, p, EpochOf(n - 1, secrets, Transcript(p, n - 1)))
  BY DEF Reached
<1> PICK h : h = <<"host", p.deltas[n]>>
  OBVIOUS
<1> PICK t : t = founders_tree
  OBVIOUS
<1> PICK more : more = derive(h5_epoch_secret(s.epoch.secrets.init_secret, h, h))
  OBVIOUS
<1>1. s.epoch.number + 1 = n
  BY DEF SessionAt, EpochOf
<1>2. advance(s.epoch.secrets.init_secret, h, h, s.epoch.number) = EpochOf(n, more, h)
  BY <1>1 DEF advance, restore_epoch, EpochOf
<1>3. MovedBy(p, s, n) = [s EXCEPT !.epoch = EpochOf(n, more, h)]
  BY <1>2 DEF MovedBy, advance_session
<1>4. \A e : [SessionAt(u, p, EpochOf(n - 1, secrets, Transcript(p, n - 1))) EXCEPT !.epoch = e]
               = SessionAt(u, p, e)
  BY ONLY TRUE DEF SessionAt
<1>5. h = Transcript(p, n)
  BY DEF Transcript
<1> QED BY <1>3, <1>4, <1>5 DEF Reached

LEMMA FounderFacts ==
    ASSUME NEW u, NEW p \in Places
    PROVE  /\ Len(p.deltas) \in Nat
           /\ Reached(founder_session(u, p), u, p, Len(p.deltas))
           /\ p.deltas = << >> => founder_session(u, p) = SessionAt(u, p, First(p))
<1> PICK n : n = Len(p.deltas)
  OBVIOUS
<1>1. n \in Nat /\ (p.deltas = << >> => n = 0)
  BY PlacesAssumption
<1> DEFINE founded == [join_group(p.group, u, identity_kem(u), u, 2, 3,
                                  <<"group", p.group>>, Zeros) EXCEPT !.tree = founders_tree]
           Moved[i \in 0..n] == IF i = 0 THEN founded
                                ELSE advance_session(Moved[i - 1], <<"host", p.deltas[i]>>,
                                                     <<"host", p.deltas[i]>>)
<1>2. founder_session(u, p) = Moved[n]
  BY DEF founder_session
<1>3. PICK f : Moves(f, u, p, n)
  BY <1>1, MovesExist
<1>4. f = [i \in 0..n |-> IF i = 0 THEN founded
                          ELSE advance_session(f[i - 1], <<"host", p.deltas[i]>>,
                                               <<"host", p.deltas[i]>>)]
  <2>1. founded = SessionAt(u, p, First(p))
    BY FoundedFacts
  <2> HIDE DEF founded, Moved
  <2>2. \A i \in 0..n : f[i] = IF i = 0 THEN founded
                               ELSE advance_session(f[i - 1], <<"host", p.deltas[i]>>,
                                                    <<"host", p.deltas[i]>>)
    <3> TAKE i \in 0..n
    <3>1. CASE i = 0
      BY <1>3, <2>1, <3>1 DEF Moves
    <3>2. CASE i # 0
      <4>1. i \in 1..n
        BY <1>1, <3>2
      <4>2. f[i] = MovedBy(p, f[i - 1], i)
        BY <1>3, <4>1 DEF Moves
      <4> QED BY <3>2, <4>2 DEF MovedBy
    <3> QED BY <3>1, <3>2
  <2> QED BY <1>3, <2>2 DEF Moves
<1>5. Moved = [i \in 0..n |-> IF i = 0 THEN founded
                              ELSE advance_session(Moved[i - 1], <<"host", p.deltas[i]>>,
                                                   <<"host", p.deltas[i]>>)]
  <2> HIDE DEF founded
  <2> QED BY <1>4, Zenon
<1>6. founded = SessionAt(u, p, First(p))
  BY FoundedFacts
<1> HIDE DEF founded, Moved
<1>7. Moves(Moved, u, p, n)
  <2>1. Moved[0] = SessionAt(u, p, First(p))
    BY <1>1, <1>5, <1>6
  <2>2. \A i \in 1..n : Moved[i] = MovedBy(p, Moved[i - 1], i)
    <3> TAKE i \in 1..n
    <3>1. i \in 0..n /\ i # 0
      BY <1>1
    <3>2. Moved[i] = advance_session(Moved[i - 1], <<"host", p.deltas[i]>>, <<"host", p.deltas[i]>>)
      BY <1>5, <3>1
    <3> QED BY <3>2 DEF MovedBy
  <2> QED BY <1>5, <2>1, <2>2 DEF Moves
<1> PICK G : G = {i \in 0..n : Reached(Moved[i], u, p, i)}
  OBVIOUS
<1>8. 0 \in G
  BY <1>1, <1>7 DEF Moves, Reached, First, Transcript
<1>9. \A i \in 1..n : i - 1 \in G => i \in G
  BY <1>1, <1>7, MovedFacts DEF Moves
<1>10. \A i \in 0..n : i \in G
  BY ONLY <1>1, <1>8, <1>9, UpTo
<1>11. Reached(Moved[n], u, p, n)
  BY <1>1, <1>10
<1> QED BY <1>1, <1>2, <1>7, <1>11 DEF Moves
-----------------------------------------------------------------------------
(* The path of a commit, and what a receiver makes of it.                  *)
LeafSeed(n) == <<"drawn", n>>
Seeds(n) == derive_path_seeds(LeafSeed(n), 3)
Root(n) == derive_delta_root(Seeds(n)[3])

PathOK(path, n) ==
    /\ path = [level \in 1..3 |-> path[level]]
    /\ \A level \in 1..3 :
          /\ path[level].new_public_key = derive_node_keypair(Seeds(n)[level])
          /\ \A x \in path[level].encrypted_seeds : x.ciphertext.seed = Seeds(n)[level]

LEMMA UpToThree == 1..3 = {1, 2, 3}
OBVIOUS

LEMMA ChainOfThree ==
    ASSUME NEW s
    PROVE  /\ LET f == derive_path_seeds(s, 3)
              IN  /\ f[1] = s /\ f[2] = derive_h1_seed(s)
                  /\ f[3] = derive_h1_seed(derive_h1_seed(s)) /\ Len(f) = 3
           /\ LET f == derive_path_seeds(s, 2) IN f[1] = s /\ f[2] = derive_h1_seed(s)
           /\ derive_path_seeds(s, 1)[1] = s
<1>1. /\ Chain(derive_path_seeds(s, 2 + 1), 2 + 1, s) /\ Len(derive_path_seeds(s, 2 + 1)) = 2 + 1
      /\ Chain(derive_path_seeds(s, 1 + 1), 1 + 1, s) /\ Chain(derive_path_seeds(s, 0 + 1), 0 + 1, s)
  BY SeedsChain, SeedsLen
<1>2. 2 + 1 = 3 /\ 1 + 1 = 2 /\ 0 + 1 = 1 /\ 2..3 = {2, 3} /\ 2..2 = {2} /\ 2 - 1 = 1 /\ 3 - 1 = 2
  OBVIOUS
<1> QED BY <1>1, <1>2 DEF Chain

LEMMA SeedsFacts ==
    ASSUME NEW n
    PROVE  /\ Seeds(n)[1] = LeafSeed(n) /\ Seeds(n)[2] = derive_h1_seed(LeafSeed(n))
           /\ Seeds(n)[3] = derive_h1_seed(derive_h1_seed(LeafSeed(n))) /\ Len(Seeds(n)) = 3
BY ChainOfThree DEF Seeds

(* The root tells what was drawn.                                          *)
LEMMA RootTells == \A n, m : Root(n) = Root(m) => n = m
BY SeedsFacts DEF Root, derive_delta_root, derive_h1_seed, LeafSeed

LEMMA DecryptFacts ==
    ASSUME NEW path, NEW n, PathOK(path, n), NEW level \in 1..3, NEW key,
           decrypt_seed(path[level], key) # {}
    PROVE  decrypt_seed(path[level], key) = {Seeds(n)[level]}
BY DEF PathOK, decrypt_seed

LEMMA ApplyFacts ==
    ASSUME NEW path, NEW n, PathOK(path, n), NEW key,
           \E level \in DOMAIN path : decrypt_seed(path[level], key) # {}
    PROVE  apply_path_updates(path, key) = {Root(n)}
<1> PICK levels : levels = {l \in DOMAIN path : decrypt_seed(path[l], key) # {}}
  OBVIOUS
<1>1. DOMAIN path = 1..3
  BY DEF PathOK
<1>2. Len(path) = 3
  <2> PICK S : S = {path[l] : l \in 1..3}
    OBVIOUS
  <2>1. path \in [1..3 -> S]
    BY DEF PathOK
  <2>2. path \in Seq(S)
    BY ONLY <2>1, SeqDef
  <2> QED BY ONLY <1>1, <2>2, LenProperties
<1>3. \E l \in levels : \A m \in levels : l <= m
  <2>1. levels \subseteq {1, 2, 3} /\ levels # {}
    BY <1>1, UpToThree
  <2> QED BY <2>1
<1> PICK first : first = CHOOSE l \in levels : \A m \in levels : l <= m
  OBVIOUS
<1>4. first \in levels /\ first \in 1..3
  BY <1>1, <1>3
<1> PICK seed : seed = Seeds(n)[first]
  OBVIOUS
<1>5. (CHOOSE s \in decrypt_seed(path[first], key) : TRUE) = seed
  <2>1. decrypt_seed(path[first], key) = {seed}
    <3>1. decrypt_seed(path[first], key) # {}
      BY ONLY <1>4, levels = {l \in DOMAIN path : decrypt_seed(path[l], key) # {}}
    <3> QED BY ONLY PathOK(path, n), <1>4, <3>1, seed = Seeds(n)[first], DecryptFacts
  <2> QED BY ONLY <2>1
<1> PICK seeds : seeds = derive_path_seeds(seed, 3 - first + 1)
  OBVIOUS
<1>6. \A l \in first..3 : seeds[l - first + 1] = Seeds(n)[l]
  <2>1. CASE first = 1
    <3>1. 3 - first + 1 = 3 /\ first..3 = {1, 2, 3} /\ 1 - first + 1 = 1 /\ 2 - first + 1 = 2 /\ 3 - first + 1 = 3
      BY ONLY <2>1
    <3> QED BY ONLY <2>1, <3>1, ChainOfThree, SeedsFacts, seed = Seeds(n)[first],
                   seeds = derive_path_seeds(seed, 3 - first + 1)
  <2>2. CASE first = 2
    <3>1. 3 - first + 1 = 2 /\ first..3 = {2, 3} /\ 2 - first + 1 = 1 /\ 3 - first + 1 = 2
      BY ONLY <2>2
    <3> QED BY ONLY <2>2, <3>1, ChainOfThree, SeedsFacts, seed = Seeds(n)[first],
                   seeds = derive_path_seeds(seed, 3 - first + 1)
  <2>3. CASE first = 3
    <3>1. 3 - first + 1 = 1 /\ first..3 = {3}
      BY ONLY <2>3
    <3> QED BY ONLY <2>3, <3>1, ChainOfThree, SeedsFacts, seed = Seeds(n)[first],
                   seeds = derive_path_seeds(seed, 3 - first + 1)
  <2> QED BY <1>4, <2>1, <2>2, <2>3, UpToThree
<1>7. \A l \in first..3 : path[l].new_public_key = derive_node_keypair(seeds[l - first + 1])
  <2>1. \A l \in first..3 : l \in 1..3
    BY ONLY <1>4
  <2>2. \A l \in 1..3 : path[l].new_public_key = derive_node_keypair(Seeds(n)[l])
    BY ONLY PathOK(path, n) DEF PathOK
  <2> TAKE l \in first..3
  <2> QED BY ONLY <1>6, <2>1, <2>2, l \in first..3
<1>8. derive_delta_root(seeds[3 - first + 1]) = Root(n)
  <2>1. 3 \in first..3
    BY ONLY <1>4
  <2> QED BY <1>6, <2>1 DEF Root
<1>9. apply_path_updates(path, key) =
        IF \A l \in first..3 : path[l].new_public_key = derive_node_keypair(seeds[l - first + 1])
        THEN {derive_delta_root(seeds[3 - first + 1])} ELSE {}
  <2> DEFINE opening == {l \in DOMAIN path : decrypt_seed(path[l], key) # {}}
             lowest == CHOOSE l \in opening : \A m \in opening : l <= m
             chain == derive_path_seeds(CHOOSE s \in decrypt_seed(path[lowest], key) : TRUE,
                                        Len(path) - lowest + 1)
  <2>1. apply_path_updates(path, key) =
          IF opening = {} THEN {}
          ELSE IF \A l \in lowest..Len(path) :
                     path[l].new_public_key = derive_node_keypair(chain[l - lowest + 1])
               THEN {derive_delta_root(chain[Len(path) - lowest + 1])} ELSE {}
    BY ONLY Zenon DEF apply_path_updates
  <2>2. opening = levels /\ levels # {} /\ lowest = first
    BY <1>4
  <2> HIDE DEF opening, lowest
  <2>3. chain = seeds
    BY ONLY <1>2, <1>5, <2>2, seeds = derive_path_seeds(seed, 3 - first + 1)
  <2> HIDE DEF chain
  <2> QED BY ONLY <1>2, <2>1, <2>2, <2>3
<1> QED BY <1>7, <1>8, <1>9

LEMMA BuiltPath ==
    ASSUME NEW u, NEW n, NEW key_sets, NEW path,
           path = build_path_updates(2, u, Seeds(n), key_sets)
    PROVE  /\ PathOK(path, n)
           /\ \A key : (\E level \in DOMAIN path : decrypt_seed(path[level], key) # {}) =>
                 \E level \in 1..3 : key \in key_sets[level]
<1>1. 2 + 1 = 3
  OBVIOUS
<1> DEFINE at(level) == PathNode(leaf(2, u), level - 1)
<1>2. path = [level \in 1..3 |->
                 [node_index |-> at(level), new_public_key |-> derive_node_keypair(Seeds(n)[level]),
                  encrypted_seeds |->
                      encrypt_seed_to_resolution(Seeds(n)[level], key_sets[level], at(level))]]
  BY <1>1 DEF build_path_updates
<1> HIDE DEF at
<1>3. \A level \in 1..3 :
        /\ path[level].new_public_key = derive_node_keypair(Seeds(n)[level])
        /\ path[level].encrypted_seeds =
             {encrypt_seed_to_recipient(Seeds(n)[level], key, at(level)) : key \in key_sets[level]}
  BY <1>2 DEF encrypt_seed_to_resolution
<1>4. \A level \in 1..3 : \A x \in path[level].encrypted_seeds :
        x.ciphertext.seed = Seeds(n)[level] /\ x.encapsulation \in key_sets[level]
  BY <1>3 DEF encrypt_seed_to_recipient
<1>5. PathOK(path, n)
  BY <1>2, <1>3, <1>4 DEF PathOK
<1>6. DOMAIN path = 1..3
  BY <1>2
<1> QED BY <1>4, <1>5, <1>6 DEF decrypt_seed
-----------------------------------------------------------------------------
(* Commits as they are made.                                               *)
CommitFields == {"kind", "group_id", "epoch", "subject", "at", "committer_leaf_position",
                 "path_updates", "round_hash", "confirmation_tag", "signature"}
RoundOf(c, n) == h3_round_hash(compute_root_label(Root(n)), RemovedUsers(c), AddedUsers(c))
TagOf(c, p, n) == compute_confirmation_tag(Root(n),
    h3_transcript_hash(Transcript(p, Len(p.deltas)), c.round_hash), c.epoch)

Carries(c, u, p, n) ==
    /\ c = [f \in CommitFields |-> c[f]]
    /\ c.kind \in {"add", "update", "remove"}
    /\ c.group_id = p.group /\ c.epoch = Len(p.deltas) + 1 /\ c.committer_leaf_position = u
    /\ PathOK(c.path_updates, n)
    /\ c.round_hash = RoundOf(c, n)
    /\ c.confirmation_tag = TagOf(c, p, n)
    /\ c.signature = sign_commit(u, CommitContent(c, u))

(* A session of a committer, with whatever it has made of its tree.        *)
StandsAt(s, u, p) ==
    /\ s.group_id = p.group /\ s.our_leaf_position = u /\ s.epoch.number = Len(p.deltas)
    /\ transcript_hash(s) = Transcript(p, Len(p.deltas)) /\ s.tree.tree_depth = 2

LEMMA BuiltFacts ==
    ASSUME NEW kind \in {"add", "update", "remove"}, NEW s, NEW u, NEW p, StandsAt(s, u, p),
           NEW subject, NEW at, NEW n, NEW key_sets, NEW c,
           c = build_commit(kind, s, u, subject, at, LeafSeed(n), key_sets)
    PROVE  /\ Carries(c, u, p, n) /\ c.kind = kind /\ c.subject = subject /\ c.at = at
           /\ c.path_updates = build_path_updates(2, u, Seeds(n), key_sets)
<1> DEFINE seeds == derive_path_seeds(LeafSeed(n), s.tree.tree_depth + 1)
           top == derive_delta_root(seeds[Len(seeds)])
           change == [kind |-> kind, subject |-> subject]
           round == h3_round_hash(compute_root_label(top), RemovedUsers(change),
                                  AddedUsers(change))
           transcript == h3_transcript_hash(transcript_hash(s), round)
           path == build_path_updates(s.tree.tree_depth, s.our_leaf_position, seeds, key_sets)
           unsigned == [kind |-> kind, group_id |-> s.group_id, epoch |-> s.epoch.number + 1,
                        subject |-> subject, at |-> at,
                        committer_leaf_position |-> s.our_leaf_position,
                        path_updates |-> path, round_hash |-> round,
                        confirmation_tag |->
                            compute_confirmation_tag(top, transcript, s.epoch.number + 1)]
           signature == sign_commit(u, CommitContent(unsigned, u))
<1>1. c = [f \in DOMAIN unsigned \cup {"signature"} |->
              IF f = "signature" THEN signature ELSE unsigned[f]]
  BY DEF build_commit
<1>2. seeds = Seeds(n) /\ top = Root(n)
  <2>1. s.tree.tree_depth + 1 = 3
    BY DEF StandsAt
  <2>2. seeds = Seeds(n)
    BY <2>1 DEF Seeds
  <2> QED BY <2>2, SeedsFacts DEF Root
<1>3. path = build_path_updates(2, u, Seeds(n), key_sets)
  BY <1>2 DEF StandsAt
<1> PICK tag : tag = compute_confirmation_tag(top, transcript, s.epoch.number + 1)
  OBVIOUS
<1> HIDE DEF seeds, top, path
<1>4. RemovedUsers(change) = RemovedUsers(unsigned) /\ AddedUsers(change) = AddedUsers(unsigned)
  BY DEF RemovedUsers, AddedUsers
<1>5. round = RoundOf(unsigned, n)
  BY <1>2, <1>4 DEF RoundOf
<1>6. tag = TagOf(unsigned, p, n)
  BY <1>2 DEF TagOf, StandsAt
<1> HIDE DEF round, transcript, signature
<1>7. /\ DOMAIN unsigned = CommitFields \ {"signature"}
      /\ unsigned["kind"] = kind /\ unsigned["group_id"] = p.group
      /\ unsigned["epoch"] = Len(p.deltas) + 1 /\ unsigned["subject"] = subject
      /\ unsigned["at"] = at /\ unsigned["committer_leaf_position"] = u
      /\ unsigned["path_updates"] = path /\ unsigned["round_hash"] = round
      /\ unsigned["confirmation_tag"] = tag
  BY DEF StandsAt, CommitFields
<1> HIDE DEF unsigned
<1>8. c = [f \in CommitFields |-> IF f = "signature" THEN signature ELSE unsigned[f]]
  BY <1>1, <1>7 DEF CommitFields
<1>9. /\ c = [f \in CommitFields |-> c[f]] /\ c["signature"] = signature
      /\ \A f \in CommitFields \ {"signature"} : c[f] = unsigned[f]
  BY <1>8 DEF CommitFields
<1>10. /\ c.kind = unsigned.kind /\ c.group_id = unsigned.group_id /\ c.epoch = unsigned.epoch
       /\ c.subject = unsigned.subject /\ c.at = unsigned.at
       /\ c.committer_leaf_position = unsigned.committer_leaf_position
       /\ c.path_updates = unsigned.path_updates /\ c.round_hash = unsigned.round_hash
       /\ c.confirmation_tag = unsigned.confirmation_tag /\ c.signature = signature
  BY <1>9 DEF CommitFields
<1>11. CommitContent(c, u) = CommitContent(unsigned, u)
  BY <1>10 DEF CommitContent
<1>12. c.signature = sign_commit(u, CommitContent(c, u))
  BY <1>10, <1>11 DEF signature
<1>13. RoundOf(c, n) = RoundOf(unsigned, n) /\ TagOf(c, p, n) = TagOf(unsigned, p, n)
  BY <1>10 DEF RoundOf, TagOf, RemovedUsers, AddedUsers
<1>14. PathOK(path, n)
  BY <1>3, BuiltPath
<1> QED BY <1>3, <1>5, <1>6, <1>7, <1>9, <1>10, <1>12, <1>13, <1>14 DEF Carries

CommitOK(e, n) ==
    /\ e.by \in Committers /\ e.place \in Places
    /\ Carries(e.wire, e.by, e.place, n)
    /\ e.wire.kind = "add" => e.wire.at = 3 /\ e.wire.subject \in Applicants
    /\ e.wire.kind = "remove" => \A r \in 0..2 : r = e.wire.at => ~ SealedTo(r, e.wire)

LEMMA TreeFacts ==
    /\ founders_tree.tree_depth = 2 /\ founders_tree.member_count = 3
    /\ founders_tree = [nodes |-> founders_tree.nodes, tree_depth |-> 2, member_count |-> 3]
    /\ \A m \in DOMAIN founders_tree.nodes :
          /\ m = [depth |-> m.depth, position |-> m.position]
          /\ m.depth = 2 => m.position \in 0..2
          /\ founders_tree.nodes[m] =
                IF m.depth = 2 THEN populated(identity_kem(m.position)) ELSE blank
    /\ grow_if_needed(founders_tree, 4) = founders_tree
<1> PICK N : N = {m \in NodeIndex(2) : m.depth = 2 => m.position \in Founders}
  OBVIOUS
<1>1. \A m \in N : m = [depth |-> m.depth, position |-> m.position]
                   /\ (m.depth = 2 => m.position \in 0..2)
  BY DEF NodeIndex, Founders
<1>2. founders_tree =
        [nodes |-> [n \in N |-> IF n.depth = 2 THEN populated(identity_kem(n.position)) ELSE blank],
         tree_depth |-> 2, member_count |-> 3]
  BY DEF founders_tree
<1>3. founders_tree.tree_depth = 2 /\ founders_tree.member_count = 3
  BY <1>2
<1>4. grow_if_needed(founders_tree, 4) = founders_tree
  BY <1>3, RoomAssumption DEF grow_if_needed
<1> QED BY <1>1, <1>2, <1>3, <1>4

LEMMA SessionFacts ==
    ASSUME NEW u, NEW p \in Places, NEW s, s = founder_session(u, p)
    PROVE  /\ StandsAt(s, u, p) /\ s.tree = founders_tree /\ s.our_keypair = identity_kem(u)
           /\ s.members = {u} /\ Len(p.deltas) \in Nat
           /\ \E e : s = SessionAt(u, p, e)
<1>1. Reached(s, u, p, Len(p.deltas)) /\ Len(p.deltas) \in Nat
  BY FounderFacts
<1> PICK n : n = Len(p.deltas)
  OBVIOUS
<1>2. PICK secrets : s = SessionAt(u, p, EpochOf(n, secrets, Transcript(p, n)))
  BY <1>1 DEF Reached
<1> PICK e : e = EpochOf(n, secrets, Transcript(p, n))
  OBVIOUS
<1>3. e.number = n /\ e.transcript_hash = Transcript(p, n)
  BY DEF EpochOf
<1>4. s = SessionAt(u, p, e)
  BY <1>2
<1>5. /\ s.group_id = p.group /\ s.our_leaf_position = u /\ s.epoch = e
      /\ s.tree = founders_tree /\ s.our_keypair = identity_kem(u) /\ s.members = {u}
  BY ONLY <1>4 DEF SessionAt
<1>6. StandsAt(s, u, p)
  BY ONLY <1>3, <1>5, TreeFacts, n = Len(p.deltas) DEF StandsAt, transcript_hash
<1> QED BY <1>1, <1>4, <1>5, <1>6

LEMMA WithTree ==
    ASSUME NEW u, NEW p, NEW s, StandsAt(s, u, p), NEW e, s = SessionAt(u, p, e),
           NEW t, t.tree_depth = 2
    PROVE  StandsAt([s EXCEPT !.tree = t], u, p)
BY DEF StandsAt, SessionAt, transcript_hash

LEMMA AddBuilt ==
    ASSUME NEW u \in Committers, NEW p \in Places, NEW x \in Applicants, NEW n,
           NEW s, s = founder_session(u, p), NEW key_sets, NEW c,
           c = build_commit("add", [s EXCEPT !.tree = grow_if_needed(@, s.tree.member_count + 1)],
                            u, x, s.tree.member_count, LeafSeed(n), key_sets)
    PROVE  CommitOK([by |-> u, place |-> p, wire |-> c], n)
<1>1. s.tree = founders_tree /\ s.tree.member_count = 3 /\ 3 + 1 = 4
  BY SessionFacts, TreeFacts
<1> PICK grown : grown = [s EXCEPT !.tree = grow_if_needed(@, s.tree.member_count + 1)]
  OBVIOUS
<1>2. grown = [s EXCEPT !.tree = founders_tree]
  BY <1>1, TreeFacts
<1>3. StandsAt(grown, u, p)
  <2>1. PICK e : s = SessionAt(u, p, e)
    BY SessionFacts
  <2>2. StandsAt(s, u, p) /\ founders_tree.tree_depth = 2
    BY SessionFacts, TreeFacts
  <2> QED BY ONLY <1>2, <2>1, <2>2, WithTree
<1>4. c = build_commit("add", grown, u, x, 3, LeafSeed(n), key_sets)
  BY <1>1
<1>5. Carries(c, u, p, n) /\ c.kind = "add" /\ c.subject = x /\ c.at = 3
  BY ONLY <1>3, <1>4, BuiltFacts
<1> QED BY <1>5 DEF CommitOK

LEMMA UpdateBuilt ==
    ASSUME NEW u \in Committers, NEW p \in Places, NEW subject, NEW at, NEW n, NEW key_sets, NEW c,
           c = build_commit("update", founder_session(u, p), u, subject, at, LeafSeed(n), key_sets)
    PROVE  CommitOK([by |-> u, place |-> p, wire |-> c], n)
<1>1. StandsAt(founder_session(u, p), u, p)
  BY SessionFacts
<1>2. Carries(c, u, p, n) /\ c.kind = "update"
  BY <1>1, BuiltFacts
<1> QED BY <1>2 DEF CommitOK

(* No key of a removed founder is left in the tree it was removed from.    *)
LEMMA RemovedKeys ==
    ASSUME NEW u, NEW v, NEW removed, NEW t, t = blank_node(founders_tree, leaf(2, v)),
           NEW level \in 1..3
    PROVE  /\ t.tree_depth = 2
           /\ identity_kem(v) \notin compute_resolution_keys(t, u, removed, {})[level]
<1> PICK nodes : nodes = founders_tree.nodes
  OBVIOUS
<1>1. /\ t.tree_depth = 2
      /\ DOMAIN t.nodes = DOMAIN nodes
      /\ \A m \in DOMAIN nodes : t.nodes[m] = IF m = leaf(2, v) THEN blank ELSE nodes[m]
  <2>1. CASE contains(founders_tree, leaf(2, v))
    <3>1. t = [founders_tree EXCEPT !.nodes[leaf(2, v)] = blank]
      BY <2>1 DEF blank_node
    <3>2. t = [nodes |-> [nodes EXCEPT ![leaf(2, v)] = blank], tree_depth |-> 2, member_count |-> 3]
      BY <3>1, TreeFacts
    <3>3. t.tree_depth = 2 /\ t.nodes = [nodes EXCEPT ![leaf(2, v)] = blank]
      BY ONLY <3>2
    <3> QED BY <3>3
  <2>2. CASE ~ contains(founders_tree, leaf(2, v))
    BY <2>2, TreeFacts DEF blank_node, contains
  <2> QED BY <2>1, <2>2
<1>2. \A m : public_key(t, m) # identity_kem(v)
  <2> TAKE m
  <2>1. CASE m \notin DOMAIN nodes
    BY <1>1, <2>1 DEF public_key, contains, NoKey, identity_kem
  <2>2. CASE m \in DOMAIN nodes /\ m = leaf(2, v)
    BY <1>1, <2>2 DEF public_key, contains, NoKey, identity_kem, blank
  <2>3. CASE m \in DOMAIN nodes /\ m # leaf(2, v)
    <3>1. public_key(t, m) = nodes[m].key
      BY <1>1, <2>3 DEF public_key, contains
    <3>2. CASE m.depth = 2
      <4>1. m.position # v
        BY <2>3, <3>2, TreeFacts DEF leaf
      <4> QED BY <2>3, <3>1, <3>2, <4>1, TreeFacts DEF populated, identity_kem
    <3>3. CASE m.depth # 2
      <4>1. nodes[m] = blank
        BY <2>3, <3>3, TreeFacts
      <4>2. public_key(t, m) = << >>
        BY <3>1, <4>1 DEF blank, NoKey
      <4> QED BY <4>2 DEF identity_kem
    <3> QED BY <3>2, <3>3
  <2> QED BY <2>1, <2>2, <2>3
<1> DEFINE n == PathNode(leaf(t.tree_depth, u), level - 1)
           kept == {m \in compute_lj(t, n) : m \notin removed /\ is_populated(t, m)}
<1>3. compute_resolution_keys(t, u, removed, {})[level] =
        {public_key(t, m) : m \in kept} \cup
           {x.key : x \in {y \in {} : n.depth > 0 /\ sibling(n) \in path_to_root(leaf(t.tree_depth, y.at))}}
  <2>1. level \in 1..(t.tree_depth + 1)
    BY <1>1
  <2> QED BY <2>1 DEF compute_resolution_keys
<1> HIDE DEF kept, n
<1>4. identity_kem(v) \notin {public_key(t, m) : m \in kept}
  BY <1>2
<1>5. {x.key : x \in {y \in {} : n.depth > 0 /\ sibling(n) \in path_to_root(leaf(t.tree_depth, y.at))}} = {}
  OBVIOUS
<1> QED BY <1>1, <1>3, <1>4, <1>5

LEMMA RemoveBuilt ==
    ASSUME NEW u \in Committers, NEW p \in Places, NEW v, NEW n, NEW removed,
           NEW s, s = founder_session(u, p), NEW blanked,
           blanked = [s EXCEPT !.tree = blank_node(@, leaf(s.tree.tree_depth, v))], NEW c,
           c = build_commit("remove", blanked, u, v, v, LeafSeed(n),
                            compute_resolution_keys(blanked.tree, u, removed, {}))
    PROVE  CommitOK([by |-> u, place |-> p, wire |-> c], n)
<1>1. PICK e : s = SessionAt(u, p, e)
  BY SessionFacts
<1>2. s.tree = founders_tree /\ s.tree.tree_depth = 2
  BY SessionFacts, TreeFacts
<1> PICK t : t = blank_node(founders_tree, leaf(2, v))
  OBVIOUS
<1>3. blanked = [s EXCEPT !.tree = t] /\ blanked.tree = t
  BY <1>1, <1>2 DEF SessionAt
<1>4. 1 \in 1..3 /\ t.tree_depth = 2
  BY RemovedKeys
<1>5. StandsAt(blanked, u, p)
  <2>1. StandsAt(s, u, p)
    BY SessionFacts
  <2> QED BY ONLY <1>1, <1>3, <1>4, <2>1, WithTree
<1> PICK key_sets : key_sets = compute_resolution_keys(t, u, removed, {})
  OBVIOUS
<1>6. /\ Carries(c, u, p, n) /\ c.kind = "remove" /\ c.at = v
      /\ c.path_updates = build_path_updates(2, u, Seeds(n), key_sets)
  BY <1>3, <1>5, BuiltFacts
<1>7. ~ SealedTo(v, c)
  <2>1. SealedTo(v, c) => \E level \in 1..3 : identity_kem(v) \in key_sets[level]
    BY <1>6, BuiltPath DEF SealedTo
  <2> QED BY <2>1, RemovedKeys
<1> QED BY <1>6, <1>7 DEF CommitOK
-----------------------------------------------------------------------------
(* What is sent.  No two commits have one draw.                            *)
SentOK ==
    /\ IsFiniteSet(sent)
    /\ \A e \in sent : \E n \in 0..(Cardinality(sent) - 1) : CommitOK(e, n)
    /\ \A e, f \in sent : \A n : CommitOK(e, n) /\ CommitOK(f, n) => e = f

(* What the server puts together takes each field from some commit.        *)
Woven(w) ==
    /\ \E e \in sent : w.signature = e.wire.signature
    /\ \E e \in sent : w.confirmation_tag = e.wire.confirmation_tag
    /\ \E e \in sent : w.kind = e.wire.kind

LEMMA SignsAlike ==
    ASSUME NEW c, NEW d, NEW u, NEW v,
           sign_commit(u, CommitContent(c, u)) = sign_commit(v, CommitContent(d, v)),
           c.kind \in {"add", "update", "remove"}, d.kind \in {"add", "update", "remove"}
    PROVE  /\ u = v /\ c.group_id = d.group_id /\ c.epoch = d.epoch /\ c.kind = d.kind
           /\ c.round_hash = d.round_hash /\ c.path_updates = d.path_updates
           /\ c.committer_leaf_position = d.committer_leaf_position
<1>1. /\ u = v
      /\ to_bytes(CommitContent(c, u)) = to_bytes(CommitContent(d, v))
  BY DEF sign_commit
<1>2. \A x, id : to_bytes(CommitContent(x, id)) =
        <<x.group_id, x.epoch, as_byte(x.kind), x.round_hash, <<"path", x.path_updates>>,
          x.committer_leaf_position, <<"user id", id>>>>
  BY DEF to_bytes, CommitContent, hash_path_updates, serialise_path_updates,
         derive_user_id_from_identity
<1>3. <<c.group_id, c.epoch, as_byte(c.kind), c.round_hash, <<"path", c.path_updates>>,
        c.committer_leaf_position, <<"user id", u>>>> =
      <<d.group_id, d.epoch, as_byte(d.kind), d.round_hash, <<"path", d.path_updates>>,
        d.committer_leaf_position, <<"user id", v>>>>
  BY ONLY <1>1, <1>2
<1>4. /\ c.group_id = d.group_id /\ c.epoch = d.epoch /\ as_byte(c.kind) = as_byte(d.kind)
      /\ c.round_hash = d.round_hash /\ <<"path", c.path_updates>> = <<"path", d.path_updates>>
      /\ c.committer_leaf_position = d.committer_leaf_position
  BY ONLY <1>3
<1>5. c.path_updates = d.path_updates
  BY ONLY <1>4
<1>6. c.kind = d.kind
  BY <1>4 DEF as_byte
<1> QED BY <1>1, <1>4, <1>5, <1>6

(* The root of a path that a receiver opens.                               *)
LEMMA DeltaFacts ==
    ASSUME NEW s, NEW c, NEW n, PathOK(c.path_updates, n)
    PROVE  /\ (\E level \in DOMAIN c.path_updates :
                  decrypt_seed(c.path_updates[level], s.our_keypair) # {})
                 => delta_root_of(s, c) = {Root(n)}
           /\ ~ (\E level \in DOMAIN c.path_updates :
                    decrypt_seed(c.path_updates[level], s.our_keypair) # {})
                 => delta_root_of(s, c) = {}
<1>1. c.path_updates # << >>
  <2>1. 1 \in DOMAIN c.path_updates
    BY DEF PathOK
  <2> QED BY <2>1
<1>2. delta_root_of(s, c) = apply_path_updates(c.path_updates, s.our_keypair)
  BY <1>1 DEF delta_root_of
<1>3. CASE \E level \in DOMAIN c.path_updates :
              decrypt_seed(c.path_updates[level], s.our_keypair) # {}
  BY <1>2, <1>3, ApplyFacts
<1>4. CASE ~ \E level \in DOMAIN c.path_updates :
                decrypt_seed(c.path_updates[level], s.our_keypair) # {}
  <2>1. {l \in DOMAIN c.path_updates : decrypt_seed(c.path_updates[l], s.our_keypair) # {}} = {}
    BY <1>4
  <2>2. apply_path_updates(c.path_updates, s.our_keypair) = {}
    BY <2>1 DEF apply_path_updates
  <2> QED BY <1>2, <1>4, <2>2
<1> QED BY <1>3, <1>4

LEMMA Verifies ==
    ASSUME NEW s, NEW w, NEW id, w.kind \in {"add", "update", "remove"},
           process_commit(s, w, id) # Refused
    PROVE  \E tree : commit_verifies(s, tree, w, id)
<1>1. CASE w.kind = "add"
  <2>1. process_add(s, w, id) # Refused
    BY <1>1 DEF process_commit
  <2> QED BY <2>1 DEF process_add
<1>2. CASE w.kind = "update"
  <2>1. process_update(s, w, id) # Refused
    BY <1>2 DEF process_commit
  <2> QED BY <2>1 DEF process_update
<1>3. CASE w.kind = "remove"
  <2>1. process_remove(s, w, id) # Refused
    BY <1>3 DEF process_commit
  <2> QED BY <2>1 DEF process_remove
<1> QED BY <1>1, <1>2, <1>3

(* Whatever a receiver accepts is a commit that was made for it there.     *)
LEMMA AcceptedIsMade ==
    ASSUME SentOK, NEW w, Woven(w), NEW r, NEW p \in Places, NEW id,
           process_commit(founder_session(r, p), w, id) # Refused
    PROVE  \E c \in sent : /\ c.by = id /\ c.place = p
                           /\ SameCommit(c.wire, w) /\ SealedTo(r, c.wire)
<1> PICK s : s = founder_session(r, p)
  OBVIOUS
<1>1. \A e \in sent : \E n : CommitOK(e, n)
  BY DEF SentOK
<1>2. w.kind \in {"add", "update", "remove"}
  BY <1>1 DEF Woven, CommitOK, Carries
<1>3. PICK tree : commit_verifies(s, tree, w, id)
  BY <1>2, Verifies
<1>4. PICK e \in sent : w.signature = e.wire.signature
  BY DEF Woven
<1>5. PICK n : CommitOK(e, n)
  BY <1>1
<1>6. Carries(e.wire, e.by, e.place, n) /\ e.place \in Places
  BY <1>5 DEF CommitOK
<1> PICK c : c = e.wire
  OBVIOUS
<1>7. /\ e.by = id /\ c.group_id = w.group_id /\ c.epoch = w.epoch /\ c.kind = w.kind
      /\ c.round_hash = w.round_hash /\ c.path_updates = w.path_updates
      /\ c.committer_leaf_position = w.committer_leaf_position
  <2>1. sign_commit(e.by, CommitContent(c, e.by)) = sign_commit(id, CommitContent(w, id))
    BY <1>3, <1>4, <1>6 DEF Carries, commit_verifies, verify_commit_signature
  <2>2. c.kind \in {"add", "update", "remove"}
    BY <1>6 DEF Carries
  <2> QED BY ONLY <1>2, <2>1, <2>2, SignsAlike
<1>8. PICK delta \in delta_root_of(s, w) :
        /\ w.confirmation_tag = compute_confirmation_tag(delta,
               h3_transcript_hash(transcript_hash(s), w.round_hash), w.epoch)
        /\ round_hash_matches(w, delta)
  BY <1>3 DEF commit_verifies
<1>9. PathOK(w.path_updates, n)
  BY <1>6, <1>7 DEF Carries
<1>10. s.our_keypair = identity_kem(r) /\ StandsAt(s, r, p)
  BY SessionFacts
<1>11. SealedTo(r, c) /\ delta = Root(n)
  <2>1. \E level \in DOMAIN w.path_updates : decrypt_seed(w.path_updates[level], s.our_keypair) # {}
    BY ONLY <1>8, <1>9, DeltaFacts
  <2>2. delta_root_of(s, w) = {Root(n)}
    BY ONLY <1>9, <2>1, DeltaFacts
  <2>3. SealedTo(r, c)
    BY <1>7, <1>10, <2>1 DEF SealedTo
  <2> QED BY <1>8, <2>2, <2>3
<1>12. RemovedUsers(w) = RemovedUsers(c) /\ AddedUsers(w) = AddedUsers(c)
  <2>1. c.round_hash = RoundOf(c, n)
    BY <1>6 DEF Carries
  <2> QED BY <1>7, <1>8, <2>1 DEF round_hash_matches, RoundOf, h3_round_hash
<1>13. c.kind # "update" => c.subject = w.subject
  BY <1>2, <1>7, <1>12 DEF RemovedUsers, AddedUsers
<1>14. PICK g \in sent : w.confirmation_tag = g.wire.confirmation_tag
  BY DEF Woven
<1>15. PICK m : CommitOK(g, m)
  BY <1>1
<1>16. g = e
  <2>1. g.wire.confirmation_tag = TagOf(g.wire, g.place, m)
    BY <1>15 DEF CommitOK, Carries
  <2>2. Root(m) = Root(n)
    BY <1>8, <1>11, <1>14, <2>1 DEF TagOf, compute_confirmation_tag
  <2> QED BY <1>5, <1>15, <2>2, RootTells DEF SentOK
<1>17. w.confirmation_tag = c.confirmation_tag /\ c.confirmation_tag = TagOf(c, e.place, n)
  BY <1>6, <1>14, <1>16 DEF Carries
<1>18. Transcript(e.place, Len(e.place.deltas)) = transcript_hash(s)
  BY <1>8, <1>17 DEF TagOf, compute_confirmation_tag, h3_transcript_hash
<1>19. e.place = p
  <2>1. Len(e.place.deltas) \in Nat /\ Len(p.deltas) \in Nat
    BY <1>6, SessionFacts
  <2>2. e.place.group = p.group /\ Len(e.place.deltas) = Len(p.deltas)
    <3>1. w.group_id = s.group_id /\ w.epoch = s.epoch.number + 1
      BY <1>3 DEF commit_verifies
    <3>2. w.group_id = e.place.group /\ w.epoch = Len(e.place.deltas) + 1
      BY <1>6, <1>7 DEF Carries
    <3> QED BY <1>10, <2>1, <3>1, <3>2 DEF StandsAt
  <2>3. Transcript(e.place, Len(p.deltas)) = Transcript(p, Len(p.deltas))
    BY <1>10, <1>18, <2>2 DEF StandsAt
  <2>4. p.deltas # << >> => Len(p.deltas) # 0
    BY PlacesAssumption, EmptySeq
  <2>5. e.place.deltas # << >> =>
          e.place.deltas[Len(e.place.deltas)] = p.deltas[Len(e.place.deltas)]
    <3>1. e.place.deltas # << >> => Len(e.place.deltas) # 0
      BY <1>6, PlacesAssumption, EmptySeq
    <3> QED BY <2>2, <2>3, <3>1 DEF Transcript
  <2> QED BY <1>6, <2>2, <2>5, PlacesAssumption
<1>20. SameCommit(c, w)
  <2>1. DOMAIN c = CommitFields
    BY <1>6 DEF Carries
  <2>2. c.signature = w.signature /\ c.confirmation_tag = w.confirmation_tag
    BY <1>4, <1>17
  <2> QED BY ONLY <1>7, <1>13, <2>1, <2>2 DEF SameCommit, Unbound, CommitFields
<1> QED BY <1>7, <1>11, <1>19, <1>20

Without(s, x) == [s EXCEPT !.members = @ \ {x}]

(* A receiver that a commit was sealed to takes it as it was made.         *)
LEMMA MadeIsAccepted ==
    ASSUME NEW e, NEW n, CommitOK(e, n), NEW r \in 0..2, SealedTo(r, e.wire)
    PROVE  process_commit(founder_session(r, e.place), e.wire, e.by) # Refused
<1> PICK c, u, p : c = e.wire /\ u = e.by /\ p = e.place
  OBVIOUS
<1> PICK s : s = founder_session(r, p)
  OBVIOUS
<1>1. u \in 0..2 /\ p \in Places /\ Carries(c, u, p, n)
  BY MembersAssumption DEF CommitOK
<1>2. /\ StandsAt(s, r, p) /\ s.tree = founders_tree /\ s.our_keypair = identity_kem(r)
      /\ s.members = {r}
  BY <1>1, SessionFacts
<1>3. PICK epoch : s = SessionAt(r, p, epoch)
  BY <1>1, SessionFacts
<1>4. delta_root_of(s, c) = {Root(n)}
  <2>1. \E level \in DOMAIN c.path_updates : decrypt_seed(c.path_updates[level], s.our_keypair) # {}
    BY <1>2 DEF SealedTo
  <2>2. PathOK(c.path_updates, n)
    BY <1>1 DEF Carries
  <2> QED BY ONLY <2>1, <2>2, DeltaFacts
<1>5. ~ is_blank(founders_tree, leaf(2, u))
  <2>1. leaf(2, u) \in DOMAIN founders_tree.nodes =>
          founders_tree.nodes[leaf(2, u)] = populated(identity_kem(u))
    <3>1. leaf(2, u).depth = 2 /\ leaf(2, u).position = u
      BY DEF leaf
    <3> QED BY <3>1, TreeFacts
  <2>2. populated(identity_kem(u)).key # NoKey
    BY DEF populated, identity_kem, NoKey
  <2> QED BY <2>1, <2>2 DEF is_blank, contains
<1>6. commit_verifies(s, founders_tree, c, u)
  <2>1. c.group_id = s.group_id /\ c.epoch = s.epoch.number + 1
    BY <1>1, <1>2 DEF Carries, StandsAt
  <2>2. verify_commit_signature(u, CommitContent(c, u), c.signature)
    BY <1>1 DEF Carries, verify_commit_signature
  <2>3. c.committer_leaf_position < s.tree.member_count
    BY <1>1, <1>2, TreeFacts DEF Carries
  <2>4. ~ is_blank(founders_tree, leaf(founders_tree.tree_depth, c.committer_leaf_position))
    BY <1>1, <1>5, TreeFacts DEF Carries
  <2>5. c.confirmation_tag = compute_confirmation_tag(Root(n),
            h3_transcript_hash(transcript_hash(s), c.round_hash), c.epoch)
    BY <1>1, <1>2 DEF Carries, StandsAt, TagOf
  <2>6. round_hash_matches(c, Root(n))
    BY <1>1 DEF Carries, RoundOf, round_hash_matches
  <2> QED BY <1>4, <2>1, <2>2, <2>3, <2>4, <2>5, <2>6 DEF commit_verifies
<1>7. \A t, m, delta, transcript :
        Without(advance_session([s EXCEPT !.tree = t], delta, transcript), m) # Refused
        /\ advance_session([s EXCEPT !.tree = t], delta, transcript) # Refused
        /\ insert_member(advance_session([s EXCEPT !.tree = t], delta, transcript), m) # Refused
  <2> TAKE t, m, delta, transcript
  <2>1. PICK other : [s EXCEPT !.tree = t] =
            [group_id |-> p.group, our_user_id |-> r, our_keypair |-> identity_kem(r),
             our_leaf_position |-> r, epoch |-> epoch, members |-> {r}, tree |-> other]
    BY <1>3 DEF SessionAt
  <2> PICK x : x = [s EXCEPT !.tree = t]
    OBVIOUS
  <2>2. PICK next : advance_session(x, delta, transcript) = [x EXCEPT !.epoch = next]
    BY DEF advance_session
  <2> QED BY <2>1, <2>2 DEF Refused, insert_member, Without
<1>8. CASE c.kind = "add"
  <2>1. c.at = 3 /\ c.subject \in Applicants /\ 3 + 1 = 4
    BY <1>8 DEF CommitOK
  <2>2. grow_if_needed(s.tree, c.at + 1) = founders_tree
    BY <1>2, <2>1, TreeFacts
  <2>3. ~ is_member(s, c.subject)
    BY <1>2, <2>1, MembersAssumption DEF is_member
  <2>4. ~ is_populated(founders_tree, leaf(founders_tree.tree_depth, c.at))
    <3>1. leaf(2, 3) \notin DOMAIN founders_tree.nodes
      <4>1. leaf(2, 3).depth = 2 /\ leaf(2, 3).position = 3
        BY DEF leaf
      <4> QED BY <4>1, TreeFacts
    <3> QED BY <2>1, <3>1, TreeFacts DEF is_populated, public_key, contains
  <2>5. process_add(s, c, u) # Refused
    BY <1>6, <1>7, <2>2, <2>3, <2>4 DEF process_add, move_along
  <2> QED BY <1>8, <2>5 DEF process_commit
<1>9. CASE c.kind = "update"
  <2>1. process_update(s, c, u) # Refused
    BY <1>2, <1>6, <1>7 DEF process_update, move_along
  <2> QED BY <1>9, <2>1 DEF process_commit
<1>10. CASE c.kind = "remove"
  <2>1. c.at # s.our_leaf_position
    BY <1>2, <1>10 DEF CommitOK, StandsAt
  <2>2. process_remove(s, c, u) # Refused
    <3>1. \A t : [move_along(s, c, t) EXCEPT !.members = @ \ {c.subject}] # Refused
      <4> TAKE t
      <4>1. PICK delta, transcript :
              move_along(s, c, t) = advance_session([s EXCEPT !.tree = t], delta, transcript)
        BY DEF move_along
      <4>2. Without(advance_session([s EXCEPT !.tree = t], delta, transcript), c.subject) # Refused
        BY ONLY <1>7
      <4> QED BY ONLY <4>1, <4>2 DEF Without
    <3>2. commit_verifies(s, s.tree, c, u)
      BY <1>2, <1>6
    <3> QED BY ONLY <2>1, <3>1, <3>2 DEF process_remove
  <2> QED BY <1>10, <2>2 DEF process_commit
<1> QED BY <1>1, <1>8, <1>9, <1>10 DEF Carries

LEMMA CommitDrawsOnce ==
    ASSUME NEW e, NEW n, NEW m, CommitOK(e, n), CommitOK(e, m)
    PROVE  n = m
<1>1. TagOf(e.wire, e.place, n) = TagOf(e.wire, e.place, m)
  BY DEF CommitOK, Carries
<1>2. Root(n) = Root(m)
  BY <1>1 DEF TagOf, compute_confirmation_tag
<1> QED BY <1>2, RootTells

LEMMA SentGrows ==
    ASSUME SentOK, NEW e, CommitOK(e, Cardinality(sent)), sent' = sent \cup {e}
    PROVE  SentOK'
<1>1. IsFiniteSet(sent) /\ Cardinality(sent) \in Nat
  BY FS_CardinalityType DEF SentOK
<1>2. e \notin sent
  <2> SUFFICES ASSUME e \in sent PROVE FALSE
    OBVIOUS
  <2>1. PICK n \in 0..(Cardinality(sent) - 1) : CommitOK(e, n)
    BY DEF SentOK
  <2>2. n = Cardinality(sent)
    BY <2>1, CommitDrawsOnce
  <2> QED BY <1>1, <2>1, <2>2
<1>3. IsFiniteSet(sent') /\ Cardinality(sent') = Cardinality(sent) + 1
  BY <1>1, <1>2, FS_AddElement
<1> PICK K : K = Cardinality(sent)
  OBVIOUS
<1>4. K \in Nat /\ Cardinality(sent') = K + 1 /\ K \in 0..((K + 1) - 1)
  BY <1>1, <1>3
<1>5. \A f \in sent' : \E n \in 0..(Cardinality(sent') - 1) : CommitOK(f, n)
  <2> TAKE f \in sent'
  <2>1. CASE f = e
    BY <1>4, <2>1
  <2>2. CASE f \in sent
    <3>1. PICK n \in 0..(K - 1) : CommitOK(f, n)
      BY <2>2 DEF SentOK
    <3>2. n \in 0..((K + 1) - 1)
      BY ONLY <1>4, <3>1
    <3> QED BY <1>4, <3>1, <3>2
  <2> QED BY <2>1, <2>2
<1>6. \A f \in sent : ~ CommitOK(f, K)
  <2> TAKE f \in sent
  <2>1. PICK n \in 0..(K - 1) : CommitOK(f, n)
    BY DEF SentOK
  <2>2. n # K
    BY ONLY <1>4, <2>1
  <2> QED BY <2>1, <2>2, CommitDrawsOnce
<1>7. \A f, g \in sent' : \A n : CommitOK(f, n) /\ CommitOK(g, n) => f = g
  <2> TAKE f, g \in sent'
  <2> TAKE n
  <2> HAVE CommitOK(f, n) /\ CommitOK(g, n)
  <2>1. CASE f \in sent /\ g \in sent
    BY <2>1 DEF SentOK
  <2>2. CASE f = e \/ g = e
    <3>1. n = K
      BY <2>2, CommitDrawsOnce
    <3> QED BY <1>6, <3>1
  <2> QED BY <2>1, <2>2
<1> QED BY <1>3, <1>5, <1>7 DEF SentOK

LEMMA MixturesWoven ==
    ASSUME SentOK, NEW c \in sent, NEW d \in sent,
           NEW w \in Mixtures(c.wire, d.wire) \cup PathMixtures(c.wire, d.wire)
    PROVE  Woven(w)
<1>1. c.wire = [f \in CommitFields |-> c.wire[f]]
  BY DEF SentOK, CommitOK, Carries
<1>2. CASE w \in Mixtures(c.wire, d.wire)
  <2>1. PICK fields : w = [f \in CommitFields |-> IF f \in fields THEN d.wire[f] ELSE c.wire[f]]
    BY <1>1, <1>2 DEF Mixtures
  <2>2. /\ w.signature \in {c.wire.signature, d.wire.signature}
        /\ w.confirmation_tag \in {c.wire.confirmation_tag, d.wire.confirmation_tag}
        /\ w.kind \in {c.wire.kind, d.wire.kind}
    BY <2>1 DEF CommitFields
  <2> QED BY <2>2 DEF Woven
<1>3. CASE w \in PathMixtures(c.wire, d.wire)
  <2>1. PICK path : w = [c.wire EXCEPT !.path_updates = path]
    BY <1>3 DEF PathMixtures
  <2>2. /\ w.signature = c.wire.signature
        /\ w.confirmation_tag = c.wire.confirmation_tag /\ w.kind = c.wire.kind
    BY <1>1, <2>1 DEF CommitFields
  <2> QED BY <2>2 DEF Woven
<1> QED BY <1>2, <1>3

LEMMA CommitLands ==
    ASSUME SentOK, NEW r \in Receivers, NEW p \in Places, NEW id, TakeCommit(r, p, id)
    PROVE  SentOK' /\ welcomed' = welcomed /\ WiresLandAsMade'
<1>1. PICK c \in sent, d \in sent :
        \E w \in Mixtures(c.wire, d.wire) \cup PathMixtures(c.wire, d.wire) :
            LET after == process_commit(founder_session(r, p), w, id)
            IN /\ after # Refused \/ (w = c.wire /\ c.place = p /\ c.by = id)
               /\ landed' = [what |-> "commit", wire |-> w, identity |-> id, place |-> p,
                             receiver |-> r, after |-> after]
               /\ UNCHANGED <<sent, welcomed>>
  BY DEF TakeCommit
<1>2. PICK w \in Mixtures(c.wire, d.wire) \cup PathMixtures(c.wire, d.wire) :
        LET after == process_commit(founder_session(r, p), w, id)
        IN /\ after # Refused \/ (w = c.wire /\ c.place = p /\ c.by = id)
           /\ landed' = [what |-> "commit", wire |-> w, identity |-> id, place |-> p,
                         receiver |-> r, after |-> after]
           /\ UNCHANGED <<sent, welcomed>>
  BY <1>1
<1> PICK after : after = process_commit(founder_session(r, p), w, id)
  OBVIOUS
<1>3. /\ after # Refused \/ (w = c.wire /\ c.place = p /\ c.by = id)
      /\ landed' = [what |-> "commit", wire |-> w, identity |-> id, place |-> p,
                    receiver |-> r, after |-> after]
      /\ sent' = sent /\ welcomed' = welcomed
  BY <1>2
<1> DEFINE Made == \E e \in sent : /\ e.by = id /\ e.place = p
                                   /\ SameCommit(e.wire, w) /\ SealedTo(r, e.wire)
<1>4. ASSUME after # Refused PROVE Made
  BY <1>4, MixturesWoven, AcceptedIsMade
<1>5. ASSUME Made PROVE after # Refused
  <2> SUFFICES ASSUME after = Refused PROVE FALSE
    OBVIOUS
  <2>1. w = c.wire /\ c.place = p /\ c.by = id
    BY <1>3
  <2>2. PICK e \in sent : SameCommit(e.wire, w) /\ SealedTo(r, e.wire)
    BY <1>5
  <2>3. PICK n : CommitOK(e, n)
    BY DEF SentOK
  <2>4. e.wire.path_updates = w.path_updates
    <3>1. DOMAIN e.wire = CommitFields
      BY <2>3 DEF CommitOK, Carries
    <3> QED BY <2>2, <3>1 DEF SameCommit, Unbound, CommitFields
  <2>5. SealedTo(r, c.wire)
    BY <2>1, <2>2, <2>4 DEF SealedTo
  <2>6. PICK m : CommitOK(c, m)
    BY DEF SentOK
  <2> QED BY <2>1, <2>5, <2>6, MadeIsAccepted, MembersAssumption
<1>6. SentOK'
  BY <1>3 DEF SentOK
<1> HIDE DEF Made
<1>7. landed'.what = "commit" /\ landed'.after = after /\ landed'.identity = id
      /\ landed'.place = p /\ landed'.receiver = r /\ landed'.wire = w
  BY <1>3
<1>8. CommitsLandAsMade'
  <2>1. (after # Refused) = Made
    BY ONLY <1>4, <1>5 DEF Made
  <2> QED BY <1>3, <1>7, <2>1 DEF CommitsLandAsMade, Made
<1>9. WelcomesJoinAsMade'
  BY <1>7 DEF WelcomesJoinAsMade
<1> QED BY <1>3, <1>6, <1>8, <1>9 DEF WiresLandAsMade
-----------------------------------------------------------------------------
(* What the signature of a welcome covers tells all its fields.            *)
WelcomeFields == {"group_id", "epoch", "leaf_position", "tree_depth", "member_count",
                  "encrypted_info", "encapsulation", "signature"}

LEMMA ConcatFacts ==
    ASSUME NEW q, IsTuple(q), NEW r, IsTuple(r)
    PROVE  /\ IsTuple(q \o r) /\ Len(q \o r) = Len(q) + Len(r)
           /\ \A i \in 1..Len(q) : (q \o r)[i] = q[i]
           /\ \A i \in 1..Len(r) : (q \o r)[Len(q) + i] = r[i]
<1> PICK S : S = {q[n] : n \in 1..Len(q)} \cup {r[n] : n \in 1..Len(r)}
  OBVIOUS
<1>1. q \in Seq(S) /\ r \in Seq(S)
  BY TupleSeq
<1> PICK t : t = q \o r
  OBVIOUS
<1> PICK a, b : a = Len(q) /\ b = Len(r)
  OBVIOUS
<1>2. /\ t \in Seq(S) /\ Len(t) = a + b /\ a \in Nat /\ b \in Nat
      /\ \A i \in 1..(a + b) : t[i] = IF i <= a THEN q[i] ELSE r[i - a]
  BY <1>1, ConcatProperties DEF IsTuple
<1>3. IsTuple(t)
  BY <1>2, LenProperties DEF IsTuple
<1>4. \A i \in 1..a : t[i] = q[i]
  BY ONLY <1>2
<1>5. \A i \in 1..b : t[a + i] = r[i]
  <2> TAKE i \in 1..b
  <2>1. a + i \in 1..(a + b) /\ ~ (a + i <= a) /\ (a + i) - a = i
    BY ONLY <1>2, i \in 1..b
  <2> QED BY ONLY <1>2, <2>1
<1> QED BY <1>2, <1>3, <1>4, <1>5

LEMMA TupleEqual ==
    ASSUME NEW q, IsTuple(q), NEW r, IsTuple(r), Len(q) = Len(r),
           \A i \in 1..Len(q) : q[i] = r[i]
    PROVE  q = r
BY DEF IsTuple

LEMMA PairTuple == \A x, y : IsTuple(<<x, y>>) /\ Len(<<x, y>>) = 2
BY DEF IsTuple

(* head is of one length for all, so that the lengths in between are read. *)
Framed(head, q, r) == head \o q \o <<Len(r)>> \o r

Reads(f, h, q, r) ==
    /\ \A i \in 1..Len(h) : f[i] = h[i]
    /\ \A i \in 1..Len(q) : f[Len(h) + i] = q[i]
    /\ f[Len(h) + Len(q) + 1] = Len(r)
    /\ \A i \in 1..Len(r) : f[Len(h) + Len(q) + 1 + i] = r[i]

LEMMA FramedFacts ==
    ASSUME NEW h, IsTuple(h), NEW q, IsTuple(q), NEW r, IsTuple(r),
           NEW f, f = Framed(h, q, r)
    PROVE  Reads(f, h, q, r)
<1> PICK a, b, c : a = Len(h) /\ b = Len(q) /\ c = Len(r)
  OBVIOUS
<1> PICK one : one = <<c>>
  OBVIOUS
<1> PICK hq : hq = h \o q
  OBVIOUS
<1> PICK hq1 : hq1 = hq \o one
  OBVIOUS
<1>1. a \in Nat /\ b \in Nat /\ c \in Nat
  BY DEF IsTuple
<1>2. /\ IsTuple(hq) /\ Len(hq) = a + b
      /\ \A i \in 1..a : hq[i] = h[i]
      /\ \A i \in 1..b : hq[a + i] = q[i]
  BY ConcatFacts
<1>3. IsTuple(one) /\ Len(one) = 1 /\ one[1] = c
  BY OneStep
<1>4. /\ IsTuple(hq1) /\ Len(hq1) = a + b + 1
      /\ \A i \in 1..(a + b) : hq1[i] = hq[i]
      /\ hq1[a + b + 1] = c
  <2>1. /\ IsTuple(hq1) /\ Len(hq1) = (a + b) + 1
        /\ \A i \in 1..(a + b) : hq1[i] = hq[i]
        /\ \A i \in 1..1 : hq1[(a + b) + i] = one[i]
    <3>1. /\ IsTuple(hq1) /\ Len(hq1) = Len(hq) + Len(one)
          /\ \A i \in 1..Len(hq) : hq1[i] = hq[i]
          /\ \A i \in 1..Len(one) : hq1[Len(hq) + i] = one[i]
      <4>1. IsTuple(hq) /\ IsTuple(one)
        BY <1>2, <1>3
      <4> QED BY ONLY <4>1, ConcatFacts, hq1 = hq \o one
    <3>2. Len(hq) = a + b /\ Len(one) = 1
      BY <1>2, <1>3
    <3> QED BY ONLY <3>1, <3>2
  <2> QED BY ONLY <1>1, <1>3, <2>1
<1>5. /\ \A i \in 1..(a + b + 1) : f[i] = hq1[i]
      /\ \A i \in 1..c : f[a + b + 1 + i] = r[i]
  <2>1. f = hq1 \o r
    BY DEF Framed
  <2>2. /\ \A i \in 1..Len(hq1) : (hq1 \o r)[i] = hq1[i]
        /\ \A i \in 1..Len(r) : (hq1 \o r)[Len(hq1) + i] = r[i]
    <3>1. IsTuple(hq1)
      BY ONLY <1>4
    <3> QED BY ONLY <3>1, IsTuple(r), ConcatFacts
  <2>3. Len(hq1) = a + b + 1 /\ Len(r) = c
    BY ONLY <1>4, a = Len(h) /\ b = Len(q) /\ c = Len(r)
  <2> QED BY ONLY <2>1, <2>2, <2>3
<1>6. \A i \in 1..a : f[i] = h[i]
  BY ONLY <1>1, <1>2, <1>4, <1>5
<1>7. \A i \in 1..b : f[a + i] = q[i]
  <2> TAKE i \in 1..b
  <2>1. a + i \in 1..(a + b) /\ a + i \in 1..(a + b + 1)
    BY ONLY <1>1, i \in 1..b
  <2> QED BY <1>2, <1>4, <1>5, <2>1
<1>8. f[a + b + 1] = c
  BY ONLY <1>1, <1>4, <1>5
<1> QED BY <1>5, <1>6, <1>7, <1>8 DEF Reads

LEMMA FramedTells ==
    ASSUME NEW h, IsTuple(h), NEW q, IsTuple(q), NEW r, IsTuple(r),
           NEW g, IsTuple(g), NEW p, IsTuple(p), NEW s, IsTuple(s),
           Len(h) = Len(g), Framed(h, q, r) = Framed(g, p, s), h = g => Len(q) = Len(p)
    PROVE  h = g /\ q = p /\ r = s
<1> PICK f : f = Framed(h, q, r)
  OBVIOUS
<1>1. Reads(f, h, q, r) /\ Reads(f, g, p, s)
  BY FramedFacts
<1>2. h = g
  <2>1. \A i \in 1..Len(h) : h[i] = g[i]
    BY ONLY <1>1, Len(h) = Len(g) DEF Reads
  <2> QED BY ONLY <2>1, Len(h) = Len(g), IsTuple(h), IsTuple(g), TupleEqual
<1> PICK a, b : a = Len(h) /\ b = Len(q)
  OBVIOUS
<1>3. Len(g) = a /\ Len(p) = b
  BY <1>2
<1>4. /\ \A i \in 1..b : f[a + i] = q[i]
      /\ f[a + b + 1] = Len(r)
      /\ \A i \in 1..Len(r) : f[a + b + 1 + i] = r[i]
  BY ONLY <1>1, a = Len(h), b = Len(q) DEF Reads
<1>5. /\ \A i \in 1..b : f[a + i] = p[i]
      /\ f[a + b + 1] = Len(s)
      /\ \A i \in 1..Len(s) : f[a + b + 1 + i] = s[i]
  BY ONLY <1>1, <1>3 DEF Reads
<1>6. q = p
  <2>1. \A i \in 1..Len(q) : q[i] = p[i]
    BY ONLY <1>4, <1>5, b = Len(q)
  <2>2. Len(q) = Len(p)
    BY <1>3
  <2> QED BY ONLY <2>1, <2>2, IsTuple(q), IsTuple(p), TupleEqual
<1>7. r = s
  <2>1. Len(r) = Len(s)
    BY ONLY <1>4, <1>5
  <2>2. \A i \in 1..Len(r) : r[i] = s[i]
    BY ONLY <1>4, <1>5, <2>1
  <2> QED BY ONLY <2>1, <2>2, IsTuple(r), IsTuple(s), TupleEqual
<1> QED BY <1>2, <1>6, <1>7

HeadOf(w) == <<w.group_id, w.epoch, w.leaf_position, w.tree_depth, w.member_count,
               Len(w.encapsulation)>>

LEMMA BodyTells ==
    ASSUME NEW w, IsTuple(w.encapsulation), IsTuple(w.encrypted_info),
           NEW x, IsTuple(x.encapsulation), IsTuple(x.encrypted_info),
           welcome_sign_body(w) = welcome_sign_body(x)
    PROVE  /\ w.group_id = x.group_id /\ w.epoch = x.epoch /\ w.leaf_position = x.leaf_position
           /\ w.tree_depth = x.tree_depth /\ w.member_count = x.member_count
           /\ w.encapsulation = x.encapsulation /\ w.encrypted_info = x.encrypted_info
<1>1. \A y : welcome_sign_body(y) = Framed(HeadOf(y), y.encapsulation, y.encrypted_info)
  BY DEF welcome_sign_body, Framed, HeadOf
<1>2. \A y : IsTuple(HeadOf(y)) /\ Len(HeadOf(y)) = 6
  BY DEF HeadOf, IsTuple
<1>3. HeadOf(w) = HeadOf(x) => Len(w.encapsulation) = Len(x.encapsulation)
  BY DEF HeadOf
<1>4. /\ HeadOf(w) = HeadOf(x) /\ w.encapsulation = x.encapsulation
      /\ w.encrypted_info = x.encrypted_info
  <2>1. Framed(HeadOf(w), w.encapsulation, w.encrypted_info)
          = Framed(HeadOf(x), x.encapsulation, x.encrypted_info)
    BY <1>1
  <2>2. IsTuple(HeadOf(w)) /\ IsTuple(HeadOf(x)) /\ Len(HeadOf(w)) = Len(HeadOf(x))
    BY <1>2
  <2> QED BY ONLY <1>3, <2>1, <2>2, IsTuple(w.encapsulation), IsTuple(w.encrypted_info),
                  IsTuple(x.encapsulation), IsTuple(x.encrypted_info), FramedTells
<1>5. /\ w.group_id = x.group_id /\ w.epoch = x.epoch /\ w.leaf_position = x.leaf_position
      /\ w.tree_depth = x.tree_depth /\ w.member_count = x.member_count
  BY ONLY <1>4 DEF HeadOf
<1> QED BY <1>4, <1>5
-----------------------------------------------------------------------------
(* Welcomes as they are made: of a founder at the start of the group, and  *)
(* of an added member.                                                     *)
Encloses(w, text, key, draw, data) ==
    /\ w.encapsulation = encapsulate(key, draw)
    /\ w.encrypted_info = encrypt_welcome_info(text, key, draw, data)
Founding(e) ==
    /\ e.wire.epoch = 0 /\ e.place \in Places /\ e.place.deltas = << >>
    /\ e.wire.group_id = e.place.group /\ e.to = identity_kem(e.wire.leaf_position)
    /\ e.wire.tree_depth = 2 /\ e.wire.member_count = 3
    /\ \E draw : Encloses(e.wire, <<<<"group", e.place.group>>, Zeros>>, e.to, draw,
                          <<"group id", e.wire.group_id>>)
Adding(e) ==
    /\ e.wire.epoch > 0
    /\ \E text, draw : Encloses(e.wire, text, e.to, draw, <<"cocoa-welcome-add">>)

WelcomeOK(e) ==
    /\ e.wire = [f \in WelcomeFields |-> e.wire[f]]
    /\ e.wire.signature = sign_welcome(e.by, e.wire)
    /\ Founding(e) \/ Adding(e)

LEMMA WelcomeBuilt ==
    ASSUME NEW s, NEW id, NEW epoch, NEW position, NEW count, NEW info, NEW key, NEW draw,
           NEW data, NEW w, w = welcome(s, id, epoch, position, count, info, key, draw, data)
    PROVE  /\ w = [f \in WelcomeFields |-> w[f]]
           /\ w.group_id = s.group_id /\ w.epoch = epoch /\ w.leaf_position = position
           /\ w.tree_depth = s.tree.tree_depth /\ w.member_count = count
           /\ Encloses(w, info, key, draw, data)
           /\ w.signature = sign_welcome(id, w)
<1> PICK sealed, sent_to : sealed = encrypt_welcome_info(info, key, draw, data)
                           /\ sent_to = encapsulate(key, draw)
  OBVIOUS
<1> DEFINE unsigned == [group_id |-> s.group_id, epoch |-> epoch, leaf_position |-> position,
                        tree_depth |-> s.tree.tree_depth, member_count |-> count,
                        encrypted_info |-> sealed, encapsulation |-> sent_to]
<1> PICK signature : signature = sign_welcome(id, unsigned)
  OBVIOUS
<1>1. w = [f \in DOMAIN unsigned \cup {"signature"} |->
              IF f = "signature" THEN signature ELSE unsigned[f]]
  BY DEF welcome
<1>2. /\ DOMAIN unsigned = WelcomeFields \ {"signature"}
      /\ unsigned["group_id"] = s.group_id /\ unsigned["epoch"] = epoch
      /\ unsigned["leaf_position"] = position /\ unsigned["tree_depth"] = s.tree.tree_depth
      /\ unsigned["member_count"] = count /\ unsigned["encrypted_info"] = sealed
      /\ unsigned["encapsulation"] = sent_to
  BY DEF WelcomeFields
<1> HIDE DEF unsigned
<1>3. w = [f \in WelcomeFields |-> IF f = "signature" THEN signature ELSE unsigned[f]]
  BY <1>1, <1>2 DEF WelcomeFields
<1>4. /\ w.group_id = unsigned.group_id /\ w.epoch = unsigned.epoch
      /\ w.leaf_position = unsigned.leaf_position /\ w.tree_depth = unsigned.tree_depth
      /\ w.member_count = unsigned.member_count /\ w.encrypted_info = unsigned.encrypted_info
      /\ w.encapsulation = unsigned.encapsulation /\ w.signature = signature
      /\ w = [f \in WelcomeFields |-> w[f]]
  BY <1>3 DEF WelcomeFields
<1>5. welcome_sign_body(w) = welcome_sign_body(unsigned)
  BY <1>4 DEF welcome_sign_body
<1>6. w.signature = sign_welcome(id, w)
  BY <1>4, <1>5 DEF sign_welcome
<1> QED BY <1>2, <1>4, <1>6 DEF Encloses

LEMMA EnclosedTuples ==
    ASSUME NEW e, WelcomeOK(e)
    PROVE  /\ IsTuple(e.wire.encapsulation) /\ Len(e.wire.encapsulation) = 2
           /\ IsTuple(e.wire.encrypted_info) /\ Len(e.wire.encrypted_info) = 2
<1>1. PICK text, draw, data : Encloses(e.wire, text, e.to, draw, data)
  BY DEF WelcomeOK, Founding, Adding
<1>2. /\ \E x, y : e.wire.encapsulation = <<x, y>>
      /\ \E x, y : e.wire.encrypted_info = <<x, y>>
  BY <1>1 DEF Encloses, encapsulate, encrypt_welcome_info
<1> QED BY <1>2, PairTuple

(* A signature that holds fixes the whole welcome.                         *)
LEMMA SignatureFixes ==
    ASSUME NEW e, WelcomeOK(e), NEW w, w = [f \in WelcomeFields |-> w[f]],
           IsTuple(w.encapsulation), IsTuple(w.encrypted_info), NEW id,
           w.signature = e.wire.signature, w.signature = sign_welcome(id, w)
    PROVE  w = e.wire /\ id = e.by
<1> PICK c : c = e.wire
  OBVIOUS
<1>1. c = [f \in WelcomeFields |-> c[f]] /\ c.signature = sign_welcome(e.by, c)
  BY DEF WelcomeOK
<1>2. id = e.by /\ welcome_sign_body(w) = welcome_sign_body(c)
  <2>1. sign_welcome(id, w) = sign_welcome(e.by, c)
    BY <1>1
  <2> QED BY ONLY <2>1 DEF sign_welcome
<1>3. IsTuple(c.encapsulation) /\ IsTuple(c.encrypted_info)
  BY EnclosedTuples
<1>4. /\ w.group_id = c.group_id /\ w.epoch = c.epoch /\ w.leaf_position = c.leaf_position
      /\ w.tree_depth = c.tree_depth /\ w.member_count = c.member_count
      /\ w.encapsulation = c.encapsulation /\ w.encrypted_info = c.encrypted_info
  BY ONLY <1>2, <1>3, IsTuple(w.encapsulation), IsTuple(w.encrypted_info), BodyTells
<1>5. \A f \in WelcomeFields : w[f] = c[f]
  BY <1>4 DEF WelcomeFields
<1> QED BY <1>1, <1>2, <1>5

(* What a joiner makes of a welcome that was made.                         *)
Joined(e, kem, after) ==
    IF e.to # kem \/ e.wire.epoch > 0 THEN after = [error |-> "sealed"]
    ELSE /\ after.epoch = founder_session(0, e.place).epoch
         /\ identity_kem(after.our_leaf_position) = kem
         /\ after.tree.tree_depth = 2 /\ after.tree.member_count = 3

Opened(w, kem, data) == decrypt_welcome_info(w.encrypted_info, w.encapsulation, kem, data)

LEMMA OpensOnly ==
    ASSUME NEW w, NEW text, NEW key, NEW draw, NEW data, Encloses(w, text, key, draw, data)
    PROVE  \A kem, other :
              Opened(w, kem, other) = IF kem = key /\ other = data THEN {text} ELSE {}
<1> TAKE kem, other
<1>1. \A k : derive_welcome_key(decapsulate(k, encapsulate(key, draw))) = derive_welcome_key(Shared(key, draw))
              <=> k = key
  BY DEF derive_welcome_key, decapsulate, Shared
<1> PICK sealed : sealed = [key |-> derive_welcome_key(Shared(key, draw)), aad |-> data,
                            nonce |-> draw, text |-> text]
  OBVIOUS
<1>2. w.encrypted_info[1] = <<"nonce", draw>> /\ w.encrypted_info[2] = sealed
  BY DEF Encloses, encrypt_welcome_info
<1>3. w.encapsulation = encapsulate(key, draw)
  BY DEF Encloses
<1>4. /\ sealed.key = derive_welcome_key(Shared(key, draw)) /\ sealed.aad = data
      /\ sealed.nonce = draw /\ sealed.text = text
  OBVIOUS
<1>5. decrypt_welcome_info(w.encrypted_info, w.encapsulation, kem, other)
        = IF kem = key /\ other = data THEN {text} ELSE {}
  BY ONLY <1>1, <1>2, <1>3, <1>4 DEF decrypt_welcome_info
<1> QED BY ONLY <1>5 DEF Opened

LEMMA WelcomeJoins ==
    ASSUME NEW e, WelcomeOK(e), NEW kem
    PROVE  Joined(e, kem, process_welcome(kem[2], kem, e.wire, e.by))
<1> PICK w : w = e.wire
  OBVIOUS
<1> PICK after : after = process_welcome(kem[2], kem, w, e.by)
  OBVIOUS
<1> DEFINE opened == decrypt_welcome_info(w.encrypted_info, w.encapsulation, kem,
                                          <<"group id", w.group_id>>)
           text == CHOOSE t \in opened : TRUE
           joined == join_group(w.group_id, kem[2], kem, w.leaf_position, w.tree_depth,
                                w.member_count, text[1], text[2])
           Advanced[n \in 0..w.epoch] ==
               IF n = 0 THEN joined ELSE advance_session(Advanced[n - 1], Zeros, text[2])
<1>1. w.signature = sign_welcome(e.by, w) /\ Len(w.encapsulation) = 2
  BY EnclosedTuples DEF WelcomeOK
<1>2. after = IF opened = {} THEN [error |-> "sealed"] ELSE Advanced[w.epoch]
  BY <1>1 DEF process_welcome
<1>3. CASE Adding(e)
  <2>1. opened = {}
    <3>1. PICK info, draw : Encloses(w, info, e.to, draw, <<"cocoa-welcome-add">>)
      BY <1>3 DEF Adding
    <3>2. <<"group id", w.group_id>> # <<"cocoa-welcome-add">>
      OBVIOUS
    <3> PICK data : data = <<"group id", w.group_id>>
      OBVIOUS
    <3>3. data # <<"cocoa-welcome-add">>
      BY ONLY <3>2, data = <<"group id", w.group_id>>
    <3>4. Opened(w, kem, data) = {}
      BY ONLY <3>1, <3>3, OpensOnly
    <3> QED BY <3>4 DEF Opened
  <2> HIDE DEF opened, Advanced
  <2> QED BY <1>2, <1>3, <2>1 DEF Adding, Joined
<1>4. CASE Founding(e)
  <2> PICK p : p = e.place
    OBVIOUS
  <2>1. PICK draw : Encloses(w, <<<<"group", p.group>>, Zeros>>, e.to, draw, <<"group id", w.group_id>>)
    BY <1>4 DEF Founding
  <2>2. opened = IF kem = e.to THEN {<<<<"group", p.group>>, Zeros>>} ELSE {}
    <3> PICK info, data : info = <<<<"group", p.group>>, Zeros>> /\ data = <<"group id", w.group_id>>
      OBVIOUS
    <3>1. Encloses(w, info, e.to, draw, data)
      BY <2>1
    <3>2. kem = e.to => Opened(w, kem, data) = {info}
      BY ONLY <3>1, OpensOnly
    <3>3. kem # e.to => Opened(w, kem, data) = {}
      BY ONLY <3>1, OpensOnly
    <3> QED BY <3>2, <3>3 DEF Opened
  <2>3. CASE kem # e.to
    <3>1. opened = {}
      BY <2>2, <2>3
    <3> HIDE DEF opened, Advanced
    <3> QED BY <1>2, <2>3, <3>1 DEF Joined
  <2>4. CASE kem = e.to
    <3>1. opened = {<<<<"group", p.group>>, Zeros>>}
      BY <2>2, <2>4
    <3>2. w.epoch = 0 /\ p \in Places /\ p.deltas = << >> /\ w.group_id = p.group
          /\ kem = identity_kem(w.leaf_position) /\ w.tree_depth = 2 /\ w.member_count = 3
      BY <1>4, <2>4 DEF Founding
    <3> HIDE DEF opened
    <3>3. text = <<<<"group", p.group>>, Zeros>>
      BY <3>1
    <3> PICK start : start = joined
      OBVIOUS
    <3>4. /\ start.epoch = initial_epoch(<<"group", p.group>>, Zeros)
          /\ start.our_leaf_position = w.leaf_position
          /\ start.tree.tree_depth = 2 /\ start.tree.member_count = 3
      <4> HIDE DEF text
      <4>1. text[1] = <<"group", p.group>> /\ text[2] = Zeros
        BY <3>3
      <4> QED BY <3>2, <4>1 DEF join_group, session_of
    <3>5. Advanced[0] = start
      <4> HIDE DEF text, joined
      <4> PICK f : f = [n \in 0..0 |-> start]
        OBVIOUS
      <4>1. f = [n \in 0..w.epoch |->
                    IF n = 0 THEN joined ELSE advance_session(f[n - 1], Zeros, text[2])]
        <5>1. 0..w.epoch = 0..0 /\ \A n \in 0..0 : n = 0
          BY <3>2
        <5> QED BY <5>1
      <4>2. Advanced = [n \in 0..w.epoch |->
                          IF n = 0 THEN joined ELSE advance_session(Advanced[n - 1], Zeros, text[2])]
        BY ONLY <4>1, Zenon
      <4> HIDE DEF Advanced
      <4>3. 0 \in 0..w.epoch
        BY <3>2
      <4> QED BY <4>2, <4>3
    <3> HIDE DEF text, joined, Advanced
    <3>6. after = start
      <4>1. opened # {}
        BY <3>1
      <4> QED BY <1>2, <3>2, <3>5, <4>1
    <3>7. founder_session(0, p).epoch = initial_epoch(<<"group", p.group>>, Zeros)
      <4>1. founder_session(0, p) = SessionAt(0, p, First(p))
        BY <3>2, FounderFacts
      <4>2. founder_session(0, p).epoch = First(p)
        BY ONLY <4>1 DEF SessionAt
      <4> QED BY <4>2 DEF First, EpochOf, initial_epoch, restore_epoch
    <3> QED BY <2>4, <3>2, <3>4, <3>6, <3>7 DEF Joined
  <2> QED BY <2>3, <2>4
<1> QED BY <1>3, <1>4 DEF WelcomeOK
-----------------------------------------------------------------------------
(* What the server puts together of welcomes.                              *)
Resealed(w) ==
    /\ w = [f \in WelcomeFields |-> w[f]]
    /\ IsTuple(w.encapsulation) /\ IsTuple(w.encrypted_info)
    /\ \E e \in welcomed : w.signature = e.wire.signature

LEMMA PartTuple ==
    ASSUME NEW q, IsTuple(q), NEW m \in Nat \ {0}, NEW n \in Nat, n <= Len(q)
    PROVE  IsTuple(SubSeq(q, m, n))
<1> PICK S : S = {q[i] : i \in 1..Len(q)}
  OBVIOUS
<1>1. \A i \in m..n : q[i] \in S
  BY DEF IsTuple
<1>2. SubSeq(q, m, n) \in Seq(S)
  BY <1>1, SubSeqProperties
<1> PICK r : r = SubSeq(q, m, n)
  OBVIOUS
<1>3. Len(r) \in Nat /\ r \in [1..Len(r) -> S]
  BY ONLY <1>2, r = SubSeq(q, m, n), LenProperties
<1> QED BY <1>3 DEF IsTuple

LEMMA WelcomesResealed ==
    ASSUME \A e \in welcomed : WelcomeOK(e), NEW c \in welcomed, NEW d \in welcomed,
           NEW w \in Mixtures(c.wire, d.wire) \cup Resplit(c.wire)
    PROVE  Resealed(w)
<1>1. c.wire = [f \in WelcomeFields |-> c.wire[f]]
  BY DEF WelcomeOK
<1>2. /\ IsTuple(c.wire.encapsulation) /\ Len(c.wire.encapsulation) = 2
      /\ IsTuple(c.wire.encrypted_info) /\ Len(c.wire.encrypted_info) = 2
      /\ IsTuple(d.wire.encapsulation) /\ IsTuple(d.wire.encrypted_info)
  BY EnclosedTuples
<1>3. CASE w \in Mixtures(c.wire, d.wire)
  <2>1. PICK fields : w = [f \in WelcomeFields |-> IF f \in fields THEN d.wire[f] ELSE c.wire[f]]
    BY <1>1, <1>3 DEF Mixtures
  <2>2. /\ w.signature \in {c.wire.signature, d.wire.signature}
        /\ w.encapsulation \in {c.wire.encapsulation, d.wire.encapsulation}
        /\ w.encrypted_info \in {c.wire.encrypted_info, d.wire.encrypted_info}
        /\ w = [f \in WelcomeFields |-> w[f]]
    BY <2>1 DEF WelcomeFields
  <2> QED BY <1>2, <2>2 DEF Resealed
<1>4. CASE w \in Resplit(c.wire)
  <2> PICK both : both = c.wire.encapsulation \o c.wire.encrypted_info
    OBVIOUS
  <2>1. IsTuple(both) /\ Len(both) = 4
    <3> PICK x, y : x = c.wire.encapsulation /\ y = c.wire.encrypted_info
      OBVIOUS
    <3>1. IsTuple(x) /\ IsTuple(y) /\ Len(x) = 2 /\ Len(y) = 2 /\ both = x \o y
      BY <1>2
    <3>2. IsTuple(both) /\ Len(both) = Len(x) + Len(y)
      BY ONLY <3>1, ConcatFacts
    <3> QED BY ONLY <3>1, <3>2
  <2>2. PICK n \in 1..3 : w = [c.wire EXCEPT !.encapsulation = SubSeq(both, 1, n),
                                             !.encrypted_info = SubSeq(both, n + 1, Len(both))]
    BY <1>4 DEF Resplit
  <2> PICK q, r : q = SubSeq(both, 1, n) /\ r = SubSeq(both, n + 1, 4)
    OBVIOUS
  <2>3. IsTuple(q) /\ IsTuple(r)
    <3>1. n \in Nat /\ n + 1 \in Nat \ {0} /\ n <= Len(both) /\ 4 \in Nat /\ 4 <= Len(both)
          /\ 1 \in Nat \ {0}
      BY ONLY <2>1, n \in 1..3
    <3>2. IsTuple(q)
      BY ONLY <2>1, <3>1, PartTuple, q = SubSeq(both, 1, n)
    <3>3. IsTuple(r)
      BY ONLY <2>1, <3>1, PartTuple, r = SubSeq(both, n + 1, 4)
    <3> QED BY <3>2, <3>3
  <2>4. w = [c.wire EXCEPT !.encapsulation = q, !.encrypted_info = r]
    BY <2>1, <2>2
  <2>5. w.encapsulation = q /\ w.encrypted_info = r /\ w.signature = c.wire.signature
        /\ w = [f \in WelcomeFields |-> w[f]]
    BY ONLY <1>1, <2>4 DEF WelcomeFields
  <2> QED BY <2>3, <2>5 DEF Resealed
<1> QED BY <1>3, <1>4

LEMMA WelcomeLands ==
    ASSUME \A e \in welcomed : WelcomeOK(e), NEW id, TakeWelcome(id)
    PROVE  sent' = sent /\ welcomed' = welcomed /\ WiresLandAsMade'
<1>1. PICK c \in welcomed, d \in welcomed :
        \E w \in Mixtures(c.wire, d.wire) \cup Resplit(c.wire), kem \in {c.to, d.to} :
            LET after == process_welcome(kem[2], kem, w, id)
            IN /\ after # [error |-> "signature"] \/ (w = c.wire /\ c.by = id)
               /\ landed' = [what |-> "welcome", wire |-> w, identity |-> id, kem |-> kem,
                             after |-> after]
               /\ UNCHANGED <<sent, welcomed>>
  BY DEF TakeWelcome
<1>2. PICK w \in Mixtures(c.wire, d.wire) \cup Resplit(c.wire), kem \in {c.to, d.to} :
        LET after == process_welcome(kem[2], kem, w, id)
        IN /\ after # [error |-> "signature"] \/ (w = c.wire /\ c.by = id)
           /\ landed' = [what |-> "welcome", wire |-> w, identity |-> id, kem |-> kem,
                         after |-> after]
           /\ UNCHANGED <<sent, welcomed>>
  BY <1>1
<1> PICK after : after = process_welcome(kem[2], kem, w, id)
  OBVIOUS
<1>3. /\ after # [error |-> "signature"] \/ (w = c.wire /\ c.by = id)
      /\ landed' = [what |-> "welcome", wire |-> w, identity |-> id, kem |-> kem,
                    after |-> after]
      /\ sent' = sent /\ welcomed' = welcomed
  BY <1>2
<1>4. w.signature = sign_welcome(id, w)
  <2>1. CASE w = c.wire /\ c.by = id
    BY <2>1 DEF WelcomeOK
  <2>2. CASE after # [error |-> "signature"]
    BY <2>2 DEF process_welcome
  <2> QED BY <1>3, <2>1, <2>2
<1>5. PICK e \in welcomed : w = e.wire /\ id = e.by
  <2>1. Resealed(w)
    BY WelcomesResealed
  <2>2. PICK e \in welcomed : w.signature = e.wire.signature
    BY <2>1 DEF Resealed
  <2>3. WelcomeOK(e)
    OBVIOUS
  <2> QED BY ONLY <1>4, <2>1, <2>2, <2>3, SignatureFixes DEF Resealed
<1>6. Joined(e, kem, after)
  BY <1>5, WelcomeJoins
<1>7. /\ landed'.what = "welcome" /\ landed'.after = after /\ landed'.identity = id
      /\ landed'.kem = kem /\ landed'.wire = w
  BY <1>3
<1>8. WelcomesJoinAsMade'
  BY <1>3, <1>5, <1>6, <1>7 DEF WelcomesJoinAsMade, Joined
<1>9. CommitsLandAsMade'
  BY <1>7 DEF CommitsLandAsMade
<1> QED BY <1>3, <1>8, <1>9 DEF WiresLandAsMade

-----------------------------------------------------------------------------
(* The invariant, and what every step keeps of it.                         *)
WireInv ==
    /\ SentOK
    /\ \A e \in welcomed : WelcomeOK(e)
    /\ WiresLandAsMade

LEMMA NothingLanded == landed = NotYet => WiresLandAsMade
BY DEF NotYet, WiresLandAsMade, CommitsLandAsMade, WelcomesJoinAsMade

LEMMA NothingLandedNext == landed' = NotYet => WiresLandAsMade'
BY DEF NotYet, WiresLandAsMade, CommitsLandAsMade, WelcomesJoinAsMade

LEMMA CommitMade ==
    ASSUME WireInv, NEW u, NEW p, NEW c, NEW welcomes, MakeCommit(u, p, c, welcomes),
           CommitOK([by |-> u, place |-> p, wire |-> c], Cardinality(sent)),
           \A e \in welcomes : WelcomeOK(e)
    PROVE  WireInv'
<1>1. /\ sent' = sent \cup {[by |-> u, place |-> p, wire |-> c]}
      /\ welcomed' = welcomed \cup welcomes /\ landed' = NotYet
  BY DEF MakeCommit, Room
<1>2. SentOK'
  BY <1>1, SentGrows DEF WireInv
<1>3. \A e \in welcomed' : WelcomeOK(e)
  BY <1>1 DEF WireInv
<1>4. WiresLandAsMade'
  BY <1>1, NothingLandedNext
<1> QED BY <1>2, <1>3, <1>4 DEF WireInv

LEMMA StepCreateGroup ==
    ASSUME WireInv, NEW p \in Places, create_group(p)
    PROVE  WireInv'
<1> PICK s : s = founder_session(0, p)
  OBVIOUS
<1>1. /\ p.deltas = << >> /\ sent' = sent /\ landed' = NotYet
      /\ \A e \in welcomed' : e \in welcomed \/ \E u \in Founders \ {0} :
            e = [by |-> 0, place |-> p, to |-> identity_kem(u), wire |->
                    welcome(s, 0, 0, u, 3, <<<<"group", p.group>>, Zeros>>, identity_kem(u),
                            <<"founding", p.group, u>>, <<"group id", p.group>>)]
  BY DEF create_group, Room
<1>2. s.group_id = p.group /\ s.tree.tree_depth = 2
  BY SessionFacts DEF StandsAt
<1>3. \A e \in welcomed' : WelcomeOK(e)
  <2> TAKE e \in welcomed'
  <2>1. CASE e \in welcomed
    BY <2>1 DEF WireInv
  <2>2. ASSUME NEW u \in Founders \ {0},
               e = [by |-> 0, place |-> p, to |-> identity_kem(u), wire |->
                    welcome(s, 0, 0, u, 3, <<<<"group", p.group>>, Zeros>>, identity_kem(u),
                            <<"founding", p.group, u>>, <<"group id", p.group>>)]
        PROVE  WelcomeOK(e)
    <3> PICK w : w = e.wire
      OBVIOUS
    <3> PICK text, draw, data : /\ text = <<<<"group", p.group>>, Zeros>>
                                /\ draw = <<"founding", p.group, u>>
                                /\ data = <<"group id", p.group>>
      OBVIOUS
    <3>1. e.by = 0 /\ e.place = p /\ e.to = identity_kem(u)
          /\ w = welcome(s, 0, 0, u, 3, text, identity_kem(u), draw, data)
      BY <2>2
    <3>2. /\ w = [f \in WelcomeFields |-> w[f]]
          /\ w.group_id = s.group_id /\ w.epoch = 0 /\ w.leaf_position = u
          /\ w.tree_depth = s.tree.tree_depth /\ w.member_count = 3
          /\ Encloses(w, text, identity_kem(u), draw, data)
          /\ w.signature = sign_welcome(0, w)
      BY ONLY <3>1, WelcomeBuilt
    <3>3. Founding(e)
      BY <1>1, <1>2, <3>1, <3>2 DEF Founding
    <3> QED BY <3>1, <3>2, <3>3 DEF WelcomeOK
  <2> QED BY <1>1, <2>1, <2>2
<1>4. SentOK'
  BY <1>1 DEF WireInv, SentOK
<1>5. WiresLandAsMade'
  BY <1>1, NothingLandedNext
<1> QED BY <1>3, <1>4, <1>5 DEF WireInv

LEMMA StepAddMember ==
    ASSUME WireInv, NEW u \in Committers, NEW p \in Places, NEW x \in Applicants,
           add_member(u, p, x)
    PROVE  WireInv'
<1> PICK s : s = founder_session(u, p)
  OBVIOUS
<1> PICK at : at = s.tree.member_count
  OBVIOUS
<1> PICK grown : grown = [s EXCEPT !.tree = grow_if_needed(@, at + 1)]
  OBVIOUS
<1> PICK c : c = build_commit("add", grown, u, x, at, Draw,
                compute_resolution_keys(grown.tree, u, {}, {[at |-> at, key |-> one_time_key(x)]}))
  OBVIOUS
<1>1. \E info : MakeCommit(u, p, c,
          {[by |-> u, place |-> p, to |-> one_time_key(x), wire |->
                welcome(grown, u, s.epoch.number + 1, at, at + 1, info, one_time_key(x), Draw,
                        <<"cocoa-welcome-add">>)]})
  BY DEF add_member
<1> PICK info : MakeCommit(u, p, c,
          {[by |-> u, place |-> p, to |-> one_time_key(x), wire |->
                welcome(grown, u, s.epoch.number + 1, at, at + 1, info, one_time_key(x), Draw,
                        <<"cocoa-welcome-add">>)]})
  BY <1>1
<1> PICK e : e = [by |-> u, place |-> p, to |-> one_time_key(x), wire |->
                     welcome(grown, u, s.epoch.number + 1, at, at + 1, info, one_time_key(x), Draw,
                             <<"cocoa-welcome-add">>)]
  OBVIOUS
<1>2. MakeCommit(u, p, c, {e})
  OBVIOUS
<1>3. CommitOK([by |-> u, place |-> p, wire |-> c], Cardinality(sent))
  <2>1. Draw = LeafSeed(Cardinality(sent))
    BY DEF Draw, LeafSeed
  <2> QED BY <2>1, AddBuilt
<1>4. WelcomeOK(e)
  <2>1. s.epoch.number \in Nat
    BY SessionFacts DEF StandsAt
  <2>2. e.by = u /\ e.to = one_time_key(x)
    OBVIOUS
  <2>3. /\ e.wire = [f \in WelcomeFields |-> e.wire[f]]
        /\ e.wire.epoch = s.epoch.number + 1
        /\ Encloses(e.wire, info, one_time_key(x), Draw, <<"cocoa-welcome-add">>)
        /\ e.wire.signature = sign_welcome(u, e.wire)
    BY WelcomeBuilt
  <2> QED BY <2>1, <2>2, <2>3 DEF WelcomeOK, Adding
<1>5. \A f \in {e} : WelcomeOK(f)
  BY ONLY <1>4
<1> QED BY ONLY WireInv, <1>2, <1>3, <1>5, CommitMade

LEMMA StepCreateUpdate ==
    ASSUME WireInv, NEW u \in Committers, NEW p \in Places, create_update(u, p)
    PROVE  WireInv'
<1> PICK x : x = CHOOSE y \in Applicants : TRUE
  OBVIOUS
<1> PICK key_sets : key_sets = compute_resolution_keys(founder_session(u, p).tree, u, {}, {})
  OBVIOUS
<1> PICK c : c = build_commit("update", founder_session(u, p), u, x, 3, Draw, key_sets)
  OBVIOUS
<1>1. MakeCommit(u, p, c, {})
  BY DEF create_update
<1>2. CommitOK([by |-> u, place |-> p, wire |-> c], Cardinality(sent))
  BY UpdateBuilt DEF Draw, LeafSeed
<1> QED BY <1>1, <1>2, CommitMade

LEMMA StepRemoveMember ==
    ASSUME WireInv, NEW u \in Committers, NEW p \in Places, NEW v \in Founders,
           remove_member(u, p, v)
    PROVE  WireInv'
<1> PICK s : s = founder_session(u, p)
  OBVIOUS
<1> PICK blanked : blanked = [s EXCEPT !.tree = blank_node(@, leaf(s.tree.tree_depth, v))]
  OBVIOUS
<1> PICK removed : removed = path_to_root(leaf(s.tree.tree_depth, v))
  OBVIOUS
<1> PICK c : c = build_commit("remove", blanked, u, v, v, Draw,
                              compute_resolution_keys(blanked.tree, u, removed, {}))
  OBVIOUS
<1>1. MakeCommit(u, p, c, {})
  BY DEF remove_member
<1>2. CommitOK([by |-> u, place |-> p, wire |-> c], Cardinality(sent))
  <2>1. Draw = LeafSeed(Cardinality(sent))
    BY DEF Draw, LeafSeed
  <2> QED BY <2>1, RemoveBuilt
<1> QED BY <1>1, <1>2, CommitMade

LEMMA WireInitInv == WireInit => WireInv
<1> SUFFICES ASSUME WireInit PROVE WireInv
  OBVIOUS
<1>1. sent = {} /\ welcomed = {} /\ landed = NotYet
  BY DEF WireInit
<1>2. SentOK
  BY <1>1, FS_EmptySet DEF SentOK
<1> QED BY <1>1, <1>2, NothingLanded DEF WireInv

LEMMA WireNextInv == WireInv /\ [WireNext]_wire_vars => WireInv'
<1> SUFFICES ASSUME WireInv, [WireNext]_wire_vars PROVE WireInv'
  OBVIOUS
<1>1. ASSUME NEW p \in Places, create_group(p) PROVE WireInv'
  BY <1>1, StepCreateGroup
<1>2. ASSUME NEW p \in Places, NEW u \in Committers, NEW x \in Applicants, add_member(u, p, x)
      PROVE  WireInv'
  BY <1>2, StepAddMember
<1>3. ASSUME NEW p \in Places, NEW u \in Committers, create_update(u, p) PROVE WireInv'
  BY <1>3, StepCreateUpdate
<1>4. ASSUME NEW p \in Places, NEW u \in Committers, NEW v \in Founders, remove_member(u, p, v)
      PROVE  WireInv'
  BY <1>4, StepRemoveMember
<1>5. ASSUME NEW p \in Places, NEW r \in Receivers, NEW u \in Committers, TakeCommit(r, p, u)
      PROVE  WireInv'
  BY <1>5, CommitLands DEF WireInv
<1>6. ASSUME NEW u \in Committers, TakeWelcome(u) PROVE WireInv'
  <2>1. sent' = sent /\ welcomed' = welcomed /\ WiresLandAsMade'
    BY <1>6, WelcomeLands DEF WireInv
  <2>2. SentOK'
    BY <2>1 DEF WireInv, SentOK
  <2> QED BY <2>1, <2>2 DEF WireInv
<1>7. CASE UNCHANGED wire_vars
  BY <1>7 DEF WireInv, wire_vars, SentOK, WiresLandAsMade, CommitsLandAsMade, WelcomesJoinAsMade
<1> QED BY <1>1, <1>2, <1>3, <1>4, <1>5, <1>6, <1>7 DEF WireNext

(* Whatever the server puts together of the commits and welcomes it has,   *)
(* for any founders, places and number of them: a member moves along       *)
(* exactly what was made for it where it stands, and a joiner takes only   *)
(* what was made as it was made.  (process_add, process_update,            *)
(* process_remove, process_welcome)                                        *)
THEOREM MadeIsWhatLands == WireSpec => []WiresLandAsMade
<1>1. WireSpec => []WireInv
  BY WireInitInv, WireNextInv, PTL DEF WireSpec
<1>2. WireInv => WiresLandAsMade
  BY DEF WireInv
<1> QED BY <1>1, <1>2, PTL
=============================================================================
