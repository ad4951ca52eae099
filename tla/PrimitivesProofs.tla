-------------------------- MODULE PrimitivesProofs --------------------------
(***************************************************************************)
(* Proofs about LockedMemory, for any number of boxes, any heap, page size *)
(* and locking limit, and about Sampling, for any stream and any sizes.    *)
(***************************************************************************)
EXTENDS LockedMemory, Sampling, TLAPS, SequenceTheorems, FiniteSetTheorems

(* Cells and pages.  Two facts carry all of the arithmetic: the page of a  *)
(* cell is the one whose bounds it lies in, and products keep order.       *)
LEMMA PageOfCell ==
    ASSUME NEW c \in Int
    PROVE  /\ c \div page_size \in Int
           /\ (c \div page_size) * page_size <= c
           /\ c < (c \div page_size) * page_size + page_size
BY MemoryAssumption, SMTT(30)

LEMMA TimesMonotone ==
    ASSUME NEW m \in Int, NEW n \in Int, m <= n
    PROVE  /\ m * page_size \in Int /\ n * page_size \in Int
           /\ m * page_size <= n * page_size
           /\ m < n => m * page_size + page_size <= n * page_size
BY MemoryAssumption, SMTT(30)

LEMMA PageUnique ==
    ASSUME NEW c \in Int, NEW q \in Int, q * page_size <= c, c < q * page_size + page_size
    PROVE  c \div page_size = q
<1>1. CASE c \div page_size < q
  BY <1>1, PageOfCell, TimesMonotone, MemoryAssumption
<1>2. CASE c \div page_size > q
  BY <1>2, PageOfCell, TimesMonotone, MemoryAssumption
<1> QED BY <1>1, <1>2, PageOfCell
-----------------------------------------------------------------------------
(* The parts of an allocation, as functions of the record of its box, so   *)
(* that two states are compared by the records alone.                      *)
AllocationOf(r) == r.at .. r.at + r.size - 1
DataOf(r) ==
    IF r.kind = "GuardedBox" THEN r.at + page_size .. r.at + r.size - page_size - 1
    ELSE AllocationOf(r)
ValueOf(r) ==
    LET data == IF r.kind = "GuardedBox" THEN r.at + page_size ELSE r.at
    IN  data .. data + r.len - 1
OverwrittenOf(r) == IF r.kind = "LockedVec" THEN AllocationOf(r) ELSE ValueOf(r)
GuardsOf(r) == PagesOf(AllocationOf(r)) \ PagesOf(DataOf(r))

(* A GuardedBox is made of whole pages: one guard, k of data, one guard.   *)
WholePages(r) == \E q, k \in Nat :
    /\ r.at = q * page_size /\ r.size = k * page_size + page_size + page_size
    /\ 1 <= k /\ r.len <= k * page_size

BoxOK(r) ==
    /\ r \in Box
    /\ r.at + r.size <= NumPages * page_size /\ r.len <= r.size
    /\ r.kind = "GuardedBox" => WholePages(r)
    /\ r.kind # "GuardedBox" =>
          r.size <= MaxSize /\ r.step \notin {"fore", "aft", "write"} /\ ~r.readonly
    /\ r.step \in {"fore", "aft", "write", "lock"} => ~r.locked /\ ~r.readonly
    /\ r.step = "unlock" => r.locked

(* Live allocations do not overlap.                                        *)
LayoutOK ==
    /\ box = [b \in Boxes |-> box[b]]
    /\ \A b \in Boxes : Exists(b) => BoxOK(box[b])
    /\ \A b, c \in Boxes : Exists(b) /\ Exists(c) /\ b # c =>
          AllocationOf(box[b]) \cap AllocationOf(box[c]) = {}

(* A secret is where the owner of its box overwrites before it lets go.    *)
HoldsSecrets(r) == r.step \in {"lock", "live"}
SecretsOK ==
    /\ secret \subseteq Cells
    /\ \A c \in secret : \E b \in Boxes : Exists(b) /\ c \in AllocationOf(box[b])
    /\ ~crashed => \A c \in secret :
          \E b \in Boxes : Exists(b) /\ HoldsSecrets(box[b]) /\ c \in OverwrittenOf(box[b])

(* A box keeps pages from being written as far as its owner has come.      *)
ProtectedOf(r) ==
    IF r.kind # "GuardedBox" \/ r.step = "fore" THEN {}
    ELSE IF r.step = "aft" THEN {r.at \div page_size}
    ELSE IF r.step = "live" /\ r.readonly THEN GuardsOf(r) \cup PagesOf(DataOf(r))
    ELSE GuardsOf(r)
ProtOK ==
    /\ prot \in [Pages -> {"rw", "ro", "none"}] /\ unrestored \subseteq Pages
    /\ \A p \in Pages : prot[p] # "rw" =>
          p \in unrestored \/ \E b \in Boxes : Exists(b) /\ p \in ProtectedOf(box[b])

FlaggedBox(r) == r.step \in {"live", "unlock"} /\ r.locked
LocksOK ==
    /\ locked_pages \subseteq Pages
    /\ \A p \in locked_pages : \E b \in Boxes :
          Exists(b) /\ FlaggedBox(box[b]) /\ p \in PagesOf(DataOf(box[b]))
    /\ \A b \in Boxes : Exists(b) /\ FlaggedBox(box[b]) /\ box[b].kind = "GuardedBox" =>
          PagesOf(DataOf(box[b])) \subseteq locked_pages

FaultsOK == crashed \in BOOLEAN /\ (crashed => unrestored # {})

(* The inductive invariant.  What the run checks is not inductive: that no *)
(* page is lost needs which pages each step of a constructor or drop has   *)
(* protected so far, that freed memory is clean needs where in a box a     *)
(* secret can be, and both need that a GuardedBox shares no page.          *)
IInv == LayoutOK /\ SecretsOK /\ ProtOK /\ LocksOK /\ FaultsOK
-----------------------------------------------------------------------------
(* The operators of the model are the ones above.                          *)
LEMMA Parts ==
    ASSUME NEW b \in Boxes
    PROVE  /\ Allocation(b) = AllocationOf(box[b]) /\ Data(b) = DataOf(box[b])
           /\ Value(b) = ValueOf(box[b]) /\ Overwritten(b) = OverwrittenOf(box[b])
           /\ Guards(b) = GuardsOf(box[b]) /\ ForeGuard(b) = box[b].at \div page_size
           /\ Flagged(b) = (Exists(b) /\ FlaggedBox(box[b]))
BY DEF Allocation, AllocationOf, Data, DataOf, Value, ValueOf, Overwritten, OverwrittenOf,
       Guards, GuardsOf, ForeGuard, Flagged, FlaggedBox, Exists

(* They depend on at, size, kind and, for the value, on len only.          *)
LEMMA SameParts ==
    ASSUME NEW r, NEW s, s.at = r.at, s.size = r.size, s.kind = r.kind
    PROVE  /\ AllocationOf(s) = AllocationOf(r) /\ DataOf(s) = DataOf(r)
           /\ GuardsOf(s) = GuardsOf(r)
           /\ s.len = r.len => ValueOf(s) = ValueOf(r) /\ OverwrittenOf(s) = OverwrittenOf(r)
           /\ s.kind = "LockedVec" => OverwrittenOf(s) = OverwrittenOf(r)
BY DEF AllocationOf, DataOf, GuardsOf, ValueOf, OverwrittenOf

LEMMA PagesOfFacts ==
    ASSUME NEW S \in SUBSET Cells
    PROVE  /\ PagesOf(S) \subseteq Pages
           /\ \A c \in S : c \div page_size \in PagesOf(S)
           /\ \A T : T \subseteq S => PagesOf(T) \subseteq PagesOf(S)
<1>1. ASSUME NEW c \in Cells PROVE c \div page_size \in Pages
  <2>1. c \in Int /\ 0 <= c /\ c < NumPages * page_size
    BY <1>1, MemoryAssumption, TimesMonotone DEF Cells
  <2>2. 0 <= c \div page_size
    BY <2>1, PageOfCell, TimesMonotone, MemoryAssumption
  <2>3. c \div page_size < NumPages
    BY <2>1, PageOfCell, TimesMonotone, MemoryAssumption
  <2> QED BY <2>1, <2>2, <2>3, PageOfCell, MemoryAssumption DEF Pages
<1> QED BY <1>1 DEF PagesOf

LEMMA Aligned ==
    ASSUME NEW a \in Int, NEW p \in Int, p >= 1, a % p = 0
    PROVE  \E q \in Int : a = q * p
OBVIOUS

(* Rounding up gives whole pages, and leaves whole pages alone.            *)
LEMMA RoundsUp ==
    ASSUME NEW len \in Nat, len >= 1
    PROVE  \E k \in Nat : k >= 1 /\ page_round(len) = k * page_size /\ len <= k * page_size
<1> DEFINE k == (len + page_size - 1) \div page_size
<1>1. /\ k \in Int /\ k * page_size <= len + page_size - 1
      /\ len + page_size - 1 < k * page_size + page_size
  BY PageOfCell, MemoryAssumption
<1> HIDE DEF k
<1>2. k >= 1
  <2>1. CASE k <= 0
    BY <1>1, <2>1, TimesMonotone, MemoryAssumption
  <2> QED BY <1>1, <2>1
<1>3. len <= k * page_size
  BY <1>1, TimesMonotone, MemoryAssumption
<1> QED BY <1>1, <1>2, <1>3 DEF page_round, k

LEMMA RoundsToItself ==
    ASSUME NEW k \in Nat
    PROVE  page_round(k * page_size) = k * page_size
<1>1. k * page_size \in Int
  BY MemoryAssumption, TimesMonotone
<1>2. (k * page_size + page_size - 1) \div page_size = k
  BY <1>1, PageUnique, MemoryAssumption
<1> QED BY <1>2 DEF page_round

LEMMA BoxNumbers ==
    ASSUME NEW r, BoxOK(r)
    PROVE  /\ r.at \in Nat /\ r.size \in Nat /\ r.size >= 1 /\ r.len \in Nat
           /\ r.at + r.size <= NumPages * page_size /\ r.len <= r.size
<1>1. NumPages * page_size \in Nat
  BY MemoryAssumption, TimesMonotone
<1> QED BY <1>1 DEF BoxOK, Box, Cells

(* Where a box lies.                                                       *)
LEMMA BoxCells ==
    ASSUME NEW r, BoxOK(r)
    PROVE  /\ AllocationOf(r) \subseteq Cells /\ DataOf(r) \subseteq AllocationOf(r)
           /\ ValueOf(r) \subseteq DataOf(r) /\ OverwrittenOf(r) \subseteq DataOf(r)
           /\ r.at \in AllocationOf(r)
<1> DEFINE N == NumPages * page_size
<1>1. N \in Nat
  BY MemoryAssumption, TimesMonotone
<1>2. /\ r.at \in Nat /\ r.size \in Nat /\ r.size >= 1 /\ r.len \in Nat
      /\ r.at + r.size <= N /\ r.len <= r.size
  BY BoxNumbers
<1>3. AllocationOf(r) \subseteq Cells /\ r.at \in AllocationOf(r)
  <2> HIDE DEF N
  <2> QED BY <1>1, <1>2 DEF AllocationOf, Cells, N
<1>4. CASE r.kind = "GuardedBox"
  <2>1. PICK q, k \in Nat : r.size = k * page_size + page_size + page_size
                            /\ r.len <= k * page_size
    BY <1>4 DEF BoxOK, WholePages
  <2>2. k * page_size \in Nat
    BY <2>1, MemoryAssumption, TimesMonotone
  <2>3. r.len <= r.size - page_size - page_size
    BY <2>1, <2>2, MemoryAssumption
  <2> QED BY <1>2, <1>3, <1>4, <2>3, MemoryAssumption
          DEF AllocationOf, DataOf, ValueOf, OverwrittenOf
<1>5. CASE r.kind # "GuardedBox"
  BY <1>2, <1>3, <1>5 DEF AllocationOf, DataOf, ValueOf, OverwrittenOf
<1> QED BY <1>3, <1>4, <1>5

(* A GuardedBox has its pages to itself, and its guards apart from its     *)
(* data.                                                                   *)
LEMMA GuardedPages ==
    ASSUME NEW r, BoxOK(r), r.kind = "GuardedBox"
    PROVE  /\ \A c \in Cells : c \div page_size \in PagesOf(AllocationOf(r)) => c \in AllocationOf(r)
           /\ r.at \div page_size \in GuardsOf(r)
<1> PICK q, k \in Nat : /\ r.at = q * page_size
                        /\ r.size = k * page_size + page_size + page_size
                        /\ 1 <= k /\ r.len <= k * page_size
  BY DEF BoxOK, WholePages
<1>1. page_size \in Nat /\ page_size >= 1 /\ q * page_size \in Nat /\ k * page_size \in Nat
      /\ (q + k + 2) * page_size = q * page_size + k * page_size + page_size + page_size
  BY MemoryAssumption, TimesMonotone
<1>2. ASSUME NEW d \in AllocationOf(r)
      PROVE  d \in Int /\ q <= d \div page_size /\ d \div page_size < q + k + 2
  <2>1. d \in Int /\ q * page_size <= d /\ d < (q + k + 2) * page_size
    BY <1>1 DEF AllocationOf
  <2>2. q <= d \div page_size
    BY <2>1, PageOfCell, TimesMonotone, <1>1
  <2>3. d \div page_size < q + k + 2
    BY <2>1, PageOfCell, TimesMonotone, <1>1
  <2> QED BY <2>1, <2>2, <2>3
<1>3. ASSUME NEW c \in Cells, c \div page_size \in PagesOf(AllocationOf(r))
      PROVE  c \in AllocationOf(r)
  <2>1. c \in Int
    BY MemoryAssumption, TimesMonotone DEF Cells
  <2>2. PICK d \in AllocationOf(r) : c \div page_size = d \div page_size
    BY <1>3 DEF PagesOf
  <2>3. q <= c \div page_size /\ c \div page_size < q + k + 2
    BY <1>2, <2>2
  <2>4. q * page_size <= c
    BY <1>1, <2>1, <2>3, PageOfCell, TimesMonotone
  <2>5. c < (q + k + 2) * page_size
    BY <1>1, <2>1, <2>3, PageOfCell, TimesMonotone
  <2> QED BY <1>1, <2>1, <2>4, <2>5 DEF AllocationOf
<1>4. r.at \div page_size = q
  BY <1>1, PageUnique
<1>5. r.at \div page_size \in PagesOf(AllocationOf(r))
  BY BoxCells DEF PagesOf
<1>6. ASSUME NEW d \in DataOf(r) PROVE d \div page_size # q
  BY <1>1, PageOfCell DEF DataOf
<1> QED BY <1>3, <1>4, <1>5, <1>6 DEF GuardsOf, PagesOf
-----------------------------------------------------------------------------
(* What a step of one owner leaves alone.                                  *)
Moves(b, r) == box' = [box EXCEPT ![b] = r]

LEMMA ExistsFacts ==
    ASSUME NEW b \in Boxes
    PROVE  /\ ~Exists(b) => box[b] = NoBox
           /\ ~FlaggedBox(NoBox) /\ ~HoldsSecrets(NoBox)
           /\ \A r : BoxOK(r) => r # NoBox
           /\ \A s : At(b, s) /\ s # "none" => ~crashed /\ Exists(b) /\ box[b].step = s
<1>1. \A r : BoxOK(r) => r # NoBox
  <2>1. \A r \in Box : r.step # "none"
    BY DEF Box, Steps
  <2> QED BY <2>1 DEF BoxOK, NoBox
<1> QED BY <1>1 DEF Exists, FlaggedBox, HoldsSecrets, NoBox, At

LEMMA Frame ==
    ASSUME LayoutOK, NEW b \in Boxes, NEW r, Moves(b, r)
    PROVE  /\ box'[b] = r /\ box' = [x \in Boxes |-> box'[x]]
           /\ \A c \in Boxes \ {b} : box'[c] = box[c] /\ Exists(c)' = Exists(c)
           /\ Exists(b)' = (r # NoBox)
BY DEF LayoutOK, Moves, Exists

(* A box that changes and stays where it is, one that goes, and a new one. *)
LEMMA LayoutStep ==
    ASSUME LayoutOK, NEW b \in Boxes, NEW r, Moves(b, r),
           r = NoBox \/ BoxOK(r),
           r # NoBox => \A c \in Boxes \ {b} :
               Exists(c) => AllocationOf(r) \cap AllocationOf(box[c]) = {}
    PROVE  LayoutOK'
<1>1. \A c \in Boxes : Exists(c)' => BoxOK(box'[c])
  BY Frame DEF LayoutOK
<1>2. ASSUME NEW c \in Boxes, NEW d \in Boxes, Exists(c)', Exists(d)', c # d
      PROVE  AllocationOf(box'[c]) \cap AllocationOf(box'[d]) = {}
  <2>1. CASE c = b
    BY <1>2, <2>1, Frame
  <2>2. CASE d = b
    BY <1>2, <2>2, Frame
  <2>3. CASE c # b /\ d # b
    BY <1>2, <2>3, Frame DEF LayoutOK
  <2> QED BY <2>1, <2>2, <2>3
<1> QED BY <1>1, <1>2, Frame DEF LayoutOK

LEMMA LayoutStay ==
    ASSUME LayoutOK, NEW b \in Boxes, NEW r, Moves(b, r), Exists(b), BoxOK(r),
           r.at = box[b].at, r.size = box[b].size, r.kind = box[b].kind
    PROVE  LayoutOK'
<1>1. AllocationOf(r) = AllocationOf(box[b])
  BY SameParts
<1> QED BY <1>1, LayoutStep DEF LayoutOK

LEMMA Allocated ==
    ASSUME LayoutOK, NEW size \in Nat, size >= 1, NEW at \in alloc(size)
    PROVE  /\ at \in Cells /\ size \in 1 .. NumPages * page_size
           /\ at + size <= NumPages * page_size
           /\ at .. at + size - 1 \subseteq Cells
           /\ \A c \in Boxes : Exists(c) =>
                 (at .. at + size - 1) \cap AllocationOf(box[c]) = {}
<1>1. NumPages * page_size \in Nat
  BY MemoryAssumption, TimesMonotone
<1>2. at \in FreeCells /\ at .. at + size - 1 \subseteq FreeCells /\ FreeCells \subseteq Cells
  BY DEF alloc, FreeCells
<1>3. at \in Nat /\ at + size - 1 \in Cells
  BY <1>1, <1>2 DEF Cells
<1>4. at + size <= NumPages * page_size /\ size \in 1 .. NumPages * page_size
  <2>1. at + size - 1 <= NumPages * page_size - 1
    BY <1>1, <1>3 DEF Cells
  <2> HIDE DEF Cells
  <2> QED BY <1>1, <1>3, <2>1
<1>5. ASSUME NEW c \in Boxes, Exists(c)
      PROVE  (at .. at + size - 1) \cap AllocationOf(box[c]) = {}
  BY <1>2, <1>5, Parts DEF FreeCells
<1> QED BY <1>2, <1>4, <1>5

(* No other cells are on the pages of a GuardedBox.                        *)
LEMMA Exclusive ==
    ASSUME LayoutOK, NEW c \in Boxes, Exists(c), box[c].kind = "GuardedBox",
           NEW S \in SUBSET Cells, S \cap AllocationOf(box[c]) = {}
    PROVE  PagesOf(S) \cap PagesOf(AllocationOf(box[c])) = {}
<1>1. BoxOK(box[c])
  BY DEF LayoutOK
<1>2. \A x \in S : x \div page_size \notin PagesOf(AllocationOf(box[c]))
  BY <1>1, GuardedPages
<1> QED BY <1>2 DEF PagesOf

LEMMA ProtectedIsOwn ==
    ASSUME NEW r, BoxOK(r)
    PROVE  /\ ProtectedOf(r) \subseteq PagesOf(AllocationOf(r))
           /\ ProtectedOf(r) \subseteq Pages
           /\ ProtectedOf(r) # {} => r.kind = "GuardedBox"
           /\ ~(r.step = "live" /\ r.readonly) => ProtectedOf(r) \cap PagesOf(DataOf(r)) = {}
<1>1. PagesOf(AllocationOf(r)) \subseteq Pages
      /\ PagesOf(DataOf(r)) \subseteq PagesOf(AllocationOf(r))
  BY BoxCells, PagesOfFacts
<1>2. r.kind = "GuardedBox" => r.at \div page_size \in GuardsOf(r)
  BY GuardedPages
<1> QED BY <1>1, <1>2 DEF ProtectedOf, GuardsOf

(* A page that cannot be written, under cells no box protects, was lost.   *)
LEMMA LostPage ==
    ASSUME LayoutOK, ProtOK, NEW b \in Boxes, NEW S \in SUBSET Cells,
           \A c \in Boxes \ {b} : Exists(c) => S \cap AllocationOf(box[c]) = {},
           Exists(b) => PagesOf(S) \cap ProtectedOf(box[b]) = {},
           NEW p \in PagesOf(S), prot[p] # "rw"
    PROVE  p \in unrestored
<1>1. p \in Pages
  BY PagesOfFacts
<1>2. ASSUME NEW c \in Boxes, Exists(c), p \in ProtectedOf(box[c]) PROVE FALSE
  <2>1. c # b
    BY <1>2
  <2>2. BoxOK(box[c])
    BY <1>2 DEF LayoutOK
  <2>3. box[c].kind = "GuardedBox" /\ p \in PagesOf(AllocationOf(box[c]))
    BY <1>2, <2>2, ProtectedIsOwn
  <2> QED BY <1>2, <2>1, <2>3, Exclusive
<1> QED BY <1>1, <1>2 DEF ProtOK

LEMMA LostPages ==
    ASSUME LayoutOK, ProtOK, NEW b \in Boxes, NEW S \in SUBSET Cells,
           \A c \in Boxes \ {b} : Exists(c) => S \cap AllocationOf(box[c]) = {},
           Exists(b) => PagesOf(S) \cap ProtectedOf(box[b]) = {},
           ~Writable(S)
    PROVE  unrestored # {}
<1> PICK p \in PagesOf(S) : prot[p] # "rw"
  BY DEF Writable
<1> QED BY LostPage

(* Cells of one box are in no other.                                       *)
LEMMA OtherBoxes ==
    ASSUME LayoutOK, NEW b \in Boxes, Exists(b), NEW S, S \subseteq AllocationOf(box[b])
    PROVE  /\ S \in SUBSET Cells
           /\ \A c \in Boxes \ {b} : Exists(c) => S \cap AllocationOf(box[c]) = {}
BY BoxCells DEF LayoutOK
-----------------------------------------------------------------------------
(* One step of the owner of b keeps each part of the invariant.            *)
LEMMA ProtStep ==
    ASSUME LayoutOK, ProtOK, NEW b \in Boxes, NEW r, Moves(b, r),
           prot' \in [Pages -> {"rw", "ro", "none"}], unrestored' \subseteq Pages,
           \A p \in Pages : prot'[p] # "rw" =>
              \/ p \in unrestored'
              \/ r # NoBox /\ p \in ProtectedOf(r)
              \/ /\ prot[p] # "rw" /\ p \notin unrestored
                 /\ Exists(b) => p \notin ProtectedOf(box[b])
    PROVE  ProtOK'
<1> SUFFICES ASSUME NEW p \in Pages, prot'[p] # "rw", p \notin unrestored',
                    ~(r # NoBox /\ p \in ProtectedOf(r))
             PROVE  \E c \in Boxes : Exists(c)' /\ p \in ProtectedOf(box'[c])
  BY Frame DEF ProtOK
<1> PICK c \in Boxes : Exists(c) /\ p \in ProtectedOf(box[c])
  BY DEF ProtOK
<1> QED BY Frame

LEMMA LocksStep ==
    ASSUME LayoutOK, LocksOK, NEW b \in Boxes, NEW r, Moves(b, r), UNCHANGED locked_pages,
           FlaggedBox(r) <=> (Exists(b) /\ FlaggedBox(box[b])),
           FlaggedBox(r) => DataOf(r) = DataOf(box[b]) /\ r.kind = box[b].kind
    PROVE  LocksOK'
<1>1. FlaggedBox(r) => r # NoBox
  BY ExistsFacts
<1>2. ASSUME NEW p \in locked_pages'
      PROVE  \E c \in Boxes : Exists(c)' /\ FlaggedBox(box'[c]) /\ p \in PagesOf(DataOf(box'[c]))
  <2> PICK c \in Boxes : Exists(c) /\ FlaggedBox(box[c]) /\ p \in PagesOf(DataOf(box[c]))
    BY <1>2 DEF LocksOK
  <2> QED BY <1>1, Frame
<1>3. ASSUME NEW c \in Boxes, Exists(c)', FlaggedBox(box'[c]), box'[c].kind = "GuardedBox"
      PROVE  PagesOf(DataOf(box'[c])) \subseteq locked_pages'
  BY <1>3, Frame DEF LocksOK
<1> QED BY <1>2, <1>3 DEF LocksOK

LEMMA SecretsInBox ==
    ASSUME LayoutOK, SecretsOK, ~crashed, NEW b \in Boxes, Exists(b),
           NEW c \in secret, c \in AllocationOf(box[b])
    PROVE  HoldsSecrets(box[b]) /\ c \in OverwrittenOf(box[b])
<1> PICK d \in Boxes : Exists(d) /\ HoldsSecrets(box[d]) /\ c \in OverwrittenOf(box[d])
  BY DEF SecretsOK
<1>1. c \in AllocationOf(box[d])
  BY BoxCells DEF LayoutOK
<1>2. d = b
  BY <1>1 DEF LayoutOK
<1> QED BY <1>2

(* The step kept, wrote into its box or overwrote; what it wrote it will   *)
(* overwrite, and what it kept in its box it still will.                   *)
LEMMA SecretsStep ==
    ASSUME LayoutOK, SecretsOK, ~crashed, NEW b \in Boxes, NEW r, Moves(b, r),
           r = NoBox \/ BoxOK(r),
           \A c \in secret' : c \in secret \/ (r # NoBox /\ c \in AllocationOf(r)),
           \A c \in secret' : Exists(b) /\ c \in AllocationOf(box[b]) =>
               r # NoBox /\ c \in AllocationOf(r),
           ~crashed' => \A c \in secret' :
               (c \notin secret \/ (Exists(b) /\ c \in AllocationOf(box[b]))) =>
                   r # NoBox /\ HoldsSecrets(r) /\ c \in OverwrittenOf(r)
    PROVE  SecretsOK'
<1>1. secret' \subseteq Cells
  BY BoxCells DEF SecretsOK
<1>2. ASSUME NEW c \in secret'
      PROVE  \E d \in Boxes : Exists(d)' /\ c \in AllocationOf(box'[d])
  <2>1. CASE r # NoBox /\ c \in AllocationOf(r)
    BY <2>1, Frame
  <2>2. CASE ~(r # NoBox /\ c \in AllocationOf(r))
    <3>1. PICK d \in Boxes : Exists(d) /\ c \in AllocationOf(box[d])
      BY <1>2, <2>2 DEF SecretsOK
    <3> QED BY <1>2, <2>2, <3>1, Frame
  <2> QED BY <2>1, <2>2
<1>3. ASSUME ~crashed', NEW c \in secret'
      PROVE  \E d \in Boxes : Exists(d)' /\ HoldsSecrets(box'[d]) /\ c \in OverwrittenOf(box'[d])
  <2>1. CASE c \notin secret \/ (Exists(b) /\ c \in AllocationOf(box[b]))
    BY <1>3, <2>1, Frame
  <2>2. CASE c \in secret /\ ~(Exists(b) /\ c \in AllocationOf(box[b]))
    <3>1. PICK d \in Boxes : Exists(d) /\ HoldsSecrets(box[d]) /\ c \in OverwrittenOf(box[d])
      BY <2>2 DEF SecretsOK
    <3>2. d # b
      BY <2>2, <3>1, BoxCells DEF LayoutOK
    <3> QED BY <3>1, <3>2, Frame
  <2> QED BY <2>1, <2>2
<1> QED BY <1>1, <1>2, <1>3 DEF SecretsOK
-----------------------------------------------------------------------------
(* What mprotect may have done when asked for read-write.                  *)
LEMMA Restored ==
    ASSUME ProtOK, NEW pages \in SUBSET Pages, protect_readwrite(pages)
    PROVE  /\ prot' \in [Pages -> {"rw", "ro", "none"}] /\ unrestored' \subseteq Pages
           /\ \A p \in Pages : prot'[p] # "rw" =>
                 /\ prot[p] # "rw" /\ (p \in pages \/ p \in unrestored => p \in unrestored')
                 /\ p \in unrestored' => p \in pages \/ p \in unrestored
<1> PICK done \in SUBSET pages :
      /\ protect(done, "rw")
      /\ unrestored' = (unrestored \ done) \cup (pages \ done)
  BY DEF protect_readwrite
<1> QED BY DEF protect, ProtOK

LEMMA Protects ==
    ASSUME ProtOK, NEW pages \in SUBSET Pages, NEW to \in {"rw", "ro", "none"},
           protect(pages, to)
    PROVE  /\ prot' \in [Pages -> {"rw", "ro", "none"}]
           /\ \A p \in Pages : prot'[p] = IF p \in pages THEN to ELSE prot[p]
BY DEF protect, ProtOK

(* The record of a box whose owner takes a step.                           *)
LEMMA StepsTo ==
    ASSUME NEW x, BoxOK(x), NEW s \in Steps, NEW r, r = [x EXCEPT !.step = s],
           s \in {"fore", "aft", "write"} => x.kind = "GuardedBox",
           s \in {"fore", "aft", "write", "lock"} => ~x.locked /\ ~x.readonly,
           s = "unlock" => x.locked
    PROVE  /\ BoxOK(r) /\ r.step = s
           /\ r.at = x.at /\ r.size = x.size /\ r.kind = x.kind /\ r.len = x.len
           /\ r.locked = x.locked /\ r.readonly = x.readonly /\ r.lock = x.lock
BY DEF BoxOK, Box, WholePages

(* A live box whose flags or length change.                                *)
LEMMA StaysLive ==
    ASSUME NEW x, BoxOK(x), NEW r \in Box,
           r.at = x.at, r.size = x.size, r.kind = x.kind, r.len <= x.size,
           r.step = "live", r.kind = "GuardedBox" => r.len = x.len,
           r.readonly => x.kind = "GuardedBox"
    PROVE  BoxOK(r)
BY DEF BoxOK, WholePages
-----------------------------------------------------------------------------
(* The constructors.                                                       *)
LEMMA NewLockedBoxIInv ==
    ASSUME IInv, NEW b \in Boxes, NewLockedBox(b)
    PROVE  IInv'
<1> USE DEF IInv
<1> PICK size \in 1 .. MaxSize, lock \in BOOLEAN : \E at \in alloc(size) :
      LET cells == at .. at + size - 1 IN
      /\ Becomes(b, [kind |-> "LockedBox", step |-> IF lock THEN "lock" ELSE "live",
                     at |-> at, size |-> size, len |-> size, lock |-> lock,
                     locked |-> FALSE, readonly |-> FALSE])
      /\ crashed' = ~Writable(cells)
      /\ secret' = IF Writable(cells) THEN secret \cup cells ELSE secret
  BY DEF NewLockedBox
<1> PICK at \in alloc(size) :
      LET cells == at .. at + size - 1 IN
      /\ Becomes(b, [kind |-> "LockedBox", step |-> IF lock THEN "lock" ELSE "live",
                     at |-> at, size |-> size, len |-> size, lock |-> lock,
                     locked |-> FALSE, readonly |-> FALSE])
      /\ crashed' = ~Writable(cells)
      /\ secret' = IF Writable(cells) THEN secret \cup cells ELSE secret
  OBVIOUS
<1> DEFINE r == [kind |-> "LockedBox", step |-> IF lock THEN "lock" ELSE "live",
                 at |-> at, size |-> size, len |-> size, lock |-> lock,
                 locked |-> FALSE, readonly |-> FALSE]
           cells == at .. at + size - 1
<1>1. /\ size \in Nat /\ size >= 1 /\ size <= MaxSize
      /\ at \in Cells /\ size \in 1 .. NumPages * page_size
      /\ at + size <= NumPages * page_size /\ cells \in SUBSET Cells
      /\ \A c \in Boxes : Exists(c) => cells \cap AllocationOf(box[c]) = {}
  BY Allocated, MemoryAssumption
<1>2. BoxOK(r)
  BY <1>1, KindsAssumption, MemoryAssumption DEF BoxOK, Box, Steps, NewLockedBox
<1>3. /\ Moves(b, r) /\ ~Exists(b) /\ ~crashed
      /\ AllocationOf(r) = cells /\ OverwrittenOf(r) = cells /\ ProtectedOf(r) = {}
      /\ HoldsSecrets(r) /\ ~FlaggedBox(r) /\ r # NoBox
      /\ UNCHANGED <<prot, locked_pages, unrestored>>
  BY <1>2, ExistsFacts DEF NewLockedBox, Moves, Becomes, AllocationOf, OverwrittenOf, ValueOf,
      ProtectedOf, HoldsSecrets, FlaggedBox
<1>4. /\ crashed' = ~Writable(cells)
      /\ secret' = IF Writable(cells) THEN secret \cup cells ELSE secret
  OBVIOUS
<1> HIDE DEF r, cells
<1>5. LayoutOK'
  BY <1>1, <1>2, <1>3, LayoutStep
<1>6. SecretsOK'
  BY <1>2, <1>3, <1>4, SecretsStep
<1>7. ProtOK'
  BY <1>3, ProtStep DEF ProtOK
<1>8. LocksOK'
  BY <1>3, LocksStep
<1>9. FaultsOK'
  BY <1>1, <1>3, <1>4, LostPages DEF FaultsOK
<1> QED BY <1>5, <1>6, <1>7, <1>8, <1>9

LEMMA NewLockedVecIInv ==
    ASSUME IInv, NEW b \in Boxes, NewLockedVec(b)
    PROVE  IInv'
<1> USE DEF IInv
<1> PICK size \in 1 .. MaxSize : \E at \in alloc(size) :
      Becomes(b, [kind |-> "LockedVec", step |-> "lock", at |-> at, size |-> size,
                  len |-> 0, lock |-> TRUE, locked |-> FALSE, readonly |-> FALSE])
  BY DEF NewLockedVec
<1> PICK at \in alloc(size) :
      Becomes(b, [kind |-> "LockedVec", step |-> "lock", at |-> at, size |-> size,
                  len |-> 0, lock |-> TRUE, locked |-> FALSE, readonly |-> FALSE])
  OBVIOUS
<1> DEFINE r == [kind |-> "LockedVec", step |-> "lock", at |-> at, size |-> size,
                 len |-> 0, lock |-> TRUE, locked |-> FALSE, readonly |-> FALSE]
<1>1. /\ size \in Nat /\ size >= 1 /\ at \in Cells /\ size \in 1 .. NumPages * page_size
      /\ at + size <= NumPages * page_size
      /\ \A c \in Boxes : Exists(c) => (at .. at + size - 1) \cap AllocationOf(box[c]) = {}
  BY Allocated, MemoryAssumption
<1>2. BoxOK(r)
  BY <1>1, KindsAssumption, MemoryAssumption DEF BoxOK, Box, Steps, NewLockedVec
<1>3. /\ Moves(b, r) /\ ~Exists(b) /\ ~crashed
      /\ AllocationOf(r) = at .. at + size - 1 /\ ProtectedOf(r) = {}
      /\ ~FlaggedBox(r) /\ r # NoBox
      /\ UNCHANGED <<prot, locked_pages, secret, unrestored, crashed>>
  BY <1>2, ExistsFacts DEF NewLockedVec, Moves, Becomes, AllocationOf, ProtectedOf, FlaggedBox
<1> HIDE DEF r
<1>5. LayoutOK'
  BY <1>1, <1>2, <1>3, LayoutStep
<1>6. SecretsOK'
  BY <1>2, <1>3, SecretsStep
<1>7. ProtOK'
  BY <1>3, ProtStep DEF ProtOK
<1>8. LocksOK'
  BY <1>3, LocksStep
<1> QED BY <1>3, <1>5, <1>6, <1>7, <1>8 DEF FaultsOK

LEMMA NewGuardedBoxIInv ==
    ASSUME IInv, NEW b \in Boxes, NewGuardedBox(b)
    PROVE  IInv'
<1> USE DEF IInv
<1> PICK len \in 1 .. MaxSize, lock \in BOOLEAN :
      LET alloc_size == page_size + page_round(len) + page_size IN
      \E at \in page_aligned_alloc(alloc_size) :
          Becomes(b, [kind |-> "GuardedBox", step |-> "fore", at |-> at,
                      size |-> alloc_size, len |-> len, lock |-> lock,
                      locked |-> FALSE, readonly |-> FALSE])
  BY DEF NewGuardedBox
<1> DEFINE size == page_size + page_round(len) + page_size
<1> PICK at \in page_aligned_alloc(size) :
      Becomes(b, [kind |-> "GuardedBox", step |-> "fore", at |-> at,
                  size |-> size, len |-> len, lock |-> lock,
                  locked |-> FALSE, readonly |-> FALSE])
  OBVIOUS
<1> DEFINE r == [kind |-> "GuardedBox", step |-> "fore", at |-> at,
                 size |-> size, len |-> len, lock |-> lock,
                 locked |-> FALSE, readonly |-> FALSE]
<1>0. len \in Nat /\ len >= 1 /\ len <= MaxSize /\ page_size \in Nat /\ page_size >= 1
  BY MemoryAssumption
<1> PICK k \in Nat : k >= 1 /\ page_round(len) = k * page_size /\ len <= k * page_size
  BY <1>0, RoundsUp
<1>1. k * page_size \in Nat /\ size = k * page_size + page_size + page_size
      /\ size = (k + 2) * page_size /\ len <= size
  BY <1>0, TimesMonotone
<1>2. page_round(size) = size
  BY <1>1, RoundsToItself
<1>3. at \in alloc(size) /\ at % page_size = 0
  BY <1>2 DEF page_aligned_alloc
<1> HIDE DEF size
<1>4. /\ size \in Nat /\ size >= 1 /\ at \in Cells /\ size \in 1 .. NumPages * page_size
      /\ at + size <= NumPages * page_size
      /\ \A c \in Boxes : Exists(c) => (at .. at + size - 1) \cap AllocationOf(box[c]) = {}
  BY <1>0, <1>1, <1>3, Allocated
<1>5. \E q \in Nat : at = q * page_size
  <2>1. at \in Nat
    BY <1>4, MemoryAssumption, TimesMonotone DEF Cells
  <2>2. PICK q \in Int : at = q * page_size
    <3>1. at \in Int /\ page_size \in Int /\ page_size >= 1 /\ at % page_size = 0
      BY <1>0, <1>3, <2>1
    <3> HIDE DEF r
    <3> QED BY ONLY <3>1, Aligned
  <2>3. q >= 0
    BY <1>0, <2>1, <2>2, TimesMonotone
  <2> QED BY <2>2, <2>3
<1>6. BoxOK(r)
  <2>1. WholePages(r)
    BY <1>0, <1>1, <1>5 DEF WholePages
  <2>2. r \in Box
    BY <1>0, <1>4, MemoryAssumption DEF Box, Steps, NewGuardedBox
  <2> QED BY <1>0, <1>1, <1>4, <2>1, <2>2 DEF BoxOK
<1>7. /\ Moves(b, r) /\ ~Exists(b) /\ ~crashed
      /\ AllocationOf(r) = at .. at + size - 1 /\ ProtectedOf(r) = {}
      /\ ~FlaggedBox(r) /\ r # NoBox
      /\ UNCHANGED <<prot, locked_pages, secret, unrestored, crashed>>
  BY <1>6, ExistsFacts DEF NewGuardedBox, Moves, Becomes, AllocationOf, ProtectedOf, FlaggedBox
<1> HIDE DEF r
<1>8. LayoutOK'
  BY <1>4, <1>6, <1>7, LayoutStep
<1>9. SecretsOK'
  BY <1>6, <1>7, SecretsStep
<1>10. ProtOK'
  BY <1>7, ProtStep DEF ProtOK
<1>11. LocksOK'
  BY <1>7, LocksStep
<1> QED BY <1>7, <1>8, <1>9, <1>10, <1>11 DEF FaultsOK

(* The usual case: nothing is written, and what was to be overwritten is   *)
(* gone, or still is to be.                                                *)
LEMMA SecretsShrink ==
    ASSUME LayoutOK, SecretsOK, ~crashed, NEW b \in Boxes, Exists(b), NEW r, Moves(b, r),
           secret' \subseteq secret,
           r # NoBox => BoxOK(r) /\ AllocationOf(r) = AllocationOf(box[b]),
           ~crashed' \/ r = NoBox => \A c \in secret' :
               HoldsSecrets(box[b]) /\ c \in OverwrittenOf(box[b]) =>
                   r # NoBox /\ HoldsSecrets(r) /\ c \in OverwrittenOf(r)
    PROVE  SecretsOK'
<1>1. ASSUME NEW c \in secret', c \in AllocationOf(box[b])
      PROVE  HoldsSecrets(box[b]) /\ c \in OverwrittenOf(box[b])
  BY <1>1, SecretsInBox
<1> QED BY <1>1, SecretsStep

(* The step from fore to aft to write, and the ways out.                   *)
LEMMA ProtectForeGuardIInv ==
    ASSUME IInv, NEW b \in Boxes, ProtectForeGuard(b)
    PROVE  IInv'
<1> USE DEF IInv
<1> DEFINE x == box[b]
<1>1. /\ Exists(b) /\ ~crashed /\ x.step = "fore" /\ BoxOK(x) /\ x.kind = "GuardedBox"
      /\ UNCHANGED <<locked_pages, secret, unrestored, crashed>>
  BY ExistsFacts DEF ProtectForeGuard, LayoutOK, BoxOK
<1>2. ~HoldsSecrets(x) /\ ~FlaggedBox(x) /\ ProtectedOf(x) = {} /\ ~x.locked /\ ~x.readonly
  BY <1>1 DEF HoldsSecrets, FlaggedBox, ProtectedOf, BoxOK
<1>3. {ForeGuard(b)} \subseteq Pages /\ ForeGuard(b) = x.at \div page_size
  BY <1>1, BoxCells, PagesOfFacts, Parts
<1>4. CASE protect({ForeGuard(b)}, "none") /\ GoesTo(b, "aft")
  <2>1. PICK r : r = [x EXCEPT !.step = "aft"]
    OBVIOUS
  <2>2. Moves(b, r)
    BY <1>4, <2>1 DEF GoesTo, Moves
  <2>3. /\ BoxOK(r) /\ r.step = "aft" /\ r.at = x.at /\ r.size = x.size
        /\ r.kind = x.kind /\ r.len = x.len /\ r # NoBox
    BY <1>1, <1>2, <2>1, StepsTo, ExistsFacts DEF Steps
  <2>4. /\ AllocationOf(r) = AllocationOf(x) /\ ProtectedOf(r) = {x.at \div page_size}
        /\ ~FlaggedBox(r)
    BY <1>1, <2>3, SameParts DEF ProtectedOf, FlaggedBox
  <2> HIDE DEF x
  <2>5. LayoutOK'
    BY <1>1, <2>2, <2>3, LayoutStay DEF x
  <2>6. SecretsOK'
    BY <1>1, <1>2, <2>2, <2>3, <2>4, SecretsShrink DEF x
  <2>7. LocksOK'
    BY <1>1, <1>2, <2>2, <2>4, LocksStep DEF x
  <2>8. ProtOK'
    BY <1>1, <1>2, <1>3, <1>4, <2>2, <2>3, <2>4, Protects, ProtStep DEF ProtOK, x
  <2> QED BY <1>1, <2>5, <2>6, <2>7, <2>8 DEF FaultsOK
<1>5. CASE UNCHANGED prot /\ Becomes(b, NoBox)
  <2>1. Moves(b, NoBox)
    BY <1>5 DEF Becomes, Moves
  <2> HIDE DEF x
  <2>2. LayoutOK' /\ SecretsOK'
    BY <1>1, <1>2, <2>1, LayoutStep, SecretsShrink DEF x
  <2>3. LocksOK'
    BY <1>1, <1>2, <2>1, LocksStep, ExistsFacts DEF x
  <2>4. ProtOK'
    BY <1>1, <1>2, <1>5, <2>1, ProtStep DEF ProtOK, x
  <2> QED BY <1>1, <2>2, <2>3, <2>4 DEF FaultsOK
<1> QED BY <1>4, <1>5 DEF ProtectForeGuard

LEMMA ProtectAftGuardIInv ==
    ASSUME IInv, NEW b \in Boxes, ProtectAftGuard(b)
    PROVE  IInv'
<1> USE DEF IInv
<1> DEFINE x == box[b]
<1>1. /\ Exists(b) /\ ~crashed /\ x.step = "aft" /\ BoxOK(x) /\ x.kind = "GuardedBox"
      /\ UNCHANGED <<locked_pages, secret, crashed>>
  BY ExistsFacts DEF ProtectAftGuard, LayoutOK, BoxOK
<1>2. /\ ~HoldsSecrets(x) /\ ~FlaggedBox(x) /\ ~x.locked /\ ~x.readonly
      /\ ProtectedOf(x) = {x.at \div page_size}
  BY <1>1 DEF HoldsSecrets, FlaggedBox, ProtectedOf, BoxOK
<1>3. /\ {ForeGuard(b)} \subseteq Pages /\ ForeGuard(b) = x.at \div page_size
      /\ Guards(b) = GuardsOf(x) /\ Guards(b) \subseteq Pages
      /\ ForeGuard(b) \in Guards(b)
  BY <1>1, BoxCells, PagesOfFacts, Parts, GuardedPages DEF GuardsOf
<1>4. CASE protect(Guards(b), "none") /\ GoesTo(b, "write") /\ UNCHANGED unrestored
  <2>1. PICK r : r = [x EXCEPT !.step = "write"]
    OBVIOUS
  <2>2. Moves(b, r)
    BY <1>4, <2>1 DEF GoesTo, Moves
  <2>3. /\ BoxOK(r) /\ r.step = "write" /\ r.at = x.at /\ r.size = x.size
        /\ r.kind = x.kind /\ r.len = x.len /\ r # NoBox
    BY <1>1, <1>2, <2>1, StepsTo, ExistsFacts DEF Steps
  <2>4. AllocationOf(r) = AllocationOf(x) /\ ProtectedOf(r) = GuardsOf(x) /\ ~FlaggedBox(r)
    BY <1>1, <2>3, SameParts DEF ProtectedOf, FlaggedBox
  <2> HIDE DEF x
  <2>5. LayoutOK'
    BY <1>1, <2>2, <2>3, LayoutStay DEF x
  <2>6. SecretsOK'
    BY <1>1, <1>2, <2>2, <2>3, <2>4, SecretsShrink DEF x
  <2>7. LocksOK'
    BY <1>1, <1>2, <2>2, <2>4, LocksStep DEF x
  <2>8. ProtOK'
    BY <1>1, <1>2, <1>3, <1>4, <2>2, <2>3, <2>4, Protects, ProtStep DEF ProtOK, x
  <2> QED BY <1>1, <2>5, <2>6, <2>7, <2>8 DEF FaultsOK
<1>5. CASE AftGuardFails(b)
  <2>1. Moves(b, NoBox) /\ protect_readwrite({ForeGuard(b)})
    BY <1>5 DEF AftGuardFails, Becomes, Moves
  <2> HIDE DEF x
  <2>2. LayoutOK' /\ SecretsOK'
    BY <1>1, <1>2, <2>1, LayoutStep, SecretsShrink DEF x
  <2>3. LocksOK'
    BY <1>1, <1>2, <2>1, LocksStep, ExistsFacts DEF x
  <2>4. ProtOK'
    BY <1>1, <1>2, <1>3, <2>1, Restored, ProtStep DEF x
  <2> QED BY <1>1, <2>2, <2>3, <2>4 DEF FaultsOK
<1> QED BY <1>4, <1>5 DEF ProtectAftGuard

(* The value goes into pages of its own, none of which is a guard.         *)
LEMMA WriteValueIInv ==
    ASSUME IInv, NEW b \in Boxes, WriteValue(b)
    PROVE  IInv'
<1> USE DEF IInv
<1> DEFINE x == box[b]
<1>1. /\ Exists(b) /\ ~crashed /\ x.step = "write" /\ BoxOK(x) /\ x.kind = "GuardedBox"
      /\ Value(b) = ValueOf(x)
      /\ UNCHANGED <<prot, locked_pages, unrestored>>
  BY ExistsFacts, Parts DEF WriteValue, LayoutOK, BoxOK
<1>2. ~HoldsSecrets(x) /\ ~FlaggedBox(x) /\ ~x.locked /\ ~x.readonly
  BY <1>1 DEF HoldsSecrets, FlaggedBox, BoxOK
<1>3. PICK r : r = [x EXCEPT !.step = IF x.lock THEN "lock" ELSE "live"]
  OBVIOUS
<1>4. Moves(b, r)
  BY <1>3 DEF WriteValue, GoesTo, Moves
<1>5. /\ BoxOK(r) /\ r.step \in {"lock", "live"} /\ r.at = x.at /\ r.size = x.size
      /\ r.kind = x.kind /\ r.len = x.len /\ ~r.readonly /\ ~r.locked /\ r # NoBox
  BY <1>1, <1>2, <1>3, StepsTo, ExistsFacts DEF Steps
<1>6. /\ AllocationOf(r) = AllocationOf(x) /\ OverwrittenOf(r) = ValueOf(x)
      /\ ProtectedOf(r) = ProtectedOf(x) /\ HoldsSecrets(r) /\ ~FlaggedBox(r)
      /\ ValueOf(x) \subseteq AllocationOf(x)
  BY <1>1, <1>2, <1>5, SameParts, BoxCells
     DEF ProtectedOf, FlaggedBox, HoldsSecrets, OverwrittenOf
<1>7. PagesOf(ValueOf(x)) \cap ProtectedOf(x) = {}
  <2>1. PagesOf(ValueOf(x)) \subseteq PagesOf(DataOf(x))
    BY <1>1, BoxCells DEF PagesOf
  <2> QED BY <1>1, <2>1, ProtectedIsOwn
<1>8. /\ crashed' = ~Writable(ValueOf(x))
      /\ secret' = IF Writable(ValueOf(x)) THEN secret \cup ValueOf(x) ELSE secret
  BY <1>1 DEF WriteValue
<1> HIDE DEF x
<1>9. LayoutOK'
  BY <1>1, <1>4, <1>5, LayoutStay DEF x
<1>10. SecretsOK'
  <2>1. \A c \in secret : c \notin AllocationOf(x)
    BY <1>1, <1>2, SecretsInBox DEF x
  <2> QED BY <1>1, <1>4, <1>5, <1>6, <1>8, <2>1, SecretsStep DEF x
<1>11. LocksOK'
  BY <1>1, <1>2, <1>4, <1>6, LocksStep DEF x
<1>12. ProtOK'
  BY <1>1, <1>4, <1>5, <1>6, ProtStep DEF ProtOK, x
<1>13. FaultsOK'
  <2>1. /\ ValueOf(x) \in SUBSET Cells
        /\ \A c \in Boxes \ {b} : Exists(c) => ValueOf(x) \cap AllocationOf(box[c]) = {}
    BY <1>1, <1>6, OtherBoxes DEF x
  <2>2. ~Writable(ValueOf(x)) => unrestored # {}
    BY <1>7, <2>1, LostPages DEF x
  <2> QED BY <1>1, <1>8, <2>2 DEF FaultsOK
<1> QED BY <1>9, <1>10, <1>11, <1>12, <1>13

(* The call of mlock that ends a constructor.                              *)
LEMMA LockSucceedsIInv ==
    ASSUME IInv, NEW b \in Boxes, At(b, "lock"), LockSucceeds(b)
    PROVE  IInv'
<1> USE DEF IInv
<1> DEFINE x == box[b]
<1>1. /\ Exists(b) /\ ~crashed /\ x.step = "lock" /\ BoxOK(x) /\ ~x.readonly /\ x \in Box
      /\ locked_pages' = locked_pages \cup PagesOf(DataOf(x))
      /\ UNCHANGED <<prot, secret, unrestored, crashed>>
  BY ExistsFacts, Parts DEF LockSucceeds, lock_memory, LayoutOK, BoxOK
<1>2. PICK r : r = [x EXCEPT !.step = "live", !.locked = TRUE]
  OBVIOUS
<1>3. Moves(b, r)
  BY <1>2 DEF LockSucceeds, Moves
<1>4. /\ r \in Box /\ r.step = "live" /\ r.at = x.at /\ r.size = x.size
      /\ r.kind = x.kind /\ r.len = x.len /\ ~r.readonly /\ r.locked
  BY <1>1, <1>2 DEF Box, Steps
<1>5. BoxOK(r) /\ r # NoBox
  BY <1>1, <1>4, StaysLive, ExistsFacts DEF BoxOK
<1>6. /\ AllocationOf(r) = AllocationOf(x) /\ OverwrittenOf(r) = OverwrittenOf(x)
      /\ DataOf(r) = DataOf(x) /\ ProtectedOf(r) = ProtectedOf(x)
      /\ HoldsSecrets(r) /\ HoldsSecrets(x) /\ FlaggedBox(r)
  BY <1>1, <1>4, SameParts DEF ProtectedOf, FlaggedBox, HoldsSecrets
<1>7. PagesOf(DataOf(x)) \subseteq Pages
  BY <1>1, BoxCells, PagesOfFacts
<1> HIDE DEF x
<1>8. LayoutOK'
  BY <1>1, <1>3, <1>4, <1>5, LayoutStay DEF x
<1>9. SecretsOK'
  BY <1>1, <1>3, <1>5, <1>6, SecretsShrink DEF x
<1>10. ProtOK'
  BY <1>1, <1>3, <1>5, <1>6, ProtStep DEF ProtOK, x
<1>11. LocksOK'
  <2>1. ASSUME NEW p \in locked_pages'
        PROVE  \E c \in Boxes : /\ Exists(c)' /\ FlaggedBox(box'[c])
                                /\ p \in PagesOf(DataOf(box'[c]))
    <3>1. CASE p \in PagesOf(DataOf(x))
      BY <3>1, <1>3, <1>5, <1>6, Frame
    <3>2. CASE p \notin PagesOf(DataOf(x))
      <4>1. PICK c \in Boxes : Exists(c) /\ FlaggedBox(box[c]) /\ p \in PagesOf(DataOf(box[c]))
        BY <1>1, <2>1, <3>2 DEF LocksOK
      <4>2. c # b
        BY <3>2, <4>1 DEF x
      <4> QED BY <1>3, <4>1, <4>2, Frame
    <3> QED BY <3>1, <3>2
  <2>2. ASSUME NEW c \in Boxes, Exists(c)', FlaggedBox(box'[c]), box'[c].kind = "GuardedBox"
        PROVE  PagesOf(DataOf(box'[c])) \subseteq locked_pages'
    <3>1. CASE c = b
      BY <1>1, <1>3, <1>6, <3>1, Frame
    <3>2. CASE c # b
      BY <1>1, <1>3, <2>2, <3>2, Frame DEF LocksOK
    <3> QED BY <3>1, <3>2
  <2> QED BY <1>1, <1>7, <2>1, <2>2 DEF LocksOK
<1> QED BY <1>1, <1>8, <1>9, <1>10, <1>11 DEF FaultsOK

LEMMA LockFailsIInv ==
    ASSUME IInv, NEW b \in Boxes, At(b, "lock"), LockFails(b)
    PROVE  IInv'
<1> USE DEF IInv
<1> DEFINE x == box[b]
<1>1. /\ Exists(b) /\ ~crashed /\ x.step = "lock" /\ BoxOK(x)
      /\ secret' = secret \ OverwrittenOf(x) /\ protect_readwrite(GuardsOf(x))
      /\ Moves(b, NoBox) /\ UNCHANGED <<locked_pages, crashed>>
  BY ExistsFacts, Parts DEF LockFails, LayoutOK, Becomes, Moves
<1>2. ~FlaggedBox(x) /\ ProtectedOf(x) \subseteq GuardsOf(x)
  BY <1>1 DEF FlaggedBox, ProtectedOf
<1>3. GuardsOf(x) \in SUBSET Pages
  BY <1>1, BoxCells, PagesOfFacts DEF GuardsOf
<1> HIDE DEF x
<1>4. LayoutOK' /\ SecretsOK'
  BY <1>1, LayoutStep, SecretsShrink DEF x
<1>5. LocksOK'
  BY <1>1, <1>2, LocksStep, ExistsFacts DEF x
<1>6. ProtOK'
  BY <1>1, <1>2, <1>3, Restored, ProtStep DEF x
<1> QED BY <1>1, <1>4, <1>5, <1>6 DEF FaultsOK
-----------------------------------------------------------------------------
(* The use of a box.                                                       *)
LEMMA ExtendIInv ==
    ASSUME IInv, NEW b \in Boxes, extend_from_slice(b)
    PROVE  IInv'
<1> USE DEF IInv
<1> DEFINE x == box[b]
<1> PICK count \in Room(b) :
      LET cells == box[b].at + box[b].len .. box[b].at + box[b].len + count - 1 IN
      /\ box' = [box EXCEPT ![b].len = @ + count]
      /\ crashed' = ~Writable(cells)
      /\ secret' = IF Writable(cells) THEN secret \cup cells ELSE secret
  BY DEF extend_from_slice
<1> DEFINE cells == x.at + x.len .. x.at + x.len + count - 1
<1>1. /\ Exists(b) /\ ~crashed /\ x.step = "live" /\ x.kind = "LockedVec"
      /\ BoxOK(x) /\ x \in Box /\ x.size <= MaxSize /\ ~x.readonly
      /\ UNCHANGED <<prot, locked_pages, unrestored>>
  BY ExistsFacts DEF extend_from_slice, LayoutOK, BoxOK
<1>2. /\ x.at \in Nat /\ x.size \in Nat /\ x.len \in Nat /\ count \in Nat /\ count >= 1
      /\ x.len + count <= x.size
  <2>1. x.at \in Nat /\ x.size \in Nat /\ x.len \in Nat /\ x.len <= x.size
    BY <1>1, BoxNumbers
  <2> QED BY <2>1 DEF Room
<1>3. PICK r : r = [x EXCEPT !.len = @ + count]
  OBVIOUS
<1>4. /\ Moves(b, r) /\ crashed' = ~Writable(cells)
      /\ secret' = IF Writable(cells) THEN secret \cup cells ELSE secret
  BY <1>3 DEF Moves
<1>5. /\ r \in Box /\ r.step = "live" /\ r.at = x.at /\ r.size = x.size
      /\ r.kind = x.kind /\ r.len <= x.size /\ ~r.readonly /\ r.locked = x.locked
  <2>1. x.len + count \in 0 .. MaxSize
    <3> HIDE DEF x
    <3> PICK m : m = x.len + count
      OBVIOUS
    <3>1. m \in Nat /\ m <= x.size /\ x.size \in Nat /\ MaxSize \in Nat /\ x.size <= MaxSize
      BY <1>1, <1>2, MemoryAssumption
    <3> QED BY <3>1
  <2>2. r = [x EXCEPT !.len = x.len + count]
    BY <1>3
  <2> QED BY <1>1, <1>2, <2>1, <2>2 DEF Box
<1>6. BoxOK(r) /\ r # NoBox
  BY <1>1, <1>5, StaysLive, ExistsFacts
<1>7. /\ AllocationOf(r) = AllocationOf(x) /\ OverwrittenOf(r) = AllocationOf(x)
      /\ DataOf(r) = DataOf(x) /\ ProtectedOf(x) = {} /\ ProtectedOf(r) = {}
      /\ HoldsSecrets(r) /\ (FlaggedBox(r) <=> FlaggedBox(x))
  BY <1>1, <1>5, SameParts DEF ProtectedOf, FlaggedBox, HoldsSecrets, OverwrittenOf
<1>8. cells \subseteq AllocationOf(x)
  <2> PICK a, l, z : a = x.at /\ l = x.len /\ z = x.size
    OBVIOUS
  <2>1. a + l .. a + l + count - 1 \subseteq a .. a + z - 1
    <3>1. a \in Nat /\ z \in Nat /\ l \in Nat /\ count \in Nat /\ l + count <= z
      BY <1>2
    <3> QED BY ONLY <3>1
  <2>2. AllocationOf(x) = a .. a + z - 1
    BY Zenon DEF AllocationOf
  <2>3. cells = a + l .. a + l + count - 1
    BY Zenon
  <2> QED BY ONLY <2>1, <2>2, <2>3
<1> HIDE DEF x, cells
<1>9. LayoutOK'
  BY <1>1, <1>4, <1>5, <1>6, LayoutStay DEF x
<1>10. SecretsOK'
  BY <1>1, <1>4, <1>6, <1>7, <1>8, SecretsStep DEF x
<1>11. LocksOK'
  BY <1>1, <1>4, <1>5, <1>7, LocksStep DEF x
<1>12. ProtOK'
  BY <1>1, <1>4, <1>6, <1>7, ProtStep DEF ProtOK, x
<1>13. FaultsOK'
  <2>1. /\ cells \in SUBSET Cells
        /\ \A c \in Boxes \ {b} : Exists(c) => cells \cap AllocationOf(box[c]) = {}
    BY <1>1, <1>8, OtherBoxes DEF x
  <2> QED BY <1>1, <1>4, <1>7, <2>1, LostPages DEF FaultsOK, x
<1> QED BY <1>9, <1>10, <1>11, <1>12, <1>13

(* protect_readonly and protect_readwrite change the data pages and their  *)
(* flag together.                                                          *)
LEMMA ProtectDataIInv ==
    ASSUME IInv, NEW b \in Boxes, ProtectReadonly(b) \/ ProtectReadwrite(b)
    PROVE  IInv'
<1> USE DEF IInv
<1> DEFINE x == box[b]
<1>1. PICK to \in {"ro", "rw"}, readonly \in BOOLEAN :
      /\ protect(PagesOf(DataOf(x)), to) /\ readonly = (to = "ro")
      /\ box' = [box EXCEPT ![b].readonly = readonly]
  BY Parts DEF ProtectReadonly, ProtectReadwrite
<1>2. /\ Exists(b) /\ ~crashed /\ x.step = "live" /\ x.kind = "GuardedBox"
      /\ BoxOK(x) /\ x \in Box /\ x.len <= x.size
      /\ UNCHANGED <<locked_pages, secret, unrestored, crashed>>
  BY ExistsFacts DEF ProtectReadonly, ProtectReadwrite, LayoutOK, BoxOK
<1>3. PICK r : r = [x EXCEPT !.readonly = readonly]
  OBVIOUS
<1>4. Moves(b, r)
  BY <1>1, <1>3 DEF Moves
<1>5. /\ r \in Box /\ r.step = "live" /\ r.at = x.at /\ r.size = x.size
      /\ r.kind = x.kind /\ r.len = x.len /\ r.readonly = readonly /\ r.locked = x.locked
  BY <1>2, <1>3 DEF Box
<1>6. BoxOK(r) /\ r # NoBox
  BY <1>2, <1>5, StaysLive, ExistsFacts
<1>7. /\ AllocationOf(r) = AllocationOf(x) /\ OverwrittenOf(r) = OverwrittenOf(x)
      /\ DataOf(r) = DataOf(x) /\ GuardsOf(r) = GuardsOf(x)
      /\ HoldsSecrets(r) /\ (FlaggedBox(r) <=> FlaggedBox(x))
      /\ ProtectedOf(r) = IF readonly THEN GuardsOf(x) \cup PagesOf(DataOf(x)) ELSE GuardsOf(x)
      /\ ProtectedOf(x) \subseteq GuardsOf(x) \cup PagesOf(DataOf(x))
      /\ GuardsOf(x) \subseteq ProtectedOf(x)
  BY <1>2, <1>5, SameParts DEF ProtectedOf, FlaggedBox, HoldsSecrets
<1>8. PagesOf(DataOf(x)) \in SUBSET Pages
  BY <1>2, BoxCells, PagesOfFacts
<1> HIDE DEF x
<1>9. LayoutOK'
  BY <1>2, <1>4, <1>5, <1>6, LayoutStay DEF x
<1>10. SecretsOK'
  BY <1>2, <1>4, <1>6, <1>7, SecretsShrink DEF x
<1>11. LocksOK'
  BY <1>2, <1>4, <1>5, <1>7, LocksStep DEF x
<1>12. ProtOK'
  <2>1. /\ prot' \in [Pages -> {"rw", "ro", "none"}]
        /\ \A p \in Pages : prot'[p] = IF p \in PagesOf(DataOf(x)) THEN to ELSE prot[p]
    BY <1>1, <1>8, Protects
  <2>2. ASSUME NEW p \in Pages, prot'[p] # "rw", p \notin ProtectedOf(r)
        PROVE  prot[p] # "rw" /\ p \notin ProtectedOf(x)
    BY <1>1, <1>7, <2>1, <2>2
  <2> QED BY <1>2, <1>4, <1>6, <2>1, <2>2, ProtStep DEF ProtOK, x
<1> QED BY <1>2, <1>9, <1>10, <1>11, <1>12 DEF FaultsOK

(* Wiping makes the data writable before it overwrites: a fault there is   *)
(* on a page the kernel refused to restore, now or in an earlier box.      *)
LEMMA WipeIInv ==
    ASSUME IInv, NEW b \in Boxes, At(b, "live"), Wipe(b), UNCHANGED locked_pages,
           NEW r, Moves(b, r), BoxOK(r),
           r.at = box[b].at, r.size = box[b].size, r.kind = box[b].kind,
           r.step \in {"live", "unlock", "free"}, r.step = "live" => ~r.readonly,
           FlaggedBox(r) <=> FlaggedBox(box[b])
    PROVE  IInv'
<1> USE DEF IInv
<1> PICK x : x = box[b]
  OBVIOUS
<1> DEFINE pages == IF x.readonly THEN PagesOf(DataOf(x)) ELSE {}
<1>1. /\ Exists(b) /\ ~crashed /\ x.step = "live" /\ BoxOK(x) /\ r # NoBox
      /\ protect_readwrite(pages)
      /\ crashed' = \E p \in PagesOf(OverwrittenOf(x)) : prot'[p] # "rw"
      /\ secret' = IF crashed' THEN secret ELSE secret \ OverwrittenOf(x)
  BY ExistsFacts, Parts DEF Wipe, ToRestore, LayoutOK
<1>2. /\ AllocationOf(r) = AllocationOf(x) /\ DataOf(r) = DataOf(x)
      /\ GuardsOf(r) = GuardsOf(x)
      /\ ProtectedOf(x) \subseteq GuardsOf(x) \cup pages
      /\ GuardsOf(x) \subseteq ProtectedOf(r) \/ ProtectedOf(x) = {}
      /\ HoldsSecrets(x)
  BY <1>1, SameParts DEF ProtectedOf, HoldsSecrets
<1>3. pages \in SUBSET Pages
  BY <1>1, BoxCells, PagesOfFacts
<1>4. /\ prot' \in [Pages -> {"rw", "ro", "none"}] /\ unrestored' \subseteq Pages
      /\ \A p \in Pages : prot'[p] # "rw" =>
            /\ prot[p] # "rw" /\ (p \in pages \/ p \in unrestored => p \in unrestored')
            /\ p \in unrestored' => p \in pages \/ p \in unrestored
  BY <1>1, <1>3, Restored
<1>5. ASSUME NEW p \in PagesOf(OverwrittenOf(x)), prot'[p] # "rw"
      PROVE  p \in unrestored'
  <2>1. /\ OverwrittenOf(x) \in SUBSET Cells
        /\ \A c \in Boxes \ {b} : Exists(c) => OverwrittenOf(x) \cap AllocationOf(box[c]) = {}
    BY <1>1, OtherBoxes, BoxCells
  <2>2. p \in Pages /\ PagesOf(OverwrittenOf(x)) \subseteq PagesOf(DataOf(x))
    BY <1>1, <2>1, BoxCells, PagesOfFacts
  <2>3. CASE x.readonly
    BY <1>4, <1>5, <2>2, <2>3
  <2>4. CASE ~x.readonly
    <3>1. PagesOf(OverwrittenOf(x)) \cap ProtectedOf(x) = {}
      BY <1>1, <2>2, <2>4, ProtectedIsOwn
    <3>2. p \in unrestored
      BY <1>4, <1>5, <2>1, <2>2, <3>1, LostPage
    <3> QED BY <1>4, <1>5, <2>2, <3>2
  <2> QED BY <2>3, <2>4
<1> HIDE DEF pages
<1>6. LayoutOK'
  BY <1>1, LayoutStay
<1>7. SecretsOK'
  BY <1>1, <1>2, SecretsShrink
<1>8. LocksOK'
  BY <1>1, <1>2, LocksStep
<1>9. ProtOK'
  BY <1>1, <1>2, <1>4, ProtStep
<1>10. FaultsOK'
  BY <1>1, <1>5 DEF FaultsOK
<1> QED BY <1>6, <1>7, <1>8, <1>9, <1>10

LEMMA ZeroizeIInv ==
    ASSUME IInv, NEW b \in Boxes, Zeroize(b)
    PROVE  IInv'
<1> PICK x : x = box[b]
  OBVIOUS
<1>1. Exists(b) /\ x.step = "live" /\ BoxOK(x) /\ x \in Box
  BY ExistsFacts DEF Zeroize, IInv, LayoutOK, BoxOK
<1> PICK n : n = IF x.kind = "LockedVec" THEN 0 ELSE x.len
  OBVIOUS
<1> PICK r : r = [x EXCEPT !.readonly = FALSE, !.len = n]
  OBVIOUS
<1>2. Moves(b, r)
  BY DEF Zeroize, Moves
<1>3. n \in 0 .. MaxSize /\ n <= x.size
  <2>1. x.len \in 0 .. MaxSize /\ x.size \in Nat /\ x.len <= x.size
    BY <1>1, BoxNumbers DEF Box
  <2> QED BY <2>1, MemoryAssumption
<1>4. /\ r \in Box /\ r.at = x.at /\ r.size = x.size /\ r.kind = x.kind
      /\ r.step = "live" /\ ~r.readonly /\ r.locked = x.locked
      /\ r.len = n
  BY <1>1, <1>3 DEF Box
<1>5. BoxOK(r) /\ (FlaggedBox(r) <=> FlaggedBox(x))
  BY <1>1, <1>3, <1>4, StaysLive DEF FlaggedBox
<1> QED BY <1>1, <1>2, <1>4, <1>5, WipeIInv DEF Zeroize
-----------------------------------------------------------------------------
(* The three steps of drop.                                                *)
LEMMA DropZeroizeIInv ==
    ASSUME IInv, NEW b \in Boxes, DropZeroize(b)
    PROVE  IInv'
<1> PICK x : x = box[b]
  OBVIOUS
<1>1. Exists(b) /\ x.step = "live" /\ BoxOK(x)
  BY ExistsFacts DEF DropZeroize, IInv, LayoutOK
<1> PICK s : s = IF x.locked THEN "unlock" ELSE "free"
  OBVIOUS
<1> PICK r : r = [x EXCEPT !.step = s]
  OBVIOUS
<1>2. Moves(b, r)
  BY DEF DropZeroize, GoesTo, Moves
<1>3. /\ BoxOK(r) /\ r.step = s /\ r.at = x.at /\ r.size = x.size /\ r.kind = x.kind
      /\ r.locked = x.locked
  BY <1>1, StepsTo DEF Steps
<1>4. r.step # "live" /\ r.step \in {"unlock", "free"} /\ (FlaggedBox(r) <=> FlaggedBox(x))
  BY <1>1, <1>3 DEF FlaggedBox, BoxOK, Box
<1>5. At(b, "live") /\ Wipe(b) /\ UNCHANGED locked_pages
  BY DEF DropZeroize
<1> QED BY <1>2, <1>3, <1>4, <1>5, WipeIInv

(* munlock takes pages from the neighbours on them, which no GuardedBox    *)
(* is.                                                                     *)
LEMMA DropUnlockIInv ==
    ASSUME IInv, NEW b \in Boxes, DropUnlock(b)
    PROVE  IInv'
<1> USE DEF IInv
<1> PICK x : x = box[b]
  OBVIOUS
<1>1. /\ Exists(b) /\ ~crashed /\ x.step = "unlock" /\ BoxOK(x)
      /\ locked_pages' = locked_pages \ PagesOf(DataOf(x))
      /\ UNCHANGED <<prot, secret, unrestored, crashed>>
  BY ExistsFacts, Parts DEF DropUnlock, unlock_memory, LayoutOK
<1> PICK r : r = [x EXCEPT !.step = "free"]
  OBVIOUS
<1>2. Moves(b, r)
  BY DEF DropUnlock, GoesTo, Moves
<1>3. /\ BoxOK(r) /\ r.step = "free" /\ r.at = x.at /\ r.size = x.size /\ r.kind = x.kind
      /\ r # NoBox
  BY <1>1, StepsTo, ExistsFacts DEF Steps
<1>4. /\ AllocationOf(r) = AllocationOf(x) /\ ProtectedOf(r) = ProtectedOf(x)
      /\ ~FlaggedBox(r) /\ ~HoldsSecrets(x)
  <2>1. AllocationOf(r) = AllocationOf(x) /\ DataOf(r) = DataOf(x) /\ GuardsOf(r) = GuardsOf(x)
    BY ONLY <1>3, SameParts
  <2>2. ProtectedOf(r) = ProtectedOf(x)
    BY ONLY <1>1, <1>3, <2>1 DEF ProtectedOf
  <2>3. ~FlaggedBox(r)
    BY ONLY <1>3 DEF FlaggedBox
  <2>4. ~HoldsSecrets(x)
    BY ONLY <1>1 DEF HoldsSecrets
  <2> QED BY <2>1, <2>2, <2>3, <2>4
<1>5. LayoutOK'
  BY <1>1, <1>2, <1>3, LayoutStay
<1>6. SecretsOK'
  BY <1>1, <1>2, <1>3, <1>4, SecretsShrink
<1>7. ProtOK'
  BY <1>1, <1>2, <1>3, <1>4, ProtStep DEF ProtOK
<1>8. LocksOK'
  <2>1. ASSUME NEW p \in locked_pages'
        PROVE  \E c \in Boxes : /\ Exists(c)' /\ FlaggedBox(box'[c])
                                /\ p \in PagesOf(DataOf(box'[c]))
    <3>1. PICK c \in Boxes : Exists(c) /\ FlaggedBox(box[c]) /\ p \in PagesOf(DataOf(box[c]))
      BY <1>1, <2>1 DEF LocksOK
    <3>2. c # b
      BY <1>1, <2>1, <3>1
    <3> QED BY <1>2, <3>1, <3>2, Frame
  <2>2. ASSUME NEW c \in Boxes, Exists(c)', FlaggedBox(box'[c]), box'[c].kind = "GuardedBox"
        PROVE  PagesOf(DataOf(box'[c])) \subseteq locked_pages'
    <3>1. c # b /\ box'[c] = box[c] /\ Exists(c)
      BY <1>2, <1>4, <2>2, Frame
    <3>2. PagesOf(DataOf(box[c])) \subseteq locked_pages
      BY <2>2, <3>1 DEF LocksOK
    <3>3. /\ DataOf(x) \in SUBSET Cells
          /\ DataOf(x) \cap AllocationOf(box[c]) = {}
      BY <1>1, <3>1, OtherBoxes, BoxCells
    <3>4. PagesOf(DataOf(x)) \cap PagesOf(AllocationOf(box[c])) = {}
      BY <2>2, <3>1, <3>3, Exclusive
    <3>5. PagesOf(DataOf(box[c])) \subseteq PagesOf(AllocationOf(box[c]))
      BY <3>1, BoxCells, PagesOfFacts DEF LayoutOK
    <3> QED BY <1>1, <3>1, <3>2, <3>4, <3>5
  <2> QED BY <1>1, <2>1, <2>2 DEF LocksOK
<1> QED BY <1>1, <1>5, <1>6, <1>7, <1>8 DEF FaultsOK

LEMMA DropFreeIInv ==
    ASSUME IInv, NEW b \in Boxes, DropFree(b)
    PROVE  IInv'
<1> USE DEF IInv
<1> PICK x : x = box[b]
  OBVIOUS
<1>1. /\ Exists(b) /\ ~crashed /\ x.step = "free" /\ BoxOK(x)
      /\ protect_readwrite(GuardsOf(x)) /\ Moves(b, NoBox)
      /\ UNCHANGED <<locked_pages, secret, crashed>>
  BY ExistsFacts, Parts DEF DropFree, LayoutOK, Becomes, Moves
<1>2. ~FlaggedBox(x) /\ ~HoldsSecrets(x) /\ ProtectedOf(x) \subseteq GuardsOf(x)
  BY <1>1 DEF FlaggedBox, HoldsSecrets, ProtectedOf
<1>3. GuardsOf(x) \in SUBSET Pages
  BY <1>1, BoxCells, PagesOfFacts DEF GuardsOf
<1>4. LayoutOK' /\ SecretsOK'
  BY <1>1, <1>2, LayoutStep, SecretsShrink
<1>5. LocksOK'
  BY <1>1, <1>2, LocksStep, ExistsFacts
<1>6. ProtOK'
  BY <1>1, <1>2, <1>3, Restored, ProtStep
<1> QED BY <1>1, <1>4, <1>5, <1>6 DEF FaultsOK
-----------------------------------------------------------------------------
LEMMA InitIInv == BoxInit => IInv
<1> SUFFICES ASSUME BoxInit PROVE IInv
  OBVIOUS
<1>1. \A b \in Boxes : ~Exists(b)
  BY DEF BoxInit, Exists
<1> QED BY <1>1 DEF BoxInit, IInv, LayoutOK, SecretsOK, ProtOK, LocksOK, FaultsOK

LEMMA NextIInv == IInv /\ [BoxNext]_box_vars => IInv'
<1> SUFFICES ASSUME IInv, [BoxNext]_box_vars PROVE IInv'
  OBVIOUS
<1>1. CASE UNCHANGED box_vars
  BY <1>1 DEF box_vars, IInv, LayoutOK, SecretsOK, ProtOK, LocksOK, FaultsOK, Exists
<1>2. ASSUME NEW b \in Boxes,
             \/ NewLockedBox(b) \/ NewLockedVec(b) \/ NewGuardedBox(b)
             \/ ProtectForeGuard(b) \/ ProtectAftGuard(b) \/ WriteValue(b) \/ Lock(b)
      PROVE  IInv'
  BY <1>2, NewLockedBoxIInv, NewLockedVecIInv, NewGuardedBoxIInv, ProtectForeGuardIInv,
     ProtectAftGuardIInv, WriteValueIInv, LockSucceedsIInv, LockFailsIInv DEF Lock
<1>3. ASSUME NEW b \in Boxes,
             \/ extend_from_slice(b) \/ ProtectReadonly(b) \/ ProtectReadwrite(b)
             \/ Zeroize(b) \/ DropZeroize(b) \/ DropUnlock(b) \/ DropFree(b)
      PROVE  IInv'
  BY <1>3, ExtendIInv, ProtectDataIInv, ZeroizeIInv, DropZeroizeIInv, DropUnlockIInv,
     DropFreeIInv
<1> QED BY <1>1, <1>2, <1>3 DEF BoxNext

LEMMA SpecIInv == BoxSpec => []IInv
BY InitIInv, NextIInv, PTL DEF BoxSpec
-----------------------------------------------------------------------------
(* A GuardedBox that is_locked is, whatever the boxes of other threads do: *)
(* the data pages of new are its own, so the munlock of no other drop      *)
(* reaches them.                                                           *)
THEOREM GuardedBoxesStayLocked == BoxSpec => []GuardedStaysLocked
<1>1. IInv => GuardedStaysLocked
  BY Parts DEF IInv, LocksOK, GuardedStaysLocked
<1> QED BY <1>1, SpecIInv, PTL

(* Constructors that fail at any call, drops and failing mprotect calls    *)
(* leave no secret in freed memory, no page locked and none unwritable     *)
(* other than those the kernel refused to restore, and only these fault.   *)
THEOREM NothingIsLeftBehind == BoxSpec => []NothingLeftBehind
<1>1. IInv => NothingLeftBehind
  <2> SUFFICES ASSUME IInv PROVE NothingLeftBehind
    OBVIOUS
  <2> USE DEF IInv
  <2>1. TypeOK
    <3>1. \A b \in Boxes : Exists(b) => box[b] \in Box /\ box[b].len <= box[b].size
      BY DEF LayoutOK, BoxOK
    <3>2. \A b \in Boxes : box[b] \in Box \cup {NoBox}
      BY <3>1 DEF Exists
    <3> QED BY <3>1, <3>2 DEF TypeOK, LayoutOK, SecretsOK, ProtOK, LocksOK, FaultsOK
  <2>2. FreedMemoryIsClean
    BY Parts DEF FreedMemoryIsClean, FreeCells, SecretsOK
  <2>3. NoLockLeaks
    BY Parts DEF NoLockLeaks, LocksOK
  <2>4. NoPageIsLost
    <3>1. ASSUME NEW b \in Boxes, Exists(b), NEW p \in ProtectedOf(box[b])
          PROVE  box[b].kind = "GuardedBox" /\ p \in PagesOf(Allocation(b))
      BY <3>1, ProtectedIsOwn, Parts DEF LayoutOK
    <3> QED BY <3>1 DEF NoPageIsLost, ProtOK
  <2>5. FaultsNeedALostRestore
    BY DEF FaultsNeedALostRestore, FaultsOK
  <2> QED BY <2>1, <2>2, <2>3, <2>4, <2>5 DEF NothingLeftBehind
<1> QED BY <1>1, SpecIInv, PTL

(* Which steps unlock pages at all.                                        *)
LEMMA OnlyDropUnlocks ==
    ASSUME BoxNext, NEW p \in locked_pages, p \notin locked_pages'
    PROVE  \E c \in Boxes : DropUnlock(c)
<1> PICK b \in Boxes :
      \/ NewLockedBox(b) \/ NewLockedVec(b) \/ NewGuardedBox(b)
      \/ ProtectForeGuard(b) \/ ProtectAftGuard(b) \/ WriteValue(b) \/ Lock(b)
      \/ extend_from_slice(b) \/ ProtectReadonly(b) \/ ProtectReadwrite(b)
      \/ Zeroize(b) \/ DropZeroize(b) \/ DropUnlock(b) \/ DropFree(b)
  BY DEF BoxNext
<1>1. CASE Lock(b)
  BY <1>1 DEF Lock, LockSucceeds, LockFails, lock_memory
<1>2. CASE NewLockedBox(b) \/ NewLockedVec(b) \/ NewGuardedBox(b)
  BY <1>2 DEF NewLockedBox, NewLockedVec, NewGuardedBox
<1>3. CASE ProtectForeGuard(b) \/ ProtectAftGuard(b) \/ WriteValue(b)
  BY <1>3 DEF ProtectForeGuard, ProtectAftGuard, WriteValue
<1>4. CASE extend_from_slice(b) \/ ProtectReadonly(b) \/ ProtectReadwrite(b)
  BY <1>4 DEF extend_from_slice, ProtectReadonly, ProtectReadwrite
<1>5. CASE Zeroize(b) \/ DropZeroize(b) \/ DropFree(b)
  BY <1>5 DEF Zeroize, DropZeroize, DropFree
<1> QED BY <1>1, <1>2, <1>3, <1>4, <1>5

(* A box in use loses the lock of a page only to the drop of a LockedBox   *)
(* or LockedVec on that page, for munlock is not counted; a GuardedBox     *)
(* loses none.                                                             *)
THEOREM OnlyNeighboursUnlock == BoxSpec => LocksAreLostToNeighbours
<1> DEFINE Step == \A b \in Boxes : Flagged(b) /\ box'[b] = box[b] =>
        \A p \in (PagesOf(Data(b)) \cap locked_pages) \ locked_pages' :
            \E c \in Boxes \ {b} : /\ Flagged(c) /\ box[c].step = "unlock"
                                  /\ p \in PagesOf(Data(c))
                                  /\ box[b].kind # "GuardedBox"
<1>1. IInv /\ [BoxNext]_box_vars => [Step]_box_vars
  <2> SUFFICES ASSUME IInv, BoxNext, NEW b \in Boxes, Flagged(b), box'[b] = box[b],
                      NEW p \in (PagesOf(Data(b)) \cap locked_pages) \ locked_pages'
               PROVE  \E c \in Boxes \ {b} : /\ Flagged(c) /\ box[c].step = "unlock"
                                             /\ p \in PagesOf(Data(c))
                                             /\ box[b].kind # "GuardedBox"
    BY DEF box_vars
  <2> USE DEF IInv
  <2>1. PICK c \in Boxes : DropUnlock(c)
    BY OnlyDropUnlocks
  <2>2. /\ Exists(c) /\ box[c].step = "unlock" /\ BoxOK(box[c])
        /\ locked_pages' = locked_pages \ PagesOf(DataOf(box[c]))
    BY <2>1, ExistsFacts, Parts DEF DropUnlock, unlock_memory, LayoutOK
  <2>3. c # b
    <3>1. box' = [box EXCEPT ![c].step = "free"]
      BY <2>1 DEF DropUnlock, GoesTo
    <3>2. box'[c] = [box[c] EXCEPT !.step = "free"]
      BY <3>1 DEF LayoutOK
    <3>3. box'[c].step = "free"
      BY <2>2, <3>2 DEF BoxOK, Box
    <3> QED BY <2>2, <3>3
  <2>4. Flagged(c) /\ p \in PagesOf(Data(c))
    BY <2>2, Parts DEF FlaggedBox, BoxOK
  <2>5. ASSUME box[b].kind = "GuardedBox" PROVE FALSE
    <3>1. Exists(b) /\ Data(b) = DataOf(box[b]) /\ BoxOK(box[b])
      BY Parts DEF LayoutOK
    <3>2. DataOf(box[c]) \in SUBSET Cells /\ DataOf(box[c]) \cap AllocationOf(box[b]) = {}
      BY <2>2, <2>3, <3>1, OtherBoxes, BoxCells
    <3>3. PagesOf(DataOf(box[c])) \cap PagesOf(AllocationOf(box[b])) = {}
      BY <2>5, <3>1, <3>2, Exclusive
    <3>4. PagesOf(DataOf(box[b])) \subseteq PagesOf(AllocationOf(box[b]))
      BY <3>1, BoxCells, PagesOfFacts
    <3> QED BY <2>2, <3>1, <3>3, <3>4
  <2> QED BY <2>2, <2>3, <2>4, <2>5
<1>2. BoxSpec => [][Step]_box_vars
  BY <1>1, SpecIInv, PTL DEF BoxSpec
<1> QED BY <1>2 DEF LocksAreLostToNeighbours

-----------------------------------------------------------------------------
(* The stream.  Where the reads so far ended, and where the cache is: it     *)
(* starts where the last read ended, and the reader stands at its end.       *)
Reads == Seq([first : Nat, n : Nat \ {0}])
EndOf(g) == IF g = << >> THEN 0 ELSE g[Len(g)].first + g[Len(g)].n

XofFields == [suite : {"SHAKE", "BLAKE3"}, read : Nat, tiny_hits : {0, 1}, cached : Nat,
              cache_off : Nat, cache_len : {0, TINY_PREFETCH}]
XofTyped == xof \in XofFields /\ given \in Reads

CacheFollows ==
    IF xof.suite = "SHAKE" \/ xof.cache_len = 0 THEN xof.read = EndOf(given) /\ xof.cache_off = 0
    ELSE /\ EndOf(given) = xof.cached + xof.cache_off
         /\ xof.read = xof.cached + xof.cache_len
         /\ xof.cache_off <= xof.cache_len
         /\ xof.tiny_hits = 1

(* After its first read an even reader has used a whole number of reads of    *)
(* the cache.                                                                *)
Even == EvenReads /\ (given # << >> => given[1].n <= TINY_SQUEEZE_MAX)
EvenlyUsed == Even /\ xof.suite = "BLAKE3" =>
    /\ Len(given) = 0 => xof.tiny_hits = 0
    /\ Len(given) >= 1 => xof.tiny_hits = 1
    /\ Len(given) <= 1 => xof.cache_len = 0
    /\ Len(given) >= 2 => xof.cache_len = TINY_PREFETCH /\ \E q \in Nat : xof.cache_off = q * given[2].n

StreamInv == XofTyped /\ CacheFollows /\ EvenlyUsed /\ StreamInOrder

(* Two multiples of the same number less than it apart are equal.            *)
LEMMA MultiplesMeet ==
    ASSUME NEW m \in Nat \ {0}, NEW q \in Nat, NEW r \in Nat, q * m <= r * m, q * m + m > r * m
    PROVE  q * m = r * m
<1>1. CASE q > r
  <2>1. PICK d \in Nat : q = r + 1 + d
    <3>1. q - r - 1 \in Nat /\ q = r + 1 + (q - r - 1)
      BY <1>1
    <3> QED BY <3>1
  <2>2. q * m = r * m + m + d * m /\ d * m \in Nat /\ r * m \in Nat
    BY <2>1
  <2> QED BY <2>2
<1>2. CASE q < r
  <2>1. PICK d \in Nat : r = q + 1 + d
    <3>1. r - q - 1 \in Nat /\ r = q + 1 + (r - q - 1)
      BY <1>2
    <3> QED BY <3>1
  <2>2. r * m = q * m + m + d * m /\ d * m \in Nat /\ q * m \in Nat
    BY <2>1
  <2> QED BY <2>2
<1> QED BY <1>1, <1>2

LEMMA Divides ==
    ASSUME NEW m \in Nat \ {0}, NEW a \in Nat, a % m = 0
    PROVE  \E r \in Nat : a = r * m
<1>1. PICK r \in Int : a = m * r
  <2>1. m \in Int /\ m > 0 /\ a \in Int
    OBVIOUS
  <2> QED BY ONLY <2>1, a % m = 0
<1>2. CASE r < 0
  <2>1. PICK d \in Nat : r = -1 - d
    <3>1. -1 - r \in Nat /\ r = -1 - (-1 - r)
      BY <1>2
    <3> QED BY <3>1
  <2>2. a = -m - m * d /\ m * d \in Nat
    BY <2>1, <1>1
  <2> QED BY <2>2
<1>3. CASE r >= 0
  <2>1. r \in Nat /\ a = r * m
    BY <1>3, <1>1
  <2> QED BY <2>1
<1> QED BY <1>2, <1>3

(* What one read does to the reader, case by case.                            *)
Read(n, x, f) ==
    \/ /\ xof.suite = "SHAKE" \/ (xof.tiny_hits = 0 /\ n <= TINY_SQUEEZE_MAX)
       /\ x.read = xof.read + n /\ x.cached = xof.cached
       /\ x.cache_off = xof.cache_off /\ x.cache_len = xof.cache_len
       /\ x.tiny_hits = IF xof.suite = "SHAKE" THEN xof.tiny_hits ELSE 1
       /\ f = xof.read
    \/ /\ xof.suite = "BLAKE3" /\ n <= TINY_SQUEEZE_MAX
       /\ xof.tiny_hits = 1 /\ xof.cache_off + n > xof.cache_len
       /\ x.read = xof.read + TINY_PREFETCH /\ x.cached = xof.read
       /\ x.cache_off = n /\ x.cache_len = TINY_PREFETCH /\ x.tiny_hits = 1
       /\ f = xof.read
    \/ /\ xof.suite = "BLAKE3" /\ n <= TINY_SQUEEZE_MAX
       /\ xof.tiny_hits = 1 /\ xof.cache_off + n <= xof.cache_len
       /\ x.read = xof.read /\ x.cached = xof.cached
       /\ x.cache_off = xof.cache_off + n /\ x.cache_len = xof.cache_len /\ x.tiny_hits = 1
       /\ f = xof.cached + xof.cache_off
    \/ /\ xof.suite = "BLAKE3" /\ n > TINY_SQUEEZE_MAX
       /\ x.read = xof.read + n /\ x.cached = xof.cached
       /\ x.cache_off = 0 /\ x.cache_len = 0 /\ x.tiny_hits = 0
       /\ f = xof.read

LEMMA ReadCases ==
    ASSUME xof \in XofFields, NEW n \in Nat \ {0}
    PROVE  LET s == squeeze(xof, n) IN
           Read(n, s.xof, s.first) /\ s.xof.suite = xof.suite /\ s.xof \in XofFields
<1> DEFINE s == squeeze(xof, n)
<1>0. /\ xof.suite \in {"SHAKE", "BLAKE3"} /\ xof.tiny_hits \in {0, 1}
      /\ xof.read \in Nat /\ xof.cached \in Nat /\ xof.cache_off \in Nat
      /\ xof.cache_len \in {0, TINY_PREFETCH}
      /\ DOMAIN xof = {"suite", "read", "tiny_hits", "cached", "cache_off", "cache_len"}
      /\ n \in Nat /\ TINY_PREFETCH \in Nat /\ TINY_SQUEEZE_MAX \in Nat
  BY CacheAssumption DEF XofFields
<1>1. CASE xof.suite = "SHAKE"
  <2>1. s = [xof |-> [xof EXCEPT !.read = @ + n], first |-> xof.read]
    BY <1>1 DEF squeeze, Direct
  <2>2. s.first = xof.read /\ s.xof = [xof EXCEPT !.read = @ + n]
    BY <2>1
  <2>3. s.xof \in XofFields
    BY <2>2, <1>0 DEF XofFields
  <2>4. /\ s.xof.suite = xof.suite /\ s.xof.read = xof.read + n /\ s.xof.cached = xof.cached
        /\ s.xof.cache_off = xof.cache_off /\ s.xof.cache_len = xof.cache_len
        /\ s.xof.tiny_hits = xof.tiny_hits
    BY ONLY <2>2, <1>0
  <2> QED BY ONLY <2>2, <2>3, <2>4, <1>1 DEF Read
<1>2. CASE xof.suite = "BLAKE3" /\ n > TINY_SQUEEZE_MAX
  <2> DEFINE y == [xof EXCEPT !.tiny_hits = 0, !.cache_off = 0, !.cache_len = 0]
  <2>1. s = Direct(y, n)
    BY <1>2, <1>0 DEF squeeze
  <2>2. /\ y \in XofFields /\ y.suite = xof.suite /\ y.read = xof.read /\ y.cached = xof.cached
        /\ y.cache_off = 0 /\ y.cache_len = 0 /\ y.tiny_hits = 0
        /\ DOMAIN y = DOMAIN xof
    BY ONLY <1>0, xof \in XofFields DEF XofFields
  <2> HIDE DEF y
  <2>3. s.first = y.read /\ s.xof = [y EXCEPT !.read = @ + n]
    BY <2>1 DEF Direct
  <2>4. s.xof \in XofFields
    BY <2>2, <2>3, <1>0 DEF XofFields
  <2>5. /\ s.xof.suite = y.suite /\ s.xof.read = y.read + n /\ s.xof.cached = y.cached
        /\ s.xof.cache_off = y.cache_off /\ s.xof.cache_len = y.cache_len
        /\ s.xof.tiny_hits = y.tiny_hits
    BY ONLY <2>2, <2>3, <1>0
  <2> QED BY ONLY <2>2, <2>3, <2>4, <2>5, <1>2 DEF Read
<1>3. CASE xof.suite = "BLAKE3" /\ n <= TINY_SQUEEZE_MAX /\ xof.tiny_hits = 0
  <2> DEFINE y == [xof EXCEPT !.tiny_hits = 1]
  <2>1. s = Direct(y, n)
    BY <1>3 DEF squeeze, TinySqueeze
  <2>2. /\ y \in XofFields /\ y.suite = xof.suite /\ y.read = xof.read /\ y.cached = xof.cached
        /\ y.cache_off = xof.cache_off /\ y.cache_len = xof.cache_len /\ y.tiny_hits = 1
        /\ DOMAIN y = DOMAIN xof
    BY ONLY <1>0, xof \in XofFields DEF XofFields
  <2> HIDE DEF y
  <2>3. s.first = y.read /\ s.xof = [y EXCEPT !.read = @ + n]
    BY <2>1 DEF Direct
  <2>4. s.xof \in XofFields
    BY <2>2, <2>3, <1>0 DEF XofFields
  <2>5. /\ s.xof.suite = y.suite /\ s.xof.read = y.read + n /\ s.xof.cached = y.cached
        /\ s.xof.cache_off = y.cache_off /\ s.xof.cache_len = y.cache_len
        /\ s.xof.tiny_hits = y.tiny_hits
    BY ONLY <2>2, <2>3, <1>0
  <2> QED BY ONLY <2>2, <2>3, <2>4, <2>5, <1>3 DEF Read
<1>4. CASE xof.suite = "BLAKE3" /\ n <= TINY_SQUEEZE_MAX /\ xof.tiny_hits = 1
  <2> DEFINE y == IF xof.cache_off + n > xof.cache_len THEN refill(xof) ELSE xof
  <2>1. s = FromCache(y, n)
    BY <1>4 DEF squeeze, TinySqueeze
  <2>2. /\ y \in XofFields /\ y.suite = xof.suite /\ y.tiny_hits = 1 /\ DOMAIN y = DOMAIN xof
        /\ IF xof.cache_off + n > xof.cache_len
           THEN /\ y.read = xof.read + TINY_PREFETCH /\ y.cached = xof.read
                /\ y.cache_off = 0 /\ y.cache_len = TINY_PREFETCH
           ELSE y = xof
    <3>1. CASE xof.cache_off + n > xof.cache_len
      <4>1. y = [xof EXCEPT !.cached = xof.read, !.read = @ + TINY_PREFETCH, !.cache_off = 0, !.cache_len = TINY_PREFETCH]
        BY <3>1 DEF refill
      <4> HIDE DEF y
      <4>2. y \in XofFields
        <5> DEFINE z == [xof EXCEPT !.cached = xof.read, !.read = @ + TINY_PREFETCH]
        <5>1. z \in XofFields
          <6> DEFINE w == [xof EXCEPT !.cached = xof.read]
          <6>1. w \in XofFields /\ w.read = xof.read
            BY ONLY <1>0, xof \in XofFields DEF XofFields
          <6>2. z = [w EXCEPT !.read = xof.read + TINY_PREFETCH] /\ xof.read + TINY_PREFETCH \in Nat
            BY <1>0
          <6> HIDE DEF w, z
          <6> QED BY ONLY <6>1, <6>2 DEF XofFields
        <5>2. y = [z EXCEPT !.cache_off = 0, !.cache_len = TINY_PREFETCH]
          BY <4>1
        <5> HIDE DEF z
        <5>3. 0 \in Nat /\ TINY_PREFETCH \in {0, TINY_PREFETCH}
          OBVIOUS
        <5> QED BY ONLY <5>1, <5>2, <5>3 DEF XofFields
      <4>3. /\ y.suite = xof.suite /\ y.tiny_hits = xof.tiny_hits /\ DOMAIN y = DOMAIN xof
            /\ y.read = xof.read + TINY_PREFETCH /\ y.cached = xof.read
            /\ y.cache_off = 0 /\ y.cache_len = TINY_PREFETCH
        BY ONLY <4>1, <1>0
      <4> QED BY ONLY <4>2, <4>3, <3>1, <1>4
    <3>2. CASE ~ (xof.cache_off + n > xof.cache_len)
      BY <3>2, <1>4
    <3> QED BY <3>1, <3>2
  <2> HIDE DEF y
  <2>3. s.first = y.cached + y.cache_off /\ s.xof = [y EXCEPT !.cache_off = @ + n]
    BY <2>1 DEF FromCache
  <2>4. s.xof \in XofFields
    BY <2>2, <2>3, <1>0 DEF XofFields
  <2>5. /\ s.xof.suite = y.suite /\ s.xof.read = y.read /\ s.xof.cached = y.cached
        /\ s.xof.cache_off = y.cache_off + n /\ s.xof.cache_len = y.cache_len
        /\ s.xof.tiny_hits = y.tiny_hits
    BY ONLY <2>2, <2>3, <1>0
  <2> QED BY ONLY <2>2, <2>3, <2>4, <2>5, <1>0, <1>4 DEF Read
<1> QED BY ONLY <1>0, <1>1, <1>2, <1>3, <1>4

LEMMA OneMoreRead ==
    ASSUME NEW g \in Reads, NEW r \in [first : Nat, n : Nat \ {0}]
    PROVE  LET h == Append(g, r) IN
           /\ h \in Reads /\ Len(h) = Len(g) + 1 /\ Len(g) \in Nat
           /\ \A k \in 1 .. Len(g) : h[k] = g[k]
           /\ h[Len(g) + 1] = r
           /\ EndOf(h) = r.first + r.n
           /\ EndOf(g) \in Nat
<1> DEFINE h == Append(g, r)
<1>1. Len(g) \in Nat /\ g \in Seq([first : Nat, n : Nat \ {0}])
  BY DEF Reads
<1>2. h \in Reads /\ Len(h) = Len(g) + 1
  BY <1>1 DEF Reads
<1>3. /\ \A k \in 1 .. Len(g) : h[k] = g[k]
      /\ h[Len(g) + 1] = r
  BY <1>1
<1> HIDE DEF h
<1>4. h # << >> /\ EndOf(h) = r.first + r.n
  BY <1>1, <1>2, <1>3 DEF EndOf
<1>5. EndOf(g) \in Nat
  <2>1. CASE g = << >>
    BY <2>1 DEF EndOf
  <2>2. CASE g # << >>
    <3>1. Len(g) \in 1 .. Len(g)
      BY <1>1, <2>2
    <3>2. g[Len(g)] \in [first : Nat, n : Nat \ {0}]
      BY ONLY <1>1, <3>1, ElementOfSeq
    <3> QED BY <2>2, <3>2 DEF EndOf
  <2> QED BY <2>1, <2>2
<1> QED BY <1>1, <1>2, <1>3, <1>4, <1>5 DEF h

(* A read goes on at or behind the last one, and exactly behind it unless a   *)
(* cache was dropped or its end left over.                                   *)
LEMMA ReadsGoOn ==
    ASSUME StreamInv, NEW n \in Nat \ {0}, NEW x \in XofFields, NEW f \in Nat,
           Read(n, x, f), x.suite = xof.suite,
           NEW h, h = Append(given, [first |-> f, n |-> n])
    PROVE  /\ f >= EndOf(given)
           /\ IF x.suite = "SHAKE" \/ x.cache_len = 0 THEN x.read = f + n /\ x.cache_off = 0
              ELSE /\ f + n = x.cached + x.cache_off /\ x.read = x.cached + x.cache_len
                   /\ x.cache_off <= x.cache_len /\ x.tiny_hits = 1
           /\ xof.suite = "SHAKE" => f = EndOf(given)
<1> USE DEF StreamInv, XofTyped, CacheFollows, XofFields
<1>1. EndOf(given) \in Nat /\ TINY_PREFETCH \in Nat /\ TINY_SQUEEZE_MAX \in Nat
  <2>1. [first |-> f, n |-> n] \in [first : Nat, n : Nat \ {0}] /\ given \in Reads
    OBVIOUS
  <2> QED BY <2>1, OneMoreRead, CacheAssumption
<1>2. TINY_SQUEEZE_MAX <= TINY_PREFETCH /\ n \in Nat /\ n > 0
  BY CacheAssumption
<1>3. XofTyped /\ CacheFollows
  OBVIOUS
<1> QED BY ONLY <1>1, <1>2, <1>3, Read(n, x, f), x.suite = xof.suite, x \in XofFields, f \in Nat
        DEF Read, XofTyped, CacheFollows, XofFields

(* The reads of an even reader were even before the last one.                *)
LEMMA EvenBefore ==
    ASSUME NEW g \in Reads, NEW r \in [first : Nat, n : Nat \ {0}], given = g, given' = Append(g, r), Even'
    PROVE  /\ Even
           /\ g = << >> => r.n <= TINY_SQUEEZE_MAX
           /\ g # << >> => r.n <= TINY_SQUEEZE_MAX /\ TINY_PREFETCH % r.n = 0
           /\ Len(g) >= 2 => r.n = g[2].n
<1>1. Len(g) \in Nat /\ Len(given') = Len(g) + 1 /\ given'[Len(g) + 1] = r
  BY OneMoreRead
<1>2. \A k \in 1 .. Len(g) : given'[k] = g[k]
  BY OneMoreRead
<1>3. \A k \in 2 .. Len(g) + 1 :
        given'[k].n = given'[2].n /\ given'[k].n <= TINY_SQUEEZE_MAX /\ TINY_PREFETCH % given'[k].n = 0
  BY <1>1 DEF Even, EvenReads
<1>4. given' # << >> /\ given'[1].n <= TINY_SQUEEZE_MAX
  BY <1>1 DEF Even
<1>5. g = << >> => r.n <= TINY_SQUEEZE_MAX
  BY <1>1, <1>4
<1>6. g # << >> => Len(g) >= 1
  BY <1>1 DEF Reads
<1>7. g # << >> => r.n <= TINY_SQUEEZE_MAX /\ TINY_PREFETCH % r.n = 0
  <2>1. g # << >> => Len(g) + 1 \in 2 .. Len(g) + 1
    BY <1>1, <1>6
  <2> QED BY <2>1, <1>3, <1>1
<1>8. Len(g) >= 2 => r.n = g[2].n
  <2>1. SUFFICES ASSUME Len(g) >= 2 PROVE r.n = g[2].n
    OBVIOUS
  <2>2. Len(g) + 1 \in 2 .. Len(g) + 1 /\ 2 \in 1 .. Len(g)
    BY <2>1, <1>1
  <2> QED BY <2>2, <1>3, <1>1, <1>2
<1>9. Even
  <2>1. given # << >> => given[1].n <= TINY_SQUEEZE_MAX
    BY <1>1, <1>2, <1>4, <1>6
  <2>2. ASSUME NEW k \in 2 .. Len(given)
        PROVE  given[k].n = given[2].n /\ given[k].n <= TINY_SQUEEZE_MAX /\ TINY_PREFETCH % given[k].n = 0
    <3>1. k \in 1 .. Len(g) /\ 2 \in 1 .. Len(g) /\ k \in 2 .. Len(g) + 1
      BY <1>1
    <3>2. given'[k] = given[k] /\ given'[2] = given[2]
      BY <3>1, <1>2
    <3> QED BY <3>1, <3>2, <1>3
  <2> QED BY <2>1, <2>2 DEF Even, EvenReads
<1> QED BY <1>5, <1>7, <1>8, <1>9

(* An even reader leaves nothing over at the end of the cache.               *)
LEMMA EvenReadsGoOn ==
    ASSUME StreamInv, NEW n \in Nat \ {0}, NEW x \in XofFields, NEW f \in Nat,
           Read(n, x, f), x = xof', x.suite = xof.suite,
           given' = Append(given, [first |-> f, n |-> n])
    PROVE  /\ Even' /\ given # << >> => f = EndOf(given)
           /\ EvenlyUsed'
<1> DEFINE r == [first |-> f, n |-> n]
<1>1. given \in Reads /\ r \in [first : Nat, n : Nat \ {0}] /\ r.n = n
  BY DEF StreamInv, XofTyped
<1>2. /\ Len(given) \in Nat /\ Len(given') = Len(given) + 1 /\ given'[Len(given) + 1] = r
      /\ \A k \in 1 .. Len(given) : given'[k] = given[k]
      /\ EndOf(given) \in Nat
  BY <1>1, OneMoreRead
<1>3. given # << >> <=> Len(given) >= 1
  BY <1>1 DEF Reads
<1>4. xof.suite \in {"SHAKE", "BLAKE3"} /\ xof \in XofFields
  BY DEF StreamInv, XofTyped, XofFields
<1>5. CASE xof.suite = "SHAKE"
  <2>1. f = EndOf(given)
    BY <1>5, <1>4 DEF Read, StreamInv, CacheFollows
  <2>2. EvenlyUsed'
    BY <1>5 DEF EvenlyUsed
  <2> QED BY <2>1, <2>2
<1>6. CASE ~ Even'
  BY <1>6 DEF EvenlyUsed
<1>7. CASE xof.suite = "BLAKE3" /\ Even'
  <2>1. /\ Even /\ n <= TINY_SQUEEZE_MAX
        /\ given # << >> => TINY_PREFETCH % n = 0
        /\ Len(given) >= 2 => n = given[2].n
    BY <1>7, <1>1, EvenBefore
  <2>2. /\ Len(given) = 0 => xof.tiny_hits = 0
        /\ Len(given) >= 1 => xof.tiny_hits = 1
        /\ Len(given) <= 1 => xof.cache_len = 0
        /\ Len(given) >= 2 => xof.cache_len = TINY_PREFETCH /\ \E q \in Nat : xof.cache_off = q * given[2].n
    BY <2>1, <1>7 DEF StreamInv, EvenlyUsed
  <2>3. CacheFollows /\ TINY_PREFETCH \in Nat /\ TINY_SQUEEZE_MAX \in Nat /\ TINY_SQUEEZE_MAX <= TINY_PREFETCH
    BY CacheAssumption DEF StreamInv
  <2>4. CASE Len(given) = 0
    <3>1. x.tiny_hits = 1 /\ x.cache_len = 0
      BY ONLY <2>1, <2>2, <2>3, <2>4, <1>7, <1>4, <1>2, Read(n, x, f), n \in Nat DEF Read, XofFields
    <3>2. ~ (given # << >>) /\ Len(given') = 1
      BY <2>4, <1>2, <1>3
    <3> QED BY <3>1, <3>2, x = xof' DEF EvenlyUsed
  <2>5. CASE Len(given) = 1
    <3>1. xof.tiny_hits = 1 /\ xof.cache_len = 0 /\ xof.cache_off = 0 /\ xof.read = EndOf(given)
      BY <2>2, <2>3, <2>5 DEF CacheFollows
    <3>2. /\ x.tiny_hits = 1 /\ x.cache_len = TINY_PREFETCH /\ x.cache_off = n
          /\ f = EndOf(given)
      BY ONLY <2>1, <3>1, <2>3, <1>7, <1>4, <1>2, Read(n, x, f), n \in Nat, n # 0 DEF Read, XofFields
    <3>3. Len(given') = 2 /\ given'[2].n = n
      BY <2>5, <1>2
    <3>4. x.cache_off = 1 * n /\ 1 \in Nat
      BY <3>2
    <3>5. \E q \in Nat : xof'.cache_off = q * given'[2].n
      BY <3>3, <3>4, x = xof'
    <3> QED BY <3>2, <3>3, <3>5, x = xof' DEF EvenlyUsed
  <2>6. CASE Len(given) >= 2
    <3>1. PICK q \in Nat : xof.cache_off = q * n
      BY <2>6, <2>1, <2>2
    <3>2. xof.tiny_hits = 1 /\ xof.cache_len = TINY_PREFETCH
      BY <2>2, <2>6, <1>2
    <3>3. TINY_PREFETCH # 0
      BY <2>1, <2>3
    <3>4. /\ EndOf(given) = xof.cached + xof.cache_off /\ xof.read = xof.cached + xof.cache_len
          /\ xof.cache_off <= xof.cache_len
      BY <3>2, <3>3, <1>7, <2>3 DEF CacheFollows
    <3>5. Len(given') >= 2 /\ given'[2].n = n /\ Len(given') # 0 /\ ~ (Len(given') <= 1)
      <4>1. 2 \in 1 .. Len(given)
        BY <2>6, <1>2
      <4> QED BY <2>6, <1>2, <4>1, <2>1
    <3>6. x.tiny_hits = 1 /\ x.cache_len = TINY_PREFETCH
      BY ONLY <2>1, <3>2, <2>3, <1>7, <1>4, Read(n, x, f), n \in Nat DEF Read, XofFields
    <3>7. CASE xof.cache_off + n > xof.cache_len
      <4>1. PICK m \in Nat : TINY_PREFETCH = m * n
        <5>1. given # << >>
          BY <2>6, <1>3, <1>2
        <5> QED BY <5>1, <2>1, <2>3, Divides
      <4>2. xof.cache_off = TINY_PREFETCH
        BY <4>1, <3>1, <3>2, <3>4, <3>7, MultiplesMeet
      <4>3. f = xof.read /\ x.cache_off = n
        BY ONLY <2>1, <3>2, <3>7, <2>3, <1>7, <1>4, Read(n, x, f), n \in Nat DEF Read, XofFields
      <4>4. f = EndOf(given)
        BY <4>2, <4>3, <3>4, <3>2
      <4>5. x.cache_off = 1 * n /\ 1 \in Nat
        BY <4>3
      <4>6. \E p \in Nat : xof'.cache_off = p * given'[2].n
        BY <4>5, <3>5, x = xof'
      <4> QED BY <4>4, <4>6, <3>5, <3>6, x = xof' DEF EvenlyUsed
    <3>8. CASE xof.cache_off + n <= xof.cache_len
      <4>1. f = xof.cached + xof.cache_off /\ x.cache_off = xof.cache_off + n
        BY ONLY <2>1, <3>2, <3>8, <2>3, <1>7, <1>4, Read(n, x, f), n \in Nat DEF Read, XofFields
      <4>2. x.cache_off = (q + 1) * n /\ q + 1 \in Nat
        BY <4>1, <3>1
      <4>3. \E p \in Nat : xof'.cache_off = p * given'[2].n
        BY <4>2, <3>5, x = xof'
      <4> QED BY <4>1, <3>4, <4>3, <3>5, <3>6, x = xof' DEF EvenlyUsed
    <3>9. xof.cache_off + n > xof.cache_len \/ xof.cache_off + n <= xof.cache_len
      BY <1>4, <3>2, <2>3 DEF XofFields
    <3> QED BY <3>7, <3>8, <3>9
  <2>7. Len(given) = 0 \/ Len(given) = 1 \/ Len(given) >= 2
    <3>1. Len(given) \in Nat
      BY <1>2
    <3>2. \A m \in Nat : m = 0 \/ m = 1 \/ m >= 2
      BY ONLY SMT
    <3> QED BY ONLY <3>1, <3>2, Zenon
  <2> QED BY ONLY <2>4, <2>5, <2>6, <2>7
<1> QED BY <1>4, <1>5, <1>6, <1>7

LEMMA SqueezeKeepsStream ==
    ASSUME StreamInv, NEW n \in Nat \ {0}, Squeeze(n)
    PROVE  StreamInv'
<1> DEFINE f == squeeze(xof, n).first
           r == [first |-> f, n |-> n]
<1>1. xof \in XofFields /\ given \in Reads
  BY DEF StreamInv, XofTyped
<1>2. xof' = squeeze(xof, n).xof /\ given' = Append(given, r)
  BY DEF Squeeze
<1>3. Read(n, xof', f) /\ xof'.suite = xof.suite /\ xof' \in XofFields
  BY <1>1, <1>2, ReadCases
<1>4. f \in Nat
  <2>1. xof.read \in Nat /\ xof.cached + xof.cache_off \in Nat
    BY <1>1 DEF XofFields
  <2>2. f = xof.read \/ f = xof.cached + xof.cache_off
    BY ONLY <1>3 DEF Read
  <2> QED BY <2>1, <2>2
<1> HIDE DEF f
<1>5. r \in [first : Nat, n : Nat \ {0}]
  BY <1>4
<1>6. /\ given' \in Reads /\ Len(given) \in Nat /\ Len(given') = Len(given) + 1
      /\ \A k \in 1 .. Len(given) : given'[k] = given[k]
      /\ given'[Len(given) + 1] = r /\ EndOf(given') = f + n /\ EndOf(given) \in Nat
  BY <1>1, <1>2, <1>5, OneMoreRead
<1>7. /\ f >= EndOf(given)
      /\ IF xof'.suite = "SHAKE" \/ xof'.cache_len = 0 THEN xof'.read = f + n /\ xof'.cache_off = 0
         ELSE /\ f + n = xof'.cached + xof'.cache_off /\ xof'.read = xof'.cached + xof'.cache_len
              /\ xof'.cache_off <= xof'.cache_len /\ xof'.tiny_hits = 1
      /\ xof.suite = "SHAKE" => f = EndOf(given)
  BY <1>2, <1>3, <1>4, ReadsGoOn
<1>8. (Even' /\ given # << >> => f = EndOf(given)) /\ EvenlyUsed'
  BY <1>2, <1>3, <1>4, EvenReadsGoOn
<1>9. XofTyped' /\ CacheFollows'
  BY <1>3, <1>6, <1>7 DEF XofTyped, CacheFollows
<1>10. StreamInOrder'
  <2> SUFFICES ASSUME NEW k \in 2 .. Len(given')
               PROVE  LET end == given'[k - 1].first + given'[k - 1].n IN
                      /\ given'[k].first >= end
                      /\ xof'.suite = "SHAKE" \/ (EvenReads' /\ given'[1].n <= TINY_SQUEEZE_MAX)
                           => given'[k].first = end
    BY DEF StreamInOrder
  <2>1. CASE k = Len(given) + 1
    <3>1. given # << >> /\ k - 1 = Len(given) /\ k - 1 \in 1 .. Len(given)
      BY <2>1, <1>6
    <3>2. given'[k - 1].first + given'[k - 1].n = EndOf(given)
      BY <3>1, <1>6 DEF EndOf
    <3>3. given'[k].first = f
      BY <2>1, <1>6
    <3>4. EvenReads' /\ given'[1].n <= TINY_SQUEEZE_MAX => Even'
      BY DEF Even
    <3> QED BY <3>1, <3>2, <3>3, <3>4, <1>7, <1>8, <1>3
  <2>2. CASE k \in 2 .. Len(given)
    <3>1. k \in 1 .. Len(given) /\ k - 1 \in 1 .. Len(given) /\ given # << >>
      BY <2>2, <1>6
    <3>2. given'[k] = given[k] /\ given'[k - 1] = given[k - 1]
      BY <3>1, <1>6
    <3>3. ASSUME EvenReads', given'[1].n <= TINY_SQUEEZE_MAX
          PROVE  EvenReads /\ given[1].n <= TINY_SQUEEZE_MAX
      <4>1. Even'
        BY <3>3 DEF Even
      <4>2. Even
        BY <4>1, <1>1, <1>2, <1>5, EvenBefore
      <4> QED BY <4>2, <3>1 DEF Even
    <3>4. StreamInOrder
      BY DEF StreamInv
    <3> QED BY <2>2, <3>2, <3>3, <3>4, <1>3 DEF StreamInOrder
  <2> QED BY <2>1, <2>2, <1>6
<1> QED BY <1>8, <1>9, <1>10 DEF StreamInv

LEMMA StreamStarts ==
    ASSUME SamplingInit
    PROVE  StreamInv
<1>1. PICK suite \in {"SHAKE", "BLAKE3"} : xof = ensure_reader(suite)
  BY DEF SamplingInit
<1>2. given = << >> /\ Len(given) = 0
  BY DEF SamplingInit
<1>3. XofTyped
  BY <1>1, <1>2, CacheAssumption DEF XofTyped, XofFields, ensure_reader, Reads
<1>4. CacheFollows /\ EvenlyUsed
  BY <1>1, <1>2 DEF CacheFollows, EvenlyUsed, EndOf, ensure_reader
<1>5. StreamInOrder
  BY <1>2 DEF StreamInOrder
<1> QED BY <1>3, <1>4, <1>5 DEF StreamInv

-----------------------------------------------------------------------------
(* The samplers.  What is accepted is in range; and in the ball everything    *)
(* above i is still zero, and below it there is one sign for each step.       *)
InRange(c) == IF sampler.kind = "ntt" THEN c \in 0 .. BaseFieldQ - 1 ELSE c \in -sampler.eta .. sampler.eta

BallInv ==
    /\ sampler.signs[1] \in Signs /\ sampler.i \in POLY_SIZE - BALL_WEIGHT .. POLY_SIZE
    /\ sampler.coeffs \in [1 .. POLY_SIZE -> -1 .. 1]
    /\ \A k \in 1 .. POLY_SIZE : k > sampler.i => sampler.coeffs[k] = 0
    /\ Cardinality(SetCoefficients) = sampler.i - (POLY_SIZE - BALL_WEIGHT)
    /\ sampler.done <=> sampler.i = POLY_SIZE

SamplerFields == [kind : {"ntt", "mask", "ball", "keygen", "bounded"}, eta : {2, 4},
                  coeffs : Seq(Int), signs : {<< >>} \union {<< s >> : s \in Signs}, i : Nat, done : BOOLEAN]

SamplerInv ==
    /\ sampler \in SamplerFields
    /\ sampler.kind \in {"ntt", "bounded"} =>
          /\ \A k \in 1 .. Len(sampler.coeffs) : InRange(sampler.coeffs[k])
          /\ sampler.done => Len(sampler.coeffs) = POLY_SIZE
    /\ sampler.kind = "ball" => IF sampler.signs = << >> THEN ~ sampler.done ELSE BallInv
    /\ sampler.kind = "keygen" => ~ sampler.done

LEMMA InRangeAtTheEnd ==
    ASSUME SamplerInv
    PROVE  SampledInRange
<1> SUFFICES ASSUME sampler.done, sampler.kind # "mask"
             PROVE  /\ Len(sampler.coeffs) = POLY_SIZE
                    /\ \A k \in 1 .. POLY_SIZE :
                          CASE sampler.kind = "ntt"     -> sampler.coeffs[k] \in 0 .. BaseFieldQ - 1
                            [] sampler.kind = "bounded" -> sampler.coeffs[k] \in -sampler.eta .. sampler.eta
                            [] sampler.kind = "ball"    -> sampler.coeffs[k] \in -1 .. 1
                    /\ sampler.kind = "ball" => Cardinality(SetCoefficients) = BALL_WEIGHT
  BY DEF SampledInRange
<1>1. sampler.kind \in {"ntt", "bounded", "ball"}
  BY DEF SamplerInv, SamplerFields
<1>2. CASE sampler.kind = "ntt"
  BY <1>2 DEF SamplerInv, InRange
<1>3. CASE sampler.kind = "bounded"
  BY <1>3 DEF SamplerInv, InRange
<1>4. CASE sampler.kind = "ball"
  <2>1. BallInv
    BY <1>4 DEF SamplerInv
  <2>2. sampler.coeffs \in Seq(Int) /\ POLY_SIZE \in Nat /\ BALL_WEIGHT \in Nat
    BY PolynomialAssumption DEF SamplerInv, SamplerFields
  <2>3. Len(sampler.coeffs) = POLY_SIZE
    <3>1. DOMAIN sampler.coeffs = 1 .. POLY_SIZE
      BY <2>1 DEF BallInv
    <3> QED BY <2>2, <3>1, LenProperties
  <2>4. Cardinality(SetCoefficients) = BALL_WEIGHT
    BY <2>1, <2>2 DEF BallInv
  <2>5. \A k \in 1 .. POLY_SIZE : sampler.coeffs[k] \in -1 .. 1
    BY <2>1 DEF BallInv
  <2> QED BY <1>4, <2>3, <2>4, <2>5
<1> QED BY <1>1, <1>2, <1>3, <1>4

LEMMA FieldIsNat == BaseFieldQ \in Nat
BY SMT DEF BaseFieldQ

LEMMA ThreeBytesInRange ==
    ASSUME NEW b \in Triples, NEW c \in coeff_from_three_bytes(b)
    PROVE  c \in 0 .. BaseFieldQ - 1
<1>1. b[1] \in Nat /\ b[2] \in Nat /\ b[3] \in Nat
  BY BytesAssumption
<1>2. c = (b[3] % 128) * 65536 + b[2] * 256 + b[1] /\ c < BaseFieldQ
  BY DEF coeff_from_three_bytes
<1>3. b[3] % 128 \in Nat
  BY <1>1
<1>4. c \in Nat
  BY <1>1, <1>2, <1>3
<1> QED BY ONLY <1>2, <1>4, FieldIsNat

LEMMA HalfByteInRange ==
    ASSUME NEW b \in HalfBytes, NEW eta \in {2, 4}, NEW c \in coeff_from_half_byte(b, eta)
    PROVE  c \in -eta .. eta
<1>1. b \in Nat
  BY BytesAssumption
<1>2. CASE eta = 2 /\ b < 15
  <2>1. c = 2 - (b % 5)
    BY <1>2 DEF coeff_from_half_byte
  <2> QED BY <2>1, <1>1, <1>2
<1>3. CASE eta = 4 /\ b < 9
  <2>1. c = 4 - b
    BY <1>3 DEF coeff_from_half_byte
  <2> QED BY <2>1, <1>1, <1>3
<1>4. CASE ~ (eta = 2 /\ b < 15) /\ ~ (eta = 4 /\ b < 9)
  <2>1. coeff_from_half_byte(b, eta) = {}
    BY <1>4 DEF coeff_from_half_byte, Dropped
  <2> QED BY <2>1
<1> QED BY <1>2, <1>3, <1>4

LEMMA TakenInRange ==
    ASSUME NEW R \in SUBSET Int, NEW coeffs \in Seq(R), NEW more \in SUBSET R
    PROVE  Taken(coeffs, more) \in Seq(R)
<1>1. CASE more = Dropped \/ Len(coeffs) = POLY_SIZE
  BY <1>1 DEF Taken
<1>2. CASE ~ (more = Dropped \/ Len(coeffs) = POLY_SIZE)
  <2>1. (CHOOSE c \in more : TRUE) \in R
    BY <1>2 DEF Dropped
  <2> QED BY <1>2, <2>1 DEF Taken
<1> QED BY <1>1, <1>2

RangeOf(kind, eta) == IF kind = "ntt" THEN 0 .. BaseFieldQ - 1 ELSE -eta .. eta

LEMMA InRangeIsSeq ==
    ASSUME SamplerInv, sampler.kind \in {"ntt", "bounded"}
    PROVE  sampler.coeffs \in Seq(RangeOf(sampler.kind, sampler.eta))
<1>1. sampler.coeffs \in Seq(Int)
  BY DEF SamplerInv, SamplerFields
<1>2. \A k \in 1 .. Len(sampler.coeffs) : sampler.coeffs[k] \in RangeOf(sampler.kind, sampler.eta)
  BY DEF SamplerInv, InRange, RangeOf
<1> QED BY <1>1, <1>2, ElementOfSeq, SeqDef

LEMMA FilledInRange ==
    ASSUME SamplerInv, sampler.kind \in {"ntt", "bounded"},
           NEW c \in Seq(RangeOf(sampler.kind, sampler.eta)), sampler' = Filled(c)
    PROVE  SamplerInv'
<1>1. sampler \in SamplerFields
  BY DEF SamplerInv
<1>2. BaseFieldQ \in Nat
  BY FieldIsNat
<1>3. RangeOf(sampler.kind, sampler.eta) \subseteq Int
  BY <1>1, <1>2 DEF RangeOf, SamplerFields
<1>4. c \in Seq(Int)
  BY <1>3
<1>5. /\ sampler'.kind = sampler.kind /\ sampler'.eta = sampler.eta
      /\ sampler'.coeffs = c /\ sampler'.done = (Len(c) = POLY_SIZE)
  BY <1>1 DEF Filled, SamplerFields
<1>6. sampler' \in SamplerFields
  BY <1>1, <1>4 DEF Filled, SamplerFields
<1>7. \A k \in 1 .. Len(c) : c[k] \in RangeOf(sampler.kind, sampler.eta)
  OBVIOUS
<1> QED BY <1>5, <1>6, <1>7 DEF SamplerInv, InRange, RangeOf

(* One more coefficient is set, whether the index falls on a set one or not.  *)
ZeroFrom(c, i) ==
    /\ c \in [1 .. POLY_SIZE -> -1 .. 1]
    /\ \A k \in 1 .. POLY_SIZE : k > i => c[k] = 0
WeightOf(c) == Cardinality({k \in DOMAIN c : c[k] # 0})

LEMMA PlaceSetsOne ==
    ASSUME NEW i \in Nat, i < POLY_SIZE, NEW c, ZeroFrom(c, i),
           NEW j \in Nat, j <= i, NEW s \in {1, -1}
    PROVE  LET d == place(c, i, j, s) IN ZeroFrom(d, i + 1) /\ WeightOf(d) = WeightOf(c) + 1
<1> DEFINE d == place(c, i, j, s)
           Set(e) == {k \in DOMAIN e : e[k] # 0}
<1>0. /\ c \in [1 .. POLY_SIZE -> -1 .. 1]
      /\ \A k \in 1 .. POLY_SIZE : k > i => c[k] = 0
  BY DEF ZeroFrom
<1>1. POLY_SIZE \in Nat
  BY PolynomialAssumption
<1>2. i + 1 \in 1 .. POLY_SIZE /\ j + 1 \in 1 .. POLY_SIZE
  BY <1>1
<1>3. c[i + 1] = 0
  BY <1>0, <1>2
<1>4. /\ DOMAIN d = 1 .. POLY_SIZE
      /\ \A k \in 1 .. POLY_SIZE :
            d[k] = IF k = j + 1 THEN s ELSE IF k = i + 1 THEN c[j + 1] ELSE c[k]
  BY <1>0, <1>2 DEF place
<1>5. d \in [1 .. POLY_SIZE -> -1 .. 1]
  <2>1. c[j + 1] \in -1 .. 1 /\ s \in -1 .. 1
    BY <1>0, <1>2
  <2>2. d \in [1 .. POLY_SIZE -> -1 .. 1]
    BY <1>0, <1>2, <2>1 DEF place
  <2> QED BY <2>2
<1> HIDE DEF d
<1>6. \A k \in 1 .. POLY_SIZE : k > i + 1 => d[k] = 0
  BY <1>0, <1>1, <1>2, <1>4
<1>7. IsFiniteSet(Set(c)) /\ Set(c) \subseteq 1 .. POLY_SIZE
  <2>1. IsFiniteSet(1 .. POLY_SIZE)
    BY <1>1, FS_Interval
  <2>2. Set(c) \subseteq 1 .. POLY_SIZE
    BY <1>0
  <2> QED BY <2>1, <2>2, FS_Subset
<1>8. PICK k \in 1 .. POLY_SIZE : k \notin Set(c) /\ Set(d) = Set(c) \union {k}
  <2>1. CASE c[j + 1] = 0
    <3>1. j + 1 \notin Set(c)
      BY <2>1
    <3>2. \A k \in 1 .. POLY_SIZE : d[k] # 0 <=> c[k] # 0 \/ k = j + 1
      BY <1>2, <1>3, <1>4, <2>1
    <3>3. Set(d) = Set(c) \union {j + 1}
      BY <3>2, <1>0, <1>4, <1>2
    <3> QED BY <3>1, <3>3, <1>2
  <2>2. CASE c[j + 1] # 0
    <3>1. i + 1 \notin Set(c)
      BY <1>3
    <3>2. \A k \in 1 .. POLY_SIZE : d[k] # 0 <=> c[k] # 0 \/ k = i + 1
      BY <1>2, <1>3, <1>4, <2>2
    <3>3. Set(d) = Set(c) \union {i + 1}
      BY <3>2, <1>0, <1>4, <1>2
    <3> QED BY <3>1, <3>3, <1>2
  <2> QED BY <2>1, <2>2
<1>9. Cardinality(Set(d)) = Cardinality(Set(c)) + 1
  BY <1>7, <1>8, FS_AddElement
<1> QED BY <1>5, <1>6, <1>9 DEF d, ZeroFrom, WeightOf

LEMMA BallStarts ==
    ASSUME SamplerInv, NEW signs \in Signs, BallSigns(signs)
    PROVE  SamplerInv'
<1> DEFINE zero == [k \in 1 .. POLY_SIZE |-> 0]
<1>1. sampler \in SamplerFields /\ sampler.kind = "ball" /\ sampler.signs = << >> /\ ~ sampler.done
  BY DEF SamplerInv, BallSigns
<1>2. POLY_SIZE \in Nat /\ BALL_WEIGHT \in 1 .. POLY_SIZE /\ POLY_SIZE - BALL_WEIGHT \in Nat
  BY PolynomialAssumption
<1>3. sampler' = [sampler EXCEPT !.signs = << signs >>, !.i = POLY_SIZE - BALL_WEIGHT, !.coeffs = zero]
  BY DEF BallSigns
<1>4. zero \in Seq(Int)
  <2>1. zero \in [1 .. POLY_SIZE -> Int]
    OBVIOUS
  <2> QED BY <2>1, <1>2, SeqDef
<1>5. sampler' \in SamplerFields
  BY <1>1, <1>2, <1>3, <1>4 DEF SamplerFields
<1>6. /\ sampler'.kind = "ball" /\ sampler'.signs = << signs >> /\ sampler'.i = POLY_SIZE - BALL_WEIGHT
      /\ sampler'.coeffs = zero /\ ~ sampler'.done
  BY <1>1, <1>3 DEF SamplerFields
<1>7. SetCoefficients' = {}
  BY <1>6 DEF SetCoefficients
<1>8. Cardinality(SetCoefficients') = 0
  BY <1>7, FS_EmptySet
<1>9. zero \in [1 .. POLY_SIZE -> -1 .. 1] /\ \A k \in 1 .. POLY_SIZE : zero[k] = 0
  OBVIOUS
<1>10. sampler'.signs # << >> /\ sampler'.signs[1] = signs
  BY <1>6
<1> HIDE DEF zero
<1>11. BallInv'
  BY <1>2, <1>6, <1>8, <1>9, <1>10 DEF BallInv
<1> QED BY <1>5, <1>6, <1>10, <1>11 DEF SamplerInv

LEMMA BallGrows ==
    ASSUME SamplerInv, NEW j \in IndexBytes, BallIndex(j)
    PROVE  SamplerInv'
<1>1. /\ sampler \in SamplerFields /\ sampler.kind = "ball" /\ sampler.signs # << >> /\ BallInv
      /\ ~ sampler.done
  BY DEF SamplerInv, BallIndex, Squeeze
<1>2. j \in Nat /\ POLY_SIZE \in Nat /\ BALL_WEIGHT \in 1 .. POLY_SIZE
  BY BytesAssumption, PolynomialAssumption
<1>3. CASE j > sampler.i
  <2>1. sampler' = sampler
    BY <1>3 DEF BallIndex
  <2> QED BY <2>1 DEF SamplerInv, InRange, BallInv, SetCoefficients
<1>4. CASE ~ (j > sampler.i)
  <2> DEFINE s == sampler.signs[1][sampler.i + BALL_WEIGHT - POLY_SIZE]
             d == place(sampler.coeffs, sampler.i, j, s)
  <2>1. sampler' = [sampler EXCEPT !.coeffs = d, !.i = @ + 1, !.done = sampler.i + 1 = POLY_SIZE]
    BY <1>4 DEF BallIndex
  <2>2. sampler.i \in Nat /\ sampler.i < POLY_SIZE /\ sampler.i >= POLY_SIZE - BALL_WEIGHT /\ j <= sampler.i
    BY <1>1, <1>2, <1>4 DEF BallInv, SamplerFields
  <2>3. s \in {1, -1}
    <3>1. sampler.i + BALL_WEIGHT - POLY_SIZE \in 0 .. BALL_WEIGHT - 1
      BY <2>2, <1>2
    <3> QED BY <3>1, <1>1 DEF BallInv, Signs
  <2> HIDE DEF s
  <2>4. ZeroFrom(d, sampler.i + 1) /\ WeightOf(d) = WeightOf(sampler.coeffs) + 1
    <3>1. ZeroFrom(sampler.coeffs, sampler.i)
      BY <1>1 DEF BallInv, ZeroFrom
    <3>2. sampler.i \in Nat /\ sampler.i < POLY_SIZE /\ j \in Nat /\ j <= sampler.i
      BY <1>2, <2>2
    <3> QED BY ONLY <3>1, <3>2, <2>3, PlaceSetsOne
  <2> HIDE DEF d
  <2>5. d \in Seq(Int)
    <3>1. d \in [1 .. POLY_SIZE -> Int]
      BY <2>4 DEF ZeroFrom
    <3> QED BY <3>1, <1>2, SeqDef
  <2>6. sampler' \in SamplerFields
    <3> DEFINE b == (sampler.i + 1 = POLY_SIZE)
               e == [sampler EXCEPT !.coeffs = d]
    <3>1. e \in SamplerFields /\ e.i = sampler.i
      BY ONLY <1>1, <2>5 DEF SamplerFields
    <3>2. b \in BOOLEAN /\ sampler.i + 1 \in Nat
      BY <2>2
    <3>3. sampler' = [e EXCEPT !.i = sampler.i + 1, !.done = b]
      BY <2>1
    <3> HIDE DEF b, e
    <3> QED BY ONLY <3>1, <3>2, <3>3 DEF SamplerFields
  <2>7. /\ sampler'.kind = "ball" /\ sampler'.signs = sampler.signs /\ sampler'.i = sampler.i + 1
        /\ sampler'.coeffs = d /\ sampler'.done = (sampler.i + 1 = POLY_SIZE)
    BY <1>1, <2>1 DEF SamplerFields
  <2>8. Cardinality(SetCoefficients') = Cardinality(SetCoefficients) + 1
    BY <2>4, <2>7 DEF SetCoefficients, WeightOf
  <2>9. BallInv'
    <3>1. sampler'.signs[1] \in Signs /\ sampler'.i \in POLY_SIZE - BALL_WEIGHT .. POLY_SIZE
      BY <1>1, <1>2, <2>2, <2>7 DEF BallInv
    <3>2. Cardinality(SetCoefficients') = sampler'.i - (POLY_SIZE - BALL_WEIGHT)
      BY <1>1, <1>2, <2>2, <2>7, <2>8 DEF BallInv
    <3> QED BY <3>1, <3>2, <2>4, <2>7 DEF BallInv, ZeroFrom
  <2> QED BY <2>6, <2>7, <2>9, <1>1 DEF SamplerInv
<1> QED BY <1>3, <1>4

SamplingInv == StreamInv /\ SamplerInv

LEMMA SamplerStarts ==
    ASSUME SamplingInit
    PROVE  SamplerInv
<1>1. /\ sampler \in SamplerFields /\ sampler.coeffs = << >> /\ sampler.signs = << >> /\ ~ sampler.done
  <2>1. /\ sampler.kind \in {"ntt", "mask", "ball", "keygen", "bounded"} /\ sampler.eta \in {2, 4}
        /\ sampler.coeffs = << >> /\ sampler.signs = << >> /\ sampler.i = 0 /\ sampler.done = FALSE
        /\ sampler = [kind |-> sampler.kind, eta |-> sampler.eta, coeffs |-> << >>, signs |-> << >>,
                       i |-> 0, done |-> FALSE]
    BY DEF SamplingInit
  <2>2. << >> \in Seq(Int) /\ << >> \in {<< >>} \union {<< s >> : s \in Signs} /\ 0 \in Nat /\ FALSE \in BOOLEAN
    OBVIOUS
  <2> QED BY ONLY <2>1, <2>2 DEF SamplerFields
<1> QED BY <1>1 DEF SamplerInv

LEMMA UnmovedSampler ==
    ASSUME SamplerInv, UNCHANGED sampler
    PROVE  SamplerInv'
BY DEF SamplerInv, InRange, BallInv, SetCoefficients

LEMMA SamplingStep ==
    ASSUME SamplingInv, [SamplingNext]_sampling_vars
    PROVE  SamplingInv'
<1> USE DEF SamplingInv
<1>0. sampler \in SamplerFields
  BY DEF SamplerInv
<1>1. ASSUME NEW b \in Triples, rej_ntt_poly(b) PROVE SamplingInv'
  <2>1. sampler.kind = "ntt" /\ Squeeze(3) /\ 3 \in Nat \ {0}
    BY <1>1 DEF rej_ntt_poly
  <2>2. StreamInv'
    BY <2>1, SqueezeKeepsStream
  <2> DEFINE R == RangeOf(sampler.kind, sampler.eta)
             more == coeff_from_three_bytes(b)
  <2>3. more \in SUBSET R /\ R \in SUBSET Int
    <3>1. R = 0 .. BaseFieldQ - 1
      BY <2>1 DEF RangeOf
    <3>2. more \subseteq R
      BY <3>1, ThreeBytesInRange
    <3>3. R \subseteq Int
      BY ONLY <3>1, FieldIsNat
    <3> QED BY <3>2, <3>3
  <2>4. sampler.coeffs \in Seq(R)
    BY <2>1, InRangeIsSeq
  <2>5. sampler' = Filled(Taken(sampler.coeffs, more))
    BY <1>1 DEF rej_ntt_poly
  <2> HIDE DEF more
  <2>6. Taken(sampler.coeffs, more) \in Seq(R)
    BY <2>3, <2>4, TakenInRange
  <2>7. SamplerInv'
    BY <2>1, <2>5, <2>6, FilledInRange
  <2> QED BY <2>2, <2>7
<1>2. ASSUME NEW low \in HalfBytes, NEW high \in HalfBytes, rej_bounded_poly(low, high) PROVE SamplingInv'
  <2>1. sampler.kind = "bounded" /\ Squeeze(1) /\ 1 \in Nat \ {0} /\ sampler.eta \in {2, 4}
    BY <1>0, <1>2 DEF rej_bounded_poly, SamplerFields
  <2>2. StreamInv'
    BY <2>1, SqueezeKeepsStream
  <2> DEFINE R == RangeOf(sampler.kind, sampler.eta)
             more == coeff_from_half_byte(low, sampler.eta)
             last == coeff_from_half_byte(high, sampler.eta)
  <2>3. more \in SUBSET R /\ last \in SUBSET R /\ R \in SUBSET Int
    BY <2>1, HalfByteInRange DEF RangeOf
  <2>4. sampler.coeffs \in Seq(R)
    BY <2>1, InRangeIsSeq
  <2>5. sampler' = Filled(Taken(Taken(sampler.coeffs, more), last))
    BY <1>2 DEF rej_bounded_poly
  <2> HIDE DEF more, last
  <2>6. Taken(Taken(sampler.coeffs, more), last) \in Seq(R)
    BY <2>3, <2>4, TakenInRange
  <2>7. SamplerInv'
    BY <2>1, <2>5, <2>6, FilledInRange
  <2> QED BY <2>2, <2>7
<1>3. ASSUME expand_mask PROVE SamplingInv'
  <2>1. sampler.kind = "mask" /\ Squeeze(MASK_BYTES) /\ sampler' = [sampler EXCEPT !.done = TRUE]
    BY <1>3 DEF expand_mask
  <2>2. StreamInv'
    BY <2>1, SqueezeKeepsStream, PolynomialAssumption
  <2>3. sampler' \in SamplerFields /\ sampler'.kind = "mask"
    BY <1>0, <2>1 DEF SamplerFields
  <2>4. SamplerInv'
    BY <2>3 DEF SamplerInv
  <2> QED BY <2>2, <2>4
<1>4. ASSUME NEW signs \in Signs, BallSigns(signs) PROVE SamplingInv'
  <2>1. StreamInv'
    <3>1. Squeeze(SIGN_BYTES)
      BY <1>4 DEF BallSigns
    <3> QED BY <3>1, SqueezeKeepsStream, PolynomialAssumption
  <2> QED BY <1>4, <2>1, BallStarts
<1>5. ASSUME NEW j \in IndexBytes, BallIndex(j) PROVE SamplingInv'
  <2>1. StreamInv'
    <3>1. Squeeze(1) /\ 1 \in Nat \ {0}
      BY <1>5 DEF BallIndex
    <3> QED BY <3>1, SqueezeKeepsStream
  <2> QED BY <1>5, <2>1, BallGrows
<1>6. ASSUME NEW n \in 1 .. MASK_BYTES, KeygenRead(n) PROVE SamplingInv'
  <2>1. Squeeze(n) /\ UNCHANGED sampler /\ n \in Nat \ {0}
    BY <1>6, PolynomialAssumption DEF KeygenRead
  <2> QED BY <2>1, SqueezeKeepsStream, UnmovedSampler
<1>7. CASE UNCHANGED sampling_vars
  <2>1. xof' = xof /\ given' = given /\ sampler' = sampler
    BY <1>7 DEF sampling_vars
  <2>2. StreamInv'
    BY <2>1 DEF StreamInv, XofTyped, CacheFollows, EvenlyUsed, Even, EvenReads, StreamInOrder
  <2> QED BY <2>1, <2>2, UnmovedSampler
<1> QED BY <1>1, <1>2, <1>3, <1>4, <1>5, <1>6, <1>7 DEF SamplingNext

(* Whatever bytes the streams yield and however many are read, a sampler      *)
(* reads them in order, each at most once, and ends with a polynomial of its  *)
(* kind; and a reader of one short size that divides the cache skips none.    *)
THEOREM SamplesAreGood == SamplingSpec => []SampledFromOneStream
<1>1. SamplingInit => SamplingInv
  BY StreamStarts, SamplerStarts DEF SamplingInv
<1>2. SamplingInv /\ [SamplingNext]_sampling_vars => SamplingInv'
  BY SamplingStep
<1>3. SamplingInv => SampledFromOneStream
  BY InRangeAtTheEnd DEF SamplingInv, StreamInv, SampledFromOneStream
<1> QED BY <1>1, <1>2, <1>3, PTL DEF SamplingSpec
=============================================================================
