---------------------------- MODULE LockedMemory ----------------------------
(***************************************************************************)
(* The opt-in page locking of trelis-primitives (memlock.rs): LockedBox,   *)
(* LockedVec and GuardedBox over the page tables of one process.  A box is *)
(* built, used and dropped by the thread that owns it, one system call or  *)
(* one run of memory writes per step, so the boxes of several threads      *)
(* interleave.  The allocator packs LockedBox and LockedVec into any free  *)
(* cells, as alloc does; GuardedBox takes whole pages, as posix_memalign   *)
(* does.  mlock and munlock work on whole pages and do not nest; mlock     *)
(* fails above the locking limit and mprotect may fail at any call.        *)
(* Addresses are cells, page_size of them to a page.                       *)
(***************************************************************************)
EXTENDS Integers, FiniteSets

CONSTANTS
    Boxes,          \* the variables that hold a box
    Kinds,          \* the constructors they use
    NumPages,       \* pages of heap
    page_size,      \* cells in a page
    MaxSize,        \* BOUND: the largest value, in cells
    LOCK_LIMIT,     \* RLIMIT_MEMLOCK, in pages
    MaxLost         \* BOUND: pages that a failed mprotect leaves unwritable

ASSUME KindsAssumption ==
    Kinds \subseteq {"LockedBox", "LockedVec", "GuardedBox"}
ASSUME MemoryAssumption ==
    /\ NumPages \in Nat \ {0} /\ page_size \in Nat \ {0} /\ MaxSize \in Nat \ {0}
    /\ LOCK_LIMIT \in Nat /\ MaxLost \in Nat

VARIABLES
    box,            \* [Boxes -> Box \cup {NoBox}]: the live allocations
    prot,           \* [Pages -> protection of the page]
    locked_pages,   \* the pages the kernel keeps in RAM
    secret,         \* the cells that hold secret bytes
    unrestored,     \* pages whose return to read-write failed, a history
    crashed         \* a thread wrote to a page it may not write

box_vars == <<box, prot, locked_pages, secret, unrestored, crashed>>

Cells == 0 .. NumPages * page_size - 1
Pages == 0 .. NumPages - 1
PagesOf(cells) == {c \div page_size : c \in cells}

(* A box: its allocation starts at cell at and has size cells; the value   *)
(* in it has len cells; step is where its owner stands in the constructor  *)
(* or in drop.                                                             *)
Steps == {"fore", "aft", "write", "lock", "live", "unlock", "free"}
Box == [kind : Kinds, step : Steps, at : Cells, size : 1 .. NumPages * page_size,
        len : 0 .. MaxSize, lock : BOOLEAN, locked : BOOLEAN, readonly : BOOLEAN]
NoBox == [step |-> "none"]
Exists(b) == box[b] # NoBox
At(b, step) == ~crashed /\ box[b].step = step

Allocation(b) == box[b].at .. box[b].at + box[b].size - 1
Data(b) ==
    IF box[b].kind = "GuardedBox"
    THEN box[b].at + page_size .. box[b].at + box[b].size - page_size - 1
    ELSE Allocation(b)
Value(b) ==
    LET data == IF box[b].kind = "GuardedBox" THEN box[b].at + page_size ELSE box[b].at
    IN  data .. data + box[b].len - 1
Guards(b) == PagesOf(Allocation(b)) \ PagesOf(Data(b))
ForeGuard(b) == box[b].at \div page_size
FreeCells == Cells \ UNION {Allocation(b) : b \in {x \in Boxes : Exists(x)}}

(* Rounds up to whole pages; page_size is a power of two in the code.      *)
page_round(size) == ((size + page_size - 1) \div page_size) * page_size

(* Where alloc and posix_memalign may put size cells.                      *)
alloc(size) == {at \in FreeCells : at .. at + size - 1 \subseteq FreeCells}
page_aligned_alloc(size) == {at \in alloc(page_round(size)) : at % page_size = 0}

Becomes(b, new) == box' = [box EXCEPT ![b] = new]
GoesTo(b, step) == box' = [box EXCEPT ![b].step = step]

(* A write needs every page under it writable, or the process is killed.   *)
Writable(cells) == \A p \in PagesOf(cells) : prot[p] = "rw"

(* mprotect: any call may fail and then changes nothing.  Every caller     *)
(* ignores a failure to return to read-write.                              *)
protect(pages, to) == prot' = [p \in Pages |-> IF p \in pages THEN to ELSE prot[p]]
protect_readwrite(pages) ==
    \E done \in SUBSET pages :
        /\ protect(done, "rw")
        /\ unrestored' = (unrestored \ done) \cup (pages \ done)
        /\ Cardinality(unrestored') <= MaxLost

WithinLimit(cells) == Cardinality(locked_pages \cup PagesOf(cells)) <= LOCK_LIMIT
lock_memory_mutant(cells) ==
    locked_pages' = IF WithinLimit(cells) THEN locked_pages \cup PagesOf(cells) ELSE locked_pages
lock_memory(cells) ==
    /\ WithinLimit(cells)
    /\ locked_pages' = locked_pages \cup PagesOf(cells)
unlock_memory_beyond(cells) == locked_pages' = locked_pages \ PagesOf(cells \cup {c + 1 : c \in cells})
unlock_memory(cells) == locked_pages' = locked_pages \ PagesOf(cells)

BoxInit ==
    /\ box = [b \in Boxes |-> NoBox]
    /\ prot = [p \in Pages |-> "rw"]
    /\ locked_pages = {}
    /\ secret = {}
    /\ unrestored = {}
    /\ crashed = FALSE
-----------------------------------------------------------------------------
(* LockedBox::new and new_unlocked up to the call of mlock: allocate and   *)
(* move the value in.                                                      *)
NewLockedBox(b) ==
    /\ ~crashed /\ ~Exists(b) /\ "LockedBox" \in Kinds
    /\ \E size \in 1 .. MaxSize, lock \in BOOLEAN : \E at \in alloc(size) :
        LET cells == at .. at + size - 1 IN
        /\ Becomes(b, [kind |-> "LockedBox", step |-> IF lock THEN "lock" ELSE "live",
                       at |-> at, size |-> size, len |-> size, lock |-> lock,
                       locked |-> FALSE, readonly |-> FALSE])
        /\ crashed' = ~Writable(cells)
        /\ secret' = IF Writable(cells) THEN secret \cup cells ELSE secret
    /\ UNCHANGED <<prot, locked_pages, unrestored>>

(* LockedVec::with_capacity up to the call of mlock: nothing is written.   *)
NewLockedVec(b) ==
    /\ ~crashed /\ ~Exists(b) /\ "LockedVec" \in Kinds
    /\ \E capacity \in 1 .. MaxSize : \E at \in alloc(capacity) :
        Becomes(b, [kind |-> "LockedVec", step |-> "lock", at |-> at, size |-> capacity,
                    len |-> 0, lock |-> TRUE, locked |-> FALSE, readonly |-> FALSE])
    /\ UNCHANGED <<prot, locked_pages, secret, unrestored, crashed>>

(* GuardedBox::new and new_unlocked: a page-aligned allocation of the data *)
(* pages between two guard pages.                                          *)
NewGuardedBox(b) ==
    /\ ~crashed /\ ~Exists(b) /\ "GuardedBox" \in Kinds
    /\ \E len \in 1 .. MaxSize, lock \in BOOLEAN :
        LET alloc_size == page_size + page_round(len) + page_size IN
        \E at \in page_aligned_alloc(alloc_size) :
            Becomes(b, [kind |-> "GuardedBox", step |-> "fore", at |-> at,
                        size |-> alloc_size, len |-> len, lock |-> lock,
                        locked |-> FALSE, readonly |-> FALSE])
    /\ UNCHANGED <<prot, locked_pages, secret, unrestored, crashed>>

(* The fore guard page; on failure the allocation is freed.                *)
ProtectForeGuard(b) ==
    /\ At(b, "fore")
    /\ \/ protect({ForeGuard(b)}, "none") /\ GoesTo(b, "aft")
       \/ UNCHANGED prot /\ Becomes(b, NoBox)
    /\ UNCHANGED <<locked_pages, secret, unrestored, crashed>>

(* The aft guard page; on failure the fore guard is given back first.      *)
AftGuardFails_mutant(b) == Becomes(b, NoBox) /\ UNCHANGED <<prot, unrestored>>
AftGuardFails(b) == Becomes(b, NoBox) /\ protect_readwrite({ForeGuard(b)})

ProtectAftGuard(b) ==
    /\ At(b, "aft")
    /\ \/ protect(Guards(b), "none") /\ GoesTo(b, "write") /\ UNCHANGED unrestored
       \/ AftGuardFails(b)
    /\ UNCHANGED <<locked_pages, secret, crashed>>

WriteValue(b) ==
    /\ At(b, "write")
    /\ crashed' = ~Writable(Value(b))
    /\ secret' = IF Writable(Value(b)) THEN secret \cup Value(b) ELSE secret
    /\ GoesTo(b, IF box[b].lock THEN "lock" ELSE "live")
    /\ UNCHANGED <<prot, locked_pages, unrestored>>

(* The last call of the three constructors.  A failure wipes the value (a  *)
(* LockedVec holds none yet), gives the guards back and frees.             *)
LockSucceeds(b) ==
    /\ lock_memory(Data(b))
    /\ box' = [box EXCEPT ![b].step = "live", ![b].locked = TRUE]
    /\ UNCHANGED <<prot, secret, unrestored, crashed>>
Overwritten(b) == IF box[b].kind = "LockedVec" THEN Allocation(b) ELSE Value(b)
LockFails(b) ==
    /\ ~WithinLimit(Data(b))
    /\ secret' = secret \ Overwritten(b)
    /\ protect_readwrite(Guards(b))
    /\ Becomes(b, NoBox)
    /\ UNCHANGED <<locked_pages, crashed>>
Lock(b) == At(b, "lock") /\ (LockSucceeds(b) \/ LockFails(b))
-----------------------------------------------------------------------------
Room(b) == 1 .. box[b].size - box[b].len

(* LockedVec::extend_from_slice, which panics beyond the capacity.         *)
extend_from_slice(b) ==
    /\ At(b, "live") /\ box[b].kind = "LockedVec"
    /\ \E count \in Room(b) :
        LET cells == box[b].at + box[b].len .. box[b].at + box[b].len + count - 1 IN
        /\ box' = [box EXCEPT ![b].len = @ + count]
        /\ crashed' = ~Writable(cells)
        /\ secret' = IF Writable(cells) THEN secret \cup cells ELSE secret
    /\ UNCHANGED <<prot, locked_pages, unrestored>>

(* GuardedBox::protect_readonly and protect_readwrite; a call that fails   *)
(* changes nothing.                                                        *)
ProtectReadonly(b) ==
    /\ At(b, "live") /\ box[b].kind = "GuardedBox" /\ ~box[b].readonly
    /\ protect(PagesOf(Data(b)), "ro")
    /\ box' = [box EXCEPT ![b].readonly = TRUE]
    /\ UNCHANGED <<locked_pages, secret, unrestored, crashed>>
ProtectReadwrite(b) ==
    /\ At(b, "live") /\ box[b].kind = "GuardedBox" /\ box[b].readonly
    /\ protect(PagesOf(Data(b)), "rw")
    /\ box' = [box EXCEPT ![b].readonly = FALSE]
    /\ UNCHANGED <<locked_pages, secret, unrestored, crashed>>

(* The data pages are writable again if they were read-only, as far as     *)
(* mprotect obliges; then the value is overwritten.                        *)
ToRestore(b) == IF box[b].readonly THEN PagesOf(Data(b)) ELSE {}
Wipe(b) ==
    /\ protect_readwrite(ToRestore(b))
    /\ crashed' = \E p \in PagesOf(Overwritten(b)) : prot'[p] # "rw"
    /\ secret' = IF crashed' THEN secret ELSE secret \ Overwritten(b)

(* Zeroize::zeroize of LockedVec and GuardedBox (and of the value inside a *)
(* LockedBox).                                                             *)
Zeroize(b) ==
    /\ At(b, "live")
    /\ Wipe(b)
    /\ box' = [box EXCEPT ![b].readonly = FALSE,
                          ![b].len = IF box[b].kind = "LockedVec" THEN 0 ELSE @]
    /\ UNCHANGED locked_pages

(* Drop: overwrite, then munlock, then give the guards back and free.      *)
DropZeroize(b) ==
    /\ At(b, "live")
    /\ Wipe(b)
    /\ GoesTo(b, IF box[b].locked THEN "unlock" ELSE "free")
    /\ UNCHANGED locked_pages
DropUnlock(b) ==
    /\ At(b, "unlock")
    /\ unlock_memory(Data(b))
    /\ GoesTo(b, "free")
    /\ UNCHANGED <<prot, secret, unrestored, crashed>>
DropFree(b) ==
    /\ At(b, "free")
    /\ protect_readwrite(Guards(b))
    /\ Becomes(b, NoBox)
    /\ UNCHANGED <<locked_pages, secret, crashed>>

BoxNext == \E b \in Boxes :
    \/ NewLockedBox(b) \/ NewLockedVec(b) \/ NewGuardedBox(b)
    \/ ProtectForeGuard(b) \/ ProtectAftGuard(b) \/ WriteValue(b) \/ Lock(b)
    \/ extend_from_slice(b) \/ ProtectReadonly(b) \/ ProtectReadwrite(b)
    \/ Zeroize(b) \/ DropZeroize(b) \/ DropUnlock(b) \/ DropFree(b)

BoxSpec == BoxInit /\ [][BoxNext]_box_vars
-----------------------------------------------------------------------------
(* The variables have their types; a LockedVec never holds more than it    *)
(* was allocated for (extend_from_slice checks the capacity).              *)
TypeOK ==
    /\ box \in [Boxes -> Box \cup {NoBox}]
    /\ prot \in [Pages -> {"rw", "ro", "none"}]
    /\ locked_pages \subseteq Pages /\ unrestored \subseteq Pages
    /\ secret \subseteq Cells
    /\ crashed \in BOOLEAN
    /\ \A b \in Boxes : Exists(b) => box[b].len <= box[b].size

(* No secret outlives its box: every way out of a constructor and of drop  *)
(* overwrites the value before the memory goes back to the allocator.      *)
FreedMemoryIsClean == secret \cap FreeCells = {}

(* A GuardedBox that says it is locked is: its data pages are its own, so  *)
(* no other box's munlock reaches them.                                    *)
Flagged(b) == Exists(b) /\ box[b].step \in {"live", "unlock"} /\ box[b].locked
GuardedStaysLocked ==
    \A b \in Boxes : Flagged(b) /\ box[b].kind = "GuardedBox" =>
        PagesOf(Data(b)) \subseteq locked_pages

(* A box that is not dropping loses the lock of a page only to the drop of *)
(* a LockedBox or LockedVec that shares that page: munlock is not counted. *)
LocksAreLostToNeighbours ==
    [][\A b \in Boxes : Flagged(b) /\ box'[b] = box[b] =>
        \A p \in (PagesOf(Data(b)) \cap locked_pages) \ locked_pages' :
            \E c \in Boxes \ {b} : /\ Flagged(c) /\ box[c].step = "unlock"
                                  /\ p \in PagesOf(Data(c))
                                  /\ box[b].kind # "GuardedBox"]_box_vars

(* Every locked page is under a box that will unlock it: failed            *)
(* constructors and drops leave nothing counted against the limit.         *)
NoLockLeaks ==
    \A p \in locked_pages : \E b \in Boxes : Flagged(b) /\ p \in PagesOf(Data(b))

(* A page that cannot be written is a guard or the read-only data of a box *)
(* in use, or the kernel refused to restore it: no failing constructor     *)
(* hands a protected page back to the allocator.                           *)
NoPageIsLost ==
    \A p \in Pages : prot[p] # "rw" =>
        \/ p \in unrestored
        \/ \E b \in Boxes : Exists(b) /\ box[b].kind = "GuardedBox" /\ p \in PagesOf(Allocation(b))

(* The only way the module itself faults is on a page whose return to      *)
(* read-write failed, a failure drop, zeroize and the constructors ignore. *)
FaultsNeedALostRestore == crashed => unrestored # {}

(* Nothing is left behind by constructors that fail, drops and failing      *)
(* calls: no secret, no lock, no page, and no fault that a kept page would  *)
(* have avoided.                                                            *)
NothingLeftBehind ==
    /\ TypeOK /\ FreedMemoryIsClean
    /\ NoLockLeaks /\ NoPageIsLost /\ FaultsNeedALostRestore

(* What the documentation of is_locked says: the memory is currently       *)
(* locked.                                                                 *)
FlaggedIsLocked ==
    \A b \in Boxes : Flagged(b) /\ box[b].step = "live" => PagesOf(Data(b)) \subseteq locked_pages
=============================================================================
