------------------------------ MODULE PagePool ------------------------------
(***************************************************************************)
(* The physical page manager of the DPMI virtual memory manager            *)
(* (386MAX/QMAX_PPM.ASM).  The manager borrows 4 KB frames from the        *)
(* primary XMS/EMS allocator, keeps one physical page record per frame,    *)
(* and gives frames to the VMM.  Its state is one record, ppm:             *)
(*                                                                         *)
(*   managed    frames borrowed from the primary allocator ($managed)      *)
(*   alloced    frames handed out to the VMM ($alloced)                    *)
(*   swappable  frames whose page may be swapped out ($swappable)          *)
(*   marked     frames preferred for swapping ($marked)                    *)
(*   locks      lock count of each frame (PPlocks)                         *)
(*   addr       page held by each frame, with its owner (PPaddr)           *)
(*   nLocked    PhysicalLocked                                             *)
(*   nSwappable PhysicalSwappable                                          *)
(*   needFill   NeedToFillPool                                             *)
(*                                                                         *)
(* PhysicalManaged and PhysicalInUse move together with the flags they     *)
(* count and are read off the sets.  The free list is the set of managed   *)
(* frames that are not allocated: which of them is at its head does not    *)
(* matter to any property.                                                 *)
(***************************************************************************)
EXTENDS Integers, FiniteSets

CONSTANTS
    Frames,     \* physical pages that the VMM and the primary manager share
    MinLow,     \* @PhysMinMin, the least working set (6 in the code)
    MinHigh,    \* @PhysMinMax, the largest one it insists on (16 in the code)
    MaxLocks,   \* value at which the byte-wide lock count sticks (255)
    NoPage      \* PPaddr of a frame that holds no swappable page

ASSUME PoolAssumption ==
    /\ IsFiniteSet(Frames)
    /\ MinLow \in Nat /\ MinHigh \in Nat
    /\ MaxLocks \in Nat \ {0}

PhysicalManaged(ppm) == Cardinality(ppm.managed)

Free(ppm) == ppm.managed \ ppm.alloced

PhysicalFree(ppm) == Cardinality(Free(ppm))

\* PhysicalFreeListHead.
FreeHead(ppm) == CHOOSE f \in Free(ppm) : TRUE

\* Half of what is managed, but no more than MinHigh and no less than MinLow.
\* The code stores it after every change of PhysicalManaged.
PhysicalMinUnlocked(ppm) ==
    LET half == PhysicalManaged(ppm) \div 2
        want == IF half < MinHigh THEN half ELSE MinHigh
    IN  IF want >= MinLow THEN want ELSE MinLow

PPM_INIT ==
    [managed |-> {}, alloced |-> {}, swappable |-> {}, marked |-> {},
     locks |-> [f \in Frames |-> 0], addr |-> [f \in Frames |-> NoPage],
     nLocked |-> 0, nSwappable |-> 0, needFill |-> TRUE]

\* Borrow every frame the primary manager can spare.
PPM_FILL_POOL(ppm, avail) ==
    IF avail = {} THEN ppm
    ELSE [ppm EXCEPT !.managed = @ \cup avail, !.needFill = FALSE]

\* Counting the free frames tops the pool up if it has been drained.
PPM_QUERY(ppm, avail) ==
    IF ppm.needFill THEN PPM_FILL_POOL(ppm, avail) ELSE ppm

PPM_QUERY_SWAPPABLE(ppm, bsFree) ==
    IF bsFree < ppm.nSwappable THEN bsFree ELSE ppm.nSwappable

\* Mutant of PPM_ALLOC: the lock count of the frame's last page stays.
PPM_ALLOC_KeepsLocks(ppm, f, page, canSwap) ==
    [ppm EXCEPT
        !.alloced = @ \cup {f},
        !.addr[f] = page,
        !.swappable = IF canSwap THEN @ \cup {f} ELSE @,
        !.nSwappable = IF canSwap THEN @ + 1 ELSE @]

PPM_ALLOC(ppm, f, page, canSwap) ==
    [ppm EXCEPT
        !.alloced = @ \cup {f},
        !.addr[f] = page,
        !.locks[f] = 0,
        !.swappable = IF canSwap THEN @ \cup {f} ELSE @,
        !.nSwappable = IF canSwap THEN @ + 1 ELSE @]

\* Mutants of PPM_FREE: $marked stays set; PhysicalSwappable is not adjusted.
PPM_FREE_KeepsMark(ppm, F) ==
    [ppm EXCEPT
        !.alloced = @ \ F,
        !.swappable = @ \ F,
        !.addr = [f \in Frames |-> IF f \in F THEN NoPage ELSE ppm.addr[f]],
        !.nLocked = @ - Cardinality({f \in F : ppm.locks[f] # 0}),
        !.nSwappable = @ - Cardinality(F \cap ppm.swappable)]
PPM_FREE_KeepsCount(ppm, F) ==
    [ppm EXCEPT
        !.alloced = @ \ F,
        !.swappable = @ \ F,
        !.marked = @ \ F,
        !.addr = [f \in Frames |-> IF f \in F THEN NoPage ELSE ppm.addr[f]],
        !.nLocked = @ - Cardinality({f \in F : ppm.locks[f] # 0})]

\* Frees every frame of F.  PPaddr becomes the link of the free list.  The
\* lock counts stay in the records until the frames are allocated again.
PPM_FREE(ppm, F) ==
    [ppm EXCEPT
        !.alloced = @ \ F,
        !.swappable = @ \ F,
        !.marked = @ \ F,
        !.addr = [f \in Frames |-> IF f \in F THEN NoPage ELSE ppm.addr[f]],
        !.nLocked = @ - Cardinality({f \in F : ppm.locks[f] # 0}),
        !.nSwappable = @ - Cardinality(F \cap ppm.swappable)]

\* Mutant of PPM_LOCK: $swappable is not cleared.
PPM_LOCK_KeepsSwappable(ppm, f) ==
    IF ppm.locks[f] = MaxLocks THEN ppm
    ELSE [ppm EXCEPT
            !.locks[f] = @ + 1,
            !.nLocked = IF ppm.locks[f] = 0 THEN @ + 1 ELSE @,
            !.nSwappable = IF f \in ppm.swappable THEN @ - 1 ELSE @]

PPM_LOCK(ppm, f) ==
    IF ppm.locks[f] = MaxLocks THEN ppm
    ELSE [ppm EXCEPT
            !.locks[f] = @ + 1,
            !.nLocked = IF ppm.locks[f] = 0 THEN @ + 1 ELSE @,
            !.nSwappable = IF f \in ppm.swappable THEN @ - 1 ELSE @,
            !.swappable = @ \ {f}]

\* Frames of F whose last lock goes away when each of them is unlocked once.
LastLock(ppm, F) == {f \in F : ppm.locks[f] = 1}

\* Unlocks every frame of F once.
PPM_UNLOCK(ppm, F) ==
    [ppm EXCEPT
        !.locks = [f \in Frames |-> IF f \in F /\ ppm.locks[f] # 0
                                    THEN ppm.locks[f] - 1 ELSE ppm.locks[f]],
        !.nLocked = @ - Cardinality(LastLock(ppm, F)),
        !.nSwappable = @ + Cardinality(LastLock(ppm, F)),
        !.swappable = @ \cup LastLock(ppm, F)]

\* VMM_MARK_CANDIDATES sets $marked in the records of F.
PPM_MARK(ppm, F) == [ppm EXCEPT !.marked = @ \cup F]

\* Where VMM_SWAP_OUT looks for its victim: a marked frame if there is one.
\* Among unmarked frames it takes the oldest; ages are left out, so any may be.
Victims(ppm) ==
    IF ppm.swappable \cap ppm.marked # {} THEN ppm.swappable \cap ppm.marked
    ELSE ppm.swappable

\* PPM_DRAIN_POOL gives free frames back to the primary manager.
PPM_RELEASE(ppm, F) ==
    [ppm EXCEPT !.managed = @ \ F, !.needFill = TRUE]

-----------------------------------------------------------------------------
PpmType(ppm, Pages) ==
    /\ ppm \in [managed : SUBSET Frames, alloced : SUBSET Frames,
               swappable : SUBSET Frames, marked : SUBSET Frames,
               locks : [Frames -> 0..MaxLocks],
               addr : [Frames -> Pages \cup {NoPage}],
               nLocked : Int, nSwappable : Int, needFill : BOOLEAN]
    /\ ppm.alloced \subseteq ppm.managed
    /\ ppm.swappable \subseteq ppm.alloced
    /\ ppm.marked \subseteq ppm.alloced
=============================================================================
