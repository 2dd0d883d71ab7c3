--------------------------- MODULE Counters_proofs ---------------------------
(***************************************************************************)
(* The proof that the counters of the virtual memory manager count what    *)
(* they say, for any number of frames, clients, pages and slots:           *)
(* PhysicalSwappable the frames that can be swapped out, PhysicalLocked    *)
(* the frames that are locked, VirtualReserved the pages that are promised *)
(* and not touched (CountersExact).  The code never counts again, it adds  *)
(* and subtracts; and it rests on the counters what VMM_LOCK, VMM_ALLOC    *)
(* and a drain may do.                                                     *)
(*                                                                         *)
(* A call subtracts what it finds in the records of frames and the entries *)
(* of pages.  So each must be found once, and only where it was counted:   *)
(* this is what Inv says.                                                  *)
(***************************************************************************)
EXTENDS DpmiVmm_proofs

LockedFrames(pm) == {f \in pm.alloced : pm.locks[f] > 0}

\* The two counters of the pool.
PoolCounts(pm) ==
    /\ pm.nSwappable = Cardinality(pm.swappable)
    /\ pm.nLocked = Cardinality(LockedFrames(pm))

\* The counter of the reserved pages.
ReservedPages == {p \in Pages : IsReserved(p)}
ReservedCounted == reserved = Cardinality(ReservedPages)

Counted == PoolCounts(ppm) /\ ReservedCounted

CountInv == Inv /\ Counted

-----------------------------------------------------------------------------
(* What the operations of the pool do to its counters. *)

\* A record in which nothing that is counted has changed.
LEMMA SameCounts ==
  ASSUME NEW pm, PoolCounts(pm), NEW q,
         q.alloced = pm.alloced, q.swappable = pm.swappable, q.locks = pm.locks,
         q.nLocked = pm.nLocked, q.nSwappable = pm.nSwappable
  PROVE  PoolCounts(q)
BY DEF PoolCounts, LockedFrames

\* What is counted can be counted.
LEMMA CountedFrames ==
  ASSUME NEW pm, PpmType(pm, Pages)
  PROVE  /\ pm.swappable \subseteq Frames /\ IsFiniteSet(pm.swappable)
         /\ LockedFrames(pm) \subseteq Frames /\ IsFiniteSet(LockedFrames(pm))
         /\ Cardinality(pm.swappable) \in Nat
         /\ Cardinality(LockedFrames(pm)) \in Nat
<1>1. pm.swappable \subseteq Frames /\ LockedFrames(pm) \subseteq Frames
  BY DEF PpmType, LockedFrames
<1> QED
  BY <1>1, FrameCount

\* Filling or draining the pool, or marking frames, counts for nothing.
LEMMA UncountedOps ==
  ASSUME NEW pm, PpmType(pm, Pages), PoolCounts(pm), NEW F, NEW q,
         \/ q = PPM_FILL_POOL(pm, F) \/ q = PPM_QUERY(pm, F)
         \/ q = PPM_RELEASE(pm, F) \/ q = PPM_MARK(pm, F)
  PROVE  PoolCounts(q)
<1>1. /\ q.alloced = pm.alloced /\ q.swappable = pm.swappable
      /\ q.locks = pm.locks
      /\ q.nLocked = pm.nLocked /\ q.nSwappable = pm.nSwappable
  BY DEF PpmType, PPM_FILL_POOL, PPM_QUERY, PPM_RELEASE, PPM_MARK
<1> QED
  BY <1>1, SameCounts

\* An empty pool has nothing to count.
LEMMA InitCounts == PoolCounts(PPM_INIT)
<1>1. LockedFrames(PPM_INIT) = {}
  BY InitPool DEF LockedFrames
<1> QED
  BY <1>1, FS_EmptySet DEF PoolCounts, PPM_INIT

\* A frame that is taken is not locked, whatever its record held.
LEMMA FixedCounts ==
  ASSUME NEW pm, PpmType(pm, Pages), PoolCounts(pm), NEW f \in Free(pm),
         NEW page \in Pages \cup {NoPage}, NEW q, q = Fixed(pm, f, page)
  PROVE  PoolCounts(q)
<1>1. /\ PpmType(q, Pages)
      /\ q.managed = pm.managed
      /\ q.alloced = pm.alloced \cup {f}
      /\ q.swappable = pm.swappable
      /\ q.locks = [pm.locks EXCEPT ![f] = 0]
      /\ q.addr = [pm.addr EXCEPT ![f] = page]
  BY FixedRecord
<1>2. q.nLocked = pm.nLocked /\ q.nSwappable = pm.nSwappable
  BY DEF PpmType, PPM_ALLOC, Fixed
<1>3. LockedFrames(q) = LockedFrames(pm)
  BY <1>1 DEF LockedFrames, PpmType, Free
<1> QED
  BY <1>1, <1>2, <1>3 DEF PoolCounts

\* And it is counted if it may be swapped.
LEMMA PageableCounts ==
  ASSUME NEW pm, PpmType(pm, Pages), PoolCounts(pm), NEW f \in Free(pm),
         NEW page \in Pages, NEW q, q = Pageable(pm, f, page)
  PROVE  PoolCounts(q)
<1>1. /\ PpmType(q, Pages)
      /\ q.managed = pm.managed
      /\ q.alloced = pm.alloced \cup {f}
      /\ q.swappable = pm.swappable \cup {f}
      /\ q.locks = [pm.locks EXCEPT ![f] = 0]
      /\ q.addr = [pm.addr EXCEPT ![f] = page]
  BY PageableRecord
<1>2. q.nLocked = pm.nLocked /\ q.nSwappable = pm.nSwappable + 1
  BY DEF PpmType, PPM_ALLOC, Pageable
<1>3. LockedFrames(q) = LockedFrames(pm)
  BY <1>1 DEF LockedFrames, PpmType, Free
<1>4. f \notin pm.swappable
  BY DEF PpmType, Free
<1>5. Cardinality(q.swappable) = Cardinality(pm.swappable) + 1
  BY <1>1, <1>4, CountedFrames, FS_AddElement, ZenonT(60)
<1> QED
  BY <1>2, <1>3, <1>5 DEF PoolCounts

\* Allocated frames that are freed are counted no more.
LEMMA FreedCounts ==
  ASSUME NEW pm, PpmType(pm, Pages), PoolCounts(pm),
         NEW F, F \subseteq pm.alloced, NEW q, q = PPM_FREE(pm, F)
  PROVE  PoolCounts(q)
<1>1. F \subseteq Frames
  BY DEF PpmType
<1>2. /\ PpmType(q, Pages)
      /\ q.managed = pm.managed
      /\ q.alloced = pm.alloced \ F
      /\ q.swappable = pm.swappable \ F
      /\ q.locks = pm.locks
      /\ \A f \in Frames \ F : q.addr[f] = pm.addr[f]
  BY <1>1, FreeRecord
<1>3. PICK unlocked, unswappable :
        /\ unlocked = {f \in F : pm.locks[f] # 0}
        /\ unswappable = F \cap pm.swappable
  OBVIOUS
<1>4. /\ q.nLocked = pm.nLocked - Cardinality(unlocked)
      /\ q.nSwappable = pm.nSwappable - Cardinality(unswappable)
  BY <1>3 DEF PpmType, PPM_FREE
<1>5. /\ LockedFrames(q) = LockedFrames(pm) \ F
      /\ LockedFrames(pm) \cap F = unlocked
      /\ pm.swappable \cap F = unswappable
  BY <1>1, <1>2, <1>3 DEF LockedFrames, PpmType
<1>6. /\ Cardinality(LockedFrames(q)) = Cardinality(LockedFrames(pm)) - Cardinality(unlocked)
      /\ Cardinality(q.swappable) = Cardinality(pm.swappable) - Cardinality(unswappable)
  BY <1>2, <1>5, CountedFrames, FS_Difference
<1> QED
  BY <1>4, <1>6 DEF PoolCounts

\* A lock counts if it is the frame's first.
LEMMA LockCounts ==
  ASSUME NEW pm, PpmType(pm, Pages), PoolCounts(pm),
         NEW f \in pm.alloced, NEW q, q = PPM_LOCK(pm, f)
  PROVE  PoolCounts(q)
<1>1. CASE pm.locks[f] = MaxLocks
  BY <1>1 DEF PPM_LOCK
<1>2. CASE pm.locks[f] # MaxLocks
  <2>1. f \in Frames /\ pm.locks[f] \in 0..MaxLocks
    BY DEF PpmType
  <2>2. /\ q.alloced = pm.alloced
        /\ q.swappable = pm.swappable \ {f}
        /\ q.locks = [pm.locks EXCEPT ![f] = @ + 1]
    BY <1>2, <2>1, LockRecord
  <2>3. /\ q.nLocked = IF pm.locks[f] = 0 THEN pm.nLocked + 1 ELSE pm.nLocked
        /\ q.nSwappable = IF f \in pm.swappable THEN pm.nSwappable - 1
                          ELSE pm.nSwappable
    BY <1>2 DEF PpmType, PPM_LOCK
  <2>4. LockedFrames(q) = LockedFrames(pm) \cup {f}
    BY <2>1, <2>2 DEF LockedFrames, PpmType
  <2>5. f \in LockedFrames(pm) <=> pm.locks[f] # 0
    BY <2>1 DEF LockedFrames
  <2>6. Cardinality(LockedFrames(q)) =
          IF pm.locks[f] = 0 THEN Cardinality(LockedFrames(pm)) + 1
          ELSE Cardinality(LockedFrames(pm))
    BY <2>4, <2>5, CountedFrames, FS_AddElement
  <2>7. Cardinality(q.swappable) =
          IF f \in pm.swappable THEN Cardinality(pm.swappable) - 1
          ELSE Cardinality(pm.swappable)
    <3>1. PICK sw : sw = pm.swappable
      OBVIOUS
    <3>2. IsFiniteSet(sw)
      BY <3>1, CountedFrames
    <3>3. Cardinality(sw \ {f}) =
            IF f \in sw THEN Cardinality(sw) - 1 ELSE Cardinality(sw)
      BY <3>2, FS_RemoveElement
    <3> QED
      BY <2>2, <3>1, <3>3
  <2> QED
    BY <2>3, <2>6, <2>7 DEF PoolCounts
<1> QED
  BY <1>1, <1>2

\* Taking a frame and locking it once.
LEMMA LockedPageCounts ==
  ASSUME NEW pm, PpmType(pm, Pages), PoolCounts(pm), NEW f \in Free(pm),
         NEW page \in Pages, NEW q, q = PPM_LOCK(Fixed(pm, f, page), f)
  PROVE  PoolCounts(q)
<1>1. PICK r : r = Fixed(pm, f, page)
  OBVIOUS
<1>2. /\ PpmType(r, Pages)
      /\ r.managed = pm.managed
      /\ r.alloced = pm.alloced \cup {f}
      /\ r.swappable = pm.swappable
      /\ r.locks = [pm.locks EXCEPT ![f] = 0]
      /\ r.addr = [pm.addr EXCEPT ![f] = page]
  BY <1>1, FixedRecord
<1>3. PoolCounts(r)
  BY <1>1, FixedCounts
<1> QED
  BY <1>1, <1>2, <1>3, LockCounts

\* An unlock counts if it is the frame's last, and makes it swappable.
LEMMA UnlockCounts ==
  ASSUME NEW pm, PpmType(pm, Pages), PoolCounts(pm),
         NEW F, F \subseteq pm.alloced, F \cap pm.swappable = {},
         NEW q, q = PPM_UNLOCK(pm, F)
  PROVE  PoolCounts(q)
<1>1. PICK last : last = LastLock(pm, F)
  OBVIOUS
<1>2. last \subseteq LockedFrames(pm) /\ last \cap pm.swappable = {}
  BY <1>1 DEF LastLock, LockedFrames
<1>3. IsFiniteSet(last) /\ Cardinality(last) \in Nat
  BY <1>2, CountedFrames, FS_Subset, FS_CardinalityType
<1>4. /\ q.alloced = pm.alloced
      /\ q.swappable = pm.swappable \cup last
      /\ \A f \in Frames :
           q.locks[f] = IF f \in F /\ pm.locks[f] # 0
                        THEN pm.locks[f] - 1 ELSE pm.locks[f]
  BY <1>1, UnlockRecord
<1>5. /\ q.nLocked = pm.nLocked - Cardinality(last)
      /\ q.nSwappable = pm.nSwappable + Cardinality(last)
  BY <1>1 DEF PpmType, PPM_UNLOCK
<1>6. LockedFrames(q) = LockedFrames(pm) \ last
  BY <1>1, <1>4 DEF LockedFrames, LastLock, PpmType
<1>7. Cardinality(LockedFrames(q)) = Cardinality(LockedFrames(pm)) - Cardinality(last)
  <2>1. LockedFrames(pm) \cap last = last
    BY <1>2
  <2> QED
    BY <1>6, <2>1, CountedFrames, FS_Difference
<1>8. Cardinality(q.swappable) = Cardinality(pm.swappable) + Cardinality(last)
  <2>1. PICK sw : sw = pm.swappable
    OBVIOUS
  <2>2. sw \cap last = {} /\ IsFiniteSet(sw) /\ Cardinality(sw) \in Nat
    BY <1>2, <2>1, CountedFrames
  <2>3. Cardinality(sw \cup last) =
          Cardinality(sw) + Cardinality(last) - Cardinality(sw \cap last)
    BY <1>3, <2>2, FS_Union
  <2>4. Cardinality(sw \cap last) = 0
    BY <2>2, FS_EmptySet
  <2> QED
    BY <1>3, <1>4, <2>1, <2>2, <2>3, <2>4
<1> QED
  BY <1>5, <1>7, <1>8 DEF PoolCounts

-----------------------------------------------------------------------------
(* Reserved pages. *)

\* Some pages are reserved no more, some are now.
LEMMA ReservedMoves ==
  ASSUME ReservedCounted, NEW gone, gone \subseteq ReservedPages,
         NEW new, new \subseteq Pages, new \cap ReservedPages = {},
         ReservedPages' = (ReservedPages \ gone) \cup new,
         reserved' = (reserved - Cardinality(gone)) + Cardinality(new)
  PROVE  ReservedCounted'
<1>1. PICK R, K : R = ReservedPages /\ K = R \ gone
  OBVIOUS
<1>2. /\ IsFiniteSet(R) /\ IsFiniteSet(K) /\ IsFiniteSet(new)
      /\ Cardinality(R) \in Nat /\ Cardinality(K) \in Nat
      /\ Cardinality(new) \in Nat /\ Cardinality(gone) \in Nat
  BY <1>1, PageCount DEF ReservedPages
<1>3. Cardinality(K) = Cardinality(R) - Cardinality(gone)
  <2>1. R \cap gone = gone
    BY <1>1
  <2>2. Cardinality(R \ gone) = Cardinality(R) - Cardinality(R \cap gone)
    BY <1>2, FS_Difference
  <2> QED
    BY <1>1, <2>1, <2>2
<1>4. Cardinality(K \cup new) = Cardinality(K) + Cardinality(new)
  <2>1. Cardinality(K \cap new) = 0
    <3>1. K \cap new = {}
      BY <1>1
    <3> QED
      BY <3>1, FS_EmptySet
  <2>2. Cardinality(K \cup new) =
          Cardinality(K) + Cardinality(new) - Cardinality(K \cap new)
    BY <1>2, FS_Union
  <2> QED
    BY <1>2, <2>1, <2>2
<1> QED
  BY <1>1, <1>2, <1>3, <1>4 DEF ReservedCounted

\* The pages of the set S are reserved no more.
LEMMA ReservedLess ==
  ASSUME ReservedCounted, NEW S, S \subseteq Pages,
         ReservedPages' = ReservedPages \ S,
         reserved' = reserved - ReservedOf(S)
  PROVE  ReservedCounted'
<1>1. PICK gone, new : gone = {p \in S : IsReserved(p)} /\ new = {}
  OBVIOUS
<1>2. gone \subseteq ReservedPages /\ ReservedPages' = (ReservedPages \ gone) \cup new
  BY <1>1 DEF ReservedPages
<1>3. Cardinality(new) = 0 /\ Cardinality(gone) \in Nat /\ reserved \in Nat
  BY <1>1, FS_EmptySet, PageCount DEF ReservedCounted, ReservedPages
<1>4. reserved' = (reserved - Cardinality(gone)) + Cardinality(new)
  BY <1>1, <1>3 DEF ReservedOf
<1> QED
  BY <1>1, <1>2, <1>4, ReservedMoves

\* The pages of the set S, none of which was reserved, are now.
LEMMA ReservedMore ==
  ASSUME ReservedCounted, NEW S, S \subseteq Pages, S \cap ReservedPages = {},
         ReservedPages' = ReservedPages \cup S,
         reserved' = reserved + Cardinality(S)
  PROVE  ReservedCounted'
<1>1. PICK gone : gone = {}
  OBVIOUS
<1>2. Cardinality(gone) = 0 /\ reserved \in Nat /\ Cardinality(S) \in Nat
  BY <1>1, FS_EmptySet, PageCount DEF ReservedCounted, ReservedPages
<1>3. ReservedPages' = (ReservedPages \ gone) \cup S
  BY <1>1
<1>4. reserved' = (reserved - Cardinality(gone)) + Cardinality(S)
  BY <1>2
<1> QED
  BY <1>1, <1>3, <1>4, ReservedMoves

\* No page is reserved, and none ceases to be.
LEMMA ReservedStay ==
  ASSUME ReservedCounted, reserved' = reserved,
         \A p \in Pages : pte[p].state = "reserved" <=> pte'[p].state = "reserved"
  PROVE  ReservedCounted'
<1>1. ReservedPages' = ReservedPages
  BY DEF ReservedPages, IsReserved
<1> QED
  BY <1>1 DEF ReservedCounted

-----------------------------------------------------------------------------
(* Every step counts what it does. *)

\* Steps that leave the entries alone, and nothing counted of the pool.
LEMMA QuietCounts ==
  ASSUME CountInv,
         \/ Overcommit \/ NoFrameLeft \/ LockStray \/ LockIOBuffer \/ LockDone
         \/ ExternalAlloc \/ ExternalFree \/ DrainSwap \/ DrainNothing
         \/ Terminate \/ UNCHANGED vars
         \/ FillPool \/ VMM_QUERY \/ DrainRelease \/ BSM_INIT_CLIENT
         \/ \E n : PPM_DRAIN_POOL(n)
         \/ \E c : DPMIFN_SWITCHADDR(c) \/ VMM_INIT_CLIENT(c)
         \/ \E S : VMM_LOCK(S) \/ VMM_MARK_CANDIDATES(S) \/ VMM_ALLOC(S)
         \/ \E p : VMM_PageFaultHandler(p) \/ Read(p)
  PROVE  Counted'
<1>1. PpmType(ppm, Pages) /\ PoolCounts(ppm) /\ ReservedCounted
  BY DEF CountInv, Counted, Inv, TypeOK
<1>2. UNCHANGED <<pte, reserved>>
  BY DEF Overcommit, NoFrameLeft, LockStray, LockIOBuffer, LockDone,
         ExternalAlloc, ExternalFree, DrainSwap, DrainNothing, Terminate, vars,
         FillPool, VMM_QUERY, DrainRelease, BSM_INIT_CLIENT, PPM_DRAIN_POOL,
         DPMIFN_SWITCHADDR, VMM_INIT_CLIENT, VMM_LOCK, VMM_MARK_CANDIDATES,
         VMM_ALLOC, VMM_PageFaultHandler, Read
<1>3. ppm' = ppm
      \/ \E F : \/ ppm' = PPM_FILL_POOL(ppm, F) \/ ppm' = PPM_QUERY(ppm, F)
               \/ ppm' = PPM_RELEASE(ppm, F) \/ ppm' = PPM_MARK(ppm, F)
  <2>1. CASE FillPool \/ VMM_QUERY
    BY <2>1 DEF FillPool, VMM_QUERY
  <2>2. CASE DrainRelease
    BY <2>2 DEF DrainRelease
  <2>3. CASE BSM_INIT_CLIENT \/ \E S : VMM_ALLOC(S)
    BY <2>3 DEF BSM_INIT_CLIENT, VMM_ALLOC, LSM_ALLOC
  <2>4. CASE \E S : VMM_MARK_CANDIDATES(S)
    BY <2>4 DEF VMM_MARK_CANDIDATES
  <2> QED
    BY <2>1, <2>2, <2>3, <2>4
       DEF Overcommit, NoFrameLeft, LockStray, LockIOBuffer, LockDone,
           ExternalAlloc, ExternalFree, DrainSwap, DrainNothing, Terminate,
           vars, PPM_DRAIN_POOL, DPMIFN_SWITCHADDR, VMM_INIT_CLIENT, VMM_LOCK,
           VMM_PageFaultHandler, Read
<1>4. PoolCounts(ppm')
  BY <1>1, <1>3, UncountedOps
<1>5. ReservedCounted'
  BY <1>1, <1>2, ReservedStay
<1> QED
  BY <1>4, <1>5 DEF Counted, PoolCounts, LockedFrames

\* A frame for a page table or a page directory is not counted.
LEMMA TableCounts ==
  ASSUME CountInv,
         LSM_NEW_PAGE_TABLE \/ FreeExpanded \/ LeaveExpanded \/ LSM_INIT_CLIENT
  PROVE  Counted'
<1>1. PpmType(ppm, Pages) /\ PoolCounts(ppm) /\ ReservedCounted
  BY DEF CountInv, Counted, Inv, TypeOK
<1>2. PICK f : f = FreeHead(ppm)
  OBVIOUS
<1>3. f \in Free(ppm)
  BY <1>1, <1>2, FreeHeadType
     DEF LSM_NEW_PAGE_TABLE, FreeExpanded, LeaveExpanded, LSM_INIT_CLIENT,
         FrameReady
<1>4. ppm' = Fixed(ppm, f, NoPage) /\ NoPage \in Pages \cup {NoPage}
  BY <1>2
     DEF LSM_NEW_PAGE_TABLE, FreeExpanded, LeaveExpanded, LSM_INIT_CLIENT,
         NewTable, Fixed
<1>5. PoolCounts(ppm')
  BY <1>1, <1>3, <1>4, FixedCounts
<1>6. /\ reserved' = reserved
      /\ \A p \in Pages : pte[p].state = "reserved" <=> pte'[p].state = "reserved"
  <2>1. CASE FreeExpanded
    <3>1. /\ pte' = [p \in Pages |-> IF p \in job.pages THEN Unalloc ELSE pte[p]]
          /\ reserved' = reserved
      BY <2>1 DEF FreeExpanded
    <3>2. \A p \in job.pages : Clean(p)
      BY <2>1 DEF FreeExpanded, Doing, CountInv, Inv, JobSound
    <3> QED
      BY <3>1, <3>2, EntryStates DEF Clean
  <2>2. CASE LSM_NEW_PAGE_TABLE \/ LeaveExpanded \/ LSM_INIT_CLIENT
    BY <2>2 DEF LSM_NEW_PAGE_TABLE, LeaveExpanded, LSM_INIT_CLIENT
  <2> QED
    BY <2>1, <2>2
<1>7. ReservedCounted'
  BY <1>1, <1>6, ReservedStay
<1> QED
  BY <1>5, <1>7 DEF Counted, PoolCounts, LockedFrames

\* A page that is touched or locked for the first time is reserved no more;
\* one that is swapped in was not.
LEMMA PageCounts ==
  ASSUME CountInv, LockReserved \/ LockSwapped \/ FaultReserved \/ FaultSwapped
  PROVE  Counted'
<1>1. /\ Inv /\ TypeOK /\ PpmType(ppm, Pages) /\ PoolCounts(ppm)
      /\ ReservedCounted /\ pte \in [Pages -> EntryType]
  BY DEF CountInv, Counted, Inv, TypeOK
<1>2. PICK f, page : f = FreeHead(ppm) /\ page = NextPage
  OBVIOUS
<1>3. page \in Pages
  BY <1>1, <1>2, JobPage DEF LockReserved, LockSwapped, FaultReserved, FaultSwapped
<1>4. f \in Free(ppm)
  BY <1>1, <1>2, FreeHeadType
     DEF LockReserved, LockSwapped, FaultReserved, FaultSwapped, FrameReady
<1>5. \/ ppm' = PPM_LOCK(Fixed(ppm, f, page), f)
      \/ ppm' = Pageable(ppm, f, page)
  BY <1>2
     DEF LockReserved, LockSwapped, FaultReserved, FaultSwapped, Fixed, Pageable
<1>6. PoolCounts(ppm')
  BY <1>1, <1>3, <1>4, <1>5, LockedPageCounts, PageableCounts
<1>7. /\ pte'[page].state \in {"present", "locked"}
      /\ \A p \in Pages : p # page => pte'[p] = pte[p]
  <2>1. CASE LockReserved \/ LockSwapped
    <3>1. pte' = [pte EXCEPT ![page] = Locked(f, FALSE)]
      BY <1>2, <2>1 DEF LockReserved, LockSwapped
    <3>2. PICK e : e = Locked(f, FALSE)
      OBVIOUS
    <3>3. e.state = "locked"
      BY <3>2 DEF Locked, Entry
    <3>4. pte' = [pte EXCEPT ![page] = e]
      BY <3>1, <3>2
    <3>5. pte'[page] = e /\ \A p \in Pages : p # page => pte'[p] = pte[p]
      BY <1>1, <1>3, <3>4
    <3> QED
      BY <3>3, <3>5
  <2>2. CASE FaultReserved \/ FaultSwapped
    <3>1. pte' = [pte EXCEPT ![page] = Present(f, FALSE)]
      BY <1>2, <2>2 DEF FaultReserved, FaultSwapped
    <3>2. PICK e : e = Present(f, FALSE)
      OBVIOUS
    <3>3. e.state = "present"
      BY <3>2 DEF Present, Entry
    <3>4. pte' = [pte EXCEPT ![page] = e]
      BY <3>1, <3>2
    <3>5. pte'[page] = e /\ \A p \in Pages : p # page => pte'[p] = pte[p]
      BY <1>1, <1>3, <3>4
    <3> QED
      BY <3>3, <3>5
  <2> QED
    BY <2>1, <2>2
<1>8. CASE LockReserved \/ FaultReserved
  <2>1. PICK S : S = {page}
    OBVIOUS
  <2>2. IsReserved(page) /\ reserved' = reserved - 1
    BY <1>2, <1>8 DEF LockReserved, FaultReserved
  <2>3. ReservedOf(S) = 1
    <3>1. {p \in S : IsReserved(p)} = {page}
      BY <2>1, <2>2
    <3> QED
      BY <3>1, FS_Singleton DEF ReservedOf
  <2>4. ReservedPages' = ReservedPages \ S
    BY <1>3, <1>7, <2>1 DEF ReservedPages, IsReserved
  <2>5. S \subseteq Pages /\ reserved' = reserved - ReservedOf(S)
    BY <1>3, <2>1, <2>2, <2>3
  <2>6. ReservedCounted'
    BY <1>1, <2>4, <2>5, ReservedLess
  <2> QED
    BY <1>6, <2>6 DEF Counted, PoolCounts, LockedFrames
<1>9. CASE LockSwapped \/ FaultSwapped
  <2>1. pte[page].state = "swapped" /\ reserved' = reserved
    BY <1>2, <1>9 DEF LockSwapped, FaultSwapped, IsSwapped
  <2>2. \A p \in Pages : pte[p].state = "reserved" <=> pte'[p].state = "reserved"
    BY <1>7, <2>1
  <2>3. ReservedCounted'
    BY <1>1, <2>1, <2>2, ReservedStay
  <2> QED
    BY <1>6, <2>3 DEF Counted, PoolCounts, LockedFrames
<1> QED
  BY <1>8, <1>9

\* A page that is swapped out gives back its frame, which was swappable.
LEMMA SwapOutCounts ==
  ASSUME CountInv, NEW f \in Frames, VMM_SWAP_OUT(f)
  PROVE  Counted'
<1>1. /\ Framed /\ PpmType(ppm, Pages) /\ PoolCounts(ppm)
      /\ ReservedCounted /\ pte \in [Pages -> EntryType]
      /\ f \in ppm.swappable
  BY DEF CountInv, Counted, Inv, TypeOK, VMM_SWAP_OUT, Victims
<1>2. PICK F, p, s : F = {f} /\ p = ppm.addr[f] /\ s = PutSlot(bsm, p)
  OBVIOUS
<1>3. p \in Pages /\ pte[p].state = "present" /\ F \subseteq ppm.alloced
  BY <1>1, <1>2 DEF Framed, SwappableFramed, PpmType
<1>4. /\ pte' = [pte EXCEPT ![p] = Swapped(s)]
      /\ ppm' = PPM_FREE(ppm, F) /\ reserved' = reserved
  BY <1>2 DEF VMM_SWAP_OUT, SwapPage
<1>5. PoolCounts(ppm')
  BY <1>1, <1>3, <1>4, FreedCounts
<1>6. \A q \in Pages : pte[q].state = "reserved" <=> pte'[q].state = "reserved"
  BY <1>1, <1>3, <1>4, EntryStates
<1>7. ReservedCounted'
  BY <1>1, <1>4, <1>6, ReservedStay
<1> QED
  BY <1>5, <1>7 DEF Counted, PoolCounts, LockedFrames

\* Locking and unlocking move frames between the counters; storing in a page
\* moves none.
LEMMA EntryCounts ==
  ASSUME CountInv,
         \/ LockResident
         \/ \E S : S \subseteq Pages /\ VMM_UNLOCK(S)
         \/ \E p \in Pages : \E w : Write(p, w)
  PROVE  Counted'
<1>1. /\ Inv /\ TypeOK /\ Framed /\ PpmType(ppm, Pages) /\ PoolCounts(ppm)
      /\ ReservedCounted /\ pte \in [Pages -> EntryType]
  BY DEF CountInv, Counted, Inv, TypeOK
<1>2. reserved' = reserved
  BY DEF LockResident, VMM_UNLOCK, Write
<1>3. CASE LockResident
  <2>1. PICK page, f : page = NextPage /\ f = pte[page].frame
    OBVIOUS
  <2>2. /\ page \in Pages /\ Resident(page)
        /\ ppm' = PPM_LOCK(ppm, f)
        /\ pte' = [pte EXCEPT ![page] = Locked(f, FALSE)]
    BY <1>1, <1>3, <2>1, JobPage DEF LockResident
  <2>3. f \in ppm.alloced
    BY <1>1, <2>1, <2>2 DEF Framed, PagesFramed
  <2>4. PoolCounts(ppm')
    BY <1>1, <2>2, <2>3, LockCounts
  <2>5. \A p \in Pages : pte[p].state = "reserved" <=> pte'[p].state = "reserved"
    BY <1>1, <2>2, EntryStates DEF Resident
  <2>6. ReservedCounted'
    BY <1>1, <1>2, <2>5, ReservedStay
  <2> QED
    BY <2>4, <2>6 DEF Counted, PoolCounts, LockedFrames
<1>4. CASE \E S : S \subseteq Pages /\ VMM_UNLOCK(S)
  <2>1. PICK S : /\ S \subseteq Pages
                 /\ \A p \in S : pte[p].state = "locked"
                 /\ ppm' = PPM_UNLOCK(ppm, FramesOf(S))
                 /\ pte' = [p \in Pages |->
                              IF p \in S
                                 /\ pte[p].frame \in LastLock(ppm, FramesOf(S))
                              THEN Present(pte[p].frame, TRUE) ELSE pte[p]]
    BY <1>4 DEF VMM_UNLOCK
  <2>2. PICK F : F = FramesOf(S)
    OBVIOUS
  <2>3. F \subseteq ppm.alloced /\ F \cap ppm.swappable = {}
    BY <1>1, <2>1, <2>2 DEF FramesOf, Framed, PagesFramed
  <2>4. PoolCounts(ppm')
    BY <1>1, <2>1, <2>2, <2>3, UnlockCounts
  <2>5. \A p \in Pages : pte[p].state = "reserved" <=> pte'[p].state = "reserved"
    <3> SUFFICES ASSUME NEW p \in Pages
                 PROVE  pte[p].state = "reserved" <=> pte'[p].state = "reserved"
      OBVIOUS
    <3>1. CASE p \in S
      <4>1. pte'[p] = pte[p] \/ pte'[p] = Present(pte[p].frame, TRUE)
        BY <2>1
      <4> QED
        BY <2>1, <3>1, <4>1, EntryStates
    <3>2. CASE p \notin S
      BY <2>1, <3>2
    <3> QED
      BY <3>1, <3>2
  <2>6. ReservedCounted'
    BY <1>1, <1>2, <2>5, ReservedStay
  <2> QED
    BY <2>4, <2>6 DEF Counted, PoolCounts, LockedFrames
<1>5. CASE \E p \in Pages : \E w : Write(p, w)
  <2>1. PICK p \in Pages : pte' = [pte EXCEPT ![p].dirty = TRUE] /\ ppm' = ppm
    BY <1>5 DEF Write
  <2>2. \A q \in Pages : pte[q].state = "reserved" <=> pte'[q].state = "reserved"
    BY <1>1, <2>1 DEF EntryType
  <2>3. ReservedCounted'
    BY <1>1, <1>2, <2>2, ReservedStay
  <2> QED
    BY <1>1, <2>1, <2>3 DEF Counted, PoolCounts, LockedFrames
<1> QED
  BY <1>3, <1>4, <1>5

\* The frames of a region, and of a page table that goes with it, are lent out.
LEMMA RegionAlloced ==
  ASSUME Inv, NEW S, S \subseteq Pages
  PROVE  FramesOf(S) \subseteq ppm.alloced /\ TableOf(S) \subseteq ppm.alloced
<1>1. FramesOf(S) \subseteq ppm.alloced
  BY DEF FramesOf, Inv, Framed, PagesFramed
<1>2. TableOf(S) \subseteq ppm.alloced
  BY DEF TableOf, Inv, Framed, TablesFramed
<1> QED
  BY <1>1, <1>2

\* Pages that are promised are counted, and none of them was counted before.
LEMMA CommitCounts ==
  ASSUME CountInv, Commit
  PROVE  Counted'
<1>1. PICK S : S = job.pages
  OBVIOUS
<1>2. /\ Inv /\ TypeOK /\ PpmType(ppm, Pages) /\ PoolCounts(ppm)
      /\ ReservedCounted /\ S \subseteq Pages /\ \A p \in S : Clean(p)
  BY <1>1, JobFields DEF CountInv, Counted, Inv, TypeOK, Commit, Doing, JobSound
<1>3. CASE Committable >= Cardinality(S)
  <2>1. /\ pte' = [p \in Pages |-> IF p \in S THEN Reserved(TRUE) ELSE pte[p]]
        /\ ppm' = ppm /\ reserved' = reserved + Cardinality(S)
    BY <1>1, <1>3 DEF Commit
  <2>2. S \cap ReservedPages = {}
    BY <1>2 DEF ReservedPages, IsReserved, Clean
  <2>3. ReservedPages' = ReservedPages \cup S
    BY <1>2, <2>1, EntryStates DEF ReservedPages, IsReserved
  <2>4. ReservedCounted'
    BY <1>2, <2>1, <2>2, <2>3, ReservedMore
  <2> QED
    BY <1>2, <2>1, <2>4 DEF Counted, PoolCounts, LockedFrames
<1>4. CASE ~(Committable >= Cardinality(S))
  <2>1. /\ pte' = [p \in Pages |-> IF p \in S THEN Unalloc ELSE pte[p]]
        /\ ppm' = PPM_FREE(ppm, TableOf(S)) /\ reserved' = reserved
    BY <1>1, <1>4 DEF Commit, LSM_SETN_PTES
  <2>2. PICK F : F = TableOf(S)
    OBVIOUS
  <2>3. F \subseteq ppm.alloced
    BY <1>2, <2>2, RegionAlloced
  <2>4. PoolCounts(ppm')
    BY <1>2, <2>1, <2>2, <2>3, FreedCounts
  <2>5. \A p \in Pages : pte[p].state = "reserved" <=> pte'[p].state = "reserved"
    BY <1>2, <2>1, EntryStates DEF Clean
  <2>6. ReservedCounted'
    BY <1>2, <2>1, <2>5, ReservedStay
  <2> QED
    BY <2>4, <2>6 DEF Counted, PoolCounts, LockedFrames
<1> QED
  BY <1>1, <1>3, <1>4

\* A block that is freed takes its promises and its frames along.
LEMMA FreeCounts ==
  ASSUME CountInv, NEW o \in Owners, NEW S \in Callable(o), VMM_FREE(S)
  PROVE  Counted'
<1>1. S \subseteq Pages /\ S # {} /\ \A p \in S : p.owner = o
  BY CallableType
<1>2. /\ Inv /\ TypeOK /\ Mapped /\ PpmType(ppm, Pages) /\ PoolCounts(ppm)
      /\ ReservedCounted
  BY DEF CountInv, Counted, Inv, TypeOK
<1>3. PICK F : F = FramesOf(S) \cup TableOf(S)
  OBVIOUS
<1>4. ppm' = PPM_FREE(ppm, F) /\ reserved' = reserved - ReservedOf(S)
  BY <1>3 DEF VMM_FREE
<1>5. F \subseteq ppm.alloced
  BY <1>1, <1>2, <1>3, RegionAlloced
<1>6. PoolCounts(ppm')
  BY <1>2, <1>4, <1>5, FreedCounts
<1>7. (CHOOSE p \in S : TRUE).owner = o
  BY <1>1, OwnerOf
<1>8. ReservedPages' = ReservedPages \ S
  <2>1. CASE table[o] = UncommittedPDE /\ S # Area(o)
    <3>1. pte' = pte
      BY <1>7, <2>1 DEF VMM_FREE
    <3>2. \A p \in S : Clean(p)
      BY <1>1, <1>2, <2>1, VmmAssumption DEF Mapped, TablesCover, HasTable
    <3> QED
      BY <3>1, <3>2 DEF ReservedPages, IsReserved, Clean
  <2>2. CASE ~(table[o] = UncommittedPDE /\ S # Area(o))
    <3>1. pte' = [p \in Pages |-> IF p \in S THEN Unalloc ELSE pte[p]]
      BY <1>7, <2>2 DEF VMM_FREE, LSM_SETN_PTES
    <3> QED
      BY <3>1, EntryStates DEF ReservedPages, IsReserved
  <2> QED
    BY <2>1, <2>2
<1>9. ReservedCounted'
  BY <1>1, <1>2, <1>4, <1>8, ReservedLess
<1> QED
  BY <1>6, <1>9 DEF Counted, PoolCounts, LockedFrames

\* Nothing is promised where space becomes uncommitted.
LEMMA UncommittedCounts ==
  ASSUME CountInv, NEW o \in Owners, NEW S \in Callable(o), AllocUncommitted(S)
  PROVE  Counted'
<1>1. S \subseteq Pages /\ S # {} /\ \A p \in S : p.owner = o
  BY CallableType
<1>2. /\ Inv /\ TypeOK /\ Mapped /\ PpmType(ppm, Pages) /\ PoolCounts(ppm)
      /\ ReservedCounted /\ S \cap UNION blocks = {} /\ reserved' = reserved
  BY DEF CountInv, Counted, Inv, TypeOK, AllocUncommitted
<1>3. PICK F : F = TableOf(S)
  OBVIOUS
<1>4. ppm' = PPM_FREE(ppm, F)
  BY <1>3 DEF AllocUncommitted
<1>5. F \subseteq ppm.alloced
  BY <1>1, <1>2, <1>3, RegionAlloced
<1>6. PoolCounts(ppm')
  BY <1>2, <1>4, <1>5, FreedCounts
<1>7. (CHOOSE p \in S : TRUE).owner = o
  BY <1>1, OwnerOf
<1>8. \A p \in Pages : pte[p].state = "reserved" <=> pte'[p].state = "reserved"
  <2>1. CASE HasTable(o)
    <3>1. pte' = [p \in Pages |-> IF p \in S THEN Uncommitted ELSE pte[p]]
      BY <1>7, <2>1 DEF AllocUncommitted, LSM_SETN_PTES
    <3>2. \A p \in S : Clean(p)
      BY <1>1, <1>2 DEF Mapped, BlocksCover
    <3> QED
      BY <3>1, <3>2, EntryStates DEF Clean
  <2>2. CASE ~HasTable(o)
    <3>1. pte' = [p \in Pages |-> IF p \in Area(o) THEN Uncommitted ELSE pte[p]]
      BY <1>7, <2>2 DEF AllocUncommitted
    <3>2. \A p \in Area(o) : p \in Pages /\ p.owner = o
      BY PagesType
    <3>3. \A p \in Area(o) : Clean(p)
      BY <1>2, <2>2, <3>2 DEF Mapped, TablesCover
    <3> QED
      BY <3>1, <3>3, EntryStates DEF Clean
  <2> QED
    BY <2>1, <2>2
<1>9. ReservedCounted'
  BY <1>2, <1>8, ReservedStay
<1> QED
  BY <1>6, <1>9 DEF Counted, PoolCounts, LockedFrames

\* Pages that are discarded are promised again.
LEMMA DiscardCounts ==
  ASSUME CountInv, NEW S, S \subseteq Pages, VMM_DISCARD_PAGES(S)
  PROVE  Counted'
<1>1. PICK P : P = {p \in S : pte[p].state \in {"present", "swapped"}}
  OBVIOUS
<1>2. /\ Inv /\ PpmType(ppm, Pages) /\ PoolCounts(ppm) /\ ReservedCounted
      /\ P \subseteq Pages
  BY <1>1 DEF CountInv, Counted, Inv, TypeOK
<1>3. PICK F : F = FramesOf(P)
  OBVIOUS
<1>4. /\ ppm' = PPM_FREE(ppm, F)
      /\ pte' = [p \in Pages |-> IF p \in P THEN Reserved(FALSE) ELSE pte[p]]
      /\ reserved' = reserved + Cardinality(P)
  BY <1>1, <1>3 DEF VMM_DISCARD_PAGES
<1>5. F \subseteq ppm.alloced
  BY <1>2, <1>3, RegionAlloced
<1>6. PoolCounts(ppm')
  BY <1>2, <1>4, <1>5, FreedCounts
<1>7. P \cap ReservedPages = {}
  BY <1>1 DEF ReservedPages, IsReserved
<1>8. ReservedPages' = ReservedPages \cup P
  BY <1>2, <1>4, EntryStates DEF ReservedPages, IsReserved
<1>9. ReservedCounted'
  BY <1>2, <1>4, <1>7, <1>8, ReservedMore
<1> QED
  BY <1>6, <1>9 DEF Counted, PoolCounts, LockedFrames

\* A client that goes leaves no promise and no frame; with the last one all
\* counters start again.
LEMMA GoneCounts ==
  ASSUME CountInv, VMM_TERMINATE_CLIENT \/ VMM_SHUTDOWN
  PROVE  Counted'
<1>1. CASE VMM_SHUTDOWN
  <2>1. /\ ppm' = PPM_INIT /\ reserved' = 0
        /\ pte' = [p \in Pages |-> Unalloc]
    BY <1>1 DEF VMM_SHUTDOWN
  <2>2. ReservedPages' = {}
    BY <2>1, EntryStates DEF ReservedPages, IsReserved
  <2>3. ReservedCounted'
    BY <2>1, <2>2, FS_EmptySet DEF ReservedCounted
  <2>4. PoolCounts(ppm')
    BY <2>1, InitCounts
  <2> QED
    BY <2>3, <2>4 DEF Counted, PoolCounts, LockedFrames
<1>2. CASE VMM_TERMINATE_CLIENT
  <2>1. PICK A, F : A = Area(cur) /\ F = LeftFrames
    OBVIOUS
  <2>2. /\ Inv /\ PpmType(ppm, Pages) /\ PoolCounts(ppm) /\ ReservedCounted
        /\ cur \in Clients /\ cur \in Owners
    BY <1>2, Begun
       DEF CountInv, Counted, Inv, TypeOK, VMM_TERMINATE_CLIENT, Doing, Owners
  <2>3. A \subseteq Pages
    BY <2>1, <2>2, PagesType
  <2>4. /\ ppm' = PPM_FREE(ppm, F)
        /\ pte' = [p \in Pages |-> IF p \in A THEN Unalloc ELSE pte[p]]
        /\ reserved' = reserved - ReservedOf(A)
    BY <1>2, <2>1 DEF VMM_TERMINATE_CLIENT, LeftPages
  <2>5. F \subseteq ppm.alloced
    <3>1. F = FramesOf(A) \cup ({table[cur], dir[cur]} \cap Frames)
      BY <2>1 DEF LeftFrames, LeftPages
    <3>2. {table[cur], dir[cur]} \cap Frames \subseteq ppm.alloced
      BY <2>2 DEF Inv, Framed, TablesFramed, DirectoriesFramed
    <3> QED
      BY <2>2, <2>3, <3>1, <3>2, RegionAlloced
  <2>6. PoolCounts(ppm')
    BY <2>2, <2>4, <2>5, FreedCounts
  <2>7. ReservedPages' = ReservedPages \ A
    BY <2>4, EntryStates DEF ReservedPages, IsReserved
  <2>8. ReservedCounted'
    BY <2>2, <2>3, <2>4, <2>7, ReservedLess
  <2> QED
    BY <2>6, <2>8 DEF Counted, PoolCounts, LockedFrames
<1> QED
  BY <1>1, <1>2

-----------------------------------------------------------------------------
(* The invariant, and what follows from it. *)

\* At the start there is nothing to count.
LEMMA InitCounted == Init => CountInv
<1> SUFFICES ASSUME Init
             PROVE  CountInv
  OBVIOUS
<1>1. Inv
  BY InitInv
<1>2. ppm = PPM_INIT /\ reserved = 0 /\ pte = [p \in Pages |-> Unalloc]
  BY DEF Init
<1>3. PoolCounts(ppm)
  BY <1>2, InitCounts
<1>4. ReservedPages = {}
  BY <1>2, EntryStates DEF ReservedPages, IsReserved
<1>5. ReservedCounted
  BY <1>2, <1>4, FS_EmptySet DEF ReservedCounted
<1> QED
  BY <1>1, <1>3, <1>5 DEF CountInv, Counted

\* A call on a region counts what it does.
LEMMA CallCounts ==
  ASSUME CountInv, NEW o \in Owners, NEW S \in Callable(o), Call(S)
  PROVE  Counted'
<1>1. S \subseteq Pages
  BY CallableType
<1>2. CASE VMM_ALLOC(S) \/ VMM_LOCK(S) \/ VMM_MARK_CANDIDATES(S)
  BY <1>2, QuietCounts
<1>3. CASE AllocUncommitted(S)
  BY <1>3, UncommittedCounts
<1>4. CASE VMM_FREE(S)
  BY <1>4, FreeCounts
<1>5. CASE VMM_UNLOCK(S)
  BY <1>1, <1>5, EntryCounts
<1>6. CASE VMM_DISCARD_PAGES(S)
  BY <1>1, <1>6, DiscardCounts
<1> QED
  BY <1>2, <1>3, <1>4, <1>5, <1>6 DEF Call

\* And so does every step.
LEMMA NextCounted == CountInv /\ [Next]_vars => CountInv'
<1> SUFFICES ASSUME CountInv, [Next]_vars
             PROVE  CountInv'
  OBVIOUS
<1>1. Inv'
  BY NextInv DEF CountInv
<1>2. Counted'
  <2>1. CASE Host
    <3>1. CASE \E f \in Frames : VMM_SWAP_OUT(f)
      BY <3>1, SwapOutCounts
    <3>2. CASE LSM_NEW_PAGE_TABLE \/ FreeExpanded \/ LeaveExpanded \/ LSM_INIT_CLIENT
      BY <3>2, TableCounts
    <3>3. CASE LockReserved \/ LockSwapped \/ FaultReserved \/ FaultSwapped
      BY <3>3, PageCounts
    <3>4. CASE LockResident
      BY <3>4, EntryCounts
    <3>5. CASE Commit
      BY <3>5, CommitCounts
    <3>6. CASE VMM_TERMINATE_CLIENT \/ VMM_SHUTDOWN
      BY <3>6, GoneCounts
    <3>7. CASE \/ FillPool \/ Overcommit \/ NoFrameLeft \/ LockIOBuffer
               \/ LockStray \/ LockDone \/ DrainRelease \/ DrainSwap
               \/ DrainNothing \/ BSM_INIT_CLIENT
      BY <3>7, QuietCounts
    <3> QED
      BY <2>1, <3>1, <3>2, <3>3, <3>4, <3>5, <3>6, <3>7 DEF Host, TakeFrame
  <2>2. CASE Client
    <3>1. CASE \E o \in Mine \cap Owners : \E S \in Callable(o) : Call(S)
      BY <3>1, CallCounts
    <3>2. CASE \E p \in Pages : VMM_PageFaultHandler(p) \/ Read(p)
      BY <3>2, QuietCounts
    <3>3. CASE \E p \in Pages, w \in Values : Write(p, w)
      BY <3>3, EntryCounts
    <3>4. CASE \/ VMM_QUERY \/ Terminate
               \/ \E c \in Clients : DPMIFN_SWITCHADDR(c) \/ VMM_INIT_CLIENT(c)
      BY <3>4, QuietCounts
    <3> QED
      BY <2>2, <3>1, <3>2, <3>3, <3>4 DEF Client
  <2>3. CASE ExternalAlloc \/ ExternalFree
    BY <2>3, QuietCounts
  <2>4. CASE \E n \in 1..MaxDrain : PPM_DRAIN_POOL(n)
    BY <2>4, QuietCounts
  <2>5. CASE UNCHANGED vars
    BY <2>5, QuietCounts
  <2> QED
    BY <2>1, <2>2, <2>3, <2>4, <2>5 DEF Next, Primary, Stopped
<1> QED
  BY <1>1, <1>2 DEF CountInv

\* The counters are never off: in every reachable state PhysicalSwappable,
\* PhysicalLocked and VirtualReserved, which the code only ever adds to and
\* subtracts from, say how many frames can be swapped out, how many are locked
\* and how many pages are committed and not yet touched.
THEOREM CountersRight == Spec => []CountersExact
<1>1. CountInv => CountersExact
  BY DEF CountInv, Counted, PoolCounts, LockedFrames, ReservedCounted,
         ReservedPages, CountersExact, ReservedOf
<1> QED
  BY InitCounted, NextCounted, <1>1, PTL DEF Spec

-----------------------------------------------------------------------------
(***************************************************************************)
(* The proof that locks leave the virtual memory manager a working set,    *)
(* for any number of frames, clients, pages and slots: while a page is     *)
(* locked, PhysicalMinUnlocked frames of the pool are not (WorkingSetKept).*)
(*                                                                         *)
(* VMM_LOCK sees to it in its first pass, before it locks the first page.  *)
(* In the second pass it may wait for frames and swap pages out, so what   *)
(* the first pass found must hold for the pages that are still to be       *)
(* locked (WorkingSet).  The pool may grow in the meantime, and what must  *)
(* stay unlocked grows with it.  A drain, which shrinks the pool, heeds    *)
(* the locks.                                                              *)
(***************************************************************************)
\* The pages that VMM_LOCK has promised to lock and has not locked yet.
ToLock ==
    IF job.op = "locking" THEN {p \in job.pages : pte[p].state # "locked"}
    ELSE {}

LocksAsked == ppm.nLocked > 0 \/ job.op = "locking"

WorkingSet == LocksAsked => Cardinality(ToLock) <= Unlocked

WorkInv == CountInv /\ WorkingSet

\* PhysicalMinUnlocked of a pool of n frames.
KeepOf(n) ==
    LET half == n \div 2
        want == IF half < MinHigh THEN half ELSE MinHigh
    IN  IF want >= MinLow THEN want ELSE MinLow

-----------------------------------------------------------------------------
(* The size of the pool and what must stay unlocked. *)

\* A larger pool keeps no fewer frames unlocked, and has no fewer to lock.
LEMMA KeepGrows ==
  ASSUME NEW m \in Nat, NEW n \in Nat, m <= n
  PROVE  /\ KeepOf(m) \in Nat /\ KeepOf(n) \in Nat
         /\ KeepOf(m) <= KeepOf(n)
         /\ m - KeepOf(m) <= n - KeepOf(n)
<1>1. PICK g \in Nat, h \in Nat : g = m \div 2 /\ h = n \div 2
  OBVIOUS
<1>2. g <= h /\ h - g <= n - m
  BY <1>1
<1>3. MinLow \in Nat /\ MinHigh \in Nat
  BY PoolAssumption
<1>4. /\ KeepOf(m) = LET want == IF g < MinHigh THEN g ELSE MinHigh
                     IN  IF want >= MinLow THEN want ELSE MinLow
      /\ KeepOf(n) = LET want == IF h < MinHigh THEN h ELSE MinHigh
                     IN  IF want >= MinLow THEN want ELSE MinLow
  BY <1>1 DEF KeepOf
<1> QED
  BY <1>2, <1>3, <1>4

\* What locks leave, in numbers.
LEMMA UnlockedOf ==
  ASSUME TypeOK
  PROVE  /\ Unlocked = Cardinality(ppm.managed) - ppm.nLocked
                         - KeepOf(Cardinality(ppm.managed))
         /\ Cardinality(ppm.managed) \in Nat /\ ppm.nLocked \in Int
         /\ KeepOf(Cardinality(ppm.managed)) \in Nat
         /\ Unlocked \in Int
<1>1. PICK m : m = Cardinality(ppm.managed)
  OBVIOUS
<1>2. m \in Nat /\ ppm.nLocked \in Int
  BY <1>1, FrameCount DEF TypeOK, PpmType
<1>3. KeepOf(m) \in Nat
  BY <1>2, KeepGrows
<1>4. Unlocked = m - ppm.nLocked - KeepOf(m)
  BY <1>1 DEF Unlocked, PhysicalMinUnlocked, PhysicalManaged, KeepOf
<1> QED
  BY <1>1, <1>2, <1>3, <1>4

\* The pages to be locked can be counted.
LEMMA ToLockType ==
  ASSUME TypeOK
  PROVE  /\ ToLock \subseteq Pages /\ IsFiniteSet(ToLock)
         /\ Cardinality(ToLock) \in Nat
<1>1. ToLock \subseteq Pages
  BY JobFields DEF ToLock
<1> QED
  BY <1>1, PageCount

\* A step that locks no more than it was to lock, and takes nothing from the
\* pool, keeps the working set.
LEMMA SameOrLess ==
  ASSUME WorkingSet, TypeOK, TypeOK', LocksAsked' => LocksAsked,
         ppm.managed \subseteq ppm'.managed,
         ppm'.nLocked + Cardinality(ToLock') <= ppm.nLocked + Cardinality(ToLock)
  PROVE  WorkingSet'
<1>1. PICK m, n : m = Cardinality(ppm.managed) /\ n = Cardinality(ppm'.managed)
  OBVIOUS
<1>2. m \in Nat /\ n \in Nat /\ m <= n
  <2>1. IsFiniteSet(ppm'.managed) /\ m \in Nat /\ n \in Nat
    BY <1>1, FrameCount DEF TypeOK, PpmType
  <2> QED
    BY <1>1, <2>1, FS_Subset
<1>3. /\ Unlocked = m - ppm.nLocked - KeepOf(m)
      /\ Unlocked' = n - ppm'.nLocked - KeepOf(n)
      /\ ppm.nLocked \in Int /\ ppm'.nLocked \in Int
  <2>1. TypeOK => Unlocked = Cardinality(ppm.managed) - ppm.nLocked
                               - KeepOf(Cardinality(ppm.managed))
    BY UnlockedOf
  <2>2. Unlocked' = Cardinality(ppm'.managed) - ppm'.nLocked
                      - KeepOf(Cardinality(ppm'.managed))
    BY DEF Unlocked, PhysicalMinUnlocked, PhysicalManaged, KeepOf
  <2> QED
    BY <1>1, <2>1, <2>2 DEF TypeOK, PpmType
<1>4. Cardinality(ToLock) \in Nat /\ Cardinality(ToLock') \in Nat
  <2>1. Cardinality(ToLock) \in Nat
    BY ToLockType
  <2>2. ToLock' \subseteq Pages
    BY DEF ToLock, TypeOK, JobType
  <2> QED
    BY <2>1, <2>2, PageCount
<1>5. /\ KeepOf(m) \in Nat /\ KeepOf(n) \in Nat
      /\ m - KeepOf(m) <= n - KeepOf(n)
  BY <1>2, KeepGrows
<1> SUFFICES ASSUME LocksAsked'
             PROVE  Cardinality(ToLock') <= Unlocked'
  BY DEF WorkingSet
<1>6. Cardinality(ToLock) <= Unlocked
  BY DEF WorkingSet
<1> QED
  BY <1>2, <1>3, <1>4, <1>5, <1>6

\* The operations of the pool that lock nothing and take nothing from it.
LEMMA LocksNoMore ==
  ASSUME NEW pm, PpmType(pm, Pages), NEW q,
         \/ q = pm
         \/ \E F : \/ q = PPM_FILL_POOL(pm, F) \/ q = PPM_QUERY(pm, F)
                   \/ q = PPM_MARK(pm, F)
         \/ \E F : /\ F \subseteq pm.alloced
                   /\ q = PPM_FREE(pm, F) \/ q = PPM_UNLOCK(pm, F)
         \/ \E f, page : q = Fixed(pm, f, page) \/ q = Pageable(pm, f, page)
  PROVE  pm.managed \subseteq q.managed /\ q.nLocked <= pm.nLocked
<1>1. pm.nLocked \in Int
  BY DEF PpmType
<1>2. ASSUME NEW F, \/ q = PPM_FILL_POOL(pm, F) \/ q = PPM_QUERY(pm, F)
                    \/ q = PPM_MARK(pm, F)
      PROVE  pm.managed \subseteq q.managed /\ q.nLocked <= pm.nLocked
  <2>1. CASE q = PPM_FILL_POOL(pm, F) \/ q = PPM_QUERY(pm, F)
    <3>1. q = pm \/ q = [pm EXCEPT !.managed = @ \cup F, !.needFill = FALSE]
      BY <2>1 DEF PPM_FILL_POOL, PPM_QUERY
    <3>2. CASE q = pm
      BY <1>1, <3>2
    <3>3. CASE q = [pm EXCEPT !.managed = @ \cup F, !.needFill = FALSE]
      <4>1. q.managed = pm.managed \cup F /\ q.nLocked = pm.nLocked
        BY <3>3 DEF PpmType
      <4> QED
        BY <1>1, <4>1
    <3> QED
      BY <3>1, <3>2, <3>3
  <2>2. CASE q = PPM_MARK(pm, F)
    BY <1>1, <2>2 DEF PpmType, PPM_MARK
  <2> QED
    BY <1>2, <2>1, <2>2
<1>3. ASSUME NEW f, NEW page, q = Fixed(pm, f, page) \/ q = Pageable(pm, f, page)
      PROVE  pm.managed \subseteq q.managed /\ q.nLocked <= pm.nLocked
  <2>1. q.managed = pm.managed /\ q.nLocked = pm.nLocked
    BY <1>3 DEF PpmType, PPM_ALLOC, Fixed, Pageable
  <2> QED
    BY <1>1, <2>1
<1>4. ASSUME NEW F, F \subseteq pm.alloced,
             q = PPM_FREE(pm, F) \/ q = PPM_UNLOCK(pm, F)
      PROVE  pm.managed \subseteq q.managed /\ q.nLocked <= pm.nLocked
  <2>1. PICK freed, last : /\ freed = {f \in F : pm.locks[f] # 0}
                           /\ last = LastLock(pm, F)
    OBVIOUS
  <2>2. freed \subseteq Frames /\ last \subseteq Frames
    BY <1>4, <2>1 DEF LastLock, PpmType
  <2>3. Cardinality(freed) \in Nat /\ Cardinality(last) \in Nat
    BY <2>2, FrameCount
  <2>4. /\ q.managed = pm.managed
        /\ \/ q.nLocked = pm.nLocked - Cardinality(freed)
           \/ q.nLocked = pm.nLocked - Cardinality(last)
    BY <1>4, <2>1 DEF PpmType, PPM_FREE, PPM_UNLOCK
  <2> QED
    BY <1>1, <2>3, <2>4
<1> QED
  BY <1>1, <1>2, <1>3, <1>4

\* A step with one of these, after which there is no page to be locked that
\* was not to be locked before.
LEMMA NoMoreLocks ==
  ASSUME WorkInv, TypeOK', ToLock' \subseteq ToLock,
         job'.op = "locking" => job.op = "locking",
         \/ ppm' = ppm
         \/ \E F : \/ ppm' = PPM_FILL_POOL(ppm, F) \/ ppm' = PPM_QUERY(ppm, F)
                   \/ ppm' = PPM_MARK(ppm, F)
         \/ \E F : /\ F \subseteq ppm.alloced
                   /\ ppm' = PPM_FREE(ppm, F) \/ ppm' = PPM_UNLOCK(ppm, F)
         \/ \E f, page : ppm' = Fixed(ppm, f, page) \/ ppm' = Pageable(ppm, f, page)
  PROVE  WorkingSet'
<1>1. TypeOK /\ PpmType(ppm, Pages) /\ WorkingSet
  BY DEF WorkInv, CountInv, Inv, TypeOK
<1>2. ppm.managed \subseteq ppm'.managed /\ ppm'.nLocked <= ppm.nLocked
  BY <1>1, LocksNoMore
<1>3. ppm.nLocked \in Int /\ ppm'.nLocked \in Int
  BY <1>1 DEF TypeOK, PpmType
<1>4. LocksAsked' => LocksAsked
  BY <1>2, <1>3 DEF LocksAsked
<1>5. /\ Cardinality(ToLock') <= Cardinality(ToLock)
      /\ Cardinality(ToLock) \in Nat /\ Cardinality(ToLock') \in Nat
  <2>1. PICK a, b : a = ToLock /\ b = ToLock'
    OBVIOUS
  <2>2. IsFiniteSet(a) /\ b \subseteq a /\ Cardinality(a) \in Nat
    BY <1>1, <2>1, ToLockType
  <2>3. Cardinality(b) <= Cardinality(a) /\ Cardinality(b) \in Nat
    BY <2>2, FS_Subset, FS_CardinalityType
  <2> QED
    BY <2>1, <2>2, <2>3
<1>6. ppm'.nLocked + Cardinality(ToLock') <= ppm.nLocked + Cardinality(ToLock)
  BY <1>2, <1>3, <1>5
<1> QED
  BY <1>1, <1>2, <1>4, <1>6, SameOrLess

-----------------------------------------------------------------------------
(* Every step keeps the working set. *)

\* Steps that are none of VMM_LOCK's own, and do not shrink the pool.
LEMMA OtherSteps ==
  ASSUME WorkInv, TypeOK',
         \/ Overcommit \/ NoFrameLeft \/ LockStray \/ LockDone \/ Terminate
         \/ ExternalAlloc \/ ExternalFree \/ DrainSwap \/ DrainNothing
         \/ FillPool \/ VMM_QUERY \/ BSM_INIT_CLIENT \/ UNCHANGED vars
         \/ LSM_NEW_PAGE_TABLE \/ FreeExpanded \/ LeaveExpanded
         \/ LSM_INIT_CLIENT \/ FaultReserved \/ FaultSwapped
         \/ \E n : PPM_DRAIN_POOL(n)
         \/ \E c : DPMIFN_SWITCHADDR(c) \/ VMM_INIT_CLIENT(c)
         \/ \E S : VMM_MARK_CANDIDATES(S) \/ VMM_ALLOC(S)
         \/ \E p : VMM_PageFaultHandler(p) \/ Read(p)
         \/ \E p : \E w : Write(p, w)
  PROVE  WorkingSet'
<1>1. \/ ppm' = ppm
      \/ \E F : \/ ppm' = PPM_FILL_POOL(ppm, F) \/ ppm' = PPM_QUERY(ppm, F)
                \/ ppm' = PPM_MARK(ppm, F)
      \/ \E f, page : ppm' = Fixed(ppm, f, page) \/ ppm' = Pageable(ppm, f, page)
  <2>1. CASE FillPool \/ VMM_QUERY
    BY <2>1 DEF FillPool, VMM_QUERY
  <2>2. CASE BSM_INIT_CLIENT \/ \E S : VMM_ALLOC(S)
    BY <2>2 DEF BSM_INIT_CLIENT, VMM_ALLOC, LSM_ALLOC
  <2>3. CASE \E S : VMM_MARK_CANDIDATES(S)
    BY <2>3 DEF VMM_MARK_CANDIDATES
  <2>4. CASE LSM_NEW_PAGE_TABLE \/ FreeExpanded \/ LeaveExpanded \/ LSM_INIT_CLIENT
    BY <2>4
       DEF LSM_NEW_PAGE_TABLE, FreeExpanded, LeaveExpanded, LSM_INIT_CLIENT,
           NewTable, Fixed
  <2>5. CASE FaultReserved \/ FaultSwapped
    BY <2>5 DEF FaultReserved, FaultSwapped, Pageable
  <2> QED
    BY <2>1, <2>2, <2>3, <2>4, <2>5
       DEF Overcommit, NoFrameLeft, LockStray, LockDone, Terminate,
           ExternalAlloc, ExternalFree, DrainSwap, DrainNothing, vars,
           PPM_DRAIN_POOL, DPMIFN_SWITCHADDR, VMM_INIT_CLIENT,
           VMM_PageFaultHandler, Read, Write
<1>2. \/ job' = job /\ pte' = pte
      \/ job'.op # "locking"
  <2>1. CASE \/ LockDone \/ FreeExpanded \/ FaultReserved \/ FaultSwapped
             \/ DrainNothing
    BY <2>1, JobRecords
       DEF LockDone, FreeExpanded, FaultReserved, FaultSwapped, DrainNothing
  <2>2. CASE NoFrameLeft
    <3>1. \/ job' = job /\ pte' = pte
          \/ job' = Idle
          \/ job' = [job EXCEPT !.op = "gone"]
      BY <2>2 DEF NoFrameLeft
    <3>2. job \in JobType
      BY JobFields DEF WorkInv, CountInv, Inv
    <3> QED
      BY <3>1, <3>2, JobRecords, ZenonT(60) DEF Ops
  <2>3. CASE LeaveExpanded
    <3>1. job' = [job EXCEPT !.op = "gone"] /\ job \in JobType
      BY <2>3, JobFields DEF LeaveExpanded, WorkInv, CountInv, Inv
    <3> QED
      BY <3>1, JobRecords DEF Ops
  <2>4. CASE BSM_INIT_CLIENT \/ LSM_INIT_CLIENT \/ Terminate
             \/ (\E S : VMM_ALLOC(S)) \/ (\E c : VMM_INIT_CLIENT(c))
             \/ \E p : VMM_PageFaultHandler(p)
    <3>1. job' = Idle \/ \E op \in Ops \ {"locking"} : \E S, init : job' = Job(op, S, init)
      BY <2>4
         DEF BSM_INIT_CLIENT, LSM_INIT_CLIENT, Terminate, VMM_ALLOC, LSM_ALLOC,
             VMM_INIT_CLIENT, VMM_PageFaultHandler, Ops
    <3> QED
      BY <3>1, JobRecords DEF Job
  <2>5. CASE DrainSwap \/ \E n : PPM_DRAIN_POOL(n)
    <3>1. job' = Idle \/ \E op \in {"drain", "pageout"} : \E count, request :
                            job' = DrainJob(op, count, request)
      BY <2>5 DEF DrainSwap, PPM_DRAIN_POOL
    <3> QED
      BY <3>1, JobRecords, ZenonT(60) DEF DrainJob, Idle, Job
  <2>6. CASE \E p : \E w : Write(p, w)
    BY <2>6, JobRecords DEF Write, ClientRuns, Ready
  <2> QED
    BY <2>1, <2>2, <2>3, <2>4, <2>5, <2>6
       DEF Overcommit, LockStray, ExternalAlloc, ExternalFree, FillPool,
           VMM_QUERY, LSM_NEW_PAGE_TABLE, DPMIFN_SWITCHADDR,
           VMM_MARK_CANDIDATES, Read, vars
<1>3. ToLock' \subseteq ToLock /\ (job'.op = "locking" => job.op = "locking")
  BY <1>2 DEF ToLock
<1> QED
  BY <1>1, <1>3, NoMoreLocks

\* Steps that give frames back or unlock them.  Only a page that goes to the
\* backing store may go while pages are still to be locked.
LEMMA FreeingSteps ==
  ASSUME WorkInv, TypeOK',
         \/ Commit \/ VMM_TERMINATE_CLIENT
         \/ \E f : VMM_SWAP_OUT(f)
         \/ \E S : /\ S \subseteq Pages
                   /\ \/ VMM_FREE(S) \/ AllocUncommitted(S)
                      \/ VMM_UNLOCK(S) \/ VMM_DISCARD_PAGES(S)
  PROVE  WorkingSet'
<1>1. Inv /\ PpmType(ppm, Pages) /\ job \in JobType /\ pte \in [Pages -> EntryType]
  BY JobFields DEF WorkInv, CountInv, Inv, TypeOK
<1>2. \/ ppm' = ppm
      \/ \E F : /\ F \subseteq ppm.alloced
                /\ ppm' = PPM_FREE(ppm, F) \/ ppm' = PPM_UNLOCK(ppm, F)
  <2>1. CASE Commit
    <3>1. job.pages \subseteq Pages
      BY <1>1, JobFields DEF Inv
    <3>2. ppm' = ppm \/ ppm' = PPM_FREE(ppm, TableOf(job.pages))
      BY <2>1 DEF Commit
    <3>3. TableOf(job.pages) \subseteq ppm.alloced
      BY <1>1, <3>1, RegionAlloced
    <3> QED
      BY <3>2, <3>3
  <2>2. CASE VMM_TERMINATE_CLIENT
    <3>1. cur \in Clients /\ cur \in Owners
      BY <1>1, <2>2, Begun DEF VMM_TERMINATE_CLIENT, Doing, Owners
    <3>2. Area(cur) \subseteq Pages
      BY <3>1, PagesType
    <3>3. {table[cur], dir[cur]} \cap Frames \subseteq ppm.alloced
      BY <1>1, <3>1 DEF Inv, Framed, TablesFramed, DirectoriesFramed
    <3>4. FramesOf(Area(cur)) \subseteq ppm.alloced
      BY <1>1, <3>2, RegionAlloced
    <3>5. LeftFrames \subseteq ppm.alloced
      BY <3>3, <3>4 DEF LeftFrames, LeftPages
    <3>6. ppm' = PPM_FREE(ppm, LeftFrames)
      BY <2>2 DEF VMM_TERMINATE_CLIENT
    <3> QED
      BY <3>5, <3>6
  <2>3. CASE \E f : VMM_SWAP_OUT(f)
    <3>1. PICK f : f \in Victims(ppm) /\ ppm' = PPM_FREE(ppm, {f})
      BY <2>3 DEF VMM_SWAP_OUT
    <3>2. {f} \subseteq ppm.alloced
      BY <1>1, <3>1 DEF Victims, PpmType
    <3> QED
      BY <3>1, <3>2
  <2>4. ASSUME NEW S, S \subseteq Pages,
               \/ VMM_FREE(S) \/ AllocUncommitted(S)
               \/ VMM_UNLOCK(S) \/ VMM_DISCARD_PAGES(S)
        PROVE  \E F : /\ F \subseteq ppm.alloced
                      /\ ppm' = PPM_FREE(ppm, F) \/ ppm' = PPM_UNLOCK(ppm, F)
    <3>1. PICK P : P = {p \in S : pte[p].state \in {"present", "swapped"}}
      OBVIOUS
    <3>2. P \subseteq Pages
      BY <2>4, <3>1
    <3>3. /\ FramesOf(S) \subseteq ppm.alloced /\ TableOf(S) \subseteq ppm.alloced
          /\ FramesOf(P) \subseteq ppm.alloced
      BY <1>1, <2>4, <3>2, RegionAlloced
    <3>4. \/ ppm' = PPM_FREE(ppm, FramesOf(S) \cup TableOf(S))
          \/ ppm' = PPM_FREE(ppm, TableOf(S))
          \/ ppm' = PPM_UNLOCK(ppm, FramesOf(S))
          \/ ppm' = PPM_FREE(ppm, FramesOf(P))
      BY <2>4, <3>1
         DEF VMM_FREE, AllocUncommitted, VMM_UNLOCK, VMM_DISCARD_PAGES
    <3> QED
      BY <3>3, <3>4
  <2> QED
    BY <2>1, <2>2, <2>3, <2>4
<1>3. ToLock' \subseteq ToLock /\ (job'.op = "locking" => job.op = "locking")
  <2>1. CASE \E f : VMM_SWAP_OUT(f)
    <3>1. PICK f : VMM_SWAP_OUT(f)
      BY <2>1
    <3>2. PICK p, s : p = ppm.addr[f] /\ s = PutSlot(bsm, p)
      OBVIOUS
    <3>3. pte' = [pte EXCEPT ![p] = Swapped(s)] /\ f \in ppm.swappable
      BY <3>1, <3>2 DEF VMM_SWAP_OUT, SwapPage, Victims
    <3>4. p \in Pages /\ pte[p].state = "present"
      BY <1>1, <3>2, <3>3 DEF Inv, Framed, SwappableFramed
    <3>5. \A q \in Pages : pte[q].state = "locked" => pte'[q].state = "locked"
      BY <1>1, <3>3, <3>4
    <3>6. job' = job \/ job'.op # "locking"
      <4>1. \/ job' = job
            \/ \E op \in {"drain", "pageout"} : \E count, request :
                  job' = DrainJob(op, count, request)
        BY <3>1 DEF VMM_SWAP_OUT
      <4> QED
        BY <4>1 DEF DrainJob, Idle, Job
    <3>7. job.pages \subseteq Pages
      BY <1>1, JobFields DEF Inv
    <3> QED
      BY <3>5, <3>6, <3>7 DEF ToLock
  <2>2. CASE Commit \/ VMM_TERMINATE_CLIENT
    <3>1. \/ job' = Idle
          \/ \E op \in Ops \ {"locking"} : \E S, init : job' = Job(op, S, init)
      BY <2>2 DEF Commit, VMM_TERMINATE_CLIENT, Ops
    <3>2. job'.op # "locking"
      BY <3>1, JobRecords DEF Job
    <3> QED
      BY <3>2 DEF ToLock
  <2>3. ASSUME NEW S, \/ VMM_FREE(S) \/ AllocUncommitted(S)
                      \/ VMM_UNLOCK(S) \/ VMM_DISCARD_PAGES(S)
        PROVE  job'.op # "locking"
    <3>1. job' = Idle \/ \E P : job' = Job("expand", P, FALSE)
      BY <2>3 DEF VMM_FREE, AllocUncommitted, VMM_UNLOCK, VMM_DISCARD_PAGES,
                  ClientRuns, Ready
    <3> QED
      BY <3>1, JobRecords DEF Job
  <2>4. job'.op # "locking" => ToLock' \subseteq ToLock
    BY DEF ToLock
  <2> QED
    BY <2>1, <2>2, <2>3, <2>4
<1> QED
  BY <1>2, <1>3, NoMoreLocks

\* The first pass: it counts what the second is to lock.
LEMMA FirstPass ==
  ASSUME WorkInv, TypeOK',
         LockIOBuffer \/ \E S : S \subseteq Pages /\ VMM_LOCK(S)
  PROVE  WorkingSet'
<1>1. TypeOK /\ job \in JobType /\ ppm' = ppm /\ pte' = pte
  BY JobFields DEF WorkInv, CountInv, Inv, LockIOBuffer, VMM_LOCK
<1>2. Unlocked' = Unlocked
  BY <1>1 DEF Unlocked, PhysicalManaged, PhysicalMinUnlocked
<1>3. ASSUME NEW S, S \subseteq Pages, Lockable(S),
             job'.op = "locking", job'.pages = S
      PROVE  WorkingSet'
  <2>1. PICK P : P = {p \in S : pte[p].state # "locked"}
    OBVIOUS
  <2>2. ToLock' = P
    BY <1>1, <1>3, <2>1 DEF ToLock
  <2>3. Cardinality(P) \in Nat
    <3>1. P \subseteq Pages
      BY <1>3, <2>1
    <3> QED
      BY <3>1, PageCount
  <2>4. PICK m, k : m = PhysicalManaged(ppm) /\ k = PhysicalMinUnlocked(ppm)
    OBVIOUS
  <2>5. m \in Nat /\ k \in Nat /\ ppm.nLocked \in Int
    <3>1. m = Cardinality(ppm.managed) /\ k = KeepOf(Cardinality(ppm.managed))
      BY <2>4 DEF PhysicalManaged, PhysicalMinUnlocked, KeepOf
    <3> QED
      BY <1>1, <3>1, UnlockedOf
  <2>6. m - ppm.nLocked - Cardinality(P) >= k
    BY <1>3, <2>1, <2>4 DEF Lockable
  <2>7. Cardinality(P) <= Unlocked
    BY <2>3, <2>4, <2>5, <2>6 DEF Unlocked
  <2> QED
    BY <1>2, <2>2, <2>7 DEF WorkingSet
<1>4. CASE \E S : S \subseteq Pages /\ VMM_LOCK(S)
  <2>1. PICK S : S \subseteq Pages /\ Lockable(S) /\ job' = Job("locking", S, FALSE)
    BY <1>4 DEF VMM_LOCK
  <2>2. job'.op = "locking" /\ job'.pages = S
    BY <2>1 DEF Job
  <2> QED
    BY <1>3, <2>1, <2>2
<1>5. CASE LockIOBuffer /\ Lockable(job.pages)
  <2>1. job' = [job EXCEPT !.op = "locking"] /\ job.pages \subseteq Pages
    BY <1>1, <1>5, JobFields DEF LockIOBuffer
  <2>2. job'.op = "locking" /\ job'.pages = job.pages
    BY <1>1, <2>1, JobRecords DEF Ops
  <2> QED
    BY <1>3, <1>5, <2>1, <2>2
<1>6. CASE LockIOBuffer /\ ~Lockable(job.pages)
  <2>1. job'.op # "locking"
    BY <1>6 DEF LockIOBuffer, Job
  <2>2. ToLock' \subseteq ToLock
    BY <2>1 DEF ToLock
  <2> QED
    BY <1>1, <2>1, <2>2, NoMoreLocks
<1> QED
  BY <1>4, <1>5, <1>6

\* The second pass: a page that gets locked is no longer to be locked, and one
\* that was locked already does not count again.
LEMMA SecondPass ==
  ASSUME WorkInv, TypeOK', LockResident \/ LockReserved \/ LockSwapped
  PROVE  WorkingSet'
<1>1. PICK page, f : page = NextPage
                     /\ f = IF Resident(page) THEN pte[page].frame ELSE FreeHead(ppm)
  OBVIOUS
<1>2. /\ Inv /\ TypeOK /\ Framed /\ PpmType(ppm, Pages) /\ job \in JobType
      /\ pte \in [Pages -> EntryType] /\ WorkingSet
      /\ page \in job.pages /\ page \in Pages /\ job.op = "locking"
  BY <1>1, JobFields, JobPage
     DEF WorkInv, CountInv, Inv, TypeOK, LockResident, LockReserved,
         LockSwapped, Locking, Doing
<1>3. /\ job' = [job EXCEPT !.pages = @ \ {page}]
      /\ pte' = [pte EXCEPT ![page] = Locked(f, FALSE)]
  BY <1>1 DEF LockResident, LockReserved, LockSwapped, LockedPage, IsReserved,
              IsSwapped, Resident
<1>4. job'.op = "locking" /\ job'.pages = job.pages \ {page}
  BY <1>2, <1>3, JobRecords
<1>5. ToLock' = ToLock \ {page}
  <2>1. \A p \in Pages : p # page => pte'[p] = pte[p]
    BY <1>2, <1>3
  <2>2. job.pages \subseteq Pages
    BY <1>2, JobFields
  <2> QED
    BY <1>2, <1>4, <2>1, <2>2 DEF ToLock
<1>6. page \in ToLock <=> pte[page].state # "locked"
  BY <1>2 DEF ToLock
<1>7. /\ ppm'.managed = ppm.managed
      /\ \/ ppm'.nLocked = ppm.nLocked
         \/ ppm'.nLocked = ppm.nLocked + 1 /\ pte[page].state # "locked"
  <2>1. CASE LockResident
    <3>1. ppm' = PPM_LOCK(ppm, f) /\ Resident(page)
      BY <1>1, <2>1 DEF LockResident
    <3>2. pte[page].state = "locked" => ppm.locks[f] # 0
      BY <1>1, <1>2, <3>1 DEF Framed, PagesFramed, PpmType
    <3>3. /\ ppm'.managed = ppm.managed
          /\ \/ ppm'.nLocked = ppm.nLocked
             \/ ppm'.nLocked = ppm.nLocked + 1 /\ ppm.locks[f] = 0
      BY <1>2, <3>1 DEF PpmType, PPM_LOCK
    <3> QED
      BY <3>2, <3>3
  <2>2. CASE LockReserved \/ LockSwapped
    <3>1. /\ ppm' = PPM_LOCK(Fixed(ppm, f, page), f)
          /\ pte[page].state # "locked"
      BY <1>1, <2>2
         DEF LockReserved, LockSwapped, Fixed, IsReserved, IsSwapped, Resident
    <3>2. PICK r : r = Fixed(ppm, f, page)
      OBVIOUS
    <3>3. r.managed = ppm.managed /\ r.nLocked = ppm.nLocked
      BY <3>2 DEF PpmType, PPM_ALLOC, Fixed
    <3>4. f \in Free(ppm)
      BY <1>1, <1>2, <2>2, FreeHeadType
         DEF LockReserved, LockSwapped, FrameReady, IsReserved, IsSwapped,
             Resident
    <3>5. PpmType(r, Pages)
      BY <1>2, <3>2, <3>4, FixedRecord
    <3>6. /\ ppm'.managed = r.managed
          /\ ppm'.nLocked = r.nLocked \/ ppm'.nLocked = r.nLocked + 1
      BY <3>1, <3>2, <3>5 DEF PpmType, PPM_LOCK
    <3> QED
      BY <3>1, <3>3, <3>6
  <2> QED
    BY <2>1, <2>2
<1>8. Cardinality(ToLock') = IF page \in ToLock THEN Cardinality(ToLock) - 1
                             ELSE Cardinality(ToLock)
  <2>1. PICK T : T = ToLock
    OBVIOUS
  <2>2. IsFiniteSet(T)
    BY <1>2, <2>1, ToLockType
  <2>3. Cardinality(T \ {page}) = IF page \in T THEN Cardinality(T) - 1
                                  ELSE Cardinality(T)
    BY <2>2, FS_RemoveElement
  <2> QED
    BY <1>5, <2>1, <2>3
<1>9. ppm.nLocked \in Int /\ Cardinality(ToLock) \in Nat
  BY <1>2, ToLockType DEF PpmType
<1>10. ppm'.nLocked + Cardinality(ToLock') <= ppm.nLocked + Cardinality(ToLock)
  BY <1>6, <1>7, <1>8, <1>9
<1>11. LocksAsked
  BY <1>2 DEF LocksAsked
<1> QED
  BY <1>2, <1>7, <1>10, <1>11, SameOrLess

\* A drain takes no more from the pool than locks leave.
LEMMA DrainKeeps ==
  ASSUME WorkInv, TypeOK', DrainRelease
  PROVE  WorkingSet'
<1>1. /\ TypeOK /\ PpmType(ppm, Pages) /\ WorkingSet /\ job.request \in Nat
      /\ bsm.total \in Nat /\ bsm.map \subseteq Slots /\ reserved \in Int
  BY JobFields, StoreAssumption DEF WorkInv, CountInv, Inv, TypeOK, BsmType
<1>2. PICK F : /\ F \subseteq Free(ppm) /\ Cardinality(F) = Drainable
               /\ ppm' = PPM_RELEASE(ppm, F) /\ job' = Idle
  BY DEF DrainRelease
<1>3. PICK m, n : m = Cardinality(ppm.managed) /\ n = Cardinality(ppm'.managed)
  OBVIOUS
<1>4. ppm'.managed = ppm.managed \ F /\ ppm'.nLocked = ppm.nLocked
  BY <1>2 DEF PpmType, PPM_RELEASE
<1>5. /\ m \in Nat /\ n \in Nat /\ Cardinality(F) \in Nat
      /\ n = m - Cardinality(F)
  <2>1. PICK M : M = ppm.managed
    OBVIOUS
  <2>2. M \subseteq Frames /\ F \subseteq M
    BY <1>1, <1>2, <2>1 DEF PpmType, Free
  <2>3. M \ F \subseteq Frames /\ F \subseteq Frames /\ M \cap F = F
    BY <2>2
  <2>4. Cardinality(M \ F) = Cardinality(M) - Cardinality(M \cap F)
    BY <2>2, FrameCount, FS_Difference
  <2> QED
    BY <1>3, <1>4, <2>1, <2>2, <2>3, <2>4, FrameCount
<1>6. /\ Unlocked = m - ppm.nLocked - KeepOf(m)
      /\ ppm.nLocked \in Int /\ KeepOf(m) \in Nat /\ Unlocked \in Int
  BY <1>1, <1>3, UnlockedOf
<1>7. Unlocked' = n - ppm.nLocked - KeepOf(n)
  BY <1>3, <1>4 DEF Unlocked, PhysicalMinUnlocked, PhysicalManaged, KeepOf
<1>8. KeepOf(n) \in Nat /\ KeepOf(n) <= KeepOf(m)
  BY <1>5, KeepGrows
<1>9. Cardinality(F) <= Unlocked
  <2>1. PhysicalFree(ppm) \in Nat
    <3>1. Free(ppm) \subseteq Frames
      BY <1>1 DEF Free, PpmType
    <3> QED
      BY <3>1, FrameCount DEF PhysicalFree
  <2>2. BSFree(bsm) \in Int
    BY <1>1, SlotCount DEF BSFree
  <2>3. Committable \in Int
    BY <1>1, <2>1, <2>2 DEF Committable
  <2> QED
    BY <1>1, <1>2, <1>5, <1>6, <2>1, <2>2, <2>3 DEF Drainable, Lesser
<1>10. job'.op # "locking" /\ Cardinality(ToLock') = 0
  <2>1. job'.op # "locking"
    BY <1>2, JobRecords
  <2>2. ToLock' = {}
    BY <2>1 DEF ToLock
  <2> QED
    BY <2>1, <2>2, FS_EmptySet
<1>11. 0 <= Unlocked'
  BY <1>5, <1>6, <1>7, <1>8, <1>9
<1> QED
  BY <1>10, <1>11 DEF WorkingSet

-----------------------------------------------------------------------------
(* The invariant, and what follows from it. *)

\* At the start nothing is locked.
LEMMA InitWork == Init => WorkInv
<1> SUFFICES ASSUME Init
             PROVE  WorkInv
  OBVIOUS
<1>1. CountInv
  BY InitCounted
<1>2. ppm.nLocked = 0 /\ job.op # "locking"
  BY JobRecords DEF Init, PPM_INIT
<1> QED
  BY <1>1, <1>2 DEF WorkInv, WorkingSet, LocksAsked

\* A call on a region keeps the working set.
LEMMA CallWork ==
  ASSUME WorkInv, TypeOK', NEW o \in Owners, NEW S \in Callable(o), Call(S)
  PROVE  WorkingSet'
<1>1. S \subseteq Pages
  BY CallableType
<1>2. CASE VMM_ALLOC(S) \/ VMM_MARK_CANDIDATES(S)
  BY <1>2, OtherSteps
<1>3. CASE \/ VMM_FREE(S) \/ AllocUncommitted(S)
           \/ VMM_UNLOCK(S) \/ VMM_DISCARD_PAGES(S)
  BY <1>1, <1>3, FreeingSteps
<1>4. CASE VMM_LOCK(S)
  BY <1>1, <1>4, FirstPass
<1> QED
  BY <1>2, <1>3, <1>4 DEF Call

\* And so does every step.
LEMMA NextWork == WorkInv /\ [Next]_vars => WorkInv'
<1> SUFFICES ASSUME WorkInv, [Next]_vars
             PROVE  WorkInv'
  OBVIOUS
<1>1. CountInv' /\ TypeOK'
  BY NextCounted DEF WorkInv, CountInv, Inv
<1>2. WorkingSet'
  <2>1. CASE Host
    <3>1. CASE Commit \/ VMM_TERMINATE_CLIENT \/ \E f \in Frames : VMM_SWAP_OUT(f)
      BY <1>1, <3>1, FreeingSteps
    <3>2. CASE LockIOBuffer
      BY <1>1, <3>2, FirstPass
    <3>3. CASE LockResident \/ LockReserved \/ LockSwapped
      BY <1>1, <3>3, SecondPass
    <3>4. CASE DrainRelease
      BY <1>1, <3>4, DrainKeeps
    <3>5. CASE VMM_SHUTDOWN
      <4>1. ppm'.nLocked = 0 /\ job'.op # "locking"
        BY <3>5, JobRecords DEF VMM_SHUTDOWN, PPM_INIT
      <4> QED
        BY <4>1 DEF WorkingSet, LocksAsked
    <3>6. CASE \/ FillPool \/ Overcommit \/ NoFrameLeft \/ LockStray \/ LockDone
               \/ DrainSwap \/ DrainNothing \/ BSM_INIT_CLIENT
               \/ LSM_NEW_PAGE_TABLE \/ FreeExpanded \/ LeaveExpanded
               \/ LSM_INIT_CLIENT \/ FaultReserved \/ FaultSwapped
      BY <1>1, <3>6, OtherSteps
    <3> QED
      BY <2>1, <3>1, <3>2, <3>3, <3>4, <3>5, <3>6 DEF Host, TakeFrame
  <2>2. CASE Client
    <3>1. CASE \E o \in Mine \cap Owners : \E S \in Callable(o) : Call(S)
      BY <1>1, <3>1, CallWork
    <3>2. CASE \/ \E p \in Pages : VMM_PageFaultHandler(p) \/ Read(p)
               \/ \E p \in Pages, w \in Values : Write(p, w)
               \/ VMM_QUERY \/ Terminate
               \/ \E c \in Clients : DPMIFN_SWITCHADDR(c) \/ VMM_INIT_CLIENT(c)
      BY <1>1, <3>2, OtherSteps
    <3> QED
      BY <2>2, <3>1, <3>2 DEF Client
  <2>3. CASE ExternalAlloc \/ ExternalFree
    BY <1>1, <2>3, OtherSteps
  <2>4. CASE \E n \in 1..MaxDrain : PPM_DRAIN_POOL(n)
    BY <1>1, <2>4, OtherSteps
  <2>5. CASE UNCHANGED vars
    BY <1>1, <2>5, OtherSteps
  <2> QED
    BY <2>1, <2>2, <2>3, <2>4, <2>5 DEF Next, Primary, Stopped
<1> QED
  BY <1>1, <1>2 DEF WorkInv

\* Locks never eat into the working set: in every reachable state in which a
\* page is locked, PhysicalMinUnlocked frames of the pool are not locked, also
\* while VMM_LOCK waits for frames between its passes, and after a drain has
\* given frames back.
THEOREM WorkingSetStays == Spec => []WorkingSetKept
<1>1. WorkInv => WorkingSetKept
  <2> SUFFICES ASSUME WorkInv
               PROVE  WorkingSetKept
    OBVIOUS
  <2>1. TypeOK /\ WorkingSet
    BY DEF WorkInv, CountInv, Inv
  <2>2. Cardinality(ToLock) \in Nat /\ Unlocked \in Int
    BY <2>1, ToLockType, UnlockedOf
  <2> QED
    BY <2>1, <2>2 DEF WorkingSet, LocksAsked, WorkingSetKept
<1> QED
  BY InitWork, NextWork, <1>1, PTL DEF Spec

=============================================================================
