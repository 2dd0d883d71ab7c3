--------------------------- MODULE DpmiVmm_proofs ---------------------------
(***************************************************************************)
(* Proofs about the DPMI virtual memory manager, for any number of frames, *)
(* clients, pages and slots: its type invariant, that no frame serves two  *)
(* purposes (FrameIsolation), and that the lock counts and the swappable   *)
(* frames agree with the page tables (LocksMatch).                         *)
(*                                                                         *)
(* None of the three is inductive alone.  What a call releases or changes  *)
(* is found through the page table entries, so the entries must be sound   *)
(* (Framed, SlotsSound); a page table may be given up only if nothing      *)
(* behind it is committed (TablesCover); a call names a block, so every    *)
(* committed page must lie in a block of one owner (BlocksCover,           *)
(* BlocksOwned); and a call that waits for a frame relies on what it found *)
(* out before it began to wait (JobSound).                                 *)
(***************************************************************************)
EXTENDS DpmiVmm, FiniteSetTheorems, TLAPS

Clean(p) == pte[p].state \in {"unalloc", "uncommitted"}

\* The entry of a page that is swapped out names a slot.
SlotsSound == \A p \in Pages : IsSwapped(p) => pte[p].slot \in Slots

\* Without a page table nothing in the area is committed.
TablesCover == \A p \in Pages : ~HasTable(p.owner) => Clean(p)

\* Committed pages lie in allocated blocks, and a block has one owner.
BlocksCover == \A p \in Pages : ~Clean(p) => p \in UNION blocks

BlocksOwned ==
    \A S \in blocks : S # {} /\ \A p, q \in S : p.owner = q.owner

\* What a job found out before it began to wait for a frame.
JobSound ==
    /\ job.op \notin {"idle", "drain", "pageout"} => cur \in Clients
    /\ job.op \in {"lock", "expand", "fault"} => job.pages # {}
    /\ job.op = "alloc" => job.pages \in blocks
    /\ job.op \in {"alloc", "expand"} => \A p \in job.pages : Clean(p)

\* FrameIsolation and LocksMatch, page by page, table by table.
PagesFramed ==
    \A p \in Pages : Resident(p) =>
        /\ pte[p].frame \in ppm.alloced
        /\ ppm.addr[pte[p].frame] = p
        /\ IF pte[p].state = "locked"
           THEN ppm.locks[pte[p].frame] > 0 /\ pte[p].frame \notin ppm.swappable
           ELSE ppm.locks[pte[p].frame] = 0 /\ pte[p].frame \in ppm.swappable

SwappableFramed ==
    \A f \in ppm.swappable :
        /\ ppm.addr[f] \in Pages
        /\ pte[ppm.addr[f]].frame = f
        /\ pte[ppm.addr[f]].state = "present"

TablesFramed ==
    \A o \in Owners : table[o] \in Frames =>
        /\ table[o] \in ppm.alloced
        /\ ppm.addr[table[o]] = NoPage
        /\ \A q \in Owners : table[q] = table[o] => q = o
        /\ \A c \in Clients : dir[c] # table[o]

DirectoriesFramed ==
    \A c \in Clients : dir[c] \in Frames =>
        /\ dir[c] \in ppm.alloced
        /\ ppm.addr[dir[c]] = NoPage
        /\ \A d \in Clients : dir[d] = dir[c] => d = c

Framed ==
    /\ ppm.managed \cap outside = {}
    /\ PagesFramed
    /\ SwappableFramed
    /\ TablesFramed
    /\ DirectoriesFramed

Mapped ==
    /\ SlotsSound
    /\ TablesCover
    /\ BlocksCover
    /\ BlocksOwned

Inv == TypeOK /\ Mapped /\ JobSound /\ Framed

-----------------------------------------------------------------------------
(* Least elements. *)

NatLess == {ss \in Nat \X Nat : ss[1] < ss[2]}

\* A set of numbers has a least one.
LEMMA LeastNat ==
  ASSUME NEW S, S \subseteq Nat, S # {}
  PROVE  \E m \in S : \A n \in S : m <= n
<1>1. IsWellFoundedOn(NatLess, Nat)
  BY NatLessThanWellFounded DEF OpToRel, NatLess
<1>2. PICK m \in S : \A n \in S : <<n, m>> \notin NatLess
  BY <1>1, WFMin, Zenon
<1>3. \A n \in S : ~(n < m)
  BY <1>2 DEF NatLess
<1> QED
  BY <1>3

\* Pages are records of an owner and an address, and NoPage is none.
LEMMA PagesType ==
  /\ Pages = UNION {Area(o) : o \in Owners}
  /\ \A p \in Pages : /\ p.owner \in Owners
                      /\ p.va \in PrivateVA \cup SharedVA
                      /\ p.va \in Nat
                      /\ p \in Area(p.owner)
                      /\ p = [owner |-> p.owner, va |-> p.va]
                      /\ p \in Keys
  /\ \A o \in Owners : /\ Area(o) \subseteq Pages
                       /\ \A p \in Area(o) : p.owner = o
  /\ NoPage \notin Pages
BY VmmAssumption DEF Pages, Area, Keys, VA, Owners

\* The next page of a job is one of its pages.
LEMMA NextPageType ==
  ASSUME job.pages \subseteq Pages, job.pages # {}
  PROVE  NextPage \in job.pages /\ NextPage \in Pages
<1> DEFINE T == {p.va : p \in job.pages}
<1>1. T \subseteq Nat /\ T # {}
  BY PagesType
<1>2. PICK m \in T : \A n \in T : m <= n
  BY <1>1, LeastNat, Zenon
<1>3. \E p \in job.pages : \A q \in job.pages : p.va <= q.va
  BY <1>2
<1> QED
  BY <1>3 DEF NextPage

\* The first of some slots is one of them.
LEMMA FirstSlotType ==
  ASSUME NEW S, S \subseteq Slots, S # {}
  PROVE  FirstSlot(S) \in S
<1>1. S \subseteq Nat
  BY StoreAssumption DEF Slots
<1>2. \E s \in S : \A t \in S : s <= t
  BY <1>1, LeastNat, Zenon
<1> QED
  BY <1>2 DEF FirstSlot

-----------------------------------------------------------------------------
(* Cardinalities. *)

\* Sets of frames, pages and slots can be counted.
LEMMA FrameCount ==
  ASSUME NEW F, F \subseteq Frames
  PROVE  IsFiniteSet(F) /\ Cardinality(F) \in Nat
BY PoolAssumption, FS_Subset, FS_CardinalityType

\* The same of pages.
LEMMA PageCount ==
  ASSUME NEW S, S \subseteq Pages
  PROVE  IsFiniteSet(S) /\ Cardinality(S) \in Nat
BY VmmAssumption, FS_Subset, FS_CardinalityType

\* The same of slots.
LEMMA SlotCount ==
  ASSUME NEW S, S \subseteq Slots
  PROVE  IsFiniteSet(S) /\ Cardinality(S) \in Nat
<1>1. IsFiniteSet(Slots)
  BY StoreAssumption, FS_Interval DEF Slots
<1> QED
  BY <1>1, FS_Subset, FS_CardinalityType

-----------------------------------------------------------------------------
(* What the operations of the page pool do to its record. *)

\* The head of the free list is managed and not allocated.
LEMMA FreeHeadType ==
  ASSUME NEW pm, PpmType(pm, Pages), Free(pm) # {}
  PROVE  /\ FreeHead(pm) \in Free(pm)
         /\ FreeHead(pm) \in Frames
         /\ FreeHead(pm) \in pm.managed
         /\ FreeHead(pm) \notin pm.alloced
BY DEF FreeHead, Free, PpmType

\* PPM_INIT leaves an empty pool.
LEMMA InitPool ==
  /\ PpmType(PPM_INIT, Pages)
  /\ PPM_INIT.managed = {} /\ PPM_INIT.alloced = {}
  /\ PPM_INIT.swappable = {}
BY PoolAssumption DEF PpmType, PPM_INIT

\* Filling the pool adds frames of the primary manager, and no more.
LEMMA FillPoolRecord ==
  ASSUME NEW pm, PpmType(pm, Pages), NEW avail, avail \subseteq Frames,
         NEW q, q = PPM_FILL_POOL(pm, avail) \/ q = PPM_QUERY(pm, avail)
  PROVE  /\ PpmType(q, Pages)
         /\ pm.managed \subseteq q.managed
         /\ q.managed \subseteq pm.managed \cup avail
         /\ q.alloced = pm.alloced /\ q.swappable = pm.swappable
         /\ q.locks = pm.locks /\ q.addr = pm.addr
<1>1. q = pm \/ q = [pm EXCEPT !.managed = @ \cup avail, !.needFill = FALSE]
  BY DEF PPM_FILL_POOL, PPM_QUERY
<1>2. CASE q = pm
  BY <1>2
<1>3. CASE q = [pm EXCEPT !.managed = @ \cup avail, !.needFill = FALSE]
  <2>1. q = [managed |-> pm.managed \cup avail, alloced |-> pm.alloced,
             swappable |-> pm.swappable, marked |-> pm.marked,
             locks |-> pm.locks, addr |-> pm.addr, nLocked |-> pm.nLocked,
             nSwappable |-> pm.nSwappable, needFill |-> FALSE]
    BY <1>3 DEF PpmType
  <2>2. PpmType(q, Pages)
    BY <2>1 DEF PpmType
  <2> QED
    BY <2>1, <2>2
<1> QED
  BY <1>1, <1>2, <1>3

\* Releasing free frames changes nothing that is allocated.
LEMMA ReleaseRecord ==
  ASSUME NEW pm, PpmType(pm, Pages), NEW F, F \subseteq Free(pm),
         NEW q, q = PPM_RELEASE(pm, F)
  PROVE  /\ PpmType(q, Pages)
         /\ q.managed \subseteq pm.managed
         /\ q.alloced = pm.alloced /\ q.swappable = pm.swappable
         /\ q.locks = pm.locks /\ q.addr = pm.addr
BY DEF PpmType, PPM_RELEASE, Free

\* A record with fields of these types is a pool.
LEMMA PoolRecord ==
  ASSUME NEW q,
         q = [managed |-> q.managed, alloced |-> q.alloced,
              swappable |-> q.swappable, marked |-> q.marked,
              locks |-> q.locks, addr |-> q.addr, nLocked |-> q.nLocked,
              nSwappable |-> q.nSwappable, needFill |-> q.needFill],
         q.managed \in SUBSET Frames, q.alloced \in SUBSET q.managed,
         q.swappable \in SUBSET q.alloced, q.marked \in SUBSET q.alloced,
         q.locks \in [Frames -> 0..MaxLocks],
         q.addr \in [Frames -> Pages \cup {NoPage}],
         q.nLocked \in Int, q.nSwappable \in Int, q.needFill \in BOOLEAN
  PROVE  PpmType(q, Pages)
BY DEF PpmType

\* A frame for something that cannot be swapped out, and for a page that can.
Fixed(pm, f, page) == PPM_ALLOC(pm, f, page, FALSE)
Pageable(pm, f, page) == PPM_ALLOC(pm, f, page, TRUE)

\* Taking a frame for a table, a directory or a page to be locked.
LEMMA FixedRecord ==
  ASSUME NEW pm, PpmType(pm, Pages), NEW f \in Free(pm),
         NEW page \in Pages \cup {NoPage}, NEW q, q = Fixed(pm, f, page)
  PROVE  /\ PpmType(q, Pages)
         /\ q.managed = pm.managed
         /\ q.alloced = pm.alloced \cup {f}
         /\ q.swappable = pm.swappable
         /\ q.locks = [pm.locks EXCEPT ![f] = 0]
         /\ q.addr = [pm.addr EXCEPT ![f] = page]
<1> DEFINE locks == [pm.locks EXCEPT ![f] = 0]
           addr == [pm.addr EXCEPT ![f] = page]
<1>1. q = [managed |-> pm.managed, alloced |-> pm.alloced \cup {f},
           swappable |-> pm.swappable, marked |-> pm.marked,
           locks |-> locks, addr |-> addr, nLocked |-> pm.nLocked,
           nSwappable |-> pm.nSwappable, needFill |-> pm.needFill]
  BY DEF PpmType, PPM_ALLOC, Fixed
<1>2. /\ pm.swappable \in SUBSET (pm.alloced \cup {f})
      /\ pm.marked \in SUBSET (pm.alloced \cup {f})
      /\ pm.alloced \cup {f} \in SUBSET pm.managed
      /\ pm.managed \in SUBSET Frames
      /\ pm.nLocked \in Int /\ pm.needFill \in BOOLEAN
      /\ pm.nSwappable \in Int
  BY DEF PpmType, Free
<1>3. locks \in [Frames -> 0..MaxLocks]
  BY PoolAssumption DEF PpmType, Free
<1>4. addr \in [Frames -> Pages \cup {NoPage}]
  BY DEF PpmType, Free
<1> HIDE DEF locks, addr
<1>5. /\ q.managed = pm.managed /\ q.alloced = pm.alloced \cup {f}
      /\ q.swappable = pm.swappable /\ q.marked = pm.marked
      /\ q.locks = locks /\ q.addr = addr /\ q.nLocked = pm.nLocked
      /\ q.nSwappable = pm.nSwappable /\ q.needFill = pm.needFill
  BY <1>1
<1>6. PpmType(q, Pages)
  BY <1>1, <1>2, <1>3, <1>4, <1>5, PoolRecord
<1> QED
  BY <1>5, <1>6 DEF locks, addr

\* Taking a frame for a page that may be swapped out.
LEMMA PageableRecord ==
  ASSUME NEW pm, PpmType(pm, Pages), NEW f \in Free(pm),
         NEW page \in Pages, NEW q, q = Pageable(pm, f, page)
  PROVE  /\ PpmType(q, Pages)
         /\ q.managed = pm.managed
         /\ q.alloced = pm.alloced \cup {f}
         /\ q.swappable = pm.swappable \cup {f}
         /\ q.locks = [pm.locks EXCEPT ![f] = 0]
         /\ q.addr = [pm.addr EXCEPT ![f] = page]
<1> DEFINE locks == [pm.locks EXCEPT ![f] = 0]
           addr == [pm.addr EXCEPT ![f] = page]
<1>1. q = [managed |-> pm.managed, alloced |-> pm.alloced \cup {f},
           swappable |-> pm.swappable \cup {f}, marked |-> pm.marked,
           locks |-> locks, addr |-> addr, nLocked |-> pm.nLocked,
           nSwappable |-> pm.nSwappable + 1, needFill |-> pm.needFill]
  BY DEF PpmType, PPM_ALLOC, Pageable
<1>2. /\ pm.swappable \cup {f} \in SUBSET (pm.alloced \cup {f})
      /\ pm.marked \in SUBSET (pm.alloced \cup {f})
      /\ pm.alloced \cup {f} \in SUBSET pm.managed
      /\ pm.managed \in SUBSET Frames
      /\ pm.nLocked \in Int /\ pm.needFill \in BOOLEAN
      /\ pm.nSwappable + 1 \in Int
  BY DEF PpmType, Free
<1>3. locks \in [Frames -> 0..MaxLocks]
  BY PoolAssumption DEF PpmType, Free
<1>4. addr \in [Frames -> Pages \cup {NoPage}]
  BY DEF PpmType, Free
<1> HIDE DEF locks, addr
<1>5. /\ q.managed = pm.managed /\ q.alloced = pm.alloced \cup {f}
      /\ q.swappable = pm.swappable \cup {f} /\ q.marked = pm.marked
      /\ q.locks = locks /\ q.addr = addr /\ q.nLocked = pm.nLocked
      /\ q.nSwappable = pm.nSwappable + 1 /\ q.needFill = pm.needFill
  BY <1>1
<1>6. PpmType(q, Pages)
  BY <1>1, <1>2, <1>3, <1>4, <1>5, PoolRecord
<1> QED
  BY <1>5, <1>6 DEF locks, addr

\* Freeing frames leaves the records of the others alone.
LEMMA FreeRecord ==
  ASSUME NEW pm, PpmType(pm, Pages), NEW F, F \subseteq Frames,
         NEW q, q = PPM_FREE(pm, F)
  PROVE  /\ PpmType(q, Pages)
         /\ q.managed = pm.managed
         /\ q.alloced = pm.alloced \ F
         /\ q.swappable = pm.swappable \ F
         /\ q.locks = pm.locks
         /\ \A f \in Frames \ F : q.addr[f] = pm.addr[f]
<1> DEFINE nLocked == pm.nLocked - Cardinality({f \in F : pm.locks[f] # 0})
           nSwappable == pm.nSwappable - Cardinality(F \cap pm.swappable)
           addr == [f \in Frames |-> IF f \in F THEN NoPage ELSE pm.addr[f]]
<1>1. q = [managed |-> pm.managed, alloced |-> pm.alloced \ F,
           swappable |-> pm.swappable \ F, marked |-> pm.marked \ F,
           locks |-> pm.locks, addr |-> addr, nLocked |-> nLocked,
           nSwappable |-> nSwappable, needFill |-> pm.needFill]
  BY DEF PpmType, PPM_FREE
<1>2. /\ Cardinality({f \in F : pm.locks[f] # 0}) \in Nat
      /\ Cardinality(F \cap pm.swappable) \in Nat
  BY FrameCount
<1>3. nLocked \in Int /\ nSwappable \in Int
  BY <1>2 DEF PpmType
<1>4. addr \in [Frames -> Pages \cup {NoPage}]
  BY DEF PpmType
<1>5. /\ pm.managed \in SUBSET Frames /\ pm.alloced \ F \in SUBSET pm.managed
      /\ pm.swappable \ F \in SUBSET (pm.alloced \ F)
      /\ pm.marked \ F \in SUBSET (pm.alloced \ F)
      /\ pm.locks \in [Frames -> 0..MaxLocks] /\ pm.needFill \in BOOLEAN
  BY DEF PpmType
<1>6. \A f \in Frames \ F : addr[f] = pm.addr[f]
  OBVIOUS
<1> HIDE DEF nLocked, nSwappable, addr
<1>7. /\ q.managed = pm.managed /\ q.alloced = pm.alloced \ F
      /\ q.swappable = pm.swappable \ F /\ q.marked = pm.marked \ F
      /\ q.locks = pm.locks /\ q.addr = addr /\ q.nLocked = nLocked
      /\ q.nSwappable = nSwappable /\ q.needFill = pm.needFill
  BY <1>1
<1>8. PpmType(q, Pages)
  BY <1>1, <1>3, <1>4, <1>5, <1>7, PoolRecord
<1> QED
  BY <1>6, <1>7, <1>8

\* Locking a frame takes it out of what may be swapped.
LEMMA LockRecord ==
  ASSUME NEW pm, PpmType(pm, Pages), NEW f \in Frames,
         NEW q, q = PPM_LOCK(pm, f)
  PROVE  /\ PpmType(q, Pages)
         /\ q.managed = pm.managed /\ q.alloced = pm.alloced
         /\ q.addr = pm.addr
         /\ IF pm.locks[f] = MaxLocks
            THEN q.swappable = pm.swappable /\ q.locks = pm.locks
            ELSE /\ q.swappable = pm.swappable \ {f}
                 /\ q.locks = [pm.locks EXCEPT ![f] = @ + 1]
<1>1. CASE pm.locks[f] = MaxLocks
  BY <1>1 DEF PPM_LOCK
<1>2. CASE pm.locks[f] # MaxLocks
  <2> DEFINE locks == [pm.locks EXCEPT ![f] = @ + 1]
             nLocked == IF pm.locks[f] = 0 THEN pm.nLocked + 1 ELSE pm.nLocked
             nSwappable == IF f \in pm.swappable THEN pm.nSwappable - 1
                           ELSE pm.nSwappable
  <2>1. q = [managed |-> pm.managed, alloced |-> pm.alloced,
             swappable |-> pm.swappable \ {f}, marked |-> pm.marked,
             locks |-> locks, addr |-> pm.addr, nLocked |-> nLocked,
             nSwappable |-> nSwappable, needFill |-> pm.needFill]
    BY <1>2 DEF PpmType, PPM_LOCK
  <2>2. locks \in [Frames -> 0..MaxLocks]
    BY <1>2, PoolAssumption DEF PpmType
  <2>3. nLocked \in Int /\ nSwappable \in Int
    BY DEF PpmType
  <2>4. /\ pm.managed \in SUBSET Frames /\ pm.alloced \in SUBSET pm.managed
        /\ pm.swappable \ {f} \in SUBSET pm.alloced
        /\ pm.marked \in SUBSET pm.alloced
        /\ pm.addr \in [Frames -> Pages \cup {NoPage}]
        /\ pm.needFill \in BOOLEAN
    BY DEF PpmType
  <2> HIDE DEF locks, nLocked, nSwappable
  <2>5. /\ q.managed = pm.managed /\ q.alloced = pm.alloced
        /\ q.swappable = pm.swappable \ {f} /\ q.marked = pm.marked
        /\ q.locks = locks /\ q.addr = pm.addr /\ q.nLocked = nLocked
        /\ q.nSwappable = nSwappable /\ q.needFill = pm.needFill
    BY <2>1
  <2>6. PpmType(q, Pages)
    BY <2>1, <2>2, <2>3, <2>4, <2>5, PoolRecord
  <2> QED
    BY <1>2, <2>5, <2>6 DEF locks
<1> QED
  BY <1>1, <1>2

\* Taking a frame and locking it once: its lock count starts at zero.
LEMMA LockedPageRecord ==
  ASSUME NEW pm, PpmType(pm, Pages), NEW f \in Free(pm), NEW page \in Pages,
         NEW q, q = PPM_LOCK(Fixed(pm, f, page), f)
  PROVE  /\ PpmType(q, Pages)
         /\ q.managed = pm.managed
         /\ q.alloced = pm.alloced \cup {f}
         /\ q.swappable = pm.swappable
         /\ q.locks = [pm.locks EXCEPT ![f] = 1]
         /\ q.addr = [pm.addr EXCEPT ![f] = page]
<1>1. PICK r : r = Fixed(pm, f, page)
  OBVIOUS
<1>2. page \in Pages \cup {NoPage}
  OBVIOUS
<1>3. q = PPM_LOCK(r, f)
  BY <1>1
<1>4. /\ PpmType(r, Pages)
      /\ r.managed = pm.managed
      /\ r.alloced = pm.alloced \cup {f}
      /\ r.swappable = pm.swappable
      /\ r.locks = [pm.locks EXCEPT ![f] = 0]
      /\ r.addr = [pm.addr EXCEPT ![f] = page]
  BY <1>1, <1>2, FixedRecord
<1>5. /\ f \in Frames /\ f \notin pm.swappable
      /\ pm.locks \in [Frames -> 0..MaxLocks]
  BY DEF PpmType, Free
<1>6. r.locks[f] = 0 /\ r.locks[f] # MaxLocks
  BY <1>4, <1>5, PoolAssumption
<1>7. /\ PpmType(q, Pages)
      /\ q.managed = r.managed /\ q.alloced = r.alloced
      /\ q.addr = r.addr
      /\ q.swappable = r.swappable \ {f}
      /\ q.locks = [r.locks EXCEPT ![f] = @ + 1]
  BY <1>3, <1>4, <1>5, <1>6, LockRecord
<1>8. q.locks = [pm.locks EXCEPT ![f] = 1]
  BY <1>4, <1>5, <1>7
<1> QED
  BY <1>4, <1>5, <1>6, <1>7, <1>8

\* Unlocking frames once each.
LEMMA UnlockRecord ==
  ASSUME NEW pm, PpmType(pm, Pages), NEW F, F \subseteq pm.alloced,
         NEW q, q = PPM_UNLOCK(pm, F)
  PROVE  /\ PpmType(q, Pages)
         /\ q.managed = pm.managed /\ q.alloced = pm.alloced
         /\ q.addr = pm.addr
         /\ q.swappable = pm.swappable \cup LastLock(pm, F)
         /\ q.locks \in [Frames -> 0..MaxLocks]
         /\ \A f \in Frames :
              q.locks[f] = IF f \in F /\ pm.locks[f] # 0
                           THEN pm.locks[f] - 1 ELSE pm.locks[f]
<1> DEFINE locks == [f \in Frames |-> IF f \in F /\ pm.locks[f] # 0
                                      THEN pm.locks[f] - 1 ELSE pm.locks[f]]
           last == LastLock(pm, F)
           nLocked == pm.nLocked - Cardinality(last)
           nSwappable == pm.nSwappable + Cardinality(last)
<1>1. q = [managed |-> pm.managed, alloced |-> pm.alloced,
           swappable |-> pm.swappable \cup last, marked |-> pm.marked,
           locks |-> locks, addr |-> pm.addr, nLocked |-> nLocked,
           nSwappable |-> nSwappable, needFill |-> pm.needFill]
  BY DEF PpmType, PPM_UNLOCK
<1>2. last \subseteq pm.alloced /\ Cardinality(last) \in Nat
  BY FrameCount DEF LastLock, PpmType
<1>3. nLocked \in Int /\ nSwappable \in Int
  BY <1>2 DEF PpmType
<1>4. locks \in [Frames -> 0..MaxLocks]
  BY PoolAssumption DEF PpmType
<1>5. /\ pm.managed \in SUBSET Frames /\ pm.alloced \in SUBSET pm.managed
      /\ pm.swappable \cup last \in SUBSET pm.alloced
      /\ pm.marked \in SUBSET pm.alloced
      /\ pm.addr \in [Frames -> Pages \cup {NoPage}]
      /\ pm.needFill \in BOOLEAN
  BY <1>2 DEF PpmType
<1>6. \A f \in Frames :
        locks[f] = IF f \in F /\ pm.locks[f] # 0
                   THEN pm.locks[f] - 1 ELSE pm.locks[f]
  OBVIOUS
<1> HIDE DEF locks, last, nLocked, nSwappable
<1>7. /\ q.managed = pm.managed /\ q.alloced = pm.alloced
      /\ q.swappable = pm.swappable \cup last /\ q.marked = pm.marked
      /\ q.locks = locks /\ q.addr = pm.addr /\ q.nLocked = nLocked
      /\ q.nSwappable = nSwappable /\ q.needFill = pm.needFill
  BY <1>1
<1>8. PpmType(q, Pages)
  BY <1>1, <1>3, <1>4, <1>5, <1>7, PoolRecord
<1> QED
  BY <1>4, <1>6, <1>7, <1>8 DEF last

-----------------------------------------------------------------------------
(* What the operations of the backing store do to its record. *)

StoreType(bs) == BsmType(bs, Keys, Words)

\* Every page has its entry in the cache.
LEMMA IndexType ==
  ASSUME NEW page \in Keys
  PROVE  BSM_GET_CACHE_ENTRY(page) \in CacheIndexes
<1>1. page.va \in Nat
  BY VmmAssumption DEF Keys
<1> QED
  BY <1>1, StoreAssumption DEF BSM_GET_CACHE_ENTRY, CacheIndexes

\* The operations of the backing store keep its type.
LEMMA StoreInit ==
  ASSUME NEW n \in 0..BSMax
  PROVE  StoreType(BSM_INIT(n))
BY DEF StoreType, BsmType, BSM_INIT, Words

\* The same of BSM_FREE.
LEMMA StoreFree ==
  ASSUME NEW bs, StoreType(bs), NEW S
  PROVE  StoreType(BSM_FREE(bs, S))
BY DEF StoreType, BsmType, BSM_FREE

\* The same of a flush that makes room.
LEMMA StoreFlush ==
  ASSUME NEW bs, StoreType(bs)
  PROVE  StoreType(MakeRoom(bs))
BY DEF StoreType, BsmType, BSM_FREE, MakeRoom, BSM_FLUSH_CACHE

\* The same of a file that grows: it never exceeds its limit.
LEMMA StoreGrow ==
  ASSUME NEW bs, StoreType(bs), NEW n \in {0, GrowBy(bs)}
  PROVE  StoreType(BSM_GROW(bs, n))
<1>1. bs.total \in 0..BSMax
  BY DEF StoreType, BsmType
<1>2. bs.total + n \in 0..BSMax
  BY <1>1, StoreAssumption DEF GrowBy
<1> QED
  BY <1>2 DEF StoreType, BsmType, BSM_GROW

\* BSM_PUTPAGE returns a slot if there is room.
LEMMA StorePut ==
  ASSUME NEW bs, StoreType(bs), NEW page \in Keys, NEW dirty \in BOOLEAN,
         NEW data \in Words, HasRoom(bs, page)
  PROVE  /\ PutSlot(bs, page) \in Slots
         /\ StoreType(BSM_PUTPAGE(bs, page, dirty, data))
<1>1. BSM_GET_CACHE_ENTRY(page) \in CacheIndexes
  BY IndexType
<1>2. CASE Hit(bs, page)
  <2>1. bs.cache[BSM_GET_CACHE_ENTRY(page)].slot \in Slots
    BY <1>1, <1>2 DEF Hit, StoreType, BsmType
  <2> QED
    BY <1>1, <1>2, <2>1 DEF PutSlot, BSM_PUTPAGE, StoreType, BsmType
<1>3. CASE ~Hit(bs, page)
  <2>1. PICK room : room = MakeRoom(bs)
    OBVIOUS
  <2>2. StoreType(room)
    BY <2>1, StoreFlush
  <2>3. Allocatable(room) # {} /\ Allocatable(room) \subseteq Slots
    BY <1>3, <2>1 DEF HasRoom, Allocatable
  <2>4. PICK s \in Slots : s = FirstSlot(Allocatable(room))
    BY <2>3, FirstSlotType
  <2>5. PutSlot(bs, page) = s
    BY <1>3, <2>1, <2>4 DEF PutSlot
  <2>6. BSM_PUTPAGE(bs, page, dirty, data)
          = [BSM_ALLOC(room) EXCEPT !.file[s] = data]
    BY <1>3, <2>1, <2>5 DEF BSM_PUTPAGE
  <2>7. BSM_ALLOC(room) = [room EXCEPT !.map = @ \cup {s}]
    BY <2>4 DEF BSM_ALLOC
  <2>8. StoreType([room EXCEPT !.map = @ \cup {s}])
    BY <2>2 DEF StoreType, BsmType
  <2>9. ASSUME NEW r, StoreType(r)
        PROVE  StoreType([r EXCEPT !.file[s] = data])
    BY <2>9 DEF StoreType, BsmType
  <2> QED
    BY <2>5, <2>6, <2>7, <2>8, <2>9, ZenonT(60)
<1> QED
  BY <1>2, <1>3

\* BSM_GETPAGE of a slot keeps the type of the store.
LEMMA StoreGet ==
  ASSUME NEW bs, StoreType(bs), NEW page \in Keys, NEW s \in Slots
  PROVE  /\ StoreType(BSM_GETPAGE(bs, page, s))
         /\ bs.file[s] \in Words
<1> DEFINE i == BSM_GET_CACHE_ENTRY(page)
           old == IF bs.cache[i] = NoEntry \/ Hit(bs, page) THEN {}
                  ELSE {bs.cache[i].slot}
<1>1. StoreType(BSM_FREE(bs, old))
  BY StoreFree
<1>2. BSM_GETPAGE(bs, page, s)
        = [BSM_FREE(bs, old) EXCEPT !.cache[i] = [page |-> page, slot |-> s]]
  BY DEF BSM_GETPAGE
<1> HIDE DEF i, old
<1> QED
  BY <1>1, <1>2 DEF StoreType, BsmType

-----------------------------------------------------------------------------
(* How steps keep every frame to one purpose. *)

\* Framed says all that FrameIsolation and LocksMatch say.
LEMMA FramedImplies ==
  TypeOK /\ Framed => FrameIsolation /\ LocksMatch
<1> SUFFICES ASSUME TypeOK, Framed
             PROVE  FrameIsolation /\ LocksMatch
  OBVIOUS
<1>1. ppm.alloced \subseteq Frames
  BY DEF TypeOK, PpmType
<1>2. InUse \subseteq ppm.alloced
  BY DEF InUse, FramesOf, Tables, HasTable, Directories, Framed, PagesFramed,
         TablesFramed, DirectoriesFramed
<1>3. \A p \in Residents : ppm.addr[pte[p].frame] = p
  BY DEF Residents, Framed, PagesFramed
<1>4. \A f \in ppm.swappable :
        /\ ppm.addr[f] \in Residents
        /\ pte[ppm.addr[f]].frame = f
        /\ pte[ppm.addr[f]].state = "present"
  BY DEF Residents, Resident, Framed, SwappableFramed
<1>5. /\ \A o \in Tables : ppm.addr[table[o]] = NoPage
      /\ \A o, q \in Tables : table[o] = table[q] => o = q
      /\ \A o \in Tables, c \in Directories : table[o] # dir[c]
  BY DEF Tables, HasTable, Directories, Framed, TablesFramed
<1>6. /\ \A c \in Directories : ppm.addr[dir[c]] = NoPage
      /\ \A c, d \in Directories : dir[c] = dir[d] => c = d
  BY DEF Directories, Framed, DirectoriesFramed
<1>7. LocksMatch
  BY DEF LocksMatch, Residents, Framed, PagesFramed
<1> QED
  BY <1>2, <1>3, <1>4, <1>5, <1>6, <1>7 DEF FrameIsolation, Framed

\* A page keeps its state and its frame.
KeepsFrame(p) ==
    pte'[p].state = pte[p].state /\ pte'[p].frame = pte[p].frame

\* Nothing is taken, the frames of F are released, and whatever still has a
\* frame has the one it had, which is not in F.
LEMMA Released ==
  ASSUME Framed, TypeOK, NEW F,
         ppm'.managed \cap outside' = {},
         ppm'.alloced = ppm.alloced \ F, ppm'.swappable = ppm.swappable \ F,
         ppm'.locks = ppm.locks,
         \A f \in Frames \ F : ppm'.addr[f] = ppm.addr[f],
         \A p \in Pages : \/ KeepsFrame(p)
                          \/ ~Resident(p)' /\ (Resident(p) => pte[p].frame \in F),
         \A p \in Pages : Resident(p)' => pte'[p].frame \notin F,
         \A o \in Owners : table'[o] \in Frames =>
                              table'[o] = table[o] /\ table[o] \notin F,
         \A c \in Clients : dir'[c] \in Frames =>
                              dir'[c] = dir[c] /\ dir[c] \notin F
  PROVE  Framed'
<1>1. ppm.alloced \subseteq Frames /\ ppm.swappable \subseteq Frames
  BY DEF TypeOK, PpmType
<1>2. \A p \in Pages : Resident(p)' => KeepsFrame(p) /\ Resident(p)
  BY DEF KeepsFrame, Resident
<1>3. PagesFramed'
  BY <1>1, <1>2 DEF Framed, PagesFramed, KeepsFrame
<1>4. SwappableFramed'
  <2> SUFFICES ASSUME NEW f \in ppm.swappable \ F
               PROVE  /\ ppm'.addr[f] \in Pages
                      /\ pte'[ppm'.addr[f]].frame = f
                      /\ pte'[ppm'.addr[f]].state = "present"
    BY DEF SwappableFramed
  <2>1. ppm'.addr[f] = ppm.addr[f]
    BY <1>1
  <2>2. /\ ppm.addr[f] \in Pages /\ pte[ppm.addr[f]].frame = f
        /\ pte[ppm.addr[f]].state = "present"
    BY DEF Framed, SwappableFramed
  <2>3. KeepsFrame(ppm.addr[f])
    BY <2>2 DEF Resident
  <2> QED
    BY <2>1, <2>2, <2>3 DEF KeepsFrame
<1>5. TablesFramed'
  <2> SUFFICES ASSUME NEW o \in Owners, table'[o] \in Frames
               PROVE  /\ table'[o] \in ppm'.alloced
                      /\ ppm'.addr[table'[o]] = NoPage
                      /\ \A q \in Owners : table'[q] = table'[o] => q = o
                      /\ \A c \in Clients : dir'[c] # table'[o]
    BY DEF TablesFramed
  <2>1. /\ table[o] \in ppm.alloced /\ ppm.addr[table[o]] = NoPage
        /\ \A q \in Owners : table[q] = table[o] => q = o
        /\ \A c \in Clients : dir[c] # table[o]
    BY DEF Framed, TablesFramed
  <2> QED
    BY <1>1, <2>1
<1>6. DirectoriesFramed'
  BY <1>1 DEF Framed, DirectoriesFramed
<1> QED
  BY <1>3, <1>4, <1>5, <1>6 DEF Framed

\* A frame is taken for a page table or a page directory.
LEMMA TakenForTable ==
  ASSUME Framed, TypeOK, NEW f \in Free(ppm),
         ppm' = Fixed(ppm, f, NoPage), outside' = outside,
         \A p \in Pages : KeepsFrame(p) \/ (~Resident(p)' /\ ~Resident(p)),
         \/ /\ dir' = dir
            /\ \E o \in Owners : table' = [table EXCEPT ![o] = f]
         \/ /\ table' = table
            /\ \E c \in Clients : dir' = [dir EXCEPT ![c] = f]
  PROVE  Framed'
<1>1. /\ ppm.alloced \subseteq Frames /\ ppm.swappable \subseteq ppm.alloced
      /\ f \in Frames /\ f \notin ppm.alloced
      /\ ppm.locks \in [Frames -> 0..MaxLocks]
      /\ ppm.addr \in [Frames -> Pages \cup {NoPage}]
  BY DEF TypeOK, PpmType, Free
<1>2. /\ ppm'.managed = ppm.managed
      /\ ppm'.alloced = ppm.alloced \cup {f}
      /\ ppm'.swappable = ppm.swappable
      /\ ppm'.locks = [ppm.locks EXCEPT ![f] = 0]
      /\ ppm'.addr = [ppm.addr EXCEPT ![f] = NoPage]
  <2>1. PpmType(ppm, Pages) /\ NoPage \in Pages \cup {NoPage}
    BY DEF TypeOK
  <2> QED
    BY <2>1, FixedRecord
<1>3. /\ \A g \in ppm.alloced : g # f /\ ppm'.locks[g] = ppm.locks[g]
                                 /\ ppm'.addr[g] = ppm.addr[g]
      /\ ppm'.addr[f] = NoPage
  BY <1>1, <1>2
<1>4. \A p \in Pages : Resident(p)' => KeepsFrame(p) /\ Resident(p)
  BY DEF KeepsFrame, Resident
<1>5. PagesFramed'
  BY <1>2, <1>3, <1>4 DEF Framed, PagesFramed, KeepsFrame
<1>6. SwappableFramed'
  <2> SUFFICES ASSUME NEW g \in ppm.swappable
               PROVE  /\ ppm'.addr[g] \in Pages
                      /\ pte'[ppm'.addr[g]].frame = g
                      /\ pte'[ppm'.addr[g]].state = "present"
    BY <1>2 DEF SwappableFramed
  <2>1. ppm'.addr[g] = ppm.addr[g]
    BY <1>1, <1>3
  <2>2. /\ ppm.addr[g] \in Pages /\ pte[ppm.addr[g]].frame = g
        /\ pte[ppm.addr[g]].state = "present"
    BY DEF Framed, SwappableFramed
  <2>3. KeepsFrame(ppm.addr[g])
    BY <2>2 DEF Resident
  <2> QED
    BY <2>1, <2>2, <2>3 DEF KeepsFrame
<1>7. /\ table \in [Owners -> Frames \cup {NoTable, UncommittedPDE}]
      /\ dir \in [Clients -> Frames \cup {NoFrame}]
  BY DEF TypeOK
<1>8. /\ \A o \in Owners : table[o] # f
      /\ \A c \in Clients : dir[c] # f
  BY <1>1 DEF Framed, TablesFramed, DirectoriesFramed
<1>9. CASE dir' = dir /\ \E o \in Owners : table' = [table EXCEPT ![o] = f]
  <2>1. PICK o \in Owners : table' = [table EXCEPT ![o] = f]
    BY <1>9
  <2>2. TablesFramed'
    BY <1>2, <1>3, <1>7, <1>8, <1>9, <2>1 DEF Framed, TablesFramed
  <2>3. DirectoriesFramed'
    BY <1>2, <1>3, <1>9 DEF Framed, DirectoriesFramed
  <2> QED
    BY <1>2, <1>5, <1>6, <2>2, <2>3 DEF Framed
<1>10. CASE table' = table /\ \E c \in Clients : dir' = [dir EXCEPT ![c] = f]
  <2>1. PICK c \in Clients : dir' = [dir EXCEPT ![c] = f]
    BY <1>10
  <2>2. TablesFramed'
    BY <1>2, <1>3, <1>7, <1>8, <1>10, <2>1 DEF Framed, TablesFramed
  <2>3. DirectoriesFramed'
    BY <1>2, <1>3, <1>7, <1>8, <2>1 DEF Framed, DirectoriesFramed
  <2> QED
    BY <1>2, <1>5, <1>6, <2>2, <2>3 DEF Framed
<1> QED
  BY <1>9, <1>10

\* A frame is taken for a page that had none; the page is locked or swappable.
LEMMA TakenForPage ==
  ASSUME Framed, TypeOK, NEW f \in Frames, f \notin ppm.alloced,
         NEW page \in Pages, ~Resident(page), NEW dirty,
         ppm'.managed = ppm.managed, outside' = outside,
         table' = table, dir' = dir,
         ppm'.alloced = ppm.alloced \cup {f},
         ppm'.addr = [ppm.addr EXCEPT ![f] = page],
         \/ /\ ppm'.swappable = ppm.swappable \cup {f}
            /\ ppm'.locks = [ppm.locks EXCEPT ![f] = 0]
            /\ pte' = [pte EXCEPT ![page] = Present(f, dirty)]
         \/ /\ ppm'.swappable = ppm.swappable
            /\ ppm'.locks = [ppm.locks EXCEPT ![f] = 1]
            /\ pte' = [pte EXCEPT ![page] = Locked(f, dirty)]
  PROVE  Framed'
<1>1. /\ ppm.alloced \subseteq Frames /\ ppm.swappable \subseteq ppm.alloced
      /\ ppm.locks \in [Frames -> 0..MaxLocks]
      /\ ppm.addr \in [Frames -> Pages \cup {NoPage}]
      /\ pte \in [Pages -> EntryType]
  BY DEF TypeOK, PpmType
<1>2. /\ \A g \in ppm.alloced : g # f /\ ppm'.locks[g] = ppm.locks[g]
                                 /\ ppm'.addr[g] = ppm.addr[g]
      /\ ppm'.addr[f] = page
  BY <1>1
<1>3. /\ \A p \in Pages : p # page => pte'[p] = pte[p]
      /\ pte'[page].frame = f
  BY <1>1 DEF Present, Locked, Entry
<1>4. IF f \in ppm'.swappable
      THEN pte'[page].state = "present" /\ ppm'.locks[f] = 0
      ELSE pte'[page].state = "locked" /\ ppm'.locks[f] = 1
  BY <1>1 DEF Present, Locked, Entry
<1>5. PagesFramed'
  <2>1. \A p \in Pages : p # page /\ Resident(p)' =>
          /\ pte'[p].frame \in ppm'.alloced
          /\ ppm'.addr[pte'[p].frame] = p
          /\ IF pte'[p].state = "locked"
             THEN /\ ppm'.locks[pte'[p].frame] > 0
                  /\ pte'[p].frame \notin ppm'.swappable
             ELSE /\ ppm'.locks[pte'[p].frame] = 0
                  /\ pte'[p].frame \in ppm'.swappable
    BY <1>2, <1>3 DEF Framed, PagesFramed, Resident
  <2> QED
    BY <1>2, <1>3, <1>4, <2>1 DEF PagesFramed
<1>6. SwappableFramed'
  <2> SUFFICES ASSUME NEW g \in ppm'.swappable
               PROVE  /\ ppm'.addr[g] \in Pages
                      /\ pte'[ppm'.addr[g]].frame = g
                      /\ pte'[ppm'.addr[g]].state = "present"
    BY DEF SwappableFramed
  <2>1. CASE g = f
    BY <1>2, <1>3, <1>4, <2>1
  <2>2. CASE g \in ppm.swappable
    <3>1. /\ ppm.addr[g] \in Pages /\ pte[ppm.addr[g]].frame = g
          /\ pte[ppm.addr[g]].state = "present"
      BY <2>2 DEF Framed, SwappableFramed
    <3>2. ppm.addr[g] # page
      BY <3>1 DEF Resident
    <3> QED
      BY <1>1, <1>2, <1>3, <2>2, <3>1, <3>2
  <2> QED
    BY <2>1, <2>2
<1>7. TablesFramed' /\ DirectoriesFramed'
  BY <1>2 DEF Framed, TablesFramed, DirectoriesFramed
<1> QED
  BY <1>5, <1>6, <1>7 DEF Framed
\* One more lock on a page in memory.  At MaxLocks the count stays, and the
\* page is locked already.
LEMMA LockedOnceMore ==
  ASSUME Framed, TypeOK, NEW page \in Pages, Resident(page), NEW dirty,
         ppm' = PPM_LOCK(ppm, pte[page].frame),
         pte' = [pte EXCEPT ![page] = Locked(@.frame, dirty)],
         outside' = outside, table' = table, dir' = dir
  PROVE  Framed'
<1> DEFINE f == pte[page].frame
<1>1. /\ ppm.alloced \subseteq Frames /\ ppm.swappable \subseteq ppm.alloced
      /\ ppm.locks \in [Frames -> 0..MaxLocks]
      /\ pte \in [Pages -> EntryType]
      /\ PpmType(ppm, Pages)
  BY DEF TypeOK, PpmType
<1>2. f \in Frames /\ f \in ppm.alloced /\ ppm.addr[f] = page
  BY <1>1 DEF Framed, PagesFramed
<1>3. /\ ppm'.managed = ppm.managed /\ ppm'.alloced = ppm.alloced
      /\ ppm'.addr = ppm.addr
      /\ IF ppm.locks[f] = MaxLocks
         THEN ppm'.swappable = ppm.swappable /\ ppm'.locks = ppm.locks
         ELSE /\ ppm'.swappable = ppm.swappable \ {f}
              /\ ppm'.locks = [ppm.locks EXCEPT ![f] = @ + 1]
  BY <1>1, <1>2, LockRecord
<1>4. ppm'.swappable = ppm.swappable \ {f} /\ ppm'.locks[f] > 0
  BY <1>1, <1>2, <1>3, PoolAssumption DEF Framed, PagesFramed
<1>5. \A g \in Frames : g # f => ppm'.locks[g] = ppm.locks[g]
  BY <1>1, <1>2, <1>3
<1>6. /\ \A p \in Pages : p # page => pte'[p] = pte[p]
      /\ pte'[page].frame = f /\ pte'[page].state = "locked"
  BY <1>1 DEF Locked, Entry
<1> HIDE DEF f
<1>7. \A p \in Pages : p # page /\ Resident(p) => pte[p].frame # f
  BY <1>2 DEF Framed, PagesFramed
<1>8. PagesFramed'
  <2>1. \A p \in Pages : p # page /\ Resident(p)' =>
          /\ pte'[p].frame \in ppm'.alloced
          /\ ppm'.addr[pte'[p].frame] = p
          /\ IF pte'[p].state = "locked"
             THEN /\ ppm'.locks[pte'[p].frame] > 0
                  /\ pte'[p].frame \notin ppm'.swappable
             ELSE /\ ppm'.locks[pte'[p].frame] = 0
                  /\ pte'[p].frame \in ppm'.swappable
    BY <1>1, <1>3, <1>4, <1>5, <1>6, <1>7 DEF Framed, PagesFramed, Resident
  <2> QED
    BY <1>2, <1>3, <1>4, <1>6, <2>1 DEF PagesFramed
<1>9. SwappableFramed'
  <2> SUFFICES ASSUME NEW g \in ppm.swappable, g # f
               PROVE  /\ ppm.addr[g] \in Pages
                      /\ pte'[ppm.addr[g]].frame = g
                      /\ pte'[ppm.addr[g]].state = "present"
    BY <1>3, <1>4 DEF SwappableFramed
  <2>1. /\ ppm.addr[g] \in Pages /\ pte[ppm.addr[g]].frame = g
        /\ pte[ppm.addr[g]].state = "present"
    BY DEF Framed, SwappableFramed
  <2>2. ppm.addr[g] # page
    BY <2>1 DEF f
  <2> QED
    BY <1>6, <2>1, <2>2
<1>10. TablesFramed' /\ DirectoriesFramed'
  BY <1>3 DEF Framed, TablesFramed, DirectoriesFramed
<1> QED
  BY <1>3, <1>8, <1>9, <1>10 DEF Framed

\* Every page of S, all of them locked, loses a lock; those that lose their
\* last one are present again.
LEMMA UnlockedOnce ==
  ASSUME Framed, TypeOK, NEW S, S \subseteq Pages,
         \A p \in S : pte[p].state = "locked",
         ppm' = PPM_UNLOCK(ppm, FramesOf(S)),
         pte' = [p \in Pages |->
                   IF p \in S /\ pte[p].frame \in LastLock(ppm, FramesOf(S))
                   THEN Present(pte[p].frame, TRUE) ELSE pte[p]],
         outside' = outside, table' = table, dir' = dir
  PROVE  Framed'
<1> DEFINE F == FramesOf(S)
           last == LastLock(ppm, F)
<1>1. /\ ppm.alloced \subseteq Frames /\ ppm.swappable \subseteq ppm.alloced
      /\ ppm.locks \in [Frames -> 0..MaxLocks]
      /\ PpmType(ppm, Pages)
  BY DEF TypeOK, PpmType
<1>2. F \subseteq ppm.alloced
  BY DEF FramesOf, Framed, PagesFramed
<1>3. /\ ppm'.managed = ppm.managed /\ ppm'.alloced = ppm.alloced
      /\ ppm'.addr = ppm.addr
      /\ ppm'.swappable = ppm.swappable \cup last
      /\ \A f \in Frames :
           ppm'.locks[f] = IF f \in F /\ ppm.locks[f] # 0
                           THEN ppm.locks[f] - 1 ELSE ppm.locks[f]
  BY <1>1, <1>2, UnlockRecord
<1>4. \A f \in last : f \in F /\ f \in ppm.alloced /\ ppm.locks[f] = 1
  BY <1>2 DEF LastLock
<1>5. \A f \in F : \E p \in S : f = pte[p].frame
  BY DEF FramesOf
<1>6. \A p \in Pages : Resident(p) /\ pte[p].frame \in F => p \in S
  BY <1>5 DEF Framed, PagesFramed, Resident
<1>7. \A p \in S : pte[p].frame \in F
  BY DEF FramesOf, Resident
<1>8. \A p \in Pages : /\ pte'[p].frame = pte[p].frame
                       /\ pte'[p].state = IF p \in S /\ pte[p].frame \in last
                                          THEN "present" ELSE pte[p].state
  BY DEF Present, Entry
<1> HIDE DEF F, last
<1>9. PagesFramed'
  <2> SUFFICES ASSUME NEW p \in Pages, Resident(p)'
               PROVE  /\ pte'[p].frame \in ppm'.alloced
                      /\ ppm'.addr[pte'[p].frame] = p
                      /\ IF pte'[p].state = "locked"
                         THEN /\ ppm'.locks[pte'[p].frame] > 0
                              /\ pte'[p].frame \notin ppm'.swappable
                         ELSE /\ ppm'.locks[pte'[p].frame] = 0
                              /\ pte'[p].frame \in ppm'.swappable
    BY DEF PagesFramed
  <2> DEFINE g == pte[p].frame
  <2>1. Resident(p)
    BY <1>8 DEF Resident
  <2>2. /\ g \in ppm.alloced /\ ppm.addr[g] = p /\ g \in Frames
        /\ ppm.locks[g] \in 0..MaxLocks
        /\ IF pte[p].state = "locked"
           THEN ppm.locks[g] > 0 /\ g \notin ppm.swappable
           ELSE ppm.locks[g] = 0 /\ g \in ppm.swappable
    BY <1>1, <2>1 DEF Framed, PagesFramed
  <2>3. pte'[p].frame = g
    BY <1>8
  <2> HIDE DEF g
  <2>4. g \in F <=> p \in S
    BY <1>6, <1>7, <2>1 DEF g
  <2>5. g \in last <=> g \in F /\ ppm.locks[g] = 1
    BY DEF last, LastLock, F
  <2>6. pte'[p].state = IF g \in last THEN "present" ELSE pte[p].state
    BY <1>8, <2>4, <2>5 DEF g
  <2>7. p \in S => pte[p].state = "locked"
    OBVIOUS
  <2>8. /\ g \in ppm'.alloced /\ ppm'.addr[g] = p
        /\ g \in ppm'.swappable <=> g \in ppm.swappable \/ g \in last
        /\ ppm'.locks[g] = IF g \in F /\ ppm.locks[g] # 0
                           THEN ppm.locks[g] - 1 ELSE ppm.locks[g]
    BY <1>3, <2>2
  <2>9. CASE g \in last
    <3>1. g \in F /\ ppm.locks[g] = 1
      BY <2>5, <2>9
    <3>2. ppm'.locks[g] = 0
      BY <2>8, <3>1
    <3>3. pte'[p].state = "present"
      BY <2>6, <2>9
    <3> QED
      BY <2>3, <2>8, <2>9, <3>2, <3>3
  <2>10. CASE g \notin last
    <3>1. pte'[p].state = pte[p].state
      BY <2>6, <2>10
    <3>2. CASE g \in F
      <4>1. ppm.locks[g] > 0 /\ ppm.locks[g] # 1 /\ ppm.locks[g] \in Nat
        BY <2>2, <2>4, <2>5, <2>7, <2>10, <3>2
      <4>2. ppm'.locks[g] > 0
        BY <2>8, <3>2, <4>1
      <4> QED
        BY <2>2, <2>3, <2>4, <2>7, <2>8, <2>10, <3>1, <3>2, <4>2
    <3>3. CASE g \notin F
      <4>1. ppm'.locks[g] = ppm.locks[g]
        BY <2>8, <3>3
      <4> QED
        BY <2>2, <2>3, <2>8, <2>10, <3>1, <4>1
    <3> QED
      BY <3>2, <3>3
  <2> QED
    BY <2>9, <2>10
<1>10. SwappableFramed'
  <2> SUFFICES ASSUME NEW f \in ppm.swappable \cup last
               PROVE  /\ ppm'.addr[f] \in Pages
                      /\ pte'[ppm'.addr[f]].frame = f
                      /\ pte'[ppm'.addr[f]].state = "present"
    BY <1>3 DEF SwappableFramed
  <2>0. ppm'.addr = ppm.addr
    BY <1>3
  <2>1. CASE f \in ppm.swappable
    <3>1. /\ ppm.addr[f] \in Pages /\ pte[ppm.addr[f]].frame = f
          /\ pte[ppm.addr[f]].state = "present"
      BY <2>1 DEF Framed, SwappableFramed
    <3> QED
      BY <1>8, <2>0, <3>1
  <2>2. CASE f \in last
    <3>1. PICK p \in S : f = pte[p].frame
      BY <1>4, <1>5, <2>2
    <3>2. ppm.addr[f] = p
      BY <3>1 DEF Framed, PagesFramed, Resident
    <3> QED
      BY <1>8, <2>0, <2>2, <3>1, <3>2, ZenonT(60)
  <2> QED
    BY <2>1, <2>2
<1>11. TablesFramed' /\ DirectoriesFramed'
  BY <1>3 DEF Framed, TablesFramed, DirectoriesFramed
<1> QED
  BY <1>3, <1>9, <1>10, <1>11 DEF Framed

-----------------------------------------------------------------------------
(* What calls name, and what jobs are. *)

\* A call names pages of one owner, and no I/O buffer.
LEMMA CallableType ==
  ASSUME NEW o \in Owners, NEW S \in Callable(o)
  PROVE  /\ S \subseteq Area(o) /\ S \subseteq Pages /\ S # {}
         /\ \A p \in S : p.owner = o
         /\ S \cap IOPages = {}
<1>1. S \subseteq Area(o) /\ S # {} /\ S \cap IOPages = {}
  BY DEF Callable, Regions
<1> QED
  BY <1>1, PagesType

\* The I/O buffer of a client is a page of its own area.
LEMMA IOPageType ==
  ASSUME NEW c \in Clients
  PROVE  IOPage(c) \in Pages /\ IOPage(c).owner = c
<1>1. \E v \in PrivateVA : \A w \in PrivateVA : v <= w
  BY VmmAssumption, LeastNat, Zenon
<1> DEFINE least == CHOOSE v \in PrivateVA : \A w \in PrivateVA : v <= w
<1>2. least \in PrivateVA
  BY <1>1
<1>3. c \in Owners /\ c # SharedOwner
  BY VmmAssumption DEF Owners
<1>4. IOPage(c) = [owner |-> c, va |-> least]
  BY DEF IOPage
<1> HIDE DEF least
<1>5. IOPage(c) \in Area(c)
  BY <1>2, <1>3, <1>4 DEF Area, VA
<1> QED
  BY <1>3, <1>5, PagesType

\* The owner of a region is that of any page in it.
LEMMA OwnerOf ==
  ASSUME NEW o, NEW S, S # {}, \A p \in S : p.owner = o
  PROVE  (CHOOSE p \in S : TRUE).owner = o
<1>1. (CHOOSE p \in S : TRUE) \in S
  OBVIOUS
<1> QED
  BY <1>1

Ops == {"idle", "dir", "swapfile", "alloc", "lock", "locking", "fault",
        "expand", "leave", "gone", "drain", "pageout"}

\* What the operators that make jobs return.
LEMMA JobRecords ==
  /\ Idle \in JobType /\ Idle.op = "idle"
  /\ \A op \in Ops, S \in SUBSET Pages, init \in BOOLEAN :
       /\ Job(op, S, init) \in JobType
       /\ Job(op, S, init).op = op
       /\ Job(op, S, init).pages = S
  /\ \A op \in {"drain", "pageout"}, count \in Nat, request \in Nat :
       /\ DrainJob(op, count, request) \in JobType
       /\ DrainJob(op, count, request).op = op
  /\ \A j \in JobType, op \in Ops :
       /\ [j EXCEPT !.op = op] \in JobType
       /\ [j EXCEPT !.op = op].op = op
       /\ [j EXCEPT !.op = op].pages = j.pages
  /\ \A j \in JobType : \A p :
       /\ [j EXCEPT !.pages = @ \ {p}] \in JobType
       /\ [j EXCEPT !.pages = @ \ {p}].op = j.op
BY ZenonT(60) DEF JobType, Job, Idle, DrainJob, Ops

\* The fields of a well-formed job.
LEMMA JobFields ==
  ASSUME TypeOK
  PROVE  /\ job \in JobType /\ job.op \in Ops /\ job.pages \subseteq Pages
         /\ job.init \in BOOLEAN /\ job.count \in Nat /\ job.request \in Nat
BY DEF TypeOK, JobType, Ops

\* Only clients are nested.
LEMMA LiveType ==
  ASSUME TypeOK
  PROVE  Live \subseteq Clients
<1>1. live \in Seq(Clients)
  BY DEF TypeOK
<1> QED
  BY <1>1 DEF Live

\* What Inv says of a call that has begun, and of one that may begin.
LEMMA Begun ==
  ASSUME Inv
  PROVE  /\ job.op \notin {"idle", "drain", "pageout"} => cur \in Clients
         /\ ClientRuns => cur \in Clients /\ job = Idle /\ stop = "none"
         /\ NeedsFrame => cur \in Clients
<1>1. job.op \notin {"idle", "drain", "pageout"} => cur \in Clients
  BY DEF Inv, JobSound
<1>2. ClientRuns => cur \in Clients /\ job = Idle /\ stop = "none"
  BY LiveType DEF Inv, ClientRuns, Ready
<1>3. NeedsFrame => job.op \notin {"idle", "drain", "pageout"}
  BY DEF NeedsFrame
<1> QED
  BY <1>1, <1>2, <1>3

\* The store as a TypeOK conjunct.
LEMMA StoreTyped ==
  ASSUME TypeOK
  PROVE  StoreType(bsm) /\ PpmType(ppm, Pages)
BY DEF TypeOK, StoreType

-----------------------------------------------------------------------------
(* Steps that leave the page tables alone. *)

\* A step that leaves the entries, the tables and the allocated frames alone
\* keeps everything that Inv says of them.
LEMMA Untouched ==
  ASSUME Inv,
         pte' = pte, table' = table, dir' = dir, blocks' = blocks,
         ppm'.managed \cap outside' = {},
         ppm'.alloced = ppm.alloced, ppm'.swappable = ppm.swappable,
         ppm'.locks = ppm.locks, ppm'.addr = ppm.addr
  PROVE  Mapped' /\ Framed'
<1>1. Framed'
  BY DEF Inv, Framed, PagesFramed, SwappableFramed, TablesFramed,
         DirectoriesFramed, Resident
<1>2. Mapped'
  BY DEF Inv, Mapped, SlotsSound, TablesCover, BlocksCover, BlocksOwned,
         IsSwapped, HasTable, Clean
<1> QED
  BY <1>1, <1>2

\* Only the job, the current client, the nesting, stop or known change.
LEMMA OnlyJob ==
  ASSUME Inv,
         UNCHANGED <<ppm, bsm, outside, dir, table, blocks, pte, reserved, ram>>,
         live' \in Seq(Clients), cur' \in Clients \cup {NoClient},
         stop' \in {"none", "overcommit", "noframe", "stray", "misowned"},
         known' \subseteq Pages, job' \in JobType, JobSound'
  PROVE  Inv'
<1>1. ppm'.managed \cap outside' = {}
  BY DEF Inv, Framed
<1>2. Mapped' /\ Framed'
  BY <1>1, Untouched
<1>3. TypeOK'
  BY DEF Inv, TypeOK
<1> QED
  BY <1>2, <1>3 DEF Inv

\* Steps at which the VMM gives up a job, or stops.
LEMMA StopSteps ==
  ASSUME Inv, Overcommit \/ NoFrameLeft \/ LockStray
  PROVE  Inv'
<1>1. /\ job \in JobType /\ job.op \in Ops
      /\ live \in Seq(Clients) /\ cur \in Clients \cup {NoClient}
      /\ stop \in {"none", "overcommit", "noframe", "stray", "misowned"}
      /\ known \subseteq Pages
  BY JobFields DEF Inv, TypeOK
<1>2. CASE Overcommit \/ LockStray
  <2>1. JobSound'
    BY <1>2 DEF Overcommit, LockStray, Inv, JobSound, Clean
  <2> QED
    BY <1>1, <1>2, <2>1, OnlyJob DEF Overcommit, LockStray
<1>3. CASE NoFrameLeft
  <2>1. cur \in Clients
    BY <1>3, Begun DEF NoFrameLeft, Starved, WantsFrame
  <2>2. \/ job' = Idle
        \/ job' = [job EXCEPT !.op = "gone"]
        \/ job' = job /\ job.op \notin {"dir", "expand", "leave", "alloc"}
    BY <1>3 DEF NoFrameLeft
  <2>3. job' \in JobType
    <3>1. [job EXCEPT !.op = "gone"] \in JobType
      BY <1>1 DEF JobType
    <3> QED
      BY <1>1, <2>2, <3>1, JobRecords
  <2>4. \/ job'.op \in {"idle", "gone"}
        \/ job' = job /\ job.op \notin {"alloc", "expand"}
    BY <1>1, <2>2 DEF JobType, Job, Idle, Ops
  <2>5. JobSound'
    BY <1>3, <2>1, <2>4 DEF NoFrameLeft, Inv, JobSound
  <2>6. stop' \in {"none", "overcommit", "noframe", "stray", "misowned"}
    BY <1>1, <1>3 DEF NoFrameLeft
  <2> QED
    BY <1>1, <1>3, <2>3, <2>5, <2>6, OnlyJob DEF NoFrameLeft
<1> QED
  BY <1>2, <1>3

\* The first pass of a lock, and its end.
LEMMA LockSteps ==
  ASSUME Inv,
         \/ \E o \in Owners : \E S \in Callable(o) : VMM_LOCK(S)
         \/ LockIOBuffer \/ LockDone
  PROVE  Inv'
<1>1. /\ job \in JobType /\ job.op \in Ops /\ job.pages \subseteq Pages
      /\ live \in Seq(Clients) /\ cur \in Clients \cup {NoClient}
      /\ stop \in {"none", "overcommit", "noframe", "stray", "misowned"}
      /\ known \subseteq Pages
  BY JobFields DEF Inv, TypeOK
<1>2. CASE \E o \in Owners : \E S \in Callable(o) : VMM_LOCK(S)
  <2>0. PICK o \in Owners : \E S \in Callable(o) : VMM_LOCK(S)
    BY <1>2
  <2>1. PICK S \in Callable(o) : VMM_LOCK(S)
    BY <2>0
  <2>2. S \subseteq Pages
    BY CallableType
  <2>3. /\ job' \in JobType /\ job'.op = "locking"
    BY <2>1, <2>2 DEF VMM_LOCK, JobType, Job
  <2>4. cur \in Clients
    BY <2>1, Begun DEF VMM_LOCK
  <2>5. JobSound'
    BY <2>1, <2>3, <2>4 DEF JobSound, VMM_LOCK
  <2> QED
    BY <1>1, <2>1, <2>3, <2>5, OnlyJob DEF VMM_LOCK
<1>3. CASE LockIOBuffer
  <2>1. /\ job' \in JobType /\ job'.op \in {"locking", "gone"}
    BY <1>1, <1>3 DEF LockIOBuffer, JobType, Job
  <2>2. cur \in Clients
    BY <1>3, Begun DEF LockIOBuffer, Doing
  <2>3. JobSound'
    BY <1>3, <2>1, <2>2 DEF JobSound, LockIOBuffer
  <2> QED
    BY <1>1, <1>3, <2>1, <2>3, OnlyJob DEF LockIOBuffer
<1>4. CASE LockDone
  <2>1. cur \in Clients
    BY <1>4, Begun DEF LockDone, Doing
  <2>2. live' \in Seq(Clients)
    BY <1>1, <1>4, <2>1 DEF LockDone
  <2>3. job' \in JobType /\ job'.op = "idle"
    BY <1>4, JobRecords DEF LockDone
  <2>4. JobSound'
    BY <1>4, <2>3 DEF JobSound, LockDone
  <2> QED
    BY <1>1, <1>4, <2>2, <2>3, <2>4, OnlyJob DEF LockDone
<1> QED
  BY <1>2, <1>3, <1>4

\* A fault begins; a client looks at a page.
LEMMA LookSteps ==
  ASSUME Inv, NEW p \in Pages, VMM_PageFaultHandler(p) \/ Read(p)
  PROVE  Inv'
<1>1. /\ job \in JobType
      /\ live \in Seq(Clients) /\ cur \in Clients \cup {NoClient}
      /\ stop \in {"none", "overcommit", "noframe", "stray", "misowned"}
      /\ known \subseteq Pages
  BY JobFields DEF Inv, TypeOK
<1>2. CASE VMM_PageFaultHandler(p)
  <2>1. job' \in JobType /\ job'.op = "fault" /\ job'.pages = {p}
    BY <1>2 DEF VMM_PageFaultHandler, JobType, Job
  <2>2. cur \in Clients
    BY <1>2, Begun DEF VMM_PageFaultHandler
  <2>3. JobSound'
    BY <1>2, <2>1, <2>2 DEF JobSound, VMM_PageFaultHandler
  <2> QED
    BY <1>1, <1>2, <2>1, <2>3, OnlyJob DEF VMM_PageFaultHandler
<1>3. CASE Read(p)
  <2>1. JobSound'
    BY <1>3 DEF Read, Inv, JobSound, Clean
  <2>2. known' \subseteq Pages
    BY <1>1, <1>3 DEF Read
  <2> QED
    BY <1>1, <1>3, <2>1, <2>2, OnlyJob DEF Read
<1> QED
  BY <1>2, <1>3

\* Another client's address space comes in; a client starts or terminates.
LEMMA SwitchSteps ==
  ASSUME Inv,
         \/ \E c \in Clients : DPMIFN_SWITCHADDR(c) \/ VMM_INIT_CLIENT(c)
         \/ Terminate
  PROVE  Inv'
<1>1. /\ job \in JobType
      /\ live \in Seq(Clients) /\ cur \in Clients \cup {NoClient}
      /\ stop \in {"none", "overcommit", "noframe", "stray", "misowned"}
      /\ known \subseteq Pages
  BY JobFields DEF Inv, TypeOK
<1>2. CASE \E c \in Clients : DPMIFN_SWITCHADDR(c)
  <2>1. PICK c \in Clients : DPMIFN_SWITCHADDR(c)
    BY <1>2
  <2>2. job.op = "idle"
    BY <2>1, JobRecords DEF DPMIFN_SWITCHADDR, ClientRuns, Ready
  <2>3. JobSound'
    BY <2>1, <2>2 DEF DPMIFN_SWITCHADDR, JobSound
  <2> QED
    BY <1>1, <2>1, <2>3, OnlyJob DEF DPMIFN_SWITCHADDR
<1>3. CASE \E c \in Clients : VMM_INIT_CLIENT(c)
  <2>1. PICK c \in Clients : VMM_INIT_CLIENT(c)
    BY <1>3
  <2>2. job' \in JobType /\ job'.op = "dir"
    BY <2>1 DEF VMM_INIT_CLIENT, JobType, Job
  <2>3. JobSound'
    BY <2>1, <2>2 DEF VMM_INIT_CLIENT, JobSound
  <2> QED
    BY <1>1, <2>1, <2>2, <2>3, OnlyJob DEF VMM_INIT_CLIENT
<1>4. CASE Terminate
  <2>1. job' \in JobType /\ job'.op \in {"leave", "gone"}
    BY <1>4 DEF Terminate, JobType, Job
  <2>2. cur \in Clients
    BY <1>4, Begun DEF Terminate
  <2>3. JobSound'
    BY <1>4, <2>1, <2>2 DEF JobSound, Terminate
  <2> QED
    BY <1>1, <1>4, <2>1, <2>3, OnlyJob DEF Terminate
<1> QED
  BY <1>2, <1>3, <1>4

\* The number of pages that a drain swaps out is a number.
LEMMA DrainBounds ==
  ASSUME Inv
  PROVE  ToSwap \in Int
<1>1. /\ job.request \in Nat /\ ppm.nSwappable \in Int
      /\ ppm.managed \subseteq Frames
      /\ bsm.total \in Nat /\ bsm.map \subseteq Slots
  BY JobFields, StoreAssumption DEF Inv, TypeOK, PpmType, BsmType
<1>2. Cardinality(bsm.map) \in Nat /\ Cardinality(ppm.managed) \in Nat
  BY <1>1, FrameCount, SlotCount
<1>3. BSFree(bsm) \in Int
  BY <1>1, <1>2 DEF BSFree
<1>4. PPM_QUERY_SWAPPABLE(ppm, BSFree(bsm)) \in Int
  BY <1>1, <1>3 DEF PPM_QUERY_SWAPPABLE
<1>5. PhysicalMinUnlocked(ppm) \in Int
  BY <1>2, PoolAssumption DEF PhysicalMinUnlocked, PhysicalManaged
<1> QED
  BY <1>1, <1>4, <1>5 DEF ToSwap, Lesser

\* A drain begins, goes on to swap, or ends with nothing.
LEMMA DrainSteps ==
  ASSUME Inv,
         \/ \E n \in 1..MaxDrain : PPM_DRAIN_POOL(n)
         \/ DrainSwap \/ DrainNothing
  PROVE  Inv'
<1>1. /\ live \in Seq(Clients) /\ cur \in Clients \cup {NoClient}
      /\ stop \in {"none", "overcommit", "noframe", "stray", "misowned"}
      /\ known \subseteq Pages /\ job.request \in Nat
  BY JobFields DEF Inv, TypeOK
<1>2. job' \in JobType /\ job'.op \in {"idle", "drain", "pageout"}
  <2>1. CASE \E n \in 1..MaxDrain : PPM_DRAIN_POOL(n)
    <3>1. PICK n \in 1..MaxDrain : PPM_DRAIN_POOL(n)
      BY <2>1
    <3>2. n \in Nat /\ 0 \in Nat
      BY VmmAssumption
    <3> QED
      BY <3>1, <3>2, JobRecords DEF PPM_DRAIN_POOL
  <2>2. CASE DrainSwap
    <3>1. ToSwap > 0 => ToSwap \in Nat
      BY DrainBounds
    <3> QED
      BY <1>1, <2>2, <3>1, JobRecords DEF DrainSwap
  <2>3. CASE DrainNothing
    BY <2>3, JobRecords DEF DrainNothing
  <2> QED
    BY <2>1, <2>2, <2>3
<1>3. JobSound'
  BY <1>2 DEF JobSound
<1> QED
  BY <1>1, <1>2, <1>3, OnlyJob DEF PPM_DRAIN_POOL, DrainSwap, DrainNothing

-----------------------------------------------------------------------------
(* Steps in which the pool changes and what it has lent out does not. *)

\* A step that changes what the pool manages, and nothing that is allocated.
LEMMA OnlyPool ==
  ASSUME Inv,
         UNCHANGED <<bsm, live, cur, dir, table, blocks, pte, reserved, ram,
                     stop, known>>,
         PpmType(ppm', Pages), outside' \subseteq Frames,
         ppm'.managed \cap outside' = {},
         ppm'.alloced = ppm.alloced, ppm'.swappable = ppm.swappable,
         ppm'.locks = ppm.locks, ppm'.addr = ppm.addr,
         job' = job \/ job' = Idle
  PROVE  Inv'
<1>1. Mapped' /\ Framed'
  BY Untouched
<1>2. job' \in JobType
  BY JobRecords DEF Inv, TypeOK
<1>3. TypeOK'
  BY <1>2 DEF Inv, TypeOK
<1>4. JobSound'
  BY JobRecords DEF Inv, JobSound, Clean
<1> QED
  BY <1>1, <1>3, <1>4 DEF Inv

\* Filling the pool, and giving frames of it back.
LEMMA PoolSteps ==
  ASSUME Inv, FillPool \/ VMM_QUERY \/ DrainRelease
  PROVE  Inv'
<1>1. /\ PpmType(ppm, Pages) /\ outside \subseteq Frames
      /\ ppm.managed \cap outside = {}
  BY DEF Inv, TypeOK, Framed
<1>2. Avail \subseteq Frames /\ Avail \cap outside = {}
  BY DEF Avail
<1>3. CASE FillPool \/ VMM_QUERY
  <2>1. ppm' = PPM_FILL_POOL(ppm, Avail)
    BY <1>3 DEF FillPool, VMM_QUERY
  <2>2. /\ PpmType(ppm', Pages)
        /\ ppm'.managed \subseteq ppm.managed \cup Avail
        /\ ppm'.alloced = ppm.alloced /\ ppm'.swappable = ppm.swappable
        /\ ppm'.locks = ppm.locks /\ ppm'.addr = ppm.addr
    BY <1>1, <1>2, <2>1, FillPoolRecord
  <2>3. ppm'.managed \cap outside = {}
    BY <1>1, <1>2, <2>2
  <2> QED
    BY <1>1, <1>3, <2>2, <2>3, OnlyPool DEF FillPool, VMM_QUERY
<1>4. CASE DrainRelease
  <2>1. PICK F \in SUBSET Free(ppm) : ppm' = PPM_RELEASE(ppm, F)
    BY <1>4 DEF DrainRelease
  <2>2. /\ PpmType(ppm', Pages)
        /\ ppm'.managed \subseteq ppm.managed
        /\ ppm'.alloced = ppm.alloced /\ ppm'.swappable = ppm.swappable
        /\ ppm'.locks = ppm.locks /\ ppm'.addr = ppm.addr
    BY <1>1, <2>1, ReleaseRecord
  <2>3. ppm'.managed \cap outside = {}
    BY <1>1, <2>2
  <2> QED
    BY <1>1, <1>4, <2>2, <2>3, OnlyPool DEF DrainRelease
<1> QED
  BY <1>3, <1>4

\* Programs outside the VMM take and return frames the pool does not manage.
LEMMA ExternalSteps ==
  ASSUME Inv, ExternalAlloc \/ ExternalFree
  PROVE  Inv'
<1>1. /\ PpmType(ppm, Pages) /\ outside \subseteq Frames
      /\ ppm.managed \cap outside = {}
  BY DEF Inv, TypeOK, Framed
<1>2. CASE ExternalAlloc
  <2>1. (CHOOSE f \in Avail : TRUE) \in Avail
    BY <1>2 DEF ExternalAlloc
  <2>2. outside' \subseteq Frames /\ ppm.managed \cap outside' = {}
    BY <1>1, <1>2, <2>1 DEF ExternalAlloc, Avail
  <2> QED
    BY <1>1, <1>2, <2>2, OnlyPool DEF ExternalAlloc
<1>3. CASE ExternalFree
  BY <1>1, <1>3, OnlyPool DEF ExternalFree
<1> QED
  BY <1>2, <1>3

\* Marking candidates sets $marked in the records of present pages only.
LEMMA MarkStep ==
  ASSUME Inv, NEW S, S \subseteq Pages, VMM_MARK_CANDIDATES(S)
  PROVE  Inv'
<1> DEFINE F == {pte[p].frame : p \in {q \in S : pte[q].state = "present"}}
<1>1. /\ PpmType(ppm, Pages) /\ outside \subseteq Frames
      /\ ppm.managed \cap outside = {}
  BY DEF Inv, TypeOK, Framed
<1>2. F \subseteq ppm.alloced
  BY DEF Inv, Framed, PagesFramed, Resident
<1> HIDE DEF F
<1>3. ppm' = PPM_MARK(ppm, F)
  BY DEF VMM_MARK_CANDIDATES, F
<1>4. PpmType(ppm', Pages)
  BY <1>1, <1>2, <1>3 DEF PpmType, PPM_MARK
<1>5. /\ ppm'.managed = ppm.managed
      /\ ppm'.alloced = ppm.alloced /\ ppm'.swappable = ppm.swappable
      /\ ppm'.locks = ppm.locks /\ ppm'.addr = ppm.addr
  BY <1>1, <1>3 DEF PpmType, PPM_MARK
<1> QED
  BY <1>1, <1>4, <1>5, OnlyPool DEF VMM_MARK_CANDIDATES

-----------------------------------------------------------------------------
(* Linear space is allocated, and pages are promised. *)

\* LSM_ALLOC of a free region of one owner.
LEMMA SpaceTaken ==
  ASSUME Inv, NEW o \in Owners, NEW S, S \subseteq Pages, S # {},
         \A p \in S : p.owner = o, S \cap UNION blocks = {}, cur \in Clients,
         NEW bsFree, NEW init \in BOOLEAN, LSM_ALLOC(S, bsFree, init),
         StoreType(bsm'),
         UNCHANGED <<outside, live, cur, dir, table, pte, reserved, ram, stop,
                     known>>
  PROVE  Inv'
<1>1. /\ PpmType(ppm, Pages) /\ outside \subseteq Frames
      /\ ppm.managed \cap outside = {}
  BY DEF Inv, TypeOK, Framed
<1>2. Avail \subseteq Frames /\ Avail \cap outside = {}
  BY DEF Avail
<1>3. ppm' = PPM_QUERY(ppm, Avail)
  BY DEF LSM_ALLOC
<1>4. /\ PpmType(ppm', Pages)
      /\ ppm'.managed \subseteq ppm.managed \cup Avail
      /\ ppm'.alloced = ppm.alloced /\ ppm'.swappable = ppm.swappable
      /\ ppm'.locks = ppm.locks /\ ppm'.addr = ppm.addr
  BY <1>1, <1>2, <1>3, FillPoolRecord
<1>5. ppm'.managed \cap outside' = {}
  BY <1>1, <1>2, <1>4
<1>6. \/ blocks' = blocks /\ (job' = Idle \/ job' = Job("gone", {}, FALSE))
      \/ blocks' = blocks \cup {S} /\ job' = Job("alloc", S, init)
  BY DEF LSM_ALLOC
<1>7. Framed'
  BY <1>4, <1>5 DEF Inv, Framed, PagesFramed, SwappableFramed, TablesFramed,
                    DirectoriesFramed, Resident
<1>8. Mapped'
  <2>1. SlotsSound' /\ TablesCover'
    BY DEF Inv, Mapped, SlotsSound, TablesCover, IsSwapped, HasTable, Clean
  <2>2. UNION blocks \subseteq UNION blocks'
    BY <1>6
  <2>3. BlocksCover'
    BY <2>2 DEF Inv, Mapped, BlocksCover, Clean
  <2>4. \A T \in blocks' : T \in blocks \/ T = S
    BY <1>6
  <2>5. BlocksOwned'
    BY <2>4 DEF Inv, Mapped, BlocksOwned
  <2> QED
    BY <2>1, <2>3, <2>5 DEF Mapped
<1>9. job' \in JobType
  <2>1. Job("alloc", S, init) \in JobType /\ Job("gone", {}, FALSE) \in JobType
    BY DEF JobType, Job
  <2> QED
    BY <1>6, <2>1, JobRecords
<1>10. \A p \in S : Clean(p)
  BY DEF Inv, Mapped, BlocksCover
<1>11. JobSound'
  <2>1. CASE job' = Job("alloc", S, init) /\ blocks' = blocks \cup {S}
    BY <1>10, <2>1 DEF JobSound, Clean, Job
  <2>2. CASE job' = Idle \/ job' = Job("gone", {}, FALSE)
    BY <2>2 DEF JobSound, Job, Idle
  <2> QED
    BY <1>6, <2>1, <2>2
<1>12. blocks' \subseteq SUBSET Pages
  <2>1. blocks \subseteq SUBSET Pages /\ S \in SUBSET Pages
    BY DEF Inv, TypeOK
  <2> QED
    BY <1>6, <2>1
<1>13. TypeOK'
  BY <1>4, <1>9, <1>12 DEF Inv, TypeOK, StoreType
<1> QED
  BY <1>7, <1>8, <1>11, <1>13 DEF Inv

\* VMM_ALLOC takes linear space that no block covers.
LEMMA AllocStep ==
  ASSUME Inv, NEW o \in Owners, NEW S \in Callable(o), VMM_ALLOC(S)
  PROVE  Inv'
<1>1. S \subseteq Pages /\ S # {} /\ \A p \in S : p.owner = o
  BY CallableType
<1>2. cur \in Clients
  BY Begun DEF VMM_ALLOC
<1>3. StoreType(bsm')
  BY StoreTyped DEF VMM_ALLOC, Inv
<1>4. LSM_ALLOC(S, BSFree(bsm), FALSE) /\ S \cap UNION blocks = {}
  BY DEF VMM_ALLOC
<1> QED
  BY <1>1, <1>2, <1>3, <1>4, SpaceTaken DEF VMM_ALLOC

\* So does a new client for its I/O buffer.
LEMMA StoreClientStep ==
  ASSUME Inv, BSM_INIT_CLIENT
  PROVE  Inv'
<1>1. cur \in Clients
  BY Begun DEF BSM_INIT_CLIENT, Doing
<1>2. CASE bsm.total = 0
  <2>0. /\ live \in Seq(Clients)
        /\ stop \in {"none", "overcommit", "noframe", "stray", "misowned"}
        /\ known \subseteq Pages
    BY DEF Inv, TypeOK
  <2>4. live' = Append(live, cur)
    BY <1>2 DEF BSM_INIT_CLIENT
  <2>1. live' \in Seq(Clients)
    BY <1>1, <2>0, <2>4
  <2>2. job' \in JobType /\ job'.op = "idle"
    BY <1>2, JobRecords DEF BSM_INIT_CLIENT
  <2>3. JobSound'
    BY <2>2 DEF JobSound
  <2> QED
    BY <1>1, <1>2, <2>0, <2>1, <2>2, <2>3, OnlyJob DEF BSM_INIT_CLIENT
<1>3. CASE bsm.total # 0
  <2>1. PICK n \in {0, GrowBy(bsm)} :
          /\ IOPage(cur) \notin UNION blocks
          /\ bsm' = BSM_GROW(bsm, n)
          /\ LSM_ALLOC({IOPage(cur)}, BSFree(bsm) + n, TRUE)
    BY <1>3 DEF BSM_INIT_CLIENT
  <2>2. StoreType(bsm')
    BY <2>1, StoreGrow, StoreTyped DEF Inv
  <2>3. IOPage(cur) \in Pages /\ IOPage(cur).owner = cur /\ cur \in Owners
    BY <1>1, IOPageType DEF Owners
  <2>4. PICK S : S = {IOPage(cur)}
    OBVIOUS
  <2>5. /\ S \subseteq Pages /\ S # {} /\ \A p \in S : p.owner = cur
        /\ S \cap UNION blocks = {}
    BY <2>1, <2>3, <2>4
  <2>6. PICK bsFree : LSM_ALLOC(S, bsFree, TRUE)
    BY <2>1, <2>4
  <2>7. PICK init \in BOOLEAN : LSM_ALLOC(S, bsFree, init)
    BY <2>6
  <2>8. UNCHANGED <<outside, live, cur, dir, table, pte, reserved, ram, stop,
                    known>>
    BY <1>3 DEF BSM_INIT_CLIENT
  <2>9. PICK o \in Owners : \A p \in S : p.owner = o
    BY <2>3, <2>5
  <2> QED
    BY <1>1, <2>2, <2>5, <2>7, <2>8, <2>9, SpaceTaken
<1> QED
  BY <1>2, <1>3

-----------------------------------------------------------------------------
(* Regions are given up. *)

\* The page table entries that the operators make.
LEMMA EntryTypes ==
  /\ {Unalloc, Uncommitted, Reserved(TRUE), Reserved(FALSE)} \subseteq EntryType
  /\ \A f \in Frames, dirty \in BOOLEAN :
       Present(f, dirty) \in EntryType /\ Locked(f, dirty) \in EntryType
  /\ \A s \in Slots : Swapped(s) \in EntryType
BY DEF EntryType, Unalloc, Uncommitted, Reserved, Present, Locked, Swapped,
       Entry

\* What sets the entries of a region apart.
LEMMA EntryStates ==
  /\ Unalloc.state = "unalloc" /\ Uncommitted.state = "uncommitted"
  /\ \A dirty : Reserved(dirty).state = "reserved"
  /\ \A f, dirty : /\ Present(f, dirty).state = "present"
                   /\ Present(f, dirty).frame = f
                   /\ Locked(f, dirty).state = "locked"
                   /\ Locked(f, dirty).frame = f
  /\ \A s : Swapped(s).state = "swapped" /\ Swapped(s).slot = s
BY DEF Unalloc, Uncommitted, Reserved, Present, Locked, Swapped, Entry

\* The frames of a region belong to its pages alone.
LEMMA FramesOfType ==
  ASSUME Framed, TypeOK, NEW S, S \subseteq Pages
  PROVE  /\ FramesOf(S) \subseteq Frames
         /\ \A p \in S : Resident(p) => pte[p].frame \in FramesOf(S)
         /\ \A p \in Pages : Resident(p) /\ pte[p].frame \in FramesOf(S)
                               => p \in S
<1>1. ppm.alloced \subseteq Frames
  BY DEF TypeOK, PpmType
<1> QED
  BY <1>1 DEF FramesOf, Framed, PagesFramed

\* The table that goes with a region is that of its area.
LEMMA TableOfType ==
  ASSUME TypeOK, NEW o \in Owners, NEW S, S # {}, S \subseteq Pages,
         \A p \in S : p.owner = o
  PROVE  /\ TableOf(S) \subseteq Frames
         /\ \A f \in TableOf(S) : f = table[o] /\ S = Area(o)
         /\ S = Area(o) /\ HasTable(o) => table[o] \in TableOf(S)
<1>1. \A q \in Owners : S = Area(q) => q = o
  BY PagesType
<1> QED
  BY <1>1 DEF TableOf, HasTable

\* The region S of one owner loses its pages, and its page table if it spans
\* the area.
LEMMA RegionReleased ==
  ASSUME Inv, NEW o \in Owners, NEW S, S # {}, S \subseteq Pages,
         \A p \in S : p.owner = o,
         NEW entry \in {Unalloc, Uncommitted},
         NEW pde \in {NoTable, UncommittedPDE},
         LSM_SETN_PTES(S, entry, pde),
         ppm' = PPM_FREE(ppm, FramesOf(S) \cup TableOf(S)),
         outside' = outside, dir' = dir,
         blocks \ {S} \subseteq blocks', blocks' \subseteq blocks \cup {S}
  PROVE  /\ Framed' /\ Mapped'
         /\ PpmType(ppm', Pages) /\ blocks' \subseteq SUBSET Pages
         /\ pte' \in [Pages -> EntryType]
         /\ table' \in [Owners -> Frames \cup {NoTable, UncommittedPDE}]
<1> DEFINE F == FramesOf(S) \cup TableOf(S)
<1>0. TypeOK /\ Framed /\ Mapped /\ PpmType(ppm, Pages)
  BY DEF Inv, TypeOK
<1>1. /\ \A p \in Pages : pte'[p] = IF p \in S THEN entry ELSE pte[p]
      /\ pte' \in [Pages -> EntryType]
      /\ table' \in [Owners -> Frames \cup {NoTable, UncommittedPDE}]
      /\ \A q \in Owners : table'[q] = IF q = o /\ S = Area(o) THEN pde
                                       ELSE table[q]
  <2>1. entry \in EntryType
    BY EntryTypes
  <2>2. /\ pte \in [Pages -> EntryType]
        /\ table \in [Owners -> Frames \cup {NoTable, UncommittedPDE}]
    BY <1>0 DEF TypeOK
  <2>3. (CHOOSE p \in S : TRUE).owner = o
    BY OwnerOf
  <2>4. /\ pte' = [p \in Pages |-> IF p \in S THEN entry ELSE pte[p]]
        /\ table' = IF S = Area(o) THEN [table EXCEPT ![o] = pde] ELSE table
    BY <2>3 DEF LSM_SETN_PTES
  <2> QED
    BY <2>1, <2>2, <2>4
<1>2. entry.state \in {"unalloc", "uncommitted"}
  BY EntryStates
<1>3. F \subseteq Frames
  BY <1>0, FramesOfType, TableOfType
<1>4. /\ PpmType(ppm', Pages)
      /\ ppm'.managed = ppm.managed
      /\ ppm'.alloced = ppm.alloced \ F
      /\ ppm'.swappable = ppm.swappable \ F
      /\ ppm'.locks = ppm.locks
      /\ \A f \in Frames \ F : ppm'.addr[f] = ppm.addr[f]
  BY <1>0, <1>3, FreeRecord
<1>5. pde \notin Frames
  BY VmmAssumption
<1>6. \A p \in Pages : p \notin S /\ Resident(p) => pte[p].frame \notin F
  <2>1. \A p \in Pages : p \notin S /\ Resident(p) => pte[p].frame \notin FramesOf(S)
    BY <1>0, FramesOfType
  <2>2. \A p \in Pages, f \in TableOf(S) : Resident(p) => pte[p].frame # f
    BY <1>0, TableOfType, VmmAssumption, PagesType
       DEF Framed, PagesFramed, TablesFramed
  <2> QED
    BY <2>1, <2>2
<1>7. \A p \in Pages : \/ KeepsFrame(p)
                       \/ ~Resident(p)' /\ (Resident(p) => pte[p].frame \in F)
  BY <1>0, <1>1, <1>2, FramesOfType DEF KeepsFrame, Resident
<1>8. \A p \in Pages : Resident(p)' => pte'[p].frame \notin F
  BY <1>1, <1>2, <1>6 DEF Resident
<1>9. \A f \in FramesOf(S) : ppm.addr[f] \in Pages
  BY <1>0 DEF FramesOf, Framed, PagesFramed
<1>10. \A q \in Owners : table'[q] \in Frames =>
                             table'[q] = table[q] /\ table[q] \notin F
  <2> SUFFICES ASSUME NEW q \in Owners, table'[q] \in Frames
               PROVE  table'[q] = table[q] /\ table[q] \notin F
    OBVIOUS
  <2>1. table'[q] = table[q] /\ ~(q = o /\ S = Area(o))
    BY <1>1, <1>5
  <2>2. table[q] \notin FramesOf(S)
    BY <1>0, <1>9, <2>1, VmmAssumption DEF Framed, TablesFramed
  <2>3. table[q] \notin TableOf(S)
    BY <1>0, <2>1, TableOfType DEF Framed, TablesFramed
  <2> QED
    BY <2>1, <2>2, <2>3
<1>11. \A c \in Clients : dir'[c] \in Frames =>
                             dir'[c] = dir[c] /\ dir[c] \notin F
  <2> SUFFICES ASSUME NEW c \in Clients, dir[c] \in Frames
               PROVE  dir[c] \notin F
    OBVIOUS
  <2>1. dir[c] \notin FramesOf(S)
    BY <1>0, <1>9, VmmAssumption DEF Framed, DirectoriesFramed
  <2>2. dir[c] \notin TableOf(S)
    BY <1>0, TableOfType DEF Framed, TablesFramed
  <2> QED
    BY <2>1, <2>2
<1>12. ppm'.managed \cap outside' = {}
  BY <1>0, <1>4 DEF Framed
<1> HIDE DEF F
<1>13. Framed'
  BY <1>0, <1>4, <1>7, <1>8, <1>10, <1>11, <1>12, Released
<1>14. \A p \in S : Clean(p)'
  BY <1>1, <1>2 DEF Clean
<1>15. \A p \in Pages : p \notin S => pte'[p] = pte[p]
  BY <1>1
<1>16. SlotsSound'
  BY <1>0, <1>14, <1>15 DEF Mapped, SlotsSound, IsSwapped, Clean
<1>17. TablesCover'
  <2> SUFFICES ASSUME NEW p \in Pages, p \notin S, ~HasTable(p.owner)'
               PROVE  Clean(p)'
    BY <1>14 DEF TablesCover
  <2>1. p.owner \in Owners /\ p \in Area(p.owner)
    BY PagesType
  <2>2. ~HasTable(p.owner)
    BY <1>1, <2>1 DEF HasTable
  <2> QED
    BY <1>0, <1>15, <2>2 DEF Mapped, TablesCover, Clean
<1>18. BlocksCover'
  BY <1>0, <1>14, <1>15 DEF Mapped, BlocksCover, Clean
<1>19. BlocksOwned'
  BY <1>0 DEF Mapped, BlocksOwned
<1>20. blocks' \subseteq SUBSET Pages
  BY <1>0 DEF TypeOK
<1> QED
  BY <1>1, <1>4, <1>13, <1>16, <1>17, <1>18, <1>19, <1>20 DEF Mapped

\* Frames hold words whatever is done to them.
LEMMA RamTypes ==
  ASSUME TypeOK
  PROVE  /\ \A F : Wiped(F) \in [Frames -> Words]
         /\ \A f \in Frames, w \in Words : [ram EXCEPT ![f] = w] \in [Frames -> Words]
         /\ (IF ZeroDemand THEN Zero ELSE Junk) \in Words
<1>1. ram \in [Frames -> Words] /\ Junk \in Words /\ Zero \in Words
  BY DEF TypeOK, Words
<1> QED
  BY <1>1 DEF Wiped

\* Pages are promised, or the linear space and its table are given up.
LEMMA CommitStep ==
  ASSUME Inv, Commit
  PROVE  Inv'
<1> DEFINE S == job.pages
<1>1. /\ job \in JobType /\ S \in blocks /\ S \subseteq Pages /\ S # {}
      /\ cur \in Clients
      /\ \A p \in S : Clean(p)
  BY JobFields, Begun
     DEF Commit, Doing, Inv, Mapped, BlocksOwned, JobSound
<1>2. PICK o \in Owners : \A p \in S : p.owner = o
  <2>1. PICK p \in S : TRUE
    BY <1>1
  <2>2. p.owner \in Owners /\ \A q \in S : q.owner = p.owner
    BY <1>1, PagesType DEF Inv, Mapped, BlocksOwned
  <2> QED
    BY <2>2
<1>3. HasTable(o)
  BY <1>1, <1>2, OwnerOf DEF Commit, JobOwner
<1>4. TypeOK /\ Framed /\ Mapped /\ Cardinality(S) \in Nat
  BY <1>1, PageCount DEF Inv
<1>5. CASE Committable >= Cardinality(S)
  <2>1. /\ reserved' = reserved + Cardinality(S)
        /\ pte' = [p \in Pages |-> IF p \in S THEN Reserved(TRUE) ELSE pte[p]]
        /\ job' = Job("lock", S, TRUE) \/ job' = Idle
        /\ UNCHANGED <<ppm, bsm, outside, live, cur, dir, table, blocks, ram,
                       stop, known>>
    BY <1>5 DEF Commit
  <2>2. /\ \A p \in S : pte'[p].state = "reserved"
        /\ \A p \in Pages : p \notin S => pte'[p] = pte[p]
        /\ pte' \in [Pages -> EntryType]
    BY <1>1, <1>4, <2>1, EntryStates, EntryTypes DEF TypeOK
  <2>3. Framed'
    <3>1. \A p \in Pages : \/ KeepsFrame(p)
                           \/ ~Resident(p)' /\ (Resident(p) => pte[p].frame \in {})
      BY <1>1, <2>2 DEF KeepsFrame, Resident, Clean
    <3> QED
      BY <1>4, <2>1, <3>1, Released DEF Framed
  <2>4. Mapped'
    <3>1. SlotsSound'
      BY <1>4, <2>2 DEF Mapped, SlotsSound, IsSwapped
    <3>2. TablesCover'
      BY <1>2, <1>3, <1>4, <2>1, <2>2
         DEF Mapped, TablesCover, HasTable, Clean
    <3>3. BlocksCover'
      BY <1>1, <1>4, <2>1, <2>2 DEF Mapped, BlocksCover, Clean
    <3>4. BlocksOwned'
      BY <1>4, <2>1 DEF Mapped, BlocksOwned
    <3> QED
      BY <3>1, <3>2, <3>3, <3>4 DEF Mapped
  <2>5. /\ job' \in JobType /\ job'.op \in {"idle", "lock"}
        /\ job'.op = "lock" => job'.pages = S
    <3>1. CASE job' = Idle
      BY <3>1, JobRecords
    <3>2. CASE job' = Job("lock", S, TRUE)
      BY <1>1, <3>2 DEF JobType, Job
    <3> QED
      BY <2>1, <3>1, <3>2
  <2>6. JobSound'
    BY <1>1, <2>1, <2>5 DEF JobSound
  <2>7. reserved' \in Int
    BY <1>4, <2>1 DEF TypeOK
  <2>8. TypeOK'
    BY <1>4, <2>1, <2>2, <2>5, <2>7 DEF TypeOK
  <2> QED
    BY <2>3, <2>4, <2>6, <2>8 DEF Inv
<1>6. CASE ~(Committable >= Cardinality(S))
  <2>1. /\ blocks' = blocks \ {S}
        /\ LSM_SETN_PTES(S, Unalloc, NoTable)
        /\ ppm' = PPM_FREE(ppm, TableOf(S))
        /\ job' = Job("gone", {}, FALSE) \/ job' = Idle
        /\ UNCHANGED <<bsm, outside, live, cur, dir, reserved, ram, stop, known>>
    BY <1>6 DEF Commit
  <2>2. FramesOf(S) \cup TableOf(S) = TableOf(S)
    BY <1>1 DEF FramesOf, Resident, Clean
  <2>3. PICK entry \in {Unalloc, Uncommitted}, pde \in {NoTable, UncommittedPDE} :
          LSM_SETN_PTES(S, entry, pde)
    BY <2>1
  <2>4. /\ Framed' /\ Mapped'
        /\ PpmType(ppm', Pages) /\ blocks' \subseteq SUBSET Pages
        /\ pte' \in [Pages -> EntryType]
        /\ table' \in [Owners -> Frames \cup {NoTable, UncommittedPDE}]
    BY <1>1, <1>2, <2>1, <2>2, <2>3, RegionReleased
  <2>5. job' \in JobType /\ job'.op \in {"idle", "gone"}
    <3>1. CASE job' = Idle
      BY <3>1, JobRecords
    <3>2. CASE job' = Job("gone", {}, FALSE)
      BY <3>2 DEF JobType, Job
    <3> QED
      BY <2>1, <3>1, <3>2
  <2>6. JobSound'
    BY <1>1, <2>1, <2>5 DEF JobSound
  <2>7. TypeOK'
    BY <1>4, <2>1, <2>4, <2>5 DEF TypeOK
  <2> QED
    BY <2>4, <2>6, <2>7 DEF Inv
<1> QED
  BY <1>5, <1>6

\* VMM_FREE releases the frames and the table of a block, and its entries.
LEMMA FreeStep ==
  ASSUME Inv, NEW o \in Owners, NEW S \in Callable(o), VMM_FREE(S)
  PROVE  Inv'
<1>1. S \subseteq Pages /\ S # {} /\ \A p \in S : p.owner = o
  BY CallableType
<1>2. /\ TypeOK /\ Framed /\ Mapped /\ PpmType(ppm, Pages)
      /\ cur \in Clients /\ job = Idle /\ S \in blocks
  BY Begun DEF Inv, TypeOK, VMM_FREE
<1>3. (CHOOSE p \in S : TRUE).owner = o
  BY <1>1, OwnerOf
<1>4. /\ ppm' = PPM_FREE(ppm, FramesOf(S) \cup TableOf(S))
      /\ bsm' = BSM_FREE(bsm, SlotsOf(S))
      /\ reserved' = reserved - ReservedOf(S)
      /\ blocks' = blocks \ {S}
      /\ ram' = Wiped(FramesOf(S))
      /\ known' = known \ S
      /\ UNCHANGED <<outside, live, cur, dir, stop>>
  BY DEF VMM_FREE
<1>5. StoreType(bsm')
  BY <1>2, <1>4, StoreFree, StoreTyped
<1>6. reserved' \in Int
  <2>1. ReservedOf(S) \in Nat
    BY <1>1, PageCount DEF ReservedOf
  <2> QED
    BY <1>2, <1>4, <2>1 DEF TypeOK
<1>7. ram' \in [Frames -> Words]
  BY <1>2, <1>4, RamTypes
<1>8. CASE ~(table[o] = UncommittedPDE /\ S # Area(o))
  <2>1. LSM_SETN_PTES(S, Unalloc, NoTable) /\ job' = Idle
    BY <1>2, <1>3, <1>8 DEF VMM_FREE
  <2>2. PICK entry \in {Unalloc, Uncommitted}, pde \in {NoTable, UncommittedPDE} :
          LSM_SETN_PTES(S, entry, pde)
    BY <2>1
  <2>3. /\ Framed' /\ Mapped'
        /\ PpmType(ppm', Pages) /\ blocks' \subseteq SUBSET Pages
        /\ pte' \in [Pages -> EntryType]
        /\ table' \in [Owners -> Frames \cup {NoTable, UncommittedPDE}]
    BY <1>1, <1>4, <2>2, RegionReleased
  <2>4. job' \in JobType /\ JobSound'
    BY <2>1, JobRecords DEF JobSound
  <2>5. TypeOK'
    BY <1>2, <1>4, <1>5, <1>6, <1>7, <2>3, <2>4 DEF TypeOK, StoreType
  <2> QED
    BY <2>3, <2>4, <2>5 DEF Inv
<1>9. CASE table[o] = UncommittedPDE /\ S # Area(o)
  <2>1. job' = Job("expand", S, FALSE) /\ pte' = pte /\ table' = table
    BY <1>3, <1>9 DEF VMM_FREE
  <2>2. \A p \in S : Clean(p)
    BY <1>1, <1>2, <1>9, VmmAssumption DEF Mapped, TablesCover, HasTable
  <2>3. FramesOf(S) \cup TableOf(S) = {}
    <3>1. FramesOf(S) = {}
      BY <2>2 DEF FramesOf, Resident, Clean
    <3>2. TableOf(S) = {}
      BY <1>1, <1>2, <1>9, TableOfType
    <3> QED
      BY <3>1, <3>2
  <2>4. PICK F : F = FramesOf(S) \cup TableOf(S)
    OBVIOUS
  <2>5. /\ F = {}
        /\ PpmType(ppm', Pages)
        /\ ppm'.managed = ppm.managed
        /\ ppm'.alloced = ppm.alloced \ F
        /\ ppm'.swappable = ppm.swappable \ F
        /\ ppm'.locks = ppm.locks
        /\ \A f \in Frames \ F : ppm'.addr[f] = ppm.addr[f]
    <3>1. F \subseteq Frames
      BY <2>3, <2>4
    <3>2. ppm' = PPM_FREE(ppm, F)
      BY <1>4, <2>4
    <3>3. /\ PpmType(ppm', Pages)
          /\ ppm'.managed = ppm.managed
          /\ ppm'.alloced = ppm.alloced \ F
          /\ ppm'.swappable = ppm.swappable \ F
          /\ ppm'.locks = ppm.locks
          /\ \A f \in Frames \ F : ppm'.addr[f] = ppm.addr[f]
      BY <1>2, <3>1, <3>2, FreeRecord
    <3> QED
      BY <2>3, <2>4, <3>3
  <2>6. \A p \in Pages : KeepsFrame(p)
    BY <2>1 DEF KeepsFrame
  <2>7. ppm'.managed \cap outside' = {}
    BY <1>2, <1>4, <2>5 DEF Framed
  <2>8. Framed'
    BY <1>2, <1>4, <2>1, <2>5, <2>6, <2>7, Released
  <2>9. BlocksCover'
    BY <1>2, <1>4, <2>1, <2>2 DEF Mapped, BlocksCover, Clean
  <2>10. Mapped'
    BY <1>2, <1>4, <2>1, <2>9
       DEF Mapped, SlotsSound, TablesCover, BlocksOwned, IsSwapped, HasTable,
           Clean
  <2>11. job' \in JobType /\ job'.op = "expand" /\ job'.pages = S
    BY <1>1, <2>1 DEF JobType, Job
  <2>12. JobSound'
    BY <1>1, <1>2, <1>4, <2>1, <2>2, <2>11 DEF JobSound, Clean
  <2>13. blocks' \subseteq SUBSET Pages
    BY <1>2, <1>4 DEF TypeOK
  <2>14. TypeOK'
    BY <1>2, <1>4, <1>5, <1>6, <1>7, <2>1, <2>5, <2>11, <2>13
       DEF TypeOK, StoreType
  <2> QED
    BY <2>8, <2>10, <2>12, <2>14 DEF Inv
<1> QED
  BY <1>8, <1>9

\* A table is given up for uncommitted space only if nothing is committed in
\* its area: the region is the whole area, and no block covered it before.
LEMMA UncommittedStep ==
  ASSUME Inv, NEW o \in Owners, NEW S \in Callable(o), AllocUncommitted(S)
  PROVE  Inv'
<1>1. S \subseteq Pages /\ S # {} /\ \A p \in S : p.owner = o
  BY CallableType
<1>2. /\ TypeOK /\ Framed /\ Mapped /\ PpmType(ppm, Pages)
      /\ cur \in Clients /\ job = Idle
  BY Begun DEF Inv, TypeOK, AllocUncommitted
<1>3. (CHOOSE p \in S : TRUE).owner = o
  BY <1>1, OwnerOf
<1>4. /\ ppm' = PPM_FREE(ppm, TableOf(S))
      /\ blocks' = blocks \cup {S} /\ S \cap UNION blocks = {}
      /\ UNCHANGED <<bsm, outside, live, cur, dir, reserved, ram, job, stop,
                     known>>
  BY DEF AllocUncommitted
<1>5. \A p \in S : Clean(p)
  BY <1>1, <1>2, <1>4 DEF Mapped, BlocksCover
<1>6. FramesOf(S) \cup TableOf(S) = TableOf(S)
  BY <1>5 DEF FramesOf, Resident, Clean
<1>7. job' \in JobType /\ JobSound'
  BY <1>2, <1>4, JobRecords DEF JobSound
<1>8. CASE HasTable(o)
  <2>1. LSM_SETN_PTES(S, Uncommitted, UncommittedPDE)
    BY <1>3, <1>8 DEF AllocUncommitted
  <2>2. PICK entry \in {Unalloc, Uncommitted}, pde \in {NoTable, UncommittedPDE} :
          LSM_SETN_PTES(S, entry, pde)
    BY <2>1
  <2>3. /\ Framed' /\ Mapped'
        /\ PpmType(ppm', Pages) /\ blocks' \subseteq SUBSET Pages
        /\ pte' \in [Pages -> EntryType]
        /\ table' \in [Owners -> Frames \cup {NoTable, UncommittedPDE}]
    BY <1>1, <1>4, <1>6, <2>2, RegionReleased
  <2>4. TypeOK'
    BY <1>2, <1>4, <1>7, <2>3 DEF TypeOK
  <2> QED
    BY <1>7, <2>3, <2>4 DEF Inv
<1>9. CASE ~HasTable(o)
  <2>1. /\ table' = [table EXCEPT ![o] = UncommittedPDE]
        /\ pte' = [p \in Pages |-> IF p \in Area(o) THEN Uncommitted ELSE pte[p]]
    BY <1>3, <1>9 DEF AllocUncommitted
  <2>2. TableOf(S) = {}
    BY <1>1, <1>2, <1>9, TableOfType DEF HasTable
  <2>3. PICK F : F = TableOf(S)
    OBVIOUS
  <2>4. /\ F = {}
        /\ PpmType(ppm', Pages)
        /\ ppm'.managed = ppm.managed
        /\ ppm'.alloced = ppm.alloced \ F
        /\ ppm'.swappable = ppm.swappable \ F
        /\ ppm'.locks = ppm.locks
        /\ \A f \in Frames \ F : ppm'.addr[f] = ppm.addr[f]
    <3>1. F \subseteq Frames
      BY <2>2, <2>3
    <3>2. ppm' = PPM_FREE(ppm, F)
      BY <1>4, <2>3
    <3>3. /\ PpmType(ppm', Pages)
          /\ ppm'.managed = ppm.managed
          /\ ppm'.alloced = ppm.alloced \ F
          /\ ppm'.swappable = ppm.swappable \ F
          /\ ppm'.locks = ppm.locks
          /\ \A f \in Frames \ F : ppm'.addr[f] = ppm.addr[f]
      BY <1>2, <3>1, <3>2, FreeRecord
    <3> QED
      BY <2>2, <2>3, <3>3
  <2>5. /\ pte \in [Pages -> EntryType]
        /\ table \in [Owners -> Frames \cup {NoTable, UncommittedPDE}]
    BY <1>2 DEF TypeOK
  <2>6. \A p \in Area(o) : p \in Pages /\ p.owner = o
    BY PagesType
  <2>7. /\ \A p \in Area(o) : Clean(p) /\ Clean(p)'
        /\ \A p \in Pages : p \notin Area(o) => pte'[p] = pte[p]
    BY <1>2, <1>9, <2>1, <2>6, EntryStates DEF Mapped, TablesCover, Clean
  <2>8. \A p \in Pages : \/ KeepsFrame(p)
                         \/ ~Resident(p)' /\ (Resident(p) => pte[p].frame \in F)
    BY <2>7 DEF KeepsFrame, Resident, Clean
  <2>9. \A q \in Owners : table'[q] \in Frames =>
                             table'[q] = table[q] /\ table[q] \notin F
    BY <2>1, <2>4, <2>5, VmmAssumption
  <2>10. ppm'.managed \cap outside' = {}
    BY <1>2, <1>4, <2>4 DEF Framed
  <2>11. Framed'
    BY <1>2, <1>4, <2>4, <2>8, <2>9, <2>10, Released
  <2>12. SlotsSound'
    BY <1>2, <2>7 DEF Mapped, SlotsSound, IsSwapped, Clean
  <2>13. TablesCover'
    <3> SUFFICES ASSUME NEW p \in Pages, ~HasTable(p.owner)', p \notin Area(o)
                 PROVE  Clean(p)'
      BY <2>7 DEF TablesCover
    <3>1. p.owner \in Owners /\ p.owner # o
      BY PagesType
    <3>2. ~HasTable(p.owner)
      BY <2>1, <2>5, <3>1 DEF HasTable
    <3> QED
      BY <1>2, <2>7, <3>2 DEF Mapped, TablesCover, Clean
  <2>14. BlocksCover'
    BY <1>2, <1>4, <2>7 DEF Mapped, BlocksCover, Clean
  <2>15. BlocksOwned'
    BY <1>1, <1>2, <1>4 DEF Mapped, BlocksOwned
  <2>16. blocks' \subseteq SUBSET Pages
    BY <1>1, <1>2, <1>4 DEF TypeOK
  <2>17. /\ pte' \in [Pages -> EntryType]
         /\ table' \in [Owners -> Frames \cup {NoTable, UncommittedPDE}]
    BY <2>1, <2>5, EntryTypes
  <2>18. TypeOK'
    BY <1>2, <1>4, <1>7, <2>4, <2>16, <2>17 DEF TypeOK
  <2> QED
    BY <1>7, <2>11, <2>12, <2>13, <2>14, <2>15, <2>18 DEF Inv, Mapped
<1> QED
  BY <1>8, <1>9

\* VMM_DISCARD_PAGES releases frames and slots and keeps the commitment.
LEMMA DiscardStep ==
  ASSUME Inv, NEW o \in Owners, NEW S \in Callable(o), VMM_DISCARD_PAGES(S)
  PROVE  Inv'
<1> DEFINE P == {p \in S : pte[p].state \in {"present", "swapped"}}
<1>1. S \subseteq Pages /\ P \subseteq Pages
  BY CallableType
<1>2. /\ TypeOK /\ Framed /\ Mapped /\ PpmType(ppm, Pages)
      /\ cur \in Clients /\ job = Idle
  BY Begun DEF Inv, TypeOK, VMM_DISCARD_PAGES
<1>3. /\ ppm' = PPM_FREE(ppm, FramesOf(P))
      /\ bsm' = BSM_FREE(bsm, SlotsOf(P))
      /\ pte' = [p \in Pages |-> IF p \in P THEN Reserved(FALSE) ELSE pte[p]]
      /\ reserved' = reserved + Cardinality(P)
      /\ ram' = Wiped(FramesOf(P))
      /\ known' = known \ P
      /\ UNCHANGED <<outside, live, cur, dir, table, blocks, job, stop>>
  BY DEF VMM_DISCARD_PAGES
<1>4. /\ \A p \in P : pte'[p].state = "reserved"
      /\ \A p \in Pages : p \notin P => pte'[p] = pte[p]
      /\ pte' \in [Pages -> EntryType]
  BY <1>1, <1>2, <1>3, EntryStates, EntryTypes DEF TypeOK
<1>5. \A p \in P : ~Clean(p)
  BY DEF Clean
<1> HIDE DEF P
<1>6. /\ FramesOf(P) \subseteq Frames
      /\ \A p \in P : Resident(p) => pte[p].frame \in FramesOf(P)
      /\ \A p \in Pages : Resident(p) /\ pte[p].frame \in FramesOf(P) => p \in P
      /\ \A f \in FramesOf(P) : ppm.addr[f] \in Pages
  <2>1. \A f \in FramesOf(P) : ppm.addr[f] \in Pages
    BY <1>1, <1>2 DEF FramesOf, Framed, PagesFramed
  <2> QED
    BY <1>1, <1>2, <2>1, FramesOfType
<1>7. PICK F : F = FramesOf(P)
  OBVIOUS
<1>8. /\ PpmType(ppm', Pages)
      /\ ppm'.managed = ppm.managed
      /\ ppm'.alloced = ppm.alloced \ F
      /\ ppm'.swappable = ppm.swappable \ F
      /\ ppm'.locks = ppm.locks
      /\ \A f \in Frames \ F : ppm'.addr[f] = ppm.addr[f]
  BY <1>2, <1>3, <1>6, <1>7, FreeRecord
<1>9. \A p \in Pages : \/ KeepsFrame(p)
                       \/ ~Resident(p)' /\ (Resident(p) => pte[p].frame \in F)
  BY <1>4, <1>6, <1>7 DEF KeepsFrame, Resident
<1>10. \A p \in Pages : Resident(p)' => pte'[p].frame \notin F
  BY <1>4, <1>6, <1>7 DEF Resident
<1>11. \A q \in Owners : table'[q] \in Frames =>
                             table'[q] = table[q] /\ table[q] \notin F
  BY <1>2, <1>3, <1>6, <1>7, VmmAssumption DEF Framed, TablesFramed
<1>12. \A c \in Clients : dir'[c] \in Frames =>
                             dir'[c] = dir[c] /\ dir[c] \notin F
  BY <1>2, <1>3, <1>6, <1>7, VmmAssumption DEF Framed, DirectoriesFramed
<1>13. ppm'.managed \cap outside' = {}
  BY <1>2, <1>3, <1>8 DEF Framed
<1>14. Framed'
  BY <1>2, <1>8, <1>9, <1>10, <1>11, <1>12, <1>13, Released
<1>15. SlotsSound'
  BY <1>2, <1>4 DEF Mapped, SlotsSound, IsSwapped
<1>16. TablesCover'
  BY <1>2, <1>3, <1>4, <1>5 DEF Mapped, TablesCover, HasTable, Clean
<1>17. BlocksCover'
  BY <1>2, <1>3, <1>4, <1>5 DEF Mapped, BlocksCover, Clean
<1>18. BlocksOwned'
  BY <1>2, <1>3 DEF Mapped, BlocksOwned
<1>19. job' \in JobType /\ JobSound'
  BY <1>2, <1>3, JobRecords DEF JobSound
<1>20. reserved' \in Int
  BY <1>1, <1>2, <1>3, PageCount DEF TypeOK
<1>21. ram' \in [Frames -> Words]
  BY <1>2, <1>3, RamTypes
<1>22. StoreType(bsm')
  BY <1>2, <1>3, StoreFree, StoreTyped
<1>23. TypeOK'
  BY <1>2, <1>3, <1>4, <1>8, <1>19, <1>20, <1>21, <1>22 DEF TypeOK, StoreType
<1> QED
  BY <1>14, <1>15, <1>16, <1>17, <1>18, <1>19, <1>23 DEF Inv, Mapped

-----------------------------------------------------------------------------
(* A frame is found and taken. *)

\* VMM_SWAP_OUT changes the entry that names the frame it frees, whoever's
\* page it is, because the record of the frame names that page.
LEMMA SwapOutStep ==
  ASSUME Inv, NEW f \in Frames, VMM_SWAP_OUT(f)
  PROVE  Inv'
<1>0. PICK p, s : p = ppm.addr[f] /\ s = PutSlot(bsm, p)
  OBVIOUS
<1>1. /\ TypeOK /\ Framed /\ Mapped /\ PpmType(ppm, Pages) /\ StoreType(bsm)
      /\ f \in ppm.swappable
  BY StoreTyped DEF Inv, TypeOK, VMM_SWAP_OUT, Victims
<1>2. p \in Pages /\ pte[p].frame = f /\ pte[p].state = "present"
  BY <1>0, <1>1 DEF Framed, SwappableFramed
<1>3. /\ HasRoom(bsm, p)
      /\ bsm' = BSM_PUTPAGE(bsm, p, pte[p].dirty, ram[f])
      /\ pte' = [pte EXCEPT ![p] = Swapped(s)]
      /\ ppm' = PPM_FREE(ppm, {f})
      /\ ram' = Wiped({f})
      /\ \/ Starved \/ Doing("pageout")
      /\ job' = IF job.op # "pageout" THEN job
                ELSE IF job.count > 1
                     THEN DrainJob("pageout", job.count - 1, job.request)
                     ELSE DrainJob("drain", 0, job.request)
      /\ UNCHANGED <<outside, live, cur, dir, table, blocks, reserved, stop,
                     known>>
  BY <1>0 DEF VMM_SWAP_OUT, SwapPage
<1>4. pte \in [Pages -> EntryType] /\ ram \in [Frames -> Words]
  BY <1>1 DEF TypeOK
<1>5. s \in Slots /\ StoreType(bsm')
  <2>1. p \in Keys /\ pte[p].dirty \in BOOLEAN /\ ram[f] \in Words
    BY <1>2, <1>4, PagesType DEF EntryType
  <2> QED
    BY <1>0, <1>1, <1>3, <2>1, StorePut
<1>6. /\ \A q \in Pages : q # p => pte'[q] = pte[q]
      /\ pte'[p].state = "swapped" /\ pte'[p].slot = s
      /\ pte' \in [Pages -> EntryType]
  BY <1>2, <1>3, <1>4, <1>5, EntryTypes, EntryStates
<1>7. /\ PpmType(ppm', Pages)
      /\ ppm'.managed = ppm.managed
      /\ ppm'.alloced = ppm.alloced \ {f}
      /\ ppm'.swappable = ppm.swappable \ {f}
      /\ ppm'.locks = ppm.locks
      /\ \A g \in Frames \ {f} : ppm'.addr[g] = ppm.addr[g]
  BY <1>1, <1>3, FreeRecord
<1>8. \A q \in Pages : Resident(q) /\ pte[q].frame = f => q = p
  BY <1>0, <1>1 DEF Framed, PagesFramed
<1>9. \A q \in Pages : \/ KeepsFrame(q)
                       \/ ~Resident(q)' /\ (Resident(q) => pte[q].frame \in {f})
  BY <1>2, <1>6 DEF KeepsFrame, Resident
<1>10. \A q \in Pages : Resident(q)' => pte'[q].frame \notin {f}
  BY <1>6, <1>8 DEF Resident
<1>11. \A q \in Owners : table'[q] \in Frames =>
                             table'[q] = table[q] /\ table[q] \notin {f}
  BY <1>0, <1>1, <1>2, <1>3, VmmAssumption DEF Framed, TablesFramed
<1>12. \A c \in Clients : dir'[c] \in Frames =>
                             dir'[c] = dir[c] /\ dir[c] \notin {f}
  BY <1>0, <1>1, <1>2, <1>3, VmmAssumption DEF Framed, DirectoriesFramed
<1>13. ppm'.managed \cap outside' = {}
  BY <1>1, <1>3, <1>7 DEF Framed
<1>14. Framed'
  <2>1. PICK F : F = {f}
    OBVIOUS
  <2> QED
    BY <1>1, <1>7, <1>9, <1>10, <1>11, <1>12, <1>13, <2>1, Released
<1>15. ~Clean(p) /\ ~Clean(p)'
  BY <1>2, <1>6 DEF Clean
<1>16. SlotsSound'
  BY <1>1, <1>5, <1>6 DEF Mapped, SlotsSound, IsSwapped
<1>17. TablesCover'
  BY <1>1, <1>3, <1>6, <1>15 DEF Mapped, TablesCover, HasTable, Clean
<1>18. BlocksCover'
  BY <1>1, <1>3, <1>6, <1>15 DEF Mapped, BlocksCover, Clean
<1>19. BlocksOwned'
  BY <1>1, <1>3 DEF Mapped, BlocksOwned
<1>20. job' \in JobType /\ (job' = job \/ job'.op \in {"drain", "pageout"})
  <2>1. job \in JobType /\ job.count \in Nat /\ job.request \in Nat
    BY <1>1, JobFields
  <2>2. job.count > 1 => job.count - 1 \in Nat
    BY <2>1
  <2> QED
    BY <1>3, <2>1, <2>2, JobRecords
<1>21. JobSound'
  <2>1. CASE job' = job
    <3>1. \A q \in Pages : Clean(q) => Clean(q)'
      BY <1>6, <1>15 DEF Clean
    <3>2. job.pages \subseteq Pages
      BY <1>1, JobFields
    <3> QED
      BY <1>3, <2>1, <3>1, <3>2 DEF Inv, JobSound
  <2>2. CASE job'.op \in {"drain", "pageout"}
    BY <2>2 DEF JobSound
  <2> QED
    BY <1>20, <2>1, <2>2
<1>22. ram' \in [Frames -> Words]
  BY <1>1, <1>3, RamTypes
<1>23. TypeOK'
  BY <1>1, <1>3, <1>5, <1>6, <1>7, <1>20, <1>22 DEF TypeOK, StoreType
<1> QED
  BY <1>14, <1>16, <1>17, <1>18, <1>19, <1>21, <1>23 DEF Inv, Mapped

\* A page table is made for an area that had none, or a page directory.
LEMMA TableSteps ==
  ASSUME Inv, LSM_NEW_PAGE_TABLE \/ FreeExpanded \/ LeaveExpanded \/ LSM_INIT_CLIENT
  PROVE  Inv'
<1> DEFINE f == FreeHead(ppm)
<1>1. /\ TypeOK /\ Framed /\ Mapped /\ PpmType(ppm, Pages)
      /\ job \in JobType /\ job.pages \subseteq Pages
      /\ pte \in [Pages -> EntryType]
      /\ table \in [Owners -> Frames \cup {NoTable, UncommittedPDE}]
      /\ dir \in [Clients -> Frames \cup {NoFrame}]
  BY JobFields DEF Inv, TypeOK
<1>2. f \in Free(ppm) /\ f \in Frames
  BY <1>1, FreeHeadType
     DEF LSM_NEW_PAGE_TABLE, FreeExpanded, LeaveExpanded, LSM_INIT_CLIENT,
         FrameReady
<1>3. cur \in Clients
  BY Begun DEF LSM_NEW_PAGE_TABLE, FreeExpanded, LeaveExpanded,
               LSM_INIT_CLIENT, Doing
<1> HIDE DEF f
<1>4. /\ ppm' = Fixed(ppm, f, NoPage)
      /\ UNCHANGED <<bsm, outside, blocks, reserved, ram, stop, known, live, cur>>
  BY DEF LSM_NEW_PAGE_TABLE, FreeExpanded, LeaveExpanded, LSM_INIT_CLIENT,
         NewTable, Fixed, f
<1>5. PpmType(ppm', Pages)
  <2>1. NoPage \in Pages \cup {NoPage}
    OBVIOUS
  <2> QED
    BY <1>1, <1>2, <1>4, <2>1, FixedRecord
<1>6. job.op \in {"alloc", "expand"} => JobOwner \in Owners
  <2>1. job.op \in {"alloc", "expand"} => job.pages # {}
    BY <1>1 DEF Inv, JobSound, Mapped, BlocksOwned
  <2> QED
    BY <1>1, <2>1, PagesType DEF JobOwner
<1>7. \/ /\ dir' = dir
         /\ \E o \in Owners : table' = [table EXCEPT ![o] = f]
      \/ /\ table' = table
         /\ \E c \in Clients : dir' = [dir EXCEPT ![c] = f]
  <2>1. CASE LSM_NEW_PAGE_TABLE
    BY <1>6, <2>1 DEF LSM_NEW_PAGE_TABLE, NewTable, Doing, f
  <2>2. CASE FreeExpanded
    BY <1>6, <2>2 DEF FreeExpanded, NewTable, Doing, f
  <2>3. CASE LeaveExpanded
    BY <1>3, <2>3 DEF LeaveExpanded, NewTable, Owners, f
  <2>4. CASE LSM_INIT_CLIENT
    BY <1>3, <2>4 DEF LSM_INIT_CLIENT, f
  <2> QED
    BY <2>1, <2>2, <2>3, <2>4
<1>8. \A p \in Pages : pte'[p] = pte[p] \/ (Clean(p) /\ Clean(p)')
  <2>1. CASE FreeExpanded
    <3>1. pte' = [p \in Pages |-> IF p \in job.pages THEN Unalloc ELSE pte[p]]
      BY <2>1 DEF FreeExpanded
    <3>2. \A p \in job.pages : Clean(p)
      BY <2>1 DEF FreeExpanded, Doing, Inv, JobSound
    <3>3. \A p \in Pages : p \in job.pages \/ pte'[p] = pte[p]
      BY <3>1
    <3>4. \A p \in job.pages : pte'[p].state = "unalloc"
      BY <1>1, <3>1 DEF Unalloc, Entry
    <3> QED
      BY <3>2, <3>3, <3>4 DEF Clean
  <2>2. CASE LSM_NEW_PAGE_TABLE \/ LeaveExpanded \/ LSM_INIT_CLIENT
    <3>1. pte' = pte
      BY <2>2 DEF LSM_NEW_PAGE_TABLE, LeaveExpanded, LSM_INIT_CLIENT
    <3> QED
      BY <3>1
  <2> QED
    BY <2>1, <2>2
<1>9. pte' \in [Pages -> EntryType]
  BY <1>1, EntryTypes
     DEF LSM_NEW_PAGE_TABLE, FreeExpanded, LeaveExpanded, LSM_INIT_CLIENT
<1>10. Framed'
  <2>1. \A p \in Pages : KeepsFrame(p) \/ (~Resident(p)' /\ ~Resident(p))
    BY <1>8 DEF KeepsFrame, Resident, Clean
  <2> QED
    BY <1>1, <1>2, <1>4, <1>7, <2>1, TakenForTable
<1>11. SlotsSound'
  BY <1>1, <1>8 DEF Mapped, SlotsSound, IsSwapped, Clean
<1>12. \A o \in Owners : HasTable(o) => HasTable(o)'
  BY <1>1, <1>2, <1>7 DEF HasTable
<1>13. \A p \in Pages : Clean(p)' <=> Clean(p)
  BY <1>8 DEF Clean
<1>14. TablesCover'
  BY <1>1, <1>12, <1>13, PagesType DEF Mapped, TablesCover
<1>15. BlocksCover' /\ BlocksOwned'
  BY <1>1, <1>4, <1>13 DEF Mapped, BlocksCover, BlocksOwned
<1>16. job' \in JobType /\ (job' = job \/ job'.op \in {"idle", "gone", "swapfile"})
  <2>1. CASE LSM_NEW_PAGE_TABLE
    BY <1>1, <2>1 DEF LSM_NEW_PAGE_TABLE
  <2>2. CASE FreeExpanded
    BY <2>2, JobRecords DEF FreeExpanded
  <2>3. CASE LeaveExpanded
    BY <1>1, <2>3 DEF LeaveExpanded, JobType
  <2>4. CASE LSM_INIT_CLIENT
    BY <2>4 DEF LSM_INIT_CLIENT, JobType, Job
  <2> QED
    BY <2>1, <2>2, <2>3, <2>4
<1>17. JobSound'
  BY <1>1, <1>3, <1>4, <1>13, <1>16 DEF Inv, JobSound
<1>18. /\ table' \in [Owners -> Frames \cup {NoTable, UncommittedPDE}]
       /\ dir' \in [Clients -> Frames \cup {NoFrame}]
  BY <1>1, <1>2, <1>7
<1>19. TypeOK'
  BY <1>1, <1>4, <1>5, <1>9, <1>16, <1>18 DEF TypeOK
<1> QED
  BY <1>10, <1>11, <1>14, <1>15, <1>17, <1>19 DEF Inv, Mapped

\* The page that a lock or a fault is about.
LEMMA JobPage ==
  ASSUME Inv, Locking \/ Doing("fault")
  PROVE  /\ NextPage \in job.pages /\ NextPage \in Pages /\ NextPage \in Keys
         /\ cur \in Clients
<1>1. job.pages # {} /\ job.pages \subseteq Pages
  BY JobFields DEF Inv, JobSound, Locking, Doing
<1>2. NextPage \in job.pages /\ NextPage \in Pages
  BY <1>1, NextPageType
<1>3. cur \in Clients
  BY Begun DEF Locking, Doing
<1> QED
  BY <1>2, <1>3, PagesType

\* Every page has a name for the cache.
LEMMA KeyNowType ==
  ASSUME NEW p \in Pages, cur \in Clients
  PROVE  KeyNow(p) \in Keys
BY PagesType DEF KeyNow, Keys, Owners

\* A page that had no frame, and is not clean, has one now.
LEMMA PageMapped ==
  ASSUME Mapped, TypeOK, NEW page \in Pages, ~Clean(page),
         NEW f \in Frames, NEW dirty \in BOOLEAN,
         \/ pte' = [pte EXCEPT ![page] = Present(f, dirty)]
         \/ pte' = [pte EXCEPT ![page] = Locked(f, dirty)],
         table' = table, blocks' = blocks
  PROVE  Mapped' /\ pte' \in [Pages -> EntryType]
<1>1. pte \in [Pages -> EntryType]
  BY DEF TypeOK
<1>2. /\ \A p \in Pages : p # page => pte'[p] = pte[p]
      /\ pte'[page].state \in {"present", "locked"}
      /\ pte' \in [Pages -> EntryType]
  BY <1>1, EntryTypes, EntryStates
<1>3. SlotsSound'
  BY <1>2 DEF Mapped, SlotsSound, IsSwapped
<1>4. TablesCover'
  BY <1>2 DEF Mapped, TablesCover, HasTable, Clean
<1>5. BlocksCover'
  BY <1>2 DEF Mapped, BlocksCover, Clean
<1>6. BlocksOwned'
  BY DEF Mapped, BlocksOwned
<1> QED
  BY <1>2, <1>3, <1>4, <1>5, <1>6 DEF Mapped

\* A fault maps its page in a frame that may be swapped out.
LEMMA FaultSteps ==
  ASSUME Inv, FaultReserved \/ FaultSwapped
  PROVE  Inv'
<1>1. PICK f, page, s : f = FreeHead(ppm) /\ page = NextPage /\ s = pte[page].slot
  OBVIOUS
<1>2. /\ TypeOK /\ Framed /\ Mapped /\ PpmType(ppm, Pages) /\ StoreType(bsm)
      /\ reserved \in Int
  BY StoreTyped DEF Inv, TypeOK
<1>3. page \in Pages /\ page \in Keys /\ cur \in Clients
  BY <1>1, JobPage DEF FaultReserved, FaultSwapped
<1>4. f \in Free(ppm) /\ f \in Frames /\ f \notin ppm.alloced
  BY <1>1, <1>2, FreeHeadType DEF FaultReserved, FaultSwapped, FrameReady
<1>5. /\ ppm' = Pageable(ppm, f, page)
      /\ pte' = [pte EXCEPT ![page] = Present(f, FALSE)]
      /\ job' = Idle
      /\ UNCHANGED <<outside, live, cur, dir, table, blocks, stop, known>>
      /\ reserved' = reserved \/ reserved' = reserved - 1
  BY <1>1 DEF FaultReserved, FaultSwapped, Pageable
<1>6. ~Resident(page) /\ ~Clean(page)
  BY <1>1 DEF FaultReserved, FaultSwapped, IsReserved, IsSwapped, Resident, Clean
<1>7. /\ PpmType(ppm', Pages)
      /\ ppm'.managed = ppm.managed
      /\ ppm'.alloced = ppm.alloced \cup {f}
      /\ ppm'.swappable = ppm.swappable \cup {f}
      /\ ppm'.locks = [ppm.locks EXCEPT ![f] = 0]
      /\ ppm'.addr = [ppm.addr EXCEPT ![f] = page]
  BY <1>2, <1>3, <1>4, <1>5, PageableRecord
<1>8. PICK dirty \in BOOLEAN : pte' = [pte EXCEPT ![page] = Present(f, dirty)]
  BY <1>5
<1>9. Framed'
  <2>1. outside' = outside /\ table' = table /\ dir' = dir
    BY <1>5
  <2> QED
    BY <1>2, <1>3, <1>4, <1>6, <1>7, <1>8, <2>1, TakenForPage
<1>10. Mapped' /\ pte' \in [Pages -> EntryType]
  BY <1>2, <1>3, <1>4, <1>5, <1>6, <1>8, PageMapped
<1>11. job' \in JobType /\ JobSound'
  BY <1>5, JobRecords DEF JobSound
<1>12. StoreType(bsm') /\ ram' \in [Frames -> Words]
  <2>1. CASE FaultReserved
    <3>1. bsm' = bsm /\ ram' = [ram EXCEPT ![f] = IF ZeroDemand THEN Zero ELSE Junk]
      BY <1>1, <2>1 DEF FaultReserved
    <3> QED
      BY <1>2, <1>4, <3>1, RamTypes
  <2>2. CASE FaultSwapped
    <3>1. /\ bsm' = BSM_GETPAGE(bsm, KeyNow(page), s)
          /\ ram' = [ram EXCEPT ![f] = bsm.file[s]]
          /\ IsSwapped(page)
      BY <1>1, <2>2 DEF FaultSwapped
    <3>2. s \in Slots /\ KeyNow(page) \in Keys
      BY <1>1, <1>2, <1>3, <3>1, KeyNowType DEF Mapped, SlotsSound
    <3>3. StoreType(bsm') /\ bsm.file[s] \in Words
      BY <1>2, <3>1, <3>2, StoreGet
    <3> QED
      BY <1>2, <1>4, <3>1, <3>3, RamTypes
  <2> QED
    BY <2>1, <2>2
<1>13. reserved' \in Int
  BY <1>2, <1>5
<1>14. TypeOK'
  BY <1>2, <1>5, <1>7, <1>10, <1>11, <1>12, <1>13 DEF TypeOK, StoreType
<1> QED
  BY <1>9, <1>10, <1>11, <1>14 DEF Inv

\* The second pass of VMM_LOCK, page by page.
LEMMA LockPageSteps ==
  ASSUME Inv, LockResident \/ LockReserved \/ LockSwapped
  PROVE  Inv'
<1>1. PICK page : page = NextPage
  OBVIOUS
<1>2. /\ TypeOK /\ Framed /\ Mapped /\ PpmType(ppm, Pages) /\ StoreType(bsm)
      /\ reserved \in Int /\ job \in JobType
  BY StoreTyped DEF Inv, TypeOK
<1>3. page \in Pages /\ page \in Keys /\ cur \in Clients
  BY <1>1, JobPage DEF LockResident, LockReserved, LockSwapped
<1>4. /\ job' = [job EXCEPT !.pages = @ \ {page}]
      /\ UNCHANGED <<outside, live, cur, dir, table, blocks, stop, known>>
      /\ job.op = "locking"
  BY <1>1 DEF LockResident, LockReserved, LockSwapped, LockedPage, Locking,
              Doing
<1>5. job' \in JobType /\ job'.op = "locking"
  BY <1>2, <1>4, JobRecords
<1>6. JobSound'
  BY <1>3, <1>4, <1>5 DEF JobSound
<1>7. CASE LockResident
  <2>1. PICK f : f = pte[page].frame
    OBVIOUS
  <2>2. /\ Resident(page) /\ ppm' = PPM_LOCK(ppm, f)
        /\ pte' = [pte EXCEPT ![page] = Locked(@.frame, FALSE)]
        /\ UNCHANGED <<bsm, reserved, ram>>
    BY <1>1, <1>7, <2>1 DEF LockResident
  <2>3. ~Clean(page)
    BY <2>2 DEF Resident, Clean
  <2>4. f \in Frames
    BY <1>2, <1>3, <2>1, <2>2 DEF Framed, PagesFramed, PpmType
  <2>5. PpmType(ppm', Pages)
    BY <1>2, <2>2, <2>4, LockRecord
  <2>6. PICK dirty \in BOOLEAN : pte' = [pte EXCEPT ![page] = Locked(@.frame, dirty)]
    BY <2>2
  <2>7. Framed'
    BY <1>2, <1>3, <1>4, <2>1, <2>2, <2>6, LockedOnceMore
  <2>8. pte' = [pte EXCEPT ![page] = Locked(f, dirty)]
    BY <2>1, <2>6
  <2>9. Mapped' /\ pte' \in [Pages -> EntryType]
    BY <1>2, <1>3, <1>4, <2>3, <2>4, <2>8, PageMapped
  <2>10. TypeOK'
    BY <1>2, <1>4, <1>5, <2>2, <2>5, <2>9 DEF TypeOK
  <2> QED
    BY <1>6, <2>7, <2>9, <2>10 DEF Inv
<1>8. CASE LockReserved \/ LockSwapped
  <2>1. PICK f, s : f = FreeHead(ppm) /\ s = pte[page].slot
    OBVIOUS
  <2>2. f \in Free(ppm) /\ f \in Frames /\ f \notin ppm.alloced
    BY <1>2, <1>8, <2>1, FreeHeadType DEF LockReserved, LockSwapped, FrameReady
  <2>3. /\ ppm' = PPM_LOCK(Fixed(ppm, f, page), f)
        /\ pte' = [pte EXCEPT ![page] = Locked(f, FALSE)]
        /\ reserved' = reserved \/ reserved' = reserved - 1
    BY <1>1, <1>8, <2>1 DEF LockReserved, LockSwapped, Fixed
  <2>4. ~Resident(page) /\ ~Clean(page)
    BY <1>1, <1>8
       DEF LockReserved, LockSwapped, IsReserved, IsSwapped, Resident, Clean
  <2>5. /\ PpmType(ppm', Pages)
        /\ ppm'.managed = ppm.managed
        /\ ppm'.alloced = ppm.alloced \cup {f}
        /\ ppm'.swappable = ppm.swappable
        /\ ppm'.locks = [ppm.locks EXCEPT ![f] = 1]
        /\ ppm'.addr = [ppm.addr EXCEPT ![f] = page]
    BY <1>2, <1>3, <2>2, <2>3, LockedPageRecord
  <2>6. PICK dirty \in BOOLEAN : pte' = [pte EXCEPT ![page] = Locked(f, dirty)]
    BY <2>3
  <2>7. Framed'
    BY <1>2, <1>3, <1>4, <2>2, <2>4, <2>5, <2>6, TakenForPage
  <2>8. Mapped' /\ pte' \in [Pages -> EntryType]
    BY <1>2, <1>3, <1>4, <2>2, <2>4, <2>6, PageMapped
  <2>9. StoreType(bsm') /\ ram' \in [Frames -> Words]
    <3>1. CASE LockReserved
      <4>1. bsm' = bsm /\ ram' = [ram EXCEPT ![f] = IF ZeroDemand THEN Zero ELSE Junk]
        BY <2>1, <3>1 DEF LockReserved
      <4> QED
        BY <1>2, <2>2, <4>1, RamTypes
    <3>2. CASE LockSwapped
      <4>1. /\ bsm' = BSM_GETPAGE(bsm, KeyNow(page), s)
            /\ ram' = [ram EXCEPT ![f] = bsm.file[s]]
            /\ IsSwapped(page)
        BY <1>1, <2>1, <3>2 DEF LockSwapped
      <4>2. s \in Slots /\ KeyNow(page) \in Keys
        BY <1>2, <1>3, <2>1, <4>1, KeyNowType DEF Mapped, SlotsSound
      <4>3. StoreType(bsm') /\ bsm.file[s] \in Words
        BY <1>2, <4>1, <4>2, StoreGet
      <4> QED
        BY <1>2, <2>2, <4>1, <4>3, RamTypes
    <3> QED
      BY <1>8, <3>1, <3>2
  <2>10. reserved' \in Int
    BY <1>2, <2>3
  <2>11. TypeOK'
    BY <1>2, <1>4, <1>5, <2>5, <2>8, <2>9, <2>10 DEF TypeOK, StoreType
  <2> QED
    BY <1>6, <2>7, <2>8, <2>11 DEF Inv
<1> QED
  BY <1>7, <1>8

\* A page whose last lock goes is swappable again; the others stay locked.
LEMMA UnlockStep ==
  ASSUME Inv, NEW S, S \subseteq Pages, VMM_UNLOCK(S)
  PROVE  Inv'
<1>1. /\ TypeOK /\ Framed /\ Mapped /\ PpmType(ppm, Pages)
      /\ pte \in [Pages -> EntryType] /\ job = Idle
  BY Begun DEF Inv, TypeOK, VMM_UNLOCK
<1>2. /\ \A p \in S : pte[p].state = "locked"
      /\ ppm' = PPM_UNLOCK(ppm, FramesOf(S))
      /\ pte' = [p \in Pages |->
                   IF p \in S /\ pte[p].frame \in LastLock(ppm, FramesOf(S))
                   THEN Present(pte[p].frame, TRUE) ELSE pte[p]]
      /\ UNCHANGED <<bsm, outside, live, cur, dir, table, blocks, reserved,
                     ram, job, stop, known>>
  BY DEF VMM_UNLOCK
<1>3. Framed'
  BY <1>1, <1>2, UnlockedOnce
<1>4. FramesOf(S) \subseteq ppm.alloced
  BY <1>1 DEF FramesOf, Framed, PagesFramed
<1>5. PpmType(ppm', Pages)
  BY <1>1, <1>2, <1>4, UnlockRecord
<1>6. \A p \in S : pte[p].frame \in Frames
  BY <1>1, <1>2 DEF Framed, PagesFramed, Resident, PpmType
<1>7. /\ pte' \in [Pages -> EntryType]
      /\ \A p \in Pages : pte'[p] = pte[p] \/ (~Clean(p) /\ pte'[p].state = "present")
  <2>1. \A p \in S : Present(pte[p].frame, TRUE) \in EntryType
    BY <1>6, EntryTypes
  <2>2. pte' \in [Pages -> EntryType]
    BY <1>1, <1>2, <2>1
  <2>3. \A p \in Pages : pte'[p] = pte[p] \/ (~Clean(p) /\ pte'[p].state = "present")
    <3>1. \A p \in S : pte'[p] = pte[p] \/ pte'[p].state = "present"
      BY <1>2 DEF Present, Entry
    <3>2. \A p \in Pages : p \notin S => pte'[p] = pte[p]
      BY <1>2
    <3> QED
      BY <1>2, <3>1, <3>2 DEF Clean
  <2> QED
    BY <2>2, <2>3
<1>8. SlotsSound'
  BY <1>1, <1>7 DEF Mapped, SlotsSound, IsSwapped
<1>9. TablesCover'
  BY <1>1, <1>2, <1>7 DEF Mapped, TablesCover, HasTable, Clean
<1>10. BlocksCover'
  BY <1>1, <1>2, <1>7 DEF Mapped, BlocksCover, Clean
<1>11. BlocksOwned'
  BY <1>1, <1>2 DEF Mapped, BlocksOwned
<1>12. JobSound'
  BY <1>1, <1>2, JobRecords DEF JobSound
<1>13. TypeOK'
  BY <1>1, <1>2, <1>5, <1>7 DEF TypeOK
<1> QED
  BY <1>3, <1>8, <1>9, <1>10, <1>11, <1>12, <1>13 DEF Inv, Mapped

\* Writing sets the dirty bit, and nothing else in an entry.
LEMMA WriteStep ==
  ASSUME Inv, NEW p \in Pages, NEW w \in Values, Write(p, w)
  PROVE  Inv'
<1>1. /\ TypeOK /\ Framed /\ Mapped /\ PpmType(ppm, Pages)
      /\ pte \in [Pages -> EntryType] /\ job = Idle
      /\ ram \in [Frames -> Words]
  BY Begun DEF Inv, TypeOK, Write
<1>2. /\ ram' = [ram EXCEPT ![pte[p].frame] = w]
      /\ pte' = [pte EXCEPT ![p].dirty = TRUE]
      /\ known' = known \cup {p}
      /\ UNCHANGED <<ppm, bsm, outside, live, cur, dir, table, blocks,
                     reserved, job, stop>>
  BY DEF Write
<1>3. /\ pte' \in [Pages -> EntryType]
      /\ \A q \in Pages : /\ KeepsFrame(q)
                          /\ pte'[q].slot = pte[q].slot
  BY <1>1, <1>2 DEF EntryType, KeepsFrame
<1>4. Framed'
  BY <1>1, <1>2, <1>3
     DEF Framed, PagesFramed, SwappableFramed, TablesFramed,
         DirectoriesFramed, Resident, KeepsFrame
<1>5. SlotsSound' /\ TablesCover' /\ BlocksCover' /\ BlocksOwned'
  BY <1>1, <1>2, <1>3
     DEF Mapped, SlotsSound, TablesCover, BlocksCover, BlocksOwned, IsSwapped,
         HasTable, Clean, KeepsFrame
<1>6. JobSound'
  BY <1>1, <1>2, JobRecords DEF JobSound
<1>7. ram' \in [Frames -> Words]
  BY <1>1, <1>2 DEF Words
<1>8. TypeOK'
  BY <1>1, <1>2, <1>3, <1>7 DEF TypeOK
<1> QED
  BY <1>4, <1>5, <1>6, <1>8 DEF Inv, Mapped

-----------------------------------------------------------------------------
(* A client goes. *)

\* The client that is back when the current one is gone is a client, or none.
LEMMA PreviousType ==
  ASSUME TypeOK
  PROVE  /\ Previous \in Clients \cup {NoClient}
         /\ SubSeq(live, 1, Len(live) - 1) \in Seq(Clients)
<1>1. live \in Seq(Clients) /\ Len(live) \in Nat
  BY DEF TypeOK
<1>2. DOMAIN live = 1..Len(live)
  BY <1>1
<1>3. CASE Len(live) = 0
  <2>1. live = <<>>
    BY <1>1, <1>3
  <2>2. Live = {}
    BY <2>1 DEF Live
  <2> QED
    BY <1>1, <1>3, <2>1, <2>2 DEF Previous
<1>4. CASE Len(live) > 0
  <2>1. SubSeq(live, 1, Len(live) - 1) \in Seq(Clients)
    BY <1>1, <1>4
  <2>2. \A i \in 1..Len(live) : live[i] \in Clients
    BY <1>1
  <2>3. PICK rest : rest = IF cur \in Live THEN Len(live) - 1 ELSE Len(live)
    OBVIOUS
  <2>4. rest = 0 \/ rest \in 1..Len(live)
    <3>1. PICK n \in Nat : n = Len(live) /\ n > 0
      BY <1>1, <1>4
    <3>2. rest = n - 1 \/ rest = n
      BY <2>3, <3>1
    <3>3. rest = 0 \/ rest \in 1..n
      BY <3>1, <3>2
    <3> QED
      BY <3>1, <3>3
  <2>5. Previous = IF rest = 0 THEN NoClient ELSE live[rest]
    BY <2>3 DEF Previous
  <2>6. Previous \in Clients \cup {NoClient}
    BY <2>2, <2>4, <2>5
  <2> QED
    BY <2>1, <2>6
<1> QED
  BY <1>1, <1>3, <1>4

\* VMM_TERMINATE_CLIENT releases what is the client's, and no frame of others.
LEMMA TerminateStep ==
  ASSUME Inv, VMM_TERMINATE_CLIENT
  PROVE  Inv'
<1>1. PICK A, F : A = Area(cur) /\ F = LeftFrames
  OBVIOUS
<1>2. /\ TypeOK /\ Framed /\ Mapped /\ PpmType(ppm, Pages)
      /\ pte \in [Pages -> EntryType]
      /\ table \in [Owners -> Frames \cup {NoTable, UncommittedPDE}]
      /\ dir \in [Clients -> Frames \cup {NoFrame}]
      /\ reserved \in Int /\ live \in Seq(Clients)
  BY DEF Inv, TypeOK
<1>3. cur \in Clients /\ cur \in Owners
  BY Begun DEF VMM_TERMINATE_CLIENT, Doing, Owners
<1>4. A \subseteq Pages /\ \A p \in Pages : p \in A <=> p.owner = cur
  BY <1>1, <1>3, PagesType
<1>5. /\ ppm' = PPM_FREE(ppm, F)
      /\ bsm' = BSM_FREE(bsm, SlotsOf(A))
      /\ reserved' = reserved - ReservedOf(A)
      /\ pte' = [p \in Pages |-> IF p \in A THEN Unalloc ELSE pte[p]]
      /\ table' = [table EXCEPT ![cur] = NoTable]
      /\ dir' = [dir EXCEPT ![cur] = NoFrame]
      /\ blocks' = {S \in blocks : S \cap A = {}}
      /\ ram' = Wiped(F)
      /\ known' = known \ A
      /\ cur' = Previous
      /\ job' = Idle
      /\ UNCHANGED <<outside, stop>>
  BY <1>1 DEF VMM_TERMINATE_CLIENT, LeftPages
<1>6. live' = live \/ live' = SubSeq(live, 1, Len(live) - 1)
  BY DEF VMM_TERMINATE_CLIENT
<1>7. F = FramesOf(A) \cup ({table[cur], dir[cur]} \cap Frames)
  BY <1>1 DEF LeftFrames, LeftPages
<1>8. /\ FramesOf(A) \subseteq Frames
      /\ \A p \in A : Resident(p) => pte[p].frame \in FramesOf(A)
      /\ \A p \in Pages : Resident(p) /\ pte[p].frame \in FramesOf(A) => p \in A
  BY <1>2, <1>4, FramesOfType
<1>9. \A f \in FramesOf(A) : ppm.addr[f] # NoPage
  BY <1>2, <1>4, VmmAssumption DEF FramesOf, Framed, PagesFramed
<1>10. /\ PpmType(ppm', Pages)
       /\ ppm'.managed = ppm.managed
       /\ ppm'.alloced = ppm.alloced \ F
       /\ ppm'.swappable = ppm.swappable \ F
       /\ ppm'.locks = ppm.locks
       /\ \A f \in Frames \ F : ppm'.addr[f] = ppm.addr[f]
  <2>1. F \subseteq Frames
    BY <1>7, <1>8
  <2> QED
    BY <1>2, <1>5, <2>1, FreeRecord
<1>11. /\ \A p \in A : pte'[p].state = "unalloc"
       /\ \A p \in Pages : p \notin A => pte'[p] = pte[p]
       /\ pte' \in [Pages -> EntryType]
  <2>1. Unalloc \in EntryType /\ Unalloc.state = "unalloc"
    BY EntryTypes, EntryStates
  <2> QED
    BY <1>2, <1>4, <1>5, <2>1
<1>12. \A p \in Pages : \/ KeepsFrame(p)
                        \/ ~Resident(p)' /\ (Resident(p) => pte[p].frame \in F)
  BY <1>7, <1>8, <1>11 DEF KeepsFrame, Resident
<1>13. \A p \in Pages : Resident(p)' => pte'[p].frame \notin F
  <2> SUFFICES ASSUME NEW p \in Pages, Resident(p)'
               PROVE  pte'[p].frame \notin F
    OBVIOUS
  <2>1. p \notin A /\ pte'[p] = pte[p] /\ Resident(p)
    BY <1>11 DEF Resident
  <2>2. /\ pte[p].frame \notin FramesOf(A)
        /\ ppm.addr[pte[p].frame] # NoPage
    BY <1>2, <1>8, <2>1, VmmAssumption DEF Framed, PagesFramed
  <2>3. \A f \in {table[cur], dir[cur]} \cap Frames : ppm.addr[f] = NoPage
    BY <1>2, <1>3 DEF Framed, TablesFramed, DirectoriesFramed
  <2> QED
    BY <1>7, <2>1, <2>2, <2>3
<1>14. \A o \in Owners : table'[o] \in Frames =>
                             table'[o] = table[o] /\ table[o] \notin F
  <2> SUFFICES ASSUME NEW o \in Owners, table'[o] \in Frames
               PROVE  table'[o] = table[o] /\ table[o] \notin F
    OBVIOUS
  <2>1. o # cur /\ table'[o] = table[o]
    BY <1>2, <1>5, VmmAssumption
  <2>2. /\ ppm.addr[table[o]] = NoPage /\ table[o] # table[cur]
        /\ table[o] # dir[cur]
    BY <1>2, <1>3, <2>1 DEF Framed, TablesFramed
  <2> QED
    BY <1>7, <1>9, <2>1, <2>2
<1>15. \A c \in Clients : dir'[c] \in Frames =>
                             dir'[c] = dir[c] /\ dir[c] \notin F
  <2> SUFFICES ASSUME NEW c \in Clients, dir'[c] \in Frames
               PROVE  dir'[c] = dir[c] /\ dir[c] \notin F
    OBVIOUS
  <2>1. c # cur /\ dir'[c] = dir[c]
    BY <1>2, <1>5, VmmAssumption
  <2>2. ppm.addr[dir[c]] = NoPage /\ dir[c] # dir[cur]
    BY <1>2, <1>3, <2>1 DEF Framed, DirectoriesFramed
  <2>3. table[cur] \in Frames => dir[c] # table[cur]
    BY <1>2, <1>3 DEF Framed, TablesFramed
  <2> QED
    BY <1>7, <1>9, <2>1, <2>2, <2>3
<1>16. ppm'.managed \cap outside' = {}
  BY <1>2, <1>5, <1>10 DEF Framed
<1>17. Framed'
  BY <1>2, <1>10, <1>12, <1>13, <1>14, <1>15, <1>16, Released
<1>18. \A p \in A : Clean(p)'
  BY <1>11 DEF Clean
<1>19. SlotsSound'
  BY <1>2, <1>11, <1>18 DEF Mapped, SlotsSound, IsSwapped, Clean
<1>20. TablesCover'
  <2> SUFFICES ASSUME NEW p \in Pages, p \notin A, ~HasTable(p.owner)'
               PROVE  Clean(p)'
    BY <1>18 DEF TablesCover
  <2>1. p.owner \in Owners /\ p.owner # cur
    BY <1>4, PagesType
  <2>2. ~HasTable(p.owner)
    BY <1>2, <1>5, <2>1 DEF HasTable
  <2> QED
    BY <1>2, <1>11, <2>2 DEF Mapped, TablesCover, Clean
<1>21. BlocksCover'
  <2> SUFFICES ASSUME NEW p \in Pages, p \notin A, ~Clean(p)'
               PROVE  p \in UNION blocks'
    BY <1>18 DEF BlocksCover
  <2>1. PICK S \in blocks : p \in S
    BY <1>2, <1>11 DEF Mapped, BlocksCover, Clean
  <2>2. S \subseteq Pages /\ \A q \in S : q.owner = p.owner
    BY <1>2, <2>1 DEF TypeOK, Mapped, BlocksOwned
  <2>3. S \cap A = {}
    BY <1>4, <2>2
  <2> QED
    BY <1>5, <2>1, <2>3
<1>22. BlocksOwned' /\ blocks' \subseteq SUBSET Pages
  BY <1>2, <1>5 DEF TypeOK, Mapped, BlocksOwned
<1>23. job' \in JobType /\ JobSound'
  BY <1>5, JobRecords DEF JobSound
<1>24. reserved' \in Int
  <2>1. ReservedOf(A) \in Nat
    BY <1>4, PageCount DEF ReservedOf
  <2> QED
    BY <1>2, <1>5, <2>1
<1>25. /\ StoreType(bsm') /\ ram' \in [Frames -> Words]
       /\ cur' \in Clients \cup {NoClient} /\ live' \in Seq(Clients)
  BY <1>2, <1>5, <1>6, StoreFree, StoreTyped, RamTypes, PreviousType
<1>26. /\ table' \in [Owners -> Frames \cup {NoTable, UncommittedPDE}]
       /\ dir' \in [Clients -> Frames \cup {NoFrame}]
  BY <1>2, <1>5
<1>27. TypeOK'
  BY <1>2, <1>5, <1>10, <1>11, <1>22, <1>23, <1>24, <1>25, <1>26
     DEF TypeOK, StoreType
<1> QED
  BY <1>17, <1>19, <1>20, <1>21, <1>22, <1>23, <1>27 DEF Inv, Mapped

\* Nothing is allocated.
LEMMA FreshStart ==
  ASSUME outside' \subseteq Frames,
         stop' \in {"none", "overcommit", "noframe", "stray", "misowned"},
         NEW total \in 0..BSMax,
         ppm' = PPM_INIT, bsm' = BSM_INIT(total), reserved' = 0,
         pte' = [p \in Pages |-> Unalloc], table' = [o \in Owners |-> NoTable],
         dir' = [c \in Clients |-> NoFrame], blocks' = {},
         ram' = [f \in Frames |-> Junk], known' = {}, live' = <<>>,
         cur' = NoClient, job' = Idle
  PROVE  Inv'
<1>1. /\ PpmType(ppm', Pages) /\ ppm'.managed = {} /\ ppm'.swappable = {}
  BY InitPool
<1>2. StoreType(bsm')
  BY StoreInit
<1>3. /\ pte' \in [Pages -> EntryType]
      /\ \A p \in Pages : pte'[p].state = "unalloc"
  BY EntryTypes, EntryStates
<1>4. job' \in JobType /\ job'.op = "idle"
  BY JobRecords
<1>5. TypeOK'
  BY <1>1, <1>2, <1>3, <1>4 DEF TypeOK, StoreType, Words
<1>6. Framed'
  BY <1>1, <1>3, VmmAssumption
     DEF Framed, PagesFramed, SwappableFramed, TablesFramed,
         DirectoriesFramed, Resident
<1>7. Mapped'
  BY <1>3 DEF Mapped, SlotsSound, TablesCover, BlocksCover, BlocksOwned,
              IsSwapped, Clean
<1>8. JobSound'
  BY <1>4 DEF JobSound
<1> QED
  BY <1>5, <1>6, <1>7, <1>8 DEF Inv

\* VMM_SHUTDOWN starts afresh.
LEMMA ShutdownStep ==
  ASSUME Inv, VMM_SHUTDOWN
  PROVE  Inv'
<1>1. PICK total : total = bsm.total
  OBVIOUS
<1>2. /\ total \in 0..BSMax /\ outside \subseteq Frames
      /\ stop \in {"none", "overcommit", "noframe", "stray", "misowned"}
  BY <1>1 DEF Inv, TypeOK, BsmType
<1> QED
  BY <1>1, <1>2, FreshStart DEF VMM_SHUTDOWN

-----------------------------------------------------------------------------
(* The invariant, and what follows from it. *)

\* The invariant holds at the start.
LEMMA InitInv == Init => Inv
<1> SUFFICES ASSUME Init
             PROVE  Inv
  OBVIOUS
<1>1. /\ PpmType(ppm, Pages) /\ ppm.managed = {} /\ ppm.swappable = {}
  BY InitPool DEF Init
<1>2. StoreType(bsm)
  BY StoreInit, StoreAssumption DEF Init
<1>3. /\ pte \in [Pages -> EntryType]
      /\ \A p \in Pages : pte[p].state = "unalloc"
  BY EntryTypes, EntryStates DEF Init
<1>4. job \in JobType /\ job.op = "idle"
  BY JobRecords DEF Init
<1>5. TypeOK
  BY <1>1, <1>2, <1>3, <1>4 DEF Init, TypeOK, StoreType, Words
<1>6. Framed
  BY <1>1, <1>3, VmmAssumption
     DEF Init, Framed, PagesFramed, SwappableFramed, TablesFramed,
         DirectoriesFramed, Resident
<1>7. Mapped
  BY <1>3 DEF Init, Mapped, SlotsSound, TablesCover, BlocksCover, BlocksOwned,
              IsSwapped, Clean
<1>8. JobSound
  BY <1>4 DEF JobSound
<1> QED
  BY <1>5, <1>6, <1>7, <1>8 DEF Inv

\* A step that changes nothing keeps it.
LEMMA Stutter == Inv /\ UNCHANGED vars => Inv'
<1> SUFFICES ASSUME Inv, UNCHANGED vars
             PROVE  Inv'
  OBVIOUS
<1>1. TypeOK' /\ JobSound'
  BY DEF Inv, vars, TypeOK, JobSound, Clean
<1>2. Mapped' /\ Framed'
  BY Untouched DEF Inv, Framed, vars
<1> QED
  BY <1>1, <1>2 DEF Inv

\* A client's call, a fault, or what the client does itself.
LEMMA ClientInv ==
  ASSUME Inv, Client
  PROVE  Inv'
<1>1. CASE \E o \in Mine \cap Owners : \E S \in Callable(o) : Call(S)
  <2>1. PICK o \in Mine \cap Owners : \E S \in Callable(o) : Call(S)
    BY <1>1
  <2>2. PICK S \in Callable(o) : Call(S)
    BY <2>1
  <2>3. S \subseteq Pages /\ o \in Owners
    BY CallableType
  <2>4. CASE VMM_ALLOC(S)
    BY <2>3, <2>4, AllocStep
  <2>5. CASE AllocUncommitted(S)
    BY <2>3, <2>5, UncommittedStep
  <2>6. CASE VMM_FREE(S)
    BY <2>3, <2>6, FreeStep
  <2>7. CASE VMM_LOCK(S)
    BY <2>3, <2>7, LockSteps
  <2>8. CASE VMM_UNLOCK(S)
    BY <2>3, <2>8, UnlockStep
  <2>9. CASE VMM_MARK_CANDIDATES(S)
    BY <2>3, <2>9, MarkStep
  <2>10. CASE VMM_DISCARD_PAGES(S)
    BY <2>3, <2>10, DiscardStep
  <2> QED
    BY <2>2, <2>4, <2>5, <2>6, <2>7, <2>8, <2>9, <2>10 DEF Call
<1>2. CASE \E p \in Pages : VMM_PageFaultHandler(p) \/ Read(p)
  BY <1>2, LookSteps
<1>3. CASE \E p \in Pages, w \in Values : Write(p, w)
  BY <1>3, WriteStep
<1>4. CASE VMM_QUERY
  BY <1>4, PoolSteps
<1>5. CASE Terminate \/ \E c \in Clients : DPMIFN_SWITCHADDR(c) \/ VMM_INIT_CLIENT(c)
  BY <1>5, SwitchSteps
<1> QED
  BY <1>1, <1>2, <1>3, <1>4, <1>5 DEF Client

\* And so does every step: one lemma above for each of them.
LEMMA NextInv == Inv /\ [Next]_vars => Inv'
<1> SUFFICES ASSUME Inv, [Next]_vars
             PROVE  Inv'
  OBVIOUS
<1>1. CASE Host
  <2>1. CASE FillPool \/ DrainRelease
    BY <2>1, PoolSteps
  <2>2. CASE \E f \in Frames : VMM_SWAP_OUT(f)
    BY <2>2, SwapOutStep
  <2>3. CASE TakeFrame
    BY <2>3, TableSteps, LockPageSteps, FaultSteps DEF TakeFrame
  <2>4. CASE Overcommit \/ NoFrameLeft \/ LockStray
    BY <2>4, StopSteps
  <2>5. CASE Commit
    BY <2>5, CommitStep
  <2>6. CASE LockIOBuffer \/ LockDone
    BY <2>6, LockSteps
  <2>7. CASE LockResident
    BY <2>7, LockPageSteps
  <2>8. CASE DrainSwap \/ DrainNothing
    BY <2>8, DrainSteps
  <2>9. CASE BSM_INIT_CLIENT
    BY <2>9, StoreClientStep
  <2>10. CASE VMM_TERMINATE_CLIENT
    BY <2>10, TerminateStep
  <2>11. CASE VMM_SHUTDOWN
    BY <2>11, ShutdownStep
  <2> QED
    BY <1>1, <2>1, <2>2, <2>3, <2>4, <2>5, <2>6, <2>7, <2>8, <2>9, <2>10,
       <2>11 DEF Host
<1>2. CASE Client
  BY <1>2, ClientInv
<1>3. CASE Primary
  <2>1. CASE ExternalAlloc \/ ExternalFree
    BY <2>1, ExternalSteps
  <2>2. CASE \E n \in 1..MaxDrain : PPM_DRAIN_POOL(n)
    BY <2>2, DrainSteps
  <2> QED
    BY <1>3, <2>1, <2>2 DEF Primary
<1>4. CASE Stopped \/ UNCHANGED vars
  BY <1>4, Stutter DEF Stopped
<1> QED
  BY <1>1, <1>2, <1>3, <1>4 DEF Next

\* The inductive invariant holds in every reachable state: the pool's records,
\* the page table entries, the blocks and the waiting call stay consistent
\* through every call, fault, swap, drain and client switch.
THEOREM Invariance == Spec => []Inv
<1> QED
  BY InitInv, NextInv, PTL DEF Spec

\* Every variable keeps its type, for any number of frames, clients, pages and
\* slots: every call, fault and drain leaves the pool, the store, the tables and
\* the job of the VMM well formed.
THEOREM TypeCorrect == Spec => []TypeOK
<1>1. Inv => TypeOK
  BY DEF Inv
<1> QED
  BY <1>1, Invariance, PTL

\* No frame ever serves two purposes: what VMM_SWAP_OUT, PPM_FREE and the
\* client switches do to a frame found through one entry, table or record
\* cannot touch the page, table or directory that another one names.
THEOREM FramesIsolated == Spec => []FrameIsolation
<1>1. Inv => FrameIsolation
  BY FramedImplies DEF Inv
<1> QED
  BY <1>1, Invariance, PTL

\* The lock counts of the pool and the states of the page table entries always
\* agree: a locked page has a lock count and cannot be swapped out, and any
\* other page in memory has none and can (PPM_LOCK, PPM_UNLOCK, VMM_LOCK and
\* VMM_UNLOCK).
THEOREM LocksAgree == Spec => []LocksMatch
<1>1. Inv => LocksMatch
  BY FramedImplies DEF Inv
<1> QED
  BY <1>1, Invariance, PTL
=============================================================================
