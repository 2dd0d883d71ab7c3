-------------------------- MODULE Contents_proofs --------------------------
(***************************************************************************)
(* The proofs that no slot of the swap file holds two pages, that a page   *)
(* holds for its client what the client stored in it (the refinement of    *)
(* VirtualMemory), and that no slot is lost, for any number of frames,     *)
(* clients, pages, slots and cache entries.                                *)
(***************************************************************************)
EXTENDS DpmiVmm_proofs

\* The slots that hold a page and are not in the cache.
Private(bs) == bs.map \ CachedSlots(bs)

\* What SlotIsolation says of the store alone.
CacheSound(bs) ==
    /\ CachedSlots(bs) \subseteq bs.map
    /\ \A i, j \in Cached(bs) : bs.cache[i].slot = bs.cache[j].slot => i = j

\* And of the entries.
SlotsPrivate == \A p \in Pages : IsSwapped(p) => pte[p].slot \in Private(bsm)
SlotsDistinct ==
    \A p, q \in Pages :
        IsSwapped(p) /\ IsSwapped(q) /\ pte[p].slot = pte[q].slot => p = q

SlotInv == CacheSound(bsm) /\ SlotsPrivate /\ SlotsDistinct

\* A page that its client has stored in is in memory or in the swap file.
KnownHere == \A p \in known : Resident(p) \/ IsSwapped(p)

\* What the contents rest on: no client looks at a page that it has not stored
\* in, or nothing is ever swapped out.  A page that is only looked at may be
\* clean and have a slot in the cache from before it was freed.
NoStaleReads == ~ReadsFresh \/ BSInit = 0

\* A page that need not be written when it is swapped out is what its slot in
\* the cache holds.
CopyGood(p) ==
    NoStaleReads /\ pte[p].state = "present" /\ ~pte[p].dirty /\ Hit(bsm, p) =>
        bsm.file[bsm.cache[BSM_GET_CACHE_ENTRY(p)].slot] = ram[pte[p].frame]
CopiesGood == \A p \in known : CopyGood(p)

\* A job is about pages that the current client reaches.
JobMine == \A p \in job.pages : p.owner \in Mine

ContentInv == Inv /\ JobMine /\ SlotInv /\ KnownHere /\ CopiesGood

\* No page that has contents changes them, and none is given any.
ContentsHeld ==
    \A p \in known' : p \in known /\ (NoStaleReads => Contents(p)' = Contents(p))

\* What a step does for the pages, but for the job it leaves.
HoldsContents == SlotInv' /\ KnownHere' /\ CopiesGood' /\ ContentsHeld

\* A page stays where it is, as it is, and is not made clean.
Settled(p) ==
    \/ IsSwapped(p) /\ IsSwapped(p)' /\ pte'[p].slot = pte[p].slot
    \/ /\ Resident(p) /\ Resident(p)'
       /\ pte'[p].frame = pte[p].frame
       /\ ram'[pte[p].frame] = ram[pte[p].frame]
       /\ pte'[p].state = "present" /\ ~pte'[p].dirty =>
             pte[p].state = "present" /\ ~pte[p].dirty

-----------------------------------------------------------------------------
(* What the operations of the store do to its slots. *)

\* An entry of the cache, and the slot it keeps.
LEMMA CachedSlot ==
  ASSUME NEW bs, NEW i \in CacheIndexes, bs.cache[i] # NoEntry
  PROVE  i \in Cached(bs) /\ bs.cache[i].slot \in CachedSlots(bs)
BY DEF Cached, CachedSlots

\* Stores with the same cache have the same slots in it.
LEMMA SameCache ==
  ASSUME NEW bs, NEW bt, bt.cache = bs.cache
  PROVE  Cached(bt) = Cached(bs) /\ CachedSlots(bt) = CachedSlots(bs)
BY DEF Cached, CachedSlots

\* BSM_FREE of slots that are not in the cache.
LEMMA FreeSlots ==
  ASSUME NEW bs, StoreType(bs), CacheSound(bs), NEW Z, Z \cap CachedSlots(bs) = {}
  PROVE  LET bt == BSM_FREE(bs, Z)
         IN  /\ CacheSound(bt)
             /\ bt.cache = bs.cache /\ bt.file = bs.file
             /\ bt.total = bs.total /\ bt.map = bs.map \ Z
             /\ Private(bt) = Private(bs) \ Z
<1> DEFINE bt == BSM_FREE(bs, Z)
<1>1. /\ bt.cache = bs.cache /\ bt.file = bs.file
      /\ bt.total = bs.total /\ bt.map = bs.map \ Z
  BY DEF BSM_FREE, StoreType, BsmType
<1> HIDE DEF bt
<1>2. Cached(bt) = Cached(bs) /\ CachedSlots(bt) = CachedSlots(bs)
  BY <1>1, SameCache
<1>3. CacheSound(bt)
  BY <1>1, <1>2 DEF CacheSound
<1>4. Private(bt) = Private(bs) \ Z
  BY <1>1, <1>2 DEF Private
<1> QED
  BY <1>1, <1>3, <1>4 DEF bt

\* A flush that makes room empties the cache, and leaves the pages alone.
LEMMA RoomSlots ==
  ASSUME NEW bs, StoreType(bs), CacheSound(bs)
  PROVE  LET bt == MakeRoom(bs)
         IN  /\ StoreType(bt)
             /\ CacheSound(bt)
             /\ bt.file = bs.file /\ bt.total = bs.total
             /\ \A i \in CacheIndexes : bt.cache[i] \in {bs.cache[i], NoEntry}
             /\ Private(bt) = Private(bs)
             /\ \/ bt = bs
                \/ bt.map = bs.map \ CachedSlots(bs) /\ Cached(bt) = {}
<1> DEFINE bt == MakeRoom(bs)
<1>1. StoreType(bt)
  BY StoreFlush
<1>2. CASE bt = bs
  BY <1>1, <1>2
<1>3. CASE bt # bs
  <2>1. bt = BSM_FLUSH_CACHE(bs)
    BY <1>3 DEF MakeRoom
  <2>2. /\ bt.map = bs.map \ CachedSlots(bs) /\ bt.file = bs.file
        /\ bt.total = bs.total /\ bt.cache = [i \in CacheIndexes |-> NoEntry]
    BY <2>1 DEF BSM_FLUSH_CACHE, BSM_FREE, StoreType, BsmType
  <2> HIDE DEF bt
  <2>3. Cached(bt) = {} /\ CachedSlots(bt) = {}
    BY <2>2 DEF Cached, CachedSlots
  <2>4. CacheSound(bt) /\ Private(bt) = Private(bs)
    BY <2>2, <2>3 DEF CacheSound, Private
  <2> QED
    BY <1>1, <2>2, <2>3, <2>4 DEF bt
<1> QED
  BY <1>2, <1>3

\* BSM_PUTPAGE gives the page a slot that no page has and the cache forgets,
\* with the page in it unless the cache remembers it and it is clean; it
\* touches no other slot that holds a page or is in the cache.
LEMMA PutSlots ==
  ASSUME NEW bs, StoreType(bs), CacheSound(bs), NEW page \in Keys,
         NEW dirty \in BOOLEAN, NEW data \in Words, HasRoom(bs, page)
  PROVE  LET bt == BSM_PUTPAGE(bs, page, dirty, data)
             s == PutSlot(bs, page)
         IN  /\ s \in Slots /\ StoreType(bt) /\ CacheSound(bt)
             /\ bt.total = bs.total
             /\ s \notin Private(bs)
             /\ Private(bt) = Private(bs) \cup {s}
             /\ \A t \in Slots : t # s => bt.file[t] = bs.file[t]
             /\ bt.file[s] = IF Hit(bs, page) /\ ~dirty THEN bs.file[s] ELSE data
             /\ Hit(bs, page) => s = bs.cache[BSM_GET_CACHE_ENTRY(page)].slot
             /\ \A i \in CacheIndexes :
                  /\ bt.cache[i] \in {bs.cache[i], NoEntry}
                  /\ bt.cache[i] # NoEntry => bt.cache[i].slot # s
             /\ ~Hit(bt, page)
<1> DEFINE bt == BSM_PUTPAGE(bs, page, dirty, data)
           s == PutSlot(bs, page)
           e == BSM_GET_CACHE_ENTRY(page)
<1>1. e \in CacheIndexes /\ s \in Slots /\ StoreType(bt)
  BY IndexType, StorePut
<1>2. CASE Hit(bs, page)
  <2>1. s = bs.cache[e].slot /\ bs.cache[e] # NoEntry
    BY <1>2 DEF PutSlot, Hit
  <2>2. e \in Cached(bs) /\ s \in CachedSlots(bs)
    BY <1>1, <2>1, CachedSlot
  <2>3. bt = [bs EXCEPT !.cache[e] = NoEntry,
                        !.file[s] = IF dirty THEN data ELSE @]
    BY <1>2 DEF BSM_PUTPAGE
  <2> HIDE DEF bt, s, e
  <2>4. /\ bt.map = bs.map /\ bt.total = bs.total
        /\ bt.cache = [bs.cache EXCEPT ![e] = NoEntry]
        /\ bt.file = [bs.file EXCEPT ![s] = IF dirty THEN data ELSE bs.file[s]]
    BY <2>3 DEF StoreType, BsmType
  <2>5. Cached(bt) = Cached(bs) \ {e}
    BY <1>1, <2>4 DEF Cached, StoreType, BsmType
  <2>6. \A i \in CacheIndexes : i # e => bt.cache[i] = bs.cache[i]
    BY <1>1, <2>4 DEF StoreType, BsmType
  <2>7. bt.cache[e] = NoEntry
    BY <1>1, <2>4 DEF StoreType, BsmType
  <2>8. CachedSlots(bt) = CachedSlots(bs) \ {s}
    BY <2>1, <2>2, <2>5, <2>6 DEF CachedSlots, CacheSound, Cached
  <2>9. CacheSound(bt)
    BY <2>4, <2>5, <2>6, <2>8 DEF CacheSound, Cached
  <2>10. Private(bt) = Private(bs) \cup {s} /\ s \notin Private(bs)
    BY <2>2, <2>4, <2>8 DEF Private, CacheSound
  <2>11. /\ \A t \in Slots : t # s => bt.file[t] = bs.file[t]
         /\ bt.file[s] = IF ~dirty THEN bs.file[s] ELSE data
    BY <1>1, <2>4 DEF StoreType, BsmType
  <2>12. \A i \in CacheIndexes :
           bt.cache[i] # NoEntry => i # e /\ bt.cache[i].slot # s
    BY <2>1, <2>2, <2>6, <2>7 DEF CacheSound, Cached
  <2>13. ~Hit(bt, page)
    BY <2>7 DEF Hit, e
  <2> QED
    BY <1>1, <1>2, <2>1, <2>4, <2>6, <2>7, <2>9, <2>10, <2>11, <2>12, <2>13
       DEF bt, s, e
<1>3. CASE ~Hit(bs, page)
  <2> DEFINE room == MakeRoom(bs)
             mapped == BSM_ALLOC(room)
  <2>1. /\ StoreType(room) /\ CacheSound(room)
        /\ room.file = bs.file /\ room.total = bs.total
        /\ \A i \in CacheIndexes : room.cache[i] \in {bs.cache[i], NoEntry}
        /\ Private(room) = Private(bs)
    BY RoomSlots
  <2>2. Allocatable(room) # {} /\ Allocatable(room) \subseteq Slots
    BY <1>3 DEF HasRoom, Allocatable
  <2>3. s = FirstSlot(Allocatable(room))
    BY <1>3 DEF PutSlot
  <2>4. s \in Allocatable(room)
    BY <2>2, <2>3, FirstSlotType
  <2>5. bt = [mapped EXCEPT !.file[s] = data] /\ mapped = [room EXCEPT !.map = @ \cup {s}]
    BY <1>3, <2>3 DEF BSM_PUTPAGE, BSM_ALLOC
  <2> HIDE DEF bt, s, e, room, mapped
  <2>6. /\ mapped.map = room.map \cup {s} /\ mapped.cache = room.cache
        /\ mapped.file = room.file /\ mapped.total = room.total
        /\ StoreType(mapped)
    BY <1>1, <2>1, <2>5 DEF StoreType, BsmType
  <2>7. /\ bt.map = room.map \cup {s} /\ bt.cache = room.cache
        /\ bt.file = [room.file EXCEPT ![s] = data] /\ bt.total = room.total
    BY <2>5, <2>6 DEF StoreType, BsmType
  <2>8. s \notin room.map
    BY <2>4 DEF Allocatable
  <2>9. Cached(bt) = Cached(room) /\ CachedSlots(bt) = CachedSlots(room)
    BY <2>7, SameCache
  <2>10. s \notin CachedSlots(bt)
    BY <2>1, <2>8, <2>9 DEF CacheSound
  <2>11. CacheSound(bt)
    BY <2>1, <2>7, <2>9 DEF CacheSound
  <2>12. Private(bt) = Private(bs) \cup {s} /\ s \notin Private(bs)
    BY <2>1, <2>7, <2>8, <2>9, <2>10 DEF Private
  <2>13. /\ \A t \in Slots : t # s => bt.file[t] = bs.file[t]
         /\ bt.file[s] = data
    BY <1>1, <2>1, <2>7 DEF StoreType, BsmType
  <2>14. \A i \in CacheIndexes :
           /\ bt.cache[i] \in {bs.cache[i], NoEntry}
           /\ bt.cache[i] # NoEntry => bt.cache[i].slot # s
    BY <2>1, <2>7, <2>10, CachedSlot
  <2>15. ~Hit(bt, page)
    BY <1>1, <1>3, <2>14 DEF Hit, e
  <2> QED
    BY <1>1, <1>3, <2>1, <2>7, <2>11, <2>12, <2>13, <2>14, <2>15 DEF bt, s, e
<1> QED
  BY <1>2, <1>3

\* BSM_GETPAGE moves a slot from its page to the cache, where it replaces
\* another, and changes no contents.
LEMMA GetSlots ==
  ASSUME NEW bs, StoreType(bs), CacheSound(bs), NEW page \in Keys,
         NEW s \in Slots, s \in Private(bs)
  PROVE  LET bt == BSM_GETPAGE(bs, page, s)
             e == BSM_GET_CACHE_ENTRY(page)
         IN  /\ CacheSound(bt)
             /\ bt.file = bs.file /\ bt.total = bs.total
             /\ Private(bs) \ {s} \subseteq Private(bt)
             /\ bt.cache[e] = [page |-> page, slot |-> s]
             /\ \A i \in CacheIndexes : i # e => bt.cache[i] = bs.cache[i]
             /\ ~Hit(bs, page) =>
                  /\ Private(bt) = Private(bs) \ {s}
                  /\ bt.map = bs.map \ (IF bs.cache[e] = NoEntry THEN {}
                                        ELSE {bs.cache[e].slot})
<1> DEFINE bt == BSM_GETPAGE(bs, page, s)
           e == BSM_GET_CACHE_ENTRY(page)
           old == IF bs.cache[e] = NoEntry \/ Hit(bs, page) THEN {}
                  ELSE {bs.cache[e].slot}
           new == [page |-> page, slot |-> s]
<1>1. e \in CacheIndexes
  BY IndexType
<1>2. bt = [BSM_FREE(bs, old) EXCEPT !.cache[e] = new]
  BY DEF BSM_GETPAGE
<1>3. ~Hit(bs, page) => old = IF bs.cache[e] = NoEntry THEN {}
                              ELSE {bs.cache[e].slot}
  OBVIOUS
<1>4. old # {} => old = {bs.cache[e].slot} /\ e \in Cached(bs)
  BY <1>1 DEF Cached
<1>5. new # NoEntry /\ new.slot = s /\ new.page = page
  BY VmmAssumption
<1>6. old = {} => bs.cache[e] = NoEntry \/ Hit(bs, page)
  OBVIOUS
<1> HIDE DEF bt, e, old, new
<1>7. /\ bt.map = bs.map \ old /\ bt.file = bs.file /\ bt.total = bs.total
      /\ bt.cache = [bs.cache EXCEPT ![e] = new]
  BY <1>2 DEF BSM_FREE, StoreType, BsmType
<1>8. bt.cache[e] = new /\ \A i \in CacheIndexes : i # e => bt.cache[i] = bs.cache[i]
  BY <1>1, <1>7 DEF StoreType, BsmType
<1>9. Cached(bt) = Cached(bs) \cup {e}
  BY <1>1, <1>5, <1>8 DEF Cached
<1> DEFINE rest == {bs.cache[i].slot : i \in Cached(bs) \ {e}}
<1>10. CachedSlots(bt) = rest \cup {s}
  BY <1>1, <1>5, <1>8, <1>9 DEF CachedSlots, Cached
<1>11. CachedSlots(bs) = rest \cup (IF bs.cache[e] = NoEntry THEN {}
                                    ELSE {bs.cache[e].slot})
  BY <1>1 DEF CachedSlots, Cached
<1>12. bs.cache[e] # NoEntry => bs.cache[e].slot \notin rest
  BY <1>1 DEF CacheSound, Cached
<1>13. s \in bs.map /\ s \notin CachedSlots(bs)
  BY DEF Private
<1>14. CachedSlots(bs) \subseteq bs.map
  BY DEF CacheSound
<1>15. old \subseteq CachedSlots(bs) /\ old \cap rest = {}
  BY <1>1, <1>4, <1>12, CachedSlot DEF Cached
<1> HIDE DEF rest
<1>16. CachedSlots(bt) \subseteq bt.map
  BY <1>7, <1>10, <1>11, <1>13, <1>14, <1>15
<1>17. \A i, j \in Cached(bt) : bt.cache[i].slot = bt.cache[j].slot => i = j
  BY <1>1, <1>5, <1>8, <1>9, <1>13, CachedSlot DEF CacheSound, Cached
<1>18. Private(bs) \ {s} \subseteq Private(bt)
  BY <1>7, <1>10, <1>11, <1>15 DEF Private
<1>19. ~Hit(bs, page) => Private(bt) = Private(bs) \ {s}
  BY <1>3, <1>7, <1>10, <1>11, <1>12, <1>14 DEF Private
<1> QED
  BY <1>3, <1>7, <1>8, <1>16, <1>17, <1>18, <1>19 DEF CacheSound, bt, e, new

-----------------------------------------------------------------------------
(* Steps that leave the contents of the store and its cache alone. *)

\* They may free the slots Z.
LEMMA StoreHeld ==
  ASSUME ContentInv, known' \subseteq known, known \subseteq Pages,
         NEW Z, Z \cap CachedSlots(bsm) = {},
         bsm'.cache = bsm.cache, bsm'.file = bsm.file, bsm'.map = bsm.map \ Z,
         \A p \in Pages : IsSwapped(p)' =>
             IsSwapped(p) /\ pte'[p].slot = pte[p].slot /\ pte[p].slot \notin Z,
         \A p \in known' : Settled(p)
  PROVE  HoldsContents
<1>1. Cached(bsm') = Cached(bsm) /\ CachedSlots(bsm') = CachedSlots(bsm)
  BY SameCache
<1>2. CacheSound(bsm)'
  BY <1>1 DEF ContentInv, SlotInv, CacheSound
<1>3. Private(bsm') = Private(bsm) \ Z
  BY <1>1 DEF Private
<1>4. SlotsPrivate' /\ SlotsDistinct'
  BY <1>3 DEF ContentInv, SlotInv, SlotsPrivate, SlotsDistinct, IsSwapped
<1>5. ASSUME NEW p \in known'
      PROVE  /\ p \in known /\ Contents(p)' = Contents(p)
             /\ (Resident(p) \/ IsSwapped(p))' /\ CopyGood(p)'
  <2>1. p \in known /\ Settled(p)
    BY <1>5
  <2>2. CASE IsSwapped(p) /\ IsSwapped(p)' /\ pte'[p].slot = pte[p].slot
    BY <2>1, <2>2 DEF IsSwapped, Resident, Contents, CopyGood
  <2>3. CASE /\ Resident(p) /\ Resident(p)' /\ pte'[p].frame = pte[p].frame
             /\ ram'[pte[p].frame] = ram[pte[p].frame]
             /\ pte'[p].state = "present" /\ ~pte'[p].dirty =>
                  pte[p].state = "present" /\ ~pte[p].dirty
    <3>1. Hit(bsm, p)' => Hit(bsm, p)
      BY DEF Hit, BSM_GET_CACHE_ENTRY
    <3>2. CopyGood(p)
      BY <2>1 DEF ContentInv, CopiesGood
    <3>3. CopyGood(p)'
      BY <2>3, <3>1, <3>2 DEF CopyGood, BSM_GET_CACHE_ENTRY
    <3> QED
      BY <2>1, <2>3, <3>3 DEF Contents
  <2> QED
    BY <2>1, <2>2, <2>3 DEF Settled
<1> QED
  BY <1>2, <1>4, <1>5
     DEF HoldsContents, SlotInv, KnownHere, CopiesGood, ContentsHeld

\* They may leave the store alone, and move no page to it.
LEMMA PagesHeld ==
  ASSUME ContentInv, known' \subseteq known, known \subseteq Pages,
         bsm'.cache = bsm.cache, bsm'.file = bsm.file, bsm'.map = bsm.map,
         \A p \in Pages : IsSwapped(p)' =>
             IsSwapped(p) /\ pte'[p].slot = pte[p].slot,
         \A p \in known' : Settled(p)
  PROVE  HoldsContents
<1> DEFINE Z == {}
<1>1. /\ Z \cap CachedSlots(bsm) = {} /\ bsm'.map = bsm.map \ Z
      /\ \A s : s \notin Z
  OBVIOUS
<1> HIDE DEF Z
<1> QED
  BY <1>1, StoreHeld

\* They may leave all pages where they are, as they are.
LEMMA AllHeld ==
  ASSUME ContentInv, known' = known, pte' = pte, ram' = ram,
         bsm'.cache = bsm.cache, bsm'.file = bsm.file, bsm'.map = bsm.map
  PROVE  HoldsContents
<1>1. known \subseteq Pages
  BY DEF ContentInv, Inv, TypeOK
<1>2. \A p \in known' : Settled(p)
  BY DEF ContentInv, KnownHere, Settled, Resident, IsSwapped
<1>3. \A p \in Pages : IsSwapped(p)' =>
             IsSwapped(p) /\ pte'[p].slot = pte[p].slot
  BY DEF IsSwapped
<1> QED
  BY <1>1, <1>2, <1>3, PagesHeld

\* Most steps do.
LEMMA QuietContents ==
  ASSUME ContentInv,
         \/ FillPool \/ Overcommit \/ NoFrameLeft \/ LSM_NEW_PAGE_TABLE
         \/ LockStray \/ LockDone \/ LockIOBuffer \/ LSM_INIT_CLIENT
         \/ LeaveExpanded \/ BSM_INIT_CLIENT \/ DrainRelease \/ DrainSwap
         \/ DrainNothing \/ Terminate \/ VMM_QUERY \/ ExternalAlloc
         \/ ExternalFree
         \/ \E n : PPM_DRAIN_POOL(n)
         \/ \E c : DPMIFN_SWITCHADDR(c) \/ VMM_INIT_CLIENT(c)
         \/ \E p : VMM_PageFaultHandler(p)
         \/ \E S : VMM_ALLOC(S) \/ VMM_LOCK(S) \/ VMM_MARK_CANDIDATES(S)
         \/ UNCHANGED vars
  PROVE  HoldsContents
<1>1. CASE BSM_INIT_CLIENT /\ bsm' # bsm
  <2>1. /\ known' = known /\ pte' = pte /\ ram' = ram
        /\ \E n : bsm' = BSM_GROW(bsm, n)
    BY <1>1 DEF BSM_INIT_CLIENT
  <2>2. StoreType(bsm)
    BY StoreTyped DEF ContentInv, Inv
  <2>3. bsm'.cache = bsm.cache /\ bsm'.file = bsm.file /\ bsm'.map = bsm.map
    BY <2>1, <2>2 DEF BSM_GROW, StoreType, BsmType
  <2> QED
    BY <2>1, <2>3, AllHeld
<1>2. CASE known' = known /\ pte' = pte /\ ram' = ram /\ bsm' = bsm
  BY <1>2, AllHeld
<1>3. \/ BSM_INIT_CLIENT
      \/ known' = known /\ pte' = pte /\ ram' = ram /\ bsm' = bsm
  BY DEF FillPool, Overcommit, NoFrameLeft, LSM_NEW_PAGE_TABLE, LockStray,
         LockDone, LockIOBuffer, LSM_INIT_CLIENT, LeaveExpanded, DrainRelease,
         DrainSwap, DrainNothing, Terminate, VMM_QUERY, ExternalAlloc,
         ExternalFree, PPM_DRAIN_POOL, DPMIFN_SWITCHADDR, VMM_INIT_CLIENT,
         VMM_PageFaultHandler, VMM_ALLOC, VMM_LOCK, VMM_MARK_CANDIDATES, vars
<1>4. BSM_INIT_CLIENT => known' = known /\ pte' = pte /\ ram' = ram
  BY DEF BSM_INIT_CLIENT
<1> QED
  BY <1>1, <1>2, <1>3, <1>4

-----------------------------------------------------------------------------
(* Steps that give pages up. *)

\* The contents of the pages of P are dropped, with their frames, which are
\* among F, and their slots.
Drops(P, F) ==
    /\ P \subseteq Pages
    /\ known' = known \ P
    /\ ram' = Wiped(F)
    /\ bsm' = BSM_FREE(bsm, SlotsOf(P))
    /\ \A p \in Pages \ P : pte'[p] = pte[p]
    /\ \A p \in P : ~IsSwapped(p)' /\ ~Resident(p)'
    /\ \A p \in Pages \ P : Resident(p) => pte[p].frame \notin F

\* Pages that are dropped with all they had take nothing from the others.
LEMMA DroppedContents ==
  ASSUME ContentInv, NEW P, NEW F, Drops(P, F)
  PROVE  HoldsContents
<1>1. TypeOK /\ StoreType(bsm) /\ PagesFramed /\ known \subseteq Pages
  BY StoreTyped DEF ContentInv, Inv, Framed, TypeOK
<1> DEFINE Z == SlotsOf(P)
<1>2. /\ bsm'.cache = bsm.cache /\ bsm'.file = bsm.file
      /\ bsm'.map = bsm.map \ Z
  BY <1>1 DEF Drops, BSM_FREE, StoreType, BsmType
<1>3. Z \cap CachedSlots(bsm) = {}
  BY DEF Drops, SlotsOf, ContentInv, SlotInv, SlotsPrivate, Private
<1>4. ASSUME NEW p \in Pages, IsSwapped(p)'
      PROVE  IsSwapped(p) /\ pte'[p].slot = pte[p].slot /\ pte[p].slot \notin Z
  <2>1. p \notin P /\ pte'[p] = pte[p]
    BY <1>4 DEF Drops
  <2>2. IsSwapped(p)
    BY <1>4, <2>1 DEF IsSwapped
  <2> QED
    BY <2>1, <2>2 DEF Drops, SlotsOf, ContentInv, SlotInv, SlotsDistinct
<1>5. ASSUME NEW p \in known'
      PROVE  Settled(p)
  <2>1. p \in Pages \ P /\ p \in known
    BY <1>1, <1>5 DEF Drops
  <2>2. pte'[p] = pte[p] /\ (Resident(p) \/ IsSwapped(p))
    BY <2>1 DEF Drops, ContentInv, KnownHere
  <2>3. Resident(p) => pte[p].frame \in Frames \ F
    BY <1>1, <2>1 DEF Drops, PagesFramed, TypeOK, PpmType
  <2>4. Resident(p) => ram'[pte[p].frame] = ram[pte[p].frame]
    BY <2>3 DEF Drops, Wiped
  <2> QED
    BY <2>2, <2>4 DEF Settled, Resident, IsSwapped
<1>6. known' \subseteq known
  BY DEF Drops
<1> HIDE DEF Z
<1> QED
  BY <1>1, <1>2, <1>3, <1>4, <1>5, <1>6, StoreHeld

\* The calls that free or discard a region.
LEMMA FreeDrops ==
  ASSUME Inv, NEW o \in Owners, NEW S \in Callable(o),
         VMM_FREE(S) \/ VMM_DISCARD_PAGES(S)
  PROVE  \E P, F : Drops(P, F)
<1>1. /\ S \subseteq Pages /\ S # {} /\ \A p \in S : p.owner = o
      /\ TypeOK /\ Framed /\ Mapped /\ pte \in [Pages -> EntryType]
  BY CallableType DEF Inv, TypeOK
<1>2. (CHOOSE p \in S : TRUE).owner = o
  BY <1>1, OwnerOf
<1>3. CASE VMM_FREE(S)
  <2>1. /\ bsm' = BSM_FREE(bsm, SlotsOf(S)) /\ ram' = Wiped(FramesOf(S))
        /\ known' = known \ S
    BY <1>3 DEF VMM_FREE
  <2>2. \/ pte' = [p \in Pages |-> IF p \in S THEN Unalloc ELSE pte[p]]
        \/ pte' = pte /\ table[o] = UncommittedPDE
    BY <1>2, <1>3 DEF VMM_FREE, LSM_SETN_PTES
  <2>3. table[o] = UncommittedPDE => \A p \in S : Clean(p)
    BY <1>1, VmmAssumption DEF Mapped, TablesCover, HasTable
  <2>4. /\ \A p \in Pages \ S : pte'[p] = pte[p]
        /\ \A p \in S : ~IsSwapped(p)' /\ ~Resident(p)'
    BY <1>1, <2>2, <2>3, EntryStates DEF IsSwapped, Resident, Clean
  <2>5. \A p \in Pages \ S : Resident(p) => pte[p].frame \notin FramesOf(S)
    BY <1>1, FramesOfType
  <2> QED
    BY <1>1, <2>1, <2>4, <2>5 DEF Drops
<1>4. CASE VMM_DISCARD_PAGES(S)
  <2>1. PICK P : P = {p \in S : pte[p].state \in {"present", "swapped"}}
    OBVIOUS
  <2>2. /\ bsm' = BSM_FREE(bsm, SlotsOf(P)) /\ ram' = Wiped(FramesOf(P))
        /\ known' = known \ P
        /\ pte' = [p \in Pages |-> IF p \in P THEN Reserved(FALSE) ELSE pte[p]]
    BY <1>4, <2>1 DEF VMM_DISCARD_PAGES
  <2>3. P \subseteq Pages
    BY <1>1, <2>1
  <2>4. Reserved(FALSE).state = "reserved"
    BY DEF Reserved, Entry
  <2>5. /\ \A p \in Pages \ P : pte'[p] = pte[p]
        /\ \A p \in P : ~IsSwapped(p)' /\ ~Resident(p)'
    BY <2>2, <2>3, <2>4 DEF IsSwapped, Resident
  <2>6. \A p \in Pages \ P : Resident(p) => pte[p].frame \notin FramesOf(P)
    BY <1>1, <2>3, FramesOfType
  <2> QED
    BY <2>2, <2>3, <2>5, <2>6 DEF Drops
<1> QED
  BY <1>3, <1>4

\* A client that goes.
LEMMA GoneDrops ==
  ASSUME Inv, VMM_TERMINATE_CLIENT
  PROVE  \E P, F : Drops(P, F)
<1>1. /\ TypeOK /\ Framed /\ cur \in Clients /\ cur \in Owners
      /\ table \in [Owners -> Frames \cup {NoTable, UncommittedPDE}]
  BY Begun DEF Inv, TypeOK, VMM_TERMINATE_CLIENT, Doing, Owners
<1>2. PICK A, F : A = Area(cur) /\ F = LeftFrames
  OBVIOUS
<1>3. /\ bsm' = BSM_FREE(bsm, SlotsOf(A)) /\ ram' = Wiped(F)
      /\ known' = known \ A
      /\ pte' = [p \in Pages |-> IF p \in A THEN Unalloc ELSE pte[p]]
  BY <1>2 DEF VMM_TERMINATE_CLIENT, LeftPages
<1>4. A \subseteq Pages
  BY <1>1, <1>2, PagesType
<1>5. /\ \A p \in Pages \ A : pte'[p] = pte[p]
      /\ \A p \in A : ~IsSwapped(p)' /\ ~Resident(p)'
  BY <1>3, <1>4, EntryStates DEF IsSwapped, Resident
<1>6. F = FramesOf(A) \cup ({table[cur], dir[cur]} \cap Frames)
  BY <1>2 DEF LeftFrames, LeftPages
<1>7. ASSUME NEW p \in Pages \ A, Resident(p)
      PROVE  pte[p].frame \notin F
  <2>1. pte[p].frame \notin FramesOf(A)
    BY <1>1, <1>4, <1>7, FramesOfType
  <2>2. ppm.addr[pte[p].frame] = p /\ p # NoPage
    BY <1>1, <1>7, VmmAssumption DEF Framed, PagesFramed
  <2>3. \A f \in {table[cur], dir[cur]} \cap Frames : ppm.addr[f] = NoPage
    BY <1>1 DEF Framed, TablesFramed, DirectoriesFramed
  <2> QED
    BY <1>6, <2>1, <2>2, <2>3
<1> QED
  BY <1>3, <1>4, <1>5, <1>7 DEF Drops

\* The last client that goes leaves nothing.
LEMMA ShutdownContents ==
  ASSUME ContentInv, VMM_SHUTDOWN
  PROVE  HoldsContents
<1>1. /\ bsm' = BSM_INIT(bsm.total) /\ known' = {}
      /\ pte' = [p \in Pages |-> Unalloc]
  BY DEF VMM_SHUTDOWN
<1>2. bsm'.cache = [i \in CacheIndexes |-> NoEntry]
  BY <1>1 DEF BSM_INIT
<1>3. Cached(bsm') = {} /\ CachedSlots(bsm') = {}
  BY <1>2 DEF Cached, CachedSlots
<1>4. \A p \in Pages : ~IsSwapped(p)'
  BY <1>1, EntryStates DEF IsSwapped
<1> QED
  BY <1>1, <1>3, <1>4
     DEF HoldsContents, SlotInv, CacheSound, SlotsPrivate, SlotsDistinct,
         KnownHere, CopiesGood, ContentsHeld

-----------------------------------------------------------------------------
(* Steps that change entries, and no contents. *)

\* Entries of pages without contents, and the state of pages in memory.
LEMMA EntryContents ==
  ASSUME ContentInv,
         \/ Commit \/ FreeExpanded \/ LockResident
         \/ \E o \in Owners : \E S \in Callable(o) :
              AllocUncommitted(S) \/ VMM_UNLOCK(S)
  PROVE  HoldsContents
<1>1. /\ TypeOK /\ Mapped /\ JobSound /\ pte \in [Pages -> EntryType]
      /\ known \subseteq Pages
  BY DEF ContentInv, Inv, TypeOK
<1>2. bsm' = bsm /\ ram' = ram /\ known' = known
  BY DEF Commit, FreeExpanded, LockResident, AllocUncommitted, VMM_UNLOCK
<1>3. ASSUME NEW S, \A p \in S : Clean(p), NEW entry, entry.state # "swapped",
             \A p \in Pages : pte'[p] = IF p \in S THEN entry ELSE pte[p]
      PROVE  HoldsContents
  <2>1. \A p \in known' : p \notin S /\ pte'[p] = pte[p]
    BY <1>1, <1>2, <1>3
       DEF ContentInv, KnownHere, Clean, Resident, IsSwapped
  <2>2. \A p \in known' : Settled(p)
    BY <1>2, <2>1 DEF ContentInv, KnownHere, Settled, Resident, IsSwapped
  <2>3. \A p \in Pages : IsSwapped(p)' =>
               IsSwapped(p) /\ pte'[p].slot = pte[p].slot
    BY <1>3 DEF IsSwapped
  <2> QED
    BY <1>1, <1>2, <2>2, <2>3, PagesHeld
<1>4. CASE Commit \/ FreeExpanded
  <2>1. \A p \in job.pages : Clean(p)
    BY <1>1, <1>4 DEF Commit, FreeExpanded, Doing, JobSound
  <2>2. PICK entry \in {Unalloc, Reserved(TRUE)} :
          pte' = [p \in Pages |-> IF p \in job.pages THEN entry ELSE pte[p]]
    BY <1>4 DEF Commit, FreeExpanded, LSM_SETN_PTES
  <2> QED
    BY <1>3, <2>1, <2>2, EntryStates
<1>5. CASE \E o \in Owners : \E S \in Callable(o) : AllocUncommitted(S)
  <2>1. PICK o \in Owners : \E S \in Callable(o) : AllocUncommitted(S)
    BY <1>5
  <2>2. PICK S \in Callable(o) : AllocUncommitted(S)
    BY <2>1
  <2>3. S \subseteq Pages /\ (CHOOSE p \in S : TRUE).owner = o
    BY CallableType, OwnerOf
  <2>4. \A p \in S : Clean(p)
    BY <1>1, <2>2, <2>3 DEF AllocUncommitted, Mapped, BlocksCover
  <2>5. ~HasTable(o) => \A p \in Area(o) : Clean(p)
    BY <1>1, PagesType DEF Mapped, TablesCover
  <2>6. CASE HasTable(o)
    <3>1. LSM_SETN_PTES(S, Uncommitted, UncommittedPDE)
      BY <2>2, <2>3, <2>6 DEF AllocUncommitted
    <3>2. pte' = [p \in Pages |-> IF p \in S THEN Uncommitted ELSE pte[p]]
      BY <3>1 DEF LSM_SETN_PTES
    <3> QED
      BY <1>3, <2>4, <3>2, EntryStates
  <2>7. CASE ~HasTable(o)
    <3>1. pte' = [p \in Pages |-> IF p \in Area(o) THEN Uncommitted ELSE pte[p]]
      BY <2>2, <2>3, <2>7 DEF AllocUncommitted
    <3> QED
      BY <1>3, <2>5, <2>7, <3>1, EntryStates
  <2> QED
    BY <2>6, <2>7
<1>6. ASSUME \A p \in Pages :
               \/ pte'[p] = pte[p]
               \/ /\ Resident(p) /\ Resident(p)' /\ pte'[p].frame = pte[p].frame
                  /\ pte'[p].state = "present" => pte'[p].dirty
      PROVE  HoldsContents
  <2>1. \A p \in known' : Settled(p)
    BY <1>1, <1>2, <1>6 DEF ContentInv, KnownHere, Settled, Resident, IsSwapped
  <2>2. \A p \in Pages : IsSwapped(p)' =>
               IsSwapped(p) /\ pte'[p].slot = pte[p].slot
    BY <1>6 DEF IsSwapped, Resident
  <2> QED
    BY <1>1, <1>2, <2>1, <2>2, PagesHeld
<1>7. CASE LockResident
  <2>1. PICK page, g : page = NextPage /\ g = pte[page].frame
    OBVIOUS
  <2>2. /\ Resident(page) /\ page \in Pages
        /\ pte' = [pte EXCEPT ![page] = Locked(g, FALSE)]
    BY <1>7, <2>1, JobPage DEF LockResident, ContentInv
  <2>3. /\ \A p \in Pages : p # page => pte'[p] = pte[p]
        /\ pte'[page].state = "locked" /\ pte'[page].frame = pte[page].frame
    <3>1. pte \in [Pages -> EntryType]
      BY <1>1
    <3>2. /\ \A p \in Pages : p # page => pte'[p] = pte[p]
          /\ pte'[page] = Locked(g, FALSE)
      BY <2>2, <3>1
    <3> QED
      BY <2>1, <3>2 DEF Locked, Entry
  <2> QED
    BY <1>6, <2>2, <2>3 DEF Resident
<1>8. CASE \E S : VMM_UNLOCK(S)
  <2>1. PICK S : VMM_UNLOCK(S)
    BY <1>8
  <2>2. \A p \in Pages :
          \/ pte'[p] = pte[p]
          \/ p \in S /\ pte'[p] = Present(pte[p].frame, TRUE)
    BY <2>1 DEF VMM_UNLOCK
  <2>3. \A p \in S : Resident(p)
    BY <2>1 DEF VMM_UNLOCK, Resident
  <2>4. \A f : /\ Present(f, TRUE).frame = f /\ Present(f, TRUE).dirty
               /\ Present(f, TRUE).state = "present"
    BY DEF Present, Entry
  <2>5. ASSUME NEW p \in Pages, pte'[p] # pte[p]
        PROVE  /\ Resident(p) /\ Resident(p)' /\ pte'[p].frame = pte[p].frame
               /\ pte'[p].dirty
    <3>1. PICK f : f = pte[p].frame
      OBVIOUS
    <3>2. p \in S /\ pte'[p] = Present(f, TRUE)
      BY <2>2, <2>5, <3>1
    <3>3. pte'[p].state = "present" /\ pte'[p].frame = f /\ pte'[p].dirty
      BY <2>4, <3>2
    <3> QED
      BY <2>3, <3>1, <3>2, <3>3 DEF Resident
  <2> QED
    BY <1>6, <2>5
<1> QED
  BY <1>4, <1>5, <1>7, <1>8

-----------------------------------------------------------------------------
(* Steps that move a page. *)

\* A page that has had no contents gets a frame that nobody had.
LEMMA FreshContents ==
  ASSUME ContentInv, FaultReserved \/ LockReserved
  PROVE  HoldsContents
<1>0. PICK f, page, w : /\ f = FreeHead(ppm) /\ page = NextPage
                        /\ w = IF ZeroDemand THEN Zero ELSE Junk
  OBVIOUS
<1>1. /\ \/ pte' = [pte EXCEPT ![page] = Present(f, FALSE)]
         \/ pte' = [pte EXCEPT ![page] = Locked(f, FALSE)]
      /\ ram' = [ram EXCEPT ![f] = w]
      /\ bsm' = bsm /\ known' = known
  BY <1>0 DEF FaultReserved, LockReserved
<1>2. /\ TypeOK /\ PagesFramed /\ pte \in [Pages -> EntryType]
      /\ ram \in [Frames -> Words] /\ known \subseteq Pages
      /\ ppm.alloced \subseteq Frames
  BY DEF ContentInv, Inv, TypeOK, Framed, PpmType
<1>3. page \in Pages /\ IsReserved(page)
  BY <1>0, JobPage DEF FaultReserved, LockReserved, ContentInv
<1>4. f \notin ppm.alloced
  BY <1>0, <1>2, FreeHeadType
     DEF FaultReserved, LockReserved, FrameReady, TypeOK
<1>5. page \notin known
  BY <1>3 DEF ContentInv, KnownHere, IsReserved, Resident, IsSwapped
<1>6. /\ \A p \in Pages : p # page => pte'[p] = pte[p]
      /\ \/ pte'[page] = Present(f, FALSE)
         \/ pte'[page] = Locked(f, FALSE)
  <2>1. pte \in [Pages -> EntryType]
    BY <1>2
  <2> QED
    BY <1>1, <1>3, <2>1
<1>7. \A g \in ppm.alloced : ram'[g] = ram[g]
  BY <1>1, <1>2, <1>4
<1>8. \A p \in known' : Settled(p)
  BY <1>1, <1>2, <1>5, <1>6, <1>7
     DEF ContentInv, KnownHere, Settled, Resident, IsSwapped, PagesFramed
<1>9. pte'[page].state # "swapped"
  BY <1>6 DEF Present, Locked, Entry
<1>10. \A p \in Pages : IsSwapped(p)' =>
             IsSwapped(p) /\ pte'[p].slot = pte[p].slot
  BY <1>6, <1>9 DEF IsSwapped
<1> QED
  BY <1>1, <1>2, <1>8, <1>10, PagesHeld

\* A page is read from its slot, which the cache remembers from now on; it
\* remembers no other page there, for the current client reaches the page.
LEMMA ReadContents ==
  ASSUME ContentInv, FaultSwapped \/ LockSwapped
  PROVE  HoldsContents
<1>1. PICK f, page, s, entry, key :
        /\ f = FreeHead(ppm) /\ page = NextPage /\ s = pte[page].slot
        /\ key = KeyNow(page)
        /\ pte' = [pte EXCEPT ![page] = entry]
        /\ entry = Present(f, FALSE) \/ entry = Locked(f, FALSE)
        /\ ram' = [ram EXCEPT ![f] = bsm.file[s]]
        /\ bsm' = BSM_GETPAGE(bsm, key, s)
        /\ known' = known
  BY DEF FaultSwapped, LockSwapped
<1>2. /\ TypeOK /\ PagesFramed /\ pte \in [Pages -> EntryType]
      /\ ram \in [Frames -> Words] /\ known \subseteq Pages
      /\ ppm.alloced \subseteq Frames /\ PpmType(ppm, Pages)
      /\ StoreType(bsm) /\ Mapped
  BY StoreTyped DEF ContentInv, Inv, TypeOK, Framed, PpmType
<1>3. /\ page \in Pages /\ page \in job.pages /\ IsSwapped(page)
      /\ cur \in Clients /\ page \in Keys /\ key \in Keys
  BY <1>1, JobPage, KeyNowType
     DEF FaultSwapped, LockSwapped, Locking, ContentInv
<1>4. f \in Frames /\ f \notin ppm.alloced
  BY <1>1, <1>2, FreeHeadType DEF FaultSwapped, LockSwapped, FrameReady
<1>5. s \in Slots /\ s \in Private(bsm)
  BY <1>1, <1>2, <1>3
     DEF Mapped, SlotsSound, ContentInv, SlotInv, SlotsPrivate
<1> DEFINE e == BSM_GET_CACHE_ENTRY(key)
<1>6. /\ CacheSound(bsm') /\ bsm'.file = bsm.file
      /\ Private(bsm) \ {s} \subseteq Private(bsm')
      /\ bsm'.cache[e] = [page |-> key, slot |-> s]
      /\ \A i \in CacheIndexes : i # e => bsm'.cache[i] = bsm.cache[i]
  BY <1>1, <1>2, <1>3, <1>5, GetSlots DEF ContentInv, SlotInv
<1>7. /\ \A p \in Pages : p # page => pte'[p] = pte[p]
      /\ pte'[page].state \in {"present", "locked"} /\ pte'[page].frame = f
  <2>1. pte \in [Pages -> EntryType]
    BY <1>2
  <2>2. /\ \A p \in Pages : p # page => pte'[p] = pte[p]
        /\ \/ pte'[page] = Present(f, FALSE)
           \/ pte'[page] = Locked(f, FALSE)
    BY <1>1, <1>3, <2>1
  <2> QED
    BY <2>2 DEF Present, Locked, Entry
<1>8. /\ ram'[f] = bsm.file[s]
      /\ \A g \in ppm.alloced : ram'[g] = ram[g]
  BY <1>1, <1>2, <1>4
<1>9. SlotInv'
  <2>1. \A p \in Pages : IsSwapped(p)' =>
          p # page /\ IsSwapped(p) /\ pte'[p] = pte[p] /\ pte[p].slot # s
    BY <1>1, <1>3, <1>7 DEF IsSwapped, ContentInv, SlotInv, SlotsDistinct
  <2>2. SlotsPrivate'
    BY <1>6, <2>1 DEF SlotsPrivate, ContentInv, SlotInv
  <2>3. SlotsDistinct'
    BY <2>1 DEF SlotsDistinct, ContentInv, SlotInv, IsSwapped
  <2> QED
    BY <1>6, <2>2, <2>3 DEF SlotInv
<1>10. ASSUME NEW p \in known
       PROVE  (Resident(p) \/ IsSwapped(p))' /\ Contents(p)' = Contents(p)
  <2>1. CASE p = page
    BY <1>1, <1>3, <1>7, <1>8, <2>1 DEF Contents, Resident, IsSwapped
  <2>2. CASE p # page
    <3>1. pte'[p] = pte[p] /\ p \in Pages /\ (Resident(p) \/ IsSwapped(p))
      BY <1>2, <1>7, <2>2 DEF ContentInv, KnownHere
    <3>2. Resident(p) => pte[p].frame \in ppm.alloced
      BY <1>2, <3>1 DEF PagesFramed
    <3> QED
      BY <1>6, <1>8, <3>1, <3>2 DEF Contents, Resident, IsSwapped
  <2> QED
    BY <2>1, <2>2
<1>11. ASSUME NoStaleReads, NEW p \in known,
              pte'[p].state = "present", ~pte'[p].dirty,
              Hit(bsm, p)'
       PROVE  bsm'.file[bsm'.cache[BSM_GET_CACHE_ENTRY(p)].slot]
                = ram'[pte'[p].frame]
  <2> DEFINE i == BSM_GET_CACHE_ENTRY(p)
  <2>1. p \in Pages /\ i \in CacheIndexes
    BY <1>2, PagesType, IndexType
  <2>2. bsm'.cache[i] # NoEntry /\ bsm'.cache[i].page = p
    BY <1>11 DEF Hit, BSM_GET_CACHE_ENTRY
  <2>3. CASE i = e
    <3>1. key = p /\ bsm'.cache[i].slot = s
      BY <1>6, <2>2, <2>3
    <3>2. p = page
      <4>1. p.owner = cur /\ p.va = page.va
        BY <1>1, <3>1 DEF KeyNow
      <4>2. page.owner = cur \/ page.owner = SharedOwner
        BY <1>3 DEF ContentInv, JobMine, Mine
      <4>3. p.va \in VA(p.owner) /\ page.va \in VA(page.owner)
        BY <1>3, <2>1, PagesType DEF Area
      <4>4. page.owner # SharedOwner
        BY <1>3, <4>1, <4>3, VmmAssumption DEF VA
      <4> QED
        BY <1>3, <2>1, <4>1, <4>2, <4>4, PagesType
    <3> QED
      BY <1>6, <1>7, <1>8, <3>1, <3>2
  <2>4. CASE i # e
    <3>1. bsm'.cache[i] = bsm.cache[i]
      BY <1>6, <2>1, <2>4
    <3>2. Hit(bsm, p)
      BY <2>2, <3>1 DEF Hit
    <3>3. p # page
      <4> SUFFICES ASSUME p = page
                   PROVE  FALSE
        OBVIOUS
      <4>1. key.va = p.va
        BY <1>1 DEF KeyNow
      <4> QED
        BY <2>4, <4>1 DEF BSM_GET_CACHE_ENTRY
    <3>4. pte'[p] = pte[p]
      BY <1>7, <2>1, <3>3
    <3>5. ram'[pte[p].frame] = ram[pte[p].frame]
      BY <1>2, <1>8, <1>11, <2>1, <3>4 DEF PagesFramed, Resident
    <3>6. bsm.file[bsm.cache[i].slot] = ram[pte[p].frame]
      BY <1>11, <3>2, <3>4 DEF ContentInv, CopiesGood, CopyGood
    <3> QED
      BY <1>6, <3>1, <3>4, <3>5, <3>6
  <2> QED
    BY <2>3, <2>4
<1>12. KnownHere' /\ ContentsHeld
  BY <1>1, <1>10 DEF KnownHere, ContentsHeld
<1>13. CopiesGood'
  BY <1>1, <1>11 DEF CopiesGood, CopyGood, BSM_GET_CACHE_ENTRY
<1> QED
  BY <1>9, <1>12, <1>13 DEF HoldsContents

\* A page goes to the swap file.  It is not written there if it is clean and
\* the cache remembers its slot, and then the slot holds the same.
LEMMA SwapOutContents ==
  ASSUME ContentInv, NEW f \in Frames, VMM_SWAP_OUT(f)
  PROVE  HoldsContents
<1>1. PICK page, s, dirty, data :
        /\ page = ppm.addr[f] /\ s = PutSlot(bsm, page)
        /\ dirty = pte[page].dirty /\ data = ram[f]
  OBVIOUS
<1>2. /\ TypeOK /\ Framed /\ PagesFramed /\ pte \in [Pages -> EntryType]
      /\ ram \in [Frames -> Words] /\ known \subseteq Pages
      /\ ppm.alloced \subseteq Frames /\ StoreType(bsm) /\ Mapped
  BY StoreTyped DEF ContentInv, Inv, TypeOK, Framed, PpmType
<1>3. page \in Pages /\ pte[page].frame = f /\ pte[page].state = "present"
  BY <1>1, <1>2 DEF VMM_SWAP_OUT, Victims, Framed, SwappableFramed
<1>4. /\ HasRoom(bsm, page)
      /\ bsm' = BSM_PUTPAGE(bsm, page, dirty, data)
      /\ pte' = [pte EXCEPT ![page] = Swapped(s)]
      /\ ram' = Wiped({f})
      /\ known' = known
  BY <1>1 DEF VMM_SWAP_OUT, SwapPage
<1>5. page \in Keys /\ dirty \in BOOLEAN /\ data \in Words
  BY <1>1, <1>2, <1>3, PagesType DEF EntryType
<1>6. /\ s \in Slots /\ CacheSound(bsm')
      /\ s \notin Private(bsm)
      /\ Private(bsm') = Private(bsm) \cup {s}
      /\ \A t \in Slots : t # s => bsm'.file[t] = bsm.file[t]
      /\ bsm'.file[s] = IF Hit(bsm, page) /\ ~dirty THEN bsm.file[s] ELSE data
      /\ Hit(bsm, page) => s = bsm.cache[BSM_GET_CACHE_ENTRY(page)].slot
      /\ \A i \in CacheIndexes :
           /\ bsm'.cache[i] \in {bsm.cache[i], NoEntry}
           /\ bsm'.cache[i] # NoEntry => bsm'.cache[i].slot # s
  <2>1. StoreType(bsm) /\ CacheSound(bsm) /\ HasRoom(bsm, page)
    BY <1>2, <1>4 DEF ContentInv, SlotInv
  <2>2. bsm' = BSM_PUTPAGE(bsm, page, dirty, data) /\ s = PutSlot(bsm, page)
    BY <1>1, <1>4
  <2> QED
    BY <1>5, <2>1, <2>2, PutSlots
<1>7. /\ \A p \in Pages : p # page => pte'[p] = pte[p]
      /\ pte'[page].state = "swapped" /\ pte'[page].slot = s
  <2>1. pte \in [Pages -> EntryType]
    BY <1>2
  <2>2. /\ \A p \in Pages : p # page => pte'[p] = pte[p]
        /\ pte'[page] = Swapped(s)
    BY <1>3, <1>4, <2>1
  <2> QED
    BY <2>2 DEF Swapped, Entry
<1>8. \A g \in Frames : g # f => ram'[g] = ram[g]
  BY <1>4 DEF Wiped
<1>9. SlotInv'
  <2>1. \A p \in Pages : p # page /\ IsSwapped(p)' =>
          IsSwapped(p) /\ pte'[p] = pte[p] /\ pte[p].slot # s
    BY <1>6, <1>7 DEF IsSwapped, ContentInv, SlotInv, SlotsPrivate
  <2>2. SlotsPrivate'
    BY <1>6, <1>7, <2>1 DEF SlotsPrivate, ContentInv, SlotInv
  <2>3. SlotsDistinct'
    BY <1>7, <2>1 DEF SlotsDistinct, ContentInv, SlotInv, IsSwapped
  <2> QED
    BY <1>6, <2>2, <2>3 DEF SlotInv
<1>10. ASSUME NEW p \in known
       PROVE  /\ (Resident(p) \/ IsSwapped(p))'
              /\ NoStaleReads => Contents(p)' = Contents(p)
  <2>1. CASE p = page
    <3>1. Contents(p) = data /\ Contents(p)' = bsm'.file[s] /\ IsSwapped(p)'
      BY <1>1, <1>3, <1>7, <2>1 DEF Contents, Resident, IsSwapped
    <3>2. NoStaleReads /\ Hit(bsm, page) /\ ~dirty => bsm.file[s] = data
      BY <1>1, <1>3, <1>6, <2>1 DEF ContentInv, CopiesGood, CopyGood
    <3> QED
      BY <1>6, <3>1, <3>2
  <2>2. CASE p # page
    <3>1. pte'[p] = pte[p] /\ p \in Pages /\ (Resident(p) \/ IsSwapped(p))
      BY <1>2, <1>7, <2>2 DEF ContentInv, KnownHere
    <3>2. CASE Resident(p)
      <4>1. pte[p].frame \in Frames /\ pte[p].frame # f
        BY <1>1, <1>2, <2>2, <3>1, <3>2 DEF PagesFramed
      <4> QED
        BY <1>8, <3>1, <3>2, <4>1 DEF Contents, Resident
    <3>3. CASE IsSwapped(p)
      <4>1. pte[p].slot \in Slots /\ pte[p].slot # s
        BY <1>2, <1>6, <3>1, <3>3
           DEF Mapped, SlotsSound, ContentInv, SlotInv, SlotsPrivate
      <4> QED
        BY <1>6, <3>1, <3>3, <4>1 DEF Contents, Resident, IsSwapped
    <3> QED
      BY <3>1, <3>2, <3>3
  <2> QED
    BY <2>1, <2>2
<1>11. ASSUME NoStaleReads, NEW p \in known,
              pte'[p].state = "present", ~pte'[p].dirty,
              Hit(bsm, p)'
       PROVE  bsm'.file[bsm'.cache[BSM_GET_CACHE_ENTRY(p)].slot]
                = ram'[pte'[p].frame]
  <2> DEFINE i == BSM_GET_CACHE_ENTRY(p)
  <2>1. p \in Pages /\ i \in CacheIndexes /\ p # page
    BY <1>2, <1>7, <1>11, PagesType, IndexType
  <2>2. bsm'.cache[i] # NoEntry /\ bsm'.cache[i].page = p
    BY <1>11 DEF Hit, BSM_GET_CACHE_ENTRY
  <2>3. bsm'.cache[i] = bsm.cache[i] /\ bsm.cache[i].slot # s
    BY <1>6, <2>1, <2>2
  <2>4. Hit(bsm, p)
    BY <2>2, <2>3 DEF Hit
  <2>5. bsm.cache[i].slot \in Slots
    BY <1>2, <2>1, <2>2, <2>3 DEF StoreType, BsmType
  <2>6. pte'[p] = pte[p]
    BY <1>7, <2>1
  <2>7. pte[p].frame \in Frames /\ pte[p].frame # f
    BY <1>1, <1>2, <1>11, <2>1, <2>6 DEF PagesFramed, Resident
  <2>8. bsm.file[bsm.cache[i].slot] = ram[pte[p].frame]
    BY <1>11, <2>4, <2>6 DEF ContentInv, CopiesGood, CopyGood
  <2> QED
    BY <1>6, <1>8, <2>3, <2>5, <2>6, <2>7, <2>8
<1>12. KnownHere' /\ ContentsHeld
  BY <1>4, <1>10 DEF KnownHere, ContentsHeld
<1>13. CopiesGood'
  BY <1>4, <1>11 DEF CopiesGood, CopyGood, BSM_GET_CACHE_ENTRY
<1> QED
  BY <1>9, <1>12, <1>13 DEF HoldsContents

-----------------------------------------------------------------------------
(* What the jobs are about. *)

\* The pages of a job, however it is made.
LEMMA JobPages ==
  /\ Idle.pages = {}
  /\ \A op, count, request : DrainJob(op, count, request).pages = {}
  /\ \A j \in JobType : \A op, p :
       /\ [j EXCEPT !.op = op].pages = j.pages
       /\ [j EXCEPT !.pages = @ \ {p}].pages = j.pages \ {p}
BY DEF Idle, Job, DrainJob, JobType

\* A step that adds no page to the job keeps it the current client's.
LEMMA FewerPages ==
  ASSUME JobMine,
         \/ cur' = cur /\ job'.pages \subseteq job.pages
         \/ job'.pages = {}
  PROVE  JobMine'
BY DEF JobMine, Mine

\* What the VMM does by itself.
LEMMA HostJobs ==
  ASSUME ContentInv, Host
  PROVE  JobMine'
<1>1. job \in JobType /\ JobMine
  BY JobFields DEF ContentInv, Inv
<1>2. CASE \/ FillPool \/ Overcommit \/ LockStray \/ LSM_NEW_PAGE_TABLE
  BY <1>1, <1>2, FewerPages
     DEF FillPool, Overcommit, LockStray, LSM_NEW_PAGE_TABLE
<1>3. CASE LockResident \/ LockReserved \/ LockSwapped
  <2>1. PICK p : cur' = cur /\ job' = [job EXCEPT !.pages = @ \ {p}]
    BY <1>3 DEF LockResident, LockReserved, LockSwapped, LockedPage
  <2>2. job'.pages = job.pages \ {p}
    BY <1>1, <2>1, JobPages
  <2> QED
    BY <1>1, <2>1, <2>2, FewerPages
<1>4. CASE \/ FreeExpanded \/ FaultReserved \/ FaultSwapped \/ LockDone
           \/ DrainRelease \/ DrainNothing \/ VMM_TERMINATE_CLIENT
           \/ VMM_SHUTDOWN
  <2>1. job' = Idle
    BY <1>4 DEF FreeExpanded, FaultReserved, FaultSwapped, LockDone,
                DrainRelease, DrainNothing, VMM_TERMINATE_CLIENT, VMM_SHUTDOWN
  <2> QED
    BY <1>1, <2>1, JobPages, FewerPages
<1>5. CASE DrainSwap \/ \E f \in Frames : VMM_SWAP_OUT(f)
  <2>1. /\ cur' = cur
        /\ \/ job' = job \/ job' = Idle
           \/ \E op, count, request : job' = DrainJob(op, count, request)
    BY <1>5 DEF DrainSwap, VMM_SWAP_OUT
  <2> QED
    BY <1>1, <2>1, JobPages, FewerPages
<1>6. CASE LeaveExpanded \/ LockIOBuffer \/ NoFrameLeft
  <2>1. /\ cur' = cur
        /\ \/ job' = job \/ job' = Idle \/ job' = Job("gone", {}, FALSE)
           \/ \E op : job' = [job EXCEPT !.op = op]
    BY <1>6 DEF LeaveExpanded, LockIOBuffer, NoFrameLeft
  <2>2. job'.pages \subseteq job.pages
    <3>1. CASE job' = Job("gone", {}, FALSE)
      BY <3>1 DEF Job
    <3>2. CASE job' = Idle \/ job' = job
      BY <3>2, JobPages
    <3>3. CASE \E op : job' = [job EXCEPT !.op = op]
      BY <1>1, <3>3, JobPages
    <3> QED
      BY <2>1, <3>1, <3>2, <3>3
  <2> QED
    BY <1>1, <2>1, <2>2, FewerPages
<1>7. CASE LSM_INIT_CLIENT
  <2>1. job' = Job("swapfile", {}, TRUE)
    BY <1>7 DEF LSM_INIT_CLIENT
  <2>2. job'.pages = {}
    BY <2>1 DEF Job
  <2> QED
    BY <1>1, <2>2, FewerPages
<1>8. CASE Commit
  <2>1. /\ cur' = cur
        /\ \/ job' = Idle \/ job' = Job("gone", {}, FALSE)
           \/ job' = Job("lock", job.pages, TRUE)
    BY <1>8 DEF Commit
  <2>2. job'.pages \subseteq job.pages
    <3>1. CASE job' = Idle
      BY <3>1, JobPages
    <3>2. CASE job' = Job("gone", {}, FALSE)
      BY <3>2 DEF Job
    <3>3. CASE job' = Job("lock", job.pages, TRUE)
      BY <3>3 DEF Job
    <3> QED
      BY <2>1, <3>1, <3>2, <3>3
  <2> QED
    BY <1>1, <2>1, <2>2, FewerPages
<1>9. CASE BSM_INIT_CLIENT
  <2>1. /\ cur' = cur
        /\ \/ job' = Idle \/ job' = Job("gone", {}, FALSE)
           \/ job' = Job("alloc", {IOPage(cur)}, TRUE)
    BY <1>9 DEF BSM_INIT_CLIENT, LSM_ALLOC
  <2>2. IOPage(cur).owner = cur
    BY DEF IOPage
  <2>3. CASE job' = Job("alloc", {IOPage(cur)}, TRUE)
    <3>1. job'.pages = {IOPage(cur)}
      BY <2>3 DEF Job
    <3> QED
      BY <2>1, <2>2, <3>1 DEF JobMine, Mine
  <2>4. CASE job' = Idle \/ job' = Job("gone", {}, FALSE)
    <3>1. job'.pages = {}
      BY <2>4 DEF Idle, Job
    <3> QED
      BY <1>1, <3>1, FewerPages
  <2> QED
    BY <2>1, <2>3, <2>4
<1> QED
  BY <1>2, <1>3, <1>4, <1>5, <1>6, <1>7, <1>8, <1>9 DEF Host, TakeFrame

\* What clients and the primary manager ask for.
LEMMA ClientJobs ==
  ASSUME ContentInv, Client \/ Primary \/ UNCHANGED vars
  PROVE  JobMine'
<1>1. job \in JobType /\ JobMine
  BY JobFields DEF ContentInv, Inv
<1>2. ASSUME NEW S, \A p \in S : p.owner \in Mine,
             cur' = cur, job'.pages = S
      PROVE  JobMine'
  BY <1>2 DEF JobMine, Mine
<1>3. CASE \E o \in Mine \cap Owners : \E S \in Callable(o) : Call(S)
  <2>1. PICK o \in Mine \cap Owners : \E S \in Callable(o) : Call(S)
    BY <1>3
  <2>2. PICK S \in Callable(o) : Call(S)
    BY <2>1
  <2>3. \A p \in S : p.owner \in Mine
    BY CallableType
  <2>4. \/ \E op : cur' = cur /\ job' = Job(op, S, FALSE)
        \/ cur' = cur /\ job' = job
        \/ job' = Idle
    BY <2>2 DEF Call, VMM_ALLOC, LSM_ALLOC, AllocUncommitted, VMM_FREE, VMM_LOCK,
                VMM_UNLOCK, VMM_MARK_CANDIDATES, VMM_DISCARD_PAGES
  <2>5. CASE \E op : cur' = cur /\ job' = Job(op, S, FALSE)
    <3>1. cur' = cur /\ job'.pages = S
      BY <2>5 DEF Job
    <3> QED
      BY <1>2, <2>3, <3>1
  <2> QED
    BY <1>1, <2>4, <2>5, JobPages, FewerPages
<1>4. CASE \E p \in Pages : VMM_PageFaultHandler(p)
  <2>1. PICK p : VMM_PageFaultHandler(p)
    BY <1>4
  <2>2. p.owner \in Mine /\ cur' = cur /\ job' = Job("fault", {p}, FALSE)
    BY <2>1 DEF VMM_PageFaultHandler
  <2>3. job'.pages = {p}
    BY <2>2 DEF Job
  <2> QED
    BY <1>2, <2>2, <2>3
<1>5. CASE \/ \E p \in Pages : Read(p) \/ \E w \in Values : Write(p, w)
           \/ VMM_QUERY \/ ExternalAlloc \/ ExternalFree \/ UNCHANGED vars
  BY <1>1, <1>5, FewerPages
     DEF Read, Write, VMM_QUERY, ExternalAlloc, ExternalFree, vars
<1>6. CASE Terminate \/ \E c \in Clients : DPMIFN_SWITCHADDR(c) \/ VMM_INIT_CLIENT(c)
  <2>1. \/ job' = Idle
        \/ \E op \in {"leave", "gone"} : job' = Job(op, {}, FALSE)
        \/ job' = Job("dir", {}, TRUE)
    BY <1>6 DEF Terminate, DPMIFN_SWITCHADDR, VMM_INIT_CLIENT, ClientRuns, Ready
  <2>2. job'.pages = {}
    <3>1. CASE job' = Idle
      BY <3>1, JobPages
    <3>2. CASE \E op \in {"leave", "gone"} : job' = Job(op, {}, FALSE)
      BY <3>2 DEF Job
    <3>3. CASE job' = Job("dir", {}, TRUE)
      BY <3>3 DEF Job
    <3> QED
      BY <2>1, <3>1, <3>2, <3>3
  <2> QED
    BY <1>1, <2>2, FewerPages
<1>7. CASE \E n : PPM_DRAIN_POOL(n)
  <2>1. PICK n : job' = DrainJob("drain", 0, n)
    BY <1>7 DEF PPM_DRAIN_POOL
  <2> QED
    BY <1>1, <2>1, JobPages, FewerPages
<1> QED
  BY <1>3, <1>4, <1>5, <1>6, <1>7 DEF Client, Primary

-----------------------------------------------------------------------------
(* The client's own steps. *)

\* A page that is stored in keeps its place, and is dirty from then on.
LEMMA WriteContents ==
  ASSUME ContentInv, NEW page \in Pages, NEW w \in Values, Write(page, w)
  PROVE  /\ SlotInv' /\ KnownHere' /\ CopiesGood'
         /\ known' = known \cup {page} /\ Contents(page)' = w
         /\ \A p \in known \ {page} : Contents(p)' = Contents(p)
<1>1. /\ Resident(page) /\ ram' = [ram EXCEPT ![pte[page].frame] = w]
      /\ pte' = [pte EXCEPT ![page].dirty = TRUE]
      /\ known' = known \cup {page} /\ bsm' = bsm
  BY DEF Write
<1>2. /\ PagesFramed /\ pte \in [Pages -> EntryType]
      /\ ram \in [Frames -> Words] /\ known \subseteq Pages
      /\ ppm.alloced \subseteq Frames
  BY DEF ContentInv, Inv, TypeOK, Framed, PpmType
<1>3. /\ \A p \in Pages : p # page => pte'[p] = pte[p]
      /\ \A p \in Pages : /\ pte'[p].state = pte[p].state
                          /\ pte'[p].frame = pte[p].frame
                          /\ pte'[p].slot = pte[p].slot
      /\ pte'[page].dirty
  BY <1>1, <1>2 DEF EntryType
<1>4. /\ pte[page].frame \in Frames
      /\ ram'[pte[page].frame] = w
      /\ \A p \in Pages : Resident(p) /\ p # page =>
           ram'[pte[p].frame] = ram[pte[p].frame]
  BY <1>1, <1>2 DEF PagesFramed
<1>5. SlotInv'
  BY <1>1, <1>3
     DEF ContentInv, SlotInv, SlotsPrivate, SlotsDistinct, IsSwapped
<1>6. KnownHere'
  BY <1>1, <1>2, <1>3 DEF ContentInv, KnownHere, Resident, IsSwapped
<1>7. ASSUME NEW p \in known \ {page}
      PROVE  Contents(p)' = Contents(p) /\ CopyGood(p)'
  <2>1. pte'[p] = pte[p] /\ p \in Pages /\ CopyGood(p)
    BY <1>2, <1>3, <1>7 DEF ContentInv, CopiesGood
  <2>2. Resident(p) => ram'[pte[p].frame] = ram[pte[p].frame]
    BY <1>4, <1>7, <2>1
  <2> QED
    BY <1>1, <2>1, <2>2
       DEF Contents, CopyGood, Resident, IsSwapped, Hit, BSM_GET_CACHE_ENTRY
<1>8. Contents(page)' = w /\ CopyGood(page)'
  BY <1>1, <1>3, <1>4 DEF Contents, Resident, CopyGood
<1> QED
  BY <1>1, <1>5, <1>6, <1>7, <1>8 DEF CopiesGood

\* Looking at a page changes nothing that the manager keeps.  That the page is
\* known from then on is sound if it was, or nothing has ever been swapped.
LEMMA ReadContentsKept ==
  ASSUME ContentInv, NEW page \in Pages, Read(page), CopyGood(page)
  PROVE  /\ SlotInv' /\ KnownHere' /\ CopiesGood'
         /\ known' = known \cup {page} /\ Resident(page)
         /\ \A p \in Pages : Contents(p)' = Contents(p)
<1>1. /\ Resident(page) /\ known' = known \cup {page}
      /\ bsm' = bsm /\ pte' = pte /\ ram' = ram
  BY DEF Read
<1> QED
  BY <1>1
     DEF ContentInv, SlotInv, SlotsPrivate, SlotsDistinct, KnownHere, CopiesGood,
         CopyGood, Contents, Resident, IsSwapped

-----------------------------------------------------------------------------
(* The invariant. *)

\* Neither pages nor slots are taken when the VMM starts.
LEMMA InitContents == Init => ContentInv
<1> SUFFICES ASSUME Init
             PROVE  ContentInv
  OBVIOUS
<1>1. Inv
  BY InitInv
<1>2. JobMine
  BY JobPages DEF Init, JobMine
<1>3. bsm.cache = [i \in CacheIndexes |-> NoEntry]
  BY DEF Init, BSM_INIT
<1>4. Cached(bsm) = {} /\ CachedSlots(bsm) = {}
  BY <1>3 DEF Cached, CachedSlots
<1>5. \A p \in Pages : ~IsSwapped(p)
  BY EntryStates DEF Init, IsSwapped
<1> QED
  BY <1>1, <1>2, <1>4, <1>5
     DEF Init, ContentInv, SlotInv, CacheSound, SlotsPrivate, SlotsDistinct,
         KnownHere, CopiesGood

\* Every step but those of a client that stores in a page or looks at it.
Manages ==
    \/ Host
    \/ Primary
    \/ UNCHANGED vars
    \/ \E o \in Mine \cap Owners : \E S \in Callable(o) : Call(S)
    \/ \E p \in Pages : VMM_PageFaultHandler(p)
    \/ VMM_QUERY
    \/ Terminate
    \/ \E c \in Clients : DPMIFN_SWITCHADDR(c) \/ VMM_INIT_CLIENT(c)

\* What a client does to its memory, and what the host does.
LEMMA NextManages ==
  [Next]_vars => \/ Manages
                 \/ \E p \in Pages : Read(p)
                 \/ \E p \in Pages, w \in Values : Write(p, w)
BY DEF Next, Client, Manages, Stopped

\* They change no contents.
LEMMA ManagesContents ==
  ASSUME ContentInv, Manages
  PROVE  HoldsContents
<1>0. Inv
  BY DEF ContentInv
<1>1. CASE Host
  BY <1>0, <1>1, QuietContents, EntryContents, FreshContents, ReadContents,
     SwapOutContents, GoneDrops, DroppedContents, ShutdownContents
     DEF Host, TakeFrame
<1>2. CASE \E o \in Mine \cap Owners : \E S \in Callable(o) : Call(S)
  <2>1. PICK o \in Mine \cap Owners : \E S \in Callable(o) : Call(S)
    BY <1>2
  <2>2. PICK S \in Callable(o) : Call(S)
    BY <2>1
  <2>3. CASE VMM_FREE(S) \/ VMM_DISCARD_PAGES(S)
    BY <1>0, <2>3, FreeDrops, DroppedContents
  <2>4. CASE AllocUncommitted(S) \/ VMM_UNLOCK(S)
    BY <2>4, EntryContents
  <2>5. CASE VMM_ALLOC(S) \/ VMM_LOCK(S) \/ VMM_MARK_CANDIDATES(S)
    BY <2>5, QuietContents
  <2> QED
    BY <2>2, <2>3, <2>4, <2>5 DEF Call
<1>3. CASE Primary \/ UNCHANGED vars \/ VMM_QUERY \/ Terminate
  BY <1>3, QuietContents DEF Primary
<1>4. CASE \/ \E p \in Pages : VMM_PageFaultHandler(p)
           \/ \E c \in Clients : DPMIFN_SWITCHADDR(c) \/ VMM_INIT_CLIENT(c)
  BY <1>4, QuietContents
<1> QED
  BY <1>1, <1>2, <1>3, <1>4 DEF Manages

\* And neither do they leave a job that is not the current client's.
LEMMA ManagesJobs ==
  ASSUME ContentInv, [Next]_vars
  PROVE  JobMine'
<1>1. CASE Stopped
  <2>1. UNCHANGED vars
    BY <1>1 DEF Stopped
  <2> QED
    BY <2>1, ClientJobs
<1> QED
  BY <1>1, HostJobs, ClientJobs DEF Next

-----------------------------------------------------------------------------
(* Without a swap file nothing is swapped, and a page that is looked at has *)
(* been cleared.                                                           *)

FreshIsZero ==
    ZeroDemand =>
        \A p \in Pages \ known : Resident(p) => ram[pte[p].frame] = Zero
StoreUnused ==
    /\ bsm.total = 0 /\ Cached(bsm) = {}
    /\ \A p \in Pages : ~IsSwapped(p)
NoStore == BSInit = 0 => StoreUnused /\ FreshIsZero

\* What keeps it so.
LEMMA StoreStaysUnused ==
  ASSUME StoreUnused, FreshIsZero,
         bsm'.total = bsm.total, bsm'.cache = bsm.cache,
         \A p \in Pages : ~IsSwapped(p)',
         \A p \in Pages \ known' : Resident(p)' =>
            \/ /\ Resident(p) /\ p \notin known /\ pte'[p].frame = pte[p].frame
               /\ ram'[pte[p].frame] = ram[pte[p].frame]
            \/ ZeroDemand => ram'[pte'[p].frame] = Zero
  PROVE  StoreUnused' /\ FreshIsZero'
<1>1. Cached(bsm') = Cached(bsm)
  BY DEF Cached
<1> QED
  BY <1>1 DEF StoreUnused, FreshIsZero

\* Steps that leave the pages alone.
LEMMA QuietUnused ==
  ASSUME ContentInv, StoreUnused, FreshIsZero,
         \/ FillPool \/ Overcommit \/ NoFrameLeft \/ LSM_NEW_PAGE_TABLE
         \/ LockStray \/ LockDone \/ LockIOBuffer \/ LSM_INIT_CLIENT
         \/ LeaveExpanded \/ BSM_INIT_CLIENT \/ DrainRelease \/ DrainSwap
         \/ DrainNothing \/ Terminate \/ VMM_QUERY \/ ExternalAlloc
         \/ ExternalFree
         \/ \E n : PPM_DRAIN_POOL(n)
         \/ \E c : DPMIFN_SWITCHADDR(c) \/ VMM_INIT_CLIENT(c)
         \/ \E p : VMM_PageFaultHandler(p) \/ Read(p)
         \/ \E S : VMM_ALLOC(S) \/ VMM_LOCK(S) \/ VMM_MARK_CANDIDATES(S)
         \/ UNCHANGED vars
  PROVE  StoreUnused' /\ FreshIsZero'
<1>1. known \subseteq known' /\ pte' = pte /\ ram' = ram /\ bsm' = bsm
  <2>1. CASE BSM_INIT_CLIENT
    BY <2>1 DEF BSM_INIT_CLIENT, StoreUnused
  <2>2. CASE ~BSM_INIT_CLIENT
    BY <2>2
       DEF FillPool, Overcommit, NoFrameLeft, LSM_NEW_PAGE_TABLE, LockStray,
         LockDone, LockIOBuffer, LSM_INIT_CLIENT, LeaveExpanded, DrainRelease,
         DrainSwap, DrainNothing, Terminate, VMM_QUERY, ExternalAlloc, Read,
         ExternalFree, PPM_DRAIN_POOL, DPMIFN_SWITCHADDR, VMM_INIT_CLIENT,
         VMM_PageFaultHandler, VMM_ALLOC, VMM_LOCK, VMM_MARK_CANDIDATES, vars
  <2> QED
    BY <2>1, <2>2
<1> QED
  BY <1>1, StoreStaysUnused DEF StoreUnused, IsSwapped, Resident

\* Steps that give pages up.
LEMMA DroppedUnused ==
  ASSUME ContentInv, StoreUnused, FreshIsZero, NEW P, NEW F, Drops(P, F)
  PROVE  StoreUnused' /\ FreshIsZero'
<1>1. StoreType(bsm) /\ PagesFramed /\ ppm.alloced \subseteq Frames
  BY StoreTyped DEF ContentInv, Inv, Framed, TypeOK, PpmType
<1>2. bsm'.total = bsm.total /\ bsm'.cache = bsm.cache
  BY <1>1 DEF Drops, BSM_FREE, StoreType, BsmType
<1>3. \A p \in Pages : ~IsSwapped(p)'
  BY DEF Drops, StoreUnused, IsSwapped
<1>4. ASSUME NEW p \in Pages \ known', Resident(p)'
      PROVE  /\ Resident(p) /\ p \notin known /\ pte'[p].frame = pte[p].frame
             /\ ram'[pte[p].frame] = ram[pte[p].frame]
  <2>1. p \notin P /\ p \notin known /\ pte'[p] = pte[p]
    BY <1>4 DEF Drops
  <2>2. Resident(p) /\ pte[p].frame \in Frames \ F
    BY <1>1, <1>4, <2>1 DEF Drops, Resident, PagesFramed
  <2> QED
    BY <2>1, <2>2 DEF Drops, Wiped
<1> QED
  BY <1>2, <1>3, <1>4, StoreStaysUnused

\* The steps that move a page, change its entry or store in it.
LEMMA PageUnused ==
  ASSUME ContentInv, StoreUnused, FreshIsZero,
         \/ Commit \/ FreeExpanded \/ LockResident
         \/ FaultReserved \/ LockReserved
         \/ \E o \in Owners : \E S \in Callable(o) :
              AllocUncommitted(S) \/ VMM_UNLOCK(S)
         \/ \E p \in Pages : \E w \in Values : Write(p, w)
  PROVE  StoreUnused' /\ FreshIsZero'
<1>1. /\ TypeOK /\ PagesFramed /\ pte \in [Pages -> EntryType]
      /\ ram \in [Frames -> Words] /\ ppm.alloced \subseteq Frames
      /\ \A p \in Pages : ~IsSwapped(p)
  BY DEF ContentInv, Inv, TypeOK, Framed, PpmType, StoreUnused
<1>2. bsm' = bsm
  BY DEF Commit, FreeExpanded, LockResident, FaultReserved, LockReserved,
         AllocUncommitted, VMM_UNLOCK, Write
<1>3. ASSUME NEW S, NEW entry,
             entry.state \notin {"swapped", "present", "locked"},
             pte' = [p \in Pages |-> IF p \in S THEN entry ELSE pte[p]],
             known' = known /\ ram' = ram
      PROVE  StoreUnused' /\ FreshIsZero'
  <2>1. \A p \in Pages : /\ ~IsSwapped(p)'
                         /\ Resident(p)' => Resident(p) /\ pte'[p] = pte[p]
    BY <1>1, <1>3 DEF IsSwapped, Resident
  <2> QED
    BY <1>2, <1>3, <2>1, StoreStaysUnused
<1>7. CASE Commit \/ FreeExpanded
  <2>1. known' = known /\ ram' = ram
    BY <1>7 DEF Commit, FreeExpanded
  <2>2. PICK entry \in {Unalloc, Reserved(TRUE)} :
          pte' = [p \in Pages |-> IF p \in job.pages THEN entry ELSE pte[p]]
    BY <1>7 DEF Commit, FreeExpanded, LSM_SETN_PTES
  <2>3. entry.state \notin {"swapped", "present", "locked"}
    BY <2>2 DEF Unalloc, Reserved, Entry
  <2> QED
    BY <1>3, <2>1, <2>2, <2>3
<1>8. CASE \E o \in Owners : \E S \in Callable(o) : AllocUncommitted(S)
  <2>1. PICK o \in Owners : \E S \in Callable(o) : AllocUncommitted(S)
    BY <1>8
  <2>2. PICK S \in Callable(o) : AllocUncommitted(S)
    BY <2>1
  <2>3. (CHOOSE p \in S : TRUE).owner = o
    BY CallableType, OwnerOf
  <2>4. known' = known /\ ram' = ram
    BY <2>2 DEF AllocUncommitted
  <2>5. Uncommitted.state \notin {"swapped", "present", "locked"}
    BY DEF Uncommitted, Entry
  <2>6. CASE HasTable(o)
    <3>1. LSM_SETN_PTES(S, Uncommitted, UncommittedPDE)
      BY <2>2, <2>3, <2>6 DEF AllocUncommitted
    <3>2. pte' = [p \in Pages |-> IF p \in S THEN Uncommitted ELSE pte[p]]
      BY <3>1 DEF LSM_SETN_PTES
    <3> QED
      BY <1>3, <2>4, <2>5, <3>2
  <2>7. CASE ~HasTable(o)
    <3>1. pte' = [p \in Pages |-> IF p \in Area(o) THEN Uncommitted ELSE pte[p]]
      BY <2>2, <2>3, <2>7 DEF AllocUncommitted
    <3> QED
      BY <1>3, <2>4, <2>5, <3>1
  <2> QED
    BY <2>6, <2>7
<1>4. CASE LockResident \/ \E S : VMM_UNLOCK(S)
  <2>1. known' = known /\ ram' = ram
    BY <1>4 DEF LockResident, VMM_UNLOCK
  <2>2. \A p \in Pages :
          \/ pte'[p] = pte[p]
          \/ Resident(p) /\ Resident(p)' /\ pte'[p].frame = pte[p].frame
    <3>1. CASE LockResident
      <4>1. PICK page, g : page = NextPage /\ g = pte[page].frame
        OBVIOUS
      <4>2. /\ Resident(page) /\ page \in Pages
            /\ pte' = [pte EXCEPT ![page] = Locked(g, FALSE)]
        BY <3>1, <4>1, JobPage DEF LockResident, ContentInv
      <4>3. pte \in [Pages -> EntryType]
        BY <1>1
      <4>4. /\ \A p \in Pages : p # page => pte'[p] = pte[p]
            /\ pte'[page] = Locked(g, FALSE)
        BY <4>2, <4>3
      <4>5. pte'[page].state = "locked" /\ pte'[page].frame = g
        BY <4>4 DEF Locked, Entry
      <4> QED
        BY <4>1, <4>2, <4>4, <4>5 DEF Resident
    <3>2. CASE \E S : VMM_UNLOCK(S)
      <4>1. PICK S : VMM_UNLOCK(S)
        BY <3>2
      <4>2. \A p \in Pages : \/ pte'[p] = pte[p]
                             \/ p \in S /\ pte'[p] = Present(pte[p].frame, TRUE)
        BY <4>1 DEF VMM_UNLOCK
      <4>3. \A p \in S : Resident(p)
        BY <4>1 DEF VMM_UNLOCK, Resident
      <4>4. \A f : Present(f, TRUE).frame = f /\ Present(f, TRUE).state = "present"
        BY DEF Present, Entry
      <4>5. ASSUME NEW p \in Pages, pte'[p] # pte[p]
            PROVE  Resident(p) /\ Resident(p)' /\ pte'[p].frame = pte[p].frame
        <5>1. PICK f : f = pte[p].frame
          OBVIOUS
        <5>2. p \in S /\ pte'[p] = Present(f, TRUE)
          BY <4>2, <4>5, <5>1
        <5>3. pte'[p].state = "present" /\ pte'[p].frame = f
          BY <4>4, <5>2
        <5> QED
          BY <4>3, <5>1, <5>2, <5>3 DEF Resident
      <4> QED
        BY <4>5
    <3> QED
      BY <1>4, <3>1, <3>2
  <2>3. \A p \in Pages : /\ ~IsSwapped(p)'
                         /\ Resident(p)' => Resident(p) /\ pte'[p].frame = pte[p].frame
    BY <1>1, <2>2 DEF IsSwapped, Resident
  <2> QED
    BY <1>2, <2>1, <2>3, StoreStaysUnused
<1>5. CASE FaultReserved \/ LockReserved
  <2>0. PICK f, page, w : /\ f = FreeHead(ppm) /\ page = NextPage
                          /\ w = IF ZeroDemand THEN Zero ELSE Junk
    OBVIOUS
  <2>1. /\ \/ pte' = [pte EXCEPT ![page] = Present(f, FALSE)]
           \/ pte' = [pte EXCEPT ![page] = Locked(f, FALSE)]
        /\ ram' = [ram EXCEPT ![f] = w] /\ known' = known
    BY <1>5, <2>0 DEF FaultReserved, LockReserved
  <2>2. page \in Pages
    BY <1>5, <2>0, JobPage DEF FaultReserved, LockReserved, ContentInv
  <2>3. f \in Frames /\ f \notin ppm.alloced
    BY <1>1, <1>5, <2>0, FreeHeadType
       DEF FaultReserved, LockReserved, FrameReady, TypeOK
  <2>4. /\ \A p \in Pages : p # page => pte'[p] = pte[p]
        /\ \/ pte'[page] = Present(f, FALSE)
           \/ pte'[page] = Locked(f, FALSE)
    BY <1>1, <2>1, <2>2
  <2>5. pte'[page].frame = f /\ ~IsSwapped(page)'
    BY <2>4 DEF Present, Locked, Entry, IsSwapped
  <2>6. ram'[f] = w /\ \A g \in ppm.alloced : ram'[g] = ram[g]
    BY <1>1, <2>1, <2>3
  <2>7. \A p \in Pages : ~IsSwapped(p)'
    BY <1>1, <2>4, <2>5 DEF IsSwapped
  <2>8. \A p \in Pages \ known' : Resident(p)' =>
            \/ /\ Resident(p) /\ p \notin known /\ pte'[p].frame = pte[p].frame
               /\ ram'[pte[p].frame] = ram[pte[p].frame]
            \/ ZeroDemand => ram'[pte'[p].frame] = Zero
    <3>1. ASSUME NEW p \in Pages \ known', Resident(p)', p # page
          PROVE  /\ Resident(p) /\ p \notin known /\ pte'[p].frame = pte[p].frame
                 /\ ram'[pte[p].frame] = ram[pte[p].frame]
      <4>1. pte'[p] = pte[p] /\ p \notin known
        BY <2>1, <2>4, <3>1
      <4>2. Resident(p)
        BY <3>1, <4>1 DEF Resident
      <4> QED
        BY <1>1, <2>6, <3>1, <4>1, <4>2 DEF PagesFramed
    <3>2. ZeroDemand => ram'[pte'[page].frame] = Zero
      BY <2>0, <2>5, <2>6
    <3> QED
      BY <3>1, <3>2
  <2> QED
    BY <1>2, <2>7, <2>8, StoreStaysUnused
<1>6. CASE \E p \in Pages : \E w \in Values : Write(p, w)
  <2>1. PICK page \in Pages, w \in Values : Write(page, w)
    BY <1>6
  <2>2. /\ Resident(page) /\ ram' = [ram EXCEPT ![pte[page].frame] = w]
        /\ pte' = [pte EXCEPT ![page].dirty = TRUE]
        /\ known' = known \cup {page}
    BY <2>1 DEF Write
  <2>3. \A p \in Pages : /\ pte'[p].state = pte[p].state
                         /\ pte'[p].frame = pte[p].frame
    BY <1>1, <2>2 DEF EntryType
  <2>4. \A p \in Pages : Resident(p) /\ p # page =>
          ram'[pte[p].frame] = ram[pte[p].frame]
    BY <1>1, <2>2 DEF PagesFramed
  <2>5. \A p \in Pages : ~IsSwapped(p)'
    BY <1>1, <2>3 DEF IsSwapped
  <2>6. \A p \in Pages \ known' : Resident(p)' =>
               /\ Resident(p) /\ p \notin known /\ pte'[p].frame = pte[p].frame
               /\ ram'[pte[p].frame] = ram[pte[p].frame]
    BY <2>2, <2>3, <2>4 DEF Resident
  <2> QED
    BY <1>2, <2>5, <2>6, StoreStaysUnused
<1> QED
  BY <1>4, <1>5, <1>6, <1>7, <1>8

\* Without a swap file there is no room in it, and nothing to read from it.
LEMMA NoRoom ==
  ASSUME StoreType(bsm), StoreUnused, NEW page \in Keys
  PROVE  ~HasRoom(bsm, page)
<1>1. BSM_GET_CACHE_ENTRY(page) \in CacheIndexes
  BY IndexType
<1>2. ~Hit(bsm, page)
  BY <1>1 DEF StoreUnused, Hit, Cached
<1>3. MakeRoom(bsm).total = 0
  BY DEF StoreUnused, MakeRoom, BSM_FLUSH_CACHE, BSM_FREE, StoreType, BsmType
<1>4. (0 \div DWord) * DWord = 0
  BY StoreAssumption
<1>5. \A s \in Slots : ~(s < 0)
  BY DEF Slots
<1>6. Allocatable(MakeRoom(bsm)) = {}
  BY <1>3, <1>4, <1>5 DEF Allocatable
<1> QED
  BY <1>2, <1>6 DEF HasRoom

\* No step that the VMM takes needs one.
LEMMA ManagesUnused ==
  ASSUME ContentInv, StoreUnused, FreshIsZero, Manages
  PROVE  StoreUnused' /\ FreshIsZero'
<1>1. Inv /\ StoreType(bsm) /\ Framed
  BY StoreTyped DEF ContentInv, Inv
<1>2. CASE VMM_SHUTDOWN
  <2>1. /\ bsm' = BSM_INIT(bsm.total) /\ pte' = [p \in Pages |-> Unalloc]
    BY <1>2 DEF VMM_SHUTDOWN
  <2>2. bsm'.total = 0 /\ bsm'.cache = [i \in CacheIndexes |-> NoEntry]
    BY <2>1 DEF BSM_INIT, StoreUnused
  <2>3. Cached(bsm') = {}
    BY <2>2 DEF Cached
  <2>4. \A p \in Pages : ~IsSwapped(p)' /\ ~Resident(p)'
    BY <2>1, EntryStates DEF IsSwapped, Resident
  <2> QED
    BY <2>2, <2>3, <2>4 DEF StoreUnused, FreshIsZero
<1>3. ~FaultSwapped /\ ~LockSwapped
  BY <1>1, JobPage DEF FaultSwapped, LockSwapped, StoreUnused
<1>4. ASSUME NEW f \in Frames, VMM_SWAP_OUT(f)
      PROVE  FALSE
  <2>1. f \in ppm.swappable /\ HasRoom(bsm, ppm.addr[f])
    BY <1>4 DEF VMM_SWAP_OUT, SwapPage, Victims
  <2>2. ppm.addr[f] \in Keys
    BY <1>1, <2>1, PagesType DEF Framed, SwappableFramed
  <2> QED
    BY <1>1, <2>1, <2>2, NoRoom
<1>5. CASE Host
  BY <1>1, <1>2, <1>3, <1>4, <1>5, QuietUnused, PageUnused, GoneDrops,
     DroppedUnused DEF Host, TakeFrame
<1>6. CASE \E o \in Mine \cap Owners : \E S \in Callable(o) : Call(S)
  <2>1. PICK o \in Mine \cap Owners : \E S \in Callable(o) : Call(S)
    BY <1>6
  <2>2. PICK S \in Callable(o) : Call(S)
    BY <2>1
  <2>3. CASE VMM_FREE(S) \/ VMM_DISCARD_PAGES(S)
    BY <1>1, <2>3, FreeDrops, DroppedUnused
  <2>4. CASE AllocUncommitted(S) \/ VMM_UNLOCK(S)
    BY <2>4, PageUnused
  <2>5. CASE VMM_ALLOC(S) \/ VMM_LOCK(S) \/ VMM_MARK_CANDIDATES(S)
    BY <2>5, QuietUnused
  <2> QED
    BY <2>2, <2>3, <2>4, <2>5 DEF Call
<1>7. CASE Primary \/ UNCHANGED vars \/ VMM_QUERY \/ Terminate
  BY <1>7, QuietUnused DEF Primary
<1>8. CASE \/ \E p \in Pages : VMM_PageFaultHandler(p)
           \/ \E c \in Clients : DPMIFN_SWITCHADDR(c) \/ VMM_INIT_CLIENT(c)
  BY <1>8, QuietUnused
<1> QED
  BY <1>5, <1>6, <1>7, <1>8 DEF Manages

\* A store without slots starts with an empty cache.
LEMMA InitUnused == Init => NoStore
<1> SUFFICES ASSUME Init, BSInit = 0
             PROVE  StoreUnused /\ FreshIsZero
  BY DEF NoStore
<1>1. bsm.total = 0 /\ bsm.cache = [i \in CacheIndexes |-> NoEntry]
  BY DEF Init, BSM_INIT
<1>2. Cached(bsm) = {}
  BY <1>1 DEF Cached
<1>3. \A p \in Pages : ~IsSwapped(p) /\ ~Resident(p)
  BY EntryStates DEF Init, IsSwapped, Resident
<1> QED
  BY <1>1, <1>2, <1>3 DEF StoreUnused, FreshIsZero

-----------------------------------------------------------------------------
(* The theorems about slots and contents. *)

\* A client that looks at a page finds it as its slot in the cache has it, if
\* contents can be relied on at all.
LEMMA ReadSound ==
  ASSUME NoStore, NEW p \in Pages, Read(p)
  PROVE  CopyGood(p)
<1>1. SUFFICES ASSUME NoStaleReads
               PROVE  ~Hit(bsm, p)
  BY DEF CopyGood
<1>2. BSInit = 0
  BY <1>1 DEF Read, NoStaleReads
<1> QED
  BY <1>2, IndexType, PagesType DEF NoStore, StoreUnused, Hit, Cached

\* The invariant is inductive.
LEMMA NextContents == ContentInv /\ NoStore /\ [Next]_vars => ContentInv' /\ NoStore'
<1> SUFFICES ASSUME ContentInv, NoStore, [Next]_vars
             PROVE  ContentInv' /\ NoStore'
  OBVIOUS
<1>1. Inv' /\ JobMine'
  BY NextInv, ManagesJobs DEF ContentInv
<1>2. CASE Manages
  BY <1>1, <1>2, ManagesContents, ManagesUnused
     DEF ContentInv, HoldsContents, NoStore
<1>3. CASE \E p \in Pages : Read(p)
  <2>1. PICK p \in Pages : Read(p)
    BY <1>3
  <2>2. SlotInv' /\ KnownHere' /\ CopiesGood'
    BY <2>1, ReadSound, ReadContentsKept
  <2>3. NoStore'
    BY <1>3, QuietUnused DEF NoStore
  <2> QED
    BY <1>1, <2>2, <2>3 DEF ContentInv
<1>4. CASE \E p \in Pages, w \in Values : Write(p, w)
  BY <1>1, <1>4, WriteContents, PageUnused DEF ContentInv, NoStore
<1> QED
  BY <1>2, <1>3, <1>4, NextManages

\* SlotIsolation is part of it.
LEMMA SlotsIsolated == SlotInv => SlotIsolation
BY DEF SlotInv, SlotIsolation, CacheSound, SlotsPrivate, SlotsDistinct, Private,
       SwappedOut

\* No slot of the swap file ever holds two pages, and no slot that holds a page
\* or that the cache remembers is free (BSM_PUTPAGE, BSM_GETPAGE, BSM_FREE and
\* the flush of the cache in BSM_ALLOC).
THEOREM SlotsApart == Spec => []SlotIsolation
<1>1. Init => ContentInv /\ NoStore
  BY InitContents, InitUnused
<1>2. ContentInv /\ NoStore /\ [Next]_vars => (ContentInv /\ NoStore)'
  BY NextContents
<1>3. ContentInv => SlotIsolation
  BY SlotsIsolated DEF ContentInv
<1> QED
  BY <1>1, <1>2, <1>3, PTL DEF Spec

\* Looking at a page yields what the abstract memory allows.
LEMMA ReadLooks ==
  ASSUME NoStore, NoStaleReads, ContentInv, NEW p \in Pages, Read(p),
         p \notin known
  PROVE  Contents(p) \in Words /\ (ZeroDemand => Contents(p) = Zero)
<1>1. BSInit = 0 /\ Resident(p)
  BY DEF Read, NoStaleReads
<1>2. Contents(p) = ram[pte[p].frame] /\ pte[p].frame \in Frames
  BY <1>1 DEF Contents, ContentInv, Inv, Framed, PagesFramed, TypeOK, PpmType
<1> QED
  BY <1>1, <1>2 DEF NoStore, FreshIsZero, ContentInv, Inv, TypeOK

\* What clients see of the memory, and whether they can.
Mem == [p \in Pages |-> IF p \in known THEN Contents(p) ELSE "blank"]

\* The clients begin with nothing.
LEMMA InitRefines == Init => VM!Init
BY DEF Init, VM!Init

\* Every step is one of VirtualMemory: an access, or one that forgets contents.
LEMMA NextRefines ==
  ASSUME NoStaleReads, ContentInv, NoStore, [Next]_vars
  PROVE  VM!Access \/ VM!Manage
<1>1. CASE Manages
  <2>1. ContentsHeld
    BY <1>1, ManagesContents DEF HoldsContents
  <2>2. Mem' = [p \in Pages |-> IF p \in Pages \ known' THEN "blank" ELSE Mem[p]]
    BY <2>1 DEF Mem, ContentsHeld
  <2> QED
    BY <2>2 DEF VM!Manage, Mem
<1>2. CASE \E p \in Pages : Read(p)
  <2>1. PICK p \in Pages : Read(p)
    BY <1>2
  <2>2. /\ known' = known \cup {p} /\ \A q \in Pages : Contents(q)' = Contents(q)
        /\ job' = job /\ job = Idle
    BY <2>1, ReadSound, ReadContentsKept DEF Read, ClientRuns, Ready
  <2>3. CASE p \in known
    <3>1. PICK S : S = {}
      OBVIOUS
    <3>2. Mem' = [q \in Pages |-> IF q \in S THEN "blank" ELSE Mem[q]]
      BY <2>2, <2>3, <3>1 DEF Mem
    <3> QED
      BY <3>1, <3>2 DEF VM!Manage, Mem
  <2>4. CASE p \notin known
    <3>1. PICK w \in Words : w = Contents(p) /\ (ZeroDemand => w = Zero)
      BY <2>1, <2>4, ReadLooks
    <3>2. Mem[p] = "blank" /\ Mem' = [Mem EXCEPT ![p] = w]
      BY <2>2, <2>4, <3>1 DEF Mem
    <3>3. VM!Look(p, w)
      BY <3>1, <3>2 DEF VM!Look, Mem
    <3> QED
      BY <2>2, <3>1, <3>3 DEF VM!Access
  <2> QED
    BY <2>3, <2>4
<1>3. CASE \E p \in Pages, w \in Values : Write(p, w)
  <2>1. PICK p \in Pages, w \in Values : Write(p, w)
    BY <1>3
  <2>2. /\ known' = known \cup {p} /\ Contents(p)' = w
        /\ \A q \in known \ {p} : Contents(q)' = Contents(q)
        /\ job' = job /\ job = Idle
    BY <2>1, WriteContents DEF Write, ClientRuns, Ready
  <2>3. Mem' = [Mem EXCEPT ![p] = w]
    BY <2>2 DEF Mem
  <2>4. VM!Store(p, w)
    BY <2>3 DEF VM!Store, Mem
  <2> QED
    BY <2>2, <2>4 DEF VM!Access
<1> QED
  BY <1>1, <1>2, <1>3, NextManages

\* A page holds for its client what the client last stored in it, across every
\* fault, swap, lock, drain, switch of clients, and call or termination of
\* another client: the manager implements VirtualMemory.  With a swap file this
\* is so if clients read only what they have stored (the cache of BSM_GETPAGE
\* outlives the page it was filled for), without one it always is.
THEOREM ContentsRefine == NoStaleReads => (Spec => ContentsKept)
<1> SUFFICES ASSUME NoStaleReads
             PROVE  Spec => ContentsKept
  OBVIOUS
<1>1. Init => ContentInv /\ NoStore
  BY InitContents, InitUnused
<1>2. ContentInv /\ NoStore /\ [Next]_vars => (ContentInv /\ NoStore)'
  BY NextContents
<1>3. ContentInv /\ NoStore /\ [Next]_vars => VM!Access \/ VM!Manage
  BY NextRefines
<1>4. Init => VM!Init
  BY InitRefines
<1> QED
  BY <1>1, <1>2, <1>3, <1>4, PTL DEF Spec, ContentsKept, VM!Spec

-----------------------------------------------------------------------------
(* No slot is lost, if no page is shared.  A shared page is read under the *)
(* name of the client that faulted on it and goes out under its own, so    *)
(* the cache keeps a slot that is not found again.                         *)

SwappedForgotten == \A p \in Pages : IsSwapped(p) => ~Hit(bsm, p)
PrivateUsed == Private(bsm) \subseteq SlotsOf(Pages)
LeakInv == SwappedForgotten /\ PrivateUsed

\* The slots that pages have.
LEMMA SlotsOfPages ==
  /\ \A s : s \in SlotsOf(Pages) <=>
              \E p \in Pages : IsSwapped(p) /\ pte[p].slot = s
  /\ \A s : s \in SlotsOf(Pages)' <=>
              \E p \in Pages : IsSwapped(p)' /\ pte'[p].slot = s
BY DEF SlotsOf, IsSwapped

\* Steps that swap nothing.
LEMMA UnswappedLeaks ==
  ASSUME ContentInv, LeakInv,
         bsm'.cache = bsm.cache, bsm'.map = bsm.map,
         \A p \in Pages : \/ pte'[p] = pte[p]
                          \/ ~IsSwapped(p) /\ ~IsSwapped(p)'
  PROVE  LeakInv'
<1>1. Private(bsm') = Private(bsm)
  BY SameCache DEF Private
<1>2. \A p \in Pages : /\ IsSwapped(p)' <=> IsSwapped(p)
                       /\ IsSwapped(p) => pte'[p].slot = pte[p].slot
  BY DEF IsSwapped
<1>3. PrivateUsed'
  BY <1>1, <1>2, SlotsOfPages DEF LeakInv, PrivateUsed
<1> QED
  BY <1>2, <1>3 DEF LeakInv, SwappedForgotten, Hit, BSM_GET_CACHE_ENTRY

\* Those that leave the entries alone.
LEMMA QuietLeaks ==
  ASSUME ContentInv, LeakInv,
         \/ FillPool \/ Overcommit \/ NoFrameLeft \/ LSM_NEW_PAGE_TABLE
         \/ LockStray \/ LockDone \/ LockIOBuffer \/ LSM_INIT_CLIENT
         \/ LeaveExpanded \/ BSM_INIT_CLIENT \/ DrainRelease \/ DrainSwap
         \/ DrainNothing \/ Terminate \/ VMM_QUERY \/ ExternalAlloc
         \/ ExternalFree
         \/ \E n : PPM_DRAIN_POOL(n)
         \/ \E c : DPMIFN_SWITCHADDR(c) \/ VMM_INIT_CLIENT(c)
         \/ \E p : VMM_PageFaultHandler(p) \/ Read(p)
         \/ \E S : VMM_ALLOC(S) \/ VMM_LOCK(S) \/ VMM_MARK_CANDIDATES(S)
         \/ UNCHANGED vars
  PROVE  LeakInv'
<1>1. CASE BSM_INIT_CLIENT /\ bsm' # bsm
  <2>1. pte' = pte /\ \E n : bsm' = BSM_GROW(bsm, n)
    BY <1>1 DEF BSM_INIT_CLIENT
  <2>2. StoreType(bsm)
    BY StoreTyped DEF ContentInv, Inv
  <2>3. bsm'.cache = bsm.cache /\ bsm'.map = bsm.map
    BY <2>1, <2>2 DEF BSM_GROW, StoreType, BsmType
  <2> QED
    BY <2>1, <2>3, UnswappedLeaks
<1>2. CASE pte' = pte /\ bsm' = bsm
  BY <1>2, UnswappedLeaks
<1>3. \/ BSM_INIT_CLIENT
      \/ pte' = pte /\ bsm' = bsm
  BY DEF FillPool, Overcommit, NoFrameLeft, LSM_NEW_PAGE_TABLE, LockStray,
         LockDone, LockIOBuffer, LSM_INIT_CLIENT, LeaveExpanded, DrainRelease,
         DrainSwap, DrainNothing, Terminate, VMM_QUERY, ExternalAlloc, Read,
         ExternalFree, PPM_DRAIN_POOL, DPMIFN_SWITCHADDR, VMM_INIT_CLIENT,
         VMM_PageFaultHandler, VMM_ALLOC, VMM_LOCK, VMM_MARK_CANDIDATES, vars
<1>4. BSM_INIT_CLIENT => pte' = pte
  BY DEF BSM_INIT_CLIENT
<1> QED
  BY <1>1, <1>2, <1>3, <1>4

\* Those that change the entries of pages that are not swapped out.
LEMMA PageLeaks ==
  ASSUME ContentInv, LeakInv,
         \/ Commit \/ FreeExpanded \/ LockResident
         \/ FaultReserved \/ LockReserved
         \/ \E o \in Owners : \E S \in Callable(o) :
              AllocUncommitted(S) \/ VMM_UNLOCK(S)
         \/ \E p \in Pages : \E w \in Values : Write(p, w)
  PROVE  LeakInv'
<1>1. /\ TypeOK /\ Mapped /\ JobSound /\ pte \in [Pages -> EntryType]
  BY DEF ContentInv, Inv, TypeOK
<1>2. bsm' = bsm
  BY DEF Commit, FreeExpanded, LockResident, FaultReserved, LockReserved,
         AllocUncommitted, VMM_UNLOCK, Write
<1>3. ASSUME NEW S, \A p \in S : Clean(p), NEW entry, entry.state # "swapped",
             pte' = [p \in Pages |-> IF p \in S THEN entry ELSE pte[p]]
      PROVE  LeakInv'
  <2>1. \A p \in Pages : \/ pte'[p] = pte[p]
                         \/ ~IsSwapped(p) /\ ~IsSwapped(p)'
    BY <1>3 DEF Clean, IsSwapped
  <2> QED
    BY <1>2, <2>1, UnswappedLeaks
<1>4. CASE Commit \/ FreeExpanded
  <2>1. \A p \in job.pages : Clean(p)
    BY <1>1, <1>4 DEF Commit, FreeExpanded, Doing, JobSound
  <2>2. PICK entry \in {Unalloc, Reserved(TRUE)} :
          pte' = [p \in Pages |-> IF p \in job.pages THEN entry ELSE pte[p]]
    BY <1>4 DEF Commit, FreeExpanded, LSM_SETN_PTES
  <2>3. entry.state # "swapped"
    BY <2>2 DEF Unalloc, Reserved, Entry
  <2> QED
    BY <1>3, <2>1, <2>2, <2>3
<1>5. CASE \E o \in Owners : \E S \in Callable(o) : AllocUncommitted(S)
  <2>1. PICK o \in Owners : \E S \in Callable(o) : AllocUncommitted(S)
    BY <1>5
  <2>2. PICK S \in Callable(o) : AllocUncommitted(S)
    BY <2>1
  <2>3. S \subseteq Pages /\ (CHOOSE p \in S : TRUE).owner = o
    BY CallableType, OwnerOf
  <2>4. \A p \in S : Clean(p)
    BY <1>1, <2>2, <2>3 DEF AllocUncommitted, Mapped, BlocksCover
  <2>5. ~HasTable(o) => \A p \in Area(o) : Clean(p)
    BY <1>1, PagesType DEF Mapped, TablesCover
  <2>6. Uncommitted.state # "swapped"
    BY DEF Uncommitted, Entry
  <2>7. CASE HasTable(o)
    <3>1. LSM_SETN_PTES(S, Uncommitted, UncommittedPDE)
      BY <2>2, <2>3, <2>7 DEF AllocUncommitted
    <3>2. pte' = [p \in Pages |-> IF p \in S THEN Uncommitted ELSE pte[p]]
      BY <3>1 DEF LSM_SETN_PTES
    <3> QED
      BY <1>3, <2>4, <2>6, <3>2
  <2>8. CASE ~HasTable(o)
    <3>1. pte' = [p \in Pages |-> IF p \in Area(o) THEN Uncommitted ELSE pte[p]]
      BY <2>2, <2>3, <2>8 DEF AllocUncommitted
    <3> QED
      BY <1>3, <2>5, <2>6, <2>8, <3>1
  <2> QED
    BY <2>7, <2>8
<1>6. ASSUME NEW page \in Pages, NEW entry,
             pte' = [pte EXCEPT ![page] = entry],
             ~IsSwapped(page), entry.state # "swapped"
      PROVE  LeakInv'
  <2>1. pte \in [Pages -> EntryType]
    BY <1>1
  <2>2. /\ \A p \in Pages : p # page => pte'[p] = pte[p]
        /\ pte'[page] = entry
    BY <1>6, <2>1
  <2> QED
    BY <1>2, <1>6, <2>2, UnswappedLeaks DEF IsSwapped
<1>7. CASE LockResident \/ FaultReserved \/ LockReserved
  <2>1. NextPage \in Pages
    BY <1>7, JobPage DEF LockResident, FaultReserved, LockReserved, ContentInv
  <2>2. ~IsSwapped(NextPage)
    BY <1>7 DEF LockResident, FaultReserved, LockReserved, Resident, IsReserved,
                IsSwapped
  <2>3. PICK page, f, g : page = NextPage /\ f = FreeHead(ppm) /\ g = pte[page].frame
    OBVIOUS
  <2>4. PICK entry : /\ pte' = [pte EXCEPT ![page] = entry]
                     /\ \/ entry = Locked(g, FALSE)
                        \/ entry = Locked(f, FALSE)
                        \/ entry = Present(f, FALSE)
    BY <1>7, <2>3 DEF LockResident, FaultReserved, LockReserved
  <2>5. entry.state # "swapped"
    BY <2>4 DEF Locked, Present, Entry
  <2> QED
    BY <1>6, <2>1, <2>2, <2>3, <2>4, <2>5
<1>8. CASE \E S : VMM_UNLOCK(S)
  <2>1. PICK S : VMM_UNLOCK(S)
    BY <1>8
  <2>2. \A p \in Pages : \/ pte'[p] = pte[p]
                         \/ p \in S /\ pte'[p] = Present(pte[p].frame, TRUE)
    BY <2>1 DEF VMM_UNLOCK
  <2>3. \A p \in S : ~IsSwapped(p)
    BY <2>1 DEF VMM_UNLOCK, IsSwapped
  <2>4. \A f : Present(f, TRUE).state # "swapped"
    BY DEF Present, Entry
  <2> QED
    BY <1>2, <2>2, <2>3, <2>4, UnswappedLeaks DEF IsSwapped
<1>9. CASE \E p \in Pages : \E w \in Values : Write(p, w)
  <2>1. PICK page \in Pages, w \in Values : Write(page, w)
    BY <1>9
  <2>2. Resident(page) /\ pte' = [pte EXCEPT ![page].dirty = TRUE]
    BY <2>1 DEF Write
  <2>3. \A p \in Pages : /\ p # page => pte'[p] = pte[p]
                         /\ pte'[p].state = pte[p].state
    BY <1>1, <2>2 DEF EntryType
  <2> QED
    BY <1>2, <2>2, <2>3, UnswappedLeaks DEF IsSwapped, Resident
<1> QED
  BY <1>4, <1>5, <1>7, <1>8, <1>9

\* Steps that give slots up with their pages.
LEMMA DroppedLeaks ==
  ASSUME ContentInv, LeakInv, NEW P, NEW F, Drops(P, F)
  PROVE  LeakInv'
<1>1. StoreType(bsm) /\ CacheSound(bsm)
  BY StoreTyped DEF ContentInv, Inv, SlotInv
<1> DEFINE Z == SlotsOf(P)
<1>2. Z \cap CachedSlots(bsm) = {}
  BY DEF Drops, SlotsOf, ContentInv, SlotInv, SlotsPrivate, Private
<1>3. bsm' = BSM_FREE(bsm, Z)
  BY DEF Drops
<1>4. \A p \in Pages : IsSwapped(p) /\ pte[p].slot \notin Z =>
                         p \notin P
  BY DEF SlotsOf
<1> HIDE DEF Z
<1>5. bsm'.cache = bsm.cache /\ Private(bsm') = Private(bsm) \ Z
  BY <1>1, <1>2, <1>3, FreeSlots
<1>6. \A p \in Pages : p \notin P => pte'[p] = pte[p]
  BY DEF Drops
<1>7. \A p \in Pages : IsSwapped(p)' => p \notin P
  BY DEF Drops
<1>8. PrivateUsed'
  BY <1>4, <1>5, <1>6, SlotsOfPages DEF LeakInv, PrivateUsed, IsSwapped
<1>9. SwappedForgotten'
  BY <1>5, <1>6, <1>7
     DEF LeakInv, SwappedForgotten, IsSwapped, Hit, BSM_GET_CACHE_ENTRY
<1> QED
  BY <1>8, <1>9 DEF LeakInv

\* VMM_SHUTDOWN begins with an empty store.
LEMMA ShutdownLeaks ==
  ASSUME VMM_SHUTDOWN
  PROVE  LeakInv'
<1>1. bsm' = BSM_INIT(bsm.total) /\ pte' = [p \in Pages |-> Unalloc]
  BY DEF VMM_SHUTDOWN
<1>2. bsm'.map = {}
  BY <1>1 DEF BSM_INIT
<1>3. \A p \in Pages : ~IsSwapped(p)'
  BY <1>1, EntryStates DEF IsSwapped
<1> QED
  BY <1>2, <1>3 DEF LeakInv, SwappedForgotten, PrivateUsed, Private

\* A page that goes out has a slot of its own, and the cache forgets it.
LEMMA SwapOutLeaks ==
  ASSUME ContentInv, LeakInv, NEW f \in Frames, VMM_SWAP_OUT(f)
  PROVE  LeakInv'
<1>1. PICK page, s, dirty, data :
        /\ page = ppm.addr[f] /\ s = PutSlot(bsm, page)
        /\ dirty = pte[page].dirty /\ data = ram[f]
  OBVIOUS
<1>2. /\ TypeOK /\ Framed /\ pte \in [Pages -> EntryType]
      /\ ram \in [Frames -> Words] /\ StoreType(bsm) /\ CacheSound(bsm)
  BY StoreTyped DEF ContentInv, Inv, TypeOK, SlotInv
<1>3. page \in Pages /\ pte[page].state = "present"
  BY <1>1, <1>2 DEF VMM_SWAP_OUT, Victims, Framed, SwappableFramed
<1>4. /\ HasRoom(bsm, page)
      /\ bsm' = BSM_PUTPAGE(bsm, page, dirty, data)
      /\ pte' = [pte EXCEPT ![page] = Swapped(s)]
  BY <1>1 DEF VMM_SWAP_OUT, SwapPage
<1>5. page \in Keys /\ dirty \in BOOLEAN /\ data \in Words
  BY <1>1, <1>2, <1>3, PagesType DEF EntryType
<1>6. /\ Private(bsm') = Private(bsm) \cup {s}
      /\ \A i \in CacheIndexes : bsm'.cache[i] \in {bsm.cache[i], NoEntry}
      /\ ~Hit(bsm', page)
  <2>1. HasRoom(bsm, page)
    BY <1>4
  <2>2. bsm' = BSM_PUTPAGE(bsm, page, dirty, data) /\ s = PutSlot(bsm, page)
    BY <1>1, <1>4
  <2> QED
    BY <1>2, <1>5, <2>1, <2>2, PutSlots
<1>7. /\ \A p \in Pages : p # page => pte'[p] = pte[p]
      /\ pte'[page].state = "swapped" /\ pte'[page].slot = s
  <2>1. pte \in [Pages -> EntryType]
    BY <1>2
  <2>2. /\ \A p \in Pages : p # page => pte'[p] = pte[p]
        /\ pte'[page] = Swapped(s)
    BY <1>3, <1>4, <2>1
  <2> QED
    BY <2>2 DEF Swapped, Entry
<1>8. PrivateUsed'
  <2>1. \A p \in Pages : IsSwapped(p) =>
          IsSwapped(p)' /\ pte'[p].slot = pte[p].slot
    BY <1>3, <1>7 DEF IsSwapped
  <2>2. Private(bsm) \subseteq SlotsOf(Pages)'
    BY <2>1, SlotsOfPages DEF LeakInv, PrivateUsed
  <2>3. s \in SlotsOf(Pages)'
    BY <1>3, <1>7, SlotsOfPages DEF IsSwapped
  <2> QED
    BY <1>6, <2>2, <2>3 DEF PrivateUsed
<1>9. ASSUME NEW p \in Pages, IsSwapped(p)', Hit(bsm', p)
      PROVE  FALSE
  <2> DEFINE i == BSM_GET_CACHE_ENTRY(p)
  <2>1. i \in CacheIndexes /\ p # page
    BY <1>6, <1>9, PagesType, IndexType
  <2>2. bsm'.cache[i] # NoEntry /\ bsm'.cache[i].page = p
    BY <1>9 DEF Hit
  <2>3. bsm.cache[i] = bsm'.cache[i]
    BY <1>6, <2>1, <2>2
  <2>4. Hit(bsm, p)
    BY <2>2, <2>3 DEF Hit
  <2>5. IsSwapped(p)
    BY <1>7, <1>9, <2>1 DEF IsSwapped
  <2> QED
    BY <2>4, <2>5 DEF LeakInv, SwappedForgotten
<1>10. SwappedForgotten'
  <2>1. \A p : Hit(bsm, p)' = Hit(bsm', p)
    BY DEF Hit, BSM_GET_CACHE_ENTRY
  <2> QED
    BY <1>9, <2>1 DEF SwappedForgotten
<1> QED
  BY <1>8, <1>10 DEF LeakInv

\* A page that is read leaves its slot to the cache, in the entry for it.
LEMMA ReadLeaks ==
  ASSUME ContentInv, LeakInv, SharedVA = {}, FaultSwapped \/ LockSwapped
  PROVE  LeakInv'
<1>1. PICK f, page, s, key :
        /\ f = FreeHead(ppm) /\ page = NextPage /\ s = pte[page].slot
        /\ key = KeyNow(page)
  OBVIOUS
<1>0. /\ \/ pte' = [pte EXCEPT ![page] = Present(f, FALSE)]
         \/ pte' = [pte EXCEPT ![page] = Locked(f, FALSE)]
      /\ bsm' = BSM_GETPAGE(bsm, key, s)
  BY <1>1 DEF FaultSwapped, LockSwapped, KeyNow
<1>2. /\ TypeOK /\ pte \in [Pages -> EntryType] /\ Mapped
      /\ StoreType(bsm) /\ CacheSound(bsm)
  BY StoreTyped DEF ContentInv, Inv, TypeOK, SlotInv
<1>3. page \in Pages /\ page \in job.pages /\ IsSwapped(page) /\ page \in Keys
  BY <1>1, JobPage DEF FaultSwapped, LockSwapped, Locking, ContentInv
<1>4. key = page
  <2>1. page.owner # SharedOwner
    BY <1>3, PagesType DEF Area, VA
  <2>2. page.owner = cur
    BY <1>3, <2>1 DEF ContentInv, JobMine, Mine
  <2> QED
    BY <1>1, <1>3, <2>2, PagesType DEF KeyNow
<1>5. s \in Slots /\ s \in Private(bsm) /\ ~Hit(bsm, page)
  BY <1>1, <1>2, <1>3
     DEF Mapped, SlotsSound, ContentInv, SlotInv, SlotsPrivate, LeakInv,
         SwappedForgotten
<1> DEFINE e == BSM_GET_CACHE_ENTRY(page)
<1>6. /\ Private(bsm') = Private(bsm) \ {s}
      /\ bsm'.cache[e] = [page |-> page, slot |-> s]
      /\ \A i \in CacheIndexes : i # e => bsm'.cache[i] = bsm.cache[i]
  <2>1. bsm' = BSM_GETPAGE(bsm, page, s)
    BY <1>0, <1>4
  <2> QED
    BY <1>2, <1>3, <1>5, <2>1, GetSlots
<1>7. /\ \A p \in Pages : p # page => pte'[p] = pte[p]
      /\ ~IsSwapped(page)'
  <2>1. pte \in [Pages -> EntryType]
    BY <1>2
  <2>2. /\ \A p \in Pages : p # page => pte'[p] = pte[p]
        /\ \/ pte'[page] = Present(f, FALSE)
           \/ pte'[page] = Locked(f, FALSE)
    BY <1>0, <1>3, <2>1
  <2> QED
    BY <2>2 DEF Present, Locked, Entry, IsSwapped
<1>8. PrivateUsed'
  <2>1. \A p \in Pages : IsSwapped(p) /\ pte[p].slot # s =>
          IsSwapped(p)' /\ pte'[p].slot = pte[p].slot
    BY <1>1, <1>7 DEF IsSwapped
  <2>2. ASSUME NEW t \in Private(bsm) \ {s}
        PROVE  t \in SlotsOf(Pages)'
    <3>1. PICK p \in Pages : IsSwapped(p) /\ pte[p].slot = t
      BY <2>2, SlotsOfPages DEF LeakInv, PrivateUsed
    <3> QED
      BY <2>1, <2>2, <3>1, SlotsOfPages
  <2> QED
    BY <1>6, <2>2 DEF PrivateUsed
<1>9. ASSUME NEW p \in Pages, IsSwapped(p)', Hit(bsm', p)
      PROVE  FALSE
  <2> DEFINE i == BSM_GET_CACHE_ENTRY(p)
  <2>1. i \in CacheIndexes /\ p # page
    BY <1>7, <1>9, PagesType, IndexType
  <2>2. bsm'.cache[i] # NoEntry /\ bsm'.cache[i].page = p
    BY <1>9 DEF Hit
  <2>3. i # e
    BY <1>6, <2>1, <2>2
  <2>4. Hit(bsm, p)
    BY <1>6, <2>1, <2>2, <2>3 DEF Hit
  <2>5. IsSwapped(p)
    BY <1>7, <1>9, <2>1 DEF IsSwapped
  <2> QED
    BY <2>4, <2>5 DEF LeakInv, SwappedForgotten
<1>10. SwappedForgotten'
  <2>1. \A p : Hit(bsm, p)' = Hit(bsm', p)
    BY DEF Hit, BSM_GET_CACHE_ENTRY
  <2> QED
    BY <1>9, <2>1 DEF SwappedForgotten
<1> QED
  BY <1>8, <1>10 DEF LeakInv

\* So does the VMM.
LEMMA InitLeaks == Init => LeakInv
<1> SUFFICES ASSUME Init
             PROVE  LeakInv
  OBVIOUS
<1>1. bsm.map = {}
  BY DEF Init, BSM_INIT
<1>2. \A p \in Pages : ~IsSwapped(p)
  BY EntryStates DEF Init, IsSwapped
<1> QED
  BY <1>1, <1>2 DEF LeakInv, SwappedForgotten, PrivateUsed, Private

\* Every step keeps the slots accounted for.
LEMMA NextLeaks ==
  ASSUME ContentInv, LeakInv, SharedVA = {}, [Next]_vars
  PROVE  LeakInv'
<1>1. Inv
  BY DEF ContentInv
<1>2. CASE Host
  BY <1>1, <1>2, QuietLeaks, PageLeaks, SwapOutLeaks, ReadLeaks, GoneDrops,
     DroppedLeaks, ShutdownLeaks DEF Host, TakeFrame
<1>3. CASE \E o \in Mine \cap Owners : \E S \in Callable(o) : Call(S)
  <2>1. PICK o \in Mine \cap Owners : \E S \in Callable(o) : Call(S)
    BY <1>3
  <2>2. PICK S \in Callable(o) : Call(S)
    BY <2>1
  <2>3. CASE VMM_FREE(S) \/ VMM_DISCARD_PAGES(S)
    BY <1>1, <2>3, FreeDrops, DroppedLeaks
  <2>4. CASE AllocUncommitted(S) \/ VMM_UNLOCK(S)
    BY <2>4, PageLeaks
  <2>5. CASE VMM_ALLOC(S) \/ VMM_LOCK(S) \/ VMM_MARK_CANDIDATES(S)
    BY <2>5, QuietLeaks
  <2> QED
    BY <2>2, <2>3, <2>4, <2>5 DEF Call
<1>4. CASE Primary \/ UNCHANGED vars \/ VMM_QUERY \/ Terminate
  BY <1>4, QuietLeaks DEF Primary
<1>5. CASE \/ \E p \in Pages : VMM_PageFaultHandler(p)
           \/ \E c \in Clients : DPMIFN_SWITCHADDR(c) \/ VMM_INIT_CLIENT(c)
  BY <1>5, QuietLeaks
<1>6. CASE \E p \in Pages : Read(p)
  BY <1>6, QuietLeaks
<1>7. CASE \E p \in Pages, w \in Values : Write(p, w)
  BY <1>7, PageLeaks
<1> QED
  BY <1>2, <1>3, <1>4, <1>5, <1>6, <1>7, NextManages DEF Manages

\* Every slot that is allocated holds a page or is in the cache, if no page is
\* shared: BSM_GETPAGE gives up the slot it replaces in the cache, BSM_PUTPAGE
\* takes back the one that the cache kept, VMM_FREE and the other calls free
\* the slot of a page once.
THEOREM SlotsUsed == SharedVA = {} => (Spec => []NoSlotLeak)
<1> SUFFICES ASSUME SharedVA = {}
             PROVE  Spec => []NoSlotLeak
  OBVIOUS
<1>1. Init => ContentInv /\ NoStore /\ LeakInv
  BY InitContents, InitUnused, InitLeaks
<1>2. ContentInv /\ NoStore /\ LeakInv /\ [Next]_vars
        => (ContentInv /\ NoStore /\ LeakInv)'
  BY NextContents, NextLeaks
<1>3. ContentInv /\ LeakInv => NoSlotLeak
  <2> SUFFICES ASSUME ContentInv, LeakInv
               PROVE  NoSlotLeak
    OBVIOUS
  <2>1. SlotsOf(Pages) \subseteq bsm.map /\ CachedSlots(bsm) \subseteq bsm.map
    BY SlotsOfPages
       DEF ContentInv, SlotInv, CacheSound, SlotsPrivate, Private
  <2> QED
    BY <2>1 DEF LeakInv, PrivateUsed, Private, NoSlotLeak
<1> QED
  BY <1>1, <1>2, <1>3, PTL DEF Spec
=============================================================================
