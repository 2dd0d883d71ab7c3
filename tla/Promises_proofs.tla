-------------------------- MODULE Promises_proofs --------------------------
(***************************************************************************)
(* The proofs of what a DPMI client may rely on whatever the others do,    *)
(* for any number of frames, pages and slots: only the client that runs    *)
(* gets its pages changed, the pages of all others are at most swapped out *)
(* (OthersOnlySwapped), a fault or a lock that must not fail finds a frame *)
(* (AlwaysAFrame), and what VMM_ALLOC has promised can be given            *)
(* (CommitCovered).                                                        *)
(***************************************************************************)
EXTENDS Contents_proofs, LockedPages_proofs, Counters_proofs

\* What OthersOnlySwapped says of a page.
SwapsAt(p) ==
    /\ pte[p].state = "present"
    /\ pte'[p].state = "swapped"
    /\ p \in known => bsm'.file[pte'[p].slot] = ram[pte[p].frame]
OthersKept ==
    \A p \in Pages : p.owner \notin Mine => pte'[p] = pte[p] \/ SwapsAt(p)

-----------------------------------------------------------------------------
(* What a step does to the entries of clients that do not run. *)

\* Most steps leave all entries alone.
LEMMA QuietOthers ==
  ASSUME \/ FillPool \/ Overcommit \/ LockStray \/ LSM_NEW_PAGE_TABLE
         \/ ExternalAlloc \/ ExternalFree \/ VMM_QUERY \/ UNCHANGED vars
         \/ NoFrameLeft \/ LeaveExpanded \/ DrainRelease \/ DrainSwap
         \/ DrainNothing \/ Terminate \/ \E n : PPM_DRAIN_POOL(n)
         \/ LSM_INIT_CLIENT \/ BSM_INIT_CLIENT \/ LockIOBuffer \/ LockDone
         \/ \E c : DPMIFN_SWITCHADDR(c) \/ VMM_INIT_CLIENT(c)
         \/ \E p : VMM_PageFaultHandler(p) \/ Read(p)
         \/ \E S : VMM_ALLOC(S) \/ VMM_LOCK(S) \/ VMM_MARK_CANDIDATES(S)
  PROVE  OthersKept
<1>1. pte' = pte
  BY DEF FillPool, Overcommit, LockStray, LSM_NEW_PAGE_TABLE, ExternalAlloc,
         ExternalFree, VMM_QUERY, vars, NoFrameLeft, LeaveExpanded,
         DrainRelease, DrainSwap, DrainNothing, Terminate, PPM_DRAIN_POOL,
         LSM_INIT_CLIENT, BSM_INIT_CLIENT, LockIOBuffer, LockDone,
         DPMIFN_SWITCHADDR, VMM_INIT_CLIENT, VMM_PageFaultHandler, Read,
         VMM_ALLOC, VMM_LOCK, VMM_MARK_CANDIDATES
<1> QED
  BY <1>1 DEF OthersKept

\* A job changes the entries of its own pages, which the current client reaches.
LEMMA JobOthers ==
  ASSUME Inv, JobMine,
         \/ Commit \/ FreeExpanded \/ FaultReserved \/ FaultSwapped
         \/ LockResident \/ LockReserved \/ LockSwapped
  PROVE  OthersKept
<1>1. \A p \in Pages : p \notin job.pages => pte'[p] = pte[p]
  <2>1. CASE Commit \/ FreeExpanded
    BY <2>1, JobEntries
  <2>2. CASE \/ FaultReserved \/ FaultSwapped
             \/ LockResident \/ LockReserved \/ LockSwapped
    <3>1. PICK page : page = NextPage
      OBVIOUS
    <3>2. page \in job.pages
      BY <2>2, <3>1, JobPage
         DEF FaultReserved, FaultSwapped, LockResident, LockReserved, LockSwapped
    <3>3. PICK entry : pte' = [pte EXCEPT ![page] = entry]
      BY <2>2, <3>1
         DEF FaultReserved, FaultSwapped, LockResident, LockReserved, LockSwapped
    <3>4. pte \in [Pages -> EntryType]
      BY DEF Inv, TypeOK
    <3> QED
      BY <3>2, <3>3, <3>4
  <2> QED
    BY <2>1, <2>2
<1> QED
  BY <1>1 DEF JobMine, OthersKept

\* A call changes the entries of pages that the current client reaches.
LEMMA CallOthers ==
  ASSUME Inv, NEW o \in Mine \cap Owners, NEW S \in Callable(o), Call(S)
  PROVE  OthersKept
<1>1. S \subseteq Pages /\ S # {} /\ \A p \in S : p.owner = o
  BY CallableType
<1>2. CASE VMM_ALLOC(S) \/ VMM_LOCK(S) \/ VMM_MARK_CANDIDATES(S)
  BY <1>2, QuietOthers
<1>3. CASE AllocUncommitted(S)
  BY <1>3, UncommittedEntries DEF OthersKept
<1>4. CASE VMM_FREE(S) \/ VMM_UNLOCK(S) \/ VMM_DISCARD_PAGES(S)
  <2>1. \A p \in Pages : p \notin S => pte'[p] = pte[p]
    BY <1>4 DEF VMM_FREE, LSM_SETN_PTES, VMM_UNLOCK, VMM_DISCARD_PAGES
  <2> QED
    BY <1>1, <2>1 DEF OthersKept
<1> QED
  BY <1>2, <1>3, <1>4 DEF Call

\* A client that goes takes its own entries along, and at the end of the last
\* one nobody else has any.
LEMMA GoneOthers ==
  ASSUME OwnedInv, VMM_TERMINATE_CLIENT \/ VMM_SHUTDOWN
  PROVE  OthersKept
<1>1. CASE VMM_TERMINATE_CLIENT
  <2>1. pte' = [p \in Pages |-> IF p \in Area(cur) THEN Unalloc ELSE pte[p]]
    BY <1>1 DEF VMM_TERMINATE_CLIENT, LeftPages
  <2>2. \A p \in Area(cur) : p.owner \in Mine
    BY DEF Area, Mine
  <2> QED
    BY <2>1, <2>2 DEF OthersKept
<1>2. CASE VMM_SHUTDOWN
  <2>1. pte' = [p \in Pages |-> Unalloc] /\ live = <<cur>>
    BY <1>2 DEF VMM_SHUTDOWN, LastClient
  <2>2. Live = {cur}
    BY <2>1 DEF Live
  <2>3. \A p \in Pages : p.owner \notin Mine => pte[p] = Unalloc
    BY <2>2, PagesType DEF OwnedInv, PagesBelong, Belongs, Mine, Owners
  <2> QED
    BY <2>1, <2>3 DEF OthersKept
<1> QED
  BY <1>1, <1>2

\* A page that is swapped out was in memory, and what its client has stored in
\* it is in its slot.
LEMMA SwapOutOthers ==
  ASSUME ContentInv, NoStaleReads, NEW f \in Frames, VMM_SWAP_OUT(f)
  PROVE  OthersKept
<1>1. Inv /\ pte \in [Pages -> EntryType]
  BY DEF ContentInv, Inv, TypeOK
<1>2. PICK page, s : page = ppm.addr[f] /\ s = PutSlot(bsm, page)
  OBVIOUS
<1>3. page \in Pages /\ pte[page].state = "present"
  BY <1>1, <1>2 DEF VMM_SWAP_OUT, Victims, Inv, Framed, SwappableFramed
<1>4. pte' = [pte EXCEPT ![page] = Swapped(s)] /\ known' = known
  BY <1>2 DEF VMM_SWAP_OUT, SwapPage
<1>5. /\ pte'[page].state = "swapped"
      /\ \A p \in Pages : p # page => pte'[p] = pte[p]
  BY <1>1, <1>3, <1>4, EntryStates
<1>6. HoldsContents
  BY ManagesContents DEF Manages, Host
<1>7. ASSUME page \in known
      PROVE  bsm'.file[pte'[page].slot] = ram[pte[page].frame]
  <2>1. Contents(page)' = Contents(page)
    BY <1>4, <1>6, <1>7 DEF HoldsContents, ContentsHeld
  <2>2. Resident(page) /\ ~Resident(page)' /\ IsSwapped(page)'
    BY <1>3, <1>5 DEF Resident, IsSwapped
  <2> QED
    BY <2>1, <2>2 DEF Contents
<1>8. SwapsAt(page)
  BY <1>3, <1>5, <1>7 DEF SwapsAt
<1> QED
  BY <1>5, <1>8 DEF OthersKept

\* A client stores in pages that it reaches.
LEMMA WriteOthers ==
  ASSUME Inv, NEW p \in Pages, NEW w, Write(p, w)
  PROVE  OthersKept
<1>1. p.owner \in Mine /\ pte' = [pte EXCEPT ![p].dirty = TRUE]
  BY DEF Write
<1>2. pte \in [Pages -> EntryType]
  BY DEF Inv, TypeOK
<1>3. \A q \in Pages : q # p => pte'[q] = pte[q]
  BY <1>1, <1>2
<1> QED
  BY <1>1, <1>3 DEF OthersKept

\* So every step leaves the pages of others alone, or swaps one out.
LEMMA NextOthers ==
  ASSUME OwnedInv, ContentInv, NoStaleReads, [Next]_vars
  PROVE  OthersKept
<1>1. Inv /\ JobMine
  BY DEF ContentInv
<1>2. CASE Host
  BY <1>1, <1>2, QuietOthers, JobOthers, GoneOthers, SwapOutOthers
     DEF Host, TakeFrame
<1>3. CASE Client
  <2>1. CASE \E o \in Mine \cap Owners : \E S \in Callable(o) : Call(S)
    <3>1. PICK o \in Mine \cap Owners : \E S \in Callable(o) : Call(S)
      BY <2>1
    <3>2. PICK S \in Callable(o) : Call(S)
      BY <3>1
    <3> QED
      BY <1>1, <3>1, <3>2, CallOthers
  <2>2. CASE \E p \in Pages, w \in Values : Write(p, w)
    BY <1>1, <2>2, WriteOthers
  <2>3. CASE \/ \E p \in Pages : VMM_PageFaultHandler(p) \/ Read(p)
             \/ VMM_QUERY \/ Terminate
             \/ \E c \in Clients : DPMIFN_SWITCHADDR(c) \/ VMM_INIT_CLIENT(c)
    BY <2>3, QuietOthers
  <2> QED
    BY <1>3, <2>1, <2>2, <2>3 DEF Client
<1>4. CASE Primary \/ UNCHANGED vars
  BY <1>4, QuietOthers DEF Primary
<1> QED
  BY <1>2, <1>3, <1>4 DEF Next, Stopped

\* A step of one client, or of the VMM or the primary manager on its behalf,
\* changes no page of another client but by swapping it out, and then what that
\* client has stored in it is in the swap file: for clients that look only at
\* pages they have stored in, or where there is no swap file.
THEOREM OthersSafe == NoStaleReads => (Spec => OthersOnlySwapped)
<1> SUFFICES ASSUME NoStaleReads
             PROVE  Spec => OthersOnlySwapped
  OBVIOUS
<1> DEFINE AllInv == OwnedInv /\ ContentInv /\ NoStore
<1>1. Init => AllInv
  BY InitOwned, InitContents, InitUnused
<1>2. AllInv /\ [Next]_vars => AllInv'
  BY NextOwned, NextContents
<1>3. AllInv /\ [Next]_vars =>
        \A p \in Pages : p.owner \notin Mine =>
          \/ pte'[p] = pte[p]
          \/ /\ pte[p].state = "present"
             /\ pte'[p].state = "swapped"
             /\ p \in known => bsm'.file[pte'[p].slot] = ram[pte[p].frame]
  BY NextOthers DEF OthersKept, SwapsAt
<1> QED
  BY <1>1, <1>2, <1>3, PTL DEF Spec, OthersOnlySwapped
-----------------------------------------------------------------------------
(* The I/O buffers of the clients that are there are locked. *)

StoreSized == BSInit > 0 => bsm.total > 0

\* A client is nested once.
LiveOnce == \A i, j \in DOMAIN live : live[i] = live[j] => i = j

\* A fault is that of a client.
CallerLive == job.op = "fault" => cur \in Live

BufferLocked(c) == pte[IOPage(c)].state = "locked"
BuffersLocked == BSInit > 0 => \A c \in Live : BufferLocked(c)

\* What a client that starts allocates and locks is its I/O buffer.
BufferComes ==
    BSInit > 0 /\ job.init =>
        /\ job.op \in {"alloc", "lock"} => job.pages = {IOPage(cur)}
        /\ job.op = "locking" => IOPage(cur) \in job.pages \/ BufferLocked(cur)

BufferInv == StoreSized /\ LiveOnce /\ CallerLive /\ BuffersLocked /\ BufferComes

\* The buffers that are locked stay locked.
BuffersStay ==
    BSInit > 0 => \A c \in Clients : BufferLocked(c) => BufferLocked(c)'

\* The size of the swap file changes only when a client starts, and then it
\* does not shrink.
LEMMA SizeKept ==
  ASSUME Inv, StoreSized, [Next]_vars
  PROVE  StoreSized'
<1>1. StoreType(bsm) /\ bsm.total \in 0..BSMax
  BY StoreTyped DEF Inv, StoreType, BsmType
<1>2. CASE bsm' = bsm
  BY <1>2 DEF StoreSized
<1>3. CASE \E n \in {0, GrowBy(bsm)} : bsm' = BSM_GROW(bsm, n)
  <2>1. PICK n \in {0, GrowBy(bsm)} : bsm' = BSM_GROW(bsm, n)
    BY <1>3
  <2>2. PICK half \in Int : half = bsm.total \div 2
    BY <1>1
  <2>3. 2 * half <= bsm.total
    BY <1>1, <2>2
  <2>4. n \in Int /\ n >= 0
    <3>1. n = 0 \/ (n = (BSMax - 2 * half) \div 2 /\ bsm.total < BSMax)
      BY <2>1, <2>2 DEF GrowBy
    <3> QED
      BY <1>1, <2>2, <2>3, <3>1, StoreAssumption
  <2>5. bsm'.total = bsm.total + n
    BY <1>1, <2>1 DEF BSM_GROW, StoreType, BsmType
  <2> QED
    BY <1>1, <2>4, <2>5 DEF StoreSized
<1>4. ASSUME NEW bs, StoreType(bs), NEW S, bsm' = BSM_FREE(bs, S)
      PROVE  bsm'.total = bs.total
  BY <1>4 DEF BSM_FREE, StoreType, BsmType
<1>5. ASSUME NEW page, NEW s, bsm' = BSM_GETPAGE(bsm, page, s)
      PROVE  bsm'.total = bsm.total
  BY <1>1, <1>5 DEF BSM_GETPAGE, BSM_FREE, StoreType, BsmType
<1>6. ASSUME NEW page, NEW dirty, NEW data, bsm' = BSM_PUTPAGE(bsm, page, dirty, data)
      PROVE  bsm'.total = bsm.total
  <2>1. MakeRoom(bsm).total = bsm.total /\ StoreType(MakeRoom(bsm))
    <3>1. MakeRoom(bsm).total = bsm.total
      BY <1>1 DEF MakeRoom, BSM_FLUSH_CACHE, BSM_FREE, StoreType, BsmType
    <3> QED
      BY <1>1, <3>1, StoreFlush
  <2> QED
    BY <1>1, <1>6, <2>1 DEF BSM_PUTPAGE, BSM_ALLOC, StoreType, BsmType
<1>7. \/ bsm' = bsm
      \/ \E n \in {0, GrowBy(bsm)} : bsm' = BSM_GROW(bsm, n)
      \/ \E S : bsm' = BSM_FREE(bsm, S)
      \/ \E page, s : bsm' = BSM_GETPAGE(bsm, page, s)
      \/ \E page, dirty, data : bsm' = BSM_PUTPAGE(bsm, page, dirty, data)
      \/ bsm' = BSM_INIT(bsm.total)
  <2>1. CASE Host
    BY <2>1
       DEF Host, TakeFrame, FillPool, VMM_SWAP_OUT, LSM_NEW_PAGE_TABLE,
           FreeExpanded, LockReserved, LockSwapped, FaultReserved, FaultSwapped,
           LSM_INIT_CLIENT, LeaveExpanded, Overcommit, NoFrameLeft, Commit,
           LockIOBuffer, LockResident, LockStray, LockDone, DrainRelease,
           DrainSwap, DrainNothing, BSM_INIT_CLIENT, VMM_TERMINATE_CLIENT,
           VMM_SHUTDOWN
  <2>2. CASE Client
    <3>1. ASSUME NEW S, Call(S)
          PROVE  bsm' = bsm \/ \E Z : bsm' = BSM_FREE(bsm, Z)
      BY <3>1
         DEF Call, VMM_ALLOC, AllocUncommitted, VMM_FREE, VMM_LOCK, VMM_UNLOCK,
             VMM_MARK_CANDIDATES, VMM_DISCARD_PAGES
    <3> QED
      BY <2>2, <3>1
         DEF Client, VMM_PageFaultHandler, Read, Write, VMM_QUERY, Terminate,
             DPMIFN_SWITCHADDR, VMM_INIT_CLIENT
  <2>3. CASE Primary \/ UNCHANGED vars
    BY <2>3 DEF Primary, ExternalAlloc, ExternalFree, PPM_DRAIN_POOL, vars
  <2> QED
    BY <2>1, <2>2, <2>3 DEF Next, Stopped
<1>8. bsm' = BSM_INIT(bsm.total) => bsm'.total = bsm.total
  BY DEF BSM_INIT
<1>9. bsm'.total = bsm.total => StoreSized'
  BY DEF StoreSized
<1> QED
  BY <1>1, <1>2, <1>3, <1>4, <1>5, <1>6, <1>7, <1>8, <1>9

\* No step unlocks or frees a buffer, but for the end of its client: no call
\* names it, and no fault or swap-out is about a locked page.
LEMMA BufferSteps ==
  ASSUME Inv, [Next]_vars, ~VMM_TERMINATE_CLIENT, ~VMM_SHUTDOWN
  PROVE  BuffersStay
<1> SUFFICES ASSUME BSInit > 0, NEW c \in Clients, BufferLocked(c)
             PROVE  BufferLocked(c)'
  BY DEF BuffersStay
<1>1. PICK b : b = IOPage(c)
  OBVIOUS
<1>2. /\ b \in Pages /\ b \in IOPages /\ pte[b].state = "locked"
      /\ pte \in [Pages -> EntryType] /\ Mapped /\ b.owner \in Owners
  BY <1>1, IOPageType, PagesType DEF IOPages, BufferLocked, Inv, TypeOK
<1>3. SUFFICES pte'[b].state = "locked"
  BY <1>1 DEF BufferLocked, IOPage
<1>4. CASE pte' = pte
  BY <1>2, <1>4
<1>5. CASE Commit \/ FreeExpanded
  <2>1. \A p \in job.pages : Clean(p)
    BY <1>5 DEF Commit, FreeExpanded, Doing, Inv, JobSound
  <2>2. b \notin job.pages
    BY <1>2, <2>1 DEF Clean
  <2> QED
    BY <1>2, <1>5, <2>2, JobEntries
<1>6. CASE \/ LockResident \/ LockReserved \/ LockSwapped
           \/ FaultReserved \/ FaultSwapped
  <2>1. PICK page : page = NextPage
    OBVIOUS
  <2>2. page \in Pages
    BY <1>6, <2>1, JobPage
       DEF FaultReserved, FaultSwapped, LockResident, LockReserved, LockSwapped
  <2>3. CASE LockResident
    <3>1. PICK g : pte' = [pte EXCEPT ![page] = Locked(g, FALSE)]
      BY <2>1, <2>3 DEF LockResident
    <3>2. \A p \in Pages : p # page => pte'[p] = pte[p]
      BY <1>2, <2>2, <3>1
    <3>3. pte'[page].state = "locked"
      BY <1>2, <2>2, <3>1 DEF Locked, Entry
    <3> QED
      BY <1>2, <3>2, <3>3
  <2>4. CASE ~LockResident
    <3>1. PICK entry : pte' = [pte EXCEPT ![page] = entry]
      BY <1>6, <2>1, <2>4
         DEF FaultReserved, FaultSwapped, LockReserved, LockSwapped
    <3>2. page # b
      BY <1>2, <1>6, <2>1, <2>4
         DEF FaultReserved, FaultSwapped, LockReserved, LockSwapped, IsReserved,
             IsSwapped
    <3> QED
      BY <1>2, <2>2, <3>1, <3>2
  <2> QED
    BY <2>3, <2>4
<1>7. CASE \E f \in Frames : VMM_SWAP_OUT(f)
  <2>1. PICK f \in Frames : VMM_SWAP_OUT(f)
    BY <1>7
  <2>2. PICK page, entry : page = ppm.addr[f] /\ entry = Swapped(PutSlot(bsm, page))
    OBVIOUS
  <2>3. page \in Pages /\ pte[page].state = "present"
    BY <2>1, <2>2 DEF VMM_SWAP_OUT, Victims, Inv, Framed, SwappableFramed
  <2>4. pte' = [pte EXCEPT ![page] = entry]
    BY <2>1, <2>2 DEF VMM_SWAP_OUT, SwapPage
  <2> QED
    BY <1>2, <2>3, <2>4
<1>8. ASSUME NEW o \in Mine \cap Owners, NEW S \in Callable(o), Call(S)
      PROVE  pte'[b].state = "locked"
  <2>1. b \notin S /\ S # {} /\ \A p \in S : p.owner = o
    BY <1>2, CallableType
  <2>2. (CHOOSE p \in S : TRUE).owner = o
    BY <2>1, OwnerOf
  <2>3. CASE VMM_ALLOC(S) \/ VMM_LOCK(S) \/ VMM_MARK_CANDIDATES(S)
    BY <1>2, <2>3 DEF VMM_ALLOC, VMM_LOCK, VMM_MARK_CANDIDATES
  <2>4. CASE VMM_FREE(S) \/ VMM_UNLOCK(S) \/ VMM_DISCARD_PAGES(S)
    <3>1. pte'[b] = pte[b]
      BY <1>2, <2>1, <2>4 DEF VMM_FREE, LSM_SETN_PTES, VMM_UNLOCK, VMM_DISCARD_PAGES
    <3> QED
      BY <1>2, <3>1
  <2>5. CASE AllocUncommitted(S)
    <3>1. CASE HasTable(o)
      <4>1. LSM_SETN_PTES(S, Uncommitted, UncommittedPDE)
        BY <2>2, <2>5, <3>1 DEF AllocUncommitted
      <4> QED
        BY <1>2, <2>1, <4>1 DEF LSM_SETN_PTES
    <3>2. CASE ~HasTable(o)
      <4>1. pte' = [p \in Pages |-> IF p \in Area(o) THEN Uncommitted ELSE pte[p]]
        BY <2>2, <2>5, <3>2 DEF AllocUncommitted
      <4>2. b \notin Area(o)
        BY <1>2, <3>2, PagesType DEF Mapped, TablesCover, Clean
      <4> QED
        BY <1>2, <4>1, <4>2
    <3> QED
      BY <3>1, <3>2
  <2> QED
    BY <1>8, <2>3, <2>4, <2>5 DEF Call
<1>9. ASSUME NEW p \in Pages, NEW w, Write(p, w)
      PROVE  pte'[b].state = "locked"
  <2>1. pte' = [pte EXCEPT ![p].dirty = TRUE]
    BY <1>9 DEF Write
  <2> QED
    BY <1>2, <2>1 DEF EntryType
<1>10. CASE Host
  BY <1>4, <1>5, <1>6, <1>7, <1>10
     DEF Host, TakeFrame, FillPool, LSM_NEW_PAGE_TABLE, LSM_INIT_CLIENT,
         LeaveExpanded, Overcommit, NoFrameLeft, LockIOBuffer, LockStray,
         LockDone, DrainRelease, DrainSwap, DrainNothing, BSM_INIT_CLIENT
<1>11. CASE Client
  BY <1>4, <1>8, <1>9, <1>11
     DEF Client, VMM_PageFaultHandler, Read, VMM_QUERY, Terminate,
         DPMIFN_SWITCHADDR, VMM_INIT_CLIENT
<1>12. CASE Primary \/ UNCHANGED vars
  BY <1>4, <1>12 DEF Primary, ExternalAlloc, ExternalFree, PPM_DRAIN_POOL, vars
<1> QED
  BY <1>10, <1>11, <1>12 DEF Next, Stopped

\* What is to be shown of the clients and of the job, besides SizeKept.
BuffersKept == LiveOnce' /\ CallerLive' /\ BuffersLocked' /\ BufferComes'

\* Steps that leave the job and the clients as they are.
LEMMA SameBuffers ==
  ASSUME Inv, BufferInv, BuffersStay, UNCHANGED <<live, cur, job>>
  PROVE  BuffersKept
<1>1. Live \subseteq Clients /\ Live' = Live
  BY LiveType DEF Inv, Live
<1>2. job.op \in {"alloc", "lock", "locking"} => cur \in Clients
  BY Begun
<1>3. LiveOnce' /\ CallerLive'
  BY <1>1 DEF BufferInv, LiveOnce, CallerLive
<1>4. BuffersLocked'
  BY <1>1 DEF BufferInv, BuffersLocked, BuffersStay
<1>5. BufferComes'
  <2> SUFFICES ASSUME BSInit > 0, job.init
               PROVE  /\ job.op \in {"alloc", "lock"} => job.pages = {IOPage(cur)}
                      /\ job.op = "locking" =>
                           IOPage(cur) \in job.pages \/ BufferLocked(cur)'
    BY DEF BufferComes, BufferLocked, IOPage
  <2>1. /\ job.op \in {"alloc", "lock"} => job.pages = {IOPage(cur)}
        /\ job.op = "locking" => IOPage(cur) \in job.pages \/ BufferLocked(cur)
    BY DEF BufferInv, BufferComes
  <2> QED
    BY <1>2, <2>1 DEF BuffersStay
<1> QED
  BY <1>3, <1>4, <1>5 DEF BuffersKept

\* A page is locked, maybe the buffer of the client that starts.
LEMMA LockBuffers ==
  ASSUME Inv, BufferInv, BuffersStay, LockResident \/ LockReserved \/ LockSwapped
  PROVE  BuffersKept
<1>1. PICK page : page = NextPage
  OBVIOUS
<1>2. /\ UNCHANGED <<live, cur>> /\ job.op = "locking" /\ job \in JobType
      /\ job' = [job EXCEPT !.pages = @ \ {page}]
      /\ page \in Pages /\ cur \in Clients
  BY <1>1, JobPage, JobFields
     DEF LockResident, LockReserved, LockSwapped, Locking, Doing, LockedPage, Inv
<1>3. /\ job'.op = "locking" /\ job'.init = job.init
      /\ job'.pages = job.pages \ {page}
  BY <1>2, JobRecords, JobInits
<1>4. pte'[page].state = "locked"
  <2>1. PICK g : pte' = [pte EXCEPT ![page] = Locked(g, FALSE)]
    BY <1>1 DEF LockResident, LockReserved, LockSwapped
  <2>2. pte \in [Pages -> EntryType]
    BY DEF Inv, TypeOK
  <2> QED
    BY <1>2, <2>1, <2>2 DEF Locked, Entry
<1>5. Live \subseteq Clients /\ Live' = Live
  BY <1>2, LiveType DEF Inv, Live
<1>6. LiveOnce' /\ CallerLive' /\ BuffersLocked'
  BY <1>2, <1>3, <1>5
     DEF BufferInv, LiveOnce, CallerLive, BuffersLocked, BuffersStay
<1>7. ASSUME BSInit > 0, job.init
      PROVE  IOPage(cur) \in job'.pages \/ BufferLocked(cur)'
  <2>1. IOPage(cur) \in job.pages \/ BufferLocked(cur)
    BY <1>2, <1>7 DEF BufferInv, BufferComes
  <2>2. CASE IOPage(cur) = page
    BY <1>2, <1>4, <2>2 DEF BufferLocked, IOPage
  <2>3. CASE IOPage(cur) # page
    BY <1>2, <1>3, <1>7, <2>1, <2>3 DEF BuffersStay
  <2> QED
    BY <2>2, <2>3
<1>8. BufferComes'
  <2>1. IOPage(cur)' = IOPage(cur) /\ (BufferLocked(cur)' <=> pte'[IOPage(cur)].state = "locked")
    BY <1>2 DEF BufferLocked, IOPage
  <2> QED
    BY <1>2, <1>3, <1>7, <2>1 DEF BufferComes
<1> QED
  BY <1>6, <1>8 DEF BuffersKept

\* The job that a step leaves is none of a client that starts, or one before
\* there is a buffer; if it is a fault its client is there.
NoBufferJob ==
    /\ ~job'.init \/ job'.op \in {"dir", "swapfile"}
    /\ job'.op = "fault" => cur' \in Live

\* Then there is nothing to say of the buffer of that client.
LEMMA OtherBuffers ==
  ASSUME Inv, BufferInv, BuffersStay, live' = live, NoBufferJob
  PROVE  BuffersKept
<1>1. Live \subseteq Clients /\ Live' = Live
  BY LiveType DEF Inv, Live
<1> QED
  BY <1>1 DEF BufferInv, LiveOnce, CallerLive, BuffersLocked, BuffersStay,
              BufferComes, BuffersKept, NoBufferJob

\* Calls, faults and drains begin, and jobs end.
LEMMA OtherJobs ==
  ASSUME Inv, Held,
         \/ FreeExpanded \/ FaultReserved \/ FaultSwapped \/ LeaveExpanded
         \/ DrainRelease \/ DrainSwap \/ DrainNothing \/ Terminate
         \/ LSM_INIT_CLIENT \/ (LockDone /\ ~job.init) \/ (Commit /\ ~job.init)
         \/ \E n : PPM_DRAIN_POOL(n)
         \/ \E c : DPMIFN_SWITCHADDR(c) \/ VMM_INIT_CLIENT(c)
         \/ \E p : VMM_PageFaultHandler(p)
         \/ \E S : VMM_ALLOC(S) \/ VMM_LOCK(S) \/ VMM_FREE(S)
         \/ VMM_TERMINATE_CLIENT \/ VMM_SHUTDOWN
  PROVE  /\ NoBufferJob
         /\ live' = live \/ VMM_TERMINATE_CLIENT \/ VMM_SHUTDOWN
<1>1. live' = live \/ VMM_TERMINATE_CLIENT \/ VMM_SHUTDOWN
  BY DEF FreeExpanded, FaultReserved, FaultSwapped, LeaveExpanded,
         DrainRelease, DrainSwap, DrainNothing, Terminate, LSM_INIT_CLIENT,
         LockDone, Commit, PPM_DRAIN_POOL, DPMIFN_SWITCHADDR, VMM_INIT_CLIENT,
         VMM_PageFaultHandler, VMM_ALLOC, VMM_LOCK, VMM_FREE
<1>2. job' = Idle => NoBufferJob
  BY JobInits DEF NoBufferJob
<1>3. ASSUME NEW op, NEW S, op # "fault", job' = Job(op, S, FALSE)
      PROVE  NoBufferJob
  <2>1. ~job'.init /\ job'.op = op
    BY <1>3 DEF Job
  <2> QED
    BY <1>3, <2>1 DEF NoBufferJob
<1>4. ASSUME NEW op, NEW count, NEW request, op # "fault",
             job' = DrainJob(op, count, request)
      PROVE  NoBufferJob
  BY <1>4, JobInits DEF NoBufferJob
<1>5. ASSUME NEW op \in {"dir", "swapfile"}, NEW S, job' = Job(op, S, TRUE)
      PROVE  NoBufferJob
  <2>1. job'.op = op
    BY <1>5 DEF Job
  <2> QED
    BY <2>1 DEF NoBufferJob
<1>6. CASE LeaveExpanded
  <2>1. job' = [job EXCEPT !.op = "gone"] /\ job \in JobType /\ ~job.init
    BY <1>6, JobFields DEF LeaveExpanded, Doing, Held, StartersNew, Starting, Inv
  <2>2. job'.op = "gone" /\ ~job'.init
    BY <2>1, JobRecords, JobInits DEF Ops
  <2> QED
    BY <1>1, <1>6, <2>2 DEF NoBufferJob
<1>7. CASE \E p : VMM_PageFaultHandler(p)
  <2>1. PICK p : job' = Job("fault", {p}, FALSE) /\ cur' = cur /\ cur \in Live
    BY <1>7 DEF VMM_PageFaultHandler, ClientRuns
  <2>2. ~job'.init
    BY <2>1 DEF Job
  <2> QED
    BY <1>1, <2>1, <2>2 DEF NoBufferJob
<1>8. CASE \/ FreeExpanded \/ FaultReserved \/ FaultSwapped \/ DrainRelease
           \/ DrainNothing \/ \E c : DPMIFN_SWITCHADDR(c)
           \/ LockDone \/ VMM_TERMINATE_CLIENT \/ VMM_SHUTDOWN
  BY <1>1, <1>2, <1>8
     DEF FreeExpanded, FaultReserved, FaultSwapped, DrainRelease, DrainNothing,
         DPMIFN_SWITCHADDR, ClientRuns, Ready, LockDone, VMM_TERMINATE_CLIENT,
         VMM_SHUTDOWN
<1>9. CASE DrainSwap \/ (\E n : PPM_DRAIN_POOL(n)) \/ Terminate
  BY <1>1, <1>2, <1>3, <1>4, <1>9 DEF DrainSwap, PPM_DRAIN_POOL, Terminate
<1>10. CASE LSM_INIT_CLIENT \/ \E c : VMM_INIT_CLIENT(c)
  BY <1>1, <1>5, <1>10 DEF LSM_INIT_CLIENT, VMM_INIT_CLIENT
<1>11. CASE \E S : VMM_ALLOC(S) \/ VMM_LOCK(S) \/ VMM_FREE(S)
  <2>1. PICK S : VMM_ALLOC(S) \/ VMM_LOCK(S) \/ VMM_FREE(S)
    BY <1>11
  <2>2. \/ job' = Idle
        \/ \E op \in {"alloc", "locking", "expand"} : job' = Job(op, S, FALSE)
    BY <2>1 DEF VMM_ALLOC, LSM_ALLOC, VMM_LOCK, VMM_FREE, ClientRuns, Ready
  <2> QED
    BY <1>1, <1>2, <1>3, <1>11, <2>2
<1>12. CASE Commit /\ ~job.init
  BY <1>1, <1>2, <1>12 DEF Commit
<1> QED
  BY <1>6, <1>7, <1>8, <1>9, <1>10, <1>11, <1>12

\* A job that looks for a frame goes on, or it ends.
LEMMA SearchBuffers ==
  ASSUME Inv, Held, BufferInv, BuffersStay,
         NoFrameLeft \/ \E f \in Frames : VMM_SWAP_OUT(f)
  PROVE  BuffersKept
<1>1. UNCHANGED <<live, cur>> /\ job \in JobType
  BY JobFields DEF NoFrameLeft, VMM_SWAP_OUT, Inv
<1>2. CASE job' = job
  BY <1>1, <1>2, SameBuffers
<1>3. CASE NoBufferJob
  BY <1>1, <1>3, OtherBuffers
<1>4. CASE NoFrameLeft /\ job.op = "leave"
  <2>1. job' = [job EXCEPT !.op = "gone"] /\ ~job.init
    BY <1>4 DEF NoFrameLeft, Held, StartersNew, Starting
  <2>2. job'.op = "gone" /\ ~job'.init
    BY <1>1, <2>1, JobRecords, JobInits DEF Ops
  <2> QED
    BY <1>3, <2>2 DEF NoBufferJob
<1>5. CASE NoFrameLeft /\ job.op # "leave"
  <2>1. job' = job \/ job' = Idle
    BY <1>5 DEF NoFrameLeft
  <2> QED
    BY <1>2, <1>3, <2>1, JobInits DEF NoBufferJob
<1>6. CASE \E f \in Frames : VMM_SWAP_OUT(f)
  <2>1. \/ job' = job
        \/ \E op \in {"drain", "pageout"} : \E count, request :
              job' = DrainJob(op, count, request)
    BY <1>6 DEF VMM_SWAP_OUT
  <2> QED
    BY <1>2, <1>3, <2>1, JobInits DEF NoBufferJob
<1> QED
  BY <1>4, <1>5, <1>6

\* A client that starts allocates its buffer, commits and locks it.
LEMMA StartBuffers ==
  ASSUME Inv, Held, BufferInv, BuffersStay,
         \/ LockIOBuffer
         \/ BSM_INIT_CLIENT /\ bsm.total # 0
         \/ Commit /\ job.init
  PROVE  BuffersKept
<1>1. /\ UNCHANGED <<live, cur>> /\ job.init /\ job \in JobType
      /\ job.op \in {"alloc", "lock", "swapfile"}
  BY StartJobs, JobFields
     DEF Inv, LockIOBuffer, BSM_INIT_CLIENT, Commit, Doing
<1>2. CASE job' = Job("gone", {}, FALSE)
  <2>1. ~job'.init /\ job'.op = "gone"
    BY <1>2 DEF Job
  <2> QED
    BY <1>1, <2>1, OtherBuffers DEF NoBufferJob
<1>3. ASSUME BSInit > 0 => job'.pages = {IOPage(cur)},
             job'.op \in {"alloc", "lock", "locking"}
      PROVE  BuffersKept
  <2>1. Live \subseteq Clients /\ Live' = Live
    BY <1>1, LiveType DEF Inv, Live
  <2>2. LiveOnce' /\ CallerLive' /\ BuffersLocked'
    BY <1>1, <1>3, <2>1
       DEF BufferInv, LiveOnce, CallerLive, BuffersLocked, BuffersStay
  <2>3. IOPage(cur)' = IOPage(cur)
    BY <1>1 DEF IOPage
  <2>4. BufferComes'
    BY <1>3, <2>3 DEF BufferComes
  <2> QED
    BY <2>2, <2>4 DEF BuffersKept
<1>4. CASE LockIOBuffer
  <2>1. BSInit > 0 => job.pages = {IOPage(cur)}
    BY <1>1, <1>4 DEF BufferInv, BufferComes, LockIOBuffer, Doing
  <2>2. \/ job' = Job("gone", {}, FALSE)
        \/ job' = [job EXCEPT !.op = "locking"]
    BY <1>4 DEF LockIOBuffer
  <2>3. CASE job' = [job EXCEPT !.op = "locking"]
    <3>1. job'.op = "locking" /\ job'.pages = job.pages
      BY <1>1, <2>3, JobRecords DEF Ops
    <3> QED
      BY <1>3, <2>1, <3>1
  <2> QED
    BY <1>2, <2>2, <2>3
<1>5. CASE BSM_INIT_CLIENT /\ bsm.total # 0
  <2>1. PICK n : LSM_ALLOC({IOPage(cur)}, BSFree(bsm) + n, TRUE)
    BY <1>5 DEF BSM_INIT_CLIENT
  <2>2. \/ job' = Job("alloc", {IOPage(cur)}, TRUE)
        \/ job' = Job("gone", {}, FALSE)
    BY <2>1 DEF LSM_ALLOC
  <2>3. CASE job' = Job("alloc", {IOPage(cur)}, TRUE)
    <3>1. job'.op = "alloc" /\ job'.pages = {IOPage(cur)}
      BY <2>3 DEF Job
    <3> QED
      BY <1>3, <3>1
  <2> QED
    BY <1>2, <2>2, <2>3
<1>6. CASE Commit /\ job.init
  <2>1. BSInit > 0 => job.pages = {IOPage(cur)}
    BY <1>6 DEF BufferInv, BufferComes, Commit, Doing
  <2>2. \/ job' = Job("lock", job.pages, TRUE)
        \/ job' = Job("gone", {}, FALSE)
    BY <1>6 DEF Commit
  <2>3. CASE job' = Job("lock", job.pages, TRUE)
    <3>1. job'.op = "lock" /\ job'.pages = job.pages
      BY <2>3 DEF Job
    <3> QED
      BY <1>3, <2>1, <3>1
  <2> QED
    BY <1>2, <2>2, <2>3
<1> QED
  BY <1>4, <1>5, <1>6

\* When it is nested its buffer is locked.
LEMMA NestedBuffers ==
  ASSUME Inv, Held, BufferInv, BuffersStay,
         (LockDone /\ job.init) \/ (BSM_INIT_CLIENT /\ bsm.total = 0)
  PROVE  BuffersKept
<1>1. /\ live' = Append(live, cur) /\ job' = Idle
      /\ live \in Seq(Clients) /\ cur \in Clients /\ cur \notin Live
  BY Begun
     DEF LockDone, BSM_INIT_CLIENT, Doing, Inv, TypeOK, Held, StartersNew
<1>2. /\ Len(live) \in Nat /\ DOMAIN live = 1..Len(live)
      /\ DOMAIN live' = 1..(Len(live) + 1)
      /\ \A i \in 1..Len(live) : live'[i] = live[i] /\ live[i] # cur
      /\ live'[Len(live) + 1] = cur
  BY <1>1 DEF Live
<1>3. LiveOnce'
  BY <1>2 DEF BufferInv, LiveOnce
<1>4. job'.op = "idle" /\ ~job'.init
  BY <1>1, JobInits
<1>5. ASSUME BSInit > 0
      PROVE  BufferLocked(cur)
  <2>1. LockDone /\ job.init
    BY <1>5 DEF BufferInv, StoreSized
  <2> QED
    BY <1>5, <2>1 DEF BufferInv, BufferComes, LockDone, Doing
<1>6. Live' = Live \cup {cur} /\ Live \subseteq Clients
  BY <1>2, LiveType DEF Live, Inv
<1>7. BuffersLocked'
  BY <1>1, <1>5, <1>6 DEF BufferInv, BuffersLocked, BuffersStay
<1> QED
  BY <1>3, <1>4, <1>7 DEF BuffersKept, CallerLive, BufferComes

\* The buffer of a client goes with the client.
LEMMA GoneBuffers ==
  ASSUME Inv, Held, BufferInv, VMM_TERMINATE_CLIENT \/ VMM_SHUTDOWN
  PROVE  BuffersKept
<1>1. NoBufferJob
  BY OtherJobs
<1>2. job' = Idle
  BY DEF VMM_TERMINATE_CLIENT, VMM_SHUTDOWN
<1>3. CallerLive' /\ BufferComes'
  BY <1>2, JobInits DEF CallerLive, BufferComes
<1>4. CASE VMM_SHUTDOWN
  <2>1. live' = <<>>
    BY <1>4 DEF VMM_SHUTDOWN
  <2>2. DOMAIN live' = {} /\ Live' = {}
    BY <2>1 DEF Live
  <2> QED
    BY <1>3, <2>2 DEF BuffersKept, LiveOnce, BuffersLocked
<1>5. CASE VMM_TERMINATE_CLIENT
  <2>1. /\ live \in Seq(Clients) /\ job.op = "gone" /\ Live \subseteq Clients
        /\ LiveOnce /\ BuffersLocked
    BY <1>5, LiveType DEF Inv, TypeOK, VMM_TERMINATE_CLIENT, Doing, BufferInv
  <2>2. /\ DOMAIN live' \subseteq DOMAIN live
        /\ \A i \in DOMAIN live' : live'[i] = live[i] /\ live[i] # cur
    <3>1. CASE cur \notin Live
      <4>1. live' = live
        BY <1>5, <3>1 DEF VMM_TERMINATE_CLIENT
      <4> QED
        BY <3>1, <4>1 DEF Live
    <3>2. CASE cur \in Live
      <4>1. cur = live[Len(live)] /\ live' = SubSeq(live, 1, Len(live) - 1)
        BY <1>5, <2>1, <3>2 DEF VMM_TERMINATE_CLIENT, Held, LeaverOnTop
      <4>2. Len(live) \in Nat /\ DOMAIN live = 1..Len(live) /\ Len(live) > 0
        BY <2>1, <3>2 DEF Live
      <4>3. DOMAIN live' = 1..(Len(live) - 1)
        BY <2>1, <4>1, <4>2
      <4>4. \A i \in 1..(Len(live) - 1) : live'[i] = live[i]
        BY <2>1, <4>1, <4>2
      <4>5. \A i \in 1..(Len(live) - 1) : live[i] # live[Len(live)]
        BY <2>1, <4>2 DEF LiveOnce
      <4> QED
        BY <4>1, <4>2, <4>3, <4>4, <4>5
    <3> QED
      BY <3>1, <3>2
  <2>3. LiveOnce'
    BY <2>1, <2>2 DEF LiveOnce
  <2>4. Live' \subseteq Live /\ cur \notin Live'
    BY <2>2 DEF Live
  <2>5. \A c \in Clients : c # cur => pte'[IOPage(c)] = pte[IOPage(c)]
    <3>1. pte' = [p \in Pages |-> IF p \in Area(cur) THEN Unalloc ELSE pte[p]]
      BY <1>5 DEF VMM_TERMINATE_CLIENT, LeftPages
    <3> SUFFICES ASSUME NEW c \in Clients, c # cur
                 PROVE  pte'[IOPage(c)] = pte[IOPage(c)]
      OBVIOUS
    <3>2. PICK b : b = IOPage(c)
      OBVIOUS
    <3>3. b \in Pages /\ b \notin Area(cur)
      BY <3>2, IOPageType DEF Area
    <3> QED
      BY <3>1, <3>2, <3>3
  <2>6. BuffersLocked'
    <3> SUFFICES ASSUME BSInit > 0, NEW c \in Live'
                 PROVE  pte'[IOPage(c)].state = "locked"
      BY DEF BuffersLocked, BufferLocked, IOPage
    <3> QED
      BY <2>1, <2>4, <2>5 DEF BuffersLocked, BufferLocked
  <2> QED
    BY <1>3, <2>3, <2>6 DEF BuffersKept
<1> QED
  BY <1>4, <1>5

\* Every step keeps the buffers of the clients that are there locked.
LEMMA NextBuffers ==
  ASSUME Inv, Held, BufferInv, [Next]_vars
  PROVE  BufferInv'
<1>1. StoreSized'
  BY SizeKept DEF BufferInv
<1>2. BuffersKept
  <2>1. CASE VMM_TERMINATE_CLIENT \/ VMM_SHUTDOWN
    BY <2>1, GoneBuffers
  <2>2. CASE ~VMM_TERMINATE_CLIENT /\ ~VMM_SHUTDOWN
    <3>1. BuffersStay
      BY <2>2, BufferSteps
    <3>2. CASE Host
      <4>1. CASE \/ FillPool \/ Overcommit \/ LockStray \/ LSM_NEW_PAGE_TABLE
        <5>1. UNCHANGED <<live, cur, job>>
          BY <4>1 DEF FillPool, Overcommit, LockStray, LSM_NEW_PAGE_TABLE
        <5> QED
          BY <3>1, <5>1, SameBuffers
      <4>2. CASE LockResident \/ LockReserved \/ LockSwapped
        BY <3>1, <4>2, LockBuffers
      <4>3. CASE NoFrameLeft \/ \E f \in Frames : VMM_SWAP_OUT(f)
        BY <3>1, <4>3, SearchBuffers
      <4>4. CASE \/ LockIOBuffer
                 \/ BSM_INIT_CLIENT /\ bsm.total # 0
                 \/ Commit /\ job.init
        BY <3>1, <4>4, StartBuffers
      <4>5. CASE (LockDone /\ job.init) \/ (BSM_INIT_CLIENT /\ bsm.total = 0)
        BY <3>1, <4>5, NestedBuffers
      <4>6. CASE \/ FreeExpanded \/ FaultReserved \/ FaultSwapped \/ LeaveExpanded
                 \/ DrainRelease \/ DrainSwap \/ DrainNothing
                 \/ LSM_INIT_CLIENT \/ (LockDone /\ ~job.init) \/ (Commit /\ ~job.init)
        BY <2>2, <3>1, <4>6, OtherJobs, OtherBuffers
      <4> QED
        BY <2>2, <3>2, <4>1, <4>2, <4>3, <4>4, <4>5, <4>6 DEF Host, TakeFrame
    <3>3. CASE Client
      <4>1. ASSUME NEW S, Call(S)
            PROVE  BuffersKept
        <5>1. CASE VMM_ALLOC(S) \/ VMM_LOCK(S) \/ VMM_FREE(S)
          BY <2>2, <3>1, <5>1, OtherJobs, OtherBuffers
        <5>2. CASE \/ AllocUncommitted(S) \/ VMM_UNLOCK(S)
                   \/ VMM_MARK_CANDIDATES(S) \/ VMM_DISCARD_PAGES(S)
          <6>1. UNCHANGED <<live, cur, job>>
            BY <5>2 DEF AllocUncommitted, VMM_UNLOCK, VMM_MARK_CANDIDATES,
                        VMM_DISCARD_PAGES
          <6> QED
            BY <3>1, <6>1, SameBuffers
        <5> QED
          BY <4>1, <5>1, <5>2 DEF Call
      <4>2. CASE \/ \E p \in Pages : VMM_PageFaultHandler(p)
                 \/ Terminate
                 \/ \E c \in Clients : DPMIFN_SWITCHADDR(c) \/ VMM_INIT_CLIENT(c)
        BY <2>2, <3>1, <4>2, OtherJobs, OtherBuffers
      <4>3. CASE \/ VMM_QUERY \/ \E p \in Pages : Read(p)
                 \/ \E p \in Pages, w \in Values : Write(p, w)
        <5>1. UNCHANGED <<live, cur, job>>
          BY <4>3 DEF VMM_QUERY, Read, Write
        <5> QED
          BY <3>1, <5>1, SameBuffers
      <4> QED
        BY <3>3, <4>1, <4>2, <4>3 DEF Client
    <3>4. CASE ExternalAlloc \/ ExternalFree \/ UNCHANGED vars
      <4>1. UNCHANGED <<live, cur, job>>
        BY <3>4 DEF ExternalAlloc, ExternalFree, vars
      <4> QED
        BY <3>1, <4>1, SameBuffers
    <3>5. CASE \E n \in 1..MaxDrain : PPM_DRAIN_POOL(n)
      BY <2>2, <3>1, <3>5, OtherJobs, OtherBuffers
    <3> QED
      BY <3>2, <3>3, <3>4, <3>5 DEF Next, Primary, Stopped
  <2> QED
    BY <2>1, <2>2
<1> QED
  BY <1>1, <1>2 DEF BufferInv, BuffersKept

\* At the start there is nothing.
LEMMA InitBuffers == Init => BufferInv
<1> SUFFICES ASSUME Init
             PROVE  BufferInv
  OBVIOUS
<1>1. live = <<>> /\ bsm.total = BSInit /\ job.op = "idle" /\ ~job.init
  BY JobInits DEF Init, BSM_INIT
<1>2. DOMAIN live = {} /\ Live = {}
  BY <1>1 DEF Live
<1> QED
  BY <1>1, <1>2
     DEF BufferInv, StoreSized, LiveOnce, CallerLive, BuffersLocked, BufferComes

-----------------------------------------------------------------------------
(* So whoever must have a frame finds a page to swap out. *)

\* Clients and owners can be counted, and the tables and directories there are
\* are no more.
LEMMA TableCount ==
  ASSUME TypeOK
  PROVE  LET T == {table[o] : o \in Owners}
             D == {dir[c] : c \in Clients}
         IN  /\ IsFiniteSet(Owners) /\ IsFiniteSet(Clients)
             /\ IsFiniteSet(T) /\ Cardinality(T) <= Cardinality(Owners)
             /\ IsFiniteSet(D) /\ Cardinality(D) <= Cardinality(Clients)
             /\ Cardinality(T) \in Nat /\ Cardinality(D) \in Nat
             /\ Cardinality(Owners) \in Nat /\ Cardinality(Clients) \in Nat
<1> DEFINE T == {table[o] : o \in Owners}
           D == {dir[c] : c \in Clients}
           owner == [p \in Pages |-> p.owner]
           O == {p.owner : p \in Pages}
<1>1. IsFiniteSet(O)
  <2>1. owner \in Surjection(Pages, O)
    BY DEF Surjection
  <2> QED
    BY <2>1, VmmAssumption, FS_Surjection
<1>2. IsFiniteSet(Clients)
  <2>1. \A c \in Clients : IOPage(c) \in Pages /\ IOPage(c).owner = c
    BY IOPageType
  <2>2. \A c \in Clients : \E p \in Pages : p.owner = c
    BY <2>1
  <2>3. Clients \subseteq O
    BY <2>2
  <2> HIDE DEF O
  <2> QED
    BY <1>1, <2>3, FS_Subset
<1>3. IsFiniteSet(Owners)
  BY <1>2, FS_AddElement DEF Owners
<1>4. table \in Surjection(Owners, T) /\ dir \in Surjection(Clients, D)
  BY DEF TypeOK, Surjection
<1> HIDE DEF T, D
<1>5. /\ IsFiniteSet(T) /\ Cardinality(T) <= Cardinality(Owners)
      /\ IsFiniteSet(D) /\ Cardinality(D) <= Cardinality(Clients)
  BY <1>2, <1>3, <1>4, FS_Surjection
<1>6. /\ Cardinality(T) \in Nat /\ Cardinality(D) \in Nat
      /\ Cardinality(Owners) \in Nat /\ Cardinality(Clients) \in Nat
  BY <1>2, <1>3, <1>5, FS_CardinalityType
<1> QED
  BY <1>2, <1>3, <1>5, <1>6 DEF T, D

\* Frames that the pool has lent out and that are not locked hold page tables
\* and directories, or pages that can be swapped out.
LEMMA UnlockedFrames ==
  ASSUME FrameInv
  PROVE  ppm.alloced \ LockedFrames(ppm)
           \subseteq ppm.swappable \cup ({table[o] : o \in Owners}
                                          \cup {dir[c] : c \in Clients})
<1>1. PagesFramed /\ Accounted
  BY DEF FrameInv, Inv, Framed
<1> SUFFICES ASSUME NEW f \in ppm.alloced, ~(ppm.locks[f] > 0), HasPage(f)
             PROVE  f \in ppm.swappable
  BY <1>1 DEF Accounted, UsedFor, LockedFrames
<1> QED
  BY <1>1 DEF HasPage, PagesFramed

\* The working set is larger than all page tables and directories together.
RoomForTables == MinLow > Cardinality(Owners) + Cardinality(Clients)

\* A lock or a fault that finds no free frame finds one that can be swapped out.
\* While a client is there its buffer is locked, so that the working set is
\* kept; it is in the pool, and not all of it is tables and directories.
LEMMA FrameFound ==
  ASSUME WorkInv, FrameInv, BufferInv, BSInit > 0, RoomForTables,
         Free(ppm) = {}, job.op \in {"locking", "fault"}
  PROVE  ppm.nSwappable > 0
<1>1. /\ TypeOK /\ PpmType(ppm, Pages) /\ PoolCounts(ppm) /\ WorkingSet
      /\ PagesFramed
  BY StoreTyped DEF WorkInv, CountInv, Counted, Inv, Framed
<1>2. ppm.nLocked = Cardinality(LockedFrames(ppm)) /\ ppm.nLocked \in Nat
  BY <1>1, CountedFrames DEF PoolCounts
<1>3. LocksAsked
  <2>1. CASE job.op = "locking"
    BY <2>1 DEF LocksAsked
  <2>2. CASE job.op = "fault"
    <3>1. cur \in Live /\ cur \in Clients
      BY <1>1, <2>2, LiveType DEF BufferInv, CallerLive
    <3>2. PICK b : b = IOPage(cur)
      OBVIOUS
    <3>3. b \in Pages /\ pte[b].state = "locked"
      BY <3>1, <3>2, IOPageType DEF BufferInv, BuffersLocked, BufferLocked
    <3>4. pte[b].frame \in LockedFrames(ppm)
      BY <1>1, <3>3 DEF PagesFramed, Resident, LockedFrames
    <3>5. Cardinality(LockedFrames(ppm)) # 0
      <4>1. PICK L : L = LockedFrames(ppm)
        OBVIOUS
      <4>2. IsFiniteSet(L) /\ L # {}
        BY <1>1, <3>4, <4>1, CountedFrames
      <4> QED
        BY <4>1, <4>2, FS_EmptySet
    <3> QED
      BY <1>2, <3>5 DEF LocksAsked
  <2> QED
    BY <2>1, <2>2
<1>4. PICK m : m = Cardinality(ppm.managed)
  OBVIOUS
<1>5. m - ppm.nLocked >= MinLow
  <2>1. /\ Unlocked = m - ppm.nLocked - KeepOf(m)
        /\ m \in Nat /\ KeepOf(m) \in Nat
    BY <1>1, <1>4, UnlockedOf
  <2>2. Cardinality(ToLock) \in Nat /\ Cardinality(ToLock) <= Unlocked
    BY <1>1, <1>3, ToLockType DEF WorkingSet
  <2>3. KeepOf(m) >= MinLow
    <3>1. PICK half \in Int : half = m \div 2
      BY <2>1
    <3>2. KeepOf(m) = LET want == IF half < MinHigh THEN half ELSE MinHigh
                      IN  IF want >= MinLow THEN want ELSE MinLow
      BY <3>1 DEF KeepOf
    <3> QED
      BY <3>1, <3>2, PoolAssumption
  <2> QED
    BY <1>2, <2>1, <2>2, <2>3, PoolAssumption
<1>6. ppm.managed = ppm.alloced
  BY <1>1 DEF PpmType, Free
<1> DEFINE T == {table[o] : o \in Owners}
           D == {dir[c] : c \in Clients}
<1>7. PICK A, L, W, U : /\ A = ppm.alloced /\ L = LockedFrames(ppm)
                        /\ W = ppm.swappable /\ U = A \ L
  OBVIOUS
<1>8. /\ IsFiniteSet(A) /\ IsFiniteSet(L) /\ IsFiniteSet(W) /\ IsFiniteSet(U)
      /\ L \subseteq A /\ Cardinality(U) = m - ppm.nLocked
  <2>1. A \subseteq Frames /\ L \subseteq A /\ W \subseteq Frames
    BY <1>1, <1>7 DEF PpmType, LockedFrames
  <2>2. IsFiniteSet(A) /\ IsFiniteSet(L) /\ IsFiniteSet(W)
    BY <1>1, <1>7, <2>1, FrameCount, CountedFrames
  <2>3. A \cap L = L
    BY <2>1
  <2>4. IsFiniteSet(U) /\ Cardinality(U) = Cardinality(A) - Cardinality(L)
    <3>1. /\ IsFiniteSet(A \ L)
          /\ Cardinality(A \ L) = Cardinality(A) - Cardinality(A \cap L)
      BY <2>2, FS_Difference
    <3> QED
      BY <1>7, <2>3, <3>1, Zenon
  <2>5. m = Cardinality(A) /\ ppm.nLocked = Cardinality(L)
    BY <1>2, <1>4, <1>6, <1>7, Zenon
  <2>6. Cardinality(U) = m - ppm.nLocked
    BY <2>4, <2>5
  <2> QED
    BY <2>1, <2>2, <2>4, <2>6
<1>9. /\ IsFiniteSet(T) /\ IsFiniteSet(D)
      /\ Cardinality(T) + Cardinality(D) < MinLow
      /\ Cardinality(T) \in Nat /\ Cardinality(D) \in Nat
  BY <1>1, TableCount, PoolAssumption DEF RoomForTables
<1>10. U \subseteq W \cup (T \cup D)
  BY <1>7, UnlockedFrames
<1> HIDE DEF T, D
<1>11. W # {}
  <2> SUFFICES ASSUME W = {}
               PROVE  FALSE
    OBVIOUS
  <2>1. U \subseteq T \cup D
    BY <1>10
  <2>2. /\ IsFiniteSet(T \cup D)
        /\ Cardinality(T \cup D) <= Cardinality(T) + Cardinality(D)
    <3>1. /\ IsFiniteSet(T \cup D)
          /\ Cardinality(T \cup D)
               = Cardinality(T) + Cardinality(D) - Cardinality(T \cap D)
      BY <1>9, FS_Union
    <3>2. Cardinality(T \cap D) \in Nat
      BY <1>9, FS_Intersection, FS_CardinalityType
    <3> QED
      BY <1>9, <3>1, <3>2
  <2>3. Cardinality(U) <= Cardinality(T \cup D) /\ Cardinality(T \cup D) \in Nat
    BY <2>1, <2>2, FS_Subset, FS_CardinalityType
  <2>4. m \in Nat
    BY <1>1, <1>4, UnlockedOf
  <2> QED
    BY <1>2, <1>5, <1>8, <1>9, <2>2, <2>3, <2>4, PoolAssumption
<1>12. ppm.nSwappable = Cardinality(W) /\ Cardinality(W) # 0 /\ Cardinality(W) \in Nat
  BY <1>1, <1>7, <1>8, <1>11, FS_EmptySet, FS_CardinalityType DEF PoolCounts
<1> QED
  BY <1>12

\* Only NoFrameLeft ends the machine for want of a frame.
LEMMA StopsOtherwise ==
  ASSUME [Next]_vars, stop' = "noframe"
  PROVE  \/ stop = "noframe"
         \/ NoFrameLeft /\ job.op \in {"locking", "fault"}
<1>1. CASE Host
  BY <1>1
     DEF Host, TakeFrame, FillPool, VMM_SWAP_OUT, LSM_NEW_PAGE_TABLE,
         FreeExpanded, LockReserved, LockSwapped, FaultReserved, FaultSwapped,
         LSM_INIT_CLIENT, LeaveExpanded, Overcommit, NoFrameLeft, Commit,
         LockIOBuffer, LockResident, LockStray, LockDone, DrainRelease,
         DrainSwap, DrainNothing, BSM_INIT_CLIENT, VMM_TERMINATE_CLIENT,
         VMM_SHUTDOWN
<1>2. CASE Client
  <2>1. ASSUME NEW S, Call(S)
        PROVE  stop' = stop
    BY <2>1
       DEF Call, VMM_ALLOC, AllocUncommitted, VMM_FREE, VMM_LOCK, VMM_UNLOCK,
           VMM_MARK_CANDIDATES, VMM_DISCARD_PAGES
  <2> QED
    BY <1>2, <2>1
       DEF Client, VMM_PageFaultHandler, Read, Write, VMM_QUERY, Terminate,
           DPMIFN_SWITCHADDR, VMM_INIT_CLIENT
<1>3. CASE Primary \/ UNCHANGED vars
  BY <1>3 DEF Primary, ExternalAlloc, ExternalFree, PPM_DRAIN_POOL, vars
<1> QED
  BY <1>1, <1>2, <1>3 DEF Next, Stopped

\* With a swap file, and a least working set that is larger than all page tables
\* and directories (6 pages in the code: up to two nested clients), a lock that
\* has passed its checks and a fault on a committed page always get a frame,
\* whatever swaps, drains and other programs leave of the pool.
THEOREM FrameForEach ==
  BSInit > 0 /\ RoomForTables => (Spec => []AlwaysAFrame)
<1> SUFFICES ASSUME BSInit > 0, RoomForTables
             PROVE  Spec => []AlwaysAFrame
  OBVIOUS
<1> DEFINE AllInv == WorkInv /\ FrameInv /\ BufferInv /\ AlwaysAFrame
<1>1. Init => AllInv
  BY InitWork, InitFrames, InitBuffers DEF Init, AlwaysAFrame
<1>2. AllInv /\ [Next]_vars => AllInv'
  <2> SUFFICES ASSUME AllInv, [Next]_vars
               PROVE  AllInv'
    OBVIOUS
  <2>1. WorkInv' /\ FrameInv' /\ BufferInv'
    BY NextWork, NextFrames, NextBuffers DEF FrameInv
  <2>2. AlwaysAFrame'
    <3> SUFFICES ASSUME stop' = "noframe"
                 PROVE  FALSE
      BY DEF AlwaysAFrame
    <3>1. NoFrameLeft /\ job.op \in {"locking", "fault"}
      BY StopsOtherwise DEF AlwaysAFrame
    <3>2. Free(ppm) = {} /\ ppm.nSwappable = 0
      BY <3>1 DEF NoFrameLeft, Starved
    <3> QED
      BY <3>1, <3>2, FrameFound
  <2> QED
    BY <2>1, <2>2
<1> QED
  BY <1>1, <1>2, PTL DEF Spec

-----------------------------------------------------------------------------
(* What has been promised can be given.  A slot that the cache keeps is    *)
(* free for whoever needs it, so the slots that count are the private      *)
(* ones.                                                                   *)

\* CommitCovered without what the primary manager could still lend.
Covered ==
    reserved <= PhysicalFree(ppm) + (bsm.total - Cardinality(Private(bsm)))

\* No slot is behind the end of the swap file.
InFile(bs) == bs.map \subseteq 0..(bs.total - 1)

CoverInv == CountInv /\ OwnedInv /\ ContentInv /\ LeakInv /\ InFile(bsm) /\ Covered

\* Free frames and private slots can be counted.
LEMMA MemoryCount ==
  ASSUME NEW pm, PpmType(pm, Pages), NEW bs, StoreType(bs)
  PROVE  /\ Free(pm) \subseteq Frames /\ IsFiniteSet(Free(pm))
         /\ PhysicalFree(pm) \in Nat
         /\ Private(bs) \subseteq Slots /\ IsFiniteSet(Private(bs))
         /\ Cardinality(Private(bs)) \in Nat
         /\ bs.total \in Nat
<1>1. Free(pm) \subseteq Frames
  BY DEF PpmType, Free
<1>2. Private(bs) \subseteq Slots /\ bs.total \in Nat
  BY StoreAssumption DEF StoreType, BsmType, Private
<1> QED
  BY <1>1, <1>2, FrameCount, SlotCount DEF PhysicalFree

\* The slots that are not private are free or in the cache.
LEMMA SlotsLeft ==
  ASSUME NEW bs, StoreType(bs), CacheSound(bs)
  PROVE  /\ BSFree(bs) + Cardinality(CachedSlots(bs))
              = bs.total - Cardinality(Private(bs))
         /\ BSFree(bs) \in Int /\ Cardinality(CachedSlots(bs)) \in Nat
<1>1. PICK M, C : M = bs.map /\ C = CachedSlots(bs)
  OBVIOUS
<1>2. /\ C \subseteq M /\ M \subseteq Slots /\ bs.total \in Nat
      /\ Private(bs) = M \ C
  BY <1>1, StoreAssumption DEF CacheSound, StoreType, BsmType, Private
<1>3. /\ IsFiniteSet(M) /\ IsFiniteSet(C)
      /\ Cardinality(M) \in Nat /\ Cardinality(C) \in Nat
  BY <1>2, SlotCount
<1>4. M \cap C = C
  BY <1>2
<1>5. Cardinality(M \ C) = Cardinality(M) - Cardinality(M \cap C)
  BY <1>3, FS_Difference
<1>6. Cardinality(Private(bs)) = Cardinality(M) - Cardinality(C)
  BY <1>2, <1>4, <1>5, Zenon
<1>7. BSFree(bs) = bs.total - Cardinality(M)
  BY <1>1 DEF BSFree
<1>8. Cardinality(CachedSlots(bs)) = Cardinality(C)
  BY <1>1
<1> QED
  BY <1>2, <1>3, <1>6, <1>7, <1>8

\* Slots that are not private are free or cached, and Avail only adds to them.
LEMMA CoveredCovers == Inv /\ SlotInv /\ Covered => CommitCovered
<1> SUFFICES ASSUME Inv, SlotInv, Covered
             PROVE  CommitCovered
  OBVIOUS
<1>1. /\ StoreType(bsm) /\ PpmType(ppm, Pages) /\ CacheSound(bsm)
      /\ reserved \in Int
  BY StoreTyped DEF Inv, SlotInv, TypeOK
<1>2. PICK a : a = Cardinality(Avail)
  OBVIOUS
<1>3. a \in Nat
  BY <1>2, FrameCount DEF Avail
<1>4. /\ PhysicalFree(ppm) \in Nat /\ Cardinality(Private(bsm)) \in Nat
      /\ bsm.total \in Nat
  BY <1>1, MemoryCount
<1>5. /\ BSFree(bsm) + Cardinality(CachedSlots(bsm))
            = bsm.total - Cardinality(Private(bsm))
      /\ BSFree(bsm) \in Int /\ Cardinality(CachedSlots(bsm)) \in Nat
  BY <1>1, SlotsLeft
<1>6. CommitCovered <=>
        reserved <= PhysicalFree(ppm) + a + BSFree(bsm)
                      + Cardinality(CachedSlots(bsm))
  BY <1>2 DEF CommitCovered
<1> QED
  BY <1>1, <1>3, <1>4, <1>5, <1>6 DEF Covered

\* A step that gives memory back, or promises off.
LEMMA MoreCover ==
  ASSUME TypeOK, TypeOK', Covered,
         Free(ppm) \subseteq Free(ppm'), Private(bsm') \subseteq Private(bsm),
         bsm.total <= bsm'.total, reserved' <= reserved
  PROVE  Covered'
<1>1. /\ StoreType(bsm) /\ PpmType(ppm, Pages)
      /\ StoreType(bsm') /\ PpmType(ppm', Pages)
      /\ reserved \in Int /\ reserved' \in Int
  BY DEF TypeOK, StoreType
<1>2. PICK A, B, K, L : /\ A = Free(ppm) /\ B = Free(ppm')
                        /\ K = Private(bsm) /\ L = Private(bsm')
  OBVIOUS
<1>3. /\ IsFiniteSet(A) /\ IsFiniteSet(B) /\ IsFiniteSet(K) /\ IsFiniteSet(L)
      /\ bsm.total \in Nat /\ bsm'.total \in Nat
  BY <1>1, <1>2, MemoryCount
<1>4. /\ Cardinality(A) <= Cardinality(B) /\ Cardinality(L) <= Cardinality(K)
      /\ Cardinality(A) \in Nat /\ Cardinality(B) \in Nat
      /\ Cardinality(K) \in Nat /\ Cardinality(L) \in Nat
  BY <1>2, <1>3, FS_Subset, FS_CardinalityType
<1>5. reserved <= Cardinality(A) + (bsm.total - Cardinality(K))
  BY <1>2 DEF Covered, PhysicalFree
<1>6. Covered' <=> reserved' <= Cardinality(B) + (bsm'.total - Cardinality(L))
  BY <1>2 DEF Covered, PhysicalFree
<1> QED
  BY <1>1, <1>3, <1>4, <1>5, <1>6

\* A step that moves n frames and k slots, and changes the promises by r.
LEMMA MovedCover ==
  ASSUME TypeOK, TypeOK', Covered, bsm'.total = bsm.total,
         NEW n \in Int, NEW k \in Int,
         PhysicalFree(ppm') = PhysicalFree(ppm) + n,
         Cardinality(Private(bsm')) = Cardinality(Private(bsm)) - k,
         reserved' <= reserved + (n + k)
  PROVE  Covered'
<1>1. /\ StoreType(bsm) /\ PpmType(ppm, Pages)
      /\ reserved \in Int /\ reserved' \in Int
  BY DEF TypeOK, StoreType
<1>2. /\ PhysicalFree(ppm) \in Nat /\ Cardinality(Private(bsm)) \in Nat
      /\ bsm.total \in Nat
  BY <1>1, MemoryCount
<1>3. Covered' <=>
        reserved' <= PhysicalFree(ppm') + (bsm'.total - Cardinality(Private(bsm')))
  BY DEF Covered
<1> QED
  BY <1>1, <1>2, <1>3 DEF Covered

\* What the operations of the pool do to its free frames.
LEMMA FreeAfter ==
  ASSUME NEW pm, PpmType(pm, Pages), NEW F, NEW q
  PROVE  /\ F \subseteq Frames /\ (q = PPM_FILL_POOL(pm, F) \/ q = PPM_QUERY(pm, F))
              => Free(pm) \subseteq Free(q)
         /\ F \subseteq Frames /\ q = PPM_FREE(pm, F)
              => Free(q) = Free(pm) \cup (F \cap pm.managed)
         /\ F \subseteq Free(pm) /\ q = PPM_RELEASE(pm, F)
              => Free(q) = Free(pm) \ F
         /\ q = PPM_MARK(pm, F) => Free(q) = Free(pm)
<1>1. ASSUME F \subseteq Frames, q = PPM_FILL_POOL(pm, F) \/ q = PPM_QUERY(pm, F)
      PROVE  Free(pm) \subseteq Free(q)
  BY <1>1, FillPoolRecord DEF Free
<1>2. ASSUME F \subseteq Frames, q = PPM_FREE(pm, F)
      PROVE  Free(q) = Free(pm) \cup (F \cap pm.managed)
  <2>1. q.managed = pm.managed /\ q.alloced = pm.alloced \ F
    BY <1>2, FreeRecord
  <2>2. pm.alloced \subseteq pm.managed
    BY DEF PpmType
  <2> QED
    BY <2>1, <2>2 DEF Free
<1>3. ASSUME F \subseteq Free(pm), q = PPM_RELEASE(pm, F)
      PROVE  Free(q) = Free(pm) \ F
  <2>1. q.managed = pm.managed \ F /\ q.alloced = pm.alloced
    BY <1>3 DEF PPM_RELEASE, PpmType
  <2> QED
    BY <2>1 DEF Free
<1>4. ASSUME q = PPM_MARK(pm, F)
      PROVE  Free(q) = Free(pm)
  <2>1. q.managed = pm.managed /\ q.alloced = pm.alloced
    BY <1>4 DEF PPM_MARK, PpmType
  <2> QED
    BY <2>1 DEF Free
<1> QED
  BY <1>1, <1>2, <1>3, <1>4

\* A file that grows does not shrink.
LEMMA GrowsUp ==
  ASSUME NEW bs, StoreType(bs), NEW n \in {0, GrowBy(bs)}
  PROVE  n \in Nat
<1>1. bs.total \in 0..BSMax
  BY DEF StoreType, BsmType
<1>2. PICK half \in Int : half = bs.total \div 2
  BY <1>1
<1>3. 2 * half <= bs.total
  BY <1>1, <1>2
<1>4. n = 0 \/ (n = (BSMax - 2 * half) \div 2 /\ bs.total < BSMax)
  BY <1>2 DEF GrowBy
<1> QED
  BY <1>1, <1>2, <1>3, <1>4, StoreAssumption

\* Of all these only the pool changes, or nothing that counts here.
LEMMA QuietCover ==
  ASSUME CoverInv, TypeOK',
         \/ FillPool \/ Overcommit \/ NoFrameLeft \/ LockStray \/ LockDone
         \/ LockIOBuffer \/ LockResident \/ BSM_INIT_CLIENT \/ DrainSwap
         \/ DrainNothing \/ Terminate \/ VMM_QUERY \/ ExternalAlloc
         \/ ExternalFree \/ UNCHANGED vars
         \/ \E n : PPM_DRAIN_POOL(n)
         \/ \E c : DPMIFN_SWITCHADDR(c) \/ VMM_INIT_CLIENT(c)
         \/ \E p : VMM_PageFaultHandler(p) \/ Read(p) \/ \E w : Write(p, w)
         \/ \E S : VMM_ALLOC(S) \/ VMM_LOCK(S) \/ VMM_MARK_CANDIDATES(S)
         \/ \E S : S \subseteq Pages /\ (VMM_UNLOCK(S) \/ AllocUncommitted(S))
  PROVE  Covered' /\ InFile(bsm')
<1>1. /\ TypeOK /\ PpmType(ppm, Pages) /\ StoreType(bsm) /\ InFile(bsm)
      /\ Covered /\ Inv
  BY StoreTyped DEF CoverInv, CountInv, Inv
<1>2. reserved' = reserved
  BY DEF FillPool, Overcommit, NoFrameLeft, LockStray, LockDone, LockIOBuffer,
         LockResident, BSM_INIT_CLIENT, DrainSwap, DrainNothing, Terminate,
         VMM_QUERY, ExternalAlloc, ExternalFree, vars, PPM_DRAIN_POOL,
         DPMIFN_SWITCHADDR, VMM_INIT_CLIENT, VMM_PageFaultHandler, Read, Write,
         VMM_ALLOC, VMM_LOCK, VMM_MARK_CANDIDATES, VMM_UNLOCK, AllocUncommitted
<1>3. /\ bsm'.map = bsm.map /\ bsm'.cache = bsm.cache
      /\ bsm.total <= bsm'.total
  <2>1. CASE BSM_INIT_CLIENT
    <3>1. bsm' = bsm \/ \E n \in {0, GrowBy(bsm)} : bsm' = BSM_GROW(bsm, n)
      BY <2>1 DEF BSM_INIT_CLIENT
    <3>2. bsm.total \in Nat
      BY <1>1, MemoryCount
    <3>3. CASE bsm' = bsm
      BY <3>2, <3>3
    <3>4. ASSUME NEW n \in {0, GrowBy(bsm)}, bsm' = BSM_GROW(bsm, n)
          PROVE  /\ bsm'.map = bsm.map /\ bsm'.cache = bsm.cache
                 /\ bsm.total <= bsm'.total
      <4>1. n \in Nat
        BY <1>1, <3>2, GrowsUp
      <4>2. /\ bsm'.map = bsm.map /\ bsm'.cache = bsm.cache
            /\ bsm'.total = bsm.total + n
        BY <1>1, <3>4 DEF BSM_GROW, StoreType, BsmType
      <4> QED
        BY <3>2, <4>1, <4>2
    <3> QED
      BY <3>1, <3>3, <3>4
  <2>2. CASE ~BSM_INIT_CLIENT
    <3>1. bsm' = bsm
      BY <2>2
         DEF FillPool, Overcommit, NoFrameLeft, LockStray, LockDone,
             LockIOBuffer, LockResident, DrainSwap, DrainNothing, Terminate,
             VMM_QUERY, ExternalAlloc, ExternalFree, vars, PPM_DRAIN_POOL,
             DPMIFN_SWITCHADDR, VMM_INIT_CLIENT, VMM_PageFaultHandler, Read,
             Write, VMM_ALLOC, VMM_LOCK, VMM_MARK_CANDIDATES, VMM_UNLOCK,
             AllocUncommitted
    <3>2. bsm.total \in Nat
      BY <1>1, MemoryCount
    <3> QED
      BY <3>1, <3>2
  <2> QED
    BY <2>1, <2>2
<1>4. Private(bsm') = Private(bsm)
  BY <1>3, SameCache DEF Private
<1>5. InFile(bsm')
  <2>1. bsm.total \in Nat /\ bsm'.total \in Nat
    BY <1>1, MemoryCount DEF TypeOK, StoreType
  <2>2. 0..(bsm.total - 1) \subseteq 0..(bsm'.total - 1)
    BY <1>3, <2>1
  <2> QED
    BY <1>1, <1>3, <2>2 DEF InFile
<1>6. Free(ppm) \subseteq Free(ppm')
  <2>1. CASE \/ FillPool \/ VMM_QUERY \/ BSM_INIT_CLIENT \/ \E S : VMM_ALLOC(S)
    <3>1. \/ ppm' = ppm
          \/ ppm' = PPM_FILL_POOL(ppm, Avail)
          \/ ppm' = PPM_QUERY(ppm, Avail)
      BY <2>1 DEF FillPool, VMM_QUERY, BSM_INIT_CLIENT, VMM_ALLOC, LSM_ALLOC
    <3>2. Avail \subseteq Frames
      BY DEF Avail
    <3> QED
      BY <1>1, <3>1, <3>2, FreeAfter
  <2>2. CASE \E S : VMM_MARK_CANDIDATES(S)
    <3>1. PICK F : ppm' = PPM_MARK(ppm, F)
      BY <2>2 DEF VMM_MARK_CANDIDATES
    <3>2. Free(ppm') = Free(ppm)
      BY <1>1, <3>1, FreeAfter, ZenonT(60)
    <3> QED
      BY <3>2
  <2>3. CASE LockResident
    <3>1. PICK f, page : page = NextPage /\ f = pte[page].frame
      OBVIOUS
    <3>2. page \in Pages /\ Resident(page) /\ ppm' = PPM_LOCK(ppm, f)
      BY <1>1, <2>3, <3>1, JobPage DEF LockResident
    <3>3. f \in Frames /\ PpmType(ppm, Pages)
      BY <1>1, <3>1, <3>2 DEF Inv, Framed, PagesFramed, PpmType
    <3>4. /\ PpmType(ppm', Pages)
          /\ ppm'.managed = ppm.managed /\ ppm'.alloced = ppm.alloced
          /\ ppm'.addr = ppm.addr
          /\ IF ppm.locks[f] = MaxLocks
             THEN ppm'.swappable = ppm.swappable /\ ppm'.locks = ppm.locks
             ELSE /\ ppm'.swappable = ppm.swappable \ {f}
                  /\ ppm'.locks = [ppm.locks EXCEPT ![f] = @ + 1]
      BY <3>2, <3>3, LockRecord
    <3> QED
      BY <3>4 DEF Free
  <2>4. ASSUME NEW S, S \subseteq Pages, VMM_UNLOCK(S)
        PROVE  Free(ppm) \subseteq Free(ppm')
    <3>1. PICK F : F = FramesOf(S)
      OBVIOUS
    <3>2. ppm' = PPM_UNLOCK(ppm, F) /\ F \subseteq ppm.alloced
      BY <1>1, <2>4, <3>1, RegionAlloced DEF VMM_UNLOCK
    <3>3. ppm'.managed = ppm.managed /\ ppm'.alloced = ppm.alloced
      BY <1>1, <3>2, UnlockRecord
    <3> QED
      BY <3>3 DEF Free
  <2>5. ASSUME NEW S, S \subseteq Pages, AllocUncommitted(S)
        PROVE  Free(ppm) \subseteq Free(ppm')
    <3>1. PICK F : F = TableOf(S)
      OBVIOUS
    <3>2. ppm' = PPM_FREE(ppm, F)
      BY <2>5, <3>1 DEF AllocUncommitted
    <3>3. F \subseteq Frames
      BY <3>1 DEF TableOf
    <3>4. Free(ppm') = Free(ppm) \cup (F \cap ppm.managed)
      BY <1>1, <3>2, <3>3, FreeAfter
    <3> QED
      BY <3>4
  <2>6. CASE \/ Overcommit \/ NoFrameLeft \/ LockStray \/ LockDone
             \/ LockIOBuffer \/ DrainSwap \/ DrainNothing \/ Terminate
             \/ ExternalAlloc \/ ExternalFree \/ UNCHANGED vars
             \/ \E n : PPM_DRAIN_POOL(n)
             \/ \E c : DPMIFN_SWITCHADDR(c) \/ VMM_INIT_CLIENT(c)
             \/ \E p : VMM_PageFaultHandler(p) \/ Read(p) \/ \E w : Write(p, w)
             \/ \E S : VMM_LOCK(S)
    <3>1. ppm' = ppm
      BY <2>6
         DEF Overcommit, NoFrameLeft, LockStray, LockDone, LockIOBuffer,
             DrainSwap, DrainNothing, Terminate, ExternalAlloc, ExternalFree,
             vars, PPM_DRAIN_POOL, DPMIFN_SWITCHADDR, VMM_INIT_CLIENT,
             VMM_PageFaultHandler, Read, Write, VMM_LOCK
    <3> QED
      BY <3>1
  <2> QED
    BY <2>1, <2>2, <2>3, <2>4, <2>5, <2>6
<1>7. reserved \in Int /\ bsm.total <= bsm'.total
  BY <1>1, <1>3 DEF TypeOK
<1>8. reserved' <= reserved
  BY <1>2, <1>7
<1> QED
  BY <1>1, <1>4, <1>5, <1>6, <1>7, <1>8, MoreCover

\* BSM_ALLOC stays in the file.
LEMMA WholeWords ==
  ASSUME NEW t \in Nat, NEW d \in Nat \ {0}
  PROVE  (t \div d) * d <= t
OBVIOUS

\* A page that is put goes to a slot of the file.
LEMMA PutInFile ==
  ASSUME NEW bs, StoreType(bs), CacheSound(bs), InFile(bs), NEW page \in Keys,
         NEW dirty, NEW data, HasRoom(bs, page),
         NEW bt, bt = BSM_PUTPAGE(bs, page, dirty, data)
  PROVE  InFile(bt) /\ bt.total = bs.total
<1>1. PICK s, e : s = PutSlot(bs, page) /\ e = BSM_GET_CACHE_ENTRY(page)
  OBVIOUS
<1>2. CASE Hit(bs, page)
  <2>1. bt.map = bs.map /\ bt.total = bs.total
    BY <1>2 DEF BSM_PUTPAGE, StoreType, BsmType
  <2> QED
    BY <2>1 DEF InFile
<1>3. CASE ~Hit(bs, page)
  <2>1. PICK room : room = MakeRoom(bs)
    OBVIOUS
  <2>2. StoreType(room) /\ room.total = bs.total /\ room.map \subseteq bs.map
    <3>1. StoreType(room)
      BY <2>1, StoreFlush
    <3>2. room.total = bs.total /\ room.map \subseteq bs.map
      BY <2>1 DEF MakeRoom, BSM_FLUSH_CACHE, BSM_FREE, StoreType, BsmType
    <3> QED
      BY <3>1, <3>2
  <2>3. Allocatable(room) # {} /\ Allocatable(room) \subseteq Slots
    BY <1>3, <2>1 DEF HasRoom, Allocatable
  <2>4. s = FirstSlot(Allocatable(room))
    BY <1>1, <1>3, <2>1 DEF PutSlot
  <2>5. s \in Allocatable(room)
    BY <2>3, <2>4, FirstSlotType
  <2>6. bt = [BSM_ALLOC(room) EXCEPT !.file[s] = data]
    BY <1>1, <1>3, <2>1 DEF BSM_PUTPAGE
  <2>7. bt.map = room.map \cup {s} /\ bt.total = room.total
    BY <2>2, <2>4, <2>6 DEF BSM_ALLOC, StoreType, BsmType
  <2>8. s \in Slots /\ s < (room.total \div DWord) * DWord
    BY <2>5 DEF Allocatable
  <2>9. PICK t \in Nat : t = room.total
    BY <2>2, StoreAssumption DEF StoreType, BsmType
  <2>10. (t \div DWord) * DWord <= t
    BY StoreAssumption, WholeWords
  <2>11. (t \div DWord) * DWord \in Int /\ s \in Nat
    BY <2>8, StoreAssumption DEF Slots
  <2>12. s < t
    BY <2>8, <2>9, <2>10, <2>11
  <2>13. s \in 0..(bs.total - 1)
    BY <2>2, <2>9, <2>11, <2>12
  <2> QED
    BY <2>2, <2>7, <2>13 DEF InFile
<1> QED
  BY <1>2, <1>3

\* One element more, or less.
LEMMA OneMore ==
  ASSUME NEW S, IsFiniteSet(S), NEW x
  PROVE  /\ x \notin S => Cardinality(S \cup {x}) = Cardinality(S) + 1
         /\ x \in S => Cardinality(S \ {x}) = Cardinality(S) - 1
BY FS_AddElement, FS_RemoveElement

\* A page that is swapped out gives a frame for a slot.
LEMMA SwapOutCover ==
  ASSUME CoverInv, TypeOK', NEW f \in Frames, VMM_SWAP_OUT(f)
  PROVE  Covered' /\ InFile(bsm')
<1>1. /\ TypeOK /\ Framed /\ PpmType(ppm, Pages) /\ StoreType(bsm)
      /\ CacheSound(bsm) /\ InFile(bsm) /\ Covered
      /\ pte \in [Pages -> EntryType] /\ ram \in [Frames -> Words]
  BY StoreTyped DEF CoverInv, CountInv, ContentInv, SlotInv, Inv, TypeOK
<1>2. PICK page, s, dirty, data :
        /\ page = ppm.addr[f] /\ s = PutSlot(bsm, page)
        /\ dirty = pte[page].dirty /\ data = ram[f]
  OBVIOUS
<1>3. /\ f \in ppm.alloced /\ f \in ppm.managed
      /\ page \in Pages
  BY <1>1, <1>2
     DEF VMM_SWAP_OUT, Victims, Framed, SwappableFramed, PpmType
<1>4. page \in Keys /\ dirty \in BOOLEAN /\ data \in Words
  BY <1>1, <1>2, <1>3, PagesType DEF EntryType
<1>5. /\ HasRoom(bsm, page)
      /\ bsm' = BSM_PUTPAGE(bsm, page, dirty, data)
      /\ ppm' = PPM_FREE(ppm, {f}) /\ reserved' = reserved
  BY <1>2 DEF VMM_SWAP_OUT, SwapPage
<1>6. InFile(bsm') /\ bsm'.total = bsm.total
  BY <1>1, <1>4, <1>5, PutInFile
<1>7. s \notin Private(bsm) /\ Private(bsm') = Private(bsm) \cup {s}
  <2>1. HasRoom(bsm, page)
    BY <1>5
  <2>2. bsm' = BSM_PUTPAGE(bsm, page, dirty, data) /\ s = PutSlot(bsm, page)
    BY <1>2, <1>5
  <2> QED
    BY <1>1, <1>4, <2>1, <2>2, PutSlots
<1>8. Free(ppm') = Free(ppm) \cup {f} /\ f \notin Free(ppm)
  <2>1. Free(ppm') = Free(ppm) \cup ({f} \cap ppm.managed)
    BY <1>1, <1>5, FreeAfter
  <2> QED
    BY <1>3, <2>1 DEF Free
<1>9. PhysicalFree(ppm') = PhysicalFree(ppm) + 1
  <2>1. PICK A : A = Free(ppm)
    OBVIOUS
  <2>2. IsFiniteSet(A)
    BY <1>1, <2>1, MemoryCount
  <2>3. Cardinality(A \cup {f}) = Cardinality(A) + 1
    BY <1>8, <2>1, <2>2, OneMore
  <2> QED
    BY <1>8, <2>1, <2>3 DEF PhysicalFree
<1>10. Cardinality(Private(bsm')) = Cardinality(Private(bsm)) - (-1)
  <2>1. PICK K : K = Private(bsm)
    OBVIOUS
  <2>2. IsFiniteSet(K) /\ Cardinality(K) \in Nat
    BY <1>1, <2>1, MemoryCount
  <2>3. Cardinality(K \cup {s}) = Cardinality(K) + 1
    BY <1>7, <2>1, <2>2, OneMore
  <2> QED
    BY <1>7, <2>1, <2>2, <2>3
<1>11. reserved' <= reserved + (1 + (-1))
  BY <1>1, <1>5 DEF TypeOK
<1>12. Covered'
  BY <1>1, <1>6, <1>9, <1>10, <1>11, MovedCover
<1> QED
  BY <1>6, <1>12

\* A page that gets a frame gives back its promise, or its slot.
LEMMA TouchCover ==
  ASSUME CoverInv, TypeOK', SharedVA = {},
         LockReserved \/ LockSwapped \/ FaultReserved \/ FaultSwapped
  PROVE  Covered' /\ InFile(bsm')
<1>1. /\ TypeOK /\ Inv /\ PpmType(ppm, Pages) /\ StoreType(bsm)
      /\ CacheSound(bsm) /\ InFile(bsm) /\ Covered /\ Mapped
      /\ pte \in [Pages -> EntryType] /\ reserved \in Int
  BY StoreTyped DEF CoverInv, CountInv, ContentInv, SlotInv, Inv, TypeOK
<1>2. PICK f, page, s, key :
        /\ f = FreeHead(ppm) /\ page = NextPage /\ s = pte[page].slot
        /\ key = KeyNow(page)
  OBVIOUS
<1>3. page \in Pages /\ page \in job.pages /\ page \in Keys
  BY <1>1, <1>2, JobPage DEF LockReserved, LockSwapped, FaultReserved, FaultSwapped
<1>4. f \in Free(ppm)
  BY <1>1, <1>2, FreeHeadType
     DEF LockReserved, LockSwapped, FaultReserved, FaultSwapped, FrameReady
<1>5. Free(ppm') = Free(ppm) \ {f}
  <2>1. \/ ppm' = PPM_LOCK(Fixed(ppm, f, page), f)
        \/ ppm' = Pageable(ppm, f, page)
    BY <1>2
       DEF LockReserved, LockSwapped, FaultReserved, FaultSwapped, Fixed, Pageable
  <2>2. ppm'.managed = ppm.managed /\ ppm'.alloced = ppm.alloced \cup {f}
    <3>1. PpmType(ppm, Pages) /\ f \in Free(ppm) /\ page \in Pages
      BY <1>1, <1>3, <1>4
    <3>2. CASE ppm' = PPM_LOCK(Fixed(ppm, f, page), f)
      <4>1. /\ PpmType(ppm', Pages)
            /\ ppm'.managed = ppm.managed
            /\ ppm'.alloced = ppm.alloced \cup {f}
            /\ ppm'.swappable = ppm.swappable
            /\ ppm'.locks = [ppm.locks EXCEPT ![f] = 1]
            /\ ppm'.addr = [ppm.addr EXCEPT ![f] = page]
        BY <3>1, <3>2, LockedPageRecord
      <4> QED
        BY <4>1
    <3>3. CASE ppm' = Pageable(ppm, f, page)
      <4>1. /\ PpmType(ppm', Pages)
            /\ ppm'.managed = ppm.managed
            /\ ppm'.alloced = ppm.alloced \cup {f}
            /\ ppm'.swappable = ppm.swappable \cup {f}
            /\ ppm'.locks = [ppm.locks EXCEPT ![f] = 0]
            /\ ppm'.addr = [ppm.addr EXCEPT ![f] = page]
        BY <3>1, <3>3, PageableRecord
      <4> QED
        BY <4>1
    <3> QED
      BY <2>1, <3>2, <3>3
  <2> QED
    BY <2>2 DEF Free
<1>6. PhysicalFree(ppm') = PhysicalFree(ppm) + (-1)
  <2>1. PICK A : A = Free(ppm)
    OBVIOUS
  <2>2. IsFiniteSet(A) /\ Cardinality(A) \in Nat
    BY <1>1, <2>1, FrameCount DEF PpmType, Free
  <2>3. Cardinality(A \ {f}) = Cardinality(A) - 1
    BY <1>4, <2>1, <2>2, OneMore
  <2> QED
    BY <1>5, <2>1, <2>2, <2>3 DEF PhysicalFree
<1>7. CASE LockReserved \/ FaultReserved
  <2>1. bsm' = bsm /\ reserved' = reserved - 1
    BY <1>7 DEF LockReserved, FaultReserved
  <2>2. Cardinality(Private(bsm)) \in Nat
    BY <1>1, MemoryCount
  <2>3. /\ Cardinality(Private(bsm')) = Cardinality(Private(bsm)) - 0
        /\ bsm'.total = bsm.total
        /\ reserved' <= reserved + (-1 + 0)
    BY <1>1, <2>1, <2>2
  <2>4. Covered'
    BY <1>1, <1>6, <2>3, MovedCover
  <2> QED
    BY <1>1, <2>1, <2>4
<1>8. CASE LockSwapped \/ FaultSwapped
  <2>1. bsm' = BSM_GETPAGE(bsm, key, s) /\ reserved' = reserved /\ IsSwapped(page)
    BY <1>2, <1>8 DEF LockSwapped, FaultSwapped
  <2>2. key = page
    <3>1. page.owner # SharedOwner
      BY <1>3, PagesType DEF Area, VA
    <3>2. page.owner = cur
      BY <1>3, <3>1 DEF CoverInv, ContentInv, JobMine, Mine
    <3> QED
      BY <1>2, <1>3, <3>2, PagesType DEF KeyNow
  <2>3. s \in Slots /\ s \in Private(bsm) /\ ~Hit(bsm, page)
    BY <1>1, <1>2, <1>3, <2>1
       DEF Mapped, SlotsSound, CoverInv, ContentInv, SlotInv, SlotsPrivate,
           LeakInv, SwappedForgotten
  <2>4. bsm' = BSM_GETPAGE(bsm, page, s)
    BY <2>1, <2>2
  <2>5. /\ Private(bsm') = Private(bsm) \ {s}
        /\ bsm'.total = bsm.total
        /\ bsm'.map \subseteq bsm.map
    <3>1. StoreType(bsm) /\ CacheSound(bsm) /\ page \in Keys
      BY <1>1, <1>3
    <3>2. PICK e : e = BSM_GET_CACHE_ENTRY(page)
      OBVIOUS
    <3>3. /\ Private(bsm') = Private(bsm) \ {s}
          /\ bsm'.cache[e] = [page |-> page, slot |-> s]
          /\ \A i \in CacheIndexes : i # e => bsm'.cache[i] = bsm.cache[i]
      BY <2>3, <2>4, <3>1, <3>2, GetSlots
    <3>4. bsm'.total = bsm.total /\ bsm'.map \subseteq bsm.map
      BY <1>1, <2>4 DEF BSM_GETPAGE, BSM_FREE, StoreType, BsmType
    <3> QED
      BY <3>3, <3>4
  <2>6. Cardinality(Private(bsm')) = Cardinality(Private(bsm)) - 1
    <3>1. PICK K : K = Private(bsm)
      OBVIOUS
    <3>2. IsFiniteSet(K)
      BY <1>1, <3>1, MemoryCount
    <3>3. Cardinality(K \ {s}) = Cardinality(K) - 1
      BY <2>3, <3>1, <3>2, OneMore
    <3> QED
      BY <2>5, <3>1, <3>3
  <2>7. reserved' <= reserved + (-1 + 1)
    BY <1>1, <2>1
  <2>8. PICK n \in Int, k \in Int : n = -1 /\ k = 1
    OBVIOUS
  <2>9. /\ PhysicalFree(ppm') = PhysicalFree(ppm) + n
        /\ Cardinality(Private(bsm')) = Cardinality(Private(bsm)) - k
        /\ reserved' <= reserved + (n + k)
        /\ bsm'.total = bsm.total
    BY <1>6, <2>5, <2>6, <2>7, <2>8
  <2>10. Covered'
    BY <1>1, <2>9, MovedCover
  <2>11. InFile(bsm')
    BY <1>1, <2>5 DEF InFile
  <2> QED
    BY <2>10, <2>11
<1> QED
  BY <1>7, <1>8

\* VMM_ALLOC promises no more than there is.
LEMMA CommitCover ==
  ASSUME CoverInv, TypeOK', Commit
  PROVE  Covered' /\ InFile(bsm')
<1>1. /\ TypeOK /\ PpmType(ppm, Pages) /\ StoreType(bsm)
      /\ CacheSound(bsm) /\ InFile(bsm) /\ Covered /\ reserved \in Int
  BY StoreTyped DEF CoverInv, CountInv, ContentInv, SlotInv, Inv, TypeOK
<1>2. bsm' = bsm
  BY DEF Commit
<1>3. PICK n : n = Cardinality(job.pages)
  OBVIOUS
<1>4. CASE Committable >= n
  <2>1. ppm' = ppm /\ reserved' = reserved + n
    BY <1>3, <1>4 DEF Commit
  <2>2. n \in Nat
    BY <1>1, <1>3, JobFields, PageCount
  <2>3. PICK a, k : a = PhysicalFree(ppm) /\ k = Cardinality(Private(bsm))
    OBVIOUS
  <2>4. a \in Nat /\ k \in Nat /\ bsm.total \in Nat
    BY <1>1, <2>3, MemoryCount
  <2>5. PICK b, c : b = BSFree(bsm) /\ c = Cardinality(CachedSlots(bsm))
    OBVIOUS
  <2>6. b + c = bsm.total - k /\ b \in Int /\ c \in Nat
    <3>1. StoreType(bsm) /\ CacheSound(bsm)
      BY <1>1
    <3>2. /\ BSFree(bsm) + Cardinality(CachedSlots(bsm))
                = bsm.total - Cardinality(Private(bsm))
          /\ BSFree(bsm) \in Int /\ Cardinality(CachedSlots(bsm)) \in Nat
      BY <3>1, SlotsLeft
    <3> QED
      BY <2>3, <2>5, <3>2
  <2>7. Committable = (a + b) - reserved
    <3>1. Committable = PhysicalFree(ppm) + (BSFree(bsm) - reserved)
      BY DEF Committable
    <3>2. Committable = a + (b - reserved)
      BY <2>3, <2>5, <3>1
    <3> QED
      BY <1>1, <2>4, <2>6, <3>2
  <2>8. reserved' <= a + (bsm.total - k)
    BY <1>1, <1>4, <2>1, <2>2, <2>4, <2>6, <2>7
  <2>9. Covered' <=> reserved' <= PhysicalFree(ppm') +
                       (bsm'.total - Cardinality(Private(bsm')))
    BY DEF Covered
  <2> QED
    BY <1>1, <1>2, <2>1, <2>3, <2>8, <2>9
<1>5. CASE ~(Committable >= n)
  <2>1. PICK F : F = TableOf(job.pages)
    OBVIOUS
  <2>2. ppm' = PPM_FREE(ppm, F) /\ reserved' = reserved
    BY <1>3, <1>5, <2>1 DEF Commit
  <2>3. F \subseteq Frames
    BY <2>1 DEF TableOf
  <2>4. Free(ppm') = Free(ppm) \cup (F \cap ppm.managed)
    BY <1>1, <2>2, <2>3, FreeAfter
  <2>5. /\ Free(ppm) \subseteq Free(ppm') /\ Private(bsm') \subseteq Private(bsm)
        /\ reserved' <= reserved /\ bsm.total <= bsm'.total
    <3>1. bsm.total \in Nat
      BY <1>1, MemoryCount
    <3> QED
      BY <1>1, <1>2, <2>2, <2>4, <3>1
  <2>6. Covered'
    BY <1>1, <2>5, MoreCover
  <2> QED
    BY <1>1, <1>2, <2>6
<1> QED
  BY <1>4, <1>5

\* The slots of pages that are dropped are not private any more.
LEMMA DroppedSlots ==
  ASSUME ContentInv, NEW P, P \subseteq Pages, bsm' = BSM_FREE(bsm, SlotsOf(P))
  PROVE  /\ Private(bsm') = Private(bsm) \ SlotsOf(P)
         /\ SlotsOf(P) \subseteq Private(bsm)
         /\ bsm'.total = bsm.total /\ bsm'.map \subseteq bsm.map
<1>1. StoreType(bsm) /\ CacheSound(bsm)
  BY StoreTyped DEF ContentInv, Inv, SlotInv
<1>2. PICK Z : Z = SlotsOf(P)
  OBVIOUS
<1>3. Z \cap CachedSlots(bsm) = {} /\ Z \subseteq Private(bsm)
  BY <1>2 DEF SlotsOf, ContentInv, SlotInv, SlotsPrivate, Private
<1>4. bsm' = BSM_FREE(bsm, Z)
  BY <1>2
<1>5. /\ bsm'.total = bsm.total /\ bsm'.map = bsm.map \ Z
      /\ Private(bsm') = Private(bsm) \ Z
  BY <1>1, <1>3, <1>4, FreeSlots
<1> QED
  BY <1>2, <1>3, <1>5

\* What is freed, or left behind by a client, is free for others.
LEMMA FreedCover ==
  ASSUME CoverInv, TypeOK', NEW P, P \subseteq Pages, NEW F, F \subseteq Frames,
         ppm' = PPM_FREE(ppm, F), bsm' = BSM_FREE(bsm, SlotsOf(P)),
         reserved' = reserved - ReservedOf(P)
  PROVE  Covered' /\ InFile(bsm')
<1>1. /\ TypeOK /\ ContentInv /\ PpmType(ppm, Pages) /\ StoreType(bsm)
      /\ InFile(bsm) /\ Covered /\ reserved \in Int
  BY StoreTyped DEF CoverInv, CountInv, Inv, TypeOK
<1>2. /\ Private(bsm') = Private(bsm) \ SlotsOf(P)
      /\ bsm'.total = bsm.total /\ bsm'.map \subseteq bsm.map
  BY <1>1, DroppedSlots
<1>3. Free(ppm') = Free(ppm) \cup (F \cap ppm.managed)
  BY <1>1, FreeAfter
<1>4. ReservedOf(P) \in Nat
  BY PageCount DEF ReservedOf
<1>5. bsm.total \in Nat
  BY <1>1, MemoryCount
<1>6. /\ reserved' <= reserved /\ bsm.total <= bsm'.total
      /\ Free(ppm) \subseteq Free(ppm') /\ Private(bsm') \subseteq Private(bsm)
  BY <1>1, <1>2, <1>3, <1>4, <1>5
<1>7. Covered'
  BY <1>1, <1>6, MoreCover
<1> QED
  BY <1>1, <1>2, <1>7 DEF InFile

\* Each page that is dropped gives back a frame or a slot of its own.
LEMMA DroppedCount ==
  ASSUME Inv, SlotInv, NEW P, P \subseteq Pages,
         \A p \in P : pte[p].state \in {"present", "swapped"}
  PROVE  /\ IsFiniteSet(FramesOf(P)) /\ IsFiniteSet(SlotsOf(P))
         /\ Cardinality(FramesOf(P)) \in Nat /\ Cardinality(SlotsOf(P)) \in Nat
         /\ Cardinality(P) \in Nat
         /\ Cardinality(P) <= Cardinality(FramesOf(P)) + Cardinality(SlotsOf(P))
<1>1. PagesFramed /\ SlotsDistinct /\ Mapped /\ PpmType(ppm, Pages)
  BY StoreTyped DEF Inv, Framed, SlotInv
<1>2. PICK R, W, F, Z : /\ R = {p \in P : Resident(p)}
                        /\ W = {p \in P : IsSwapped(p)}
                        /\ F = FramesOf(P) /\ Z = SlotsOf(P)
  OBVIOUS
<1>3. P = R \cup W /\ R \cap W = {} /\ R \subseteq Pages /\ W \subseteq Pages
  BY <1>2 DEF Resident, IsSwapped
<1>4. F = {pte[p].frame : p \in R} /\ Z = {pte[p].slot : p \in W}
  BY <1>2 DEF FramesOf, SlotsOf
<1>5. F \subseteq Frames /\ Z \subseteq Slots
  BY <1>1, <1>2, <1>3, <1>4 DEF PagesFramed, PpmType, Mapped, SlotsSound
<1>6. /\ IsFiniteSet(F) /\ IsFiniteSet(Z) /\ IsFiniteSet(R) /\ IsFiniteSet(W)
      /\ Cardinality(F) \in Nat /\ Cardinality(Z) \in Nat
      /\ Cardinality(R) \in Nat /\ Cardinality(W) \in Nat
  BY <1>3, <1>5, FrameCount, SlotCount, PageCount
<1>7. Cardinality(R) <= Cardinality(F)
  <2>1. PICK m : m = [p \in R |-> pte[p].frame]
    OBVIOUS
  <2>2. \A p, q \in R : pte[p].frame = pte[q].frame => p = q
    BY <1>1, <1>2, <1>3 DEF PagesFramed
  <2>3. m \in Injection(R, F)
    BY <1>4, <2>1, <2>2 DEF Injection, IsInjective
  <2> QED
    BY <1>6, <2>3, FS_Injection
<1>8. Cardinality(W) <= Cardinality(Z)
  <2>1. PICK m : m = [p \in W |-> pte[p].slot]
    OBVIOUS
  <2>2. \A p, q \in W : pte[p].slot = pte[q].slot => p = q
    BY <1>1, <1>2, <1>3 DEF SlotsDistinct
  <2>3. m \in Injection(W, Z)
    BY <1>4, <2>1, <2>2 DEF Injection, IsInjective
  <2> QED
    BY <1>6, <2>3, FS_Injection
<1>9. Cardinality(P) = Cardinality(R) + Cardinality(W)
  <2>1. Cardinality(R \cup W)
          = Cardinality(R) + Cardinality(W) - Cardinality(R \cap W)
    BY <1>6, FS_Union
  <2>2. Cardinality(R \cap W) = 0
    BY <1>3, FS_EmptySet
  <2> QED
    BY <1>3, <1>6, <2>1, <2>2
<1> QED
  BY <1>2, <1>6, <1>7, <1>8, <1>9

\* Pages that lose their contents are promised again.
LEMMA DiscardCover ==
  ASSUME CoverInv, TypeOK', NEW S, S \subseteq Pages, VMM_DISCARD_PAGES(S)
  PROVE  Covered' /\ InFile(bsm')
<1>1. /\ TypeOK /\ Inv /\ SlotInv /\ ContentInv /\ PpmType(ppm, Pages)
      /\ StoreType(bsm) /\ InFile(bsm) /\ Covered /\ reserved \in Int
  BY StoreTyped DEF CoverInv, CountInv, ContentInv, Inv, TypeOK
<1>2. PICK P : P = {p \in S : pte[p].state \in {"present", "swapped"}}
  OBVIOUS
<1>3. P \subseteq Pages /\ \A p \in P : pte[p].state \in {"present", "swapped"}
  BY <1>2
<1>4. PICK F, Z : F = FramesOf(P) /\ Z = SlotsOf(P)
  OBVIOUS
<1>5. /\ ppm' = PPM_FREE(ppm, F) /\ bsm' = BSM_FREE(bsm, SlotsOf(P))
      /\ reserved' = reserved + Cardinality(P)
  BY <1>2, <1>4 DEF VMM_DISCARD_PAGES
<1>6. /\ IsFiniteSet(F) /\ IsFiniteSet(Z)
      /\ Cardinality(F) \in Nat /\ Cardinality(Z) \in Nat
      /\ Cardinality(P) \in Nat
      /\ Cardinality(P) <= Cardinality(F) + Cardinality(Z)
  BY <1>1, <1>3, <1>4, DroppedCount
<1>7. /\ Private(bsm') = Private(bsm) \ Z /\ Z \subseteq Private(bsm)
      /\ bsm'.total = bsm.total /\ bsm'.map \subseteq bsm.map
  BY <1>1, <1>3, <1>4, <1>5, DroppedSlots
<1>8. F \subseteq ppm.alloced /\ F \subseteq Frames
  BY <1>1, <1>3, <1>4, RegionAlloced DEF PpmType
<1>9. Free(ppm') = Free(ppm) \cup F /\ Free(ppm) \cap F = {}
  <2>1. Free(ppm') = Free(ppm) \cup (F \cap ppm.managed)
    BY <1>1, <1>5, <1>8, FreeAfter
  <2> QED
    BY <1>1, <1>8, <2>1 DEF Free, PpmType
<1>10. PhysicalFree(ppm') = PhysicalFree(ppm) + Cardinality(F)
  <2>1. PICK A : A = Free(ppm)
    OBVIOUS
  <2>2. IsFiniteSet(A) /\ Cardinality(A) \in Nat
    BY <1>1, <2>1, FrameCount DEF PpmType, Free
  <2>3. Cardinality(A \cup F)
          = Cardinality(A) + Cardinality(F) - Cardinality(A \cap F)
    BY <1>6, <2>2, FS_Union
  <2>4. Cardinality(A \cap F) = 0
    BY <1>9, <2>1, FS_EmptySet
  <2> QED
    BY <1>6, <1>9, <2>1, <2>2, <2>3, <2>4 DEF PhysicalFree
<1>11. Cardinality(Private(bsm')) = Cardinality(Private(bsm)) - Cardinality(Z)
  <2>1. PICK K : K = Private(bsm)
    OBVIOUS
  <2>2. IsFiniteSet(K)
    BY <1>1, <2>1, MemoryCount
  <2>3. Cardinality(K \ Z) = Cardinality(K) - Cardinality(K \cap Z)
    BY <2>2, FS_Difference
  <2>4. K \cap Z = Z
    BY <1>7, <2>1
  <2> QED
    BY <1>7, <2>1, <2>3, <2>4
<1>12. PICK n \in Int, k \in Int : n = Cardinality(F) /\ k = Cardinality(Z)
  BY <1>6
<1>13. /\ PhysicalFree(ppm') = PhysicalFree(ppm) + n
       /\ Cardinality(Private(bsm')) = Cardinality(Private(bsm)) - k
       /\ bsm'.total = bsm.total
  BY <1>7, <1>10, <1>11, <1>12
<1>14. reserved' <= reserved + (n + k)
  BY <1>1, <1>5, <1>6, <1>12
<1>15. Covered'
  BY <1>1, <1>13, <1>14, MovedCover
<1> QED
  BY <1>1, <1>7, <1>15 DEF InFile

\* A drain keeps back what is needed for the promises.
LEMMA DrainCover ==
  ASSUME CoverInv, TypeOK', DrainRelease
  PROVE  Covered' /\ InFile(bsm')
<1>1. /\ TypeOK /\ PpmType(ppm, Pages) /\ StoreType(bsm)
      /\ CacheSound(bsm) /\ InFile(bsm) /\ Covered /\ reserved \in Int
  BY StoreTyped DEF CoverInv, CountInv, ContentInv, SlotInv, Inv, TypeOK
<1>2. bsm' = bsm /\ reserved' = reserved /\ Drainable > 0
  BY DEF DrainRelease
<1>3. PICK F \in SUBSET Free(ppm) :
        Cardinality(F) = Drainable /\ ppm' = PPM_RELEASE(ppm, F)
  BY DEF DrainRelease
<1>4. PICK A : A = Free(ppm)
  OBVIOUS
<1>5. Free(ppm') = A \ F /\ F \subseteq A
  BY <1>1, <1>3, <1>4, FreeAfter
<1>6. IsFiniteSet(A) /\ Cardinality(A) \in Nat
  BY <1>1, <1>4, FrameCount DEF PpmType, Free
<1>7. IsFiniteSet(F) /\ Cardinality(F) \in Nat
  BY <1>5, <1>6, FS_Subset, FS_CardinalityType
<1>8. PICK n : n = Cardinality(F)
  OBVIOUS
<1>9. PhysicalFree(ppm') = Cardinality(A) - n
  <2>1. Cardinality(A \ F) = Cardinality(A) - Cardinality(A \cap F)
    BY <1>6, FS_Difference
  <2>2. A \cap F = F
    BY <1>5
  <2> QED
    BY <1>5, <1>8, <2>1, <2>2, Zenon DEF PhysicalFree
<1>10. PICK a, k, b : /\ a = Cardinality(A) /\ k = Cardinality(Private(bsm))
                      /\ b = BSFree(bsm)
  OBVIOUS
<1>11. /\ a \in Nat /\ k \in Nat /\ b \in Int /\ n \in Nat /\ bsm.total \in Nat
       /\ b <= bsm.total - k
  <2>1. k \in Nat /\ bsm.total \in Nat
    BY <1>1, <1>10, MemoryCount
  <2>2. PICK c : c = Cardinality(CachedSlots(bsm))
    OBVIOUS
  <2>3. StoreType(bsm) /\ CacheSound(bsm)
    BY <1>1
  <2>4. /\ BSFree(bsm) + Cardinality(CachedSlots(bsm))
              = bsm.total - Cardinality(Private(bsm))
        /\ BSFree(bsm) \in Int /\ Cardinality(CachedSlots(bsm)) \in Nat
    BY <2>3, SlotsLeft
  <2>5. b + c = bsm.total - k /\ b \in Int /\ c \in Nat
    BY <1>10, <2>2, <2>4
  <2> QED
    BY <1>6, <1>7, <1>8, <1>10, <2>1, <2>5
<1>12. n <= a
  BY <1>5, <1>6, <1>7, <1>8, <1>10, FS_Subset
<1>13. reserved < b \/ n <= (a + b) - reserved
  <2>1. Committable = a + (b - reserved)
    <3>1. PhysicalFree(ppm) = a
      BY <1>4, <1>10 DEF PhysicalFree
    <3> QED
      BY <1>10, <3>1 DEF Committable
  <2>2. Committable \in Int
    BY <1>1, <1>11, <2>1
  <2>3. CASE reserved < BSFree(bsm)
    BY <1>10, <2>3
  <2>4. CASE ~(reserved < BSFree(bsm))
    <3>1. PICK r : r = Lesser(job.request, Lesser(PhysicalFree(ppm), Unlocked))
      OBVIOUS
    <3>2. Drainable = Lesser(r, Committable)
      BY <2>4, <3>1 DEF Drainable
    <3>3. n = Drainable
      BY <1>3, <1>8
    <3>4. \/ n = r /\ r <= Committable
          \/ n = Committable
      BY <3>2, <3>3 DEF Lesser
    <3>5. n <= Committable
      BY <1>11, <2>2, <3>4
    <3> QED
      BY <1>1, <1>11, <2>1, <3>5
  <2> QED
    BY <2>3, <2>4
<1>14. reserved <= (a - n) + (bsm.total - k)
  BY <1>1, <1>11, <1>12, <1>13
<1>15. Covered' <=>
         reserved' <= PhysicalFree(ppm') +
                        (bsm'.total - Cardinality(Private(bsm')))
  BY DEF Covered
<1> QED
  BY <1>1, <1>2, <1>9, <1>10, <1>14, <1>15

\* What a client leaves is free for the others; the last one leaves nothing.
LEMMA GoneCover ==
  ASSUME CoverInv, TypeOK', VMM_TERMINATE_CLIENT \/ VMM_SHUTDOWN
  PROVE  Covered' /\ InFile(bsm')
<1>1. /\ TypeOK /\ Inv /\ PpmType(ppm, Pages) /\ StoreType(bsm)
      /\ bsm.total \in Nat
  BY StoreTyped, MemoryCount DEF CoverInv, CountInv, Inv
<1>2. CASE VMM_TERMINATE_CLIENT
  <2>1. PICK P, F : P = LeftPages /\ F = LeftFrames
    OBVIOUS
  <2>2. /\ ppm' = PPM_FREE(ppm, F) /\ bsm' = BSM_FREE(bsm, SlotsOf(P))
        /\ reserved' = reserved - ReservedOf(P)
    BY <1>2, <2>1 DEF VMM_TERMINATE_CLIENT
  <2>3. cur \in Clients
    BY <1>1, <1>2, Begun DEF VMM_TERMINATE_CLIENT, Doing
  <2>4. P \subseteq Pages
    BY <2>1, <2>3, PagesType DEF LeftPages, Owners
  <2>5. F \subseteq Frames
    <3>1. FramesOf(P) \subseteq Frames
      BY <1>1, <2>4, RegionAlloced DEF PpmType
    <3> QED
      BY <2>1, <3>1 DEF LeftFrames
  <2> QED
    BY <2>2, <2>4, <2>5, FreedCover
<1>3. CASE VMM_SHUTDOWN
  <2>1. /\ ppm' = PPM_INIT /\ bsm' = BSM_INIT(bsm.total) /\ reserved' = 0
    BY <1>3 DEF VMM_SHUTDOWN
  <2>2. bsm'.map = {} /\ bsm'.total = bsm.total
    BY <2>1 DEF BSM_INIT
  <2>3. Private(bsm') = {}
    BY <2>2 DEF Private
  <2>4. Cardinality(Private(bsm')) = 0
    BY <2>3, FS_EmptySet
  <2>5. PhysicalFree(ppm') \in Nat
    <3>1. StoreType(bsm') /\ PpmType(ppm', Pages)
      BY DEF TypeOK, StoreType
    <3> QED
      BY <3>1, MemoryCount
  <2>6. Covered' <=>
          reserved' <= PhysicalFree(ppm') +
                         (bsm'.total - Cardinality(Private(bsm')))
    BY DEF Covered
  <2> QED
    BY <1>1, <2>1, <2>2, <2>4, <2>5, <2>6 DEF InFile
<1> QED
  BY <1>2, <1>3

\* One client, and nothing shared: a page table or a page directory is taken
\* when nothing is promised.
OneClient == Cardinality(Clients) = 1 /\ SharedVA = {}

\* All pages are pages of the client that runs.
LEMMA OnlyClient ==
  ASSUME OneClient, cur \in Clients
  PROVE  \A p \in Pages : p.owner = cur
<1>1. IsFiniteSet(Clients)
  <2>1. \A c \in Clients : IOPage(c) \in Pages /\ IOPage(c).owner = c
    BY IOPageType
  <2>2. \A c \in Clients : \E p \in Pages : p.owner = c
    BY <2>1
  <2>3. PICK O : O = {p.owner : p \in Pages}
    OBVIOUS
  <2>4. PICK m : m = [p \in Pages |-> p.owner]
    OBVIOUS
  <2>5. m \in Surjection(Pages, O)
    BY <2>3, <2>4 DEF Surjection
  <2>6. IsFiniteSet(O)
    BY <2>5, VmmAssumption, FS_Surjection
  <2>7. Clients \subseteq O
    BY <2>2, <2>3
  <2> QED
    BY <2>6, <2>7, FS_Subset
<1>2. PICK c : Clients = {c}
  BY <1>1, FS_Singleton DEF OneClient
<1>3. \A p \in Pages : p.owner # SharedOwner
  BY PagesType DEF OneClient, Area, VA
<1> QED
  BY <1>2, <1>3, PagesType DEF Owners

\* Whoever lacks a table or a directory has no page that is promised.
LEMMA NothingPromised ==
  ASSUME CoverInv, OneClient,
         LSM_NEW_PAGE_TABLE \/ FreeExpanded \/ LeaveExpanded \/ LSM_INIT_CLIENT
  PROVE  reserved = 0
<1>1. /\ TypeOK /\ Inv /\ Mapped /\ JobSound /\ Held /\ PagesBelong
      /\ ReservedCounted
  BY DEF CoverInv, CountInv, Counted, OwnedInv, FrameInv, Inv
<1>2. cur \in Clients
  BY <1>1, Begun
     DEF LSM_NEW_PAGE_TABLE, FreeExpanded, LeaveExpanded, LSM_INIT_CLIENT, Doing
<1>3. \A p \in Pages : p.owner = cur
  BY <1>2, OnlyClient
<1>4. \A p \in Pages : Clean(p)
  <2>1. CASE LSM_NEW_PAGE_TABLE \/ FreeExpanded
    <3>1. job.pages # {} /\ job.pages \subseteq Pages
      BY <1>1, <2>1, JobFields
         DEF LSM_NEW_PAGE_TABLE, FreeExpanded, Doing, Mapped, BlocksOwned, JobSound
    <3>2. JobOwner = cur
      BY <1>3, <3>1 DEF JobOwner
    <3>3. ~HasTable(cur)
      BY <1>1, <2>1, <3>2
         DEF LSM_NEW_PAGE_TABLE, FreeExpanded, Doing, Held, TableMissing
    <3> QED
      BY <1>1, <1>3, <3>3 DEF Mapped, TablesCover
  <2>2. CASE LeaveExpanded
    <3>1. ~HasTable(cur)
      BY <1>1, <2>2 DEF LeaveExpanded, Doing, Held, TableMissing
    <3> QED
      BY <1>1, <1>3, <3>1 DEF Mapped, TablesCover
  <2>3. CASE LSM_INIT_CLIENT
    <3>1. job.op = "dir" /\ job.init /\ cur \notin Live
      BY <1>1, <2>3 DEF LSM_INIT_CLIENT, Doing, Held, StartersNew
    <3>2. ~Belongs(cur)
      BY <3>1 DEF Belongs
    <3>3. \A p \in Pages : pte[p] = Unalloc
      BY <1>1, <1>2, <1>3, <3>2 DEF PagesBelong
    <3> QED
      BY <3>3, EntryStates DEF Clean
  <2> QED
    BY <2>1, <2>2, <2>3
<1>5. ReservedPages = {}
  BY <1>4 DEF ReservedPages, IsReserved, Clean
<1> QED
  BY <1>1, <1>5, FS_EmptySet DEF ReservedCounted

\* So taking it breaks no promise.
LEMMA TableCover ==
  ASSUME CoverInv, TypeOK', OneClient,
         LSM_NEW_PAGE_TABLE \/ FreeExpanded \/ LeaveExpanded \/ LSM_INIT_CLIENT
  PROVE  Covered' /\ InFile(bsm')
<1>1. bsm' = bsm /\ reserved' = reserved
  BY DEF LSM_NEW_PAGE_TABLE, FreeExpanded, LeaveExpanded, LSM_INIT_CLIENT
<1>2. InFile(bsm) /\ StoreType(bsm) /\ PpmType(ppm', Pages)
  BY StoreTyped DEF CoverInv, CountInv, Inv, TypeOK
<1>3. PICK K : K = Private(bsm)
  OBVIOUS
<1>4. bsm.total \in Nat /\ IsFiniteSet(K) /\ Cardinality(K) \in Nat
  <2>1. K \subseteq Slots /\ bsm.total \in Nat
    BY <1>2, <1>3, StoreAssumption DEF Private, StoreType, BsmType
  <2> QED
    BY <2>1, SlotCount
<1>5. Cardinality(K) <= bsm.total
  <2>1. K \subseteq 0..(bsm.total - 1)
    BY <1>2, <1>3 DEF Private, InFile
  <2>2. /\ IsFiniteSet(0..(bsm.total - 1))
        /\ Cardinality(0..(bsm.total - 1)) = bsm.total
    <3>1. bsm.total - 1 \in Int
      BY <1>4
    <3>2. /\ IsFiniteSet(0..(bsm.total - 1))
          /\ Cardinality(0..(bsm.total - 1)) =
               IF 0 > bsm.total - 1 THEN 0 ELSE (bsm.total - 1) - 0 + 1
      BY <3>1, FS_Interval
    <3> QED
      BY <1>4, <3>2
  <2> QED
    BY <1>4, <2>1, <2>2, FS_Subset, ZenonT(60)
<1>6. PhysicalFree(ppm') \in Nat
  BY <1>2, FrameCount DEF PhysicalFree, Free, PpmType
<1>7. reserved = 0
  BY NothingPromised
<1>8. Covered' <=>
        reserved' <= PhysicalFree(ppm') +
                       (bsm'.total - Cardinality(Private(bsm')))
  BY DEF Covered
<1> QED
  BY <1>1, <1>2, <1>3, <1>4, <1>5, <1>6, <1>7, <1>8

\* At first nothing is promised.
LEMMA InitCover == Init => InFile(bsm) /\ Covered
<1> SUFFICES ASSUME Init
             PROVE  InFile(bsm) /\ Covered
  OBVIOUS
<1>1. bsm.map = {} /\ bsm.total = BSInit /\ reserved = 0 /\ ppm = PPM_INIT
  BY DEF Init, BSM_INIT
<1>2. Private(bsm) = {} /\ Free(ppm) = {}
  BY <1>1, InitPool DEF Private, Free
<1>3. Cardinality(Private(bsm)) = 0 /\ PhysicalFree(ppm) = 0
  BY <1>2, FS_EmptySet DEF PhysicalFree
<1> QED
  BY <1>1, <1>3, StoreAssumption DEF InFile, Covered

\* Every step keeps what has been promised covered.
LEMMA NextCover ==
  ASSUME CoverInv, OneClient, TypeOK', [Next]_vars
  PROVE  Covered' /\ InFile(bsm')
<1>1. SharedVA = {} /\ Inv
  BY DEF OneClient, CoverInv, CountInv
<1>2. CASE Host
  BY <1>1, <1>2, QuietCover, SwapOutCover, TouchCover, CommitCover, DrainCover,
     GoneCover, TableCover DEF Host, TakeFrame
<1>3. CASE \E o \in Mine \cap Owners : \E S \in Callable(o) : Call(S)
  <2>1. PICK o \in Mine \cap Owners : \E S \in Callable(o) : Call(S)
    BY <1>3
  <2>2. PICK S \in Callable(o) : Call(S)
    BY <2>1
  <2>3. S \subseteq Pages
    BY CallableType
  <2>4. CASE VMM_FREE(S)
    <3>1. PICK F : F = FramesOf(S) \cup TableOf(S)
      OBVIOUS
    <3>2. F \subseteq ppm.alloced
      BY <1>1, <2>3, <3>1, RegionAlloced
    <3>3. F \subseteq Frames
      BY <1>1, <3>2, StoreTyped DEF Inv, PpmType
    <3>4. /\ ppm' = PPM_FREE(ppm, F) /\ bsm' = BSM_FREE(bsm, SlotsOf(S))
          /\ reserved' = reserved - ReservedOf(S)
      BY <2>4, <3>1 DEF VMM_FREE
    <3> QED
      BY <2>3, <3>3, <3>4, FreedCover
  <2>5. CASE VMM_DISCARD_PAGES(S)
    BY <2>3, <2>5, DiscardCover
  <2>6. CASE AllocUncommitted(S) \/ VMM_UNLOCK(S)
    BY <2>3, <2>6, QuietCover
  <2>7. CASE VMM_ALLOC(S) \/ VMM_LOCK(S) \/ VMM_MARK_CANDIDATES(S)
    BY <2>7, QuietCover
  <2> QED
    BY <2>2, <2>4, <2>5, <2>6, <2>7 DEF Call
<1>4. CASE Primary \/ UNCHANGED vars \/ VMM_QUERY \/ Terminate
  BY <1>4, QuietCover DEF Primary
<1>5. CASE \/ \E p \in Pages : VMM_PageFaultHandler(p)
           \/ \E c \in Clients : DPMIFN_SWITCHADDR(c) \/ VMM_INIT_CLIENT(c)
  BY <1>5, QuietCover
<1>6. CASE \E p \in Pages : Read(p)
  BY <1>6, QuietCover
<1>7. CASE \E p \in Pages, w \in Values : Write(p, w)
  BY <1>7, QuietCover
<1> QED
  BY <1>2, <1>3, <1>4, <1>5, <1>6, <1>7, NextManages DEF Manages

\* Where one client runs and nothing is shared, what VMM_ALLOC has promised can
\* always be given: free frames and slots, or slots that a flush of the cache
\* frees, cover every page that is committed and not touched, whatever is
\* swapped, discarded, drained or taken by other programs.  (The second client
\* takes its page directory and table without regard to the promises made to
\* the first.)
THEOREM PromisesKept == OneClient => (Spec => []CommitCovered)
<1> SUFFICES ASSUME OneClient
             PROVE  Spec => []CommitCovered
  OBVIOUS
<1>0. SharedVA = {}
  BY DEF OneClient
<1> DEFINE AllInv == CoverInv /\ NoStore
<1>1. Init => AllInv
  BY InitCounted, InitOwned, InitContents, InitUnused, InitLeaks, InitCover
     DEF CoverInv
<1>2. AllInv /\ [Next]_vars => AllInv'
  <2> SUFFICES ASSUME CoverInv, NoStore, [Next]_vars
               PROVE  CoverInv' /\ NoStore'
    OBVIOUS
  <2>1. CountInv' /\ OwnedInv'
    BY NextCounted, NextOwned DEF CoverInv
  <2>2. ContentInv' /\ NoStore'
    BY NextContents DEF CoverInv
  <2>3. LeakInv'
    BY <1>0, NextLeaks DEF CoverInv
  <2>4. TypeOK'
    BY <2>1 DEF CountInv, Inv
  <2>5. Covered' /\ InFile(bsm')
    BY <2>4, NextCover
  <2> QED
    BY <2>1, <2>2, <2>3, <2>5 DEF CoverInv
<1>3. AllInv => CommitCovered
  BY CoveredCovers DEF CoverInv, CountInv, ContentInv
<1> QED
  BY <1>1, <1>2, <1>3, PTL DEF Spec
=============================================================================
