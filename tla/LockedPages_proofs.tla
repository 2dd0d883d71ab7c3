------------------------- MODULE LockedPages_proofs -------------------------
(***************************************************************************)
(* The proof that a locked page stays in its frame until its owner unlocks *)
(* or frees it, or is gone (LockedFixed), for any number of frames,        *)
(* clients, pages and slots.  A device or an interrupt handler relies on   *)
(* it, and every call, swap, fault, drain and termination could break it.  *)
(*                                                                         *)
(* The hard step is the last termination: VMM_SHUTDOWN clears the entries  *)
(* of every client.  That is sound since nobody but the client that goes   *)
(* has allocated pages then: allocated pages belong to a client that is    *)
(* nested, about to be, or about to go (PagesBelong).                      *)
(***************************************************************************)
EXTENDS FrameLeak_proofs

\* A client that is nested, that starts and has its page directory, or that
\* goes.
Belongs(c) ==
    \/ c \in Live
    \/ c = cur /\ job.init /\ job.op # "dir"
    \/ c = cur /\ job.op = "gone"

\* Only such a client has allocated pages.
PagesBelong ==
    \A p \in Pages : p.owner \in Clients /\ pte[p] # Unalloc => Belongs(p.owner)

\* The client for which pages are to be committed is the current one.
JobOfCaller ==
    job.op = "alloc" =>
        /\ \A p \in job.pages : p.owner \in Mine
        /\ job.init \/ cur \in Live

OwnedInv == FrameInv /\ PagesBelong /\ JobOfCaller

\* What LockedFixed says of a page, and that a step commits nothing.
LockKept(p) ==
    \/ pte'[p].state = "locked" /\ pte'[p].frame = pte[p].frame
    \/ pte'[p] = Present(pte[p].frame, TRUE)
    \/ pte'[p] = Unalloc /\ p.owner \in Mine
LocksKept == \A p \in Pages : pte[p].state = "locked" => LockKept(p)
CleanStays == \A p \in Pages : Clean(p) => pte'[p] \in {pte[p], Unalloc}

-----------------------------------------------------------------------------
(* What a step does to the entries. *)

\* Most steps leave them alone.
LEMMA EntriesSame ==
  ASSUME pte' = pte
  PROVE  CleanStays /\ LocksKept
BY DEF CleanStays, LocksKept, LockKept, Clean

\* One entry changes that is neither clean nor locked.
LEMMA OneEntry ==
  ASSUME TypeOK, NEW page \in Pages, ~Clean(page), pte[page].state # "locked",
         NEW entry, pte' = [pte EXCEPT ![page] = entry]
  PROVE  CleanStays /\ LocksKept
<1>1. \A p \in Pages : p # page => pte'[p] = pte[p]
  BY DEF TypeOK
<1> QED
  BY <1>1 DEF CleanStays, LocksKept, LockKept, Clean

\* The steps that change the entry of one page.
LEMMA OneEntrySteps ==
  ASSUME Inv,
         \/ LockResident \/ LockReserved \/ LockSwapped
         \/ FaultReserved \/ FaultSwapped
         \/ \E f \in Frames : VMM_SWAP_OUT(f)
         \/ \E p \in Pages : \E w : Write(p, w)
  PROVE  CleanStays /\ LocksKept
<1>1. TypeOK /\ Framed /\ pte \in [Pages -> EntryType]
  BY DEF Inv, TypeOK
<1>2. CASE LockResident \/ LockReserved \/ LockSwapped \/ FaultReserved \/ FaultSwapped
  <2>1. PICK page, f, g : page = NextPage /\ f = FreeHead(ppm) /\ g = pte[page].frame
    OBVIOUS
  <2>2. page \in Pages
    BY <1>2, <2>1, JobPage
       DEF LockResident, LockReserved, LockSwapped, FaultReserved, FaultSwapped
  <2>3. CASE LockResident
    <3>1. pte' = [pte EXCEPT ![page] = Locked(g, FALSE)] /\ Resident(page)
      BY <2>1, <2>3 DEF LockResident
    <3>2. /\ pte'[page].state = "locked" /\ pte'[page].frame = g
          /\ \A p \in Pages : p # page => pte'[p] = pte[p]
      BY <1>1, <2>2, <3>1, EntryStates, ZenonT(60)
    <3> QED
      BY <2>1, <3>1, <3>2 DEF CleanStays, LocksKept, LockKept, Clean, Resident
  <2>4. CASE LockReserved \/ LockSwapped \/ FaultReserved \/ FaultSwapped
    <3>1. PICK entry : pte' = [pte EXCEPT ![page] = entry]
      BY <2>1, <2>4 DEF LockReserved, LockSwapped, FaultReserved, FaultSwapped
    <3>2. ~Clean(page) /\ pte[page].state # "locked"
      BY <2>1, <2>4
         DEF LockReserved, LockSwapped, FaultReserved, FaultSwapped, IsReserved,
             IsSwapped, Clean
    <3> QED
      BY <1>1, <2>2, <3>1, <3>2, OneEntry
  <2> QED
    BY <1>2, <2>3, <2>4
<1>3. CASE \E f \in Frames : VMM_SWAP_OUT(f)
  <2>1. PICK f \in Frames : VMM_SWAP_OUT(f)
    BY <1>3
  <2>2. PICK p, entry : p = ppm.addr[f] /\ entry = Swapped(PutSlot(bsm, p))
    OBVIOUS
  <2>3. p \in Pages /\ pte[p].state = "present"
    BY <1>1, <2>1, <2>2 DEF VMM_SWAP_OUT, Victims, Framed, SwappableFramed
  <2>4. pte' = [pte EXCEPT ![p] = entry]
    BY <2>1, <2>2 DEF VMM_SWAP_OUT, SwapPage
  <2> QED
    BY <1>1, <2>3, <2>4, OneEntry DEF Clean
<1>4. CASE \E p \in Pages : \E w : Write(p, w)
  <2>1. PICK p \in Pages : Resident(p) /\ pte' = [pte EXCEPT ![p].dirty = TRUE]
    BY <1>4 DEF Write
  <2>2. \A q \in Pages : /\ pte'[q].state = pte[q].state
                         /\ pte'[q].frame = pte[q].frame
                         /\ Clean(q) => pte'[q] = pte[q]
    BY <1>1, <2>1 DEF EntryType, Resident, Clean
  <2> QED
    BY <2>2 DEF CleanStays, LocksKept, LockKept, Clean
<1> QED
  BY <1>2, <1>3, <1>4

\* The steps of a call that change the entries of a region.
LEMMA RegionEntries ==
  ASSUME Inv, NEW o \in Owners \cap Mine, NEW S \in Callable(o),
         VMM_FREE(S) \/ VMM_DISCARD_PAGES(S) \/ VMM_UNLOCK(S)
  PROVE  CleanStays /\ LocksKept
<1>1. /\ S \subseteq Pages /\ S # {} /\ \A p \in S : p.owner = o
      /\ Mapped /\ TypeOK /\ pte \in [Pages -> EntryType]
  BY CallableType DEF Inv, TypeOK
<1>2. (CHOOSE p \in S : TRUE).owner = o
  BY <1>1, OwnerOf
<1>3. CASE VMM_FREE(S)
  <2>1. CASE pte' = pte
    BY <2>1, EntriesSame
  <2>2. CASE pte' = [p \in Pages |-> IF p \in S THEN Unalloc ELSE pte[p]]
    <3>1. /\ \A p \in S : pte'[p] = Unalloc /\ p.owner \in Mine
          /\ \A p \in Pages : p \notin S => pte'[p] = pte[p]
      BY <1>1, <2>2
    <3> QED
      BY <3>1, EntryStates DEF CleanStays, LocksKept, LockKept, Clean
  <2> QED
    BY <1>3, <2>1, <2>2 DEF VMM_FREE, LSM_SETN_PTES
<1>4. CASE VMM_DISCARD_PAGES(S)
  <2>1. PICK P : P = {p \in S : pte[p].state \in {"present", "swapped"}}
    OBVIOUS
  <2>2. pte' = [p \in Pages |-> IF p \in P THEN Reserved(FALSE) ELSE pte[p]]
    BY <1>4, <2>1 DEF VMM_DISCARD_PAGES
  <2>3. \A p \in Pages : Clean(p) \/ pte[p].state = "locked" => pte'[p] = pte[p]
    BY <2>1, <2>2 DEF Clean
  <2> QED
    BY <2>3 DEF CleanStays, LocksKept, LockKept, Clean
<1>5. CASE VMM_UNLOCK(S)
  <2>1. \A p \in S : pte[p].state = "locked"
    BY <1>5 DEF VMM_UNLOCK
  <2>2. \A p \in Pages : \/ pte'[p] = pte[p]
                         \/ p \in S /\ pte'[p] = Present(pte[p].frame, TRUE)
    BY <1>5 DEF VMM_UNLOCK
  <2> QED
    BY <2>1, <2>2 DEF CleanStays, LocksKept, LockKept, Clean
<1> QED
  BY <1>3, <1>4, <1>5

\* Space of the current client that is allocated uncommitted.
LEMMA UncommittedEntries ==
  ASSUME Inv, NEW o \in Owners, NEW S \in Callable(o), AllocUncommitted(S)
  PROVE  /\ LocksKept
         /\ o # SharedOwner
         /\ \A p \in Pages : p.owner # o => pte'[p] = pte[p]
<1>1. /\ S \subseteq Pages /\ S # {} /\ \A p \in S : p.owner = o
      /\ Mapped /\ TypeOK /\ pte \in [Pages -> EntryType]
  BY CallableType DEF Inv, TypeOK
<1>2. (CHOOSE p \in S : TRUE).owner = o
  BY <1>1, OwnerOf
<1>3. o # SharedOwner
  BY <1>2 DEF AllocUncommitted
<1>4. \A p \in S : Clean(p)
  BY <1>1 DEF AllocUncommitted, Mapped, BlocksCover
<1>5. CASE HasTable(o)
  <2>1. LSM_SETN_PTES(S, Uncommitted, UncommittedPDE)
    BY <1>2, <1>5 DEF AllocUncommitted
  <2>2. pte' = [p \in Pages |-> IF p \in S THEN Uncommitted ELSE pte[p]]
    BY <2>1 DEF LSM_SETN_PTES
  <2>3. \A p \in Pages : p \notin S => pte'[p] = pte[p]
    BY <2>2
  <2> QED
    BY <1>1, <1>3, <1>4, <2>3 DEF LocksKept, LockKept, Clean
<1>6. CASE ~HasTable(o)
  <2>1. pte' = [p \in Pages |-> IF p \in Area(o) THEN Uncommitted ELSE pte[p]]
    BY <1>2, <1>6 DEF AllocUncommitted
  <2>2. \A p \in Pages : p \notin Area(o) => pte'[p] = pte[p]
    BY <2>1
  <2>3. \A p \in Area(o) : Clean(p)
    BY <1>1, <1>6, PagesType DEF Mapped, TablesCover
  <2> QED
    BY <1>3, <2>2, <2>3, PagesType DEF LocksKept, LockKept, Clean
<1> QED
  BY <1>5, <1>6

\* Steps that change the entries of a job's pages, which are clean.
LEMMA JobEntries ==
  ASSUME Inv, Commit \/ FreeExpanded
  PROVE  /\ LocksKept
         /\ FreeExpanded => CleanStays
         /\ \A p \in Pages \ job.pages : pte'[p] = pte[p]
<1>1. \A p \in job.pages : Clean(p)
  BY DEF Commit, FreeExpanded, Doing, Inv, JobSound
<1>2. PICK entry : pte' = [p \in Pages |-> IF p \in job.pages THEN entry ELSE pte[p]]
  BY DEF Commit, FreeExpanded, LSM_SETN_PTES
<1>3. \A p \in Pages : p \notin job.pages => pte'[p] = pte[p]
  BY <1>2
<1>4. LocksKept
  BY <1>1, <1>3 DEF LocksKept, LockKept, Clean
<1>5. FreeExpanded => CleanStays
  <2> SUFFICES ASSUME FreeExpanded
               PROVE  CleanStays
    OBVIOUS
  <2>1. pte' = [p \in Pages |-> IF p \in job.pages THEN Unalloc ELSE pte[p]]
    BY DEF FreeExpanded
  <2>2. \A p \in Pages : p \in job.pages => pte'[p] = Unalloc
    BY <2>1
  <2> QED
    BY <1>3, <2>2 DEF CleanStays
<1> QED
  BY <1>3, <1>4, <1>5

\* A client that goes clears its own entries, or those of all; but then no
\* other client has any.
LEMMA GoneEntries ==
  ASSUME OwnedInv, VMM_TERMINATE_CLIENT \/ VMM_SHUTDOWN
  PROVE  CleanStays /\ LocksKept
<1>1. Inv /\ job.op = "gone" /\ cur \in Clients /\ ~job.init
  BY Begun
     DEF OwnedInv, FrameInv, Held, StartersNew, Starting, VMM_TERMINATE_CLIENT,
         VMM_SHUTDOWN, Doing
<1>2. CASE VMM_TERMINATE_CLIENT
  <2>1. pte' = [p \in Pages |-> IF p \in Area(cur) THEN Unalloc ELSE pte[p]]
    BY <1>2 DEF VMM_TERMINATE_CLIENT, LeftPages
  <2>2. \A p \in Pages : p \in Area(cur) => p.owner \in Mine
    BY <1>1, PagesType DEF Mine, Owners
  <2>3. \A p \in Pages : \/ p \in Area(cur) /\ pte'[p] = Unalloc
                         \/ pte'[p] = pte[p]
    BY <2>1
  <2> QED
    BY <2>2, <2>3, EntryStates DEF CleanStays, LocksKept, LockKept, Clean
<1>3. CASE VMM_SHUTDOWN
  <2>1. pte' = [p \in Pages |-> Unalloc] /\ live = <<cur>>
    BY <1>3 DEF VMM_SHUTDOWN, LastClient
  <2>2. Live = {cur}
    BY <1>1, <2>1 DEF Live
  <2>3. \A p \in Pages : pte[p] # Unalloc => p.owner \in Mine
    BY <1>1, <2>2, PagesType DEF OwnedInv, PagesBelong, Belongs, Mine, Owners
  <2>4. \A p \in Pages : pte'[p] = Unalloc
    BY <2>1
  <2> QED
    BY <2>3, <2>4, EntryStates DEF CleanStays, LocksKept, LockKept, Clean
<1> QED
  BY <1>2, <1>3

-----------------------------------------------------------------------------
(* Committed pages belong to a client that is there. *)

\* A client that is there stays there while others begin or end what they do.
LEMMA OwnersKept ==
  ASSUME Inv, Held, PagesBelong, CleanStays, live' = live,
         \/ cur' = cur /\ job'.op = job.op /\ job'.init = job.init
         \/ ~job.init /\ job.op # "gone"
         \/ job.op = "dir"
         \/ cur' = cur /\ job'.init /\ job'.op # "dir"
         \/ cur' = cur /\ job'.op = "gone"
  PROVE  PagesBelong'
<1>1. \A c \in Clients : Belongs(c) => Belongs(c)'
  BY DEF Held, StartersNew, Belongs, Live
<1>2. \A p \in Pages : pte'[p] # Unalloc => pte[p] # Unalloc
  BY EntryStates DEF CleanStays, Clean
<1> QED
  BY <1>1, <1>2 DEF PagesBelong

\* A client that starts keeps what it has, and is there when it has started.
LEMMA StartOwners ==
  ASSUME Inv, Held, PagesBelong,
         LSM_INIT_CLIENT \/ BSM_INIT_CLIENT \/ LockIOBuffer \/ LockDone
  PROVE  PagesBelong'
<1>1. CleanStays /\ cur' = cur /\ UNCHANGED pte
  BY EntriesSame
     DEF LSM_INIT_CLIENT, BSM_INIT_CLIENT, LockIOBuffer, LockDone
<1>2. ASSUME live' = Append(live, cur), LockDone \/ BSM_INIT_CLIENT
      PROVE  PagesBelong'
  <2>1. live \in Seq(Clients) /\ cur \in Clients
    BY <1>2, Begun DEF LockDone, BSM_INIT_CLIENT, Doing, Inv, TypeOK
  <2>2. Live' = Live \cup {cur}
    BY <1>2, <2>1 DEF Live
  <2>3. \A c \in Clients : Belongs(c) => Belongs(c)'
    BY <1>1, <2>2 DEF Belongs
  <2> QED
    BY <1>1, <2>3 DEF PagesBelong, Clean
<1>3. CASE LSM_INIT_CLIENT \/ LockIOBuffer
  BY <1>1, <1>3, StartJobs, OwnersKept
<1>4. CASE BSM_INIT_CLIENT
  <2>1. CASE bsm.total = 0
    BY <1>2, <1>4, <2>1 DEF BSM_INIT_CLIENT
  <2>2. CASE bsm.total # 0
    BY <1>1, <1>4, <2>2, StartJobs, OwnersKept
  <2> QED
    BY <2>1, <2>2
<1>5. CASE LockDone
  <2>1. CASE job.init
    BY <1>2, <1>5, <2>1 DEF LockDone
  <2>2. CASE ~job.init
    <3>1. live' = live /\ job.op # "gone"
      BY <1>5, <2>2 DEF LockDone, Doing
    <3> QED
      BY <1>1, <2>2, <3>1, OwnersKept
  <2> QED
    BY <2>1, <2>2
<1> QED
  BY <1>3, <1>4, <1>5

\* What is committed is committed for the current client, which is there.
LEMMA CommitOwners ==
  ASSUME OwnedInv, Commit
  PROVE  PagesBelong'
<1>1. /\ Inv /\ Held /\ PagesBelong /\ JobOfCaller /\ job.op = "alloc"
      /\ UNCHANGED <<live, cur>> /\ Live' = Live
  BY DEF OwnedInv, FrameInv, Commit, Doing, Live
<1>2. \A p \in Pages : p.owner \in Clients /\ pte'[p] # Unalloc => Belongs(p.owner)
  <2> SUFFICES ASSUME NEW p \in Pages, p.owner \in Clients, pte'[p] # Unalloc
               PROVE  Belongs(p.owner)
    OBVIOUS
  <2>1. CASE p \in job.pages
    BY <1>1, <2>1, VmmAssumption DEF JobOfCaller, Mine, Belongs
  <2>2. CASE p \notin job.pages
    BY <1>1, <2>2, JobEntries DEF PagesBelong
  <2> QED
    BY <2>1, <2>2
<1>3. \A c \in Clients : Belongs(c) => Belongs(c)'
  <2>1. CASE job.init
    BY <1>1, <2>1, StartJobs DEF Belongs, Starting
  <2>2. CASE ~job.init
    BY <1>1, <2>2 DEF Belongs
  <2> QED
    BY <2>1, <2>2
<1> QED
  BY <1>2, <1>3 DEF PagesBelong

\* A client that goes leaves no committed pages behind.
LEMMA GoneOwners ==
  ASSUME OwnedInv, VMM_TERMINATE_CLIENT \/ VMM_SHUTDOWN
  PROVE  PagesBelong'
<1>1. CASE VMM_SHUTDOWN
  BY <1>1, EntryStates DEF VMM_SHUTDOWN, PagesBelong, Clean
<1>2. CASE VMM_TERMINATE_CLIENT
  <2>1. Inv /\ Held /\ job.op = "gone" /\ ~job.init /\ PagesBelong
    BY <1>2
       DEF OwnedInv, FrameInv, Held, StartersNew, Starting,
           VMM_TERMINATE_CLIENT, Doing
  <2> SUFFICES ASSUME NEW p \in Pages, p.owner \in Clients, pte'[p] # Unalloc
               PROVE  p.owner \in Live'
    BY DEF PagesBelong, Belongs
  <2>2. p.owner # cur /\ pte[p] # Unalloc
    <3>1. pte' = [q \in Pages |-> IF q \in Area(cur) THEN Unalloc ELSE pte[q]]
      BY <1>2 DEF VMM_TERMINATE_CLIENT, LeftPages
    <3>2. p \notin Area(cur)
      BY <3>1, EntryStates DEF Clean
    <3> QED
      BY <3>1, <3>2, PagesType DEF Clean
  <2>3. p.owner \in Live
    BY <2>1, <2>2 DEF PagesBelong, Belongs
  <2> QED
    BY <1>2, <2>1, <2>2, <2>3, OthersStay
<1> QED
  BY <1>1, <1>2

-----------------------------------------------------------------------------
(* The invariant, and what follows from it. *)

\* At the start there is nothing.
LEMMA InitOwned == Init => OwnedInv
<1> SUFFICES ASSUME Init
             PROVE  OwnedInv
  OBVIOUS
<1>1. FrameInv
  BY InitFrames
<1>2. PagesBelong
  BY EntryStates DEF Init, PagesBelong, Clean
<1>3. JobOfCaller
  BY JobInits DEF Init, JobOfCaller
<1> QED
  BY <1>1, <1>2, <1>3 DEF OwnedInv

\* Most steps keep the job, or do one page of a lock.
LEMMA SameKind ==
  ASSUME Inv,
         \/ FillPool \/ Overcommit \/ LockStray \/ LSM_NEW_PAGE_TABLE
         \/ LockResident \/ LockReserved \/ LockSwapped
         \/ ExternalAlloc \/ ExternalFree \/ VMM_QUERY
         \/ \E S : \/ VMM_MARK_CANDIDATES(S) \/ VMM_DISCARD_PAGES(S)
                   \/ VMM_UNLOCK(S) \/ AllocUncommitted(S)
         \/ \E p : Read(p) \/ \E w : Write(p, w)
         \/ UNCHANGED vars
  PROVE  /\ UNCHANGED <<live, cur>>
         /\ job' = job \/ job.op = "locking"
         /\ job'.op = job.op /\ job'.init = job.init
<1>1. CASE LockResident \/ LockReserved \/ LockSwapped
  <2>1. /\ UNCHANGED <<live, cur>> /\ job.op = "locking" /\ job \in JobType
        /\ job' = [job EXCEPT !.pages = @ \ {NextPage}]
    BY <1>1, JobFields
       DEF LockResident, LockReserved, LockSwapped, Locking, Doing, LockedPage,
           Inv
  <2> QED
    BY <2>1, JobRecords, JobInits
<1>2. CASE UNCHANGED <<live, cur, job>>
  BY <1>2
<1> QED
  BY <1>1, <1>2
     DEF FillPool, Overcommit, LockStray, LSM_NEW_PAGE_TABLE, ExternalAlloc,
         ExternalFree, VMM_QUERY, VMM_MARK_CANDIDATES, VMM_DISCARD_PAGES,
         VMM_UNLOCK, AllocUncommitted, Read, Write, vars

\* Others end a job or begin one, in which nothing is to be committed.
LEMMA OtherKind ==
  ASSUME Inv, Held,
         \/ FreeExpanded \/ FaultReserved \/ FaultSwapped \/ LeaveExpanded
         \/ DrainRelease \/ DrainSwap \/ DrainNothing \/ Terminate
         \/ \E n : PPM_DRAIN_POOL(n)
         \/ \E c : DPMIFN_SWITCHADDR(c) \/ VMM_INIT_CLIENT(c)
         \/ \E p : VMM_PageFaultHandler(p)
         \/ \E S : VMM_LOCK(S) \/ VMM_FREE(S)
  PROVE  live' = live /\ ~job.init /\ job.op # "gone" /\ job'.op # "alloc"
<1>1. live' = live /\ job.op \in {"expand", "fault", "leave", "drain", "idle"}
  BY JobInits
     DEF FreeExpanded, FaultReserved, FaultSwapped, LeaveExpanded, DrainRelease,
         DrainSwap, DrainNothing, Terminate, PPM_DRAIN_POOL, DPMIFN_SWITCHADDR,
         VMM_INIT_CLIENT, VMM_PageFaultHandler, VMM_LOCK, VMM_FREE, Doing,
         ClientRuns, Ready
<1>2. ~job.init /\ job \in JobType
  BY <1>1, JobFields DEF Held, StartersNew, Starting, Inv
<1>3. CASE LeaveExpanded
  <2>1. job' = [job EXCEPT !.op = "gone"] /\ "gone" \in Ops
    BY <1>3 DEF LeaveExpanded, Ops
  <2>2. job'.op = "gone"
    BY <1>2, <2>1, JobRecords
  <2> QED
    BY <1>1, <1>2, <2>2
<1>4. CASE DrainSwap
  <2>1. job'.op \in {"pageout", "idle"}
    BY <1>4, JobInits DEF DrainSwap
  <2> QED
    BY <1>1, <1>2, <2>1
<1>5. CASE \E n : PPM_DRAIN_POOL(n)
  <2>1. PICK n : job' = DrainJob("drain", 0, n)
    BY <1>5 DEF PPM_DRAIN_POOL
  <2>2. job'.op = "drain"
    BY <2>1 DEF DrainJob, Idle, Job
  <2> QED
    BY <1>1, <1>2, <2>2
<1>6. CASE \/ FreeExpanded \/ FaultReserved \/ FaultSwapped
           \/ DrainRelease \/ DrainNothing \/ \E c : DPMIFN_SWITCHADDR(c)
  <2>1. job' = Idle
    BY <1>6
       DEF FreeExpanded, FaultReserved, FaultSwapped, DrainRelease,
           DrainNothing, DPMIFN_SWITCHADDR, ClientRuns, Ready
  <2>2. job'.op = "idle"
    BY <2>1, JobInits
  <2> QED
    BY <1>1, <1>2, <2>2
<1>7. CASE Terminate
  <2>1. PICK op : op \in {"leave", "gone"} /\ job' = Job(op, {}, FALSE)
    BY <1>7 DEF Terminate
  <2>2. job'.op = op
    BY <2>1 DEF Job
  <2> QED
    BY <1>1, <1>2, <2>1, <2>2
<1>8. CASE \E c : VMM_INIT_CLIENT(c)
  <2>1. job' = Job("dir", {}, TRUE)
    BY <1>8 DEF VMM_INIT_CLIENT
  <2>2. job'.op = "dir"
    BY <2>1 DEF Job
  <2> QED
    BY <1>1, <1>2, <2>2
<1>9. CASE (\E p : VMM_PageFaultHandler(p)) \/ \E S : VMM_LOCK(S) \/ VMM_FREE(S)
  <2>1. \/ job' = Idle
        \/ \E S : \E op \in {"fault", "locking", "expand"} : job' = Job(op, S, FALSE)
    <3>1. CASE \E p : VMM_PageFaultHandler(p)
      BY <3>1 DEF VMM_PageFaultHandler
    <3>2. CASE \E S : VMM_LOCK(S)
      BY <3>2 DEF VMM_LOCK
    <3>3. CASE \E S : VMM_FREE(S)
      BY <3>3 DEF VMM_FREE, ClientRuns, Ready
    <3> QED
      BY <1>9, <3>1, <3>2, <3>3
  <2>2. CASE job' = Idle
    BY <1>1, <1>2, <2>2, JobInits
  <2>3. CASE \E S : \E op \in {"fault", "locking", "expand"} : job' = Job(op, S, FALSE)
    <3>1. PICK S, op : /\ op \in {"fault", "locking", "expand"}
                      /\ job' = Job(op, S, FALSE)
      BY <2>3
    <3>2. job'.op = op
      BY <3>1 DEF Job
    <3> QED
      BY <1>1, <1>2, <3>1, <3>2
  <2> QED
    BY <2>1, <2>2, <2>3
<1> QED
  BY <1>3, <1>4, <1>5, <1>6, <1>7, <1>8, <1>9

\* The job of a call or a drain that looks for frames goes on, or is of a kind
\* that no client with committed pages depends on.
SearchJob ==
    \/ job' = job
    \/ job.op = "dir"
    \/ ~job.init /\ job.op # "gone"

\* None is committed by a call that has found no frame, or by a swap.
LEMMA SearchKind ==
  ASSUME Inv, Held, NoFrameLeft \/ \E f \in Frames : VMM_SWAP_OUT(f)
  PROVE  /\ UNCHANGED <<live, cur>>
         /\ SearchJob
         /\ job' = job \/ job'.op # "alloc"
<1>1. job \in JobType /\ UNCHANGED <<live, cur>>
  BY JobFields DEF Inv, NoFrameLeft, VMM_SWAP_OUT
<1>2. CASE NoFrameLeft
  <2>1. CASE job.op \in {"dir", "expand"}
    <3>1. job' = Idle
      BY <1>2, <2>1 DEF NoFrameLeft
    <3> QED
      BY <1>1, <2>1, <3>1, JobInits DEF Held, StartersNew, Starting, SearchJob
  <2>2. CASE job.op = "leave"
    <3>1. job' = [job EXCEPT !.op = "gone"]
      BY <1>2, <2>2 DEF NoFrameLeft
    <3> QED
      BY <1>1, <2>2, <3>1, JobRecords DEF Held, StartersNew, Starting, SearchJob, Ops
  <2>3. CASE job.op \notin {"dir", "expand", "leave"}
    BY <1>1, <1>2, <2>3 DEF NoFrameLeft, SearchJob
  <2> QED
    BY <2>1, <2>2, <2>3
<1>3. CASE (\E f \in Frames : VMM_SWAP_OUT(f)) /\ job' # job
  <2>1. job.op = "pageout" /\ job'.op \in {"pageout", "drain"}
    BY <1>3, JobInits DEF VMM_SWAP_OUT
  <2> QED
    BY <1>1, <2>1 DEF Held, StartersNew, Starting, SearchJob
<1> QED
  BY <1>1, <1>2, <1>3 DEF SearchJob

\* The job in which pages are to be committed stays that of the current client.
LEMMA CallerKept ==
  ASSUME JobOfCaller, UNCHANGED <<live, cur>>, job' = job \/ job'.op # "alloc"
  PROVE  JobOfCaller'
BY DEF JobOfCaller, Mine, Live

\* Pages are to be committed for a client that starts.
LEMMA BufferOwned ==
  ASSUME BSM_INIT_CLIENT
  PROVE  JobOfCaller'
<1>1. CASE bsm.total = 0
  <2>1. job'.op = "idle"
    BY <1>1, JobInits DEF BSM_INIT_CLIENT
  <2> QED
    BY <2>1 DEF JobOfCaller
<1>2. CASE bsm.total # 0
  <2>1. PICK n : LSM_ALLOC({IOPage(cur)}, BSFree(bsm) + n, TRUE)
    BY <1>2 DEF BSM_INIT_CLIENT
  <2>2. cur' = cur /\ IOPage(cur).owner = cur
    BY DEF BSM_INIT_CLIENT, IOPage
  <2>3. \/ job' = Job("alloc", {IOPage(cur)}, TRUE)
        \/ job' = Job("gone", {}, FALSE)
    BY <2>1 DEF LSM_ALLOC
  <2>4. CASE job' = Job("alloc", {IOPage(cur)}, TRUE)
    <3>1. job'.init /\ job'.pages = {IOPage(cur)}
      BY <2>4 DEF Job
    <3> QED
      BY <2>2, <3>1 DEF JobOfCaller, Mine
  <2>5. CASE job' = Job("gone", {}, FALSE)
    <3>1. job'.op = "gone"
      BY <2>5 DEF Job
    <3> QED
      BY <3>1 DEF JobOfCaller
  <2> QED
    BY <2>3, <2>4, <2>5
<1> QED
  BY <1>1, <1>2

\* Or for one that calls.
LEMMA AllocOwned ==
  ASSUME Inv, Held, NEW o \in Owners \cap Mine, NEW S \in Callable(o), VMM_ALLOC(S)
  PROVE  /\ JobOfCaller' /\ pte' = pte /\ live' = live
         /\ ~job.init /\ job.op # "gone"
<1>1. /\ S \subseteq Pages /\ \A p \in S : p.owner = o
      /\ LSM_ALLOC(S, BSFree(bsm), FALSE) /\ cur \in Live
      /\ UNCHANGED <<live, cur, pte>> /\ Live' = Live
  <2>1. S \subseteq Pages /\ \A p \in S : p.owner = o
    BY CallableType
  <2>2. /\ LSM_ALLOC(S, BSFree(bsm), FALSE) /\ cur \in Live
        /\ UNCHANGED <<live, cur, pte>>
    BY DEF VMM_ALLOC, ClientRuns
  <2> QED
    BY <2>1, <2>2 DEF Live
<1>2. job.op = "idle" /\ ~job.init
  <2>1. job = Idle
    BY DEF VMM_ALLOC, ClientRuns, Ready
  <2> QED
    BY <2>1, JobInits
<1>3. job' = Job("alloc", S, FALSE) \/ job' = Idle
  BY <1>1 DEF LSM_ALLOC
<1>4. CASE job' = Job("alloc", S, FALSE)
  <2>1. job'.pages = S
    BY <1>4 DEF Job
  <2>2. \A p \in S : p.owner \in Mine'
    BY <1>1 DEF Mine
  <2>3. JobOfCaller'
    BY <1>1, <2>1, <2>2 DEF JobOfCaller
  <2> QED
    BY <1>1, <1>2, <2>3
<1>5. CASE job' = Idle
  <2>1. job'.op = "idle"
    BY <1>5, JobInits
  <2> QED
    BY <1>1, <1>2, <2>1 DEF JobOfCaller
<1> QED
  BY <1>3, <1>4, <1>5

\* What every step keeps.
Kept == PagesBelong' /\ JobOfCaller' /\ LocksKept

\* A step that keeps its job, and commits nothing.
LEMMA SameOwned ==
  ASSUME OwnedInv, CleanStays, LocksKept, UNCHANGED <<live, cur>>,
         job' = job \/ job.op = "locking",
         job'.op = job.op, job'.init = job.init
  PROVE  Kept
<1>1. Inv /\ Held /\ PagesBelong /\ JobOfCaller
  BY DEF OwnedInv, FrameInv
<1>2. PagesBelong'
  BY <1>1, OwnersKept
<1>3. JobOfCaller'
  BY <1>1, CallerKept
<1> QED
  BY <1>2, <1>3 DEF Kept

\* A step that ends its job or begins one, and commits nothing.
LEMMA OtherOwned ==
  ASSUME OwnedInv, CleanStays, LocksKept, live' = live,
         ~job.init, job.op # "gone", job'.op # "alloc"
  PROVE  Kept
<1>1. PagesBelong'
  BY OwnersKept DEF OwnedInv, FrameInv
<1>2. JobOfCaller'
  BY DEF JobOfCaller
<1> QED
  BY <1>1, <1>2 DEF Kept

\* A call on a region.
LEMMA CallOwned ==
  ASSUME OwnedInv, NEW o \in Owners \cap Mine, NEW S \in Callable(o), Call(S)
  PROVE  Kept
<1>1. Inv /\ Held
  BY DEF OwnedInv, FrameInv
<1>2. CASE VMM_ALLOC(S)
  <2>1. /\ JobOfCaller' /\ pte' = pte /\ live' = live
        /\ ~job.init /\ job.op # "gone"
    BY <1>1, <1>2, AllocOwned
  <2>2. CleanStays /\ LocksKept
    BY <2>1, EntriesSame
  <2> QED
    BY <2>1, <2>2, OwnersKept DEF OwnedInv, FrameInv, Kept
<1>3. CASE VMM_DISCARD_PAGES(S) \/ VMM_UNLOCK(S)
  BY <1>1, <1>3, RegionEntries, SameKind, SameOwned
<1>4. CASE VMM_FREE(S)
  BY <1>1, <1>4, RegionEntries, OtherKind, OtherOwned
<1>5. CASE VMM_LOCK(S)
  <2>1. CleanStays /\ LocksKept
    BY <1>5, EntriesSame DEF VMM_LOCK
  <2> QED
    BY <1>1, <1>5, <2>1, OtherKind, OtherOwned
<1>6. CASE VMM_MARK_CANDIDATES(S)
  <2>1. CleanStays /\ LocksKept
    BY <1>6, EntriesSame DEF VMM_MARK_CANDIDATES
  <2> QED
    BY <1>1, <1>6, <2>1, SameKind, SameOwned
<1>7. CASE AllocUncommitted(S)
  <2>1. /\ LocksKept /\ o # SharedOwner
        /\ \A p \in Pages : p.owner # o => pte'[p] = pte[p]
    BY <1>1, <1>7, UncommittedEntries
  <2>2. o = cur /\ cur \in Live /\ UNCHANGED <<live, cur, job>>
    BY <1>7, <2>1 DEF Mine, AllocUncommitted, ClientRuns
  <2>3. \A c : Belongs(c)' <=> Belongs(c)
    BY <2>2 DEF Belongs, Live
  <2>4. PagesBelong'
    BY <2>1, <2>2, <2>3 DEF OwnedInv, PagesBelong, Belongs
  <2>5. JobOfCaller'
    BY <2>2, CallerKept DEF OwnedInv
  <2> QED
    BY <2>1, <2>4, <2>5 DEF Kept
<1> QED
  BY <1>2, <1>3, <1>4, <1>5, <1>6, <1>7 DEF Call

\* Steps that leave all entries alone.
LEMMA QuietOwned ==
  ASSUME OwnedInv,
         \/ FillPool \/ Overcommit \/ LockStray \/ LSM_NEW_PAGE_TABLE
         \/ ExternalAlloc \/ ExternalFree \/ VMM_QUERY \/ UNCHANGED vars
         \/ NoFrameLeft \/ LeaveExpanded \/ DrainRelease \/ DrainSwap
         \/ DrainNothing \/ Terminate \/ \E n : PPM_DRAIN_POOL(n)
         \/ \E c : DPMIFN_SWITCHADDR(c) \/ VMM_INIT_CLIENT(c)
         \/ \E p : VMM_PageFaultHandler(p) \/ Read(p)
  PROVE  Kept
<1>1. Inv /\ Held /\ PagesBelong /\ JobOfCaller
  BY DEF OwnedInv, FrameInv
<1>2. pte' = pte
  BY DEF FillPool, Overcommit, LockStray, LSM_NEW_PAGE_TABLE, ExternalAlloc,
         ExternalFree, VMM_QUERY, vars, NoFrameLeft, LeaveExpanded,
         DrainRelease, DrainSwap, DrainNothing, Terminate, PPM_DRAIN_POOL,
         DPMIFN_SWITCHADDR, VMM_INIT_CLIENT, VMM_PageFaultHandler, Read
<1>3. CleanStays /\ LocksKept
  BY <1>2, EntriesSame
<1>4. CASE \/ FillPool \/ Overcommit \/ LockStray \/ LSM_NEW_PAGE_TABLE
           \/ ExternalAlloc \/ ExternalFree \/ VMM_QUERY \/ UNCHANGED vars
           \/ \E p : Read(p)
  BY <1>1, <1>3, <1>4, SameKind, SameOwned
<1>5. CASE NoFrameLeft
  <2>1. /\ UNCHANGED <<live, cur>>
        /\ SearchJob
        /\ job' = job \/ job'.op # "alloc"
    BY <1>1, <1>5, SearchKind
  <2>2. PagesBelong'
    <3>1. CASE job' = job
      BY <1>1, <1>3, <2>1, <3>1, OwnersKept
    <3>2. CASE job.op = "dir" \/ (~job.init /\ job.op # "gone")
      BY <1>1, <1>3, <2>1, <3>2, OwnersKept
    <3> QED
      BY <2>1, <3>1, <3>2 DEF SearchJob
  <2>3. JobOfCaller'
    BY <1>1, <2>1, CallerKept
  <2> QED
    BY <1>3, <2>2, <2>3 DEF Kept
<1>6. CASE \/ LeaveExpanded \/ DrainRelease \/ DrainSwap \/ DrainNothing
           \/ Terminate \/ \E n : PPM_DRAIN_POOL(n)
           \/ \E c : DPMIFN_SWITCHADDR(c) \/ VMM_INIT_CLIENT(c)
           \/ \E p : VMM_PageFaultHandler(p)
  BY <1>1, <1>3, <1>6, OtherKind, OtherOwned
<1> QED
  BY <1>4, <1>5, <1>6

\* Steps that give pages frames, or take them.
LEMMA PageOwned ==
  ASSUME OwnedInv,
         \/ LockResident \/ LockReserved \/ LockSwapped
         \/ FaultReserved \/ FaultSwapped \/ FreeExpanded
         \/ \E f \in Frames : VMM_SWAP_OUT(f)
         \/ \E p \in Pages : \E w : Write(p, w)
  PROVE  Kept
<1>1. Inv /\ Held /\ PagesBelong /\ JobOfCaller
  BY DEF OwnedInv, FrameInv
<1>2. CleanStays /\ LocksKept
  BY <1>1, OneEntrySteps, JobEntries
<1>3. CASE \/ LockResident \/ LockReserved \/ LockSwapped
           \/ \E p \in Pages : \E w : Write(p, w)
  BY <1>1, <1>2, <1>3, SameKind, SameOwned
<1>4. CASE FaultReserved \/ FaultSwapped \/ FreeExpanded
  BY <1>1, <1>2, <1>4, OtherKind, OtherOwned
<1>5. CASE \E f \in Frames : VMM_SWAP_OUT(f)
  <2>1. /\ UNCHANGED <<live, cur>>
        /\ SearchJob
        /\ job' = job \/ job'.op # "alloc"
    BY <1>1, <1>5, SearchKind
  <2>2. PagesBelong'
    <3>1. CASE job' = job
      BY <1>1, <1>2, <2>1, <3>1, OwnersKept
    <3>2. CASE job.op = "dir" \/ (~job.init /\ job.op # "gone")
      BY <1>1, <1>2, <2>1, <3>2, OwnersKept
    <3> QED
      BY <2>1, <3>1, <3>2 DEF SearchJob
  <2>3. JobOfCaller'
    BY <1>1, <2>1, CallerKept
  <2> QED
    BY <1>2, <2>2, <2>3 DEF Kept
<1> QED
  BY <1>3, <1>4, <1>5

\* A client starts, or goes; pages are committed.
LEMMA StartOwned ==
  ASSUME OwnedInv,
         \/ Commit \/ LSM_INIT_CLIENT \/ BSM_INIT_CLIENT \/ LockIOBuffer
         \/ LockDone \/ VMM_TERMINATE_CLIENT \/ VMM_SHUTDOWN
  PROVE  Kept
<1>1. Inv /\ Held /\ PagesBelong /\ job \in JobType
  BY JobFields DEF OwnedInv, FrameInv, Inv
<1>2. PagesBelong'
  BY <1>1, StartOwners, CommitOwners, GoneOwners
<1>3. LocksKept
  <2>1. CASE Commit
    BY <1>1, <2>1, JobEntries
  <2>2. CASE VMM_TERMINATE_CLIENT \/ VMM_SHUTDOWN
    BY <2>2, GoneEntries
  <2>3. CASE LSM_INIT_CLIENT \/ BSM_INIT_CLIENT \/ LockIOBuffer \/ LockDone
    <3>1. pte' = pte
      BY <2>3 DEF LSM_INIT_CLIENT, BSM_INIT_CLIENT, LockIOBuffer, LockDone
    <3> QED
      BY <3>1, EntriesSame
  <2> QED
    BY <2>1, <2>2, <2>3
<1>4. JobOfCaller'
  <2>1. CASE BSM_INIT_CLIENT
    BY <2>1, BufferOwned
  <2>2. CASE LockDone \/ VMM_TERMINATE_CLIENT \/ VMM_SHUTDOWN
    <3>1. job' = Idle
      BY <2>2 DEF LockDone, VMM_TERMINATE_CLIENT, VMM_SHUTDOWN
    <3>2. job'.op = "idle"
      BY <3>1, JobInits
    <3> QED
      BY <3>2 DEF JobOfCaller
  <2>3. CASE LSM_INIT_CLIENT
    <3>1. job' = Job("swapfile", {}, TRUE)
      BY <2>3 DEF LSM_INIT_CLIENT
    <3>2. job'.op = "swapfile"
      BY <3>1 DEF Job
    <3> QED
      BY <3>2 DEF JobOfCaller
  <2>4. CASE Commit \/ LockIOBuffer
    <3>1. \/ job' = Idle \/ job' = Job("lock", job.pages, TRUE)
          \/ job' = Job("gone", {}, FALSE) \/ job' = [job EXCEPT !.op = "locking"]
      BY <2>4 DEF Commit, LockIOBuffer
    <3>2. CASE job' = Idle
      <4>1. job'.op = "idle"
        BY <3>2, JobInits
      <4> QED
        BY <4>1 DEF JobOfCaller
    <3>3. CASE job' = Job("lock", job.pages, TRUE) \/ job' = Job("gone", {}, FALSE)
      <4>1. job'.op \in {"lock", "gone"}
        BY <3>3 DEF Job
      <4> QED
        BY <4>1 DEF JobOfCaller
    <3>4. CASE job' = [job EXCEPT !.op = "locking"]
      <4>1. job'.op = "locking"
        BY <1>1, <3>4, JobRecords DEF Ops
      <4> QED
        BY <4>1 DEF JobOfCaller
    <3> QED
      BY <3>1, <3>2, <3>3, <3>4
  <2> QED
    BY <2>1, <2>2, <2>3, <2>4
<1> QED
  BY <1>2, <1>3, <1>4 DEF Kept

\* And so every step: one group above for each of them.
LEMMA NextOwned == OwnedInv /\ [Next]_vars => OwnedInv' /\ LocksKept
<1> SUFFICES ASSUME OwnedInv, [Next]_vars
             PROVE  FrameInv' /\ Kept
  BY DEF OwnedInv, Kept
<1>1. FrameInv'
  BY NextFrames DEF OwnedInv
<1>2. Kept
  <2>1. CASE Host
    BY <2>1, QuietOwned, PageOwned, StartOwned DEF Host, TakeFrame
  <2>2. CASE Client
    <3>1. CASE \E o \in Mine \cap Owners : \E S \in Callable(o) : Call(S)
      <4>1. PICK o \in Mine \cap Owners : \E S \in Callable(o) : Call(S)
        BY <3>1
      <4>2. PICK S \in Callable(o) : Call(S)
        BY <4>1
      <4> QED
        BY <4>1, <4>2, CallOwned
    <3>2. CASE \E p \in Pages : \E w \in Values : Write(p, w)
      BY <3>2, PageOwned
    <3>3. CASE \/ \E p \in Pages : VMM_PageFaultHandler(p) \/ Read(p)
               \/ VMM_QUERY \/ Terminate
               \/ \E c \in Clients : DPMIFN_SWITCHADDR(c) \/ VMM_INIT_CLIENT(c)
      BY <3>3, QuietOwned
    <3> QED
      BY <2>2, <3>1, <3>2, <3>3 DEF Client
  <2>3. CASE Primary
    BY <2>3, QuietOwned DEF Primary
  <2>4. CASE UNCHANGED vars
    BY <2>4, QuietOwned
  <2> QED
    BY <2>1, <2>2, <2>3, <2>4 DEF Next, Stopped
<1> QED
  BY <1>1, <1>2

\* A locked page keeps its frame through every step of everyone, until its
\* owner unlocks the page, which makes it dirty, or frees it, or is gone: no
\* swap, drain or fault moves it, no other client's call, start that is given
\* up, termination or shutdown takes it away.
THEOREM LockedStaysPut == Spec => LockedFixed
<1>1. LocksKept => \A p \in Pages : pte[p].state = "locked" =>
                     \/ pte'[p].state = "locked" /\ pte'[p].frame = pte[p].frame
                     \/ pte'[p] = Present(pte[p].frame, TRUE)
                     \/ pte'[p] = Unalloc /\ p.owner \in Mine
  BY DEF LocksKept, LockKept
<1> QED
  BY InitOwned, NextOwned, <1>1, PTL DEF Spec, LockedFixed
=============================================================================
