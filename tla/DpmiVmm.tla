------------------------------ MODULE DpmiVmm ------------------------------
(***************************************************************************)
(* The DPMI virtual memory manager of 386MAX: the VMM entry points and the *)
(* page fault handler (QMAX_VME.ASM), the part of the linear space manager *)
(* they rest on (QMAX_LSM.ASM), and the switches between DPMI clients      *)
(* (QMAX_K31.ASM), over the physical page pool and the backing store.      *)
(*                                                                         *)
(* The VMM is not re-entered: a call or a fault runs to its end before any *)
(* other starts.  A call that may have to find a page of memory first, and *)
(* swap another out for it, is a job of several host steps here; all other *)
(* calls are one step.  Where the code stops at an int 3 or goes on with   *)
(* garbage, stop says why and the model ends.                              *)
(***************************************************************************)
EXTENDS PagePool, BackingStore, Sequences

CONSTANTS
    Clients,        \* TSS selectors of DPMI clients
    SharedOwner,    \* $clientMask, the owner of shared pages
    PrivateVA,      \* virtual page numbers of a client's own 4 MB area
    SharedVA,       \* virtual page numbers of the 4 MB area all share
    NoClient,       \* VMMcurrentClient when no client is there
    NoFrame,        \* no physical page
    NoTable,        \* a page directory entry of zero
    UncommittedPDE, \* @PGBITS_UNCOMMITTED in a page directory entry
    Values,         \* what clients write into pages
    Zero,           \* contents of a cleared page
    ZeroDemand,     \* $I31_ZPD: pages are cleared on demand
    ReadsFresh,     \* clients read pages they have not written
    Calls,          \* bound: the calls made of those that can be left out
    MaxRegion,      \* bound: pages in one region of a call
    MaxDrain        \* bound: pages asked for by one drain request

NoSlot == -1

Owners == Clients \cup {SharedOwner}
VA(o) == IF o = SharedOwner THEN SharedVA ELSE PrivateVA
Area(o) == {[owner |-> o, va |-> v] : v \in VA(o)}
Pages == UNION {Area(o) : o \in Owners}

\* Page and owner as the backing store cache sees them: a shared page is read
\* in under the name of the client that faulted on it.
Keys == [owner : Owners, va : PrivateVA \cup SharedVA]

Words == Values \cup {Zero, Junk}

\* Where BSM_INIT_CLIENT puts the I/O buffer of a client, if there is a swap
\* file: the first page of its free linear space.
IOPage(c) ==
    [owner |-> c, va |-> CHOOSE v \in PrivateVA : \A w \in PrivateVA : v <= w]
IOPages == IF BSInit > 0 THEN {IOPage(c) : c \in Clients} ELSE {}

\* Runs of pages that a call may name.
Regions(o) ==
    {{p \in Area(o) : p.va \in v..w} : v \in VA(o), w \in VA(o)} \ {{}}
Callable(o) ==
    {S \in Regions(o) : Cardinality(S) <= MaxRegion /\ S \cap IOPages = {}}

ASSUME VmmAssumption ==
    /\ IsFiniteSet(Pages)
    /\ PrivateVA \subseteq Nat /\ SharedVA \subseteq Nat
    /\ PrivateVA # {} /\ PrivateVA \cap SharedVA = {}
    /\ SharedOwner \notin Clients /\ NoClient \notin Owners
    /\ NoFrame \notin Frames /\ NoTable \notin Frames
    /\ UncommittedPDE \notin Frames \cup {NoTable}
    /\ NoPage \notin Pages /\ NoEntry \notin [page : Keys, slot : Slots]
    /\ ZeroDemand \in BOOLEAN /\ ReadsFresh \in BOOLEAN
    /\ MaxRegion \in Nat /\ MaxDrain \in Nat

VARIABLES
    ppm,        \* the physical page pool
    bsm,        \* the backing store
    outside,    \* frames that XMS, EMS and VCPI programs hold
    live,       \* the nested clients that are initialized, the last on top
    cur,        \* VMMcurrentClient
    dir,        \* page directory of each client
    table,      \* page directory entry of each owner's area
    blocks,     \* allocated blocks of linear space
    pte,        \* page table entries
    reserved,   \* VirtualReserved, pages committed and not touched
    ram,        \* contents of the frames
    job,        \* what the VMM is in the middle of
    stop,       \* why the model ended, or "none"
    known       \* pages whose contents their client has fixed

vars == <<ppm, bsm, outside, live, cur, dir, table, blocks, pte, reserved,
          ram, job, stop, known>>
-----------------------------------------------------------------------------
(* Page table entries, and what they say of the machine's state. *)

Entry(state, frame, slot, dirty) ==
    [state |-> state, frame |-> frame, slot |-> slot, dirty |-> dirty]

Unalloc == Entry("unalloc", NoFrame, NoSlot, FALSE)
Uncommitted == Entry("uncommitted", NoFrame, NoSlot, FALSE)
Reserved(dirty) == Entry("reserved", NoFrame, NoSlot, dirty)
Present(f, dirty) == Entry("present", f, NoSlot, dirty)
Locked(f, dirty) == Entry("locked", f, NoSlot, dirty)
Swapped(s) == Entry("swapped", NoFrame, s, FALSE)

Resident(p) == pte[p].state \in {"present", "locked"}
IsReserved(p) == pte[p].state = "reserved"
IsSwapped(p) == pte[p].state = "swapped"

FramesOf(S) == {pte[p].frame : p \in {q \in S : Resident(q)}}
SlotsOf(S) == {pte[p].slot : p \in {q \in S : IsSwapped(q)}}
ReservedOf(S) == Cardinality({p \in S : IsReserved(p)})

HasTable(o) == table[o] \in Frames

\* What the primary manager can lend to the pool.
Avail == Frames \ (ppm.managed \cup outside)

\* A client reaches its own pages and the shared ones.
Mine == {cur, SharedOwner}

Live == {live[i] : i \in DOMAIN live}

\* The name under which a page is looked for in the cache when it is read:
\* its address with VMMcurrentClient in the low bits.
KeyNow(p) == [owner |-> cur, va |-> p.va]

\* Setting a frame aside, or giving it up, leaves nothing in it to rely on.
Wiped(F) == [f \in Frames |-> IF f \in F THEN Junk ELSE ram[f]]

-----------------------------------------------------------------------------
(* Jobs. *)

Job(op, S, init) ==
    [op |-> op, pages |-> S, init |-> init, count |-> 0, request |-> 0]
Idle == Job("idle", {}, FALSE)
DrainJob(op, count, request) ==
    [Idle EXCEPT !.op = op, !.count = count, !.request = request]

Ready == job = Idle /\ stop = "none"
Doing(op) == job.op = op /\ stop = "none"

\* A DPMI client makes a call, or touches its memory.
ClientRuns == Ready /\ cur \in Live

JobOwner == (CHOOSE p \in job.pages : TRUE).owner
NextPage == CHOOSE p \in job.pages : \A q \in job.pages : p.va <= q.va

\* Second pass of VMM_LOCK on a page that is not in memory.  The entry for a
\* swapped shared page goes back into the first pass and needs no frame.
LockNeedsFrame ==
    \/ IsReserved(NextPage)
    \/ IsSwapped(NextPage) /\ NextPage.owner # SharedOwner

\* The job has called VMM_GET_PHYSICAL_PAGE.
NeedsFrame ==
    \/ job.op \in {"dir", "expand", "leave", "fault"}
    \/ job.op = "alloc" /\ ~HasTable(JobOwner)
    \/ job.op = "locking" /\ job.pages # {} /\ LockNeedsFrame

WantsFrame == NeedsFrame /\ stop = "none"
FrameReady == Free(ppm) # {}
Starved == WantsFrame /\ Free(ppm) = {} /\ Avail = {}

-----------------------------------------------------------------------------
(* Finding a physical page: VMM_GET_PHYSICAL_PAGE and VMM_SWAP_OUT. *)

\* PPM_ALLOC tops the pool up when the free list is empty.
FillPool ==
    /\ WantsFrame /\ Free(ppm) = {} /\ Avail # {}
    /\ ppm' = PPM_FILL_POOL(ppm, Avail)
    /\ UNCHANGED <<bsm, outside, live, cur, dir, table, blocks, pte, reserved,
                   ram, job, stop, known>>

\* The page that a frame holds: the address and the owner in its record.
\* Mutant: the owner is taken to be the current client.
SwapPage_OfCurrent(f) == [ppm.addr[f] EXCEPT !.owner = cur]
SwapPage(f) == ppm.addr[f]

\* One page goes to the backing store, for a job that is short of a frame or
\* for a drain that wants some free.
VMM_SWAP_OUT(f) ==
    LET p == SwapPage(f)
    IN  /\ \/ Starved
           \/ Doing("pageout")
        /\ f \in Victims(ppm)
        /\ HasRoom(bsm, p)
        /\ bsm' = BSM_PUTPAGE(bsm, p, pte[p].dirty, ram[f])
        /\ pte' = [pte EXCEPT ![p] = Swapped(PutSlot(bsm, p))]
        /\ ppm' = PPM_FREE(ppm, {f})
        /\ ram' = Wiped({f})
        /\ job' = IF job.op # "pageout" THEN job
                  ELSE IF job.count > 1
                       THEN DrainJob("pageout", job.count - 1, job.request)
                       ELSE DrainJob("drain", 0, job.request)
        /\ UNCHANGED <<outside, live, cur, dir, table, blocks, reserved, stop,
                       known>>

\* BSM_PUTPAGE finds no slot: int 3, "backing store overcommit!".
Overcommit ==
    /\ Starved \/ Doing("pageout")
    /\ \E f \in Victims(ppm) : ~HasRoom(bsm, SwapPage(f))
    /\ stop' = "overcommit"
    /\ UNCHANGED <<ppm, bsm, outside, live, cur, dir, table, blocks, pte,
                   reserved, ram, job, known>>

\* VMM_GET_PHYSICAL_PAGE returns -1: nothing is free and nothing can be
\* swapped.  A lock or a fault does not look at the result and goes on with
\* it.  Making room for a table to mark free space in is given up silently.
\* A client that gets no page directory is abandoned with VMMcurrentClient
\* still naming it, which matters to the client that started it.
NoFrameLeft ==
    /\ Starved /\ ppm.nSwappable = 0
    /\ job.op # "alloc"
    /\ job' = CASE job.op \in {"dir", "expand"} -> Idle
                [] job.op = "leave" -> [job EXCEPT !.op = "gone"]
                [] OTHER -> job
    /\ stop' = IF job.op \in {"locking", "fault"} THEN "noframe"
               ELSE IF job.op = "dir" /\ live # <<>> THEN "misowned"
               ELSE stop
    /\ UNCHANGED <<ppm, bsm, outside, live, cur, dir, table, blocks, pte,
                   reserved, ram, known>>
-----------------------------------------------------------------------------
(* Linear space and page tables. *)

\* LSM_ALLOC of committed space: take the linear space, count the page tables
\* it lacks, and see whether a page can be had for each.
LSM_ALLOC(S, bsFree, init) ==
    LET o == (CHOOSE p \in S : TRUE).owner
        pool == PPM_QUERY(ppm, Avail)
        enough == \/ HasTable(o)
                  \/ PhysicalFree(pool)
                       + PPM_QUERY_SWAPPABLE(pool, bsFree) >= 1
    IN  /\ ppm' = pool
        /\ blocks' = IF enough THEN blocks \cup {S} ELSE blocks
        /\ job' = IF enough THEN Job("alloc", S, init)
                  ELSE IF init THEN Job("gone", {}, FALSE) ELSE Idle

\* Mutant: the directory entry still names the page table.
LSM_SETN_PTES_KeepsPDE(S, entry, pde) ==
    /\ pte' = [p \in Pages |-> IF p \in S THEN entry ELSE pte[p]]
    /\ table' = table

\* LSM_SETN_PTES of the region S to an entry that commits nothing.  When that
\* is the whole area its page table goes and the directory entry says it all.
LSM_SETN_PTES(S, entry, pde) ==
    LET o == (CHOOSE p \in S : TRUE).owner
        whole == S = Area(o)
    IN  /\ pte' = [p \in Pages |-> IF p \in S THEN entry ELSE pte[p]]
        /\ table' = IF whole THEN [table EXCEPT ![o] = pde] ELSE table

\* The page table that goes with the region S, if any.  Mutant: it is not freed.
TableOf_Kept(S) == {}
TableOf(S) ==
    {table[o] : o \in {q \in Owners : S = Area(q)}} \cap Frames

\* LSM_NEW_PAGE_TABLE, and LSM_EXPAND_UNCOMPDE if the area was uncommitted.
NewTable(o, f) ==
    /\ ppm' = PPM_ALLOC(ppm, f, NoPage, FALSE)
    /\ table' = [table EXCEPT ![o] = f]

LSM_NEW_PAGE_TABLE ==
    LET f == FreeHead(ppm)
    IN  /\ Doing("alloc") /\ ~HasTable(JobOwner)
        /\ FrameReady
        /\ NewTable(JobOwner, f)
        /\ UNCHANGED <<bsm, outside, live, cur, dir, blocks, pte, reserved, ram,
                       job, stop, known>>

-----------------------------------------------------------------------------
(* VMM_ALLOC and VMM_FREE. *)

VMM_ALLOC(S) ==
    /\ ClientRuns
    /\ S \cap UNION blocks = {}
    /\ LSM_ALLOC(S, BSFree(bsm), FALSE)
    /\ UNCHANGED <<bsm, outside, live, cur, dir, table, pte, reserved, ram,
                   stop, known>>

\* Free memory, and free backing store, that is not promised to anyone.
\* Mutant: earlier promises are forgotten.
Committable_Unreserved == PhysicalFree(ppm) + BSFree(bsm)
Committable == PhysicalFree(ppm) + BSFree(bsm) - reserved

\* The tables are there.  If the pages cannot be promised the linear space is
\* released again, with its table if it spans the area.
Commit ==
    /\ Doing("alloc") /\ HasTable(JobOwner)
    /\ IF Committable >= Cardinality(job.pages)
       THEN /\ reserved' = reserved + Cardinality(job.pages)
            /\ pte' = [p \in Pages |->
                         IF p \in job.pages THEN Reserved(TRUE) ELSE pte[p]]
            /\ job' = IF job.init THEN Job("lock", job.pages, TRUE) ELSE Idle
            /\ UNCHANGED <<ppm, table, blocks>>
       ELSE /\ blocks' = blocks \ {job.pages}
            /\ LSM_SETN_PTES(job.pages, Unalloc, NoTable)
            /\ ppm' = PPM_FREE(ppm, TableOf(job.pages))
            /\ job' = IF job.init THEN Job("gone", {}, FALSE) ELSE Idle
            /\ UNCHANGED reserved
    /\ UNCHANGED <<bsm, outside, live, cur, dir, ram, stop, known>>

\* Uncommitted space costs no memory: a missing table is not made, and one
\* that would hold nothing else is given up.
AllocUncommitted(S) ==
    LET o == (CHOOSE p \in S : TRUE).owner
    IN  /\ ClientRuns
        /\ o # SharedOwner
        /\ S \cap UNION blocks = {}
        /\ blocks' = blocks \cup {S}
        /\ IF HasTable(o)
           THEN LSM_SETN_PTES(S, Uncommitted, UncommittedPDE)
           ELSE /\ table' = [table EXCEPT ![o] = UncommittedPDE]
                /\ pte' = [p \in Pages |->
                             IF p \in Area(o) THEN Uncommitted ELSE pte[p]]
        /\ ppm' = PPM_FREE(ppm, TableOf(S))
        /\ UNCHANGED <<bsm, outside, live, cur, dir, reserved, ram, job, stop,
                       known>>

\* Every page of the block gives back what it holds.  Part of an uncommitted
\* area cannot be marked free before the area has a page table.
VMM_FREE(S) ==
    LET o == (CHOOSE p \in S : TRUE).owner
        expand == table[o] = UncommittedPDE /\ S # Area(o)
    IN  /\ ClientRuns
        /\ S \in blocks /\ S \cap IOPages = {}
        /\ ppm' = PPM_FREE(ppm, FramesOf(S) \cup TableOf(S))
        /\ bsm' = BSM_FREE(bsm, SlotsOf(S))
        /\ reserved' = reserved - ReservedOf(S)
        /\ blocks' = blocks \ {S}
        /\ ram' = Wiped(FramesOf(S))
        /\ known' = known \ S
        /\ IF expand THEN /\ job' = Job("expand", S, FALSE)
                          /\ UNCHANGED <<pte, table>>
                     ELSE /\ LSM_SETN_PTES(S, Unalloc, NoTable)
                          /\ UNCHANGED job
        /\ UNCHANGED <<outside, live, cur, dir, stop>>

FreeExpanded ==
    LET f == FreeHead(ppm)
    IN  /\ Doing("expand")
        /\ FrameReady
        /\ NewTable(JobOwner, f)
        /\ pte' = [p \in Pages |-> IF p \in job.pages THEN Unalloc ELSE pte[p]]
        /\ job' = Idle
        /\ UNCHANGED <<bsm, outside, live, cur, dir, blocks, reserved, ram, stop,
                       known>>
-----------------------------------------------------------------------------
(* VMM_LOCK and VMM_UNLOCK.  Without backing store they do nothing. *)

\* The first pass of VMM_LOCK: every page can be locked, and enough pages stay
\* unlocked.  Mutant: the working set is not kept.
Lockable_All(S) ==
    /\ \A p \in S : pte[p].state \notin {"unalloc", "uncommitted"}
    /\ PhysicalManaged(ppm) - ppm.nLocked
         - Cardinality({p \in S : pte[p].state # "locked"}) >= 0
Lockable(S) ==
    /\ \A p \in S : pte[p].state \notin {"unalloc", "uncommitted"}
    /\ PhysicalManaged(ppm) - ppm.nLocked
         - Cardinality({p \in S : pte[p].state # "locked"})
       >= PhysicalMinUnlocked(ppm)

\* A client's call; the lock fails, and changes nothing, unless every page
\* can be locked and enough stay unlocked.
VMM_LOCK(S) ==
    /\ ClientRuns
    /\ bsm.total > 0
    /\ Lockable(S)
    /\ job' = Job("locking", S, FALSE)
    /\ UNCHANGED <<ppm, bsm, outside, live, cur, dir, table, blocks, pte,
                   reserved, ram, stop, known>>

\* The lock of its I/O buffer that a new client needs.
LockIOBuffer ==
    /\ Doing("lock")
    /\ job' = IF Lockable(job.pages) THEN [job EXCEPT !.op = "locking"]
              ELSE Job("gone", {}, FALSE)
    /\ UNCHANGED <<ppm, bsm, outside, live, cur, dir, table, blocks, pte,
                   reserved, ram, stop, known>>

LockedPage == job' = [job EXCEPT !.pages = @ \ {NextPage}]

Locking == Doing("locking") /\ job.pages # {}

LockResident ==
    /\ Locking /\ Resident(NextPage)
    /\ ppm' = PPM_LOCK(ppm, pte[NextPage].frame)
    /\ pte' = [pte EXCEPT ![NextPage] = Locked(@.frame, FALSE)]
    /\ LockedPage
    /\ UNCHANGED <<bsm, outside, live, cur, dir, table, blocks, reserved, ram,
                   stop, known>>

LockReserved ==
    LET f == FreeHead(ppm)
    IN  /\ Locking /\ IsReserved(NextPage)
        /\ FrameReady
        /\ ppm' = PPM_LOCK(PPM_ALLOC(ppm, f, NextPage, FALSE), f)
        /\ reserved' = reserved - 1
        /\ ram' = [ram EXCEPT ![f] = IF ZeroDemand THEN Zero ELSE Junk]
        /\ pte' = [pte EXCEPT ![NextPage] = Locked(f, FALSE)]
        /\ LockedPage
        /\ UNCHANGED <<bsm, outside, live, cur, dir, table, blocks, stop, known>>

LockSwapped ==
    LET s == pte[NextPage].slot
        f == FreeHead(ppm)
    IN  /\ Locking /\ IsSwapped(NextPage) /\ NextPage.owner # SharedOwner
        /\ FrameReady
        /\ ppm' = PPM_LOCK(PPM_ALLOC(ppm, f, NextPage, FALSE), f)
        /\ bsm' = BSM_GETPAGE(bsm, KeyNow(NextPage), s)
        /\ ram' = [ram EXCEPT ![f] = bsm.file[s]]
        /\ pte' = [pte EXCEPT ![NextPage] = Locked(f, FALSE)]
        /\ LockedPage
        /\ UNCHANGED <<outside, live, cur, dir, table, blocks, reserved, stop,
                       known>>

\* The second pass goes back into the first, counts the rest of the region
\* and pops two registers that are not there.
LockStray ==
    /\ Locking /\ IsSwapped(NextPage) /\ NextPage.owner = SharedOwner
    /\ stop' = "stray"
    /\ UNCHANGED <<ppm, bsm, outside, live, cur, dir, table, blocks, pte,
                   reserved, ram, job, known>>

\* The call is over; a new client is now initialized.
LockDone ==
    /\ Doing("locking") /\ job.pages = {}
    /\ live' = IF job.init THEN Append(live, cur) ELSE live
    /\ job' = Idle
    /\ UNCHANGED <<ppm, bsm, outside, cur, dir, table, blocks, pte, reserved,
                   ram, stop, known>>

\* The first pass makes sure that every page is locked.  A page whose last
\* lock goes is swappable again, and dirty.
VMM_UNLOCK(S) ==
    LET freed == LastLock(ppm, FramesOf(S))
    IN  /\ ClientRuns
        /\ bsm.total > 0
        /\ \A p \in S : pte[p].state = "locked"
        /\ ppm' = PPM_UNLOCK(ppm, FramesOf(S))
        /\ pte' = [p \in Pages |->
                     IF p \in S /\ pte[p].frame \in freed
                     THEN Present(pte[p].frame, TRUE) ELSE pte[p]]
        /\ UNCHANGED <<bsm, outside, live, cur, dir, table, blocks, reserved,
                       ram, job, stop, known>>

-----------------------------------------------------------------------------
(* The page fault handler, and what the client does with its pages. *)

VMM_PageFaultHandler(p) ==
    /\ ClientRuns /\ p.owner \in Mine
    /\ IsReserved(p) \/ IsSwapped(p)
    /\ job' = Job("fault", {p}, FALSE)
    /\ UNCHANGED <<ppm, bsm, outside, live, cur, dir, table, blocks, pte,
                   reserved, ram, stop, known>>

\* Mutant of FaultReserved: the page is not cleared.
FaultReserved_NotCleared ==
    LET f == FreeHead(ppm)
    IN  /\ Doing("fault") /\ IsReserved(NextPage)
        /\ FrameReady
        /\ reserved' = reserved - 1
        /\ ppm' = PPM_ALLOC(ppm, f, NextPage, TRUE)
        /\ pte' = [pte EXCEPT ![NextPage] = Present(f, FALSE)]
        /\ job' = Idle
        /\ UNCHANGED <<bsm, outside, live, cur, dir, table, blocks, ram, stop,
                       known>>

FaultReserved ==
    LET f == FreeHead(ppm)
    IN  /\ Doing("fault") /\ IsReserved(NextPage)
        /\ FrameReady
        /\ reserved' = reserved - 1
        /\ ppm' = PPM_ALLOC(ppm, f, NextPage, TRUE)
        /\ ram' = [ram EXCEPT ![f] = IF ZeroDemand THEN Zero ELSE Junk]
        /\ pte' = [pte EXCEPT ![NextPage] = Present(f, FALSE)]
        /\ job' = Idle
        /\ UNCHANGED <<bsm, outside, live, cur, dir, table, blocks, stop, known>>

FaultSwapped ==
    LET s == pte[NextPage].slot
        f == FreeHead(ppm)
    IN  /\ Doing("fault") /\ IsSwapped(NextPage)
        /\ FrameReady
        /\ ppm' = PPM_ALLOC(ppm, f, NextPage, TRUE)
        /\ bsm' = BSM_GETPAGE(bsm, KeyNow(NextPage), s)
        /\ ram' = [ram EXCEPT ![f] = bsm.file[s]]
        /\ pte' = [pte EXCEPT ![NextPage] = Present(f, FALSE)]
        /\ job' = Idle
        /\ UNCHANGED <<outside, live, cur, dir, table, blocks, reserved, stop,
                       known>>

\* The processor sets the dirty bit of a page that is stored in.
Write(p, w) ==
    /\ ClientRuns /\ p.owner \in Mine /\ Resident(p) /\ p \notin IOPages
    /\ ram' = [ram EXCEPT ![pte[p].frame] = w]
    /\ pte' = [pte EXCEPT ![p].dirty = TRUE]
    /\ known' = known \cup {p}
    /\ UNCHANGED <<ppm, bsm, outside, live, cur, dir, table, blocks, reserved,
                   job, stop>>

\* Looking at a page nobody has stored in settles what it holds.
Read(p) ==
    /\ ClientRuns /\ p.owner \in Mine /\ Resident(p) /\ p \notin IOPages
    /\ ReadsFresh
    /\ known' = known \cup {p}
    /\ UNCHANGED <<ppm, bsm, outside, live, cur, dir, table, blocks, pte,
                   reserved, ram, job, stop>>
-----------------------------------------------------------------------------
(* Advice, queries, and the primary memory manager. *)

VMM_MARK_CANDIDATES(S) ==
    /\ ClientRuns
    /\ ppm' = PPM_MARK(ppm, {pte[p].frame : p \in {q \in S :
                                 pte[q].state = "present"}})
    /\ UNCHANGED <<bsm, outside, live, cur, dir, table, blocks, pte, reserved,
                   ram, job, stop, known>>

\* The pages stay committed, and lose their contents.
VMM_DISCARD_PAGES(S) ==
    LET P == {p \in S : pte[p].state \in {"present", "swapped"}}
    IN  /\ ClientRuns
        /\ ppm' = PPM_FREE(ppm, FramesOf(P))
        /\ bsm' = BSM_FREE(bsm, SlotsOf(P))
        /\ pte' = [p \in Pages |-> IF p \in P THEN Reserved(FALSE) ELSE pte[p]]
        /\ reserved' = reserved + Cardinality(P)
        /\ ram' = Wiped(FramesOf(P))
        /\ known' = known \ P
        /\ UNCHANGED <<outside, live, cur, dir, table, blocks, job, stop>>

\* Only what it does to the pool: it is topped up before pages are counted.
VMM_QUERY ==
    /\ ClientRuns
    /\ ppm' = PPM_FILL_POOL(ppm, Avail)
    /\ UNCHANGED <<bsm, outside, live, cur, dir, table, blocks, pte, reserved,
                   ram, job, stop, known>>

\* XMS, EMS and VCPI programs take and return memory of the primary manager.
ExternalAlloc ==
    /\ Ready /\ Avail # {}
    /\ outside' = outside \cup {CHOOSE f \in Avail : TRUE}
    /\ UNCHANGED <<ppm, bsm, live, cur, dir, table, blocks, pte, reserved, ram,
                   job, stop, known>>

ExternalFree ==
    /\ Ready /\ outside # {}
    /\ outside' = outside \ {CHOOSE f \in outside : TRUE}
    /\ UNCHANGED <<ppm, bsm, live, cur, dir, table, blocks, pte, reserved, ram,
                   job, stop, known>>

\* Before it fails a request the primary manager asks the pool for n pages.
PPM_DRAIN_POOL(n) ==
    /\ Ready
    /\ job' = DrainJob("drain", 0, n)
    /\ UNCHANGED <<ppm, bsm, outside, live, cur, dir, table, blocks, pte,
                   reserved, ram, stop, known>>

Lesser(a, b) == IF a <= b THEN a ELSE b

\* What locks and the working set leave of the pool.
Unlocked == PhysicalManaged(ppm) - ppm.nLocked - PhysicalMinUnlocked(ppm)

\* Every free page may be promised, if the backing store has not enough for
\* all reserved pages.
AllPromised ==
    \/ PhysicalManaged(ppm) = 0
    \/ reserved >= BSFree(bsm) /\ Committable <= 0

\* Pages that can be released now: locked ones and the working set stay.
Drainable ==
    LET releasable == Lesser(job.request, Lesser(PhysicalFree(ppm), Unlocked))
    IN  IF reserved < BSFree(bsm) THEN releasable
        ELSE Lesser(releasable, Committable)

\* Pages to swap out so that some can be released after all.  Mutant: as many
\* as are asked for, swappable or not.
ToSwap_Any == job.request
ToSwap ==
    Lesser(job.request,
           PPM_QUERY_SWAPPABLE(ppm, BSFree(bsm)) - PhysicalMinUnlocked(ppm))

DrainRelease ==
    /\ Doing("drain") /\ ~AllPromised /\ Drainable > 0
    /\ \E F \in SUBSET Free(ppm) :
          /\ Cardinality(F) = Drainable
          /\ ppm' = PPM_RELEASE(ppm, F)
    /\ job' = Idle
    /\ UNCHANGED <<bsm, outside, live, cur, dir, table, blocks, pte, reserved,
                   ram, stop, known>>

DrainSwap ==
    /\ Doing("drain") /\ ~AllPromised /\ Drainable <= 0
    /\ job' = IF ToSwap > 0 THEN DrainJob("pageout", ToSwap, job.request)
              ELSE Idle
    /\ UNCHANGED <<ppm, bsm, outside, live, cur, dir, table, blocks, pte,
                   reserved, ram, stop, known>>

DrainNothing ==
    /\ Doing("drain") /\ AllPromised
    /\ job' = Idle
    /\ UNCHANGED <<ppm, bsm, outside, live, cur, dir, table, blocks, pte,
                   reserved, ram, stop, known>>

-----------------------------------------------------------------------------
(* Clients come, nest and go. *)

VMM_INIT_CLIENT(c) ==
    /\ Ready
    /\ c \notin Live
    /\ cur \in Live \/ live = <<>>
    /\ cur' = c
    /\ job' = Job("dir", {}, TRUE)
    /\ UNCHANGED <<ppm, bsm, outside, live, dir, table, blocks, pte, reserved,
                   ram, stop, known>>

LSM_INIT_CLIENT ==
    LET f == FreeHead(ppm)
    IN  /\ Doing("dir")
        /\ FrameReady
        /\ ppm' = PPM_ALLOC(ppm, f, NoPage, FALSE)
        /\ dir' = [dir EXCEPT ![cur] = f]
        /\ job' = Job("swapfile", {}, TRUE)
        /\ UNCHANGED <<bsm, outside, live, cur, table, blocks, pte, reserved, ram,
                       stop, known>>

\* The swap file may grow, or fail to; then a page for the I/O buffer is
\* allocated and locked.  Without a swap file there is nothing to do.
BSM_INIT_CLIENT ==
    /\ Doing("swapfile")
    /\ IF bsm.total = 0
       THEN /\ live' = Append(live, cur)
            /\ job' = Idle
            /\ UNCHANGED <<ppm, bsm, blocks>>
       ELSE \E n \in {0, GrowBy(bsm)} :
              /\ IOPage(cur) \notin UNION blocks
              /\ bsm' = BSM_GROW(bsm, n)
              /\ LSM_ALLOC({IOPage(cur)}, BSFree(bsm) + n, TRUE)
              /\ UNCHANGED live
    /\ UNCHANGED <<outside, cur, dir, table, pte, reserved, ram, stop, known>>

\* Interrupt 31h, a callback or a return from nesting brings another client's
\* address space in.
DPMIFN_SWITCHADDR(c) ==
    /\ ClientRuns
    /\ c \in Live \ {cur}
    /\ cur' = c
    /\ UNCHANGED <<ppm, bsm, outside, live, dir, table, blocks, pte, reserved,
                   ram, job, stop, known>>

\* The client that was started last terminates.  Its blocks are freed as
\* VMM_FREE does it, which may need a page table first.
Terminate ==
    LET own == UNION {S \in blocks : S \subseteq Area(cur)}
        expand == table[cur] = UncommittedPDE /\ own \notin {{}, Area(cur)}
    IN  /\ ClientRuns
        /\ cur = live[Len(live)]
        /\ job' = Job(IF expand THEN "leave" ELSE "gone", {}, FALSE)
        /\ UNCHANGED <<ppm, bsm, outside, live, cur, dir, table, blocks, pte,
                       reserved, ram, stop, known>>

LeaveExpanded ==
    LET f == FreeHead(ppm)
    IN  /\ Doing("leave")
        /\ FrameReady
        /\ NewTable(cur, f)
        /\ job' = [job EXCEPT !.op = "gone"]
        /\ UNCHANGED <<bsm, outside, live, cur, dir, blocks, pte, reserved, ram,
                       stop, known>>

\* The client that is back when this one is gone: the one that started it.
Previous ==
    LET rest == IF cur \in Live THEN Len(live) - 1 ELSE Len(live)
    IN  IF rest = 0 THEN NoClient ELSE live[rest]

\* The last one; a client that failed to initialize is not counted.
LastClient == live = <<cur>>

\* What a client leaves behind: its linear space, and the frames of its pages,
\* page table and page directory.  Mutants: the pages of every client; not the
\* page directory.
LeftPages_All == UNION {Area(c) : c \in Clients}
LeftPages == Area(cur)
LeftFrames_NotDir == FramesOf(LeftPages) \cup ({table[cur]} \cap Frames)
LeftFrames == FramesOf(LeftPages) \cup ({table[cur], dir[cur]} \cap Frames)

\* Private pages, page table and page directory go back to the pool, and the
\* previous address space comes in.
VMM_TERMINATE_CLIENT ==
    LET A == LeftPages
        F == LeftFrames
    IN  /\ Doing("gone") /\ ~LastClient
        /\ ppm' = PPM_FREE(ppm, F)
        /\ bsm' = BSM_FREE(bsm, SlotsOf(A))
        /\ reserved' = reserved - ReservedOf(A)
        /\ pte' = [p \in Pages |-> IF p \in A THEN Unalloc ELSE pte[p]]
        /\ table' = [table EXCEPT ![cur] = NoTable]
        /\ dir' = [dir EXCEPT ![cur] = NoFrame]
        /\ blocks' = {S \in blocks : S \cap A = {}}
        /\ ram' = Wiped(F)
        /\ known' = known \ A
        /\ live' = IF cur \in Live THEN SubSeq(live, 1, Len(live) - 1) ELSE live
        /\ cur' = Previous
        /\ job' = Idle
        /\ UNCHANGED <<outside, stop>>

\* With the last client the pool goes back to the primary manager, and the
\* next client starts from VMM_INIT.
VMM_SHUTDOWN ==
    /\ Doing("gone") /\ LastClient
    /\ ppm' = PPM_INIT
    /\ bsm' = BSM_INIT(bsm.total)
    /\ reserved' = 0
    /\ pte' = [p \in Pages |-> Unalloc]
    /\ table' = [o \in Owners |-> NoTable]
    /\ dir' = [c \in Clients |-> NoFrame]
    /\ blocks' = {}
    /\ ram' = [f \in Frames |-> Junk]
    /\ known' = {}
    /\ live' = <<>>
    /\ cur' = NoClient
    /\ job' = Idle
    /\ UNCHANGED <<outside, stop>>

-----------------------------------------------------------------------------
Init ==
    /\ ppm = PPM_INIT
    /\ bsm = BSM_INIT(BSInit)
    /\ outside = {}
    /\ live = <<>>
    /\ cur = NoClient
    /\ dir = [c \in Clients |-> NoFrame]
    /\ table = [o \in Owners |-> NoTable]
    /\ blocks = {}
    /\ pte = [p \in Pages |-> Unalloc]
    /\ reserved = 0
    /\ ram = [f \in Frames |-> Junk]
    /\ job = Idle
    /\ stop = "none"
    /\ known = {}

\* What the VMM does by itself once a call, a fault or a drain has begun.
TakeFrame ==
    \/ LSM_NEW_PAGE_TABLE
    \/ FreeExpanded
    \/ LockReserved
    \/ LockSwapped
    \/ FaultReserved
    \/ FaultSwapped
    \/ LSM_INIT_CLIENT
    \/ LeaveExpanded

Host ==
    \/ FillPool
    \/ \E f \in Frames : VMM_SWAP_OUT(f)
    \/ TakeFrame
    \/ Overcommit
    \/ NoFrameLeft
    \/ Commit
    \/ LockIOBuffer
    \/ LockResident
    \/ LockStray
    \/ LockDone
    \/ DrainRelease
    \/ DrainSwap
    \/ DrainNothing
    \/ BSM_INIT_CLIENT
    \/ VMM_TERMINATE_CLIENT
    \/ VMM_SHUTDOWN

\* A call on a region of the client's address space.
Call(S) ==
    \/ VMM_ALLOC(S)
    \/ "uncommitted" \in Calls /\ AllocUncommitted(S)
    \/ VMM_FREE(S)
    \/ "lock" \in Calls /\ (VMM_LOCK(S) \/ VMM_UNLOCK(S))
    \/ "mark" \in Calls /\ VMM_MARK_CANDIDATES(S)
    \/ "discard" \in Calls /\ VMM_DISCARD_PAGES(S)

Client ==
    \/ \E o \in Mine \cap Owners : \E S \in Callable(o) : Call(S)
    \/ \E p \in Pages : VMM_PageFaultHandler(p) \/ Read(p)
    \/ \E p \in Pages, w \in Values : Write(p, w)
    \/ "query" \in Calls /\ VMM_QUERY
    \/ Terminate
    \/ \E c \in Clients : DPMIFN_SWITCHADDR(c) \/ VMM_INIT_CLIENT(c)

Primary ==
    \/ "external" \in Calls /\ (ExternalAlloc \/ ExternalFree)
    \/ \E n \in 1..MaxDrain : PPM_DRAIN_POOL(n)

\* At an int 3 the machine is left to the debugger.
Stopped == stop # "none" /\ UNCHANGED vars

Next == Host \/ Client \/ Primary \/ Stopped

Spec == Init /\ [][Next]_vars

\* A call that has begun is carried on: nothing preempts the VMM.
FairSpec == Spec /\ WF_vars(Host)
-----------------------------------------------------------------------------
(* Correctness. *)

EntryType ==
    [state : {"unalloc", "uncommitted", "reserved", "present", "locked",
              "swapped"},
     frame : Frames \cup {NoFrame}, slot : Slots \cup {NoSlot},
     dirty : BOOLEAN]

JobType ==
    [op : {"idle", "dir", "swapfile", "alloc", "lock", "locking", "fault",
           "expand", "leave", "gone", "drain", "pageout"},
     pages : SUBSET Pages, init : BOOLEAN, count : Nat, request : Nat]

\* Every variable keeps its type.
TypeOK ==
    /\ PpmType(ppm, Pages)
    /\ BsmType(bsm, Keys, Words)
    /\ outside \subseteq Frames
    /\ live \in Seq(Clients)
    /\ cur \in Clients \cup {NoClient}
    /\ dir \in [Clients -> Frames \cup {NoFrame}]
    /\ table \in [Owners -> Frames \cup {NoTable, UncommittedPDE}]
    /\ blocks \subseteq SUBSET Pages
    /\ pte \in [Pages -> EntryType]
    /\ reserved \in Int
    /\ ram \in [Frames -> Words]
    /\ job \in JobType
    /\ stop \in {"none", "overcommit", "noframe", "stray", "misowned"}
    /\ known \subseteq Pages

Residents == {p \in Pages : Resident(p)}
SwappedOut == {p \in Pages : IsSwapped(p)}
Tables == {o \in Owners : HasTable(o)}
Directories == {c \in Clients : dir[c] \in Frames}

\* The frames of resident pages, page tables and directories.
InUse ==
    FramesOf(Pages) \cup {table[o] : o \in Tables}
        \cup {dir[c] : c \in Directories}

\* No frame serves two purposes: every resident page, page table and page
\* directory has a frame of its own, which the pool has lent out and no other
\* program holds.  The record of a page's frame names that page, so that a swap
\* (VMM_SWAP_OUT) writes it under its name and changes its own entry, and only
\* pages that are not locked can be swapped.
FrameIsolation ==
    /\ InUse \subseteq ppm.alloced
    /\ ppm.managed \cap outside = {}
    /\ \A p \in Residents : ppm.addr[pte[p].frame] = p
    /\ \A f \in ppm.swappable :
         /\ ppm.addr[f] \in Residents
         /\ pte[ppm.addr[f]].frame = f
         /\ pte[ppm.addr[f]].state = "present"
    /\ \A o \in Tables : ppm.addr[table[o]] = NoPage
    /\ \A c \in Directories : ppm.addr[dir[c]] = NoPage
    /\ \A o, q \in Tables : table[o] = table[q] => o = q
    /\ \A c, d \in Directories : dir[c] = dir[d] => c = d
    /\ \A o \in Tables, c \in Directories : table[o] # dir[c]

\* No frame is lost: what the pool has lent out is in use (PPM_FREE is called
\* for every frame taken, once).
NoFrameLeak == ppm.alloced = InUse

\* No slot of the swap file holds two pages, and none that holds a page or is
\* remembered by the cache is free to be allocated again (BSM_FREE stops at an
\* int 3 when it frees a free slot).
SlotIsolation ==
    /\ \A p \in SwappedOut : pte[p].slot \in bsm.map \ CachedSlots(bsm)
    /\ \A p, q \in SwappedOut : pte[p].slot = pte[q].slot => p = q
    /\ CachedSlots(bsm) \subseteq bsm.map
    /\ \A i, j \in Cached(bsm) :
         bsm.cache[i].slot = bsm.cache[j].slot => i = j

\* No slot is lost: an allocated slot holds a page or is in the cache.
NoSlotLeak == bsm.map = SlotsOf(Pages) \cup CachedSlots(bsm)

\* The counters that every decision of the VMM rests on (PhysicalLocked,
\* PhysicalSwappable, VirtualReserved) count what they say.
CountersExact ==
    /\ ppm.nSwappable = Cardinality(ppm.swappable)
    /\ ppm.nLocked = Cardinality({f \in ppm.alloced : ppm.locks[f] > 0})
    /\ reserved = ReservedOf(Pages)

\* A frame is locked as often as needed to keep its page, and only then: the
\* lock count is that of a locked page, and a page that is not locked can be
\* swapped out.
LocksMatch ==
    \A p \in Residents :
        LET f == pte[p].frame
        IN  IF pte[p].state = "locked"
            THEN ppm.locks[f] > 0 /\ f \notin ppm.swappable
            ELSE ppm.locks[f] = 0 /\ f \in ppm.swappable

\* Every page that VMM_ALLOC has promised can still be given memory: free
\* frames, and slots that are free or that a flush of the cache frees, cover
\* all reserved pages.
CommitCovered ==
    reserved <= PhysicalFree(ppm) + Cardinality(Avail) + BSFree(bsm)
                  + Cardinality(CachedSlots(bsm))

\* Locks leave the working set that one instruction may need.
WorkingSetKept ==
    ppm.nLocked > 0 => Unlocked >= 0

\* A lock or a fault that must not fail gets its frame: the working set that
\* VMM_LOCK leaves unlocked holds a page that can be swapped out.
AlwaysAFrame == stop # "noframe"

\* A locked page stays in its frame until it is unlocked or freed, and when
\* it is unlocked it is dirty (a device may have written into the frame).
LockedFixed ==
    [][\A p \in Pages : pte[p].state = "locked" =>
          \/ pte'[p].state = "locked" /\ pte'[p].frame = pte[p].frame
          \/ pte'[p] = Present(pte[p].frame, TRUE)
          \/ pte'[p] = Unalloc /\ p.owner \in Mine]_vars

\* Of a client that is not the current one, a step may only swap pages out, and
\* what that client has stored in them must then be in the swap file.
OthersOnlySwapped ==
    [][\A p \in Pages : p.owner \notin Mine =>
          \/ pte'[p] = pte[p]
          \/ /\ pte[p].state = "present"
             /\ pte'[p].state = "swapped"
             /\ p \in known => bsm'.file[pte'[p].slot] = ram[pte[p].frame]]_vars

\* A page holds for its client what the client last stored in it, across
\* every swap, lock, switch of clients and termination of another client.
Contents(p) ==
    IF Resident(p) THEN ram[pte[p].frame]
    ELSE IF IsSwapped(p) THEN bsm.file[pte[p].slot] ELSE Junk
VM == INSTANCE VirtualMemory WITH
        Blank <- "blank",
        busy <- job # Idle,
        mem <- [p \in Pages |-> IF p \in known THEN Contents(p) ELSE "blank"]
ContentsKept == VM!Spec

\* A call, a fault or a drain that has begun comes to its end.
JobsEnd == job # Idle ~> (job = Idle \/ stop # "none")
=============================================================================
