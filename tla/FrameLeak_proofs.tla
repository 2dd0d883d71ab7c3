-------------------------- MODULE FrameLeak_proofs --------------------------
(***************************************************************************)
(* The proof that the virtual memory manager loses no frame, for any       *)
(* number of frames, clients, pages and slots: what the pool has lent out  *)
(* is the frame of a page, a page table or a page directory (NoFrameLeak). *)
(*                                                                         *)
(* FrameIsolation says that what is in use is allocated.  The other way    *)
(* round, Accounted, needs more than Inv knows: a frame that is taken for  *)
(* a page table or a page directory must not displace another one.  So a   *)
(* table is only made where there is none (TableMissing), and a client     *)
(* that starts has no page directory: who has one is nested, or about to   *)
(* be, or to go (DirsHeld), and only the last of the nested goes           *)
(* (LeaverOnTop).                                                          *)
(***************************************************************************)
EXTENDS DpmiVmm_proofs

HasPage(f) == \E p \in Pages : Resident(p) /\ pte[p].frame = f
UsedFor(f) ==
    \/ HasPage(f)
    \/ \E o \in Owners : table[o] = f
    \/ \E c \in Clients : dir[c] = f

\* Every frame that the pool has lent out is in use.
Accounted == \A f \in ppm.alloced : UsedFor(f)

\* A client that starts is not yet nested; these jobs are part of its start.
Starting == {"dir", "swapfile", "lock", "alloc", "locking"}
StartersNew ==
    /\ job.init => cur \notin Live /\ job.op \in Starting
    /\ job.op \in {"dir", "swapfile", "lock"} => job.init

\* Who has a page directory.
DirsHeld ==
    \A c \in Clients : dir[c] \in Frames =>
        \/ c \in Live
        \/ c = cur /\ job.init /\ job.op # "dir"
        \/ c = cur /\ job.op = "gone"

\* A nested client that goes is the last of them.
LeaverOnTop ==
    job.op \in {"gone", "leave"} /\ cur \in Live => cur = live[Len(live)]

\* A call that is to make a page table finds none.
TableMissing ==
    /\ job.op = "expand" => ~HasTable(JobOwner)
    /\ job.op = "leave" => ~HasTable(cur)

Held == StartersNew /\ DirsHeld /\ LeaverOnTop /\ TableMissing

FrameInv == Inv /\ Held /\ Accounted

-----------------------------------------------------------------------------
(* What is used stays in use. *)

\* NoFrameLeak, seen from the frames.
LEMMA AccountedImplies ==
  ASSUME TypeOK, FrameIsolation, Accounted
  PROVE  NoFrameLeak
<1>1. ppm.alloced \subseteq Frames
  BY DEF TypeOK, PpmType
<1>2. ppm.alloced \subseteq InUse
  BY <1>1 DEF Accounted, UsedFor, HasPage, InUse, FramesOf, Tables, HasTable,
              Directories
<1> QED
  BY <1>2 DEF FrameIsolation, NoFrameLeak

\* The frames gone are given back, the frames new are taken, and all others
\* are used as before.
LEMMA AccountsKept ==
  ASSUME Accounted, TypeOK, NEW gone, NEW new,
         ppm'.alloced \subseteq (ppm.alloced \ gone) \cup new,
         \A p \in Pages : Resident(p) /\ pte[p].frame \notin gone
              => Resident(p)' /\ pte'[p].frame = pte[p].frame,
         \A o \in Owners : table[o] \in Frames \ gone => table'[o] = table[o],
         \A c \in Clients : dir[c] \in Frames \ gone => dir'[c] = dir[c],
         \A f \in new : UsedFor(f)'
  PROVE  Accounted'
<1> SUFFICES ASSUME NEW f \in ppm.alloced \ gone
             PROVE  UsedFor(f)'
  BY DEF Accounted
<1>1. f \in Frames /\ UsedFor(f)
  BY DEF Accounted, TypeOK, PpmType
<1>2. CASE HasPage(f)
  BY <1>2 DEF UsedFor, HasPage
<1>3. CASE \E o \in Owners : table[o] = f
  BY <1>1, <1>3 DEF UsedFor
<1>4. CASE \E c \in Clients : dir[c] = f
  BY <1>1, <1>4 DEF UsedFor
<1> QED
  BY <1>1, <1>2, <1>3, <1>4 DEF UsedFor

\* No frame changes hands.
LEMMA SameFrames ==
  ASSUME Accounted, TypeOK, ppm'.alloced = ppm.alloced,
         \A p \in Pages : Resident(p) => Resident(p)' /\ pte'[p].frame = pte[p].frame,
         table' = table, dir' = dir
  PROVE  Accounted'
<1> DEFINE none == {}
<1>1. ppm'.alloced \subseteq (ppm.alloced \ none) \cup none
  OBVIOUS
<1>2. \A f \in none : UsedFor(f)'
  OBVIOUS
<1> QED
  BY <1>1, <1>2, AccountsKept

\* The kind of a job, and whether it belongs to the start of a client.
LEMMA JobInits ==
  /\ Idle.op = "idle" /\ ~Idle.init
  /\ \A op, S : /\ Job(op, S, TRUE).op = op /\ Job(op, S, TRUE).init
                /\ Job(op, S, FALSE).op = op /\ ~Job(op, S, FALSE).init
  /\ \A op, count, request : /\ DrainJob(op, count, request).op = op
                             /\ ~DrainJob(op, count, request).init
  /\ \A j \in JobType : \A op \in Ops : [j EXCEPT !.op = op].init = j.init
  /\ \A j \in JobType : \A p : [j EXCEPT !.pages = @ \ {p}].init = j.init
BY DEF JobType, Job, Idle, DrainJob, Ops

\* A job is over or begins: none of a client that starts or goes.
LEMMA OrdinaryJob ==
  ASSUME Held, UNCHANGED <<live, cur, dir>>,
         ~job.init, job.op # "gone",
         ~job'.init, job'.op \notin {"dir", "swapfile", "lock", "gone", "leave"},
         job'.op = "expand" => ~HasTable(JobOwner)'
  PROVE  Held'
<1>1. StartersNew' /\ LeaverOnTop' /\ TableMissing'
  BY DEF StartersNew, LeaverOnTop, TableMissing
<1>2. DirsHeld'
  BY DEF Held, DirsHeld, Live
<1> QED
  BY <1>1, <1>2 DEF Held

\* A client goes on starting, or has to give up.
LEMMA StartGoesOn ==
  ASSUME Held, TypeOK, UNCHANGED <<live, cur>>, job.init,
         \A c \in Clients : c # cur => dir'[c] = dir[c],
         \/ job'.init /\ job'.op \in Starting \ {"dir"}
         \/ ~job'.init /\ job'.op = "gone"
  PROVE  Held'
<1>1. cur \notin Live /\ cur' \notin Live' /\ Live' = Live
  BY DEF Held, StartersNew, Live
<1>2. StartersNew' /\ LeaverOnTop' /\ TableMissing'
  BY <1>1 DEF StartersNew, LeaverOnTop, TableMissing, Starting
<1>3. DirsHeld'
  <2> SUFFICES ASSUME NEW c \in Clients, dir'[c] \in Frames, c # cur
               PROVE  c \in Live
    BY <1>1 DEF DirsHeld, Starting
  <2> QED
    BY DEF Held, DirsHeld
<1> QED
  BY <1>2, <1>3 DEF Held

\* The job stays, or is still of its kind, and so do the clients.
LEMMA SameJob ==
  ASSUME Held, UNCHANGED <<live, cur, dir>>,
         job'.op = job.op, job'.init = job.init,
         job.op \in {"expand", "leave"} => job' = job /\ table' = table
  PROVE  Held'
<1>1. Live' = Live
  BY DEF Live
<1>2. StartersNew' /\ LeaverOnTop'
  BY <1>1 DEF Held, StartersNew, LeaverOnTop
<1>3. DirsHeld'
  BY <1>1 DEF Held, DirsHeld
<1>4. TableMissing'
  BY DEF Held, TableMissing, HasTable, JobOwner
<1> QED
  BY <1>2, <1>3, <1>4 DEF Held

\* The client that has started is nested.
LEMMA NestedNow ==
  ASSUME Held, TypeOK, cur \in Clients, job.init, job' = Idle,
         live' = Append(live, cur), UNCHANGED <<cur, dir>>
  PROVE  Held'
<1>1. Live' = Live \cup {cur}
  BY SMTT(30) DEF TypeOK, Live
<1>2. job'.op = "idle" /\ ~job'.init
  BY DEF Idle, Job
<1>3. StartersNew' /\ LeaverOnTop' /\ TableMissing'
  BY <1>2 DEF StartersNew, LeaverOnTop, TableMissing
<1>4. DirsHeld'
  BY <1>1 DEF Held, DirsHeld, StartersNew, Starting
<1> QED
  BY <1>3, <1>4 DEF Held

-----------------------------------------------------------------------------
(* Every step keeps what is held of starting and leaving clients. *)

\* Steps that leave the job as it is, or do one page of it.
LEMMA SameJobSteps ==
  ASSUME Inv, Held,
         \/ FillPool \/ Overcommit \/ LockStray \/ LSM_NEW_PAGE_TABLE
         \/ LockResident \/ LockReserved \/ LockSwapped
         \/ ExternalAlloc \/ ExternalFree \/ VMM_QUERY
         \/ \E S : \/ VMM_MARK_CANDIDATES(S) \/ VMM_DISCARD_PAGES(S)
                   \/ VMM_UNLOCK(S) \/ AllocUncommitted(S)
         \/ \E p : Read(p) \/ \E w : Write(p, w)
         \/ UNCHANGED vars
  PROVE  Held'
<1>1. job \in JobType
  BY JobFields DEF Inv
<1>2. CASE UNCHANGED <<live, cur, dir, table, job>>
  BY <1>2, SameJob
<1>3. CASE LSM_NEW_PAGE_TABLE
  BY <1>3, SameJob DEF LSM_NEW_PAGE_TABLE, Doing
<1>4. CASE LockResident \/ LockReserved \/ LockSwapped
  <2>1. /\ UNCHANGED <<live, cur, dir, table>> /\ job.op = "locking"
        /\ job' = [job EXCEPT !.pages = @ \ {NextPage}]
    BY <1>4 DEF LockResident, LockReserved, LockSwapped, Locking, Doing,
                LockedPage
  <2>2. job'.op = job.op /\ job'.init = job.init
    BY <1>1, <2>1, JobRecords, JobInits
  <2> QED
    BY <2>1, <2>2, SameJob
<1>5. CASE \E S : AllocUncommitted(S)
  <2>1. UNCHANGED <<live, cur, dir, job>> /\ job.op = "idle"
    BY <1>5 DEF AllocUncommitted, ClientRuns, Ready, Idle, Job
  <2> QED
    BY <2>1, SameJob
<1> QED
  BY <1>2, <1>3, <1>4, <1>5
     DEF FillPool, Overcommit, LockStray, ExternalAlloc, ExternalFree,
         VMM_QUERY, VMM_MARK_CANDIDATES, VMM_DISCARD_PAGES, VMM_UNLOCK, Read,
         Write, vars

\* A call, a fault or a drain begins, goes on or ends.
LEMMA OrdinarySteps ==
  ASSUME Inv, Held,
         \/ FreeExpanded \/ FaultReserved \/ FaultSwapped
         \/ DrainRelease \/ DrainSwap \/ DrainNothing
         \/ \E n : PPM_DRAIN_POOL(n)
         \/ \E p : VMM_PageFaultHandler(p)
         \/ \E S : VMM_LOCK(S) \/ VMM_ALLOC(S)
  PROVE  Held'
<1>1. UNCHANGED <<live, cur, dir>>
  BY DEF FreeExpanded, FaultReserved, FaultSwapped, DrainRelease, DrainSwap,
         DrainNothing, PPM_DRAIN_POOL, VMM_PageFaultHandler, VMM_LOCK, VMM_ALLOC
<1>2. job.op \in {"expand", "fault", "drain", "idle"}
  BY JobInits
     DEF FreeExpanded, FaultReserved, FaultSwapped, DrainRelease, DrainSwap,
         DrainNothing, PPM_DRAIN_POOL, VMM_PageFaultHandler, VMM_LOCK,
         VMM_ALLOC, Doing, ClientRuns, Ready
<1>3. ~job.init
  BY <1>2 DEF Held, StartersNew, Starting
<1>4. /\ ~job'.init
      /\ job'.op \in {"idle", "fault", "drain", "pageout", "locking", "alloc"}
  <2>1. CASE \E S : VMM_ALLOC(S)
    <3>1. PICK S : LSM_ALLOC(S, BSFree(bsm), FALSE)
      BY <2>1 DEF VMM_ALLOC
    <3>2. job' = Job("alloc", S, FALSE) \/ job' = Idle
      BY <3>1 DEF LSM_ALLOC
    <3>3. CASE job' = Job("alloc", S, FALSE)
      BY <3>3 DEF Job
    <3>4. CASE job' = Idle
      BY <3>4, JobInits
    <3> QED
      BY <3>2, <3>3, <3>4
  <2>2. CASE DrainSwap
    BY <2>2, JobInits DEF DrainSwap
  <2>3. CASE \E n : PPM_DRAIN_POOL(n)
    <3>1. PICK n : job' = DrainJob("drain", 0, n)
      BY <2>3 DEF PPM_DRAIN_POOL
    <3> QED
      BY <3>1 DEF DrainJob, Idle, Job
  <2>4. CASE (\E p : VMM_PageFaultHandler(p)) \/ \E S : VMM_LOCK(S)
    <3>1. PICK S : job' = Job("fault", S, FALSE) \/ job' = Job("locking", S, FALSE)
      BY <2>4 DEF VMM_PageFaultHandler, VMM_LOCK
    <3>2. CASE job' = Job("fault", S, FALSE)
      BY <3>2 DEF Job
    <3>3. CASE job' = Job("locking", S, FALSE)
      BY <3>3 DEF Job
    <3> QED
      BY <3>1, <3>2, <3>3
  <2>5. CASE \/ FreeExpanded \/ FaultReserved \/ FaultSwapped
             \/ DrainRelease \/ DrainNothing
    BY <2>5, JobInits
       DEF FreeExpanded, FaultReserved, FaultSwapped, DrainRelease, DrainNothing
  <2> QED
    BY <2>1, <2>2, <2>3, <2>4, <2>5
<1> QED
  BY <1>1, <1>2, <1>3, <1>4, OrdinaryJob

\* A page goes out for the job, or is one of those a drain wants out.
LEMMA SwapOutHeld ==
  ASSUME Held, NEW f, VMM_SWAP_OUT(f)
  PROVE  Held'
<1>1. UNCHANGED <<live, cur, dir, table>>
  BY DEF VMM_SWAP_OUT
<1>2. CASE job' = job
  BY <1>1, <1>2, SameJob
<1>3. CASE job' # job
  <2>1. job.op = "pageout" /\ job'.op \in {"pageout", "drain"} /\ ~job'.init
    BY <1>3, JobInits DEF VMM_SWAP_OUT
  <2>2. ~job.init
    BY <2>1 DEF Held, StartersNew, Starting
  <2> QED
    BY <1>1, <2>1, <2>2, OrdinaryJob
<1> QED
  BY <1>2, <1>3

\* VMM_FREE waits for a page table only where there is none.
LEMMA FreeHeld ==
  ASSUME Inv, Held, NEW o \in Owners, NEW S \in Callable(o), VMM_FREE(S)
  PROVE  Held'
<1>1. S # {} /\ \A p \in S : p.owner = o
  BY CallableType
<1>2. (CHOOSE p \in S : TRUE).owner = o
  BY <1>1, OwnerOf
<1>3. /\ UNCHANGED <<live, cur, dir>> /\ job = Idle
      /\ job.op = "idle" /\ ~job.init
  BY DEF VMM_FREE, ClientRuns, Ready, Idle, Job
<1>4. CASE job' = Idle
  BY <1>3, <1>4, OrdinaryJob
<1>5. CASE job' # Idle
  <2>1. /\ table[o] = UncommittedPDE /\ table' = table
        /\ job' = Job("expand", S, FALSE)
    BY <1>2, <1>3, <1>5 DEF VMM_FREE
  <2>2. job'.op = "expand" /\ ~job'.init /\ job'.pages = S
    BY <2>1 DEF Job
  <2>3. ~HasTable(JobOwner)'
    BY <1>2, <2>1, <2>2, VmmAssumption DEF JobOwner, HasTable
  <2> QED
    BY <1>3, <2>2, <2>3, OrdinaryJob
<1> QED
  BY <1>4, <1>5

\* The steps by which a client goes on starting, or gives up.
LEMMA StartJobs ==
  ASSUME Inv, Held,
         \/ LSM_INIT_CLIENT \/ LockIOBuffer
         \/ BSM_INIT_CLIENT /\ bsm.total # 0
         \/ Commit /\ job.init
  PROVE  /\ UNCHANGED <<live, cur>> /\ job.init
         /\ \/ job'.init /\ job'.op \in Starting \ {"dir"}
            \/ ~job'.init /\ job'.op = "gone"
<1>1. /\ job.init /\ job \in JobType /\ UNCHANGED <<live, cur>>
  <2>1. job.init
    BY DEF Held, StartersNew, LSM_INIT_CLIENT, BSM_INIT_CLIENT, LockIOBuffer,
           Doing
  <2>2. UNCHANGED <<live, cur>>
    BY DEF LSM_INIT_CLIENT, BSM_INIT_CLIENT, LockIOBuffer, Commit
  <2> QED
    BY <2>1, <2>2, JobFields DEF Inv
<1>2. \/ job' = [job EXCEPT !.op = "locking"]
      \/ job' = Job("swapfile", {}, TRUE)
      \/ \E S : job' = Job("alloc", S, TRUE)
      \/ job' = Job("lock", job.pages, TRUE)
      \/ job' = Job("gone", {}, FALSE)
  BY DEF LSM_INIT_CLIENT, LockIOBuffer, BSM_INIT_CLIENT, LSM_ALLOC, Commit
<1>3. CASE job' = [job EXCEPT !.op = "locking"]
  BY <1>1, <1>3, JobRecords, JobInits DEF Ops, Starting
<1>4. CASE job' = Job("swapfile", {}, TRUE)
  BY <1>1, <1>4 DEF Job, Starting
<1>5. CASE \E S : job' = Job("alloc", S, TRUE)
  BY <1>1, <1>5 DEF Job, Starting
<1>6. CASE job' = Job("lock", job.pages, TRUE)
  BY <1>1, <1>6 DEF Job, Starting
<1>7. CASE job' = Job("gone", {}, FALSE)
  BY <1>1, <1>7 DEF Job
<1> QED
  BY <1>1, <1>2, <1>3, <1>4, <1>5, <1>6, <1>7

\* The first block of a client that starts is committed, or one of a client
\* that runs.
LEMMA CommitHeld ==
  ASSUME Inv, Held, Commit
  PROVE  Held'
<1>1. UNCHANGED <<live, cur, dir>> /\ job.op = "alloc" /\ TypeOK
  BY DEF Commit, Doing, Inv
<1>2. CASE job.init
  BY <1>1, <1>2, StartJobs, StartGoesOn
<1>3. CASE ~job.init
  <2>1. job'.op = "idle" /\ ~job'.init
    BY <1>3, JobInits DEF Commit
  <2> QED
    BY <1>1, <1>3, <2>1, OrdinaryJob
<1> QED
  BY <1>2, <1>3

\* A client gets its page directory, its share of the swap file and its buffer.
LEMMA StartSteps ==
  ASSUME Inv, Held, LSM_INIT_CLIENT \/ BSM_INIT_CLIENT \/ LockIOBuffer
  PROVE  Held'
<1>1. TypeOK /\ \A c \in Clients : c # cur => dir'[c] = dir[c]
  BY DEF Inv, TypeOK, LSM_INIT_CLIENT, BSM_INIT_CLIENT, LockIOBuffer
<1>2. CASE \/ LSM_INIT_CLIENT \/ LockIOBuffer
           \/ BSM_INIT_CLIENT /\ bsm.total # 0
  BY <1>1, <1>2, StartJobs, StartGoesOn
<1>3. CASE BSM_INIT_CLIENT /\ bsm.total = 0
  <2>1. job.init /\ cur \in Clients
    BY <1>3, Begun DEF BSM_INIT_CLIENT, Doing, Held, StartersNew
  <2> QED
    BY <1>1, <1>3, <2>1, NestedNow DEF BSM_INIT_CLIENT
<1> QED
  BY <1>2, <1>3

\* A lock is complete.
LEMMA LockDoneHeld ==
  ASSUME Inv, Held, LockDone
  PROVE  Held'
<1>1. /\ UNCHANGED <<cur, dir>> /\ job.op = "locking" /\ job' = Idle
      /\ TypeOK /\ cur \in Clients
  BY Begun DEF LockDone, Doing, Inv
<1>2. CASE job.init
  BY <1>1, <1>2, NestedNow DEF LockDone
<1>3. CASE ~job.init
  <2>1. live' = live /\ job'.op = "idle" /\ ~job'.init
    BY <1>1, <1>3 DEF LockDone, Idle, Job
  <2> QED
    BY <1>1, <1>3, <2>1, OrdinaryJob
<1> QED
  BY <1>2, <1>3

\* No frame is left: a start that is given up has got no page directory yet.
LEMMA NoFrameHeld ==
  ASSUME Inv, Held, NoFrameLeft
  PROVE  Held'
<1>1. UNCHANGED <<live, cur, dir, table>> /\ job \in JobType /\ Live' = Live
  BY JobFields DEF NoFrameLeft, Inv, Live
<1>2. CASE job.op \in {"dir", "expand"}
  <2>1. job' = Idle /\ job'.op = "idle" /\ ~job'.init
    BY <1>2 DEF NoFrameLeft, Idle, Job
  <2>2. StartersNew' /\ LeaverOnTop' /\ TableMissing'
    BY <2>1 DEF StartersNew, LeaverOnTop, TableMissing
  <2>3. DirsHeld'
    BY <1>1, <1>2 DEF Held, DirsHeld, StartersNew, Starting
  <2> QED
    BY <2>2, <2>3 DEF Held
<1>3. CASE job.op = "leave"
  <2>1. job' = [job EXCEPT !.op = "gone"] /\ ~job.init
    BY <1>3 DEF NoFrameLeft, Held, StartersNew, Starting
  <2>2. job'.op = "gone" /\ ~job'.init
    BY <1>1, <2>1, JobRecords, JobInits DEF Ops
  <2>3. StartersNew' /\ LeaverOnTop' /\ TableMissing'
    BY <1>1, <1>3, <2>2 DEF Held, StartersNew, LeaverOnTop, TableMissing
  <2>4. DirsHeld'
    BY <1>1, <1>3, <2>1 DEF Held, DirsHeld
  <2> QED
    BY <2>3, <2>4 DEF Held
<1>4. CASE job.op \notin {"dir", "expand", "leave"}
  BY <1>1, <1>4, SameJob DEF NoFrameLeft
<1> QED
  BY <1>2, <1>3, <1>4

\* A client begins to start, another is switched to, or one begins to go.
LEMMA SwitchHeld ==
  ASSUME Inv, Held,
         \/ \E c \in Clients : DPMIFN_SWITCHADDR(c) \/ VMM_INIT_CLIENT(c)
         \/ Terminate \/ LeaveExpanded
  PROVE  Held'
<1>1. UNCHANGED <<live, dir>> /\ job \in JobType /\ Live' = Live
  <2>1. UNCHANGED <<live, dir>>
    BY DEF DPMIFN_SWITCHADDR, VMM_INIT_CLIENT, Terminate, LeaveExpanded
  <2> QED
    BY <2>1, JobFields DEF Inv, Live
<1>2. CASE \E c \in Clients : DPMIFN_SWITCHADDR(c) \/ VMM_INIT_CLIENT(c)
  <2>1. job.op = "idle" /\ ~job.init
    BY <1>2 DEF DPMIFN_SWITCHADDR, VMM_INIT_CLIENT, ClientRuns, Ready, Idle, Job
  <2>2. \/ job'.op = "idle" /\ ~job'.init
        \/ job'.op = "dir" /\ job'.init /\ cur' \notin Live
    BY <1>2, <2>1 DEF DPMIFN_SWITCHADDR, VMM_INIT_CLIENT, Job
  <2>3. StartersNew' /\ LeaverOnTop' /\ TableMissing'
    BY <1>1, <2>2 DEF StartersNew, LeaverOnTop, TableMissing, Starting
  <2>4. DirsHeld'
    BY <1>1, <2>1 DEF Held, DirsHeld
  <2> QED
    BY <2>3, <2>4 DEF Held
<1>3. CASE Terminate
  <2>1. /\ cur' = cur /\ table' = table /\ job.op = "idle" /\ ~job.init
        /\ cur = live[Len(live)]
    BY <1>3 DEF Terminate, ClientRuns, Ready, Idle, Job
  <2>2. /\ job'.op \in {"gone", "leave"} /\ ~job'.init
        /\ job'.op = "leave" => table[cur] = UncommittedPDE
    BY <1>3 DEF Terminate, Job
  <2>3. StartersNew' /\ LeaverOnTop'
    BY <1>1, <2>1, <2>2 DEF StartersNew, LeaverOnTop
  <2>4. TableMissing'
    BY <2>1, <2>2, VmmAssumption DEF TableMissing, HasTable
  <2>5. DirsHeld'
    BY <1>1, <2>1 DEF Held, DirsHeld
  <2> QED
    BY <2>3, <2>4, <2>5 DEF Held
<1>4. CASE LeaveExpanded
  <2>1. /\ cur' = cur /\ job.op = "leave" /\ ~job.init
        /\ job' = [job EXCEPT !.op = "gone"]
    BY <1>4 DEF LeaveExpanded, Doing, Held, StartersNew, Starting
  <2>2. job'.op = "gone" /\ ~job'.init
    BY <1>1, <2>1, JobRecords, JobInits DEF Ops
  <2>3. StartersNew' /\ LeaverOnTop' /\ TableMissing'
    BY <1>1, <2>1, <2>2 DEF Held, StartersNew, LeaverOnTop, TableMissing
  <2>4. DirsHeld'
    BY <1>1, <2>1 DEF Held, DirsHeld
  <2> QED
    BY <2>3, <2>4 DEF Held
<1> QED
  BY <1>2, <1>3, <1>4

\* The other clients stay nested when one goes.
LEMMA OthersStay ==
  ASSUME Inv, Held, VMM_TERMINATE_CLIENT, NEW c \in Live, c # cur
  PROVE  c \in Live'
<1>1. job.op = "gone" /\ live \in Seq(Clients)
  BY DEF VMM_TERMINATE_CLIENT, Doing, Inv, TypeOK
<1>2. CASE cur \notin Live
  BY <1>2 DEF VMM_TERMINATE_CLIENT, Live
<1>3. CASE cur \in Live
  <2>1. cur = live[Len(live)] /\ live' = SubSeq(live, 1, Len(live) - 1)
    BY <1>1, <1>3 DEF VMM_TERMINATE_CLIENT, Held, LeaverOnTop
  <2>2. PICK i \in 1..Len(live) : c = live[i]
    BY <1>1 DEF Live
  <2>3. i \in 1..(Len(live) - 1)
    BY <1>1, <2>1, <2>2
  <2>4. i \in DOMAIN live' /\ live'[i] = c
    BY <1>1, <2>1, <2>2, <2>3
  <2> QED
    BY <2>4 DEF Live
<1> QED
  BY <1>2, <1>3

\* With a client its page directory goes.
LEMMA GoneHeld ==
  ASSUME Inv, Held, VMM_TERMINATE_CLIENT \/ VMM_SHUTDOWN
  PROVE  Held'
<1>1. job' = Idle /\ job'.op = "idle" /\ ~job'.init
  BY JobInits DEF VMM_TERMINATE_CLIENT, VMM_SHUTDOWN
<1>2. StartersNew' /\ LeaverOnTop' /\ TableMissing'
  BY <1>1 DEF StartersNew, LeaverOnTop, TableMissing
<1>3. DirsHeld'
  <2>1. CASE VMM_SHUTDOWN
    BY <2>1, VmmAssumption DEF VMM_SHUTDOWN, DirsHeld
  <2>2. CASE VMM_TERMINATE_CLIENT
    <3> SUFFICES ASSUME NEW c \in Clients, dir'[c] \in Frames
                 PROVE  c \in Live'
      BY DEF DirsHeld
    <3>1. /\ job.op = "gone" /\ dir' = [dir EXCEPT ![cur] = NoFrame]
          /\ dir \in [Clients -> Frames \cup {NoFrame}] /\ cur \in Clients
      BY <2>2, Begun DEF VMM_TERMINATE_CLIENT, Doing, Inv, TypeOK
    <3>2. c # cur /\ dir[c] \in Frames
      BY <3>1, VmmAssumption
    <3>3. c \in Live
      BY <3>1, <3>2 DEF Held, DirsHeld
    <3> QED
      BY <2>2, <3>2, <3>3, OthersStay
  <2> QED
    BY <2>1, <2>2
<1> QED
  BY <1>2, <1>3 DEF Held

-----------------------------------------------------------------------------
(* Every step accounts for the frames it takes and gives back. *)

\* A frame that is taken for a page is that page's.
LEMMA PageAccounts ==
  ASSUME Accounted, TypeOK, NEW f \in Frames, NEW page \in Pages, ~Resident(page),
         NEW dirty,
         \/ pte' = [pte EXCEPT ![page] = Present(f, dirty)]
         \/ pte' = [pte EXCEPT ![page] = Locked(f, dirty)],
         ppm'.alloced = ppm.alloced \cup {f}, table' = table, dir' = dir
  PROVE  Accounted'
<1>1. pte \in [Pages -> EntryType]
  BY DEF TypeOK
<1>2. pte'[page].state \in {"present", "locked"} /\ pte'[page].frame = f
  BY <1>1, EntryStates
<1>3. PICK gone, new : gone = {} /\ new = {f}
  OBVIOUS
<1>4. \A p \in Pages : Resident(p) /\ pte[p].frame \notin gone
                          => Resident(p)' /\ pte'[p].frame = pte[p].frame
  BY <1>1 DEF Resident
<1>5. \A g \in new : UsedFor(g)'
  BY <1>2, <1>3 DEF UsedFor, HasPage, Resident
<1> QED
  BY <1>3, <1>4, <1>5, AccountsKept

\* A frame that is taken for a page table is that table, and displaces none.
LEMMA TableAccounts ==
  ASSUME Accounted, TypeOK, NEW f \in Frames, NEW o \in Owners, ~HasTable(o),
         table' = [table EXCEPT ![o] = f], dir' = dir,
         ppm'.alloced = ppm.alloced \cup {f},
         \A p \in Pages : Resident(p) => Resident(p)' /\ pte'[p].frame = pte[p].frame
  PROVE  Accounted'
<1>1. table \in [Owners -> Frames \cup {NoTable, UncommittedPDE}]
  BY DEF TypeOK
<1>2. PICK gone, new : gone = {} /\ new = {f}
  OBVIOUS
<1>3. \A q \in Owners : table[q] \in Frames \ gone => table'[q] = table[q]
  BY <1>1 DEF HasTable
<1>4. \A g \in new : UsedFor(g)'
  BY <1>1, <1>2 DEF UsedFor
<1> QED
  BY <1>2, <1>3, <1>4, AccountsKept

\* The pages of a region give their frames back, and so does the page table if
\* the region is all that it maps.
LEMMA RegionAccounts ==
  ASSUME Accounted, Inv, NEW o \in Owners, NEW S, S # {}, S \subseteq Pages,
         \A p \in S : p.owner = o, NEW entry, NEW pde,
         LSM_SETN_PTES(S, entry, pde),
         ppm' = PPM_FREE(ppm, FramesOf(S) \cup TableOf(S)), dir' = dir
  PROVE  Accounted'
<1>1. /\ TypeOK /\ Framed /\ PpmType(ppm, Pages)
      /\ table \in [Owners -> Frames \cup {NoTable, UncommittedPDE}]
  BY DEF Inv, TypeOK
<1>2. (CHOOSE p \in S : TRUE).owner = o
  BY OwnerOf
<1>3. /\ pte' = [p \in Pages |-> IF p \in S THEN entry ELSE pte[p]]
      /\ table' = IF S = Area(o) THEN [table EXCEPT ![o] = pde] ELSE table
  BY <1>2 DEF LSM_SETN_PTES
<1>4. PICK gone, new : gone = FramesOf(S) \cup TableOf(S) /\ new = {}
  OBVIOUS
<1>5. ppm'.alloced \subseteq (ppm.alloced \ gone) \cup new
  <2>1. gone \subseteq Frames
    BY <1>1, <1>4, FramesOfType, TableOfType
  <2> QED
    BY <1>1, <1>4, <2>1, FreeRecord
<1>6. \A p \in Pages : Resident(p) /\ pte[p].frame \notin gone
                          => Resident(p)' /\ pte'[p].frame = pte[p].frame
  BY <1>1, <1>3, <1>4, FramesOfType DEF Resident
<1>7. \A q \in Owners : table[q] \in Frames \ gone => table'[q] = table[q]
  <2> SUFFICES ASSUME NEW q \in Owners, table[q] \in Frames \ gone,
                      S = Area(o), q = o
               PROVE  FALSE
    BY <1>1, <1>3
  <2> QED
    BY <1>1, <1>4, TableOfType DEF HasTable
<1>8. \A f \in new : UsedFor(f)'
  BY <1>4
<1>9. \A c \in Clients : dir[c] \in Frames \ gone => dir'[c] = dir[c]
  OBVIOUS
<1> QED
  BY <1>1, <1>5, <1>6, <1>7, <1>8, <1>9, AccountsKept

\* Steps that take no frame and give none back.
LEMMA SameFrameSteps ==
  ASSUME Accounted, Inv,
         \/ Overcommit \/ NoFrameLeft \/ LockStray \/ LockIOBuffer \/ LockDone
         \/ ExternalAlloc \/ ExternalFree \/ DrainSwap \/ DrainNothing
         \/ Terminate
         \/ \E n : PPM_DRAIN_POOL(n)
         \/ \E c : DPMIFN_SWITCHADDR(c) \/ VMM_INIT_CLIENT(c)
         \/ \E S : VMM_LOCK(S) \/ VMM_MARK_CANDIDATES(S)
         \/ \E p : VMM_PageFaultHandler(p) \/ Read(p)
         \/ UNCHANGED vars
  PROVE  Accounted'
<1>1. UNCHANGED <<pte, table, dir>>
  BY DEF Overcommit, NoFrameLeft, LockStray, LockIOBuffer, LockDone,
         ExternalAlloc, ExternalFree, DrainSwap, DrainNothing, Terminate,
         PPM_DRAIN_POOL, DPMIFN_SWITCHADDR, VMM_INIT_CLIENT, VMM_LOCK,
         VMM_MARK_CANDIDATES, VMM_PageFaultHandler, Read, vars
<1>2. ppm'.alloced = ppm.alloced
  <2>1. CASE \E S : VMM_MARK_CANDIDATES(S)
    BY <2>1 DEF VMM_MARK_CANDIDATES, PPM_MARK, Inv, TypeOK, PpmType
  <2> QED
    BY <2>1
       DEF Overcommit, NoFrameLeft, LockStray, LockIOBuffer, LockDone,
           ExternalAlloc, ExternalFree, DrainSwap, DrainNothing, Terminate,
           PPM_DRAIN_POOL, DPMIFN_SWITCHADDR, VMM_INIT_CLIENT, VMM_LOCK,
           VMM_PageFaultHandler, Read, vars
<1> QED
  BY <1>1, <1>2, SameFrames DEF Inv, Resident

\* The pool is topped up or drained; nothing that is lent out is touched.
LEMMA PoolAccounts ==
  ASSUME Accounted, Inv,
         \/ FillPool \/ VMM_QUERY \/ DrainRelease \/ BSM_INIT_CLIENT
         \/ \E S : VMM_ALLOC(S)
  PROVE  Accounted'
<1>1. PpmType(ppm, Pages) /\ Avail \subseteq Frames /\ TypeOK
  BY DEF Inv, TypeOK, Avail
<1>2. UNCHANGED <<pte, table, dir>>
  BY DEF FillPool, VMM_QUERY, DrainRelease, BSM_INIT_CLIENT, VMM_ALLOC
<1>3. ppm'.alloced = ppm.alloced
  <2>1. CASE FillPool \/ VMM_QUERY
    BY <1>1, <2>1, FillPoolRecord DEF FillPool, VMM_QUERY
  <2>2. CASE DrainRelease
    BY <1>1, <2>2, ReleaseRecord DEF DrainRelease
  <2>3. CASE ppm' = PPM_QUERY(ppm, Avail)
    BY <1>1, <2>3, FillPoolRecord
  <2>4. BSM_INIT_CLIENT => ppm' = PPM_QUERY(ppm, Avail) \/ ppm' = ppm
    BY DEF BSM_INIT_CLIENT, LSM_ALLOC
  <2>5. (\E S : VMM_ALLOC(S)) => ppm' = PPM_QUERY(ppm, Avail)
    BY DEF VMM_ALLOC, LSM_ALLOC
  <2> QED
    BY <2>1, <2>2, <2>3, <2>4, <2>5
<1> QED
  BY <1>1, <1>2, <1>3, SameFrames DEF Resident

\* Locking, unlocking or storing in a page leaves it in its frame.
LEMMA EntryAccounts ==
  ASSUME Accounted, Inv,
         \/ LockResident
         \/ \E S : S \subseteq Pages /\ VMM_UNLOCK(S)
         \/ \E p \in Pages : \E w : Write(p, w)
  PROVE  Accounted'
<1>1. TypeOK /\ Framed /\ PpmType(ppm, Pages) /\ pte \in [Pages -> EntryType]
  BY DEF Inv, TypeOK
<1>2. UNCHANGED <<table, dir>>
  BY DEF LockResident, VMM_UNLOCK, Write
<1>3. CASE LockResident
  <2>1. PICK page, f : page = NextPage /\ f = pte[page].frame
    OBVIOUS
  <2>2. /\ page \in Pages /\ Resident(page)
        /\ ppm' = PPM_LOCK(ppm, f)
        /\ pte' = [pte EXCEPT ![page] = Locked(f, FALSE)]
    BY <1>3, <2>1, JobPage DEF LockResident
  <2>3. f \in Frames
    BY <1>1, <2>1, <2>2 DEF Framed, PagesFramed, PpmType
  <2>4. /\ PpmType(ppm', Pages)
        /\ ppm'.managed = ppm.managed /\ ppm'.alloced = ppm.alloced
        /\ ppm'.addr = ppm.addr
        /\ IF ppm.locks[f] = MaxLocks
           THEN ppm'.swappable = ppm.swappable /\ ppm'.locks = ppm.locks
           ELSE /\ ppm'.swappable = ppm.swappable \ {f}
                /\ ppm'.locks = [ppm.locks EXCEPT ![f] = @ + 1]
    BY <1>1, <2>2, <2>3, LockRecord
  <2>5. /\ pte'[page].state = "locked" /\ pte'[page].frame = f
        /\ \A p \in Pages : p # page => pte'[p] = pte[p]
    BY <1>1, <2>2, EntryStates, ZenonT(60)
  <2>6. \A p \in Pages : Resident(p) => Resident(p)' /\ pte'[p].frame = pte[p].frame
    BY <2>1, <2>5 DEF Resident
  <2> QED
    BY <1>1, <1>2, <2>4, <2>6, SameFrames
<1>4. CASE \E S : S \subseteq Pages /\ VMM_UNLOCK(S)
  <2>1. PICK S : /\ S \subseteq Pages
                 /\ ppm' = PPM_UNLOCK(ppm, FramesOf(S))
                 /\ pte' = [p \in Pages |->
                              IF p \in S
                                 /\ pte[p].frame \in LastLock(ppm, FramesOf(S))
                              THEN Present(pte[p].frame, TRUE) ELSE pte[p]]
    BY <1>4 DEF VMM_UNLOCK
  <2>2. FramesOf(S) \subseteq ppm.alloced
    BY <1>1, <2>1 DEF FramesOf, Framed, PagesFramed
  <2>3. PpmType(ppm', Pages) /\ ppm'.alloced = ppm.alloced
    BY <1>1, <2>1, <2>2, UnlockRecord
  <2>4. \A p \in Pages : Resident(p) => Resident(p)' /\ pte'[p].frame = pte[p].frame
    <3> SUFFICES ASSUME NEW p \in Pages, Resident(p)
                 PROVE  Resident(p)' /\ pte'[p].frame = pte[p].frame
      OBVIOUS
    <3>1. pte'[p] = pte[p] \/ pte'[p] = Present(pte[p].frame, TRUE)
      BY <2>1
    <3> QED
      BY <3>1 DEF Resident, Present, Entry
  <2> QED
    BY <1>1, <1>2, <2>3, <2>4, SameFrames
<1>5. CASE \E p \in Pages : \E w : Write(p, w)
  <2>1. PICK p \in Pages : pte' = [pte EXCEPT ![p].dirty = TRUE] /\ ppm' = ppm
    BY <1>5 DEF Write
  <2>2. \A q \in Pages : Resident(q) => Resident(q)' /\ pte'[q].frame = pte[q].frame
    BY <1>1, <2>1 DEF Resident, EntryType
  <2> QED
    BY <1>1, <1>2, <2>1, <2>2, SameFrames
<1> QED
  BY <1>3, <1>4, <1>5

\* The steps that take a frame for a page.
LEMMA PageSteps ==
  ASSUME Accounted, Inv,
         LockReserved \/ LockSwapped \/ FaultReserved \/ FaultSwapped
  PROVE  Accounted'
<1>1. TypeOK /\ PpmType(ppm, Pages) /\ UNCHANGED <<table, dir>>
  BY DEF Inv, TypeOK, LockReserved, LockSwapped, FaultReserved, FaultSwapped
<1>2. PICK f, page : f = FreeHead(ppm) /\ page = NextPage
  OBVIOUS
<1>3. page \in Pages /\ ~Resident(page)
  BY <1>2, JobPage
     DEF LockReserved, LockSwapped, FaultReserved, FaultSwapped, IsReserved,
         IsSwapped, Resident
<1>4. f \in Free(ppm) /\ f \in Frames
  BY <1>1, <1>2, FreeHeadType
     DEF LockReserved, LockSwapped, FaultReserved, FaultSwapped, FrameReady
<1>5. CASE LockReserved \/ LockSwapped
  <2>1. /\ ppm' = PPM_LOCK(Fixed(ppm, f, page), f)
        /\ pte' = [pte EXCEPT ![page] = Locked(f, FALSE)]
    BY <1>2, <1>5 DEF LockReserved, LockSwapped, Fixed
  <2>2. /\ PpmType(ppm', Pages)
        /\ ppm'.managed = ppm.managed
        /\ ppm'.alloced = ppm.alloced \cup {f}
        /\ ppm'.swappable = ppm.swappable
        /\ ppm'.locks = [ppm.locks EXCEPT ![f] = 1]
        /\ ppm'.addr = [ppm.addr EXCEPT ![f] = page]
    BY <1>1, <1>3, <1>4, <2>1, LockedPageRecord
  <2> QED
    BY <1>1, <1>3, <1>4, <2>1, <2>2, PageAccounts
<1>6. CASE FaultReserved \/ FaultSwapped
  <2>1. /\ ppm' = Pageable(ppm, f, page)
        /\ pte' = [pte EXCEPT ![page] = Present(f, FALSE)]
    BY <1>2, <1>6 DEF FaultReserved, FaultSwapped, Pageable
  <2>2. /\ PpmType(ppm', Pages)
        /\ ppm'.managed = ppm.managed
        /\ ppm'.alloced = ppm.alloced \cup {f}
        /\ ppm'.swappable = ppm.swappable \cup {f}
        /\ ppm'.locks = [ppm.locks EXCEPT ![f] = 0]
        /\ ppm'.addr = [ppm.addr EXCEPT ![f] = page]
    BY <1>1, <1>3, <1>4, <2>1, PageableRecord
  <2> QED
    BY <1>1, <1>3, <1>4, <2>1, <2>2, PageAccounts
<1> QED
  BY <1>5, <1>6

\* The steps that take a frame for a page table or a page directory.
LEMMA TableAndDirSteps ==
  ASSUME Accounted, Inv, Held,
         \/ LSM_NEW_PAGE_TABLE \/ FreeExpanded \/ LeaveExpanded
         \/ LSM_INIT_CLIENT
  PROVE  Accounted'
<1>1. /\ TypeOK /\ PpmType(ppm, Pages) /\ pte \in [Pages -> EntryType]
      /\ dir \in [Clients -> Frames \cup {NoFrame}]
  BY DEF Inv, TypeOK
<1>2. PICK f : f = FreeHead(ppm)
  OBVIOUS
<1>3. f \in Free(ppm) /\ f \in Frames
  BY <1>1, <1>2, FreeHeadType
     DEF LSM_NEW_PAGE_TABLE, FreeExpanded, LeaveExpanded, LSM_INIT_CLIENT,
         FrameReady
<1>4. /\ PpmType(ppm', Pages)
      /\ ppm'.managed = ppm.managed
      /\ ppm'.alloced = ppm.alloced \cup {f}
      /\ ppm'.swappable = ppm.swappable
      /\ ppm'.locks = [ppm.locks EXCEPT ![f] = 0]
      /\ ppm'.addr = [ppm.addr EXCEPT ![f] = NoPage]
  <2>1. ppm' = Fixed(ppm, f, NoPage) /\ NoPage \in Pages \cup {NoPage}
    BY <1>2
       DEF LSM_NEW_PAGE_TABLE, FreeExpanded, LeaveExpanded, LSM_INIT_CLIENT,
           NewTable, Fixed
  <2> QED
    BY <1>1, <1>3, <2>1, FixedRecord, SMTT(30)
<1>5. \A p \in Pages : Resident(p) => Resident(p)' /\ pte'[p].frame = pte[p].frame
  <2>1. CASE FreeExpanded
    <3>1. pte' = [p \in Pages |-> IF p \in job.pages THEN Unalloc ELSE pte[p]]
      BY <2>1 DEF FreeExpanded
    <3>2. \A p \in job.pages : ~Resident(p)
      BY <2>1 DEF FreeExpanded, Doing, Inv, JobSound, Clean, Resident
    <3> QED
      BY <3>1, <3>2 DEF Resident
  <2>2. CASE LSM_NEW_PAGE_TABLE \/ LeaveExpanded \/ LSM_INIT_CLIENT
    <3>1. pte' = pte
      BY <2>2 DEF LSM_NEW_PAGE_TABLE, LeaveExpanded, LSM_INIT_CLIENT
    <3> QED
      BY <3>1 DEF Resident
  <2> QED
    BY <2>1, <2>2
<1>6. CASE LSM_NEW_PAGE_TABLE \/ FreeExpanded
  <2>1. /\ job.op \in {"alloc", "expand"} /\ dir' = dir
        /\ table' = [table EXCEPT ![JobOwner] = f] /\ ~HasTable(JobOwner)
    BY <1>2, <1>6
       DEF LSM_NEW_PAGE_TABLE, FreeExpanded, NewTable, Doing, Held, TableMissing
  <2>2. JobOwner \in Owners
    <3>1. job.pages # {} /\ job.pages \subseteq Pages
      BY <1>1, <2>1, JobFields DEF Inv, JobSound, Mapped, BlocksOwned
    <3>2. (CHOOSE p \in job.pages : TRUE) \in Pages
      BY <3>1
    <3> QED
      BY <3>2, PagesType DEF JobOwner
  <2> QED
    BY <1>1, <1>3, <1>4, <1>5, <2>1, <2>2, TableAccounts
<1>7. CASE LeaveExpanded
  <2>1. /\ dir' = dir /\ table' = [table EXCEPT ![cur] = f] /\ ~HasTable(cur)
        /\ cur \in Owners
    BY <1>2, <1>7, Begun
       DEF LeaveExpanded, NewTable, Doing, Held, TableMissing, Owners
  <2> QED
    BY <1>1, <1>3, <1>4, <1>5, <2>1, TableAccounts
<1>8. CASE LSM_INIT_CLIENT
  <2>1. /\ dir' = [dir EXCEPT ![cur] = f] /\ table' = table /\ cur \in Clients
        /\ job.op = "dir"
    BY <1>2, <1>8, Begun DEF LSM_INIT_CLIENT, Doing
  <2>2. dir[cur] \notin Frames
    BY <2>1 DEF Held, DirsHeld, StartersNew
  <2>3. PICK gone, new : gone = {} /\ new = {f}
    OBVIOUS
  <2>4. \A g \in new : UsedFor(g)'
    BY <1>1, <2>1, <2>3 DEF UsedFor
  <2>5. \A c \in Clients : dir[c] \in Frames \ gone => dir'[c] = dir[c]
    BY <1>1, <2>1, <2>2
  <2> QED
    BY <1>1, <1>4, <1>5, <2>1, <2>3, <2>4, <2>5, AccountsKept
<1> QED
  BY <1>6, <1>7, <1>8

\* A page that is swapped out gives its frame back.
LEMMA SwapOutAccounts ==
  ASSUME Accounted, Inv, NEW f \in Frames, VMM_SWAP_OUT(f)
  PROVE  Accounted'
<1>1. /\ TypeOK /\ Framed /\ PpmType(ppm, Pages) /\ pte \in [Pages -> EntryType]
      /\ f \in ppm.swappable
  BY DEF Inv, TypeOK, VMM_SWAP_OUT, Victims
<1>2. PICK p, s, gone, new : /\ p = ppm.addr[f] /\ s = PutSlot(bsm, p)
                             /\ gone = {f} /\ new = {}
  OBVIOUS
<1>3. p \in Pages /\ pte[p].frame = f
  BY <1>1, <1>2 DEF Framed, SwappableFramed
<1>4. /\ pte' = [pte EXCEPT ![p] = Swapped(s)]
      /\ ppm' = PPM_FREE(ppm, gone) /\ UNCHANGED <<table, dir>>
  BY <1>2 DEF VMM_SWAP_OUT, SwapPage
<1>5. ppm'.alloced = ppm.alloced \ gone
  BY <1>1, <1>2, <1>4, FreeRecord
<1>6. \A q \in Pages : Resident(q) /\ pte[q].frame \notin gone
                          => Resident(q)' /\ pte'[q].frame = pte[q].frame
  BY <1>1, <1>2, <1>3, <1>4 DEF Resident
<1>7. \A g \in new : UsedFor(g)'
  BY <1>2
<1> QED
  BY <1>1, <1>4, <1>5, <1>6, <1>7, AccountsKept

\* Committing pages takes no frame; if they cannot be promised the table that
\* was made for them may go.
LEMMA CommitAccounts ==
  ASSUME Accounted, Inv, Commit
  PROVE  Accounted'
<1> DEFINE S == job.pages
<1>1. /\ S \in blocks /\ S \subseteq Pages /\ S # {} /\ TypeOK
      /\ \A p \in S : Clean(p)
  BY JobFields DEF Commit, Doing, Inv, Mapped, BlocksOwned, JobSound
<1>2. PICK o \in Owners : \A p \in S : p.owner = o
  <2>1. PICK p \in S : TRUE
    BY <1>1
  <2>2. p.owner \in Owners /\ \A q \in S : q.owner = p.owner
    BY <1>1, PagesType DEF Inv, Mapped, BlocksOwned
  <2> QED
    BY <2>2
<1>3. CASE Committable >= Cardinality(S)
  <2>1. /\ pte' = [p \in Pages |-> IF p \in S THEN Reserved(TRUE) ELSE pte[p]]
        /\ UNCHANGED <<ppm, table, dir>>
    BY <1>3 DEF Commit
  <2>2. \A p \in Pages : Resident(p) => Resident(p)' /\ pte'[p].frame = pte[p].frame
    BY <1>1, <2>1 DEF Clean, Resident
  <2> QED
    BY <1>1, <2>1, <2>2, SameFrames
<1>4. CASE ~(Committable >= Cardinality(S))
  <2>1. /\ LSM_SETN_PTES(S, Unalloc, NoTable)
        /\ ppm' = PPM_FREE(ppm, TableOf(S)) /\ dir' = dir
    BY <1>4 DEF Commit
  <2>2. FramesOf(S) \cup TableOf(S) = TableOf(S)
    BY <1>1 DEF FramesOf, Resident, Clean
  <2> QED
    BY <1>1, <1>2, <2>1, <2>2, RegionAccounts
<1> QED
  BY <1>3, <1>4

\* VMM_FREE gives back the frames of the block and its page table.
LEMMA FreeAccounts ==
  ASSUME Accounted, Inv, NEW o \in Owners, NEW S \in Callable(o), VMM_FREE(S)
  PROVE  Accounted'
<1>1. S \subseteq Pages /\ S # {} /\ \A p \in S : p.owner = o
  BY CallableType
<1>2. /\ TypeOK /\ Mapped /\ PpmType(ppm, Pages)
      /\ ppm' = PPM_FREE(ppm, FramesOf(S) \cup TableOf(S)) /\ dir' = dir
  BY DEF Inv, TypeOK, VMM_FREE
<1>3. (CHOOSE p \in S : TRUE).owner = o
  BY <1>1, OwnerOf
<1>4. CASE ~(table[o] = UncommittedPDE /\ S # Area(o))
  <2>1. LSM_SETN_PTES(S, Unalloc, NoTable)
    BY <1>3, <1>4 DEF VMM_FREE
  <2> QED
    BY <1>1, <1>2, <2>1, RegionAccounts
<1>5. CASE table[o] = UncommittedPDE /\ S # Area(o)
  <2>1. pte' = pte /\ table' = table
    BY <1>3, <1>5 DEF VMM_FREE
  <2>2. \A p \in S : Clean(p)
    BY <1>1, <1>2, <1>5, VmmAssumption DEF Mapped, TablesCover, HasTable
  <2>3. PICK F : F = FramesOf(S) \cup TableOf(S)
    OBVIOUS
  <2>4. F = {}
    <3>1. FramesOf(S) = {}
      BY <2>2 DEF FramesOf, Resident, Clean
    <3>2. TableOf(S) = {}
      BY <1>1, <1>2, <1>5, TableOfType
    <3> QED
      BY <2>3, <3>1, <3>2
  <2>5. ppm'.alloced = ppm.alloced
    <3>1. F \subseteq Frames /\ ppm' = PPM_FREE(ppm, F)
      BY <1>2, <2>3, <2>4
    <3>2. ppm'.alloced = ppm.alloced \ F
      BY <1>2, <3>1, FreeRecord
    <3> QED
      BY <2>4, <3>2
  <2> QED
    BY <1>2, <2>1, <2>5, SameFrames DEF Resident
<1> QED
  BY <1>4, <1>5

\* Nothing is committed where space becomes uncommitted; the page table may go.
LEMMA UncommittedAccounts ==
  ASSUME Accounted, Inv, NEW o \in Owners, NEW S \in Callable(o),
         AllocUncommitted(S)
  PROVE  Accounted'
<1>1. S \subseteq Pages /\ S # {} /\ \A p \in S : p.owner = o
  BY CallableType
<1>2. /\ TypeOK /\ Mapped /\ PpmType(ppm, Pages) /\ dir' = dir
      /\ ppm' = PPM_FREE(ppm, TableOf(S)) /\ S \cap UNION blocks = {}
  BY DEF Inv, TypeOK, AllocUncommitted
<1>3. (CHOOSE p \in S : TRUE).owner = o
  BY <1>1, OwnerOf
<1>4. \A p \in S : Clean(p)
  BY <1>1, <1>2 DEF Mapped, BlocksCover
<1>5. CASE HasTable(o)
  <2>1. LSM_SETN_PTES(S, Uncommitted, UncommittedPDE)
    BY <1>3, <1>5 DEF AllocUncommitted
  <2>2. FramesOf(S) \cup TableOf(S) = TableOf(S)
    BY <1>4 DEF FramesOf, Resident, Clean
  <2> QED
    BY <1>1, <1>2, <2>1, <2>2, RegionAccounts
<1>6. CASE ~HasTable(o)
  <2>1. /\ table' = [table EXCEPT ![o] = UncommittedPDE]
        /\ pte' = [p \in Pages |-> IF p \in Area(o) THEN Uncommitted ELSE pte[p]]
        /\ table \in [Owners -> Frames \cup {NoTable, UncommittedPDE}]
    BY <1>2, <1>3, <1>6 DEF AllocUncommitted, TypeOK
  <2>2. PICK gone, new : gone = TableOf(S) /\ new = {}
    OBVIOUS
  <2>3. ppm'.alloced = ppm.alloced \ gone
    <3>1. gone \subseteq Frames /\ ppm' = PPM_FREE(ppm, gone)
      BY <1>1, <1>2, <2>2, TableOfType
    <3> QED
      BY <1>2, <3>1, FreeRecord
  <2>4. \A p \in Area(o) : Clean(p)
    BY <1>2, <1>6, PagesType DEF Mapped, TablesCover
  <2>5. \A p \in Pages : Resident(p) /\ pte[p].frame \notin gone
                            => Resident(p)' /\ pte'[p].frame = pte[p].frame
    BY <2>1, <2>4 DEF Clean, Resident
  <2>6. \A q \in Owners : table[q] \in Frames \ gone => table'[q] = table[q]
    BY <1>6, <2>1 DEF HasTable
  <2>7. \A g \in new : UsedFor(g)'
    BY <2>2
  <2> QED
    BY <1>2, <2>3, <2>5, <2>6, <2>7, AccountsKept
<1> QED
  BY <1>5, <1>6

\* Pages that are discarded give their frames back.
LEMMA DiscardAccounts ==
  ASSUME Accounted, Inv, NEW S, S \subseteq Pages, VMM_DISCARD_PAGES(S)
  PROVE  Accounted'
<1>1. PICK P : P = {p \in S : pte[p].state \in {"present", "swapped"}}
  OBVIOUS
<1>2. TypeOK /\ Framed /\ PpmType(ppm, Pages) /\ P \subseteq Pages
  BY <1>1 DEF Inv, TypeOK
<1>3. /\ ppm' = PPM_FREE(ppm, FramesOf(P)) /\ UNCHANGED <<table, dir>>
      /\ pte' = [p \in Pages |-> IF p \in P THEN Reserved(FALSE) ELSE pte[p]]
  BY <1>1 DEF VMM_DISCARD_PAGES
<1>4. PICK gone, new : gone = FramesOf(P) /\ new = {}
  OBVIOUS
<1>5. ppm'.alloced = ppm.alloced \ gone
  <2>1. gone \subseteq Frames /\ ppm' = PPM_FREE(ppm, gone)
    BY <1>2, <1>3, <1>4, FramesOfType
  <2> QED
    BY <1>2, <2>1, FreeRecord
<1>6. \A p \in Pages : Resident(p) /\ pte[p].frame \notin gone
                          => Resident(p)' /\ pte'[p].frame = pte[p].frame
  BY <1>2, <1>3, <1>4, FramesOfType DEF Resident
<1>7. \A g \in new : UsedFor(g)'
  BY <1>4
<1> QED
  BY <1>2, <1>3, <1>5, <1>6, <1>7, AccountsKept

\* A client that goes gives back the frames of its pages, its page table and
\* its page directory, and the last one all frames.
LEMMA GoneAccounts ==
  ASSUME Accounted, Inv, VMM_TERMINATE_CLIENT \/ VMM_SHUTDOWN
  PROVE  Accounted'
<1>1. CASE VMM_SHUTDOWN
  <2>1. ppm'.alloced = {}
    BY <1>1, InitPool DEF VMM_SHUTDOWN
  <2> QED
    BY <2>1 DEF Accounted
<1>2. CASE VMM_TERMINATE_CLIENT
  <2>1. PICK A, gone, new : A = Area(cur) /\ gone = LeftFrames /\ new = {}
    OBVIOUS
  <2>2. /\ TypeOK /\ Framed /\ PpmType(ppm, Pages)
        /\ table \in [Owners -> Frames \cup {NoTable, UncommittedPDE}]
        /\ dir \in [Clients -> Frames \cup {NoFrame}]
    BY DEF Inv, TypeOK
  <2>3. cur \in Clients /\ cur \in Owners
    BY <1>2, Begun DEF VMM_TERMINATE_CLIENT, Doing, Owners
  <2>4. /\ ppm' = PPM_FREE(ppm, gone)
        /\ pte' = [p \in Pages |-> IF p \in A THEN Unalloc ELSE pte[p]]
        /\ table' = [table EXCEPT ![cur] = NoTable]
        /\ dir' = [dir EXCEPT ![cur] = NoFrame]
    BY <1>2, <2>1 DEF VMM_TERMINATE_CLIENT, LeftPages
  <2>5. gone = FramesOf(A) \cup ({table[cur], dir[cur]} \cap Frames)
    BY <2>1 DEF LeftFrames, LeftPages
  <2>6. /\ A \subseteq Pages /\ FramesOf(A) \subseteq Frames
        /\ \A p \in A : Resident(p) => pte[p].frame \in FramesOf(A)
    BY <2>1, <2>2, <2>3, PagesType, FramesOfType
  <2>7. ppm'.alloced = ppm.alloced \ gone
    <3>1. gone \subseteq Frames
      BY <2>5, <2>6
    <3> QED
      BY <2>2, <2>4, <3>1, FreeRecord
  <2>8. \A p \in Pages : Resident(p) /\ pte[p].frame \notin gone
                            => Resident(p)' /\ pte'[p].frame = pte[p].frame
    BY <2>4, <2>5, <2>6 DEF Resident
  <2>9. /\ \A o \in Owners : table[o] \in Frames \ gone => table'[o] = table[o]
        /\ \A c \in Clients : dir[c] \in Frames \ gone => dir'[c] = dir[c]
    BY <2>2, <2>4, <2>5
  <2>10. \A g \in new : UsedFor(g)'
    BY <2>1
  <2> QED
    BY <2>2, <2>7, <2>8, <2>9, <2>10, AccountsKept
<1> QED
  BY <1>1, <1>2

-----------------------------------------------------------------------------
(* The invariant, and what follows from it. *)

\* At the start nothing is lent out and no client has started.
LEMMA InitFrames == Init => FrameInv
<1> SUFFICES ASSUME Init
             PROVE  FrameInv
  OBVIOUS
<1>1. Inv
  BY InitInv
<1>2. job.op = "idle" /\ ~job.init
  BY JobInits DEF Init
<1>3. StartersNew /\ LeaverOnTop /\ TableMissing
  BY <1>2 DEF StartersNew, LeaverOnTop, TableMissing
<1>4. DirsHeld
  BY VmmAssumption DEF Init, DirsHeld
<1>5. Accounted
  BY InitPool DEF Init, Accounted
<1> QED
  BY <1>1, <1>3, <1>4, <1>5 DEF FrameInv, Held

\* A call on a region accounts for its frames.
LEMMA CallFrames ==
  ASSUME FrameInv, NEW o \in Owners, NEW S \in Callable(o), Call(S)
  PROVE  Held' /\ Accounted'
<1>1. Inv /\ Held /\ Accounted /\ S \subseteq Pages
  BY CallableType DEF FrameInv
<1>2. CASE VMM_ALLOC(S)
  BY <1>1, <1>2, OrdinarySteps, PoolAccounts
<1>3. CASE AllocUncommitted(S)
  BY <1>1, <1>3, SameJobSteps, UncommittedAccounts
<1>4. CASE VMM_FREE(S)
  BY <1>1, <1>4, FreeHeld, FreeAccounts
<1>5. CASE VMM_LOCK(S)
  BY <1>1, <1>5, OrdinarySteps, SameFrameSteps
<1>6. CASE VMM_UNLOCK(S)
  BY <1>1, <1>6, SameJobSteps, EntryAccounts
<1>7. CASE VMM_MARK_CANDIDATES(S)
  BY <1>1, <1>7, SameJobSteps, SameFrameSteps
<1>8. CASE VMM_DISCARD_PAGES(S)
  BY <1>1, <1>8, SameJobSteps, DiscardAccounts
<1> QED
  BY <1>2, <1>3, <1>4, <1>5, <1>6, <1>7, <1>8 DEF Call

\* And so does every step.
LEMMA NextFrames == FrameInv /\ [Next]_vars => FrameInv'
<1> SUFFICES ASSUME FrameInv, [Next]_vars
             PROVE  FrameInv'
  OBVIOUS
<1>1. Inv /\ Held /\ Accounted /\ Inv'
  BY NextInv DEF FrameInv
<1>2. Held' /\ Accounted'
  <2>1. CASE Host
    <3>1. CASE FillPool
      BY <1>1, <3>1, SameJobSteps, PoolAccounts
    <3>2. CASE \E f \in Frames : VMM_SWAP_OUT(f)
      BY <1>1, <3>2, SwapOutHeld, SwapOutAccounts
    <3>3. CASE LSM_NEW_PAGE_TABLE
      BY <1>1, <3>3, SameJobSteps, TableAndDirSteps
    <3>4. CASE FreeExpanded
      BY <1>1, <3>4, OrdinarySteps, TableAndDirSteps
    <3>5. CASE LockReserved \/ LockSwapped
      BY <1>1, <3>5, SameJobSteps, PageSteps
    <3>6. CASE FaultReserved \/ FaultSwapped
      BY <1>1, <3>6, OrdinarySteps, PageSteps
    <3>7. CASE LSM_INIT_CLIENT
      BY <1>1, <3>7, StartSteps, TableAndDirSteps
    <3>8. CASE LeaveExpanded
      BY <1>1, <3>8, SwitchHeld, TableAndDirSteps
    <3>9. CASE Overcommit \/ LockStray
      BY <1>1, <3>9, SameJobSteps, SameFrameSteps
    <3>10. CASE NoFrameLeft
      BY <1>1, <3>10, NoFrameHeld, SameFrameSteps
    <3>11. CASE Commit
      BY <1>1, <3>11, CommitHeld, CommitAccounts
    <3>12. CASE LockIOBuffer
      BY <1>1, <3>12, StartSteps, SameFrameSteps
    <3>13. CASE LockResident
      BY <1>1, <3>13, SameJobSteps, EntryAccounts
    <3>14. CASE LockDone
      BY <1>1, <3>14, LockDoneHeld, SameFrameSteps
    <3>15. CASE DrainRelease
      BY <1>1, <3>15, OrdinarySteps, PoolAccounts
    <3>16. CASE DrainSwap \/ DrainNothing
      BY <1>1, <3>16, OrdinarySteps, SameFrameSteps
    <3>17. CASE BSM_INIT_CLIENT
      BY <1>1, <3>17, StartSteps, PoolAccounts
    <3>18. CASE VMM_TERMINATE_CLIENT \/ VMM_SHUTDOWN
      BY <1>1, <3>18, GoneHeld, GoneAccounts
    <3> QED
      BY <2>1, <3>1, <3>2, <3>3, <3>4, <3>5, <3>6, <3>7, <3>8, <3>9, <3>10,
         <3>11, <3>12, <3>13, <3>14, <3>15, <3>16, <3>17, <3>18
         DEF Host, TakeFrame
  <2>2. CASE Client
    <3>1. CASE \E o \in Mine \cap Owners : \E S \in Callable(o) : Call(S)
      BY <3>1, CallFrames
    <3>2. CASE \E p \in Pages : VMM_PageFaultHandler(p)
      BY <1>1, <3>2, OrdinarySteps, SameFrameSteps
    <3>3. CASE \E p \in Pages : Read(p)
      BY <1>1, <3>3, SameJobSteps, SameFrameSteps
    <3>4. CASE \E p \in Pages, w \in Values : Write(p, w)
      BY <1>1, <3>4, SameJobSteps, EntryAccounts
    <3>5. CASE VMM_QUERY
      BY <1>1, <3>5, SameJobSteps, PoolAccounts
    <3>6. CASE \/ Terminate
               \/ \E c \in Clients : DPMIFN_SWITCHADDR(c) \/ VMM_INIT_CLIENT(c)
      BY <1>1, <3>6, SwitchHeld, SameFrameSteps
    <3> QED
      BY <2>2, <3>1, <3>2, <3>3, <3>4, <3>5, <3>6 DEF Client
  <2>3. CASE ExternalAlloc \/ ExternalFree
    BY <1>1, <2>3, SameJobSteps, SameFrameSteps
  <2>4. CASE \E n \in 1..MaxDrain : PPM_DRAIN_POOL(n)
    BY <1>1, <2>4, OrdinarySteps, SameFrameSteps
  <2>5. CASE UNCHANGED vars
    BY <1>1, <2>5, SameJobSteps, SameFrameSteps
  <2> QED
    BY <2>1, <2>2, <2>3, <2>4, <2>5 DEF Next, Primary, Stopped
<1> QED
  BY <1>1, <1>2 DEF FrameInv

\* No frame is ever lost: in every reachable state what PPM_ALLOC has lent out
\* and PPM_FREE has not got back is the frame of a resident page, a page table
\* or a page directory, through every call, failed call, client start that is
\* given up, termination and shutdown.
THEOREM NoFrameLost == Spec => []NoFrameLeak
<1>1. FrameInv => NoFrameLeak
  <2> SUFFICES ASSUME FrameInv
               PROVE  NoFrameLeak
    OBVIOUS
  <2>1. TypeOK /\ Framed /\ Accounted
    BY DEF FrameInv, Inv
  <2> QED
    BY <2>1, FramedImplies, AccountedImplies
<1> QED
  BY InitFrames, NextFrames, <1>1, PTL DEF Spec
=============================================================================
