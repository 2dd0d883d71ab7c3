---------------------------- MODULE BackingStore ----------------------------
(***************************************************************************)
(* The backing store manager of the DPMI VMM (386MAX/QMAX_BSM.ASM): one    *)
(* swap file for all clients, a bitmap of its pages, and a direct-mapped   *)
(* cache of the pages read from it last.  A page that has been read is the *)
(* VMM's again, but its slot is kept allocated and remembered in the       *)
(* cache, so that a page still clean when it is next swapped out need not  *)
(* be written.  The state is one record, bsm:                              *)
(*                                                                         *)
(*   total  BSTotal, pages in the swap file (0: no swap file)              *)
(*   map    BSMap, the allocated slots; BSInUse is their number            *)
(*   cache  the cache entries: NoEntry, or the page (with the owner that   *)
(*          was in the low bits of the address) and its slot               *)
(*   file   the contents of the slots                                      *)
(***************************************************************************)
EXTENDS Integers, FiniteSets

CONSTANTS
    BSInit,     \* BSTotal when the VMM starts
    BSMax,      \* the size up to which the swap file may grow
    DWord,      \* slots that one word of the bitmap holds (32 in the code)
    CacheLen,   \* entries of the cache (@BSCLen, 512 in the code)
    NoEntry,    \* an entry whose valid bit is clear
    Junk        \* contents nobody has written

ASSUME StoreAssumption ==
    /\ BSInit \in Nat /\ BSMax \in Nat /\ BSInit <= BSMax
    /\ DWord \in Nat \ {0} /\ CacheLen \in Nat \ {0}

Slots == 0..(BSMax - 1)

CacheIndexes == 0..(CacheLen - 1)

\* The low bits of the page number index the cache; the owner takes no part.
BSM_GET_CACHE_ENTRY(page) == page.va % CacheLen

BSFree(bsm) == bsm.total - Cardinality(bsm.map)

\* The valid entries, and the slots they keep allocated.
Cached(bsm) == {i \in CacheIndexes : bsm.cache[i] # NoEntry}
CachedSlots(bsm) == {bsm.cache[i].slot : i \in Cached(bsm)}

BSM_INIT(total) ==
    [total |-> total, map |-> {},
     cache |-> [i \in CacheIndexes |-> NoEntry],
     file |-> [s \in Slots |-> Junk]]

\* What BSM_ALLOC can find: it scans whole words, total \div DWord of them.
Allocatable(bsm) ==
    {s \in Slots : s < (bsm.total \div DWord) * DWord /\ s \notin bsm.map}

FirstSlot(S) == CHOOSE s \in S : \A t \in S : s <= t

BSM_ALLOC(bsm) == [bsm EXCEPT !.map = @ \cup {FirstSlot(Allocatable(bsm))}]

BSM_FREE(bsm, S) == [bsm EXCEPT !.map = @ \ S]

\* Mutant of BSM_FLUSH_CACHE: the entries stay valid.
BSM_FLUSH_CACHE_KeepsEntries(bsm) == BSM_FREE(bsm, CachedSlots(bsm))

BSM_FLUSH_CACHE(bsm) ==
    [BSM_FREE(bsm, CachedSlots(bsm)) EXCEPT
        !.cache = [i \in CacheIndexes |-> NoEntry]]

\* The cache still remembers the slot this page was read from.
Hit(bsm, page) ==
    LET entry == bsm.cache[BSM_GET_CACHE_ENTRY(page)]
    IN  entry # NoEntry /\ entry.page = page

\* Out of slots, BSM_PUTPAGE flushes the cache before it tries again.
MakeRoom(bsm) == IF Allocatable(bsm) = {} THEN BSM_FLUSH_CACHE(bsm) ELSE bsm

\* BSM_PUTPAGE finds a slot for the page; otherwise it stops at an int 3.
HasRoom(bsm, page) == Hit(bsm, page) \/ Allocatable(MakeRoom(bsm)) # {}

\* The slot that BSM_PUTPAGE returns.
PutSlot(bsm, page) ==
    IF Hit(bsm, page) THEN bsm.cache[BSM_GET_CACHE_ENTRY(page)].slot
    ELSE FirstSlot(Allocatable(MakeRoom(bsm)))

\* Mutant of BSM_PUTPAGE: a hit is trusted although the page is dirty.
BSM_PUTPAGE_TrustsHit(bsm, page, dirty, data) ==
    IF Hit(bsm, page)
    THEN [bsm EXCEPT !.cache[BSM_GET_CACHE_ENTRY(page)] = NoEntry]
    ELSE [BSM_ALLOC(MakeRoom(bsm)) EXCEPT !.file[PutSlot(bsm, page)] = data]

BSM_PUTPAGE(bsm, page, dirty, data) ==
    IF Hit(bsm, page)
    THEN [bsm EXCEPT
            !.cache[BSM_GET_CACHE_ENTRY(page)] = NoEntry,
            !.file[PutSlot(bsm, page)] = IF dirty THEN data ELSE @]
    ELSE [BSM_ALLOC(MakeRoom(bsm)) EXCEPT !.file[PutSlot(bsm, page)] = data]

\* Mutant of BSM_GETPAGE: the entry's old slot stays allocated.
BSM_GETPAGE_KeepsOld(bsm, page, slot) ==
    [bsm EXCEPT !.cache[BSM_GET_CACHE_ENTRY(page)] =
                    [page |-> page, slot |-> slot]]

\* The entry's old slot is given up, unless the entry is for the same page.
BSM_GETPAGE(bsm, page, slot) ==
    LET i == BSM_GET_CACHE_ENTRY(page)
        old == IF bsm.cache[i] = NoEntry \/ Hit(bsm, page) THEN {}
               ELSE {bsm.cache[i].slot}
    IN  [BSM_FREE(bsm, old) EXCEPT !.cache[i] = [page |-> page, slot |-> slot]]

\* A new client lets a half-used file grow by half of what is still allowed.
\* The code halves BSTotal and doubles it again before it subtracts.
GrowBy(bsm) ==
    LET half == bsm.total \div 2
    IN  IF bsm.total < BSMax /\ half <= Cardinality(bsm.map)
        THEN (BSMax - 2 * half) \div 2 ELSE 0

BSM_GROW(bsm, n) == [bsm EXCEPT !.total = @ + n]

-----------------------------------------------------------------------------
BsmType(bsm, Pages, Contents) ==
    bsm \in [total : 0..BSMax, map : SUBSET Slots,
            cache : [CacheIndexes ->
                       [page : Pages, slot : Slots] \cup {NoEntry}],
            file : [Slots -> Contents]]
=============================================================================
