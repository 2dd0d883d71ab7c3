--------------------------- MODULE VirtualMemory ---------------------------
(***************************************************************************)
(* What the virtual memory manager promises to a DPMI client: a committed  *)
(* page keeps what was last stored in it until it is freed or discarded,   *)
(* wherever the page is in the meantime.  While the manager is busy with a *)
(* call or a fault no page changes.  A page nobody has stored in or looked *)
(* at is Blank: the first look fixes what it holds, and that is Zero if    *)
(* 386MAX is set to clear pages on demand.                                 *)
(***************************************************************************)
EXTENDS Naturals

CONSTANTS
    Pages,
    Values,     \* what clients store
    Words,      \* what a page can hold
    Zero, ZeroDemand, Blank

VARIABLES
    mem,    \* what each page holds for its client, or Blank
    busy    \* the manager runs, and not a client

Init == mem = [p \in Pages |-> Blank] /\ busy = FALSE

\* The client stores in a page, or looks at one that is still Blank.
Store(p, w) == mem' = [mem EXCEPT ![p] = w]

Look(p, w) ==
    /\ mem[p] = Blank
    /\ ZeroDemand => w = Zero
    /\ mem' = [mem EXCEPT ![p] = w]

Access ==
    /\ ~busy
    /\ \E p \in Pages :
          (\E w \in Values : Store(p, w)) \/ (\E w \in Words : Look(p, w))
    /\ UNCHANGED busy

\* Work that drops the pages freed, discarded, or left behind by a client that
\* terminates, and no others.
Manage ==
    /\ \E S \in SUBSET Pages :
          mem' = [p \in Pages |-> IF p \in S THEN Blank ELSE mem[p]]
    /\ busy' \in BOOLEAN

Spec == Init /\ [][Access \/ Manage]_<<mem, busy>>
=============================================================================
