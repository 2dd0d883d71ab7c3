----------------------------- MODULE MCDpmiVmm -----------------------------
(***************************************************************************)
(* Small instances of the DPMI virtual memory manager.                     *)
(***************************************************************************)
EXTENDS DpmiVmm, TLC

\* The calls that a .cfg can allow besides allocating, freeing and touching
\* memory.
MostCalls == {"uncommitted", "lock", "mark", "query", "external"}
LockCalls == {"lock"}
SharingCalls == {"lock", "discard", "external"}
PagingCalls == {"lock", "discard"}
UncommittedCalls == {"uncommitted"}
NoCalls == {}

Frames4 == 1..4
Frames5 == 1..5
Frames8 == 1..8
=============================================================================
