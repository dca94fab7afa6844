----------------------------- MODULE RegAllocHomes -----------------------------
(***************************************************************************)
(* Linear scan as an implementation of Homes: the vregs it has scanned are *)
(* the ones served, and overlapping intervals are in conflict.  How it     *)
(* chooses, and what it keeps to choose by, does not show.                 *)
(***************************************************************************)
EXTENDS RegAlloc

Conflicts == {p \in Vregs \X Vregs : p[1] # p[2] /\ Overlap(p[1], p[2])}

Promise == INSTANCE Homes WITH
  conflict <- Conflicts, served <- scanned, reg <- vregToReg, slot <- vregToSlot

\* Every step of the scan serves one vreg, at the cost of at most sending others
\* from their register to a slot of their own (regalloc.c:166-239).
KeepsPromise == Promise!Spec

===============================================================================
