------------------------------ MODULE MCRegAlloc ------------------------------
(***************************************************************************)
(* A small instance of RegAlloc.  Five vregs compete for two registers, a  *)
(* third being reserved for the parameter that arrives in it; the other    *)
(* parameter arrives on the stack.  Every case of the scan happens: a free *)
(* register, reuse after expiry, a spill of the current interval, one of a *)
(* parameter, an eviction, and an eviction after an eviction.              *)
(***************************************************************************)
EXTENDS RegAllocHomes

MCRegs == {0, 1, 2}
MCIncoming == <<1>>
MCCalleeSaved == {2}

===============================================================================
