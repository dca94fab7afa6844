-------------------------------- MODULE MCArena --------------------------------
(***************************************************************************)
(* Two small pages or one of several page sizes fit into memory.  Of the   *)
(* products of arena_calloc some exceed a word; a request of 60 bytes does *)
(* not, but what is added to it on the way to a page may.                  *)
(***************************************************************************)
EXTENDS Arena

MCSizes == {0, 3, 8, 60}
MCAligns == {2, 8}
MCCounts == {0, 1, 9}

===============================================================================
