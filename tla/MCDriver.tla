--------------------------------- MODULE MCDriver ---------------------------------
(***************************************************************************)
(* An instance of Driver: command lines of up to four arguments, so that   *)
(* two dumps or a level and --no-verify meet, and up to three functions.   *)
(***************************************************************************)
EXTENDS Driver

===============================================================================
