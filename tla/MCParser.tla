--------------------------------- MODULE MCParser ---------------------------------
(***************************************************************************)
(* An instance of Parser with every kind of token that decides something   *)
(* and operators of three levels.  The tokens of a function with an        *)
(* expression or an if in it are cheap, so that three operators fit into   *)
(* one, and an else if.                                                    *)
(***************************************************************************)
EXTENDS Parser

MCKinds == {"||", "-", "*", "=", "(", ")", "[", "]", "{", "}", ",", ";", ":", ".", "->", "num", "ident", "reset",
  "type", "bad", "fn", "struct", "arena", "let", "if", "else", "while", "for", "return", "alloc", "sizeof"}
MCCheap == {"fn", "ident", "(", ")", "{", "}", "||", "-", "*", "if", "else"}
MCCost == [k \in MCKinds |-> IF k \in MCCheap THEN 1 ELSE 2]

===============================================================================
