------------------------------- MODULE MCSsaWalk -------------------------------
(***************************************************************************)
(* An instance of SsaWalk: programs of four assignments, branches and      *)
(* while loops, or of fewer where some are of the dearer kinds.  Eight     *)
(* blocks are enough to go twice round a loop with a branch in its body    *)
(* and leave it, or through the joins of every program the fuel allows.    *)
(***************************************************************************)
EXTENDS SsaWalk

TwoParams == <<"x", "y">>

AllStmts == {"assign", "compound", "store", "print", "expr", "return", "reset",
             "if", "ifelse", "while", "for"}
AllExprs == {"const", "binary", "unary", "and", "or", "call", "alloc", "deref",
             "field", "index"}
Joins == {"assign", "if", "while"}

MCCost ==
  [k \in AllStmts \cup AllExprs |->
     IF k \in Joins THEN 1
     ELSE IF k \in {"ifelse", "compound", "for", "return", "print", "and", "or"} THEN 2 ELSE 3]

===============================================================================
