------------------------------ MODULE MCSsaBuild ------------------------------
(***************************************************************************)
(* Instances of SsaBuild.  The programs of a run are given by the kinds of *)
(* statement and expression they are made of, so that a run can look at    *)
(* few constructs closely.                                                 *)
(***************************************************************************)
EXTENDS SsaBuild

OneParam == <<"x">>
TwoParams == <<"x", "y">>

ControlStmts == {"assign", "return", "if", "ifelse", "while", "for"}
Logic == {"const", "binary", "and", "or"}

IfsAndWhiles == {"if", "while"}
Leaves == {"const"}

Even == [k \in ControlStmts \cup Logic |-> 1]

===============================================================================
