------------------------------ MODULE MCBackend ------------------------------
(***************************************************************************)
(* Functions for the back end, in the two shapes of SsaShapes and in one   *)
(* block with many values at once, and a small register file: RAX, RDX and *)
(* RBX, RSI and RDI for arguments, R12 and R13.                            *)
(***************************************************************************)
EXTENDS Backend, SsaShapes

MCRegs == {1, 3, 4, 7, 8, 13, 14}
MCIncoming == <<8, 7>>
MCCalleeSaved == {4, 13, 14}

Ends == {<<Ret(7)>>, <<PrintOf(6), Ret(8)>>, <<PrintOf(8), Ret(1)>>}

Diamonds ==
  {Diamond(c, 2, i2, i3, <<i6, i7, i8>> \o ends) :
     c \in {0, 2},
     i2 \in {Cmp(2, "lt", 0, 1), Binop(2, "sub", 0, 1)},
     i3 \in {Binop(3, "div", 1, 0), Binop(3, "add", 1, 1), Phi(3, <<1>>, <<0>>)},
     i6 \in {Binop(6, "sub", 5, 1), Binop(6, "mul", 0, 5)},
     i7 \in {Binop(7, "add", 5, 6), Binop(7, "mod", 1, 5), Inst("UNOP", "neg", 7, <<6>>, 0, <<>>)},
     i8 \in {Inst("GEP", "", 8, <<7>>, 1, <<>>), Inst("CALL", "", 8, <<7, 6>>, 0, <<>>),
             Inst("UNOP", "not", 8, <<6>>, 0, <<>>)},
     ends \in Ends}

Loops ==
  {Loop(c, 1, next, i5, i6, Binop(7, "add", 4, 3), <<Phi(8, <<v8>>, <<1>>)>> \o end) :
     c \in {0, 2},
     next \in {<<6, 7>>, <<6, 4>>, <<4, 3>>},
     i5 \in {Cmp(5, "lt", 3, 0), Cmp(5, "lt", 3, 4)},
     i6 \in {Binop(6, "add", 3, 2), Binop(6, "add", 3, 0), Phi(6, <<3>>, <<1>>)},
     v8 \in {3, 4},
     end \in {<<Ret(8)>>, <<Binop(9, "sub", 8, 3), Ret(9)>>, <<PrintOf(8), Ret(4)>>}}

\* n constants at once, then their sum.
Crowd(n) ==
  (0 :> [v \in 1..n |-> Const(v, v % 2)] \o
        [k \in 1..n |-> Binop(n + k, "add", IF k = 1 THEN 0 ELSE n + k - 1, k)] \o
        <<Ret(2 * n)>>)

MCPrograms == Diamonds \cup Loops \cup {Crowd(n) : n \in 3..5}
MCInputs == {[p \in {0} |-> n] : n \in {-Half, 0, 1, 2}}

===============================================================================
