----------------------------- MODULE MCOptimizer -----------------------------
(***************************************************************************)
(* Functions for the optimizer: every choice of the instructions below in  *)
(* the two shapes of SsaShapes.                                            *)
(***************************************************************************)
EXTENDS Optimizer, SsaShapes

Diamonds ==
  {Diamond(c, c2, i2, i3, <<i6, i7, i8, PrintOf(ends[1]), Ret(ends[2])>>) :
     c \in {0, 2}, c2 \in {1, 2},
     i2 \in {Cmp(2, "lt", 0, 1), Cmp(2, "eq", 1, 1), Binop(2, "sub", 0, 1)},
     i3 \in {Binop(3, "mul", 0, 1), Binop(3, "div", 1, 1), Binop(3, "add", 1, 1)},
     i6 \in {Binop(6, "add", 5, 1), Binop(6, "mul", 5, 5), Binop(6, "mul", 0, 1), Binop(6, "add", 0, 5)},
     i7 \in {Binop(7, "add", 5, 1), Binop(7, "mul", 5, 5), Inst("UNOP", "neg", 7, <<6>>, 0, <<>>)},
     i8 \in {Inst("GEP", "", 8, <<7>>, 1, <<>>), Inst("CALL", "", 8, <<7>>, 0, <<>>),
             Cmp(8, "eq", 7, 6)},
     ends \in {<<8, 7>>, <<6, 8>>, <<6, 5>>, <<5, 0>>}}

Loops ==
  {Loop(c, step, <<6, 7>>, i5, i6, i7, <<Phi(8, <<v8>>, <<1>>), i9, PrintOf(8), Ret(9)>>) :
     c \in {0, 2}, step \in {-1, 1},
     i5 \in {Cmp(5, "lt", 3, 0), Cmp(5, "lt", 1, 3), Cmp(5, "lt", 3, 2)},
     i6 \in {Binop(6, "add", 3, 2), Binop(6, "mul", 3, 2), Binop(6, "sub", 1, 2)},
     i7 \in {Binop(7, "add", 4, 3), Binop(7, "mul", 2, 2), Binop(7, "sub", 2, 2),
             Inst("UNOP", "not", 7, <<4>>, 0, <<>>)},
     v8 \in {3, 4},
     i9 \in {Binop(9, "sub", 8, 3), Inst("CALL", "", 9, <<8>>, 0, <<>>)}}

MCPrograms == Diamonds \cup Loops
MCInputs == {[p \in {0} |-> n] : n \in {-Half, 0, 1, 2}}

===============================================================================
