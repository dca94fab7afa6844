------------------------------ MODULE SsaShapes ------------------------------
(***************************************************************************)
(* Functions in SSA form for the passes to work on, in the two shapes the  *)
(* builder gives their control flow: a branch whose sides meet again, and  *)
(* a loop.  Parameter 0 is vreg 0.  Arguments are the instructions that    *)
(* vary.                                                                   *)
(***************************************************************************)
EXTENDS SsaMeaning

Const(v, n) == Inst("CONST", "", v, <<>>, n, <<>>)
Binop(v, kind, a, b) == Inst("BINOP", kind, v, <<a, b>>, 0, <<>>)
Cmp(v, kind, a, b) == Inst("CMP", kind, v, <<a, b>>, 0, <<>>)
Phi(v, as, bs) == Inst("PHI", "", v, as, 0, bs)
PrintOf(a) == Inst("PRINT", "", NoVreg, <<a>>, 0, <<>>)
Ret(a) == Inst("RET", "", NoVreg, <<a>>, 0, <<>>)
Jump(b) == Inst("JUMP", "", NoVreg, <<>>, 0, <<b>>)
Branch(a, t, f) == Inst("BRANCH", "", NoVreg, <<a>>, 0, <<t, f>>)

\* if (v2) v3 else v4; then v5 is one of them.
Diamond(c, c2, i2, i3, rest) ==
  (0 :> <<Const(1, c), i2, Branch(2, 1, 2)>>) @@
  (1 :> <<i3, Jump(3)>>) @@
  (2 :> <<Const(4, c2), Jump(3)>>) @@
  (3 :> <<Phi(5, <<3, 4>>, <<1, 2>>)>> \o rest)

\* while (v5) ...; v3 and v4 are the variables, next[1] and next[2] their values
\* at the end of the body.
Loop(c, step, next, i5, i6, i7, rest) ==
  (0 :> <<Const(1, c), Const(2, step), Jump(1)>>) @@
  (1 :> <<Phi(3, <<1, next[1]>>, <<0, 2>>), Phi(4, <<0, next[2]>>, <<0, 2>>), i5,
          Branch(5, 2, 3)>>) @@
  (2 :> <<i6, i7, Jump(1)>>) @@
  (3 :> rest)

===============================================================================
