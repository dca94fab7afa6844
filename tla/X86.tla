---------------------------------- MODULE X86 ----------------------------------
(***************************************************************************)
(* The processor, as far as the code of emit.c needs it: what a string of  *)
(* bytes means as instructions (Decode) and what an instruction does to    *)
(* registers and stack (Exec).  It is no part of VORTECH: it is written    *)
(* after the rules the comments of emit.c appeal to (REX, ModRM and SIB    *)
(* bytes), independently of how emit.c builds its bytes, so that the two   *)
(* can be compared.                                                        *)
(*                                                                         *)
(* Registers are numbered as in X86Reg, from 1.  An instruction is a       *)
(* record: mnemonic, width of the operands, two registers, a number.       *)
(* Numbers are pairs <<high, low>> of two signed halves of 32 bits, so     *)
(* that those of 64 bits fit the checker's integers.                       *)
(***************************************************************************)
EXTENDS Integers, Sequences, SequencesExt, TLC

NoReg == 0
RAX == 1  RCX == 2  RDX == 3  RBX == 4  RSP == 5  RBP == 6  RSI == 7  RDI == 8
R8 == 9  R9 == 10  R10 == 11  R11 == 12  R12 == 13  R13 == 14  R14 == 15  R15 == 16
Gprs == RAX..R15
ArgRegs == <<RDI, RSI, RDX, RCX, R8, R9>>
CalleeSaved == {RBX, RBP, R12, R13, R14, R15}

Wide(n) == <<IF n < 0 THEN -1 ELSE 0, n>>
Asm(mn, w, a, b, n) == [mn |-> mn, w |-> w, a |-> a, b |-> b, n |-> n]
Asm2(mn, w, a, b) == Asm(mn, w, a, b, Wide(0))

-------------------------------------------------------------------------------

\* Little-endian numbers of a byte string; offsets count from 0.
Signed8(b) == IF b >= 128 THEN b - 256 ELSE b
Byte(c, p) == c[p + 1]
Word(c, p) ==
  Byte(c, p) + 256 * Byte(c, p + 1) + 65536 * Byte(c, p + 2) + 16777216 * Signed8(Byte(c, p + 3))

\* A REX prefix W R X B, or none.
IsRex(b) == b \in 64..79
Bit(b, k) == (b \div k) % 2

Alu == [add |-> 1, or |-> 9, and |-> 33, sub |-> 41, xor |-> 49, cmp |-> 57, test |-> 133]
Group3 == (2 :> "not") @@ (3 :> "neg") @@ (7 :> "idiv")
Shifts == (4 :> "shl") @@ (5 :> "shr")

Undecoded == [i |-> Asm2("bad", 0, 0, 0), len |-> 1]

\* The ModRM byte at p: its parts, the memory operand it asks for (a register
\* and a displacement; NoReg is RIP), and how many bytes all of it takes.
ModRM(c, p, rex) ==
  LET m == Byte(c, p)
      mod == m \div 64
      low == m % 8
      sib == mod # 3 /\ low = 4
      rip == mod = 0 /\ low = 5
      at == p + IF sib THEN 2 ELSE 1
  IN [mod |-> mod, digit |-> (m \div 8) % 8,
      reg |-> ((m \div 8) % 8) + 8 * Bit(rex, 4) + 1,
      rm |-> IF rip THEN NoReg ELSE low + 8 * Bit(rex, 1) + 1,
      disp |-> CASE mod = 1 -> Signed8(Byte(c, at))
                 [] mod = 2 \/ rip -> Word(c, at)
                 [] OTHER -> 0,
      plain |-> ~sib \/ Byte(c, p + 1) = 36,
      len |-> (IF sib THEN 2 ELSE 1) + (CASE mod = 1 -> 1 [] mod = 2 \/ rip -> 4 [] OTHER -> 0)]

\* The instruction whose opcode is at p, after a REX prefix (64 is one without bits).
DecodeOp(c, p, rex, hasRex) ==
  LET op == Byte(c, p)
      w == IF Bit(rex, 8) = 1 THEN 64 ELSE 32
      m == ModRM(c, p + 1, rex)
      m2 == ModRM(c, p + 2, rex)
      low == (op % 8) + 8 * Bit(rex, 1) + 1
      \* the byte registers 4 to 7 are SPL to DIL only with a REX prefix
      byteOk(r) == hasRex \/ r \notin RSP..RDI
      ins(i, n) == [i |-> i, len |-> n]
  IN CASE \E mn \in DOMAIN Alu : Alu[mn] = op /\ m.mod = 3 ->
            ins(Asm2(CHOOSE mn \in DOMAIN Alu : Alu[mn] = op, w, m.rm, m.reg), 2)
       [] op = 137 /\ m.mod = 3 -> ins(Asm2("mov", w, m.rm, m.reg), 2)
       [] op = 136 /\ m.mod = 3 /\ byteOk(m.rm) /\ byteOk(m.reg) ->
            ins(Asm2("mov", 8, m.rm, m.reg), 2)
       [] op \in {137, 139, 141} /\ m.mod # 3 /\ m.plain /\ w = 64 ->
            ins(Asm(CASE op = 137 -> "store" [] op = 139 -> "load" [] op = 141 -> "lea",
                    64, m.reg, m.rm, Wide(m.disp)), 1 + m.len)
       [] op = 199 /\ m.mod = 3 /\ m.digit = 0 /\ w = 64 ->
            ins(Asm("movi", 64, m.rm, NoReg, Wide(Word(c, p + 2))), 6)
       [] op \in 184..191 /\ w = 64 ->
            ins(Asm("movi", 64, low, NoReg, <<Word(c, p + 5), Word(c, p + 1)>>), 9)
       [] op \in 184..191 /\ w = 32 ->
            ins(Asm("movi", 32, low, NoReg, <<0, Word(c, p + 1)>>), 5)
       [] op \in 176..183 /\ byteOk(low) ->
            ins(Asm("movi", 8, low, NoReg, Wide(Signed8(Byte(c, p + 1)))), 2)
       [] op \in {129, 131} /\ m.mod = 3 /\ m.digit = 5 /\ w = 64 ->
            ins(Asm("subi", 64, m.rm, NoReg,
                    Wide(IF op = 131 THEN Signed8(Byte(c, p + 2)) ELSE Word(c, p + 2))),
                IF op = 131 THEN 3 ELSE 6)
       [] op = 247 /\ m.mod = 3 /\ m.digit \in DOMAIN Group3 ->
            ins(Asm2(Group3[m.digit], w, m.rm, NoReg), 2)
       [] op = 211 /\ m.mod = 3 /\ m.digit \in DOMAIN Shifts ->
            ins(Asm2(Shifts[m.digit], w, m.rm, RCX), 2)
       [] op = 153 /\ w = 64 -> ins(Asm2("cqo", 64, NoReg, NoReg), 1)
       [] op \in 80..87 -> ins(Asm2("push", 64, low, NoReg), 1)
       [] op \in 88..95 -> ins(Asm2("pop", 64, low, NoReg), 1)
       [] op = 195 -> ins(Asm2("ret", 64, NoReg, NoReg), 1)
       [] op \in {232, 233} ->
            ins(Asm(IF op = 232 THEN "call" ELSE "jmp", 64, NoReg, NoReg, Wide(Word(c, p + 1))), 5)
       [] op = 15 /\ Byte(c, p + 1) \in 128..143 ->
            ins(Asm("jcc", 64, NoReg, Byte(c, p + 1) - 128, Wide(Word(c, p + 2))), 6)
       [] op = 15 /\ Byte(c, p + 1) \in 144..159 /\ m2.mod = 3 /\ byteOk(m2.rm) ->
            ins(Asm2("set", 8, m2.rm, Byte(c, p + 1) - 144), 3)
       [] op = 15 /\ Byte(c, p + 1) = 175 /\ m2.mod = 3 -> ins(Asm2("imul", w, m2.reg, m2.rm), 3)
       [] op = 15 /\ Byte(c, p + 1) = 182 /\ m2.mod = 3 /\ byteOk(m2.rm) ->
            ins(Asm2("movzx", w, m2.reg, m2.rm), 3)
       [] OTHER -> Undecoded

Decode(c, p) ==
  IF IsRex(Byte(c, p))
  THEN LET d == DecodeOp(c, p + 1, Byte(c, p), TRUE) IN [d EXCEPT !.len = @ + 1]
  ELSE DecodeOp(c, p, 64, FALSE)

\* The instructions from offset p up to offset q.  Bytes beyond the end of the
\* string, which a wrong one may ask for, are 0.
Disassemble(c, p, q) ==
  LET padded == c \o [k \in 1..16 |-> 0]
      from[k \in Nat] == IF k >= q THEN <<>>
                         ELSE LET d == Decode(padded, k) IN <<d.i>> \o from[k + d.len]
  IN from[p]

-------------------------------------------------------------------------------

\* Values are terms: what a register held at the start, a number, the stack
\* pointer of the start plus an offset, an operation applied to values.
Reg(r) == <<"reg", r>>
Num(n) == <<"num", n>>
Sp(k) == <<"sp", k>>
Start ==
  [r |-> [r \in Gprs |-> IF r = RSP THEN Sp(0) ELSE Reg(r)],
   m |-> 0 :> <<"return address">>, flags |-> <<"flags">>, at |-> <<"inside">>]

\* A write of 32 bits clears the rest of the register, one of 8 bits keeps it.
Written(old, v, w) ==
  CASE w = 64 -> v [] w = 32 -> <<"zero-extended", v>> [] w = 8 -> <<"merged", old, v>>

SetReg(s, r, v) == [s EXCEPT !.r[r] = v]
Offset(s) == s.r[RSP][2]
At(s, k) == IF k \in DOMAIN s.m THEN s.m[k] ELSE <<"stack", k>>
Push(s, v) == [SetReg(s, RSP, Sp(Offset(s) - 8)) EXCEPT !.m = (Offset(s) - 8 :> v) @@ @]
Pop(s, r) ==
  LET t == SetReg(s, RSP, Sp(Offset(s) + 8)) IN SetReg(t, r, At(s, Offset(s)))

Exec(s, i) ==
  LET a == s.r[i.a]  b == s.r[i.b] IN
  CASE i.mn = "mov" -> SetReg(s, i.a, Written(a, b, i.w))
    [] i.mn = "movi" -> SetReg(s, i.a, IF i.w = 8 THEN Written(a, Num(i.n), 8) ELSE Num(i.n))
    [] i.mn \in {"add", "or", "and", "sub"} -> SetReg(s, i.a, <<i.mn, a, b>>)
    [] i.mn = "xor" -> SetReg(s, i.a, IF i.a = i.b THEN Num(Wide(0)) ELSE <<"xor", a, b>>)
    [] i.mn \in {"cmp", "test"} -> [s EXCEPT !.flags = <<i.mn, a, b>>]
    [] i.mn = "imul" -> SetReg(s, i.a, <<"imul", a, b>>)
    [] i.mn = "subi" -> SetReg(s, i.a, IF i.a = RSP THEN Sp(Offset(s) - i.n[2]) ELSE <<"sub", a, Num(i.n)>>)
    [] i.mn = "cqo" -> SetReg(s, RDX, <<"sign", s.r[RAX]>>)
    [] i.mn = "idiv" ->
         IF s.r[RDX] = <<"sign", s.r[RAX]>>
         THEN SetReg(SetReg(s, RAX, <<"div", s.r[RAX], a>>), RDX, <<"mod", s.r[RAX], a>>)
         ELSE [s EXCEPT !.at = <<"trap">>]
    [] i.mn \in {"neg", "not"} -> SetReg(s, i.a, <<i.mn, a>>)
    [] i.mn \in {"shl", "shr"} -> SetReg(s, i.a, <<i.mn, a, b>>)
    [] i.mn = "set" -> SetReg(s, i.a, Written(a, <<"cc", i.b, s.flags>>, 8))
    [] i.mn = "movzx" ->
         SetReg(s, i.a, IF b[1] = "merged" THEN b[3] ELSE <<"zero-extended", <<"low", 8, b>>>>)
    [] i.mn = "lea" ->
         SetReg(s, i.a, IF i.b = NoReg THEN <<"rip", i.n>>
                        ELSE IF i.n = Wide(0) THEN b ELSE <<"add", b, Num(i.n)>>)
    [] i.mn = "store" /\ i.b = RSP -> [s EXCEPT !.m = (Offset(s) + i.n[2] :> a) @@ @]
    [] i.mn = "load" /\ i.b = RSP -> SetReg(s, i.a, At(s, Offset(s) + i.n[2]))
    [] i.mn = "push" -> Push(s, a)
    [] i.mn = "pop" -> Pop(s, i.a)
    [] i.mn = "ret" ->
         [SetReg(s, RSP, Sp(Offset(s) + 8)) EXCEPT !.at = At(s, Offset(s))]
    [] i.mn = "jcc" -> [s EXCEPT !.at = <<"branch", i.b, s.flags>>]
    [] i.mn = "jmp" -> [s EXCEPT !.at = <<"jump">>]
    \* what the callee leaves: its result, and what it must preserve
    [] i.mn = "call" ->
         [s EXCEPT !.at = <<"called", s.r[RSP], [j \in DOMAIN ArgRegs |-> s.r[ArgRegs[j]]]>>,
                   !.flags = <<"flags">>,
                   !.r = [r \in Gprs |-> IF r \in CalleeSaved \cup {RSP} THEN @[r]
                                         ELSE IF r = RAX THEN <<"result">> ELSE <<"lost">>]]
    [] OTHER -> [s EXCEPT !.at = <<"bad">>]

Run(s, is) == FoldLeft(Exec, s, is)

===============================================================================
