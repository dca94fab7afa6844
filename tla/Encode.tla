--------------------------------- MODULE Encode ---------------------------------
(***************************************************************************)
(* The encoding functions of emit.c, and what emit_inst_binary makes of a  *)
(* selected machine instruction: Expand gives the instructions of the      *)
(* processor it is made of, Bytes the bytes of one of them.  Branches are  *)
(* encoded with a displacement of 0 and calls with one of -1, to be filled *)
(* in later.                                                               *)
(*                                                                         *)
(* A selected instruction has registers as operands, NoReg where a vreg    *)
(* has none, and the width of its type.  Only what isel.c and peephole.c   *)
(* produce is here; the emitter's further cases have no producer.          *)
(***************************************************************************)
EXTENDS X86

Mi(op, dst, src, src2) ==
  [op |-> op, dst |-> dst, src |-> src, src2 |-> src2, w |-> 64, n |-> Wide(0),
   bb |-> 0, name |-> "", args |-> <<>>]
MiImm(dst, w, n) == [Mi("MOV_IMM", dst, NoReg, NoReg) EXCEPT !.w = w, !.n = n]
MiMov(w, dst, src) == [Mi("MOV", dst, src, NoReg) EXCEPT !.w = w]
MiLea(dst, base, disp) == [Mi("LEA", dst, base, NoReg) EXCEPT !.n = Wide(disp)]
MiGoto(op, b) == [Mi(op, NoReg, NoReg, NoReg) EXCEPT !.bb = b]
MiCall(name, dst, args) == [Mi("CALL", dst, NoReg, NoReg) EXCEPT !.name = name, !.args = args]

-------------------------------------------------------------------------------

reg_enc(r) == IF r = NoReg THEN 0 ELSE (r - 1) % 8
reg_ext(r) == IF r \in R8..R15 THEN 1 ELSE 0
reg_needs_rex_8bit(r) == r \in RSP..RDI

\* Mutated forms, here and below, are plausible slips the properties must catch;
\* no specification uses them.
make_rex_Swapped(w, reg, rm) == 64 + 8 * w + 4 * reg_ext(rm) + reg_ext(reg)
make_rex(w, reg, rm) == 64 + 8 * w + 4 * reg_ext(reg) + reg_ext(rm)
make_rex_ext(w, rm) == 64 + 8 * w + reg_ext(rm)
modrm_rr(reg, rm) == 192 + 8 * reg_enc(reg) + reg_enc(rm)
modrm_ext_rr(ext, rm) == 192 + 8 * ext + reg_enc(rm)
modrm_disp8(reg, rm) == 64 + 8 * reg_enc(reg) + reg_enc(rm)
modrm_disp32(reg, rm) == 128 + 8 * reg_enc(reg) + reg_enc(rm)

\* Little-endian bytes of a number of 32 bits, and of one of 64.
push32le(n) == <<n % 256, (n \div 256) % 256, (n \div 65536) % 256, (n \div 16777216) % 256>>
push64le(n) == push32le(n[2]) \o push32le(n[1])

\* A prefix that is left out where it has no bits to carry.
IfNeeded(needed, rex) == IF needed THEN <<rex>> ELSE <<>>
AnyExt(a, b) == reg_ext(a) + reg_ext(b) > 0

EncMov(i) ==
  LET rm == modrm_rr(i.b, i.a) IN
  CASE i.w = 64 -> <<make_rex(1, i.b, i.a), 137, rm>>
    [] i.w = 32 -> IfNeeded(AnyExt(i.a, i.b), make_rex(0, i.b, i.a)) \o <<137, rm>>
    [] i.w = 8 -> IfNeeded(AnyExt(i.a, i.b) \/ reg_needs_rex_8bit(i.a) \/ reg_needs_rex_8bit(i.b),
                           make_rex(0, i.b, i.a)) \o <<136, rm>>

\* movabs, for numbers that a sign-extended field of 32 bits cannot hold.
Fits32(n) == n = Wide(n[2])
EncMovImm(i) ==
  CASE i.w = 64 /\ ~Fits32(i.n) ->
         <<make_rex(1, NoReg, i.a), 184 + reg_enc(i.a)>> \o push64le(i.n)
    [] i.w = 64 /\ Fits32(i.n) ->
         <<make_rex_ext(1, i.a), 199, modrm_ext_rr(0, i.a)>> \o push32le(i.n[2])
    [] i.w = 32 ->
         IfNeeded(reg_ext(i.a) = 1, make_rex(0, NoReg, i.a)) \o <<184 + reg_enc(i.a)>> \o push32le(i.n[2])
    [] i.w = 8 ->
         IfNeeded(reg_ext(i.a) = 1 \/ reg_needs_rex_8bit(i.a), make_rex(0, NoReg, i.a))
           \o <<176 + reg_enc(i.a), i.n[2] % 256>>

EncAlu(i) == <<make_rex(1, i.b, i.a), Alu[i.mn], modrm_rr(i.b, i.a)>>

EncSubImm(i) ==
  IF i.n[2] <= 127
  THEN <<make_rex_ext(1, i.a), 131, modrm_ext_rr(5, i.a), i.n[2]>>
  ELSE <<make_rex_ext(1, i.a), 129, modrm_ext_rr(5, i.a)>> \o push32le(i.n[2])

EncImul(i) == <<make_rex(1, i.a, i.b), 15, 175, modrm_rr(i.a, i.b)>>

Digit == [not |-> 2, neg |-> 3, shl |-> 4, shr |-> 5, idiv |-> 7]
EncUnary(i) ==
  <<make_rex_ext(1, i.a), IF i.mn \in {"shl", "shr"} THEN 211 ELSE 247, modrm_ext_rr(Digit[i.mn], i.a)>>

EncSetcc(i) ==
  IfNeeded(reg_ext(i.a) = 1 \/ reg_needs_rex_8bit(i.a), make_rex_ext(0, i.a))
    \o <<15, 144 + i.b, modrm_ext_rr(0, i.a)>>

EncMovzx(i) ==
  IfNeeded(AnyExt(i.a, i.b) \/ reg_needs_rex_8bit(i.b), make_rex(0, i.a, i.b))
    \o <<15, 182, modrm_rr(i.a, i.b)>>

EncPush(i) == IfNeeded(reg_ext(i.a) = 1, 65) \o <<(IF i.mn = "push" THEN 80 ELSE 88) + reg_enc(i.a)>>

\* The base registers that need a SIB byte: the field that asks for it is made
\* from register number 4, which is RBX, and so holds 3.
EncLea(i) ==
  LET small == i.n[2] \in -128..127
      sib == i.b \in {RSP, R12}
      base == IF sib THEN 4 ELSE i.b
  IN <<make_rex(1, i.a, i.b), 141>>
       \o <<IF small THEN modrm_disp8(i.a, base) ELSE modrm_disp32(i.a, base)>>
       \o (IF sib THEN <<36>> ELSE <<>>)
       \o (IF small THEN <<i.n[2] % 256>> ELSE push32le(i.n[2]))
EncLeaRip(i) == <<make_rex(1, i.a, NoReg), 141, 8 * reg_enc(i.a) + 5>> \o push32le(i.n[2])

\* MOV [RSP-8], RDX and back, around a MOD.
EncRedZone(i) == <<72, IF i.mn = "store" THEN 137 ELSE 139, 84, 36, 248>>

Bytes(i) ==
  CASE i.mn = "mov" -> EncMov(i)
    [] i.mn = "movi" -> EncMovImm(i)
    [] i.mn \in DOMAIN Alu /\ i.w = 64 -> EncAlu(i)
    [] i.mn = "xor" /\ i.w = 32 -> <<49, modrm_rr(i.b, i.a)>>
    [] i.mn = "subi" -> EncSubImm(i)
    [] i.mn = "imul" -> EncImul(i)
    [] i.mn \in DOMAIN Digit -> EncUnary(i)
    [] i.mn = "set" -> EncSetcc(i)
    [] i.mn = "movzx" -> EncMovzx(i)
    [] i.mn \in {"push", "pop"} -> EncPush(i)
    [] i.mn = "lea" /\ i.b # NoReg -> EncLea(i)
    [] i.mn = "lea" /\ i.b = NoReg -> EncLeaRip(i)
    [] i.mn \in {"store", "load"} -> EncRedZone(i)
    [] i.mn = "cqo" -> <<72, 153>>
    [] i.mn = "ret" -> <<195>>
    [] i.mn = "jmp" -> <<233>> \o push32le(i.n[2])
    [] i.mn = "jcc" -> <<15, 128 + i.b>> \o push32le(i.n[2])
    [] i.mn = "call" -> <<232>> \o push32le(i.n[2])

AllBytes(is) == FlattenSeq([k \in DOMAIN is |-> Bytes(is[k])])

-------------------------------------------------------------------------------

Mov(a, b) == Asm2("mov", 64, a, b)
MovUnless(same, a, b) == IF same THEN <<>> ELSE <<Mov(a, b)>>
Valid(r) == r # NoReg

\* The cases of emit_inst_binary.  An instruction one of whose operands has no
\* register is left out, a missing first source is taken to be in place.

ExpandMov(m) ==
  IF ~Valid(m.dst) \/ ~Valid(m.src) \/ m.dst = m.src THEN <<>>
  ELSE <<Asm2("mov", m.w, m.dst, m.src)>>

ExpandMovImm(m) ==
  IF ~Valid(m.dst) THEN <<>>
  ELSE <<Asm("movi", m.w, m.dst, NoReg, IF m.w = 32 THEN <<0, m.n[2]>> ELSE m.n)>>

Arith == [ADD |-> "add", SUB |-> "sub", AND |-> "and", OR |-> "or", MUL |-> "imul"]
ExpandArith(m) ==
  IF ~Valid(m.dst) \/ ~Valid(m.src2) THEN <<>>
  ELSE MovUnless(m.dst = m.src \/ ~Valid(m.src), m.dst, m.src) \o <<Asm2(Arith[m.op], 64, m.dst, m.src2)>>

\* An XOR of a register with itself is taken for the zeroing of the result, even
\* where the result is another register.
ExpandXor(m) ==
  IF ~Valid(m.dst) \/ ~Valid(m.src2) THEN <<>>
  ELSE MovUnless(m.dst = m.src2 \/ m.src = m.src2 \/ ~Valid(m.src) \/ m.dst = m.src, m.dst, m.src)
         \o <<Asm2("xor", 64, m.dst, m.src2)>>

\* The count is expected in RCX.
ExpandShift(m) ==
  IF ~Valid(m.dst) THEN <<>>
  ELSE MovUnless(m.dst = m.src \/ ~Valid(m.src), m.dst, m.src)
         \o <<Asm2(IF m.op = "SHL" THEN "shl" ELSE "shr", 64, m.dst, RCX)>>

Idiv(m) ==
  LET lhs == IF Valid(m.src) THEN m.src ELSE RAX IN
  MovUnless(lhs = RAX, RAX, lhs) \o <<Asm2("cqo", 64, NoReg, NoReg), Asm2("idiv", 64, m.src2, NoReg)>>
ExpandDiv(m) ==
  IF ~Valid(m.src2) THEN <<>>
  ELSE Idiv(m) \o MovUnless(~Valid(m.dst) \/ m.dst = RAX, m.dst, RAX)
ExpandMod_Unsaved(m) ==
  IF ~Valid(m.src2) THEN <<>>
  ELSE Idiv(m) \o MovUnless(~Valid(m.dst) \/ m.dst = RDX, m.dst, RDX)
ExpandMod(m) ==
  IF ~Valid(m.src2) THEN <<>>
  ELSE <<Asm("store", 64, RDX, RSP, Wide(-8))>> \o Idiv(m)
         \o MovUnless(~Valid(m.dst) \/ m.dst = RDX, m.dst, RDX)
         \o <<Asm("load", 64, RDX, RSP, Wide(-8))>>

ExpandUnary(m) ==
  IF ~Valid(m.src) THEN <<>>
  ELSE <<Asm2(IF m.op = "NEG" THEN "neg" ELSE "not", 64, m.src, NoReg)>>

ExpandCompare(m) ==
  IF ~Valid(m.src) \/ ~Valid(m.src2) THEN <<>>
  ELSE <<Asm2(IF m.op = "CMP" THEN "cmp" ELSE "test", 64, m.src, m.src2)>>

Cc == [SET_EQ |-> 4, SET_NEQ |-> 5, SET_LT |-> 12, SET_GEQ |-> 13, SET_LEQ |-> 14, SET_GT |-> 15]
ExpandSet(m) ==
  IF ~Valid(m.dst) THEN <<>>
  ELSE <<Asm2("set", 8, m.dst, Cc[m.op]), Asm2("movzx", 32, m.dst, m.dst)>>

\* The arguments are moved one after the other to where the callee looks for them.
MoveArgs(m) ==
  LET n == IF Len(m.args) < Len(ArgRegs) THEN Len(m.args) ELSE Len(ArgRegs) IN
  FlattenSeq([j \in 1..n |-> MovUnless(~Valid(m.args[j]) \/ m.args[j] = ArgRegs[j],
                                       ArgRegs[j], m.args[j])])
ExpandCall(m) ==
  MoveArgs(m) \o <<Asm("call", 64, NoReg, NoReg, Wide(-1))>>
    \o MovUnless(~Valid(m.dst) \/ m.dst = RAX, m.dst, RAX)

ExpandLea(m) ==
  CASE ~Valid(m.dst) -> <<>>
    [] Valid(m.dst) /\ ~Valid(m.src) -> <<Asm("movi", 64, m.dst, NoReg, m.n)>>
    [] Valid(m.dst) /\ Valid(m.src) /\ m.n = Wide(0) /\ m.src \notin {RBP, R13, RSP, R12} ->
         <<Mov(m.dst, m.src)>>
    [] OTHER -> <<Asm("lea", 64, m.dst, m.src, m.n)>>

\* saved: the callee-saved registers the function uses, RBP excepted.
Epilogue_SameOrder(saved) ==
  [k \in DOMAIN saved |-> Asm2("pop", 64, saved[k], NoReg)]
    \o <<Mov(RSP, RBP), Asm2("pop", 64, RBP, NoReg), Asm2("ret", 64, NoReg, NoReg)>>
Epilogue(saved) ==
  [k \in DOMAIN saved |-> Asm2("pop", 64, saved[Len(saved) + 1 - k], NoReg)]
    \o <<Mov(RSP, RBP), Asm2("pop", 64, RBP, NoReg), Asm2("ret", 64, NoReg, NoReg)>>

Prologue(frame, saved, params) ==
  <<Asm2("push", 64, RBP, NoReg), Mov(RBP, RSP)>>
    \o (IF frame = 0 THEN <<>> ELSE <<Asm("subi", 64, RSP, NoReg, Wide(frame))>>)
    \o [k \in DOMAIN saved |-> Asm2("push", 64, saved[k], NoReg)]
    \o FlattenSeq([p \in DOMAIN params |->
         MovUnless(~Valid(params[p]) \/ params[p] = ArgRegs[p], params[p], ArgRegs[p])])

ExpandRet(m, saved) == MovUnless(~Valid(m.src) \/ m.src = RAX, RAX, m.src) \o Epilogue(saved)

Expand(m, saved) ==
  CASE m.op = "MOV" -> ExpandMov(m)
    [] m.op = "MOV_IMM" -> ExpandMovImm(m)
    [] m.op \in DOMAIN Arith -> ExpandArith(m)
    [] m.op = "XOR" -> ExpandXor(m)
    [] m.op \in {"SHL", "SHR"} -> ExpandShift(m)
    [] m.op = "DIV" -> ExpandDiv(m)
    [] m.op = "MOD" -> ExpandMod(m)
    [] m.op \in {"NEG", "NOT"} -> ExpandUnary(m)
    [] m.op \in {"CMP", "TEST"} -> ExpandCompare(m)
    [] m.op \in DOMAIN Cc -> ExpandSet(m)
    [] m.op = "LEA" -> ExpandLea(m)
    [] m.op = "CALL" -> ExpandCall(m)
    [] m.op = "RET" -> ExpandRet(m, saved)
    [] m.op = "JMP" -> <<Asm2("jmp", 64, NoReg, NoReg)>>
    [] m.op = "JNE" -> <<Asm2("jcc", 64, NoReg, 5)>>

===============================================================================
