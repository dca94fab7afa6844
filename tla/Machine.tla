-------------------------------- MODULE Machine --------------------------------
(***************************************************************************)
(* Machine instructions and what the code emitted for them does: the       *)
(* prologue, emit_inst_binary and the fall through from block to block of  *)
(* emit.c, as a run on a file of registers.                                *)
(*                                                                         *)
(* Before register allocation the operands are vregs, after it registers;  *)
(* NoVreg stands for VT_INVALID_VREG and for REG_NONE.  An operand an      *)
(* instruction has no use for is 0, which is vreg 0 too.  Encodings, the   *)
(* widths of moves, the frame and the saving of registers are left out.    *)
(***************************************************************************)
EXTENDS SsaMeaning, FiniteSets

CONSTANTS
  Rax, Rdx,    \* the registers of a division and of a result
  Incoming,    \* param_regs and arg_regs
  CalleeSaved  \* the registers a callee restores

Mach(op, dst, src, src2) ==
  [op |-> op, kind |-> "", dst |-> dst, src |-> src, src2 |-> src2,
   imm |-> 0, args |-> <<>>, bb |-> 0]
MachKind(op, kind, dst, src, src2) == [Mach(op, dst, src, src2) EXCEPT !.kind = kind]
MachImm(op, dst, src, n) == [Mach(op, dst, src, 0) EXCEPT !.imm = n]
MachGoto(op, b) == [Mach(op, 0, 0, 0) EXCEPT !.bb = b]
MachCall(kind, dst, vs) == [MachKind("CALL", kind, dst, 0, 0) EXCEPT !.args = vs]

Valid(r) == r # NoVreg
NoFlags == <<>>
Here == -1

-------------------------------------------------------------------------------

\* A run: the registers with a known value, the operands of the last comparison,
\* the block to go to.
MachStart(input, home) ==
  [at |-> 0, goto |-> Here, flags |-> NoFlags, printed |-> <<>>, result |-> <<>>, end |-> "running",
   regs |-> Fold(LAMBDA regs, p : IF Valid(home[p]) /\ p < Len(Incoming)
                                  THEN (home[p] :> regs[Incoming[p + 1]]) @@ regs ELSE regs,
                 [r \in {Incoming[p + 1] : p \in DOMAIN input} |->
                    input[CHOOSE p \in DOMAIN input : Incoming[p + 1] = r]],
                 [n \in 1..Cardinality(DOMAIN input) |-> n - 1])]

Set(s, r, n) == [s EXCEPT !.regs = (r :> n) @@ @]
Forget(s, rs) == [s EXCEPT !.regs = [r \in DOMAIN @ \ rs |-> @[r]]]
NewFlags(s, f) == [s EXCEPT !.flags = f]
Copy(s, r, q) == IF q \in DOMAIN s.regs THEN Set(s, r, s.regs[q]) ELSE Forget(s, {r})

\* The emitter skips an instruction one of these operands of which has no register.
Needed(m) ==
  CASE m.op \in {"MOV"} -> {m.dst, m.src}
    [] m.op \in {"MOV_IMM", "SET", "LEA", "XOR"} -> {m.dst}
    [] m.op = "ALU" -> {m.dst, m.src2}
    [] m.op \in {"DIV", "MOD"} -> {m.src2}
    [] m.op \in {"NEG", "NOT"} -> {m.src}
    [] m.op \in {"CMP", "TEST"} -> {m.src, m.src2}
    [] OTHER -> {}

\* The registers whose value an instruction that is not skipped reads.
ReadsOf(m) ==
  CASE m.op \in {"MOV", "NEG", "NOT"} -> {m.src}
    [] m.op \in {"CMP", "TEST"} -> {m.src, m.src2}
    [] m.op = "ALU" -> {m.src2, IF Valid(m.src) THEN m.src ELSE m.dst}
    [] m.op \in {"DIV", "MOD"} -> {m.src2, IF Valid(m.src) THEN m.src ELSE Rax} \ {Rdx}
    [] m.op \in {"LEA", "RET"} -> {m.src} \ {NoVreg}
    [] OTHER -> {}

DoAlu(s, m) ==
  LET t == IF Valid(m.src) THEN Copy(s, m.dst, m.src) ELSE s
  IN NewFlags(Set(t, m.dst, Arith(m.kind, t.regs[m.dst], t.regs[m.src2])), NoFlags)

\* mov rax, lhs; cqo; idiv rhs: quotient and remainder in RAX and RDX.
DoIdiv(s, m) ==
  LET t == IF Valid(m.src) THEN Copy(s, Rax, m.src) ELSE s
      n == t.regs[Rax]
      u == Set(t, Rdx, IF n < 0 THEN -1 ELSE 0)
      d == u.regs[m.src2]
  IN IF Traps("div", n, d) THEN [u EXCEPT !.end = "trap"]
     ELSE NewFlags(Set(Set(u, Rax, Quotient(n, d)), Rdx, Arith("mod", n, d)), NoFlags)

DoDiv(s, m) ==
  LET t == DoIdiv(s, m) IN IF Valid(m.dst) THEN Copy(t, m.dst, Rax) ELSE t

\* RDX is saved below the stack pointer and restored at the end.
DoMod(s, m) ==
  LET t == DoIdiv(s, m)
      u == IF Valid(m.dst) THEN Copy(t, m.dst, Rdx) ELSE t
  IN IF Rdx \in DOMAIN s.regs THEN Set(u, Rdx, s.regs[Rdx]) ELSE Forget(u, {Rdx})

\* The arguments are moved one after the other; the callee keeps what it must.
DoCall(s, m, home) ==
  LET n == IF Len(m.args) <= Len(Incoming) THEN Len(m.args) ELSE Len(Incoming)
      t == Fold(LAMBDA u, j : IF Valid(home[m.args[j]]) THEN Copy(u, Incoming[j], home[m.args[j]])
                              ELSE u,
                s, [j \in 1..n |-> j])
      vs == [j \in 1..n |-> t.regs[Incoming[j]]]
      after == Forget(t, DOMAIN t.regs \ CalleeSaved)
      back == IF m.kind = "call" THEN Set(after, Rax, Wrap(vs[1] + 1)) ELSE after
  IN IF \E j \in 1..n : Incoming[j] \notin DOMAIN t.regs THEN [s EXCEPT !.end = "undefined"]
     ELSE NewFlags([(IF Valid(m.dst) THEN Copy(back, m.dst, Rax) ELSE back)
                      EXCEPT !.printed = @ \o vs], NoFlags)

Do(s, m, home) ==
  CASE m.op = "MOV" -> Copy(s, m.dst, m.src)
    [] m.op = "MOV_IMM" -> Set(s, m.dst, m.imm)
    [] m.op = "XOR" -> NewFlags(Set(s, m.dst, 0), NoFlags)
    [] m.op = "ALU" -> DoAlu(s, m)
    [] m.op = "DIV" -> DoDiv(s, m)
    [] m.op = "MOD" -> DoMod(s, m)
    [] m.op = "NEG" -> NewFlags(Set(s, m.src, Unary("neg", s.regs[m.src])), NoFlags)
    [] m.op = "NOT" -> Set(s, m.src, Unary("bnot", s.regs[m.src]))
    [] m.op = "CMP" -> NewFlags(s, <<s.regs[m.src], s.regs[m.src2]>>)
    [] m.op = "TEST" -> NewFlags(s, <<s.regs[m.src], 0>>)
    [] m.op = "SET" -> Set(s, m.dst, Compare(m.kind, s.flags[1], s.flags[2]))
    [] m.op = "LEA" -> Set(s, m.dst, Wrap((IF Valid(m.src) THEN s.regs[m.src] ELSE 0) + m.imm))
    [] m.op = "JMP" -> [s EXCEPT !.goto = m.bb]
    [] m.op = "JNE" -> IF s.flags[1] # s.flags[2] THEN [s EXCEPT !.goto = m.bb] ELSE s
    [] m.op = "CALL" -> DoCall(s, m, home)
    [] m.op = "RET" -> [s EXCEPT !.end = "ret",
                                 !.result = IF Valid(m.src) THEN <<s.regs[m.src]>> ELSE <<>>]
    [] OTHER -> s

MachStep(s, m, home) ==
  IF s.end # "running" \/ s.goto # Here \/ NoVreg \in Needed(m) THEN s
  ELSE IF ~(ReadsOf(m) \subseteq DOMAIN s.regs) \/ (m.op \in {"SET", "JNE"} /\ s.flags = NoFlags)
  THEN [s EXCEPT !.end = "undefined"]
  ELSE Do(s, m, home)

\* A block that does not jump falls through to the next one, the last block to
\* the epilogue that returns 0.
MachBlockEnd(s, nblocks) ==
  IF s.end # "running" THEN s
  ELSE IF s.goto # Here THEN [s EXCEPT !.at = s.goto, !.goto = Here]
  ELSE IF s.at + 1 < nblocks THEN [s EXCEPT !.at = @ + 1]
  ELSE [s EXCEPT !.end = "ret", !.result = <<0>>]

MachOutcome(mach, home, input) ==
  LET n == Cardinality(DOMAIN mach)
      s == Fold(LAMBDA r, k : MachBlockEnd(Fold(LAMBDA t, m : MachStep(t, m, home), r, mach[r.at]), n),
                MachStart(input, home), [k \in 1..(2 * MaxVisits) |-> k])
  IN [printed |-> s.printed, result |-> s.result, end |-> s.end]

===============================================================================
