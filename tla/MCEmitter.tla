------------------------------- MODULE MCEmitter -------------------------------
(***************************************************************************)
(* An instance of Emitter.  A program has either one instruction of any    *)
(* kind, on any registers of a choice that tells apart those the encoding  *)
(* treats differently, or a few branches and calls in several blocks or    *)
(* functions.                                                              *)
(***************************************************************************)
EXTENDS Emitter

MCNames == {"f", "main"}
MCNameLen == [n \in SymbolNames |->
  CASE n = "f" -> 1 [] n = "main" -> 4 [] n = "printf" -> 6 [] n = ".rodata" -> 7 [] OTHER -> 19]

\* RAX and RDX take part in divisions, RCX holds the count of a shift, RSI needs a
\* prefix as a byte register; RBX, R8, R12 and R13 are told apart by addresses.
Choice == {RAX, RCX, RDX, RBX, RSI, R8, R12, R13}
Spilled == Choice \cup {NoReg}
Numbers == {Wide(0), Wide(5), Wide(-7), Wide(1000), <<0, -2147483647>>, <<-1, 7>>}

\* regalloc.c gives a result no operand's register.
Three(ops) ==
  {m \in {Mi(op, d, a, b) : op \in ops, d \in Choice, a \in Choice, b \in Choice} :
     m.dst \notin {m.src, m.src2}}
Two(ops) == {Mi(op, d, a, NoReg) : op \in ops, d \in Choice, a \in Spilled}

Rich ==
  Three({"ADD", "SUB", "MUL", "AND", "OR", "XOR", "SHL", "SHR", "DIV", "MOD"})
    \cup Two({"NEG", "NOT"})
    \cup {Mi("XOR", d, d, d) : d \in Choice}
    \cup {Mi("ADD", d, NoReg, b) : d \in {RAX, R8}, b \in {RDX, R12, NoReg}}
    \cup {Mi(op, NoReg, a, b) : op \in {"CMP", "TEST"}, a \in Choice, b \in Choice}
    \cup {Mi(op, d, NoReg, NoReg) : op \in DOMAIN Cc, d \in Spilled}
    \cup {MiMov(w, d, a) : w \in {8, 32, 64}, d \in Spilled, a \in Spilled}
    \cup {MiImm(d, w, n) : d \in Spilled, w \in {32, 64}, n \in Numbers}
    \cup {MiImm(d, 8, n) : d \in Spilled, n \in {Wide(0), Wide(1)}}
    \cup {MiLea(d, b, n) : d \in Spilled, b \in Spilled, n \in {0, 8, -8, 200}}
    \cup {MiCall("f", d, <<a, b>>) : d \in Spilled, a \in {RCX, RSI, RBX, RDI, NoReg}, b \in Choice \cup {RDI}}
    \cup {Mi("RET", NoReg, a, NoReg) : a \in Spilled}

Control ==
  {MiGoto(op, b) : op \in Branches, b \in 0..2}
    \cup {MiCall("f", R12, <<RBX>>), MiCall(HelperName, NoReg, <<RBX>>), MiCall("printf", NoReg, <<>>)}

MCInsts == Rich \cup Control

Shape(nblocks, frame, saved, params) ==
  [nblocks |-> nblocks, frame |-> frame, saved |-> saved, params |-> params]
Bare == Shape(1, 0, <<>>, <<>>)
Full == Shape(1, 16, <<RBX, R12, R13>>, <<RBX>>)
MCShapes ==
  {Bare, Full, Shape(2, 16, <<RBX, R12>>, <<RBX, NoReg, R12>>), Shape(1, 128, <<R13>>, <<R13>>),
   Shape(3, 112, <<RBX, R12, R13, R14>>, <<>>)}

MCFuel == 4
MCCost(x) == IF x \in {Bare, Full} THEN 1 ELSE IF x \in MCShapes THEN 2 ELSE IF x \in Control THEN 1 ELSE 3

===============================================================================
