--------------------------------- MODULE Emitter ---------------------------------
(***************************************************************************)
(* emit_object: the machine code of the functions of a program, with its   *)
(* labels, branch patches, symbols and relocations, the print routine, and *)
(* the ELF file around them.  The program is made up as it is emitted: a   *)
(* function's frame, registers and parameters (Shapes), and where the code *)
(* looks at the next selected instruction, one of Insts.                   *)
(*                                                                         *)
(* log and done are the yardstick: which bytes each instruction became,    *)
(* and what each finished function was.  Offsets count from 0.             *)
(***************************************************************************)
EXTENDS Encode, FiniteSets

CONSTANTS
  Names,     \* the names a program's functions may have
  NameLen,   \* length of each name of a symbol
  Shapes,    \* what is known of a function when its emission begins
  Insts,     \* the selected instructions
  Cost(_),   \* what a shape or an instruction takes of the fuel
  Fuel,      \* bound: what a program may cost
  MaxFuncs   \* bound: functions of a program

HelperName == "__vortech_print_i64"
Library == "printf"
SymbolNames == Names \cup {HelperName, Library, ".rodata"}

Branches == {"JMP", "JNE"}
Plain == {"MOV", "MOV_IMM", "XOR", "SHL", "SHR", "DIV", "MOD", "NEG", "NOT", "CMP", "TEST", "LEA", "RET"}
           \cup DOMAIN Arith \cup DOMAIN Cc

\* What isel.c selects, on the registers regalloc.c gives out, and what is known of a
\* function: of its parameters, the six that come in registers (emit.c:771).
Operands == Gprs \cup {NoReg}
Selected ==
  [op : Plain \cup Branches \cup {"CALL"}, dst : Operands, src : Operands, src2 : Operands,
   w : {8, 32, 64}, n : Int \X Int, bb : Nat, name : SymbolNames \cup {""}, args : Seq(Operands)]
Frames == [nblocks : Nat, frame : Nat, saved : Seq(Gprs), params : Seq(Operands)]

ASSUME EmitterAssumption ==
  /\ Fuel \in Nat /\ MaxFuncs \in Nat
  /\ \A n \in SymbolNames : NameLen[n] \in Nat
  /\ \A x \in Shapes \cup Insts : Cost(x) \in Nat

\* Names are identifiers of the language.
ASSUME InputAssumption ==
  /\ Insts \subseteq Selected
  /\ \A m \in Insts : m.op = "CALL" => m.name \in Names \cup {HelperName, Library}
  /\ \A shape \in Shapes : shape \in Frames /\ Len(shape.params) <= Len(ArgRegs)
  /\ Names \cap {"", ".rodata"} = {}

VARIABLES
  code,     \* .text, a string of bytes
  rodata,   \* length of .rodata
  labels,   \* of the function at hand: the offsets of the blocks begun
  patches,  \* and its branches, to be filled in
  syms, relocs,
  strtab,   \* length of .strtab
  mf,       \* the function at hand
  phase,    \* "between" functions, in the "blocks" of one, "helper", "done"
  fuel, log, done,
  file      \* what emit_write_elf made of it

emitter == <<code, rodata, labels, patches, syms, relocs, strtab>>
vars == <<emitter, mf, phase, fuel, log, done, file>>

NoFunc == [name |-> "", shape |-> [nblocks |-> 0, frame |-> 0, saved |-> <<>>, params |-> <<>>],
           start |-> 0, items |-> 0]

-------------------------------------------------------------------------------

\* Symbols.  Their numbers count from 0, symbol 0 is the null symbol.
Sym(name, shndx, value) == [name |-> name, shndx |-> shndx, value |-> value, size |-> 0]
UNDEF == 0
TEXT == 1
RODATA == 2

find_sym(ss, name) == SelectInSeq(ss, LAMBDA s : s.name = name) - 1
ensure_extern(ss, name) ==
  IF find_sym(ss, name) >= 0 THEN ss ELSE Append(ss, Sym(name, UNDEF, 0))
\* Every symbol added adds its name, with a byte of 0, to n bytes of names.
strtab_add(n, name) == n + NameLen[name] + 1
strtab_ensure(n, ss, name) == IF find_sym(ss, name) >= 0 THEN n ELSE strtab_add(n, name)

Reloc(at, type, sym, addend) == [offset |-> at, type |-> type, sym |-> sym, addend |-> addend]

Item(m, bytes) == [mi |-> m, at |-> Len(code), to |-> Len(code) + Len(bytes)]

\* The size of a function is written to the symbol that is the last one by then.
SetLastSize(ss, n) == [ss EXCEPT ![Len(ss)].size = n]

Init ==
  /\ code = <<>> /\ rodata = 0 /\ labels = <<>> /\ patches = <<>>
  /\ syms = <<Sym("", UNDEF, 0)>> /\ relocs = <<>> /\ strtab = 1
  /\ mf = NoFunc /\ phase = "between" /\ fuel = Fuel /\ log = <<>> /\ done = <<>>
  /\ file = <<>>

Spend(x) == Cost(x) <= fuel /\ fuel' = fuel - Cost(x)

\* The head of emit_func_binary.  Its symbol is added whether or not a call has
\* made one already.
BeginFunction ==
  /\ phase = "between" /\ Len(done) < MaxFuncs
  /\ \E name \in Names, shape \in Shapes :
       LET prologue == AllBytes(Prologue(shape.frame, shape.saved, shape.params)) IN
       /\ Spend(shape)
       /\ mf' = [name |-> name, shape |-> shape, start |-> Len(code), items |-> Len(log)]
       /\ syms' = Append(syms, Sym(name, TEXT, Len(code)))
       /\ strtab' = strtab_add(strtab, name)
       /\ code' = code \o prologue
       /\ log' = Append(log, Item(Mi("PROLOGUE", NoReg, NoReg, NoReg), prologue))
  /\ labels' = <<>> /\ patches' = <<>>
  /\ phase' = "blocks"
  /\ UNCHANGED <<rodata, relocs, done, file>>

BeginBlock ==
  /\ phase = "blocks" /\ Len(labels) < mf.shape.nblocks
  /\ labels' = Append(labels, Len(code))
  /\ UNCHANGED <<code, rodata, patches, syms, relocs, strtab, mf, phase, fuel, log, done, file>>

\* The next selected instruction, of some operations.  The register allocator has
\* every callee-saved register it gave away in the list of those to save.
Saved == ToSet(mf.shape.saved)
Upcoming(ops) ==
  {m \in Insts : /\ m.op \in ops /\ m.bb < mf.shape.nblocks
                 /\ ({m.dst, m.src, m.src2} \cup ToSet(m.args)) \cap CalleeSaved \subseteq Saved}

EmitBytes(m) ==
  LET bytes == AllBytes(Expand(m, mf.shape.saved)) IN
  /\ code' = code \o bytes
  /\ log' = Append(log, Item(m, bytes))

EmitPlain ==
  /\ phase = "blocks" /\ labels # <<>>
  /\ \E m \in Upcoming(Plain) : Spend(m) /\ EmitBytes(m)
  /\ UNCHANGED <<rodata, labels, patches, syms, relocs, strtab, mf, phase, done, file>>

\* The field of a branch is its last four bytes.
EmitBranch ==
  /\ phase = "blocks" /\ labels # <<>>
  /\ \E m \in Upcoming(Branches) :
       /\ Spend(m) /\ EmitBytes(m)
       /\ patches' = Append(patches, [at |-> Len(code') - 4, target |-> m.bb])
  /\ UNCHANGED <<rodata, labels, syms, relocs, strtab, mf, phase, done, file>>

\* A call gets a relocation of the field after its opcode.
AddCall(name, field) ==
  /\ syms' = ensure_extern(syms, name)
  /\ strtab' = strtab_ensure(strtab, syms, name)
  /\ relocs' = Append(relocs, Reloc(field, "PLT32", find_sym(syms', name), -4))

EmitCall_FieldAtEnd ==
  /\ phase = "blocks" /\ labels # <<>>
  /\ \E m \in Upcoming({"CALL"}) :
       /\ Spend(m) /\ EmitBytes(m)
       /\ AddCall(m.name, Len(code') - 4)
  /\ UNCHANGED <<rodata, labels, patches, mf, phase, done, file>>

EmitCall ==
  /\ phase = "blocks" /\ labels # <<>>
  /\ \E m \in Upcoming({"CALL"}) :
       /\ Spend(m) /\ EmitBytes(m)
       /\ AddCall(m.name, Len(code) + Len(AllBytes(MoveArgs(m))) + 1)
  /\ UNCHANGED <<rodata, labels, patches, mf, phase, done, file>>

Displacement_FromField(target, field) == target - field
Displacement(target, field) == target - (field + 4)
\* The patches of a function, all within the code c.
Patched(c, ps, ls) ==
  [k \in DOMAIN c |->
     LET here == {j \in DOMAIN ps : k - 1 \in ps[j].at..(ps[j].at + 3)} IN
     IF here = {} THEN c[k]
     ELSE LET p == ps[CHOOSE j \in here : TRUE]
          IN push32le(Displacement(ls[p.target + 1], p.at))[k - p.at]]

\* The tail of emit_func_binary.
EndFunction ==
  /\ phase = "blocks" /\ Len(labels) = mf.shape.nblocks
  /\ LET fallback == <<Asm("movi", 64, RAX, NoReg, Wide(0))>> \o Epilogue(mf.shape.saved)
         bytes == AllBytes(fallback)
         item == Item(MiImm(RAX, 64, Wide(0)), bytes)
     IN /\ code' = Patched(code \o bytes, patches, labels)
        /\ log' = Append(log, [item EXCEPT !.mi = [@ EXCEPT !.op = "FALLBACK"]])
  /\ syms' = SetLastSize(syms, Len(code') - mf.start)
  /\ done' = Append(done, [name |-> mf.name, shape |-> mf.shape, start |-> mf.start, end |-> Len(code'),
                           labels |-> labels, first |-> mf.items + 1, last |-> Len(log'),
                           alone |-> Last(syms).name = mf.name /\ Last(syms).shndx = TEXT])
  /\ phase' = "between" /\ mf' = NoFunc
  /\ UNCHANGED <<rodata, labels, patches, relocs, strtab, fuel, file>>

\* emit_print_helper: printf("%lld\n", argument).
HelperHead == <<Asm2("push", 64, RBP, NoReg), Mov(RBP, RSP), Mov(RSI, RDI),
                Asm("lea", 64, RDI, NoReg, Wide(0)), Asm2("xor", 32, RAX, RAX)>>
HelperCall == <<Asm("call", 64, NoReg, NoReg, Wide(0))>>
FormatLen == 6

EmitPrintHelper ==
  /\ phase = "between"
  /\ LET head == AllBytes(HelperHead)  call == AllBytes(HelperCall)
         tail == AllBytes(Epilogue(<<>>))
         at == Len(code)
         added == Append(syms, Sym(HelperName, TEXT, at))
         with == IF find_sym(added, ".rodata") >= 0 THEN added
                 ELSE Append(added, Sym(".rodata", RODATA, 0))
         lea == at + Len(head) - 2 - 4
         field == at + Len(head) + 1
         names == strtab_ensure(strtab_add(strtab, HelperName), added, ".rodata")
     IN /\ code' = code \o head \o call \o tail
        /\ strtab' = strtab_ensure(names, with, Library)
        /\ syms' = SetLastSize(ensure_extern(with, Library), Len(code') - at)
        /\ relocs' = relocs \o <<Reloc(lea, "PC32", find_sym(with, ".rodata"), rodata - 4),
                                 Reloc(field, "PLT32", find_sym(syms', Library), -4)>>
        /\ log' = log \o <<[mi |-> Mi("HELPER", NoReg, NoReg, NoReg), at |-> at, to |-> at + Len(head)],
                           [mi |-> MiCall(Library, NoReg, <<>>), at |-> at + Len(head),
                            to |-> at + Len(head) + Len(call)],
                           [mi |-> Mi("RET", NoReg, NoReg, NoReg), at |-> at + Len(head) + Len(call),
                            to |-> Len(code')]>>
        /\ done' = Append(done, [name |-> HelperName, shape |-> NoFunc.shape, start |-> at, end |-> Len(code'),
                                 labels |-> <<>>, first |-> Len(log) + 1, last |-> Len(log'), alone |-> FALSE])
  /\ rodata' = rodata + FormatLen
  /\ phase' = "helper"
  /\ UNCHANGED <<labels, patches, mf, fuel, file>>

\* emit_write_elf: where the sections lie, and whether all of it was written.
Align_Down(n, a) == (n \div a) * a
Align(n, a) == ((n + a - 1) \div a) * a
Section(name, off, size, align) == [name |-> name, off |-> off, size |-> size, align |-> align]
ShstrtabLen == 53
HeaderLen == 64
Layout ==
  LET after(s, a) == Align(s.off + s.size, a)
      text == Section(".text", HeaderLen, Len(code), 16)
      ro == Section(".rodata", after(text, 16), rodata, 8)
      rela == Section(".rela.text", after(ro, 16), 24 * Len(relocs), 8)
      symtab == Section(".symtab", after(rela, 8), 24 * Len(syms), 8)
      str == Section(".strtab", after(symtab, 8), strtab, 1)
      shstr == Section(".shstrtab", after(str, 8), ShstrtabLen, 1)
      shdrs == Section("headers", after(shstr, 16), 7 * 64, 8)
  IN <<text, ro, rela, symtab, str, shstr, shdrs>>

\* Memory for the file, the file itself or its full length may not be had.
WriteElf ==
  /\ phase = "helper"
  /\ \E written \in BOOLEAN : file' = [ok |-> written, sections |-> Layout]
  /\ phase' = "done"
  /\ UNCHANGED <<emitter, mf, fuel, log, done>>

Next ==
  \/ BeginFunction \/ BeginBlock \/ EmitPlain \/ EmitBranch \/ EmitCall
  \/ EndFunction \/ EmitPrintHelper \/ WriteElf

Spec == Init /\ [][Next]_vars

-------------------------------------------------------------------------------

\* Where the emitter is known to do something else than the selected instruction
\* says (README.md); regalloc.c, for its part, gives a result no operand's register.
NeedsHomes(m) ==
  CASE m.op \in {"MOV", "NEG", "NOT"} -> {m.dst, m.src}
    [] m.op \in {"MOV_IMM", "LEA"} \cup DOMAIN Cc -> {m.dst}
    [] m.op \in {"CMP", "TEST"} -> {m.src, m.src2}
    [] m.op = "CALL" -> ToSet(m.args)
    [] m.op \in DOMAIN Arith \cup {"XOR", "SHL", "SHR", "DIV", "MOD"} -> {m.dst, m.src, m.src2}
    [] OTHER -> {}
Moved(m, j) == j <= Len(ArgRegs) /\ m.args[j] # ArgRegs[j]
Overwritten(m) == \E j, k \in DOMAIN m.args : j < k /\ Moved(m, j) /\ m.args[k] = ArgRegs[j]

KnownWrong(m) ==
  \/ NoReg \in NeedsHomes(m)                                      \* it was spilled
  \/ m.op = "MOV" /\ m.w # 64                                     \* upper bits lost or kept
  \/ m.op = "MOV_IMM" /\ (m.w = 8 \/ (m.w = 32 /\ m.n[1] < 0))      \* the same
  \/ m.op = "XOR" /\ m.src = m.src2 /\ m.dst # m.src
  \/ m.op \in {"SHL", "SHR"} /\ m.src2 # RCX
  \/ m.op \in {"DIV", "MOD"} /\ m.src2 \in {RAX, RDX}
  \/ m.op = "MOD" /\ m.dst = RDX
  \/ m.op \in {"NEG", "NOT"} /\ m.dst # m.src
  \/ m.op = "CALL" /\ Overwritten(m)
Misencoded(m) == m.op = "LEA" /\ m.src \in {RSP, R12}

\* What a selected instruction stands for: how it leaves the registers, from s.
Untouched(s, rs) == \A r \in Gprs \ rs : s.r[r] = Start.r[r]
Gives(s, m, v, clobbered) == s.r[m.dst] = v /\ Untouched(s, {m.dst} \cup clobbered)
Meant(s, m, shape) ==
  CASE m.op = "MOV" -> Gives(s, m, Reg(m.src), {})
    [] m.op = "MOV_IMM" -> Gives(s, m, Num(m.n), {})
    [] m.op \in DOMAIN Arith -> Gives(s, m, <<Arith[m.op], Reg(m.src), Reg(m.src2)>>, {})
    [] m.op = "XOR" -> Gives(s, m, IF m.src = m.src2 THEN Num(Wide(0))
                                   ELSE <<"xor", Reg(m.src), Reg(m.src2)>>, {})
    [] m.op = "SHL" -> Gives(s, m, <<"shl", Reg(m.src), Reg(m.src2)>>, {})
    [] m.op = "SHR" -> Gives(s, m, <<"shr", Reg(m.src), Reg(m.src2)>>, {})
    [] m.op = "DIV" -> Gives(s, m, <<"div", Reg(m.src), Reg(m.src2)>>, {RAX, RDX})
    [] m.op = "MOD" -> Gives(s, m, <<"mod", Reg(m.src), Reg(m.src2)>>, {RAX})
    [] m.op = "NEG" -> Gives(s, m, <<"neg", Reg(m.src)>>, {})
    [] m.op = "NOT" -> Gives(s, m, <<"not", Reg(m.src)>>, {})
    [] m.op = "CMP" -> s.flags = <<"cmp", Reg(m.src), Reg(m.src2)>> /\ Untouched(s, {})
    [] m.op = "TEST" -> s.flags = <<"test", Reg(m.src), Reg(m.src2)>> /\ Untouched(s, {})
    [] m.op \in DOMAIN Cc -> Gives(s, m, <<"cc", Cc[m.op], Start.flags>>, {})
    [] m.op = "LEA" -> Gives(s, m, CASE ~Valid(m.src) -> Num(m.n)
                                     [] Valid(m.src) /\ m.n = Wide(0) -> Reg(m.src)
                                     [] OTHER -> <<"add", Reg(m.src), Num(m.n)>>, {})
    [] m.op = "JMP" -> s.at = <<"jump">> /\ Untouched(s, {})
    [] m.op = "JNE" -> s.at = <<"branch", 5, Start.flags>> /\ Untouched(s, {})
    [] m.op = "CALL" ->
         /\ s.at[1] = "called"
         /\ \A j \in DOMAIN m.args : j <= Len(ArgRegs) => s.at[3][j] = Reg(m.args[j])
         /\ Valid(m.dst) => s.r[m.dst] = <<"result">>
         /\ \A r \in CalleeSaved \cup {RSP} : s.r[r] = Start.r[r] \/ r = m.dst
    [] m.op = "RET" -> Valid(m.src) => s.r[RAX] = Reg(m.src)
    [] m.op = "FALLBACK" -> s.r[RAX] = Num(Wide(0))
    [] m.op = "PROLOGUE" ->
         \A p \in DOMAIN shape.params : Valid(shape.params[p]) => s.r[shape.params[p]] = Reg(ArgRegs[p])
    [] m.op = "HELPER" -> s.r[RSI] = Reg(RDI) /\ s.r[RAX] = Num(Wide(0))

Text(item) == Disassemble(code, item.at, item.to)

\* The bytes of every instruction are, for the processor, the instructions the
\* encoding functions are asked for: prefixes, register fields, displacements and
\* immediates of every width (emit.c:331-740).
DecodesBack ==
  phase = "blocks" =>
    LET it == Last(log) IN
    it.mi.op # "PROLOGUE" /\ ~Misencoded(it.mi) => Text(it) = Expand(it.mi, mf.shape.saved)

\* Run by the processor, the bytes of a selected instruction do what it says and
\* nothing else, whatever registers it was given, outside the known slips: the
\* order of moves, RAX and RDX of a division, the red zone (emit.c:809-1290).
DoesWhatItSays ==
  log # <<>> =>
    LET it == Last(log)
        shape == IF phase = "blocks" THEN mf.shape ELSE NoFunc.shape
    IN ~KnownWrong(it.mi) /\ ~Misencoded(it.mi) => Meant(Run(Start, Text(it)), it.mi, shape)

Finished == DOMAIN done
ItemsOf(f) == SubSeq(log, done[f].first, done[f].last)
\* The blocks of a finished function begin where its labels say.
BranchTargets(f) ==
  {[at |-> it.to - 4, target |-> done[f].labels[it.mi.bb + 1]] :
     it \in {i \in ToSet(ItemsOf(f)) : i.mi.op \in Branches}}

\* Every branch of a finished function lands where its target block begins, also
\* forwards, backwards over other branches, and after other functions were
\* emitted with labels and patches of their own (emit.c:1069-1130, 1295-1346).
BranchesLand ==
  \A f \in Finished : \A b \in BranchTargets(f) : b.at + 4 + Word(code, b.at) = b.target

\* The frame: entered with the return address on top and 8 more than a multiple
\* of 16, a function calls with an aligned stack and returns with the stack, the
\* saved registers and the return address it found.
OddlySaved(f) == Len(done[f].shape.saved) % 2 = 1
Returned(s) ==
  /\ s.at = <<"return address">> /\ s.r[RSP] = Sp(8)
  /\ \A r \in CalleeSaved : s.r[r] = Reg(r)
Walked(f) ==
  FoldSeq(LAMBDA it, w :
            LET s == Run(w.s, Text(it)) IN
            IF it.mi.op \in {"RET", "FALLBACK"} THEN [w EXCEPT !.ok = @ /\ Returned(s)]
            ELSE [s |-> s, ok |-> w.ok /\ (it.mi.op = "CALL" /\ ~OddlySaved(f) =>
                                             s.at[2][1] = "sp" /\ (s.at[2][2] + 8) % 16 = 0)],
          [s |-> Start, ok |-> TRUE], Reverse(ItemsOf(f)))

\* On every way out of a finished function the frame is taken down as it was put
\* up, and calls find the stack aligned unless an odd number of registers is
\* saved, below the aligned frame (emit.c:745-798).
FramesBalanced ==
  \A f \in Finished :
    (\A it \in ToSet(ItemsOf(f)) : ~Misencoded(it.mi)) => Walked(f).ok

\* What the linker makes of a name: the definition in this object, if there is one.
Definitions(name) == {k \in DOMAIN syms : syms[k].name = name /\ syms[k].shndx # UNDEF}
\* Names the program takes from the run-time routines, or twice.
Clashing ==
  \/ \E f \in Finished : done[f].name = Library
  \/ \E f, g \in Finished : f # g /\ done[f].name = done[g].name

\* Each call has the one relocation of its field, to the function it names: one of
\* the object, earlier or later, or one of the library (emit.c:1182-1206, 263-290).
CallsReach ==
  phase = "helper" /\ ~Clashing =>
    \A f \in Finished : \A it \in {i \in ToSet(ItemsOf(f)) : i.mi.op = "CALL"} :
      \E k \in DOMAIN relocs :
        LET r == relocs[k]  name == it.mi.name  defs == Definitions(syms[r.sym + 1].name) IN
        /\ r.offset \in it.at..it.to
        /\ Decode(code, r.offset - 1).i.mn = "call" /\ r.type = "PLT32" /\ r.addend = -4
        /\ syms[r.sym + 1].name = name
        /\ IF \E g \in Finished : done[g].name = name
           THEN \E d \in defs : defs = {d} /\ \E g \in Finished : done[g].name = name /\ syms[d].value = done[g].start
           ELSE defs = {}
        /\ \A j \in DOMAIN relocs : j # k => relocs[j].offset \notin it.at..it.to

\* A finished function has a symbol with its place and size.
Sized(f) ==
  \E k \in DOMAIN syms : /\ syms[k].name = done[f].name /\ syms[k].shndx = TEXT
                         /\ syms[k].value = done[f].start
                         /\ syms[k].size = done[f].end - done[f].start

\* Functions whose calls added no symbol have their sizes; the others do not: the size
\* meant for them is stored in the last symbol, which is the one added (emit.c:1345).
SizesRight == \A f \in Finished : done[f].alone => Sized(f)

\* The sections of the file follow one another without overlap, each aligned as its
\* header says, and the relocations and the symbols fit the text (emit.c:1489-1545).  Sizes
\* are asked for only of functions whose calls added no symbol (SizesRight).
FileSound ==
  file # <<>> =>
    LET ss == file.sections IN
    /\ \A k \in DOMAIN ss : ss[k].off % ss[k].align = 0
    /\ \A k \in 1..(Len(ss) - 1) : ss[k].off + ss[k].size <= ss[k + 1].off
    /\ \A k \in DOMAIN syms : syms[k].shndx = TEXT => syms[k].value < ss[1].size
    /\ \A k \in DOMAIN relocs : relocs[k].sym \in 1..(Len(syms) - 1) /\ relocs[k].offset + 4 <= ss[1].size
    /\ SizesRight

===============================================================================
