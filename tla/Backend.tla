-------------------------------- MODULE Backend --------------------------------
(***************************************************************************)
(* From a function in SSA form to machine code: instruction selection and  *)
(* the elimination of PHIs (isel.c), live intervals, linear scan and its   *)
(* application (regalloc.c), and the peephole pass (peephole.c), composed  *)
(* with the allocator of RegAlloc and run with the emitter of Machine.     *)
(*                                                                         *)
(* The back end is right only for some functions.  What it takes for       *)
(* granted is written down as the slips: when a function or an allocation  *)
(* does not meet one of them, the slip is recorded.  EmittedRight says     *)
(* that nothing else can go wrong.                                         *)
(*                                                                         *)
(* LOAD, STORE and ALLOC, which the code selects as plain moves and a      *)
(* subtraction, are left out with memory; arenas are too.                  *)
(***************************************************************************)
EXTENDS Machine

CONSTANTS
  Programs,  \* the functions: block -> instructions
  NParams,   \* their parameters are vregs 0..(NParams - 1)
  NVregs,    \* next_vreg
  Inputs,    \* the values of the parameters to run them with
  Regs,      \* vt_alloc_gprs
  MaxPos,    \* bound: the largest index of an instruction
  MaxPeeps   \* max_iterations of the peephole pass

VARIABLES
  ssa,       \* the function
  meaning,   \* what it does: input -> outcome
  mach,      \* its machine code: block -> instructions
  edges,     \* the edges whose PHI copies are still to be placed
  live,      \* the vregs live after the instruction at each index
  stage,     \* how far the back end has come
  peeps,     \* sweeps of the peephole pass
  slips,     \* what the back end took for granted and is not so
  intervals, scanned, active, regAvailable, physReg, vregToReg, vregToSlot,
  stackSlots, stackSize  \* the register allocator

raVars == <<intervals, scanned, active, regAvailable, physReg, vregToReg, vregToSlot,
            stackSlots, stackSize>>
vars == <<ssa, meaning, mach, edges, live, stage, peeps, slips, raVars>>

RA == INSTANCE RegAlloc

Vregs == 0..(NVregs - 1)

-------------------------------------------------------------------------------

\* isel_select, instruction by instruction.

SelectInst(i) ==
  LET a == i.args IN
  CASE i.op = "CONST" -> <<MachImm("MOV_IMM", i.dst, 0, i.imm)>>
    [] i.op = "BINOP" /\ i.kind = "div" -> <<Mach("DIV", i.dst, a[1], a[2])>>
    [] i.op = "BINOP" /\ i.kind = "mod" -> <<Mach("MOD", i.dst, a[1], a[2])>>
    [] i.op = "BINOP" /\ i.kind \notin {"div", "mod"} -> <<MachKind("ALU", i.kind, i.dst, a[1], a[2])>>
    [] i.op = "UNOP" /\ i.kind = "neg" -> <<Mach("NEG", i.dst, a[1], 0)>>
    [] i.op = "UNOP" /\ i.kind = "bnot" -> <<Mach("NOT", i.dst, a[1], 0)>>
    [] i.op = "UNOP" /\ i.kind = "not" -> <<Mach("TEST", 0, a[1], a[1]), MachKind("SET", "eq", i.dst, 0, 0)>>
    [] i.op = "CMP" -> <<Mach("CMP", 0, a[1], a[2]), MachKind("SET", i.kind, i.dst, 0, 0)>>
    [] i.op = "BRANCH" -> <<Mach("TEST", 0, a[1], a[1]), MachGoto("JNE", i.bbs[1]),
                            MachGoto("JMP", i.bbs[2])>>
    [] i.op = "JUMP" -> <<MachGoto("JMP", i.bbs[1])>>
    [] i.op = "CALL" -> <<MachCall("call", i.dst, a)>>
    [] i.op = "PRINT" -> <<MachCall("print", 0, a)>>
    [] i.op = "RET" -> <<Mach("RET", 0, IF a = <<>> THEN NoVreg ELSE a[1], 0)>>
    [] i.op = "GEP" -> <<MachImm("LEA", i.dst, a[1], i.imm)>>
    [] i.op = "PHI" -> <<>>

Selected(is) ==
  <<Mach("LABEL", 0, 0, 0)>> \o FlattenSeq([j \in DOMAIN is |-> SelectInst(is[j])])

\* The copies PHIs need, gathered by edge; edges come in the order of the PHIs and
\* of their operands.
PhiOperands(f) ==
  LET Operands(b, i) == [k \in DOMAIN i.args |->
                           [pred |-> i.bbs[k], phi |-> b, dst |-> i.dst, src |-> i.args[k]]]
      OfBlock(b) == FlattenSeq([j \in DOMAIN f[b] |->
                                  IF f[b][j].op = "PHI" THEN Operands(b, f[b][j]) ELSE <<>>])
  IN FlattenSeq([n \in 1..Cardinality(DOMAIN f) |-> OfBlock(n - 1)])

OnEdge(os, o) == SelectSeq(os, LAMBDA p : p.pred = o.pred /\ p.phi = o.phi)
EdgesOf(f) ==
  LET os == SelectSeq(PhiOperands(f), LAMBDA o : o.src # o.dst)
      first == {k \in DOMAIN os : \A n \in 1..(k - 1) : OnEdge(os, os[n]) # OnEdge(os, os[k])}
  IN [n \in 1..Cardinality(first) |->
        OnEdge(os, os[CHOOSE k \in first : Cardinality({m \in first : m <= k}) = n])]

Init ==
  /\ ssa \in Programs
  /\ meaning = [x \in Inputs |-> Outcome(ssa, x)]
  /\ mach = [b \in DOMAIN ssa |-> <<>>]
  /\ edges = <<>>
  /\ live = <<>>
  /\ stage = "select"
  /\ peeps = 0
  /\ slips = {}
  /\ intervals = [v \in Vregs |-> RA!Unused]
  /\ scanned = {} /\ active = {} /\ regAvailable = {}
  /\ physReg = [v \in Vregs |-> NoVreg]
  /\ vregToReg = [v \in Vregs |-> NoVreg]
  /\ vregToSlot = [v \in Vregs |-> RA!NoSlot]
  /\ stackSlots = 0 /\ stackSize = RA!NoSize

\* NEG and NOT are emitted on their operand, and leave their result unset.
InPlace(code) == \E b \in DOMAIN code : \E m \in ToSet(code[b]) : m.op \in {"NEG", "NOT"}

Select ==
  /\ stage = "select"
  /\ mach' = [b \in DOMAIN ssa |-> Selected(ssa[b])]
  /\ edges' = EdgesOf(ssa)
  /\ slips' = IF InPlace(mach') THEN slips \cup {"in place"} ELSE slips
  /\ stage' = "copies"
  /\ UNCHANGED <<ssa, meaning, live, peeps, raVars>>

Copies(e) == [n \in DOMAIN e |-> Mach("MOV", e[n].dst, e[n].src, 0)]
\* A copy reads what an earlier one of its edge has overwritten.
Clash(e) == \E n \in DOMAIN e : \E k \in 1..(n - 1) : e[n].src = e[k].dst


SplitsJne(is, phi) ==
  /\ Len(is) >= 2 /\ is[Len(is)].op = "JMP"
  /\ is[Len(is) - 1].op = "JNE" /\ is[Len(is) - 1].bb = phi
EndsInJmp(is, phi) == is[Len(is)].op = "JMP" /\ is[Len(is)].bb = phi

\* The copies of an edge go before the jump of its first block, or into a block of
\* their own when a conditional jump takes the edge.
PlaceCopies(code, e) ==
  LET pred == e[1].pred
      phi == e[1].phi
      is == code[pred]
      edge == Cardinality(DOMAIN code)
  IN IF SplitsJne(is, phi)
     THEN (edge :> Copies(e) \o <<MachGoto("JMP", phi)>>) @@
          [code EXCEPT ![pred][Len(is) - 1].bb = edge]
     ELSE IF EndsInJmp(is, phi)
     THEN [code EXCEPT ![pred] = SubSeq(@, 1, Len(@) - 1) \o Copies(e) \o <<Last(@)>>]
     ELSE code

EliminatePhis ==
  /\ stage = "copies"
  /\ edges # <<>>
  /\ mach' = PlaceCopies(mach, Head(edges))
  /\ slips' = IF Clash(Head(edges)) THEN slips \cup {"copies"} ELSE slips
  /\ edges' = Tail(edges)
  /\ UNCHANGED <<ssa, meaning, live, stage, peeps, raVars>>

-------------------------------------------------------------------------------

\* compute_live_intervals: from the first to the last index that names the vreg,
\* in the order of the code.

Flat(code) == FlattenSeq([n \in 1..Cardinality(DOMAIN code) |-> code[n - 1]])
FirstIndex(code, b) ==
  Fold(LAMBDA n, k : n + Len(code[k - 1]), 0, [k \in 1..b |-> k])

Names_NotArgs(m) ==
  IF m.op \in {"LABEL", "NOP"} THEN {} ELSE {m.dst, m.src, m.src2} \cap Vregs

Names(m) ==
  IF m.op \in {"LABEL", "NOP"} THEN {}
  ELSE ({m.dst, m.src, m.src2} \cup ToSet(m.args)) \cap Vregs
IndicesOf(flat, v) == {n - 1 : n \in {k \in DOMAIN flat : v \in Names(flat[k])}}
SmallestOf(S) == CHOOSE n \in S : \A k \in S : n <= k
LargestOf(S) == CHOOSE n \in S : \A k \in S : k <= n

IntervalOf(flat, v) ==
  LET at == IndicesOf(flat, v) \cup (IF v < NParams THEN {0} ELSE {})
  IN IF at = {} THEN RA!Unused ELSE [start |-> SmallestOf(at), end |-> LargestOf(at)]

\* Which vregs an instruction wants, which one it sets: what liveness really is.
Wants(m) ==
  (CASE m.op \in {"MOV", "NEG", "NOT", "LEA", "RET"} -> {m.src}
     [] m.op \in {"ALU", "DIV", "MOD", "CMP", "TEST"} -> {m.src, m.src2}
     [] m.op = "CALL" -> ToSet(m.args)
     [] OTHER -> {}) \ {NoVreg}
Sets(m) ==
  IF \/ m.op \in {"MOV", "MOV_IMM", "ALU", "DIV", "MOD", "NEG", "NOT", "SET", "LEA"}
     \/ m.op = "CALL" /\ m.kind = "call"
  THEN {m.dst} ELSE {}

Successors(code, flat, n) ==
  CASE flat[n].op = "RET" -> {}
    [] flat[n].op = "JMP" -> {FirstIndex(code, flat[n].bb) + 1}
    [] flat[n].op = "JNE" -> {FirstIndex(code, flat[n].bb) + 1, n + 1}
    [] OTHER -> {n + 1}

LiveAfter(code, flat) ==
  LET next == [n \in DOMAIN flat |-> Successors(code, flat, n) \cap DOMAIN flat]
      Back(l, n) == LET after == UNION {Wants(flat[k]) \cup (l[k] \ Sets(flat[k])) : k \in next[n]}
                    IN [l EXCEPT ![n] = after]
      back == [n \in DOMAIN flat |-> Len(flat) + 1 - n]
  IN Fold(LAMBDA l, b : Fold(Back, l, back), [n \in DOMAIN flat |-> {}],
          [b \in 1..(Cardinality(DOMAIN code) + 1) |-> b])

Covers(iv, n) == iv.start <= n - 1 /\ n - 1 <= iv.end

ComputeIntervals ==
  /\ stage = "copies"
  /\ edges = <<>>
  /\ \E flat \in {Flat(mach)} :
       /\ intervals' = [v \in Vregs |-> IntervalOf(flat, v)]
       /\ live' = LiveAfter(mach, flat)
  /\ regAvailable' = Regs \ RA!Reserved
  /\ vregToReg' = [v \in Vregs |-> IF RA!ArrivesInReg(v) THEN Incoming[v + 1] ELSE NoVreg]
  /\ stage' = "scan"
  /\ UNCHANGED <<ssa, meaning, mach, edges, peeps, slips, scanned, active, physReg, vregToSlot,
                 stackSlots, stackSize>>

AllocateRegisters ==
  /\ stage = "scan"
  /\ \/ RA!Scan /\ stage' = stage
     \/ RA!Finish /\ stage' = "apply"
  /\ UNCHANGED <<ssa, meaning, mach, edges, live, peeps, slips>>

-------------------------------------------------------------------------------

\* regalloc_apply, and what the emitter takes for granted of the allocation: no
\* vreg is wanted outside its interval after its register went to another, a value
\* in a register that a call or a division overwrites is not wanted after it, the
\* moves of arguments do not meet, PRINT does not set vreg 0, every operand has a
\* register.

LostOutside(m, n) ==
  \E v \in live[n] \ Sets(m) :
    ~Covers(intervals[v], n) /\ vregToReg[v] \in {vregToReg[w] : w \in Sets(m)}
LostInCall(m, after) ==
  /\ m.op = "CALL"
  /\ \/ \E v \in after \ Sets(m) : vregToReg[v] \notin CalleeSaved
     \/ \E j, k \in DOMAIN m.args : j < k /\ j <= Len(Incoming) /\ vregToReg[m.args[k]] = Incoming[j]
     \/ m.dst \notin Sets(m) /\ m.dst \in after
LostInDivision(m, after) ==
  /\ m.op \in {"DIV", "MOD"}
  /\ \/ vregToReg[m.src2] \in {Rax, Rdx}
     \/ \E v \in after \ {m.dst} : vregToReg[v] \in {Rax, IF m.op = "DIV" THEN Rdx ELSE Rax}
     \/ m.op = "MOD" /\ vregToReg[m.dst] = Rdx
WithoutRegister(m) == \E v \in Wants(m) \cup Sets(m) : vregToReg[v] = NoVreg

SlipsOf(flat) ==
  UNION {(IF LostOutside(flat[n], n) THEN {"interval"} ELSE {}) \cup
         (IF LostInCall(flat[n], live[n]) THEN {"call"} ELSE {}) \cup
         (IF LostInDivision(flat[n], live[n]) THEN {"division"} ELSE {}) \cup
         (IF WithoutRegister(flat[n]) THEN {"spill"} ELSE {}) : n \in DOMAIN flat}

RegisterOf(v) == IF v \in Vregs THEN vregToReg[v] ELSE v

Applied(m) ==
  IF m.op \in {"LABEL", "NOP"} THEN [m EXCEPT !.src2 = RegisterOf(@)]
  ELSE [m EXCEPT !.dst = RegisterOf(@), !.src = RegisterOf(@), !.src2 = RegisterOf(@)]

Apply ==
  /\ stage = "apply"
  /\ mach' = [b \in DOMAIN mach |-> [j \in DOMAIN mach[b] |-> Applied(mach[b][j])]]
  /\ slips' = slips \cup SlipsOf(Flat(mach))
  /\ stage' = "peephole"
  /\ UNCHANGED <<ssa, meaning, edges, live, peeps, raVars>>

-------------------------------------------------------------------------------

\* peephole_run, one sweep: a move back is dropped, a zero becomes an XOR.  The
\* patterns on immediate operands have no instruction to match.

MovesBack(a, b) ==
  /\ a.op = "MOV" /\ b.op = "MOV" /\ a.dst = b.src /\ a.src = b.dst
  /\ Valid(a.dst) /\ Valid(b.dst)
ZeroToXor(m) ==
  IF m.op = "MOV_IMM" /\ m.imm = 0 /\ Valid(m.dst)
  THEN [m EXCEPT !.op = "XOR", !.src = m.dst, !.src2 = m.dst] ELSE m

\* The last instruction is never the first of a pair.
PeepBlock(is) ==
  LET kept == Fold(LAMBDA out, m :
                     IF out # <<>> /\ MovesBack(Last(out), m)
                     THEN Append(out, [m EXCEPT !.op = "NOP"]) ELSE Append(out, m), <<>>, is)
  IN SelectSeq([n \in DOMAIN kept |-> IF n < Len(kept) THEN ZeroToXor(kept[n]) ELSE kept[n]],
               LAMBDA m : m.op # "NOP")

Peephole ==
  /\ stage = "peephole"
  /\ mach' = [b \in DOMAIN mach |-> PeepBlock(mach[b])]
  /\ IF mach' # mach /\ peeps + 1 < MaxPeeps
     THEN stage' = stage /\ peeps' = peeps + 1
     ELSE stage' = "emit" /\ peeps' = peeps
  /\ UNCHANGED <<ssa, meaning, edges, live, slips, raVars>>

-------------------------------------------------------------------------------

\* Emitted: nothing is left to do, so that a deadlock is a stage that cannot go on.
Done == stage = "emit" /\ UNCHANGED vars

Next ==
  \/ Select \/ EliminatePhis \/ ComputeIntervals \/ AllocateRegisters \/ Apply \/ Peephole
  \/ Done

Spec == Init /\ [][Next]_vars

-------------------------------------------------------------------------------

Operations == {"MOV", "MOV_IMM", "ALU", "DIV", "MOD", "NEG", "NOT", "CMP", "TEST", "SET",
               "LEA", "XOR", "JMP", "JNE", "CALL", "RET", "LABEL", "NOP"}

\* After regalloc_apply every operand of an instruction is a register or none.
\* Where the back end's assumptions hold, the emitted code prints and returns
\* what the function does: selection, the placing of copies, the intervals, the
\* registers given out, their application and the peephole pass all bear on it.
EmittedRight ==
  stage = "emit" /\ slips = {} =>
    \A x \in Inputs :
      meaning[x].end # "running" => MachOutcome(mach, vregToReg, x) = meaning[x]

\* "first/last instruction index where vreg is live" (regalloc.h:18-19): a vreg
\* is live only inside its interval.
LiveInInterval ==
  stage = "scan" => \A n \in DOMAIN live : \A v \in live[n] : Covers(intervals[v], n)

\* It is so where control only goes down the code: without a loop, and without a
\* block of copies, which lies after the code it jumps back to (isel.c:423-447,
\* regalloc.c:34-71).
Downward ==
  \A b \in DOMAIN mach : \A m \in ToSet(mach[b]) : m.op \in {"JMP", "JNE"} => m.bb > b
IntervalsCover == Downward => LiveInInterval

===============================================================================
