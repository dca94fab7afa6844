------------------------------- MODULE Optimizer -------------------------------
(***************************************************************************)
(* The optimization passes of the -O2 pipeline of main.c, one after the    *)
(* other on one function: constant folding, dead code elimination, copy    *)
(* propagation, sparse conditional constant propagation, common            *)
(* subexpression elimination, and dead code elimination again.             *)
(*                                                                         *)
(* One step of the model is one sweep of a pass over the function, in the  *)
(* order of its blocks and instructions, changes made on the way being     *)
(* seen by the rest of the sweep.  LICM changes nothing (opt_licm.c:93)    *)
(* and has no step.                                                        *)
(*                                                                         *)
(* Three slips of the code are known, and are recorded in lapses when they *)
(* happen, so that the others can be looked for: an identity (x + 0) is    *)
(* replaced by its constant, a GEP keeps reading a vreg that common        *)
(* subexpression elimination has emptied, and a quotient of constants that *)
(* does not fit ends the compiler.                                         *)
(***************************************************************************)
EXTENDS SsaMeaning, SsaVerify

CONSTANTS
  Programs,      \* the functions to optimize: block -> instructions
  NParams,       \* their parameters are vregs 0..(NParams - 1)
  NVregs,        \* func->next_vreg
  Inputs,        \* the values of the parameters to run them with
  MaxIterations  \* MAX_ITERATIONS

ASSUME OptimizerAssumption ==
  /\ NParams \in Nat /\ NVregs \in Nat /\ NParams <= NVregs
  /\ Inputs \subseteq [0..(NParams - 1) -> Words]
  /\ MaxIterations \in Nat \ {0}

Vregs == 0..(NVregs - 1)
Params == 0..(NParams - 1)

\* The instructions of a function of n blocks.
Ops == Pure \cup {"PHI", "CALL", "PRINT", "RET", "JUMP", "BRANCH"}
BinKinds == {"add", "sub", "mul", "div", "mod"}
CmpKinds == {"eq", "lt"}
UnKinds == {"neg", "not", "bnot"}
Insts(n) == [op : Ops, kind : BinKinds \cup CmpKinds \cup UnKinds \cup {""},
             dst : Vregs \cup {NoVreg}, args : Seq(Vregs), imm : Int, bbs : Seq(0..(n - 1))]

\* The operands each operation has, and whether it defines a vreg.
Formed(i) ==
  /\ i.op = "BINOP" => i.kind \in BinKinds /\ Len(i.args) = 2
  /\ i.op = "CMP" => i.kind \in CmpKinds /\ Len(i.args) = 2
  /\ i.op = "UNOP" => i.kind \in UnKinds /\ Len(i.args) = 1
  /\ i.op \in {"BINOP", "CMP", "UNOP"} => i.dst # NoVreg
  /\ i.op = "BRANCH" => Len(i.args) = 1 /\ Len(i.bbs) = 2
  /\ i.op \in {"RET", "JUMP", "BRANCH"} => i.dst = NoVreg

\* Where the instructions of function c are.
Sites(c) == UNION {{b} \X DOMAIN c[b] : b \in DOMAIN c}
At(c, p) == c[p[1]][p[2]]

\* A vreg has one definition, a parameter none.
SingleAssignment(c) ==
  \A p \in Sites(c) : At(c, p).dst # NoVreg =>
    /\ At(c, p).dst \notin Params
    /\ \A q \in Sites(c) : At(c, q).dst = At(c, p).dst => q = p

\* ssa_verify_func has accepted the functions.  That a vreg has one definition it does
\* not ask for, and ssa_build.c:293 may give a vreg two.
ASSUME ProgramsAssumption ==
  \A c \in Programs :
    LET n == Cardinality(DOMAIN c) IN
    /\ IsFiniteSet(DOMAIN c)
    /\ c \in [0..(n - 1) -> Seq(Insts(n))]
    /\ \A p \in Sites(c) : Formed(At(c, p))
    /\ VerifyFunc(c, n, NVregs)

VARIABLES
  code,     \* the function: block -> its instructions
  meaning,  \* what it did before the first pass: input -> outcome
  stage,    \* the pass to go on with
  sweeps,   \* sweeps the pass has made
  lattice,  \* SCCP: vreg -> what is known of its value
  lapses    \* the known slips that happened

vars == <<code, meaning, stage, sweeps, lattice, lapses>>

Blocks == DOMAIN code

Top == [state |-> "top", value |-> 0]
Bottom(n) == [state |-> "bottom", value |-> n]
Constant(n) == [state |-> "const", value |-> n]

\* Where the instructions are, in the order of a sweep.
Places(c) == FlattenSeq([n \in 1..Cardinality(DOMAIN c) |->
                           [j \in DOMAIN c[n - 1] |-> <<n - 1, j>>]])
Instructions(c) == UNION {ToSet(c[b]) : b \in DOMAIN c}

\* inst->op = OP_CONST; inst->const_.value = n
AsConst(i, n) == Inst("CONST", "", i.dst, <<>>, n, <<>>)
Put(c, p, i) == [c EXCEPT ![p[1]][p[2]] = i]

Init ==
  /\ code \in Programs
  /\ meaning = [x \in Inputs |-> Outcome(code, x)]
  /\ stage = "fold"
  /\ sweeps = 0
  /\ lattice = [v \in Vregs |-> IF v \in Params THEN Bottom(0) ELSE Top]
  /\ lapses = {}

\* Go on with the pass next, or with another sweep of the same one.  Mutated forms,
\* below, are plausible slips the properties must catch; no specification
\* uses them.
NextStage(next) == stage' = next /\ sweeps' = 0

SweepAgain(changed, next) ==
  IF changed /\ sweeps + 1 < MaxIterations
  THEN stage' = stage /\ sweeps' = sweeps + 1
  ELSE NextStage(next)

-------------------------------------------------------------------------------

\* opt_const_fold.

ConstsOf(c, v) == {i \in Instructions(c) : i.op = "CONST" /\ i.dst = v}
IsConst(c, v) == ConstsOf(c, v) # {}
ConstOf(c, v) == (CHOOSE i \in ConstsOf(c, v) : TRUE).imm

Foldable(c, i) == i.op \in {"BINOP", "CMP", "UNOP"} /\ \A v \in ToSet(i.args) : IsConst(c, v)
Operands(c, i) == [j \in DOMAIN i.args |-> ConstOf(c, i.args[j])]

\* x + 0, x - 0 and x * 1, with x not a constant.
IsIdentity(c, i) ==
  /\ i.op = "BINOP" /\ ~Foldable(c, i) /\ IsConst(c, i.args[2])
  /\ \/ i.kind \in {"add", "sub"} /\ ConstOf(c, i.args[2]) = 0
     \/ i.kind = "mul" /\ ConstOf(c, i.args[2]) = 1

FoldsOverflow(c, i) ==
  Foldable(c, i) /\ i.op = "BINOP" /\ Overflows(i.kind, Operands(c, i)[1], Operands(c, i)[2])

\* An identity counts neither as a fold nor as a change.
FoldInst(s, p) ==
  LET i == At(s.code, p) IN
  CASE FoldsOverflow(s.code, i) -> [s EXCEPT !.lapses = @ \cup {"overflow"}]
    [] Foldable(s.code, i) /\ ~FoldsOverflow(s.code, i) ->
         [s EXCEPT !.code = Put(@, p, AsConst(i, ValueOf(i, Operands(s.code, i)))),
                   !.changed = TRUE]
    [] IsIdentity(s.code, i) ->
         [s EXCEPT !.code = Put(@, p, AsConst(i, ConstOf(s.code, i.args[2]))),
                   !.lapses = @ \cup {"identity"}]
    [] OTHER -> s

ConstFold ==
  /\ stage = "fold"
  /\ \E s \in {Fold(FoldInst, [code |-> code, changed |-> FALSE, lapses |-> lapses],
                    Places(code))} :
       /\ code' = s.code
       /\ lapses' = s.lapses
       /\ SweepAgain(s.changed, "dce")
  /\ UNCHANGED <<meaning, lattice>>

-------------------------------------------------------------------------------

\* opt_dce.

Effects == {"RET", "JUMP", "BRANCH", "PRINT", "CALL"}
Used(c) == UNION {ToSet(i.args) : i \in Instructions(c)} \cup Params
Keep_CallsAndUsed(c, i) == i.op \in {"PRINT", "CALL"} \/ i.dst \in Used(c)
Keep(c, i) == i.op \in Effects \/ i.dst = NoVreg \/ i.dst \in Used(c)

\* Instructions are moved up over those left out (opt_dce.c:112-126).
Survivors(c, is) == Fold(LAMBDA out, i : IF Keep(c, i) THEN Append(out, i) ELSE out, <<>>, is)

EliminateDead_Once(next) ==
  /\ code' = [b \in Blocks |-> Survivors(code, code[b])]
  /\ NextStage(next)
  /\ UNCHANGED <<meaning, lattice, lapses>>

EliminateDead(next) ==
  /\ code' = [b \in Blocks |-> Survivors(code, code[b])]
  /\ SweepAgain(code' # code, next)
  /\ UNCHANGED <<meaning, lattice, lapses>>

DeadCode ==
  \/ stage = "dce" /\ EliminateDead("copy")
  \/ stage = "dce2" /\ EliminateDead("done")

-------------------------------------------------------------------------------

\* opt_copy_prop.  A PHI with one operand is a copy.

CopyOf(c) ==
  [v \in Vregs |->
     LET copies == {i \in Instructions(c) : i.op = "PHI" /\ Len(i.args) = 1 /\ i.dst = v}
     IN IF copies = {} THEN v ELSE (CHOOSE i \in copies : TRUE).args[1]]
\* Chains of copies are followed to their end.
Origin(c) ==
  LET map == CopyOf(c) IN
  [v \in Vregs |-> Fold(LAMBDA w, n : map[w], v, [n \in 1..NVregs |-> n])]

Substitute(c, map) ==
  [b \in DOMAIN c |-> [j \in DOMAIN c[b] |->
     [c[b][j] EXCEPT !.args = [n \in DOMAIN @ |-> map[@[n]]]]]]

CopyProp ==
  /\ stage = "copy"
  /\ code' = Substitute(code, Origin(code))
  /\ NextStage("sccp")
  /\ UNCHANGED <<meaning, lattice, lapses>>

-------------------------------------------------------------------------------

\* opt_sccp.  Every block is swept, reachable or not.

Meet_LastWins(l, w) ==
  CASE w.state = "bottom" -> Bottom(l.value)
    [] w.state = "top" -> l
    [] w.state = "const" -> IF l.state = "top" \/ l.value = w.value THEN w ELSE Bottom(l.value)

Meet(l, w) ==
  CASE w.state = "bottom" -> Bottom(l.value)
    [] w.state # "bottom" /\ (w.state = "top" \/ l.state = "bottom") -> l
    [] OTHER -> IF l.state = "top" \/ l.value = w.value THEN w ELSE Bottom(l.value)

\* What the sweep makes of instruction i, given the lattice so far.
Evaluate(i, l) ==
  LET known == \A v \in ToSet(i.args) : l[v].state = "const"
      unknown == \E v \in ToSet(i.args) : l[v].state = "bottom"
      vs == [j \in DOMAIN i.args |-> l[i.args[j]].value]
  IN CASE i.op = "CONST" -> Constant(i.imm)
       [] i.op \in {"BINOP", "CMP"} ->
            IF unknown THEN Bottom(l[i.dst].value)
            ELSE IF ~known \/ (i.kind = "div" /\ vs[2] = 0) THEN l[i.dst]
            ELSE Constant(ValueOf(i, vs))
       [] i.op = "PHI" -> Fold(Meet, Top, [j \in DOMAIN i.args |-> l[i.args[j]]])
       [] OTHER -> IF l[i.dst].state = "top" THEN Bottom(l[i.dst].value) ELSE l[i.dst]

Quotients(l) == {i \in Instructions(code) :
                   i.op = "BINOP" /\ \A v \in ToSet(i.args) : l[v].state = "const"}
SweepInst(l, p) ==
  LET i == At(code, p) IN IF i.dst = NoVreg THEN l ELSE [l EXCEPT ![i.dst] = Evaluate(i, l)]
Sweep(l) == Fold(SweepInst, l, Places(code))

\* The pass sweeps until nothing changes, or 1000 times.  With one definition a vreg the
\* cap is out of reach of a function of less than 500, as each vreg changes twice at
\* most; of others the model lets it end the pass after any sweep.
Capped == IF SingleAssignment(code) /\ 2 * NVregs < 1000 THEN {FALSE} ELSE BOOLEAN
SccpSweep_OtherAlwaysChanges ==
  /\ stage = "sccp"
  /\ lattice' = Sweep(lattice)
  /\ \E capped \in Capped :
       IF ~capped /\ (lattice' # lattice
                      \/ \E i \in Instructions(code) : i.op \in {"UNOP", "GEP", "CALL"})
       THEN UNCHANGED <<stage, sweeps>> ELSE NextStage("rewrite")
  /\ UNCHANGED <<code, meaning, lapses>>

SccpSweep ==
  /\ stage = "sccp"
  /\ lattice' = Sweep(lattice)
  /\ \E capped \in Capped :
       IF lattice' # lattice /\ ~capped THEN UNCHANGED <<stage, sweeps>>
       ELSE NextStage("rewrite")
  /\ lapses' = lapses \cup
       (IF \E i \in Quotients(lattice') :
             Overflows(i.kind, lattice'[i.args[1]].value, lattice'[i.args[2]].value)
        THEN {"overflow"} ELSE {})
  /\ UNCHANGED <<code, meaning>>

Rewritten(i) ==
  CASE i.dst # NoVreg /\ lattice[i.dst].state = "const" ->
         IF i.op = "CONST" THEN i ELSE AsConst(i, lattice[i.dst].value)
    [] i.op = "BRANCH" /\ lattice[i.args[1]].state = "const" ->
         Inst("JUMP", "", NoVreg, <<>>, 0,
              <<i.bbs[IF lattice[i.args[1]].value # 0 THEN 1 ELSE 2]>>)
    [] OTHER -> i

SccpRewrite ==
  /\ stage = "rewrite"
  /\ code' = [b \in Blocks |-> [j \in DOMAIN code[b] |-> Rewritten(code[b][j])]]
  /\ NextStage("cse")
  /\ UNCHANGED <<meaning, lattice, lapses>>

-------------------------------------------------------------------------------

\* opt_cse.  The table of a block holds the expressions met in it.

Key(i) == <<i.op, i.kind, i.args>>
Earlier_AnyBlock(s, p) == {e \in s.table : e.key = Key(At(s.code, p))}
Earlier(s, p) == {e \in s.table : e.block = p[1] /\ e.key = Key(At(s.code, p))}

\* All uses of a vreg are replaced, wherever they are, but those by a GEP.
ReplaceUses(c, old, new) ==
  [b \in DOMAIN c |-> [j \in DOMAIN c[b] |->
     IF c[b][j].op = "GEP" THEN c[b][j]
     ELSE [c[b][j] EXCEPT !.args = [n \in DOMAIN @ |-> IF @[n] = old THEN new ELSE @[n]]]]]
GepReads(c, v) == \E i \in Instructions(c) : i.op = "GEP" /\ v \in ToSet(i.args)

CseInst(s, p) ==
  LET i == At(s.code, p) IN
  IF i.op \notin {"BINOP", "CMP", "UNOP"} THEN s
  ELSE IF Earlier(s, p) = {}
  THEN [s EXCEPT !.table = @ \cup {[block |-> p[1], key |-> Key(i), vreg |-> i.dst]}]
  ELSE LET e == CHOOSE f \in Earlier(s, p) : TRUE IN
       [s EXCEPT !.code = Put(ReplaceUses(@, i.dst, e.vreg), p, AsConst(i, 0)),
                 !.lapses = IF GepReads(s.code, i.dst) THEN @ \cup {"gep"} ELSE @]

Cse ==
  /\ stage = "cse"
  /\ \E s \in {Fold(CseInst, [code |-> code, table |-> {}, lapses |-> lapses],
                    Places(code))} :
       code' = s.code /\ lapses' = s.lapses
  /\ NextStage("dce2")
  /\ UNCHANGED <<meaning, lattice>>

-------------------------------------------------------------------------------

Next == ConstFold \/ DeadCode \/ CopyProp \/ SccpSweep \/ SccpRewrite \/ Cse

Spec == Init /\ [][Next]_vars

\* The driver runs the passes to their end.
FairSpec == Spec /\ WF_vars(Next)

-------------------------------------------------------------------------------

\* After every sweep of every pass the function prints and returns what it did
\* before the first, on every input it does not trap on: folding, the lattice,
\* the choice of the vreg that stays, the order of the replacements, what is
\* dead, all bear on it (opt_*.c).
Same(x) == meaning[x].end = "trap" \/ Outcome(code, x) = meaning[x]
MeaningPreserved == lapses = {} => \A x \in Inputs : Same(x)

\* opt_constfold.c:86: x + 0 = x, x - 0 = x; and a slip of no pass is excused.
IdentitiesFoldRight == lapses \subseteq {"identity"} => \A x \in Inputs : Same(x)

\* The verifier accepts the function after each pass (main.c:258).
PassesVerify == VerifyFunc(code, Cardinality(Blocks), NVregs)

\* The sweeps of dead code elimination leave nothing dead, whatever the order the
\* code is in, unless they stop for being MaxIterations: what only dead code used
\* is dead in its turn (opt_dce.c:93-137).
NothingDead ==
  [][stage' # stage /\ stage \in {"dce", "dce2"} /\ sweeps + 1 < MaxIterations =>
       \A i \in Instructions(code') : Keep(code', i)]_vars

\* In a function with one definition a vreg, which is what ssa_build.c means to make, a
\* vreg's place in the lattice only ever falls, from unknown to a constant to variable:
\* else the sweeps of SCCP might not end (opt_sccp.c:56-195).  Of a function with two
\* definitions of a vreg (ssa_build.c:293) it says nothing: CONST 1 and CONST 2 to the
\* same vreg undo each other until the cap on the sweeps.
Rank(l) == CASE l.state = "top" -> 0 [] l.state = "const" -> 1 [] OTHER -> 2
LatticeDescends ==
  [][SingleAssignment(code) => \A v \in Vregs :
       /\ Rank(lattice[v]) <= Rank(lattice'[v])
       /\ lattice[v].state = "const" /\ lattice'[v].state = "const" =>
            lattice[v] = lattice'[v]]_vars

\* Every pass comes to its end; SCCP without the cap on its sweeps, at a fixpoint.
Finishes == <>(stage = "done")

===============================================================================
