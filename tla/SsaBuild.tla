------------------------------- MODULE SsaBuild -------------------------------
(***************************************************************************)
(* SSA construction from HIR, ssa_build_stmt and ssa_build_expr: the       *)
(* driver of SsaBuilder.  It lowers one function, whose body is made up as *)
(* the lowering goes: where the code looks at the next HIR node, the model *)
(* chooses one.  A run therefore lowers every program of the grammar of    *)
(* HIR that Stmts and Exprs allow and Fuel and MaxNesting bound.           *)
(*                                                                         *)
(* A node's lowering is a list of tasks: the calls it makes and the pieces *)
(* of straight-line code between them.  What an instruction computes is    *)
(* left out, what it reads and defines is kept; in particular the size     *)
(* constants, operator kinds and field offsets are not in the model.       *)
(***************************************************************************)
EXTENDS SsaBuilder, FiniteSets

CONSTANTS
  Stmts,      \* the kinds of statement of the programs
  Exprs,      \* the kinds of expression of the programs
  Fuel,       \* bound: what a program's statements and operators may cost
  Cost,       \* what a statement or operator of each kind takes of it
  MaxArgs,    \* bound: the arguments of a call
  MaxNesting  \* bound: how deep blocks nest

ASSUME DriverAssumption ==
  /\ Stmts \subseteq {"assign", "compound", "store", "print", "expr", "return", "reset",
                      "if", "ifelse", "while", "for"}
  /\ Fuel \in Nat /\ MaxArgs \in Nat /\ MaxNesting \in Nat
  /\ \A k \in Stmts \cup Exprs : Cost[k] \in Nat \ {0}

VARIABLES
  fuel,    \* what the program's further statements and operators may cost
  outcome, \* "building", then "built" or, where the process dies, "aborted"
  slips    \* the known slips of the code this function has met

vars == <<builderVars, fuel, outcome, slips>>
cfgVars == <<nblocks, insts, preds, sealed>>
ssaVars == <<defs, incompletePhis, nextVreg>>

-------------------------------------------------------------------------------

\* The tasks of the driver: calls to lower a block of statements, an expression
\* or an identifier, and the code that runs between two calls.
Task(t) == [t |-> t]
Body == Task("stmts")
Expr == Task("expr")
Ident(x) == [t |-> "ident", x |-> x]
Seen(x) == [t |-> "seen", x |-> x]
Write(x) == [t |-> "write", x |-> x]
\* Emit an instruction with a result, or without: its operands by their place on
\* the operand stack, of which it takes the first pops.
Op(op, places, pops) == [t |-> "op", op |-> op, places |-> places, pops |-> pops]
Effect(op, places, pops) == [t |-> "effect", op |-> op, places |-> places, pops |-> pops]
Const == Op("CONST", <<>>, 0)
Enter(b, p) == [t |-> "enter", b |-> b, preds |-> <<p>>]
Merge(b, ps) == [t |-> "merge", b |-> b, preds |-> ps]
Jump(b) == [t |-> "jump", b |-> b]
ArmEnd(arm, b) == [t |-> "armEnd", arm |-> arm, b |-> b]
Branch(t, f) == [t |-> "branch", true |-> t, false |-> f]
BackEdge(h, p) == [t |-> "backEdge", b |-> h, pred |-> p]
JoinOf(b, phi, ps) == [t |-> "logicJoin", b |-> b, phi |-> phi, preds |-> ps]

Emit(b, i) == insts' = [insts EXCEPT ![b] = Append(@, i)]
EmitHere(i) == Emit(curBlock, i)

\* Blocks nblocks, nblocks + 1, ... are the ones add_block hands out next.
NewBlock(i) == nblocks + i - 1
\* Mutated forms, below, are plausible slips the properties must catch;
\* no specification uses them.
Fits(n) == nblocks + n <= BlocksCap
AddBlocks(n) == Fits(n) /\ nblocks' = nblocks + n

\* How many blocks the code a task stands for adds.
BlocksAdded == [if |-> 2, ifelse |-> 3, while |-> 3, for |-> 4, and |-> 3, or |-> 3]

\* ssa_builder_add_block at the end of the tables: block_defs lies in an arena
\* page (ssa_build.c:155) and is handed to realloc, which ends the process.
GrowTables(k) ==
  /\ k.t \in DOMAIN BlocksAdded /\ ~Fits(BlocksAdded[k.t])
  /\ outcome' = "aborted"
  /\ todo' = <<>>
  /\ UNCHANGED <<cfgVars, ssaVars, curBlock, vals, fuel>>

-------------------------------------------------------------------------------

\* ssa_build_expr.  Every expression leaves its vreg on the operand stack.

Operands(k) == [i \in DOMAIN k.places |-> vals[k.places[i]]]

EmitValue(op, operands, pops) ==
  /\ EmitHere(Inst(op, nextVreg, operands, <<>>))
  /\ nextVreg' = nextVreg + 1
  /\ vals' = <<nextVreg>> \o SubSeq(vals, pops + 1, Len(vals))
  /\ Continue(<<>>)
  /\ UNCHANGED <<nblocks, preds, sealed, defs, incompletePhis, curBlock>>

LowerConst(k) == k = Expr /\ "const" \in Exprs /\ EmitValue("CONST", <<>>, 0)

LowerOp(k) == k.t = "op" /\ EmitValue(k.op, Operands(k), k.pops)

LowerIdent(k) ==
  /\ \E x \in Vars :
       /\ k = Expr \/ k = Ident(x)
       /\ Continue(<<Read(curBlock, x), Seen(x)>>)
  /\ UNCHANGED <<cfgVars, ssaVars, curBlock, vals>>

RecordRead(k) ==
  /\ k.t = "seen"
  /\ EmitHere(Mark("READ", k.x, Head(vals)))
  /\ Continue(<<>>)
  /\ UNCHANGED <<nblocks, preds, sealed, ssaVars, curBlock, vals>>

\* a && b: the left operand is on the stack.
LowerAnd(k) ==
  /\ k.t = "and" /\ AddBlocks(3)
  /\ LET rhs == NewBlock(1)  merge == NewBlock(2)  false == NewBlock(3) IN
     /\ EmitHere(Inst("BRANCH", Invalid, <<Head(vals)>>, <<rhs, false>>))
     /\ Continue(<<Enter(rhs, curBlock), Expr, Jump(merge), Seal(rhs),
                   Enter(false, curBlock), Const, Jump(merge), Seal(false),
                   JoinOf(merge, nextVreg, <<rhs, false>>)>>)
  /\ nextVreg' = nextVreg + 1
  /\ vals' = Tail(vals)
  /\ UNCHANGED <<preds, sealed, defs, incompletePhis, curBlock>>

\* a || b.
LowerOr(k) ==
  /\ k.t = "or" /\ AddBlocks(3)
  /\ LET rhs == NewBlock(1)  merge == NewBlock(2)  true == NewBlock(3) IN
     /\ EmitHere(Inst("BRANCH", Invalid, <<Head(vals)>>, <<true, rhs>>))
     /\ Continue(<<Enter(true, curBlock), Const, Jump(merge), Seal(true),
                   Enter(rhs, curBlock), Expr, Jump(merge), Seal(rhs),
                   JoinOf(merge, nextVreg, <<true, rhs>>)>>)
  /\ nextVreg' = nextVreg + 1
  /\ vals' = Tail(vals)
  /\ UNCHANGED <<preds, sealed, defs, incompletePhis, curBlock>>

\* The merge block of && and ||, with the PHI of the two values.
LogicJoin(k) ==
  /\ k.t = "logicJoin"
  /\ curBlock' = k.b
  /\ preds' = [preds EXCEPT ![k.b] = @ \o k.preds]
  /\ insts' = [insts EXCEPT ![k.b] = <<Inst("PHI", k.phi, <<vals[2], vals[1]>>, k.preds)>> \o @]
  /\ vals' = <<k.phi>> \o SubSeq(vals, 3, Len(vals))
  /\ Continue(<<Seal(k.b)>>)
  /\ UNCHANGED <<nblocks, sealed, ssaVars>>

\* The address of an element, its object and index on the stack: the GEP takes
\* the object only, and the number of the offset's vreg as a byte offset.
ElementAddress == <<Const, Op("BINOP", <<2, 1>>, 2), Op("GEP", <<2>>, 2)>>
FieldAddress == <<Op("GEP", <<1>>, 1)>>
Load == <<Op("LOAD", <<1>>, 1)>>

\* The next kind of statement or operator of the program.
Spend(kind) == Cost[kind] <= fuel /\ fuel' = fuel - Cost[kind]

\* An operator of the expression to lower: its operands, then the rest.
LowerOperator(k) ==
  /\ k = Expr
  /\ \E kind \in Exprs \ {"const"} :
       /\ Spend(kind)
       /\ \/ kind = "binary" /\ Continue(<<Expr, Expr, Op("BINOP", <<2, 1>>, 2)>>)
          \/ kind = "unary" /\ Continue(<<Expr, Op("UNOP", <<1>>, 1)>>)
          \/ kind \in {"and", "or"} /\ Continue(<<Expr, Task(kind)>>)
          \/ kind = "call" /\ \E n \in 0..MaxArgs :
               Continue([i \in 1..n |-> Expr] \o <<Op("CALL", [i \in 1..n |-> n + 1 - i], n)>>)
          \/ kind = "alloc" /\ Continue(<<Op("ARENA_ALLOC", <<>>, 0)>>)
          \/ kind = "deref" /\ Continue(<<Expr>> \o Load)
          \/ kind = "field" /\ Continue(<<Expr>> \o FieldAddress \o Load)
          \/ kind = "index" /\ Continue(<<Expr, Expr>> \o ElementAddress \o Load)
  /\ UNCHANGED <<cfgVars, ssaVars, curBlock, vals>>

-------------------------------------------------------------------------------

\* ssa_build_stmt.  The statements of a block are chosen one after the other,
\* over the task Body, which stays underneath until the block is closed.

Nesting == Cardinality({i \in 1..Len(todo) : todo[i] = Body}) - 1

\* An assignment lowers the value first; a compound one then reads the target.
Assignment(x) == <<Expr, Write(x)>>
CompoundAssignment(x) == <<Expr, Ident(x), Op("BINOP", <<1, 2>>, 2), Write(x)>>

\* An assignment through a pointer, to an element or to a field of x, the value
\* first and then the address.  A compound one reads the target in between.
Addresses(x) == {<<Ident(x)>>, <<Ident(x)>> \o FieldAddress,
                 <<Ident(x), Ident(x)>> \o ElementAddress}
Stores(x) ==
  {<<Expr>> \o a \o <<Effect("STORE", <<1, 2>>, 2)>> : a \in Addresses(x)}
    \cup {<<Expr>> \o a \o Load \o <<Op("BINOP", <<1, 2>>, 2)>>
            \o a \o <<Effect("STORE", <<1, 2>>, 2)>> : a \in Addresses(x)}

\* print evaluates all its arguments and prints the first.
PrintCall(n) ==
  [i \in 1..n |-> Expr] \o IF n = 0 THEN <<>> ELSE <<Effect("PRINT", <<n>>, n)>>

\* What a statement's lowering starts with.
Starts(kind) ==
  CASE kind = "assign" -> {Assignment(x) : x \in Vars}
    [] kind = "compound" -> {CompoundAssignment(x) : x \in Vars}
    [] kind = "store" -> UNION {Stores(x) : x \in Vars}
    [] kind = "print" -> {PrintCall(n) : n \in 0..MaxArgs}
    [] kind = "expr" -> {<<Expr, Task("drop")>>}
    [] kind = "return" -> {<<Expr, Effect("RET", <<1>>, 1)>>, <<Effect("RET", <<>>, 0)>>}
    [] kind = "reset" -> {<<Effect("ARENA_RESET", <<>>, 0)>>}
    [] kind \in {"if", "ifelse"} -> {<<Expr, Task(kind)>>}
    [] kind = "while" -> {<<Task("while")>>}
    [] kind = "for" -> {<<Task("for")>>} \cup {Assignment(x) \o <<Task("for")>> : x \in Vars}

ChooseStmt(k) ==
  /\ k = Body
  /\ \E kind \in Stmts :
       /\ Spend(kind)
       /\ kind \in {"if", "ifelse", "while", "for"} => Nesting < MaxNesting
       /\ \E ts \in Starts(kind) : todo' = ts \o todo
  /\ UNCHANGED <<cfgVars, ssaVars, curBlock, vals>>

CloseBlock(k) ==
  /\ k = Body
  /\ Continue(<<>>)
  /\ UNCHANGED <<cfgVars, ssaVars, curBlock, vals, fuel>>

\* ssa_builder_write_var, in the current block.
WriteVar(k) ==
  /\ k.t = "write"
  /\ Define(curBlock, k.x, Head(vals))
  /\ EmitHere(Mark("WRITE", k.x, Head(vals)))
  /\ vals' = Tail(vals)
  /\ Continue(<<>>)
  /\ UNCHANGED <<nblocks, preds, sealed, incompletePhis, nextVreg, curBlock>>

\* PRINT, STORE, ARENA_RESET and RET.
LowerEffect(k) ==
  /\ k.t = "effect"
  /\ EmitHere(Inst(k.op, Invalid, Operands(k), <<>>))
  /\ vals' = SubSeq(vals, k.pops + 1, Len(vals))
  /\ Continue(<<>>)
  /\ UNCHANGED <<nblocks, preds, sealed, ssaVars, curBlock>>

\* Go on in block b, whose predecessor p is recorded.
EnterBlock(k) ==
  /\ k.t = "enter"
  /\ curBlock' = k.b
  /\ preds' = [preds EXCEPT ![k.b] = @ \o k.preds]
  /\ Continue(<<>>)
  /\ UNCHANGED <<nblocks, insts, sealed, ssaVars, vals>>

\* Go on in block b, all of whose predecessors are recorded, and seal it.
MergeBlock(k) ==
  /\ k.t = "merge"
  /\ curBlock' = k.b
  /\ preds' = [preds EXCEPT ![k.b] = @ \o k.preds]
  /\ Continue(<<Seal(k.b)>>)
  /\ UNCHANGED <<nblocks, insts, sealed, ssaVars, vals>>

JumpTo(b) == Inst("JUMP", Invalid, <<>>, <<b>>)

EmitJump(k) ==
  /\ k.t = "jump"
  /\ EmitHere(JumpTo(k.b))
  /\ Continue(<<>>)
  /\ UNCHANGED <<nblocks, preds, sealed, ssaVars, curBlock, vals>>

\* The end of an arm of an if with an else: the jump to the merge block is left
\* out after a terminator, and in a block without instructions.
EndArm(k) ==
  /\ k.t = "armEnd"
  /\ IF CodeOf(insts[curBlock]) = <<>> \/ Terminated(curBlock)
     THEN UNCHANGED insts
     ELSE EmitHere(JumpTo(k.b))
  /\ Continue(<<Seal(k.arm)>>)
  /\ UNCHANGED <<nblocks, preds, sealed, ssaVars, curBlock, vals>>

EmitBranch(k) ==
  /\ k.t = "branch"
  /\ EmitHere(Inst("BRANCH", Invalid, <<Head(vals)>>, <<k.true, k.false>>))
  /\ vals' = Tail(vals)
  /\ Continue(<<>>)
  /\ UNCHANGED <<nblocks, preds, sealed, ssaVars, curBlock>>

\* The back edge of a loop is recorded as coming from the block its body, or its
\* update, began in.
AddBackEdge(k) ==
  /\ k.t = "backEdge"
  /\ preds' = [preds EXCEPT ![k.b] = Append(@, k.pred)]
  /\ Continue(<<>>)
  /\ UNCHANGED <<nblocks, insts, sealed, ssaVars, curBlock, vals>>

LowerIf(k) ==
  /\ k.t = "if" /\ AddBlocks(2)
  /\ LET then == NewBlock(1)  merge == NewBlock(2) IN
       Continue(<<Branch(then, merge), Enter(then, curBlock), Body, Jump(merge),
                  Seal(then), Merge(merge, <<curBlock, then>>)>>)
  /\ UNCHANGED <<insts, preds, sealed, ssaVars, curBlock, vals>>

LowerIfElse(k) ==
  /\ k.t = "ifelse" /\ AddBlocks(3)
  /\ LET then == NewBlock(1)  else == NewBlock(2)  merge == NewBlock(3) IN
       Continue(<<Branch(then, else),
                  Enter(then, curBlock), Body, ArmEnd(then, merge),
                  Enter(else, curBlock), Body, ArmEnd(else, merge),
                  Merge(merge, <<then, else>>)>>)
  /\ UNCHANGED <<insts, preds, sealed, ssaVars, curBlock, vals>>

LowerWhile_SealsHeaderEarly(k) ==
  /\ k.t = "while" /\ AddBlocks(3)
  /\ LET header == NewBlock(1)  body == NewBlock(2)  exit == NewBlock(3) IN
       Continue(<<Jump(header), Enter(header, curBlock), Seal(header), Expr,
                  Branch(body, exit), Enter(body, header), Body, Jump(header),
                  BackEdge(header, body), Seal(body), Merge(exit, <<header>>)>>)
  /\ UNCHANGED <<insts, preds, sealed, ssaVars, curBlock, vals>>


LowerWhile_ExitFromBody(k) ==
  /\ k.t = "while" /\ AddBlocks(3)
  /\ LET header == NewBlock(1)  body == NewBlock(2)  exit == NewBlock(3) IN
       Continue(<<Jump(header), Enter(header, curBlock), Expr, Branch(body, exit),
                  Enter(body, header), Body, Jump(header), BackEdge(header, body),
                  Seal(header), Seal(body), Merge(exit, <<body>>)>>)
  /\ UNCHANGED <<insts, preds, sealed, ssaVars, curBlock, vals>>

LowerWhile(k) ==
  /\ k.t = "while" /\ AddBlocks(3)
  /\ LET header == NewBlock(1)  body == NewBlock(2)  exit == NewBlock(3) IN
       Continue(<<Jump(header), Enter(header, curBlock), Expr, Branch(body, exit),
                  Enter(body, header), Body, Jump(header), BackEdge(header, body),
                  Seal(header), Seal(body), Merge(exit, <<header>>)>>)
  /\ UNCHANGED <<insts, preds, sealed, ssaVars, curBlock, vals>>

\* The condition may be missing, in which case it is the constant 1, and so may
\* the update, whose value is dropped.
LowerFor(k) ==
  /\ k.t = "for" /\ AddBlocks(4)
  /\ LET header == NewBlock(1)  body == NewBlock(2)
         update == NewBlock(3)  exit == NewBlock(4)
     IN \E cond \in {Expr, Const}, upd \in {<<>>, <<Expr, Task("drop")>>} :
          Continue(<<Jump(header), Enter(header, curBlock), cond, Branch(body, exit),
                     Enter(body, header), Body, Jump(update), Seal(body),
                     Enter(update, body)>> \o upd \o
                   <<Jump(header), BackEdge(header, update),
                     Seal(header), Seal(update), Merge(exit, <<header>>)>>)
  /\ UNCHANGED <<insts, preds, sealed, ssaVars, curBlock, vals>>

DropValue(k) ==
  /\ k.t = "drop"
  /\ vals' = Tail(vals)
  /\ Continue(<<>>)
  /\ UNCHANGED <<cfgVars, ssaVars, curBlock>>

\* The end of ssa_build_func: a RET unless the last block ends in a terminator
\* or has no instruction at all.
EndFunction(k) ==
  /\ k.t = "end"
  /\ IF CodeOf(insts[curBlock]) = <<>> \/ Terminated(curBlock)
     THEN UNCHANGED insts
     ELSE EmitHere(Inst("RET", Invalid, <<>>, <<>>))
  /\ outcome' = "built"
  /\ Continue(<<>>)
  /\ UNCHANGED <<nblocks, preds, sealed, ssaVars, curBlock, vals, fuel>>

-------------------------------------------------------------------------------

Init ==
  /\ BuilderInit
  /\ todo = <<Body, Task("end")>>
  /\ fuel = Fuel
  /\ outcome = "building"
  /\ slips = {}

\* The steps that neither begin a statement or an operator nor end the function.
Lower(k) ==
  \/ LowerConst(k) \/ LowerOp(k) \/ LowerIdent(k) \/ RecordRead(k)
  \/ LowerAnd(k) \/ LowerOr(k) \/ LogicJoin(k)
  \/ WriteVar(k) \/ LowerEffect(k) \/ DropValue(k)
  \/ EnterBlock(k) \/ MergeBlock(k) \/ EmitJump(k) \/ EndArm(k)
  \/ EmitBranch(k) \/ AddBackEdge(k)
  \/ LowerIf(k) \/ LowerIfElse(k) \/ LowerWhile(k) \/ LowerFor(k)

Step(k) ==
  \/ /\ BuilderStep(k) \/ Lower(k)
     /\ UNCHANGED <<fuel, outcome>>
  \/ /\ LowerOperator(k) \/ ChooseStmt(k) \/ CloseBlock(k)
     /\ UNCHANGED outcome
  \/ EndFunction(k)
  \/ GrowTables(k)

\* Where the code of ssa_build.c is known to go wrong, told by the task at hand.
Succs(b) == LET c == CodeOf(insts[b]) IN
            IF c # <<>> /\ Last(c).op \in {"JUMP", "BRANCH"} THEN ToSet(Last(c).bbs) ELSE {}

\* An arm is sealed, or left, in another block than it began in.
Moved(k) ==
  \/ k.t = "seal" /\ curBlock # k.b /\ k.b \notin Succs(curBlock)
  \/ k.t = "enter" /\ k.b \in Succs(curBlock) /\ k.preds # <<curBlock>>

\* A statement, or the jump out of an arm, comes after a return.
AfterReturn(k) ==
  /\ Terminated(curBlock)
  /\ \/ k.t \in {"jump", "armEnd"}
     \/ k = Body /\ Len(todo') > Len(todo)

\* An arm, or the function, ends in a block without instructions.
EndsEmpty(k) == k.t \in {"armEnd", "end"} /\ CodeOf(insts[curBlock]) = <<>>

\* seal_block unlinks, from the head of the list, entries pushed meanwhile.
LosesPhis(k) == k.t = "fill" /\ k.skipped = 0 /\ Len(incompletePhis) > k.len

\* read_var gives back a vreg that is not the last one handed out.
GivesBackAnother(k) == k.t = "join" /\ AllSame(Answers(k.b)) /\ k.phi # nextVreg - 1

SlipsOf(k) ==
  {s \in {"moved", "afterReturn", "endsEmpty", "lostPhi", "wrongVreg"} :
     CASE s = "moved" -> Moved(k)
       [] s = "afterReturn" -> AfterReturn(k)
       [] s = "endsEmpty" -> EndsEmpty(k)
       [] s = "lostPhi" -> LosesPhis(k)
       [] s = "wrongVreg" -> GivesBackAnother(k)}

Next ==
  /\ todo # <<>>
  /\ Step(Head(todo))
  /\ slips' = slips \cup SlipsOf(Head(todo))

Spec == Init /\ [][Next]_vars

\* The compiler runs on until the function is lowered.
FairSpec == Spec /\ WF_vars(Next)

-------------------------------------------------------------------------------

Ops == {"PHI", "CONST", "BINOP", "UNOP", "CALL", "PRINT", "LOAD", "STORE", "GEP",
        "ARENA_ALLOC", "ARENA_RESET"} \cup Terminators
InstType == [op : Ops,
             dst : Nat \cup {Invalid}, args : Seq(Nat), bbs : Seq(Blocks)]
MarkType == [op : SourceMarks, var : Vars, args : Seq(Nat)]

InUse == 0..(nblocks - 1)
Built == outcome = "built"

\* A sealed block's predecessors are final: PHIs have been, and will be, built
\* from them.  Sealing a loop header, or a merge block, a step too early breaks
\* it (ssa_build.c:241-242, 377-380, 1123-1129).
SealedPredsFrozen ==
  [][\A b \in Blocks : sealed[b] => sealed'[b] /\ preds'[b] = preds[b]]_vars

\* While read_var asks the predecessors of a block for a variable, the reads this
\* leads to never ask that block for it again: the definition recorded before
\* the recursion stops them, round every loop (ssa_build.c:247-274).
NeverAskedTwice ==
  \A i, j \in 1..Len(todo) :
    /\ todo[i].t \in {"memo", "join"} /\ todo[j].t \in {"memo", "join"}
    /\ <<todo[i].b, todo[i].x>> = <<todo[j].b, todo[j].x>>
    => i = j

\* Lowering ends, whatever the shape of the loops it reads variables around.
Terminates == <>(outcome # "building")

-------------------------------------------------------------------------------

\* What makes the result a function in SSA form.

Definitions(b) ==
  {i \in DOMAIN insts[b] : insts[b][i].op \in Ops /\ insts[b][i].dst # Invalid}

\* The verifier insists on it (ssa_verify.c:32-40): a terminator comes last.
TerminatorsLast ==
  Built => \A b \in InUse : LET c == CodeOf(insts[b]) IN
             \A i \in DOMAIN c : c[i].op \in Terminators => i = Len(c)

\* Every block ends in one.
BlocksTerminated == \A b \in InUse : Terminated(b)

\* ssa.h:96 and ssa_build.c:242: once a block is sealed all its predecessors are
\* known, the blocks that jump or branch to it.
SealedPredsKnown ==
  Built => \A b \in InUse : sealed[b] => ToSet(preds[b]) = {p \in InUse : b \in Succs(p)}

\* ssa_build.c:376: sealing a block completes its incomplete PHIs.
SealedPhisComplete ==
  Built => \A b \in InUse : sealed[b] =>
             \A i \in DOMAIN insts[b] :
               insts[b][i].op = "PHI" => Len(insts[b][i].args) = Len(preds[b])

\* ssa_build.c:291-293: the vreg given back is the one of the PHI not built, so
\* that every vreg below next_vreg has one definition and none above has any.
OneDefinition ==
  Built => /\ \A b, c \in InUse : \A i \in Definitions(b), j \in Definitions(c) :
                 insts[b][i].dst = insts[c][j].dst => b = c /\ i = j
           /\ \A b \in InUse : \A i \in Definitions(b) :
                 insts[b][i].dst \in Len(Params)..(nextVreg - 1)

\* Every block was sealed once its predecessors were recorded, the list of incomplete
\* PHIs is empty, and every vreg an expression returned was taken by its user.
NothingLeftOver ==
  /\ \A b \in InUse : sealed[b]
  /\ incompletePhis = <<>>
  /\ vals = <<>>

SsaForm ==
  /\ Built /\ NothingLeftOver
  /\ BlocksTerminated /\ TerminatorsLast
  /\ SealedPredsKnown /\ SealedPhisComplete /\ OneDefinition

\* The five slips are all there is: a function that meets none of them is built
\* in SSA form, whatever its branches, loops and logical operators, and whatever
\* read_var had to go round to find its variables (ssa_build.c:228-436, 850-1322).
FormKept == Built /\ slips = {} => SsaForm

===============================================================================
