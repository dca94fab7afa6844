------------------------------ MODULE SsaBuilder ------------------------------
(***************************************************************************)
(* The SSA builder of ssa_build.c: blocks, per-block definition tables,    *)
(* and Braun's on-the-fly construction of PHIs (read_var, write_var,       *)
(* seal_block), as a library of actions its driver (SsaBuild) runs.        *)
(*                                                                         *)
(* The C functions are recursive.  Here the calls still to be made are the *)
(* tasks of the stack todo (head first), and the vregs they returned are   *)
(* the operand stack vals (head first): a function that calls another and  *)
(* goes on with its answer pushes the callee's task over a task that holds *)
(* the rest of its own body.  Each step runs the task on top.              *)
(*                                                                         *)
(* A definition table is a function from names to vregs: the linked list   *)
(* it stands for is only ever searched for the first entry of a name.      *)
(* Successor lists are left out: no code reads them.  READ and WRITE       *)
(* instructions are not the code's; they record, in its order, what the    *)
(* source program reads and assigns, for SsaWalk to replay.                *)
(***************************************************************************)
EXTENDS Integers, Sequences, SequencesExt

CONSTANTS
  Params,    \* the function's parameters, all the variables it uses, in order
  BlocksCap  \* func->blocks_cap, the initial capacity of the block tables

ASSUME BuilderAssumption ==
  /\ Params \in Seq(STRING)
  /\ \A i, j \in 1..Len(Params) : Params[i] = Params[j] => i = j
  /\ BlocksCap \in Nat \ {0}

VARIABLES
  nblocks,        \* func->nblocks
  insts,          \* block -> its instructions
  preds,          \* block -> its recorded predecessors
  sealed,         \* block -> its sealed flag
  defs,           \* block_defs: block -> name -> vreg
  incompletePhis, \* incomplete_phis, head first
  nextVreg,       \* next_vreg
  curBlock,       \* cur_block
  todo,           \* the calls pending, innermost first
  vals            \* the vregs returned and not used yet, last first

builderVars == <<nblocks, insts, preds, sealed, defs, incompletePhis, nextVreg,
                 curBlock, todo, vals>>

Vars == {Params[i] : i \in 1..Len(Params)}
Blocks == 0..(BlocksCap - 1)
Invalid == -1  \* VT_INVALID_VREG
NoDef == -2    \* the table has no entry of that name

Terminators == {"RET", "JUMP", "BRANCH"}
SourceMarks == {"READ", "WRITE"}

\* args are vregs (the srcs of a PHI), bbs are blocks (the preds of a PHI).
Inst(op, dst, args, bbs) == [op |-> op, dst |-> dst, args |-> args, bbs |-> bbs]
Mark(op, x, v) == [op |-> op, var |-> x, args |-> <<v>>]

\* What the code sees of a block.
CodeOf(is) == SelectSeq(is, LAMBDA i : i.op \notin SourceMarks)
Terminated(b) == LET c == CodeOf(insts[b]) IN c # <<>> /\ Last(c).op \in Terminators

-------------------------------------------------------------------------------

\* ssa_build_func and ssa_builder_create: the sealed entry block, which defines
\* the parameters as the first vregs.
BuilderInit ==
  /\ nblocks = 1
  /\ insts = [b \in Blocks |-> <<>>]
  /\ preds = [b \in Blocks |-> <<>>]
  /\ sealed = [b \in Blocks |-> b = 0]
  /\ defs = [b \in Blocks |-> [x \in Vars |->
               IF b = 0 THEN (CHOOSE i \in 1..Len(Params) : Params[i] = x) - 1 ELSE NoDef]]
  /\ incompletePhis = <<>>
  /\ nextVreg = Len(Params)
  /\ curBlock = 0
  /\ vals = <<>>

\* The tasks of the builder.
Read(b, x) == [t |-> "read", b |-> b, x |-> x]
Memo(b, x) == [t |-> "memo", b |-> b, x |-> x]
Join(b, x, phi) == [t |-> "join", b |-> b, x |-> x, phi |-> phi]
Seal(b) == [t |-> "seal", b |-> b]
Scan(b, skipped) == [t |-> "scan", b |-> b, skipped |-> skipped]
Fill(b, skipped, len) == [t |-> "fill", b |-> b, skipped |-> skipped, len |-> len]

\* Return to the caller of the task on top, after the calls ts.
Continue(ts) == todo' = ts \o Tail(todo)
Return(v) == vals' = <<v>> \o vals /\ Continue(<<>>)

ReadPreds(b, x) == [i \in 1..Len(preds[b]) |-> Read(preds[b][i], x)]
\* Mutated forms, here and below, are plausible slips the properties must catch;
\* no specification uses them.
Answers_InStackOrder(b) == SubSeq(vals, 1, Len(preds[b]))

\* The answers to ReadPreds(b, x), in the order of the predecessors, once the
\* reads are done; Rest is what was on the operand stack before.
Answers(b) == Reverse(SubSeq(vals, 1, Len(preds[b])))
Rest(b) == SubSeq(vals, Len(preds[b]) + 1, Len(vals))
AllSame(s) == s # <<>> /\ \A i \in DOMAIN s : s[i] = s[1]

Define(b, x, v) == defs' = [defs EXCEPT ![b][x] = v]

-------------------------------------------------------------------------------

\* read_var_rec: the block defines the variable, or it is a sealed block without
\* predecessors and the variable is undefined.
ReadLocal(k) ==
  /\ k.t = "read"
  /\ \/ defs[k.b][k.x] # NoDef
     \/ sealed[k.b] /\ preds[k.b] = <<>>
  /\ Return(IF defs[k.b][k.x] # NoDef THEN defs[k.b][k.x] ELSE Invalid)
  /\ UNCHANGED <<nblocks, insts, preds, sealed, defs, incompletePhis, nextVreg, curBlock>>

\* A sealed block with one predecessor asks it, and remembers the answer.
ReadSinglePred(k) ==
  /\ k.t = "read" /\ defs[k.b][k.x] = NoDef /\ sealed[k.b]
  /\ Len(preds[k.b]) = 1
  /\ Continue(ReadPreds(k.b, k.x) \o <<Memo(k.b, k.x)>>)
  /\ UNCHANGED <<nblocks, insts, preds, sealed, defs, incompletePhis, nextVreg, curBlock, vals>>

RememberAnswer(k) ==
  /\ k.t = "memo"
  /\ Define(k.b, k.x, Head(vals))
  /\ Continue(<<>>)
  /\ UNCHANGED <<nblocks, insts, preds, sealed, incompletePhis, nextVreg, curBlock, vals>>

ReadManyPreds_Unrecorded(k) ==
  /\ k.t = "read" /\ defs[k.b][k.x] = NoDef /\ sealed[k.b]
  /\ Len(preds[k.b]) > 1
  /\ nextVreg' = nextVreg + 1
  /\ Continue(ReadPreds(k.b, k.x) \o <<Join(k.b, k.x, nextVreg)>>)
  /\ UNCHANGED <<nblocks, insts, preds, sealed, defs, incompletePhis, curBlock, vals>>

\* A sealed block with several predecessors takes a vreg for a PHI, defines the
\* variable as that vreg so that a read coming round a loop finds it, and asks
\* the predecessors in order.
ReadManyPreds(k) ==
  /\ k.t = "read" /\ defs[k.b][k.x] = NoDef /\ sealed[k.b]
  /\ Len(preds[k.b]) > 1
  /\ nextVreg' = nextVreg + 1
  /\ Define(k.b, k.x, nextVreg)
  /\ Continue(ReadPreds(k.b, k.x) \o <<Join(k.b, k.x, nextVreg)>>)
  /\ UNCHANGED <<nblocks, insts, preds, sealed, incompletePhis, curBlock, vals>>


\* The answers agree: no PHI, and one vreg is given back.
JoinTrivial(k) ==
  /\ k.t = "join" /\ AllSame(Answers(k.b))
  /\ Define(k.b, k.x, Head(Answers(k.b)))
  /\ nextVreg' = nextVreg - 1
  /\ vals' = <<Head(Answers(k.b))>> \o Rest(k.b)
  /\ Continue(<<>>)
  /\ UNCHANGED <<nblocks, insts, preds, sealed, incompletePhis, curBlock>>

JoinWithPhi(k) ==
  /\ k.t = "join" /\ ~AllSame(Answers(k.b))
  /\ insts' = [insts EXCEPT ![k.b] = <<Inst("PHI", k.phi, Answers(k.b), preds[k.b])>> \o @]
  /\ vals' = <<k.phi>> \o Rest(k.b)
  /\ Continue(<<>>)
  /\ UNCHANGED <<nblocks, preds, sealed, defs, incompletePhis, nextVreg, curBlock>>

\* A block that is not sealed yet gets a placeholder PHI, to be completed when
\* it is sealed.
ReadUnsealed(k) ==
  /\ k.t = "read" /\ defs[k.b][k.x] = NoDef /\ ~sealed[k.b]
  /\ nextVreg' = nextVreg + 1
  /\ Define(k.b, k.x, nextVreg)
  /\ incompletePhis' = <<[var |-> k.x, phi |-> nextVreg, block |-> k.b]>> \o incompletePhis
  /\ insts' = [insts EXCEPT ![k.b] = <<Inst("PHI", nextVreg, <<>>, <<>>)>> \o @]
  /\ Return(nextVreg)
  /\ UNCHANGED <<nblocks, preds, sealed, curBlock>>

-------------------------------------------------------------------------------

\* seal_block: nothing more for a block already sealed.
SealBlock(k) ==
  /\ k.t = "seal"
  /\ sealed' = [sealed EXCEPT ![k.b] = TRUE]
  /\ Continue(IF sealed[k.b] THEN <<>> ELSE <<Scan(k.b, 0)>>)
  /\ UNCHANGED <<nblocks, insts, preds, defs, incompletePhis, nextVreg, curBlock, vals>>

\* The walk along the list of incomplete PHIs has passed k.skipped of them, so
\* the link it stands at is the one after the last of these; while it has passed
\* none it stands at the head of the list.
ScanStep(k) ==
  /\ k.t = "scan"
  /\ LET at == k.skipped + 1 IN
       Continue(IF at > Len(incompletePhis) THEN <<>>
                ELSE IF incompletePhis[at].block # k.b THEN <<Scan(k.b, at)>>
                ELSE ReadPreds(k.b, incompletePhis[at].var)
                       \o <<Fill(k.b, k.skipped, Len(incompletePhis))>>)
  /\ UNCHANGED <<nblocks, insts, preds, sealed, defs, incompletePhis, nextVreg, curBlock, vals>>

\* The PHIs that define v in a block: the code completes the first.
PhisOf(b, v) == {i \in DOMAIN insts[b] : insts[b][i].op = "PHI" /\ insts[b][i].dst = v}

FillPhi_NotUnlinked(k) ==
  /\ k.t = "fill"
  /\ LET pushed == Len(incompletePhis) - k.len
         ip == incompletePhis[k.skipped + pushed + 1]
     IN
     /\ insts' = [insts EXCEPT ![k.b] = [i \in DOMAIN @ |->
                    IF i \in PhisOf(k.b, ip.phi) /\ \A j \in PhisOf(k.b, ip.phi) : i <= j
                    THEN Inst("PHI", ip.phi, Answers(k.b), preds[k.b]) ELSE @[i]]]
     /\ Continue(<<Scan(k.b, k.skipped + pushed)>>)
  /\ vals' = Rest(k.b)
  /\ UNCHANGED <<nblocks, preds, sealed, defs, incompletePhis, nextVreg, curBlock>>

\* The answers are in.  The reads may have pushed k.len - Len new entries before
\* the entry being completed.  If the walk stands after some entry that changes
\* nothing; if it stands at the head of the list, unlinking the entry from
\* there drops the new entries too.
FillPhi(k) ==
  /\ k.t = "fill"
  /\ LET pushed == Len(incompletePhis) - k.len
         at == k.skipped + pushed + 1
         ip == incompletePhis[at]
     IN
     /\ insts' = [insts EXCEPT ![k.b] = [i \in DOMAIN @ |->
                    IF i \in PhisOf(k.b, ip.phi) /\ \A j \in PhisOf(k.b, ip.phi) : i <= j
                    THEN Inst("PHI", ip.phi, Answers(k.b), preds[k.b]) ELSE @[i]]]
     /\ defs' = IF AllSame(Answers(k.b)) /\ defs[k.b][ip.var] = ip.phi
                THEN [defs EXCEPT ![k.b][ip.var] = Head(Answers(k.b))] ELSE defs
     /\ incompletePhis' = (IF k.skipped = 0 THEN <<>> ELSE SubSeq(incompletePhis, 1, at - 1))
                            \o SubSeq(incompletePhis, at + 1, Len(incompletePhis))
     /\ Continue(<<Scan(k.b, IF k.skipped = 0 THEN 0 ELSE at - 1)>>)
  /\ vals' = Rest(k.b)
  /\ UNCHANGED <<nblocks, preds, sealed, nextVreg, curBlock>>

BuilderStep(k) ==
  \/ ReadLocal(k) \/ ReadSinglePred(k) \/ RememberAnswer(k)
  \/ ReadManyPreds(k) \/ JoinTrivial(k) \/ JoinWithPhi(k) \/ ReadUnsealed(k)
  \/ SealBlock(k) \/ ScanStep(k) \/ FillPhi(k)

===============================================================================
