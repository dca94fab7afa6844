------------------------------ MODULE SsaMeaning ------------------------------
(***************************************************************************)
(* What a function in SSA form does: the values it prints and returns, run *)
(* block by block.  It is the yardstick for the optimization passes, and   *)
(* gives the operators the meaning the passes fold them with.              *)
(*                                                                         *)
(* Words have few bits: they wrap around at Half as the machine's do at    *)
(* 2^63.  A division by zero, or one whose quotient does not fit, traps.   *)
(* A call is an event like a print, and returns some function of its one   *)
(* argument.  Bit operators and shifts are left out; memory is, too.       *)
(***************************************************************************)
EXTENDS Integers, Sequences, SequencesExt, TLC

CONSTANTS
  Half,      \* words are -Half..(Half - 1)
  MaxVisits  \* bound: how many blocks a run passes through

ASSUME MeaningAssumption == Half \in Nat \ {0} /\ MaxVisits \in Nat

Words == -Half..(Half - 1)
NoVreg == -1

\* The fold of op over a sequence, from the left.  Values are bound as elements of
\* sets, for TLC to compute each of them once.
Fold(op(_, _), base, seq) ==
  CHOOSE result \in
    {LET f[n \in 0..Len(q)] ==
           IF n = 0 THEN base ELSE CHOOSE r \in {op(s, q[n]) : s \in {f[n - 1]}} : TRUE
     IN f[Len(q)] : q \in {seq}} : TRUE

\* Instructions: operation and operator, the vreg defined, the vregs read, the
\* constant, the blocks named.
Inst(op, kind, dst, args, imm, bbs) ==
  [op |-> op, kind |-> kind, dst |-> dst, args |-> args, imm |-> imm, bbs |-> bbs]

-------------------------------------------------------------------------------

Wrap(n) == ((n + Half) % (2 * Half)) - Half
Abs(n) == IF n < 0 THEN -n ELSE n
\* C rounds quotients towards zero.
Quotient(a, b) == LET q == Abs(a) \div Abs(b) IN IF (a < 0) = (b < 0) THEN q ELSE -q

Overflows(kind, a, b) == kind \in {"div", "mod"} /\ a = -Half /\ b = -1
Traps(kind, a, b) == kind \in {"div", "mod"} /\ (b = 0 \/ Overflows(kind, a, b))

\* fold_binop, fold_cmp and the folding of UNOP.
Arith(kind, a, b) ==
  CASE kind = "add" -> Wrap(a + b)
    [] kind = "sub" -> Wrap(a - b)
    [] kind = "mul" -> Wrap(a * b)
    [] kind = "div" -> IF b = 0 THEN 0 ELSE Wrap(Quotient(a, b))
    [] kind = "mod" -> IF b = 0 THEN 0 ELSE a - b * Quotient(a, b)

Truth(p) == IF p THEN 1 ELSE 0
Compare(kind, a, b) == Truth(CASE kind = "eq" -> a = b [] kind = "lt" -> a < b)
Unary(kind, a) ==
  CASE kind = "neg" -> Wrap(-a)
    [] kind = "not" -> Truth(a = 0)
    [] kind = "bnot" -> Wrap(-a - 1)

\* The value of an instruction that computes one from the values vs of its args.
Pure == {"CONST", "BINOP", "CMP", "UNOP", "GEP"}
ValueOf(i, vs) ==
  CASE i.op = "CONST" -> i.imm
    [] i.op = "BINOP" -> Arith(i.kind, vs[1], vs[2])
    [] i.op = "CMP" -> Compare(i.kind, vs[1], vs[2])
    [] i.op = "UNOP" -> Unary(i.kind, vs[1])
    [] i.op = "GEP" -> Wrap(vs[1] + i.imm)

-------------------------------------------------------------------------------

\* A run: end is "running", or how it ended: "ret", "trap", or "undefined" when a
\* vreg was used that the path taken does not define.
Start(input) ==
  [at |-> 0, from |-> -1, env |-> input, printed |-> <<>>, result |-> <<>>, end |-> "running"]

Known(s, i) == ToSet(i.args) \subseteq DOMAIN s.env
Values(s, i) == [j \in DOMAIN i.args |-> s.env[i.args[j]]]

Execute(s, i) ==
  IF s.end # "running" \/ i.op = "PHI" THEN s
  ELSE IF ~Known(s, i) THEN [s EXCEPT !.end = "undefined"]
  ELSE IF i.op = "BINOP" /\ Traps(i.kind, Values(s, i)[1], Values(s, i)[2])
  THEN [s EXCEPT !.end = "trap"]
  ELSE
  CASE i.op \in Pure -> [s EXCEPT !.env = (i.dst :> ValueOf(i, Values(s, i))) @@ @]
    [] i.op = "PRINT" -> [s EXCEPT !.printed = @ \o Values(s, i)]
    [] i.op = "CALL" -> [s EXCEPT !.printed = @ \o Values(s, i),
                                  !.env = (i.dst :> Wrap(Values(s, i)[1] + 1)) @@ @]
    [] i.op = "RET" -> [s EXCEPT !.result = Values(s, i), !.end = "ret"]
    [] i.op = "JUMP" -> [s EXCEPT !.from = s.at, !.at = i.bbs[1]]
    [] i.op = "BRANCH" ->
         [s EXCEPT !.from = s.at, !.at = i.bbs[IF Values(s, i)[1] # 0 THEN 1 ELSE 2]]

\* The PHIs of the block the run enters take their values together.
EnterBlock(s, is) ==
  LET phis == {i \in ToSet(is) : i.op = "PHI"}
      Chosen(p) == {p.args[j] : j \in {k \in DOMAIN p.args : p.bbs[k] = s.from}}
      source == [p \in phis |-> IF Chosen(p) = {} THEN NoVreg ELSE CHOOSE v \in Chosen(p) : TRUE]
      known == {p \in phis : source[p] \in DOMAIN s.env}
  IN [s EXCEPT !.env = [v \in {p.dst : p \in known} |->
                          s.env[source[CHOOSE p \in known : p.dst = v]]] @@ @]

RunBlock(code, s) ==
  IF s.end # "running" THEN s
  ELSE Fold(Execute, EnterBlock(s, code[s.at]), code[s.at])

\* input gives the parameters, the first vregs, their values.
Outcome(code, input) ==
  LET s == Fold(LAMBDA r, n : RunBlock(code, r), Start(input), [n \in 1..MaxVisits |-> n])
  IN [printed |-> s.printed, result |-> s.result, end |-> s.end]

===============================================================================
