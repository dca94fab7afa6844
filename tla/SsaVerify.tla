------------------------------- MODULE SsaVerify -------------------------------
(***************************************************************************)
(* The SSA verifier, ssa_verify_func of ssa_verify.c, as a predicate on a  *)
(* function: code maps each block to its instructions, records with fields *)
(* op, dst, args (the vregs read) and bbs (the blocks named).              *)
(*                                                                         *)
(* The verifier looks at one instruction at a time.  It does not ask that  *)
(* a vreg has one definition, or one that dominates its uses, nor that the *)
(* operands of a PHI match the predecessors of its block, and it accepts a *)
(* block without instructions.                                             *)
(***************************************************************************)
EXTENDS Integers, Sequences, SequencesExt

LOCAL Ends == {"RET", "JUMP", "BRANCH"}
LOCAL NoVreg == -1

\* The operations whose operands the verifier does not look at.
Unchecked == {"GEP"}

ShapeOk(is) ==
  \/ is = <<>>
  \/ /\ Last(is).op \in Ends
     /\ \A i \in 1..(Len(is) - 1) : is[i].op \notin Ends

InRange(v, nextVreg) == v < nextVreg

OperandsOk(i, nblocks, nextVreg) ==
  /\ i.op \notin Unchecked => \A a \in ToSet(i.args) : a # NoVreg /\ InRange(a, nextVreg)
  /\ \A b \in ToSet(i.bbs) : b < nblocks
  /\ i.dst # NoVreg => InRange(i.dst, nextVreg)

VerifyBlock(is, nblocks, nextVreg) ==
  ShapeOk(is) /\ \A i \in DOMAIN is : OperandsOk(is[i], nblocks, nextVreg)

\* The entry is block 0, which every function has.
VerifyFunc(code, nblocks, nextVreg) ==
  \A b \in 0..(nblocks - 1) : VerifyBlock(code[b], nblocks, nextVreg)

===============================================================================
