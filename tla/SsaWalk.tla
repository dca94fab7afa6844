-------------------------------- MODULE SsaWalk --------------------------------
(***************************************************************************)
(* What the SSA form built by SsaBuild means: the function is run, on any  *)
(* path its branches allow, next to the source program.  store is what     *)
(* the source's variables hold, env what the vregs hold; every executed    *)
(* definition makes a value of its own.  The READ and WRITE marks tell     *)
(* what the source does: where it reads a variable, the vreg the builder   *)
(* answered must hold what the source wrote last on this path.  Only a     *)
(* result in SSA form is run: that some are not is shown by SsaBuild.      *)
(***************************************************************************)
EXTENDS SsaBuild, TLC

CONSTANT MaxVisits  \* bound: how many blocks a run passes through

ASSUME WalkAssumption == MaxVisits \in Nat

VARIABLES
  at,       \* the block to run next, or Halted
  from,     \* the block it is reached from
  visits,   \* blocks run
  store,    \* variable -> value, in the source
  env,      \* vreg -> value, for the vregs defined so far
  misread,  \* a vreg answered for a variable did not hold its value
  unset     \* an instruction used a vreg that no path set

walkVars == <<at, from, visits, store, env, misread, unset>>

Halted == -1
Garbage == <<-1, -1>>
ValueOf(e, v) == IF v \in DOMAIN e THEN e[v] ELSE Garbage


WalkInit ==
  /\ Init
  /\ at = 0 /\ from = Halted /\ visits = 0
  /\ store = [x \in Vars |-> <<0, (CHOOSE i \in 1..Len(Params) : Params[i] = x) - 1>>]
  /\ env = [v \in 0..(Len(Params) - 1) |-> <<0, v>>]
  /\ misread = FALSE /\ unset = FALSE

\* The PHIs of a block take their values together, from the edge taken; a PHI
\* without an operand for that edge is left with whatever was there.
Phis(b) == {i \in DOMAIN insts[b] : insts[b][i].op = "PHI"}
PhiValue(i) ==
  LET p == insts[at][i]
      operands == {j \in DOMAIN p.args : p.bbs[j] = from}
  IN IF operands = {} THEN Garbage
     ELSE ValueOf(env, p.args[CHOOSE j \in operands : \A m \in operands : j <= m])
AfterPhis ==
  [v \in {insts[at][i].dst : i \in Phis(at)} |->
     PhiValue(CHOOSE i \in Phis(at) : insts[at][i].dst = v)] @@ env

\* One instruction after the PHIs.
Execute(s, i) ==
  LET ins == insts[at][i]
      known == \A j \in DOMAIN ins.args : ValueOf(s.env, ins.args[j]) # Garbage
  IN CASE ins.op = "PHI" -> s
       [] ins.op = "READ" ->
            [s EXCEPT !.misread = @ \/ ValueOf(s.env, ins.args[1]) # s.store[ins.var]]
       [] ins.op = "WRITE" -> [s EXCEPT !.store[ins.var] = ValueOf(s.env, ins.args[1])]
       [] OTHER ->
            [s EXCEPT !.unset = @ \/ ~known,
                      !.env = IF ins.dst = Invalid THEN @ ELSE (ins.dst :> <<visits + 1, i>>) @@ @]

RunBlock ==
  /\ SsaForm /\ at # Halted /\ visits < MaxVisits
  /\ LET s == FoldLeftDomain(Execute,
                [env |-> AfterPhis, store |-> store, misread |-> misread, unset |-> unset],
                insts[at])
     IN /\ env' = s.env /\ store' = s.store
        /\ misread' = s.misread /\ unset' = s.unset
  /\ at' \in IF Succs(at) = {} THEN {Halted} ELSE Succs(at)
  /\ from' = at
  /\ visits' = visits + 1
  /\ UNCHANGED vars

WalkNext ==
  \/ Next /\ UNCHANGED walkVars
  \/ RunBlock

WalkSpec == WalkInit /\ [][WalkNext]_<<vars, walkVars>>

-------------------------------------------------------------------------------

\* Where the result is in SSA form, every read of a variable sees what was last
\* written to it, on every path, through every join and round every loop, and
\* no instruction uses a vreg its path has not set: read_var, write_var and
\* seal_block compute the right PHIs (ssa_build.c:207-436).
ReadsSeeLastWrite == ~misread /\ ~unset

===============================================================================
