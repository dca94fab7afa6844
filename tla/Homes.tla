--------------------------------- MODULE Homes ---------------------------------
(***************************************************************************)
(* What a register allocator promises: vregs are served one after the      *)
(* other, each gets a register or a stack slot, and at no time do two      *)
(* served vregs in conflict hold one register, or any two one slot.  A     *)
(* vreg already served may lose its register to the stack; it never gets   *)
(* another, and nothing else about it changes.  Registers in which vregs   *)
(* not served yet wait are not touched.                                    *)
(***************************************************************************)
EXTENDS Naturals

CONSTANTS Vregs, Regs, NoReg, NoSlot

VARIABLES
  conflict,  \* the pairs of vregs that may not share a register
  served,    \* the vregs served
  reg,       \* vreg -> its register, or the one it waits in
  slot       \* vreg -> its stack slot

vars == <<conflict, served, reg, slot>>

Init ==
  /\ conflict \subseteq Vregs \X Vregs
  /\ served = {}
  /\ reg \in [Vregs -> Regs \cup {NoReg}]
  /\ slot = [v \in Vregs |-> NoSlot]

Kept(w) == reg'[w] = reg[w] /\ slot'[w] = slot[w]

MovedToStack(w) ==
  /\ w \in served /\ reg[w] # NoReg
  /\ reg'[w] = NoReg
  /\ slot'[w] # NoSlot /\ \A u \in Vregs : slot'[w] # slot[u]

\* The registers and slots after a step are in nobody's way.
NoClash ==
  /\ \A v, w \in served' :
       <<v, w>> \in conflict /\ reg'[v] # NoReg => reg'[v] # reg'[w]
  /\ \A v, w \in Vregs : v # w /\ slot'[v] # NoSlot => slot'[v] # slot'[w]

Serve(v) ==
  /\ v \notin served
  /\ served' = served \cup {v}
  /\ reg' \in [Vregs -> Regs \cup {NoReg}]
  /\ slot' \in [Vregs -> Nat \cup {NoSlot}]
  /\ reg'[v] # NoReg \/ slot'[v] # NoSlot
  /\ \A u \in Vregs \ served' : reg'[v] # NoReg => reg'[v] # reg[u]
  /\ \A w \in Vregs \ {v} : Kept(w) \/ MovedToStack(w)
  /\ NoClash
  /\ UNCHANGED conflict

Next == \E v \in Vregs : Serve(v)

Spec == Init /\ [][Next]_vars

===============================================================================
