------------------------------- MODULE RegAlloc -------------------------------
(***************************************************************************)
(* The linear-scan register allocator, regalloc_linear_scan of regalloc.c. *)
(*                                                                         *)
(* One step of the model is one iteration of the loop over the intervals   *)
(* sorted by start (regalloc.c:166-239): the intervals that ended before   *)
(* the current one are expired, and the current one gets a free register,  *)
(* or a stack slot, or a stack slot and the register of an interval that   *)
(* ends later.  Finish computes the size of the stack frame.               *)
(*                                                                         *)
(* Abstractions.  A live interval is chosen in Init instead of being read  *)
(* off the instructions.  The sorted array is the order Precedes on the    *)
(* vregs not scanned yet.  The array of active intervals is a set: where   *)
(* several active intervals end last, its order decides in the code which  *)
(* is evicted, and any of them may be here.  The branch that skips the     *)
(* parameters "already assigned" (regalloc.c:169-173) has no action: the   *)
(* sorted copies are made before any phys_reg is set, so it is never taken.*)
(***************************************************************************)
EXTENDS Integers, FiniteSets, Sequences

CONSTANTS
  NVregs,       \* mf->next_vreg
  NParams,      \* mf->nparams: parameter i is vreg i (ssa_build.c:281)
  Regs,         \* vt_alloc_gprs, numbered in the order the scan tries them
  Incoming,     \* param_regs, the registers the first parameters arrive in
  CalleeSaved,  \* the registers reg_is_callee_saved answers true for
  MaxPos        \* bound: the largest instruction index

ASSUME SizesAssumption ==
  /\ NVregs \in Nat /\ NParams \in 0..NVregs /\ MaxPos \in Nat

ASSUME RegsAssumption ==
  /\ Regs \subseteq Nat /\ IsFiniteSet(Regs) /\ CalleeSaved \subseteq Regs
  /\ Incoming \in Seq(Regs)
  /\ \A i, j \in 1..Len(Incoming) : Incoming[i] = Incoming[j] => i = j

VARIABLES
  intervals,    \* vreg -> its live interval
  scanned,      \* the vregs the loop has passed
  active,       \* the vregs whose interval holds a register
  regAvailable, \* reg_available
  physReg,      \* phys_reg of each sorted interval
  vregToReg,    \* ra->vreg_to_reg
  vregToSlot,   \* ra->vreg_to_slot
  stackSlots,   \* ra->stack_slots
  stackSize     \* ra->stack_size; NoSize until the loop is over

vars == <<intervals, scanned, active, regAvailable, physReg, vregToReg,
          vregToSlot, stackSlots, stackSize>>

Vregs == 0..(NVregs - 1)
NoReg == -1
NoSlot == -1
NoSize == -1
IsParam(v) == v < NParams

\* A vreg no instruction mentions keeps start = UINT32_MAX and end = 0.
Unused == [start |-> MaxPos + 1, end |-> 0]
Interval == {i \in [start : 0..MaxPos, end : 0..MaxPos] : i.start <= i.end}
Start(v) == intervals[v].start
End(v) == intervals[v].end

\* Only the first Len(Incoming) parameters arrive in a register.
ArrivesInReg(v) == IsParam(v) /\ v < Len(Incoming)
Reserved_Forgotten == {}
Reserved == {Incoming[v + 1] : v \in {u \in Vregs : ArrivesInReg(u)}}

Live == {v \in Vregs : Start(v) <= End(v)}
Precedes(v, w) == Start(v) < Start(w) \/ (Start(v) = Start(w) /\ v <= w)
IsCurrent(v) == v \in Live \ scanned /\ \A w \in Live \ scanned : Precedes(v, w)

-------------------------------------------------------------------------------

Init ==
  /\ intervals \in [Vregs -> Interval \cup {Unused}]
  /\ \A v \in Vregs : IsParam(v) => Start(v) = 0
  /\ scanned = {}
  /\ active = {}
  /\ regAvailable = Regs \ Reserved
  /\ physReg = [v \in Vregs |-> NoReg]
  /\ vregToReg = [v \in Vregs |-> IF ArrivesInReg(v) THEN Incoming[v + 1] ELSE NoReg]
  /\ vregToSlot = [v \in Vregs |-> NoSlot]
  /\ stackSlots = 0
  /\ stackSize = NoSize

\* Mutated forms, here and below, are plausible slips the properties must catch;
\* no specification uses them.
Expired_TooEarly(v) == {a \in active : End(a) <= Start(v)}
Expired_TooLate(v) == {a \in active : End(a) + 1 < Start(v)}

\* The active intervals that ended strictly before v starts give back their
\* registers before v is served.
Expired(v) == {a \in active : End(a) < Start(v)}
StillActive(v) == active \ Expired(v)
AvailableFor(v) == regAvailable \cup {physReg[a] : a \in Expired(v)}

AssignFree(v) ==
  /\ IsCurrent(v)
  /\ \E r \in AvailableFor(v) :
       /\ \A q \in AvailableFor(v) : r <= q
       /\ physReg' = [physReg EXCEPT ![v] = r]
       /\ vregToReg' = [vregToReg EXCEPT ![v] = r]
       /\ regAvailable' = AvailableFor(v) \ {r}
  /\ active' = StillActive(v) \cup {v}
  /\ scanned' = scanned \cup {v}
  /\ UNCHANGED <<intervals, vregToSlot, stackSlots, stackSize>>

\* The active intervals the code may evict for v: the ones that end last
\* among those that are no parameter and end after v does.
EvictableFor(v) == {a \in StillActive(v) : ~IsParam(a) /\ End(a) > End(v)}
FurthestEnd(v) == {a \in EvictableFor(v) : \A b \in EvictableFor(v) : End(b) <= End(a)}

SpillCurrent(v) ==
  /\ IsCurrent(v)
  /\ AvailableFor(v) = {}
  /\ EvictableFor(v) = {}
  /\ vregToSlot' = [vregToSlot EXCEPT ![v] = stackSlots]
  /\ stackSlots' = stackSlots + 1
  /\ regAvailable' = AvailableFor(v)
  /\ active' = StillActive(v)
  /\ scanned' = scanned \cup {v}
  /\ UNCHANGED <<intervals, physReg, vregToReg, stackSize>>

EvictFor_OneSlot(v) ==
  /\ IsCurrent(v)
  /\ AvailableFor(v) = {}
  /\ \E a \in FurthestEnd(v) :
       /\ physReg' = [physReg EXCEPT ![v] = physReg[a], ![a] = NoReg]
       /\ vregToReg' = [vregToReg EXCEPT ![v] = physReg[a], ![a] = NoReg]
       /\ vregToSlot' = [vregToSlot EXCEPT ![v] = stackSlots, ![a] = stackSlots]
       /\ active' = (StillActive(v) \ {a}) \cup {v}
  /\ stackSlots' = stackSlots + 1
  /\ regAvailable' = AvailableFor(v)
  /\ scanned' = scanned \cup {v}
  /\ UNCHANGED <<intervals, stackSize>>

EvictFor_StaleHome(v) ==
  /\ IsCurrent(v)
  /\ AvailableFor(v) = {}
  /\ \E a \in FurthestEnd(v) :
       /\ physReg' = [physReg EXCEPT ![v] = physReg[a], ![a] = NoReg]
       /\ vregToReg' = [vregToReg EXCEPT ![v] = physReg[a]]
       /\ vregToSlot' = [vregToSlot EXCEPT ![v] = stackSlots, ![a] = stackSlots + 1]
       /\ active' = (StillActive(v) \ {a}) \cup {v}
  /\ stackSlots' = stackSlots + 2
  /\ regAvailable' = AvailableFor(v)
  /\ scanned' = scanned \cup {v}
  /\ UNCHANGED <<intervals, stackSize>>

EvictFor(v) ==
  /\ IsCurrent(v)
  /\ AvailableFor(v) = {}
  /\ \E a \in FurthestEnd(v) :
       /\ physReg' = [physReg EXCEPT ![v] = physReg[a], ![a] = NoReg]
       /\ vregToReg' = [vregToReg EXCEPT ![v] = physReg[a], ![a] = NoReg]
       /\ vregToSlot' = [vregToSlot EXCEPT ![v] = stackSlots, ![a] = stackSlots + 1]
       /\ active' = (StillActive(v) \ {a}) \cup {v}
  /\ stackSlots' = stackSlots + 2
  /\ regAvailable' = AvailableFor(v)
  /\ scanned' = scanned \cup {v}
  /\ UNCHANGED <<intervals, stackSize>>

\* (n + 15) & ~15
Align16(n) == ((n + 15) \div 16) * 16
CalleeSavedUsed == {r \in CalleeSaved : \E v \in Vregs : vregToReg[v] = r}

Finish ==
  /\ scanned = Live
  /\ stackSize = NoSize
  /\ stackSize' = Align16(Align16(stackSlots * 8) + Cardinality(CalleeSavedUsed) * 8)
  /\ UNCHANGED <<intervals, scanned, active, regAvailable, physReg, vregToReg,
                 vregToSlot, stackSlots>>

Scan == \E v \in Vregs : AssignFree(v) \/ SpillCurrent(v) \/ EvictFor(v)
Next == Scan \/ Finish

Spec == Init /\ [][Next]_vars

-------------------------------------------------------------------------------

TypeOK ==
  /\ intervals \in [Vregs -> Interval \cup {Unused}]
  /\ scanned \subseteq Vregs
  /\ active \subseteq Vregs
  /\ regAvailable \subseteq Regs
  /\ physReg \in [Vregs -> Regs \cup {NoReg}]
  /\ vregToReg \in [Vregs -> Regs \cup {NoReg}]
  /\ vregToSlot \in [Vregs -> Nat \cup {NoSlot}]
  /\ stackSlots \in Nat
  /\ stackSize \in Nat \cup {NoSize}

Overlap(v, w) == Start(v) <= End(w) /\ Start(w) <= End(v)

\* Two scanned vregs whose intervals overlap are never given one register:
\* the value of one would be lost while it is still wanted.  Expiry, eviction
\* and the reserved registers all bear on it (regalloc.c:154-237).
NoSharedRegister ==
  \A v, w \in scanned :
    v # w /\ Overlap(v, w) /\ vregToReg[v] # NoReg => vregToReg[v] # vregToReg[w]

\* Two vregs never share a stack slot, and every slot handed out lies in the
\* area the frame keeps for slots (regalloc.c:208-210, 232-233, 242).
SlotsDistinct ==
  \A v, w \in Vregs :
    vregToSlot[v] # NoSlot =>
      /\ vregToSlot[v] < stackSlots
      /\ v # w => vregToSlot[v] # vregToSlot[w]

\* Every vreg the loop has passed has a home: a register, or a stack slot.
EveryVregHasAHome ==
  \A v \in scanned : vregToReg[v] # NoReg \/ vregToSlot[v] # NoSlot

\* The prologue moves parameter i out of its incoming register one after the
\* other (emit.c:755-776); that is right only if no vreg is given a register
\* in which a parameter still waits to be moved.
IncomingUntouched ==
  \A v \in scanned, u \in Vregs :
    ArrivesInReg(u) /\ u # v => vregToReg[v] # Incoming[u + 1]

\* Nothing is put on the stack unless, at the start of some interval, more
\* vregs are live than there are registers the parameters leave free: a
\* register whose interval is over is always found again (regalloc.c:175-188).
PressureAt(p) == Cardinality({v \in Live : Start(v) <= p /\ p <= End(v)})
SpillOnlyUnderPressure ==
  stackSlots > 0 =>
    \E v \in scanned : PressureAt(Start(v)) > Cardinality(Regs \ Reserved)

===============================================================================
