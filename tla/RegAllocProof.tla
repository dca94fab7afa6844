---------------------------- MODULE RegAllocProof ----------------------------
(***************************************************************************)
(* Proofs about RegAlloc, for every number of vregs and parameters, every  *)
(* set of registers and every assignment of live intervals: types, no two  *)
(* overlapping intervals in one register, no spill that is not forced, and *)
(* the promise of Homes.                                                   *)
(***************************************************************************)
EXTENDS RegAllocHomes, FiniteSetTheorems, TLAPS

-------------------------------------------------------------------------------

\* The parts of the strengthening that the scan maintains.

\* Exactly the active intervals compete for registers: each holds one, which is
\* not offered to anyone else, and no two hold the same.
ActiveHolds ==
  /\ active \subseteq scanned
  /\ scanned \subseteq Live
  /\ \A a \in active : physReg[a] \in Regs /\ physReg[a] \notin regAvailable
  /\ \A a, b \in active : a # b => physReg[a] # physReg[b]

\* A scanned interval that holds a register and is no longer active ended
\* before every interval still to come: the scan goes by rising start.
RetiredIsOver ==
  \A v \in scanned \ active :
    physReg[v] # NoReg => \A u \in Live \ scanned : End(v) < Start(u)

\* A vreg the scan has not reached, or never will, holds nothing but the
\* register it may arrive in.
NotServedYet ==
  \A v \in Vregs \ scanned :
    /\ physReg[v] = NoReg
    /\ vregToReg[v] = IF ArrivesInReg(v) THEN Incoming[v + 1] ELSE NoReg

\* What the sorted interval says and what the result says are the same, except
\* for a spilled parameter, which keeps the register it arrived in.
ResultAgrees ==
  \A v \in scanned :
    \/ vregToReg[v] = physReg[v]
    \/ physReg[v] = NoReg /\ ArrivesInReg(v) /\ vregToReg[v] = Incoming[v + 1]

\* No interval is ever served from the registers parameters arrive in.
ReservedApart ==
  /\ regAvailable \cap Reserved = {}
  /\ \A v \in scanned : physReg[v] \notin Reserved

\* The exclusion itself, on the registers of the sorted intervals.
Exclusive ==
  \A v, w \in scanned :
    v # w /\ physReg[v] # NoReg /\ physReg[v] = physReg[w] => ~Overlap(v, w)

IInv ==
  /\ TypeOK /\ ActiveHolds /\ RetiredIsOver /\ ResultAgrees /\ ReservedApart
  /\ NotServedYet /\ Exclusive

-------------------------------------------------------------------------------

\* NoReg, the mark of an interval without a register, is no register.
LEMMA NoRegIsNone == NoReg \notin Regs
BY RegsAssumption DEF NoReg

\* A parameter that arrives in a register has one to arrive in, and no other
\* parameter arrives there.
LEMMA IncomingDistinct ==
  /\ Reserved \subseteq Regs
  /\ \A v, w \in Vregs :
       ArrivesInReg(v) /\ ArrivesInReg(w) /\ Incoming[v + 1] = Incoming[w + 1] => v = w
  /\ \A v \in Vregs : ArrivesInReg(v) => Incoming[v + 1] \in Reserved
<1>1. \A v \in Vregs : ArrivesInReg(v) => v + 1 \in 1..Len(Incoming)
  BY SizesAssumption, RegsAssumption DEF Vregs, ArrivesInReg, IsParam
<1>2. \A i \in 1..Len(Incoming) : Incoming[i] \in Regs
  BY RegsAssumption
<1>3. \A v, w \in Vregs : v + 1 = w + 1 => v = w
  BY SizesAssumption DEF Vregs
<1> QED
  BY <1>1, <1>2, <1>3, RegsAssumption DEF Reserved

\* The initial state satisfies the strengthening.
LEMMA InitIInv == Init => IInv
<1> SUFFICES ASSUME Init PROVE IInv
  OBVIOUS
<1>1. Reserved \subseteq Regs /\ \A v \in Vregs : ArrivesInReg(v) => Incoming[v + 1] \in Reserved
  BY IncomingDistinct
<1>2. TypeOK
  BY <1>1 DEF Init, TypeOK
<1> QED
  BY <1>2 DEF Init, IInv, ActiveHolds, RetiredIsOver, ResultAgrees, ReservedApart,
     NotServedYet, Exclusive

-------------------------------------------------------------------------------

\* What holds when v is served, after the expiry and before the assignment:
\* v starts before every other interval to come, whatever holds a register
\* without being active any more ended before v starts, and the registers on
\* offer are held by no active interval and awaited by no parameter.
Served(v) ==
  /\ v \in Live /\ v \notin scanned
  /\ \A u \in Live \ scanned : Start(v) <= Start(u)
  /\ \A u \in Live : Start(u) \in Nat /\ End(u) \in Nat /\ Start(u) <= End(u)
  /\ StillActive(v) \subseteq active
  /\ \A w \in scanned \ StillActive(v) : physReg[w] # NoReg => End(w) < Start(v)
  /\ AvailableFor(v) \subseteq Regs \ Reserved
  /\ \A a \in StillActive(v) : physReg[a] \in Regs \ AvailableFor(v)

\* The strengthening gives those facts for the current interval.
LEMMA AtCurrent ==
  ASSUME IInv, NEW v \in Vregs, IsCurrent(v)
  PROVE  Served(v)
<1> USE DEF IInv
<1>1. v \in Live /\ v \notin scanned
  BY DEF IsCurrent
<1>2. \A u \in Live : Start(u) \in Nat /\ End(u) \in Nat /\ Start(u) <= End(u)
  BY SizesAssumption DEF TypeOK, Live, Interval, Unused, Start, End
<1>3. \A u \in Live \ scanned : Start(v) <= Start(u)
  BY <1>1, <1>2 DEF IsCurrent, Precedes
<1>4. \A w \in scanned \ StillActive(v) : physReg[w] # NoReg => End(w) < Start(v)
  BY <1>1 DEF StillActive, Expired, RetiredIsOver
<1>5. AvailableFor(v) \subseteq Regs \ Reserved
  BY DEF AvailableFor, Expired, TypeOK, ActiveHolds, ReservedApart
<1>6. \A a \in StillActive(v) : physReg[a] \in Regs \ AvailableFor(v)
  BY DEF StillActive, AvailableFor, Expired, ActiveHolds
<1> QED
  BY <1>1, <1>2, <1>3, <1>4, <1>5, <1>6 DEF StillActive, Served

\* What an interval ending before v starts has to do with v: nothing.
LEMMA OverIsApart ==
  ASSUME NEW v \in Vregs, NEW w \in Vregs, Start(v) \in Nat, End(v) \in Nat,
         Start(w) \in Nat, End(w) \in Nat, End(w) < Start(v)
  PROVE  ~Overlap(v, w) /\ ~Overlap(w, v)
BY DEF Overlap

\* The intervals never change, so neither does anything said of them alone.
LEMMA IntervalsFixed ==
  ASSUME intervals' = intervals
  PROVE  /\ Live' = Live /\ Reserved' = Reserved
         /\ \A u : Start(u)' = Start(u) /\ End(u)' = End(u)
         /\ \A u, w : Overlap(u, w)' <=> Overlap(u, w)
         /\ \A u : ArrivesInReg(u)' <=> ArrivesInReg(u)
BY DEF Live, Start, End, Overlap, Reserved, ArrivesInReg, IsParam

\* The sets the other facts range over.
LEMMA Ranges ==
  ASSUME IInv
  PROVE  /\ physReg \in [Vregs -> Regs \cup {NoReg}]
         /\ vregToReg \in [Vregs -> Regs \cup {NoReg}]
         /\ scanned \subseteq Live /\ Live \subseteq Vregs /\ active \subseteq scanned
BY DEF IInv, TypeOK, ActiveHolds, Live

\* Whatever is served, a retired interval stays over: the new current interval
\* is either still active or holds no register, and the others to come start
\* no earlier than it does.
LEMMA RetiredStep ==
  ASSUME IInv, NEW v \in Vregs, Served(v), intervals' = intervals,
         scanned' = scanned \cup {v},
         \A w \in scanned' \ active' :
           physReg'[w] # NoReg => w \in scanned \ StillActive(v) /\ physReg[w] # NoReg
  PROVE  RetiredIsOver'
<1> SUFFICES ASSUME NEW w \in scanned' \ active', physReg'[w] # NoReg,
                    NEW u \in Live \ scanned'
             PROVE  End(w) < Start(u)
  BY IntervalsFixed DEF RetiredIsOver
<1>1. w \in scanned \ StillActive(v) /\ physReg[w] # NoReg
  OBVIOUS
<1>2. End(w) < Start(v) /\ Start(v) <= Start(u)
  BY <1>1 DEF Served
<1> QED
  BY <1>1, <1>2, Ranges DEF Served

\* Where v takes a register that is held, if at all, only by intervals that are
\* over, the exclusion is kept.
LEMMA ExclusiveStep ==
  ASSUME IInv, NEW v \in Vregs, Served(v), intervals' = intervals,
         scanned' = scanned \cup {v},
         \A w \in scanned : physReg'[w] \in {physReg[w], NoReg},
         \A w \in scanned :
           physReg'[w] # NoReg /\ physReg'[w] = physReg'[v] =>
             w \notin StillActive(v)
  PROVE  Exclusive'
<1>1. \A w \in scanned :
        physReg'[w] # NoReg /\ physReg'[w] = physReg'[v] =>
          ~Overlap(v, w) /\ ~Overlap(w, v)
  <2> SUFFICES ASSUME NEW w \in scanned,
                      physReg'[w] # NoReg, physReg'[w] = physReg'[v]
               PROVE  ~Overlap(v, w) /\ ~Overlap(w, v)
    OBVIOUS
  <2>1. End(w) < Start(v)
    BY DEF Served
  <2> QED
    BY <2>1, Ranges, OverIsApart DEF Served
<1>2. \A u, w \in scanned :
        u # w /\ physReg'[u] # NoReg /\ physReg'[u] = physReg'[w] => ~Overlap(u, w)
  BY DEF IInv, Exclusive
<1> QED
  BY <1>1, <1>2, IntervalsFixed DEF Exclusive

-------------------------------------------------------------------------------

\* A free register goes to the current interval.
LEMMA AssignFreeIInv ==
  ASSUME IInv, NEW v \in Vregs, AssignFree(v)
  PROVE  IInv'
<1>1. PICK r \in AvailableFor(v) :
        /\ physReg' = [physReg EXCEPT ![v] = r]
        /\ vregToReg' = [vregToReg EXCEPT ![v] = r]
        /\ regAvailable' = AvailableFor(v) \ {r}
  BY DEF AssignFree
<1>2. /\ active' = StillActive(v) \cup {v}
      /\ scanned' = scanned \cup {v}
      /\ UNCHANGED <<intervals, vregToSlot, stackSlots, stackSize>>
  BY DEF AssignFree
<1>3. Served(v)
  BY AtCurrent DEF AssignFree
<1>r. r \in Regs /\ r \notin Reserved /\ r # NoReg
  BY <1>3, NoRegIsNone DEF Served
<1>p. physReg'[v] = r /\ \A w \in Vregs \ {v} : physReg'[w] = physReg[w]
  BY <1>1, Ranges
<1>4. TypeOK'
  BY <1>1, <1>2, <1>3, <1>r, Ranges DEF IInv, TypeOK, Served
<1>5. ActiveHolds'
  BY <1>1, <1>2, <1>3, <1>r, <1>p, Ranges, IntervalsFixed DEF IInv, ActiveHolds, Served
<1>6. RetiredIsOver'
  BY <1>2, <1>3, <1>p, Ranges, RetiredStep
<1>7. ResultAgrees'
  BY <1>1, <1>2, <1>3, Ranges, IntervalsFixed DEF IInv, ResultAgrees, Served
<1>8. ReservedApart'
  BY <1>1, <1>2, <1>3, <1>r, <1>p, Ranges, IntervalsFixed DEF IInv, ReservedApart, Served
<1>9. Exclusive'
  BY <1>1, <1>2, <1>3, <1>p, Ranges, ExclusiveStep DEF Served
<1>10. NotServedYet'
  BY <1>1, <1>2, Ranges, IntervalsFixed DEF IInv, NotServedYet
<1> QED
  BY <1>4, <1>5, <1>6, <1>7, <1>8, <1>9, <1>10 DEF IInv

\* The current interval goes to the stack.
LEMMA SpillCurrentIInv ==
  ASSUME IInv, NEW v \in Vregs, SpillCurrent(v)
  PROVE  IInv'
<1>1. /\ active' = StillActive(v)
      /\ scanned' = scanned \cup {v}
      /\ regAvailable' = AvailableFor(v)
      /\ vregToSlot' = [vregToSlot EXCEPT ![v] = stackSlots]
      /\ stackSlots' = stackSlots + 1
      /\ UNCHANGED <<intervals, physReg, vregToReg, stackSize>>
  BY DEF SpillCurrent
<1>2. Served(v)
  BY AtCurrent DEF SpillCurrent
<1>3. physReg[v] = NoReg
  BY <1>2, Ranges DEF IInv, NotServedYet, Served
<1>4. TypeOK'
  BY <1>1, <1>2 DEF IInv, TypeOK, Served
<1>5. ActiveHolds'
  BY <1>1, <1>2, Ranges, IntervalsFixed DEF IInv, ActiveHolds, Served
<1>6. RetiredIsOver'
  BY <1>1, <1>2, <1>3, RetiredStep
<1>7. ResultAgrees'
  BY <1>1, <1>2, <1>3, Ranges, IntervalsFixed DEF IInv, ResultAgrees, NotServedYet, Served
<1>8. ReservedApart'
  <2>1. NoReg \notin Reserved
    BY NoRegIsNone, IncomingDistinct
  <2> QED
    BY <2>1, <1>1, <1>2, <1>3, IntervalsFixed DEF IInv, ReservedApart, Served
<1>9. Exclusive'
  BY <1>1, <1>2, <1>3, ExclusiveStep
<1>10. NotServedYet'
  BY <1>1, IntervalsFixed DEF IInv, NotServedYet
<1> QED
  BY <1>4, <1>5, <1>6, <1>7, <1>8, <1>9, <1>10 DEF IInv

\* The current interval takes the register of one that ends later.
LEMMA EvictForIInv ==
  ASSUME IInv, NEW v \in Vregs, EvictFor(v)
  PROVE  IInv'
<1>1. PICK a \in FurthestEnd(v) :
        /\ physReg' = [physReg EXCEPT ![v] = physReg[a], ![a] = NoReg]
        /\ vregToReg' = [vregToReg EXCEPT ![v] = physReg[a], ![a] = NoReg]
        /\ vregToSlot' = [vregToSlot EXCEPT ![v] = stackSlots, ![a] = stackSlots + 1]
        /\ active' = (StillActive(v) \ {a}) \cup {v}
  BY DEF EvictFor
<1>2. /\ scanned' = scanned \cup {v}
      /\ regAvailable' = AvailableFor(v)
      /\ stackSlots' = stackSlots + 2
      /\ UNCHANGED <<intervals, stackSize>>
  BY DEF EvictFor
<1>3. Served(v)
  BY AtCurrent DEF EvictFor
<1>a. a \in StillActive(v) /\ ~IsParam(a)
  BY <1>1 DEF FurthestEnd, EvictableFor
<1>b. a \in scanned /\ a \in active /\ a \in Vregs /\ a # v
  BY <1>3, <1>a, Ranges DEF Served
<1>r. /\ physReg[a] \in Regs \ AvailableFor(v)
      /\ physReg[a] \notin Reserved /\ physReg[a] # NoReg
  BY <1>3, <1>a, <1>b, NoRegIsNone DEF Served, IInv, ReservedApart
<1>p. /\ physReg'[v] = physReg[a] /\ physReg'[a] = NoReg
      /\ \A w \in Vregs \ {v, a} : physReg'[w] = physReg[w]
  BY <1>1, <1>b, Ranges
<1>q. /\ vregToReg'[v] = physReg[a] /\ vregToReg'[a] = NoReg
      /\ \A w \in Vregs \ {v, a} : vregToReg'[w] = vregToReg[w]
  BY <1>1, <1>b, Ranges
<1>4. TypeOK'
  BY <1>1, <1>2, <1>3, <1>r, <1>b, Ranges DEF IInv, TypeOK, Served
<1>5. ActiveHolds'
  <2>1. \A b \in StillActive(v) \ {a} : physReg[b] # physReg[a]
    BY <1>3, <1>b DEF IInv, ActiveHolds, Served
  <2> QED
    BY <2>1, <1>1, <1>2, <1>3, <1>r, <1>p, <1>b, Ranges, IntervalsFixed
       DEF IInv, ActiveHolds, Served
<1>6. RetiredIsOver'
  BY <1>1, <1>2, <1>3, <1>p, <1>b, Ranges, RetiredStep
<1>7. ResultAgrees'
  BY <1>2, <1>p, <1>q, Ranges, IntervalsFixed DEF IInv, ResultAgrees
<1>8. ReservedApart'
  <2>1. NoReg \notin Reserved
    BY NoRegIsNone, IncomingDistinct
  <2> QED
    BY <2>1, <1>2, <1>3, <1>r, <1>p, <1>b, Ranges, IntervalsFixed
       DEF IInv, ReservedApart, Served
<1>9. Exclusive'
  <2>1. \A w \in scanned : physReg'[w] # NoReg /\ physReg'[w] = physReg'[v] => w \notin active
    BY <1>p, <1>b, <1>3, Ranges DEF IInv, ActiveHolds, Served
  <2>2. \A w \in scanned : physReg'[w] \in {physReg[w], NoReg}
    BY <1>p, <1>3, Ranges DEF Served
  <2> QED
    BY <2>1, <2>2, <1>2, <1>3, ExclusiveStep DEF Served
<1>10. NotServedYet'
  BY <1>2, <1>p, <1>q, <1>b, Ranges, IntervalsFixed DEF IInv, NotServedYet
<1> QED
  BY <1>4, <1>5, <1>6, <1>7, <1>8, <1>9, <1>10 DEF IInv

\* The size of the frame touches nothing the strengthening speaks of.
LEMMA FinishIInv ==
  ASSUME IInv, Finish
  PROVE  IInv'
<1>1. Cardinality(CalleeSavedUsed) \in Nat
  <2>1. IsFiniteSet(CalleeSavedUsed)
    BY RegsAssumption, FS_Subset DEF CalleeSavedUsed
  <2> QED
    BY <2>1, FS_CardinalityType
<1>2. stackSize' \in Nat
  <2>1. \A n \in Nat : Align16(n) \in Nat
    BY DEF Align16
  <2>2. stackSlots * 8 \in Nat /\ Cardinality(CalleeSavedUsed) * 8 \in Nat
    BY <1>1 DEF IInv, TypeOK
  <2> QED
    BY <2>1, <2>2 DEF Finish
<1>3. TypeOK'
  BY <1>2 DEF IInv, TypeOK, Finish
<1>4. UNCHANGED <<intervals, scanned, active, regAvailable, physReg, vregToReg>>
  BY DEF Finish
<1> QED
  BY <1>3, <1>4, IntervalsFixed DEF IInv, ActiveHolds, RetiredIsOver, ResultAgrees,
     ReservedApart, NotServedYet, Exclusive

-------------------------------------------------------------------------------

\* The strengthening is an invariant of the allocator.
THEOREM Strengthening == Spec => []IInv
<1>1. IInv /\ [Next]_vars => IInv'
  <2> SUFFICES ASSUME IInv, [Next]_vars PROVE IInv'
    OBVIOUS
  <2>1. ASSUME NEW v \in Vregs, AssignFree(v) PROVE IInv'
    BY <2>1, AssignFreeIInv
  <2>2. ASSUME NEW v \in Vregs, SpillCurrent(v) PROVE IInv'
    BY <2>2, SpillCurrentIInv
  <2>3. ASSUME NEW v \in Vregs, EvictFor(v) PROVE IInv'
    BY <2>3, EvictForIInv
  <2>4. CASE Finish
    BY <2>4, FinishIInv
  <2>5. CASE UNCHANGED vars
    <3>1. intervals' = intervals
      BY <2>5 DEF vars
    <3> QED
      BY <3>1, <2>5, IntervalsFixed DEF vars, IInv, TypeOK, ActiveHolds, RetiredIsOver,
         ResultAgrees, ReservedApart, NotServedYet, Exclusive
  <2> QED
    BY <2>1, <2>2, <2>3, <2>4, <2>5 DEF Next, Scan
<1> QED
  BY <1>1, InitIInv, PTL DEF Spec

\* Every variable keeps its type.
THEOREM TypeCorrect == Spec => []TypeOK
<1>1. IInv => TypeOK
  BY DEF IInv
<1> QED
  BY <1>1, Strengthening, PTL

\* Two overlapping live intervals never share a register, whatever the program,
\* the machine and the number of parameters.
THEOREM NeverShared == Spec => []NoSharedRegister
<1>1. IInv => NoSharedRegister
  <2> SUFFICES ASSUME IInv, NEW v \in scanned, NEW w \in scanned, v # w, Overlap(v, w),
                      vregToReg[v] # NoReg, vregToReg[v] = vregToReg[w]
               PROVE  FALSE
    BY DEF NoSharedRegister
  <2>1. physReg[v] \notin Reserved /\ physReg[w] \notin Reserved
    BY DEF IInv, ReservedApart
  <2>2. \A u \in Vregs : ArrivesInReg(u) => Incoming[u + 1] \in Reserved
    BY IncomingDistinct
  <2>3. CASE vregToReg[v] = physReg[v] /\ vregToReg[w] = physReg[w]
    BY <2>3 DEF IInv, Exclusive
  <2>4. CASE /\ vregToReg[v] # physReg[v] \/ vregToReg[w] # physReg[w]
    BY <2>1, <2>2, <2>4, IncomingDistinct, Ranges DEF IInv, ResultAgrees
  <2> QED
    BY <2>3, <2>4
<1> QED
  BY <1>1, Strengthening, PTL

\* No vreg is ever put in a register another parameter still waits in.
THEOREM IncomingSafe == Spec => []IncomingUntouched
<1>1. IInv => IncomingUntouched
  <2> SUFFICES ASSUME IInv, NEW v \in scanned, NEW u \in Vregs, ArrivesInReg(u), u # v
               PROVE  vregToReg[v] # Incoming[u + 1]
    BY DEF IncomingUntouched
  <2>1. Incoming[u + 1] \in Reserved /\ physReg[v] \notin Reserved
    BY IncomingDistinct DEF IInv, ReservedApart
  <2> QED
    BY <2>1, IncomingDistinct, Ranges DEF IInv, ResultAgrees
<1> QED
  BY <1>1, Strengthening, PTL

-------------------------------------------------------------------------------

\* Slots are handed out upwards, so a new one is new to everybody; a vreg that
\* loses its register is given a slot in the same step.  Both hold by induction
\* once it is known who may be evicted: a scanned vreg other than the current.
HomesApart == SlotsDistinct /\ EveryVregHasAHome

\* Before the scan nobody has a slot and nobody needs one.
LEMMA InitHomes == Init => HomesApart
BY DEF Init, HomesApart, SlotsDistinct, EveryVregHasAHome

\* A vreg with a register needs no slot.
LEMMA AssignFreeHomes ==
  ASSUME IInv, HomesApart, NEW v \in Vregs, AssignFree(v)
  PROVE  HomesApart'
<1>1. PICK r \in AvailableFor(v) : vregToReg' = [vregToReg EXCEPT ![v] = r]
  BY DEF AssignFree
<1>2. scanned' = scanned \cup {v} /\ UNCHANGED <<vregToSlot, stackSlots>>
  BY DEF AssignFree
<1>3. r # NoReg
  BY AtCurrent, NoRegIsNone DEF AssignFree, Served
<1>4. SlotsDistinct'
  BY <1>2 DEF HomesApart, SlotsDistinct
<1>5. EveryVregHasAHome'
  BY <1>1, <1>2, <1>3, Ranges DEF HomesApart, EveryVregHasAHome
<1> QED
  BY <1>4, <1>5 DEF HomesApart

\* The current vreg takes the next slot.
LEMMA SpillCurrentHomes ==
  ASSUME IInv, HomesApart, NEW v \in Vregs, SpillCurrent(v)
  PROVE  HomesApart'
<1>1. /\ vregToSlot' = [vregToSlot EXCEPT ![v] = stackSlots]
      /\ stackSlots' = stackSlots + 1
      /\ scanned' = scanned \cup {v}
      /\ vregToReg' = vregToReg
  BY DEF SpillCurrent
<1>2. stackSlots \in Nat /\ vregToSlot \in [Vregs -> Nat \cup {NoSlot}]
  BY DEF IInv, TypeOK
<1>3. /\ vregToSlot'[v] = stackSlots
      /\ \A w \in Vregs \ {v} : vregToSlot'[w] = vregToSlot[w]
  BY <1>1, <1>2
<1>4. SlotsDistinct'
  BY <1>1, <1>2, <1>3 DEF HomesApart, SlotsDistinct, NoSlot, Vregs
<1>5. EveryVregHasAHome'
  BY <1>1, <1>2, <1>3, Ranges DEF HomesApart, EveryVregHasAHome, NoSlot
<1> QED
  BY <1>4, <1>5 DEF HomesApart

\* The current vreg and the evicted one take the next two slots.
LEMMA EvictForHomes ==
  ASSUME IInv, HomesApart, NEW v \in Vregs, EvictFor(v)
  PROVE  HomesApart'
<1>1. PICK a \in FurthestEnd(v) :
        /\ vregToReg' = [vregToReg EXCEPT ![v] = physReg[a], ![a] = NoReg]
        /\ vregToSlot' = [vregToSlot EXCEPT ![v] = stackSlots, ![a] = stackSlots + 1]
  BY DEF EvictFor
<1>2. stackSlots' = stackSlots + 2 /\ scanned' = scanned \cup {v}
  BY DEF EvictFor
<1>3. stackSlots \in Nat /\ vregToSlot \in [Vregs -> Nat \cup {NoSlot}]
  BY DEF IInv, TypeOK
<1>4. a \in Vregs /\ a # v
  <2>1. a \in active
    BY DEF FurthestEnd, EvictableFor, StillActive
  <2> QED
    BY <2>1, Ranges DEF EvictFor, IsCurrent
<1>5. /\ vregToSlot'[v] = stackSlots /\ vregToSlot'[a] = stackSlots + 1
      /\ \A w \in Vregs \ {v, a} :
           vregToSlot'[w] = vregToSlot[w] /\ vregToReg'[w] = vregToReg[w]
  BY <1>1, <1>3, <1>4, Ranges
<1>6. SlotsDistinct'
  BY <1>2, <1>3, <1>4, <1>5 DEF HomesApart, SlotsDistinct, NoSlot, Vregs
<1>7. EveryVregHasAHome'
  BY <1>2, <1>3, <1>4, <1>5, Ranges DEF HomesApart, EveryVregHasAHome, NoSlot
<1> QED
  BY <1>6, <1>7 DEF HomesApart

\* Through the whole scan, slots stay apart and every scanned vreg has a home.
LEMMA HomesStayApart == Spec => []HomesApart
<1>1. IInv /\ HomesApart /\ [Next]_vars => HomesApart'
  <2> SUFFICES ASSUME IInv, HomesApart, [Next]_vars PROVE HomesApart'
    OBVIOUS
  <2>1. CASE \E v \in Vregs : AssignFree(v)
    BY <2>1, AssignFreeHomes
  <2>2. CASE \E v \in Vregs : SpillCurrent(v)
    BY <2>2, SpillCurrentHomes
  <2>3. CASE \E v \in Vregs : EvictFor(v)
    BY <2>3, EvictForHomes
  <2>4. CASE UNCHANGED <<scanned, vregToReg, vregToSlot, stackSlots>>
    BY <2>4 DEF HomesApart, SlotsDistinct, EveryVregHasAHome
  <2> QED
    BY <2>1, <2>2, <2>3, <2>4 DEF Next, Scan, Finish, vars
<1> QED
  BY <1>1, InitHomes, Strengthening, PTL DEF Spec

\* No two vregs ever share a stack slot, and every slot lies in the area the
\* frame keeps for slots, however many intervals are spilled or evicted
\* (regalloc.c:208-233).
THEOREM SlotsApart == Spec => []SlotsDistinct
<1>1. HomesApart => SlotsDistinct
  BY DEF HomesApart
<1> QED
  BY <1>1, HomesStayApart, PTL

\* No vreg the loop has passed is ever left without a register or a slot, not
\* even one that is evicted after having been served (regalloc.c:205-237).
THEOREM NothingLost == Spec => []EveryVregHasAHome
<1>1. HomesApart => EveryVregHasAHome
  BY DEF HomesApart
<1> QED
  BY <1>1, HomesStayApart, PTL

-------------------------------------------------------------------------------

(***************************************************************************)
(* Nothing goes to the stack while registers would do, and the frame is    *)
(* large enough and aligned.  That a spill is forced needs the converse of *)
(* what the exclusion needs: every register is either on offer or held by  *)
(* an active interval, so that none is ever forgotten.                     *)
(***************************************************************************)

\* No register is forgotten: what is not reserved is on offer or held.
NoneForgotten == Regs \ Reserved \subseteq regAvailable \cup {physReg[a] : a \in active}

\* The scan goes by rising start.
ScanRises == \A w \in scanned, u \in Live \ scanned : Start(w) <= Start(u)

PInv == NoneForgotten /\ ScanRises /\ SpillOnlyUnderPressure

-------------------------------------------------------------------------------

\* When v finds no register, each of those that are not reserved is held by an
\* interval that began no later than v and has not ended: with v there is one
\* interval too many.
LEMMA ForcedSpill ==
  ASSUME IInv, PInv, NEW v \in Vregs, IsCurrent(v), AvailableFor(v) = {}
  PROVE  PressureAt(Start(v)) > Cardinality(Regs \ Reserved)
<1> DEFINE S == StillActive(v)
           T == Regs \ Reserved
           D == {u \in Live : Start(u) <= Start(v) /\ Start(v) <= End(u)}
           f == [a \in S |-> physReg[a]]
<1>1. Served(v)
  BY AtCurrent
<1>2. T = {physReg[a] : a \in S}
  <2>1. ASSUME NEW r \in T PROVE \E a \in S : physReg[a] = r
    BY <2>1 DEF PInv, NoneForgotten, AvailableFor, StillActive
  <2>2. ASSUME NEW a \in S PROVE physReg[a] \in T
    BY <2>2, <1>1, Ranges DEF Served, IInv, ReservedApart
  <2> QED
    BY <2>1, <2>2
<1>3. S \cup {v} \subseteq D
  <2>1. ASSUME NEW a \in S PROVE a \in D
    BY <1>1, Ranges DEF StillActive, Expired, PInv, ScanRises, Served
  <2>2. v \in D
    BY <1>1 DEF Served
  <2> QED
    BY <2>1, <2>2
<1>4. v \notin S
  BY <1>1, Ranges DEF Served
<1>5. IsFiniteSet(D)
  <2>1. IsFiniteSet(Vregs)
    BY FS_Interval, SizesAssumption DEF Vregs
  <2>2. D \in SUBSET Vregs
    BY DEF Live
  <2> QED
    BY <2>1, <2>2, FS_Subset
<1>6. IsFiniteSet(S) /\ IsFiniteSet(S \cup {v})
  BY <1>3, <1>5, FS_Subset
<1>7. f \in Surjection(S, T)
  BY <1>2 DEF Surjection
<1>8. Cardinality(T) <= Cardinality(S)
  BY <1>6, <1>7, FS_Surjection
<1>9. Cardinality(S \cup {v}) = Cardinality(S) + 1
  BY <1>4, <1>6, FS_AddElement
<1>10. Cardinality(S \cup {v}) <= Cardinality(D)
  BY <1>3, <1>5, FS_Subset
<1>11. Cardinality(S) \in Nat /\ Cardinality(D) \in Nat /\ Cardinality(T) \in Nat
  <2>1. IsFiniteSet(T)
    BY RegsAssumption, FS_Subset
  <2> QED
    BY <2>1, <1>5, <1>6, FS_CardinalityType
<1>12. Cardinality(D) > Cardinality(T)
  BY <1>8, <1>9, <1>10, <1>11
<1> QED
  BY <1>12 DEF PressureAt

\* The pressure at a point is a matter of the intervals alone.
LEMMA PressureFixed ==
  ASSUME intervals' = intervals
  PROVE  \A p : PressureAt(p)' = PressureAt(p)
BY DEF PressureAt, Live, Start, End

\* The interval that starts next starts no later than the others to come.
LEMMA RisesStep ==
  ASSUME IInv, PInv, NEW v \in Vregs, IsCurrent(v), intervals' = intervals,
         scanned' = scanned \cup {v}
  PROVE  ScanRises'
BY AtCurrent, IntervalsFixed DEF PInv, ScanRises, Served

-------------------------------------------------------------------------------

\* Before the scan every register is on offer.
LEMMA InitPressure == Init => PInv
BY DEF Init, PInv, NoneForgotten, ScanRises, SpillOnlyUnderPressure

\* A register handed out is held by the interval that got it.
LEMMA AssignFreePressure ==
  ASSUME IInv, PInv, NEW v \in Vregs, AssignFree(v)
  PROVE  PInv'
<1>1. PICK r \in AvailableFor(v) :
        /\ physReg' = [physReg EXCEPT ![v] = r]
        /\ regAvailable' = AvailableFor(v) \ {r}
  BY DEF AssignFree
<1>2. /\ IsCurrent(v)
      /\ active' = StillActive(v) \cup {v}
      /\ scanned' = scanned \cup {v}
      /\ UNCHANGED <<intervals, stackSlots>>
  BY DEF AssignFree
<1>3. physReg'[v] = r /\ \A a \in StillActive(v) : physReg'[a] = physReg[a]
  BY <1>1, <1>2, AtCurrent, Ranges DEF Served
<1>4. NoneForgotten'
  <2>1. ASSUME NEW q \in Regs \ Reserved, q \notin regAvailable'
        PROVE  \E a \in active' : physReg'[a] = q
    <3>1. CASE q = r
      BY <3>1, <1>2, <1>3
    <3>2. CASE q # r
      <4>1. q \notin AvailableFor(v)
        BY <2>1, <3>2, <1>1
      <4>2. PICK a \in active : physReg[a] = q
        BY <2>1, <4>1 DEF PInv, NoneForgotten, AvailableFor
      <4>3. a \in StillActive(v)
        BY <4>1, <4>2 DEF AvailableFor, StillActive
      <4> QED
        BY <4>2, <4>3, <1>2, <1>3
    <3> QED
      BY <3>1, <3>2
  <2> QED
    BY <2>1, <1>2, IntervalsFixed DEF NoneForgotten
<1>5. SpillOnlyUnderPressure'
  BY <1>2, IntervalsFixed, PressureFixed DEF PInv, SpillOnlyUnderPressure
<1> QED
  BY <1>2, <1>4, <1>5, RisesStep DEF PInv

\* Where the stack is used, the pressure is at the current interval.
LEMMA SpillPressure ==
  ASSUME IInv, PInv, NEW v \in Vregs, IsCurrent(v), AvailableFor(v) = {},
         intervals' = intervals, scanned' = scanned \cup {v}
  PROVE  SpillOnlyUnderPressure'
<1>1. PressureAt(Start(v)) > Cardinality(Regs \ Reserved)
  BY ForcedSpill
<1>2. v \in scanned' /\ Start(v)' = Start(v) /\ Reserved' = Reserved
  BY IntervalsFixed
<1>3. \A p : PressureAt(p)' = PressureAt(p)
  BY PressureFixed
<1>4. PressureAt(Start(v))' = PressureAt(Start(v))
  BY <1>2 DEF PressureAt, Live, Start, End
<1> QED
  BY <1>1, <1>2, <1>4 DEF SpillOnlyUnderPressure

\* A spill of the current interval leaves the registers where they are.
LEMMA SpillCurrentPressure ==
  ASSUME IInv, PInv, NEW v \in Vregs, SpillCurrent(v)
  PROVE  PInv'
<1>1. /\ IsCurrent(v) /\ AvailableFor(v) = {}
      /\ active' = StillActive(v)
      /\ scanned' = scanned \cup {v}
      /\ regAvailable' = AvailableFor(v)
      /\ UNCHANGED <<intervals, physReg>>
  BY DEF SpillCurrent
<1>2. NoneForgotten'
  BY <1>1, IntervalsFixed DEF PInv, NoneForgotten, AvailableFor, StillActive
<1> QED
  BY <1>1, <1>2, RisesStep, SpillPressure DEF PInv

\* The register of the evicted interval goes to the current one.
LEMMA EvictForPressure ==
  ASSUME IInv, PInv, NEW v \in Vregs, EvictFor(v)
  PROVE  PInv'
<1>1. PICK a \in FurthestEnd(v) :
        /\ physReg' = [physReg EXCEPT ![v] = physReg[a], ![a] = NoReg]
        /\ active' = (StillActive(v) \ {a}) \cup {v}
  BY DEF EvictFor
<1>2. /\ IsCurrent(v) /\ AvailableFor(v) = {}
      /\ scanned' = scanned \cup {v}
      /\ regAvailable' = AvailableFor(v)
      /\ intervals' = intervals
  BY DEF EvictFor
<1>3. a \in active /\ a # v /\ v \notin active
  BY <1>1, <1>2, Ranges DEF FurthestEnd, EvictableFor, StillActive, IsCurrent
<1>4. /\ physReg'[v] = physReg[a]
      /\ \A b \in StillActive(v) \ {a} : physReg'[b] = physReg[b]
  BY <1>1, <1>3, Ranges DEF StillActive
<1>5. NoneForgotten'
  <2>1. ASSUME NEW q \in Regs \ Reserved PROVE \E b \in active' : physReg'[b] = q
    <3>1. PICK b \in StillActive(v) : physReg[b] = q
      BY <2>1, <1>2 DEF PInv, NoneForgotten, AvailableFor, StillActive
    <3> QED
      BY <3>1, <1>1, <1>4
  <2> QED
    BY <2>1, <1>2, IntervalsFixed DEF NoneForgotten
<1> QED
  BY <1>2, <1>5, RisesStep, SpillPressure DEF PInv

\* Nothing is put on the stack unless, at the start of some interval, more vregs
\* are live than there are registers left free by the parameters: linear scan
\* forgets no register (regalloc.c:175-237).
THEOREM SpillsAreForced == Spec => []SpillOnlyUnderPressure
<1>1. IInv /\ PInv /\ [Next]_vars => PInv'
  <2> SUFFICES ASSUME IInv, PInv, [Next]_vars PROVE PInv'
    OBVIOUS
  <2>1. CASE \E v \in Vregs : AssignFree(v)
    BY <2>1, AssignFreePressure
  <2>2. CASE \E v \in Vregs : SpillCurrent(v)
    BY <2>2, SpillCurrentPressure
  <2>3. CASE \E v \in Vregs : EvictFor(v)
    BY <2>3, EvictForPressure
  <2>4. CASE UNCHANGED <<intervals, scanned, active, regAvailable, physReg, stackSlots>>
    <3>1. intervals' = intervals
      BY <2>4
    <3> QED
      BY <3>1, <2>4, IntervalsFixed, PressureFixed
         DEF PInv, NoneForgotten, ScanRises, SpillOnlyUnderPressure
  <2> QED
    BY <2>1, <2>2, <2>3, <2>4 DEF Next, Scan, Finish, vars
<1>2. PInv => SpillOnlyUnderPressure
  BY DEF PInv
<1> QED
  BY <1>1, <1>2, InitPressure, Strengthening, PTL DEF Spec

-------------------------------------------------------------------------------

(***************************************************************************)
(* Linear scan keeps the promise of Homes.  That no register or slot is    *)
(* shared after a step is proved above of every reachable state; what is   *)
(* left is how one step changes the homes of the others.                   *)
(***************************************************************************)

\* What the invariant says of the homes, in the terms of Homes.
LEMMA NoClashOf ==
  ASSUME NoSharedRegister', SlotsDistinct', intervals' = intervals, scanned' \subseteq Vregs
  PROVE  Promise!NoClash
<1>1. \A v, w \in scanned' :
        <<v, w>> \in Conflicts /\ vregToReg'[v] # NoReg => vregToReg'[v] # vregToReg'[w]
  BY IntervalsFixed DEF Conflicts, NoSharedRegister
<1>2. \A v, w \in Vregs : v # w /\ vregToSlot'[v] # NoSlot => vregToSlot'[v] # vregToSlot'[w]
  BY DEF SlotsDistinct
<1> QED
  BY <1>1, <1>2 DEF Promise!NoClash

\* A step that serves v and keeps the others' homes, or sends them to the stack,
\* is a step of Homes: the rest is what holds in the state it leads to.
LEMMA ServeOf ==
  ASSUME NEW v \in Vregs, v \in Live, v \notin scanned, scanned' = scanned \cup {v},
         intervals' = intervals, IInv, IInv', HomesApart', NoSharedRegister',
         \A w \in Vregs \ {v} : Promise!Kept(w) \/ Promise!MovedToStack(w),
         \A u \in Vregs \ scanned' : vregToReg'[v] # NoReg => vregToReg'[v] # vregToReg[u]
  PROVE  Promise!Serve(v)
<1>1. Conflicts' = Conflicts
  BY IntervalsFixed DEF Conflicts, Vregs
<1>2. Promise!NoClash
  BY NoClashOf, Ranges DEF HomesApart
<1>3. /\ vregToReg' \in [Vregs -> Regs \cup {NoReg}]
      /\ vregToSlot' \in [Vregs -> Nat \cup {NoSlot}]
  BY DEF IInv, TypeOK
<1>4. vregToReg'[v] # NoReg \/ vregToSlot'[v] # NoSlot
  BY DEF HomesApart, EveryVregHasAHome
<1> QED
  BY <1>1, <1>2, <1>3, <1>4 DEF Promise!Serve

\* No vreg still waiting waits where v is put.
LEMMA NobodyWaits ==
  ASSUME IInv, NEW v \in Vregs, NEW u \in Vregs \ scanned, u # v,
         NEW r \in Regs \ Reserved
  PROVE  vregToReg[u] # r
BY IncomingDistinct, NoRegIsNone DEF IInv, NotServedYet

LEMMA AssignFreeServes ==
  ASSUME IInv, IInv', HomesApart', NoSharedRegister', NEW v \in Vregs, AssignFree(v)
  PROVE  Promise!Serve(v)
<1>1. PICK r \in AvailableFor(v) : vregToReg' = [vregToReg EXCEPT ![v] = r]
  BY DEF AssignFree
<1>2. IsCurrent(v) /\ scanned' = scanned \cup {v} /\ UNCHANGED <<intervals, vregToSlot>>
  BY DEF AssignFree
<1>3. r \in Regs \ Reserved
  BY <1>2, AtCurrent DEF Served
<1>4. \A w \in Vregs \ {v} : Promise!Kept(w)
  BY <1>1, <1>2, Ranges DEF Promise!Kept
<1>5. \A u \in Vregs \ scanned' : vregToReg'[v] # vregToReg[u]
  BY <1>1, <1>2, <1>3, NobodyWaits, Ranges
<1> QED
  BY <1>2, <1>4, <1>5, ServeOf DEF IsCurrent

LEMMA SpillCurrentServes ==
  ASSUME IInv, IInv', HomesApart', NoSharedRegister', NEW v \in Vregs, SpillCurrent(v)
  PROVE  Promise!Serve(v)
<1>1. /\ IsCurrent(v) /\ scanned' = scanned \cup {v}
      /\ UNCHANGED <<intervals, vregToReg>>
      /\ vregToSlot' = [vregToSlot EXCEPT ![v] = stackSlots]
  BY DEF SpillCurrent
<1>2. \A w \in Vregs \ {v} : Promise!Kept(w)
  BY <1>1 DEF Promise!Kept, IInv, TypeOK
<1>3. \A u \in Vregs \ scanned' :
        vregToReg'[v] # NoReg => vregToReg'[v] # vregToReg[u]
  BY <1>1, IncomingDistinct DEF IInv, NotServedYet, IsCurrent
<1> QED
  BY <1>1, <1>2, <1>3, ServeOf DEF IsCurrent

LEMMA EvictForServes ==
  ASSUME IInv, HomesApart, IInv', HomesApart', NoSharedRegister',
         NEW v \in Vregs, EvictFor(v)
  PROVE  Promise!Serve(v)
<1>1. PICK a \in FurthestEnd(v) :
        /\ vregToReg' = [vregToReg EXCEPT ![v] = physReg[a], ![a] = NoReg]
        /\ vregToSlot' = [vregToSlot EXCEPT ![v] = stackSlots, ![a] = stackSlots + 1]
  BY DEF EvictFor
<1>2. IsCurrent(v) /\ scanned' = scanned \cup {v} /\ intervals' = intervals
  BY DEF EvictFor
<1>3. a \in active /\ a \in scanned /\ a \in Vregs /\ a # v
  BY <1>1, <1>2, Ranges DEF FurthestEnd, EvictableFor, StillActive, IsCurrent
<1>4. physReg[a] \in Regs \ Reserved /\ vregToReg[a] = physReg[a]
  BY <1>3, NoRegIsNone DEF IInv, ActiveHolds, ReservedApart, ResultAgrees
<1>5. stackSlots \in Nat /\ vregToSlot \in [Vregs -> Nat \cup {NoSlot}]
  BY DEF IInv, TypeOK
<1>6. \A w \in Vregs \ {v, a} : Promise!Kept(w)
  BY <1>1, <1>5, Ranges DEF Promise!Kept
<1>7. Promise!MovedToStack(a)
  <2>1. vregToReg'[a] = NoReg /\ vregToSlot'[a] = stackSlots + 1
    BY <1>1, <1>3, <1>5, Ranges
  <2>2. \A u \in Vregs : stackSlots + 1 # vregToSlot[u]
    BY <1>5 DEF HomesApart, SlotsDistinct, NoSlot
  <2>3. stackSlots + 1 # NoSlot
    BY <1>5 DEF NoSlot
  <2> QED
    BY <2>1, <2>2, <2>3, <1>3, <1>4, NoRegIsNone DEF Promise!MovedToStack
<1>8. \A u \in Vregs \ scanned' : vregToReg'[v] # vregToReg[u]
  <2>1. vregToReg'[v] = physReg[a]
    BY <1>1, <1>3, Ranges
  <2> QED
    BY <2>1, <1>2, <1>4, NobodyWaits
<1> QED
  BY <1>2, <1>6, <1>7, <1>8, ServeOf DEF IsCurrent

-------------------------------------------------------------------------------

\* Linear scan implements what a register allocator promises.
THEOREM ScanKeepsPromise == Spec => KeepsPromise
<1>1. Init => Promise!Init
  <2> SUFFICES ASSUME Init PROVE Promise!Init
    OBVIOUS
  <2>1. IInv
    BY InitIInv
  <2> QED
    BY <2>1 DEF Init, IInv, TypeOK, Promise!Init, Conflicts
<1>2. /\ IInv /\ HomesApart /\ NoSharedRegister /\ IInv' /\ HomesApart' /\ NoSharedRegister'
      /\ [Next]_vars
      => [Promise!Next]_(Promise!vars)
  <2> SUFFICES ASSUME IInv, HomesApart, IInv', HomesApart', NoSharedRegister', [Next]_vars
               PROVE  [Promise!Next]_(Promise!vars)
    OBVIOUS
  <2>1. CASE \E v \in Vregs : AssignFree(v)
    BY <2>1, AssignFreeServes DEF Promise!Next
  <2>2. CASE \E v \in Vregs : SpillCurrent(v)
    BY <2>2, SpillCurrentServes DEF Promise!Next
  <2>3. CASE \E v \in Vregs : EvictFor(v)
    BY <2>3, EvictForServes DEF Promise!Next
  <2>4. CASE UNCHANGED <<intervals, scanned, vregToReg, vregToSlot>>
    <3>1. intervals' = intervals
      BY <2>4
    <3>2. Conflicts' = Conflicts
      BY <3>1, IntervalsFixed DEF Conflicts, Vregs
    <3> QED
      BY <2>4, <3>2 DEF Promise!vars
  <2> QED
    BY <2>1, <2>2, <2>3, <2>4 DEF Next, Scan, Finish, vars
<1> QED
  BY <1>1, <1>2, Strengthening, HomesStayApart, NeverShared, PTL DEF Spec, KeepsPromise, Promise!Spec

===============================================================================
