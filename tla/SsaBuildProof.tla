----------------------------- MODULE SsaBuildProof -----------------------------
(***************************************************************************)
(* Proofs about SsaBuild, for every program it lowers: the blocks it names *)
(* are blocks it has, a sealed block's predecessors are frozen, and a walk *)
(* along the incomplete PHIs always stands at an entry of its own block.   *)
(*                                                                         *)
(* The invariants speak of the calls pending on todo: what one of them     *)
(* will still add to a block, or close, and in which order.                *)
(***************************************************************************)
EXTENDS SsaBuild, TLAPS

\* The calls that can be pending while n blocks are in use.
CallsIn(n) ==
  LET B == 0..(n - 1) IN
       [t : {"stmts", "expr", "drop", "end"} \cup DOMAIN BlocksAdded]
  \cup [t : {"ident", "seen", "write"}, x : Vars]
  \cup [t : {"op", "effect"}, op : Ops, places : Seq(Nat), pops : Nat]
  \cup [t : {"read", "memo"}, b : B, x : Vars]
  \cup [t : {"join"}, b : B, x : Vars, phi : Int]
  \cup [t : {"seal"}, b : B]
  \cup [t : {"scan"}, b : B, skipped : Nat]
  \cup [t : {"fill"}, b : B, skipped : Nat, len : Nat]
  \cup [t : {"enter", "merge"}, b : B, preds : Seq(B)]
  \cup [t : {"logicJoin"}, b : B, phi : Int, preds : Seq(B)]
  \cup [t : {"jump"}, b : B]
  \cup [t : {"armEnd"}, arm : B, b : B]
  \cup [t : {"branch"}, true : B, false : B]
  \cup [t : {"backEdge"}, b : B, pred : B]

\* The blocks a call adds predecessors to, and the ones it seals or has sealed.
Adds(k) == IF k.t \in {"enter", "merge", "logicJoin", "backEdge"} THEN {k.b} ELSE {}
Closes(k) ==
  IF k.t \in {"seal", "merge", "logicJoin"} THEN {k.b}
  ELSE IF k.t = "armEnd" THEN {k.arm} ELSE {}

\* Nothing is added to a block after a call that closes it.
Ordered(ts) ==
  \A i, j \in DOMAIN ts : i < j => Closes(ts[i]) \cap Adds(ts[j]) = {}

Placeholder == [var : Vars, phi : Int, block : Blocks]

\* The state is well typed, and every block it names is in use.
TypeInv ==
  /\ nblocks \in 1..BlocksCap
  /\ curBlock \in InUse
  /\ sealed \in [Blocks -> BOOLEAN]
  /\ preds \in [Blocks -> Seq(InUse)]
  /\ incompletePhis \in Seq(Placeholder)
  /\ nextVreg \in Int
  /\ todo \in Seq(CallsIn(nblocks))

\* A block not handed out yet is not sealed; and predecessors will be added to
\* blocks that are open, before they are closed.
OpenInv ==
  /\ \A b \in Blocks : sealed[b] => b \in InUse
  /\ \A i \in DOMAIN todo : \A b \in Adds(todo[i]) : ~sealed[b]
  /\ Ordered(todo)

Reading == {"read", "memo", "join"}

\* The walk of seal_block stands at an entry there is: the one it has the operands
\* read for is one of its block, and only reads are made meanwhile.
Standing(ts, phis) ==
  \A i \in DOMAIN ts :
    /\ ts[i].t \in {"scan", "fill"} => \A j \in 1..(i - 1) : ts[j].t \in Reading
    /\ ts[i].t = "scan" => i = 1 /\ ts[i].skipped <= Len(phis)
    /\ ts[i].t = "fill" =>
         /\ ts[i].skipped < ts[i].len /\ ts[i].len <= Len(phis)
         /\ phis[ts[i].skipped + Len(phis) - ts[i].len + 1].block = ts[i].b

ScanInv == Standing(todo, incompletePhis)

IInv == TypeInv /\ OpenInv /\ ScanInv

-------------------------------------------------------------------------------

\* The first n blocks, and the ones added after them.
LEMMA UpTo ==
  ASSUME NEW n \in Nat, NEW m \in Nat, n <= m
  PROVE  /\ 0..(n - 1) \subseteq 0..(m - 1)
         /\ \A b \in 0..(m - 1) : b >= n => b \notin 0..(n - 1)
         /\ \A b \in 0..(m - 1) : b \notin 0..(n - 1) => b >= n
OBVIOUS

\* The calls of a state, and their fields.

LEMMA CallFields ==
  ASSUME NEW n \in Nat, NEW k \in CallsIn(n)
  PROVE  LET B == 0..(n - 1) IN
         /\ k.t \in {"ident", "seen", "write"} => k.x \in Vars
         /\ k.t \in {"read", "memo", "join"} => k.b \in B /\ k.x \in Vars
         /\ k.t = "seal" => k.b \in B
         /\ k.t = "scan" => k.b \in B /\ k.skipped \in Nat
         /\ k.t = "fill" => k.b \in B /\ k.skipped \in Nat /\ k.len \in Nat
         /\ k.t \in {"enter", "merge", "logicJoin"} => k.b \in B /\ k.preds \in Seq(B)
         /\ k.t = "armEnd" => k.arm \in B
         /\ k.t = "backEdge" => k.b \in B /\ k.pred \in B
BY DEF CallsIn, BlocksAdded

LEMMA NamesInUse ==
  ASSUME NEW n \in Nat, NEW k \in CallsIn(n)
  PROVE  Adds(k) \subseteq 0..(n - 1) /\ Closes(k) \subseteq 0..(n - 1)
BY CallFields DEF Adds, Closes

\* The calls of a state stay calls of it when blocks are added.
LEMMA CallsGrow ==
  ASSUME NEW n \in Nat, NEW m \in Nat, n <= m
  PROVE  CallsIn(n) \subseteq CallsIn(m) /\ Seq(0..(n - 1)) \subseteq Seq(0..(m - 1))
<1>1. 0..(n - 1) \subseteq 0..(m - 1)
  OBVIOUS
<1>2. Seq(0..(n - 1)) \subseteq Seq(0..(m - 1))
  BY <1>1
<1> QED
  BY <1>1, <1>2 DEF CallsIn

LEMMA BuilderCalls ==
  ASSUME NEW n \in Nat, NEW b \in 0..(n - 1)
  PROVE  /\ \A x \in Vars : Read(b, x) \in CallsIn(n) /\ Memo(b, x) \in CallsIn(n)
         /\ \A x \in Vars, phi \in Int : Join(b, x, phi) \in CallsIn(n)
         /\ Seal(b) \in CallsIn(n)
         /\ \A i \in Nat : Scan(b, i) \in CallsIn(n)
         /\ \A i, l \in Nat : Fill(b, i, l) \in CallsIn(n)
BY DEF CallsIn, Read, Memo, Join, Seal, Scan, Fill

LEMMA DriverCalls ==
  ASSUME NEW n \in Nat
  PROVE  /\ Body \in CallsIn(n) /\ Expr \in CallsIn(n) /\ Const \in CallsIn(n)
         /\ \A t \in {"drop", "end"} \cup DOMAIN BlocksAdded : Task(t) \in CallsIn(n)
         /\ \A x \in Vars : {Ident(x), Seen(x), Write(x)} \subseteq CallsIn(n)
         /\ \A op \in Ops, places \in Seq(Nat), pops \in Nat :
              {Op(op, places, pops), Effect(op, places, pops)} \subseteq CallsIn(n)
<1>1. Op("CONST", <<>>, 0) \in CallsIn(n)
  BY DEF CallsIn, Op, Ops
<1> QED
  BY <1>1 DEF CallsIn, Body, Expr, Const, Task, Ident, Seen, Write, Op, Effect, BlocksAdded

LEMMA BlockCalls ==
  ASSUME NEW n \in Nat, NEW b \in 0..(n - 1), NEW c \in 0..(n - 1), NEW d \in 0..(n - 1)
  PROVE  /\ {Enter(b, c), Jump(b), ArmEnd(b, c), Branch(b, c), BackEdge(b, c), Seal(b)}
              \subseteq CallsIn(n)
         /\ {Merge(b, <<c>>), Merge(b, <<c, d>>)} \subseteq CallsIn(n)
         /\ \A phi \in Int : JoinOf(b, phi, <<c, d>>) \in CallsIn(n)
<1>1. <<c>> \in Seq(0..(n - 1)) /\ <<c, d>> \in Seq(0..(n - 1))
  OBVIOUS
<1> QED
  BY <1>1 DEF CallsIn, Enter, Jump, ArmEnd, Branch, BackEdge, Seal, Merge, JoinOf

-------------------------------------------------------------------------------

\* What replaces the call on top of the stack, and what stays under it.
Onto(ts, q, r) ==
  /\ \A i \in DOMAIN ts : i \in DOMAIN r /\ r[i] = ts[i]
  /\ \A i \in DOMAIN r : \/ i \in DOMAIN ts /\ r[i] = ts[i]
                         \/ \E j \in 2..Len(q) : i = j - 1 + Len(ts) /\ r[i] = q[j]

LEMMA Replaced ==
  ASSUME NEW S, NEW ts \in Seq(S), NEW q \in Seq(S), q # <<>>
  PROVE  /\ ts \o Tail(q) \in Seq(S)
         /\ Len(ts \o Tail(q)) = Len(ts) + Len(q) - 1
         /\ Onto(ts, q, ts \o Tail(q))
<1> DEFINE r == ts \o Tail(q)
<1>1. Tail(q) \in Seq(S) /\ Len(Tail(q)) = Len(q) - 1 /\ Len(q) \in Nat \ {0} /\ Len(ts) \in Nat
      /\ \A j \in 1..(Len(q) - 1) : Tail(q)[j] = q[j + 1]
  OBVIOUS
<1>2. r \in Seq(S) /\ Len(r) = Len(ts) + Len(q) - 1
  BY <1>1
<1>3. \A i \in DOMAIN ts : i \in DOMAIN r /\ r[i] = ts[i]
  BY <1>1, <1>2
<1>4. \A j \in 2..Len(q) : j - 1 + Len(ts) \in DOMAIN r /\ r[j - 1 + Len(ts)] = q[j]
  BY <1>1, <1>2
<1>5. ASSUME NEW i \in DOMAIN r, i \notin DOMAIN ts
      PROVE  \E j \in 2..Len(q) : i = j - 1 + Len(ts) /\ r[i] = q[j]
  <2>1. i \in 1..(Len(ts) + Len(q) - 1) /\ i > Len(ts)
    BY <1>1, <1>2, <1>5
  <2>2. PICK j \in 2..Len(q) : j = i - Len(ts) + 1
    BY <1>1, <2>1
  <2>3. i = j - 1 + Len(ts)
    BY <1>1, <2>1, <2>2
  <2> QED
    BY <1>4, <2>2, <2>3
<1> QED
  BY <1>2, <1>3, <1>5 DEF Onto

\* What the code of a call may be replaced by, when its own predecessors are done.
Fresh(ts, n) ==
  /\ Ordered(ts)
  /\ \A i \in DOMAIN ts : \A b \in Adds(ts[i]) : b >= n
  /\ \A i \in DOMAIN ts : \A b \in Closes(ts[i]) : b >= n \/ b \in Closes(Head(todo))

SealsOnly(bs) ==
  /\ sealed' \in [Blocks -> BOOLEAN]
  /\ \A b \in Blocks : sealed'[b] => sealed[b] \/ b \in bs

LEMMA ReplacedOpen ==
  ASSUME TypeInv, OpenInv, todo # <<>>,
         nblocks' \in nblocks..BlocksCap, SealsOnly(Closes(Head(todo))),
         NEW ts \in Seq(CallsIn(nblocks')), Continue(ts), Fresh(ts, nblocks)
  PROVE  OpenInv' /\ todo' \in Seq(CallsIn(nblocks'))
<1> USE BuilderAssumption
<1>0. /\ BlocksCap \in Nat /\ nblocks \in Nat /\ nblocks' \in Nat
      /\ nblocks <= nblocks' /\ nblocks' <= BlocksCap
      /\ todo \in Seq(CallsIn(nblocks'))
  BY CallsGrow DEF TypeInv
<1>1. /\ todo' \in Seq(CallsIn(nblocks'))
      /\ \A i \in DOMAIN todo' :
           \/ i \in DOMAIN ts /\ todo'[i] = ts[i]
           \/ \E j \in 2..Len(todo) : i = j - 1 + Len(ts) /\ todo'[i] = todo[j]
  <2>1. todo' = ts \o Tail(todo)
    BY DEF Continue
  <2>2. todo \in Seq(CallsIn(nblocks')) /\ todo # <<>> /\ ts \in Seq(CallsIn(nblocks'))
    BY <1>0
  <2>3. todo' \in Seq(CallsIn(nblocks')) /\ Onto(ts, todo, todo')
    BY ONLY <2>1, <2>2, Replaced
  <2> QED
    BY <2>3 DEF Onto
<1>2. \A j \in DOMAIN todo : Adds(todo[j]) \subseteq InUse
  BY <1>0, NamesInUse DEF TypeInv, InUse
<1>n. InUse \subseteq InUse' /\ \A b \in 0..(nblocks' - 1) : b >= nblocks => b \in Blocks \ InUse
  BY <1>0, UpTo DEF InUse, Blocks
<1>h. todo[1] \in CallsIn(nblocks) /\ Head(todo) = todo[1] /\ DOMAIN todo = 1..Len(todo)
      /\ 1 \in DOMAIN todo /\ Len(todo) \in Nat
  BY DEF TypeInv
<1>c. Closes(Head(todo)) \subseteq InUse
  BY <1>0, <1>h, NamesInUse DEF InUse
<1>3. \A b \in Blocks : sealed'[b] => b \in InUse'
  BY <1>n, <1>c DEF OpenInv, SealsOnly
<1>4. ASSUME NEW i \in DOMAIN todo', NEW b \in Adds(todo'[i]) PROVE ~sealed'[b]
  <2>1. CASE i \in DOMAIN ts /\ todo'[i] = ts[i]
    <3>1. b >= nblocks /\ b \in 0..(nblocks' - 1)
      BY <1>0, <1>4, <2>1, NamesInUse DEF Fresh
    <3>2. b \in Blocks /\ b \notin InUse
      BY <1>n, <3>1
    <3> QED
      BY <3>2, <1>c DEF OpenInv, SealsOnly
  <2>2. CASE \E j \in 2..Len(todo) : i = j - 1 + Len(ts) /\ todo'[i] = todo[j]
    <3>1. PICK j \in 2..Len(todo) : todo'[i] = todo[j]
      BY <2>2
    <3>2. j \in DOMAIN todo /\ 1 < j
      BY <1>h, <3>1
    <3>3. ~sealed[b] /\ b \notin Closes(todo[1])
      BY <1>4, <1>h, <3>1, <3>2 DEF OpenInv, Ordered
    <3>4. b \in Blocks
      BY <1>0, <1>2, <1>4, <3>1, <3>2, UpTo DEF InUse, Blocks
    <3> QED
      BY <1>h, <3>3, <3>4 DEF SealsOnly
  <2> QED
    BY <1>1, <2>1, <2>2
<1>5. ASSUME NEW i \in DOMAIN todo', NEW j \in DOMAIN todo', i < j
      PROVE  Closes(todo'[i]) \cap Adds(todo'[j]) = {}
  <2>0. Len(ts) \in Nat /\ Len(todo) \in Nat /\ DOMAIN ts = 1..Len(ts)
        /\ DOMAIN todo = 1..Len(todo) /\ 1 \in DOMAIN todo
    BY <1>0
  <2>1. CASE j \in DOMAIN ts /\ todo'[j] = ts[j]
    <3>0. i \in Nat /\ j \in Nat /\ i < j /\ i > 0
      BY <1>1, <1>5, <2>0, <2>1
    <3>1. i \in DOMAIN ts
      BY <2>0, <2>1, <3>0
    <3>2. todo'[i] = ts[i]
      BY <1>1, <2>0, <3>1, <3>0
    <3> QED
      BY <1>5, <2>1, <3>1, <3>2 DEF Fresh, Ordered
  <2>2. CASE \E l \in 2..Len(todo) : j = l - 1 + Len(ts) /\ todo'[j] = todo[l]
    <3>1. PICK l \in 2..Len(todo) : j = l - 1 + Len(ts) /\ todo'[j] = todo[l]
      BY <2>2
    <3>2. l \in DOMAIN todo
      BY <2>0
    <3>3. CASE i \in DOMAIN ts /\ todo'[i] = ts[i]
      <4>1. SUFFICES ASSUME NEW b \in Closes(ts[i]), b \in Adds(todo[l]) PROVE FALSE
        BY <3>1, <3>3
      <4>2. b \in InUse
        BY <1>2, <3>2, <4>1
      <4>3. b \in Closes(Head(todo))
        BY <3>3, <4>1, <4>2, <1>0 DEF Fresh, InUse
      <4>4. 1 < l /\ Head(todo) = todo[1]
        BY <2>0
      <4> QED
        BY <2>0, <3>2, <4>1, <4>3, <4>4 DEF OpenInv, Ordered
    <3>4. CASE \E m \in 2..Len(todo) : i = m - 1 + Len(ts) /\ todo'[i] = todo[m]
      <4>1. PICK m \in 2..Len(todo) : i = m - 1 + Len(ts) /\ todo'[i] = todo[m]
        BY <3>4
      <4>2. m \in DOMAIN todo /\ m < l
        BY <1>5, <2>0, <3>1, <4>1
      <4> QED
        BY <3>1, <3>2, <4>1, <4>2 DEF OpenInv, Ordered
    <3> QED
      BY <1>1, <3>3, <3>4
  <2> QED
    BY <1>1, <2>1, <2>2
<1> QED
  BY <1>1, <1>3, <1>4, <1>5 DEF OpenInv, Ordered

-------------------------------------------------------------------------------

\* Under a call that reads nothing no walk is going on.
LEMMA ReplacedStanding ==
  ASSUME NEW S, NEW q \in Seq(S), q # <<>>, NEW phis, Standing(q, phis), q[1].t \notin Reading,
         NEW ts \in Seq(S), NEW others, Standing(ts, others)
  PROVE  Standing(ts \o Tail(q), others)
<1> DEFINE r == ts \o Tail(q)
<1>0. Onto(ts, q, r)
  BY Replaced
<1>1. \A i \in DOMAIN r : \/ i \in DOMAIN ts /\ r[i] = ts[i]
                          \/ \E j \in 2..Len(q) : i = j - 1 + Len(ts) /\ r[i] = q[j]
  BY ONLY <1>0, Zenon DEF Onto
<1>2. \A i \in DOMAIN ts : i \in DOMAIN r /\ r[i] = ts[i]
  BY ONLY <1>0, Zenon DEF Onto
<1>3. \A j \in 2..Len(q) : q[j].t \notin {"scan", "fill"}
  <2>1. \A j \in 2..Len(q) : j \in DOMAIN q /\ 1 \in 1..(j - 1)
    OBVIOUS
  <2> QED
    BY <2>1 DEF Standing
<1>4. \A i \in DOMAIN r : r[i].t \in {"scan", "fill"} => i \in DOMAIN ts /\ r[i] = ts[i]
  BY <1>1, <1>3
<1>5. \A i \in DOMAIN ts : \A j \in 1..(i - 1) : j \in DOMAIN ts
  OBVIOUS
<1> HIDE DEF r
<1>6. Standing(r, others)
  <2> SUFFICES ASSUME NEW i \in DOMAIN r, r[i].t \in {"scan", "fill"}
               PROVE  /\ \A j \in 1..(i - 1) : r[j].t \in Reading
                      /\ r[i].t = "scan" => i = 1 /\ r[i].skipped <= Len(others)
                      /\ r[i].t = "fill" =>
                           /\ r[i].skipped < r[i].len /\ r[i].len <= Len(others)
                           /\ others[r[i].skipped + Len(others) - r[i].len + 1].block = r[i].b
    BY DEF Standing
  <2>1. i \in DOMAIN ts /\ r[i] = ts[i]
    BY <1>4
  <2>2. \A j \in 1..(i - 1) : r[j].t \in Reading
    BY <1>2, <1>5, <2>1 DEF Standing
  <2> QED
    BY <2>1, <2>2 DEF Standing
<1> QED
  BY <1>6 DEF r

\* A read makes other reads, and may put an entry before the others.
LEMMA ReadStanding ==
  ASSUME NEW S, NEW q \in Seq(S), q # <<>>,
         NEW E, NEW phis \in Seq(E), Standing(q, phis), q[1].t \in Reading,
         \A i \in DOMAIN q : q[i].t = "fill" => q[i].skipped \in Nat /\ q[i].len \in Nat,
         NEW ts \in Seq(S), \A i \in DOMAIN ts : ts[i].t \in Reading,
         NEW others \in Seq(E), others = phis \/ \E e \in E : others = <<e>> \o phis
  PROVE  Standing(ts \o Tail(q), others)
<1> DEFINE r == ts \o Tail(q)
<1>0. Len(q) \in Nat \ {0} /\ Len(ts) \in Nat /\ DOMAIN q = 1..Len(q) /\ DOMAIN ts = 1..Len(ts)
  OBVIOUS
<1>o. Onto(ts, q, r)
  BY Replaced
<1>1. \A i \in DOMAIN r : \/ i \in DOMAIN ts /\ r[i] = ts[i]
                          \/ \E j \in 2..Len(q) : i = j - 1 + Len(ts) /\ r[i] = q[j]
  BY ONLY <1>o, Zenon DEF Onto
<1>d. DOMAIN r = 1..(Len(ts) + Len(q) - 1)
  BY Replaced, <1>0
<1> HIDE DEF r
<1>2. SUFFICES ASSUME NEW i \in DOMAIN r, r[i].t \in {"scan", "fill"}
               PROVE  /\ \A j \in 1..(i - 1) : r[j].t \in Reading
                      /\ r[i].t = "fill"
                      /\ r[i].skipped < r[i].len /\ r[i].len <= Len(others)
                      /\ others[r[i].skipped + Len(others) - r[i].len + 1].block = r[i].b
  BY DEF Standing, r
<1>3. PICK l \in 2..Len(q) : i = l - 1 + Len(ts) /\ r[i] = q[l]
  BY <1>1, <1>2 DEF Reading
<1>4. l \in DOMAIN q /\ l # 1
  BY <1>0
<1>5. r[i].t = "fill"
  BY <1>2, <1>3, <1>4 DEF Standing
<1>6. ASSUME NEW j \in 1..(i - 1) PROVE r[j].t \in Reading
  <2>1. j \in DOMAIN r
    BY <1>0, <1>d, <1>2
  <2>2. CASE j \in DOMAIN ts /\ r[j] = ts[j]
    BY <2>2
  <2>3. CASE \E m \in 2..Len(q) : j = m - 1 + Len(ts) /\ r[j] = q[m]
    <3>1. PICK m \in 2..Len(q) : j = m - 1 + Len(ts) /\ r[j] = q[m]
      BY <2>3
    <3>2. m \in 1..(l - 1)
      BY <1>0, <1>3, <1>6, <3>1
    <3> QED
      BY <1>2, <1>3, <1>4, <3>1, <3>2 DEF Standing
  <2> QED
    BY <1>1, <2>1, <2>2, <2>3
<1>7. r[i].skipped \in Nat /\ r[i].len \in Nat
      /\ r[i].skipped < r[i].len /\ r[i].len <= Len(phis)
      /\ phis[r[i].skipped + Len(phis) - r[i].len + 1].block = r[i].b
  BY <1>3, <1>4, <1>5 DEF Standing
<1>8. /\ r[i].len <= Len(others)
      /\ others[r[i].skipped + Len(others) - r[i].len + 1].block = r[i].b
  <2>1. CASE others = phis
    BY <1>7, <2>1
  <2>2. CASE \E e \in E : others = <<e>> \o phis
    <3>1. PICK e \in E : others = <<e>> \o phis
      BY <2>2
    <3>2. Len(phis) \in Nat /\ Len(others) = Len(phis) + 1
          /\ \A j \in 1..Len(phis) : others[j + 1] = phis[j]
      BY <3>1
    <3>3. PICK at \in 1..Len(phis) : at = r[i].skipped + Len(phis) - r[i].len + 1
      BY <1>7, <3>2
    <3>4. at + 1 = r[i].skipped + Len(others) - r[i].len + 1
      BY <1>7, <3>2, <3>3
    <3>5. others[at + 1].block = r[i].b
      BY <1>7, <3>2, <3>3
    <3>6. r[i].len <= Len(others)
      BY <1>7, <3>2
    <3> QED
      BY <3>4, <3>5, <3>6
  <2> QED
    BY <2>1, <2>2
<1> QED
  BY <1>5, <1>6, <1>7, <1>8

-------------------------------------------------------------------------------

\* Calls that neither add predecessors nor seal, nor stand at a placeholder.
PlainKinds == {"stmts", "expr", "drop", "end", "ident", "seen", "write", "op", "effect",
               "jump", "branch"} \cup Reading \cup DOMAIN BlocksAdded
Plain(ts) == \A i \in DOMAIN ts : ts[i].t \in PlainKinds

LEMMA PlainCalls ==
  ASSUME NEW ts, Plain(ts), NEW n, NEW phis
  PROVE  Fresh(ts, n) /\ Standing(ts, phis)
<1>1. \A i \in DOMAIN ts : Adds(ts[i]) = {} /\ Closes(ts[i]) = {}
                           /\ ts[i].t \notin {"scan", "fill"}
  BY DEF Plain, PlainKinds, Reading, BlocksAdded, Adds, Closes
<1> QED
  BY <1>1 DEF Fresh, Ordered, Standing

\* A step that is not one of read_var keeps the invariant, if what it pushes is
\* in order and its other changes are well typed.
LEMMA DriverKeeps ==
  ASSUME IInv, todo # <<>>, Head(todo).t \notin Reading,
         nblocks' \in nblocks..BlocksCap, SealsOnly(Closes(Head(todo))),
         NEW ts \in Seq(CallsIn(nblocks')), Continue(ts),
         Fresh(ts, nblocks), Standing(ts, incompletePhis'),
         curBlock' \in InUse', preds' \in [Blocks -> Seq(InUse')],
         incompletePhis' \in Seq(Placeholder), nextVreg' \in Int
  PROVE  IInv'
<1>0. nblocks \in 1..BlocksCap /\ nblocks' \in 1..BlocksCap /\ nblocks \in Nat /\ nblocks' \in Nat
      /\ nblocks <= nblocks' /\ sealed' \in [Blocks -> BOOLEAN]
  BY BuilderAssumption DEF IInv, TypeInv, SealsOnly
<1>1. OpenInv' /\ todo' \in Seq(CallsIn(nblocks'))
  BY ReplacedOpen DEF IInv
<1>2. TypeInv'
  BY <1>0, <1>1 DEF TypeInv
<1>3. ScanInv'
  <2>1. todo \in Seq(CallsIn(nblocks')) /\ todo[1].t \notin Reading
    BY <1>0, CallsGrow DEF IInv, TypeInv
  <2>2. Standing(todo, incompletePhis)
    BY DEF IInv, ScanInv
  <2>3. Standing(todo', incompletePhis')
    BY <2>1, <2>2, ReplacedStanding DEF Continue
  <2> QED
    BY <2>3 DEF ScanInv
<1> QED
  BY <1>1, <1>2, <1>3 DEF IInv

\* A step of read_var only makes other reads, and placeholders.
LEMMA ReadKeeps ==
  ASSUME IInv, todo # <<>>, Head(todo).t \in Reading,
         UNCHANGED <<nblocks, sealed, preds, curBlock>>,
         NEW ts \in Seq(CallsIn(nblocks)), Continue(ts), \A i \in DOMAIN ts : ts[i].t \in Reading,
         \/ incompletePhis' = incompletePhis
         \/ \E e \in Placeholder : incompletePhis' = <<e>> \o incompletePhis,
         nextVreg' \in Int
  PROVE  IInv'
<1>0. nblocks \in 1..BlocksCap /\ nblocks \in Nat /\ nblocks \in nblocks..BlocksCap
  BY BuilderAssumption DEF IInv, TypeInv
<1>1. OpenInv' /\ todo' \in Seq(CallsIn(nblocks'))
  <2>1. Plain(ts)
    BY DEF Plain, PlainKinds
  <2>2. Fresh(ts, nblocks)
    BY <2>1, PlainCalls
  <2>3. SealsOnly(Closes(Head(todo)))
    BY DEF SealsOnly, IInv, TypeInv
  <2>4. nblocks' \in nblocks..BlocksCap /\ ts \in Seq(CallsIn(nblocks'))
    BY <1>0
  <2> QED
    BY <2>2, <2>3, <2>4, ReplacedOpen DEF IInv
<1>2. incompletePhis \in Seq(Placeholder) /\ incompletePhis' \in Seq(Placeholder)
  <2>1. incompletePhis \in Seq(Placeholder)
    BY DEF IInv, TypeInv
  <2>2. \A e \in Placeholder : <<e>> \o incompletePhis \in Seq(Placeholder)
    BY <2>1
  <2> QED
    BY <2>1, <2>2
<1>3. TypeInv'
  BY <1>1, <1>2 DEF IInv, TypeInv, InUse
<1>4. ScanInv'
  <2>1. todo \in Seq(CallsIn(nblocks)) /\ todo[1].t \in Reading
    BY DEF IInv, TypeInv
  <2>2. \A i \in DOMAIN todo : todo[i].t = "fill" => todo[i].skipped \in Nat /\ todo[i].len \in Nat
    BY <1>0, <2>1, CallFields
  <2>3. Standing(todo, incompletePhis)
    BY DEF IInv, ScanInv
  <2>4. Standing(todo', incompletePhis')
    BY <1>2, <2>1, <2>2, <2>3, ReadStanding DEF Continue
  <2> QED
    BY <2>4 DEF ScanInv
<1> QED
  BY <1>1, <1>3, <1>4 DEF IInv

\* What the invariant says of the call on top.
LEMMA TopCall ==
  ASSUME IInv, todo # <<>>
  PROVE  /\ Head(todo) \in CallsIn(nblocks) /\ Head(todo) = todo[1] /\ 1 \in DOMAIN todo
         /\ nblocks \in Nat /\ InUse = 0..(nblocks - 1) /\ InUse \subseteq Blocks
         /\ \A b \in Adds(Head(todo)) : ~sealed[b]
<1>1. todo \in Seq(CallsIn(nblocks)) /\ nblocks \in Nat /\ nblocks <= BlocksCap /\ BlocksCap \in Nat
  BY BuilderAssumption DEF IInv, TypeInv
<1>2. 1 \in DOMAIN todo /\ Head(todo) = todo[1] /\ todo[1] \in CallsIn(nblocks)
  BY <1>1
<1>3. InUse \subseteq Blocks
  BY <1>1, UpTo DEF InUse, Blocks
<1>4. \A b \in Adds(todo[1]) : ~sealed[b]
  BY <1>2 DEF IInv, OpenInv
<1> QED
  BY <1>1, <1>2, <1>3, <1>4 DEF InUse

-------------------------------------------------------------------------------

\* The steps of read_var.

LEMMA PredsRead ==
  ASSUME IInv, NEW b \in InUse, NEW x \in Vars
  PROVE  /\ ReadPreds(b, x) \in Seq(CallsIn(nblocks))
         /\ \A i \in DOMAIN ReadPreds(b, x) : ReadPreds(b, x)[i].t = "read"
<1>0. nblocks \in Nat /\ InUse = 0..(nblocks - 1) /\ b \in Blocks
  BY BuilderAssumption, UpTo DEF IInv, TypeInv, InUse, Blocks
<1>1. preds[b] \in Seq(InUse)
  BY <1>0 DEF IInv, TypeInv
<1>2. \A p \in InUse : Read(p, x).t = "read" /\ Read(p, x) \in CallsIn(nblocks)
  BY <1>0, BuilderCalls DEF Read
<1>3. \A i \in 1..Len(preds[b]) : preds[b][i] \in InUse
  BY <1>1
<1>4. Len(preds[b]) \in Nat
  BY <1>1
<1> QED
  BY <1>2, <1>3, <1>4 DEF ReadPreds

\* Reads followed by the call that takes their answers.
LEMMA ReadsThen ==
  ASSUME IInv, NEW b \in InUse, NEW x \in Vars, NEW k \in CallsIn(nblocks)
  PROVE  LET ts == ReadPreds(b, x) \o <<k>> IN
         /\ ts \in Seq(CallsIn(nblocks))
         /\ \A i \in DOMAIN ts : \/ ts[i].t = "read"
                                 \/ i = Len(ts) /\ ts[i] = k
<1> DEFINE rs == ReadPreds(b, x)
<1>1. rs \in Seq(CallsIn(nblocks)) /\ \A i \in DOMAIN rs : rs[i].t = "read"
  BY PredsRead
<1> HIDE DEF rs
<1>2. Len(rs \o <<k>>) = Len(rs) + 1 /\ (rs \o <<k>>)[Len(rs) + 1] = k /\ Len(rs) \in Nat
      /\ rs \o <<k>> \in Seq(CallsIn(nblocks))
      /\ \A i \in 1..Len(rs) : (rs \o <<k>>)[i] = rs[i]
  BY <1>1
<1>3. ASSUME NEW i \in 1..(Len(rs) + 1), i # Len(rs) + 1
      PROVE  (rs \o <<k>>)[i].t = "read"
  BY <1>1, <1>2, <1>3
<1> QED
  BY <1>2, <1>3 DEF rs

LEMMA BuilderReads ==
  ASSUME IInv, todo # <<>>, Head(todo).t \in Reading, BuilderStep(Head(todo))
  PROVE  IInv'
<1> DEFINE k == Head(todo)
           Rest0 == UNCHANGED <<nblocks, sealed, preds, curBlock>>
<1>0. /\ k \in CallsIn(nblocks) /\ nblocks \in Nat /\ InUse = 0..(nblocks - 1)
      /\ k.b \in InUse /\ k.x \in Vars /\ nextVreg \in Int
  BY TopCall, CallFields DEF IInv, TypeInv, Reading
<1>1. <<>> \in Seq(CallsIn(nblocks)) /\ \A i \in DOMAIN <<>> : <<>>[i].t \in Reading
  OBVIOUS
<1> SUFFICES ASSUME BuilderStep(k) PROVE IInv'
  OBVIOUS
<1> HIDE DEF k
<1>2. CASE ReadLocal(k) \/ RememberAnswer(k) \/ JoinTrivial(k) \/ JoinWithPhi(k)
  <2>1. /\ Rest0 /\ incompletePhis' = incompletePhis /\ nextVreg' \in Int /\ Continue(<<>>)
    BY <1>0, <1>2 DEF ReadLocal, RememberAnswer, JoinTrivial, JoinWithPhi, Return
  <2> QED
    BY <1>1, <2>1, ReadKeeps
<1>3. CASE ReadSinglePred(k)
  <2> DEFINE ts == ReadPreds(k.b, k.x) \o <<Memo(k.b, k.x)>>
  <2>1. Memo(k.b, k.x) \in CallsIn(nblocks) /\ Memo(k.b, k.x).t = "memo"
    BY <1>0, BuilderCalls DEF Memo
  <2>2. ts \in Seq(CallsIn(nblocks)) /\ \A i \in DOMAIN ts : ts[i].t \in Reading
    BY <1>0, <2>1, ReadsThen DEF Reading
  <2>3. Rest0 /\ incompletePhis' = incompletePhis /\ nextVreg' \in Int /\ Continue(ts)
    BY <1>0, <1>3 DEF ReadSinglePred
  <2> HIDE DEF ts
  <2> QED
    BY <2>2, <2>3, ReadKeeps
<1>4. CASE ReadManyPreds(k)
  <2> DEFINE ts == ReadPreds(k.b, k.x) \o <<Join(k.b, k.x, nextVreg)>>
  <2>1. Join(k.b, k.x, nextVreg) \in CallsIn(nblocks) /\ Join(k.b, k.x, nextVreg).t = "join"
    BY <1>0, BuilderCalls DEF Join
  <2>2. ts \in Seq(CallsIn(nblocks)) /\ \A i \in DOMAIN ts : ts[i].t \in Reading
    BY <1>0, <2>1, ReadsThen DEF Reading
  <2>3. Rest0 /\ incompletePhis' = incompletePhis /\ nextVreg' \in Int /\ Continue(ts)
    BY <1>0, <1>4 DEF ReadManyPreds
  <2> HIDE DEF ts
  <2> QED
    BY <2>2, <2>3, ReadKeeps
<1>5. CASE ReadUnsealed(k)
  <2> DEFINE e == [var |-> k.x, phi |-> nextVreg, block |-> k.b]
  <2>1. e \in Placeholder
    BY <1>0, TopCall DEF Placeholder
  <2>2. Rest0 /\ incompletePhis' = <<e>> \o incompletePhis /\ nextVreg' \in Int /\ Continue(<<>>)
    BY <1>0, <1>5 DEF ReadUnsealed, Return
  <2> HIDE DEF e
  <2>3. \E p \in Placeholder : incompletePhis' = <<p>> \o incompletePhis
    BY <2>1, <2>2
  <2> QED
    BY <1>1, <2>2, <2>3, ReadKeeps
<1>6. CASE SealBlock(k) \/ ScanStep(k) \/ FillPhi(k)
  BY <1>6 DEF SealBlock, ScanStep, FillPhi, Reading, k
<1> QED
  BY <1>2, <1>3, <1>4, <1>5, <1>6 DEF BuilderStep

\* seal_block and its walk along the incomplete PHIs.
LEMMA BuilderSeals ==
  ASSUME IInv, todo # <<>>, Head(todo).t \notin Reading, BuilderStep(Head(todo))
  PROVE  IInv'
<1> DEFINE k == Head(todo)
           L == Len(incompletePhis)
           Rest0 == UNCHANGED <<nblocks, preds, curBlock, nextVreg>>
<1>0. /\ k \in CallsIn(nblocks) /\ k = todo[1] /\ 1 \in DOMAIN todo
      /\ nblocks \in Nat /\ nblocks \in 1..BlocksCap /\ InUse = 0..(nblocks - 1)
      /\ InUse \subseteq Blocks /\ sealed \in [Blocks -> BOOLEAN]
  BY TopCall DEF IInv, TypeInv
<1>1. /\ incompletePhis \in Seq(Placeholder) /\ L \in Nat
      /\ curBlock \in InUse /\ preds \in [Blocks -> Seq(InUse)] /\ nextVreg \in Int
  BY DEF IInv, TypeInv
<1>2. Standing(todo, incompletePhis)
  BY DEF IInv, ScanInv
<1>n. nblocks \in nblocks..BlocksCap
  BY <1>0, BuilderAssumption
<1> SUFFICES ASSUME BuilderStep(k), k.t \notin Reading PROVE IInv'
  OBVIOUS
<1> HIDE DEF k, L
\* What is left to show of a step that pushes ts.
<1>3. ASSUME NEW ts \in Seq(CallsIn(nblocks)), Continue(ts), Fresh(ts, nblocks),
             Standing(ts, incompletePhis'), SealsOnly(Closes(k)),
             incompletePhis' \in Seq(Placeholder), Rest0
      PROVE  IInv'
  <2>1. /\ nblocks' \in nblocks..BlocksCap /\ ts \in Seq(CallsIn(nblocks'))
        /\ curBlock' \in InUse' /\ preds' \in [Blocks -> Seq(InUse')] /\ nextVreg' \in Int
    BY <1>n, <1>1, <1>3 DEF InUse
  <2> QED
    BY <1>3, <2>1, DriverKeeps DEF k
<1>e. <<>> \in Seq(CallsIn(nblocks)) /\ Fresh(<<>>, nblocks) /\ \A phis : Standing(<<>>, phis)
  BY DEF Fresh, Ordered, Standing
<1>s. ASSUME NEW b \in InUse, NEW i \in Nat, NEW phis, i <= Len(phis)
      PROVE  /\ <<Scan(b, i)>> \in Seq(CallsIn(nblocks)) /\ Fresh(<<Scan(b, i)>>, nblocks)
             /\ Standing(<<Scan(b, i)>>, phis)
  <2>1. Scan(b, i) \in CallsIn(nblocks) /\ Scan(b, i).t = "scan" /\ Scan(b, i).skipped = i
    BY <1>0, <1>s, BuilderCalls DEF Scan
  <2>2. Adds(Scan(b, i)) = {} /\ Closes(Scan(b, i)) = {}
    BY <2>1 DEF Adds, Closes
  <2> QED
    BY <1>s, <2>1, <2>2 DEF Fresh, Ordered, Standing
<1>u. sealed' = sealed => SealsOnly(Closes(k))
  BY <1>0 DEF SealsOnly
<1>4. CASE SealBlock(k)
  <2>1. k.t = "seal" /\ k.b \in InUse /\ Closes(k) = {k.b}
    BY <1>0, <1>4, CallFields DEF SealBlock, Closes
  <2>2. SealsOnly(Closes(k))
    BY <1>0, <1>4, <2>1 DEF SealBlock, SealsOnly
  <2>3. CASE sealed[k.b]
    BY <1>1, <1>3, <1>4, <1>e, <2>2, <2>3 DEF SealBlock
  <2>4. CASE ~sealed[k.b]
    <3>1. Continue(<<Scan(k.b, 0)>>) /\ Rest0 /\ incompletePhis' = incompletePhis
      BY <1>4, <2>4 DEF SealBlock
    <3>2. 0 \in Nat /\ 0 <= Len(incompletePhis')
      BY <1>1, <3>1 DEF L
    <3> QED
      BY <1>1, <1>3, <1>s, <2>1, <2>2, <3>1, <3>2
  <2> QED
    BY <2>3, <2>4
<1>5. CASE ScanStep(k)
  <2> DEFINE at == k.skipped + 1
  <2>1. k.t = "scan" /\ k.b \in InUse /\ k.skipped \in Nat /\ k.skipped <= L
    BY <1>0, <1>2, <1>5, CallFields DEF ScanStep, Standing, L
  <2>2. Rest0 /\ incompletePhis' = incompletePhis /\ SealsOnly(Closes(k))
    BY <1>5, <1>u DEF ScanStep
  <2>3. CASE at > L
    <3>1. Continue(<<>>)
      BY <1>5, <2>3 DEF ScanStep, L
    <3> QED
      BY <1>1, <1>3, <1>e, <2>2, <3>1
  <2>4. CASE at <= L /\ incompletePhis[at].block # k.b
    <3>1. Continue(<<Scan(k.b, at)>>) /\ at \in Nat
      BY <1>1, <1>5, <2>1, <2>4 DEF ScanStep, L
    <3>2. at <= Len(incompletePhis')
      BY <2>2, <2>4 DEF L
    <3> HIDE DEF at
    <3> QED
      BY <1>1, <1>3, <1>s, <2>1, <2>2, <3>1, <3>2
  <2>5. CASE at <= L /\ incompletePhis[at].block = k.b
    <3> DEFINE x == incompletePhis[at].var
               f == Fill(k.b, k.skipped, L)
               ts == ReadPreds(k.b, x) \o <<f>>
    <3>1. at \in 1..L /\ x \in Vars
      <4>1. at \in 1..L
        BY <1>1, <2>1, <2>5
      <4>2. incompletePhis[at] \in Placeholder
        BY <1>1, <4>1 DEF L
      <4> QED
        BY <4>1, <4>2 DEF Placeholder
    <3>2. Continue(ts)
      BY <1>1, <1>5, <2>1, <2>5 DEF ScanStep, L
    <3>3. f \in CallsIn(nblocks) /\ f.t = "fill" /\ f.b = k.b /\ f.skipped = k.skipped /\ f.len = L
      BY <1>0, <1>1, <2>1, <3>1, BuilderCalls DEF Fill
    <3>4. f.skipped < f.len /\ f.len <= L /\ incompletePhis[f.skipped + L - f.len + 1].block = f.b
      BY <1>1, <2>1, <2>5, <3>3
    <3> HIDE DEF f, x
    <3>5. /\ ts \in Seq(CallsIn(nblocks))
          /\ \A i \in DOMAIN ts : ts[i].t = "read" \/ (i = Len(ts) /\ ts[i] = f)
      BY <2>1, <3>1, <3>3, ReadsThen
    <3> HIDE DEF ts
    <3>6. Adds(f) = {} /\ Closes(f) = {} /\ \A q : q.t = "read" => Adds(q) = {} /\ Closes(q) = {}
      BY <3>3 DEF Adds, Closes
    <3>7. Fresh(ts, nblocks)
      BY <3>5, <3>6 DEF Fresh, Ordered
    <3>8. ASSUME NEW i \in DOMAIN ts, NEW j \in 1..(i - 1) PROVE ts[j].t = "read"
      BY <3>5
    <3>9. Standing(ts, incompletePhis)
      BY <3>3, <3>4, <3>5, <3>8 DEF Standing, Reading, L
    <3> QED
      BY <1>1, <1>3, <2>2, <3>2, <3>5, <3>7, <3>9
  <2> QED
    BY <1>1, <2>1, <2>3, <2>4, <2>5
<1>6. CASE FillPhi(k)
  <2> DEFINE pushed == L - k.len
             at == k.skipped + pushed + 1
             before == IF k.skipped = 0 THEN <<>> ELSE SubSeq(incompletePhis, 1, at - 1)
             after == SubSeq(incompletePhis, at + 1, L)
             next == IF k.skipped = 0 THEN 0 ELSE at - 1
  <2>1. /\ k.t = "fill" /\ k.b \in InUse /\ k.skipped \in Nat /\ k.len \in Nat
        /\ k.skipped < k.len /\ k.len <= L
    BY <1>0, <1>2, <1>6, CallFields DEF FillPhi, Standing, L
  <2>2. at \in 1..L /\ next \in Nat /\ next <= at - 1
    BY <1>1, <2>1
  <2>3. Continue(<<Scan(k.b, next)>>) /\ incompletePhis' = before \o after
    BY <1>6 DEF FillPhi, L
  <2>4. Rest0 /\ SealsOnly(Closes(k))
    BY <1>6, <1>u DEF FillPhi
  <2> HIDE DEF pushed
  <2>5. after \in Seq(Placeholder) /\ before \in Seq(Placeholder) /\ Len(before) >= next
    <3>1. SubSeq(incompletePhis, 1, at - 1) \in Seq(Placeholder)
          /\ Len(SubSeq(incompletePhis, 1, at - 1)) = at - 1
      BY <1>1, <2>2 DEF L
    <3>2. after \in Seq(Placeholder)
      BY <1>1, <2>2 DEF L
    <3> HIDE DEF at, after
    <3> QED
      BY <2>1, <2>2, <3>1, <3>2
  <2> HIDE DEF before, after, next
  <2>6. incompletePhis' \in Seq(Placeholder) /\ next <= Len(incompletePhis')
    BY <2>2, <2>3, <2>5
  <2> QED
    BY <1>3, <1>s, <2>1, <2>2, <2>3, <2>4, <2>6
<1>7. CASE \/ ReadLocal(k) \/ ReadSinglePred(k) \/ RememberAnswer(k)
           \/ ReadManyPreds(k) \/ JoinTrivial(k) \/ JoinWithPhi(k) \/ ReadUnsealed(k)
  BY <1>7 DEF ReadLocal, ReadSinglePred, RememberAnswer, ReadManyPreds, JoinTrivial,
              JoinWithPhi, ReadUnsealed, Reading
<1> QED
  BY <1>4, <1>5, <1>6, <1>7 DEF BuilderStep

-------------------------------------------------------------------------------

\* The calls a statement or an operator starts with.

PlainIn(n) == {k \in CallsIn(n) : k.t \in PlainKinds}

LEMMA PlainPushed ==
  ASSUME NEW n \in Nat, NEW ts \in Seq(PlainIn(n)), NEW m, NEW phis
  PROVE  ts \in Seq(CallsIn(n)) /\ Fresh(ts, m) /\ Standing(ts, phis)
<1>1. ts \in Seq(CallsIn(n)) /\ Plain(ts)
  BY DEF PlainIn, Plain
<1> QED
  BY <1>1, PlainCalls

LEMMA PlainDriverCalls ==
  ASSUME NEW n \in Nat
  PROVE  /\ {Body, Expr, Const} \subseteq PlainIn(n)
         /\ \A t \in {"drop", "end"} \cup DOMAIN BlocksAdded : Task(t) \in PlainIn(n)
         /\ \A x \in Vars : {Ident(x), Seen(x), Write(x)} \subseteq PlainIn(n)
         /\ \A op \in Ops, places \in Seq(Nat), pops \in Nat :
              {Op(op, places, pops), Effect(op, places, pops)} \subseteq PlainIn(n)
<1>1. /\ Body.t \in PlainKinds /\ Expr.t \in PlainKinds /\ Const.t \in PlainKinds
      /\ \A t \in {"drop", "end"} \cup DOMAIN BlocksAdded : Task(t).t \in PlainKinds
  BY DEF Body, Expr, Const, Op, Task, PlainKinds
<1>2. /\ \A x : Ident(x).t \in PlainKinds /\ Seen(x).t \in PlainKinds /\ Write(x).t \in PlainKinds
      /\ \A op, places, pops : /\ Op(op, places, pops).t \in PlainKinds
                               /\ Effect(op, places, pops).t \in PlainKinds
  BY DEF Ident, Seen, Write, Op, Effect, PlainKinds
<1> QED
  BY <1>1, <1>2, DriverCalls DEF PlainIn

LEMMA Instructions ==
  ASSUME NEW n \in Nat
  PROVE  LET P == PlainIn(n) IN
         /\ \A op \in {"BINOP", "GEP", "STORE"} : Op(op, <<1, 2>>, 2) \in P
                                                  /\ Effect(op, <<1, 2>>, 2) \in P
         /\ Op("BINOP", <<2, 1>>, 2) \in P /\ Op("GEP", <<2>>, 2) \in P
         /\ \A op \in {"UNOP", "GEP", "LOAD"} : Op(op, <<1>>, 1) \in P
         /\ Op("ARENA_ALLOC", <<>>, 0) \in P
         /\ Effect("RET", <<1>>, 1) \in P /\ Effect("RET", <<>>, 0) \in P
         /\ Effect("ARENA_RESET", <<>>, 0) \in P
         /\ \A m \in Nat : Effect("PRINT", <<m>>, m) \in P
<1>1. /\ <<1>> \in Seq(Nat) /\ <<2>> \in Seq(Nat) /\ <<>> \in Seq(Nat)
      /\ <<1, 2>> \in Seq(Nat) /\ <<2, 1>> \in Seq(Nat) /\ \A m \in Nat : <<m>> \in Seq(Nat)
  OBVIOUS
<1>2. {"BINOP", "GEP", "STORE", "UNOP", "LOAD", "ARENA_ALLOC", "RET", "ARENA_RESET", "PRINT"}
        \subseteq Ops
  BY DEF Ops, Terminators
<1>3. \A op \in Ops, places \in Seq(Nat), pops \in Nat :
        Op(op, places, pops) \in PlainIn(n) /\ Effect(op, places, pops) \in PlainIn(n)
  BY PlainDriverCalls
<1> QED
  BY <1>1, <1>2, <1>3

\* The calls of an expression's operator.
LEMMA AddressCalls ==
  ASSUME NEW n \in Nat
  PROVE  LET P == PlainIn(n) IN
         /\ ElementAddress \in Seq(P) /\ FieldAddress \in Seq(P) /\ Load \in Seq(P)
         /\ \A x \in Vars : Addresses(x) \subseteq Seq(P)
<1> DEFINE P == PlainIn(n)
<1>1. ElementAddress \in Seq(P) /\ FieldAddress \in Seq(P) /\ Load \in Seq(P)
  <2>1. /\ Const \in P /\ Op("BINOP", <<2, 1>>, 2) \in P /\ Op("GEP", <<2>>, 2) \in P
        /\ Op("GEP", <<1>>, 1) \in P /\ Op("LOAD", <<1>>, 1) \in P
    BY PlainDriverCalls, Instructions
  <2> HIDE DEF P
  <2> QED
    BY <2>1 DEF ElementAddress, FieldAddress, Load
<1>2. ASSUME NEW x \in Vars PROVE Addresses(x) \subseteq Seq(P)
  <2>1. Ident(x) \in P
    BY PlainDriverCalls
  <2> HIDE DEF P
  <2>2. <<Ident(x)>> \in Seq(P) /\ <<Ident(x), Ident(x)>> \in Seq(P)
    BY <2>1
  <2>3. <<Ident(x)>> \o FieldAddress \in Seq(P) /\ <<Ident(x), Ident(x)>> \o ElementAddress \in Seq(P)
    BY <1>1, <2>2
  <2> QED
    BY <2>2, <2>3 DEF Addresses
<1> QED
  BY <1>1, <1>2

LEMMA StoreCalls ==
  ASSUME NEW n \in Nat, NEW x \in Vars
  PROVE  Stores(x) \subseteq Seq(PlainIn(n))
<1> DEFINE P == PlainIn(n)
<1>1. /\ Load \in Seq(P) /\ Addresses(x) \subseteq Seq(P)
      /\ Expr \in P /\ Op("BINOP", <<1, 2>>, 2) \in P /\ Effect("STORE", <<1, 2>>, 2) \in P
  BY AddressCalls, PlainDriverCalls, Instructions
<1> HIDE DEF P
<1> DEFINE e == <<Expr>>  o == <<Op("BINOP", <<1, 2>>, 2)>>  s == <<Effect("STORE", <<1, 2>>, 2)>>
<1>2. e \in Seq(P) /\ o \in Seq(P) /\ s \in Seq(P)
  BY <1>1
<1> HIDE DEF e, o, s
<1>3. ASSUME NEW a \in Seq(P) PROVE e \o a \o s \in Seq(P) /\ e \o a \o Load \o o \o a \o s \in Seq(P)
  <2>1. e \o a \in Seq(P)
    BY <1>2
  <2>2. e \o a \o Load \in Seq(P)
    BY <1>1, <2>1
  <2>3. e \o a \o Load \o o \in Seq(P)
    BY <1>2, <2>2
  <2>4. e \o a \o Load \o o \o a \in Seq(P)
    BY <2>3
  <2> QED
    BY <1>2, <2>1, <2>4
<1> QED
  BY <1>1, <1>3 DEF Stores, e, o, s, P

LEMMA StatementCalls ==
  ASSUME NEW n \in Nat, NEW kind \in Stmts, NEW ts \in Starts(kind)
  PROVE  ts \in Seq(PlainIn(n))
<1> DEFINE P == PlainIn(n)
<1>0. /\ Expr \in P /\ \A t \in {"drop", "end"} \cup DOMAIN BlocksAdded : Task(t) \in P
      /\ \A x \in Vars : Ident(x) \in P /\ Write(x) \in P
  BY PlainDriverCalls
<1>1. /\ Op("BINOP", <<1, 2>>, 2) \in P /\ Effect("RET", <<1>>, 1) \in P
      /\ Effect("RET", <<>>, 0) \in P /\ Effect("ARENA_RESET", <<>>, 0) \in P
      /\ \A m \in Nat : Effect("PRINT", <<m>>, m) \in P
  BY Instructions
<1> HIDE DEF P
<1>2. CASE kind = "assign"
  <2>1. PICK x \in Vars : ts = <<Expr, Write(x)>>
    BY <1>2 DEF Starts, Assignment
  <2> QED
    BY <1>0, <2>1 DEF P
<1>3. CASE kind = "compound"
  <2>1. PICK x \in Vars : ts = <<Expr, Ident(x), Op("BINOP", <<1, 2>>, 2), Write(x)>>
    BY <1>3 DEF Starts, CompoundAssignment
  <2>2. ts \in Seq(P)
    BY <1>0, <1>1, <2>1
  <2> QED
    BY <2>2 DEF P
<1>4. CASE kind = "store"
  <2>1. PICK x \in Vars : ts \in Stores(x)
    BY <1>4 DEF Starts
  <2> QED
    BY <2>1, StoreCalls
<1>5. CASE kind = "print"
  <2>1. PICK m \in 0..MaxArgs : ts = PrintCall(m)
    BY <1>5 DEF Starts
  <2>2. m \in Nat
    BY DriverAssumption
  <2>3. [i \in 1..m |-> Expr] \in Seq(P)
    BY <1>0, <2>2
  <2>4. <<Effect("PRINT", <<m>>, m)>> \in Seq(P) /\ <<>> \in Seq(P)
    BY <1>1, <2>2
  <2> QED
    BY <2>1, <2>3, <2>4 DEF PrintCall, P
<1>6. CASE kind \in {"expr", "if", "ifelse", "while"}
  <2>1. ts \in {<<Expr, Task("drop")>>, <<Expr, Task("if")>>, <<Expr, Task("ifelse")>>, <<Task("while")>>}
    BY <1>6 DEF Starts
  <2>2. Task("drop") \in P /\ Task("if") \in P /\ Task("ifelse") \in P /\ Task("while") \in P
    BY <1>0 DEF BlocksAdded
  <2>3. \A t \in {"drop", "if", "ifelse"} : <<Expr, Task(t)>> \in Seq(P)
    BY <1>0, <2>2
  <2>4. <<Task("while")>> \in Seq(P)
    BY <2>2
  <2> QED
    BY <2>1, <2>3, <2>4 DEF P
<1>7. CASE kind \in {"return", "reset"}
  <2>1. ts \in {<<Expr, Effect("RET", <<1>>, 1)>>, <<Effect("RET", <<>>, 0)>>,
                <<Effect("ARENA_RESET", <<>>, 0)>>}
    BY <1>7 DEF Starts
  <2>2. <<Expr, Effect("RET", <<1>>, 1)>> \in Seq(P)
    BY <1>0, <1>1
  <2>3. <<Effect("RET", <<>>, 0)>> \in Seq(P)
    BY <1>1
  <2>4. <<Effect("ARENA_RESET", <<>>, 0)>> \in Seq(P)
    BY <1>1
  <2> QED
    BY <2>1, <2>2, <2>3, <2>4 DEF P
<1>8. CASE kind = "for"
  <2>1. Task("for") \in P
    BY <1>0 DEF BlocksAdded
  <2>2. <<Task("for")>> \in Seq(P) /\ \A x \in Vars : Assignment(x) \in Seq(P)
    BY <1>0, <2>1 DEF Assignment
  <2>3. \A x \in Vars : Assignment(x) \o <<Task("for")>> \in Seq(P)
    BY <2>2
  <2> QED
    BY <1>8, <2>2, <2>3 DEF Starts, P
<1> QED
  BY <1>2, <1>3, <1>4, <1>5, <1>6, <1>7, <1>8, DriverAssumption DEF P

-------------------------------------------------------------------------------

\* The steps of the driver that push plain calls, or none.
LEMMA LowerKeeps ==
  ASSUME IInv, todo # <<>>, Head(todo).t \notin Reading,
         UNCHANGED <<nblocks, sealed, incompletePhis>>, nextVreg' \in Int,
         curBlock' \in InUse, preds' \in [Blocks -> Seq(InUse)],
         NEW ts \in Seq(PlainIn(nblocks)), Continue(ts)
  PROVE  IInv'
<1>1. nblocks \in Nat /\ nblocks' \in nblocks..BlocksCap /\ InUse' = InUse
  BY BuilderAssumption DEF IInv, TypeInv, InUse
<1>2. ts \in Seq(CallsIn(nblocks')) /\ Fresh(ts, nblocks) /\ Standing(ts, incompletePhis')
  BY <1>1, PlainPushed
<1>3. SealsOnly(Closes(Head(todo))) /\ incompletePhis' \in Seq(Placeholder)
  BY DEF IInv, TypeInv, SealsOnly
<1> QED
  BY <1>1, <1>2, <1>3, DriverKeeps

\* Those that leave the blocks alone altogether.
LEMMA ComputeKeeps ==
  ASSUME IInv, todo # <<>>, Head(todo).t \notin Reading,
         UNCHANGED <<nblocks, sealed, incompletePhis, curBlock, preds>>, nextVreg' \in Int,
         NEW ts \in Seq(PlainIn(nblocks)), Continue(ts)
  PROVE  IInv'
<1>1. curBlock' \in InUse /\ preds' \in [Blocks -> Seq(InUse)]
  BY DEF IInv, TypeInv
<1>2. UNCHANGED <<nblocks, sealed, incompletePhis>> /\ Continue(ts)
  OBVIOUS
<1> QED
  BY <1>1, <1>2, LowerKeeps

LEMMA ValuesKeep ==
  ASSUME IInv, todo # <<>>,
         LET k == Head(todo) IN
         \/ LowerConst(k) \/ LowerOp(k) \/ LowerIdent(k) \/ RecordRead(k) \/ WriteVar(k)
         \/ LowerEffect(k) \/ DropValue(k) \/ EmitJump(k) \/ EmitBranch(k)
         \/ CloseBlock(k) \/ EndFunction(k)
  PROVE  IInv'
<1> DEFINE k == Head(todo)
           Rest0 == UNCHANGED <<nblocks, sealed, incompletePhis, curBlock, preds>>
<1>0. nextVreg \in Int /\ curBlock \in InUse /\ nblocks \in Nat /\ InUse = 0..(nblocks - 1)
  BY TopCall DEF IInv, TypeInv
<1>1. <<>> \in Seq(PlainIn(nblocks))
  OBVIOUS
<1> SUFFICES ASSUME \/ LowerConst(k) \/ LowerOp(k) \/ LowerIdent(k) \/ RecordRead(k) \/ WriteVar(k)
                    \/ LowerEffect(k) \/ DropValue(k) \/ EmitJump(k) \/ EmitBranch(k)
                    \/ CloseBlock(k) \/ EndFunction(k)
             PROVE  IInv'
  OBVIOUS
<1> HIDE DEF k
<1>2. ASSUME k.t \notin Reading, Rest0, nextVreg' \in Int, Continue(<<>>) PROVE IInv'
  BY <1>1, <1>2, ComputeKeeps DEF k
<1>3. CASE LowerConst(k) \/ LowerOp(k)
  <2>1. k.t \in {"expr", "op"}
    BY <1>3 DEF LowerConst, LowerOp, Expr, Task
  <2>2. Rest0 /\ nextVreg' = nextVreg + 1 /\ Continue(<<>>)
    BY <1>3 DEF LowerConst, LowerOp, EmitValue
  <2> QED
    BY <1>0, <1>2, <2>1, <2>2 DEF Reading
<1>4. CASE LowerIdent(k)
  <2>1. PICK x \in Vars : (k = Expr \/ k = Ident(x)) /\ Continue(<<Read(curBlock, x), Seen(x)>>)
    BY <1>4 DEF LowerIdent
  <2> DEFINE ts == <<Read(curBlock, x), Seen(x)>>
  <2>2. Read(curBlock, x) \in PlainIn(nblocks) /\ Seen(x) \in PlainIn(nblocks)
    <3>1. Read(curBlock, x) \in CallsIn(nblocks) /\ Read(curBlock, x).t \in PlainKinds
      BY <1>0, BuilderCalls DEF Read, PlainKinds, Reading
    <3> QED
      BY <1>0, <3>1, PlainDriverCalls DEF PlainIn
  <2>3. ts \in Seq(PlainIn(nblocks))
    BY <2>2
  <2>4. k.t \notin Reading /\ Rest0 /\ nextVreg' \in Int
    BY <1>0, <1>4, <2>1 DEF LowerIdent, cfgVars, ssaVars, Expr, Ident, Task, Reading
  <2> HIDE DEF ts
  <2> QED
    BY <2>1, <2>3, <2>4, ComputeKeeps DEF ts, k
<1>5. CASE RecordRead(k) \/ WriteVar(k) \/ LowerEffect(k) \/ DropValue(k)
  BY <1>0, <1>2, <1>5 DEF RecordRead, WriteVar, LowerEffect, DropValue, cfgVars, ssaVars, Reading
<1>6. CASE EmitJump(k) \/ EmitBranch(k) \/ CloseBlock(k) \/ EndFunction(k)
  BY <1>0, <1>2, <1>6 DEF EmitJump, EmitBranch, CloseBlock, EndFunction, cfgVars, ssaVars,
                          Body, Task, Reading
<1> QED
  BY <1>3, <1>4, <1>5, <1>6

LEMMA OperatorKeeps ==
  ASSUME IInv, todo # <<>>, LowerOperator(Head(todo))
  PROVE  IInv'
<1> DEFINE k == Head(todo)
           P == PlainIn(nblocks)
<1>0. nextVreg \in Int /\ nblocks \in Nat
  BY TopCall DEF IInv, TypeInv
<1>1. /\ k.t \notin Reading
      /\ UNCHANGED <<nblocks, sealed, incompletePhis, curBlock, preds, nextVreg>>
  BY DEF LowerOperator, cfgVars, ssaVars, Expr, Task, Reading
<1>2. SUFFICES \E ts \in Seq(P) : Continue(ts)
  <2> HIDE DEF k
  <2>1. nextVreg' \in Int
    BY <1>0, <1>1
  <2> QED
    BY <1>1, <2>1, ComputeKeeps DEF k, P
<1>3. /\ Expr \in P /\ \A t \in DOMAIN BlocksAdded : Task(t) \in P
      /\ \A op \in Ops, places \in Seq(Nat), pops \in Nat : Op(op, places, pops) \in P
  BY <1>0, PlainDriverCalls
<1>4. /\ Op("BINOP", <<2, 1>>, 2) \in P /\ Op("UNOP", <<1>>, 1) \in P
      /\ Op("ARENA_ALLOC", <<>>, 0) \in P
  BY <1>0, Instructions
<1>5. ElementAddress \in Seq(P) /\ FieldAddress \in Seq(P) /\ Load \in Seq(P)
  BY <1>0, AddressCalls
<1> HIDE DEF P
<1>6. /\ <<Expr, Expr, Op("BINOP", <<2, 1>>, 2)>> \in Seq(P)
      /\ <<Expr, Op("UNOP", <<1>>, 1)>> \in Seq(P)
      /\ <<Op("ARENA_ALLOC", <<>>, 0)>> \in Seq(P)
      /\ <<Expr>> \in Seq(P) /\ <<Expr, Expr>> \in Seq(P)
  BY <1>3, <1>4
<1>7. <<Expr, Task("and")>> \in Seq(P) /\ <<Expr, Task("or")>> \in Seq(P)
  BY <1>3 DEF BlocksAdded
<1>8. /\ <<Expr>> \o Load \in Seq(P) /\ <<Expr>> \o FieldAddress \o Load \in Seq(P)
      /\ <<Expr, Expr>> \o ElementAddress \o Load \in Seq(P)
  <2>1. <<Expr>> \o FieldAddress \in Seq(P) /\ <<Expr, Expr>> \o ElementAddress \in Seq(P)
    BY <1>5, <1>6
  <2> QED
    BY <1>5, <1>6, <2>1
<1>9. ASSUME NEW n \in 0..MaxArgs
      PROVE  [i \in 1..n |-> Expr] \o <<Op("CALL", [i \in 1..n |-> n + 1 - i], n)>> \in Seq(P)
  <2>1. n \in Nat
    BY DriverAssumption
  <2>2. [i \in 1..n |-> n + 1 - i] \in Seq(Nat) /\ "CALL" \in Ops
    BY <2>1 DEF Ops
  <2> DEFINE places == [i \in 1..n |-> n + 1 - i]
  <2>3. <<Op("CALL", places, n)>> \in Seq(P)
    <3>1. places \in Seq(Nat)
      BY <2>2
    <3> HIDE DEF places
    <3>2. Op("CALL", places, n) \in P
      BY <1>3, <2>1, <2>2, <3>1
    <3> QED
      BY <3>2
  <2>4. [i \in 1..n |-> Expr] \in Seq(P)
    BY <1>3, <2>1
  <2> QED
    BY <2>3, <2>4
<1> QED
  BY <1>6, <1>7, <1>8, <1>9 DEF LowerOperator

LEMMA StatementKeeps ==
  ASSUME IInv, todo # <<>>, ChooseStmt(Head(todo))
  PROVE  IInv'
<1>1. Head(todo) = Body /\ UNCHANGED <<nblocks, sealed, incompletePhis, curBlock, preds, nextVreg>>
  BY DEF ChooseStmt, cfgVars, ssaVars
<1>2. PICK kind \in Stmts : \E ts \in Starts(kind) : todo' = ts \o todo
  BY DEF ChooseStmt
<1>3. PICK ts \in Starts(kind) : todo' = ts \o todo
  BY <1>2
<1>4. nblocks \in Nat /\ nextVreg' \in Int /\ Head(todo).t \notin Reading /\ todo \in Seq(CallsIn(nblocks))
  BY <1>1, TopCall DEF IInv, TypeInv, Body, Task, Reading
<1>5. ts \in Seq(PlainIn(nblocks)) /\ <<Body>> \in Seq(PlainIn(nblocks))
  BY <1>4, StatementCalls, PlainDriverCalls
<1>6. ts \o <<Body>> \in Seq(PlainIn(nblocks))
  BY <1>5
<1>7. Continue(ts \o <<Body>>)
  <2>1. todo = <<Body>> \o Tail(todo)
    BY <1>1, <1>4
  <2>2. Tail(todo) \in Seq(CallsIn(nblocks)) /\ ts \in Seq(CallsIn(nblocks)) /\ <<Body>> \in Seq(CallsIn(nblocks))
    <3>1. Tail(todo) \in Seq(CallsIn(nblocks))
      BY <1>4
    <3> QED
      BY <1>4, <1>5, <3>1, PlainPushed
  <2>3. ts \o (<<Body>> \o Tail(todo)) = (ts \o <<Body>>) \o Tail(todo)
    BY <2>2
  <2> QED
    BY <1>3, <2>1, <2>3 DEF Continue
<1> QED
  BY <1>1, <1>4, <1>6, <1>7, ComputeKeeps

-------------------------------------------------------------------------------

\* The steps that begin or end a block.

LEMMA EdgesKeep ==
  ASSUME IInv, todo # <<>>, EnterBlock(Head(todo)) \/ AddBackEdge(Head(todo))
  PROVE  IInv'
<1> DEFINE k == Head(todo)
<1>0. /\ k \in CallsIn(nblocks) /\ nblocks \in Nat /\ InUse = 0..(nblocks - 1)
      /\ nextVreg \in Int /\ curBlock \in InUse /\ preds \in [Blocks -> Seq(InUse)]
      /\ InUse \subseteq Blocks
  BY TopCall DEF IInv, TypeInv
<1>1. k.t \notin Reading /\ UNCHANGED <<nblocks, sealed, incompletePhis, nextVreg>> /\ Continue(<<>>)
  BY DEF EnterBlock, AddBackEdge, ssaVars, Reading
<1> SUFFICES curBlock' \in InUse /\ preds' \in [Blocks -> Seq(InUse)]
  <2>1. <<>> \in Seq(PlainIn(nblocks)) /\ nextVreg' \in Int
    BY <1>0, <1>1
  <2> QED
    BY <1>1, <2>1, LowerKeeps
<1> SUFFICES ASSUME EnterBlock(k) \/ AddBackEdge(k)
             PROVE  curBlock' \in InUse /\ preds' \in [Blocks -> Seq(InUse)]
  OBVIOUS
<1> HIDE DEF k
<1>2. CASE EnterBlock(k)
  <2>1. k.b \in InUse /\ k.preds \in Seq(InUse) /\ k.b \in Blocks
    BY <1>0, <1>2, CallFields DEF EnterBlock
  <2>2. preds[k.b] \o k.preds \in Seq(InUse)
    BY <1>0, <2>1
  <2> QED
    BY <1>0, <1>2, <2>1, <2>2 DEF EnterBlock
<1>3. CASE AddBackEdge(k)
  <2>1. k.b \in InUse /\ k.pred \in InUse /\ k.b \in Blocks
    BY <1>0, <1>3, CallFields DEF AddBackEdge
  <2>2. Append(preds[k.b], k.pred) \in Seq(InUse)
    BY <1>0, <2>1
  <2> QED
    BY <1>0, <1>3, <2>1, <2>2 DEF AddBackEdge
<1> QED
  BY <1>2, <1>3

LEMMA EndsKeep ==
  ASSUME IInv, todo # <<>>,
         MergeBlock(Head(todo)) \/ LogicJoin(Head(todo)) \/ EndArm(Head(todo))
  PROVE  IInv'
<1> DEFINE k == Head(todo)
           b == IF k.t = "armEnd" THEN k.arm ELSE k.b
<1>0. /\ k \in CallsIn(nblocks) /\ nblocks \in Nat /\ InUse = 0..(nblocks - 1)
      /\ nextVreg \in Int /\ curBlock \in InUse /\ preds \in [Blocks -> Seq(InUse)]
      /\ InUse \subseteq Blocks
  BY TopCall DEF IInv, TypeInv
<1>1. /\ k.t \in {"merge", "logicJoin", "armEnd"}
      /\ UNCHANGED <<nblocks, sealed, incompletePhis, nextVreg>> /\ Continue(<<Seal(b)>>)
  BY DEF MergeBlock, LogicJoin, EndArm, ssaVars
<1>2. b \in InUse /\ b \in Closes(k)
  BY <1>0, <1>1, CallFields DEF Closes
<1>3. curBlock' \in InUse /\ preds' \in [Blocks -> Seq(InUse)]
  <2>1. CASE k.t = "armEnd"
    BY <1>0, <2>1 DEF MergeBlock, LogicJoin, EndArm
  <2>2. CASE k.t # "armEnd"
    <3>1. /\ k.b \in InUse /\ k.preds \in Seq(InUse) /\ k.b \in Blocks
          /\ curBlock' = k.b /\ preds' = [preds EXCEPT ![k.b] = @ \o k.preds]
      BY <1>0, <1>1, <2>2, CallFields DEF MergeBlock, LogicJoin, EndArm
    <3> HIDE DEF k
    <3>2. preds[k.b] \o k.preds \in Seq(InUse)
      BY <1>0, <3>1
    <3> QED
      BY <1>0, <3>1, <3>2
  <2> QED
    BY <2>1, <2>2
<1> HIDE DEF b
<1>4. /\ <<Seal(b)>> \in Seq(CallsIn(nblocks)) /\ Fresh(<<Seal(b)>>, nblocks)
      /\ Standing(<<Seal(b)>>, incompletePhis')
  <2>1. Seal(b) \in CallsIn(nblocks) /\ Seal(b).t = "seal" /\ Seal(b).b = b
    BY <1>0, <1>2, BuilderCalls DEF Seal
  <2>2. Adds(Seal(b)) = {} /\ Closes(Seal(b)) = {b}
    BY <2>1 DEF Adds, Closes
  <2> HIDE DEF k
  <2> QED
    BY <1>2, <2>1, <2>2 DEF Fresh, Ordered, Standing, k
<1>5. nblocks' \in nblocks..BlocksCap /\ InUse' = InUse /\ SealsOnly(Closes(k))
      /\ incompletePhis' \in Seq(Placeholder) /\ nextVreg' \in Int
  BY <1>0, <1>1, BuilderAssumption DEF IInv, TypeInv, InUse, SealsOnly
<1>6. k.t \notin Reading
  BY <1>1 DEF Reading
<1> QED
  BY <1>1, <1>3, <1>4, <1>5, <1>6, DriverKeeps

\* What each of the calls adds and closes.
LEMMA BlockCallEffects ==
  /\ \A b, p : LET k == Enter(b, p) IN k.t = "enter" /\ Adds(k) = {b} /\ Closes(k) = {}
  /\ \A b, p : LET k == BackEdge(b, p) IN k.t = "backEdge" /\ Adds(k) = {b} /\ Closes(k) = {}
  /\ \A b, ps : LET k == Merge(b, ps) IN k.t = "merge" /\ Adds(k) = {b} /\ Closes(k) = {b}
  /\ \A b, phi, ps : LET k == JoinOf(b, phi, ps) IN
       k.t = "logicJoin" /\ Adds(k) = {b} /\ Closes(k) = {b}
  /\ \A b : LET k == Seal(b) IN k.t = "seal" /\ Adds(k) = {} /\ Closes(k) = {b}
  /\ \A a, b : LET k == ArmEnd(a, b) IN k.t = "armEnd" /\ Adds(k) = {} /\ Closes(k) = {a}
  /\ \A b : LET k == Jump(b) IN k.t = "jump" /\ Adds(k) = {} /\ Closes(k) = {}
  /\ \A a, b : LET k == Branch(a, b) IN k.t = "branch" /\ Adds(k) = {} /\ Closes(k) = {}
  /\ \A k \in {Body, Expr, Const, Task("drop")} :
       k.t \in {"stmts", "expr", "op", "drop"} /\ Adds(k) = {} /\ Closes(k) = {}
<1>1. Body.t = "stmts" /\ Expr.t = "expr" /\ Const.t = "op" /\ Task("drop").t = "drop"
  BY DEF Body, Expr, Const, Task, Op
<1> QED
  BY <1>1 DEF Adds, Closes, Enter, BackEdge, Merge, JoinOf, Seal, ArmEnd, Jump, Branch

\* What the code of a statement with blocks of its own amounts to: the new blocks
\* are n to m - 1, and nothing is added to any of them once it is closed.
InOrder(ts, n, m) ==
  /\ ts \in Seq(CallsIn(m)) /\ Ordered(ts)
  /\ \A i \in DOMAIN ts : \A b \in Adds(ts[i]) \cup Closes(ts[i]) : b >= n
  /\ \A i \in DOMAIN ts : ts[i].t \notin {"scan", "fill"}

LEMMA IfInOrder ==
  ASSUME NEW n \in Nat, NEW m \in Nat, NEW c \in 0..(m - 1),
         NEW then \in n..(m - 1), NEW merge \in n..(m - 1), then # merge
  PROVE  InOrder(<<Branch(then, merge), Enter(then, c), Body, Jump(merge),
                   Seal(then), Merge(merge, <<c, then>>)>>, n, m)
<1> DEFINE ts == <<Branch(then, merge), Enter(then, c), Body, Jump(merge),
                   Seal(then), Merge(merge, <<c, then>>)>>
<1>1. then \in 0..(m - 1) /\ merge \in 0..(m - 1) /\ then >= n /\ merge >= n
  OBVIOUS
<1>2. ts \in Seq(CallsIn(m))
  <2>1. /\ Branch(then, merge) \in CallsIn(m) /\ Enter(then, c) \in CallsIn(m)
        /\ Body \in CallsIn(m) /\ Jump(merge) \in CallsIn(m)
        /\ Seal(then) \in CallsIn(m) /\ Merge(merge, <<c, then>>) \in CallsIn(m)
    BY <1>1, BlockCalls, DriverCalls
  <2> QED
    BY <2>1
<1>3. \A i \in DOMAIN ts : /\ ts[i].t \notin {"scan", "fill"}
                           /\ \A b \in Adds(ts[i]) \cup Closes(ts[i]) : b >= n
  BY <1>1, BlockCallEffects
<1>4. Ordered(ts)
  BY BlockCallEffects DEF Ordered
<1> QED
  BY <1>2, <1>3, <1>4 DEF InOrder

LEMMA WhileInOrder ==
  ASSUME NEW n \in Nat, NEW m \in Nat, NEW c \in 0..(m - 1),
         NEW header \in n..(m - 1), NEW body \in n..(m - 1), NEW exit \in n..(m - 1),
         header # body, header # exit, body # exit
  PROVE  InOrder(<<Jump(header), Enter(header, c), Expr, Branch(body, exit),
                   Enter(body, header), Body, Jump(header), BackEdge(header, body),
                   Seal(header), Seal(body), Merge(exit, <<header>>)>>, n, m)
<1> DEFINE ts == <<Jump(header), Enter(header, c), Expr, Branch(body, exit),
                   Enter(body, header), Body, Jump(header), BackEdge(header, body),
                   Seal(header), Seal(body), Merge(exit, <<header>>)>>
<1>1. /\ header \in 0..(m - 1) /\ body \in 0..(m - 1) /\ exit \in 0..(m - 1)
      /\ header >= n /\ body >= n /\ exit >= n
  OBVIOUS
<1>2. ts \in Seq(CallsIn(m))
  <2>1. /\ Jump(header) \in CallsIn(m) /\ Enter(header, c) \in CallsIn(m)
        /\ Expr \in CallsIn(m) /\ Branch(body, exit) \in CallsIn(m)
        /\ Enter(body, header) \in CallsIn(m) /\ Body \in CallsIn(m)
        /\ BackEdge(header, body) \in CallsIn(m) /\ Seal(header) \in CallsIn(m)
        /\ Seal(body) \in CallsIn(m) /\ Merge(exit, <<header>>) \in CallsIn(m)
    BY <1>1, BlockCalls, DriverCalls
  <2> QED
    BY <2>1
<1>3. \A i \in DOMAIN ts : /\ ts[i].t \notin {"scan", "fill"}
                           /\ \A b \in Adds(ts[i]) \cup Closes(ts[i]) : b >= n
  BY <1>1, BlockCallEffects
<1>4. Ordered(ts)
  BY BlockCallEffects DEF Ordered
<1> QED
  BY <1>2, <1>3, <1>4 DEF InOrder

LEMMA IfElseInOrder ==
  ASSUME NEW n \in Nat, NEW m \in Nat, NEW c \in 0..(m - 1),
         NEW then \in n..(m - 1), NEW else \in n..(m - 1), NEW merge \in n..(m - 1),
         then # else, then # merge, else # merge
  PROVE  InOrder(<<Branch(then, else),
                   Enter(then, c), Body, ArmEnd(then, merge),
                   Enter(else, c), Body, ArmEnd(else, merge),
                   Merge(merge, <<then, else>>)>>, n, m)
<1> DEFINE ts == <<Branch(then, else),
                   Enter(then, c), Body, ArmEnd(then, merge),
                   Enter(else, c), Body, ArmEnd(else, merge),
                   Merge(merge, <<then, else>>)>>
<1>1. /\ then \in 0..(m - 1) /\ else \in 0..(m - 1) /\ merge \in 0..(m - 1)
      /\ then >= n /\ else >= n /\ merge >= n
  OBVIOUS
<1>2. ts \in Seq(CallsIn(m))
  <2>1. /\ Branch(then, else) \in CallsIn(m) /\ Body \in CallsIn(m)
        /\ Enter(then, c) \in CallsIn(m) /\ ArmEnd(then, merge) \in CallsIn(m)
        /\ Enter(else, c) \in CallsIn(m) /\ ArmEnd(else, merge) \in CallsIn(m)
        /\ Merge(merge, <<then, else>>) \in CallsIn(m)
    BY <1>1, BlockCalls, DriverCalls
  <2> QED
    BY <2>1
<1>3. \A i \in DOMAIN ts : /\ ts[i].t \notin {"scan", "fill"}
                           /\ \A b \in Adds(ts[i]) \cup Closes(ts[i]) : b >= n
  BY <1>1, BlockCallEffects
<1>4. Ordered(ts)
  BY BlockCallEffects DEF Ordered
<1> QED
  BY <1>2, <1>3, <1>4 DEF InOrder

\* The two sides of && and ||: what is on each, and which comes first, varies.
LEMMA LogicInOrder ==
  ASSUME NEW n \in Nat, NEW m \in Nat, NEW c \in 0..(m - 1),
         NEW first \in n..(m - 1), NEW second \in n..(m - 1), NEW merge \in n..(m - 1),
         first # second, first # merge, second # merge,
         NEW e \in {Expr, Const}, NEW f \in {Expr, Const}, NEW phi \in Int
  PROVE  InOrder(<<Enter(first, c), e, Jump(merge), Seal(first),
                   Enter(second, c), f, Jump(merge), Seal(second),
                   JoinOf(merge, phi, <<first, second>>)>>, n, m)
<1> DEFINE ts == <<Enter(first, c), e, Jump(merge), Seal(first),
                   Enter(second, c), f, Jump(merge), Seal(second),
                   JoinOf(merge, phi, <<first, second>>)>>
<1>1. /\ first \in 0..(m - 1) /\ second \in 0..(m - 1) /\ merge \in 0..(m - 1)
      /\ first >= n /\ second >= n /\ merge >= n
  OBVIOUS
<1>2. ts \in Seq(CallsIn(m))
  <2>1. /\ Enter(first, c) \in CallsIn(m) /\ e \in CallsIn(m) /\ Jump(merge) \in CallsIn(m)
        /\ Seal(first) \in CallsIn(m) /\ Enter(second, c) \in CallsIn(m) /\ f \in CallsIn(m)
        /\ Seal(second) \in CallsIn(m) /\ JoinOf(merge, phi, <<first, second>>) \in CallsIn(m)
    BY <1>1, BlockCalls, DriverCalls
  <2> QED
    BY <2>1
<1>e. /\ e.t \notin {"scan", "fill"} /\ Adds(e) = {} /\ Closes(e) = {}
      /\ f.t \notin {"scan", "fill"} /\ Adds(f) = {} /\ Closes(f) = {}
  BY BlockCallEffects
<1>3. \A i \in DOMAIN ts : /\ ts[i].t \notin {"scan", "fill"}
                           /\ \A b \in Adds(ts[i]) \cup Closes(ts[i]) : b >= n
  BY <1>1, <1>e, BlockCallEffects
<1>4. Ordered(ts)
  BY <1>e, BlockCallEffects DEF Ordered
<1> QED
  BY <1>2, <1>3, <1>4 DEF InOrder

LEMMA InOrderConcat ==
  ASSUME NEW n, NEW m, NEW s, InOrder(s, n, m), NEW r, InOrder(r, n, m),
         \A i \in DOMAIN s, j \in DOMAIN r : Closes(s[i]) \cap Adds(r[j]) = {}
  PROVE  InOrder(s \o r, n, m)
<1> DEFINE ts == s \o r
<1>1. /\ s \in Seq(CallsIn(m)) /\ r \in Seq(CallsIn(m)) /\ Len(s) \in Nat /\ Len(r) \in Nat
      /\ DOMAIN s = 1..Len(s) /\ DOMAIN r = 1..Len(r)
  BY DEF InOrder
<1>2. /\ ts \in Seq(CallsIn(m)) /\ DOMAIN ts = 1..(Len(s) + Len(r))
      /\ \A i \in 1..Len(s) : ts[i] = s[i]
      /\ \A i \in 1..Len(r) : ts[Len(s) + i] = r[i]
  BY <1>1
<1> HIDE DEF ts
<1>3. \A i \in DOMAIN ts : \/ i \in DOMAIN s /\ ts[i] = s[i]
                           \/ \E j \in DOMAIN r : i = Len(s) + j /\ ts[i] = r[j]
  <2> SUFFICES ASSUME NEW i \in DOMAIN ts, i \notin DOMAIN s
               PROVE  \E j \in DOMAIN r : i = Len(s) + j /\ ts[i] = r[j]
    BY <1>1, <1>2
  <2>1. i - Len(s) \in 1..Len(r)
    BY <1>1, <1>2
  <2>2. PICK k \in 1..Len(r) : k = i - Len(s)
    BY <2>1
  <2>3. i = Len(s) + k
    BY <1>1, <1>2, <2>2
  <2> QED
    BY <1>1, <1>2, <2>2, <2>3
<1>4. Ordered(ts)
  <2> SUFFICES ASSUME NEW i \in DOMAIN ts, NEW j \in DOMAIN ts, i < j
               PROVE  Closes(ts[i]) \cap Adds(ts[j]) = {}
    BY DEF Ordered
  <2>1. CASE i \in DOMAIN s /\ j \in DOMAIN s
    BY <1>1, <1>2, <2>1 DEF InOrder, Ordered
  <2>2. CASE i \in DOMAIN s /\ j \notin DOMAIN s
    BY <1>1, <1>2, <1>3, <2>2
  <2>3. CASE i \notin DOMAIN s
    <3>1. PICK k \in DOMAIN r : i = Len(s) + k /\ ts[i] = r[k]
      BY <1>3, <2>3
    <3>2. j \notin DOMAIN s
      BY <1>1, <1>2, <2>3
    <3>3. PICK l \in DOMAIN r : j = Len(s) + l /\ ts[j] = r[l]
      BY <1>3, <3>2
    <3>4. k < l
      BY <1>1, <3>1, <3>3
    <3> QED
      BY <3>1, <3>3, <3>4 DEF InOrder, Ordered
  <2> QED
    BY <2>1, <2>2, <2>3
<1> QED
  BY <1>2, <1>3, <1>4 DEF InOrder, ts

LEMMA ForInOrder ==
  ASSUME NEW n \in Nat, NEW m \in Nat, NEW c \in 0..(m - 1),
         NEW header \in n..(m - 1), NEW body \in n..(m - 1),
         NEW update \in n..(m - 1), NEW exit \in n..(m - 1),
         header # body, header # update, header # exit, body # update, body # exit,
         update # exit, NEW cond \in {Expr, Const}, NEW upd \in {<<>>, <<Expr, Task("drop")>>}
  PROVE  InOrder(<<Jump(header), Enter(header, c), cond, Branch(body, exit),
                   Enter(body, header), Body, Jump(update), Seal(body),
                   Enter(update, body)>> \o upd \o
                 <<Jump(header), BackEdge(header, update),
                   Seal(header), Seal(update), Merge(exit, <<header>>)>>, n, m)
<1> DEFINE s == <<Jump(header), Enter(header, c), cond, Branch(body, exit),
                  Enter(body, header), Body, Jump(update), Seal(body), Enter(update, body)>>
           r == <<Jump(header), BackEdge(header, update),
                  Seal(header), Seal(update), Merge(exit, <<header>>)>>
<1>1. /\ header \in 0..(m - 1) /\ body \in 0..(m - 1) /\ update \in 0..(m - 1)
      /\ exit \in 0..(m - 1) /\ header >= n /\ body >= n /\ update >= n /\ exit >= n
  OBVIOUS
<1>c. cond.t \notin {"scan", "fill"} /\ Adds(cond) = {} /\ Closes(cond) = {}
  BY BlockCallEffects
<1>2. InOrder(s, n, m)
  <2>1. /\ Jump(header) \in CallsIn(m) /\ Enter(header, c) \in CallsIn(m) /\ cond \in CallsIn(m)
        /\ Branch(body, exit) \in CallsIn(m) /\ Enter(body, header) \in CallsIn(m)
        /\ Body \in CallsIn(m) /\ Jump(update) \in CallsIn(m) /\ Seal(body) \in CallsIn(m)
        /\ Enter(update, body) \in CallsIn(m)
    BY <1>1, BlockCalls, DriverCalls
  <2>2. s \in Seq(CallsIn(m))
    BY <2>1
  <2>3. \A i \in DOMAIN s : /\ s[i].t \notin {"scan", "fill"}
                            /\ \A b \in Adds(s[i]) \cup Closes(s[i]) : b >= n
    <3> DEFINE Fine(k) == /\ k.t \notin {"scan", "fill"}
                          /\ \A b \in Adds(k) \cup Closes(k) : b >= n
    <3>1. Fine(Jump(header)) /\ Fine(Enter(header, c)) /\ Fine(cond) /\ Fine(Branch(body, exit))
      BY <1>1, <1>c, BlockCallEffects
    <3>2. Fine(Enter(body, header)) /\ Fine(Body) /\ Fine(Jump(update))
      BY <1>1, BlockCallEffects
    <3>3. Fine(Seal(body)) /\ Fine(Enter(update, body))
      BY <1>1, BlockCallEffects
    <3> HIDE DEF Fine
    <3>4. \A i \in DOMAIN s : Fine(s[i])
      BY <3>1, <3>2, <3>3
    <3> QED
      BY <3>4 DEF Fine
  <2>4. Ordered(s)
    <3>1. /\ \A i \in DOMAIN s : i # 8 => Closes(s[i]) = {}
          /\ Closes(s[8]) = {body} /\ Adds(s[9]) = {update}
      BY <1>c, BlockCallEffects
    <3>2. DOMAIN s = 1..9
      OBVIOUS
    <3> HIDE DEF s
    <3>3. ASSUME NEW i \in DOMAIN s, NEW j \in DOMAIN s, i < j
          PROVE  Closes(s[i]) \cap Adds(s[j]) = {}
      <4>1. i = 8 => j = 9
        BY <3>2, <3>3
      <4> QED
        BY <3>1, <4>1
    <3> QED
      BY <3>3 DEF Ordered
  <2> QED
    BY <2>2, <2>3, <2>4 DEF InOrder
<1>3. InOrder(r, n, m)
  <2>1. /\ Jump(header) \in CallsIn(m) /\ BackEdge(header, update) \in CallsIn(m)
        /\ Seal(header) \in CallsIn(m) /\ Seal(update) \in CallsIn(m)
        /\ Merge(exit, <<header>>) \in CallsIn(m)
    BY <1>1, BlockCalls
  <2>2. r \in Seq(CallsIn(m))
    BY <2>1
  <2>3. \A i \in DOMAIN r : /\ r[i].t \notin {"scan", "fill"}
                            /\ \A b \in Adds(r[i]) \cup Closes(r[i]) : b >= n
    BY <1>1, BlockCallEffects
  <2>4. Ordered(r)
    BY BlockCallEffects DEF Ordered
  <2> QED
    BY <2>2, <2>3, <2>4 DEF InOrder
<1>4. InOrder(upd, n, m) /\ \A i \in DOMAIN upd : Closes(upd[i]) = {} /\ Adds(upd[i]) = {}
  <2>1. Expr \in CallsIn(m) /\ Task("drop") \in CallsIn(m)
    BY DriverCalls
  <2>2. upd \in Seq(CallsIn(m))
    <3>1. <<>> \in Seq(CallsIn(m)) /\ <<Expr, Task("drop")>> \in Seq(CallsIn(m))
      BY <2>1
    <3> QED
      BY <3>1
  <2>3. \A i \in DOMAIN upd : upd[i] \in {Expr, Task("drop")}
    OBVIOUS
  <2>4. \A i \in DOMAIN upd : /\ upd[i].t \notin {"scan", "fill"}
                              /\ Adds(upd[i]) = {} /\ Closes(upd[i]) = {}
    BY <2>3, BlockCallEffects
  <2> QED
    BY <2>2, <2>4 DEF InOrder, Ordered
<1>5. \A i \in DOMAIN s : Closes(s[i]) \subseteq {body}
  BY <1>c, BlockCallEffects
<1>6. \A i \in DOMAIN r : Adds(r[i]) \subseteq {header, exit}
  BY BlockCallEffects
<1> HIDE DEF s, r
<1>7. InOrder(s \o upd, n, m)
  BY <1>2, <1>4, InOrderConcat
<1>8. \A i \in DOMAIN (s \o upd) : Closes((s \o upd)[i]) \subseteq {body}
  <2>1. s \in Seq(CallsIn(m)) /\ upd \in Seq(CallsIn(m))
    BY <1>2, <1>4 DEF InOrder
  <2>2. ASSUME NEW i \in DOMAIN (s \o upd)
        PROVE  \/ i \in DOMAIN s /\ (s \o upd)[i] = s[i]
               \/ i - Len(s) \in DOMAIN upd /\ (s \o upd)[i] = upd[i - Len(s)]
    BY <2>1
  <2> QED
    BY <1>4, <1>5, <2>2
<1>9. InOrder((s \o upd) \o r, n, m)
  BY <1>3, <1>6, <1>7, <1>8, InOrderConcat
<1> QED
  BY <1>9 DEF s, r

LEMMA Between ==
  ASSUME NEW n \in Nat, NEW l \in Nat, NEW m, m = n + l
  PROVE  /\ m \in Nat /\ n <= m /\ \A b \in 0..(n - 1) : b \in 0..(m - 1)
         /\ \A i \in 1..l : n + i - 1 \in n..(m - 1)
         /\ \A i, j \in 1..l : i # j => n + i - 1 # n + j - 1
OBVIOUS

LEMMA NewBlocks ==
  ASSUME IInv, NEW l \in Nat, AddBlocks(l)
  PROVE  /\ nblocks \in Nat /\ nblocks' \in Nat /\ nblocks' \in nblocks..BlocksCap
         /\ InUse \subseteq InUse' /\ curBlock \in 0..(nblocks' - 1)
         /\ \A i \in 1..l : NewBlock(i) \in nblocks..(nblocks' - 1)
         /\ \A i, j \in 1..l : i # j => NewBlock(i) # NewBlock(j)
<1>1. nblocks \in Nat /\ BlocksCap \in Nat /\ curBlock \in InUse
  BY BuilderAssumption DEF IInv, TypeInv
<1>2. nblocks' = nblocks + l /\ nblocks + l <= BlocksCap
  BY DEF AddBlocks, Fits
<1>3. /\ nblocks' \in Nat /\ nblocks <= nblocks' /\ nblocks' \in nblocks..BlocksCap
      /\ \A b \in 0..(nblocks - 1) : b \in 0..(nblocks' - 1)
      /\ \A i \in 1..l : nblocks + i - 1 \in nblocks..(nblocks' - 1)
      /\ \A i, j \in 1..l : i # j => nblocks + i - 1 # nblocks + j - 1
  <2>1. nblocks' \in nblocks..BlocksCap
    BY <1>1, <1>2
  <2> QED
    BY <1>1, <1>2, <2>1, Between
<1>4. /\ \A i \in 1..l : NewBlock(i) \in nblocks..(nblocks' - 1)
      /\ \A i, j \in 1..l : i # j => NewBlock(i) # NewBlock(j)
  BY <1>3 DEF NewBlock
<1>5. InUse \subseteq InUse' /\ curBlock \in 0..(nblocks' - 1)
  BY <1>1, <1>3 DEF InUse
<1> QED
  BY <1>1, <1>3, <1>4, <1>5

LEMMA AllocateKeeps ==
  ASSUME IInv, todo # <<>>, Head(todo).t \notin Reading, NEW l \in Nat, AddBlocks(l),
         UNCHANGED <<preds, sealed, incompletePhis, curBlock>>, nextVreg' \in Int,
         NEW ts, InOrder(ts, nblocks, nblocks'), Continue(ts)
  PROVE  IInv'
<1>1. /\ nblocks \in Nat /\ nblocks' \in Nat /\ nblocks <= nblocks' /\ nblocks' \in nblocks..BlocksCap
      /\ InUse \subseteq InUse'
  BY NewBlocks
<1>2. ts \in Seq(CallsIn(nblocks')) /\ Fresh(ts, nblocks) /\ Standing(ts, incompletePhis')
  BY DEF InOrder, Fresh, Standing
<1>3. /\ curBlock \in InUse /\ preds \in [Blocks -> Seq(InUse)]
      /\ incompletePhis' \in Seq(Placeholder) /\ SealsOnly(Closes(Head(todo)))
  BY DEF IInv, TypeInv, SealsOnly
<1>4. curBlock' \in InUse' /\ preds' \in [Blocks -> Seq(InUse')]
  <2>1. Seq(InUse) \subseteq Seq(InUse')
    BY <1>1
  <2>2. preds \in [Blocks -> Seq(InUse')]
    BY <1>3, <2>1
  <2> QED
    BY <1>1, <1>3, <2>2
<1> QED
  BY <1>1, <1>2, <1>3, <1>4, DriverKeeps

LEMMA BranchesKeep ==
  ASSUME IInv, todo # <<>>,
         \/ LowerIf(Head(todo)) \/ LowerIfElse(Head(todo)) \/ LowerWhile(Head(todo))
         \/ LowerFor(Head(todo)) \/ LowerAnd(Head(todo)) \/ LowerOr(Head(todo))
  PROVE  IInv'
<1> DEFINE k == Head(todo)
           Rest0 == UNCHANGED <<preds, sealed, incompletePhis, curBlock>>
<1> SUFFICES ASSUME \/ LowerIf(k) \/ LowerIfElse(k) \/ LowerWhile(k)
                    \/ LowerFor(k) \/ LowerAnd(k) \/ LowerOr(k)
             PROVE  IInv'
  OBVIOUS
<1>0. nextVreg \in Int
  BY DEF IInv, TypeInv
<1> HIDE DEF k
<1>1. ASSUME NEW l \in Nat, AddBlocks(l), Rest0, nextVreg' \in Int, k.t \notin Reading,
             NEW ts, InOrder(ts, nblocks, nblocks'), Continue(ts)
      PROVE  IInv'
  BY <1>1, AllocateKeeps DEF k
<1>2. CASE LowerIf(k)
  <2> DEFINE then == NewBlock(1)  merge == NewBlock(2)
             ts == <<Branch(then, merge), Enter(then, curBlock), Body, Jump(merge),
                     Seal(then), Merge(merge, <<curBlock, then>>)>>
  <2>1. AddBlocks(2) /\ Rest0 /\ nextVreg' \in Int /\ k.t \notin Reading /\ Continue(ts)
    BY <1>0, <1>2 DEF LowerIf, ssaVars, Reading
  <2>2. /\ nblocks \in Nat /\ nblocks' \in Nat /\ curBlock \in 0..(nblocks' - 1)
        /\ then \in nblocks..(nblocks' - 1) /\ merge \in nblocks..(nblocks' - 1) /\ then # merge
    BY <2>1, NewBlocks
  <2> HIDE DEF then, merge
  <2>3. InOrder(ts, nblocks, nblocks')
    BY <2>2, IfInOrder
  <2> HIDE DEF ts
  <2> QED
    BY <1>1, <2>1, <2>3
<1>3. CASE LowerIfElse(k)
  <2> DEFINE then == NewBlock(1)  else == NewBlock(2)  merge == NewBlock(3)
             ts == <<Branch(then, else),
                     Enter(then, curBlock), Body, ArmEnd(then, merge),
                     Enter(else, curBlock), Body, ArmEnd(else, merge),
                     Merge(merge, <<then, else>>)>>
  <2>1. AddBlocks(3) /\ Rest0 /\ nextVreg' \in Int /\ k.t \notin Reading /\ Continue(ts)
    BY <1>0, <1>3 DEF LowerIfElse, ssaVars, Reading
  <2>2. /\ nblocks \in Nat /\ nblocks' \in Nat /\ curBlock \in 0..(nblocks' - 1)
        /\ then \in nblocks..(nblocks' - 1) /\ else \in nblocks..(nblocks' - 1)
        /\ merge \in nblocks..(nblocks' - 1)
        /\ then # else /\ then # merge /\ else # merge
    BY <2>1, NewBlocks
  <2> HIDE DEF then, else, merge
  <2>3. InOrder(ts, nblocks, nblocks')
    BY <2>2, IfElseInOrder
  <2> HIDE DEF ts
  <2> QED
    BY <1>1, <2>1, <2>3
<1>4. CASE LowerWhile(k)
  <2> DEFINE header == NewBlock(1)  body == NewBlock(2)  exit == NewBlock(3)
             ts == <<Jump(header), Enter(header, curBlock), Expr, Branch(body, exit),
                     Enter(body, header), Body, Jump(header), BackEdge(header, body),
                     Seal(header), Seal(body), Merge(exit, <<header>>)>>
  <2>1. AddBlocks(3) /\ Rest0 /\ nextVreg' \in Int /\ k.t \notin Reading /\ Continue(ts)
    BY <1>0, <1>4 DEF LowerWhile, ssaVars, Reading
  <2>2. /\ nblocks \in Nat /\ nblocks' \in Nat /\ curBlock \in 0..(nblocks' - 1)
        /\ header \in nblocks..(nblocks' - 1) /\ body \in nblocks..(nblocks' - 1)
        /\ exit \in nblocks..(nblocks' - 1)
        /\ header # body /\ header # exit /\ body # exit
    BY <2>1, NewBlocks
  <2> HIDE DEF header, body, exit
  <2>3. InOrder(ts, nblocks, nblocks')
    BY <2>2, WhileInOrder
  <2> HIDE DEF ts
  <2> QED
    BY <1>1, <2>1, <2>3
<1>5. CASE LowerFor(k)
  <2> DEFINE header == NewBlock(1)  body == NewBlock(2)
             update == NewBlock(3)  exit == NewBlock(4)
             code(cond, upd) ==
               <<Jump(header), Enter(header, curBlock), cond, Branch(body, exit),
                 Enter(body, header), Body, Jump(update), Seal(body),
                 Enter(update, body)>> \o upd \o
               <<Jump(header), BackEdge(header, update),
                 Seal(header), Seal(update), Merge(exit, <<header>>)>>
  <2>1. PICK cond \in {Expr, Const}, upd \in {<<>>, <<Expr, Task("drop")>>} :
               Continue(code(cond, upd))
    BY <1>5 DEF LowerFor
  <2>2. AddBlocks(4) /\ Rest0 /\ nextVreg' \in Int /\ k.t \notin Reading
    BY <1>0, <1>5 DEF LowerFor, ssaVars, Reading
  <2>3. /\ nblocks \in Nat /\ nblocks' \in Nat /\ curBlock \in 0..(nblocks' - 1)
        /\ header \in nblocks..(nblocks' - 1) /\ body \in nblocks..(nblocks' - 1)
        /\ update \in nblocks..(nblocks' - 1) /\ exit \in nblocks..(nblocks' - 1)
        /\ header # body /\ header # update /\ header # exit
        /\ body # update /\ body # exit /\ update # exit
    BY <2>2, NewBlocks
  <2> HIDE DEF header, body, update, exit
  <2>4. InOrder(code(cond, upd), nblocks, nblocks')
    BY <2>3, ForInOrder
  <2> HIDE DEF code
  <2> QED
    BY <1>1, <2>1, <2>2, <2>4
<1>6. CASE LowerAnd(k) \/ LowerOr(k)
  <2> DEFINE rhs == NewBlock(1)  merge == NewBlock(2)  short == NewBlock(3)
             and == <<Enter(rhs, curBlock), Expr, Jump(merge), Seal(rhs),
                      Enter(short, curBlock), Const, Jump(merge), Seal(short),
                      JoinOf(merge, nextVreg, <<rhs, short>>)>>
             or == <<Enter(short, curBlock), Const, Jump(merge), Seal(short),
                     Enter(rhs, curBlock), Expr, Jump(merge), Seal(rhs),
                     JoinOf(merge, nextVreg, <<short, rhs>>)>>
  <2>1. /\ AddBlocks(3) /\ Rest0 /\ nextVreg' \in Int /\ k.t \notin Reading
        /\ Continue(and) \/ Continue(or)
    BY <1>0, <1>6 DEF LowerAnd, LowerOr, Reading
  <2>2. /\ nblocks \in Nat /\ nblocks' \in Nat /\ curBlock \in 0..(nblocks' - 1)
        /\ rhs \in nblocks..(nblocks' - 1) /\ merge \in nblocks..(nblocks' - 1)
        /\ short \in nblocks..(nblocks' - 1)
        /\ rhs # merge /\ rhs # short /\ merge # short
    BY <2>1, NewBlocks
  <2> HIDE DEF rhs, merge, short
  <2>3. InOrder(and, nblocks, nblocks') /\ InOrder(or, nblocks, nblocks')
    BY <1>0, <2>2, LogicInOrder
  <2> HIDE DEF and, or
  <2> QED
    BY <1>1, <2>1, <2>3
<1> QED
  BY <1>2, <1>3, <1>4, <1>5, <1>6

-------------------------------------------------------------------------------

\* The invariant holds from the start and is kept by every step.

LEMMA InitHolds == Init => IInv
<1> SUFFICES ASSUME Init PROVE IInv
  OBVIOUS
<1>0. BlocksCap \in Nat \ {0} /\ InUse = 0..0 /\ 0 \in Blocks /\ nblocks = 1
  BY BuilderAssumption DEF Init, BuilderInit, InUse, Blocks
<1>1. TypeInv
  <2>1. todo \in Seq(CallsIn(nblocks))
    <3>1. Body \in CallsIn(1) /\ Task("end") \in CallsIn(1)
      BY DriverCalls
    <3>2. <<Body, Task("end")>> \in Seq(CallsIn(1))
      BY <3>1
    <3> QED
      BY <1>0, <3>2 DEF Init
  <2>2. incompletePhis \in Seq(Placeholder)
    BY DEF Init, BuilderInit
  <2>3. nextVreg \in Int
    BY BuilderAssumption DEF Init, BuilderInit
  <2>4. sealed \in [Blocks -> BOOLEAN] /\ preds \in [Blocks -> Seq(InUse)]
    BY DEF Init, BuilderInit
  <2>5. nblocks \in 1..BlocksCap /\ curBlock \in InUse
    BY <1>0 DEF Init, BuilderInit
  <2> QED
    BY <2>1, <2>2, <2>3, <2>4, <2>5 DEF TypeInv
<1>2. \A i \in DOMAIN todo : /\ Adds(todo[i]) = {} /\ Closes(todo[i]) = {}
                             /\ todo[i].t \notin {"scan", "fill"}
  <2>1. todo = <<Body, Task("end")>> /\ Body.t = "stmts" /\ Task("end").t = "end"
    BY DEF Init, Body, Task
  <2> QED
    BY <2>1 DEF Adds, Closes
<1>3. \A b \in Blocks : sealed[b] => b \in InUse
  <2>1. \A b \in Blocks : sealed[b] => b = 0
    BY DEF Init, BuilderInit
  <2> QED
    BY <1>0, <2>1
<1> QED
  BY <1>1, <1>2, <1>3 DEF IInv, OpenInv, ScanInv, Ordered, Standing

\* The table of blocks is full: the process ends, and nothing is pending.
LEMMA AbortKeeps ==
  ASSUME IInv, todo # <<>>, GrowTables(Head(todo))
  PROVE  IInv'
<1>1. todo' = <<>> /\ UNCHANGED <<nblocks, preds, sealed, curBlock, incompletePhis, nextVreg>>
  BY DEF GrowTables, cfgVars, ssaVars
<1>2. TypeInv'
  <2>1. <<>> \in Seq(CallsIn(nblocks))
    OBVIOUS
  <2> QED
    BY <1>1, <2>1 DEF IInv, TypeInv, InUse
<1>3. OpenInv' /\ ScanInv'
  BY <1>1 DEF IInv, OpenInv, ScanInv, Ordered, Standing, InUse
<1> QED
  BY <1>2, <1>3 DEF IInv

LEMMA NextKeeps ==
  ASSUME IInv, [Next]_vars
  PROVE  IInv'
<1>1. CASE Next
  <2> DEFINE k == Head(todo)
  <2>0. todo # <<>> /\ Step(k)
    BY <1>1 DEF Next
  <2>1. CASE BuilderStep(k)
    BY <2>0, <2>1, BuilderReads, BuilderSeals
  <2>2. CASE Lower(k)
    <3>1. CASE \/ LowerConst(k) \/ LowerOp(k) \/ LowerIdent(k) \/ RecordRead(k) \/ WriteVar(k)
               \/ LowerEffect(k) \/ DropValue(k) \/ EmitJump(k) \/ EmitBranch(k)
      BY <2>0, <3>1, ValuesKeep
    <3>2. CASE EnterBlock(k) \/ AddBackEdge(k)
      BY <2>0, <3>2, EdgesKeep
    <3>3. CASE MergeBlock(k) \/ LogicJoin(k) \/ EndArm(k)
      BY <2>0, <3>3, EndsKeep
    <3>4. CASE \/ LowerIf(k) \/ LowerIfElse(k) \/ LowerWhile(k)
               \/ LowerFor(k) \/ LowerAnd(k) \/ LowerOr(k)
      BY <2>0, <3>4, BranchesKeep
    <3> HIDE DEF k
    <3> QED
      BY <2>2, <3>1, <3>2, <3>3, <3>4 DEF Lower
  <2>3. CASE LowerOperator(k)
    BY <2>0, <2>3, OperatorKeeps
  <2>4. CASE ChooseStmt(k)
    BY <2>0, <2>4, StatementKeeps
  <2>5. CASE CloseBlock(k) \/ EndFunction(k)
    BY <2>0, <2>5, ValuesKeep
  <2>6. CASE GrowTables(k)
    BY <2>0, <2>6, AbortKeeps
  <2> HIDE DEF k
  <2> QED
    BY <2>0, <2>1, <2>2, <2>3, <2>4, <2>5, <2>6 DEF Step
<1>2. CASE UNCHANGED vars
  <2>1. UNCHANGED <<nblocks, preds, sealed, curBlock, incompletePhis, nextVreg, todo>>
    BY <1>2 DEF vars, builderVars
  <2> QED
    BY <2>1 DEF IInv, TypeInv, OpenInv, ScanInv, InUse
<1> QED
  BY <1>1, <1>2

LEMMA AlwaysInv == Spec => []IInv
<1>1. Init => IInv
  BY InitHolds
<1>2. IInv /\ [Next]_vars => IInv'
  BY NextKeeps
<1> QED
  BY <1>1, <1>2, PTL DEF Spec

\* Predecessors are added to open blocks only, and a sealed block stays sealed.
LEMMA StepFreezes ==
  ASSUME IInv, [Next]_vars, NEW b \in Blocks, sealed[b]
  PROVE  sealed'[b] /\ preds'[b] = preds[b]
<1>1. CASE Next
  <2> DEFINE k == Head(todo)
  <2>0. /\ todo # <<>> /\ Step(k) /\ k \in CallsIn(nblocks) /\ b \notin Adds(k)
        /\ sealed \in [Blocks -> BOOLEAN] /\ preds \in [Blocks -> Seq(InUse)]
    BY <1>1, TopCall DEF Next, IInv, TypeInv
  <2> SUFFICES ASSUME Step(k) PROVE sealed'[b] /\ preds'[b] = preds[b]
    BY <2>0
  <2> HIDE DEF k
  <2>1. CASE EnterBlock(k) \/ MergeBlock(k) \/ LogicJoin(k) \/ AddBackEdge(k)
    <3>1. k.t \in {"enter", "merge", "logicJoin", "backEdge"} /\ k.b # b /\ sealed' = sealed
      BY <2>0, <2>1 DEF EnterBlock, MergeBlock, LogicJoin, AddBackEdge, Adds
    <3>2. \E ps : preds' = [preds EXCEPT ![k.b] = ps]
      BY <2>1 DEF EnterBlock, MergeBlock, LogicJoin, AddBackEdge
    <3> QED
      BY <2>0, <3>1, <3>2
  <2>2. CASE SealBlock(k)
    BY <2>0, <2>2 DEF SealBlock
  <2>3. CASE \/ ReadLocal(k) \/ ReadSinglePred(k) \/ RememberAnswer(k)
             \/ ReadManyPreds(k) \/ JoinTrivial(k) \/ JoinWithPhi(k) \/ ReadUnsealed(k)
             \/ ScanStep(k) \/ FillPhi(k)
    BY <2>3 DEF ReadLocal, ReadSinglePred, RememberAnswer, ReadManyPreds, JoinTrivial,
                JoinWithPhi, ReadUnsealed, ScanStep, FillPhi
  <2>4. CASE \/ LowerConst(k) \/ LowerOp(k) \/ LowerIdent(k) \/ RecordRead(k)
             \/ WriteVar(k) \/ LowerEffect(k) \/ DropValue(k)
             \/ EmitJump(k) \/ EndArm(k) \/ EmitBranch(k)
    BY <2>4 DEF LowerConst, LowerOp, EmitValue, LowerIdent, RecordRead, WriteVar, LowerEffect,
                DropValue, EmitJump, EndArm, EmitBranch, cfgVars
  <2>5. CASE \/ LowerAnd(k) \/ LowerOr(k)
             \/ LowerIf(k) \/ LowerIfElse(k) \/ LowerWhile(k) \/ LowerFor(k)
    BY <2>5 DEF LowerAnd, LowerOr, LowerIf, LowerIfElse, LowerWhile, LowerFor
  <2>6. CASE LowerOperator(k) \/ ChooseStmt(k) \/ CloseBlock(k) \/ EndFunction(k) \/ GrowTables(k)
    BY <2>6 DEF LowerOperator, ChooseStmt, CloseBlock, EndFunction, GrowTables, cfgVars
  <2> QED
    BY <2>1, <2>2, <2>3, <2>4, <2>5, <2>6 DEF Step, BuilderStep, Lower
<1>2. CASE UNCHANGED vars
  BY <1>2 DEF vars, builderVars
<1> QED
  BY <1>1, <1>2

-------------------------------------------------------------------------------

\* However the program branches and loops, once a block is sealed no predecessor is
\* added to it, and it is never unsealed: the PHIs of seal_block and read_var are built
\* from final lists (ssa_build.c:241-242, 377-380, 1123-1129).
THEOREM SealedFrozen == Spec => SealedPredsFrozen
<1>1. IInv /\ [Next]_vars => [\A b \in Blocks : sealed[b] => sealed'[b] /\ preds'[b] = preds[b]]_vars
  BY StepFreezes
<1> QED
  BY <1>1, AlwaysInv, PTL DEF SealedPredsFrozen, Spec

\* Every block the builder works in, records as a predecessor or will go on in is one
\* add_block has handed out, within the tables of block_defs and func->blocks
\* (ssa_build.c:155-186): none of the numbers kept across calls is stale or too large.
THEOREM BlocksInTables == Spec => []TypeInv
<1>1. IInv => TypeInv
  BY DEF IInv
<1> QED
  BY <1>1, AlwaysInv, PTL

\* The walk of seal_block along the incomplete PHIs: however many placeholders the
\* recursive reads put at the head of the list meanwhile, the entry unlinked and
\* completed is there and is one of the block being sealed (ssa_build.c:388-427).
THEOREM WalkStandsRight == Spec => []ScanInv
<1>1. IInv => ScanInv
  BY DEF IInv
<1> QED
  BY <1>1, AlwaysInv, PTL

===============================================================================
