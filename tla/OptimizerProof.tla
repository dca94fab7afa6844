----------------------------- MODULE OptimizerProof -----------------------------
(***************************************************************************)
(* Optimizer.tla, for every set of functions, however large: the verifier  *)
(* accepts what each sweep leaves, places in the lattice only fall, and    *)
(* dead code elimination leaves nothing dead.                              *)
(*                                                                         *)
(* The passes put an instruction in the place of another (Mirrors) or      *)
(* leave some out (Picked): either way blocks keep their terminator and    *)
(* instructions their operands, and no vreg gets a second definition.      *)
(* That a place falls is no matter of one step: a second look at an        *)
(* instruction could raise it again, were it not that what is known of its *)
(* vreg is already no more than what it gives (Sound).  This is kept by    *)
(* the sweep because the places of the operands fall, and, in functions    *)
(* with one definition a vreg, because no other instruction defines it.    *)
(* Nothing asks the functions for that: the lattice's theorem is of those  *)
(* that have it, the others are of all the verifier accepts.               *)
(***************************************************************************)
EXTENDS Optimizer, SequenceTheorems, FiniteSetTheorems, WellFoundedInduction, NaturalsInduction, TLAPS

-------------------------------------------------------------------------------
\* Walks, and the folds of the model as walks.

\* Numbers up to some number are reached one by one.
LEMMA OneByOne ==
  ASSUME NEW k \in Nat, NEW P, 0 \in P, \A i \in 1..k : i - 1 \in P => i \in P
  PROVE  \A i \in 0..k : i \in P
<1> DEFINE T == {i \in 0..k : i \notin P}
           R == {ss \in Nat \X Nat : ss[1] < ss[2]}
<1>1. ASSUME T # {} PROVE FALSE
  <2>1. IsWellFoundedOn(R, Nat)
    BY NatLessThanWellFounded DEF OpToRel
  <2>2. T \subseteq Nat
    OBVIOUS
  <2>3. \E x \in T : \A y \in T : ~ (<<y, x>> \in R)
    <3> HIDE DEF T, R
    <3> QED
      BY <1>1, <2>1, <2>2, WFMin
  <2>4. PICK x \in T : \A y \in T : ~ (<<y, x>> \in R)
    BY <2>3
  <2>5. x # 0 /\ x \in 0..k
    OBVIOUS
  <2>6. x - 1 \in T
    <3>1. x \in 1..k /\ x - 1 \in 0..k
      BY <2>5
    <3>2. x - 1 \notin P
      BY <3>1
    <3> QED
      BY <3>1, <3>2
  <2>7. <<x - 1, x>> \in R
    BY <2>5, <2>6
  <2> QED
    BY <2>4, <2>6, <2>7
<1> QED
  BY <1>1

\* A walk of k steps through A, the steps being functions on A.
Walk(k, A, base, F, g) ==
  g \in [0..k -> A] /\ g[0] = base /\ \A i \in 1..k : g[i] = F[i][g[i - 1]]

\* There is a walk from any place, for any number of steps.
LEMMA WalkExists ==
  ASSUME NEW k \in Nat, NEW A, NEW base \in A, NEW F \in [1..k -> [A -> A]]
  PROVE  \E g : Walk(k, A, base, F, g)
<1> DEFINE Upto(n, g) == /\ g \in [0..n -> A]
                         /\ g[0] = base
                         /\ \A i \in 1..n : g[i] = F[i][g[i - 1]]
           P == {n \in 0..k : \E g : Upto(n, g)}
<1>1. 0 \in P
  <2> DEFINE g == [i \in 0..0 |-> base]
  <2>1. g \in [0..0 -> A] /\ g[0] = base
    OBVIOUS
  <2> HIDE DEF g
  <2>2. Upto(0, g)
    BY <2>1
  <2> HIDE DEF Upto
  <2> QED
    BY <2>2
<1>2. ASSUME NEW n \in 1..k, n - 1 \in P PROVE n \in P
  <2>1. PICK g : Upto(n - 1, g)
    BY <1>2
  <2> DEFINE h == [i \in 0..n |-> IF i = n THEN F[n][g[n - 1]] ELSE g[i]]
  <2>2. n \in Nat /\ n >= 1 /\ n - 1 \in 0..(n - 1) /\ g[n - 1] \in A /\ F[n] \in [A -> A]
    BY <2>1
  <2>3. F[n][g[n - 1]] \in A
    BY <2>2
  <2>4. h \in [0..n -> A]
    <3>1. ASSUME NEW i \in 0..n, i # n PROVE g[i] \in A
      <4>1. i \in 0..(n - 1)
        BY <2>2, <3>1
      <4> QED
        BY <4>1, <2>1
    <3> QED
      BY <2>3, <3>1
  <2>5. h[0] = base
    BY <2>1, <2>2
  <2>6. ASSUME NEW i \in 1..n PROVE h[i] = F[i][h[i - 1]]
    <3>1. i - 1 \in 0..n /\ i - 1 # n /\ h[i - 1] = g[i - 1] /\ i \in 0..n
      BY <2>2
    <3>2. CASE i = n
      BY <3>1, <3>2
    <3>3. CASE i # n
      <4>1. i \in 1..(n - 1)
        BY <3>3, <2>2
      <4>2. h[i] = g[i]
        BY <3>1, <3>3
      <4>3. g[i] = F[i][g[i - 1]]
        BY <2>1, <4>1
      <4> HIDE DEF h
      <4> QED
        BY <3>1, <4>2, <4>3
    <3> QED
      BY <3>2, <3>3
  <2> HIDE DEF h
  <2>7. Upto(n, h)
    BY ONLY <2>4, <2>5, <2>6
  <2> HIDE DEF Upto
  <2> QED
    BY <2>7
<1>3. k \in P
  <2> HIDE DEF P
  <2>1. k \in 0..k
    OBVIOUS
  <2> QED
    BY <1>1, <1>2, <2>1, OneByOne
<1> QED
  BY <1>3 DEF Walk

\* Two that start together and step together arrive together.
LEMMA Together ==
  ASSUME NEW k \in Nat, NEW f, NEW g, f[0] = g[0],
         \A i \in 1..k : f[i - 1] = g[i - 1] => f[i] = g[i]
  PROVE  f[k] = g[k]
<1> DEFINE P == {i \in 0..k : f[i] = g[i]}
<1>1. 0 \in P
  OBVIOUS
<1>2. ASSUME NEW i \in 1..k, i - 1 \in P PROVE i \in P
  BY <1>2
<1>3. k \in P
  <2> HIDE DEF P
  <2>1. k \in 0..k
    OBVIOUS
  <2> QED
    BY <1>1, <1>2, <2>1, OneByOne
<1> QED
  BY <1>3

LEMMA ChooseOne == ASSUME NEW a PROVE (CHOOSE r \in {a} : TRUE) = a
  OBVIOUS

\* A fold over a sequence is where a walk along it ends: once for each operator folded
\* with, an operator being no value a lemma could be stated for.

FoldInstWalk(A, base, q, g) ==
  /\ g \in [0..Len(q) -> A]
  /\ g[0] = base
  /\ \A i \in 1..Len(q) : g[i] = FoldInst(g[i - 1], q[i])
  /\ Fold(FoldInst, base, q) = g[Len(q)]

\* Folding with FoldInst.
LEMMA FoldInstWalks ==
  ASSUME NEW A, NEW base \in A, NEW X, NEW q \in Seq(X),
         \A s \in A, i \in 1..Len(q) : FoldInst(s, q[i]) \in A
  PROVE  \E g : FoldInstWalk(A, base, q, g)
<1> DEFINE k == Len(q)
           Folds(f) == f = [n \in 0..Len(q) |->
                              IF n = 0 THEN base
                              ELSE CHOOSE r \in {FoldInst(s, q[n]) : s \in {f[n - 1]}} : TRUE]
           c == CHOOSE f : Folds(f)
           F == [i \in 1..k |-> [a \in A |-> FoldInst(a, q[i])]]
<1>0. k \in Nat
  OBVIOUS
<1>1. Fold(FoldInst, base, q) = c[k]
  <2> DEFINE E(p) == LET f[n \in 0..Len(p)] ==
                           IF n = 0 THEN base
                           ELSE CHOOSE r \in {FoldInst(s, p[n]) : s \in {f[n - 1]}} : TRUE
                     IN f[Len(p)]
  <2>1. Fold(FoldInst, base, q) = CHOOSE r \in {E(p) : p \in {q}} : TRUE
    BY Zenon DEF Fold
  <2>2. E(q) = c[k]
    BY Zenon
  <2> HIDE DEF E, c
  <2>3. {E(p) : p \in {q}} = {E(q)}
    OBVIOUS
  <2> QED
    BY <2>1, <2>2, <2>3, ChooseOne, Zenon
<1>2. F \in [1..k -> [A -> A]]
  OBVIOUS
<1>3. PICK g : Walk(k, A, base, F, g)
  BY <1>0, <1>2, WalkExists
<1>a. /\ g \in [0..k -> A] /\ g[0] = base
      /\ \A i \in 1..k : g[i] = F[i][g[i - 1]]
  BY <1>3 DEF Walk
<1>b. \A i \in 1..k : \A a \in A : F[i][a] = FoldInst(a, q[i])
  OBVIOUS
<1> HIDE DEF F
<1>4. ASSUME NEW n \in 1..k
      PROVE  g[n] = FoldInst(g[n - 1], q[n])
  <2>1. n - 1 \in 0..k
    BY <1>0
  <2>2. g[n - 1] \in A
    BY <1>a, <2>1
  <2> QED
    BY <1>a, <1>b, <2>2
<1>5. Folds(g)
  <2>1. ASSUME NEW n \in 0..Len(q)
        PROVE  g[n] = IF n = 0 THEN base
                      ELSE CHOOSE r \in {FoldInst(s, q[n]) : s \in {g[n - 1]}} : TRUE
    <3>1. CASE n = 0
      BY <1>a, <3>1
    <3>2. CASE n # 0
      <4>1. n \in 1..k
        BY <1>0, <3>2
      <4> DEFINE v == FoldInst(g[n - 1], q[n])
      <4>2. g[n] = v
        BY <1>4, <4>1
      <4>3. {FoldInst(s, q[n]) : s \in {g[n - 1]}} = {v}
        BY Zenon
      <4> HIDE DEF v
      <4> QED
        BY <3>2, <4>2, <4>3, ChooseOne
    <3> QED
      BY <3>1, <3>2
  <2>2. g = [n \in 0..Len(q) |-> g[n]]
    BY <1>a
  <2> QED
    BY <2>1, <2>2
<1>6. Folds(c)
  <2> HIDE DEF Folds
  <2> QED
    BY <1>5
<1> HIDE DEF c
<1>7. c[0] = g[0]
  <2>1. 0 \in 0..Len(q)
    BY <1>0
  <2> QED
    BY <1>a, <1>6, <2>1
<1>8. ASSUME NEW i \in 1..k, c[i - 1] = g[i - 1]
      PROVE  c[i] = g[i]
  <2>1. i \in 0..Len(q) /\ i # 0
    BY <1>0
  <2>2. c[i] = CHOOSE r \in {FoldInst(s, q[i]) : s \in {c[i - 1]}} : TRUE
    BY <1>6, <2>1
  <2> DEFINE v == FoldInst(c[i - 1], q[i])
  <2>3. {FoldInst(s, q[i]) : s \in {c[i - 1]}} = {v}
    BY Zenon
  <2>4. v = g[i]
    BY <1>4, <1>8
  <2> HIDE DEF v
  <2> QED
    BY <2>2, <2>3, <2>4, ChooseOne
<1>9. c[k] = g[k]
  BY <1>0, <1>7, <1>8, Together
<1> QED
  BY <1>1, <1>4, <1>9, <1>a, Zenon DEF FoldInstWalk

CseInstWalk(A, base, q, g) ==
  /\ g \in [0..Len(q) -> A]
  /\ g[0] = base
  /\ \A i \in 1..Len(q) : g[i] = CseInst(g[i - 1], q[i])
  /\ Fold(CseInst, base, q) = g[Len(q)]

\* Folding with CseInst.
LEMMA CseInstWalks ==
  ASSUME NEW A, NEW base \in A, NEW X, NEW q \in Seq(X),
         \A s \in A, i \in 1..Len(q) : CseInst(s, q[i]) \in A
  PROVE  \E g : CseInstWalk(A, base, q, g)
<1> DEFINE k == Len(q)
           Folds(f) == f = [n \in 0..Len(q) |->
                              IF n = 0 THEN base
                              ELSE CHOOSE r \in {CseInst(s, q[n]) : s \in {f[n - 1]}} : TRUE]
           c == CHOOSE f : Folds(f)
           F == [i \in 1..k |-> [a \in A |-> CseInst(a, q[i])]]
<1>0. k \in Nat
  OBVIOUS
<1>1. Fold(CseInst, base, q) = c[k]
  <2> DEFINE E(p) == LET f[n \in 0..Len(p)] ==
                           IF n = 0 THEN base
                           ELSE CHOOSE r \in {CseInst(s, p[n]) : s \in {f[n - 1]}} : TRUE
                     IN f[Len(p)]
  <2>1. Fold(CseInst, base, q) = CHOOSE r \in {E(p) : p \in {q}} : TRUE
    BY Zenon DEF Fold
  <2>2. E(q) = c[k]
    BY Zenon
  <2> HIDE DEF E, c
  <2>3. {E(p) : p \in {q}} = {E(q)}
    OBVIOUS
  <2> QED
    BY <2>1, <2>2, <2>3, ChooseOne, Zenon
<1>2. F \in [1..k -> [A -> A]]
  OBVIOUS
<1>3. PICK g : Walk(k, A, base, F, g)
  BY <1>0, <1>2, WalkExists
<1>a. /\ g \in [0..k -> A] /\ g[0] = base
      /\ \A i \in 1..k : g[i] = F[i][g[i - 1]]
  BY <1>3 DEF Walk
<1>b. \A i \in 1..k : \A a \in A : F[i][a] = CseInst(a, q[i])
  OBVIOUS
<1> HIDE DEF F
<1>4. ASSUME NEW n \in 1..k
      PROVE  g[n] = CseInst(g[n - 1], q[n])
  <2>1. n - 1 \in 0..k
    BY <1>0
  <2>2. g[n - 1] \in A
    BY <1>a, <2>1
  <2> QED
    BY <1>a, <1>b, <2>2
<1>5. Folds(g)
  <2>1. ASSUME NEW n \in 0..Len(q)
        PROVE  g[n] = IF n = 0 THEN base
                      ELSE CHOOSE r \in {CseInst(s, q[n]) : s \in {g[n - 1]}} : TRUE
    <3>1. CASE n = 0
      BY <1>a, <3>1
    <3>2. CASE n # 0
      <4>1. n \in 1..k
        BY <1>0, <3>2
      <4> DEFINE v == CseInst(g[n - 1], q[n])
      <4>2. g[n] = v
        BY <1>4, <4>1
      <4>3. {CseInst(s, q[n]) : s \in {g[n - 1]}} = {v}
        BY Zenon
      <4> HIDE DEF v
      <4> QED
        BY <3>2, <4>2, <4>3, ChooseOne
    <3> QED
      BY <3>1, <3>2
  <2>2. g = [n \in 0..Len(q) |-> g[n]]
    BY <1>a
  <2> QED
    BY <2>1, <2>2
<1>6. Folds(c)
  <2> HIDE DEF Folds
  <2> QED
    BY <1>5
<1> HIDE DEF c
<1>7. c[0] = g[0]
  <2>1. 0 \in 0..Len(q)
    BY <1>0
  <2> QED
    BY <1>a, <1>6, <2>1
<1>8. ASSUME NEW i \in 1..k, c[i - 1] = g[i - 1]
      PROVE  c[i] = g[i]
  <2>1. i \in 0..Len(q) /\ i # 0
    BY <1>0
  <2>2. c[i] = CHOOSE r \in {CseInst(s, q[i]) : s \in {c[i - 1]}} : TRUE
    BY <1>6, <2>1
  <2> DEFINE v == CseInst(c[i - 1], q[i])
  <2>3. {CseInst(s, q[i]) : s \in {c[i - 1]}} = {v}
    BY Zenon
  <2>4. v = g[i]
    BY <1>4, <1>8
  <2> HIDE DEF v
  <2> QED
    BY <2>2, <2>3, <2>4, ChooseOne
<1>9. c[k] = g[k]
  BY <1>0, <1>7, <1>8, Together
<1> QED
  BY <1>1, <1>4, <1>9, <1>a, Zenon DEF CseInstWalk

SweepInstWalk(A, base, q, g) ==
  /\ g \in [0..Len(q) -> A]
  /\ g[0] = base
  /\ \A i \in 1..Len(q) : g[i] = SweepInst(g[i - 1], q[i])
  /\ Fold(SweepInst, base, q) = g[Len(q)]

\* Folding with SweepInst.
LEMMA SweepInstWalks ==
  ASSUME NEW A, NEW base \in A, NEW X, NEW q \in Seq(X),
         \A s \in A, i \in 1..Len(q) : SweepInst(s, q[i]) \in A
  PROVE  \E g : SweepInstWalk(A, base, q, g)
<1> DEFINE k == Len(q)
           Folds(f) == f = [n \in 0..Len(q) |->
                              IF n = 0 THEN base
                              ELSE CHOOSE r \in {SweepInst(s, q[n]) : s \in {f[n - 1]}} : TRUE]
           c == CHOOSE f : Folds(f)
           F == [i \in 1..k |-> [a \in A |-> SweepInst(a, q[i])]]
<1>0. k \in Nat
  OBVIOUS
<1>1. Fold(SweepInst, base, q) = c[k]
  <2> DEFINE E(p) == LET f[n \in 0..Len(p)] ==
                           IF n = 0 THEN base
                           ELSE CHOOSE r \in {SweepInst(s, p[n]) : s \in {f[n - 1]}} : TRUE
                     IN f[Len(p)]
  <2>1. Fold(SweepInst, base, q) = CHOOSE r \in {E(p) : p \in {q}} : TRUE
    BY Zenon DEF Fold
  <2>2. E(q) = c[k]
    BY Zenon
  <2> HIDE DEF E, c
  <2>3. {E(p) : p \in {q}} = {E(q)}
    OBVIOUS
  <2> QED
    BY <2>1, <2>2, <2>3, ChooseOne, Zenon
<1>2. F \in [1..k -> [A -> A]]
  OBVIOUS
<1>3. PICK g : Walk(k, A, base, F, g)
  BY <1>0, <1>2, WalkExists
<1>a. /\ g \in [0..k -> A] /\ g[0] = base
      /\ \A i \in 1..k : g[i] = F[i][g[i - 1]]
  BY <1>3 DEF Walk
<1>b. \A i \in 1..k : \A a \in A : F[i][a] = SweepInst(a, q[i])
  OBVIOUS
<1> HIDE DEF F
<1>4. ASSUME NEW n \in 1..k
      PROVE  g[n] = SweepInst(g[n - 1], q[n])
  <2>1. n - 1 \in 0..k
    BY <1>0
  <2>2. g[n - 1] \in A
    BY <1>a, <2>1
  <2> QED
    BY <1>a, <1>b, <2>2
<1>5. Folds(g)
  <2>1. ASSUME NEW n \in 0..Len(q)
        PROVE  g[n] = IF n = 0 THEN base
                      ELSE CHOOSE r \in {SweepInst(s, q[n]) : s \in {g[n - 1]}} : TRUE
    <3>1. CASE n = 0
      BY <1>a, <3>1
    <3>2. CASE n # 0
      <4>1. n \in 1..k
        BY <1>0, <3>2
      <4> DEFINE v == SweepInst(g[n - 1], q[n])
      <4>2. g[n] = v
        BY <1>4, <4>1
      <4>3. {SweepInst(s, q[n]) : s \in {g[n - 1]}} = {v}
        BY Zenon
      <4> HIDE DEF v
      <4> QED
        BY <3>2, <4>2, <4>3, ChooseOne
    <3> QED
      BY <3>1, <3>2
  <2>2. g = [n \in 0..Len(q) |-> g[n]]
    BY <1>a
  <2> QED
    BY <2>1, <2>2
<1>6. Folds(c)
  <2> HIDE DEF Folds
  <2> QED
    BY <1>5
<1> HIDE DEF c
<1>7. c[0] = g[0]
  <2>1. 0 \in 0..Len(q)
    BY <1>0
  <2> QED
    BY <1>a, <1>6, <2>1
<1>8. ASSUME NEW i \in 1..k, c[i - 1] = g[i - 1]
      PROVE  c[i] = g[i]
  <2>1. i \in 0..Len(q) /\ i # 0
    BY <1>0
  <2>2. c[i] = CHOOSE r \in {SweepInst(s, q[i]) : s \in {c[i - 1]}} : TRUE
    BY <1>6, <2>1
  <2> DEFINE v == SweepInst(c[i - 1], q[i])
  <2>3. {SweepInst(s, q[i]) : s \in {c[i - 1]}} = {v}
    BY Zenon
  <2>4. v = g[i]
    BY <1>4, <1>8
  <2> HIDE DEF v
  <2> QED
    BY <2>2, <2>3, <2>4, ChooseOne
<1>9. c[k] = g[k]
  BY <1>0, <1>7, <1>8, Together
<1> QED
  BY <1>1, <1>4, <1>9, <1>a, Zenon DEF SweepInstWalk

MeetWalk(A, base, q, g) ==
  /\ g \in [0..Len(q) -> A]
  /\ g[0] = base
  /\ \A i \in 1..Len(q) : g[i] = Meet(g[i - 1], q[i])
  /\ Fold(Meet, base, q) = g[Len(q)]

\* Folding with Meet.
LEMMA MeetWalks ==
  ASSUME NEW A, NEW base \in A, NEW X, NEW q \in Seq(X),
         \A s \in A, i \in 1..Len(q) : Meet(s, q[i]) \in A
  PROVE  \E g : MeetWalk(A, base, q, g)
<1> DEFINE k == Len(q)
           Folds(f) == f = [n \in 0..Len(q) |->
                              IF n = 0 THEN base
                              ELSE CHOOSE r \in {Meet(s, q[n]) : s \in {f[n - 1]}} : TRUE]
           c == CHOOSE f : Folds(f)
           F == [i \in 1..k |-> [a \in A |-> Meet(a, q[i])]]
<1>0. k \in Nat
  OBVIOUS
<1>1. Fold(Meet, base, q) = c[k]
  <2> DEFINE E(p) == LET f[n \in 0..Len(p)] ==
                           IF n = 0 THEN base
                           ELSE CHOOSE r \in {Meet(s, p[n]) : s \in {f[n - 1]}} : TRUE
                     IN f[Len(p)]
  <2>1. Fold(Meet, base, q) = CHOOSE r \in {E(p) : p \in {q}} : TRUE
    BY Zenon DEF Fold
  <2>2. E(q) = c[k]
    BY Zenon
  <2> HIDE DEF E, c
  <2>3. {E(p) : p \in {q}} = {E(q)}
    OBVIOUS
  <2> QED
    BY <2>1, <2>2, <2>3, ChooseOne, Zenon
<1>2. F \in [1..k -> [A -> A]]
  OBVIOUS
<1>3. PICK g : Walk(k, A, base, F, g)
  BY <1>0, <1>2, WalkExists
<1>a. /\ g \in [0..k -> A] /\ g[0] = base
      /\ \A i \in 1..k : g[i] = F[i][g[i - 1]]
  BY <1>3 DEF Walk
<1>b. \A i \in 1..k : \A a \in A : F[i][a] = Meet(a, q[i])
  OBVIOUS
<1> HIDE DEF F
<1>4. ASSUME NEW n \in 1..k
      PROVE  g[n] = Meet(g[n - 1], q[n])
  <2>1. n - 1 \in 0..k
    BY <1>0
  <2>2. g[n - 1] \in A
    BY <1>a, <2>1
  <2> QED
    BY <1>a, <1>b, <2>2
<1>5. Folds(g)
  <2>1. ASSUME NEW n \in 0..Len(q)
        PROVE  g[n] = IF n = 0 THEN base
                      ELSE CHOOSE r \in {Meet(s, q[n]) : s \in {g[n - 1]}} : TRUE
    <3>1. CASE n = 0
      BY <1>a, <3>1
    <3>2. CASE n # 0
      <4>1. n \in 1..k
        BY <1>0, <3>2
      <4> DEFINE v == Meet(g[n - 1], q[n])
      <4>2. g[n] = v
        BY <1>4, <4>1
      <4>3. {Meet(s, q[n]) : s \in {g[n - 1]}} = {v}
        BY Zenon
      <4> HIDE DEF v
      <4> QED
        BY <3>2, <4>2, <4>3, ChooseOne
    <3> QED
      BY <3>1, <3>2
  <2>2. g = [n \in 0..Len(q) |-> g[n]]
    BY <1>a
  <2> QED
    BY <2>1, <2>2
<1>6. Folds(c)
  <2> HIDE DEF Folds
  <2> QED
    BY <1>5
<1> HIDE DEF c
<1>7. c[0] = g[0]
  <2>1. 0 \in 0..Len(q)
    BY <1>0
  <2> QED
    BY <1>a, <1>6, <2>1
<1>8. ASSUME NEW i \in 1..k, c[i - 1] = g[i - 1]
      PROVE  c[i] = g[i]
  <2>1. i \in 0..Len(q) /\ i # 0
    BY <1>0
  <2>2. c[i] = CHOOSE r \in {Meet(s, q[i]) : s \in {c[i - 1]}} : TRUE
    BY <1>6, <2>1
  <2> DEFINE v == Meet(c[i - 1], q[i])
  <2>3. {Meet(s, q[i]) : s \in {c[i - 1]}} = {v}
    BY Zenon
  <2>4. v = g[i]
    BY <1>4, <1>8
  <2> HIDE DEF v
  <2> QED
    BY <2>2, <2>3, <2>4, ChooseOne
<1>9. c[k] = g[k]
  BY <1>0, <1>7, <1>8, Together
<1> QED
  BY <1>1, <1>4, <1>9, <1>a, Zenon DEF MeetWalk

ChainWalk(map, A, base, q, g) ==
  /\ g \in [0..Len(q) -> A]
  /\ g[0] = base
  /\ \A i \in 1..Len(q) : g[i] = map[g[i - 1]]
  /\ Fold(LAMBDA w, n : map[w], base, q) = g[Len(q)]

\* Following a chain of copies.
LEMMA ChainWalks ==
  ASSUME NEW map, NEW A, NEW base \in A, NEW X, NEW q \in Seq(X),
         \A s \in A, i \in 1..Len(q) : map[s] \in A
  PROVE  \E g : ChainWalk(map, A, base, q, g)
<1> DEFINE k == Len(q)
           Folds(f) == f = [n \in 0..Len(q) |->
                              IF n = 0 THEN base
                              ELSE CHOOSE r \in {map[s] : s \in {f[n - 1]}} : TRUE]
           c == CHOOSE f : Folds(f)
           F == [i \in 1..k |-> [a \in A |-> map[a]]]
<1>0. k \in Nat
  OBVIOUS
<1>1. Fold(LAMBDA w, n : map[w], base, q) = c[k]
  <2> DEFINE E(p) == LET f[n \in 0..Len(p)] ==
                           IF n = 0 THEN base
                           ELSE CHOOSE r \in {map[s] : s \in {f[n - 1]}} : TRUE
                     IN f[Len(p)]
  <2>1. Fold(LAMBDA w, n : map[w], base, q) = CHOOSE r \in {E(p) : p \in {q}} : TRUE
    BY Zenon DEF Fold
  <2>2. E(q) = c[k]
    BY Zenon
  <2> HIDE DEF E, c
  <2>3. {E(p) : p \in {q}} = {E(q)}
    OBVIOUS
  <2> QED
    BY <2>1, <2>2, <2>3, ChooseOne, Zenon
<1>2. F \in [1..k -> [A -> A]]
  OBVIOUS
<1>3. PICK g : Walk(k, A, base, F, g)
  BY <1>0, <1>2, WalkExists
<1>a. /\ g \in [0..k -> A] /\ g[0] = base
      /\ \A i \in 1..k : g[i] = F[i][g[i - 1]]
  BY <1>3 DEF Walk
<1>b. \A i \in 1..k : \A a \in A : F[i][a] = map[a]
  OBVIOUS
<1> HIDE DEF F
<1>4. ASSUME NEW n \in 1..k
      PROVE  g[n] = map[g[n - 1]]
  <2>1. n - 1 \in 0..k
    BY <1>0
  <2>2. g[n - 1] \in A
    BY <1>a, <2>1
  <2> QED
    BY <1>a, <1>b, <2>2
<1>5. Folds(g)
  <2>1. ASSUME NEW n \in 0..Len(q)
        PROVE  g[n] = IF n = 0 THEN base
                      ELSE CHOOSE r \in {map[s] : s \in {g[n - 1]}} : TRUE
    <3>1. CASE n = 0
      BY <1>a, <3>1
    <3>2. CASE n # 0
      <4>1. n \in 1..k
        BY <1>0, <3>2
      <4> DEFINE v == map[g[n - 1]]
      <4>2. g[n] = v
        BY <1>4, <4>1
      <4>3. {map[s] : s \in {g[n - 1]}} = {v}
        BY Zenon
      <4> HIDE DEF v
      <4> QED
        BY <3>2, <4>2, <4>3, ChooseOne
    <3> QED
      BY <3>1, <3>2
  <2>2. g = [n \in 0..Len(q) |-> g[n]]
    BY <1>a
  <2> QED
    BY <2>1, <2>2
<1>6. Folds(c)
  <2> HIDE DEF Folds
  <2> QED
    BY <1>5
<1> HIDE DEF c
<1>7. c[0] = g[0]
  <2>1. 0 \in 0..Len(q)
    BY <1>0
  <2> QED
    BY <1>a, <1>6, <2>1
<1>8. ASSUME NEW i \in 1..k, c[i - 1] = g[i - 1]
      PROVE  c[i] = g[i]
  <2>1. i \in 0..Len(q) /\ i # 0
    BY <1>0
  <2>2. c[i] = CHOOSE r \in {map[s] : s \in {c[i - 1]}} : TRUE
    BY <1>6, <2>1
  <2> DEFINE v == map[c[i - 1]]
  <2>3. {map[s] : s \in {c[i - 1]}} = {v}
    BY Zenon
  <2>4. v = g[i]
    BY <1>4, <1>8
  <2> HIDE DEF v
  <2> QED
    BY <2>2, <2>3, <2>4, ChooseOne
<1>9. c[k] = g[k]
  BY <1>0, <1>7, <1>8, Together
<1> QED
  BY <1>1, <1>4, <1>9, <1>a, Zenon DEF ChainWalk

SurviveWalk(d, A, base, q, g) ==
  /\ g \in [0..Len(q) -> A]
  /\ g[0] = base
  /\ \A i \in 1..Len(q) : g[i] = (IF Keep(d, q[i]) THEN Append(g[i - 1], q[i]) ELSE g[i - 1])
  /\ Fold(LAMBDA out, i : IF Keep(d, i) THEN Append(out, i) ELSE out, base, q) = g[Len(q)]

\* Collecting what is kept of a block.
LEMMA SurviveWalks ==
  ASSUME NEW d, NEW A, NEW base \in A, NEW X, NEW q \in Seq(X),
         \A s \in A, i \in 1..Len(q) : (IF Keep(d, q[i]) THEN Append(s, q[i]) ELSE s) \in A
  PROVE  \E g : SurviveWalk(d, A, base, q, g)
<1> DEFINE k == Len(q)
           Folds(f) == f = [n \in 0..Len(q) |->
                              IF n = 0 THEN base
                              ELSE CHOOSE r \in {(IF Keep(d, q[n]) THEN Append(s, q[n]) ELSE s) : s \in {f[n - 1]}} : TRUE]
           c == CHOOSE f : Folds(f)
           F == [i \in 1..k |-> [a \in A |-> (IF Keep(d, q[i]) THEN Append(a, q[i]) ELSE a)]]
<1>0. k \in Nat
  OBVIOUS
<1>1. Fold(LAMBDA out, i : IF Keep(d, i) THEN Append(out, i) ELSE out, base, q) = c[k]
  <2> DEFINE E(p) == LET f[n \in 0..Len(p)] ==
                           IF n = 0 THEN base
                           ELSE CHOOSE r \in {(IF Keep(d, p[n]) THEN Append(s, p[n]) ELSE s) : s \in {f[n - 1]}} : TRUE
                     IN f[Len(p)]
  <2>1. Fold(LAMBDA out, i : IF Keep(d, i) THEN Append(out, i) ELSE out, base, q) = CHOOSE r \in {E(p) : p \in {q}} : TRUE
    BY Zenon DEF Fold
  <2>2. E(q) = c[k]
    BY Zenon
  <2> HIDE DEF E, c
  <2>3. {E(p) : p \in {q}} = {E(q)}
    OBVIOUS
  <2> QED
    BY <2>1, <2>2, <2>3, ChooseOne, Zenon
<1>2. F \in [1..k -> [A -> A]]
  OBVIOUS
<1>3. PICK g : Walk(k, A, base, F, g)
  BY <1>0, <1>2, WalkExists
<1>a. /\ g \in [0..k -> A] /\ g[0] = base
      /\ \A i \in 1..k : g[i] = F[i][g[i - 1]]
  BY <1>3 DEF Walk
<1>b. \A i \in 1..k : \A a \in A : F[i][a] = (IF Keep(d, q[i]) THEN Append(a, q[i]) ELSE a)
  OBVIOUS
<1> HIDE DEF F
<1>4. ASSUME NEW n \in 1..k
      PROVE  g[n] = (IF Keep(d, q[n]) THEN Append(g[n - 1], q[n]) ELSE g[n - 1])
  <2>1. n - 1 \in 0..k
    BY <1>0
  <2>2. g[n - 1] \in A
    BY <1>a, <2>1
  <2> QED
    BY <1>a, <1>b, <2>2
<1>5. Folds(g)
  <2>1. ASSUME NEW n \in 0..Len(q)
        PROVE  g[n] = IF n = 0 THEN base
                      ELSE CHOOSE r \in {(IF Keep(d, q[n]) THEN Append(s, q[n]) ELSE s) : s \in {g[n - 1]}} : TRUE
    <3>1. CASE n = 0
      BY <1>a, <3>1
    <3>2. CASE n # 0
      <4>1. n \in 1..k
        BY <1>0, <3>2
      <4> DEFINE v == (IF Keep(d, q[n]) THEN Append(g[n - 1], q[n]) ELSE g[n - 1])
      <4>2. g[n] = v
        BY <1>4, <4>1
      <4>3. {(IF Keep(d, q[n]) THEN Append(s, q[n]) ELSE s) : s \in {g[n - 1]}} = {v}
        BY Zenon
      <4> HIDE DEF v
      <4> QED
        BY <3>2, <4>2, <4>3, ChooseOne
    <3> QED
      BY <3>1, <3>2
  <2>2. g = [n \in 0..Len(q) |-> g[n]]
    BY <1>a
  <2> QED
    BY <2>1, <2>2
<1>6. Folds(c)
  <2> HIDE DEF Folds
  <2> QED
    BY <1>5
<1> HIDE DEF c
<1>7. c[0] = g[0]
  <2>1. 0 \in 0..Len(q)
    BY <1>0
  <2> QED
    BY <1>a, <1>6, <2>1
<1>8. ASSUME NEW i \in 1..k, c[i - 1] = g[i - 1]
      PROVE  c[i] = g[i]
  <2>1. i \in 0..Len(q) /\ i # 0
    BY <1>0
  <2>2. c[i] = CHOOSE r \in {(IF Keep(d, q[i]) THEN Append(s, q[i]) ELSE s) : s \in {c[i - 1]}} : TRUE
    BY <1>6, <2>1
  <2> DEFINE v == (IF Keep(d, q[i]) THEN Append(c[i - 1], q[i]) ELSE c[i - 1])
  <2>3. {(IF Keep(d, q[i]) THEN Append(s, q[i]) ELSE s) : s \in {c[i - 1]}} = {v}
    BY Zenon
  <2>4. v = g[i]
    BY <1>4, <1>8
  <2> HIDE DEF v
  <2> QED
    BY <2>2, <2>3, <2>4, ChooseOne
<1>9. c[k] = g[k]
  BY <1>0, <1>7, <1>8, Together
<1> QED
  BY <1>1, <1>4, <1>9, <1>a, Zenon DEF SurviveWalk

-------------------------------------------------------------------------------
\* What the verifier accepts, and what keeps it so.

Terminator(i) == i.op \in {"RET", "JUMP", "BRANCH"}

\* A function of n blocks that the verifier accepts, its instructions as they should be.
WellMade(c, n) ==
  /\ c \in [0..(n - 1) -> Seq(Insts(n))]
  /\ \A b \in 0..(n - 1) : ShapeOk(c[b]) /\ \A j \in 1..Len(c[b]) : Formed(c[b][j])

\* d is c with other instructions in the same places, the definitions and terminators
\* where they were.
Mirrors(d, c, n) ==
  /\ d \in [0..(n - 1) -> Seq(Insts(n))]
  /\ \A b \in 0..(n - 1) :
       /\ Len(d[b]) = Len(c[b])
       /\ \A j \in 1..Len(c[b]) : /\ Formed(d[b][j])
                                  /\ d[b][j].dst = c[b][j].dst
                                  /\ Terminator(d[b][j]) <=> Terminator(c[b][j])

LEMMA MirrorsSelf ==
  ASSUME NEW n \in Nat, NEW c, WellMade(c, n)
  PROVE  Mirrors(c, c, n)
BY DEF WellMade, Mirrors

LEMMA MirrorsOn ==
  ASSUME NEW n \in Nat, NEW c, NEW d, NEW e, Mirrors(d, c, n), Mirrors(e, d, n)
  PROVE  Mirrors(e, c, n)
BY DEF Mirrors

\* A block is well shaped when its last instruction is its one terminator.
LEMMA ShapeIs ==
  ASSUME NEW X, NEW is \in Seq(X)
  PROVE  ShapeOk(is) <=> \A j \in 1..Len(is) : Terminator(is[j]) <=> j = Len(is)
<1>1. CASE is = <<>>
  BY <1>1 DEF ShapeOk
<1>2. CASE is # <<>>
  <2>1. Len(is) \in Nat /\ Len(is) >= 1 /\ Last(is) = is[Len(is)] /\ Len(is) \in 1..Len(is)
    BY <1>2 DEF Last
  <2>2. ShapeOk(is) <=> /\ Terminator(is[Len(is)])
                        /\ \A j \in 1..(Len(is) - 1) : ~Terminator(is[j])
    BY <1>2, <2>1 DEF ShapeOk, Terminator
  <2>3. \A j \in 1..Len(is) : j \in 1..(Len(is) - 1) <=> j # Len(is)
    BY <2>1
  <2>4. \A j \in 1..(Len(is) - 1) : j \in 1..Len(is)
    BY <2>1
  <2> QED
    BY <2>1, <2>2, <2>3, <2>4
<1> QED
  BY <1>1, <1>2

\* What mirrors a well made function is well made.
LEMMA MirrorsWell ==
  ASSUME NEW n \in Nat, NEW c, NEW d, WellMade(c, n), Mirrors(d, c, n)
  PROVE  WellMade(d, n)
<1> SUFFICES ASSUME NEW b \in 0..(n - 1) PROVE ShapeOk(d[b]) /\ \A j \in 1..Len(d[b]) : Formed(d[b][j])
  BY DEF WellMade, Mirrors
<1>1. c[b] \in Seq(Insts(n)) /\ d[b] \in Seq(Insts(n)) /\ Len(d[b]) = Len(c[b]) /\ ShapeOk(c[b])
  BY DEF WellMade, Mirrors
<1>2. \A j \in 1..Len(c[b]) : Formed(d[b][j]) /\ (Terminator(d[b][j]) <=> Terminator(c[b][j]))
  BY DEF Mirrors
<1>3. \A j \in 1..Len(c[b]) : Terminator(c[b][j]) <=> j = Len(c[b])
  BY <1>1, ShapeIs
<1>4. \A j \in 1..Len(d[b]) : Terminator(d[b][j]) <=> j = Len(d[b])
  BY ONLY <1>1, <1>2, <1>3
<1>5. ShapeOk(d[b])
  BY <1>1, <1>4, ShapeIs
<1> QED
  BY <1>1, <1>2, <1>5

\* Places by block and position.
LEMMA SitesAre ==
  ASSUME NEW n \in Nat, NEW c \in [0..(n - 1) -> Seq(Insts(n))]
  PROVE  \A p : p \in Sites(c) <=> (\E b, j : b \in 0..(n - 1) /\ j \in 1..Len(c[b]) /\ p = <<b, j>>)
<1>1. DOMAIN c = 0..(n - 1) /\ \A b \in 0..(n - 1) : DOMAIN c[b] = 1..Len(c[b])
  OBVIOUS
<1> QED
  BY <1>1 DEF Sites

\* One definition, in terms of blocks and positions.
OnceEach(c, n) ==
  \A b \in 0..(n - 1) : \A j \in 1..Len(c[b]) : c[b][j].dst # NoVreg =>
    /\ c[b][j].dst \notin Params
    /\ \A e \in 0..(n - 1) : \A k \in 1..Len(c[e]) :
         c[e][k].dst = c[b][j].dst => e = b /\ k = j

LEMMA Singly ==
  ASSUME NEW n \in Nat, NEW c \in [0..(n - 1) -> Seq(Insts(n))]
  PROVE  SingleAssignment(c) <=> OnceEach(c, n)
<1>1. \A b, j : At(c, <<b, j>>) = c[b][j]
  BY DEF At
<1>2. ASSUME SingleAssignment(c), NEW b \in 0..(n - 1), NEW j \in 1..Len(c[b]), c[b][j].dst # NoVreg
      PROVE  /\ c[b][j].dst \notin Params
             /\ \A e \in 0..(n - 1) : \A k \in 1..Len(c[e]) :
                  c[e][k].dst = c[b][j].dst => e = b /\ k = j
  <2>1. <<b, j>> \in Sites(c)
    BY SitesAre
  <2>2. c[b][j].dst \notin Params /\ \A q \in Sites(c) : At(c, q).dst = c[b][j].dst => q = <<b, j>>
    BY <1>1, <1>2, <2>1 DEF SingleAssignment
  <2>3. ASSUME NEW e \in 0..(n - 1), NEW k \in 1..Len(c[e]), c[e][k].dst = c[b][j].dst
        PROVE  e = b /\ k = j
    <3>1. <<e, k>> \in Sites(c)
      BY SitesAre
    <3>2. <<e, k>> = <<b, j>>
      BY <1>1, <2>2, <2>3, <3>1
    <3> QED
      BY <3>2
  <2> QED
    BY <2>2, <2>3
<1>3. ASSUME OnceEach(c, n), NEW p \in Sites(c), At(c, p).dst # NoVreg
      PROVE  /\ At(c, p).dst \notin Params
             /\ \A q \in Sites(c) : At(c, q).dst = At(c, p).dst => q = p
  <2>1. PICK b, j : b \in 0..(n - 1) /\ j \in 1..Len(c[b]) /\ p = <<b, j>>
    <3>0. p \in Sites(c)
      BY <1>3
    <3>1. \A r : r \in Sites(c) <=> (\E b, j : b \in 0..(n - 1) /\ j \in 1..Len(c[b]) /\ r = <<b, j>>)
      BY SitesAre
    <3> QED
      BY <3>0, <3>1, Zenon
  <2>2. At(c, p) = c[b][j]
    BY <1>1, <2>1
  <2>3. ASSUME NEW q \in Sites(c), At(c, q).dst = At(c, p).dst PROVE q = p
    <3>1. PICK e, k : e \in 0..(n - 1) /\ k \in 1..Len(c[e]) /\ q = <<e, k>>
      BY SitesAre
    <3>2. At(c, q) = c[e][k]
      BY <1>1, <3>1
    <3> QED
      BY <1>3, <2>1, <2>2, <2>3, <3>1, <3>2 DEF OnceEach
  <2> QED
    BY <1>3, <2>1, <2>2, <2>3 DEF OnceEach
<1> QED
  <2>1. SingleAssignment(c) => OnceEach(c, n)
    BY <1>2 DEF OnceEach
  <2> QED
    BY <1>3, <2>1 DEF SingleAssignment

\* What mirrors a function has its definitions.
LEMMA MirrorsSingly ==
  ASSUME NEW n \in Nat, NEW c, NEW d, c \in [0..(n - 1) -> Seq(Insts(n))], Mirrors(d, c, n),
         SingleAssignment(c)
  PROVE  SingleAssignment(d)
<1>1. \A b \in 0..(n - 1) : /\ Len(d[b]) = Len(c[b])
                            /\ \A j \in 1..Len(c[b]) : d[b][j].dst = c[b][j].dst
  BY DEF Mirrors
<1>2. OnceEach(c, n)
  BY Singly
<1>3. OnceEach(d, n)
  BY ONLY <1>1, <1>2 DEF OnceEach
<1> QED
  BY <1>3, Singly DEF Mirrors

LEMMA Blocks0 ==
  ASSUME NEW n \in Nat
  PROVE  IsFiniteSet(0..(n - 1)) /\ Cardinality(0..(n - 1)) = n
<1>1. IsFiniteSet(0..(n - 1)) /\ Cardinality(0..(n - 1)) = IF 0 > n - 1 THEN 0 ELSE n - 1 - 0 + 1
  BY FS_Interval
<1> QED
  BY <1>1

\* The verifier accepts what is well made.
LEMMA WellVerified ==
  ASSUME NEW n \in Nat, NEW c, WellMade(c, n)
  PROVE  VerifyFunc(c, Cardinality(DOMAIN c), NVregs)
<1>1. DOMAIN c = 0..(n - 1) /\ Cardinality(DOMAIN c) = n
  BY Blocks0 DEF WellMade
<1>2. ASSUME NEW b \in 0..(n - 1), NEW j \in DOMAIN c[b] PROVE OperandsOk(c[b][j], n, NVregs)
  <2>1. c[b] \in Seq(Insts(n))
    BY DEF WellMade
  <2>2. c[b][j] \in Insts(n)
    BY <2>1
  <2> DEFINE i == c[b][j]
  <2>3. i.args \in Seq(Vregs) /\ i.bbs \in Seq(0..(n - 1)) /\ i.dst \in Vregs \cup {NoVreg}
    BY <2>2 DEF Insts
  <2>4. \A a \in ToSet(i.args) : a \in Vregs
    BY <2>3 DEF ToSet
  <2>5. \A a \in ToSet(i.bbs) : a \in 0..(n - 1)
    BY <2>3 DEF ToSet
  <2>6. \A v \in Vregs : v # -1 /\ v < NVregs
    BY OptimizerAssumption DEF Vregs
  <2> HIDE DEF i
  <2>7. OperandsOk(i, n, NVregs)
    BY <2>3, <2>4, <2>5, <2>6 DEF OperandsOk, InRange, NoVreg
  <2> QED
    BY <2>7 DEF i
<1> QED
  BY <1>1, <1>2 DEF VerifyFunc, VerifyBlock, WellMade

-------------------------------------------------------------------------------
\* Putting another instruction in the place of one.

LEMMA WrapInt ==
  ASSUME NEW x \in Int
  PROVE  Wrap(x) \in Int
<1>1. Half \in Int /\ 2 * Half \in Int /\ 2 * Half > 0
  BY MeaningAssumption
<1> DEFINE y == x + Half
           m == 2 * Half
<1>2. y \in Int /\ m \in Int /\ m > 0
  BY <1>1
<1> HIDE DEF y, m
<1>3. y % m \in Int
  BY <1>2
<1>4. Wrap(x) = (y % m) - Half
  BY DEF Wrap, y, m
<1> QED
  BY <1>1, <1>3, <1>4

LEMMA QuotientInt ==
  ASSUME NEW a \in Int, NEW b \in Int, b # 0
  PROVE  Quotient(a, b) \in Int
<1> DEFINE x == Abs(a)
           y == Abs(b)
<1>1. x \in Int /\ y \in Int /\ y > 0
  BY DEF Abs
<1> HIDE DEF x, y
<1>2. x \div y \in Int
  BY <1>1
<1> QED
  BY <1>2 DEF Quotient, x, y

LEMMA ArithInt ==
  ASSUME NEW kind \in BinKinds, NEW a \in Int, NEW b \in Int
  PROVE  Arith(kind, a, b) \in Int
<1>1. CASE kind = "add"
  BY <1>1, WrapInt DEF Arith
<1>2. CASE kind = "sub"
  BY <1>2, WrapInt DEF Arith
<1>3. CASE kind = "mul"
  <2>1. a * b \in Int
    OBVIOUS
  <2> QED
    BY <1>3, <2>1, WrapInt DEF Arith
<1>4. CASE kind = "div"
  <2>1. b # 0 => Wrap(Quotient(a, b)) \in Int
    BY QuotientInt, WrapInt
  <2>2. Arith(kind, a, b) = IF b = 0 THEN 0 ELSE Wrap(Quotient(a, b))
    BY <1>4 DEF Arith
  <2> QED
    BY <2>1, <2>2
<1>5. CASE kind = "mod"
  <2> DEFINE q == Quotient(a, b)
  <2>1. b # 0 => q \in Int
    BY QuotientInt
  <2> HIDE DEF q
  <2>2. b # 0 => b * q \in Int
    BY <2>1
  <2>3. b # 0 => a - b * q \in Int
    BY <2>2
  <2>4. Arith(kind, a, b) = IF b = 0 THEN 0 ELSE a - b * q
    BY <1>5 DEF Arith, q
  <2> QED
    BY <2>3, <2>4
<1> QED
  BY <1>1, <1>2, <1>3, <1>4, <1>5 DEF BinKinds

\* What an instruction is folded to is a number.
LEMMA ValueInt ==
  ASSUME NEW i, NEW vs, Formed(i), i.op \in {"BINOP", "CMP", "UNOP"},
         vs[1] \in Int, i.op # "UNOP" => vs[2] \in Int
  PROVE  ValueOf(i, vs) \in Int
<1>1. CASE i.op = "BINOP"
  <2>1. ValueOf(i, vs) = Arith(i.kind, vs[1], vs[2])
    BY <1>1 DEF ValueOf
  <2> QED
    BY <1>1, <2>1, ArithInt DEF Formed
<1>2. CASE i.op = "CMP"
  BY <1>2 DEF ValueOf, Compare, Truth
<1>3. CASE i.op = "UNOP"
  <2>1. ValueOf(i, vs) = Unary(i.kind, vs[1])
    BY <1>3 DEF ValueOf
  <2>2. i.kind \in UnKinds
    BY <1>3 DEF Formed
  <2> DEFINE a == vs[1]
  <2>3. a \in Int /\ -a \in Int /\ -a - 1 \in Int
    OBVIOUS
  <2>4. Wrap(-a) \in Int /\ Wrap(-a - 1) \in Int /\ Truth(a = 0) \in Int
    BY <2>3, WrapInt DEF Truth
  <2> HIDE DEF a
  <2>5. i.kind \in UnKinds => Unary(i.kind, a) \in Int
    BY <2>4 DEF Unary, UnKinds
  <2> QED
    BY <2>1, <2>2, <2>5 DEF a
<1> QED
  BY <1>1, <1>2, <1>3

\* An instruction and another that may stand in its place.
Replaces(e, i, n) ==
  e \in Insts(n) /\ Formed(e) /\ e.dst = i.dst /\ (Terminator(e) <=> Terminator(i))

\* A constant may stand for any instruction but a terminator.
LEMMA AsConstReplaces ==
  ASSUME NEW n, NEW i \in Insts(n), NEW v \in Int, ~Terminator(i)
  PROVE  Replaces(AsConst(i, v), i, n)
<1> DEFINE none == <<>>
           e == AsConst(i, v)
<1>1. none \in Seq(Vregs) /\ none \in Seq(0..(n - 1))
  OBVIOUS
<1>2. i.dst \in Vregs \cup {NoVreg}
  BY DEF Insts
<1>3. e = [op |-> "CONST", kind |-> "", dst |-> i.dst, args |-> none, imm |-> v, bbs |-> none]
  BY DEF AsConst, Inst
<1> HIDE DEF none, e
<1>4. "CONST" \in Ops /\ "" \in BinKinds \cup CmpKinds \cup UnKinds \cup {""}
  BY DEF Ops, Pure
<1>5. e \in Insts(n)
  BY <1>1, <1>2, <1>3, <1>4 DEF Insts
<1>6. e.op = "CONST" /\ e.dst = i.dst
  BY <1>3
<1>7. Formed(e) /\ ~Terminator(e)
  BY <1>6 DEF Formed, Terminator
<1> QED
  BY <1>5, <1>6, <1>7 DEF Replaces, e

\* Putting an acceptable instruction in one place.
LEMMA PutMirrors ==
  ASSUME NEW n \in Nat, NEW c, WellMade(c, n), NEW b \in 0..(n - 1), NEW j \in 1..Len(c[b]), NEW e,
         Replaces(e, c[b][j], n)
  PROVE  Mirrors(Put(c, <<b, j>>, e), c, n)
<1> DEFINE d == Put(c, <<b, j>>, e)
           s == c[b]
           t == [s EXCEPT ![j] = e]
<1>0. c \in [0..(n - 1) -> Seq(Insts(n))] /\ s \in Seq(Insts(n)) /\ j \in 1..Len(s) /\ e \in Insts(n)
  BY DEF WellMade, Replaces
<1>1. d = [c EXCEPT ![b] = t]
  BY DEF Put
<1>2. t \in Seq(Insts(n)) /\ Len(t) = Len(s) /\ t[j] = e /\ \A k \in 1..Len(s) : k # j => t[k] = s[k]
  <2> HIDE DEF s
  <2> QED
    BY <1>0
<1> HIDE DEF d, t
<1>3. d \in [0..(n - 1) -> Seq(Insts(n))] /\ d[b] = t /\ \A a \in 0..(n - 1) : a # b => d[a] = c[a]
  BY <1>0, <1>1, <1>2
<1>4. ASSUME NEW a \in 0..(n - 1)
      PROVE  /\ Len(d[a]) = Len(c[a])
             /\ \A k \in 1..Len(c[a]) : /\ Formed(d[a][k])
                                        /\ d[a][k].dst = c[a][k].dst
                                        /\ Terminator(d[a][k]) <=> Terminator(c[a][k])
  <2>1. CASE a # b
    BY <1>3, <2>1 DEF WellMade
  <2>2. CASE a = b
    <3>1. d[a] = t /\ c[a] = s
      BY <1>3, <2>2
    <3>2. ASSUME NEW k \in 1..Len(s)
          PROVE  /\ Formed(t[k])
                 /\ t[k].dst = s[k].dst
                 /\ Terminator(t[k]) <=> Terminator(s[k])
      <4>1. CASE k = j
        BY <1>2, <4>1 DEF Replaces
      <4>2. CASE k # j
        <5>1. t[k] = s[k]
          BY <1>2, <4>2
        <5>2. Formed(s[k])
          BY DEF WellMade
        <5> HIDE DEF s
        <5> QED
          BY <5>1, <5>2
      <4> QED
        BY <4>1, <4>2
    <3> HIDE DEF s
    <3> QED
      BY <1>2, <3>1, <3>2
  <2> QED
    BY <2>1, <2>2
<1> QED
  BY <1>3, <1>4 DEF Mirrors, d

-------------------------------------------------------------------------------
\* The order of a sweep; opt_const_fold.

\* FlattenSeq: f says how far the concatenation of ss has got.
Flattens(S, ss, f) ==
  /\ f \in [0..Len(ss) -> Seq(S)]
  /\ f[0] = <<>>
  /\ \A i \in 1..Len(ss) : f[i] = f[i - 1] \o ss[i]

LEMMA FlattensExists ==
  ASSUME NEW S, NEW ss \in Seq(Seq(S))
  PROVE  \E f : Flattens(S, ss, f)
<1> DEFINE k == Len(ss)
           Upto(n, f) == /\ f \in [0..n -> Seq(S)]
                         /\ f[0] = <<>>
                         /\ \A i \in 1..n : f[i] = f[i - 1] \o ss[i]
           P == {n \in 0..k : \E f : Upto(n, f)}
<1>0. k \in Nat /\ \A i \in 1..k : ss[i] \in Seq(S)
  OBVIOUS
<1>1. 0 \in P
  <2> DEFINE f == [i \in 0..0 |-> <<>>]
  <2>1. f \in [0..0 -> Seq(S)] /\ f[0] = <<>>
    OBVIOUS
  <2> HIDE DEF f
  <2>2. Upto(0, f)
    BY <2>1
  <2>3. 0 \in 0..k
    BY <1>0
  <2> HIDE DEF Upto
  <2> QED
    BY <2>2, <2>3
<1>2. ASSUME NEW n \in 1..k, n - 1 \in P PROVE n \in P
  <2>1. PICK f : Upto(n - 1, f)
    BY <1>2
  <2> DEFINE h == [i \in 0..n |-> IF i = n THEN f[n - 1] \o ss[n] ELSE f[i]]
  <2>2. n \in Nat /\ n >= 1 /\ n - 1 \in 0..(n - 1) /\ f[n - 1] \in Seq(S) /\ ss[n] \in Seq(S)
    BY <1>0, <2>1
  <2>3. f[n - 1] \o ss[n] \in Seq(S)
    BY <2>2
  <2>4. h \in [0..n -> Seq(S)]
    <3>1. ASSUME NEW i \in 0..n, i # n PROVE f[i] \in Seq(S)
      <4>1. i \in 0..(n - 1)
        BY <2>2, <3>1
      <4> QED
        BY <4>1, <2>1
    <3> QED
      BY <2>3, <3>1
  <2>5. h[0] = <<>>
    BY <2>1, <2>2
  <2>6. ASSUME NEW i \in 1..n PROVE h[i] = h[i - 1] \o ss[i]
    <3>1. i - 1 \in 0..n /\ i - 1 # n /\ h[i - 1] = f[i - 1]
      BY <2>2
    <3>2. CASE i = n
      <4>1. n \in 0..n
        BY <2>2
      <4>2. h[n] = f[n - 1] \o ss[n]
        BY <4>1
      <4> HIDE DEF h
      <4> QED
        BY <3>1, <3>2, <4>2
    <3>3. CASE i # n
      <4>1. i \in 1..(n - 1)
        BY <3>3, <2>2
      <4>2. h[i] = f[i]
        BY <3>3
      <4>3. f[i] = f[i - 1] \o ss[i]
        BY <2>1, <4>1
      <4> HIDE DEF h
      <4> QED
        BY <3>1, <4>2, <4>3
    <3> QED
      BY <3>2, <3>3
  <2> HIDE DEF h
  <2>7. Upto(n, h)
    BY ONLY <2>4, <2>5, <2>6
  <2> HIDE DEF Upto
  <2> QED
    BY <2>7
<1>3. k \in P
  <2> HIDE DEF P
  <2>1. k \in 0..k
    BY <1>0
  <2> QED
    BY <1>0, <1>1, <1>2, <2>1, OneByOne
<1> QED
  BY <1>3 DEF Flattens

LEMMA FlattensAlone ==
  ASSUME NEW S, NEW ss \in Seq(Seq(S)), NEW f, Flattens(S, ss, f)
  PROVE  FlattenSeq(ss) = f[Len(ss)] /\ FlattenSeq(ss) \in Seq(S)
<1> DEFINE k == Len(ss)
           Is(g) == g = [i \in 1..Len(ss) |-> IF i = 1 THEN ss[i] ELSE g[i - 1] \o ss[i]]
           c == CHOOSE g : Is(g)
<1>0. k \in Nat /\ k \in 0..k /\ \A i \in 1..k : ss[i] \in Seq(S)
  OBVIOUS
<1>1. CASE k = 0
  <2>1. FlattenSeq(ss) = ss /\ ss = <<>>
    BY <1>1 DEF FlattenSeq
  <2> QED
    BY <1>1, <2>1 DEF Flattens
<1>2. CASE k # 0
  <2>1. FlattenSeq(ss) = c[k]
    BY <1>2, Zenon DEF FlattenSeq
  <2>2. Is(c)
    <3> DEFINE g == [i \in 1..k |-> f[i]]
    <3>1. ASSUME NEW i \in 1..k PROVE g[i] = IF i = 1 THEN ss[i] ELSE g[i - 1] \o ss[i]
      <4>1. CASE i = 1
        <5>1. f[1] = f[0] \o ss[1] /\ ss[1] \in Seq(S)
          <6>1. 1 \in 1..Len(ss) /\ 1 - 1 = 0
            BY <1>2, <1>0
          <6>2. f[1] = f[1 - 1] \o ss[1]
            BY <6>1 DEF Flattens
          <6> QED
            BY <1>0, <6>1, <6>2
        <5> QED
          BY <4>1, <5>1 DEF Flattens
      <4>2. CASE i # 1
        <5>1. i - 1 \in 1..k
          BY <4>2, <1>0
        <5> QED
          BY <4>2, <5>1 DEF Flattens
      <4> QED
        BY <4>1, <4>2
    <3>2. g = [i \in 1..k |-> IF i = 1 THEN ss[i] ELSE g[i - 1] \o ss[i]]
      <4>1. g = [i \in 1..k |-> g[i]]
        OBVIOUS
      <4> HIDE DEF g
      <4> QED
        BY <4>1, <3>1
    <3> HIDE DEF g
    <3>3. Is(g)
      BY <3>2
    <3> HIDE DEF Is
    <3> QED
      BY <3>3
  <2> DEFINE P == {i \in 0..k : i # 0 => c[i] = f[i]}
  <2> HIDE DEF c
  <2>3. 0 \in P
    BY <1>0
  <2>4. ASSUME NEW i \in 1..k, i - 1 \in P PROVE i \in P
    <3>1. c[i] = IF i = 1 THEN ss[i] ELSE c[i - 1] \o ss[i]
      BY <2>2
    <3>2. f[i] = f[i - 1] \o ss[i]
      BY DEF Flattens
    <3>3. CASE i = 1
      <4>1. f[1] = <<>> \o ss[1] /\ ss[1] \in Seq(S)
        <5>1. 1 - 1 = 0 /\ f[0] = <<>>
          BY DEF Flattens
        <5> QED
          BY <1>0, <3>2, <3>3, <5>1
      <4> QED
        BY <3>1, <3>3, <4>1
    <3>4. CASE i # 1
      <4>1. c[i - 1] = f[i - 1]
        BY <2>4, <3>4
      <4>2. i \in 0..k
        BY <1>0
      <4> QED
        BY <3>1, <3>2, <3>4, <4>1, <4>2
    <3> QED
      BY <3>3, <3>4
  <2>5. k \in P
    <3> HIDE DEF P
    <3> QED
      BY <1>0, <2>3, <2>4, OneByOne
  <2>6. f[k] \in Seq(S)
    BY <1>0 DEF Flattens
  <2> QED
    BY <1>2, <2>1, <2>5, <2>6
<1> QED
  BY <1>1, <1>2

\* FlattenSeq gives a sequence of the elements of the sequences it joins.
LEMMA FlattenTyped ==
  ASSUME NEW S, NEW ss \in Seq(Seq(S))
  PROVE  FlattenSeq(ss) \in Seq(S)
BY FlattensExists, FlattensAlone

\* The instructions of a function, and the order a sweep visits them in.
LEMMA InstructionsAre ==
  ASSUME NEW n \in Nat, NEW c, WellMade(c, n), NEW i \in Instructions(c)
  PROVE  i \in Insts(n) /\ \E b \in 0..(n - 1) : \E j \in 1..Len(c[b]) : i = c[b][j]
<1>1. DOMAIN c = 0..(n - 1) /\ \A b \in 0..(n - 1) : c[b] \in Seq(Insts(n))
  BY DEF WellMade
<1>2. PICK b \in 0..(n - 1) : i \in ToSet(c[b])
  BY <1>1 DEF Instructions
<1>3. c[b] \in Seq(Insts(n))
  BY <1>1
<1>4. PICK j \in 1..Len(c[b]) : i = c[b][j]
  BY <1>2, <1>3 DEF ToSet
<1>5. c[b][j] \in Insts(n)
  BY <1>3
<1> QED
  BY <1>4, <1>5

\* A sweep looks at places of the function.
LEMMA PlacesIn ==
  ASSUME NEW n \in Nat, NEW c, WellMade(c, n)
  PROVE  Places(c) \in Seq(Sites(c))
<1> DEFINE ss == [m \in 1..Cardinality(DOMAIN c) |-> [j \in DOMAIN c[m - 1] |-> <<m - 1, j>>]]
           T == Sites(c)
<1>1. DOMAIN c = 0..(n - 1) /\ Cardinality(DOMAIN c) = n /\ c \in [0..(n - 1) -> Seq(Insts(n))]
  BY Blocks0 DEF WellMade
<1>2. ASSUME NEW m \in 1..n PROVE [j \in DOMAIN c[m - 1] |-> <<m - 1, j>>] \in Seq(T)
  <2>1. m - 1 \in 0..(n - 1)
    OBVIOUS
  <2> DEFINE b == m - 1
  <2>2. b \in 0..(n - 1) /\ c[b] \in Seq(Insts(n)) /\ DOMAIN c[b] = 1..Len(c[b]) /\ Len(c[b]) \in Nat
    BY <1>1, <2>1
  <2> HIDE DEF b
  <2>3. \A j \in 1..Len(c[b]) : <<b, j>> \in Sites(c)
    BY <1>1, <2>2, SitesAre
  <2> HIDE DEF T
  <2>4. \A j \in 1..Len(c[b]) : <<b, j>> \in T
    BY <2>3 DEF T
  <2> DEFINE k == Len(c[b])
             f == [j \in 1..k |-> <<b, j>>]
  <2>5. k \in Nat /\ \A j \in 1..k : <<b, j>> \in T
    BY <2>2, <2>4
  <2> HIDE DEF k
  <2>6. f \in Seq(T)
    BY <2>5
  <2>7. [j \in DOMAIN c[b] |-> <<b, j>>] = f
    BY <2>2 DEF k
  <2> HIDE DEF f
  <2>8. [j \in DOMAIN c[b] |-> <<b, j>>] \in Seq(T)
    BY <2>6, <2>7
  <2> QED
    BY <2>8 DEF b
<1>3. ss \in Seq(Seq(T))
  <2> HIDE DEF T
  <2>1. \A m \in 1..n : ss[m] \in Seq(T)
    BY <1>1, <1>2
  <2>2. ss = [m \in 1..n |-> ss[m]]
    BY <1>1
  <2> HIDE DEF ss
  <2> QED
    BY <2>1, <2>2
<1> HIDE DEF ss, T
<1>4. FlattenSeq(ss) \in Seq(T)
  BY <1>3, FlattenTyped
<1> QED
  BY <1>4 DEF Places, ss, T

-----------------------------------------------------------------------------

\* The constant a vreg is known to be is a number.
LEMMA ConstInt ==
  ASSUME NEW n \in Nat, NEW c, WellMade(c, n), NEW v, IsConst(c, v)
  PROVE  ConstOf(c, v) \in Int
<1> DEFINE i == CHOOSE i \in ConstsOf(c, v) : TRUE
<1>1. i \in ConstsOf(c, v)
  BY DEF IsConst
<1>2. i \in Instructions(c)
  BY <1>1 DEF ConstsOf
<1> HIDE DEF i
<1>3. i \in Insts(n)
  BY <1>2, InstructionsAre
<1>4. i.imm \in Int
  BY <1>3 DEF Insts
<1> QED
  BY <1>4 DEF ConstOf, i

\* The functions that mirror c.
Mirrored(c, n) == {d \in [0..(n - 1) -> Seq(Insts(n))] : Mirrors(d, c, n)}

LEMMA MirrorPut ==
  ASSUME NEW n \in Nat, NEW c, WellMade(c, n), NEW d \in Mirrored(c, n), NEW p \in Sites(c), NEW e,
         Replaces(e, At(d, p), n)
  PROVE  Put(d, p, e) \in Mirrored(c, n)
<1>1. Mirrors(d, c, n) /\ WellMade(d, n) /\ d \in [0..(n - 1) -> Seq(Insts(n))]
  BY MirrorsWell DEF Mirrored
<1>2. PICK b, j : b \in 0..(n - 1) /\ j \in 1..Len(c[b]) /\ p = <<b, j>>
  <2>1. c \in [0..(n - 1) -> Seq(Insts(n))]
    BY DEF WellMade
  <2>2. \A r : r \in Sites(c) <=> (\E b, j : b \in 0..(n - 1) /\ j \in 1..Len(c[b]) /\ r = <<b, j>>)
    BY <2>1, SitesAre
  <2> QED
    BY <2>2, Zenon
<1>3. j \in 1..Len(d[b]) /\ At(d, p) = d[b][j]
  BY <1>1, <1>2 DEF Mirrors, At
<1>4. Mirrors(Put(d, <<b, j>>, e), d, n)
  BY <1>1, <1>2, <1>3, PutMirrors
<1>5. Mirrors(Put(d, p, e), c, n)
  BY <1>1, <1>2, <1>4, MirrorsOn
<1> QED
  BY <1>5 DEF Mirrored, Mirrors

LEMMA AtIn ==
  ASSUME NEW n \in Nat, NEW c, WellMade(c, n), NEW d \in Mirrored(c, n), NEW p \in Sites(c)
  PROVE  /\ At(d, p) \in Insts(n) /\ Formed(At(d, p)) /\ At(d, p).dst = At(c, p).dst
         /\ Terminator(At(d, p)) <=> Terminator(At(c, p))
<1>1. Mirrors(d, c, n) /\ d \in [0..(n - 1) -> Seq(Insts(n))]
  BY DEF Mirrored
<1>2. PICK b, j : b \in 0..(n - 1) /\ j \in 1..Len(c[b]) /\ p = <<b, j>>
  <2>1. c \in [0..(n - 1) -> Seq(Insts(n))]
    BY DEF WellMade
  <2>2. \A r : r \in Sites(c) <=> (\E b, j : b \in 0..(n - 1) /\ j \in 1..Len(c[b]) /\ r = <<b, j>>)
    BY <2>1, SitesAre
  <2> QED
    BY <2>2, Zenon
<1>3. j \in 1..Len(d[b]) /\ At(d, p) = d[b][j] /\ At(c, p) = c[b][j] /\ d[b] \in Seq(Insts(n))
  BY <1>1, <1>2 DEF Mirrors, At
<1>4. d[b][j] \in Insts(n)
  BY <1>3
<1> QED
  BY <1>1, <1>2, <1>3, <1>4 DEF Mirrors

FoldStates(c, n, L) == [code : Mirrored(c, n), changed : BOOLEAN, lapses : SUBSET L]

\* Looking at one instruction: folded, an identity, or left as it is.
LEMMA FoldInstIn ==
  ASSUME NEW n \in Nat, NEW c, WellMade(c, n), NEW L, "overflow" \in L, "identity" \in L,
         NEW s \in FoldStates(c, n, L), NEW p \in Sites(c)
  PROVE  FoldInst(s, p) \in FoldStates(c, n, L)
<1> DEFINE i == At(s.code, p)
<1>1. s.code \in Mirrored(c, n) /\ s.changed \in BOOLEAN /\ s.lapses \in SUBSET L
  BY DEF FoldStates
<1>2. WellMade(s.code, n)
  BY <1>1, MirrorsWell DEF Mirrored
<1>3. i \in Insts(n) /\ Formed(i)
  BY <1>1, AtIn
<1> HIDE DEF i
<1>4. i.args \in Seq(Vregs)
  BY <1>3 DEF Insts
<1>5. FoldInst(s, p) =
        CASE FoldsOverflow(s.code, i) -> [s EXCEPT !.lapses = @ \cup {"overflow"}]
          [] Foldable(s.code, i) /\ ~FoldsOverflow(s.code, i) ->
               [s EXCEPT !.code = Put(@, p, AsConst(i, ValueOf(i, Operands(s.code, i)))),
                         !.changed = TRUE]
          [] IsIdentity(s.code, i) ->
               [s EXCEPT !.code = Put(@, p, AsConst(i, ConstOf(s.code, i.args[2]))),
                         !.lapses = @ \cup {"identity"}]
          [] OTHER -> s
  BY Zenon DEF FoldInst, i
<1>6. CASE FoldsOverflow(s.code, i)
  <2>1. FoldInst(s, p) = [s EXCEPT !.lapses = @ \cup {"overflow"}]
    <3>1. Foldable(s.code, i) /\ ~IsIdentity(s.code, i)
      BY <1>6 DEF FoldsOverflow, IsIdentity
    <3> QED
      BY <1>5, <1>6, <3>1, Zenon
  <2> QED
    BY <1>1, <2>1 DEF FoldStates
<1>7. CASE Foldable(s.code, i) /\ ~FoldsOverflow(s.code, i)
  <2> DEFINE vs == Operands(s.code, i)
             d == Put(s.code, p, AsConst(i, ValueOf(i, vs)))
  <2>1. i.op \in {"BINOP", "CMP", "UNOP"} /\ \A v \in ToSet(i.args) : IsConst(s.code, v)
    BY <1>7 DEF Foldable
  <2>2. Len(i.args) \in Nat /\ Len(i.args) >= 1 /\ (i.op # "UNOP" => Len(i.args) >= 2)
    <3>1. Len(i.args) \in Nat
      BY <1>4
    <3>2. i.op \in {"BINOP", "CMP"} => Len(i.args) = 2
      BY <1>3 DEF Formed
    <3>3. i.op = "UNOP" => Len(i.args) = 1
      BY <1>3 DEF Formed
    <3> QED
      BY ONLY <2>1, <3>1, <3>2, <3>3
  <2>3. \A j \in 1..Len(i.args) : vs[j] = ConstOf(s.code, i.args[j]) /\ IsConst(s.code, i.args[j])
    BY <1>4, <2>1 DEF Operands, ToSet
  <2>4. \A j \in 1..Len(i.args) : vs[j] \in Int
    BY <1>2, <2>3, ConstInt
  <2> HIDE DEF vs
  <2>5. ValueOf(i, vs) \in Int
    BY <1>3, <2>1, <2>2, <2>4, ValueInt
  <2>6. ~Terminator(i)
    BY <2>1 DEF Terminator
  <2>7. d \in Mirrored(c, n)
    <3>1. Replaces(AsConst(i, ValueOf(i, vs)), i, n)
      BY <1>3, <2>5, <2>6, AsConstReplaces
    <3> QED
      BY <1>1, <3>1, MirrorPut DEF i
  <2>8. FoldInst(s, p) = [s EXCEPT !.code = d, !.changed = TRUE]
    <3>1. ~IsIdentity(s.code, i)
      BY <1>7 DEF IsIdentity
    <3> QED
      BY <1>5, <1>7, <3>1, Zenon DEF vs
  <2> HIDE DEF d
  <2> QED
    BY <1>1, <2>7, <2>8 DEF FoldStates
<1>8. CASE IsIdentity(s.code, i)
  <2> DEFINE v == ConstOf(s.code, i.args[2])
             d == Put(s.code, p, AsConst(i, v))
  <2>1. i.op = "BINOP" /\ ~Foldable(s.code, i) /\ v \in Int
    BY <1>2, <1>8, ConstInt DEF IsIdentity
  <2>2. ~Terminator(i) /\ ~FoldsOverflow(s.code, i)
    BY <2>1 DEF Terminator, FoldsOverflow
  <2>3. FoldInst(s, p) = [s EXCEPT !.code = d, !.lapses = @ \cup {"identity"}]
    BY <1>5, <1>8, <2>1, <2>2, Zenon
  <2> HIDE DEF v
  <2>4. Replaces(AsConst(i, v), i, n)
    BY <1>3, <2>1, <2>2, AsConstReplaces
  <2>5. d \in Mirrored(c, n)
    BY <1>1, <2>4, MirrorPut DEF i
  <2> HIDE DEF d
  <2> QED
    BY <1>1, <2>3, <2>5 DEF FoldStates
<1>9. CASE ~FoldsOverflow(s.code, i) /\ ~Foldable(s.code, i) /\ ~IsIdentity(s.code, i)
  BY <1>5, <1>9
<1> QED
  BY <1>6, <1>7, <1>8, <1>9

\* A sweep of constant folding.
LEMMA ConstFoldMirrors ==
  ASSUME NEW n \in Nat, WellMade(code, n), ConstFold
  PROVE  code' \in Mirrored(code, n)
<1> DEFINE L == lapses \cup {"overflow", "identity"}
           A == FoldStates(code, n, L)
           q == Places(code)
           base == [code |-> code, changed |-> FALSE, lapses |-> lapses]
<1>1. q \in Seq(Sites(code))
  BY PlacesIn
<1>2. base \in A
  <2>1. code \in Mirrored(code, n)
    BY MirrorsSelf DEF WellMade, Mirrored
  <2> QED
    BY <2>1 DEF FoldStates
<1>3. \A s \in A, i \in 1..Len(q) : FoldInst(s, q[i]) \in A
  <2> SUFFICES ASSUME NEW s \in A, NEW i \in 1..Len(q) PROVE FoldInst(s, q[i]) \in A
    OBVIOUS
  <2> HIDE DEF q
  <2>1. q[i] \in Sites(code)
    BY <1>1
  <2>2. "overflow" \in L /\ "identity" \in L
    OBVIOUS
  <2> HIDE DEF L
  <2> QED
    BY <2>1, <2>2, FoldInstIn
<1> HIDE DEF A, q, base
<1>4. PICK g : FoldInstWalk(A, base, q, g)
  BY <1>1, <1>2, <1>3, FoldInstWalks
<1>5. Fold(FoldInst, base, q) \in A
  <2>1. Len(q) \in 0..Len(q)
    BY <1>1
  <2> QED
    BY <1>4, <2>1, Zenon DEF FoldInstWalk
<1>6. code' = Fold(FoldInst, base, q).code
  BY DEF ConstFold, base, q
<1> DEFINE r == Fold(FoldInst, base, q)
<1> HIDE DEF r
<1>7. r \in A /\ code' = r.code
  BY <1>5, <1>6 DEF r
<1> QED
  BY <1>7 DEF A, FoldStates

-------------------------------------------------------------------------------
\* opt_dce.

\* What out keeps of the first m instructions of is, in their order: h says where in is
\* each was.
Picks(out, is, m, c, h) ==
  /\ h \in [1..Len(out) -> 1..m]
  /\ \A j \in 1..Len(out) : out[j] = is[h[j]] /\ Keep(c, is[h[j]])
  /\ \A j, k \in 1..Len(out) : j < k => h[j] < h[k]
  /\ \A i \in 1..m : Keep(c, is[i]) => \E j \in 1..Len(out) : h[j] = i

Picked(out, is, m, c) == \E h : Picks(out, is, m, c, h)

LEMMA PicksNone ==
  ASSUME NEW is, NEW c
  PROVE  Picked(<<>>, is, 0, c)
<1> DEFINE h == [j \in 1..0 |-> 1]
           out == <<>>
<1>1. Len(out) = 0 /\ 1..0 = {}
  OBVIOUS
<1>2. h \in [1..0 -> 1..0]
  BY <1>1
<1> HIDE DEF h, out
<1>3. Picks(out, is, 0, c, h)
  BY <1>1, <1>2 DEF Picks
<1> QED
  BY <1>3 DEF Picked, out

LEMMA PicksMore ==
  ASSUME NEW X, NEW is \in Seq(X), NEW out \in Seq(X), NEW c, NEW m \in 1..Len(is), Picked(out, is, m - 1, c),
         Keep(c, is[m])
  PROVE  Picked(Append(out, is[m]), is, m, c)
<1>1. PICK h : Picks(out, is, m - 1, c, h)
  BY DEF Picked
<1> DEFINE n == Len(out)
           new == Append(out, is[m])
           k == [j \in 1..(n + 1) |-> IF j = n + 1 THEN m ELSE h[j]]
<1>2. n \in Nat /\ Len(new) = n + 1 /\ new[n + 1] = is[m] /\ \A j \in 1..n : new[j] = out[j]
  OBVIOUS
<1>3. /\ h \in [1..n -> 1..(m - 1)]
      /\ \A j \in 1..n : out[j] = is[h[j]] /\ Keep(c, is[h[j]])
      /\ \A j, l \in 1..n : j < l => h[j] < h[l]
      /\ \A i \in 1..(m - 1) : Keep(c, is[i]) => \E j \in 1..n : h[j] = i
  BY <1>1 DEF Picks
<1>4. m \in Nat /\ m >= 1
  OBVIOUS
<1> HIDE DEF n, new
<1>5. \A j \in 1..(n + 1) : j = n + 1 \/ j \in 1..n
  BY <1>2
<1>6. \A j \in 1..n : h[j] \in 1..(m - 1) /\ h[j] \in 1..m /\ h[j] < m
  BY <1>3, <1>4
<1>7. k[n + 1] = m /\ \A j \in 1..n : k[j] = h[j] /\ j \in 1..(n + 1)
  BY <1>2
<1>8. k \in [1..(n + 1) -> 1..m]
  BY <1>2, <1>4, <1>5, <1>6
<1> HIDE DEF k
<1>9. \A j \in 1..(n + 1) : new[j] = is[k[j]] /\ Keep(c, is[k[j]])
  BY <1>2, <1>3, <1>5, <1>7
<1>10. ASSUME NEW j \in 1..(n + 1), NEW l \in 1..(n + 1), j < l PROVE k[j] < k[l]
  <2>1. j \in 1..n
    BY <1>2, <1>10
  <2>2. CASE l = n + 1
    BY <1>6, <1>7, <2>1, <2>2
  <2>3. CASE l \in 1..n
    BY <1>3, <1>7, <1>10, <2>1, <2>3
  <2> QED
    BY <1>5, <2>2, <2>3
<1>11. ASSUME NEW i \in 1..m, Keep(c, is[i]) PROVE \E j \in 1..(n + 1) : k[j] = i
  <2>1. CASE i = m
    BY <1>2, <1>7, <2>1
  <2>2. CASE i # m
    <3>1. i \in 1..(m - 1)
      BY <1>4, <2>2
    <3>2. PICK j \in 1..n : h[j] = i
      BY <1>3, <1>11, <3>1
    <3> QED
      BY <1>7, <3>2
  <2> QED
    BY <2>1, <2>2
<1>12. Picks(new, is, m, c, k)
  BY <1>2, <1>8, <1>9, <1>10, <1>11 DEF Picks
<1> QED
  BY <1>12 DEF Picked, new

LEMMA PicksSame ==
  ASSUME NEW X, NEW is \in Seq(X), NEW out \in Seq(X), NEW c, NEW m \in 1..Len(is), Picked(out, is, m - 1, c),
         ~Keep(c, is[m])
  PROVE  Picked(out, is, m, c)
<1>1. PICK h : Picks(out, is, m - 1, c, h)
  BY DEF Picked
<1>2. m \in Nat /\ \A i \in 1..m : i = m \/ i \in 1..(m - 1)
  OBVIOUS
<1>3. \A i \in 1..(m - 1) : i \in 1..m
  BY <1>2
<1>4. Picks(out, is, m, c, h)
  BY <1>1, <1>2, <1>3 DEF Picks
<1> QED
  BY <1>4 DEF Picked

\* Dead code elimination keeps what is to be kept, in its order, and nothing else.
LEMMA SurvivorsPicked ==
  ASSUME NEW X, NEW is \in Seq(X), NEW c
  PROVE  Survivors(c, is) \in Seq(X) /\ Picked(Survivors(c, is), is, Len(is), c)
<1> DEFINE A == Seq(X)
           none == <<>>
           k == Len(is)
<1>0. k \in Nat /\ k \in 0..k /\ none \in A
  OBVIOUS
<1>1. \A s \in A, i \in 1..Len(is) : (IF Keep(c, is[i]) THEN Append(s, is[i]) ELSE s) \in A
  OBVIOUS
<1> HIDE DEF A, none
<1>2. PICK g : SurviveWalk(c, A, none, is, g)
  BY <1>0, <1>1, SurviveWalks
<1>3. /\ g \in [0..k -> A]
      /\ g[0] = none
      /\ \A i \in 1..k : g[i] = IF Keep(c, is[i]) THEN Append(g[i - 1], is[i]) ELSE g[i - 1]
  BY <1>2, Zenon DEF SurviveWalk
<1>4. Survivors(c, is) = g[k]
  BY <1>2, Zenon DEF SurviveWalk, Survivors, none
<1> DEFINE P == {i \in 0..k : Picked(g[i], is, i, c)}
<1>5. 0 \in P
  <2>1. Picked(<<>>, is, 0, c)
    BY PicksNone
  <2> QED
    BY <1>0, <1>3, <2>1 DEF none
<1>6. ASSUME NEW i \in 1..k, i - 1 \in P PROVE i \in P
  <2>1. Picked(g[i - 1], is, i - 1, c) /\ i - 1 \in 0..k /\ i \in 0..k
    BY <1>0, <1>6
  <2>2. g[i - 1] \in Seq(X)
    BY <1>3, <2>1 DEF A
  <2> DEFINE o == g[i - 1]
  <2> HIDE DEF o
  <2>3. o \in Seq(X) /\ Picked(o, is, i - 1, c)
    BY <2>1, <2>2 DEF o
  <2>4. CASE Keep(c, is[i])
    <3>1. Picked(Append(o, is[i]), is, i, c)
      BY <2>3, <2>4, PicksMore
    <3>2. g[i] = Append(o, is[i])
      BY <1>3, <2>4 DEF o
    <3> QED
      BY <2>1, <3>1, <3>2
  <2>5. CASE ~Keep(c, is[i])
    <3>1. Picked(o, is, i, c)
      BY <2>3, <2>5, PicksSame
    <3>2. g[i] = o
      BY <1>3, <2>5 DEF o
    <3> QED
      BY <2>1, <3>1, <3>2
  <2> QED
    BY <2>4, <2>5
<1>7. k \in P
  <2> HIDE DEF P
  <2> QED
    BY <1>0, <1>5, <1>6, OneByOne
<1>8. g[k] \in Seq(X)
  BY <1>0, <1>3 DEF A
<1> QED
  BY <1>4, <1>7, <1>8

\* What is left of a block ends as the block did, if its terminator is kept.
LEMMA PickedShape ==
  ASSUME NEW X, NEW is \in Seq(X), NEW out \in Seq(X), NEW c, ShapeOk(is), Picked(out, is, Len(is), c),
         \A j \in 1..Len(is) : Terminator(is[j]) => Keep(c, is[j])
  PROVE  ShapeOk(out)
<1>1. \A j \in 1..Len(is) : Terminator(is[j]) <=> j = Len(is)
  BY ShapeIs
<1>2. PICK h : Picks(out, is, Len(is), c, h)
  BY DEF Picked
<1> DEFINE n == Len(out)
           m == Len(is)
<1>3. n \in Nat /\ m \in Nat
  OBVIOUS
<1>4. /\ h \in [1..n -> 1..m]
      /\ \A j \in 1..n : out[j] = is[h[j]]
      /\ \A j, k \in 1..n : j < k => h[j] < h[k]
      /\ \A i \in 1..m : Keep(c, is[i]) => \E j \in 1..n : h[j] = i
  BY <1>2 DEF Picks
<1>5. \A j \in 1..m : Terminator(is[j]) <=> j = m
  BY <1>1
<1>6. \A j \in 1..m : Terminator(is[j]) => Keep(c, is[j])
  OBVIOUS
<1> HIDE DEF n, m
<1>7. ASSUME NEW j \in 1..n PROVE Terminator(out[j]) <=> j = n
  <2>1. h[j] \in 1..m /\ (Terminator(out[j]) <=> h[j] = m)
    BY <1>4, <1>5
  <2>2. m \in 1..m
    BY <1>3, <2>1
  <2>3. PICK l \in 1..n : h[l] = m
    BY <1>4, <1>5, <1>6, <2>2
  <2>4. n \in 1..n /\ h[n] \in 1..m
    BY <1>3, <1>4
  <2>5. l = n
    <3>1. l < n => h[l] < h[n]
      BY <1>4, <2>4
    <3> QED
      BY <1>3, <2>3, <2>4, <3>1
  <2>6. h[j] = m => j = n
    <3>1. j < n => h[j] < h[n]
      BY <1>4, <2>4
    <3> QED
      BY <1>3, <2>1, <2>3, <2>4, <2>5, <3>1
  <2> QED
    BY <2>1, <2>3, <2>5, <2>6
<1>8. \A j \in 1..Len(out) : Terminator(out[j]) <=> j = Len(out)
  BY <1>7 DEF n
<1> QED
  BY <1>8, ShapeIs

\* Terminators have effects.
LEMMA TerminatorsKept ==
  ASSUME NEW i, NEW c, Terminator(i)
  PROVE  Keep(c, i)
BY DEF Terminator, Keep, Effects

Thinned(c) == [b \in DOMAIN c |-> Survivors(c, c[b])]

\* A sweep of dead code elimination leaves a well made function and no definition twice.
LEMMA ThinnedWell ==
  ASSUME NEW n \in Nat, NEW c, WellMade(c, n)
  PROVE  WellMade(Thinned(c), n) /\ (SingleAssignment(c) => SingleAssignment(Thinned(c)))
<1> DEFINE d == Thinned(c)
<1>1. DOMAIN c = 0..(n - 1) /\ \A b \in 0..(n - 1) : c[b] \in Seq(Insts(n)) /\ d[b] = Survivors(c, c[b])
  BY DEF WellMade, Thinned
<1>2. \A b \in 0..(n - 1) : d[b] \in Seq(Insts(n)) /\ Picked(d[b], c[b], Len(c[b]), c)
  BY <1>1, SurvivorsPicked
<1>3. d \in [0..(n - 1) -> Seq(Insts(n))]
  BY <1>1, <1>2 DEF Thinned
<1> HIDE DEF d
<1>4. ASSUME NEW b \in 0..(n - 1) PROVE ShapeOk(d[b]) /\ \A j \in 1..Len(d[b]) : Formed(d[b][j])
  <2>1. ShapeOk(c[b]) /\ \A j \in 1..Len(c[b]) : Formed(c[b][j])
    BY DEF WellMade
  <2>2. ShapeOk(d[b])
    BY <1>1, <1>2, <2>1, TerminatorsKept, PickedShape
  <2>3. PICK h : Picks(d[b], c[b], Len(c[b]), c, h)
    BY <1>2 DEF Picked
  <2> QED
    BY <2>1, <2>2, <2>3 DEF Picks
<1>5. WellMade(d, n)
  BY <1>3, <1>4 DEF WellMade
<1>6. ASSUME SingleAssignment(c) PROVE SingleAssignment(d)
  <2>1. OnceEach(c, n)
    BY <1>6, Singly DEF WellMade
  <2> DEFINE H(b) == CHOOSE h : Picks(d[b], c[b], Len(c[b]), c, h)
  <2>2. \A b \in 0..(n - 1) : Picks(d[b], c[b], Len(c[b]), c, H(b))
    BY <1>2 DEF Picked
  <2> HIDE DEF H
  <2>3. ASSUME NEW b \in 0..(n - 1), NEW j \in 1..Len(d[b])
        PROVE  H(b)[j] \in 1..Len(c[b]) /\ d[b][j] = c[b][H(b)[j]]
    BY <2>2 DEF Picks
  <2>4. ASSUME NEW b \in 0..(n - 1), NEW j \in 1..Len(d[b]), d[b][j].dst # NoVreg
        PROVE  d[b][j].dst \notin Params
    BY <2>1, <2>3, <2>4 DEF OnceEach
  <2>5. ASSUME NEW b \in 0..(n - 1), NEW j \in 1..Len(d[b]), d[b][j].dst # NoVreg,
               NEW e \in 0..(n - 1), NEW k \in 1..Len(d[e]), d[e][k].dst = d[b][j].dst
        PROVE  e = b /\ k = j
    <3> DEFINE x == H(b)[j]
               y == H(e)[k]
    <3>0. x \in 1..Len(c[b]) /\ y \in 1..Len(c[e]) /\ d[b][j] = c[b][x] /\ d[e][k] = c[e][y]
      BY <2>3
    <3> HIDE DEF x, y
    <3>a. c[b][x].dst # NoVreg /\ c[e][y].dst = c[b][x].dst
      BY <2>5, <3>0
    <3>b. e = b /\ y = x
      BY <2>1, <3>0, <3>a DEF OnceEach
    <3>1. e = b /\ H(e)[k] = H(b)[j]
      BY <3>b DEF x, y
    <3>2. \A u, v \in 1..Len(d[b]) : u < v => H(b)[u] < H(b)[v]
      BY <2>2 DEF Picks
    <3>3. H(b)[j] \in Nat /\ j \in Nat /\ k \in Nat /\ k \in 1..Len(d[b]) /\ H(b)[k] = H(b)[j]
      BY <1>1, <2>3, <3>1
    <3> QED
      BY <3>1, <3>2, <3>3
  <2>6. OnceEach(d, n)
    BY <2>4, <2>5 DEF OnceEach
  <2> QED
    BY <1>3, <2>6, Singly
<1> QED
  BY <1>5, <1>6 DEF d

-------------------------------------------------------------------------------
\* opt_copy_prop, and the rewriting of opt_sccp.

\* A pass that puts another instruction in the place of each.
LEMMA EachReplaced ==
  ASSUME NEW n \in Nat, NEW c, WellMade(c, n), NEW d, DOMAIN d = DOMAIN c,
         \A b \in 0..(n - 1) : d[b] = [j \in DOMAIN c[b] |-> d[b][j]],
         \A b \in 0..(n - 1) : \A j \in 1..Len(c[b]) : Replaces(d[b][j], c[b][j], n),
         d = [b \in DOMAIN d |-> d[b]]
  PROVE  Mirrors(d, c, n)
<1>1. DOMAIN d = 0..(n - 1) /\ \A b \in 0..(n - 1) : c[b] \in Seq(Insts(n))
  BY DEF WellMade
<1>2. ASSUME NEW b \in 0..(n - 1) PROVE d[b] \in Seq(Insts(n)) /\ Len(d[b]) = Len(c[b])
  <2> DEFINE k == Len(c[b])
             t == d[b]
  <2>1. k \in Nat /\ DOMAIN c[b] = 1..k
    BY <1>1
  <2>2. \A j \in 1..k : t[j] \in Insts(n)
    BY DEF Replaces
  <2>3. t = [j \in 1..k |-> t[j]]
    BY <2>1
  <2> HIDE DEF k, t
  <2>4. t \in Seq(Insts(n)) /\ Len(t) = k
    BY <2>1, <2>2, <2>3
  <2> QED
    BY <2>4 DEF k, t
<1>3. d \in [0..(n - 1) -> Seq(Insts(n))]
  BY <1>1, <1>2
<1> QED
  BY <1>2, <1>3 DEF Mirrors, Replaces

LEMMA ArgsReplace ==
  ASSUME NEW n, NEW i \in Insts(n), Formed(i), NEW a \in Seq(Vregs), Len(a) = Len(i.args)
  PROVE  Replaces([i EXCEPT !.args = a], i, n)
<1> DEFINE e == [i EXCEPT !.args = a]
<1>1. e \in Insts(n)
  BY DEF Insts
<1>2. e.op = i.op /\ e.kind = i.kind /\ e.dst = i.dst /\ e.bbs = i.bbs /\ e.args = a
  BY DEF Insts
<1> HIDE DEF e
<1>3. Formed(e) /\ (Terminator(e) <=> Terminator(i))
  BY <1>2 DEF Formed, Terminator
<1> QED
  BY <1>1, <1>2, <1>3 DEF Replaces, e

LEMMA SelfReplace ==
  ASSUME NEW n, NEW i \in Insts(n), Formed(i)
  PROVE  Replaces(i, i, n)
BY DEF Replaces

LEMMA InstAt ==
  ASSUME NEW n \in Nat, NEW c, WellMade(c, n), NEW b \in 0..(n - 1), NEW j \in 1..Len(c[b])
  PROVE  c[b][j] \in Insts(n) /\ Formed(c[b][j])
<1>1. c[b] \in Seq(Insts(n))
  BY DEF WellMade
<1> QED
  BY <1>1 DEF WellMade

-----------------------------------------------------------------------------
\* opt_copy_prop.

\* A copy is of a vreg, and so is the end of a chain of copies.
LEMMA CopyOfVregs ==
  ASSUME NEW n \in Nat, NEW c, WellMade(c, n)
  PROVE  CopyOf(c) \in [Vregs -> Vregs]
<1> DEFINE copies(v) == {i \in Instructions(c) : i.op = "PHI" /\ Len(i.args) = 1 /\ i.dst = v}
           e(v) == IF copies(v) = {} THEN v ELSE (CHOOSE i \in copies(v) : TRUE).args[1]
<1>1. ASSUME NEW v \in Vregs PROVE e(v) \in Vregs
  <2>1. CASE copies(v) = {}
    BY <2>1
  <2>2. CASE copies(v) # {}
    <3> DEFINE i == CHOOSE i \in copies(v) : TRUE
    <3>1. i \in copies(v)
      BY <2>2
    <3>2. i \in Instructions(c) /\ Len(i.args) = 1
      BY <3>1
    <3>3. e(v) = i.args[1]
      BY <2>2
    <3> HIDE DEF i
    <3>4. i.args \in Seq(Vregs)
      <4>1. i \in Insts(n)
        BY <3>2, InstructionsAre
      <4> QED
        BY <4>1 DEF Insts
    <3>5. i.args[1] \in Vregs
      BY <3>2, <3>4
    <3> QED
      BY <3>3, <3>5
  <2> QED
    BY <2>1, <2>2
<1>2. CopyOf(c) = [v \in Vregs |-> e(v)]
  BY DEF CopyOf
<1> HIDE DEF e
<1> QED
  BY <1>1, <1>2

LEMMA OriginVregs ==
  ASSUME NEW n \in Nat, NEW c, WellMade(c, n)
  PROVE  Origin(c) \in [Vregs -> Vregs]
<1> DEFINE map == CopyOf(c)
           q == [m \in 1..NVregs |-> m]
           e(v) == Fold(LAMBDA w, m : map[w], v, q)
<1>1. map \in [Vregs -> Vregs]
  BY CopyOfVregs
<1>2. q \in Seq(Nat)
  BY OptimizerAssumption
<1> HIDE DEF map, q
<1>3. \A s \in Vregs, i \in 1..Len(q) : map[s] \in Vregs
  BY <1>1
<1>4. ASSUME NEW v \in Vregs PROVE e(v) \in Vregs
  <2>1. PICK g : ChainWalk(map, Vregs, v, q, g)
    BY <1>2, <1>3, ChainWalks
  <2>2. g \in [0..Len(q) -> Vregs] /\ e(v) = g[Len(q)]
    BY <2>1, Zenon DEF ChainWalk
  <2>3. Len(q) \in 0..Len(q)
    BY <1>2
  <2> HIDE DEF e
  <2> QED
    BY <2>2, <2>3
<1>5. Origin(c) = [v \in Vregs |-> e(v)]
  BY Zenon DEF Origin, map, q
<1> HIDE DEF e
<1> QED
  BY <1>4, <1>5

\* Replacing operands by vregs, whichever.
LEMMA SubstituteMirrors ==
  ASSUME NEW n \in Nat, NEW c, WellMade(c, n), NEW map \in [Vregs -> Vregs]
  PROVE  Mirrors(Substitute(c, map), c, n)
<1> DEFINE d == Substitute(c, map)
           a(i) == [m \in DOMAIN i.args |-> map[i.args[m]]]
<1>1. DOMAIN c = 0..(n - 1)
  BY DEF WellMade
<1>2. d = [b \in DOMAIN c |-> [j \in DOMAIN c[b] |-> [c[b][j] EXCEPT !.args = a(c[b][j])]]]
  BY DEF Substitute
<1>3. ASSUME NEW b \in 0..(n - 1), NEW j \in 1..Len(c[b])
      PROVE  Replaces([c[b][j] EXCEPT !.args = a(c[b][j])], c[b][j], n)
  <2> DEFINE i == c[b][j]
  <2>1. i \in Insts(n) /\ Formed(i)
    BY InstAt
  <2> HIDE DEF i
  <2>2. i.args \in Seq(Vregs)
    BY <2>1 DEF Insts
  <2>3. a(i) \in Seq(Vregs) /\ Len(a(i)) = Len(i.args)
    BY <2>2
  <2> HIDE DEF a
  <2>4. Replaces([i EXCEPT !.args = a(i)], i, n)
    BY <2>1, <2>3, ArgsReplace
  <2> QED
    BY <2>4 DEF i
<1> HIDE DEF a, d
<1>4. \A b \in 0..(n - 1) : DOMAIN c[b] = 1..Len(c[b])
  <2>1. \A b \in 0..(n - 1) : c[b] \in Seq(Insts(n))
    BY DEF WellMade
  <2> QED
    BY <2>1
<1>5. \A b \in 0..(n - 1) : \A j \in 1..Len(c[b]) : Replaces(d[b][j], c[b][j], n)
  BY <1>1, <1>2, <1>3, <1>4
<1>6. DOMAIN d = DOMAIN c /\ d = [b \in DOMAIN d |-> d[b]]
  BY <1>2
<1>7. \A b \in 0..(n - 1) : d[b] = [j \in DOMAIN c[b] |-> d[b][j]]
  BY <1>1, <1>2
<1>8. Mirrors(d, c, n)
  BY <1>5, <1>6, <1>7, EachReplaced
<1> QED
  BY <1>8 DEF d

-----------------------------------------------------------------------------
\* opt_sccp, the rewriting.

Lattice == [state : {"top", "const", "bottom"}, value : Int]

\* A known constant for a definition, a jump for a branch on a constant.
LEMMA RewrittenReplaces ==
  ASSUME NEW n \in Nat, NEW i \in Insts(n), Formed(i), lattice \in [Vregs -> Lattice]
  PROVE  Replaces(Rewritten(i), i, n)
<1>0. i.dst \in Vregs \cup {NoVreg} /\ i.args \in Seq(Vregs) /\ i.bbs \in Seq(0..(n - 1))
  BY DEF Insts
<1>1. CASE i.dst # NoVreg /\ lattice[i.dst].state = "const"
  <2>1. lattice[i.dst].value \in Int
    BY <1>0, <1>1 DEF Lattice
  <2>2. ~Terminator(i)
    BY <1>1 DEF Formed, Terminator
  <2>3. i.op # "BRANCH"
    BY <2>2 DEF Terminator
  <2>4. Rewritten(i) = IF i.op = "CONST" THEN i ELSE AsConst(i, lattice[i.dst].value)
    BY <1>1, <2>3 DEF Rewritten
  <2>5. Replaces(AsConst(i, lattice[i.dst].value), i, n)
    BY <2>1, <2>2, AsConstReplaces
  <2> QED
    BY <2>4, <2>5, SelfReplace
<1>2. CASE i.op = "BRANCH" /\ lattice[i.args[1]].state = "const"
  <2> DEFINE k == IF lattice[i.args[1]].value # 0 THEN 1 ELSE 2
             bs == <<i.bbs[k]>>
             none == <<>>
             e == Inst("JUMP", "", NoVreg, none, 0, bs)
  <2>1. i.dst = NoVreg /\ Len(i.bbs) = 2
    BY <1>2 DEF Formed
  <2>2. Rewritten(i) = e
    BY <1>2, <2>1 DEF Rewritten
  <2>3. k \in 1..2
    OBVIOUS
  <2> HIDE DEF k
  <2>4. i.bbs[k] \in 0..(n - 1)
    BY <1>0, <2>1, <2>3
  <2>5. bs \in Seq(0..(n - 1)) /\ none \in Seq(Vregs)
    BY <2>4
  <2>6. e = [op |-> "JUMP", kind |-> "", dst |-> NoVreg, args |-> none, imm |-> 0, bbs |-> bs]
    BY DEF Inst
  <2> HIDE DEF e, bs, none
  <2>7. "JUMP" \in Ops /\ "" \in BinKinds \cup CmpKinds \cup UnKinds \cup {""}
    BY DEF Ops
  <2>8. e \in Insts(n)
    <3>1. 0 \in Int /\ NoVreg \in Vregs \cup {NoVreg}
      OBVIOUS
    <3> QED
      BY ONLY <2>5, <2>6, <2>7, <3>1, Zenon DEF Insts
  <2>9. e.op = "JUMP" /\ e.dst = NoVreg
    BY <2>6
  <2>10. Formed(e) /\ Terminator(e) /\ Terminator(i)
    BY <1>2, <2>9 DEF Formed, Terminator
  <2> QED
    BY <2>1, <2>2, <2>8, <2>9, <2>10 DEF Replaces
<1>3. CASE /\ ~(i.dst # NoVreg /\ lattice[i.dst].state = "const")
           /\ ~(i.op = "BRANCH" /\ lattice[i.args[1]].state = "const")
  <2>1. Rewritten(i) = i
    BY <1>3 DEF Rewritten
  <2> QED
    BY <2>1, SelfReplace
<1> QED
  BY <1>1, <1>2, <1>3

\* The rewriting of SCCP.
LEMMA RewriteMirrors ==
  ASSUME NEW n \in Nat, WellMade(code, n), lattice \in [Vregs -> Lattice], SccpRewrite
  PROVE  Mirrors(code', code, n)
<1> DEFINE c == code
           d == [b \in DOMAIN c |-> [j \in DOMAIN c[b] |-> Rewritten(c[b][j])]]
<1>1. DOMAIN c = 0..(n - 1) /\ \A b \in 0..(n - 1) : DOMAIN c[b] = 1..Len(c[b])
  <2>1. c \in [0..(n - 1) -> Seq(Insts(n))]
    BY DEF WellMade
  <2>2. \A b \in 0..(n - 1) : c[b] \in Seq(Insts(n))
    BY <2>1
  <2> QED
    BY <2>1, <2>2
<1>2. code' = d
  BY DEF SccpRewrite, Blocks
<1>3. ASSUME NEW b \in 0..(n - 1), NEW j \in 1..Len(c[b])
      PROVE  Replaces(Rewritten(c[b][j]), c[b][j], n)
  BY InstAt, RewrittenReplaces
<1>4. \A b \in 0..(n - 1) : \A j \in 1..Len(c[b]) : Replaces(d[b][j], c[b][j], n)
  BY <1>1, <1>3
<1>5. DOMAIN d = DOMAIN c /\ d = [b \in DOMAIN d |-> d[b]]
  OBVIOUS
<1>6. \A b \in 0..(n - 1) : d[b] = [j \in DOMAIN c[b] |-> d[b][j]]
  BY <1>1
<1> HIDE DEF d
<1>7. Mirrors(d, c, n)
  BY <1>4, <1>5, <1>6, EachReplaced
<1> QED
  BY <1>2, <1>7

-------------------------------------------------------------------------------
\* opt_cse.

\* Replacing one vreg by another in all operands.
LEMMA ReplaceUsesMirrors ==
  ASSUME NEW n \in Nat, NEW c, WellMade(c, n), NEW old, NEW new \in Vregs
  PROVE  Mirrors(ReplaceUses(c, old, new), c, n)
<1> DEFINE d == ReplaceUses(c, old, new)
           a(i) == [m \in DOMAIN i.args |-> IF i.args[m] = old THEN new ELSE i.args[m]]
           e(i) == IF i.op = "GEP" THEN i ELSE [i EXCEPT !.args = a(i)]
<1>1. DOMAIN c = 0..(n - 1)
  BY DEF WellMade
<1>2. d = [b \in DOMAIN c |-> [j \in DOMAIN c[b] |-> e(c[b][j])]]
  BY DEF ReplaceUses
<1>3. ASSUME NEW b \in 0..(n - 1), NEW j \in 1..Len(c[b])
      PROVE  Replaces(e(c[b][j]), c[b][j], n)
  <2> DEFINE i == c[b][j]
  <2>1. i \in Insts(n) /\ Formed(i)
    BY InstAt
  <2> HIDE DEF i
  <2>2. i.args \in Seq(Vregs)
    BY <2>1 DEF Insts
  <2>3. a(i) \in Seq(Vregs) /\ Len(a(i)) = Len(i.args)
    BY <2>2
  <2> HIDE DEF a
  <2>4. Replaces([i EXCEPT !.args = a(i)], i, n)
    BY <2>1, <2>3, ArgsReplace
  <2>5. Replaces(e(i), i, n)
    BY <2>1, <2>4, SelfReplace
  <2> QED
    BY <2>5 DEF i
<1> HIDE DEF e, d
<1>4. \A b \in 0..(n - 1) : DOMAIN c[b] = 1..Len(c[b])
  <2>1. \A b \in 0..(n - 1) : c[b] \in Seq(Insts(n))
    BY DEF WellMade
  <2> QED
    BY <2>1
<1>5. \A b \in 0..(n - 1) : \A j \in 1..Len(c[b]) : Replaces(d[b][j], c[b][j], n)
  BY <1>1, <1>2, <1>3, <1>4
<1>6. DOMAIN d = DOMAIN c /\ d = [b \in DOMAIN d |-> d[b]]
  BY <1>2
<1>7. \A b \in 0..(n - 1) : d[b] = [j \in DOMAIN c[b] |-> d[b][j]]
  BY <1>1, <1>2
<1>8. Mirrors(d, c, n)
  BY <1>5, <1>6, <1>7, EachReplaced
<1> QED
  BY <1>8 DEF d

Keys == Ops \X (BinKinds \cup CmpKinds \cup UnKinds \cup {""}) \X Seq(Vregs)
Entries(n) == [block : 0..(n - 1), key : Keys, vreg : Vregs]
CseStates(c, n, L) == [code : Mirrored(c, n), table : SUBSET Entries(n), lapses : SUBSET L]

LEMMA MirroredOn ==
  ASSUME NEW n \in Nat, NEW c, NEW d \in Mirrored(c, n), NEW e \in Mirrored(d, n)
  PROVE  e \in Mirrored(c, n)
BY MirrorsOn DEF Mirrored

LEMMA MirroredSites ==
  ASSUME NEW n \in Nat, NEW c, WellMade(c, n), NEW d \in Mirrored(c, n), NEW p \in Sites(c)
  PROVE  p \in Sites(d) /\ p[1] \in 0..(n - 1)
<1>1. c \in [0..(n - 1) -> Seq(Insts(n))] /\ d \in [0..(n - 1) -> Seq(Insts(n))] /\ Mirrors(d, c, n)
  BY DEF WellMade, Mirrored
<1>2. PICK b, j : b \in 0..(n - 1) /\ j \in 1..Len(c[b]) /\ p = <<b, j>>
  <2>1. \A r : r \in Sites(c) <=> (\E b, j : b \in 0..(n - 1) /\ j \in 1..Len(c[b]) /\ r = <<b, j>>)
    BY <1>1, SitesAre
  <2> QED
    BY <2>1, Zenon
<1>3. j \in 1..Len(d[b]) /\ p[1] = b
  BY <1>1, <1>2 DEF Mirrors
<1>4. <<b, j>> \in Sites(d)
  BY <1>1, <1>2, <1>3, SitesAre
<1> QED
  BY <1>2, <1>3, <1>4

\* Looking at one instruction: remembered, replaced by an earlier one, or neither.
LEMMA CseInstIn ==
  ASSUME NEW n \in Nat, NEW c, WellMade(c, n), NEW L, "gep" \in L,
         NEW s \in CseStates(c, n, L), NEW p \in Sites(c)
  PROVE  CseInst(s, p) \in CseStates(c, n, L)
<1> DEFINE i == At(s.code, p)
<1>1. s.code \in Mirrored(c, n) /\ s.table \in SUBSET Entries(n) /\ s.lapses \in SUBSET L
  BY DEF CseStates
<1>2. WellMade(s.code, n)
  BY <1>1, MirrorsWell DEF Mirrored
<1>3. p \in Sites(s.code) /\ p[1] \in 0..(n - 1)
  BY <1>1, MirroredSites
<1>4. i \in Insts(n) /\ Formed(i)
  BY <1>1, AtIn
<1>5. CASE i.op \notin {"BINOP", "CMP", "UNOP"}
  BY <1>5 DEF CseInst
<1>6. CASE i.op \in {"BINOP", "CMP", "UNOP"} /\ Earlier(s, p) = {}
  <2> DEFINE x == [block |-> p[1], key |-> Key(i), vreg |-> i.dst]
  <2>1. CseInst(s, p) = [s EXCEPT !.table = @ \cup {x}]
    BY <1>6 DEF CseInst
  <2>2. x \in Entries(n)
    <3> HIDE DEF i
    <3>1. i.dst \in Vregs
      BY <1>4, <1>6 DEF Formed, Insts
    <3>2. Key(i) \in Keys
      BY <1>4 DEF Insts, Key, Keys
    <3> QED
      BY <1>3, <3>1, <3>2 DEF Entries
  <2> HIDE DEF x
  <2> QED
    BY <1>1, <2>1, <2>2 DEF CseStates
<1>7. CASE i.op \in {"BINOP", "CMP", "UNOP"} /\ Earlier(s, p) # {}
  <2> DEFINE e == CHOOSE f \in Earlier(s, p) : TRUE
             d == ReplaceUses(s.code, i.dst, e.vreg)
             k == Put(d, p, AsConst(i, 0))
             l == IF GepReads(s.code, i.dst) THEN s.lapses \cup {"gep"} ELSE s.lapses
  <2>1. CseInst(s, p) = [s EXCEPT !.code = k, !.lapses = l]
    <3>1. CseInst(s, p) =
            [s EXCEPT !.code = Put(ReplaceUses(@, i.dst, e.vreg), p, AsConst(i, 0)),
                      !.lapses = IF GepReads(s.code, i.dst) THEN @ \cup {"gep"} ELSE @]
      BY <1>7, Zenon DEF CseInst
    <3> QED
      BY <3>1, Zenon
  <2>2. e \in Earlier(s, p)
    BY <1>7
  <2>3. e.vreg \in Vregs
    <3>1. e \in Entries(n)
      BY <1>1, <2>2 DEF Earlier
    <3> HIDE DEF e
    <3> QED
      BY <3>1 DEF Entries
  <2> HIDE DEF e
  <2>4. d \in Mirrored(s.code, n)
    <3>1. Mirrors(d, s.code, n)
      BY <1>2, <2>3, ReplaceUsesMirrors
    <3> QED
      BY <3>1 DEF Mirrored, Mirrors
  <2> HIDE DEF d
  <2>5. Replaces(AsConst(i, 0), At(d, p), n)
    <3>1. At(d, p).dst = i.dst /\ (Terminator(At(d, p)) <=> Terminator(i))
      BY <1>2, <1>3, <2>4, AtIn
    <3>2. ~Terminator(i)
      BY <1>7 DEF Terminator
    <3> HIDE DEF i
    <3>3. Replaces(AsConst(i, 0), i, n)
      BY <1>4, <3>2, AsConstReplaces
    <3> QED
      BY <3>1, <3>3 DEF Replaces
  <2>6. k \in Mirrored(s.code, n)
    BY <1>2, <1>3, <2>4, <2>5, MirrorPut
  <2>7. k \in Mirrored(c, n)
    BY <1>1, <2>6, MirroredOn
  <2>8. l \in SUBSET L
    BY <1>1
  <2> HIDE DEF k, l
  <2> QED
    BY <1>1, <2>1, <2>7, <2>8 DEF CseStates
<1> QED
  BY <1>5, <1>6, <1>7

\* Common subexpression elimination.
LEMMA CseMirrors ==
  ASSUME NEW n \in Nat, WellMade(code, n), Cse
  PROVE  code' \in Mirrored(code, n)
<1> DEFINE L == lapses \cup {"gep"}
           A == CseStates(code, n, L)
           q == Places(code)
           none == {}
           base == [code |-> code, table |-> none, lapses |-> lapses]
<1>1. q \in Seq(Sites(code))
  BY PlacesIn
<1>2. base \in A
  <2>1. code \in Mirrored(code, n)
    BY MirrorsSelf DEF WellMade, Mirrored
  <2> QED
    BY <2>1 DEF CseStates
<1>3. \A s \in A, i \in 1..Len(q) : CseInst(s, q[i]) \in A
  <2> SUFFICES ASSUME NEW s \in A, NEW i \in 1..Len(q) PROVE CseInst(s, q[i]) \in A
    OBVIOUS
  <2> HIDE DEF q
  <2>1. q[i] \in Sites(code)
    BY <1>1
  <2>2. "gep" \in L
    OBVIOUS
  <2> HIDE DEF L
  <2> QED
    BY <2>1, <2>2, CseInstIn
<1>4. code' = Fold(CseInst, base, q).code
  BY DEF Cse
<1> HIDE DEF A, q, base
<1>5. PICK g : CseInstWalk(A, base, q, g)
  BY <1>1, <1>2, <1>3, CseInstWalks
<1>6. Fold(CseInst, base, q) \in A
  <2>1. Len(q) \in 0..Len(q)
    BY <1>1
  <2> QED
    BY <1>5, <2>1, Zenon DEF CseInstWalk
<1> DEFINE r == Fold(CseInst, base, q)
<1> HIDE DEF r
<1>7. r \in A /\ code' = r.code
  BY <1>4, <1>6 DEF r
<1> QED
  BY <1>7 DEF A, CseStates

-------------------------------------------------------------------------------
\* opt_sccp: places in the lattice.

\* opt_sccp: places in the lattice only fall.

Falls(a, b) == /\ Rank(a) <= Rank(b)
               /\ a.state = "const" /\ b.state = "const" => a = b

LatticeFalls(l, m) == \A v \in Vregs : Falls(l[v], m[v])

\* Falling, by no step, one step and two.
LEMMA FallsSelf == ASSUME NEW a \in Lattice PROVE Falls(a, a)
  BY DEF Falls, Rank, Lattice

LEMMA FallsOn ==
  ASSUME NEW a \in Lattice, NEW b \in Lattice, NEW c \in Lattice, Falls(a, b), Falls(b, c)
  PROVE  Falls(a, c)
<1>1. Rank(a) \in 0..2 /\ Rank(b) \in 0..2 /\ Rank(c) \in 0..2
  BY DEF Rank, Lattice
<1>2. Rank(a) <= Rank(c)
  BY <1>1 DEF Falls
<1>3. ASSUME a.state = "const", c.state = "const" PROVE a = c
  <2>1. Rank(a) = 1 /\ Rank(c) = 1
    BY <1>3 DEF Rank
  <2>2. Rank(b) = 1
    BY <1>1, <2>1 DEF Falls
  <2>3. b.state = "const"
    BY <2>2 DEF Rank, Lattice
  <2> QED
    BY <1>3, <2>3 DEF Falls
<1> QED
  BY <1>2, <1>3 DEF Falls

LEMMA Alike ==
  ASSUME NEW a \in Lattice, NEW b \in Lattice, a.state = b.state, a.value = b.value
  PROVE  a = b
BY DEF Lattice

LEMMA BottomIs == ASSUME NEW x \in Int PROVE Bottom(x) \in Lattice /\ Bottom(x).state = "bottom" /\ Bottom(x).value = x
  BY DEF Bottom, Lattice

LEMMA ConstantIs == ASSUME NEW x \in Int PROVE Constant(x) \in Lattice /\ Constant(x).state = "const" /\ Constant(x).value = x
  BY DEF Constant, Lattice

LEMMA TopIs == Top \in Lattice /\ Top.state = "top"
  BY DEF Top, Lattice

\* What Meet gives, case by case.
LEMMA MeetIs ==
  ASSUME NEW a \in Lattice, NEW w \in Lattice
  PROVE  /\ Meet(a, w) \in Lattice
         /\ w.state = "bottom" \/ a.state = "bottom" => Meet(a, w).state = "bottom"
         /\ w.state = "top" => Meet(a, w) = a
         /\ a.state = "top" /\ w.state = "const" => Meet(a, w) = w
         /\ a.state = "const" /\ w.state = "const" =>
              IF a.value = w.value THEN Meet(a, w) = w ELSE Meet(a, w).state = "bottom"
<1>0. a.value \in Int /\ {a.state, w.state} \subseteq {"top", "const", "bottom"}
  BY DEF Lattice
<1>1. Bottom(a.value) \in Lattice /\ Bottom(a.value).state = "bottom"
  BY <1>0, BottomIs
<1>2. CASE w.state = "bottom"
  <2>1. Meet(a, w) = Bottom(a.value)
    BY <1>2 DEF Meet
  <2> QED
    BY <1>1, <1>2, <2>1
<1>3. CASE w.state # "bottom" /\ (w.state = "top" \/ a.state = "bottom")
  <2>1. Meet(a, w) = a
    BY <1>3 DEF Meet
  <2> QED
    BY <1>3, <2>1
<1>4. CASE w.state = "const" /\ a.state # "bottom"
  <2>1. Meet(a, w) = IF a.state = "top" \/ a.value = w.value THEN w ELSE Bottom(a.value)
    BY <1>4 DEF Meet
  <2> QED
    BY <1>1, <1>4, <2>1
<1> QED
  BY <1>0, <1>2, <1>3, <1>4

LEMMA MeetFalls ==
  ASSUME NEW a \in Lattice, NEW b \in Lattice, NEW w \in Lattice, NEW x \in Lattice,
         Falls(a, b), Falls(w, x)
  PROVE  Falls(Meet(a, w), Meet(b, x))
<1>0. \A y \in Lattice : y.state \in {"top", "const", "bottom"} /\
                         Rank(y) = IF y.state = "top" THEN 0 ELSE IF y.state = "const" THEN 1 ELSE 2
  BY DEF Rank, Lattice
<1> DEFINE r == Meet(a, w)
           s == Meet(b, x)
<1>r. /\ r \in Lattice
      /\ w.state = "top" => r = a
      /\ a.state = "top" /\ w.state = "const" => r = w
      /\ a.state = "const" /\ w.state = "const" =>
           IF a.value = w.value THEN r = w ELSE r.state = "bottom"
  BY MeetIs
<1>s. /\ s \in Lattice
      /\ x.state = "bottom" \/ b.state = "bottom" => s.state = "bottom"
      /\ x.state = "top" => s = b
      /\ b.state = "top" /\ x.state = "const" => s = x
      /\ b.state = "const" /\ x.state = "const" =>
           IF b.value = x.value THEN s = x ELSE s.state = "bottom"
  BY MeetIs
<1>rs. b = a /\ x = w => s = r
  OBVIOUS
<1> HIDE DEF r, s
<1>1. a.state \in {"top", "const", "bottom"} /\ w.state \in {"top", "const", "bottom"}
  BY <1>0
<1>2. CASE b.state = "bottom" \/ x.state = "bottom"
  <2>1. s.state = "bottom"
    BY <1>2, <1>s
  <2>2. Falls(r, s)
    BY <1>0, <1>r, <1>s, <2>1 DEF Falls
  <2> QED
    BY <2>2 DEF r, s
<1>3. CASE b.state # "bottom" /\ x.state # "bottom"
  <2>1. a.state # "bottom" /\ w.state # "bottom"
    BY <1>0, <1>3 DEF Falls
  <2>a. a.state = "const" => b = a
    BY <1>0, <1>3 DEF Falls
  <2>w. w.state = "const" => x = w
    BY <1>0, <1>3 DEF Falls
  <2>2. ASSUME w.state = "top" PROVE Falls(r, s)
    <3>1. r = a
      BY <2>2, <1>r
    <3>2. CASE x.state = "top"
      BY <1>s, <3>1, <3>2
    <3>3. CASE x.state = "const" /\ b.state = "top"
      <4>1. s = x /\ a.state = "top"
        BY <1>1, <1>s, <2>1, <2>a, <3>3
      <4> QED
        BY <1>0, <1>s, <3>1, <3>3, <4>1 DEF Falls
    <3>4. CASE x.state = "const" /\ b.state = "const"
      <4>1. s = b \/ s.state = "bottom"
        <5>1. b.value = x.value => b = x
          BY <3>4, Alike
        <5> QED
          BY <1>s, <3>4, <5>1
      <4>2. CASE s = b
        BY <3>1, <4>2
      <4>3. CASE s.state = "bottom"
        BY <1>0, <1>r, <1>s, <4>3 DEF Falls
      <4> QED
        BY <4>1, <4>2, <4>3
    <3> QED
      BY <1>0, <1>3, <3>2, <3>3, <3>4
  <2>3. ASSUME w.state = "const" PROVE Falls(r, s)
    <3>1. x = w
      BY <2>3, <2>w
    <3>2. CASE a.state = "top"
      <4>1. r = w
        BY <2>3, <3>2, <1>r
      <4>2. CASE b.state = "top"
        <5>1. s = w
          BY <1>s, <2>3, <3>1, <4>2
        <5> QED
          BY <4>1, <5>1, FallsSelf
      <4>3. CASE b.state = "const"
        <5>1. s = w \/ s.state = "bottom"
          BY <1>s, <2>3, <3>1, <4>3
        <5>2. CASE s = w
          BY <4>1, <5>2, FallsSelf
        <5>3. CASE s.state = "bottom"
          BY <1>0, <1>r, <1>s, <5>3 DEF Falls
        <5> QED
          BY <5>1, <5>2, <5>3
      <4> QED
        BY <1>0, <1>3, <4>2, <4>3
    <3>3. CASE a.state = "const"
      <4>1. s = r
        BY <1>rs, <2>a, <3>1, <3>3
      <4> QED
        BY <1>r, <4>1, FallsSelf
    <3> QED
      BY <1>1, <2>1, <3>2, <3>3
  <2>4. Falls(r, s)
    BY <1>1, <2>1, <2>2, <2>3
  <2> QED
    BY <2>4 DEF r, s
<1> QED
  BY <1>2, <1>3

PhiValue(i, l) == Fold(Meet, Top, [j \in DOMAIN i.args |-> l[i.args[j]]])

PhiWalk(i, l, vs, g) ==
  /\ g \in [0..Len(vs) -> Lattice]
  /\ g[0] = Top
  /\ \A j \in 1..Len(vs) : g[j] = Meet(g[j - 1], l[vs[j]])
  /\ PhiValue(i, l) = g[Len(vs)]

LEMMA PhiWalks ==
  ASSUME NEW vs \in Seq(Vregs), NEW i, i.args = vs, NEW l \in [Vregs -> Lattice]
  PROVE  \E g : PhiWalk(i, l, vs, g)
<1> DEFINE q == [j \in 1..Len(vs) |-> l[vs[j]]]
<1>0. [j \in DOMAIN i.args |-> l[i.args[j]]] = q
  <2>1. DOMAIN vs = 1..Len(vs)
    OBVIOUS
  <2> QED
    BY <2>1, Zenon
<1>1. q \in Seq(Lattice) /\ Len(q) = Len(vs) /\ \A j \in 1..Len(vs) : q[j] = l[vs[j]] /\ q[j] \in Lattice
  OBVIOUS
<1>2. PhiValue(i, l) = Fold(Meet, Top, q)
  BY <1>0, Zenon DEF PhiValue
<1> HIDE DEF q
<1>3. \A s \in Lattice, j \in 1..Len(q) : Meet(s, q[j]) \in Lattice
  BY <1>1, MeetIs
<1>4. PICK g : MeetWalk(Lattice, Top, q, g)
  BY <1>1, <1>3, TopIs, MeetWalks
<1>5. /\ g \in [0..Len(q) -> Lattice]
      /\ g[0] = Top
      /\ \A j \in 1..Len(q) : g[j] = Meet(g[j - 1], q[j])
  BY <1>4, Zenon DEF MeetWalk
<1>6. PhiValue(i, l) = g[Len(q)]
  BY <1>2, <1>4, Zenon DEF MeetWalk
<1> QED
  BY <1>1, <1>5, <1>6 DEF PhiWalk

\* The place of a PHI is the meet of those of its operands, and falls as they fall.
LEMMA PhiTyped ==
  ASSUME NEW i, i.args \in Seq(Vregs), NEW l \in [Vregs -> Lattice]
  PROVE  PhiValue(i, l) \in Lattice
<1> DEFINE vs == i.args
<1>1. vs \in Seq(Vregs) /\ Len(vs) \in 0..Len(vs)
  OBVIOUS
<1> HIDE DEF vs
<1>2. PICK g : PhiWalk(i, l, vs, g)
  BY <1>1, PhiWalks DEF vs
<1> QED
  BY <1>1, <1>2 DEF PhiWalk

LEMMA PhiFalls ==
  ASSUME NEW i, i.args \in Seq(Vregs), NEW l \in [Vregs -> Lattice], NEW m \in [Vregs -> Lattice],
         LatticeFalls(l, m)
  PROVE  Falls(PhiValue(i, l), PhiValue(i, m))
<1> DEFINE vs == i.args
           k == Len(vs)
<1>1. vs \in Seq(Vregs) /\ k \in Nat /\ k \in 0..k /\ \A j \in 1..k : vs[j] \in Vregs
  OBVIOUS
<1>a. (\E g : PhiWalk(i, l, vs, g)) /\ (\E h : PhiWalk(i, m, vs, h))
  BY <1>1, PhiWalks
<1> HIDE DEF vs
<1>b. PICK g : PhiWalk(i, l, vs, g)
  BY <1>a
<1>c. PICK h : PhiWalk(i, m, vs, h)
  BY <1>a
<1>2. /\ g \in [0..k -> Lattice] /\ g[0] = Top
      /\ \A j \in 1..k : g[j] = Meet(g[j - 1], l[vs[j]])
      /\ PhiValue(i, l) = g[k]
  BY <1>b DEF PhiWalk
<1>3. /\ h \in [0..k -> Lattice] /\ h[0] = Top
      /\ \A j \in 1..k : h[j] = Meet(h[j - 1], m[vs[j]])
      /\ PhiValue(i, m) = h[k]
  BY <1>c DEF PhiWalk
<1> DEFINE P == {j \in 0..k : Falls(g[j], h[j])}
<1>4. 0 \in P
  <2>1. Falls(Top, Top) /\ 0 \in 0..k
    BY <1>1, FallsSelf, TopIs
  <2> QED
    BY <1>2, <1>3, <2>1
<1>5. ASSUME NEW j \in 1..k, j - 1 \in P PROVE j \in P
  <2>1. j \in 0..k /\ j - 1 \in 0..k /\ Falls(g[j - 1], h[j - 1])
    BY <1>1, <1>5
  <2> DEFINE a == g[j - 1]  b == h[j - 1]  w == l[vs[j]]  x == m[vs[j]]
  <2>2. a \in Lattice /\ b \in Lattice /\ w \in Lattice /\ x \in Lattice /\ Falls(a, b) /\ Falls(w, x)
    BY <1>1, <1>2, <1>3, <2>1 DEF LatticeFalls
  <2>3. g[j] = Meet(a, w) /\ h[j] = Meet(b, x)
    BY <1>2, <1>3
  <2> HIDE DEF a, b, w, x
  <2>4. Falls(Meet(a, w), Meet(b, x))
    BY <2>2, MeetFalls
  <2> QED
    BY <2>1, <2>3, <2>4
<1>6. k \in P
  <2> HIDE DEF P
  <2> QED
    BY <1>1, <1>4, <1>5, OneByOne
<1> QED
  BY <1>2, <1>3, <1>6

-------------------------------------------------------------------------------
\* opt_sccp: what is known of one instruction.

AllConst(i, l) == \A v \in ToSet(i.args) : l[v].state = "const"
SomeBottom(i, l) == \E v \in ToSet(i.args) : l[v].state = "bottom"
ValuesIn(i, l) == [j \in DOMAIN i.args |-> l[i.args[j]].value]

\* What is known of the vreg instruction i defines is no more than what i gives, and
\* stays so as the lattice falls.
Sound(i, l) ==
  /\ i.op = "CONST" => l[i.dst].state = "top" \/ l[i.dst] = Constant(i.imm)
  /\ i.op \in {"BINOP", "CMP"} => \/ l[i.dst].state = "top"
                                  \/ SomeBottom(i, l)
                                  \/ AllConst(i, l) /\ l[i.dst] = Constant(ValueOf(i, ValuesIn(i, l)))
  /\ i.op = "PHI" => Falls(l[i.dst], PhiValue(i, l))

\* What the sweep makes of an instruction, by its operation.
LEMMA EvaluateIs ==
  ASSUME NEW i, NEW l
  PROVE  /\ i.op = "CONST" => Evaluate(i, l) = Constant(i.imm)
         /\ i.op \in {"BINOP", "CMP"} =>
              Evaluate(i, l) =
                IF SomeBottom(i, l) THEN Bottom(l[i.dst].value)
                ELSE IF ~AllConst(i, l) \/ (i.kind = "div" /\ ValuesIn(i, l)[2] = 0) THEN l[i.dst]
                ELSE Constant(ValueOf(i, ValuesIn(i, l)))
         /\ i.op = "PHI" => Evaluate(i, l) = PhiValue(i, l)
         /\ i.op \notin {"CONST", "BINOP", "CMP", "PHI"} =>
              Evaluate(i, l) = IF l[i.dst].state = "top" THEN Bottom(l[i.dst].value) ELSE l[i.dst]
<1> DEFINE a == Constant(i.imm)
           b == IF SomeBottom(i, l) THEN Bottom(l[i.dst].value)
                ELSE IF ~AllConst(i, l) \/ (i.kind = "div" /\ ValuesIn(i, l)[2] = 0) THEN l[i.dst]
                ELSE Constant(ValueOf(i, ValuesIn(i, l)))
           c == PhiValue(i, l)
           d == IF l[i.dst].state = "top" THEN Bottom(l[i.dst].value) ELSE l[i.dst]
<1>1. Evaluate(i, l) = CASE i.op = "CONST" -> a [] i.op \in {"BINOP", "CMP"} -> b [] i.op = "PHI" -> c [] OTHER -> d
  BY Zenon DEF Evaluate, SomeBottom, AllConst, ValuesIn, PhiValue
<1> DEFINE e == Evaluate(i, l)
<1>2. e = CASE i.op = "CONST" -> a [] i.op \in {"BINOP", "CMP"} -> b [] i.op = "PHI" -> c [] OTHER -> d
  BY <1>1
<1> HIDE DEF a, b, c, d, e
<1>3. /\ i.op = "CONST" => e = a
      /\ i.op \in {"BINOP", "CMP"} => e = b
      /\ i.op = "PHI" => e = c
      /\ i.op \notin {"CONST", "BINOP", "CMP", "PHI"} => e = d
  BY <1>2
<1> QED
  BY <1>3, Zenon DEF a, b, c, d, e

\* The operands of i are vregs.
LEMMA ArgsAre ==
  ASSUME NEW n, NEW i \in Insts(n)
  PROVE  /\ i.args \in Seq(Vregs) /\ i.imm \in Int /\ i.dst \in Vregs \cup {NoVreg}
         /\ ToSet(i.args) \subseteq Vregs
         /\ \A j \in DOMAIN i.args : i.args[j] \in ToSet(i.args)
<1>1. i.args \in Seq(Vregs) /\ i.imm \in Int /\ i.dst \in Vregs \cup {NoVreg}
  BY DEF Insts
<1> QED
  BY <1>1 DEF ToSet

LEMMA EvaluateTyped ==
  ASSUME NEW n, NEW i \in Insts(n), Formed(i), i.dst \in Vregs, NEW l \in [Vregs -> Lattice]
  PROVE  Evaluate(i, l) \in Lattice
<1>1. l[i.dst] \in Lattice /\ l[i.dst].value \in Int /\ i.args \in Seq(Vregs)
  BY ArgsAre DEF Lattice
<1>2. Bottom(l[i.dst].value) \in Lattice
  BY <1>1, BottomIs
<1>3. CASE i.op = "CONST"
  BY <1>3, ArgsAre, ConstantIs, EvaluateIs
<1>4. CASE i.op \in {"BINOP", "CMP"}
  <2> DEFINE vs == ValuesIn(i, l)
             e == Evaluate(i, l)
             k == Constant(ValueOf(i, vs))
  <2>1. Len(i.args) = 2
    BY <1>4 DEF Formed
  <2>2. vs[1] \in Int /\ vs[2] \in Int
    <3>1. DOMAIN i.args = 1..2 /\ i.args[1] \in Vregs /\ i.args[2] \in Vregs
      BY <1>1, <2>1
    <3>2. vs[1] = l[i.args[1]].value /\ vs[2] = l[i.args[2]].value
      BY <3>1 DEF ValuesIn
    <3>3. l[i.args[1]] \in Lattice /\ l[i.args[2]] \in Lattice
      BY <3>1
    <3> QED
      BY <3>2, <3>3 DEF Lattice
  <2> HIDE DEF vs
  <2>3. ValueOf(i, vs) \in Int
    BY <1>4, <2>2, ValueInt
  <2>4. k \in Lattice
    BY <2>3, ConstantIs
  <2>5. e = Bottom(l[i.dst].value) \/ e = l[i.dst] \/ e = k
    BY <1>4, EvaluateIs DEF vs
  <2> HIDE DEF e, k
  <2>6. e \in Lattice
    BY <1>1, <1>2, <2>4, <2>5
  <2> QED
    BY <2>6 DEF e
<1>5. CASE i.op = "PHI"
  BY <1>1, <1>5, PhiTyped, EvaluateIs
<1>6. CASE i.op \notin {"CONST", "BINOP", "CMP", "PHI"}
  BY <1>1, <1>2, <1>6, EvaluateIs
<1> QED
  BY <1>3, <1>4, <1>5, <1>6

LEMMA RankIs ==
  \A y \in Lattice : y.state \in {"top", "const", "bottom"} /\
                     Rank(y) = IF y.state = "top" THEN 0 ELSE IF y.state = "const" THEN 1 ELSE 2
BY DEF Rank, Lattice

LEMMA FallsFrom ==
  ASSUME NEW a \in Lattice, NEW b \in Lattice, a.state = "top" \/ b.state = "bottom" \/ a = b
  PROVE  Falls(a, b)
BY RankIs DEF Falls

LEMMA FallsTo ==
  ASSUME NEW a \in Lattice, NEW b \in Lattice, Falls(a, b)
  PROVE  /\ a.state = "const" => b = a \/ b.state = "bottom"
         /\ a.state = "bottom" => b.state = "bottom"
BY RankIs DEF Falls

\* What a sweep makes of a vreg is at most what was known of it.
LEMMA EvaluateFalls ==
  ASSUME NEW n, NEW i \in Insts(n), Formed(i), i.dst \in Vregs, NEW l \in [Vregs -> Lattice], Sound(i, l)
  PROVE  Falls(l[i.dst], Evaluate(i, l))
<1> DEFINE d == l[i.dst]
           e == Evaluate(i, l)
<1>1. d \in Lattice /\ e \in Lattice /\ d.value \in Int
  BY EvaluateTyped DEF Lattice
<1>2. Bottom(d.value).state = "bottom"
  BY <1>1, BottomIs
<1>3. CASE i.op = "CONST"
  <2>1. d.state = "top" \/ d = e
    BY <1>3, EvaluateIs DEF Sound
  <2> HIDE DEF d, e
  <2>2. Falls(d, e)
    BY <1>1, <2>1, FallsFrom
  <2> QED
    BY <2>2 DEF d, e
<1>4. CASE i.op \in {"BINOP", "CMP"}
  <2> DEFINE k == Constant(ValueOf(i, ValuesIn(i, l)))
  <2>1. e = IF SomeBottom(i, l) THEN Bottom(d.value)
            ELSE IF ~AllConst(i, l) \/ (i.kind = "div" /\ ValuesIn(i, l)[2] = 0) THEN d
            ELSE k
    BY <1>4, EvaluateIs
  <2>2. d.state = "top" \/ SomeBottom(i, l) \/ d = k
    BY <1>4 DEF Sound
  <2> HIDE DEF d, e, k
  <2>3. d.state = "top" \/ e.state = "bottom" \/ d = e
    BY <1>2, <2>1, <2>2
  <2>4. Falls(d, e)
    BY <1>1, <2>3, FallsFrom
  <2> QED
    BY <2>4 DEF d, e
<1>5. CASE i.op = "PHI"
  BY <1>5, EvaluateIs DEF Sound
<1>6. CASE i.op \notin {"CONST", "BINOP", "CMP", "PHI"}
  <2>1. e = IF d.state = "top" THEN Bottom(d.value) ELSE d
    BY <1>6, EvaluateIs
  <2> HIDE DEF d, e
  <2>2. Falls(d, e)
    BY <1>1, <1>2, <2>1, FallsFrom
  <2> QED
    BY <2>2 DEF d, e
<1> QED
  BY <1>3, <1>4, <1>5, <1>6

\* Operands whose places stay have the same values.
LEMMA ArgsStay ==
  ASSUME NEW n, NEW i \in Insts(n), NEW l, NEW m, \A v \in ToSet(i.args) : m[v] = l[v]
  PROVE  ValuesIn(i, m) = ValuesIn(i, l) /\ (AllConst(i, m) <=> AllConst(i, l))
<1>1. \A j \in DOMAIN i.args : m[i.args[j]] = l[i.args[j]]
  BY ArgsAre
<1> QED
  BY <1>1 DEF ValuesIn, AllConst

\* What is known of a vreg is still sound when the places of others have fallen.
LEMMA SoundStays ==
  ASSUME NEW n, NEW i \in Insts(n), Formed(i), i.dst \in Vregs,
         NEW l \in [Vregs -> Lattice], NEW m \in [Vregs -> Lattice],
         LatticeFalls(l, m), m[i.dst] = l[i.dst], Sound(i, l)
  PROVE  Sound(i, m)
<1>0. i.args \in Seq(Vregs) /\ ToSet(i.args) \subseteq Vregs
  BY ArgsAre
<1>1. ASSUME i.op \in {"BINOP", "CMP"}
      PROVE  \/ m[i.dst].state = "top"
             \/ SomeBottom(i, m)
             \/ AllConst(i, m) /\ m[i.dst] = Constant(ValueOf(i, ValuesIn(i, m)))
  <2>1. CASE l[i.dst].state = "top"
    BY <2>1
  <2>2. CASE SomeBottom(i, l)
    <3>1. PICK v \in ToSet(i.args) : l[v].state = "bottom"
      BY <2>2 DEF SomeBottom
    <3>2. v \in Vregs /\ l[v] \in Lattice /\ m[v] \in Lattice /\ Falls(l[v], m[v])
      BY <1>0, <3>1 DEF LatticeFalls
    <3>3. m[v].state = "bottom"
      BY <3>1, <3>2, FallsTo
    <3> QED
      BY <3>3 DEF SomeBottom
  <2>3. CASE AllConst(i, l) /\ l[i.dst] = Constant(ValueOf(i, ValuesIn(i, l)))
    <3>1. CASE SomeBottom(i, m)
      BY <3>1
    <3>2. CASE ~SomeBottom(i, m)
      <4>1. ASSUME NEW v \in ToSet(i.args) PROVE m[v] = l[v]
        <5>1. v \in Vregs /\ l[v] \in Lattice /\ m[v] \in Lattice /\ Falls(l[v], m[v])
          BY <1>0 DEF LatticeFalls
        <5>2. l[v].state = "const" /\ m[v].state # "bottom"
          BY <2>3, <3>2 DEF AllConst, SomeBottom
        <5> QED
          BY <5>1, <5>2, FallsTo
      <4>2. ValuesIn(i, m) = ValuesIn(i, l) /\ AllConst(i, m)
        BY <2>3, <4>1, ArgsStay
      <4> QED
        BY <2>3, <4>2
    <3> QED
      BY <3>1, <3>2
  <2> QED
    BY <1>1, <2>1, <2>2, <2>3 DEF Sound
<1>2. ASSUME i.op = "PHI" PROVE Falls(m[i.dst], PhiValue(i, m))
  <2>1. Falls(PhiValue(i, l), PhiValue(i, m)) /\ Falls(m[i.dst], PhiValue(i, l))
    BY <1>0, <1>2, PhiFalls DEF Sound
  <2>2. PhiValue(i, l) \in Lattice /\ PhiValue(i, m) \in Lattice /\ m[i.dst] \in Lattice
    BY <1>0, PhiTyped
  <2> QED
    BY <2>1, <2>2, FallsOn
<1> QED
  BY <1>1, <1>2 DEF Sound

\* The place of the vreg i defines, once i has been looked at.
LEMMA SoundThen ==
  ASSUME NEW n, NEW i \in Insts(n), Formed(i), i.dst \in Vregs, NEW l \in [Vregs -> Lattice], Sound(i, l)
  PROVE  LET m == [l EXCEPT ![i.dst] = Evaluate(i, l)] IN
         m \in [Vregs -> Lattice] /\ LatticeFalls(l, m) /\ Sound(i, m)
<1> DEFINE e == Evaluate(i, l)
           d == l[i.dst]
           m == [l EXCEPT ![i.dst] = e]
<1>1. e \in Lattice /\ d \in Lattice /\ d.value \in Int /\ Falls(d, e)
  BY EvaluateTyped, EvaluateFalls DEF Lattice
<1>2. m \in [Vregs -> Lattice] /\ m[i.dst] = e /\ \A v \in Vregs : v # i.dst => m[v] = l[v]
  BY <1>1
<1>3. e = d => m = l
  BY <1>2
<1>0. i.args \in Seq(Vregs) /\ ToSet(i.args) \subseteq Vregs
  BY ArgsAre
<1>a. /\ i.op = "CONST" => e = Constant(i.imm)
      /\ i.op \in {"BINOP", "CMP"} =>
           e = IF SomeBottom(i, l) THEN Bottom(d.value)
               ELSE IF ~AllConst(i, l) \/ (i.kind = "div" /\ ValuesIn(i, l)[2] = 0) THEN d
               ELSE Constant(ValueOf(i, ValuesIn(i, l)))
      /\ i.op = "PHI" => e = PhiValue(i, l)
  BY EvaluateIs
<1>b. d = l[i.dst]
  OBVIOUS
<1> HIDE DEF m, e, d
<1>4. LatticeFalls(l, m)
  <2> SUFFICES ASSUME NEW v \in Vregs PROVE Falls(l[v], m[v])
    BY DEF LatticeFalls
  <2>1. CASE v = i.dst
    BY <1>1, <1>2, <1>b, <2>1
  <2>2. CASE v # i.dst
    BY <1>2, <2>2, FallsSelf
  <2> QED
    BY <2>1, <2>2
<1>5. ASSUME i.op = "CONST" PROVE m[i.dst] = Constant(i.imm)
  BY <1>2, <1>5, <1>a
<1>6. ASSUME i.op \in {"BINOP", "CMP"}
      PROVE  \/ m[i.dst].state = "top"
             \/ SomeBottom(i, m)
             \/ AllConst(i, m) /\ m[i.dst] = Constant(ValueOf(i, ValuesIn(i, m)))
  <2>0. Sound(i, l) /\ (m = l => Sound(i, m))
    OBVIOUS
  <2>1. CASE SomeBottom(i, l)
    <3>1. PICK v \in ToSet(i.args) : l[v].state = "bottom"
      BY <2>1 DEF SomeBottom
    <3>2. e.state = "bottom"
      BY <1>1, <1>6, <1>a, <2>1, BottomIs
    <3>3. m[v].state = "bottom"
      BY <1>0, <1>2, <3>1, <3>2
    <3> QED
      BY <3>3 DEF SomeBottom
  <2>2. CASE ~SomeBottom(i, l) /\ e = d
    BY <1>3, <1>6, <2>0, <2>2 DEF Sound
  <2>3. CASE ~SomeBottom(i, l) /\ e # d
    <3>1. AllConst(i, l) /\ e = Constant(ValueOf(i, ValuesIn(i, l)))
      BY <1>6, <1>a, <2>3
    <3>2. d.state = "top"
      BY <1>6, <1>b, <2>3, <3>1 DEF Sound
    <3>3. ASSUME NEW v \in ToSet(i.args) PROVE m[v] = l[v]
      <4>1. v \in Vregs /\ v # i.dst
        BY <1>0, <1>b, <3>1, <3>2 DEF AllConst
      <4> QED
        BY <1>2, <4>1
    <3>4. ValuesIn(i, m) = ValuesIn(i, l) /\ AllConst(i, m)
      BY <3>1, <3>3, ArgsStay
    <3> QED
      BY <1>2, <3>1, <3>4
  <2> QED
    BY <2>1, <2>2, <2>3
<1>7. ASSUME i.op = "PHI" PROVE Falls(m[i.dst], PhiValue(i, m))
  BY <1>0, <1>2, <1>4, <1>7, <1>a, PhiFalls
<1>8. Sound(i, m)
  BY <1>5, <1>6, <1>7 DEF Sound
<1> QED
  BY <1>2, <1>4, <1>8 DEF m, e

-------------------------------------------------------------------------------
\* opt_sccp: a sweep; the inductive invariant; the theorems.

\* A sweep: the lattices l has fallen to, whose places are sound.
SoundAt(c, l) == \A p \in Sites(c) : At(c, p).dst # NoVreg => Sound(At(c, p), l)
Fallen(c, l) == {m \in [Vregs -> Lattice] : LatticeFalls(l, m) /\ SoundAt(c, m)}

LEMMA SiteIn ==
  ASSUME NEW n \in Nat, NEW c, WellMade(c, n), NEW p \in Sites(c)
  PROVE  At(c, p) \in Insts(n) /\ Formed(At(c, p))
<1>1. c \in Mirrored(c, n)
  BY MirrorsSelf DEF WellMade, Mirrored
<1> QED
  BY <1>1, AtIn

LEMMA LatticeFallsOn ==
  ASSUME NEW l \in [Vregs -> Lattice], NEW m \in [Vregs -> Lattice], NEW r \in [Vregs -> Lattice],
         LatticeFalls(l, m), LatticeFalls(m, r)
  PROVE  LatticeFalls(l, r)
<1> SUFFICES ASSUME NEW v \in Vregs PROVE Falls(l[v], r[v])
  BY DEF LatticeFalls
<1>1. l[v] \in Lattice /\ m[v] \in Lattice /\ r[v] \in Lattice /\ Falls(l[v], m[v]) /\ Falls(m[v], r[v])
  BY DEF LatticeFalls
<1> QED
  BY <1>1, FallsOn

LEMMA LatticeFallsSelf ==
  ASSUME NEW l \in [Vregs -> Lattice]
  PROVE  LatticeFalls(l, l)
BY FallsSelf DEF LatticeFalls

\* Looking at one instruction keeps what is known of all vregs sound, and places only fall.
LEMMA SweepInstIn ==
  ASSUME NEW n \in Nat, WellMade(code, n), SingleAssignment(code),
         NEW l \in [Vregs -> Lattice], NEW s \in Fallen(code, l), NEW p \in Sites(code)
  PROVE  SweepInst(s, p) \in Fallen(code, l)
<1> DEFINE i == At(code, p)
           m == [s EXCEPT ![i.dst] = Evaluate(i, s)]
<1>1. s \in [Vregs -> Lattice] /\ LatticeFalls(l, s) /\ SoundAt(code, s)
  BY DEF Fallen
<1>2. i \in Insts(n) /\ Formed(i) /\ i.dst \in Vregs \cup {NoVreg}
  BY SiteIn, ArgsAre
<1>3. CASE i.dst = NoVreg
  BY <1>3 DEF SweepInst
<1>4. CASE i.dst # NoVreg
  <2>1. SweepInst(s, p) = m
    BY <1>4, Zenon DEF SweepInst
  <2>2. i.dst \in Vregs /\ Sound(i, s)
    BY <1>1, <1>2, <1>4 DEF SoundAt
  <2>3. m \in [Vregs -> Lattice] /\ LatticeFalls(s, m) /\ Sound(i, m)
    <3> HIDE DEF i
    <3> QED
      BY <1>1, <1>2, <2>2, SoundThen
  <2>4. LatticeFalls(l, m)
    <3> HIDE DEF m
    <3> QED
      BY <1>1, <2>3, LatticeFallsOn
  <2>5. ASSUME NEW q \in Sites(code), At(code, q).dst # NoVreg PROVE Sound(At(code, q), m)
    <3>1. CASE At(code, q).dst = i.dst
      <4>1. q = p
        BY <1>4, <3>1 DEF SingleAssignment
      <4> QED
        BY <2>3, <4>1
    <3>2. CASE At(code, q).dst # i.dst
      <4> DEFINE k == At(code, q)
      <4>1. k \in Insts(n) /\ Formed(k)
        BY SiteIn
      <4>2. k.dst \in Vregs
        BY <2>5, <4>1, ArgsAre
      <4>3. m[k.dst] = s[k.dst]
        <5> HIDE DEF i, k
        <5> QED
          BY <1>1, <3>2, <4>2 DEF k
      <4>4. Sound(k, s)
        BY <1>1, <2>5 DEF SoundAt
      <4> HIDE DEF k, m
      <4>5. Sound(k, m)
        BY <1>1, <2>3, <4>1, <4>2, <4>3, <4>4, SoundStays
      <4> QED
        BY <4>5 DEF k
    <3> QED
      BY <3>1, <3>2
  <2>6. SoundAt(code, m)
    BY <2>5 DEF SoundAt
  <2> HIDE DEF m
  <2> QED
    BY <2>1, <2>3, <2>4, <2>6 DEF Fallen
<1> QED
  BY <1>3, <1>4

\* Whatever the definitions, a sweep gives every vreg a place.
LEMMA SweepInstTyped ==
  ASSUME NEW n \in Nat, WellMade(code, n), NEW s \in [Vregs -> Lattice], NEW p \in Sites(code)
  PROVE  SweepInst(s, p) \in [Vregs -> Lattice]
<1> DEFINE i == At(code, p)
           e == Evaluate(i, s)
<1>1. i \in Insts(n) /\ Formed(i) /\ i.dst \in Vregs \cup {NoVreg}
  BY SiteIn, ArgsAre
<1>2. SweepInst(s, p) = IF i.dst = NoVreg THEN s ELSE [s EXCEPT ![i.dst] = e]
  BY Zenon DEF SweepInst
<1>3. CASE i.dst = NoVreg
  BY <1>2, <1>3
<1>4. CASE i.dst # NoVreg
  <2> HIDE DEF i
  <2>1. e \in Lattice
    BY <1>1, <1>4, EvaluateTyped
  <2> HIDE DEF e
  <2> QED
    BY <1>2, <1>4, <2>1
<1> QED
  BY <1>3, <1>4

LEMMA SweepTyped ==
  ASSUME NEW n \in Nat, WellMade(code, n), NEW l \in [Vregs -> Lattice]
  PROVE  Sweep(l) \in [Vregs -> Lattice]
<1> DEFINE A == [Vregs -> Lattice]
           q == Places(code)
<1>1. q \in Seq(Sites(code))
  BY PlacesIn
<1>2. \A s \in A, i \in 1..Len(q) : SweepInst(s, q[i]) \in A
  <2> SUFFICES ASSUME NEW s \in A, NEW i \in 1..Len(q) PROVE SweepInst(s, q[i]) \in A
    OBVIOUS
  <2> HIDE DEF q
  <2>1. q[i] \in Sites(code)
    BY <1>1
  <2> QED
    BY <2>1, SweepInstTyped
<1>a. l \in A
  OBVIOUS
<1> HIDE DEF A, q
<1>3. PICK g : SweepInstWalk(A, l, q, g)
  BY <1>1, <1>2, <1>a, SweepInstWalks
<1>4. Fold(SweepInst, l, q) \in A
  <2>1. Len(q) \in 0..Len(q)
    BY <1>1
  <2> QED
    BY <1>3, <2>1, Zenon DEF SweepInstWalk
<1>5. Sweep(l) = Fold(SweepInst, l, q)
  BY Zenon DEF Sweep, q
<1>6. Sweep(l) \in A
  BY <1>4, <1>5, Zenon
<1> QED
  BY <1>6 DEF A

\* What SweepInstIn says of an instruction, for the sweep.
LEMMA SweepFalls ==
  ASSUME NEW n \in Nat, WellMade(code, n), SingleAssignment(code),
         NEW l \in [Vregs -> Lattice], SoundAt(code, l)
  PROVE  Sweep(l) \in Fallen(code, l)
<1> DEFINE A == Fallen(code, l)
           q == Places(code)
<1>1. q \in Seq(Sites(code))
  BY PlacesIn
<1>2. l \in A
  BY LatticeFallsSelf DEF Fallen
<1>3. \A s \in A, i \in 1..Len(q) : SweepInst(s, q[i]) \in A
  <2> SUFFICES ASSUME NEW s \in A, NEW i \in 1..Len(q) PROVE SweepInst(s, q[i]) \in A
    OBVIOUS
  <2> HIDE DEF q
  <2>1. q[i] \in Sites(code)
    BY <1>1
  <2> QED
    BY <2>1, SweepInstIn
<1> HIDE DEF A, q
<1>4. PICK g : SweepInstWalk(A, l, q, g)
  BY <1>1, <1>2, <1>3, SweepInstWalks
<1>5. Fold(SweepInst, l, q) \in A
  <2>1. Len(q) \in 0..Len(q)
    BY <1>1
  <2> QED
    BY <1>4, <2>1, Zenon DEF SweepInstWalk
<1>6. Sweep(l) = Fold(SweepInst, l, q)
  BY Zenon DEF Sweep, q
<1>7. Sweep(l) \in A
  BY <1>5, <1>6, Zenon
<1> QED
  BY <1>7 DEF A

\* The lattice SCCP starts from: parameters vary, of the rest nothing is known.
Fresh == [v \in Vregs |-> IF v \in Params THEN Bottom(0) ELSE Top]

\* Knowing nothing is sound, where every vreg has one definition.
LEMMA FreshTyped == Fresh \in [Vregs -> Lattice]
<1>1. Bottom(0) \in Lattice /\ Top \in Lattice
  BY BottomIs, TopIs
<1> QED
  BY <1>1 DEF Fresh

LEMMA FreshSound ==
  ASSUME NEW n \in Nat, NEW c, WellMade(c, n), SingleAssignment(c)
  PROVE  SoundAt(c, Fresh)
<1>1. Fresh \in [Vregs -> Lattice]
  BY FreshTyped
<1>2. ASSUME NEW p \in Sites(c), At(c, p).dst # NoVreg PROVE Sound(At(c, p), Fresh)
  <2> DEFINE i == At(c, p)
  <2>1. i \in Insts(n) /\ i.dst \notin Params
    BY <1>2, SiteIn DEF SingleAssignment
  <2>2. i.dst \in Vregs /\ i.args \in Seq(Vregs)
    BY <1>2, <2>1, ArgsAre
  <2> HIDE DEF i
  <2>3. Fresh[i.dst].state = "top" /\ Fresh[i.dst] \in Lattice
    BY <2>1, <2>2, TopIs DEF Fresh
  <2>4. PhiValue(i, Fresh) \in Lattice
    BY <1>1, <2>2, PhiTyped
  <2>5. Falls(Fresh[i.dst], PhiValue(i, Fresh))
    BY <2>3, <2>4, FallsFrom
  <2>6. Sound(i, Fresh)
    BY <2>3, <2>5 DEF Sound
  <2> QED
    BY <2>6 DEF i
<1> QED
  BY <1>1, <1>2 DEF SoundAt

-------------------------------------------------------------------------------

\* The inductive invariant.
Kept(n) == WellMade(code, n)
LatticeKept ==
  /\ lattice \in [Vregs -> Lattice]
  /\ stage \in {"fold", "dce", "copy"} => lattice = Fresh
  /\ stage = "sccp" /\ SingleAssignment(code) => SoundAt(code, lattice)
OptHolds == (\E n \in Nat : Kept(n)) /\ LatticeKept

\* One definition a vreg, if it is so, stays so.
StaysSingle == SingleAssignment(code) => SingleAssignment(code')

\* The invariant at the start, and after each action.
LEMMA InitHolds == Init => OptHolds
<1> SUFFICES ASSUME Init PROVE OptHolds
  OBVIOUS
<1> DEFINE n == Cardinality(DOMAIN code)
<1>1. /\ IsFiniteSet(DOMAIN code)
      /\ code \in [0..(n - 1) -> Seq(Insts(n))]
      /\ \A p \in Sites(code) : Formed(At(code, p))
      /\ VerifyFunc(code, n, NVregs)
  BY ProgramsAssumption DEF Init
<1>2. n \in Nat
  BY <1>1, FS_CardinalityType
<1> HIDE DEF n
<1>3. ASSUME NEW b \in 0..(n - 1) PROVE ShapeOk(code[b]) /\ \A j \in 1..Len(code[b]) : Formed(code[b][j])
  <2>1. ShapeOk(code[b])
    BY <1>1 DEF VerifyFunc, VerifyBlock
  <2>2. ASSUME NEW j \in 1..Len(code[b]) PROVE Formed(code[b][j])
    <3>1. <<b, j>> \in Sites(code)
      BY <1>1, <1>2, SitesAre
    <3>2. At(code, <<b, j>>) = code[b][j]
      BY DEF At
    <3> QED
      BY <1>1, <3>1, <3>2
  <2> QED
    BY <2>1, <2>2
<1>4. WellMade(code, n)
  BY <1>1, <1>3 DEF WellMade
<1>5. lattice = Fresh /\ stage = "fold"
  BY DEF Init, Fresh
<1>6. LatticeKept
  BY <1>5, FreshTyped DEF LatticeKept
<1> QED
  BY <1>2, <1>4, <1>6 DEF OptHolds, Kept

\* Passes that keep every instruction in its place keep the invariant on the code.
LEMMA MirroredKept ==
  ASSUME NEW n \in Nat, Kept(n), code' \in Mirrored(code, n)
  PROVE  Kept(n)' /\ StaysSingle
<1>1. Mirrors(code', code, n) /\ code \in [0..(n - 1) -> Seq(Insts(n))]
  BY DEF Mirrored, Kept, WellMade
<1>2. WellMade(code', n)
  BY <1>1, MirrorsWell DEF Kept
<1>3. StaysSingle
  BY <1>1, MirrorsSingly DEF StaysSingle
<1> QED
  BY <1>2, <1>3 DEF Kept

LEMMA ConstFoldHolds == ASSUME OptHolds, ConstFold PROVE OptHolds' /\ StaysSingle
<1>1. PICK n \in Nat : Kept(n)
  BY DEF OptHolds
<1>2. Kept(n)' /\ StaysSingle
  <2>1. code' \in Mirrored(code, n)
    BY <1>1, ConstFoldMirrors DEF Kept
  <2> QED
    BY <1>1, <2>1, MirroredKept
<1>3. stage' \in {"fold", "dce"} /\ stage = "fold" /\ lattice' = lattice
  BY DEF ConstFold, SweepAgain, NextStage
<1>4. LatticeKept'
  BY <1>3 DEF OptHolds, LatticeKept, Fresh
<1> QED
  BY <1>2, <1>4 DEF OptHolds

\* Dead code elimination: what a sweep does, and when it is the last.
LEMMA DeadCodeThins ==
  ASSUME DeadCode
  PROVE  /\ code' = Thinned(code) /\ lattice' = lattice
         /\ \/ stage = "dce" /\ stage' \in {"dce", "copy"}
            \/ stage = "dce2" /\ stage' \in {"dce2", "done"}
         /\ stage' # stage /\ sweeps + 1 < MaxIterations => code' = code
<1>1. code' = Thinned(code) /\ lattice' = lattice
  BY Zenon DEF DeadCode, EliminateDead, Thinned, Blocks
<1> DEFINE ch == code' # code
<1>2. CASE stage = "dce"
  <2>1. SweepAgain(ch, "copy")
    BY <1>2 DEF DeadCode, EliminateDead
  <2> HIDE DEF ch
  <2>2. stage' \in {"dce", "copy"} /\ (stage' # stage /\ sweeps + 1 < MaxIterations => ~ch)
    BY <1>2, <2>1 DEF SweepAgain, NextStage
  <2>3. stage' # stage /\ sweeps + 1 < MaxIterations => code' = code
    BY <2>2, Zenon DEF ch
  <2> QED
    BY ONLY <1>1, <1>2, <2>2, <2>3
<1>3. CASE stage = "dce2"
  <2>1. SweepAgain(ch, "done")
    BY <1>3 DEF DeadCode, EliminateDead
  <2> HIDE DEF ch
  <2>2. stage' \in {"dce2", "done"} /\ (stage' # stage /\ sweeps + 1 < MaxIterations => ~ch)
    BY <1>3, <2>1 DEF SweepAgain, NextStage
  <2>3. stage' # stage /\ sweeps + 1 < MaxIterations => code' = code
    BY <2>2, Zenon DEF ch
  <2> QED
    BY ONLY <1>1, <1>3, <2>2, <2>3
<1>4. stage = "dce" \/ stage = "dce2"
  BY DEF DeadCode
<1> QED
  BY <1>2, <1>3, <1>4

LEMMA DeadCodeHolds == ASSUME OptHolds, DeadCode PROVE OptHolds' /\ StaysSingle
<1>1. PICK n \in Nat : Kept(n)
  BY DEF OptHolds
<1>2. Kept(n)' /\ StaysSingle
  <2>1. code' = Thinned(code)
    BY DeadCodeThins
  <2>2. WellMade(code', n) /\ (SingleAssignment(code) => SingleAssignment(code'))
    BY <1>1, <2>1, ThinnedWell DEF Kept
  <2> QED
    BY <2>2 DEF Kept, StaysSingle
<1>3. LatticeKept'
  BY DeadCodeThins DEF OptHolds, LatticeKept, Fresh
<1> QED
  BY <1>2, <1>3 DEF OptHolds

LEMMA CopyPropHolds == ASSUME OptHolds, CopyProp PROVE OptHolds' /\ StaysSingle
<1>1. PICK n \in Nat : Kept(n)
  BY DEF OptHolds
<1>2. Kept(n)' /\ StaysSingle
  <2>1. Origin(code) \in [Vregs -> Vregs]
    BY <1>1, OriginVregs DEF Kept
  <2> DEFINE map == Origin(code)
  <2>2. code' = Substitute(code, map)
    BY Zenon DEF CopyProp
  <2> HIDE DEF map
  <2>3. Mirrors(code', code, n)
    BY <1>1, <2>1, <2>2, SubstituteMirrors DEF Kept, map
  <2>4. code' \in Mirrored(code, n)
    BY <2>3 DEF Mirrored, Mirrors
  <2> QED
    BY <1>1, <2>4, MirroredKept
<1>3. lattice' = lattice /\ stage = "copy" /\ stage' = "sccp"
  BY DEF CopyProp, NextStage
<1>4. lattice' = Fresh
  BY <1>3 DEF OptHolds, LatticeKept
<1>5. WellMade(code', n)
  BY <1>2 DEF Kept
<1>6. lattice' \in [Vregs -> Lattice] /\ (SingleAssignment(code') => SoundAt(code', lattice'))
  BY <1>4, <1>5, FreshTyped, FreshSound
<1>7. LatticeKept'
  BY <1>3, <1>6 DEF LatticeKept
<1> QED
  BY <1>2, <1>7 DEF OptHolds

\* A sweep of SCCP.
LEMMA SccpSweepFalls ==
  ASSUME OptHolds, SccpSweep, SingleAssignment(code)
  PROVE  LatticeFalls(lattice, lattice') /\ SoundAt(code, lattice')
<1>1. PICK n \in Nat : Kept(n)
  BY DEF OptHolds
<1>2. lattice' = Sweep(lattice) /\ stage = "sccp"
  BY Zenon DEF SccpSweep
<1>3. Sweep(lattice) \in Fallen(code, lattice)
  BY <1>1, <1>2, SweepFalls DEF Kept, OptHolds, LatticeKept
<1> DEFINE r == Sweep(lattice)
<1>4. lattice' = r /\ r \in Fallen(code, lattice)
  BY <1>2, <1>3, Zenon
<1> HIDE DEF r
<1> QED
  BY <1>4 DEF Fallen

LEMMA SccpSweepHolds == ASSUME OptHolds, SccpSweep PROVE OptHolds' /\ StaysSingle
<1>1. code' = code /\ stage = "sccp" /\ stage' \in {"sccp", "rewrite"}
  BY DEF SccpSweep, NextStage
<1>2. lattice' \in [Vregs -> Lattice]
  <2>1. PICK n \in Nat : Kept(n)
    BY DEF OptHolds
  <2>2. Sweep(lattice) \in [Vregs -> Lattice]
    BY <2>1, SweepTyped DEF Kept, OptHolds, LatticeKept
  <2>3. lattice' = Sweep(lattice)
    BY Zenon DEF SccpSweep
  <2> QED
    BY <2>2, <2>3, Zenon
<1>3. SingleAssignment(code) => SoundAt(code, lattice')
  BY SccpSweepFalls
<1>4. LatticeKept'
  BY <1>1, <1>2, <1>3 DEF LatticeKept
<1>5. (\E n \in Nat : Kept(n))' /\ StaysSingle
  BY <1>1 DEF OptHolds, Kept, StaysSingle
<1> QED
  BY <1>4, <1>5 DEF OptHolds

LEMMA SccpRewriteHolds == ASSUME OptHolds, SccpRewrite PROVE OptHolds' /\ StaysSingle
<1>1. PICK n \in Nat : Kept(n)
  BY DEF OptHolds
<1>2. lattice' = lattice /\ stage' = "cse" /\ lattice \in [Vregs -> Lattice]
  BY DEF SccpRewrite, NextStage, OptHolds, LatticeKept
<1>3. Mirrors(code', code, n)
  BY <1>1, <1>2, RewriteMirrors DEF Kept
<1>4. code' \in Mirrored(code, n)
  BY <1>3 DEF Mirrored, Mirrors
<1>5. Kept(n)' /\ StaysSingle
  BY <1>1, <1>4, MirroredKept
<1>6. LatticeKept'
  BY <1>2 DEF LatticeKept
<1> QED
  BY <1>5, <1>6 DEF OptHolds

LEMMA CseHolds == ASSUME OptHolds, Cse PROVE OptHolds' /\ StaysSingle
<1>1. PICK n \in Nat : Kept(n)
  BY DEF OptHolds
<1>2. Kept(n)' /\ StaysSingle
  <2>1. code' \in Mirrored(code, n)
    BY <1>1, CseMirrors DEF Kept
  <2> QED
    BY <1>1, <2>1, MirroredKept
<1>3. stage' = "dce2" /\ lattice' = lattice
  BY DEF Cse, NextStage
<1>4. LatticeKept'
  BY <1>3 DEF OptHolds, LatticeKept
<1> QED
  BY <1>2, <1>4 DEF OptHolds

LEMMA NextHolds == OptHolds /\ [Next]_vars => OptHolds' /\ StaysSingle
<1> SUFFICES ASSUME OptHolds, [Next]_vars PROVE OptHolds' /\ StaysSingle
  OBVIOUS
<1>1. CASE ConstFold
  BY <1>1, ConstFoldHolds
<1>2. CASE DeadCode
  BY <1>2, DeadCodeHolds
<1>3. CASE CopyProp
  BY <1>3, CopyPropHolds
<1>4. CASE SccpSweep
  BY <1>4, SccpSweepHolds
<1>5. CASE SccpRewrite
  BY <1>5, SccpRewriteHolds
<1>6. CASE Cse
  BY <1>6, CseHolds
<1>7. CASE UNCHANGED vars
  BY <1>7 DEF vars, OptHolds, Kept, LatticeKept, StaysSingle
<1> QED
  BY <1>1, <1>2, <1>3, <1>4, <1>5, <1>6, <1>7, Zenon DEF Next

\* The inductive invariant: the blocks are well made after every sweep of every pass,
\* and during SCCP, where every vreg has one definition, none is known to be more than
\* its definition gives (opt_*.c).
THEOREM OptimizerHolds == Spec => []OptHolds
<1> QED
  BY InitHolds, NextHolds, PTL DEF Spec

\* The verifier accepts what each sweep of each pass leaves, the branches SCCP makes
\* jumps included (main.c:258, ssa_verify.c).
THEOREM Verified == Spec => []PassesVerify
<1>1. OptHolds => PassesVerify
  BY WellVerified DEF OptHolds, Kept, PassesVerify, Blocks
<1> QED
  BY <1>1, OptimizerHolds, PTL

\* No pass gives a vreg a second definition, or a parameter one: with one definition a
\* vreg at the start, as ssa_build.c means, Descends is of every step (opt_*.c).
THEOREM SingleStays == Spec => [][SingleAssignment(code) => SingleAssignment(code')]_vars
<1>1. ASSUME OptHolds, [Next]_vars
      PROVE  [SingleAssignment(code) => SingleAssignment(code')]_vars
  BY <1>1, NextHolds DEF StaysSingle
<1> QED
  BY <1>1, OptimizerHolds, PTL DEF Spec

\* No step raises a place in the lattice.
LEMMA StepFalls ==
  ASSUME OptHolds, [Next]_vars, SingleAssignment(code)
  PROVE  LatticeFalls(lattice, lattice')
<1>1. CASE SccpSweep
  BY <1>1, SccpSweepFalls
<1>2. CASE ~SccpSweep
  <2>1. lattice' = lattice
    BY <1>2, Zenon DEF Next, vars, ConstFold, DeadCode, EliminateDead, CopyProp, SccpRewrite, Cse
  <2> QED
    BY <2>1, LatticeFallsSelf DEF OptHolds, LatticeKept
<1> QED
  BY <1>1, <1>2

\* In a function with one definition a vreg no place in the lattice rises and no constant
\* becomes another one, PHIs of loops included: SCCP's sweeps cannot go round
\* (opt_sccp.c:56-195).  Of functions with two definitions (ssa_build.c:293) it says
\* nothing.
THEOREM Descends == Spec => LatticeDescends
<1>1. ASSUME OptHolds, [Next]_vars
      PROVE  [SingleAssignment(code) =>
                \A v \in Vregs :
                  /\ Rank(lattice[v]) <= Rank(lattice'[v])
                  /\ lattice[v].state = "const" /\ lattice'[v].state = "const" =>
                       lattice[v] = lattice'[v]]_vars
  BY <1>1, StepFalls DEF LatticeFalls, Falls
<1> QED
  BY <1>1, OptimizerHolds, PTL DEF Spec, LatticeDescends

\* Where nothing was left out there is nothing to leave out.
LEMMA SurvivorsKept ==
  ASSUME NEW n \in Nat, NEW c, WellMade(c, n), Thinned(c) = c, NEW i \in Instructions(c)
  PROVE  Keep(c, i)
<1>1. PICK b, j : b \in 0..(n - 1) /\ j \in 1..Len(c[b]) /\ i = c[b][j]
  BY InstructionsAre
<1>2. c[b] \in Seq(Insts(n)) /\ DOMAIN c = 0..(n - 1)
  BY <1>1 DEF WellMade
<1> DEFINE out == Survivors(c, c[b])
<1>3. out = c[b]
  BY <1>1, <1>2, Zenon DEF Thinned
<1>4. Picked(out, c[b], Len(c[b]), c)
  BY <1>2, SurvivorsPicked
<1> HIDE DEF out
<1>5. PICK h : Picks(out, c[b], Len(c[b]), c, h)
  BY <1>4 DEF Picked
<1> QED
  BY <1>1, <1>3, <1>5 DEF Picks

\* When dead code elimination ends before its MaxIterations, no instruction it would
\* remove is left (opt_dce.c:93-137).
THEOREM NoneDead == Spec => NothingDead
<1>1. ASSUME OptHolds, [Next]_vars
      PROVE  [stage' # stage /\ stage \in {"dce", "dce2"} /\ sweeps + 1 < MaxIterations =>
                \A i \in Instructions(code') : Keep(code', i)]_vars
  <2> SUFFICES ASSUME stage' # stage, stage \in {"dce", "dce2"}, sweeps + 1 < MaxIterations
               PROVE  \A i \in Instructions(code') : Keep(code', i)
    OBVIOUS
  <2>1. DeadCode
    BY <1>1 DEF Next, vars, ConstFold, CopyProp, SccpSweep, SccpRewrite, Cse
  <2>2. code' = Thinned(code) /\ code' = code
    BY <2>1, DeadCodeThins
  <2>3. PICK n \in Nat : Kept(n)
    BY <1>1 DEF OptHolds
  <2>4. \A i \in Instructions(code) : Keep(code, i)
    BY <2>2, <2>3, SurvivorsKept DEF Kept
  <2> QED
    BY <2>2, <2>4
<1> QED
  BY <1>1, OptimizerHolds, PTL DEF Spec, NothingDead

===============================================================================
