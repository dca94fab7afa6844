--------------------------------- MODULE ScopesProof ---------------------------------
(***************************************************************************)
(* Proofs about Scopes, for any names and any fuel: scopes bind as lexical *)
(* environments do, declarations have slots of their own, and reads by     *)
(* name agree with the bindings except for hidden names.                   *)
(***************************************************************************)
EXTENDS Scopes, TLAPS, WellFoundedInduction

Entry == [name : Names, local_index : Nat]
Scope == Seq(Entry)

\* A non-empty set of numbers up to n has a greatest element.
LEMMA MaxIsGreatest ==
  ASSUME NEW n \in Nat, NEW S \in SUBSET (1..n), S # {}
  PROVE  Max(S) \in S /\ \A k \in S : k <= Max(S)
<1> DEFINE T == {n - k : k \in S}
<1>0. \A k \in S : k \in 1..n /\ n - k \in Nat
  OBVIOUS
<1>1. T \subseteq Nat /\ T # {}
  BY <1>0
<1> DEFINE R == {ss \in Nat \X Nat : ss[1] < ss[2]}
<1>2. IsWellFoundedOn(R, Nat)
  BY NatLessThanWellFounded DEF OpToRel
<1>3. \E x \in T : \A y \in T : ~ (<<y, x>> \in R)
  <2> HIDE DEF R, T
  <2> QED
    BY <1>1, <1>2, WFMin
<1>4. PICK x \in T : \A y \in T : x <= y
  <2>1. PICK x \in T : \A y \in T : ~ (<<y, x>> \in R)
    BY <1>3
  <2>2. ASSUME NEW y \in T PROVE x <= y
    <3>1. x \in Nat /\ y \in Nat
      BY <1>1
    <3>2. ~ (y < x)
      BY <2>1, <3>1
    <3> QED
      BY <3>1, <3>2
  <2> QED
    BY <2>2
<1>5. PICK m \in S : x = n - m
  OBVIOUS
<1>6. \A k \in S : n - k \in T
  OBVIOUS
<1>7. \A k \in S : m >= k
  BY <1>4, <1>5, <1>6
<1>8. QED
  BY <1>7 DEF Max

-------------------------------------------------------------------------------

Chain == Seq(Scope)

LEMMA HoldersBounded ==
  ASSUME NEW ss, NEW d \in Nat, NEW n
  PROVE  Holders(ss, d, n) \in SUBSET (1..d)
BY DEF Holders

LEMMA NewestFinds ==
  ASSUME NEW s \in Scope, NEW n, \E j \in DOMAIN s : s[j].name = n
  PROVE  /\ Newest(s, n) \in DOMAIN s /\ s[Newest(s, n)].name = n
         /\ \A j \in DOMAIN s : s[j].name = n => j <= Newest(s, n)
<1> DEFINE S == {j \in DOMAIN s : s[j].name = n}
<1>1. S \in SUBSET (1..Len(s)) /\ S # {} /\ Len(s) \in Nat
  BY DEF Scope
<1>2. Max(S) \in S /\ \A k \in S : k <= Max(S)
  <2> HIDE DEF S
  <2> QED
    BY <1>1, MaxIsGreatest
<1> QED
  BY <1>2 DEF Newest

\* What scope_lookup finds: the newest entry of the innermost scope with the name.
LEMMA LookupFinds ==
  ASSUME NEW ss \in Chain, NEW d \in 0..Len(ss), NEW n, Holders(ss, d, n) # {}
  PROVE  LET k == Max(Holders(ss, d, n)) IN
         /\ k \in Holders(ss, d, n) /\ k \in 1..d
         /\ \A i \in Holders(ss, d, n) : i <= k
         /\ Newest(ss[k], n) \in DOMAIN ss[k] /\ ss[k][Newest(ss[k], n)].name = n
         /\ scope_lookup(ss, d, n) = ss[k][Newest(ss[k], n)].local_index
         /\ scope_lookup(ss, d, n) \in Nat
<1> DEFINE k == Max(Holders(ss, d, n))
<1>0. d \in Nat /\ Holders(ss, d, n) \in SUBSET (1..d)
  BY HoldersBounded DEF Chain
<1>1. k \in Holders(ss, d, n) /\ \A i \in Holders(ss, d, n) : i <= k
  BY <1>0, MaxIsGreatest
<1>2. k \in 1..d /\ \E j \in DOMAIN ss[k] : ss[k][j].name = n
  BY <1>1 DEF Holders
<1>3. ss[k] \in Scope
  BY <1>2 DEF Chain
<1>4. Newest(ss[k], n) \in DOMAIN ss[k] /\ ss[k][Newest(ss[k], n)].name = n
  BY <1>2, <1>3, NewestFinds
<1>5. scope_lookup(ss, d, n) = ss[k][Newest(ss[k], n)].local_index
  BY DEF scope_lookup
<1>6. ss[k][Newest(ss[k], n)].local_index \in Nat
  <2> HIDE DEF k
  <2>1. ss[k][Newest(ss[k], n)] \in Entry
    BY <1>3, <1>4 DEF Scope
  <2> QED
    BY <2>1 DEF Entry
<1> QED
  BY <1>1, <1>2, <1>4, <1>5, <1>6

LEMMA LookupType ==
  ASSUME NEW ss \in Chain, NEW d \in 0..Len(ss), NEW n
  PROVE  /\ scope_lookup(ss, d, n) \in Int
         /\ scope_lookup(ss, d, n) = Unbound <=> Holders(ss, d, n) = {}
         /\ scope_lookup(ss, d, n) # Unbound => scope_lookup(ss, d, n) \in Nat
<1>1. CASE Holders(ss, d, n) = {}
  BY <1>1 DEF scope_lookup, Unbound
<1>2. CASE Holders(ss, d, n) # {}
  <2>1. scope_lookup(ss, d, n) \in Nat
    BY <1>2, LookupFinds
  <2> QED
    BY <1>2, <2>1 DEF Unbound
<1> QED
  BY <1>1, <1>2

\* A lookup depends on the scopes from its own outwards only.
LEMMA SameUpTo ==
  ASSUME NEW ss \in Chain, NEW rr, NEW d \in 0..Len(ss), NEW n,
         \A k \in 1..d : rr[k] = ss[k]
  PROVE  /\ Holders(rr, d, n) = Holders(ss, d, n)
         /\ scope_lookup(rr, d, n) = scope_lookup(ss, d, n)
<1>1. Holders(rr, d, n) = Holders(ss, d, n)
  BY DEF Holders
<1>2. CASE Holders(ss, d, n) = {}
  BY <1>1, <1>2 DEF scope_lookup
<1>3. CASE Holders(ss, d, n) # {}
  <2> DEFINE k == Max(Holders(ss, d, n))
  <2>1. k \in 1..d
    BY <1>3, LookupFinds
  <2>2. rr[k] = ss[k]
    BY <2>1
  <2> QED
    BY <1>1, <1>3, <2>2 DEF scope_lookup
<1> QED
  BY <1>1, <1>2, <1>3

LEMMA EmptyScope ==
  ASSUME NEW ss, NEW d \in Nat, NEW n, ss[d + 1] = <<>>
  PROVE  /\ Holders(ss, d + 1, n) = Holders(ss, d, n)
         /\ scope_lookup(ss, d + 1, n) = scope_lookup(ss, d, n)
<1>1. Holders(ss, d + 1, n) = Holders(ss, d, n)
  <2>1. ~ \E j \in DOMAIN ss[d + 1] : ss[d + 1][j].name = n
    OBVIOUS
  <2>2. \A k \in 1..(d + 1) : k \in 1..d \/ k = d + 1
    OBVIOUS
  <2> QED
    BY <2>1, <2>2 DEF Holders
<1> QED
  BY <1>1 DEF scope_lookup

LEMMA PushKeeps ==
  ASSUME NEW ss \in Chain, NEW n
  PROVE  /\ scope_push(ss) \in Chain /\ Len(scope_push(ss)) = Len(ss) + 1
         /\ \A k \in 1..Len(ss) : scope_push(ss)[k] = ss[k]
         /\ scope_push(ss)[Len(ss) + 1] = <<>>
         /\ scope_lookup(scope_push(ss), Len(ss) + 1, n) = scope_lookup(ss, Len(ss), n)
         /\ Holders(scope_push(ss), Len(ss) + 1, n) = Holders(ss, Len(ss), n)
<1> DEFINE rr == scope_push(ss)
<1>1. <<>> \in Scope
  BY DEF Scope
<1>2. /\ rr \in Chain /\ Len(rr) = Len(ss) + 1
      /\ \A k \in 1..Len(ss) : rr[k] = ss[k]
      /\ rr[Len(ss) + 1] = <<>>
  BY <1>1 DEF Chain, scope_push
<1>3. Len(ss) \in 0..Len(ss) /\ Len(ss) \in Nat
  BY DEF Chain
<1> HIDE DEF rr
<1>4. /\ scope_lookup(rr, Len(ss) + 1, n) = scope_lookup(rr, Len(ss), n)
      /\ Holders(rr, Len(ss) + 1, n) = Holders(rr, Len(ss), n)
  BY <1>2, <1>3, EmptyScope
<1>5. /\ scope_lookup(rr, Len(ss), n) = scope_lookup(ss, Len(ss), n)
      /\ Holders(rr, Len(ss), n) = Holders(ss, Len(ss), n)
  BY <1>2, <1>3, SameUpTo
<1> QED
  BY <1>2, <1>4, <1>5 DEF rr

LEMMA PopKeeps ==
  ASSUME NEW ss \in Chain, ss # <<>>
  PROVE  /\ scope_pop(ss) \in Chain /\ Len(scope_pop(ss)) = Len(ss) - 1
         /\ \A k \in 1..(Len(ss) - 1) : scope_pop(ss)[k] = ss[k]
<1>1. Len(ss) \in Nat /\ Len(ss) # 0 /\ ss \in Seq(Scope)
  BY DEF Chain
<1>2. scope_pop(ss) = [k \in 1..(Len(ss) - 1) |-> ss[k]]
  BY <1>1 DEF scope_pop
<1>3. \A k \in 1..(Len(ss) - 1) : ss[k] \in Scope
  BY <1>1
<1>4. scope_pop(ss) \in [1..(Len(ss) - 1) -> Scope]
  BY <1>2, <1>3
<1> QED
  BY <1>1, <1>2, <1>4, Len(ss) - 1 \in Nat DEF Chain

\* What a declaration does to the chain: it appends to the innermost scope.
LEMMA DeclareShape ==
  ASSUME NEW ss \in Chain, ss # <<>>, NEW n \in Names, NEW i \in Nat, NEW rr, rr = scope_declare(ss, n, i),
         NEW L, L = Len(ss), NEW e, e = [name |-> n, local_index |-> i]
  PROVE  /\ L \in 1..L /\ L \in Nat /\ ss[L] \in Scope /\ e \in Entry /\ Append(ss[L], e) \in Scope
         /\ rr \in Chain /\ Len(rr) = L /\ rr[L] = Append(ss[L], e) /\ \A k \in 1..L : k # L => rr[k] = ss[k]
         /\ Len(rr[L]) = Len(ss[L]) + 1 /\ rr[L][Len(ss[L]) + 1] = e
         /\ \A j \in 1..Len(ss[L]) : rr[L][j] = ss[L][j]
         /\ DOMAIN rr[L] = 1..(Len(ss[L]) + 1) /\ DOMAIN ss[L] = 1..Len(ss[L]) /\ Len(ss[L]) \in Nat
<1>1. L \in 1..L /\ L \in Nat /\ ss[L] \in Scope /\ e \in Entry
  BY DEF Chain, Entry
<1>2. Append(ss[L], e) \in Scope
  BY <1>1 DEF Scope
<1>3. rr = [ss EXCEPT ![L] = Append(ss[L], e)]
  BY <1>1 DEF scope_declare, Chain
<1>4. rr \in Chain /\ Len(rr) = L /\ rr[L] = Append(ss[L], e) /\ \A k \in 1..L : k # L => rr[k] = ss[k]
  BY <1>1, <1>2, <1>3 DEF Chain
<1>5. /\ Len(rr[L]) = Len(ss[L]) + 1 /\ rr[L][Len(ss[L]) + 1] = e
      /\ \A j \in 1..Len(ss[L]) : rr[L][j] = ss[L][j]
      /\ DOMAIN rr[L] = 1..(Len(ss[L]) + 1) /\ DOMAIN ss[L] = 1..Len(ss[L]) /\ Len(ss[L]) \in Nat
  BY <1>1, <1>4 DEF Scope
<1> QED
  BY <1>1, <1>2, <1>4, <1>5

\* A declaration is what its name means from then on, and changes nothing else.
LEMMA DeclareBinds ==
  ASSUME NEW ss \in Chain, ss # <<>>, NEW n \in Names, NEW i \in Nat
  PROVE  LET rr == scope_declare(ss, n, i)  L == Len(ss) IN
         /\ rr \in Chain /\ Len(rr) = L
         /\ \A k \in 1..(L - 1) : rr[k] = ss[k]
         /\ rr[L] = Append(ss[L], [name |-> n, local_index |-> i])
         /\ scope_lookup(rr, L, n) = i
         /\ Holders(rr, L, n) = Holders(ss, L, n) \cup {L}
<1> DEFINE rr == scope_declare(ss, n, i)
           L == Len(ss)
           e == [name |-> n, local_index |-> i]
<1>0. rr = scope_declare(ss, n, i) /\ L = Len(ss) /\ e = [name |-> n, local_index |-> i]
  OBVIOUS
<1> HIDE DEF rr, L, e
<1>1. L \in 1..L /\ L \in Nat /\ ss[L] \in Scope /\ L = Len(ss)
  BY <1>0, DeclareShape
<1>2. Append(ss[L], e) \in Scope
  BY <1>0, DeclareShape
<1>4. rr \in Chain /\ Len(rr) = L /\ rr[L] = Append(ss[L], e) /\ \A k \in 1..L : k # L => rr[k] = ss[k]
  <2>1. rr \in Chain /\ Len(rr) = L /\ rr[L] = Append(ss[L], e)
    BY <1>0, DeclareShape
  <2>2. \A k \in 1..L : k # L => rr[k] = ss[k]
    BY <1>0, DeclareShape
  <2> QED
    BY <2>1, <2>2
<1>5. /\ Len(rr[L]) = Len(ss[L]) + 1 /\ rr[L][Len(ss[L]) + 1].name = n /\ rr[L][Len(ss[L]) + 1].local_index = i
      /\ \A j \in 1..Len(ss[L]) : rr[L][j] = ss[L][j]
      /\ DOMAIN rr[L] = 1..(Len(ss[L]) + 1) /\ DOMAIN ss[L] = 1..Len(ss[L]) /\ Len(ss[L]) \in Nat
  <2>1. rr[L][Len(ss[L]) + 1] = e
    BY <1>0, DeclareShape
  <2>2. e.name = n /\ e.local_index = i
    BY DEF e
  <2> QED
    BY <1>0, <2>1, <2>2, DeclareShape
<1>6. Holders(rr, L, n) = Holders(ss, L, n) \cup {L}
  <2>1. \E j \in DOMAIN rr[L] : rr[L][j].name = n
    <3>1. Len(ss[L]) + 1 \in DOMAIN rr[L] /\ rr[L][Len(ss[L]) + 1].name = n
      BY <1>5
    <3> QED
      BY <3>1
  <2>2. \A k \in 1..L : k # L => rr[k] = ss[k]
    BY <1>4
  <2> QED
    BY <1>1, <2>1, <2>2 DEF Holders
<1>7. scope_lookup(rr, L, n) = i
  <2> DEFINE k == Max(Holders(rr, L, n))
  <2>0. L \in 0..Len(rr) /\ Holders(rr, L, n) # {} /\ L \in Holders(rr, L, n)
    BY <1>1, <1>4, <1>6
  <2>1. /\ k \in 1..L /\ \A h \in Holders(rr, L, n) : h <= k
        /\ Newest(rr[k], n) \in DOMAIN rr[k]
        /\ scope_lookup(rr, L, n) = rr[k][Newest(rr[k], n)].local_index
    BY <1>4, <2>0, LookupFinds
  <2>2. k = L
    <3>1. L <= k
      BY <2>0, <2>1
    <3> HIDE DEF k
    <3> QED
      BY <1>1, <2>1, <3>1
  <2>3. rr[L] \in Scope /\ Len(ss[L]) + 1 \in DOMAIN rr[L] /\ rr[L][Len(ss[L]) + 1].name = n
    BY <1>2, <1>4, <1>5
  <2>4. Newest(rr[L], n) >= Len(ss[L]) + 1 /\ Newest(rr[L], n) \in DOMAIN rr[L]
    BY <1>5, <2>3, NewestFinds
  <2>5. Newest(rr[L], n) = Len(ss[L]) + 1
    BY <1>5, <2>4
  <2> QED
    BY <1>5, <2>1, <2>2, <2>5
<1> QED
  BY <1>1, <1>4, <1>6, <1>7 DEF rr, L, e

LEMMA DeclareKeeps ==
  ASSUME NEW ss \in Chain, ss # <<>>, NEW n \in Names, NEW i \in Nat, NEW m, m # n
  PROVE  /\ scope_lookup(scope_declare(ss, n, i), Len(ss), m) = scope_lookup(ss, Len(ss), m)
         /\ Holders(scope_declare(ss, n, i), Len(ss), m) = Holders(ss, Len(ss), m)
<1> DEFINE rr == scope_declare(ss, n, i)
           L == Len(ss)
           e == [name |-> n, local_index |-> i]
<1>0. rr = scope_declare(ss, n, i) /\ L = Len(ss) /\ e = [name |-> n, local_index |-> i]
  OBVIOUS
<1> HIDE DEF rr, L, e
<1>1. L \in 0..Len(ss) /\ L \in Nat /\ ss[L] \in Scope
  BY <1>0, DeclareShape
<1>2. \A k \in 1..L : k # L => rr[k] = ss[k]
  BY <1>0, DeclareShape
<1>3. /\ Len(rr[L]) = Len(ss[L]) + 1 /\ rr[L][Len(ss[L]) + 1].name = n
      /\ \A j \in 1..Len(ss[L]) : rr[L][j] = ss[L][j]
      /\ DOMAIN rr[L] = 1..(Len(ss[L]) + 1) /\ DOMAIN ss[L] = 1..Len(ss[L]) /\ Len(ss[L]) \in Nat
  <2>1. rr[L][Len(ss[L]) + 1] = e
    BY <1>0, DeclareShape
  <2>2. e.name = n
    BY DEF e
  <2> QED
    BY <1>0, <2>1, <2>2, DeclareShape
<1>4. {j \in DOMAIN rr[L] : rr[L][j].name = m} = {j \in DOMAIN ss[L] : ss[L][j].name = m}
  BY <1>3
<1>5. Newest(rr[L], m) = Newest(ss[L], m)
  BY <1>4 DEF Newest
<1>6. Holders(rr, L, m) = Holders(ss, L, m)
  <2>1. (\E j \in DOMAIN rr[L] : rr[L][j].name = m) <=> (\E j \in DOMAIN ss[L] : ss[L][j].name = m)
    BY <1>4
  <2> QED
    BY <1>2, <2>1 DEF Holders
<1>7. CASE Holders(ss, L, m) = {}
  BY <1>6, <1>7 DEF scope_lookup, rr, L
<1>8. CASE Holders(ss, L, m) # {}
  <2> DEFINE k == Max(Holders(ss, L, m))
  <2>1. k \in 1..L /\ Newest(ss[k], m) \in DOMAIN ss[k]
    BY <1>1, <1>8, LookupFinds
  <2> HIDE DEF k
  <2>2. Newest(rr[k], m) = Newest(ss[k], m)
    BY <1>2, <1>5, <2>1
  <2>3. rr[k][Newest(rr[k], m)] = ss[k][Newest(ss[k], m)]
    BY <1>2, <1>3, <2>1, <2>2
  <2> QED
    BY <1>6, <1>8, <2>3 DEF scope_lookup, rr, L, k
<1> QED
  BY <1>7, <1>8

\* What an outer scope says of a name still holds further in, if no more than one
\* scope has the name.
LEMMA OuterAgrees ==
  ASSUME NEW ss \in Chain, NEW d \in 0..Len(ss), NEW n,
         \A a, b \in Holders(ss, Len(ss), n) : a = b,
         scope_lookup(ss, d, n) # Unbound
  PROVE  scope_lookup(ss, Len(ss), n) = scope_lookup(ss, d, n)
<1>1. Len(ss) \in 0..Len(ss) /\ d \in Nat
  BY DEF Chain
<1>2. Holders(ss, d, n) # {}
  BY LookupType
<1>3. Holders(ss, d, n) \subseteq Holders(ss, Len(ss), n)
  BY <1>1 DEF Holders
<1>4. Holders(ss, d, n) = Holders(ss, Len(ss), n)
  BY <1>2, <1>3
<1> QED
  BY <1>4 DEF scope_lookup

-------------------------------------------------------------------------------

(***************************************************************************)
(* Types.  A function's nodes are records whose jumps stay within it, and  *)
(* the constructs that are open lie in each other as their scopes do.      *)
(***************************************************************************)

Nodes == [op : {"read", "let", "write", "ret", "skip", "goto"}, name : Names \cup {None},
          local_index : Int, to : Nat, env : [Names -> Int]]
Frames == [kind : {"body", "block", "then", "else", "while", "init", "header", "for"},
           depth : Nat, cond : Nat, skip : Nat, update : Nat]

Good(nodes, m) ==
  /\ nodes \in Seq(Nodes)
  /\ \A k \in DOMAIN nodes :
       /\ nodes[k].to <= m
       /\ nodes[k].op \in {"read", "let", "write"} => nodes[k].name \in Names

Inner(f) == IF f.kind = "for" THEN f.depth + 2 ELSE f.depth + 1

Typed ==
  /\ scopes \in Chain /\ next_local \in Nat /\ open \in Seq(Frames)
  /\ failed \in BOOLEAN /\ hidden \subseteq Names
  /\ phase \in {"between", "params", "body", "run"} /\ fuel \in 0..Fuel
  /\ owner \in [Names -> Int] /\ pc \in Nat
GoodCode ==
  /\ Good(hir, Len(hir) + 1)
  /\ \A j \in DOMAIN open : open[j].cond <= Len(hir) /\ open[j].skip <= Len(hir) /\ open[j].update <= Len(hir)
Nested ==
  /\ phase \in {"between", "run"} <=> scopes = <<>>
  /\ phase = "params" => Len(scopes) = 1
  /\ phase = "body" <=> open # <<>>
  /\ \A j \in DOMAIN open :
       /\ open[j].kind = "body" <=> j = 1
       /\ open[j].depth = IF j = 1 THEN 1 ELSE Inner(open[j - 1])
  /\ phase = "body" => Len(scopes) = Inner(open[Len(open)])
Shape == Typed /\ GoodCode /\ Nested

LEMMA VisibleType ==
  ASSUME scopes \in Chain
  PROVE  Visible \in [Names -> Int]
<1>1. Len(scopes) \in 0..Len(scopes)
  BY DEF Chain
<1> QED
  BY <1>1, LookupType DEF Visible

LEMMA GoodReads ==
  ASSUME scopes \in Chain, NEW e \in Expr
  PROVE  Good(Reads(e), 0) /\ Len(Reads(e)) \in {0, 1}
<1>1. CASE e = None
  BY <1>1 DEF Reads, Good
<1>2. CASE e # None
  <2>1. e \in Names /\ Visible \in [Names -> Int] /\ Visible[e] \in Int
    BY <1>2, VisibleType DEF Expr
  <2> QED
    BY <1>2, <2>1 DEF Reads, Good, Nodes, Node
<1> QED
  BY <1>1, <1>2

LEMMA GoodJump ==
  ASSUME scopes \in Chain, NEW k \in Nat
  PROVE  /\ Good(<<Node("ret", None, Unbound)>>, 0)
         /\ Good(<<Branch>>, 0) /\ Good(<<Goto(k)>>, k)
<1>1. Visible \in [Names -> Int]
  BY VisibleType
<1>2. Branch \in Nodes /\ Goto(k) \in Nodes /\ Node("ret", None, Unbound) \in Nodes
  BY <1>1 DEF Branch, Goto, Node, Nodes, Unbound
<1>3. Branch.to = 0 /\ Branch.op = "skip" /\ Goto(k).to = k /\ Goto(k).op = "goto"
  BY DEF Branch, Goto, Node
<1> QED
  BY <1>2, <1>3 DEF Good, Node

LEMMA GoodNode ==
  ASSUME scopes \in Chain, NEW n \in Names, NEW i \in Int
  PROVE  Good(<<Node("let", n, i)>>, 0) /\ Good(<<Node("write", n, i)>>, 0)
<1>1. Visible \in [Names -> Int]
  BY VisibleType
<1>2. Node("let", n, i) \in Nodes /\ Node("write", n, i) \in Nodes
  BY <1>1 DEF Node, Nodes
<1> QED
  BY <1>2 DEF Good, Node

LEMMA GoodJoin ==
  ASSUME NEW a, NEW b, NEW m \in Nat, NEW l \in Nat, NEW r \in Nat,
         Good(a, m), Good(b, l), m <= r, l <= r
  PROVE  /\ Good(a \o b, r) /\ Len(a \o b) = Len(a) + Len(b)
         /\ Len(a) \in Nat /\ Len(b) \in Nat
         /\ \A k \in 1..Len(a) : (a \o b)[k] = a[k]
         /\ \A k \in 1..Len(b) : (a \o b)[Len(a) + k] = b[k]
<1>1. a \in Seq(Nodes) /\ b \in Seq(Nodes)
  BY DEF Good
<1>2. a \o b \in Seq(Nodes) /\ Len(a \o b) = Len(a) + Len(b) /\ Len(a) \in Nat /\ Len(b) \in Nat
  BY <1>1
<1>3. \A k \in 1..Len(a) : (a \o b)[k] = a[k]
  BY <1>1
<1>4. \A k \in 1..Len(b) : (a \o b)[Len(a) + k] = b[k]
  BY <1>1
<1>a. ASSUME NEW k \in DOMAIN a
      PROVE  a[k].to <= r /\ (a[k].op \in {"read", "let", "write"} => a[k].name \in Names)
  <2>1. a[k] \in Nodes /\ a[k].to <= m /\ (a[k].op \in {"read", "let", "write"} => a[k].name \in Names)
    BY <1>1 DEF Good
  <2>2. a[k].to \in Nat
    BY <2>1 DEF Nodes
  <2> QED
    BY <2>1, <2>2
<1>b. ASSUME NEW k \in DOMAIN b
      PROVE  b[k].to <= r /\ (b[k].op \in {"read", "let", "write"} => b[k].name \in Names)
  <2>1. b[k] \in Nodes /\ b[k].to <= l /\ (b[k].op \in {"read", "let", "write"} => b[k].name \in Names)
    BY <1>1 DEF Good
  <2>2. b[k].to \in Nat
    BY <2>1 DEF Nodes
  <2> QED
    BY <2>1, <2>2
<1>5. ASSUME NEW k \in DOMAIN (a \o b)
      PROVE  /\ (a \o b)[k].to <= r
             /\ (a \o b)[k].op \in {"read", "let", "write"} => (a \o b)[k].name \in Names
  <2>1. CASE k <= Len(a)
    <3>1. k \in DOMAIN a /\ (a \o b)[k] = a[k]
      BY <1>1, <1>2, <1>3, <2>1
    <3> QED
      BY <3>1, <1>a
  <2>2. CASE k > Len(a)
    <3> DEFINE h == k - Len(a)
    <3>1. h \in DOMAIN b /\ (a \o b)[k] = b[h]
      BY <1>1, <1>2, <1>4, <2>2
    <3> HIDE DEF h
    <3> QED
      BY <3>1, <1>b
  <2> QED
    BY <1>1, <1>2, <2>1, <2>2
<1> QED
  BY <1>2, <1>3, <1>4, <1>5 DEF Good

\* A jump is given its target.
Target(a, k, r) == [a EXCEPT ![k].to = r]

LEMMA GoodTarget ==
  ASSUME NEW a, NEW m \in Nat, NEW r \in Nat, NEW k, Good(a, m), m <= r
  PROVE  Good(Target(a, k, r), r) /\ Len(Target(a, k, r)) = Len(a)
<1> DEFINE b == Target(a, k, r)
<1>1. a \in Seq(Nodes)
  BY DEF Good
<1>2. DOMAIN b = DOMAIN a /\ \A i \in DOMAIN a : b[i] = IF i = k THEN [a[k] EXCEPT !.to = r] ELSE a[i]
  BY DEF Target
<1>3. ASSUME NEW i \in DOMAIN a PROVE a[i] \in Nodes /\ [a[i] EXCEPT !.to = r] \in Nodes
  <2>1. a[i] \in Nodes
    BY <1>1
  <2> QED
    BY <2>1 DEF Nodes
<1>4. DOMAIN a = 1..Len(a) /\ Len(a) \in Nat
  BY <1>1
<1>5. b = [i \in 1..Len(a) |-> b[i]]
  BY <1>2, <1>4 DEF Target
<1> HIDE DEF b
<1>6. b \in [1..Len(a) -> Nodes]
  BY <1>2, <1>3, <1>4, <1>5
<1>7. b \in Seq(Nodes) /\ Len(b) = Len(a)
  BY <1>4, <1>6
<1>8. ASSUME NEW i \in DOMAIN a
      PROVE  b[i].to <= r /\ (b[i].op \in {"read", "let", "write"} => b[i].name \in Names)
  <2>1. a[i] \in Nodes /\ a[i].to <= m /\ (a[i].op \in {"read", "let", "write"} => a[i].name \in Names)
    BY <1>3 DEF Good
  <2>2. CASE i = k
    <3>1. b[i] = [a[i] EXCEPT !.to = r]
      BY <1>2, <2>2
    <3> QED
      BY <2>1, <3>1 DEF Nodes
  <2>3. CASE i # k
    BY <1>2, <2>1, <2>3 DEF Nodes
  <2> QED
    BY <2>2, <2>3
<1> QED
  BY <1>2, <1>7, <1>8 DEF Good, b

LEMMA Grows ==
  ASSUME Shape, NEW b, NEW m \in Nat, Good(b, m), m <= Len(hir) + Len(b) + 1
  PROVE  /\ Good(hir \o b, Len(hir \o b) + 1)
         /\ Len(hir \o b) = Len(hir) + Len(b) /\ Len(hir) \in Nat /\ Len(b) \in Nat
         /\ \A j \in DOMAIN open : /\ open[j].cond <= Len(hir \o b)
                                   /\ open[j].skip <= Len(hir \o b)
                                   /\ open[j].update <= Len(hir \o b)
<1>1. hir \in Seq(Nodes) /\ b \in Seq(Nodes) /\ Good(hir, Len(hir) + 1)
  BY DEF Shape, GoodCode, Good
<1>2. Len(hir) \in Nat /\ Len(b) \in Nat /\ Len(hir \o b) = Len(hir) + Len(b)
  BY <1>1
<1>3. Good(hir \o b, Len(hir) + Len(b) + 1)
  <2> DEFINE h == Len(hir) + 1
             r == Len(hir) + Len(b) + 1
  <2>1. h \in Nat /\ r \in Nat /\ h <= r /\ m <= r
    BY <1>2
  <2>2. Good(hir, h)
    BY <1>1
  <2> HIDE DEF h, r
  <2>3. Good(hir \o b, r)
    BY <2>1, <2>2, GoodJoin
  <2> QED
    BY <2>3 DEF r
<1>4. \A j \in DOMAIN open : open[j] \in Frames
  BY DEF Shape, Typed
<1> QED
  BY <1>2, <1>3, <1>4 DEF Shape, GoodCode, Frames

\* The innermost construct, and the ones around it.
LEMMA TopType ==
  ASSUME Shape, phase = "body"
  PROVE  /\ Len(open) \in Nat \ {0} /\ DOMAIN open = 1..Len(open)
         /\ Top \in Frames /\ Top = open[Len(open)]
         /\ Top.cond <= Len(hir) /\ Top.skip <= Len(hir) /\ Top.update <= Len(hir)
         /\ Len(scopes) = Inner(Top) /\ Len(scopes) \in Nat /\ Len(scopes) >= 2 /\ scopes # <<>>
         /\ Top.depth \in Nat /\ Top.depth >= 1
         /\ Top.kind = "body" <=> Len(open) = 1
<1>1. open \in Seq(Frames) /\ open # <<>>
  BY DEF Shape, Typed, Nested
<1>2. Len(open) \in Nat \ {0} /\ DOMAIN open = 1..Len(open) /\ Top = open[Len(open)] /\ Top \in Frames
  BY <1>1 DEF Top
<1>3. Len(open) \in DOMAIN open
  BY <1>2
<1>4. Top.cond <= Len(hir) /\ Top.skip <= Len(hir) /\ Top.update <= Len(hir)
  BY <1>2, <1>3 DEF Shape, GoodCode
<1>5. \A j \in DOMAIN open : open[j].depth \in Nat /\ Inner(open[j]) \in Nat /\ Inner(open[j]) >= 1
  <2> SUFFICES ASSUME NEW j \in DOMAIN open
               PROVE  open[j].depth \in Nat /\ Inner(open[j]) \in Nat /\ Inner(open[j]) >= 1
    OBVIOUS
  <2>1. open[j] \in Frames
    BY <1>1
  <2> QED
    BY <2>1 DEF Frames, Inner
<1>6. Top.depth >= 1 /\ Top.depth \in Nat
  <2>1. CASE Len(open) = 1
    BY <1>2, <1>3, <2>1 DEF Shape, Nested
  <2>2. CASE Len(open) # 1
    <3>1. Len(open) - 1 \in DOMAIN open /\ Top.depth = Inner(open[Len(open) - 1])
      BY <1>2, <1>3, <2>2 DEF Shape, Nested
    <3> QED
      BY <1>5, <3>1
  <2> QED
    BY <2>1, <2>2
<1>7. Len(scopes) = Inner(Top) /\ Inner(Top) \in Nat /\ Inner(Top) >= 2
  BY <1>2, <1>6 DEF Shape, Nested, Inner
<1>8. Top.kind = "body" <=> Len(open) = 1
  BY <1>2, <1>3 DEF Shape, Nested
<1> QED
  BY <1>2, <1>4, <1>6, <1>7, <1>8

\* A construct is added, replaced or left: constructs still lie in each other.
NestedIn(fs) ==
  \A j \in DOMAIN fs :
    /\ fs[j].kind = "body" <=> j = 1
    /\ fs[j].depth = IF j = 1 THEN 1 ELSE Inner(fs[j - 1])
BoundIn(fs, l) == \A j \in DOMAIN fs : fs[j].cond <= l /\ fs[j].skip <= l /\ fs[j].update <= l

LEMMA FrameAdded ==
  ASSUME NEW fs \in Seq(Frames), NEW f \in Frames, NEW l, NestedIn(fs), BoundIn(fs, l),
         f.cond <= l, f.skip <= l, f.update <= l,
         f.kind = "body" <=> Len(fs) = 0,
         f.depth = IF Len(fs) = 0 THEN 1 ELSE Inner(fs[Len(fs)])
  PROVE  LET gs == Append(fs, f) IN
         /\ gs \in Seq(Frames) /\ gs # <<>> /\ Len(gs) = Len(fs) + 1
         /\ gs[Len(gs)] = f /\ NestedIn(gs) /\ BoundIn(gs, l)
<1> DEFINE gs == Append(fs, f)
<1>1. /\ gs \in Seq(Frames) /\ gs # <<>> /\ Len(gs) = Len(fs) + 1 /\ Len(fs) \in Nat
      /\ gs[Len(gs)] = f /\ DOMAIN gs = 1..(Len(fs) + 1) /\ DOMAIN fs = 1..Len(fs)
      /\ \A j \in DOMAIN fs : gs[j] = fs[j]
  OBVIOUS
<1> HIDE DEF gs
<1>2. ASSUME NEW j \in DOMAIN gs
      PROVE  /\ gs[j].kind = "body" <=> j = 1
             /\ gs[j].depth = IF j = 1 THEN 1 ELSE Inner(gs[j - 1])
             /\ gs[j].cond <= l /\ gs[j].skip <= l /\ gs[j].update <= l
  <2>1. CASE j \in DOMAIN fs
    <3>1. gs[j] = fs[j] /\ (j # 1 => j - 1 \in DOMAIN fs)
      BY <1>1, <2>1
    <3> QED
      BY <1>1, <2>1, <3>1 DEF NestedIn, BoundIn
  <2>2. CASE j \notin DOMAIN fs
    <3>1. j = Len(gs) /\ j = Len(fs) + 1 /\ (j # 1 => j - 1 \in DOMAIN fs /\ Len(fs) # 0) /\ (j = 1 <=> Len(fs) = 0)
      BY <1>1, <2>2
    <3> QED
      BY <1>1, <3>1
  <2> QED
    BY <2>1, <2>2
<1> QED
  BY <1>1, <1>2 DEF NestedIn, BoundIn, gs

LEMMA FrameLeft ==
  ASSUME NEW fs \in Seq(Frames), NEW l, NestedIn(fs), BoundIn(fs, l), Len(fs) > 1
  PROVE  LET gs == SubSeq(fs, 1, Len(fs) - 1) IN
         /\ gs \in Seq(Frames) /\ gs # <<>> /\ Len(gs) = Len(fs) - 1
         /\ gs[Len(gs)] = fs[Len(fs) - 1] /\ fs[Len(fs)].depth = Inner(gs[Len(gs)])
         /\ \A j \in DOMAIN gs : gs[j] = fs[j]
         /\ NestedIn(gs) /\ BoundIn(gs, l)
<1> DEFINE gs == SubSeq(fs, 1, Len(fs) - 1)
<1>1. Len(fs) \in Nat /\ DOMAIN fs = 1..Len(fs) /\ Len(fs) - 1 \in Nat
  OBVIOUS
<1>2. gs = [j \in 1..(Len(fs) - 1) |-> fs[j]]
  BY <1>1
<1>3. gs \in Seq(Frames) /\ Len(gs) = Len(fs) - 1 /\ DOMAIN gs = 1..(Len(fs) - 1)
  <2>1. \A j \in 1..(Len(fs) - 1) : fs[j] \in Frames
    BY <1>1
  <2>2. gs \in [1..(Len(fs) - 1) -> Frames]
    BY <1>2, <2>1
  <2>5. Len(gs) = Len(fs) - 1
    BY <1>1
  <2> HIDE DEF gs
  <2>3. gs \in Seq(Frames)
    BY <1>1, <2>2
  <2>4. DOMAIN gs = 1..(Len(fs) - 1)
    BY <2>2
  <2> QED
    BY <2>3, <2>4, <2>5
<1>4. \A j \in DOMAIN gs : gs[j] = fs[j] /\ j \in DOMAIN fs /\ (j # 1 => j - 1 \in DOMAIN gs)
  BY <1>1, <1>2, <1>3
<1> HIDE DEF gs
<1>5. NestedIn(gs) /\ BoundIn(gs, l)
  BY <1>3, <1>4 DEF NestedIn, BoundIn
<1>6. Len(gs) \in DOMAIN gs /\ gs # <<>> /\ gs[Len(gs)] = fs[Len(fs) - 1] /\ Len(fs) \in DOMAIN fs /\ Len(fs) # 1
  BY <1>1, <1>3, <1>4
<1>7. fs[Len(fs)].depth = Inner(fs[Len(fs) - 1])
  BY <1>6 DEF NestedIn
<1> QED
  BY <1>3, <1>4, <1>5, <1>6, <1>7 DEF gs

LEMMA Wider ==
  ASSUME NEW fs \in Seq(Frames), NEW l \in Nat, NEW m \in Nat, l <= m, BoundIn(fs, l)
  PROVE  BoundIn(fs, m)
<1>1. ASSUME NEW j \in DOMAIN fs
      PROVE  fs[j].cond <= m /\ fs[j].skip <= m /\ fs[j].update <= m
  <2>1. fs[j] \in Frames
    OBVIOUS
  <2>2. fs[j].cond \in Nat /\ fs[j].skip \in Nat /\ fs[j].update \in Nat
    BY <2>1 DEF Frames
  <2>3. fs[j].cond <= l /\ fs[j].skip <= l /\ fs[j].update <= l
    BY DEF BoundIn
  <2> QED
    BY <2>2, <2>3
<1> QED
  BY <1>1 DEF BoundIn

\* What the actions that open, swap and leave a construct do to open.
LEMMA Opened ==
  ASSUME Shape, phase = "body", NEW f \in Frames, NEW l \in Nat, Len(hir) <= l,
         f.cond <= l, f.skip <= l, f.update <= l, f.kind # "body", f.depth = Len(scopes)
  PROVE  LET gs == Append(open, f) IN
         /\ gs \in Seq(Frames) /\ gs # <<>> /\ gs[Len(gs)] = f /\ NestedIn(gs) /\ BoundIn(gs, l)
<1>1. open \in Seq(Frames) /\ NestedIn(open) /\ Len(open) # 0 /\ BoundIn(open, l)
  <2>1. open \in Seq(Frames) /\ NestedIn(open)
    BY DEF Shape, Typed, Nested, NestedIn
  <2>2. BoundIn(open, l)
    <3>1. Len(hir) \in Nat /\ BoundIn(open, Len(hir))
      BY DEF Shape, GoodCode, Good, BoundIn
    <3> QED
      BY <2>1, <3>1, Wider
  <2>3. Len(open) # 0
    BY TopType
  <2> QED
    BY <2>1, <2>2, <2>3
<1>2. f.depth = Inner(open[Len(open)])
  BY TopType
<1> QED
  BY <1>1, <1>2, FrameAdded

LEMMA LeftBehind ==
  ASSUME Shape, phase = "body", Top.kind # "body", NEW l \in Nat, Len(hir) <= l
  PROVE  /\ Rest \in Seq(Frames) /\ Rest # <<>> /\ Len(Rest) = Len(open) - 1
         /\ Top.depth = Inner(Rest[Len(Rest)]) /\ \A j \in DOMAIN Rest : Rest[j] = open[j]
         /\ NestedIn(Rest) /\ BoundIn(Rest, l)
<1>1. open \in Seq(Frames) /\ NestedIn(open) /\ Len(open) > 1 /\ BoundIn(open, l)
  <2>1. open \in Seq(Frames) /\ NestedIn(open)
    BY DEF Shape, Typed, Nested, NestedIn
  <2>2. BoundIn(open, l)
    <3>1. Len(hir) \in Nat /\ BoundIn(open, Len(hir))
      BY DEF Shape, GoodCode, Good, BoundIn
    <3> QED
      BY <2>1, <3>1, Wider
  <2>3. Len(open) > 1
    BY TopType
  <2> QED
    BY <2>1, <2>2, <2>3
<1> QED
  BY <1>1, FrameLeft DEF Rest, Top

LEMMA Swapped ==
  ASSUME Shape, phase = "body", Top.kind # "body", NEW f \in Frames, NEW l \in Nat, Len(hir) <= l,
         f.cond <= l, f.skip <= l, f.update <= l, f.kind # "body", f.depth = Top.depth
  PROVE  LET gs == Append(Rest, f) IN
         /\ gs \in Seq(Frames) /\ gs # <<>> /\ gs[Len(gs)] = f /\ NestedIn(gs) /\ BoundIn(gs, l)
<1>1. /\ Rest \in Seq(Frames) /\ Rest # <<>>
      /\ f.depth = Inner(Rest[Len(Rest)]) /\ NestedIn(Rest) /\ BoundIn(Rest, l)
  BY LeftBehind
<1>2. Len(Rest) # 0
  BY <1>1
<1> HIDE DEF Rest
<1> QED
  BY <1>1, <1>2, FrameAdded

\* The statements that neither open nor close a construct.
LEMMA SpendType ==
  ASSUME NEW k \in Kinds, Spend(k), fuel \in 0..Fuel
  PROVE  fuel' \in 0..Fuel
<1>1. Cost[k] \in Nat /\ Fuel \in Nat
  BY ScopesAssumption
<1> QED
  BY <1>1 DEF Spend

LEMMA ShapeSimple ==
  ASSUME Shape, NEW n, NEW e \in Expr,
         (n \in Names /\ (Let(n, e) \/ Assign(n, e))) \/ Use(e) \/ Return(e)
  PROVE  Shape'
<1> DEFINE L == n \in Names /\ Let(n, e)
           A == n \in Names /\ Assign(n, e)
<1> USE DEF Shape, Typed
<1>0. phase = "body" /\ phase' = phase /\ owner' = owner /\ pc' = pc
  BY DEF Let, Assign, Use, Return, InBlock
<1>1. fuel' \in 0..Fuel
  <2>1. \E k \in Kinds : Spend(k)
    BY ScopesAssumption DEF Let, Assign, Use, Return
  <2> QED
    BY <2>1, SpendType
<1>2. /\ scopes' \in Chain /\ Len(scopes') = Len(scopes) /\ scopes' # <<>>
      /\ next_local' \in Nat /\ hidden' \subseteq Names
      /\ scope_lookup(scopes', Len(scopes'), n) \in Int
  <2>1. scopes \in Chain /\ scopes # <<>> /\ Len(scopes) \in Nat
    BY <1>0, TopType
  <2>2. CASE L
    <3>1. scopes' = scope_declare(scopes, n, next_local) /\ next_local' = next_local + 1
      BY <2>2 DEF Let, Declared
    <3>a. next_local \in Nat /\ n \in Names
      BY <2>2
    <3>2. scopes' \in Chain /\ Len(scopes') = Len(scopes) /\ scope_lookup(scopes', Len(scopes), n) = next_local
      <4> HIDE DEF Shape, Typed, L, A
      <4> QED
        BY <2>1, <3>1, <3>a, DeclareBinds
    <3>3. hidden' \subseteq Names
      BY <2>2 DEF Let
    <3>4. scopes' # <<>>
      BY <2>1, <3>2, Len(scopes) # 0
    <3> QED
      BY <3>1, <3>2, <3>3, <3>4
  <2>3. CASE ~ L
    <3>1. UNCHANGED <<scopes, next_local, hidden>>
      BY <2>3 DEF Assign, Use, Return
    <3>2. Len(scopes) \in 0..Len(scopes)
      BY <2>1
    <3> QED
      BY <2>1, <3>1, <3>2, LookupType
  <2> QED
    BY <2>2, <2>3
<1>3. /\ open' \in Seq(Frames) /\ NestedIn(open') /\ BoundIn(open', Len(hir)) /\ open' # <<>>
      /\ Inner(open'[Len(open')]) = Inner(open[Len(open)])
  <2>1. CASE open' = open
    BY <1>0, <2>1 DEF Nested, NestedIn, BoundIn, GoodCode
  <2>2. CASE Top.kind = "init" /\ open' = Append(Rest, [Top EXCEPT !.kind = "header"])
    <3> DEFINE f == [Top EXCEPT !.kind = "header"]
    <3>1. f \in Frames /\ f.kind = "header" /\ f.depth = Top.depth /\ Inner(f) = Inner(Top)
          /\ f.cond <= Len(hir) /\ f.skip <= Len(hir) /\ f.update <= Len(hir)
      <4>1. Top \in Frames
        BY <1>0, TopType
      <4>2. /\ f \in Frames /\ f.kind = "header" /\ f.depth = Top.depth
            /\ f.cond = Top.cond /\ f.skip = Top.skip /\ f.update = Top.update
        BY <4>1 DEF Frames
      <4> QED
        BY <1>0, <2>2, <4>2, TopType DEF Inner
    <3>2. Len(hir) \in Nat
      BY DEF GoodCode, Good
    <3> HIDE DEF f
    <3>3. LET gs == Append(Rest, f) IN
          /\ gs \in Seq(Frames) /\ gs # <<>> /\ gs[Len(gs)] = f /\ NestedIn(gs) /\ BoundIn(gs, Len(hir))
      BY <1>0, <2>2, <3>1, <3>2, Swapped
    <3> QED
      BY <2>2, <3>1, <3>3 DEF f, Top
  <2> QED
    BY <2>1, <2>2 DEF Let, Assign, Use, Return, InitDone
<1>4. Good(hir', Len(hir') + 1) /\ Len(hir) <= Len(hir')
  <2> DEFINE node == IF L THEN <<Node("let", n, scope_lookup(scopes', Len(scopes'), n))>>
                     ELSE IF A THEN <<Node("write", n, Visible[n])>>
                     ELSE IF Return(e) THEN <<Node("ret", None, Unbound)>> ELSE <<>>
  <2>1. hir' = hir \o (Reads(e) \o node)
    <3>1. hir \in Seq(Nodes) /\ Reads(e) \in Seq(Nodes)
      BY GoodReads DEF GoodCode, Good
    <3>2. CASE L
      BY <3>2 DEF Let, Convert
    <3>3. CASE A /\ ~ L
      BY <3>3 DEF Assign
    <3>4. CASE Return(e) /\ ~ L /\ ~ A
      BY <3>4 DEF Return, Convert
    <3>5. CASE Use(e) /\ ~ L /\ ~ A /\ ~ Return(e)
      BY <3>1, <3>5, Reads(e) \o <<>> = Reads(e) DEF Use, Convert
    <3> QED
      BY <3>2, <3>3, <3>4, <3>5
  <2>2. Good(node, 0)
    <3>1. n \in Names => Visible[n] \in Int
      BY VisibleType
    <3>2. Good(<<>>, 0)
      BY DEF Good
    <3> QED
      BY <1>2, <3>1, <3>2, GoodNode, GoodJump, 0 \in Nat
  <2>3. Good(Reads(e), 0)
    BY GoodReads
  <2> HIDE DEF node
  <2>4. Good(Reads(e) \o node, 0) /\ Len(Reads(e) \o node) \in Nat
    <3>1. Good(Reads(e) \o node, 0)
      BY <2>2, <2>3, GoodJoin
    <3> QED
      BY <3>1 DEF Good
  <2>5. Len(hir) \in Nat
    BY DEF GoodCode, Good
  <2> DEFINE b == Reads(e) \o node
  <2>6. Good(b, 0) /\ Len(b) \in Nat /\ hir' = hir \o b
    BY <2>1, <2>4
  <2> HIDE DEF b, Shape, Typed
  <2>7. Good(hir \o b, Len(hir \o b) + 1) /\ Len(hir \o b) = Len(hir) + Len(b)
    BY <2>5, <2>6, Grows
  <2> QED
    BY <2>5, <2>6, <2>7
<1>5. GoodCode'
  <2>1. Len(hir) \in Nat /\ Len(hir') \in Nat
    BY <1>4 DEF GoodCode, Good
  <2>2. BoundIn(open', Len(hir'))
    BY <1>3, <1>4, <2>1, Wider
  <2> QED
    BY <1>4, <2>2 DEF GoodCode, BoundIn
<1>6. Nested'
  BY <1>0, <1>2, <1>3 DEF Nested, NestedIn
<1>7. failed' \in BOOLEAN
  BY DEF Let, Assign, Use, Return, Convert
<1> QED
  BY <1>0, <1>1, <1>2, <1>3, <1>5, <1>6, <1>7

\* The statements that open a construct.
LEMMA ShapeOpen ==
  ASSUME Shape, NEW e \in Expr, OpenBlock \/ OpenIf(e) \/ OpenWhile(e) \/ OpenFor
  PROVE  Shape'
<1> DEFINE f == open'[Len(open')]
<1>0. /\ phase = "body" /\ phase' = phase /\ UNCHANGED <<owner, pc, hidden, next_local>>
      /\ scopes' = scope_push(scopes)
  BY DEF OpenBlock, OpenIf, OpenWhile, OpenFor, InBlock, Enter
<1>1. fuel' \in 0..Fuel
  <2>1. \E k \in Kinds : Spend(k)
    BY ScopesAssumption DEF OpenBlock, OpenIf, OpenWhile, OpenFor
  <2> QED
    BY <2>1, SpendType DEF Shape, Typed
<1>2. scopes \in Chain /\ Len(scopes) \in Nat /\ hir \in Seq(Nodes) /\ Len(hir) \in Nat
  BY <1>0, TopType DEF Shape, Typed, GoodCode, Good
<1>3. scopes' \in Chain /\ Len(scopes') = Len(scopes) + 1 /\ scopes' # <<>>
  <2>1. scopes' \in Chain /\ Len(scopes') = Len(scopes) + 1
    BY <1>0, <1>2, PushKeeps
  <2> QED
    BY <1>2, <2>1, Len(scopes) + 1 # 0
<1>4. Good(hir', Len(hir') + 1) /\ Len(hir) <= Len(hir') /\ Len(hir') \in Nat
      /\ (hir' # hir => Len(hir) + 1 <= Len(hir'))
  <2>1. CASE OpenBlock \/ OpenFor
    BY <1>2, <2>1 DEF OpenBlock, OpenFor, Shape, GoodCode
  <2>2. CASE OpenIf(e) \/ OpenWhile(e)
    <3> DEFINE b == Reads(e) \o <<Branch>>
    <3>1. hir' = hir \o b
      BY <2>2 DEF OpenIf, OpenWhile, Convert
    <3>2. Good(b, 0) /\ Len(b) \in Nat /\ Len(b) >= 1
      <4>1. Good(Reads(e), 0) /\ Len(Reads(e)) \in {0, 1}
        BY <1>2, GoodReads
      <4>2. Good(<<Branch>>, 0)
        BY <1>2, GoodJump, 0 \in Nat
      <4>3. Good(b, 0) /\ Len(b) = Len(Reads(e)) + Len(<<Branch>>)
        BY <4>1, <4>2, GoodJoin
      <4> QED
        BY <4>1, <4>3, Len(<<Branch>>) = 1
    <3> HIDE DEF b
    <3>3. Good(hir \o b, Len(hir \o b) + 1) /\ Len(hir \o b) = Len(hir) + Len(b)
      BY <1>2, <3>2, Grows
    <3> QED
      BY <1>2, <3>1, <3>2, <3>3
  <2> QED
    BY <2>1, <2>2
<1>5. \E g \in Frames : /\ open' = Append(open, g) /\ g.kind \notin {"body", "for"} /\ g.depth = Len(scopes)
                        /\ g.cond <= Len(hir') /\ g.skip <= Len(hir') /\ g.update <= Len(hir')
  <2>1. CASE OpenBlock
    BY <1>2, <1>4, <2>1 DEF OpenBlock, Enter, Frame, Frames
  <2>2. CASE OpenFor
    BY <1>2, <1>4, <2>2 DEF OpenFor, Enter, Frame, Frames
  <2>3. CASE OpenIf(e)
    <3> DEFINE g == Frame("then", 0, Len(hir'), 0)
    <3>1. open' = Append(open, g)
      BY <2>3 DEF OpenIf, Enter
    <3>2. g \in Frames /\ g.kind = "then" /\ g.depth = Len(scopes) /\ g.cond = 0 /\ g.skip = Len(hir') /\ g.update = 0
      BY <1>2, <1>4 DEF Frame, Frames
    <3> HIDE DEF g
    <3> QED
      BY <1>4, <3>1, <3>2
  <2>4. CASE OpenWhile(e)
    <3>1. hir' # hir
      <4>1. hir' = hir \o (Reads(e) \o <<Branch>>)
        BY <2>4 DEF OpenWhile, Convert
      <4>2. Reads(e) \in Seq(Nodes) /\ Len(Reads(e)) \in Nat
        BY <1>2, GoodReads DEF Good
      <4>3. Len(Reads(e) \o <<Branch>>) = Len(Reads(e)) + 1 /\ Reads(e) \o <<Branch>> \in Seq(Nodes \cup {Branch})
        BY <4>2
      <4> DEFINE b == Reads(e) \o <<Branch>>
      <4> HIDE DEF b
      <4>4. Len(hir \o b) = Len(hir) + Len(b) /\ Len(b) = Len(Reads(e)) + 1
        BY <1>2, <4>2, <4>3 DEF b
      <4> QED
        BY <1>2, <4>1, <4>2, <4>4 DEF b
    <3>2. Len(hir) + 1 \in Nat /\ Len(hir) + 1 <= Len(hir')
      BY <1>2, <1>4, <3>1
    <3> DEFINE g == Frame("while", Upto(1), Len(hir'), 0)
    <3>3. g = [kind |-> "while", depth |-> Len(scopes), cond |-> Len(hir) + 1, skip |-> Len(hir'), update |-> 0]
      BY DEF Frame, Upto
    <3>4. g \in Frames
      BY <1>2, <1>4, <3>2, <3>3 DEF Frames
    <3>5. open' = Append(open, g)
      BY <2>4 DEF OpenWhile, Enter
    <3> HIDE DEF g
    <3> QED
      BY <1>2, <1>4, <3>2, <3>3, <3>4, <3>5
  <2> QED
    BY <2>1, <2>2, <2>3, <2>4
<1>6. PICK g \in Frames : /\ open' = Append(open, g) /\ g.kind \notin {"body", "for"} /\ g.depth = Len(scopes)
                          /\ g.cond <= Len(hir') /\ g.skip <= Len(hir') /\ g.update <= Len(hir')
  BY <1>5
<1>7. /\ open' \in Seq(Frames) /\ open' # <<>> /\ open'[Len(open')] = g
      /\ NestedIn(open') /\ BoundIn(open', Len(hir'))
  BY <1>0, <1>4, <1>6, Opened
<1>8. GoodCode'
  BY <1>4, <1>7 DEF GoodCode, BoundIn
<1>9. Nested'
  <2>1. Len(scopes') = Inner(open'[Len(open')])
    BY <1>3, <1>6, <1>7 DEF Inner
  <2> QED
    BY <1>0, <1>3, <1>7, <2>1 DEF Nested, NestedIn
<1>10. failed' \in BOOLEAN
  BY DEF Shape, Typed, OpenBlock, OpenIf, OpenWhile, OpenFor, Convert
<1> QED
  BY <1>0, <1>1, <1>3, <1>7, <1>8, <1>9, <1>10 DEF Shape, Typed

\* The header of a for.
LEMMA ShapeHeader ==
  ASSUME Shape, NEW c \in Expr, NEW u \in Expr, ForHeader(c, u)
  PROVE  Shape'
<1> DEFINE cond == Reads(c) \o <<Branch>>
           skip == Upto(Len(cond))
           update == skip + 2
           body == update + Len(Reads(u)) + 1
           jumps == <<Goto(body)>> \o (Reads(u) \o <<Goto(Upto(1))>>)
           f == [Frame("for", Upto(1), skip, update) EXCEPT !.depth = Top.depth]
<1>0. /\ phase = "body" /\ phase' = phase /\ Top.kind \in {"init", "header"}
      /\ UNCHANGED <<owner, pc, hidden, next_local, fuel>>
      /\ scopes' = scope_push(scopes) /\ failed' \in BOOLEAN
      /\ hir' = hir \o (cond \o jumps) /\ open' = Append(Rest, f)
  BY DEF ForHeader
<1>2. scopes \in Chain /\ Len(scopes) \in Nat /\ Len(hir) \in Nat /\ Top.depth \in Nat
      /\ Len(scopes) = Top.depth + 1
  BY <1>0, TopType DEF Shape, Typed, GoodCode, Good, Inner
<1>3. scopes' \in Chain /\ Len(scopes') = Top.depth + 2 /\ scopes' # <<>>
  <2>0. scopes' \in Chain /\ Len(scopes') = Len(scopes) + 1
    BY <1>0, <1>2, PushKeeps
  <2>1. scopes' \in Chain /\ Len(scopes') = Top.depth + 2
    BY <1>2, <2>0
  <2> QED
    BY <1>2, <2>1, Top.depth + 2 # 0
<1>4. /\ Good(Reads(c), 0) /\ Len(Reads(c)) \in Nat /\ Good(Reads(u), 0) /\ Len(Reads(u)) \in Nat
      /\ Good(<<Branch>>, 0)
  <2>1. Len(Reads(c)) \in {0, 1} /\ Len(Reads(u)) \in {0, 1} /\ Good(Reads(c), 0) /\ Good(Reads(u), 0)
    BY <1>2, GoodReads
  <2>2. Good(<<Branch>>, 0)
    BY <1>2, GoodJump, 0 \in Nat
  <2> QED
    BY <2>1, <2>2
<1>5. Good(cond, 0) /\ Len(cond) = Len(Reads(c)) + 1
  BY <1>4, GoodJoin
<1>6. skip \in Nat /\ update \in Nat /\ body \in Nat /\ Upto(1) \in Nat
      /\ skip = Len(hir) + Len(cond) /\ update = skip + 2 /\ body = update + Len(Reads(u)) + 1
      /\ Upto(1) = Len(hir) + 1
  BY <1>2, <1>4, <1>5 DEF Upto
<1>7. Good(<<Goto(body)>>, body) /\ Good(<<Goto(Upto(1))>>, Upto(1))
  <2> HIDE DEF body
  <2> QED
    BY <1>2, <1>6, GoodJump
<1> HIDE DEF cond, skip, update, body
<1>8. Good(jumps, body) /\ Len(jumps) = Len(Reads(u)) + 2
  <2> DEFINE k == Upto(1)
             b == Reads(u) \o <<Goto(k)>>
  <2>1. k \in Nat /\ k <= body /\ 0 <= k /\ Good(<<Goto(k)>>, k)
    BY <1>2, <1>4, <1>5, <1>6, <1>7
  <2>2. Good(b, k) /\ Len(b) = Len(Reads(u)) + 1
    <3> HIDE DEF k
    <3> QED
      BY <1>4, <2>1, GoodJoin
  <2> HIDE DEF b, k
  <2>3. Good(<<Goto(body)>> \o b, body) /\ Len(<<Goto(body)>> \o b) = 1 + Len(b)
    <3>1. Good(<<Goto(body)>> \o b, body) /\ Len(<<Goto(body)>> \o b) = Len(<<Goto(body)>>) + Len(b)
      BY <1>6, <1>7, <2>1, <2>2, GoodJoin
    <3> QED
      BY <3>1
  <2> QED
    BY <1>4, <2>2, <2>3 DEF b, k
<1> HIDE DEF jumps
<1>9. Good(cond \o jumps, body) /\ Len(cond \o jumps) = Len(Reads(c)) + Len(Reads(u)) + 3
  <2>1. Good(cond \o jumps, body) /\ Len(cond \o jumps) = Len(cond) + Len(jumps)
    BY <1>5, <1>6, <1>8, GoodJoin
  <2> QED
    BY <1>4, <1>5, <1>8, <2>1
<1>10. Good(hir', Len(hir') + 1) /\ Len(hir') = body - 1 /\ Len(hir) <= Len(hir')
  <2> DEFINE b == cond \o jumps
  <2>1. Good(b, body) /\ Len(b) = Len(Reads(c)) + Len(Reads(u)) + 3 /\ hir' = hir \o b
    BY <1>0, <1>9
  <2> HIDE DEF b
  <2>2. body <= Len(hir) + Len(b) + 1 /\ body = Len(hir) + Len(b) + 1
    BY <1>2, <1>4, <1>5, <1>6, <2>1
  <2>3. Good(hir', Len(hir') + 1) /\ Len(hir') = Len(hir) + Len(b)
    BY <1>6, <2>1, <2>2, Grows
  <2> QED
    BY <1>2, <1>4, <2>1, <2>2, <2>3
<1>11. /\ f \in Frames /\ f.kind = "for" /\ f.depth = Top.depth
       /\ f.cond <= Len(hir') /\ f.skip <= Len(hir') /\ f.update <= Len(hir')
  <2>1. f = [kind |-> "for", depth |-> Top.depth, cond |-> Upto(1), skip |-> skip, update |-> update]
    BY DEF Frame
  <2>2. Upto(1) <= Len(hir') /\ skip <= Len(hir') /\ update <= Len(hir')
    BY <1>2, <1>4, <1>5, <1>6, <1>10
  <2> HIDE DEF f
  <2> QED
    BY <1>2, <1>6, <2>1, <2>2 DEF Frames
<1> HIDE DEF f
<1>12. /\ open' \in Seq(Frames) /\ open' # <<>> /\ open'[Len(open')] = f
       /\ NestedIn(open') /\ BoundIn(open', Len(hir'))
  <2>1. Len(hir') \in Nat /\ Top.kind # "body" /\ f.kind # "body"
    BY <1>0, <1>10, <1>11 DEF Good
  <2> QED
    BY <1>0, <1>10, <1>11, <2>1, Swapped
<1>13. GoodCode'
  BY <1>10, <1>12 DEF GoodCode, BoundIn
<1>14. Nested'
  <2>1. Len(scopes') = Inner(open'[Len(open')])
    BY <1>3, <1>11, <1>12 DEF Inner
  <2> QED
    BY <1>0, <1>3, <1>12, <2>1 DEF Nested, NestedIn
<1> QED
  BY <1>0, <1>3, <1>12, <1>13, <1>14 DEF Shape, Typed

\* The end of a construct, and the change from one arm to the other.
LEMMA ShapeClose ==
  ASSUME Shape, CloseBlock \/ CloseWhile \/ CloseFor
  PROVE  Shape'
<1>0. /\ phase = "body" /\ phase' = phase /\ Top.kind # "body"
      /\ UNCHANGED <<owner, pc, hidden, next_local, fuel, failed>> /\ open' = Rest
  BY DEF CloseBlock, CloseWhile, CloseFor, Leave
<1>1. /\ scopes \in Chain /\ scopes # <<>> /\ Len(scopes) \in Nat /\ Len(scopes) = Inner(Top)
      /\ Len(scopes) >= 2 /\ Top.depth \in Nat /\ Top.depth >= 1 /\ hir \in Seq(Nodes) /\ Len(hir) \in Nat
      /\ Good(hir, Len(hir) + 1)
  BY <1>0, TopType DEF Shape, Typed, GoodCode, Good
<1>2. scopes' \in Chain /\ Len(scopes') = Top.depth
  <2>1. scope_pop(scopes) \in Chain /\ Len(scope_pop(scopes)) = Len(scopes) - 1
    BY <1>1, PopKeeps
  <2>2. CASE CloseFor
    <3> DEFINE rr == scope_pop(scopes)
    <3>1. scopes' = scope_pop(rr) /\ Len(scopes) = Top.depth + 2
      BY <1>1, <2>2 DEF CloseFor, Inner
    <3>2. rr \in Chain /\ Len(rr) = Len(scopes) - 1
      BY <2>1
    <3> HIDE DEF rr
    <3>3. rr # <<>>
      BY <1>1, <3>1, <3>2, Len(rr) # 0
    <3>4. scope_pop(rr) \in Chain /\ Len(scope_pop(rr)) = Len(rr) - 1
      BY <3>2, <3>3, PopKeeps
    <3> QED
      BY <1>1, <3>1, <3>2, <3>4
  <2>3. CASE ~ CloseFor
    <3>1. scopes' = scope_pop(scopes) /\ Len(scopes) = Top.depth + 1
      BY <1>1, <2>3 DEF CloseBlock, CloseWhile, Inner
    <3> QED
      BY <1>1, <2>1, <3>1
  <2> QED
    BY <2>2, <2>3
<1>3. Good(hir', Len(hir') + 1) /\ Len(hir) <= Len(hir') /\ Len(hir') \in Nat
  <2> DEFINE nodes == IF CloseBlock THEN <<>> ELSE IF CloseWhile THEN <<Goto(Top.cond)>> ELSE <<Goto(Top.update)>>
             m == Len(hir) + 1
  <2>1. Good(nodes, m) /\ Len(nodes) \in Nat /\ Leave(nodes) /\ m \in Nat
    <3>1. Good(<<>>, m)
      BY DEF Good
    <3>2. ASSUME NEW k \in Nat, k <= Len(hir) PROVE Good(<<Goto(k)>>, m)
      <4>1. Good(<<Goto(k)>>, k) /\ k \in Nat /\ m \in Nat /\ k <= m
        BY <1>1, <3>2, GoodJump
      <4> QED
        BY <4>1 DEF Good, Goto, Node
    <3>3. Top.cond \in Nat /\ Top.update \in Nat /\ Top.cond <= Len(hir) /\ Top.update <= Len(hir)
      BY <1>0, TopType DEF Frames
    <3>4. Good(nodes, m)
      BY <3>1, <3>2, <3>3
    <3>5. Leave(nodes)
      BY DEF CloseBlock, CloseWhile, CloseFor
    <3> QED
      BY <1>1, <3>4, <3>5 DEF Good
  <2> HIDE DEF nodes
  <2>2. CASE Top.skip = 0
    <3>1. hir' = hir \o nodes
      BY <2>1, <2>2 DEF Leave
    <3>2. Good(hir \o nodes, Len(hir \o nodes) + 1) /\ Len(hir \o nodes) = Len(hir) + Len(nodes)
      BY <1>1, <2>1, Grows
    <3> QED
      BY <1>1, <2>1, <3>1, <3>2
  <2>3. CASE Top.skip # 0
    <3> DEFINE r == Len(hir) + Len(nodes) + 1
               b == Target(hir, Top.skip, r)
    <3>1. hir' = b \o nodes /\ r \in Nat /\ m <= r
      BY <1>1, <2>1, <2>3 DEF Leave, Target
    <3>2. Good(b, r) /\ Len(b) = Len(hir)
      <4>1. \A k : Good(Target(hir, k, r), r) /\ Len(Target(hir, k, r)) = Len(hir)
        <5> HIDE DEF r, m
        <5> QED
          BY <1>1, <2>1, <3>1, GoodTarget DEF m
      <4> HIDE DEF r
      <4> QED
        BY <4>1
    <3> HIDE DEF b
    <3>3. Good(b \o nodes, r) /\ Len(b \o nodes) = Len(b) + Len(nodes)
      <4> HIDE DEF r
      <4> QED
        BY <1>1, <2>1, <3>1, <3>2, GoodJoin
    <3> QED
      BY <1>1, <2>1, <3>1, <3>2, <3>3
  <2> QED
    BY <2>2, <2>3
<1>4. /\ open' \in Seq(Frames) /\ open' # <<>> /\ Top.depth = Inner(open'[Len(open')])
      /\ NestedIn(open') /\ BoundIn(open', Len(hir'))
  BY <1>0, <1>3, LeftBehind
<1>5. GoodCode'
  BY <1>3, <1>4 DEF GoodCode, BoundIn
<1>6. scopes' # <<>>
  BY <1>1, <1>2, Len(scopes') # 0
<1>7. Nested'
  BY <1>0, <1>2, <1>4, <1>6 DEF Nested, NestedIn
<1> QED
  BY <1>0, <1>2, <1>4, <1>5, <1>7 DEF Shape, Typed

LEMMA ShapeElse ==
  ASSUME Shape, OpenElse
  PROVE  Shape'
<1> DEFINE f == [Frame("else", 0, Upto(1), 0) EXCEPT !.depth = Top.depth]
           r == Upto(2)
           b == Target(hir, Top.skip, r)
<1>0. /\ phase = "body" /\ phase' = phase /\ Top.kind = "then"
      /\ UNCHANGED <<owner, pc, hidden, next_local, fuel, failed>> /\ open' = Append(Rest, f)
      /\ scopes' = scope_push(scope_pop(scopes)) /\ hir' = b \o <<Goto(0)>>
  BY DEF OpenElse, Target
<1>1. /\ scopes \in Chain /\ scopes # <<>> /\ Len(scopes) \in Nat /\ Len(scopes) = Top.depth + 1
      /\ Top.depth \in Nat /\ Top.depth >= 1 /\ hir \in Seq(Nodes) /\ Len(hir) \in Nat
      /\ Good(hir, Len(hir) + 1)
  BY <1>0, TopType DEF Shape, Typed, GoodCode, Good, Inner
<1>2. scopes' \in Chain /\ Len(scopes') = Top.depth + 1 /\ scopes' # <<>>
  <2> DEFINE rr == scope_pop(scopes)
  <2>1. rr \in Chain /\ Len(rr) = Len(scopes) - 1
    BY <1>1, PopKeeps
  <2>2. scopes' = scope_push(rr)
    BY <1>0
  <2> HIDE DEF rr
  <2>3. scopes' \in Chain /\ Len(scopes') = Len(rr) + 1
    BY <2>1, <2>2, PushKeeps
  <2> QED
    BY <1>1, <2>1, <2>3, Len(scopes') # 0
<1>3. Good(hir', Len(hir') + 1) /\ Len(hir') = Len(hir) + 1
  <2> DEFINE m == Len(hir) + 1
  <2>1. r = Len(hir) + 2 /\ r \in Nat /\ m \in Nat /\ m <= r /\ Good(hir, m)
    BY <1>1 DEF Upto
  <2>2. Good(b, r) /\ Len(b) = Len(hir)
    <3>1. \A k : Good(Target(hir, k, r), r) /\ Len(Target(hir, k, r)) = Len(hir)
      <4> HIDE DEF r, m
      <4> QED
        BY <2>1, GoodTarget
    <3> HIDE DEF r, m
    <3> QED
      BY <3>1
  <2> HIDE DEF b
  <2>3. Good(<<Goto(0)>>, 0)
    BY <1>1, GoodJump, 0 \in Nat
  <2>4. Good(b \o <<Goto(0)>>, r) /\ Len(b \o <<Goto(0)>>) = Len(b) + Len(<<Goto(0)>>)
    <3> HIDE DEF r
    <3>1. 0 <= r
      BY <2>1
    <3> QED
      BY <2>1, <2>2, <2>3, <3>1, GoodJoin
  <2> QED
    BY <1>0, <1>1, <2>1, <2>2, <2>4
<1>4. /\ f \in Frames /\ f.kind = "else" /\ f.depth = Top.depth
      /\ f.cond <= Len(hir') /\ f.skip <= Len(hir') /\ f.update <= Len(hir')
  <2>1. f = [kind |-> "else", depth |-> Top.depth, cond |-> 0, skip |-> Len(hir) + 1, update |-> 0]
    BY DEF Frame, Upto
  <2> HIDE DEF f
  <2> QED
    BY <1>1, <1>3, <2>1 DEF Frames
<1> HIDE DEF f
<1>5. /\ open' \in Seq(Frames) /\ open' # <<>> /\ open'[Len(open')] = f
      /\ NestedIn(open') /\ BoundIn(open', Len(hir'))
  <2>1. Len(hir') \in Nat /\ Len(hir) <= Len(hir') /\ Top.kind # "body" /\ f.kind # "body"
    BY <1>0, <1>1, <1>3, <1>4
  <2> QED
    BY <1>0, <1>4, <2>1, Swapped
<1>6. GoodCode'
  BY <1>3, <1>5 DEF GoodCode, BoundIn
<1>7. Nested'
  <2>1. Len(scopes') = Inner(open'[Len(open')])
    BY <1>2, <1>4, <1>5 DEF Inner
  <2> QED
    BY <1>0, <1>2, <1>5, <2>1 DEF Nested, NestedIn
<1> QED
  BY <1>0, <1>2, <1>5, <1>6, <1>7 DEF Shape, Typed

\* The function as a whole, and its run.
LEMMA ShapeFunction ==
  ASSUME Shape, NEW n, BeginFunction \/ (n \in Names /\ Param(n)) \/ OpenBody \/ CloseBody \/ Step \/ Finish
  PROVE  Shape'
<1>1. CASE BeginFunction
  <2>1. scopes = <<>> /\ <<>> \in Chain
    BY <1>1 DEF BeginFunction, Shape, Nested, Chain
  <2>2. scopes' \in Chain /\ Len(scopes') = 1
    <3>1. scopes \in Chain /\ Len(scopes) = 0 /\ scopes' = scope_push(scopes)
      BY <1>1, <2>1 DEF BeginFunction
    <3>2. scopes' \in Chain /\ Len(scopes') = Len(scopes) + 1
      BY <3>1, PushKeeps
    <3> QED
      BY <3>1, <3>2
  <2>3. scopes' # <<>>
    BY <2>2, Len(scopes') # 0
  <2>4. GoodCode'
    BY <1>1 DEF BeginFunction, GoodCode, Good
  <2>5. Typed'
    BY <1>1, <2>2, ScopesAssumption DEF BeginFunction, Shape, Typed, Unbound
  <2>6. Nested'
    BY <1>1, <2>2, <2>3 DEF BeginFunction, Nested
  <2> QED
    BY <2>4, <2>5, <2>6 DEF Shape
<1>2. CASE n \in Names /\ Param(n)
  <2>1. scopes \in Chain /\ scopes # <<>> /\ next_local \in Nat
    BY <1>2 DEF Param, Shape, Typed, Nested
  <2>2. scopes' \in Chain /\ Len(scopes') = Len(scopes) /\ next_local' = next_local + 1
    BY <1>2, <2>1, DeclareBinds DEF Param, Declared
  <2>3. fuel' \in 0..Fuel
    <3>1. \E k \in Kinds : Spend(k)
      BY <1>2, ScopesAssumption DEF Param
    <3> QED
      BY <3>1, SpendType DEF Shape, Typed
  <2>4. Typed'
    BY <1>2, <2>1, <2>2, <2>3 DEF Param, Shape, Typed
  <2>5. scopes' # <<>>
    BY <2>1, <2>2, Len(scopes) # 0 DEF Chain
  <2>6. Nested'
    BY <1>2, <2>2, <2>5 DEF Param, Shape, Nested
  <2>7. GoodCode'
    BY <1>2 DEF Param, Shape, GoodCode
  <2> QED
    BY <2>4, <2>6, <2>7 DEF Shape
<1>3. CASE OpenBody
  <2> DEFINE f == Frame("body", 0, 0, 0)
  <2>1. scopes \in Chain /\ Len(scopes) = 1 /\ open = <<>>
    BY <1>3 DEF OpenBody, Shape, Typed, Nested
  <2>2. scopes' \in Chain /\ Len(scopes') = 2
    <3>1. scopes' \in Chain /\ Len(scopes') = Len(scopes) + 1
      BY <1>3, <2>1, PushKeeps DEF OpenBody
    <3> QED
      BY <2>1, <3>1
  <2>3. f \in Frames /\ f.kind = "body" /\ f.depth = 1 /\ f.cond = 0 /\ f.skip = 0 /\ f.update = 0
    BY <2>1 DEF Frame, Frames
  <2>4. open' = <<f>>
    BY <1>3 DEF OpenBody
  <2> HIDE DEF f
  <2>5. open' \in Seq(Frames) /\ Len(open') = 1 /\ open' # <<>> /\ DOMAIN open' = {1} /\ open'[1] = f
    BY <2>3, <2>4
  <2>6. Typed'
    BY <1>3, <2>2, <2>5 DEF OpenBody, Shape, Typed
  <2>7. Nested'
    <3>1. scopes' # <<>>
      BY <2>2, Len(scopes') # 0
    <3> QED
      BY <1>3, <2>2, <2>3, <2>5, <3>1 DEF OpenBody, Nested, Inner
  <2>8. GoodCode'
    <3>1. Len(hir) \in Nat
      BY DEF Shape, GoodCode, Good
    <3> QED
      BY <1>3, <2>3, <2>5, <3>1 DEF OpenBody, Shape, GoodCode
  <2> QED
    BY <2>6, <2>7, <2>8 DEF Shape
<1>4. CASE CloseBody
  <2>1. /\ scopes \in Chain /\ scopes # <<>> /\ Len(scopes) = Top.depth + 1 /\ Len(scopes) \in Nat
        /\ Len(open) = 1 /\ open \in Seq(Frames)
    BY <1>4, TopType DEF CloseBody, Shape, Typed, Inner
  <2>2. Top.depth = 1
    BY <1>4, <2>1 DEF CloseBody, Shape, Nested, Top
  <2>3. scopes' = <<>>
    <3> DEFINE rr == scope_pop(scopes)
    <3>0. rr \in Chain /\ Len(rr) = Len(scopes) - 1
      BY <2>1, PopKeeps
    <3>1. rr \in Chain /\ Len(rr) = 1
      BY <2>1, <2>2, <3>0
    <3>2. scopes' = scope_pop(rr)
      BY <1>4 DEF CloseBody
    <3> HIDE DEF rr
    <3>3. rr # <<>>
      BY <3>1
    <3>4. scopes' \in Chain /\ Len(scopes') = Len(rr) - 1
      BY <3>1, <3>2, <3>3, PopKeeps
    <3> QED
      BY <3>1, <3>4 DEF Chain
  <2>4. Typed'
    BY <1>4, <2>3 DEF CloseBody, Shape, Typed, Chain
  <2>5. Nested'
    BY <1>4, <2>3 DEF CloseBody, Shape, Nested
  <2>6. GoodCode'
    BY <1>4 DEF CloseBody, Shape, GoodCode
  <2> QED
    BY <2>4, <2>5, <2>6 DEF Shape
<1>5. CASE Step
  <2> DEFINE node == hir[pc]
  <2>1. node \in Nodes /\ (node.op \in {"read", "let", "write"} => node.name \in Names)
    BY <1>5 DEF Step, Shape, GoodCode, Good
  <2>2. owner' = IF node.op \in {"let", "write"} THEN [owner EXCEPT ![node.name] = node.local_index] ELSE owner
    BY <1>5 DEF Step
  <2>3. pc' = pc + 1 \/ pc' = node.to \/ pc' = Len(hir) + 1
    BY <1>5 DEF Step
  <2>4. node.local_index \in Int /\ node.to \in Nat
    BY <2>1 DEF Nodes
  <2> HIDE DEF node
  <2>5. owner' \in [Names -> Int]
    BY <2>1, <2>2, <2>4 DEF Shape, Typed
  <2>6. pc' \in Nat
    BY <2>3, <2>4 DEF Shape, Typed, GoodCode, Good
  <2>7. UNCHANGED <<scopes, next_local, open, hir, failed, hidden, phase, fuel>>
    BY <1>5 DEF Step
  <2> QED
    BY <2>5, <2>6, <2>7 DEF Shape, Typed, GoodCode, Nested
<1>6. CASE Finish
  <2>1. Typed'
    BY <1>6 DEF Finish, Shape, Typed
  <2>2. Nested'
    BY <1>6 DEF Finish, Shape, Nested
  <2>3. GoodCode'
    BY <1>6 DEF Finish, Shape, GoodCode
  <2> QED
    BY <2>1, <2>2, <2>3 DEF Shape
<1> QED
  BY <1>1, <1>2, <1>3, <1>4, <1>5, <1>6

LEMMA ShapeInit == Init => Shape
<1> SUFFICES ASSUME Init PROVE Shape
  OBVIOUS
<1>1. Typed
  <2>1. Unbound \in Int /\ <<>> \in Chain /\ <<>> \in Seq(Frames)
    BY DEF Unbound, Chain
  <2>2. Fuel \in 0..Fuel
    BY ScopesAssumption
  <2> QED
    BY <2>1, <2>2 DEF Init, Typed
<1>2. GoodCode
  BY DEF Init, GoodCode, Good
<1>3. Nested
  BY DEF Init, Nested
<1> QED
  BY <1>1, <1>2, <1>3 DEF Shape

LEMMA ShapeNext == Shape /\ [Next]_vars => Shape'
<1> SUFFICES ASSUME Shape, [Next]_vars PROVE Shape'
  OBVIOUS
<1>0. None \in Expr
  BY DEF Expr
<1>1. CASE BeginFunction \/ OpenBody \/ CloseBody \/ Step \/ Finish \/ \E n \in Names : Param(n)
  <2>1. \E n : BeginFunction \/ (n \in Names /\ Param(n)) \/ OpenBody \/ CloseBody \/ Step \/ Finish
    BY <1>1
  <2> QED
    BY <2>1, ShapeFunction
<1>2. CASE OpenBlock \/ OpenFor \/ \E e \in Expr : OpenIf(e) \/ OpenWhile(e)
  BY <1>0, <1>2, ShapeOpen
<1>3. CASE CloseBlock \/ CloseWhile \/ CloseFor
  BY <1>3, ShapeClose
<1>4. CASE OpenElse
  BY <1>4, ShapeElse
<1>5. CASE \E n \in Names, e \in Expr : Let(n, e) \/ Assign(n, e)
  BY <1>5, ShapeSimple
<1>6. CASE \E e \in Expr : Use(e) \/ Return(e)
  BY <1>6, ShapeSimple
<1>7. CASE \E c, u \in Expr : ForHeader(c, u)
  BY <1>7, ShapeHeader
<1>8. CASE UNCHANGED vars
  BY <1>8 DEF vars, Shape, Typed, GoodCode, Nested
<1> QED
  BY <1>1, <1>2, <1>3, <1>4, <1>5, <1>6, <1>7, <1>8 DEF Next

LEMMA ShapeAlways == Spec => []Shape
BY ShapeInit, ShapeNext, PTL DEF Spec

\* Types and the nesting of constructs, for every function (Scopes!TypeOK).
THEOREM ScopesTypeOK == Spec => []TypeOK
<1>1. Shape => TypeOK
  <2> SUFFICES ASSUME Shape PROVE TypeOK
    OBVIOUS
  <2>1. ASSUME NEW k \in DOMAIN hir
        PROVE  hir[k].env \in [Names -> Int] /\ hir[k].to \in 0..(Len(hir) + 1)
    <3>1. hir[k] \in Nodes /\ hir[k].to <= Len(hir) + 1
      BY DEF Shape, GoodCode, Good
    <3> QED
      BY <3>1 DEF Nodes
  <2>2. phase = "body" => Len(scopes) = Top.depth + IF Top.kind = "for" THEN 2 ELSE 1
    BY TopType DEF Inner
  <2>3. phase \in {"between", "run"} <=> scopes = <<>>
    BY DEF Shape, Nested
  <2>4. phase = "body" <=> open # <<>>
    BY DEF Shape, Nested
  <2> QED
    BY <2>1, <2>2, <2>3, <2>4 DEF Shape, Typed, TypeOK
<1> QED
  BY <1>1, ShapeAlways, PTL

-------------------------------------------------------------------------------

(***************************************************************************)
(* What the actions do to the chain.                                       *)
(***************************************************************************)

ChainStep ==
  \/ UNCHANGED <<scopes, next_local>>
  \/ scopes = <<>> /\ scopes' = scope_push(scopes) /\ next_local' = 0
  \/ scopes # <<>> /\ scopes' = scope_push(scopes) /\ UNCHANGED next_local
  \/ scopes # <<>> /\ scopes' = scope_pop(scopes) /\ UNCHANGED next_local
  \/ Len(scopes) >= 2 /\ scopes' = scope_pop(scope_pop(scopes)) /\ UNCHANGED next_local
  \/ scopes # <<>> /\ scopes' = scope_push(scope_pop(scopes)) /\ UNCHANGED next_local
  \/ scopes # <<>> /\ \E n \in Names : Declared(n)

LEMMA ChainSteps == Shape /\ [Next]_vars => ChainStep
<1> SUFFICES ASSUME Shape, [Next]_vars PROVE ChainStep
  OBVIOUS
<1>0. phase = "body" => scopes # <<>> /\ Len(scopes) >= 2
  BY TopType
<1>1. CASE BeginFunction
  BY <1>1 DEF BeginFunction, ChainStep, Shape, Nested
<1>2. CASE OpenBody
  BY <1>2 DEF OpenBody, ChainStep, Shape, Nested
<1>3. CASE OpenBlock \/ OpenFor \/ \E e \in Expr : OpenIf(e) \/ OpenWhile(e)
  <2>1. phase = "body" /\ scopes' = scope_push(scopes) /\ UNCHANGED next_local
    BY <1>3 DEF OpenBlock, OpenFor, OpenIf, OpenWhile, Enter, InBlock
  <2> QED
    BY <1>0, <2>1 DEF ChainStep
<1>4. CASE CloseBlock \/ CloseWhile
  BY <1>0, <1>4 DEF CloseBlock, CloseWhile, Leave, ChainStep
<1>5. CASE CloseFor
  BY <1>0, <1>5 DEF CloseFor, Leave, ChainStep
<1>6. CASE CloseBody
  BY <1>0, <1>6 DEF CloseBody, ChainStep
<1>7. CASE OpenElse
  BY <1>0, <1>7 DEF OpenElse, ChainStep
<1>8. CASE Step \/ Finish
  BY <1>8 DEF Step, Finish, ChainStep
<1>9. CASE \E n \in Names : Param(n)
  BY <1>9 DEF Param, ChainStep, Shape, Nested
<1>10. CASE \E n \in Names, e \in Expr : Let(n, e)
  BY <1>0, <1>10 DEF Let, ChainStep
<1>11. CASE \E e \in Expr : Use(e) \/ Return(e) \/ \E n \in Names : Assign(n, e)
  BY <1>11 DEF Use, Return, Assign, ChainStep
<1>12. CASE \E c, u \in Expr : ForHeader(c, u)
  <2>1. phase = "body" /\ scopes' = scope_push(scopes) /\ UNCHANGED next_local
    BY <1>12 DEF ForHeader
  <2> QED
    BY <1>0, <2>1 DEF ChainStep
<1>13. CASE UNCHANGED vars
  BY <1>13 DEF vars, ChainStep
<1> QED
  BY <1>1, <1>2, <1>3, <1>4, <1>5, <1>6, <1>7, <1>8, <1>9, <1>10, <1>11, <1>12, <1>13 DEF Next

\* The environments of a chain, and what becomes of them.
EnvsOf(ss) == [d \in DOMAIN ss |-> [n \in Names |-> scope_lookup(ss, d, n)]]

LEMMA EnvsShape ==
  ASSUME NEW ss \in Chain
  PROVE  /\ EnvsOf(ss) \in Seq([Names -> Int]) /\ Len(EnvsOf(ss)) = Len(ss)
         /\ Len(ss) \in Nat /\ DOMAIN ss = 1..Len(ss)
         /\ EnvsOf(ss) = [d \in 1..Len(ss) |-> [n \in Names |-> scope_lookup(ss, d, n)]]
         /\ (ss = <<>> <=> EnvsOf(ss) = <<>>)
<1>1. Len(ss) \in Nat /\ DOMAIN ss = 1..Len(ss)
  BY DEF Chain
<1>2. EnvsOf(ss) = [d \in 1..Len(ss) |-> [n \in Names |-> scope_lookup(ss, d, n)]]
  BY <1>1 DEF EnvsOf
<1>3. \A d \in 1..Len(ss) : [n \in Names |-> scope_lookup(ss, d, n)] \in [Names -> Int]
  BY <1>1, LookupType
<1>4. EnvsOf(ss) \in [1..Len(ss) -> [Names -> Int]]
  BY <1>2, <1>3
<1> DEFINE ee == EnvsOf(ss)
<1> HIDE DEF ee
<1>5. ee \in Seq([Names -> Int])
  BY <1>1, <1>4 DEF ee
<1>6. Len(ee) = Len(ss)
  BY <1>1, <1>4, <1>5 DEF ee
<1>7. ss = <<>> <=> ee = <<>>
  BY <1>1, <1>5, <1>6 DEF Chain
<1> QED
  BY <1>1, <1>2, <1>5, <1>6, <1>7 DEF ee

LEMMA EnvsFirst == EnvsOf(scope_push(<<>>)) = << [n \in Names |-> Unbound] >>
<1> DEFINE rr == scope_push(<<>>)
<1>1. <<>> \in Chain /\ Len(<<>>) = 0
  BY DEF Chain
<1>2. rr \in Chain /\ Len(rr) = 1
  BY DEF scope_push, Chain, Scope
<1>3. rr[1] = <<>>
  BY DEF scope_push
<1>4. \A n \in Names : Holders(rr, 1, n) = {}
  BY <1>3 DEF Holders
<1> HIDE DEF rr
<1>5. \A n \in Names : scope_lookup(rr, 1, n) = Unbound
  BY <1>4 DEF scope_lookup
<1>6. EnvsOf(rr) = [d \in 1..1 |-> [n \in Names |-> scope_lookup(rr, d, n)]]
  BY <1>2, EnvsShape
<1>7. EnvsOf(rr) = [d \in 1..1 |-> [n \in Names |-> Unbound]]
  BY <1>5, <1>6
<1> QED
  BY <1>7 DEF rr

LEMMA EnvsPush ==
  ASSUME NEW ss \in Chain, ss # <<>>
  PROVE  EnvsOf(scope_push(ss)) = Append(EnvsOf(ss), EnvsOf(ss)[Len(EnvsOf(ss))])
<1> DEFINE rr == scope_push(ss)
           L == Len(ss)
           ee == EnvsOf(ss)
<1>1. L \in Nat /\ L # 0 /\ ee \in Seq([Names -> Int]) /\ Len(ee) = L
      /\ ee = [d \in 1..L |-> [n \in Names |-> scope_lookup(ss, d, n)]]
  BY EnvsShape DEF Chain
<1>2. /\ rr \in Chain /\ Len(rr) = L + 1 /\ \A k \in 1..L : rr[k] = ss[k]
      /\ \A n \in Names : scope_lookup(rr, L + 1, n) = scope_lookup(ss, L, n)
  <2>1. rr \in Chain /\ Len(rr) = L + 1 /\ \A k \in 1..L : rr[k] = ss[k]
    BY PushKeeps
  <2>2. ASSUME NEW n \in Names PROVE scope_lookup(rr, L + 1, n) = scope_lookup(ss, L, n)
    BY PushKeeps
  <2> QED
    BY <2>1, <2>2
<1> HIDE DEF rr
<1>3. \A d \in 1..L : \A n \in Names : scope_lookup(rr, d, n) = scope_lookup(ss, d, n)
  <2> SUFFICES ASSUME NEW d \in 1..L, NEW n \in Names PROVE scope_lookup(rr, d, n) = scope_lookup(ss, d, n)
    OBVIOUS
  <2>1. d \in 0..Len(ss) /\ \A k \in 1..d : rr[k] = ss[k]
    BY <1>1, <1>2
  <2> QED
    BY <2>1, SameUpTo
<1>4. EnvsOf(rr) = [d \in 1..(L + 1) |-> [n \in Names |-> scope_lookup(rr, d, n)]]
  BY <1>2, EnvsShape
<1>5. \A d \in 1..(L + 1) : EnvsOf(rr)[d] = IF d = L + 1 THEN ee[L] ELSE ee[d]
  <2> SUFFICES ASSUME NEW d \in 1..(L + 1) PROVE EnvsOf(rr)[d] = IF d = L + 1 THEN ee[L] ELSE ee[d]
    OBVIOUS
  <2>1. CASE d = L + 1
    BY <1>1, <1>2, <1>4, <2>1
  <2>2. CASE d # L + 1
    <3>1. d \in 1..L
      BY <1>1, <2>2
    <3> QED
      BY <1>1, <1>3, <1>4, <2>2, <3>1
  <2> QED
    BY <2>1, <2>2
<1> HIDE DEF ee
<1>6. Append(ee, ee[Len(ee)]) = [d \in 1..(L + 1) |-> IF d = L + 1 THEN ee[L] ELSE ee[d]]
  BY <1>1
<1>7. EnvsOf(rr) = [d \in 1..(L + 1) |-> EnvsOf(rr)[d]]
  BY <1>4
<1> DEFINE qq == EnvsOf(rr)
<1> HIDE DEF qq
<1>8. qq = [d \in 1..(L + 1) |-> IF d = L + 1 THEN ee[L] ELSE ee[d]]
  BY <1>5, <1>7 DEF qq
<1> QED
  BY <1>6, <1>8 DEF rr, ee, qq

LEMMA EnvsPop ==
  ASSUME NEW ss \in Chain, ss # <<>>
  PROVE  /\ EnvsOf(scope_pop(ss)) = SubSeq(EnvsOf(ss), 1, Len(EnvsOf(ss)) - 1)
         /\ scope_pop(ss) \in Chain /\ Len(scope_pop(ss)) = Len(ss) - 1
<1> DEFINE rr == scope_pop(ss)
           L == Len(ss)
           ee == EnvsOf(ss)
<1>1. L \in Nat /\ L # 0 /\ ee \in Seq([Names -> Int]) /\ Len(ee) = L
      /\ ee = [d \in 1..L |-> [n \in Names |-> scope_lookup(ss, d, n)]]
  BY EnvsShape DEF Chain
<1>2. rr \in Chain /\ Len(rr) = L - 1 /\ \A k \in 1..(L - 1) : rr[k] = ss[k]
  BY PopKeeps
<1> HIDE DEF rr
<1>3. \A d \in 1..(L - 1) : \A n \in Names : scope_lookup(rr, d, n) = scope_lookup(ss, d, n)
  <2> SUFFICES ASSUME NEW d \in 1..(L - 1), NEW n \in Names PROVE scope_lookup(rr, d, n) = scope_lookup(ss, d, n)
    OBVIOUS
  <2>1. d \in 0..Len(ss) /\ \A k \in 1..d : rr[k] = ss[k]
    BY <1>1, <1>2
  <2> QED
    BY <2>1, SameUpTo
<1>4. EnvsOf(rr) = [d \in 1..(L - 1) |-> [n \in Names |-> scope_lookup(rr, d, n)]]
  BY <1>2, EnvsShape
<1>5. EnvsOf(rr) = [d \in 1..(L - 1) |-> [n \in Names |-> scope_lookup(ss, d, n)]]
  BY <1>3, <1>4
<1>6. \A d \in 1..(L - 1) : [n \in Names |-> scope_lookup(ss, d, n)] = ee[d]
  BY <1>1
<1>7. EnvsOf(rr) = [d \in 1..(L - 1) |-> ee[d]]
  BY <1>5, <1>6
<1> HIDE DEF ee
<1>8. SubSeq(ee, 1, L - 1) = [d \in 1..(L - 1) |-> ee[d]]
  BY <1>1
<1> QED
  BY <1>1, <1>2, <1>7, <1>8 DEF rr, ee

LEMMA EnvsDeclare ==
  ASSUME NEW ss \in Chain, ss # <<>>, NEW m \in Names, NEW i \in Nat
  PROVE  EnvsOf(scope_declare(ss, m, i))
           = [EnvsOf(ss) EXCEPT ![Len(EnvsOf(ss))] = [@ EXCEPT ![m] = i]]
<1> DEFINE rr == scope_declare(ss, m, i)
           L == Len(ss)
           ee == EnvsOf(ss)
<1>1. L \in Nat /\ L # 0 /\ ee \in Seq([Names -> Int]) /\ Len(ee) = L
      /\ ee = [d \in 1..L |-> [n \in Names |-> scope_lookup(ss, d, n)]]
  BY EnvsShape DEF Chain
<1>2. /\ rr \in Chain /\ Len(rr) = L /\ \A k \in 1..(L - 1) : rr[k] = ss[k]
      /\ scope_lookup(rr, L, m) = i
      /\ \A n : n # m => scope_lookup(rr, L, n) = scope_lookup(ss, L, n)
  <2>1. rr \in Chain /\ Len(rr) = L /\ \A k \in 1..(L - 1) : rr[k] = ss[k]
    BY DeclareBinds
  <2>2. scope_lookup(rr, L, m) = i
    BY DeclareBinds
  <2>3. ASSUME NEW n, n # m PROVE scope_lookup(rr, L, n) = scope_lookup(ss, L, n)
    BY <2>3, DeclareKeeps
  <2> QED
    BY <2>1, <2>2, <2>3
<1> HIDE DEF rr
<1>3. \A d \in 1..(L - 1) : \A n \in Names : scope_lookup(rr, d, n) = scope_lookup(ss, d, n)
  <2> SUFFICES ASSUME NEW d \in 1..(L - 1), NEW n \in Names PROVE scope_lookup(rr, d, n) = scope_lookup(ss, d, n)
    OBVIOUS
  <2>1. d \in 0..Len(ss) /\ \A k \in 1..d : rr[k] = ss[k]
    BY <1>1, <1>2
  <2> QED
    BY <2>1, SameUpTo
<1>4. EnvsOf(rr) = [d \in 1..L |-> [n \in Names |-> scope_lookup(rr, d, n)]]
  BY <1>2, EnvsShape
<1> DEFINE new == [ee[L] EXCEPT ![m] = i]
<1>5. ASSUME NEW d \in 1..L PROVE EnvsOf(rr)[d] = IF d = L THEN new ELSE ee[d]
  <2>1. CASE d = L
    <3>1. EnvsOf(rr)[d] = [n \in Names |-> scope_lookup(rr, L, n)] /\ ee[L] = [n \in Names |-> scope_lookup(ss, L, n)]
      BY <1>1, <1>4, <2>1
    <3>2. \A n \in Names : scope_lookup(rr, L, n) = IF n = m THEN i ELSE scope_lookup(ss, L, n)
      BY <1>2
    <3> QED
      BY <2>1, <3>1, <3>2
  <2>2. CASE d # L
    <3>0. L \in Nat
      BY <1>1
    <3>1. d \in 1..(L - 1)
      <4> HIDE DEF L
      <4> QED
        BY <2>2, <3>0
    <3>2. EnvsOf(rr)[d] = [n \in Names |-> scope_lookup(rr, d, n)]
      BY <1>4
    <3>3. ee[d] = [n \in Names |-> scope_lookup(ss, d, n)]
      BY <1>1
    <3>4. \A n \in Names : scope_lookup(rr, d, n) = scope_lookup(ss, d, n)
      BY <1>3, <3>1
    <3> QED
      BY <2>2, <3>2, <3>3, <3>4
  <2> QED
    BY <2>1, <2>2
<1> DEFINE qq == EnvsOf(rr)
<1>6. qq = [d \in 1..L |-> qq[d]]
  BY <1>4
<1> HIDE DEF ee, qq, new
<1>7. [ee EXCEPT ![L] = new] = [d \in 1..L |-> IF d = L THEN new ELSE ee[d]]
  BY <1>1
<1>8. qq = [d \in 1..L |-> IF d = L THEN new ELSE ee[d]]
  BY <1>5, <1>6 DEF qq
<1> QED
  BY <1>1, <1>7, <1>8 DEF rr, ee, qq, new

\* Every action is one of the abstract ones, or changes no environment.
LEMMA LexicalStep == Shape /\ [Next]_vars => [Lexical!Next]_(Lexical!vars)
<1> SUFFICES ASSUME Shape, [Next]_vars PROVE [Lexical!Next]_(Lexical!vars)
  OBVIOUS
<1> DEFINE ee == EnvsOf(scopes)
           E == ee[Len(ee)]
<1>0. /\ Environments = ee /\ Environments' = EnvsOf(scopes')
      /\ scopes \in Chain /\ next_local \in Nat /\ Len(scopes) \in Nat
      /\ ee \in Seq([Names -> Int]) /\ Len(ee) = Len(scopes) /\ (scopes = <<>> <=> ee = <<>>)
  BY EnvsShape DEF Environments, EnvsOf, Shape, Typed
<1>1. CASE UNCHANGED <<scopes, next_local>>
  BY <1>1 DEF Lexical!vars, Environments
<1>2. CASE scopes = <<>> /\ scopes' = scope_push(scopes) /\ next_local' = 0
  <2>1. Environments = <<>> /\ Environments' = <<[n \in Names |-> Unbound]>> /\ next_local' = 0
    BY <1>0, <1>2, EnvsFirst
  <2>2. Lexical!Begin
    BY <2>1 DEF Lexical!Begin, Lexical!Unknown, Lexical!Unbound, Unbound
  <2> QED
    BY <2>2 DEF Lexical!Next
<1>3. CASE scopes # <<>> /\ scopes' = scope_push(scopes) /\ UNCHANGED next_local
  <2>1. Environments # <<>> /\ Environments' = Append(Environments, Environments[Len(Environments)])
    BY <1>0, <1>3, EnvsPush
  <2>2. Lexical!Open
    BY <1>3, <2>1 DEF Lexical!Open, Lexical!Here
  <2> QED
    BY <2>2 DEF Lexical!Next
<1>4. CASE scopes # <<>> /\ scopes' = scope_pop(scopes) /\ UNCHANGED next_local
  <2>1. Environments' = SubSeq(Environments, 1, Len(Environments) - 1) /\ Len(Environments) >= 1
    <3>1. Len(scopes) >= 1
      BY <1>0, <1>4 DEF Chain
    <3> QED
      BY <1>0, <1>4, <3>1, EnvsPop
  <2>2. Lexical!Close
    BY <1>4, <2>1 DEF Lexical!Close
  <2> QED
    BY <2>2 DEF Lexical!Next
<1>5. CASE Len(scopes) >= 2 /\ scopes' = scope_pop(scope_pop(scopes)) /\ UNCHANGED next_local
  <2> DEFINE rr == scope_pop(scopes)
  <2>1. scopes # <<>>
    BY <1>5
  <2>2. rr \in Chain /\ Len(rr) = Len(scopes) - 1 /\ EnvsOf(rr) = SubSeq(ee, 1, Len(ee) - 1)
    BY <1>0, <2>1, EnvsPop
  <2>3. scopes' = scope_pop(rr)
    BY <1>5
  <2> HIDE DEF rr, ee
  <2>4. rr # <<>>
    BY <1>0, <1>5, <2>2
  <2>5. EnvsOf(scopes') = SubSeq(EnvsOf(rr), 1, Len(EnvsOf(rr)) - 1) /\ Len(EnvsOf(rr)) = Len(rr)
    BY <2>2, <2>3, <2>4, EnvsPop, EnvsShape
  <2>6. SubSeq(SubSeq(ee, 1, Len(ee) - 1), 1, Len(ee) - 2) = SubSeq(ee, 1, Len(ee) - 2)
    <3>1. Len(ee) - 1 \in Nat /\ Len(ee) - 2 \in Nat /\ Len(ee) \in Nat
      BY <1>0, <1>5
    <3>2. SubSeq(ee, 1, Len(ee) - 1) = [k \in 1..(Len(ee) - 1) |-> ee[k]]
      BY <1>0, <3>1
    <3> DEFINE ff == SubSeq(ee, 1, Len(ee) - 1)
    <3>3. ff \in Seq([Names -> Int]) /\ Len(ff) = Len(ee) - 1 /\ \A k \in 1..(Len(ee) - 1) : ff[k] = ee[k]
      BY <1>0, <2>2, <3>1, <3>2, EnvsShape
    <3> HIDE DEF ff
    <3>4. SubSeq(ff, 1, Len(ee) - 2) = [k \in 1..(Len(ee) - 2) |-> ff[k]]
      BY <3>1, <3>3
    <3>5. SubSeq(ee, 1, Len(ee) - 2) = [k \in 1..(Len(ee) - 2) |-> ee[k]]
      BY <1>0, <3>1
    <3>6. \A k \in 1..(Len(ee) - 2) : ff[k] = ee[k]
      BY <3>1, <3>3
    <3> QED
      BY <3>4, <3>5, <3>6 DEF ff
  <2>7. Environments' = SubSeq(Environments, 1, Len(Environments) - 2) /\ Len(Environments) >= 2
    <3>1. Len(EnvsOf(rr)) - 1 = Len(ee) - 2 /\ Len(ee) >= 2
      BY <1>0, <1>5, <2>2, <2>5
    <3> QED
      BY <1>0, <2>2, <2>5, <2>6, <3>1
  <2>8. Lexical!Close
    BY <1>5, <2>7 DEF Lexical!Close
  <2> QED
    BY <2>8 DEF Lexical!Next
<1>6. CASE scopes # <<>> /\ scopes' = scope_push(scope_pop(scopes)) /\ UNCHANGED next_local
  <2> DEFINE rr == scope_pop(scopes)
             ff == EnvsOf(rr)
             L == Len(scopes)
  <2>1. rr \in Chain /\ Len(rr) = L - 1 /\ ff = SubSeq(ee, 1, L - 1) /\ Len(ee) = L /\ L >= 1 /\ L \in Nat
    <3>1. rr \in Chain /\ Len(rr) = L - 1 /\ ff = SubSeq(ee, 1, Len(ee) - 1)
      BY <1>0, <1>6, EnvsPop
    <3>2. L >= 1
      BY <1>0, <1>6 DEF Chain
    <3> QED
      BY <1>0, <3>1, <3>2
  <2>2. scopes' = scope_push(rr)
    BY <1>6
  <2>3. ff \in Seq([Names -> Int]) /\ Len(ff) = L - 1
    BY <2>1, EnvsShape
  <2>4. \A k \in 1..(L - 1) : ff[k] = ee[k]
    <3>1. SubSeq(ee, 1, L - 1) = [k \in 1..(L - 1) |-> ee[k]]
      BY <1>0, <2>1
    <3> QED
      BY <2>1, <3>1
  <2> HIDE DEF rr, ff
  <2>5. CASE L = 1
    <3>1. rr = <<>>
      BY <2>1, <2>5 DEF Chain
    <3>2. Environments' = <<[n \in Names |-> Unbound]>>
      BY <1>0, <2>2, <3>1, EnvsFirst
    <3>3. Environments' = [Environments EXCEPT ![Len(Environments)] = [n \in Names |-> Unbound]]
      <4>1. Environments \in Seq([Names -> Int]) /\ Len(Environments) = 1
        BY <1>0, <2>5
      <4> HIDE DEF ee
      <4> QED
        BY <3>2, <4>1
    <3>4. Lexical!NextArm
      BY <1>0, <1>6, <2>5, <3>3 DEF Lexical!NextArm, Lexical!Around, Lexical!Unknown, Lexical!Unbound, Unbound
    <3> QED
      BY <3>4 DEF Lexical!Next
  <2>6. CASE L # 1
    <3>1. rr # <<>> /\ Len(ff) = L - 1 /\ L - 1 \in 1..(L - 1)
      <4> HIDE DEF L
      <4> QED
        BY <2>1, <2>3, <2>6
    <3>2. EnvsOf(scopes') = Append(ff, ff[L - 1])
      BY <2>1, <2>2, <3>1, EnvsPush DEF ff
    <3>3. Append(ff, ff[L - 1]) = [ee EXCEPT ![L] = ee[L - 1]]
      <4>0. L \in Nat /\ L - 1 \in Nat /\ ee \in Seq([Names -> Int]) /\ Len(ee) = L
        BY <1>0, <2>1
      <4>1. ff[L - 1] = ee[L - 1]
        BY <2>4, <3>1
      <4> HIDE DEF ee, L
      <4>2. Append(ff, ff[L - 1]) = [k \in 1..L |-> IF k = L THEN ff[L - 1] ELSE ff[k]]
        BY <2>3, <4>0
      <4>3. [ee EXCEPT ![L] = ee[L - 1]] = [k \in 1..L |-> IF k = L THEN ee[L - 1] ELSE ee[k]]
        <5> DEFINE v == ee[L - 1]
        <5>1. DOMAIN ee = 1..L
          BY <4>0
        <5> HIDE DEF v
        <5>2. [ee EXCEPT ![L] = v] = [k \in 1..L |-> IF k = L THEN v ELSE ee[k]]
          BY <5>1
        <5> QED
          BY <5>2 DEF v
      <4>4. \A k \in 1..L : k # L => ff[k] = ee[k]
        <5>1. \A k \in 1..L : k # L => k \in 1..(L - 1)
          BY <4>0
        <5> QED
          BY <2>4, <5>1
      <4> QED
        BY <4>1, <4>2, <4>3, <4>4
    <3>4. Lexical!NextArm
      <4>1. Len(Environments) = L /\ ~ (Len(Environments) < 2) /\ Environments # <<>>
        BY <1>0, <1>6, <2>1, <2>6
      <4>2. Environments' = [Environments EXCEPT ![L] = Environments[L - 1]]
        BY <1>0, <3>2, <3>3
      <4> HIDE DEF L, ee
      <4> QED
        BY <1>6, <4>1, <4>2 DEF Lexical!NextArm, Lexical!Around
    <3> QED
      BY <3>4 DEF Lexical!Next
  <2> QED
    BY <2>5, <2>6
<1>7. CASE scopes # <<>> /\ \E n \in Names : Declared(n)
  <2>1. PICK n \in Names : scopes' = scope_declare(scopes, n, next_local) /\ next_local' = next_local + 1
    BY <1>7 DEF Declared
  <2>2. EnvsOf(scopes') = [ee EXCEPT ![Len(ee)] = [@ EXCEPT ![n] = next_local]]
    BY <1>0, <1>7, <2>1, EnvsDeclare
  <2>3. Lexical!Declare
    BY <1>0, <1>7, <2>1, <2>2 DEF Lexical!Declare
  <2> QED
    BY <2>3 DEF Lexical!Next
<1> QED
  BY <1>1, <1>2, <1>3, <1>4, <1>5, <1>6, <1>7, ChainSteps DEF ChainStep

\* The chain of scopes implements lexical environments (Scopes!BindsLexically).
THEOREM ScopesBindLexically == Spec => BindsLexically
<1>1. Init => Lexical!Init
  BY DEF Init, Lexical!Init, Environments
<1>2. QED
  BY <1>1, LexicalStep, ShapeAlways, PTL DEF Spec, BindsLexically, Lexical!Spec

-------------------------------------------------------------------------------

(***************************************************************************)
(* Slots.  A chain and a list of nodes use numbers below l, each once.     *)
(***************************************************************************)

SlotsIn(ss, l) ==
  \A d \in DOMAIN ss : \A j \in DOMAIN ss[d] :
    /\ ss[d][j].local_index \in 0..(l - 1)
    /\ \A c \in DOMAIN ss : \A k \in DOMAIN ss[c] :
         ss[c][k].local_index = ss[d][j].local_index => c = d /\ k = j
LetsIn(h, l) ==
  \A k \in DOMAIN h : h[k].op = "let" =>
    /\ h[k].local_index \in 0..(l - 1)
    /\ \A m \in DOMAIN h : h[m].op = "let" /\ h[m].local_index = h[k].local_index => m = k
Quiet(b) == b \in Seq(Nodes) /\ \A k \in DOMAIN b : b[k].op # "let"

\* Every scope of rr is empty or one of ss.
LEMMA SlotsKept ==
  ASSUME NEW ss, NEW rr, NEW l, SlotsIn(ss, l),
         \A d \in DOMAIN rr : rr[d] = <<>> \/ (d \in DOMAIN ss /\ rr[d] = ss[d])
  PROVE  SlotsIn(rr, l)
<1>1. \A d \in DOMAIN rr : \A j \in DOMAIN rr[d] : d \in DOMAIN ss /\ rr[d] = ss[d]
  OBVIOUS
<1> QED
  BY <1>1 DEF SlotsIn

LEMMA SlotsDeclared ==
  ASSUME NEW ss \in Chain, ss # <<>>, NEW n \in Names, NEW l \in Nat, SlotsIn(ss, l)
  PROVE  SlotsIn(scope_declare(ss, n, l), l + 1)
<1> DEFINE rr == scope_declare(ss, n, l)
           L == Len(ss)
           e == [name |-> n, local_index |-> l]
<1>1. L \in 1..L /\ L \in Nat /\ ss[L] \in Scope /\ DOMAIN ss = 1..L
  BY DEF Chain
<1>2. Len(rr) = L /\ rr \in Chain /\ \A k \in 1..(L - 1) : rr[k] = ss[k]
  BY DeclareBinds
<1>3. rr[L] = Append(ss[L], e)
  BY DeclareBinds
<1>4. DOMAIN rr = 1..L /\ \A k \in 1..L : k # L => rr[k] = ss[k]
  <2>1. \A k \in 1..L : k # L => k \in 1..(L - 1)
    <3>1. L \in Nat
      BY <1>1
    <3> HIDE DEF L
    <3> QED
      BY <3>1
  <2> HIDE DEF rr
  <2> QED
    BY <1>2, <2>1 DEF Chain
<1> DEFINE q == Len(ss[L]) + 1
<1>5. /\ q \in DOMAIN rr[L] /\ rr[L][q] = e /\ DOMAIN rr[L] = DOMAIN ss[L] \cup {q} /\ q \notin DOMAIN ss[L]
      /\ \A j \in DOMAIN ss[L] : rr[L][j] = ss[L][j]
  <2> HIDE DEF rr, e
  <2>1. ss[L] \in Seq(Entry)
    BY <1>1 DEF Scope
  <2> DEFINE s == ss[L]
  <2> HIDE DEF s
  <2>2. s \in Seq(Entry) /\ rr[L] = Append(s, e)
    BY <1>3, <2>1 DEF s
  <2>3. Len(s) \in Nat /\ DOMAIN s = 1..Len(s) /\ DOMAIN Append(s, e) = 1..(Len(s) + 1)
        /\ Append(s, e)[Len(s) + 1] = e /\ \A j \in 1..Len(s) : Append(s, e)[j] = s[j]
    BY <2>2
  <2> QED
    BY <2>2, <2>3 DEF s
<1>6. e.local_index = l
  OBVIOUS
<1> HIDE DEF rr, L, e, q
<1>7. \A d \in DOMAIN ss : \A j \in DOMAIN ss[d] : ss[d][j].local_index \in 0..(l - 1)
  BY DEF SlotsIn
\* An entry of rr is one of ss or the new one.
<1>8. \A d \in DOMAIN rr : \A j \in DOMAIN rr[d] :
        \/ d = L /\ j = q /\ rr[d][j].local_index = l
        \/ d \in DOMAIN ss /\ j \in DOMAIN ss[d] /\ rr[d][j] = ss[d][j] /\ rr[d][j].local_index \in 0..(l - 1)
  BY <1>1, <1>4, <1>5, <1>6, <1>7
<1>9. ASSUME NEW d \in DOMAIN rr, NEW j \in DOMAIN rr[d] PROVE rr[d][j].local_index \in 0..l
  BY <1>8
<1>10. ASSUME NEW d \in DOMAIN rr, NEW j \in DOMAIN rr[d], NEW c \in DOMAIN rr, NEW k \in DOMAIN rr[c],
              rr[c][k].local_index = rr[d][j].local_index
       PROVE  c = d /\ k = j
  <2>1. CASE rr[d][j].local_index = l
    BY <1>8, <1>10, <2>1
  <2>2. CASE rr[d][j].local_index # l
    <3>1. /\ d \in DOMAIN ss /\ j \in DOMAIN ss[d] /\ rr[d][j] = ss[d][j]
          /\ c \in DOMAIN ss /\ k \in DOMAIN ss[c] /\ rr[c][k] = ss[c][k]
      BY <1>8, <1>10, <2>2
    <3> QED
      BY <1>10, <3>1 DEF SlotsIn
  <2> QED
    BY <2>1, <2>2
<1>11. SlotsIn(rr, l + 1)
  BY <1>9, <1>10, l + 1 - 1 = l DEF SlotsIn
<1> QED
  BY <1>11 DEF rr

LEMMA LetsJoin ==
  ASSUME NEW h \in Seq(Nodes), NEW b, NEW l, LetsIn(h, l), Quiet(b)
  PROVE  LetsIn(h \o b, l)
<1>1. b \in Seq(Nodes) /\ Len(h) \in Nat /\ Len(b) \in Nat /\ Len(h \o b) = Len(h) + Len(b) /\ h \o b \in Seq(Nodes)
  BY DEF Quiet
<1>2. \A k \in 1..Len(h) : (h \o b)[k] = h[k]
  BY <1>1
<1>3. \A k \in 1..Len(b) : (h \o b)[Len(h) + k] = b[k]
  BY <1>1
<1>4. \A k \in DOMAIN (h \o b) : (h \o b)[k].op = "let" => k \in DOMAIN h /\ (h \o b)[k] = h[k]
  <2> SUFFICES ASSUME NEW k \in DOMAIN (h \o b), (h \o b)[k].op = "let" PROVE k \in DOMAIN h /\ (h \o b)[k] = h[k]
    OBVIOUS
  <2>1. CASE k <= Len(h)
    BY <1>1, <1>2, <2>1
  <2>2. CASE k > Len(h)
    <3> DEFINE i == k - Len(h)
    <3>1. i \in 1..Len(b) /\ k = Len(h) + i
      BY <1>1, <2>2
    <3> HIDE DEF i
    <3>2. (h \o b)[k] = b[i] /\ i \in DOMAIN b
      BY <1>1, <1>3, <3>1
    <3> QED
      BY <3>2 DEF Quiet
  <2> QED
    BY <1>1, <2>1, <2>2
<1> DEFINE hb == h \o b
<1> HIDE DEF hb
<1>5. \A k \in DOMAIN hb : hb[k].op = "let" => k \in DOMAIN h /\ hb[k] = h[k]
  BY <1>4 DEF hb
<1>6. LetsIn(hb, l)
  BY <1>5 DEF LetsIn
<1> QED
  BY <1>6 DEF hb

LEMMA LetsDeclared ==
  ASSUME NEW h \in Seq(Nodes), NEW x \in Nodes, NEW l \in Nat, LetsIn(h, l), x.local_index = l
  PROVE  LetsIn(h \o <<x>>, l + 1)
<1> DEFINE hx == h \o <<x>>
           q == Len(h) + 1
<1>1. /\ DOMAIN hx = DOMAIN h \cup {q} /\ q \notin DOMAIN h /\ hx[q] = x
      /\ \A k \in DOMAIN h : hx[k] = h[k]
  OBVIOUS
<1> HIDE DEF hx, q
<1>2. \A k \in DOMAIN hx : hx[k].op = "let" =>
        \/ k = q /\ hx[k].local_index = l
        \/ k \in DOMAIN h /\ hx[k] = h[k] /\ hx[k].local_index \in 0..(l - 1)
  BY <1>1 DEF LetsIn
<1>3. ASSUME NEW k \in DOMAIN hx, hx[k].op = "let" PROVE hx[k].local_index \in 0..l
  BY <1>2, <1>3
<1>4. ASSUME NEW k \in DOMAIN hx, hx[k].op = "let", NEW m \in DOMAIN hx, hx[m].op = "let",
             hx[m].local_index = hx[k].local_index
      PROVE  m = k
  <2>1. CASE hx[k].local_index = l
    BY <1>2, <1>4, <2>1
  <2>2. CASE hx[k].local_index # l
    <3>1. k \in DOMAIN h /\ m \in DOMAIN h /\ hx[k] = h[k] /\ hx[m] = h[m]
      BY <1>2, <1>4, <2>2
    <3> QED
      BY <1>4, <3>1 DEF LetsIn
  <2> QED
    BY <2>1, <2>2
<1>5. LetsIn(hx, l + 1)
  BY <1>3, <1>4, l + 1 - 1 = l DEF LetsIn
<1> QED
  BY <1>5 DEF hx

LEMMA LetsTarget ==
  ASSUME NEW h \in Seq(Nodes), NEW k, NEW r \in Nat, NEW l, LetsIn(h, l)
  PROVE  LetsIn(Target(h, k, r), l) /\ Target(h, k, r) \in Seq(Nodes)
<1> DEFINE b == Target(h, k, r)
<1>1. DOMAIN b = DOMAIN h /\ \A i \in DOMAIN h : b[i] = IF i = k THEN [h[k] EXCEPT !.to = r] ELSE h[i]
  BY DEF Target
<1>2. ASSUME NEW i \in DOMAIN h PROVE b[i] \in Nodes /\ b[i].op = h[i].op /\ b[i].local_index = h[i].local_index
  <2>1. h[i] \in Nodes
    OBVIOUS
  <2>2. [h[i] EXCEPT !.to = r] \in Nodes /\ [h[i] EXCEPT !.to = r].op = h[i].op
        /\ [h[i] EXCEPT !.to = r].local_index = h[i].local_index
    BY <2>1 DEF Nodes
  <2> QED
    BY <1>1, <2>1, <2>2
<1>3. b = [i \in 1..Len(h) |-> b[i]] /\ Len(h) \in Nat /\ DOMAIN h = 1..Len(h)
  BY DEF Target
<1> HIDE DEF b
<1>4. b \in [1..Len(h) -> Nodes]
  BY <1>2, <1>3
<1>5. b \in Seq(Nodes)
  BY <1>3, <1>4
<1>6. LetsIn(b, l)
  BY <1>1, <1>2 DEF LetsIn
<1> QED
  BY <1>5, <1>6 DEF b

LEMMA QuietJoin ==
  ASSUME NEW a, NEW b, Quiet(a), Quiet(b)
  PROVE  Quiet(a \o b)
<1>1. a \in Seq(Nodes) /\ b \in Seq(Nodes)
  BY DEF Quiet
<1>2. /\ Len(a) \in Nat /\ Len(b) \in Nat /\ Len(a \o b) = Len(a) + Len(b) /\ a \o b \in Seq(Nodes)
      /\ DOMAIN a = 1..Len(a) /\ DOMAIN b = 1..Len(b) /\ DOMAIN (a \o b) = 1..(Len(a) + Len(b))
  BY <1>1
<1>3. \A k \in 1..Len(a) : (a \o b)[k] = a[k]
  BY <1>1
<1>4. \A k \in 1..Len(b) : (a \o b)[Len(a) + k] = b[k]
  BY <1>1
<1> DEFINE ab == a \o b
<1> HIDE DEF ab
<1>5. ASSUME NEW k \in DOMAIN ab PROVE ab[k].op # "let"
  <2>1. CASE k <= Len(a)
    <3>1. k \in DOMAIN a /\ ab[k] = a[k]
      BY <1>2, <1>3, <2>1 DEF ab
    <3> QED
      BY <3>1 DEF Quiet
  <2>2. CASE k > Len(a)
    <3> DEFINE i == k - Len(a)
    <3>1. i \in DOMAIN b /\ k = Len(a) + i
      BY <1>2, <2>2 DEF ab
    <3> HIDE DEF i
    <3>2. ab[k] = b[i]
      BY <1>2, <1>4, <3>1 DEF ab
    <3> QED
      BY <3>1, <3>2 DEF Quiet
  <2> QED
    BY <1>2, <2>1, <2>2 DEF ab
<1> QED
  BY <1>2, <1>5 DEF Quiet, ab

LEMMA QuietNodes ==
  ASSUME scopes \in Chain, NEW e \in Expr, NEW k \in Nat
  PROVE  /\ Quiet(<<>>) /\ Quiet(Reads(e)) /\ Quiet(<<Branch>>) /\ Quiet(<<Goto(k)>>)
         /\ Quiet(<<Node("ret", None, Unbound)>>)
         /\ e # None => Quiet(<<Node("write", e, Visible[e])>>)
<1>0. Visible \in [Names -> Int]
  BY VisibleType
<1>1. Quiet(<<>>)
  BY DEF Quiet
<1>2. Branch \in Nodes /\ Goto(k) \in Nodes /\ Node("ret", None, Unbound) \in Nodes
  BY <1>0 DEF Branch, Goto, Node, Nodes, Unbound
<1>3. Branch.op # "let" /\ Goto(k).op # "let" /\ Node("ret", None, Unbound).op # "let"
  BY DEF Branch, Goto, Node
<1>4. ASSUME e # None PROVE /\ Node("read", e, Visible[e]) \in Nodes /\ Node("write", e, Visible[e]) \in Nodes
                            /\ Node("read", e, Visible[e]).op # "let" /\ Node("write", e, Visible[e]).op # "let"
  BY <1>0, <1>4 DEF Node, Nodes, Expr
<1>5. \A x \in Nodes : x.op # "let" => Quiet(<<x>>)
  BY DEF Quiet
<1>6. Quiet(<<Branch>>) /\ Quiet(<<Goto(k)>>) /\ Quiet(<<Node("ret", None, Unbound)>>)
  BY <1>2, <1>3, <1>5
<1>7. e # None => Quiet(<<Node("write", e, Visible[e])>>)
  BY <1>4, <1>5
<1>8. Quiet(Reads(e))
  BY <1>1, <1>4, <1>5 DEF Reads
<1> QED
  BY <1>1, <1>6, <1>7, <1>8

Slots == SlotsIn(scopes, next_local) /\ LetsIn(hir, next_local)

\* What adds no declaration adds no slot.
LEMMA ChainKeepsSlots ==
  ASSUME Shape, [Next]_vars, next_local' = next_local, SlotsIn(scopes, next_local)
  PROVE  SlotsIn(scopes', next_local)
<1>1. SUFFICES \A d \in DOMAIN scopes' : scopes'[d] = <<>> \/ (d \in DOMAIN scopes /\ scopes'[d] = scopes[d])
  BY SlotsKept
<1>2. scopes \in Chain /\ next_local \in Nat /\ Len(scopes) \in Nat /\ DOMAIN scopes = 1..Len(scopes)
  BY DEF Shape, Typed, Chain
<1>3. ASSUME NEW ss \in Chain, ss # <<>>
      PROVE  scope_pop(ss) \in Chain /\ Len(ss) \in Nat /\ \A d \in DOMAIN scope_pop(ss) : d \in DOMAIN ss /\ scope_pop(ss)[d] = ss[d]
  <2> DEFINE rr == scope_pop(ss)
  <2>1. rr \in Chain /\ Len(rr) = Len(ss) - 1 /\ \A k \in 1..(Len(ss) - 1) : rr[k] = ss[k]
    BY <1>3, PopKeeps
  <2> HIDE DEF rr
  <2>2. DOMAIN rr = 1..(Len(ss) - 1) /\ DOMAIN ss = 1..Len(ss) /\ Len(ss) \in Nat
    BY <2>1 DEF Chain
  <2>3. \A d \in 1..(Len(ss) - 1) : d \in 1..Len(ss)
    BY <2>2
  <2> QED
    BY <2>1, <2>2, <2>3 DEF rr
<1>4. ASSUME NEW ss \in Chain
      PROVE  \A d \in DOMAIN scope_push(ss) : scope_push(ss)[d] = <<>> \/ (d \in DOMAIN ss /\ scope_push(ss)[d] = ss[d])
  <2> DEFINE rr == scope_push(ss)
  <2>1. rr \in Chain /\ Len(rr) = Len(ss) + 1 /\ (\A k \in 1..Len(ss) : rr[k] = ss[k]) /\ rr[Len(ss) + 1] = <<>>
    BY PushKeeps
  <2> HIDE DEF rr
  <2>2. DOMAIN rr = 1..(Len(ss) + 1) /\ DOMAIN ss = 1..Len(ss) /\ Len(ss) \in Nat
    BY <2>1 DEF Chain
  <2>3. \A d \in 1..(Len(ss) + 1) : d \in 1..Len(ss) \/ d = Len(ss) + 1
    BY <2>2
  <2> QED
    BY <2>1, <2>2, <2>3 DEF rr
<1>5. CASE UNCHANGED <<scopes, next_local>>
  BY <1>5
<1>6. CASE scopes' = scope_push(scopes)
  BY <1>2, <1>4, <1>6
<1>7. CASE scopes # <<>> /\ scopes' = scope_pop(scopes)
  BY <1>2, <1>3, <1>7
<1>8. CASE Len(scopes) >= 2 /\ scopes' = scope_pop(scope_pop(scopes))
  <2> DEFINE rr == scope_pop(scopes)
  <2>0. scopes # <<>>
    BY <1>8
  <2>1. rr \in Chain /\ \A d \in DOMAIN rr : d \in DOMAIN scopes /\ rr[d] = scopes[d]
    BY <1>2, <1>3, <2>0
  <2>2. Len(rr) = Len(scopes) - 1
    BY <1>2, <2>0, PopKeeps
  <2>3. scopes' = scope_pop(rr)
    BY <1>8
  <2> HIDE DEF rr
  <2>4. rr # <<>>
    BY <1>2, <1>8, <2>2
  <2>5. \A d \in DOMAIN scopes' : d \in DOMAIN rr /\ scopes'[d] = rr[d]
    BY <1>3, <2>1, <2>3, <2>4
  <2> QED
    BY <2>1, <2>5
<1>9. CASE scopes # <<>> /\ scopes' = scope_push(scope_pop(scopes))
  <2> DEFINE rr == scope_pop(scopes)
  <2>1. rr \in Chain /\ \A d \in DOMAIN rr : d \in DOMAIN scopes /\ rr[d] = scopes[d]
    BY <1>2, <1>3, <1>9
  <2>2. scopes' = scope_push(rr)
    BY <1>9
  <2> HIDE DEF rr
  <2>3. \A d \in DOMAIN scopes' : scopes'[d] = <<>> \/ (d \in DOMAIN rr /\ scopes'[d] = rr[d])
    BY <1>4, <2>1, <2>2
  <2> QED
    BY <2>1, <2>3
<1>10. CASE \E n \in Names : Declared(n)
  BY <1>2, <1>10 DEF Declared
<1> QED
  BY <1>5, <1>6, <1>7, <1>8, <1>9, <1>10, ChainSteps DEF ChainStep

\* The nodes of every action but Let and BeginFunction.
LEMMA CodeKeepsSlots ==
  ASSUME Shape, LetsIn(hir, next_local), [Next]_vars, ~ BeginFunction,
         ~ \E n \in Names, e \in Expr : Let(n, e)
  PROVE  LetsIn(hir', next_local)
<1>1. scopes \in Chain /\ hir \in Seq(Nodes) /\ Len(hir) \in Nat
  BY DEF Shape, Typed, GoodCode, Good
<1>2. ASSUME NEW b, Quiet(b), hir' = hir \o b
      PROVE  LetsIn(hir', next_local)
  BY <1>1, <1>2, LetsJoin
<1>3. ASSUME NEW b, NEW k, NEW r \in Nat, Quiet(b), hir' = Target(hir, k, r) \o b
      PROVE  LetsIn(hir', next_local)
  <2>1. Target(hir, k, r) \in Seq(Nodes) /\ LetsIn(Target(hir, k, r), next_local)
    BY <1>1, LetsTarget
  <2> QED
    BY <1>3, <2>1, LetsJoin
<1>4. None \in Expr /\ 0 \in Nat
  BY DEF Expr
<1>5. CASE hir' = hir
  BY <1>5
<1>6. CASE \E n \in Names, e \in Expr : Assign(n, e)
  <2>1. PICK n \in Names, e \in Expr : hir' = hir \o (Reads(e) \o <<Node("write", n, Visible[n])>>)
    BY <1>6 DEF Assign
  <2>2. Quiet(Reads(e)) /\ Quiet(<<Node("write", n, Visible[n])>>)
    BY <1>1, <1>4, QuietNodes, ScopesAssumption DEF Expr
  <2> QED
    BY <1>2, <2>1, <2>2, QuietJoin
<1>7. CASE \E e \in Expr : Use(e) \/ Return(e) \/ OpenIf(e) \/ OpenWhile(e)
  <2>1. PICK e \in Expr : \/ hir' = hir \o Reads(e)
                          \/ hir' = hir \o (Reads(e) \o <<Node("ret", None, Unbound)>>)
                          \/ hir' = hir \o (Reads(e) \o <<Branch>>)
    BY <1>7 DEF Use, Return, OpenIf, OpenWhile, Convert
  <2>2. Quiet(Reads(e)) /\ Quiet(<<Node("ret", None, Unbound)>>) /\ Quiet(<<Branch>>)
    BY <1>1, <1>4, QuietNodes
  <2>3. Quiet(Reads(e) \o <<Node("ret", None, Unbound)>>) /\ Quiet(Reads(e) \o <<Branch>>)
    BY <2>2, QuietJoin
  <2> QED
    BY <1>2, <2>1, <2>2, <2>3
<1>8. CASE \E c, u \in Expr : ForHeader(c, u)
  <2>1. PICK c \in Expr, u \in Expr : ForHeader(c, u)
    BY <1>8
  <2> DEFINE cond == Reads(c) \o <<Branch>>
             body == Upto(Len(cond)) + 2 + Len(Reads(u)) + 1
             jumps == <<Goto(body)>> \o (Reads(u) \o <<Goto(Upto(1))>>)
  <2>2. hir' = hir \o (cond \o jumps)
    BY <2>1 DEF ForHeader
  <2>3. Quiet(Reads(c)) /\ Quiet(<<Branch>>) /\ Quiet(Reads(u))
    BY <1>1, <1>4, QuietNodes
  <2>4. Quiet(cond)
    BY <2>3, QuietJoin
  <2>5. Upto(1) \in Nat /\ body \in Nat
    <3>1. Len(cond) \in Nat /\ Len(Reads(u)) \in Nat
      BY <2>3, <2>4 DEF Quiet
    <3> HIDE DEF cond
    <3> QED
      BY <1>1, <3>1 DEF Upto
  <2> HIDE DEF cond, body
  <2>6. Quiet(<<Goto(Upto(1))>>) /\ Quiet(<<Goto(body)>>)
    BY <1>1, <1>4, <2>5, QuietNodes
  <2>7. Quiet(jumps)
    BY <2>3, <2>6, QuietJoin
  <2> HIDE DEF jumps
  <2> QED
    BY <1>2, <2>2, <2>4, <2>7, QuietJoin
<1>9. CASE CloseBlock \/ CloseWhile \/ CloseFor
  <2>0. phase = "body"
    BY <1>9 DEF CloseBlock, CloseWhile, CloseFor
  <2>1. Top.cond \in Nat /\ Top.update \in Nat
    BY <2>0, TopType DEF Frames
  <2>2. PICK b : Quiet(b) /\ Leave(b)
    <3>1. Quiet(<<>>) /\ Quiet(<<Goto(Top.cond)>>) /\ Quiet(<<Goto(Top.update)>>)
      BY <1>1, <1>4, <2>1, QuietNodes
    <3> QED
      BY <1>9, <3>1 DEF CloseBlock, CloseWhile, CloseFor
  <2>3. Len(hir) + Len(b) + 1 \in Nat
    BY <1>1, <2>2 DEF Quiet
  <2>4. hir' = hir \o b \/ hir' = Target(hir, Top.skip, Len(hir) + Len(b) + 1) \o b
    BY <2>2 DEF Leave, Target
  <2> QED
    BY <1>2, <1>3, <2>2, <2>3, <2>4
<1>10. CASE OpenElse
  <2>1. hir' = Target(hir, Top.skip, Upto(2)) \o <<Goto(0)>>
    BY <1>10 DEF OpenElse, Target
  <2>2. Quiet(<<Goto(0)>>)
    BY <1>1, <1>4, QuietNodes
  <2>3. Upto(2) \in Nat
    BY <1>1 DEF Upto
  <2> QED
    BY <1>3, <2>1, <2>2, <2>3
<1>11. CASE OpenBody \/ OpenBlock \/ OpenFor \/ CloseBody \/ Step \/ Finish \/ UNCHANGED vars \/ \E n \in Names : Param(n)
  BY <1>5, <1>11 DEF OpenBody, OpenBlock, OpenFor, CloseBody, Step, Finish, vars, Param
<1> QED
  BY <1>6, <1>7, <1>8, <1>9, <1>10, <1>11 DEF Next

LEMMA SlotsStep == Shape /\ Slots /\ [Next]_vars => Slots'
<1> SUFFICES ASSUME Shape, Slots, [Next]_vars PROVE Slots'
  OBVIOUS
<1>0. scopes \in Chain /\ next_local \in Nat /\ hir \in Seq(Nodes)
  BY DEF Shape, Typed, GoodCode, Good
<1>1. CASE BeginFunction
  <2>1. scopes' = scope_push(<<>>) /\ hir' = <<>> /\ next_local' = 0
    BY <1>1 DEF BeginFunction, Shape, Nested
  <2>2. scopes' = << <<>> >>
    BY <2>1 DEF scope_push
  <2> QED
    BY <2>1, <2>2 DEF Slots, SlotsIn, LetsIn
<1>2. CASE \E n \in Names : Param(n)
  <2>1. PICK n \in Names : Param(n)
    BY <1>2
  <2>2. scopes # <<>> /\ scopes' = scope_declare(scopes, n, next_local) /\ next_local' = next_local + 1 /\ hir' = hir
    BY <2>1 DEF Param, Declared, Shape, Nested
  <2>3. SlotsIn(scopes', next_local')
    BY <1>0, <2>2, SlotsDeclared DEF Slots
  <2>4. LetsIn(hir', next_local')
    <3>2. LetsIn(hir, next_local + 1)
      <4> DEFINE l == next_local + 1
      <4>1. \A i \in 0..(next_local - 1) : i \in 0..(l - 1)
        BY <1>0
      <4>2. LetsIn(hir, next_local)
        BY DEF Slots
      <4> HIDE DEF l
      <4>3. LetsIn(hir, l)
        BY <4>1, <4>2 DEF LetsIn
      <4> QED
        BY <4>3 DEF l
    <3> QED
      BY <2>2, <3>2
  <2> QED
    BY <2>3, <2>4 DEF Slots
<1>3. CASE \E n \in Names, e \in Expr : Let(n, e)
  <2>1. PICK n \in Names, e \in Expr : Let(n, e)
    BY <1>3
  <2>2. /\ scopes # <<>> /\ scopes' = scope_declare(scopes, n, next_local) /\ next_local' = next_local + 1
        /\ hir' = hir \o (Reads(e) \o <<Node("let", n, scope_lookup(scopes', Len(scopes'), n))>>)
    BY <2>1, TopType DEF Let, Declared, Convert
  <2>3. SlotsIn(scopes', next_local')
    BY <1>0, <2>2, SlotsDeclared DEF Slots
  <2>4. scope_lookup(scopes', Len(scopes'), n) = next_local
    <3>1. Len(scopes') = Len(scopes) /\ scope_lookup(scopes', Len(scopes), n) = next_local
      BY <1>0, <2>2, DeclareBinds
    <3> QED
      BY <3>1
  <2> DEFINE x == Node("let", n, scope_lookup(scopes', Len(scopes'), n))
  <2>5. x \in Nodes /\ x.local_index = next_local
    BY <1>0, <2>4, VisibleType DEF Node, Nodes
  <2> HIDE DEF x
  <2>6. Quiet(Reads(e))
    BY <1>0, QuietNodes, 0 \in Nat
  <2>7. hir' = (hir \o Reads(e)) \o <<x>>
    <3>1. Reads(e) \in Seq(Nodes)
      BY <2>6 DEF Quiet
    <3> QED
      BY <1>0, <2>2, <2>5, <3>1 DEF x
  <2>8. LetsIn(hir \o Reads(e), next_local) /\ hir \o Reads(e) \in Seq(Nodes)
    <3>1. LetsIn(hir \o Reads(e), next_local)
      BY <1>0, <2>6, LetsJoin DEF Slots
    <3> QED
      BY <1>0, <2>6, <3>1 DEF Quiet
  <2>9. LetsIn(hir', next_local')
    BY <1>0, <2>2, <2>5, <2>7, <2>8, LetsDeclared
  <2> QED
    BY <2>3, <2>9 DEF Slots
<1>4. CASE ~ BeginFunction /\ (~ \E n \in Names : Param(n)) /\ ~ \E n \in Names, e \in Expr : Let(n, e)
  <2>1. next_local' = next_local
    BY <1>4 DEF Next, OpenBody, OpenBlock, OpenFor, CloseBlock, OpenElse, CloseWhile, CloseFor, CloseBody,
                Step, Finish, Assign, Use, Return, OpenIf, OpenWhile, ForHeader, Enter, Leave, vars
  <2>2. SlotsIn(scopes', next_local)
    BY <2>1, ChainKeepsSlots DEF Slots
  <2>3. LetsIn(hir', next_local)
    BY <1>4, CodeKeepsSlots DEF Slots
  <2> QED
    BY <2>1, <2>2, <2>3 DEF Slots
<1> QED
  BY <1>1, <1>2, <1>3, <1>4

\* No two declarations of a function share a slot (Scopes!SlotsApart).
THEOREM ScopesSlotsApart == Spec => []SlotsApart
<1>1. Init => Slots
  BY DEF Init, Slots, SlotsIn, LetsIn
<1>2. Slots => SlotsApart
  BY DEF Slots, SlotsIn, LetsIn, SlotsApart, SlotsOf, Lets
<1> QED
  BY <1>1, <1>2, SlotsStep, ShapeAlways, PTL DEF Spec

-------------------------------------------------------------------------------

(***************************************************************************)
(* Reads.  The run of a function passes from node to node; what a node and *)
(* the jumps to it leave of the variables must be what was in scope at the *)
(* node it passes to.  Names that are hidden somewhere are left out.       *)
(***************************************************************************)

Falls == {"read", "let", "write", "skip"}
Jumps == {"skip", "goto"}

\* Wherever g has a binding for a name, e has the same.
Agrees(e, g, h) == \A n \in Names \ h : g[n] # Unbound => e[n] = g[n]

\* What was in scope after a node, at a point of the code c (v beyond its end), and
\* in the d outermost scopes.
After(x) == IF x.op \in {"let", "write"} THEN [x.env EXCEPT ![x.name] = x.local_index] ELSE x.env
EnvIn(c, v, t) == IF t \in DOMAIN c THEN c[t].env ELSE v
BaseEnv(ss, d) == [n \in Names |-> scope_lookup(ss, d, n)]

Flows(c, v, h) ==
  \A k \in DOMAIN c :
    /\ c[k].op \in Falls => Agrees(After(c[k]), EnvIn(c, v, k + 1), h)
    /\ c[k].op \in Jumps /\ c[k].to # 0 => Agrees(c[k].env, EnvIn(c, v, c[k].to), h)

\* A construct comes back to nodes that had in scope what its surroundings have.
HeldFrame(f, c, ss, h) ==
  /\ f.skip # 0 => f.skip \in DOMAIN c /\ Agrees(c[f.skip].env, BaseEnv(ss, f.depth), h)
  /\ f.kind = "while" => f.cond \in DOMAIN c /\ c[f.cond].env = BaseEnv(ss, f.depth)
  /\ f.kind = "for" => f.update \in DOMAIN c /\ c[f.update].env = BaseEnv(ss, f.depth + 1)
  /\ Inner(f) <= Len(ss)
HeldIn(fs, c, ss, h) ==
  \A j \in DOMAIN fs :
    HeldFrame(fs[j], c, ss, h) /\ \A i \in DOMAIN fs : i < j => Inner(fs[i]) <= fs[j].depth

OneHolder(ss, h) == \A n \in Names \ h : \A a, b \in Holders(ss, Len(ss), n) : a = b

Answered(c, f) ==
  \A k \in DOMAIN c : c[k].op = "read" =>
    c[k].local_index = c[k].env[c[k].name] /\ (~ f => c[k].local_index # Unbound)

Owned ==
  /\ phase \in {"params", "body"} => Agrees(owner, EnvIn(hir, Visible, 1), hidden)
  /\ phase = "run" => ~ failed /\ Agrees(owner, EnvIn(hir, Visible, pc), hidden)

Bound ==
  /\ Flows(hir, Visible, hidden) /\ HeldIn(open, hir, scopes, hidden)
  /\ OneHolder(scopes, hidden) /\ Answered(hir, failed) /\ Owned
  /\ phase = "params" => hir = <<>>

LEMMA AgreesOn ==
  ASSUME NEW e, NEW g, NEW f, NEW h, NEW h2, Agrees(e, g, h), Agrees(g, f, h2), h \subseteq h2
  PROVE  Agrees(e, f, h2)
BY DEF Agrees

LEMMA AgreesSelf ==
  ASSUME NEW e, NEW h
  PROVE  Agrees(e, e, h)
BY DEF Agrees

\* The end of the code has less in scope than was thought, or the same.
LEMMA FlowsOn ==
  ASSUME NEW c, NEW v, NEW w, NEW h, NEW h2, Flows(c, v, h), Agrees(v, w, h2), h \subseteq h2
  PROVE  Flows(c, w, h2)
<1>1. \A t : Agrees(EnvIn(c, v, t), EnvIn(c, w, t), h2)
  BY AgreesSelf DEF EnvIn
<1>2. ASSUME NEW k \in DOMAIN c, c[k].op \in Falls PROVE Agrees(After(c[k]), EnvIn(c, w, k + 1), h2)
  <2>1. Agrees(After(c[k]), EnvIn(c, v, k + 1), h)
    BY <1>2 DEF Flows
  <2> QED
    BY <1>1, <2>1, AgreesOn
<1>3. ASSUME NEW k \in DOMAIN c, c[k].op \in Jumps, c[k].to # 0 PROVE Agrees(c[k].env, EnvIn(c, w, c[k].to), h2)
  <2>1. Agrees(c[k].env, EnvIn(c, v, c[k].to), h)
    BY <1>3 DEF Flows
  <2> QED
    BY <1>1, <2>1, AgreesOn
<1> QED
  BY <1>2, <1>3 DEF Flows

\* Nodes that change nothing that is in scope, and jump to T at most.
Still(b, v, T) ==
  b \in Seq(Nodes) /\ \A k \in DOMAIN b :
    /\ b[k].env = v
    /\ b[k].op # "let" /\ (b[k].op = "write" => b[k].name \in Names /\ b[k].local_index = v[b[k].name])
    /\ b[k].to \in T \cup {0}

\* The parts of two lists that are joined.
LEMMA Joined ==
  ASSUME NEW a \in Seq(Nodes), NEW b \in Seq(Nodes), NEW ab, ab = a \o b
  PROVE  /\ ab \in Seq(Nodes) /\ Len(ab) = Len(a) + Len(b) /\ Len(a) \in Nat /\ Len(b) \in Nat
         /\ DOMAIN a = 1..Len(a) /\ DOMAIN b = 1..Len(b) /\ DOMAIN ab = 1..(Len(a) + Len(b))
         /\ \A k \in DOMAIN a : k \in DOMAIN ab /\ ab[k] = a[k]
         /\ \A k \in DOMAIN b : Len(a) + k \in DOMAIN ab /\ ab[Len(a) + k] = b[k]
         /\ \A k \in DOMAIN ab : k \in DOMAIN a \/ (k - Len(a) \in DOMAIN b /\ ab[k] = b[k - Len(a)])
<1>1. /\ ab \in Seq(Nodes) /\ Len(ab) = Len(a) + Len(b) /\ Len(a) \in Nat /\ Len(b) \in Nat
      /\ DOMAIN a = 1..Len(a) /\ DOMAIN b = 1..Len(b) /\ DOMAIN ab = 1..(Len(a) + Len(b))
  OBVIOUS
<1>2. \A k \in 1..Len(a) : ab[k] = a[k]
  OBVIOUS
<1>3. \A k \in 1..Len(b) : ab[Len(a) + k] = b[k]
  OBVIOUS
<1>4. \A k \in 1..Len(a) : k \in 1..(Len(a) + Len(b))
  BY <1>1
<1>5. \A k \in 1..Len(b) : Len(a) + k \in 1..(Len(a) + Len(b))
  BY <1>1
<1>6. ASSUME NEW k \in 1..(Len(a) + Len(b)) PROVE k \in 1..Len(a) \/ (k - Len(a) \in 1..Len(b) /\ ab[k] = b[k - Len(a)])
  <2>1. k \in 1..Len(a) \/ (k - Len(a) \in 1..Len(b) /\ k = Len(a) + (k - Len(a)))
    BY <1>1
  <2> QED
    BY <1>3, <2>1
<1> QED
  BY <1>1, <1>2, <1>3, <1>4, <1>5, <1>6

LEMMA StillJoin ==
  ASSUME NEW a, NEW b, NEW v, NEW T, Still(a, v, T), Still(b, v, T)
  PROVE  Still(a \o b, v, T)
<1> DEFINE ab == a \o b
<1>0. a \in Seq(Nodes) /\ b \in Seq(Nodes) /\ ab = a \o b
  BY DEF Still
<1> HIDE DEF ab
<1>1. /\ ab \in Seq(Nodes)
      /\ \A k \in DOMAIN a : k \in DOMAIN ab /\ ab[k] = a[k]
      /\ \A k \in DOMAIN ab : k \in DOMAIN a \/ (k - Len(a) \in DOMAIN b /\ ab[k] = b[k - Len(a)])
  BY <1>0, Joined
<1>2. ASSUME NEW k \in DOMAIN ab
      PROVE  /\ ab[k].env = v
             /\ ab[k].op # "let" /\ (ab[k].op = "write" => ab[k].name \in Names /\ ab[k].local_index = v[ab[k].name])
             /\ ab[k].to \in T \cup {0}
  <2>1. CASE k \in DOMAIN a
    BY <1>1, <2>1 DEF Still
  <2>2. CASE k \notin DOMAIN a
    <3>1. PICK i \in DOMAIN b : ab[k] = b[i]
      BY <1>1, <2>2
    <3> QED
      BY <3>1 DEF Still
  <2> QED
    BY <2>1, <2>2
<1> QED
  BY <1>1, <1>2 DEF Still, ab
\* What the environment after a node that is still is.
LEMMA StillAfter ==
  ASSUME NEW x \in Nodes, NEW v \in [Names -> Int], x.env = v, x.op # "let",
         x.op = "write" => x.name \in Names /\ x.local_index = v[x.name]
  PROVE  After(x) = v
<1>1. CASE x.op = "write"
  <2>1. [v EXCEPT ![x.name] = v[x.name]] = v
    BY <1>1
  <2> QED
    BY <1>1, <2>1 DEF After
<1>2. CASE x.op # "write"
  BY <1>2 DEF After
<1> QED
  BY <1>1, <1>2

LEMMA FlowsJoin ==
  ASSUME NEW c \in Seq(Nodes), NEW v \in [Names -> Int], NEW h, NEW b, NEW T, Flows(c, v, h), Still(b, v, T),
         \A t \in T : t # 0 => Agrees(v, EnvIn(c \o b, v, t), h)
  PROVE  Flows(c \o b, v, h)
<1> DEFINE cb == c \o b
<1>0. c \in Seq(Nodes) /\ b \in Seq(Nodes) /\ cb = c \o b
  BY DEF Still
<1>t. \A t \in T : t # 0 => Agrees(v, EnvIn(cb, v, t), h)
  OBVIOUS
<1> HIDE DEF cb
<1>1. /\ cb \in Seq(Nodes)
      /\ \A k \in DOMAIN c : k \in DOMAIN cb /\ cb[k] = c[k]
      /\ \A k \in DOMAIN cb : k \in DOMAIN c \/ (k - Len(c) \in DOMAIN b /\ cb[k] = b[k - Len(c)])
  BY <1>0, Joined
\* Beyond the end of c everything is as v has it.
<1>2. \A k \in DOMAIN cb : k \notin DOMAIN c => cb[k].env = v
  <2> SUFFICES ASSUME NEW k \in DOMAIN cb, k \notin DOMAIN c PROVE cb[k].env = v
    OBVIOUS
  <2>1. PICK i \in DOMAIN b : cb[k] = b[i]
    BY <1>1
  <2> QED
    BY <2>1 DEF Still
<1>3. \A t : EnvIn(cb, v, t) = EnvIn(c, v, t)
  BY <1>1, <1>2 DEF EnvIn
<1>4. ASSUME NEW k \in DOMAIN cb
      PROVE  /\ cb[k].op \in Falls => Agrees(After(cb[k]), EnvIn(cb, v, k + 1), h)
             /\ cb[k].op \in Jumps /\ cb[k].to # 0 => Agrees(cb[k].env, EnvIn(cb, v, cb[k].to), h)
  <2>1. CASE k \in DOMAIN c
    BY <1>1, <1>3, <2>1 DEF Flows
  <2>2. CASE k \notin DOMAIN c
    <3>1. PICK i \in DOMAIN b : cb[k] = b[i]
      BY <1>1, <2>2
    <3>2. b[i] \in Nodes
      BY <1>0
    <3>3. After(b[i]) = v
      BY <3>2, StillAfter DEF Still
    <3>4. k + 1 \notin DOMAIN c
      BY <1>0, <1>1, <2>2
    <3>5. EnvIn(cb, v, k + 1) = v
      BY <1>3, <3>4 DEF EnvIn
    <3>6. cb[k].op \in Falls => Agrees(After(cb[k]), EnvIn(cb, v, k + 1), h)
      BY <3>1, <3>3, <3>5, AgreesSelf
    <3>7. b[i].env = v /\ b[i].to \in T \cup {0}
      BY DEF Still
    <3>8. cb[k].to # 0 => Agrees(cb[k].env, EnvIn(cb, v, cb[k].to), h)
      BY <1>t, <3>1, <3>7
    <3> QED
      BY <3>6, <3>8
  <2> QED
    BY <2>1, <2>2
<1> QED
  BY <1>4 DEF Flows, cb

\* A declaration at the end of the code.
LEMMA FlowsLet ==
  ASSUME NEW c \in Seq(Nodes), NEW v, NEW w, NEW h, NEW x \in Nodes, Flows(c, v, h),
         \A k \in DOMAIN c : c[k].to <= Len(c) + 1, x.env = v, x.op = "let", Agrees(After(x), w, h)
  PROVE  Flows(c \o <<x>>, w, h)
<1> DEFINE cx == c \o <<x>>
           q == Len(c) + 1
<1>1. /\ DOMAIN cx = DOMAIN c \cup {q} /\ q \notin DOMAIN c /\ cx[q] = x /\ q + 1 \notin DOMAIN cx
      /\ DOMAIN c = 1..Len(c) /\ Len(c) \in Nat
      /\ \A k \in DOMAIN c : cx[k] = c[k]
  OBVIOUS
<1>2. ASSUME NEW k \in DOMAIN c PROVE c[k].to \in Nat /\ c[k].to <= q /\ k + 1 \in DOMAIN c \cup {q}
  <2>1. c[k] \in Nodes
    OBVIOUS
  <2>2. c[k].to \in Nat
    BY <2>1 DEF Nodes
  <2> QED
    BY <1>1, <2>2
<1> HIDE DEF cx, q
<1>3. \A t \in DOMAIN cx : EnvIn(cx, w, t) = EnvIn(c, v, t)
  BY <1>1 DEF EnvIn
<1>4. ASSUME NEW k \in DOMAIN cx
      PROVE  /\ cx[k].op \in Falls => Agrees(After(cx[k]), EnvIn(cx, w, k + 1), h)
             /\ cx[k].op \in Jumps /\ cx[k].to # 0 => Agrees(cx[k].env, EnvIn(cx, w, cx[k].to), h)
  <2>1. CASE k \in DOMAIN c
    <3>1. k + 1 \in DOMAIN cx
      BY <1>1, <1>2, <2>1
    <3>2. c[k].to # 0 => c[k].to \in DOMAIN cx
      BY <1>1, <1>2, <2>1 DEF q
    <3> QED
      BY <1>1, <1>3, <2>1, <3>1, <3>2 DEF Flows
  <2>2. CASE k = q
    <3>1. EnvIn(cx, w, k + 1) = w
      BY <1>1, <2>2 DEF EnvIn
    <3> QED
      BY <1>1, <2>2, <3>1 DEF Jumps
  <2> QED
    BY <1>1, <2>1, <2>2
<1> QED
  BY <1>4 DEF Flows, cx

\* A jump is given the end of the code for a target.
LEMMA FlowsTarget ==
  ASSUME NEW c \in Seq(Nodes), NEW v, NEW h, NEW k \in DOMAIN c, NEW r, Flows(c, v, h),
         r \notin DOMAIN c, Agrees(c[k].env, v, h)
  PROVE  Flows(Target(c, k, r), v, h)
<1> DEFINE b == Target(c, k, r)
<1>1. DOMAIN b = DOMAIN c /\ \A i \in DOMAIN c : b[i] = IF i = k THEN [c[k] EXCEPT !.to = r] ELSE c[i]
  BY DEF Target
<1>2. c[k] \in Nodes
  OBVIOUS
<1>3. /\ b[k].op = c[k].op /\ b[k].env = c[k].env /\ b[k].to = r
      /\ b[k].name = c[k].name /\ b[k].local_index = c[k].local_index
  BY <1>1, <1>2 DEF Nodes
<1> HIDE DEF b
<1>4. \A i \in DOMAIN c : b[i].env = c[i].env /\ b[i].op = c[i].op /\ After(b[i]) = After(c[i])
  BY <1>1, <1>3 DEF After
<1>5. \A t : EnvIn(b, v, t) = EnvIn(c, v, t)
  BY <1>1, <1>4 DEF EnvIn
<1>6. ASSUME NEW i \in DOMAIN c
      PROVE  /\ b[i].op \in Falls => Agrees(After(b[i]), EnvIn(b, v, i + 1), h)
             /\ b[i].op \in Jumps /\ b[i].to # 0 => Agrees(b[i].env, EnvIn(b, v, b[i].to), h)
  <2>1. b[i].op \in Falls => Agrees(After(b[i]), EnvIn(b, v, i + 1), h)
    BY <1>4, <1>5 DEF Flows
  <2>2. CASE i = k
    <3>1. EnvIn(b, v, r) = v
      BY <1>1 DEF EnvIn
    <3> QED
      BY <1>3, <2>1, <2>2, <3>1
  <2>3. CASE i # k
    <3>1. b[i] = c[i]
      BY <1>1, <2>3
    <3> QED
      BY <1>5, <2>1, <3>1 DEF Flows
  <2> QED
    BY <2>2, <2>3
<1> QED
  BY <1>1, <1>6 DEF Flows, b

\* The nodes that the actions add.
LEMMA StillNodes ==
  ASSUME scopes \in Chain, NEW e \in Expr, NEW T, NEW k \in T, k \in Nat
  PROVE  /\ Still(<<>>, Visible, T) /\ Still(Reads(e), Visible, T) /\ Still(<<Branch>>, Visible, T)
         /\ Still(<<Goto(k)>>, Visible, T) /\ Still(<<Goto(0)>>, Visible, T)
         /\ Still(<<Node("ret", None, Unbound)>>, Visible, T)
         /\ e # None => Still(<<Node("write", e, Visible[e])>>, Visible, T)
<1>0. Visible \in [Names -> Int]
  BY VisibleType
<1>1. Still(<<>>, Visible, T)
  BY DEF Still
<1>2. ASSUME NEW x \in Nodes, x.env = Visible, x.op # "let", x.to \in T \cup {0},
             x.op = "write" => x.name \in Names /\ x.local_index = Visible[x.name]
      PROVE  Still(<<x>>, Visible, T)
  BY <1>2 DEF Still
<1>3. /\ Branch \in Nodes /\ Goto(k) \in Nodes /\ Goto(0) \in Nodes /\ Node("ret", None, Unbound) \in Nodes
      /\ Goto(k).to = k /\ Goto(0).to = 0 /\ Branch.to = 0 /\ Node("ret", None, Unbound).to = 0
      /\ Goto(k).op = "goto" /\ Goto(0).op = "goto" /\ Branch.op = "skip" /\ Node("ret", None, Unbound).op = "ret"
      /\ Goto(k).env = Visible /\ Goto(0).env = Visible /\ Branch.env = Visible
      /\ Node("ret", None, Unbound).env = Visible
  BY <1>0 DEF Branch, Goto, Node, Nodes, Unbound
<1>4. /\ Still(<<Branch>>, Visible, T) /\ Still(<<Goto(k)>>, Visible, T) /\ Still(<<Goto(0)>>, Visible, T)
      /\ Still(<<Node("ret", None, Unbound)>>, Visible, T)
  BY <1>2, <1>3
<1>5. ASSUME e # None, NEW o \in {"read", "write"} PROVE Still(<<Node(o, e, Visible[e])>>, Visible, T)
  <2> DEFINE x == Node(o, e, Visible[e])
  <2>1. /\ x \in Nodes /\ x.env = Visible /\ x.op = o /\ x.to = 0 /\ x.name = e /\ e \in Names
        /\ x.local_index = Visible[e]
    BY <1>0, <1>5 DEF Node, Nodes, Expr
  <2> HIDE DEF x
  <2>2. Still(<<x>>, Visible, T)
    BY <1>2, <2>1
  <2> QED
    BY <2>2 DEF x
<1>6. Still(Reads(e), Visible, T)
  BY <1>1, <1>5 DEF Reads
<1> QED
  BY <1>1, <1>4, <1>5, <1>6

\* Reads of what has no binding are reported.
LEMMA AnsweredJoin ==
  ASSUME NEW c \in Seq(Nodes), NEW b \in Seq(Nodes), NEW f \in BOOLEAN, NEW g \in BOOLEAN,
         Answered(c, f), Answered(b, g), NEW fg, fg = (f \/ g)
  PROVE  Answered(c \o b, fg)
<1> DEFINE cb == c \o b
<1>0. cb = c \o b
  OBVIOUS
<1> HIDE DEF cb
<1>1. /\ \A k \in DOMAIN cb : k \in DOMAIN c \/ (k - Len(c) \in DOMAIN b /\ cb[k] = b[k - Len(c)])
      /\ \A k \in DOMAIN c : cb[k] = c[k]
  BY <1>0, Joined
<1>2. ASSUME NEW k \in DOMAIN cb, cb[k].op = "read"
      PROVE  cb[k].local_index = cb[k].env[cb[k].name] /\ (~ fg => cb[k].local_index # Unbound)
  <2>1. CASE k \in DOMAIN c
    BY <1>1, <1>2, <2>1 DEF Answered
  <2>2. CASE k \notin DOMAIN c
    <3>1. PICK i \in DOMAIN b : cb[k] = b[i]
      BY <1>1, <2>2
    <3> QED
      BY <1>2, <3>1 DEF Answered
  <2> QED
    BY <2>1, <2>2
<1> QED
  BY <1>2 DEF Answered, cb

\* Lists without reads are answered whatever else happens.
Silent(b) == b \in Seq(Nodes) /\ \A k \in DOMAIN b : b[k].op # "read"

LEMMA AnsweredReads ==
  ASSUME scopes \in Chain, NEW e \in Expr
  PROVE  /\ Answered(Reads(e), Undefined(e)) /\ Undefined(e) \in BOOLEAN /\ Reads(e) \in Seq(Nodes)
         /\ \A b, f : Silent(b) => Answered(b, f)
<1>1. Reads(e) \in Seq(Nodes)
  BY GoodReads DEF Good
<1>2. Answered(Reads(e), Undefined(e))
  <2>1. CASE e = None
    BY <2>1 DEF Answered, Reads
  <2>2. CASE e # None
    BY <2>2 DEF Answered, Reads, Undefined, Node
  <2> QED
    BY <2>1, <2>2
<1> QED
  BY <1>1, <1>2 DEF Undefined, Answered, Silent

\* Scopes that agree up to D bind alike up to there.
LEMMA BaseSame ==
  ASSUME NEW ss \in Chain, NEW rr, NEW D \in Nat, D <= Len(ss), \A k \in 1..D : rr[k] = ss[k], NEW d \in 0..D
  PROVE  BaseEnv(rr, d) = BaseEnv(ss, d)
<1>1. d \in 0..Len(ss) /\ \A k \in 1..d : rr[k] = ss[k]
  BY DEF Chain
<1>2. \A n \in Names : scope_lookup(rr, d, n) = scope_lookup(ss, d, n)
  BY <1>1, SameUpTo
<1> QED
  BY <1>2 DEF BaseEnv

LEMMA FrameKept ==
  ASSUME NEW f \in Frames, NEW c, NEW ss \in Chain, NEW h, HeldFrame(f, c, ss, h),
         NEW d, NEW rr \in Chain, NEW h2, NEW D \in Nat, D <= Len(ss), \A k \in 1..D : rr[k] = ss[k],
         \A k \in DOMAIN c : k \in DOMAIN d /\ d[k].env = c[k].env, h \subseteq h2,
         Inner(f) <= Len(rr), Inner(f) - 1 <= D
  PROVE  HeldFrame(f, d, rr, h2)
<1>1. f.depth \in Nat /\ (f.kind = "for" => Inner(f) = f.depth + 2) /\ (f.kind # "for" => Inner(f) = f.depth + 1)
  BY DEF Inner, Frames
<1>2. f.depth \in 0..D /\ (f.kind = "for" => f.depth + 1 \in 0..D)
  BY <1>1
<1>3. BaseEnv(rr, f.depth) = BaseEnv(ss, f.depth)
  BY <1>2, BaseSame
<1>4. f.kind = "for" => BaseEnv(rr, f.depth + 1) = BaseEnv(ss, f.depth + 1)
  BY <1>2, BaseSame
<1>5. f.skip # 0 => f.skip \in DOMAIN d /\ Agrees(d[f.skip].env, BaseEnv(rr, f.depth), h2)
  BY <1>3 DEF HeldFrame, Agrees
<1> QED
  BY <1>3, <1>4, <1>5 DEF HeldFrame

LEMMA HeldKept ==
  ASSUME NEW fs \in Seq(Frames), NEW c, NEW ss \in Chain, NEW h, HeldIn(fs, c, ss, h),
         NEW d, NEW rr \in Chain, NEW h2, NEW D \in Nat, D <= Len(ss), \A k \in 1..D : rr[k] = ss[k],
         \A k \in DOMAIN c : k \in DOMAIN d /\ d[k].env = c[k].env, h \subseteq h2,
         \A j \in DOMAIN fs : Inner(fs[j]) <= Len(rr) /\ Inner(fs[j]) - 1 <= D
  PROVE  HeldIn(fs, d, rr, h2)
<1>1. ASSUME NEW j \in DOMAIN fs PROVE HeldFrame(fs[j], d, rr, h2)
  <2>1. fs[j] \in Frames /\ HeldFrame(fs[j], c, ss, h)
    BY DEF HeldIn
  <2>2. Inner(fs[j]) <= Len(rr) /\ Inner(fs[j]) - 1 <= D
    OBVIOUS
  <2> DEFINE f == fs[j]
  <2> HIDE DEF f
  <2> QED
    BY <2>1, <2>2, FrameKept DEF f
<1> QED
  BY <1>1 DEF HeldIn

LEMMA HeldLonger ==
  ASSUME NEW fs, NEW c, NEW ss, NEW h, HeldIn(fs, c, ss, h), NEW d,
         \A k \in DOMAIN c : k \in DOMAIN d /\ d[k].env = c[k].env
  PROVE  HeldIn(fs, d, ss, h)
<1>1. \A f : HeldFrame(f, c, ss, h) => HeldFrame(f, d, ss, h)
  BY DEF HeldFrame
<1> QED
  BY <1>1 DEF HeldIn

\* A construct is added, and the innermost one is left.
LEMMA HeldAppend ==
  ASSUME NEW fs \in Seq(Frames), NEW f, NEW c, NEW ss, NEW h, HeldIn(fs, c, ss, h), HeldFrame(f, c, ss, h),
         \A i \in DOMAIN fs : Inner(fs[i]) <= f.depth
  PROVE  HeldIn(Append(fs, f), c, ss, h)
<1> DEFINE gs == Append(fs, f)
           q == Len(fs) + 1
<1>1. /\ DOMAIN gs = DOMAIN fs \cup {q} /\ gs[q] = f /\ q \notin DOMAIN fs
      /\ \A j \in DOMAIN fs : gs[j] = fs[j] /\ j < q /\ ~ (q < j)
  OBVIOUS
<1>2. ~ (q < q)
  OBVIOUS
<1> HIDE DEF gs, q
<1>3. ASSUME NEW j \in DOMAIN gs
      PROVE  HeldFrame(gs[j], c, ss, h) /\ \A i \in DOMAIN gs : i < j => Inner(gs[i]) <= gs[j].depth
  <2>1. CASE j \in DOMAIN fs
    <3>1. \A i \in DOMAIN gs : i < j => i \in DOMAIN fs
      BY <1>1, <2>1
    <3> QED
      BY <1>1, <2>1, <3>1 DEF HeldIn
  <2>2. CASE j = q
    <3>1. \A i \in DOMAIN gs : i < j => i \in DOMAIN fs
      BY <1>1, <1>2, <2>2
    <3> QED
      BY <1>1, <2>2, <3>1
  <2> QED
    BY <1>1, <2>1, <2>2
<1> QED
  BY <1>3 DEF HeldIn, gs

LEMMA HeldRest ==
  ASSUME Shape, phase = "body", NEW c, NEW ss, NEW h, HeldIn(open, c, ss, h)
  PROVE  /\ HeldFrame(Top, c, ss, h)
         /\ Top.kind # "body" =>
              HeldIn(Rest, c, ss, h) /\ \A i \in DOMAIN Rest : Inner(Rest[i]) <= Top.depth
<1>1. Len(open) \in DOMAIN open /\ Top = open[Len(open)] /\ Len(open) \in Nat /\ DOMAIN open = 1..Len(open)
  BY TopType
<1>2. HeldFrame(Top, c, ss, h)
  BY <1>1 DEF HeldIn
<1>3. ASSUME Top.kind # "body"
      PROVE  HeldIn(Rest, c, ss, h) /\ \A i \in DOMAIN Rest : Inner(Rest[i]) <= Top.depth
  <2>1. Rest \in Seq(Frames) /\ Len(Rest) = Len(open) - 1 /\ \A j \in DOMAIN Rest : Rest[j] = open[j]
    <3>1. Len(hir) \in Nat
      BY DEF Shape, GoodCode, Good
    <3> QED
      BY <1>3, <3>1, LeftBehind
  <2> DEFINE R == Rest
  <2> HIDE DEF R
  <2>2. R \in Seq(Frames) /\ Len(R) = Len(open) - 1 /\ \A j \in DOMAIN R : R[j] = open[j]
    BY <2>1 DEF R
  <2>3. \A j \in DOMAIN R : j \in DOMAIN open /\ j < Len(open)
    BY <1>1, <2>2
  <2>4. HeldIn(R, c, ss, h) /\ \A i \in DOMAIN R : Inner(R[i]) <= Top.depth
    BY <1>1, <2>2, <2>3 DEF HeldIn
  <2> QED
    BY <2>4 DEF R
<1> QED
  BY <1>2, <1>3

LEMMA InnerNat ==
  ASSUME NEW x \in Frames
  PROVE  Inner(x) \in Nat
BY DEF Frames, Inner

\* All constructs lie within the scopes there are.
LEMMA HeldWithin ==
  ASSUME Shape, phase = "body", Bound
  PROVE  \A j \in DOMAIN open : open[j] \in Frames /\ Inner(open[j]) \in Nat /\ Inner(open[j]) <= Len(scopes)
<1>1. ASSUME NEW j \in DOMAIN open PROVE open[j] \in Frames /\ Inner(open[j]) \in Nat
  <2>1. open[j] \in Frames
    BY DEF Shape, Typed
  <2> QED
    BY <2>1 DEF Frames, Inner
<1> QED
  BY <1>1 DEF Bound, HeldIn, HeldFrame

LEMMA OneHolderPush ==
  ASSUME NEW ss \in Chain, NEW h, OneHolder(ss, h)
  PROVE  /\ OneHolder(scope_push(ss), h)
         /\ BaseEnv(scope_push(ss), Len(scope_push(ss))) = BaseEnv(ss, Len(ss))
<1> DEFINE rr == scope_push(ss)
<1>1. Len(rr) = Len(ss) + 1
  BY PushKeeps
<1>2. \A n \in Names : Holders(rr, Len(ss) + 1, n) = Holders(ss, Len(ss), n)
                       /\ scope_lookup(rr, Len(ss) + 1, n) = scope_lookup(ss, Len(ss), n)
  BY PushKeeps
<1> HIDE DEF rr
<1> QED
  BY <1>1, <1>2 DEF OneHolder, BaseEnv, rr

\* Scopes are left: what is still bound is bound as before.
LEMMA OneHolderPrefix ==
  ASSUME NEW ss \in Chain, NEW h, OneHolder(ss, h), NEW rr \in Chain, Len(rr) <= Len(ss),
         \A k \in 1..Len(rr) : rr[k] = ss[k]
  PROVE  OneHolder(rr, h) /\ Agrees(BaseEnv(ss, Len(ss)), BaseEnv(rr, Len(rr)), h)
<1>1. Len(rr) \in 0..Len(ss) /\ Len(ss) \in Nat /\ Len(rr) \in Nat /\ \A k \in 1..Len(rr) : k \in 1..Len(ss)
  BY DEF Chain
<1>2. ASSUME NEW n PROVE Holders(rr, Len(rr), n) = Holders(ss, Len(rr), n)
                         /\ scope_lookup(rr, Len(rr), n) = scope_lookup(ss, Len(rr), n)
  BY <1>1, SameUpTo
<1>3. \A n : Holders(ss, Len(rr), n) \subseteq Holders(ss, Len(ss), n)
  BY <1>1 DEF Holders
<1>4. OneHolder(rr, h)
  BY <1>2, <1>3 DEF OneHolder
<1>5. ASSUME NEW n \in Names \ h, scope_lookup(ss, Len(rr), n) # Unbound
      PROVE  scope_lookup(ss, Len(ss), n) = scope_lookup(ss, Len(rr), n)
  <2>1. \A a, b \in Holders(ss, Len(ss), n) : a = b
    BY DEF OneHolder
  <2> QED
    BY <1>1, <1>5, <2>1, OuterAgrees
<1>6. Agrees(BaseEnv(ss, Len(ss)), BaseEnv(rr, Len(rr)), h)
  BY <1>2, <1>5 DEF Agrees, BaseEnv
<1> QED
  BY <1>4, <1>6

\* A chain agrees with its outer parts.
LEMMA OuterEnv ==
  ASSUME NEW ss \in Chain, NEW h, OneHolder(ss, h), NEW d \in 0..Len(ss)
  PROVE  Agrees(BaseEnv(ss, Len(ss)), BaseEnv(ss, d), h)
<1>1. ASSUME NEW n \in Names \ h, scope_lookup(ss, d, n) # Unbound
      PROVE  scope_lookup(ss, Len(ss), n) = scope_lookup(ss, d, n)
  <2>1. \A a, b \in Holders(ss, Len(ss), n) : a = b
    BY DEF OneHolder
  <2> QED
    BY <1>1, <2>1, OuterAgrees
<1> QED
  BY <1>1 DEF Agrees, BaseEnv

LEMMA VisibleIs == Visible = BaseEnv(scopes, Len(scopes)) /\ Visible' = BaseEnv(scopes', Len(scopes'))
BY DEF Visible, BaseEnv

\* The code grows by nodes that bind nothing.
LEMMA Grown ==
  ASSUME Shape, Bound, NEW b, NEW T, Still(b, Visible, T), NEW f \in BOOLEAN, Answered(b, f),
         \A t \in T : t # 0 => Agrees(Visible, EnvIn(hir \o b, Visible, t), hidden)
  PROVE  /\ Flows(hir \o b, Visible, hidden) /\ Answered(hir \o b, failed \/ f)
         /\ hir \o b \in Seq(Nodes) /\ Len(hir \o b) = Len(hir) + Len(b) /\ Len(hir) \in Nat /\ Len(b) \in Nat
         /\ \A k \in DOMAIN hir : k \in DOMAIN (hir \o b) /\ (hir \o b)[k] = hir[k]
         /\ \A k \in DOMAIN (hir \o b) : k \notin DOMAIN hir => (hir \o b)[k].env = Visible
         /\ EnvIn(hir \o b, Visible, 1) = EnvIn(hir, Visible, 1)
<1> DEFINE cb == hir \o b
<1>0. /\ hir \in Seq(Nodes) /\ b \in Seq(Nodes) /\ cb = hir \o b /\ Visible \in [Names -> Int] /\ failed \in BOOLEAN
      /\ Flows(hir, Visible, hidden) /\ Answered(hir, failed)
  <2>1. hir \in Seq(Nodes) /\ b \in Seq(Nodes) /\ failed \in BOOLEAN /\ scopes \in Chain
    BY DEF Shape, Typed, GoodCode, Good, Still
  <2>2. Flows(hir, Visible, hidden) /\ Answered(hir, failed)
    BY DEF Bound
  <2> QED
    BY <2>1, <2>2, VisibleType
<1> HIDE DEF cb
<1>1. /\ cb \in Seq(Nodes) /\ Len(cb) = Len(hir) + Len(b) /\ Len(hir) \in Nat /\ Len(b) \in Nat
      /\ \A k \in DOMAIN hir : k \in DOMAIN cb /\ cb[k] = hir[k]
      /\ \A k \in DOMAIN cb : k \in DOMAIN hir \/ (k - Len(hir) \in DOMAIN b /\ cb[k] = b[k - Len(hir)])
  BY <1>0, Joined
<1>2. ASSUME NEW k \in DOMAIN cb, k \notin DOMAIN hir PROVE cb[k].env = Visible
  <2>1. PICK i \in DOMAIN b : cb[k] = b[i]
    BY <1>1, <1>2
  <2> QED
    BY <2>1 DEF Still
<1>3. EnvIn(cb, Visible, 1) = EnvIn(hir, Visible, 1)
  BY <1>1, <1>2 DEF EnvIn
<1>4. Flows(cb, Visible, hidden)
  <2> DEFINE v == Visible
             h == hidden
             c == hir
  <2>1. c \in Seq(Nodes) /\ v \in [Names -> Int] /\ Flows(c, v, h) /\ Still(b, v, T)
    BY <1>0
  <2>2. \A t \in T : t # 0 => Agrees(v, EnvIn(c \o b, v, t), h)
    OBVIOUS
  <2> HIDE DEF v, h, c
  <2>3. Flows(c \o b, v, h)
    BY <2>1, <2>2, FlowsJoin
  <2> QED
    BY <1>0, <2>3 DEF v, h, c
<1>5. Answered(cb, failed \/ f)
  BY <1>0, AnsweredJoin
<1> QED
  BY <1>1, <1>2, <1>3, <1>4, <1>5 DEF cb

\* Nodes that are not reads leave the reads answered.
LEMMA AnsweredBeside ==
  ASSUME NEW c \in Seq(Nodes), NEW b \in Seq(Nodes), NEW f \in BOOLEAN, Answered(c, f), Answered(b, FALSE)
  PROVE  Answered(c \o b, f) /\ Answered(b \o c, f) /\ c \o b \in Seq(Nodes) /\ b \o c \in Seq(Nodes)
<1>1. f = (f \/ FALSE) /\ f = (FALSE \/ f) /\ FALSE \in BOOLEAN
  OBVIOUS
<1>2. Answered(c \o b, f)
  BY ONLY <1>1, c \in Seq(Nodes), b \in Seq(Nodes), f \in BOOLEAN, Answered(c, f), Answered(b, FALSE), AnsweredJoin
<1>3. Answered(b \o c, f)
  BY ONLY <1>1, c \in Seq(Nodes), b \in Seq(Nodes), f \in BOOLEAN, Answered(c, f), Answered(b, FALSE), AnsweredJoin
<1> QED
  BY <1>2, <1>3

\* What is left to say of a step within a function.
LEMMA BoundAfter ==
  ASSUME Bound, phase = "body", phase' = "body", owner' = owner, hidden' = hidden,
         Flows(hir', Visible', hidden), Answered(hir', failed'), OneHolder(scopes', hidden),
         HeldIn(open', hir', scopes', hidden),
         Agrees(EnvIn(hir, Visible, 1), EnvIn(hir', Visible', 1), hidden)
  PROVE  Bound'
<1>1. Agrees(owner, EnvIn(hir, Visible, 1), hidden)
  BY DEF Bound, Owned
<1>2. Agrees(owner, EnvIn(hir', Visible', 1), hidden)
  BY <1>1 DEF Agrees
<1>3. Owned'
  BY <1>2 DEF Owned
<1> QED
  BY <1>3 DEF Bound

\* The initialisation of a for is over.
LEMMA HeldInit ==
  ASSUME Shape, Bound, phase = "body", InitDone \/ open' = open
  PROVE  /\ HeldIn(open', hir, scopes, hidden) /\ open' \in Seq(Frames)
         /\ \A j \in DOMAIN open' : Inner(open'[j]) \in Nat /\ Inner(open'[j]) <= Len(scopes)
<1>0. HeldIn(open, hir, scopes, hidden) /\ open \in Seq(Frames)
  BY DEF Bound, Shape, Typed
<1>1. CASE open' = open
  BY <1>0, <1>1, HeldWithin
<1>2. CASE open' # open
  <2> DEFINE f == [Top EXCEPT !.kind = "header"]
  <2>1. Top.kind = "init" /\ open' = Append(Rest, f)
    BY <1>2 DEF InitDone
  <2>2. HeldFrame(Top, hir, scopes, hidden) /\ HeldIn(Rest, hir, scopes, hidden)
        /\ \A i \in DOMAIN Rest : Inner(Rest[i]) <= Top.depth
    BY <1>0, <2>1, HeldRest
  <2>3. /\ Top \in Frames /\ f \in Frames /\ f.kind = "header" /\ f.skip = Top.skip /\ f.depth = Top.depth
        /\ Inner(f) = Inner(Top) /\ Inner(f) \in Nat
    <3>1. Top \in Frames
      BY TopType
    <3> QED
      BY <2>1, <3>1 DEF Frames, Inner
  <2>4. Rest \in Seq(Frames)
    <3>1. Len(hir) \in Nat
      BY DEF Shape, GoodCode, Good
    <3> QED
      BY <2>1, <3>1, LeftBehind
  <2> HIDE DEF f
  <2>5. HeldFrame(f, hir, scopes, hidden)
    BY <2>2, <2>3 DEF HeldFrame
  <2>6. HeldIn(open', hir, scopes, hidden)
    <3> DEFINE R == Rest
    <3>1. R \in Seq(Frames) /\ HeldIn(R, hir, scopes, hidden) /\ \A i \in DOMAIN R : Inner(R[i]) <= f.depth
      BY <2>2, <2>3, <2>4
    <3>2. open' = Append(R, f)
      BY <2>1
    <3> HIDE DEF R
    <3> QED
      BY <2>5, <3>1, <3>2, HeldAppend
  <2>7. open' \in Seq(Frames)
    BY <2>1, <2>3, <2>4
  <2>8. ASSUME NEW j \in DOMAIN open' PROVE Inner(open'[j]) \in Nat /\ Inner(open'[j]) <= Len(scopes)
    <3>1. open'[j] \in Frames
      BY <2>7
    <3>2. Inner(open'[j]) \in Nat
      BY ONLY <3>1, InnerNat
    <3> QED
      BY <2>6, <3>2 DEF HeldIn, HeldFrame
  <2> QED
    BY <2>6, <2>7, <2>8
<1> QED
  BY <1>1, <1>2

\* Statements that declare nothing.
LEMMA BoundSimple ==
  ASSUME Shape, Bound, NEW n, NEW e \in Expr, (n \in Names /\ Assign(n, e)) \/ Use(e) \/ Return(e)
  PROVE  Bound'
<1>0. /\ phase = "body" /\ phase' = "body" /\ owner' = owner /\ hidden' = hidden /\ scopes' = scopes
      /\ scopes \in Chain /\ failed \in BOOLEAN /\ Visible' = Visible
  <2>1. /\ phase = "body" /\ phase' = "body" /\ owner' = owner /\ hidden' = hidden /\ scopes' = scopes
    BY DEF Assign, Use, Return, InBlock
  <2> QED
    BY <2>1 DEF Shape, Typed, Visible
<1>1. InitDone \/ open' = open
  BY DEF Assign, Use, Return
<1>2. PICK b : \E f \in BOOLEAN : /\ Still(b, Visible, {0}) /\ Answered(b, f)
                                 /\ hir' = hir \o b /\ failed' = (failed \/ f)
  <2>1. /\ Still(Reads(e), Visible, {0}) /\ Still(<<Node("ret", None, Unbound)>>, Visible, {0})
        /\ n \in Names => Still(<<Node("write", n, Visible[n])>>, Visible, {0})
    <3>1. 0 \in {0} /\ 0 \in Nat /\ (n \in Names => n \in Expr /\ n # None)
      BY ScopesAssumption DEF Expr
    <3> QED
      BY <1>0, <3>1, StillNodes
  <2>2. /\ Answered(Reads(e), Undefined(e)) /\ Undefined(e) \in BOOLEAN /\ Reads(e) \in Seq(Nodes)
        /\ \A b, f : Silent(b) => Answered(b, f)
    BY <1>0, AnsweredReads
  <2>3. Silent(<<Node("ret", None, Unbound)>>) /\ (n \in Names => Silent(<<Node("write", n, Visible[n])>>))
    <3>1. /\ <<Node("ret", None, Unbound)>> \in Seq(Nodes)
          /\ n \in Names => <<Node("write", n, Visible[n])>> \in Seq(Nodes)
      BY <2>1 DEF Still
    <3>2. Node("ret", None, Unbound).op # "read" /\ Node("write", n, Visible[n]).op # "read"
      BY DEF Node
    <3> QED
      BY <3>1, <3>2 DEF Silent
  <2>4. CASE Use(e)
    BY <2>1, <2>2, <2>4 DEF Use, Convert
  <2>5. ASSUME NEW b, NEW f, f \in BOOLEAN, Still(b, Visible, {0}), Silent(b), hir' = hir \o (Reads(e) \o b),
               failed' = (failed \/ f), f = (Undefined(e) \/ (f /\ ~ Undefined(e)))
        PROVE  \E s : \E g \in BOOLEAN : /\ Still(s, Visible, {0}) /\ Answered(s, g)
                                         /\ hir' = hir \o s /\ failed' = (failed \/ g)
    <3>1. Still(Reads(e) \o b, Visible, {0})
      BY <2>1, <2>5, StillJoin
    <3>2. Answered(Reads(e) \o b, f)
      <4>1. b \in Seq(Nodes) /\ Answered(b, f)
        BY <2>2, <2>5 DEF Silent
      <4>2. f = (Undefined(e) \/ f)
        BY <2>2, <2>5
      <4> QED
        BY <2>2, <2>5, <4>1, <4>2, AnsweredJoin
    <3> QED
      BY <2>5, <3>1, <3>2
  <2>6. CASE Return(e)
    <3>1. hir' = hir \o (Reads(e) \o <<Node("ret", None, Unbound)>>) /\ failed' = (failed \/ Undefined(e))
      BY <2>6 DEF Return, Convert
    <3> QED
      BY <2>1, <2>2, <2>3, <2>5, <3>1
  <2>7. CASE n \in Names /\ Assign(n, e)
    <3> DEFINE f == Undefined(n) \/ Undefined(e)
    <3>1. hir' = hir \o (Reads(e) \o <<Node("write", n, Visible[n])>>) /\ failed' = (failed \/ f)
      BY <2>7 DEF Assign
    <3>2. f \in BOOLEAN /\ f = (Undefined(e) \/ (f /\ ~ Undefined(e)))
      BY <2>2
    <3>3. /\ Still(<<Node("write", n, Visible[n])>>, Visible, {0})
          /\ Silent(<<Node("write", n, Visible[n])>>)
      BY <2>1, <2>3, <2>7
    <3> DEFINE s == <<Node("write", n, Visible[n])>>
    <3> HIDE DEF f, s
    <3>4. Still(s, Visible, {0}) /\ Silent(s) /\ hir' = hir \o (Reads(e) \o s)
      BY <3>1, <3>3 DEF s
    <3> QED
      BY <2>5, <3>1, <3>2, <3>4
  <2> QED
    BY <2>4, <2>6, <2>7
<1>3. /\ Flows(hir', Visible, hidden) /\ Answered(hir', failed')
      /\ \A k \in DOMAIN hir : k \in DOMAIN hir' /\ hir'[k] = hir[k]
      /\ EnvIn(hir', Visible, 1) = EnvIn(hir, Visible, 1)
  <2>0. PICK f \in BOOLEAN : /\ Still(b, Visible, {0}) /\ Answered(b, f)
                             /\ hir' = hir \o b /\ failed' = (failed \/ f)
    BY <1>2
  <2>1. \A t \in {0} : t # 0 => Agrees(Visible, EnvIn(hir \o b, Visible, t), hidden)
    OBVIOUS
  <2> QED
    BY <2>0, <2>1, Grown
<1>4. HeldIn(open', hir', scopes', hidden)
  <2>1. /\ HeldIn(open', hir, scopes, hidden) /\ open' \in Seq(Frames)
        /\ \A j \in DOMAIN open' : Inner(open'[j]) \in Nat /\ Inner(open'[j]) <= Len(scopes)
    BY <1>0, <1>1, HeldInit
  <2>2. HeldIn(open', hir', scopes, hidden)
    <3> DEFINE fs == open'
               d == hir'
    <3>2. HeldIn(fs, hir, scopes, hidden)
      BY <2>1
    <3>d. \A k \in DOMAIN hir : k \in DOMAIN d /\ d[k].env = hir[k].env
      BY <1>3
    <3> HIDE DEF fs, d
    <3>3. HeldIn(fs, d, scopes, hidden)
      BY <3>2, <3>d, HeldLonger
    <3> QED
      BY <3>3 DEF fs, d
  <2> QED
    BY <1>0, <2>2
<1>5. OneHolder(scopes', hidden)
  BY <1>0 DEF Bound
<1>6. Agrees(EnvIn(hir, Visible, 1), EnvIn(hir', Visible', 1), hidden)
  BY <1>0, <1>3, AgreesSelf
<1>7. Flows(hir', Visible', hidden)
  BY <1>0, <1>3
<1> QED
  BY <1>0, <1>3, <1>4, <1>5, <1>6, <1>7, BoundAfter

\* A declaration.  What it shadows is hidden.
LEMMA BoundLet ==
  ASSUME Shape, Bound, NEW n \in Names, NEW e \in Expr, Let(n, e)
  PROVE  Bound'
<1> DEFINE L == Len(scopes)
           i == scope_lookup(scopes', Len(scopes'), n)
           x == Node("let", n, i)
           c == hir \o Reads(e)
<1>0. /\ phase = "body" /\ phase' = "body" /\ owner' = owner /\ scopes' = scope_declare(scopes, n, next_local)
      /\ scopes \in Chain /\ scopes # <<>> /\ next_local \in Nat /\ InitDone
      /\ hir' = hir \o (Reads(e) \o <<x>>) /\ failed' = (failed \/ Undefined(e))
      /\ hidden' = IF \E k \in Holders(scopes, L, n) : k < L THEN hidden \cup {n} ELSE hidden
      /\ hidden \subseteq hidden'
  <2>1. phase = "body"
    BY DEF Let
  <2>2. scopes # <<>>
    BY <2>1, TopType
  <2>3. /\ phase' = "body" /\ owner' = owner /\ scopes' = scope_declare(scopes, n, next_local)
        /\ InitDone /\ hir' = hir \o (Reads(e) \o <<x>>) /\ failed' = (failed \/ Undefined(e))
        /\ hidden' = IF \E k \in Holders(scopes, L, n) : k < L THEN hidden \cup {n} ELSE hidden
    BY <2>1 DEF Let, Declared, Convert
  <2>4. hidden \subseteq hidden'
    <3> HIDE DEF L
    <3> QED
      BY <2>3
  <2> QED
    BY <2>1, <2>2, <2>3, <2>4 DEF Shape, Typed
<1>1. /\ scopes' \in Chain /\ Len(scopes') = L /\ L \in Nat /\ L # 0
      /\ \A k \in 1..(L - 1) : scopes'[k] = scopes[k]
      /\ scope_lookup(scopes', L, n) = next_local
      /\ Holders(scopes', L, n) = Holders(scopes, L, n) \cup {L}
  <2>1. L \in Nat /\ L # 0
    BY <1>0 DEF Chain
  <2> QED
    BY <1>0, <2>1, DeclareBinds
<1>2. \A m \in Names : m # n => /\ scope_lookup(scopes', L, m) = scope_lookup(scopes, L, m)
                                /\ Holders(scopes', L, m) = Holders(scopes, L, m)
  BY <1>0, DeclareKeeps
<1>3. i = next_local
  BY <1>1
<1>4. Visible \in [Names -> Int] /\ Visible' = [Visible EXCEPT ![n] = next_local]
  <2>1. Visible \in [Names -> Int]
    BY <1>0, VisibleType
  <2>2. Visible' = [m \in Names |-> scope_lookup(scopes', L, m)]
    BY <1>1 DEF Visible
  <2>3. \A m \in Names : Visible'[m] = IF m = n THEN next_local ELSE Visible[m]
    BY <1>1, <1>2, <2>2 DEF Visible
  <2>4. DOMAIN (Visible') = Names
    BY <2>2
  <2> QED
    BY <2>1, <2>2, <2>3
<1>5. x \in Nodes /\ x.env = Visible /\ x.op = "let" /\ After(x) = Visible'
  <2>1. x \in Nodes /\ x.env = Visible /\ x.op = "let" /\ x.name = n /\ x.local_index = next_local
    <3> HIDE DEF i
    <3> QED
      BY <1>0, <1>3, <1>4 DEF Node, Nodes
  <2> HIDE DEF x
  <2> QED
    BY <1>4, <2>1 DEF After
<1> HIDE DEF x, i
<1>6. Still(Reads(e), Visible, {0}) /\ Answered(Reads(e), Undefined(e)) /\ Undefined(e) \in BOOLEAN /\ Reads(e) \in Seq(Nodes)
  <2>1. 0 \in {0} /\ 0 \in Nat
    OBVIOUS
  <2> QED
    BY <1>0, <2>1, StillNodes, AnsweredReads
<1>7. /\ Flows(c, Visible, hidden) /\ Answered(c, failed') /\ c \in Seq(Nodes)
      /\ \A k \in DOMAIN hir : k \in DOMAIN c /\ c[k] = hir[k]
      /\ EnvIn(c, Visible, 1) = EnvIn(hir, Visible, 1)
  <2>1. \A t \in {0} : t # 0 => Agrees(Visible, EnvIn(hir \o Reads(e), Visible, t), hidden)
    OBVIOUS
  <2> QED
    BY <1>0, <1>6, <2>1, Grown
<1>8. \A k \in DOMAIN c : c[k].to <= Len(c) + 1
  <2>1. Good(Reads(e), 0) /\ Len(Reads(e)) \in Nat /\ Len(hir) \in Nat
    <3>1. Good(Reads(e), 0) /\ Len(Reads(e)) \in {0, 1}
      BY <1>0, GoodReads
    <3> QED
      BY <3>1 DEF Shape, GoodCode, Good
  <2>2. 0 \in Nat /\ 0 <= Len(hir) + Len(Reads(e)) + 1
    BY <2>1
  <2>3. Good(c, Len(c) + 1)
    BY <2>1, <2>2, Grows
  <2> QED
    BY <2>3 DEF Good
<1>9. hir' = c \o <<x>>
  <2>1. hir \in Seq(Nodes)
    BY DEF Shape, GoodCode, Good
  <2> QED
    BY <1>0, <1>5, <1>6, <2>1
<1> HIDE DEF c
<1>10. /\ \A k \in DOMAIN c : k \in DOMAIN hir' /\ hir'[k] = c[k]
       /\ 1 \in DOMAIN hir' /\ (1 \notin DOMAIN c => hir'[1] = x)
       /\ DOMAIN hir' = DOMAIN c \cup {Len(c) + 1} /\ hir'[Len(c) + 1] = x
  BY <1>5, <1>7, <1>9
<1>11. Flows(hir', Visible', hidden')
  <2> DEFINE w == Visible'
             h == hidden'
             d == hir'
  <2>1. Flows(c, Visible, h)
    BY <1>0, <1>7, AgreesSelf, FlowsOn
  <2>2. Agrees(After(x), w, h) /\ d = c \o <<x>>
    BY <1>5, <1>9, AgreesSelf
  <2> HIDE DEF w, h, d
  <2>3. Flows(d, w, h)
    BY <1>5, <1>7, <1>8, <2>1, <2>2, FlowsLet
  <2> QED
    BY <2>3 DEF w, h, d
<1>12. Answered(hir', failed')
  <2>1. x.op # "read" /\ \A k \in DOMAIN hir' : k \in DOMAIN c \/ hir'[k] = x
    BY <1>5, <1>10
  <2> QED
    BY <1>7, <1>10, <2>1 DEF Answered
<1>13. HeldIn(open', hir', scopes', hidden')
  <2>1. /\ HeldIn(open', hir, scopes, hidden) /\ open' \in Seq(Frames)
        /\ \A j \in DOMAIN open' : Inner(open'[j]) \in Nat /\ Inner(open'[j]) <= Len(scopes)
    BY <1>0, HeldInit
  <2> DEFINE fs == open'
             d == hir'
             rr == scopes'
             h == hidden'
             D == L - 1
  <2>2. D \in Nat /\ D <= Len(scopes) /\ \A k \in 1..D : rr[k] = scopes[k]
    BY <1>1
  <2>3. fs \in Seq(Frames) /\ HeldIn(fs, hir, scopes, hidden)
        /\ \A j \in DOMAIN fs : Inner(fs[j]) <= Len(rr) /\ Inner(fs[j]) - 1 <= D
    BY <1>1, <2>1
  <2>4. rr \in Chain /\ hidden \subseteq h /\ \A k \in DOMAIN hir : k \in DOMAIN d /\ d[k].env = hir[k].env
    BY <1>0, <1>1, <1>7, <1>10
  <2> HIDE DEF fs, d, rr, h, D
  <2>5. HeldIn(fs, d, rr, h)
    BY <1>0, <2>2, <2>3, <2>4, HeldKept
  <2> QED
    BY <2>5 DEF fs, d, rr, h
<1>14. OneHolder(scopes', hidden')
  <2> SUFFICES ASSUME NEW m \in Names \ hidden' PROVE \A a, b \in Holders(scopes', L, m) : a = b
    BY <1>1 DEF OneHolder
  <2>1. \A a, b \in Holders(scopes, L, m) : a = b
    BY <1>0 DEF Bound, OneHolder
  <2>2. CASE m # n
    BY <1>2, <2>1, <2>2
  <2>3. CASE m = n
    <3>1. \A k \in Holders(scopes, L, n) : ~ (k < L) /\ k \in 1..L
      BY <1>0, <2>3 DEF Holders
    <3>2. \A k \in Holders(scopes, L, n) : k = L
      BY <1>1, <3>1
    <3> QED
      BY <1>1, <2>3, <3>2
  <2> QED
    BY <2>2, <2>3
<1>15. Owned'
  <2>1. Agrees(owner, EnvIn(hir, Visible, 1), hidden)
    BY <1>0 DEF Bound, Owned
  <2>2. EnvIn(hir', Visible', 1) = EnvIn(hir, Visible, 1)
    BY <1>5, <1>7, <1>10 DEF EnvIn
  <2>3. Agrees(owner', EnvIn(hir', Visible', 1), hidden')
    BY <1>0, <2>1, <2>2 DEF Agrees
  <2> QED
    BY <1>0, <2>3 DEF Owned
<1> QED
  BY <1>0, <1>11, <1>12, <1>13, <1>14, <1>15 DEF Bound

\* A scope is opened, and the construct f that it belongs to.
LEMMA BoundPush ==
  ASSUME Shape, Bound, phase = "body", phase' = "body", owner' = owner, hidden' = hidden,
         scopes' = scope_push(scopes),
         NEW fs \in Seq(Frames), NEW f, open' = Append(fs, f), HeldIn(fs, hir, scopes, hidden),
         \A j \in DOMAIN fs : Inner(fs[j]) <= f.depth /\ f.depth <= Len(scopes) /\ f.depth \in Nat,
         Flows(hir', Visible, hidden), Answered(hir', failed'),
         \A k \in DOMAIN hir : k \in DOMAIN hir' /\ hir'[k] = hir[k],
         EnvIn(hir', Visible, 1) = EnvIn(hir, Visible, 1),
         HeldFrame(f, hir', scopes', hidden)
  PROVE  Bound'
<1>1. scopes \in Chain /\ Len(scopes) \in Nat /\ OneHolder(scopes, hidden)
  BY DEF Bound, Shape, Typed, Chain
<1>2. scopes' \in Chain /\ Len(scopes') = Len(scopes) + 1 /\ \A k \in 1..Len(scopes) : scopes'[k] = scopes[k]
  BY <1>1, PushKeeps
<1>3. OneHolder(scopes', hidden) /\ Visible' = Visible
  BY <1>1, OneHolderPush, VisibleIs
<1>4. HeldIn(open', hir', scopes', hidden)
  <2> DEFINE D == Len(scopes)
             rr == scopes'
             d == hir'
  <2>1. D \in Nat /\ D <= Len(scopes) /\ rr \in Chain /\ \A k \in 1..D : rr[k] = scopes[k]
    BY <1>1, <1>2
  <2>2. \A j \in DOMAIN fs : Inner(fs[j]) <= Len(rr) /\ Inner(fs[j]) - 1 <= D
    <3> SUFFICES ASSUME NEW j \in DOMAIN fs PROVE Inner(fs[j]) <= Len(rr) /\ Inner(fs[j]) - 1 <= D
      OBVIOUS
    <3>1. fs[j] \in Frames
      OBVIOUS
    <3>2. Inner(fs[j]) \in Nat
      BY ONLY <3>1, InnerNat
    <3>3. Inner(fs[j]) <= f.depth /\ f.depth <= Len(scopes) /\ f.depth \in Nat
      OBVIOUS
    <3> DEFINE x == Inner(fs[j])
    <3>4. x \in Nat /\ x <= f.depth
      BY <3>2, <3>3
    <3> HIDE DEF x
    <3>5. x <= Len(scopes) + 1 /\ x - 1 <= Len(scopes)
      BY <1>1, <3>3, <3>4
    <3> QED
      BY <1>2, <3>5 DEF x
  <2>3. \A k \in DOMAIN hir : k \in DOMAIN d /\ d[k].env = hir[k].env
    OBVIOUS
  <2>4. hidden \subseteq hidden
    OBVIOUS
  <2> HIDE DEF D, rr, d
  <2>5. HeldIn(fs, d, rr, hidden)
    BY <1>1, <2>1, <2>2, <2>3, <2>4, HeldKept
  <2>6. HeldFrame(f, d, rr, hidden) /\ \A j \in DOMAIN fs : Inner(fs[j]) <= f.depth
    BY DEF d, rr
  <2>7. HeldIn(Append(fs, f), d, rr, hidden)
    BY <2>5, <2>6, HeldAppend
  <2> QED
    BY <2>7 DEF d, rr
<1>5. Agrees(EnvIn(hir, Visible, 1), EnvIn(hir', Visible', 1), hidden) /\ Flows(hir', Visible', hidden)
  BY <1>3, AgreesSelf
<1> QED
  BY <1>3, <1>4, <1>5, BoundAfter

\* The statements that open a construct.
LEMMA BoundOpen ==
  ASSUME Shape, Bound, NEW e \in Expr, OpenBlock \/ OpenIf(e) \/ OpenWhile(e) \/ OpenFor
  PROVE  Bound'
<1> DEFINE L == Len(scopes)
           c == hir'
<1>0. /\ phase = "body" /\ phase' = "body" /\ owner' = owner /\ hidden' = hidden
      /\ scopes' = scope_push(scopes) /\ scopes \in Chain /\ L \in Nat /\ open \in Seq(Frames)
      /\ hir \in Seq(Nodes) /\ Len(hir) \in Nat
  <2>1. /\ phase = "body" /\ phase' = "body" /\ owner' = owner /\ hidden' = hidden
        /\ scopes' = scope_push(scopes)
    BY DEF OpenBlock, OpenIf, OpenWhile, OpenFor, InBlock, Enter
  <2> QED
    BY <2>1 DEF Shape, Typed, Chain, GoodCode, Good
<1>1. BaseEnv(scopes', L) = Visible /\ Len(scopes') = L + 1
  <2>1. scopes' \in Chain /\ Len(scopes') = L + 1 /\ \A k \in 1..L : scopes'[k] = scopes[k]
    BY <1>0, PushKeeps
  <2> DEFINE rr == scopes'
  <2>2. L <= Len(scopes) /\ L \in 0..L /\ \A k \in 1..L : rr[k] = scopes[k]
    BY <1>0, <2>1
  <2> HIDE DEF L, rr
  <2>3. BaseEnv(rr, L) = BaseEnv(scopes, L)
    BY <1>0, <2>2, BaseSame
  <2> QED
    BY <2>1, <2>3, VisibleIs DEF L, rr
<1>2. /\ HeldIn(open, hir, scopes, hidden)
      /\ \A j \in DOMAIN open : Inner(open[j]) <= L /\ L <= Len(scopes) /\ L \in Nat
  <2>1. HeldIn(open, hir, scopes, hidden)
    BY DEF Bound
  <2> QED
    BY <1>0, <2>1, HeldWithin
<1>3. CASE OpenBlock \/ OpenFor
  <2>1. hir' = hir /\ failed' = failed
    BY <1>3 DEF OpenBlock, OpenFor
  <2>2. PICK f : /\ open' = Append(open, f) /\ f.depth = L /\ f.skip = 0 /\ f.kind \notin {"for", "while"}
    <3>1. \E k \in {"block", "init"} : open' = Append(open, Frame(k, 0, 0, 0))
      BY <1>3 DEF OpenBlock, OpenFor, Enter
    <3> QED
      BY <3>1 DEF Frame
  <2>3. HeldFrame(f, c, scopes', hidden)
    <3>1. Inner(f) = L + 1
      BY <2>2 DEF Inner
    <3> QED
      BY <1>0, <1>1, <2>2, <3>1 DEF HeldFrame
  <2>4. Flows(hir', Visible, hidden) /\ Answered(hir', failed')
    BY <2>1 DEF Bound
  <2>5. \A j \in DOMAIN open : Inner(open[j]) <= f.depth /\ f.depth <= Len(scopes) /\ f.depth \in Nat
    BY <1>2, <2>2
  <2>6. /\ \A k \in DOMAIN hir : k \in DOMAIN hir' /\ hir'[k] = hir[k]
        /\ EnvIn(hir', Visible, 1) = EnvIn(hir, Visible, 1)
    BY <2>1
  <2> HIDE DEF L
  <2> QED
    BY <1>0, <1>2, <2>2, <2>3, <2>4, <2>5, <2>6, BoundPush
<1>4. CASE OpenIf(e) \/ OpenWhile(e)
  <2> DEFINE b == Reads(e) \o <<Branch>>
  <2>1. hir' = hir \o b /\ failed' = (failed \/ Undefined(e))
    BY <1>4 DEF OpenIf, OpenWhile, Convert
  <2>2. Still(Reads(e), Visible, {0}) /\ Still(<<Branch>>, Visible, {0})
    <3>1. 0 \in {0} /\ 0 \in Nat
      OBVIOUS
    <3> QED
      BY <1>0, <3>1, StillNodes
  <2>3. Still(b, Visible, {0})
    BY <2>2, StillJoin
  <2>4. Answered(b, Undefined(e)) /\ Undefined(e) \in BOOLEAN
    <3>1. /\ Answered(Reads(e), Undefined(e)) /\ Undefined(e) \in BOOLEAN /\ Reads(e) \in Seq(Nodes)
          /\ \A s, f : Silent(s) => Answered(s, f)
      BY <1>0, AnsweredReads
    <3>2. <<Branch>> \in Seq(Nodes) /\ Branch.op # "read"
      BY <2>2 DEF Branch, Node, Still
    <3>a. Silent(<<Branch>>)
      BY <3>2 DEF Silent
    <3>3. Answered(<<Branch>>, FALSE)
      BY <3>1, <3>a
    <3> QED
      BY <3>1, <3>2, <3>3, AnsweredJoin
  <2>5. Len(b) \in Nat /\ Len(b) >= 1
    <3>1. Reads(e) \in Seq(Nodes)
      BY <2>2 DEF Still
    <3> QED
      BY <3>1
  <2> HIDE DEF b
  <2>6. /\ Flows(c, Visible, hidden) /\ Answered(c, failed') /\ c \in Seq(Nodes)
        /\ Len(c) = Len(hir) + Len(b)
        /\ \A k \in DOMAIN hir : k \in DOMAIN c /\ c[k] = hir[k]
        /\ \A k \in DOMAIN c : k \notin DOMAIN hir => c[k].env = Visible
        /\ EnvIn(c, Visible, 1) = EnvIn(hir, Visible, 1)
    <3>1. \A t \in {0} : t # 0 => Agrees(Visible, EnvIn(hir \o b, Visible, t), hidden)
      OBVIOUS
    <3> QED
      BY <2>1, <2>3, <2>4, <3>1, Grown
  <2>7. /\ Len(c) \in DOMAIN c /\ c[Len(c)].env = Visible
        /\ Len(hir) + 1 \in DOMAIN c /\ c[Len(hir) + 1].env = Visible
    <3>1. DOMAIN c = 1..Len(c) /\ DOMAIN hir = 1..Len(hir)
      BY <1>0, <2>6
    <3> HIDE DEF c
    <3>2. Len(c) \in DOMAIN c /\ Len(c) \notin DOMAIN hir /\ Len(hir) + 1 \in DOMAIN c /\ Len(hir) + 1 \notin DOMAIN hir
      BY <1>0, <2>5, <2>6, <3>1
    <3> QED
      BY <2>6, <3>2
  <2>8. PICK f : /\ open' = Append(open, f) /\ f.depth = L /\ f.kind # "for" /\ f.skip = Len(c)
                 /\ (f.kind = "while" => f.cond = Len(hir) + 1)
    <3>1. open' = Append(open, Frame("then", 0, Len(c), 0)) \/ open' = Append(open, Frame("while", Upto(1), Len(c), 0))
      BY <1>4 DEF OpenIf, OpenWhile, Enter
    <3> QED
      BY <3>1 DEF Frame, Upto
  <2>9. HeldFrame(f, c, scopes', hidden)
    <3>1. Inner(f) = L + 1
      BY <2>8 DEF Inner
    <3> HIDE DEF c, L
    <3> QED
      BY <1>0, <1>1, <2>7, <2>8, <3>1, AgreesSelf DEF HeldFrame
  <2>10. \A j \in DOMAIN open : Inner(open[j]) <= f.depth /\ f.depth <= Len(scopes) /\ f.depth \in Nat
    BY <1>2, <2>8
  <2> HIDE DEF L
  <2> QED
    BY <1>0, <1>2, <2>6, <2>8, <2>9, <2>10, BoundPush
<1> QED
  BY <1>3, <1>4

LEMMA StillEnv ==
  ASSUME NEW c \in Seq(Nodes), NEW v, NEW b, NEW T, Still(b, v, T), NEW t
  PROVE  EnvIn(c \o b, v, t) = EnvIn(c, v, t)
<1> DEFINE cb == c \o b
<1>0. b \in Seq(Nodes) /\ cb = c \o b
  BY DEF Still
<1> HIDE DEF cb
<1>1. /\ \A k \in DOMAIN c : k \in DOMAIN cb /\ cb[k] = c[k]
      /\ \A k \in DOMAIN cb : k \in DOMAIN c \/ (k - Len(c) \in DOMAIN b /\ cb[k] = b[k - Len(c)])
  BY <1>0, Joined
<1>2. ASSUME NEW k \in DOMAIN cb, k \notin DOMAIN c PROVE cb[k].env = v
  <2>1. PICK i \in DOMAIN b : cb[k] = b[i]
    BY <1>1, <1>2
  <2> QED
    BY <2>1 DEF Still
<1> QED
  BY <1>1, <1>2 DEF EnvIn, cb

\* The header of a for: condition, update and body are reached from one another.
LEMMA BoundHeader ==
  ASSUME Shape, Bound, NEW a \in Expr, NEW u \in Expr, ForHeader(a, u)
  PROVE  Bound'
<1> DEFINE L == Len(scopes)
           c == hir'
           cond == Reads(a) \o <<Branch>>
           skip == Upto(Len(cond))
           update == skip + 2
           body == update + Len(Reads(u)) + 1
           last == Reads(u) \o <<Goto(Upto(1))>>
           jumps == <<Goto(body)>> \o last
           b == cond \o jumps
           f == [Frame("for", Upto(1), skip, update) EXCEPT !.depth = Top.depth]
           T == {body, Upto(1)}
<1>0. /\ phase = "body" /\ phase' = "body" /\ owner' = owner /\ hidden' = hidden /\ Top.kind \in {"init", "header"}
      /\ scopes' = scope_push(scopes) /\ hir' = hir \o b /\ open' = Append(Rest, f)
      /\ failed' = (failed \/ Undefined(a) \/ Undefined(u))
  BY DEF ForHeader
<1>1. /\ scopes \in Chain /\ L \in Nat /\ hir \in Seq(Nodes) /\ Len(hir) \in Nat /\ Top \in Frames
      /\ L = Top.depth + 1 /\ Top.depth \in Nat
  BY <1>0, TopType DEF Shape, Typed, GoodCode, Good, Inner
<1>2. /\ Answered(Reads(a), Undefined(a)) /\ Undefined(a) \in BOOLEAN /\ Reads(a) \in Seq(Nodes)
      /\ Answered(Reads(u), Undefined(u)) /\ Undefined(u) \in BOOLEAN /\ Reads(u) \in Seq(Nodes)
      /\ \A s, g : Silent(s) => Answered(s, g)
  BY <1>1, AnsweredReads
<1>3. Len(Reads(a)) \in Nat /\ Len(Reads(u)) \in Nat /\ Len(cond) = Len(Reads(a)) + 1
  BY <1>2
<1>4. /\ Upto(1) = Len(hir) + 1 /\ skip = Len(hir) + Len(Reads(a)) + 1
      /\ update = skip + 2 /\ body = skip + Len(Reads(u)) + 3
      /\ Upto(1) \in Nat /\ skip \in Nat /\ update \in Nat /\ body \in Nat
  BY <1>1, <1>3 DEF Upto
<1>f. /\ f.kind = "for" /\ f.depth = Top.depth /\ f.skip = skip /\ f.update = update
  <2>1. f = [kind |-> "for", depth |-> Top.depth, cond |-> Upto(1), skip |-> skip, update |-> update]
    BY DEF Frame
  <2> HIDE DEF f
  <2> QED
    BY <2>1
<1> HIDE DEF skip, update, body, f
<1>5. /\ Still(Reads(a), Visible, T) /\ Still(Reads(u), Visible, T) /\ Still(<<Branch>>, Visible, T)
      /\ Still(<<Goto(body)>>, Visible, T) /\ Still(<<Goto(Upto(1))>>, Visible, T)
  <2>1. body \in T /\ Upto(1) \in T
    OBVIOUS
  <2> HIDE DEF T
  <2> QED
    BY <1>1, <1>4, <2>1, StillNodes
<1>6. Still(cond, Visible, T) /\ Still(last, Visible, T)
  <2> HIDE DEF T
  <2> QED
    BY <1>5, StillJoin
<1>7. Still(jumps, Visible, T)
  <2> HIDE DEF T, last
  <2> QED
    BY <1>5, <1>6, StillJoin
<1>8. Still(b, Visible, T)
  <2> HIDE DEF T, cond, jumps
  <2> QED
    BY <1>6, <1>7, StillJoin
<1>9. Answered(b, Undefined(a) \/ Undefined(u))
  <2>1. \A x \in Nodes : x.op # "read" => Silent(<<x>>)
    BY DEF Silent
  <2>2. Branch \in Nodes /\ Goto(body) \in Nodes /\ Goto(Upto(1)) \in Nodes
    <3>1. <<Branch>> \in Seq(Nodes) /\ <<Goto(body)>> \in Seq(Nodes) /\ <<Goto(Upto(1))>> \in Seq(Nodes)
      BY <1>5 DEF Still
    <3> QED
      BY <3>1
  <2>3. Branch.op # "read" /\ \A k : Goto(k).op # "read"
    BY DEF Branch, Goto, Node
  <2>4. Answered(<<Branch>>, FALSE) /\ Answered(<<Goto(body)>>, FALSE) /\ Answered(<<Goto(Upto(1))>>, FALSE)
    BY <1>2, <2>1, <2>2, <2>3
  <2>5. <<Branch>> \in Seq(Nodes) /\ <<Goto(body)>> \in Seq(Nodes) /\ <<Goto(Upto(1))>> \in Seq(Nodes)
    BY <2>2
  <2>6. Answered(cond, Undefined(a)) /\ cond \in Seq(Nodes)
    BY <1>2, <2>4, <2>5, AnsweredBeside
  <2>7. Answered(last, Undefined(u)) /\ last \in Seq(Nodes)
    BY <1>2, <2>4, <2>5, AnsweredBeside
  <2>8. Answered(jumps, Undefined(u)) /\ jumps \in Seq(Nodes)
    <3> HIDE DEF last
    <3> QED
      BY <1>2, <2>4, <2>5, <2>7, AnsweredBeside
  <2> HIDE DEF cond, jumps
  <2> QED
    BY <1>2, <2>6, <2>8, AnsweredJoin
<1>10. Len(b) = Len(Reads(a)) + Len(Reads(u)) + 3
  <2>1. Len(last) = Len(Reads(u)) + 1 /\ last \in Seq(Nodes)
    BY <1>2, <1>6 DEF Still
  <2>2. Len(jumps) = Len(Reads(u)) + 2 /\ jumps \in Seq(Nodes)
    <3> HIDE DEF last
    <3> QED
      BY <1>3, <1>7, <2>1 DEF Still
  <2>3. cond \in Seq(Nodes)
    BY <1>6 DEF Still
  <2> HIDE DEF cond, jumps
  <2> QED
    BY <1>3, <2>2, <2>3
<1> HIDE DEF b
<1>11. \A t \in T : t # 0 => Agrees(Visible, EnvIn(hir \o b, Visible, t), hidden)
  <2>1. \A t \in T : t \notin DOMAIN hir
    BY <1>1, <1>3, <1>4
  <2>2. \A t : EnvIn(hir \o b, Visible, t) = EnvIn(hir, Visible, t)
    BY <1>1, <1>8, StillEnv
  <2>3. \A t \in T : EnvIn(hir \o b, Visible, t) = Visible
    BY <2>1, <2>2 DEF EnvIn
  <2> QED
    BY <2>3, AgreesSelf
<1> HIDE DEF T
<1>12. /\ Flows(c, Visible, hidden) /\ Answered(c, failed') /\ c \in Seq(Nodes)
       /\ Len(c) = Len(hir) + Len(b)
       /\ \A k \in DOMAIN hir : k \in DOMAIN c /\ c[k] = hir[k]
       /\ \A k \in DOMAIN c : k \notin DOMAIN hir => c[k].env = Visible
       /\ EnvIn(c, Visible, 1) = EnvIn(hir, Visible, 1)
  <2> DEFINE g == Undefined(a) \/ Undefined(u)
  <2>1. g \in BOOLEAN /\ Answered(b, g) /\ failed' = (failed \/ g)
    BY <1>0, <1>2, <1>9
  <2> HIDE DEF g
  <2> QED
    BY <1>0, <1>8, <1>11, <2>1, Grown
<1>13. skip \in DOMAIN c /\ update \in DOMAIN c /\ c[skip].env = Visible /\ c[update].env = Visible
  <2>1. DOMAIN c = 1..Len(c) /\ DOMAIN hir = 1..Len(hir)
    BY <1>1, <1>12
  <2> HIDE DEF c
  <2>2. skip \in DOMAIN c /\ update \in DOMAIN c /\ skip \notin DOMAIN hir /\ update \notin DOMAIN hir
    BY <1>1, <1>3, <1>4, <1>10, <1>12, <2>1
  <2> QED
    BY <1>12, <2>2
<1>14. /\ BaseEnv(scopes', L) = Visible /\ Len(scopes') = L + 1
       /\ BaseEnv(scopes', Top.depth) = BaseEnv(scopes, Top.depth)
  <2>1. scopes' \in Chain /\ Len(scopes') = L + 1 /\ \A k \in 1..L : scopes'[k] = scopes[k]
    BY <1>0, <1>1, PushKeeps
  <2> DEFINE rr == scopes'
  <2>2. L <= Len(scopes) /\ L \in 0..L /\ Top.depth \in 0..L /\ \A k \in 1..L : rr[k] = scopes[k]
    BY <1>1, <2>1
  <2> HIDE DEF L, rr
  <2>3. BaseEnv(rr, L) = BaseEnv(scopes, L) /\ BaseEnv(rr, Top.depth) = BaseEnv(scopes, Top.depth)
    BY <1>1, <2>2, BaseSame
  <2> QED
    BY <2>1, <2>3, VisibleIs DEF L, rr
<1>15. HeldFrame(f, c, scopes', hidden)
  <2>1. Agrees(Visible, BaseEnv(scopes, Top.depth), hidden)
    <3>1. Top.depth \in 0..Len(scopes) /\ OneHolder(scopes, hidden)
      BY <1>1 DEF Bound
    <3> QED
      BY <1>1, <3>1, OuterEnv, VisibleIs
  <2>2. Inner(f) = L + 1 /\ f.depth + 1 = L
    <3> HIDE DEF L
    <3> QED
      BY <1>1, <1>f DEF Inner
  <2> HIDE DEF L, c
  <2> QED
    BY <1>f, <1>13, <1>14, <1>1, <2>1, <2>2 DEF HeldFrame
<1>16. /\ HeldIn(Rest, hir, scopes, hidden) /\ Rest \in Seq(Frames)
       /\ \A j \in DOMAIN Rest : Inner(Rest[j]) <= f.depth /\ f.depth <= Len(scopes) /\ f.depth \in Nat
  <2>1. HeldIn(Rest, hir, scopes, hidden) /\ \A j \in DOMAIN Rest : Inner(Rest[j]) <= Top.depth
    BY <1>0, HeldRest DEF Bound
  <2>2. Rest \in Seq(Frames)
    BY <1>0, <1>1, LeftBehind
  <2>3. f.depth <= Len(scopes) /\ f.depth \in Nat
    BY <1>1, <1>f
  <2> QED
    BY <1>f, <2>1, <2>2, <2>3
<1> DEFINE R == Rest
<1>17. /\ open' = Append(R, f) /\ HeldIn(R, hir, scopes, hidden) /\ R \in Seq(Frames)
       /\ \A j \in DOMAIN R : Inner(R[j]) <= f.depth /\ f.depth <= Len(scopes) /\ f.depth \in Nat
  BY <1>0, <1>16
<1> HIDE DEF L, R
<1> QED
  BY <1>0, <1>12, <1>15, <1>17, BoundPush

\* A jump to the end of the code may be given its target before or after the code
\* grows, and its environment stays.
LEMMA TargetJoin ==
  ASSUME NEW c \in Seq(Nodes), NEW b \in Seq(Nodes), NEW k \in DOMAIN c, NEW r \in Nat
  PROVE  /\ Target(c, k, r) \o b = Target(c \o b, k, r) /\ k \in DOMAIN (c \o b) /\ (c \o b)[k] = c[k]
<1> DEFINE cb == c \o b
           t == Target(c, k, r)
           tb == t \o b
           s == Target(cb, k, r)
<1>0. cb = c \o b
  OBVIOUS
<1> HIDE DEF cb
<1>1. /\ cb \in Seq(Nodes) /\ Len(cb) = Len(c) + Len(b) /\ Len(c) \in Nat /\ Len(b) \in Nat
      /\ DOMAIN c = 1..Len(c) /\ DOMAIN b = 1..Len(b) /\ DOMAIN cb = 1..(Len(c) + Len(b))
      /\ \A i \in DOMAIN c : i \in DOMAIN cb /\ cb[i] = c[i]
      /\ \A i \in DOMAIN b : Len(c) + i \in DOMAIN cb /\ cb[Len(c) + i] = b[i]
      /\ \A i \in DOMAIN cb : i \in DOMAIN c \/ (i - Len(c) \in DOMAIN b /\ cb[i] = b[i - Len(c)])
  BY <1>0, Joined
<1>2. /\ DOMAIN t = DOMAIN c /\ \A i \in DOMAIN c : t[i] = IF i = k THEN [c[k] EXCEPT !.to = r] ELSE c[i]
  BY DEF Target
<1>3. /\ DOMAIN s = DOMAIN cb /\ \A i \in DOMAIN cb : s[i] = IF i = k THEN [cb[k] EXCEPT !.to = r] ELSE cb[i]
  BY DEF Target
<1>4. t \in Seq(Nodes) /\ Len(t) = Len(c)
  <2>1. \A i \in DOMAIN c : t[i] \in Nodes
    <3> SUFFICES ASSUME NEW i \in DOMAIN c PROVE t[i] \in Nodes
      OBVIOUS
    <3>1. c[i] \in Nodes /\ c[k] \in Nodes
      OBVIOUS
    <3>2. [c[k] EXCEPT !.to = r] \in Nodes
      BY <3>1 DEF Nodes
    <3> QED
      BY <1>2, <3>1, <3>2
  <2>2. t = [i \in 1..Len(c) |-> t[i]]
    BY <1>1, <1>2 DEF Target
  <2> HIDE DEF t
  <2>3. t \in [1..Len(c) -> Nodes] /\ Len(c) \in Nat
    BY <1>1, <2>1, <2>2
  <2> QED
    BY ONLY <2>3
<1>5. s = [i \in 1..(Len(c) + Len(b)) |-> s[i]]
  BY <1>1 DEF Target
<1> HIDE DEF t, s
<1>6. /\ tb \in Seq(Nodes) /\ Len(tb) = Len(c) + Len(b) /\ DOMAIN tb = 1..(Len(c) + Len(b))
      /\ \A i \in DOMAIN t : tb[i] = t[i]
      /\ \A i \in DOMAIN tb : i \in DOMAIN t \/ (i - Len(t) \in DOMAIN b /\ tb[i] = b[i - Len(t)])
  <2>1. ASSUME NEW y \in Seq(Nodes), NEW z, z = y \o b
        PROVE  /\ z \in Seq(Nodes) /\ Len(z) = Len(y) + Len(b) /\ DOMAIN z = 1..(Len(y) + Len(b))
               /\ \A i \in DOMAIN y : z[i] = y[i]
               /\ \A i \in DOMAIN z : i \in DOMAIN y \/ (i - Len(y) \in DOMAIN b /\ z[i] = b[i - Len(y)])
    BY <2>1, Joined
  <2>2. tb = t \o b
    OBVIOUS
  <2> HIDE DEF tb
  <2>3. /\ tb \in Seq(Nodes) /\ Len(tb) = Len(t) + Len(b) /\ DOMAIN tb = 1..(Len(t) + Len(b))
        /\ \A i \in DOMAIN t : tb[i] = t[i]
        /\ \A i \in DOMAIN tb : i \in DOMAIN t \/ (i - Len(t) \in DOMAIN b /\ tb[i] = b[i - Len(t)])
    BY <1>4, <2>1, <2>2
  <2> QED
    BY <1>4, <2>3
<1> HIDE DEF tb
<1>7. ASSUME NEW i \in 1..(Len(c) + Len(b)) PROVE tb[i] = s[i]
  <2>1. CASE i \in DOMAIN c
    <3>1. cb[i] = c[i] /\ cb[k] = c[k] /\ i \in DOMAIN cb /\ tb[i] = t[i]
      BY <1>1, <1>2, <1>6, <2>1
    <3> QED
      BY <1>2, <1>3, <2>1, <3>1
  <2>2. CASE i \notin DOMAIN c
    <3>1. i # k /\ i \in DOMAIN cb /\ i \in DOMAIN tb /\ i \notin DOMAIN t
      BY <1>1, <1>2, <1>6, <2>2
    <3>2. cb[i] = b[i - Len(c)] /\ tb[i] = b[i - Len(t)]
      BY <1>1, <1>6, <2>2, <3>1
    <3> QED
      BY <1>3, <1>4, <3>1, <3>2
  <2> QED
    BY <2>1, <2>2
<1>8. tb = [i \in 1..(Len(c) + Len(b)) |-> tb[i]]
  BY <1>6
<1>9. tb = s
  BY <1>5, <1>7, <1>8
<1> QED
  BY <1>1, <1>9 DEF tb, t, s, cb

LEMMA TargetKeeps ==
  ASSUME NEW c \in Seq(Nodes), NEW k \in DOMAIN c, NEW r, NEW f, Answered(c, f)
  PROVE  /\ Answered(Target(c, k, r), f) /\ DOMAIN Target(c, k, r) = DOMAIN c
         /\ \A i \in DOMAIN c : Target(c, k, r)[i].env = c[i].env
<1> DEFINE b == Target(c, k, r)
<1>1. DOMAIN b = DOMAIN c /\ \A i \in DOMAIN c : b[i] = IF i = k THEN [c[k] EXCEPT !.to = r] ELSE c[i]
  BY DEF Target
<1>2. c[k] \in Nodes
  OBVIOUS
<1>3. /\ b[k].op = c[k].op /\ b[k].env = c[k].env /\ b[k].name = c[k].name /\ b[k].local_index = c[k].local_index
  BY <1>1, <1>2 DEF Nodes
<1> HIDE DEF b
<1>4. \A i \in DOMAIN c : /\ b[i].op = c[i].op /\ b[i].env = c[i].env
                          /\ b[i].name = c[i].name /\ b[i].local_index = c[i].local_index
  BY <1>1, <1>3
<1> QED
  BY <1>1, <1>4 DEF Answered, b

\* What becomes of the code at the end of a construct or of one of its arms: the
\* nodes b are added, and the jump over the construct leads to what follows.
Landed(b) ==
  IF Top.skip = 0 THEN hir \o b ELSE Target(hir, Top.skip, Len(hir) + Len(b) + 1) \o b

LEMMA BoundJump ==
  ASSUME Shape, Bound, phase = "body", NEW b, NEW T, Still(b, Visible, T), Answered(b, FALSE),
         \A t \in T : t # 0 => Agrees(Visible, EnvIn(hir \o b, Visible, t), hidden),
         NEW w, Agrees(Visible, w, hidden),
         Top.skip # 0 => Agrees(hir[Top.skip].env, w, hidden)
  PROVE  /\ Flows(Landed(b), w, hidden) /\ Answered(Landed(b), failed)
         /\ \A k \in DOMAIN hir : k \in DOMAIN Landed(b) /\ Landed(b)[k].env = hir[k].env
         /\ \A k \in DOMAIN b : Len(hir) + k \in DOMAIN Landed(b) /\ Landed(b)[Len(hir) + k].env = Visible
         /\ Agrees(EnvIn(hir, Visible, 1), EnvIn(Landed(b), w, 1), hidden)
<1> DEFINE c == Landed(b)
           d == hir \o b
           r == Len(hir) + Len(b) + 1
           q == Top.skip
<1>1. /\ Flows(d, Visible, hidden) /\ Answered(d, failed)
      /\ d \in Seq(Nodes) /\ Len(d) = Len(hir) + Len(b) /\ Len(hir) \in Nat /\ Len(b) \in Nat
      /\ \A k \in DOMAIN hir : k \in DOMAIN d /\ d[k] = hir[k]
      /\ EnvIn(d, Visible, 1) = EnvIn(hir, Visible, 1)
  <2>1. FALSE \in BOOLEAN /\ failed \in BOOLEAN /\ (failed \/ FALSE) = failed
    BY DEF Shape, Typed
  <2>2. Answered(d, failed \/ FALSE) => Answered(d, failed)
    BY <2>1 DEF Answered
  <2> QED
    BY <2>1, <2>2, Grown
<1>2. \A k \in DOMAIN b : Len(hir) + k \in DOMAIN d /\ d[Len(hir) + k].env = Visible
  <2>1. hir \in Seq(Nodes) /\ b \in Seq(Nodes)
    BY DEF Shape, GoodCode, Good, Still
  <2>2. \A k \in DOMAIN b : Len(hir) + k \in DOMAIN d /\ d[Len(hir) + k] = b[k]
    BY <2>1, Joined
  <2> QED
    BY <2>2 DEF Still
<1>3. q # 0 => q \in DOMAIN hir /\ c = Target(d, q, r) /\ d[q] = hir[q] /\ q \in DOMAIN d
  <2> SUFFICES ASSUME q # 0 PROVE q \in DOMAIN hir /\ c = Target(d, q, r) /\ d[q] = hir[q] /\ q \in DOMAIN d
    OBVIOUS
  <2>1. q \in DOMAIN hir
    BY HeldRest DEF Bound, HeldFrame
  <2>2. hir \in Seq(Nodes) /\ b \in Seq(Nodes) /\ r \in Nat
    BY <1>1 DEF Shape, GoodCode, Good, Still
  <2>3. c = Target(hir, q, r) \o b
    BY DEF Landed
  <2> HIDE DEF q, r
  <2>4. Target(hir, q, r) \o b = Target(hir \o b, q, r) /\ q \in DOMAIN (hir \o b) /\ (hir \o b)[q] = hir[q]
    BY <2>1, <2>2, TargetJoin
  <2> QED
    BY <2>1, <2>3, <2>4
<1>4. r \notin DOMAIN d
  BY <1>1
<1>5. q = 0 => c = d
  BY DEF Landed
<1>6. q # 0 => Agrees(d[q].env, w, hidden)
  BY <1>3
<1> HIDE DEF c, d, r, q
<1>7. Flows(d, w, hidden)
  BY <1>1, FlowsOn
<1>8. Agrees(EnvIn(d, Visible, 1), EnvIn(d, w, 1), hidden)
  BY AgreesSelf DEF EnvIn
<1>9. /\ Flows(c, w, hidden) /\ Answered(c, failed)
      /\ \A k \in DOMAIN hir : k \in DOMAIN c /\ c[k].env = hir[k].env
      /\ \A k \in DOMAIN b : Len(hir) + k \in DOMAIN c /\ c[Len(hir) + k].env = Visible
      /\ Agrees(EnvIn(hir, Visible, 1), EnvIn(c, w, 1), hidden)
  <2>1. CASE q = 0
    BY <1>1, <1>2, <1>5, <1>7, <1>8, <2>1
  <2>2. CASE q # 0
    <3>1. Flows(c, w, hidden)
      BY <1>1, <1>3, <1>4, <1>6, <1>7, <2>2, FlowsTarget
    <3>2. d \in Seq(Nodes) /\ q \in DOMAIN d /\ Answered(d, failed) /\ c = Target(d, q, r)
      BY <1>1, <1>3, <2>2
    <3>3. Answered(c, failed) /\ DOMAIN c = DOMAIN d /\ \A i \in DOMAIN d : c[i].env = d[i].env
      BY ONLY <3>2, TargetKeeps
    <3>4. EnvIn(c, w, 1) = EnvIn(d, w, 1)
      BY <3>3 DEF EnvIn
    <3> QED
      BY <1>1, <1>2, <1>8, <3>1, <3>3, <3>4
  <2> QED
    BY <2>1, <2>2
<1> QED
  BY <1>9 DEF c

\* The chain without the scopes of the innermost construct.
LEMMA Popped ==
  ASSUME Shape, phase = "body"
  PROVE  /\ scopes \in Chain /\ Len(scopes) \in Nat /\ Top.depth \in Nat /\ Top.depth <= Len(scopes)
         /\ Len(scopes) = Inner(Top) /\ Top \in Frames
         /\ \E rr \in Chain : /\ rr = IF Top.kind = "for" THEN scope_pop(scope_pop(scopes)) ELSE scope_pop(scopes)
                              /\ Len(rr) = Top.depth /\ \A k \in 1..Top.depth : rr[k] = scopes[k]
<1>1. /\ scopes \in Chain /\ scopes # <<>> /\ Len(scopes) \in Nat /\ Len(scopes) = Inner(Top)
      /\ Top.depth \in Nat /\ Top.depth >= 1 /\ Top \in Frames
  BY TopType DEF Shape, Typed
<1>2. Len(scopes) = IF Top.kind = "for" THEN Top.depth + 2 ELSE Top.depth + 1
  BY <1>1 DEF Inner
<1> DEFINE pp == scope_pop(scopes)
<1>3. pp \in Chain /\ Len(pp) = Len(scopes) - 1 /\ \A k \in 1..(Len(scopes) - 1) : pp[k] = scopes[k]
  BY <1>1, PopKeeps
<1> HIDE DEF pp
<1>4. CASE Top.kind # "for"
  <2>1. Len(pp) = Top.depth /\ Len(scopes) - 1 = Top.depth
    BY <1>1, <1>2, <1>3, <1>4
  <2> QED
    BY <1>1, <1>2, <1>3, <1>4, <2>1 DEF pp
<1>5. CASE Top.kind = "for"
  <2>1. Len(pp) = Top.depth + 1 /\ Len(scopes) - 1 = Top.depth + 1
    BY <1>1, <1>2, <1>3, <1>5
  <2>2. pp # <<>>
    BY <1>1, <2>1, Len(pp) # 0
  <2> DEFINE rr == scope_pop(pp)
  <2>3. rr \in Chain /\ Len(rr) = Len(pp) - 1 /\ \A k \in 1..(Len(pp) - 1) : rr[k] = pp[k]
    BY <1>3, <2>2, PopKeeps
  <2> HIDE DEF rr
  <2>4. Len(rr) = Top.depth /\ \A k \in 1..Top.depth : rr[k] = scopes[k]
    <3>1. Len(pp) - 1 = Top.depth /\ \A k \in 1..Top.depth : k \in 1..(Len(scopes) - 1)
      BY <1>1, <2>1
    <3> QED
      BY <1>3, <2>3, <3>1
  <2>5. rr = scope_pop(scope_pop(scopes))
    BY DEF rr, pp
  <2> QED
    BY <1>1, <1>2, <1>5, <2>3, <2>4, <2>5
<1> QED
  BY <1>4, <1>5

\* What is in scope after a construct was so before it.
LEMMA PoppedEnv ==
  ASSUME Shape, Bound, phase = "body", NEW rr \in Chain, Len(rr) = Top.depth,
         \A k \in 1..Top.depth : rr[k] = scopes[k]
  PROVE  /\ OneHolder(rr, hidden) /\ Agrees(Visible, BaseEnv(rr, Top.depth), hidden)
         /\ BaseEnv(rr, Top.depth) = BaseEnv(scopes, Top.depth)
         /\ Top.kind = "for" => Agrees(Visible, BaseEnv(scopes, Top.depth + 1), hidden)
         /\ Top.kind # "body" => \A c : (\A k \in DOMAIN hir : k \in DOMAIN c /\ c[k].env = hir[k].env) =>
              HeldIn(Rest, c, rr, hidden)
<1>1. /\ scopes \in Chain /\ Len(scopes) \in Nat /\ Top.depth \in Nat /\ Top.depth <= Len(scopes)
      /\ Len(scopes) = Inner(Top) /\ OneHolder(scopes, hidden) /\ HeldIn(open, hir, scopes, hidden)
  BY Popped DEF Bound
<1>2. OneHolder(rr, hidden) /\ Agrees(Visible, BaseEnv(rr, Top.depth), hidden)
  BY <1>1, OneHolderPrefix, VisibleIs
<1>3. BaseEnv(rr, Top.depth) = BaseEnv(scopes, Top.depth)
  <2>1. Top.depth \in 0..Top.depth
    BY <1>1
  <2> QED
    BY <1>1, <2>1, BaseSame
<1>4. Top.kind = "for" => Agrees(Visible, BaseEnv(scopes, Top.depth + 1), hidden)
  <2>1. Top.kind = "for" => Top.depth + 1 \in 0..Len(scopes)
    BY <1>1 DEF Inner
  <2> QED
    BY <1>1, <2>1, OuterEnv, VisibleIs
<1>5. ASSUME Top.kind # "body", NEW c, \A k \in DOMAIN hir : k \in DOMAIN c /\ c[k].env = hir[k].env
      PROVE  HeldIn(Rest, c, rr, hidden)
  <2>1. HeldIn(Rest, hir, scopes, hidden) /\ \A i \in DOMAIN Rest : Inner(Rest[i]) <= Top.depth
    BY <1>1, <1>5, HeldRest
  <2>2. Rest \in Seq(Frames)
    <3>1. Len(hir) \in Nat
      BY DEF Shape, GoodCode, Good
    <3> QED
      BY <1>5, <3>1, LeftBehind
  <2> DEFINE D == Top.depth
             R == Rest
  <2>3. D \in Nat /\ D <= Len(scopes) /\ \A k \in 1..D : rr[k] = scopes[k]
    BY <1>1
  <2>4. R \in Seq(Frames) /\ HeldIn(R, hir, scopes, hidden)
    BY <2>1, <2>2
  <2>5. \A j \in DOMAIN R : Inner(R[j]) <= Len(rr) /\ Inner(R[j]) - 1 <= D
    <3> SUFFICES ASSUME NEW j \in DOMAIN R PROVE Inner(R[j]) <= Len(rr) /\ Inner(R[j]) - 1 <= D
      OBVIOUS
    <3>1. R[j] \in Frames
      BY <2>4
    <3>2. Inner(R[j]) \in Nat
      BY <3>1 DEF Frames, Inner
    <3> DEFINE x == Inner(R[j])
    <3>3. x \in Nat /\ x <= D
      BY <2>1, <3>2
    <3> HIDE DEF x
    <3>4. x <= D /\ x - 1 <= D /\ Len(rr) = D
      BY <1>1, <3>3
    <3> QED
      BY <3>4 DEF x
  <2>6. hidden \subseteq hidden /\ \A k \in DOMAIN hir : k \in DOMAIN c /\ c[k].env = hir[k].env
    BY <1>5
  <2> HIDE DEF D, R
  <2>7. HeldIn(R, c, rr, hidden)
    BY <1>1, <2>3, <2>4, <2>5, <2>6, HeldKept
  <2> QED
    BY <2>7 DEF R
<1> QED
  BY <1>2, <1>3, <1>4, <1>5

LEMMA SilentNodes ==
  ASSUME scopes \in Chain, NEW k \in Nat
  PROVE  Answered(<<>>, FALSE) /\ Answered(<<Goto(k)>>, FALSE)
<1>1. Goto(k).op = "goto"
  BY DEF Goto, Node
<1> QED
  BY <1>1 DEF Answered

\* The end of a construct.
LEMMA BoundClose ==
  ASSUME Shape, Bound, CloseBlock \/ CloseWhile \/ CloseFor
  PROVE  Bound'
<1>0. /\ phase = "body" /\ phase' = "body" /\ owner' = owner /\ hidden' = hidden /\ failed' = failed
      /\ Top.kind # "body" /\ open' = Rest
  BY DEF CloseBlock, CloseWhile, CloseFor, Leave
<1>1. /\ scopes \in Chain /\ Top \in Frames /\ HeldFrame(Top, hir, scopes, hidden)
      /\ hir \in Seq(Nodes)
  BY <1>0, Popped, HeldRest DEF Bound, Shape, GoodCode, Good
<1> DEFINE w == Visible'
<1>2. PICK rr \in Chain : rr = scopes' /\ Len(rr) = Top.depth /\ \A k \in 1..Top.depth : rr[k] = scopes[k]
  <2>1. scopes' = IF Top.kind = "for" THEN scope_pop(scope_pop(scopes)) ELSE scope_pop(scopes)
    BY DEF CloseBlock, CloseWhile, CloseFor
  <2> QED
    BY <1>0, <2>1, Popped
<1>3. /\ OneHolder(rr, hidden) /\ Agrees(Visible, BaseEnv(rr, Top.depth), hidden)
      /\ BaseEnv(rr, Top.depth) = BaseEnv(scopes, Top.depth)
      /\ Top.kind = "for" => Agrees(Visible, BaseEnv(scopes, Top.depth + 1), hidden)
      /\ \A c : (\A k \in DOMAIN hir : k \in DOMAIN c /\ c[k].env = hir[k].env) => HeldIn(Rest, c, rr, hidden)
  BY <1>0, <1>2, PoppedEnv
<1>4. w = BaseEnv(scopes, Top.depth)
  BY <1>2, <1>3, VisibleIs
<1> HIDE DEF w
\* The node that a loop goes back to.
<1>5. PICK b, T : /\ Still(b, Visible, T) /\ Answered(b, FALSE) /\ Leave(b)
                  /\ \A t \in T : t # 0 => Agrees(Visible, EnvIn(hir, Visible, t), hidden)
  <2>1. CASE CloseBlock
    <3>1. Still(<<>>, Visible, {}) /\ Answered(<<>>, FALSE) /\ Leave(<<>>)
      BY <2>1 DEF CloseBlock, Still, Answered
    <3> DEFINE U == {}
    <3>2. Still(<<>>, Visible, U) /\ \A t \in U : t # 0 => Agrees(Visible, EnvIn(hir, Visible, t), hidden)
      BY <3>1
    <3> HIDE DEF U
    <3> QED
      BY <3>1, <3>2
  <2>2. CASE CloseWhile
    <3>1. Top.kind = "while" /\ Leave(<<Goto(Top.cond)>>) /\ Top.cond \in Nat
      BY <1>1, <2>2 DEF CloseWhile, Frames
    <3>2. Still(<<Goto(Top.cond)>>, Visible, {Top.cond}) /\ Answered(<<Goto(Top.cond)>>, FALSE)
      <4>1. Top.cond \in {Top.cond} /\ None \in Expr
        BY DEF Expr
      <4> QED
        BY <1>1, <3>1, <4>1, StillNodes, SilentNodes
    <3>3. EnvIn(hir, Visible, Top.cond) = BaseEnv(scopes, Top.depth)
      BY <1>1, <3>1 DEF HeldFrame, EnvIn
    <3> DEFINE U == {Top.cond}
               s == <<Goto(Top.cond)>>
    <3>4. \A t \in U : t # 0 => Agrees(Visible, EnvIn(hir, Visible, t), hidden)
      BY <1>3, <3>3
    <3>5. Still(s, Visible, U) /\ Answered(s, FALSE) /\ Leave(s)
      BY <3>1, <3>2
    <3> HIDE DEF U, s
    <3> QED
      BY <3>4, <3>5
  <2>3. CASE CloseFor
    <3>1. Top.kind = "for" /\ Leave(<<Goto(Top.update)>>) /\ Top.update \in Nat
      BY <1>1, <2>3 DEF CloseFor, Frames
    <3>2. Still(<<Goto(Top.update)>>, Visible, {Top.update}) /\ Answered(<<Goto(Top.update)>>, FALSE)
      <4>1. Top.update \in {Top.update} /\ None \in Expr
        BY DEF Expr
      <4> QED
        BY <1>1, <3>1, <4>1, StillNodes, SilentNodes
    <3>3. EnvIn(hir, Visible, Top.update) = BaseEnv(scopes, Top.depth + 1)
      BY <1>1, <3>1 DEF HeldFrame, EnvIn
    <3> DEFINE U == {Top.update}
               s == <<Goto(Top.update)>>
    <3>4. \A t \in U : t # 0 => Agrees(Visible, EnvIn(hir, Visible, t), hidden)
      BY <1>3, <3>1, <3>3
    <3>5. Still(s, Visible, U) /\ Answered(s, FALSE) /\ Leave(s)
      BY <3>1, <3>2
    <3> HIDE DEF U, s
    <3> QED
      BY <3>4, <3>5
  <2> QED
    BY <2>1, <2>2, <2>3
<1> DEFINE c == hir'
<1>6. \A t \in T : t # 0 => Agrees(Visible, EnvIn(hir \o b, Visible, t), hidden)
  <2>1. \A t : EnvIn(hir \o b, Visible, t) = EnvIn(hir, Visible, t)
    BY <1>1, <1>5, StillEnv
  <2> QED
    BY <1>5, <2>1
<1>7. /\ Agrees(Visible, w, hidden)
      /\ Top.skip # 0 => Agrees(hir[Top.skip].env, w, hidden)
      /\ c = Landed(b)
  <2>1. Agrees(Visible, w, hidden)
    BY <1>3, <1>4
  <2>2. Top.skip # 0 => Agrees(hir[Top.skip].env, w, hidden)
    BY <1>1, <1>4 DEF HeldFrame
  <2>3. c = Landed(b)
    BY <1>5 DEF Leave, Target, Landed
  <2> QED
    BY <2>1, <2>2, <2>3
<1> HIDE DEF c
<1>8. /\ Flows(c, w, hidden) /\ Answered(c, failed)
      /\ \A k \in DOMAIN hir : k \in DOMAIN c /\ c[k].env = hir[k].env
      /\ Agrees(EnvIn(hir, Visible, 1), EnvIn(c, w, 1), hidden)
  BY <1>0, <1>5, <1>6, <1>7, BoundJump
<1>9. HeldIn(Rest, c, rr, hidden)
  BY <1>3, <1>8
<1>10. HeldIn(open', hir', scopes', hidden)
  BY <1>0, <1>2, <1>9 DEF c
<1>11. OneHolder(scopes', hidden)
  BY <1>2, <1>3
<1>12. /\ Flows(hir', Visible', hidden) /\ Answered(hir', failed')
       /\ Agrees(EnvIn(hir, Visible, 1), EnvIn(hir', Visible', 1), hidden)
  BY <1>0, <1>8 DEF c, w
<1> QED
  BY <1>0, <1>10, <1>11, <1>12, BoundAfter

LEMMA HeldPush ==
  ASSUME NEW fs \in Seq(Frames), NEW c, NEW ss \in Chain, NEW h, HeldIn(fs, c, ss, h)
  PROVE  HeldIn(fs, c, scope_push(ss), h)
<1> DEFINE rr == scope_push(ss)
           D == Len(ss)
<1>1. D \in Nat /\ D <= Len(ss) /\ rr \in Chain /\ Len(rr) = D + 1 /\ \A k \in 1..D : rr[k] = ss[k]
  <2>1. D \in Nat
    BY DEF Chain
  <2> QED
    BY <2>1, PushKeeps
<1>2. \A j \in DOMAIN fs : Inner(fs[j]) <= Len(rr) /\ Inner(fs[j]) - 1 <= D
  <2> SUFFICES ASSUME NEW j \in DOMAIN fs PROVE Inner(fs[j]) <= Len(rr) /\ Inner(fs[j]) - 1 <= D
    OBVIOUS
  <2>1. fs[j] \in Frames
    OBVIOUS
  <2> DEFINE x == Inner(fs[j])
  <2>2. x \in Nat /\ x <= D
    <3>1. x \in Nat
      BY ONLY <2>1, InnerNat
    <3>2. HeldFrame(fs[j], c, ss, h)
      BY DEF HeldIn
    <3> QED
      BY <3>1, <3>2 DEF HeldFrame
  <2> HIDE DEF x, D, rr
  <2>3. x <= D + 1 /\ x - 1 <= D
    BY <1>1, <2>2
  <2> QED
    BY <1>1, <2>3 DEF x
<1>3. h \subseteq h /\ \A k \in DOMAIN c : k \in DOMAIN c /\ c[k].env = c[k].env
  OBVIOUS
<1> HIDE DEF rr, D
<1>4. HeldIn(fs, c, rr, h)
  BY <1>1, <1>2, <1>3, HeldKept
<1> QED
  BY <1>4 DEF rr

\* From one arm of an if to the other.
LEMMA BoundElse ==
  ASSUME Shape, Bound, OpenElse
  PROVE  Bound'
<1> DEFINE w == Visible'
           c == hir'
           f == [Frame("else", 0, Upto(1), 0) EXCEPT !.depth = Top.depth]
           b == <<Goto(0)>>
           T == {0}
<1>0. /\ phase = "body" /\ phase' = "body" /\ owner' = owner /\ hidden' = hidden /\ failed' = failed
      /\ Top.kind = "then" /\ open' = Append(Rest, f) /\ scopes' = scope_push(scope_pop(scopes))
      /\ hir' = Target(hir, Top.skip, Upto(2)) \o b
  BY DEF OpenElse, Target
<1>1. /\ scopes \in Chain /\ Top \in Frames /\ HeldFrame(Top, hir, scopes, hidden)
      /\ hir \in Seq(Nodes) /\ Len(hir) \in Nat /\ Top.depth \in Nat
  <2>1. HeldFrame(Top, hir, scopes, hidden) /\ hir \in Seq(Nodes) /\ Len(hir) \in Nat
    BY <1>0, HeldRest DEF Bound, Shape, GoodCode, Good
  <2> QED
    BY <1>0, <2>1, Popped
<1>2. PICK rr \in Chain : rr = scope_pop(scopes) /\ Len(rr) = Top.depth /\ \A k \in 1..Top.depth : rr[k] = scopes[k]
  BY <1>0, Popped
<1>3. /\ OneHolder(rr, hidden) /\ Agrees(Visible, BaseEnv(rr, Top.depth), hidden)
      /\ BaseEnv(rr, Top.depth) = BaseEnv(scopes, Top.depth)
      /\ \A d : (\A k \in DOMAIN hir : k \in DOMAIN d /\ d[k].env = hir[k].env) => HeldIn(Rest, d, rr, hidden)
  BY <1>0, <1>2, PoppedEnv
<1>4. /\ OneHolder(scopes', hidden) /\ w = BaseEnv(rr, Top.depth)
      /\ scopes' = scope_push(rr) /\ Len(scopes') = Top.depth + 1
      /\ BaseEnv(scopes', Top.depth) = BaseEnv(rr, Top.depth)
  <2>1. scopes' = scope_push(rr)
    BY <1>0, <1>2
  <2>2. OneHolder(scope_push(rr), hidden) /\ BaseEnv(scope_push(rr), Len(scope_push(rr))) = BaseEnv(rr, Top.depth)
    BY <1>2, <1>3, OneHolderPush
  <2>3. Len(scope_push(rr)) = Top.depth + 1 /\ \A k \in 1..Top.depth : scope_push(rr)[k] = rr[k]
    BY <1>2, PushKeeps
  <2> DEFINE D == Top.depth
             s == scope_push(rr)
  <2>4. D \in Nat /\ D <= Len(rr) /\ D \in 0..D /\ \A k \in 1..D : s[k] = rr[k]
    BY <1>1, <1>2, <2>3
  <2> HIDE DEF D, s
  <2>5. BaseEnv(s, D) = BaseEnv(rr, D)
    BY <2>4, BaseSame
  <2> QED
    BY <2>1, <2>2, <2>3, <2>5, VisibleIs DEF D, s
<1> HIDE DEF w
<1>5. Still(b, Visible, T) /\ Answered(b, FALSE)
  <2>1. 0 \in T /\ 0 \in Nat /\ None \in Expr
    BY DEF Expr
  <2> QED
    BY <1>1, <2>1, StillNodes, SilentNodes
<1>6. \A t \in T : t # 0 => Agrees(Visible, EnvIn(hir \o b, Visible, t), hidden)
  OBVIOUS
<1>7. /\ Agrees(Visible, w, hidden)
      /\ Top.skip # 0 => Agrees(hir[Top.skip].env, w, hidden)
      /\ c = Landed(b)
  <2>1. Agrees(Visible, w, hidden) /\ (Top.skip # 0 => Agrees(hir[Top.skip].env, w, hidden))
    BY <1>1, <1>3, <1>4 DEF HeldFrame
  <2>2. Upto(2) = Len(hir) + Len(b) + 1
    BY <1>1 DEF Upto
  <2>3. Target(hir, 0, Upto(2)) = hir
    <3>1. 0 \notin DOMAIN hir /\ hir = [i \in DOMAIN hir |-> hir[i]]
      BY <1>1
    <3> QED
      BY <3>1 DEF Target
  <2>4. c = Landed(b)
    BY <1>0, <2>2, <2>3 DEF Landed
  <2> QED
    BY <2>1, <2>4
<1>8. Len(b) = 1 /\ 1 \in DOMAIN b
  OBVIOUS
<1> HIDE DEF c, b, T
<1>9. /\ Flows(c, w, hidden) /\ Answered(c, failed)
      /\ \A k \in DOMAIN hir : k \in DOMAIN c /\ c[k].env = hir[k].env
      /\ \A k \in DOMAIN b : Len(hir) + k \in DOMAIN c /\ c[Len(hir) + k].env = Visible
      /\ Agrees(EnvIn(hir, Visible, 1), EnvIn(c, w, 1), hidden)
  <2>1. phase = "body"
    BY <1>0
  <2>2. /\ Flows(Landed(b), w, hidden) /\ Answered(Landed(b), failed)
        /\ \A k \in DOMAIN hir : k \in DOMAIN Landed(b) /\ Landed(b)[k].env = hir[k].env
        /\ \A k \in DOMAIN b : Len(hir) + k \in DOMAIN Landed(b) /\ Landed(b)[Len(hir) + k].env = Visible
        /\ Agrees(EnvIn(hir, Visible, 1), EnvIn(Landed(b), w, 1), hidden)
    BY ONLY Shape, Bound, <2>1, <1>5, <1>6, <1>7, BoundJump
  <2> QED
    BY <1>7, <2>2
<1>10. f.kind = "else" /\ f.depth = Top.depth /\ f.skip = Len(hir) + 1
  <2>1. f = [kind |-> "else", depth |-> Top.depth, cond |-> 0, skip |-> Len(hir) + 1, update |-> 0]
    BY DEF Frame, Upto
  <2> HIDE DEF f
  <2> QED
    BY <2>1
<1> HIDE DEF f
<1>11. HeldFrame(f, c, scopes', hidden)
  <2>1. Inner(f) = Top.depth + 1
    BY <1>10 DEF Inner
  <2>2. Len(hir) + 1 \in DOMAIN c /\ c[Len(hir) + 1].env = Visible
    BY <1>8, <1>9
  <2> QED
    BY <1>1, <1>3, <1>4, <1>10, <2>1, <2>2 DEF HeldFrame
<1>12. HeldIn(open', c, scopes', hidden)
  <2> DEFINE R == Rest
  <2>1. R \in Seq(Frames) /\ \A i \in DOMAIN R : Inner(R[i]) <= f.depth
    BY <1>0, <1>1, <1>10, HeldRest, LeftBehind DEF Bound
  <2>2. HeldIn(R, c, rr, hidden) /\ open' = Append(R, f)
    BY <1>0, <1>3, <1>9
  <2> HIDE DEF R
  <2>3. HeldIn(R, c, scope_push(rr), hidden)
    BY <2>1, <2>2, HeldPush
  <2>4. HeldFrame(f, c, scope_push(rr), hidden)
    BY <1>4, <1>11
  <2>5. HeldIn(Append(R, f), c, scope_push(rr), hidden)
    BY <2>1, <2>3, <2>4, HeldAppend
  <2> QED
    BY <1>4, <2>2, <2>5
<1>13. /\ Flows(hir', Visible', hidden) /\ Answered(hir', failed')
       /\ Agrees(EnvIn(hir, Visible, 1), EnvIn(hir', Visible', 1), hidden)
       /\ HeldIn(open', hir', scopes', hidden)
  BY <1>0, <1>9, <1>12 DEF c, w
<1> QED
  BY <1>0, <1>4, <1>13, BoundAfter

LEMMA NothingVisible ==
  /\ scopes = <<>> => \A n \in Names : Visible[n] = Unbound
  /\ scopes' = <<>> => \A n \in Names : Visible'[n] = Unbound
<1>1. \A n \in Names : scope_lookup(<<>>, 0, n) = Unbound
  BY DEF scope_lookup, Holders
<1> QED
  BY <1>1 DEF Visible

\* The function as a whole.
LEMMA BoundFunction ==
  ASSUME Shape, Shape', Bound, BeginFunction \/ OpenBody \/ CloseBody \/ Finish \/ \E n \in Names : Param(n)
  PROVE  Bound'
<1>0. scopes \in Chain /\ scopes' \in Chain /\ next_local \in Nat /\ owner \in [Names -> Int]
  BY DEF Shape, Typed
<1>1. CASE BeginFunction
  <2>1. scopes = <<>> /\ scopes' = scope_push(<<>>) /\ hir' = <<>> /\ open' = <<>> /\ phase' = "params"
        /\ owner' = [n \in Names |-> Unbound]
    BY <1>1 DEF BeginFunction, Shape, Nested
  <2>2. Len(scopes') = 1 /\ \A n \in Names : scope_lookup(scopes', 1, n) = Unbound
    <3>1. Len(<<>>) = 0 /\ <<>> \in Chain
      BY DEF Chain
    <3>2. Len(scope_push(<<>>)) = 0 + 1
          /\ \A n \in Names : scope_lookup(scope_push(<<>>), 0 + 1, n) = scope_lookup(<<>>, 0, n)
      BY <3>1, PushKeeps
    <3>3. \A n \in Names : scope_lookup(<<>>, 0, n) = Unbound
      BY DEF scope_lookup, Holders
    <3> QED
      BY <2>1, <3>2, <3>3
  <2>3. OneHolder(scopes', hidden')
    BY <2>2 DEF OneHolder, Holders
  <2>4. Owned'
    <3>1. Visible' = [n \in Names |-> scope_lookup(scopes', 1, n)]
      BY <2>2 DEF Visible
    <3>2. \A n \in Names : Visible'[n] = Unbound
      BY <2>2, <3>1
    <3>3. EnvIn(hir', Visible', 1) = Visible'
      BY <2>1 DEF EnvIn
    <3>4. Agrees(owner', EnvIn(hir', Visible', 1), hidden')
      BY <3>2, <3>3 DEF Agrees
    <3> QED
      BY <2>1, <3>4 DEF Owned
  <2> QED
    BY <2>1, <2>3, <2>4 DEF Bound, Flows, HeldIn, Answered
<1>2. CASE \E n \in Names : Param(n)
  <2>1. PICK n \in Names : Param(n)
    BY <1>2
  <2>2. /\ phase = "params" /\ phase' = "params" /\ scopes' = scope_declare(scopes, n, next_local)
        /\ Len(scopes) = 1 /\ scopes # <<>> /\ hir = <<>> /\ hir' = hir /\ open = <<>> /\ open' = <<>>
        /\ hidden' = hidden /\ owner' = [owner EXCEPT ![n] = next_local]
    BY <2>1 DEF Param, Declared, Shape, Nested, Bound
  <2>3. Len(scopes') = 1 /\ scope_lookup(scopes', 1, n) = next_local
    <3>1. Len(scopes') = Len(scopes) /\ scope_lookup(scopes', Len(scopes), n) = next_local
      BY <1>0, <2>2, DeclareBinds
    <3> QED
      BY <2>2, <3>1
  <2>4. \A m \in Names : m # n => scope_lookup(scopes', 1, m) = scope_lookup(scopes, 1, m)
    <3>1. \A m \in Names : m # n =>
            scope_lookup(scope_declare(scopes, n, next_local), Len(scopes), m) = scope_lookup(scopes, Len(scopes), m)
      <4>1. scopes \in Chain /\ scopes # <<>> /\ n \in Names /\ next_local \in Nat
        BY <1>0, <2>2
      <4> QED
        BY ONLY <4>1, DeclareKeeps
    <3> QED
      BY <2>2, <3>1
  <2>5. OneHolder(scopes', hidden')
    BY <2>3 DEF OneHolder, Holders
  <2>6. Owned'
    <3>1. Agrees(owner, Visible, hidden)
      BY <2>2 DEF Bound, Owned, EnvIn
    <3>2. Agrees(owner', Visible', hidden')
      BY <1>0, <2>2, <2>3, <2>4, <3>1 DEF Agrees, Visible
    <3> QED
      BY <2>2, <3>2 DEF Owned, EnvIn
  <2> QED
    BY <2>2, <2>5, <2>6 DEF Bound, Flows, HeldIn, Answered
<1>3. CASE OpenBody
  <2> DEFINE f == Frame("body", 0, 0, 0)
  <2>1. /\ phase = "params" /\ phase' = "body" /\ scopes' = scope_push(scopes) /\ Len(scopes) = 1
        /\ hir = <<>> /\ hir' = hir /\ hidden' = hidden /\ owner' = owner /\ open' = <<f>>
    BY <1>3 DEF OpenBody, Shape, Nested, Bound
  <2>2. OneHolder(scopes', hidden') /\ Visible' = Visible
    <3>1. OneHolder(scopes, hidden)
      BY DEF Bound
    <3> QED
      BY <1>0, <2>1, <3>1, OneHolderPush, VisibleIs
  <2>3. HeldIn(open', hir', scopes', hidden')
    <3>1. f.kind = "body" /\ f.depth = 1 /\ f.skip = 0 /\ Inner(f) = 2
      BY <2>1 DEF Frame, Inner
    <3>2. Len(scopes') = 2
      <4>1. Len(scopes') = Len(scopes) + 1
        BY <1>0, <2>1, PushKeeps
      <4> QED
        BY <2>1, <4>1
    <3> HIDE DEF f
    <3>3. DOMAIN <<f>> = {1} /\ <<f>>[1] = f
      OBVIOUS
    <3>4. HeldFrame(f, hir', scopes', hidden')
      BY <3>1, <3>2 DEF HeldFrame
    <3> QED
      BY <2>1, <3>3, <3>4 DEF HeldIn
  <2>4. Owned'
    BY <2>1, <2>2 DEF Owned, Bound
  <2> QED
    BY <2>1, <2>2, <2>3, <2>4 DEF Bound, Flows, Answered
<1>4. CASE CloseBody
  <2>1. /\ phase = "body" /\ scopes' = <<>> /\ open' = <<>> /\ hir' = hir /\ failed' = failed
        /\ hidden' = hidden /\ owner' = owner
        /\ (phase' = "between" \/ (phase' = "run" /\ pc' = 1 /\ ~ failed))
    <3>1. /\ phase = "body" /\ open' = <<>> /\ hir' = hir /\ failed' = failed
          /\ hidden' = hidden /\ owner' = owner
          /\ (phase' = "between" \/ (phase' = "run" /\ pc' = 1 /\ ~ failed))
      BY <1>4 DEF CloseBody
    <3>2. scopes' = <<>>
      BY <3>1 DEF Shape, Nested
    <3> QED
      BY <3>1, <3>2
  <2>2. \A e : Agrees(e, Visible', hidden)
    BY <2>1, NothingVisible DEF Agrees
  <2>3. Flows(hir', Visible', hidden')
    <3> DEFINE w == Visible'
    <3>1. Flows(hir, Visible, hidden) /\ Agrees(Visible, w, hidden)
      BY <2>2 DEF Bound
    <3> HIDE DEF w
    <3>2. Flows(hir, w, hidden)
      BY <3>1, FlowsOn
    <3> QED
      BY <2>1, <3>2 DEF w
  <2>4. OneHolder(scopes', hidden')
    BY <2>1 DEF OneHolder, Holders
  <2>5. Owned'
    <3>1. Agrees(owner, EnvIn(hir, Visible, 1), hidden)
      BY <2>1 DEF Bound, Owned
    <3>2. Agrees(owner, EnvIn(hir, Visible', 1), hidden)
      BY <2>2, <3>1 DEF EnvIn
    <3> QED
      BY <2>1, <3>2 DEF Owned
  <2>6. HeldIn(open', hir', scopes', hidden')
    BY <2>1 DEF HeldIn
  <2>7. Answered(hir', failed') /\ phase' # "params"
    BY <2>1 DEF Bound
  <2> QED
    BY <2>3, <2>4, <2>5, <2>6, <2>7 DEF Bound
<1>5. CASE Finish
  <2>1. phase' = "between" /\ UNCHANGED <<scopes, open, hir, failed, hidden, owner, pc>> /\ Visible' = Visible
    BY <1>5 DEF Finish, Visible
  <2>2. Owned'
    BY <2>1 DEF Owned
  <2> QED
    BY <2>1, <2>2 DEF Bound
<1> QED
  BY <1>1, <1>2, <1>3, <1>4, <1>5

\* A step of the run.
LEMMA BoundStep ==
  ASSUME Shape, Bound, Step
  PROVE  Bound'
<1> DEFINE x == hir[pc]
<1>1. /\ phase = "run" /\ phase' = "run" /\ pc \in DOMAIN hir /\ scopes = <<>> /\ ~ failed
      /\ UNCHANGED <<scopes, open, hir, failed, hidden>> /\ Visible' = Visible
      /\ Agrees(owner, x.env, hidden)
  <2>1. phase = "run" /\ phase' = "run" /\ pc \in DOMAIN hir /\ UNCHANGED <<scopes, open, hir, failed, hidden>>
    BY DEF Step
  <2> QED
    BY <2>1 DEF Shape, Nested, Bound, Owned, EnvIn, Visible
<1>2. /\ owner' = IF x.op \in {"let", "write"} THEN [owner EXCEPT ![x.name] = x.local_index] ELSE owner
      /\ \/ x.op \in {"read", "let", "write", "skip"} /\ pc' = pc + 1
         \/ x.op \in {"skip", "goto"} /\ pc' = x.to
         \/ x.op = "ret" /\ pc' = Len(hir) + 1
  BY DEF Step
<1>3. x \in Nodes /\ (x.op \in {"read", "let", "write"} => x.name \in Names) /\ owner \in [Names -> Int]
  BY <1>1 DEF Shape, Typed, GoodCode, Good
<1>4. /\ x.op \in Falls => Agrees(After(x), EnvIn(hir, Visible, pc + 1), hidden)
      /\ x.op \in Jumps /\ x.to # 0 => Agrees(x.env, EnvIn(hir, Visible, x.to), hidden)
  BY <1>1 DEF Bound, Flows
<1>5. \A e, t : t \notin DOMAIN hir => Agrees(e, EnvIn(hir, Visible, t), hidden)
  BY <1>1, NothingVisible DEF EnvIn, Agrees
<1>6. 0 \notin DOMAIN hir /\ Len(hir) + 1 \notin DOMAIN hir
  BY DEF Shape, GoodCode, Good
<1> HIDE DEF x
<1>7. x.env \in [Names -> Int]
  BY <1>3 DEF Nodes
<1>8. Agrees(owner', After(x), hidden)
  <2>1. CASE x.op \in {"let", "write"}
    BY <1>1, <1>2, <1>3, <1>7, <2>1 DEF After, Agrees
  <2>2. CASE x.op \notin {"let", "write"}
    BY <1>1, <1>2, <2>2 DEF After
  <2> QED
    BY <2>1, <2>2
<1>9. Agrees(owner', EnvIn(hir, Visible, pc'), hidden)
  <2>1. CASE x.op \in {"read", "let", "write", "skip"} /\ pc' = pc + 1
    <3>1. Agrees(After(x), EnvIn(hir, Visible, pc'), hidden)
      BY <1>4, <2>1 DEF Falls
    <3>2. Agrees(owner', EnvIn(hir, Visible, pc'), hidden)
      BY <1>8, <3>1 DEF Agrees
    <3> QED
      BY <3>2
  <2>2. CASE x.op \in {"skip", "goto"} /\ pc' = x.to
    <3>1. owner' = owner
      BY <1>2, <2>2
    <3>2. CASE x.to = 0
      BY <1>5, <1>6, <2>2, <3>2
    <3>3. CASE x.to # 0
      <4>1. Agrees(x.env, EnvIn(hir, Visible, pc'), hidden)
        BY <1>4, <2>2, <3>3 DEF Jumps
      <4> QED
        BY <1>1, <3>1, <4>1 DEF Agrees
    <3> QED
      BY <3>2, <3>3
  <2>3. CASE x.op = "ret" /\ pc' = Len(hir) + 1
    BY <1>5, <1>6, <2>3
  <2> QED
    BY <1>2, <2>1, <2>2, <2>3
<1>10. Owned'
  BY <1>1, <1>9 DEF Owned
<1> QED
  BY <1>1, <1>10 DEF Bound

LEMMA BoundInit == Init => Bound
<1> SUFFICES ASSUME Init PROVE Bound
  OBVIOUS
<1>1. hir = <<>> /\ open = <<>> /\ scopes = <<>> /\ phase = "between"
  BY DEF Init
<1>2. OneHolder(scopes, hidden)
  BY <1>1 DEF OneHolder, Holders
<1> QED
  BY <1>1, <1>2 DEF Bound, Flows, HeldIn, Answered, Owned

LEMMA BoundNext == Shape /\ Bound /\ [Next]_vars => Bound'
<1> SUFFICES ASSUME Shape, Bound, [Next]_vars PROVE Bound'
  OBVIOUS
<1>0. Shape' /\ None \in Expr
  BY ShapeNext DEF Expr
<1>1. CASE BeginFunction \/ OpenBody \/ CloseBody \/ Finish \/ \E n \in Names : Param(n)
  BY <1>0, <1>1, BoundFunction
<1>2. CASE OpenBlock \/ OpenFor \/ \E e \in Expr : OpenIf(e) \/ OpenWhile(e)
  BY <1>0, <1>2, BoundOpen
<1>3. CASE CloseBlock \/ CloseWhile \/ CloseFor
  BY <1>3, BoundClose
<1>4. CASE OpenElse
  BY <1>4, BoundElse
<1>5. CASE \E n \in Names, e \in Expr : Let(n, e)
  BY <1>5, BoundLet
<1>6. CASE \E n \in Names, e \in Expr : Assign(n, e)
  BY <1>6, BoundSimple
<1>7. CASE \E e \in Expr : Use(e) \/ Return(e)
  BY <1>7, BoundSimple
<1>8. CASE \E a, u \in Expr : ForHeader(a, u)
  BY <1>8, BoundHeader
<1>9. CASE Step
  BY <1>9, BoundStep
<1>10. CASE UNCHANGED vars
  BY <1>10 DEF vars, Bound, Owned, Visible
<1> QED
  BY <1>1, <1>2, <1>3, <1>4, <1>5, <1>6, <1>7, <1>8, <1>9, <1>10 DEF Next

\* On every path through every function, a name that is read was last written by the
\* declaration it is bound to, unless it is hidden somewhere (Scopes!ReadsBound).
THEOREM ScopesReadsBound == Spec => []ReadsBound
<1>1. Shape /\ Bound => ReadsBound
  <2> SUFFICES ASSUME Shape, Bound, phase = "run", pc \in DOMAIN hir,
                      hir[pc].op = "read", hir[pc].name \notin hidden
               PROVE  owner[hir[pc].name] = hir[pc].local_index
    BY DEF ReadsBound
  <2> DEFINE x == hir[pc]
  <2>1. x.name \in Names
    BY DEF Shape, GoodCode, Good
  <2>2. ~ failed /\ Agrees(owner, x.env, hidden)
    BY DEF Bound, Owned, EnvIn
  <2>3. x.local_index = x.env[x.name] /\ x.local_index # Unbound
    BY <2>2 DEF Bound, Answered
  <2> QED
    BY <2>1, <2>2, <2>3 DEF Agrees
<1> QED
  BY <1>1, BoundInit, BoundNext, ShapeAlways, PTL DEF Spec

===============================================================================
