------------------------------- MODULE ParserProof -------------------------------
(***************************************************************************)
(* What parser.c does with every text, for any set of tokens and any       *)
(* length of the text: see Parser.                                         *)
(***************************************************************************)
EXTENDS Parser, SequenceTheorems, NaturalsInduction, WellFoundedInduction, TLAPS

Acts == {"program", "expect", "name", "type", "pointers", "arrays", "count", "primary", "atom", "postfix",
  "group", "drop", "args", "more_args", "expr_prec", "climb", "bin", "let", "let_type", "let_init", "if",
  "else", "else_block", "while", "for", "for_init", "expr_before", "return", "expr_or_assign", "assign",
  "stmt", "arena_name", "block", "stmts", "fn", "params", "more_params", "ret_type", "fn_body", "struct",
  "fields", "comma"}
Items == [do : Acts, kind : TokenKinds \cup {"", "EOF"}, n : Nat]
Closers == {")", "]", "}"}
\* "?" stands for a bracket that closes nothing.
BracketKinds == DOMAIN Closer \cup Closers \cup {"?"}
Stacks == Seq(Closers \cup {"?"})
\* A list of expressions, by what is known of the precedence of each.
Heights == Seq(1..Primary)

Mark(item) == IF item.do = "expect" THEN item.kind ELSE ""

\* Reading what the items expect takes one stack of brackets to another.
Reads(os, items, after) ==
  \E g \in [0..Len(items) -> Stacks] :
    /\ g[0] = os /\ g[Len(items)] = after
    /\ \A i \in 1..Len(items) : g[i] = Read(g[i - 1], Mark(items[i]))

Valuing == {"expr_prec", "climb", "bin", "primary", "atom", "group", "postfix", "drop"}
OneLess(ns) == SubSeq(ns, 1, Len(ns) - 1)
Ends(ns, p) == ns # <<>> /\ ns[Len(ns)] >= p

\* What an item asks of the expressions at hand, and what it makes of them.
Turns(ns, item, after) ==
  /\ item.do = "expr_prec" => item.n \in 1..Primary /\ after = Append(ns, item.n)
  /\ item.do \in {"primary", "atom"} => after = Append(ns, Primary)
  /\ item.do = "postfix" => Ends(ns, Primary) /\ after = ns
  /\ item.do = "climb" => item.n \in 1..Primary /\ Ends(ns, item.n) /\ after = Append(OneLess(ns), item.n)
  /\ item.do = "bin" => /\ item.n \in 1..Primary /\ Len(ns) >= 2
                        /\ ns[Len(ns) - 1] >= item.n /\ ns[Len(ns)] > item.n
                        /\ after = Append(SubSeq(ns, 1, Len(ns) - 2), item.n)
  /\ item.do = "group" => ns # <<>> /\ after = Append(OneLess(ns), Primary)
  /\ item.do = "drop" => ns # <<>> /\ after = OneLess(ns)
  /\ item.do \notin Valuing => after = ns

Makes(ns, items, after) ==
  \E h \in [0..Len(items) -> Heights] :
    /\ h[0] = ns /\ h[Len(items)] = after
    /\ \A i \in 1..Len(items) : Turns(h[i - 1], items[i], h[i])

-------------------------------------------------------------------------------

\* What a list of items in place of the first does to a walk along all of them.
LEMMA Spliced ==
  ASSUME NEW S, NEW q \in Seq(S), q # <<>>, NEW s \in Seq(S),
         NEW X, NEW g \in [0..Len(q) -> X], NEW h \in [0..Len(s) -> X], h[Len(s)] = g[1]
  PROVE  LET r == s \o Tail(q) IN
         \E f \in [0..Len(r) -> X] :
           /\ f[0] = h[0] /\ f[Len(r)] = g[Len(q)]
           /\ \A i \in 1..Len(r) :
                \/ i \in 1..Len(s) /\ r[i] = s[i] /\ f[i - 1] = h[i - 1] /\ f[i] = h[i]
                \/ \E j \in 2..Len(q) : r[i] = q[j] /\ f[i - 1] = g[j - 1] /\ f[i] = g[j]
<1> DEFINE r == s \o Tail(q)
           f == [i \in 0..Len(r) |-> IF i <= Len(s) THEN h[i] ELSE g[i - Len(s) + 1]]
<1>1. /\ Len(q) \in Nat \ {0} /\ Len(s) \in Nat /\ Tail(q) \in Seq(S)
      /\ Len(Tail(q)) = Len(q) - 1 /\ \A j \in 1..(Len(q) - 1) : Tail(q)[j] = q[j + 1]
  OBVIOUS
<1>2. /\ Len(r) = Len(s) + Len(q) - 1
      /\ \A i \in 1..Len(s) : r[i] = s[i]
      /\ \A i \in (Len(s) + 1)..Len(r) : r[i] = Tail(q)[i - Len(s)]
  BY <1>1
<1>3. \A i \in (Len(s) + 1)..Len(r) : r[i] = q[i - Len(s) + 1]
  BY <1>1, <1>2
<1> HIDE DEF r
<1>4. f \in [0..Len(r) -> X]
  <2> SUFFICES ASSUME NEW i \in 0..Len(r)
               PROVE  (IF i <= Len(s) THEN h[i] ELSE g[i - Len(s) + 1]) \in X
    OBVIOUS
  <2>1. CASE i <= Len(s)
    BY <2>1, <1>1
  <2>2. CASE ~ (i <= Len(s))
    <3>1. i - Len(s) + 1 \in 0..Len(q)
      BY <2>2, <1>1, <1>2
    <3> QED
      BY <2>2, <3>1
  <2> QED
    BY <2>1, <2>2
<1>5. f[0] = h[0]
  BY <1>1, <1>2
<1>6. f[Len(r)] = g[Len(q)]
  <2>1. Len(r) \in 0..Len(r)
    BY <1>1, <1>2
  <2>2. CASE Len(q) = 1
    BY <2>1, <2>2, <1>1, <1>2
  <2>3. CASE Len(q) # 1
    <3>1. ~ (Len(r) <= Len(s)) /\ Len(r) - Len(s) + 1 = Len(q)
      BY <2>3, <1>1, <1>2
    <3> QED
      BY <2>1, <3>1
  <2> QED
    BY <2>2, <2>3
<1>7. ASSUME NEW i \in 1..Len(r)
      PROVE  \/ i \in 1..Len(s) /\ r[i] = s[i] /\ f[i - 1] = h[i - 1] /\ f[i] = h[i]
             \/ \E j \in 2..Len(q) : r[i] = q[j] /\ f[i - 1] = g[j - 1] /\ f[i] = g[j]
  <2>0. i \in 0..Len(r) /\ i - 1 \in 0..Len(r)
    BY <1>1, <1>2
  <2>1. CASE i <= Len(s)
    <3>1. i \in 1..Len(s) /\ i - 1 <= Len(s)
      BY <2>1, <1>1
    <3>2. f[i - 1] = h[i - 1] /\ f[i] = h[i]
      BY <2>0, <2>1, <3>1
    <3> HIDE DEF f
    <3> QED
      BY <3>1, <3>2, <1>2
  <2>2. CASE i = Len(s) + 1
    <3>1. 2 \in 2..Len(q) /\ r[i] = q[2]
      BY <2>2, <1>1, <1>2, <1>3
    <3>2. f[i - 1] = g[1] /\ f[i] = g[2]
      BY <2>0, <2>2, <1>1
    <3> HIDE DEF f
    <3> QED
      BY <3>1, <3>2
  <2>3. CASE i > Len(s) + 1
    <3> DEFINE j == i - Len(s) + 1
    <3>1. j \in 2..Len(q) /\ r[i] = q[j]
      BY <2>3, <1>1, <1>2, <1>3
    <3>2. ~ (i - 1 <= Len(s)) /\ ~ (i <= Len(s)) /\ (i - 1) - Len(s) + 1 = j - 1
      BY <2>3, <1>1
    <3>3. f[i - 1] = g[j - 1] /\ f[i] = g[j]
      BY <2>0, <3>2
    <3> HIDE DEF f
    <3> QED
      BY <3>1, <3>3
  <2> QED
    BY <2>1, <2>2, <2>3, <1>1
<1> QED
  <2> HIDE DEF f
  <2> QED
    BY <1>4, <1>5, <1>6, <1>7 DEF r

LEMMA ReadsSpliced ==
  ASSUME NEW q \in Seq(Items), q # <<>>, NEW s \in Seq(Items), NEW a, NEW b, NEW c,
         Reads(a, q, c), Reads(b, s, Read(a, Mark(q[1])))
  PROVE  Reads(b, s \o Tail(q), c)
<1>1. PICK g \in [0..Len(q) -> Stacks] :
        /\ g[0] = a /\ g[Len(q)] = c
        /\ \A i \in 1..Len(q) : g[i] = Read(g[i - 1], Mark(q[i]))
  BY DEF Reads
<1>2. PICK h \in [0..Len(s) -> Stacks] :
        /\ h[0] = b /\ h[Len(s)] = Read(a, Mark(q[1]))
        /\ \A i \in 1..Len(s) : h[i] = Read(h[i - 1], Mark(s[i]))
  BY DEF Reads
<1> DEFINE r == s \o Tail(q)
<1>0. Len(q) \in Nat \ {0} /\ 1 \in 1..Len(q) /\ 2..Len(q) \subseteq 1..Len(q)
  OBVIOUS
<1>3. h[Len(s)] = g[1]
  BY <1>0, <1>1, <1>2
<1>4. PICK f \in [0..Len(r) -> Stacks] :
        /\ f[0] = h[0] /\ f[Len(r)] = g[Len(q)]
        /\ \A i \in 1..Len(r) :
             \/ i \in 1..Len(s) /\ r[i] = s[i] /\ f[i - 1] = h[i - 1] /\ f[i] = h[i]
             \/ \E j \in 2..Len(q) : r[i] = q[j] /\ f[i - 1] = g[j - 1] /\ f[i] = g[j]
  BY <1>3, Spliced
<1> HIDE DEF r
<1>5. \A i \in 1..Len(r) : f[i] = Read(f[i - 1], Mark(r[i]))
  <2> SUFFICES ASSUME NEW i \in 1..Len(r) PROVE f[i] = Read(f[i - 1], Mark(r[i]))
    OBVIOUS
  <2>1. CASE i \in 1..Len(s) /\ r[i] = s[i] /\ f[i - 1] = h[i - 1] /\ f[i] = h[i]
    BY <2>1, <1>2
  <2>2. CASE \E j \in 2..Len(q) : r[i] = q[j] /\ f[i - 1] = g[j - 1] /\ f[i] = g[j]
    BY <2>2, <1>0, <1>1
  <2> QED
    BY <2>1, <2>2, <1>4
<1>6. Reads(b, r, c)
  BY <1>1, <1>2, <1>4, <1>5 DEF Reads
<1> QED
  BY <1>6 DEF r

LEMMA MakesSpliced ==
  ASSUME NEW q \in Seq(Items), q # <<>>, NEW a, NEW c, Makes(a, q, c)
  PROVE  \E m \in Heights :
           /\ Turns(a, q[1], m)
           /\ \A s \in Seq(Items) : \A b : Makes(b, s, m) => Makes(b, s \o Tail(q), c)
<1>1. PICK g \in [0..Len(q) -> Heights] :
        /\ g[0] = a /\ g[Len(q)] = c
        /\ \A i \in 1..Len(q) : Turns(g[i - 1], q[i], g[i])
  BY DEF Makes
<1>0. Len(q) \in Nat \ {0} /\ 1 \in 1..Len(q) /\ 2..Len(q) \subseteq 1..Len(q) /\ 1 - 1 = 0
  OBVIOUS
<1>a. g[1] \in Heights /\ Turns(a, q[1], g[1])
  <2>1. 1 \in 0..Len(q)
    BY <1>0
  <2>2. Turns(g[1 - 1], q[1], g[1])
    BY <1>0, <1>1
  <2> QED
    BY <2>1, <2>2, <1>0, <1>1
<1>b. ASSUME NEW s \in Seq(Items), NEW b, Makes(b, s, g[1])
      PROVE  Makes(b, s \o Tail(q), c)
  <2>2. PICK h \in [0..Len(s) -> Heights] :
          /\ h[0] = b /\ h[Len(s)] = g[1]
          /\ \A i \in 1..Len(s) : Turns(h[i - 1], s[i], h[i])
    BY <1>b DEF Makes
  <2> DEFINE r == s \o Tail(q)
  <2>3. h[Len(s)] = g[1]
    BY <2>2
  <2>4. PICK f \in [0..Len(r) -> Heights] :
          /\ f[0] = h[0] /\ f[Len(r)] = g[Len(q)]
          /\ \A i \in 1..Len(r) :
               \/ i \in 1..Len(s) /\ r[i] = s[i] /\ f[i - 1] = h[i - 1] /\ f[i] = h[i]
               \/ \E j \in 2..Len(q) : r[i] = q[j] /\ f[i - 1] = g[j - 1] /\ f[i] = g[j]
    BY <2>3, Spliced
  <2> HIDE DEF r
  <2>5. ASSUME NEW i \in 1..Len(r) PROVE Turns(f[i - 1], r[i], f[i])
    <3>1. CASE i \in 1..Len(s) /\ r[i] = s[i] /\ f[i - 1] = h[i - 1] /\ f[i] = h[i]
      BY <3>1, <2>2
    <3>2. CASE \E j \in 2..Len(q) : r[i] = q[j] /\ f[i - 1] = g[j - 1] /\ f[i] = g[j]
      BY <3>2, <1>0, <1>1
    <3> QED
      BY <3>1, <3>2, <2>4
  <2>6. Makes(b, r, c)
    BY <1>1, <2>2, <2>4, <2>5 DEF Makes
  <2> QED
    BY <2>6 DEF r
<1> QED
  BY <1>a, <1>b

-------------------------------------------------------------------------------

\* Only brackets change the stack of brackets.
LEMMA ReadsNothing ==
  ASSUME NEW os \in Stacks, NEW k, k \notin BracketKinds
  PROVE  Read(os, k) = os
<1>1. k \notin DOMAIN Closer /\ k \notin {")", "]", "}"}
  BY DEF BracketKinds, Closers
<1>2. os # <<>> => os[1] \in Closers \cup {"?"}
  BY DEF Stacks
<1>3. ~ (os # <<>> /\ k = os[1])
  BY <1>2 DEF BracketKinds
<1> QED
  BY <1>1, <1>3 DEF Read

LEMMA Consed ==
  ASSUME NEW S, NEW e \in S, NEW s \in Seq(S)
  PROVE  LET p == <<e>> \o s IN p \in Seq(S) /\ p # <<>> /\ p[1] = e /\ Tail(p) = s
<1> DEFINE p == <<e>> \o s
<1>1. p \in Seq(S) /\ Len(p) = Len(s) + 1 /\ p[1] = e /\ \A i \in 1..Len(s) : p[i + 1] = s[i]
  OBVIOUS
<1> HIDE DEF p
<1>2. p # <<>> /\ Tail(p) \in Seq(S) /\ Len(Tail(p)) = Len(s) /\ \A i \in 1..Len(s) : Tail(p)[i] = s[i]
  BY <1>1
<1>3. Tail(p) = s
  BY <1>2
<1> QED
  BY <1>1, <1>2, <1>3 DEF p

LEMMA ReadsBrackets ==
  ASSUME NEW os \in Stacks, NEW o \in DOMAIN Closer
  PROVE  /\ Closer[o] \in Closers /\ Closer[o] \notin DOMAIN Closer
         /\ <<Closer[o]>> \o os \in Stacks
         /\ Read(os, o) = <<Closer[o]>> \o os
         /\ Read(<<Closer[o]>> \o os, Closer[o]) = os
<1>1. o \in {"(", "[", "{"}
  BY DEF Closer
<1>2. Closer[o] \in Closers /\ Closer[o] \notin {"(", "[", "{"}
  BY <1>1 DEF Closer, Closers
<1>3. DOMAIN Closer = {"(", "[", "{"}
  BY DEF Closer
<1> HIDE DEF Closer
<1> DEFINE c == Closer[o]
           p == <<c>> \o os
<1>4. p \in Stacks /\ p # <<>> /\ p[1] = c /\ Tail(p) = os
  <2>1. c \in Closers \cup {"?"} /\ os \in Seq(Closers \cup {"?"})
    BY <1>2 DEF Stacks
  <2> HIDE DEF c
  <2> QED
    BY <2>1, Consed DEF Stacks
<1> HIDE DEF c, p
<1>5. Read(os, o) = <<Closer[o]>> \o os
  BY <1>3 DEF Read
<1>6. Read(p, c) = os
  BY <1>2, <1>3, <1>4 DEF Read, c
<1> QED
  BY <1>2, <1>3, <1>4, <1>5, <1>6 DEF p, c

LEMMA ReadsStack ==
  ASSUME NEW os \in Stacks, NEW k
  PROVE  Read(os, k) \in Stacks
<1>1. CASE k \in DOMAIN Closer
  BY <1>1, ReadsBrackets
<1>2. CASE k \notin DOMAIN Closer
  <2>1. <<"?">> \o os \in Stacks /\ (os # <<>> => Tail(os) \in Stacks)
    BY DEF Stacks
  <2> HIDE DEF Stacks
  <2> QED
    BY <1>2, <2>1 DEF Read
<1> QED
  BY <1>1, <1>2

-------------------------------------------------------------------------------

\* Items that expect no bracket, or one that opens before one that closes it, or
\* only one that closes.
Even(items) == \A os \in Stacks : Reads(os, items, os)
Closing(o, items) == \A os \in Stacks : Reads(<<Closer[o]>> \o os, items, os)

LEMMA EvenPlain ==
  ASSUME NEW items \in Seq(Items), \A i \in DOMAIN items : Mark(items[i]) \notin BracketKinds
  PROVE  Even(items)
<1> SUFFICES ASSUME NEW os \in Stacks PROVE Reads(os, items, os)
  BY DEF Even
<1> DEFINE g == [i \in 0..Len(items) |-> os]
<1>1. Len(items) \in Nat /\ DOMAIN items = 1..Len(items)
  OBVIOUS
<1>2. g \in [0..Len(items) -> Stacks] /\ g[0] = os /\ g[Len(items)] = os
  BY <1>1
<1>3. \A i \in 1..Len(items) : g[i] = os /\ g[i - 1] = os
  BY <1>1
<1>4. \A i \in 1..Len(items) : Read(os, Mark(items[i])) = os
  BY <1>1, ReadsNothing
<1> HIDE DEF g
<1> QED
  BY <1>2, <1>3, <1>4 DEF Reads

LEMMA EvenPaired ==
  ASSUME NEW items \in Seq(Items), NEW p \in DOMAIN items, NEW r \in DOMAIN items, p < r,
         NEW o \in DOMAIN Closer, Mark(items[p]) = o, Mark(items[r]) = Closer[o],
         \A i \in DOMAIN items : i \notin {p, r} => Mark(items[i]) \notin BracketKinds
  PROVE  Even(items)
<1> SUFFICES ASSUME NEW os \in Stacks PROVE Reads(os, items, os)
  BY DEF Even
<1> DEFINE in == <<Closer[o]>> \o os
           g == [i \in 0..Len(items) |-> IF p <= i /\ i < r THEN in ELSE os]
<1>1. Len(items) \in Nat /\ DOMAIN items = 1..Len(items)
  OBVIOUS
<1>2. in \in Stacks /\ Read(os, o) = in /\ Read(in, Closer[o]) = os
  BY ReadsBrackets
<1> HIDE DEF in
<1>3. \A i \in 1..Len(items) : i \notin {p, r} =>
        Read(os, Mark(items[i])) = os /\ Read(in, Mark(items[i])) = in
  BY <1>1, <1>2, ReadsNothing
<1>4. g \in [0..Len(items) -> Stacks] /\ g[0] = os /\ g[Len(items)] = os
  BY <1>1, <1>2
<1>5. ASSUME NEW i \in 1..Len(items) PROVE g[i] = Read(g[i - 1], Mark(items[i]))
  <2>0. /\ g[i] = IF p <= i /\ i < r THEN in ELSE os
        /\ g[i - 1] = IF p <= i - 1 /\ i - 1 < r THEN in ELSE os
    BY <1>1
  <2> HIDE DEF g
  <2>1. CASE i = p
    <3>1. g[i] = in /\ g[i - 1] = os
      BY <2>0, <2>1, <1>1
    <3> QED
      BY <2>1, <3>1, <1>2
  <2>2. CASE i = r
    <3>1. g[i] = os /\ g[i - 1] = in
      BY <2>0, <2>2, <1>1
    <3> QED
      BY <2>2, <3>1, <1>2
  <2>3. CASE i \notin {p, r}
    <3>1. g[i] = g[i - 1] /\ g[i] \in {os, in}
      BY <2>0, <2>3, <1>1
    <3> QED
      BY <2>3, <3>1, <1>3
  <2> QED
    BY <2>1, <2>2, <2>3
<1> HIDE DEF g
<1> QED
  BY <1>4, <1>5 DEF Reads

LEMMA ClosingAt ==
  ASSUME NEW items \in Seq(Items), NEW r \in DOMAIN items,
         NEW o \in DOMAIN Closer, Mark(items[r]) = Closer[o],
         \A i \in DOMAIN items : i # r => Mark(items[i]) \notin BracketKinds
  PROVE  Closing(o, items)
<1> SUFFICES ASSUME NEW os \in Stacks PROVE Reads(<<Closer[o]>> \o os, items, os)
  BY DEF Closing
<1> DEFINE in == <<Closer[o]>> \o os
           g == [i \in 0..Len(items) |-> IF i < r THEN in ELSE os]
<1>1. Len(items) \in Nat /\ DOMAIN items = 1..Len(items)
  OBVIOUS
<1>2. in \in Stacks /\ Read(in, Closer[o]) = os
  BY ReadsBrackets
<1> HIDE DEF in
<1>3. \A i \in 1..Len(items) : i # r =>
        Read(os, Mark(items[i])) = os /\ Read(in, Mark(items[i])) = in
  BY <1>1, <1>2, ReadsNothing
<1>4. g \in [0..Len(items) -> Stacks] /\ g[0] = in /\ g[Len(items)] = os
  BY <1>1, <1>2
<1>5. ASSUME NEW i \in 1..Len(items) PROVE g[i] = Read(g[i - 1], Mark(items[i]))
  <2>0. /\ g[i] = IF i < r THEN in ELSE os
        /\ g[i - 1] = IF i - 1 < r THEN in ELSE os
    BY <1>1
  <2> HIDE DEF g
  <2>1. CASE i = r
    <3>1. g[i] = os /\ g[i - 1] = in
      BY <2>0, <2>1, <1>1
    <3> QED
      BY <2>1, <3>1, <1>2
  <2>2. CASE i # r
    <3>1. g[i] = g[i - 1] /\ g[i] \in {os, in}
      BY <2>0, <2>2, <1>1
    <3> QED
      BY <2>2, <3>1, <1>3
  <2> QED
    BY <2>1, <2>2
<1> HIDE DEF g
<1>6. Reads(in, items, os)
  BY <1>4, <1>5 DEF Reads
<1> QED
  BY <1>6 DEF in

\* Items that leave the expressions alone, or read one and give it to a statement.
Level(items) == \A ns \in Heights : Makes(ns, items, ns)

LEMMA LevelPlain ==
  ASSUME NEW ns \in Heights, NEW items \in Seq(Items), \A i \in DOMAIN items : Turns(ns, items[i], ns)
  PROVE  Makes(ns, items, ns)
<1> DEFINE h == [i \in 0..Len(items) |-> ns]
<1>1. Len(items) \in Nat /\ DOMAIN items = 1..Len(items)
  OBVIOUS
<1>2. h \in [0..Len(items) -> Heights] /\ h[0] = ns /\ h[Len(items)] = ns
  BY <1>1
<1>3. \A i \in 1..Len(items) : h[i] = ns /\ h[i - 1] = ns
  BY <1>1
<1> HIDE DEF h
<1> QED
  BY <1>1, <1>2, <1>3 DEF Makes

\* One expression more from some item on.
LEMMA MakesOne ==
  ASSUME NEW ns \in Heights, NEW more \in Heights,
         NEW items \in Seq(Items), NEW e \in DOMAIN items, Turns(ns, items[e], more),
         \A i \in DOMAIN items : /\ i < e => Turns(ns, items[i], ns)
                                 /\ i > e => Turns(more, items[i], more)
  PROVE  Makes(ns, items, more)
<1> DEFINE h == [i \in 0..Len(items) |-> IF i < e THEN ns ELSE more]
<1>1. Len(items) \in Nat /\ DOMAIN items = 1..Len(items)
  OBVIOUS
<1>2. h \in [0..Len(items) -> Heights] /\ h[0] = ns /\ h[Len(items)] = more
  BY <1>1
<1>3. ASSUME NEW i \in 1..Len(items) PROVE Turns(h[i - 1], items[i], h[i])
  <2>1. h[i] = (IF i < e THEN ns ELSE more) /\ h[i - 1] = IF i - 1 < e THEN ns ELSE more
    BY <1>1
  <2> HIDE DEF h
  <2>2. CASE i < e
    BY <2>1, <2>2, <1>1
  <2>3. CASE i = e
    BY <2>1, <2>3, <1>1
  <2>4. CASE i > e
    BY <2>1, <2>4, <1>1
  <2> QED
    BY <2>2, <2>3, <2>4, <1>1
<1> HIDE DEF h
<1> QED
  BY <1>2, <1>3 DEF Makes

LEMMA PrimaryIs == Primary = 11 /\ Primary \in 1..Primary
BY DEF Primary, Levels

LEMMA Begins ==
  ASSUME NEW S, NEW s \in Seq(S), NEW n \in 0..Len(s)
  PROVE  LET b == SubSeq(s, 1, n) IN b \in Seq(S) /\ Len(b) = n /\ \A i \in 1..n : b[i] = s[i]
<1>1. Len(s) \in Nat /\ 1 \in Int /\ n \in Int /\ \A i \in 1..n : s[i] \in S
  OBVIOUS
<1> DEFINE b == SubSeq(s, 1, n)
<1>2. /\ b \in Seq(S) /\ Len(b) = IF 1 <= n THEN n - 1 + 1 ELSE 0
      /\ \A i \in 1..(n - 1 + 1) : b[i] = s[1 + i - 1]
  BY <1>1, SubSeqProperties
<1> HIDE DEF b
<1>3. (n - 1) + 1 = n /\ \A i \in 1..n : 1 + i - 1 = i
  BY <1>1
<1>4. Len(b) = n /\ \A i \in 1..n : b[i] = s[i]
  BY <1>1, <1>2, <1>3
<1> QED
  BY <1>2, <1>4 DEF b

LEMMA Grown ==
  ASSUME NEW ns \in Heights, NEW p \in 1..Primary
  PROVE  LET more == Append(ns, p) IN
         /\ more \in Heights /\ more # <<>> /\ Len(more) = Len(ns) + 1 /\ Len(ns) \in Nat
         /\ more[Len(more)] = p /\ OneLess(more) = ns
         /\ \A i \in 1..Len(ns) : more[i] = ns[i]
<1> DEFINE more == Append(ns, p)
<1>1. /\ more \in Seq(1..Primary) /\ Len(more) = Len(ns) + 1 /\ Len(ns) \in Nat
      /\ more[Len(ns) + 1] = p /\ \A i \in 1..Len(ns) : more[i] = ns[i]
  BY DEF Heights
<1> HIDE DEF more
<1>2. OneLess(more) = ns
  <2>1. Len(more) - 1 = Len(ns) /\ Len(ns) <= Len(more)
    BY <1>1
  <2>2. SubSeq(more, 1, Len(ns)) \in Seq(1..Primary) /\ Len(SubSeq(more, 1, Len(ns))) = Len(ns)
        /\ \A i \in 1..Len(ns) : SubSeq(more, 1, Len(ns))[i] = ns[i]
    <3>1. Len(ns) \in 0..Len(more)
      BY <1>1
    <3> QED
      BY <1>1, <3>1, Begins
  <2>3. SubSeq(more, 1, Len(ns)) = ns
    BY <2>2 DEF Heights
  <2> QED
    BY <2>1, <2>3 DEF OneLess
<1> QED
  BY <1>1, <1>2 DEF more, Heights

LEMMA Shrunk ==
  ASSUME NEW ns \in Heights, ns # <<>>
  PROVE  /\ OneLess(ns) \in Heights /\ Len(OneLess(ns)) = Len(ns) - 1 /\ Len(ns) \in Nat \ {0}
         /\ \A i \in 1..(Len(ns) - 1) : OneLess(ns)[i] = ns[i]
         /\ ns[Len(ns)] \in 1..Primary
<1>1. ns \in Seq(1..Primary) /\ Len(ns) \in Nat \ {0} /\ Len(ns) - 1 \in 0..Len(ns)
  BY DEF Heights
<1> DEFINE n == Len(ns) - 1
<1>2. n \in 0..Len(ns)
  BY <1>1
<1> HIDE DEF n
<1>3. LET b == SubSeq(ns, 1, n) IN b \in Seq(1..Primary) /\ Len(b) = n /\ \A i \in 1..n : b[i] = ns[i]
  BY <1>1, <1>2, Begins
<1>4. ns[Len(ns)] \in 1..Primary
  <2>1. Len(ns) \in 1..Len(ns)
    BY <1>1
  <2> QED
    BY <1>1, <2>1, ElementOfSeq
<1>5. OneLess(ns) = SubSeq(ns, 1, n) /\ n = Len(ns) - 1
  BY DEF OneLess, n
<1> QED
  BY <1>1, <1>3, <1>4, <1>5 DEF Heights

LEMMA MakesDropped ==
  ASSUME NEW ns \in Heights,
         NEW items \in Seq(Items), NEW e \in DOMAIN items, e + 1 \in DOMAIN items,
         items[e] = Prec(1), items[e + 1] = Do("drop"),
         \A i \in DOMAIN items : i \notin {e, e + 1} => Turns(ns, items[i], ns)
  PROVE  Makes(ns, items, ns)
<1> DEFINE more == Append(ns, 1)
           h == [i \in 0..Len(items) |-> IF i = e THEN more ELSE ns]
<1>0. more \in Heights /\ Turns(ns, Prec(1), more) /\ Turns(more, Do("drop"), ns)
  <2>1. 1 \in 1..Primary
    BY PrimaryIs
  <2>2. more \in Heights /\ more # <<>> /\ OneLess(more) = ns
    BY <2>1, Grown
  <2>3. /\ Prec(1).do = "expr_prec" /\ Prec(1).n = 1 /\ Do("drop").do = "drop"
        /\ {"expr_prec", "drop"} \subseteq Valuing
    BY DEF Prec, Do, Item, Valuing
  <2> QED
    BY <2>1, <2>2, <2>3 DEF Turns
<1> HIDE DEF more
<1>1. Len(items) \in Nat /\ DOMAIN items = 1..Len(items)
  OBVIOUS
<1>2. h \in [0..Len(items) -> Heights] /\ h[0] = ns /\ h[Len(items)] = ns
  BY <1>0, <1>1
<1>3. ASSUME NEW i \in 1..Len(items) PROVE Turns(h[i - 1], items[i], h[i])
  <2>1. h[i] = (IF i = e THEN more ELSE ns) /\ h[i - 1] = IF i - 1 = e THEN more ELSE ns
    BY <1>1
  <2> HIDE DEF h
  <2>2. CASE i = e
    <3>1. h[i] = more /\ h[i - 1] = ns
      BY <2>1, <2>2, <1>1
    <3> QED
      BY <3>1, <2>2, <1>0
  <2>3. CASE i = e + 1
    <3>1. h[i] = ns /\ h[i - 1] = more
      BY <2>1, <2>3, <1>1
    <3> QED
      BY <3>1, <2>3, <1>0
  <2>4. CASE i \notin {e, e + 1}
    <3>1. h[i] = ns /\ h[i - 1] = ns
      BY <2>1, <2>4, <1>1
    <3> QED
      BY <3>1, <2>4, <1>1
  <2> QED
    BY <2>2, <2>3, <2>4
<1> HIDE DEF h
<1> QED
  BY <1>2, <1>3 DEF Makes

\* Parentheses: the expression between them counts as a whole.
LEMMA MakesGroup ==
  ASSUME NEW ns \in Heights
  PROVE  Makes(ns, <<Prec(1), Tok(")"), Do("group")>>, Append(ns, Primary))
<1> DEFINE items == <<Prec(1), Tok(")"), Do("group")>>
           more == Append(ns, 1)
           all == Append(ns, Primary)
           h == [i \in 0..3 |-> IF i = 0 THEN ns ELSE IF i = 3 THEN all ELSE more]
<1>1. 1 \in 1..Primary /\ Primary \in 1..Primary
  BY PrimaryIs
<1>2. more \in Heights /\ more # <<>> /\ OneLess(more) = ns /\ all \in Heights
  BY <1>1, Grown
<1>3. Turns(ns, Prec(1), more) /\ Turns(more, Tok(")"), more) /\ Turns(more, Do("group"), all)
  <2> HIDE DEF more
  <2>1. /\ Prec(1).do = "expr_prec" /\ Prec(1).n = 1 /\ Do("group").do = "group" /\ Tok(")").do = "expect"
        /\ {"expr_prec", "group"} \subseteq Valuing /\ "expect" \notin Valuing
    BY DEF Prec, Do, Tok, Item, Valuing
  <2>2. Turns(ns, Prec(1), more)
    BY <1>1, <2>1 DEF Turns, more
  <2>3. Turns(more, Tok(")"), more)
    BY <2>1 DEF Turns, Valuing
  <2>4. Turns(more, Do("group"), all)
    BY <1>2, <2>1 DEF Turns
  <2> QED
    BY <2>2, <2>3, <2>4
<1> HIDE DEF more, all
<1>4. h \in [0..3 -> Heights] /\ h[0] = ns /\ h[1] = more /\ h[2] = more /\ h[3] = all
  BY <1>2
<1>5. Len(items) = 3 /\ items[1] = Prec(1) /\ items[2] = Tok(")") /\ items[3] = Do("group")
  OBVIOUS
<1> HIDE DEF h, items
<1>6. Makes(ns, items, all)
  <2>1. ASSUME NEW i \in 1..3 PROVE Turns(h[i - 1], items[i], h[i])
    <3>1. (i = 1 /\ i - 1 = 0) \/ (i = 2 /\ i - 1 = 1) \/ (i = 3 /\ i - 1 = 2)
      OBVIOUS
    <3> QED
      BY <3>1, <1>3, <1>4, <1>5
  <2> QED
    BY <1>4, <1>5, <2>1 DEF Makes
<1> QED
  BY <1>6 DEF items, all

\* An operand, and the operators that bind as tightly as asked.
LEMMA MakesClimbed ==
  ASSUME NEW ns \in Heights, NEW n \in 1..Primary
  PROVE  Makes(ns, <<Do("primary"), Item("climb", "", n)>>, Append(ns, n))
<1> DEFINE items == <<Do("primary"), Item("climb", "", n)>>
           full == Append(ns, Primary)
           more == Append(ns, n)
           h == [i \in 0..2 |-> IF i = 0 THEN ns ELSE IF i = 1 THEN full ELSE more]
<1>1. Primary \in 1..Primary /\ Primary >= n
  BY PrimaryIs
<1>2. full \in Heights /\ Ends(full, n) /\ OneLess(full) = ns /\ more \in Heights
  BY <1>1, Grown DEF Ends
<1>3. Turns(ns, Do("primary"), full)
  BY DEF Do, Item, Turns, Valuing
<1>4. Turns(full, Item("climb", "", n), more)
  <2> HIDE DEF full
  <2>1. Item("climb", "", n).do = "climb" /\ Item("climb", "", n).n = n /\ "climb" \in Valuing
    BY DEF Item, Valuing
  <2> QED
    BY <1>2, <2>1 DEF Turns
<1> HIDE DEF full, more
<1>5. h \in [0..2 -> Heights] /\ h[0] = ns /\ h[1] = full /\ h[2] = more
  BY <1>2
<1>6. Len(items) = 2 /\ items[1] = Do("primary") /\ items[2] = Item("climb", "", n)
  OBVIOUS
<1> HIDE DEF h, items
<1>7. Makes(ns, items, more)
  <2>1. ASSUME NEW i \in 1..2 PROVE Turns(h[i - 1], items[i], h[i])
    <3>1. (i = 1 /\ i - 1 = 0) \/ (i = 2 /\ i - 1 = 1)
      OBVIOUS
    <3> QED
      BY <3>1, <1>3, <1>4, <1>5, <1>6
  <2> QED
    BY <1>5, <1>6, <2>1 DEF Makes
<1> QED
  BY <1>7 DEF items, more

\* One operator more, with what stands on its right.
LEMMA MakesBinary ==
  ASSUME NEW ns \in Heights, NEW prec \in 1..10, Ends(ns, prec), NEW k,
         NEW top, top.do = "climb", top.n \in 1..Primary, top.n <= prec
  PROVE  Makes(ns, <<Prec(prec + 1), Item("bin", k, prec), top>>, Append(OneLess(ns), top.n))
<1> DEFINE bin == Item("bin", k, prec)
           items == <<Prec(prec + 1), bin, top>>
           both == Append(ns, prec + 1)
           one == Append(OneLess(ns), prec)
           last == Append(OneLess(ns), top.n)
           h == [i \in 0..3 |-> IF i = 0 THEN ns ELSE IF i = 1 THEN both ELSE IF i = 2 THEN one ELSE last]
<1>1. /\ prec \in 1..Primary /\ prec + 1 \in 1..Primary
      /\ ns # <<>> /\ ns[Len(ns)] >= prec /\ OneLess(ns) \in Heights /\ Len(ns) \in Nat \ {0}
  BY PrimaryIs, Shrunk DEF Ends
<1>2. /\ both \in Heights /\ Len(both) = Len(ns) + 1 /\ both[Len(both)] = prec + 1
      /\ \A i \in 1..Len(ns) : both[i] = ns[i]
  BY <1>1, Grown
<1>3. one \in Heights /\ Ends(one, prec) /\ OneLess(one) = OneLess(ns)
  <2>1. one \in Heights /\ one # <<>> /\ one[Len(one)] = prec /\ OneLess(one) = OneLess(ns)
    BY <1>1, Grown
  <2> HIDE DEF one
  <2> QED
    BY <2>1 DEF Ends
<1>4. last \in Heights
  BY <1>1, Grown
<1>5. SubSeq(both, 1, Len(both) - 2) = OneLess(ns)
  <2> HIDE DEF both
  <2> DEFINE n == Len(ns) - 1
             b == SubSeq(both, 1, n)
  <2>1. n \in 0..Len(both) /\ n \in 0..Len(ns) /\ Len(both) - 2 = n
    BY <1>1, <1>2
  <2> HIDE DEF n
  <2>2. b \in Seq(1..Primary) /\ Len(b) = n /\ \A i \in 1..n : b[i] = both[i]
    BY <1>2, <2>1, Begins DEF Heights
  <2>3. /\ OneLess(ns) \in Seq(1..Primary) /\ Len(OneLess(ns)) = n
        /\ \A i \in 1..n : OneLess(ns)[i] = ns[i]
    BY <1>1, Shrunk DEF n, Heights
  <2>4. \A i \in 1..n : i \in 1..Len(ns)
    BY <1>1, <2>1
  <2>5. b = OneLess(ns)
    BY <1>2, <2>2, <2>3, <2>4, SeqEqual
  <2> QED
    BY <2>1, <2>5
<1>6. Turns(ns, Prec(prec + 1), both)
  BY <1>1 DEF Prec, Item, Turns, Valuing
<1>7. Turns(both, bin, one)
  <2> HIDE DEF both
  <2>1. bin.do = "bin" /\ bin.n = prec /\ "bin" \in Valuing
    BY DEF Item, Valuing
  <2>2. Len(both) >= 2 /\ Len(both) - 1 = Len(ns) /\ Len(ns) \in 1..Len(ns)
    BY <1>1, <1>2
  <2>3. both[Len(both) - 1] >= prec /\ both[Len(both)] > prec
    BY <1>1, <1>2, <2>2
  <2> HIDE DEF bin
  <2> QED
    BY <1>1, <1>5, <2>1, <2>2, <2>3 DEF Turns
<1>8. Turns(one, top, last)
  <2> HIDE DEF one
  <2>1. one # <<>> /\ one[Len(one)] >= prec /\ one[Len(one)] \in 1..Primary
    BY <1>3, Shrunk DEF Ends
  <2>2. Ends(one, top.n)
    BY <2>1, PrimaryIs DEF Ends
  <2> QED
    BY <1>3, <2>2 DEF Turns, Valuing
<1> HIDE DEF both, one, last, bin
<1>9. h \in [0..3 -> Heights] /\ h[0] = ns /\ h[1] = both /\ h[2] = one /\ h[3] = last
  BY <1>2, <1>3, <1>4
<1>10. Len(items) = 3 /\ items[1] = Prec(prec + 1) /\ items[2] = bin /\ items[3] = top
  OBVIOUS
<1> HIDE DEF h, items
<1>11. Makes(ns, items, last)
  <2>1. ASSUME NEW i \in 1..3 PROVE Turns(h[i - 1], items[i], h[i])
    <3>1. (i = 1 /\ i - 1 = 0) \/ (i = 2 /\ i - 1 = 1) \/ (i = 3 /\ i - 1 = 2)
      OBVIOUS
    <3> QED
      BY <3>1, <1>6, <1>7, <1>8, <1>9, <1>10
  <2> QED
    BY <1>9, <1>10, <2>1 DEF Makes
<1> QED
  BY <1>11 DEF items, last, bin

-------------------------------------------------------------------------------

\* What may come right before an operator is joined, and before more are looked for.
Follows(a, b) ==
  /\ b.do = "climb" => a.do \in {"primary", "atom", "postfix", "group", "bin"}
  /\ b.do = "bin" => a.do \in {"expr_prec", "climb"} /\ a.n = b.n + 1

Ordered(items) ==
  /\ \A i \in DOMAIN items : items[i].do = "program" <=> i = Len(items)
  /\ \A i \in 2..Len(items) : items[i].do \notin Sure /\ Follows(items[i - 1], items[i])

\* A list that may take the place of an item.
Fits(top, items) ==
  /\ items \in Seq(Items)
  /\ \A i \in DOMAIN items : items[i].do = "program" <=> (top.do = "program" /\ i = Len(items))
  /\ \A i \in 2..Len(items) : items[i].do \notin Sure /\ Follows(items[i - 1], items[i])
  /\ items # <<>> => /\ items[1].do \notin {"climb", "bin"}
                     /\ \A b : Follows(top, b) => Follows(items[Len(items)], b)

LEMMA FitsKeepsOrder ==
  ASSUME NEW q \in Seq(Items), q # <<>>, Ordered(q), NEW s, Fits(q[1], s)
  PROVE  LET r == s \o Tail(q) IN
         /\ r \in Seq(Items) /\ Ordered(r)
         /\ s = <<>> => (r # <<>> => r[1] = q[2] /\ 2 \in 2..Len(q))
         /\ s # <<>> => r # <<>> /\ r[1] = s[1]
         /\ r = <<>> => s = <<>> /\ q[1].do = "program"
<1> DEFINE r == s \o Tail(q)
<1>1. /\ s \in Seq(Items) /\ Len(s) \in Nat /\ DOMAIN s = 1..Len(s)
      /\ Len(q) \in Nat \ {0} /\ DOMAIN q = 1..Len(q)
      /\ Tail(q) \in Seq(Items) /\ Len(Tail(q)) = Len(q) - 1
      /\ \A j \in 1..(Len(q) - 1) : Tail(q)[j] = q[j + 1]
  BY DEF Fits
<1>2. /\ r \in Seq(Items) /\ Len(r) = Len(s) + Len(q) - 1 /\ DOMAIN r = 1..Len(r)
      /\ \A i \in 1..Len(s) : r[i] = s[i]
      /\ \A i \in (Len(s) + 1)..Len(r) : r[i] = Tail(q)[i - Len(s)]
  BY <1>1
<1>3. \A i \in (Len(s) + 1)..Len(r) : r[i] = q[i - Len(s) + 1] /\ i - Len(s) + 1 \in 2..Len(q)
  BY <1>1, <1>2
<1> HIDE DEF r
<1>4. (s = <<>> <=> Len(s) = 0) /\ (r = <<>> <=> Len(r) = 0)
  BY <1>1, <1>2
<1>5. Len(q) = 1 <=> q[1].do = "program"
  BY <1>1 DEF Ordered
<1>6. ASSUME NEW i \in DOMAIN r PROVE r[i].do = "program" <=> i = Len(r)
  <2>1. CASE i <= Len(s)
    <3>1. i \in DOMAIN s /\ r[i] = s[i]
      BY <1>1, <1>2, <2>1
    <3>2. s[i].do = "program" <=> (q[1].do = "program" /\ i = Len(s))
      BY <3>1 DEF Fits
    <3>3. i = Len(r) <=> (Len(q) = 1 /\ i = Len(s))
      <4>1. /\ i \in Int /\ Len(s) \in Int /\ Len(q) \in Int /\ Len(r) \in Int
            /\ Len(q) >= 1 /\ Len(r) = Len(s) + Len(q) - 1
        BY <1>1, <1>2
      <4>a. \A a, b, c \in Int : c >= 1 /\ c # 1 /\ a = b + c - 1 => a > b
        OBVIOUS
      <4>2. CASE Len(q) = 1
        <5>1. Len(r) = Len(s)
          BY <4>1, <4>2
        <5> QED
          BY <4>2, <5>1
      <4>3. CASE Len(q) # 1
        <5>1. Len(r) > Len(s)
          BY ONLY <4>1, <4>3, <4>a
        <5>2. i # Len(r)
          BY <2>1, <4>1, <5>1
        <5> QED
          BY <4>3, <5>2
      <4> QED
        BY <4>2, <4>3
    <3> QED
      BY <1>5, <3>1, <3>2, <3>3
  <2>2. CASE i > Len(s)
    <3> DEFINE j == i - Len(s) + 1
    <3>1. i \in (Len(s) + 1)..Len(r)
      BY <1>1, <1>2, <2>2
    <3>2. r[i] = q[j] /\ j \in DOMAIN q
      BY <1>1, <1>3, <3>1
    <3>3. i = Len(r) <=> j = Len(q)
      BY <1>1, <1>2, <3>1
    <3> HIDE DEF j
    <3> QED
      BY <3>2, <3>3 DEF Ordered
  <2> QED
    BY <2>1, <2>2, <1>1, <1>2
<1>7. ASSUME NEW i \in 2..Len(r) PROVE r[i].do \notin Sure /\ Follows(r[i - 1], r[i])
  <2>1. CASE i <= Len(s)
    <3>1. i \in 2..Len(s) /\ r[i] = s[i] /\ r[i - 1] = s[i - 1]
      BY <1>1, <1>2, <2>1
    <3> QED
      BY <3>1 DEF Fits
  <2>2. CASE i > Len(s)
    <3> DEFINE j == i - Len(s) + 1
    <3>1. i \in (Len(s) + 1)..Len(r)
      BY <1>1, <1>2, <2>2
    <3>2. r[i] = q[j] /\ j \in 2..Len(q)
      BY <1>3, <3>1
    <3>3. q[j].do \notin Sure /\ Follows(q[j - 1], q[j])
      BY <3>2 DEF Ordered
    <3>4. CASE i = Len(s) + 1
      <4>1. i - 1 \in 1..Len(s) /\ i - 1 = Len(s) /\ j = 2 /\ j - 1 = 1
        BY <3>4, <1>1
      <4>2. r[i - 1] = s[Len(s)] /\ s # <<>>
        BY <4>1, <1>2, <1>4
      <4>3. Follows(q[1], q[j])
        BY <3>3, <4>1
      <4> HIDE DEF j
      <4>4. Follows(s[Len(s)], q[j])
        BY <4>2, <4>3 DEF Fits
      <4> QED
        BY <3>2, <3>3, <4>2, <4>4
    <3>5. CASE i # Len(s) + 1
      <4>1. i - 1 \in (Len(s) + 1)..Len(r) /\ (i - 1) - Len(s) + 1 = j - 1
        BY <3>1, <3>5, <1>1, <1>2
      <4>2. r[i - 1] = q[j - 1]
        BY <4>1, <1>3
      <4> QED
        BY <3>2, <3>3, <4>2
    <3> QED
      BY <3>4, <3>5
  <2> QED
    BY <2>1, <2>2, <1>1, <1>2
<1>8. Ordered(r)
  BY <1>6, <1>7 DEF Ordered
<1>9. ASSUME s = <<>>, r # <<>> PROVE r[1] = q[2] /\ 2 \in 2..Len(q)
  <2>1. 1 \in (Len(s) + 1)..Len(r) /\ 1 - Len(s) + 1 = 2
    BY <1>1, <1>2, <1>4, <1>9
  <2> QED
    BY <2>1, <1>3
<1>10. ASSUME s # <<>> PROVE r # <<>> /\ r[1] = s[1]
  BY <1>1, <1>2, <1>4, <1>10
<1>11. ASSUME r = <<>> PROVE s = <<>> /\ q[1].do = "program"
  BY <1>1, <1>2, <1>4, <1>5, <1>11
<1> QED
  BY <1>2, <1>8, <1>9, <1>10, <1>11 DEF r

-------------------------------------------------------------------------------

\* Types; a bad character is never met without a report, and the end of the text
\* is only met at its end (lexer.c:470-474).
TypeInv ==
  /\ todo \in Seq(Items) /\ opened \in Stacks /\ nodes \in Heights
  /\ current \in TokenKinds \cup {None, "EOF"} /\ fuel \in Nat /\ errors \in BOOLEAN
  /\ current = "EOF" => fuel = 0
  /\ current = "bad" => errors

\* The operators seen so far bind at least as tightly as the one that comes next.
Settled == Ends(nodes, IF Peeked THEN binop_precedence(Kind) ELSE Primary)

\* What the procedure that is next relies on: the keyword it begins with is in the
\* buffer, an operator is joined only when the next one binds less tightly.
BegunInv ==
  todo # <<>> =>
    /\ Top.do \in Sure => Peeked /\ Kind = Top.do
    /\ Top.do = "bin" => Peeked /\ binop_precedence(Kind) <= Top.n
    /\ Top.do = "climb" => Settled

BracketInv == ~errors => Reads(opened, todo, <<>>)

\* What is known of the expressions at hand is what the pending items ask of them.
Below(ms, ns) == Len(ms) = Len(ns) /\ \A i \in 1..Len(ns) : ms[i] <= ns[i]
TreeInv == \E ms \in Heights : Below(ms, nodes) /\ Makes(ms, todo, <<>>)

EndInv == todo = <<>> /\ ~errors => current = "EOF"

IInv == TypeInv /\ Ordered(todo) /\ BegunInv /\ BracketInv /\ TreeInv /\ EndInv

\* A procedure that starts, reads a token or returns: items take the place of the first.
LEMMA MovesOn ==
  ASSUME IInv, todo # <<>>, NEW items, Fits(Top, items), todo' = items \o Rest,
         opened' \in Stacks, nodes' \in Heights,
         current' \in TokenKinds \cup {None, "EOF"}, fuel' \in Nat, errors' \in BOOLEAN,
         current' = "EOF" => fuel' = 0, current' = "bad" => errors',
         ~errors' => ~errors /\ Reads(opened', items, Read(opened, Mark(Top))),
         \A ms, m \in Heights : Below(ms, nodes) /\ Turns(ms, Top, m) =>
           \E ns \in Heights : Below(ns, nodes') /\ Makes(ns, items, m),
         items # <<>> /\ items[1].do \in Sure => Peeked' /\ Kind' = items[1].do,
         items = <<>> /\ Top.do \in {"primary", "atom", "postfix", "group", "bin"} => Settled',
         items = <<>> /\ Top.do \in {"expr_prec", "climb"} => Peeked' /\ binop_precedence(Kind') < Top.n,
         items = <<>> /\ Top.do = "program" /\ ~errors' => current' = "EOF",
         \A k : binop_precedence(k) \in Int
  PROVE  IInv'
<1>0. /\ todo \in Seq(Items) /\ Ordered(todo) /\ opened \in Stacks /\ nodes \in Heights
      /\ items \in Seq(Items)
  BY DEF IInv, TypeInv, Fits
<1>1. /\ todo' \in Seq(Items) /\ Ordered(todo')
      /\ items = <<>> => (todo' # <<>> => todo'[1] = todo[2] /\ 2 \in 2..Len(todo))
      /\ items # <<>> => todo' # <<>> /\ todo'[1] = items[1]
      /\ todo' = <<>> => items = <<>> /\ Top.do = "program"
  <2>1. Fits(todo[1], items) /\ todo' = items \o Tail(todo)
    BY DEF Top, Rest
  <2> QED
    BY <1>0, <2>1, FitsKeepsOrder DEF Top
<1>2. TypeInv'
  BY <1>1 DEF TypeInv
<1>3. BegunInv'
  <2> SUFFICES ASSUME todo' # <<>>
               PROVE  /\ todo'[1].do \in Sure => Peeked' /\ Kind' = todo'[1].do
                      /\ todo'[1].do = "bin" => Peeked' /\ binop_precedence(Kind') <= todo'[1].n
                      /\ todo'[1].do = "climb" => Settled'
    BY DEF BegunInv, Top
  <2>1. CASE items # <<>>
    BY <2>1, <1>1 DEF Fits, Sure
  <2>2. CASE items = <<>>
    <3>1. /\ todo'[1] = todo[2] /\ todo[2].do \notin Sure /\ Follows(Top, todo[2])
          /\ todo[2] \in Items /\ Top \in Items
      <4>1. 2 \in 2..Len(todo) /\ todo'[1] = todo[2]
        BY <1>1, <2>2
      <4>2. todo[2].do \notin Sure /\ Follows(todo[2 - 1], todo[2]) /\ 2 - 1 = 1
        BY <4>1, <1>0 DEF Ordered
      <4> QED
        BY <4>1, <4>2, <1>0 DEF Top
    <3>2. CASE todo[2].do = "bin"
      <4>1. Top.do \in {"expr_prec", "climb"} /\ Top.n = todo[2].n + 1
        BY <3>1, <3>2 DEF Follows
      <4>2. Peeked' /\ binop_precedence(Kind') < Top.n
        BY <4>1, <2>2
      <4>3. todo[2].n \in Nat /\ binop_precedence(Kind') \in Int
        BY <3>1 DEF Items
      <4>4. binop_precedence(Kind') <= todo[2].n
        BY <4>1, <4>2, <4>3
      <4> QED
        BY <3>1, <3>2, <4>2, <4>4
    <3>3. CASE todo[2].do = "climb"
      <4>1. Top.do \in {"primary", "atom", "postfix", "group", "bin"}
        BY <3>1, <3>3 DEF Follows
      <4> QED
        BY <3>1, <3>3, <4>1, <2>2
    <3> QED
      BY <3>1, <3>2, <3>3
  <2> QED
    BY <2>1, <2>2
<1>4. BracketInv'
  <2>1. ASSUME ~errors' PROVE Reads(opened', items \o Tail(todo), <<>>)
    <3>1. Reads(opened, todo, <<>>) /\ Reads(opened', items, Read(opened, Mark(todo[1])))
      BY <2>1 DEF IInv, BracketInv, Top
    <3> QED
      BY <1>0, <3>1, ReadsSpliced
  <2> QED
    BY <2>1 DEF BracketInv, Rest
<1>5. TreeInv'
  <2>1. PICK ms \in Heights : Below(ms, nodes) /\ Makes(ms, todo, <<>>)
    BY DEF IInv, TreeInv
  <2>2. PICK m \in Heights :
          /\ Turns(ms, todo[1], m)
          /\ \A s \in Seq(Items) : \A b : Makes(b, s, m) => Makes(b, s \o Tail(todo), <<>>)
    BY <1>0, <2>1, MakesSpliced
  <2>3. PICK ns \in Heights : Below(ns, nodes') /\ Makes(ns, items, m)
    BY <2>1, <2>2 DEF Top
  <2>4. Makes(ns, todo', <<>>)
    BY <1>0, <2>2, <2>3 DEF Rest
  <2> QED
    BY <2>3, <2>4 DEF TreeInv
<1>6. EndInv'
  BY <1>1 DEF EndInv
<1> QED
  BY <1>1, <1>2, <1>3, <1>4, <1>5, <1>6 DEF IInv

-------------------------------------------------------------------------------

\* A non-empty set of numbers up to n has a greatest element.
LEMMA MaxIsGreatest ==
  ASSUME NEW n \in Nat, NEW S \in SUBSET (0..n), S # {}
  PROVE  Max(S) \in S /\ \A k \in S : k <= Max(S)
<1> DEFINE T == {n - k : k \in S}
           R == {ss \in Nat \X Nat : ss[1] < ss[2]}
<1>0. \A k \in S : k \in 0..n /\ n - k \in Nat
  OBVIOUS
<1>1. T \subseteq Nat /\ T # {}
  BY <1>0
<1>2. IsWellFoundedOn(R, Nat)
  BY NatLessThanWellFounded DEF OpToRel
<1>3. \E x \in T : \A y \in T : ~ (<<y, x>> \in R)
  <2> HIDE DEF R, T
  <2> QED
    BY <1>1, <1>2, WFMin
<1>4. PICK x \in T : \A y \in T : x <= y
  <2>1. PICK x \in T : \A y \in T : ~ (<<y, x>> \in R)
    BY <1>3
  <2>2. ASSUME NEW y \in T PROVE x <= y
    <3>1. x \in Nat /\ y \in Nat
      BY <1>1
    <3>2. ~ (y < x)
      BY <2>1, <3>1
    <3> QED
      BY <3>1, <3>2
  <2> QED
    BY <2>2
<1>5. PICK m \in S : x = n - m
  OBVIOUS
<1>6. \A k \in S : n - k \in T
  OBVIOUS
<1>7. \A k \in S : m >= k
  BY <1>0, <1>4, <1>5, <1>6
<1> QED
  BY <1>0, <1>7 DEF Max

LEMMA PrecedenceBounded ==
  ASSUME NEW k
  PROVE  binop_precedence(k) \in 0..10
<1> DEFINE S == {0} \cup {i \in DOMAIN Levels : k \in Levels[i]}
<1>1. DOMAIN Levels \subseteq 0..10
  BY DEF Levels
<1>2. S \in SUBSET (0..10) /\ S # {} /\ 10 \in Nat
  BY <1>1
<1> HIDE DEF S
<1>3. Max(S) \in 0..10
  BY <1>2, MaxIsGreatest
<1> QED
  BY <1>3 DEF binop_precedence, S

LEMMA TokensAre == TokenKinds \cap {"EOF", "none", "?"} = {}
<1>1. Binary \cap {"EOF", "none", "?"} = {}
  <2>1. ASSUME NEW k \in Binary PROVE k \notin {"EOF", "none", "?"}
    <3>1. PICK i \in DOMAIN Levels : k \in Levels[i]
      BY DEF Binary
    <3>2. i \in 1..10
      BY DEF Levels
    <3>3. \/ i = 1 \/ i = 2 \/ i = 3 \/ i = 4 \/ i = 5 \/ i = 6 \/ i = 7 \/ i = 8 \/ i = 9 \/ i = 10
      BY <3>2
    <3>4. CASE i = 1 \/ i = 2 \/ i = 3 \/ i = 4 \/ i = 5
      BY <3>1, <3>4 DEF Levels
    <3>5. CASE i = 6 \/ i = 7 \/ i = 8 \/ i = 9 \/ i = 10
      BY <3>1, <3>5 DEF Levels
    <3> QED
      BY <3>3, <3>4, <3>5
  <2> QED
    BY <2>1
<1>2. (Unary \cup Assigning) \cap {"EOF", "none", "?"} = {}
  BY DEF Unary, Assigning
<1> QED
  BY <1>1, <1>2 DEF TokenKinds

LEMMA InitHolds == Init => IInv
<1> SUFFICES ASSUME Init PROVE IInv
  OBVIOUS
<1>1. /\ todo = <<Do("program")>> /\ nodes = <<>> /\ opened = <<>> /\ current = None
      /\ fuel = Fuel /\ errors = FALSE
  BY DEF Init
<1>2. /\ Do("program") \in Items /\ Do("program").do = "program"
      /\ Mark(Do("program")) = "" /\ "program" \notin Valuing
  BY DEF Do, Item, Items, Acts, Mark, Valuing
<1>3. /\ Len(todo) = 1 /\ todo[1] = Do("program") /\ todo # <<>> /\ todo \in Seq(Items)
      /\ \A i \in DOMAIN todo : i = 1 /\ todo[i] = Do("program")
      /\ \A i \in 2..Len(todo) : FALSE
  <2> DEFINE d == Do("program")
  <2> HIDE DEF d
  <2>1. todo = <<d>> /\ d \in Items
    BY <1>1, <1>2 DEF d
  <2>2. Len(todo) = 1 /\ todo[1] = d /\ todo # <<>> /\ todo \in Seq(Items)
    BY <2>1
  <2>3. \A i \in DOMAIN todo : i = 1
    BY <2>1
  <2>4. \A i \in 2..1 : FALSE
    OBVIOUS
  <2> QED
    BY <2>2, <2>3, <2>4 DEF d
<1>4. <<>> \in Stacks /\ <<>> \in Heights
  BY DEF Stacks, Heights
<1>5. TypeInv
  BY <1>1, <1>3, <1>4, ParserAssumption DEF TypeInv, None
<1>6. Ordered(todo)
  BY <1>2, <1>3 DEF Ordered
<1>7. BegunInv
  BY <1>2, <1>3 DEF BegunInv, Top, Sure
<1>8. BracketInv
  <2>1. Even(todo)
    BY <1>2, <1>3, EvenPlain DEF BracketKinds, Closers, Closer
  <2> QED
    BY <1>1, <1>4, <2>1 DEF BracketInv, Even
<1>9. TreeInv
  <2>1. \A i \in DOMAIN todo : Turns(<<>>, todo[i], <<>>)
    BY <1>2, <1>3 DEF Turns, Valuing
  <2>2. Makes(<<>>, todo, <<>>)
    BY <1>3, <1>4, <2>1, LevelPlain
  <2>3. Below(<<>>, nodes)
    BY <1>1 DEF Below
  <2> QED
    BY <1>4, <2>2, <2>3 DEF TreeInv
<1> QED
  BY <1>3, <1>5, <1>6, <1>7, <1>8, <1>9 DEF IInv, EndInv

\* A token is read ahead: all it may change is what was settled.
LEMMA ScanKeeps ==
  ASSUME TypeInv, Scan, opened \in Stacks, NEW os \in Stacks, Brackets(os)
  PROVE  /\ current' \in TokenKinds \cup {"EOF"} /\ fuel' \in Nat /\ errors' \in BOOLEAN
         /\ current' = "EOF" => fuel' = 0
         /\ current' = "bad" => errors'
         /\ opened' \in Stacks /\ (~errors' => ~errors /\ opened' = os)
<1>1. opened' \in Stacks /\ (~errors' => opened' = os)
  BY DEF Brackets, Stacks
<1>2. CASE current' = "EOF" /\ Noted(0, FALSE)
  BY <1>1, <1>2 DEF Noted, TypeInv
<1>3. CASE \E k \in Kinds : Cost[k] <= fuel /\ current' = k /\ Noted(fuel - Cost[k], k = "bad")
  <2>1. PICK k \in Kinds : Cost[k] <= fuel /\ current' = k /\ Noted(fuel - Cost[k], k = "bad")
    BY <1>3
  <2>2. /\ k \in TokenKinds /\ k # "EOF" /\ Cost[k] \in Nat \ {0} /\ After \in Nat
        /\ fuel \in Nat /\ errors \in BOOLEAN
    BY ParserAssumption, TokensAre DEF TypeInv
  <2>3. fuel - Cost[k] \in Nat
    BY <2>1, <2>2
  <2> QED
    BY <1>1, <2>1, <2>2, <2>3 DEF Noted
<1> QED
  BY <1>2, <1>3 DEF Scan

LEMMA PeekKeeps ==
  ASSUME IInv, lexer_peek
  PROVE  IInv'
<1>1. /\ todo # <<>> /\ Top.do \notin Blind /\ ~Peeked /\ Scan /\ Brackets(opened)
      /\ UNCHANGED <<todo, nodes>>
  BY DEF lexer_peek
<1>2. /\ current' \in TokenKinds \cup {"EOF"} /\ fuel' \in Nat /\ errors' \in BOOLEAN
      /\ current' = "EOF" => fuel' = 0
      /\ current' = "bad" => errors'
      /\ opened' \in Stacks /\ (~errors' => ~errors /\ opened' = opened)
  BY <1>1, ScanKeeps DEF IInv, TypeInv
<1>3. TypeInv'
  BY <1>1, <1>2 DEF IInv, TypeInv
<1>4. Ordered(todo)' /\ TreeInv' /\ EndInv'
  BY <1>1 DEF IInv, TreeInv, EndInv
<1>5. BracketInv'
  BY <1>1, <1>2 DEF IInv, BracketInv
<1>6. BegunInv'
  <2>1. Top.do \notin Sure /\ Top.do # "bin" /\ Top' = Top
    BY <1>1 DEF Blind, Top
  <2>2. ASSUME Top.do = "climb" PROVE Settled'
    <3>1. Ends(nodes, Primary)
      BY <1>1, <2>2 DEF IInv, BegunInv, Settled
    <3>2. nodes # <<>> /\ nodes[Len(nodes)] \in 1..Primary /\ nodes[Len(nodes)] >= 11
      BY <3>1, PrimaryIs, Shrunk DEF IInv, TypeInv, Ends
    <3>3. binop_precedence(Kind') \in 0..10
      BY PrecedenceBounded
    <3>4. nodes' = nodes /\ nodes[Len(nodes)] >= binop_precedence(Kind') /\ nodes[Len(nodes)] >= Primary
      BY <1>1, <3>2, <3>3, PrimaryIs
    <3> QED
      BY <3>2, <3>4 DEF Settled, Ends
  <2> QED
    BY <2>1, <2>2 DEF BegunInv
<1> QED
  BY <1>3, <1>4, <1>5, <1>6 DEF IInv

-------------------------------------------------------------------------------

\* The tokens the stack of brackets depends on are the ones the parser sees.
LEMMA BracketsSeen ==
  ASSUME TypeInv
  PROVE  /\ Kind \notin BracketKinds => current \notin BracketKinds
         /\ Kind \in DOMAIN Closer \cup Closers => current = Kind
         /\ Kind # "EOF" => Kind \in TokenKinds \cup {None}
         /\ Kind = "EOF" /\ ~errors => current = "EOF"
<1>1. BracketKinds = {"(", "[", "{", ")", "]", "}", "?"} /\ DOMAIN Closer \cup Closers = BracketKinds \ {"?"}
  BY DEF BracketKinds, Closer, Closers
<1>2. current # "?"
  BY TokensAre DEF TypeInv, None
<1>3. "ident" \in TokenKinds
  BY DEF TokenKinds
<1> QED
  BY <1>1, <1>2, <1>3 DEF TypeInv, Kind, None

\* Consuming a token that was peeked.
LEMMA Consumed ==
  ASSUME TypeInv, Peeked, NEW items, Take(items)
  PROVE  /\ todo' = items \o Rest /\ current' = None /\ fuel' \in Nat /\ errors' = errors
         /\ opened' \in Stacks /\ (~errors => opened' = Read(opened, current))
<1>1. /\ todo' = items \o Rest /\ current' = None /\ Noted(fuel, FALSE)
      /\ Brackets(Read(opened, current))
  BY DEF Take, Body, lexer_next
<1>2. fuel' \in Nat /\ errors' = errors
  BY <1>1 DEF Noted, TypeInv
<1>3. Read(opened, current) \in Stacks
  BY ReadsStack DEF TypeInv
<1>4. <<>> \in Stacks
  BY DEF Stacks
<1> QED
  BY <1>1, <1>2, <1>3, <1>4 DEF Brackets, TypeInv

LEMMA Reported ==
  ASSUME TypeInv, Peeked, NEW items, Report(items)
  PROVE  /\ todo' = items \o Rest /\ current' = None /\ fuel' \in Nat /\ errors' = TRUE
         /\ opened' \in Stacks
<1>1. /\ todo' = items \o Rest /\ current' = None /\ Noted(fuel, TRUE)
      /\ Brackets(Read(opened, current))
  BY DEF Report, Body, lexer_next
<1>2. fuel' \in Nat /\ errors' = TRUE
  BY <1>1, ParserAssumption DEF Noted, TypeInv
<1>3. opened' = <<>> /\ <<>> \in Stacks
  BY <1>1, <1>2 DEF Brackets, Stacks
<1> QED
  BY <1>1, <1>2, <1>3

-------------------------------------------------------------------------------

\* Most procedures concern neither the brackets nor the expressions themselves: they
\* leave that to the items they put in their place.
Special == Valuing \cup {"expect", "program"}
Orderly(items) ==
  /\ items \in Seq(Items)
  /\ \A i \in DOMAIN items : /\ items[i].do \notin {"program", "climb", "bin"}
                             /\ i # 1 => items[i].do \notin Sure

LEMMA OrderlyFits ==
  ASSUME NEW top, top.do \notin Special, NEW items, Orderly(items)
  PROVE  Fits(top, items)
<1>1. items \in Seq(Items) /\ Len(items) \in Nat /\ DOMAIN items = 1..Len(items)
  BY DEF Orderly
<1>2. \A i \in DOMAIN items : items[i].do # "program" /\ items[i].do \notin {"climb", "bin"}
  BY DEF Orderly
<1>3. \A i \in 2..Len(items) : i \in DOMAIN items /\ i # 1
  BY <1>1
<1>4. \A i \in 2..Len(items) : items[i].do \notin Sure /\ Follows(items[i - 1], items[i])
  BY <1>2, <1>3 DEF Orderly, Follows
<1>5. ASSUME items # <<>>
      PROVE  /\ items[1].do \notin {"climb", "bin"}
             /\ \A b : Follows(top, b) => Follows(items[Len(items)], b)
  <2>1. 1 \in DOMAIN items
    BY <1>1, <1>5
  <2>2. \A b : Follows(top, b) => b.do \notin {"climb", "bin"}
    BY DEF Follows, Special, Valuing
  <2> QED
    BY <1>2, <2>1, <2>2 DEF Follows
<1> QED
  BY <1>1, <1>2, <1>4, <1>5 DEF Fits, Special

LEMMA PlainMoves ==
  ASSUME IInv, todo # <<>>, Top.do \notin Special, NEW items, Orderly(items), Level(items),
         todo' = items \o Rest, nodes' = nodes, opened' \in Stacks,
         current' \in TokenKinds \cup {None, "EOF"}, fuel' \in Nat, errors' \in BOOLEAN,
         current' = "EOF" => fuel' = 0, current' = "bad" => errors',
         ~errors' => ~errors /\ Reads(opened', items, opened),
         items # <<>> /\ items[1].do \in Sure => Peeked' /\ Kind' = items[1].do
  PROVE  IInv'
<1>1. Fits(Top, items)
  BY OrderlyFits
<1>2. Read(opened, Mark(Top)) = opened
  <2>1. Mark(Top) = "" /\ "" \notin BracketKinds
    BY DEF Mark, Special, BracketKinds, Closer, Closers
  <2> QED
    BY <2>1, ReadsNothing DEF IInv, TypeInv
<1>3. \A ms, m \in Heights : Below(ms, nodes) /\ Turns(ms, Top, m) =>
        \E ns \in Heights : Below(ns, nodes') /\ Makes(ns, items, m)
  BY DEF Turns, Special, Level
<1>4. /\ Top.do \notin {"primary", "atom", "postfix", "group", "bin"}
      /\ Top.do \notin {"expr_prec", "climb"} /\ Top.do # "program"
  BY DEF Special, Valuing
<1>5. nodes' \in Heights /\ \A k : binop_precedence(k) \in Int
  <2>1. \A k : binop_precedence(k) \in Int
    BY PrecedenceBounded
  <2> QED
    BY <2>1 DEF IInv, TypeInv
<1> HIDE DEF IInv
<1> QED
  BY <1>1, <1>2, <1>3, <1>4, <1>5, MovesOn

LEMMA PlainKeeps ==
  ASSUME IInv, todo # <<>>, Top.do \notin Special, nodes' = nodes, NEW items, Keep(items),
         Orderly(items), Level(items), Even(items),
         items # <<>> /\ items[1].do \in Sure => Peeked /\ Kind = items[1].do
  PROVE  IInv'
<1>1. /\ current' = current /\ fuel' = fuel /\ opened' = opened /\ errors' = errors
      /\ todo' = items \o Rest
  BY DEF Keep, Body, lexer
<1>2. TypeInv /\ Reads(opened, items, opened)
  BY DEF IInv, TypeInv, Even
<1>3. Peeked' = Peeked /\ Kind' = Kind
  BY <1>1 DEF Peeked, Kind
<1> QED
  BY <1>1, <1>2, <1>3, PlainMoves DEF TypeInv

LEMMA PlainTakes ==
  ASSUME IInv, todo # <<>>, Top.do \notin Special, nodes' = nodes, Peeked, NEW items, Take(items),
         Orderly(items), Level(items), items # <<>> => items[1].do \notin Sure,
         \/ Kind \notin BracketKinds /\ Even(items)
         \/ Kind \in DOMAIN Closer /\ Closing(Kind, items)
  PROVE  IInv'
<1>0. TypeInv
  BY DEF IInv
<1>1. /\ todo' = items \o Rest /\ current' = None /\ fuel' \in Nat /\ errors' = errors
      /\ opened' \in Stacks /\ (~errors => opened' = Read(opened, current))
  BY <1>0, Consumed
<1>2. ASSUME ~errors PROVE Reads(opened', items, opened)
  <2>1. CASE Kind \notin BracketKinds /\ Even(items)
    <3>1. current \notin BracketKinds
      BY <1>0, <2>1, BracketsSeen
    <3>2. opened' = opened
      BY <1>0, <1>1, <1>2, <3>1, ReadsNothing DEF TypeInv
    <3> QED
      BY <1>0, <2>1, <3>2 DEF Even, TypeInv
  <2>2. CASE Kind \in DOMAIN Closer /\ Closing(Kind, items)
    <3>1. current = Kind
      BY <1>0, <2>2, BracketsSeen
    <3>2. opened' = <<Closer[Kind]>> \o opened
      BY <1>0, <1>1, <1>2, <2>2, <3>1, ReadsBrackets DEF TypeInv
    <3> QED
      BY <1>0, <2>2, <3>2 DEF Closing, TypeInv
  <2> QED
    BY <2>1, <2>2
<1>3. None \notin {"EOF", "bad"} /\ errors \in BOOLEAN
  BY <1>0 DEF None, TypeInv
<1> QED
  BY <1>1, <1>2, <1>3, PlainMoves

LEMMA PlainReports ==
  ASSUME IInv, todo # <<>>, Top.do \notin Special, nodes' = nodes, Peeked, NEW items, Report(items),
         Orderly(items), Level(items), items # <<>> => items[1].do \notin Sure
  PROVE  IInv'
<1>0. TypeInv
  BY DEF IInv
<1>1. /\ todo' = items \o Rest /\ current' = None /\ fuel' \in Nat /\ errors' = TRUE
      /\ opened' \in Stacks
  BY <1>0, Reported
<1>2. None \notin {"EOF", "bad"}
  BY DEF None
<1> QED
  BY <1>1, <1>2, PlainMoves

-------------------------------------------------------------------------------

\* Items that are procedures concerned with neither brackets nor expressions, or
\* that expect another token.
Inert == {item \in Items : /\ item.do \notin Valuing \cup Sure \cup {"program"}
                           /\ Mark(item) \notin BracketKinds}
Calm == {item \in Items : item.do \notin Sure \cup {"program", "climb", "bin"}}

LEMMA BracketKindsAre ==
  /\ BracketKinds = {"(", "[", "{", ")", "]", "}", "?"} /\ DOMAIN Closer = {"(", "[", "{"}
  /\ Closer["("] = ")" /\ Closer["["] = "]" /\ Closer["{"] = "}"
BY DEF BracketKinds, Closer, Closers

LEMMA InertDo ==
  ASSUME NEW a \in {"type", "pointers", "arrays", "count", "args", "more_args", "let_type", "let_init",
           "else", "else_block", "for_init", "expr_or_assign", "assign", "stmt", "arena_name", "block",
           "stmts", "params", "more_params", "ret_type", "fn_body", "fields", "comma"}
  PROVE  Do(a) \in Inert
<1>1. Do(a).do = a /\ Do(a) \in Items
  BY DEF Do, Item, Items, Acts
<1>2. Mark(Do(a)) = ""
  BY <1>1 DEF Mark
<1>3. a \notin Valuing \cup Sure \cup {"program"} /\ "" \notin BracketKinds
  BY BracketKindsAre DEF Valuing, Sure
<1> QED
  BY <1>1, <1>2, <1>3 DEF Inert

LEMMA InertTok ==
  /\ Tok(",") \in Inert /\ Tok(";") \in Inert /\ Tok(":") \in Inert
  /\ Name \in Inert
  /\ Item("expr_before", ";", 0) \in Inert /\ Item("expr_before", ")", 0) \in Inert
<1>1. {",", ";", ":", ")", "ident"} \subseteq TokenKinds
  BY DEF TokenKinds
<1>2. {"expect", "name", "expr_before"} \subseteq Acts
  BY DEF Acts
<1>3. ASSUME NEW k \in {",", ";", ":"} PROVE Tok(k) \in Inert
  <2>1. Tok(k).do = "expect" /\ Tok(k).kind = k /\ Tok(k) \in Items
    BY <1>1, <1>2 DEF Tok, Item, Items
  <2>2. Mark(Tok(k)) = k /\ k \notin BracketKinds
    BY <2>1, BracketKindsAre DEF Mark
  <2>3. "expect" \notin Valuing \cup Sure \cup {"program"}
    BY DEF Valuing, Sure
  <2> QED
    BY <2>1, <2>2, <2>3 DEF Inert
<1>4. ASSUME NEW d \in {"name", "expr_before"}, NEW k \in {";", ")", "ident"} PROVE Item(d, k, 0) \in Inert
  <2>1. Item(d, k, 0).do = d /\ Item(d, k, 0) \in Items
    BY <1>1, <1>2 DEF Item, Items
  <2>2. Mark(Item(d, k, 0)) = "" /\ "" \notin BracketKinds
    BY <2>1, BracketKindsAre DEF Mark
  <2>3. d \notin Valuing \cup Sure \cup {"program"}
    BY DEF Valuing, Sure
  <2> QED
    BY <2>1, <2>2, <2>3 DEF Inert
<1> QED
  BY <1>3, <1>4 DEF Name

LEMMA OtherItems ==
  /\ \A k \in {"(", "[", "{", ")", "]", "}"} : Tok(k) \in Calm /\ Tok(k).do = "expect" /\ Mark(Tok(k)) = k
  /\ Prec(1) \in Calm /\ Do("drop") \in Calm /\ Prec(1).do = "expr_prec" /\ Do("drop").do = "drop"
  /\ Mark(Prec(1)) = "" /\ Mark(Do("drop")) = "" /\ "" \notin BracketKinds
  /\ Inert \subseteq Calm
<1>1. {"(", "[", "{", ")", "]", "}"} \subseteq TokenKinds
  BY DEF TokenKinds
<1>2. \A k \in {"(", "[", "{", ")", "]", "}"} : Tok(k) \in Calm /\ Tok(k).do = "expect" /\ Mark(Tok(k)) = k
  BY <1>1 DEF Tok, Item, Items, Acts, Calm, Sure, Mark
<1>3. Prec(1) \in Calm /\ Do("drop") \in Calm /\ Prec(1).do = "expr_prec" /\ Do("drop").do = "drop"
  BY DEF Prec, Do, Item, Items, Acts, Calm, Sure
<1>4. Mark(Prec(1)) = "" /\ Mark(Do("drop")) = "" /\ "" \notin BracketKinds
  BY <1>3, BracketKindsAre DEF Mark
<1>5. Inert \subseteq Calm
  BY DEF Inert, Calm, Valuing
<1> QED
  BY <1>2, <1>3, <1>4, <1>5

LEMMA CalmOrderly ==
  ASSUME NEW items \in Seq(Calm)
  PROVE  Orderly(items) /\ items \in Seq(Items) /\ (items # <<>> => items[1].do \notin Sure)
<1>1. \A i \in DOMAIN items : items[i] \in Calm
  OBVIOUS
<1>2. items \in Seq(Items)
  BY DEF Calm
<1>3. items # <<>> => 1 \in DOMAIN items
  OBVIOUS
<1> QED
  BY <1>1, <1>2, <1>3 DEF Orderly, Calm

LEMMA InertCalm ==
  ASSUME NEW items \in Seq(Inert)
  PROVE  items \in Seq(Calm)
BY OtherItems, SeqMonotonic

LEMMA ExprIs ==
  /\ Expr = <<Prec(1), Do("drop")>> /\ Expr \in Seq(Calm) /\ Len(Expr) = 2
  /\ Expr[1] = Prec(1) /\ Expr[2] = Do("drop")
<1> DEFINE p == Prec(1)
           d == Do("drop")
<1> HIDE DEF p, d
<1>1. Expr = <<p, d>>
  BY DEF Expr, p, d
<1>2. p \in Calm /\ d \in Calm
  BY OtherItems DEF p, d
<1>3. Expr \in Seq(Calm) /\ Len(Expr) = 2 /\ Expr[1] = p /\ Expr[2] = d
  BY <1>1, <1>2
<1> QED
  BY <1>1, <1>3 DEF p, d

\* Lists that ask nothing and leave everything as it was.
Neutral(items) == Orderly(items) /\ Level(items) /\ Even(items) /\ (items # <<>> => items[1].do \notin Sure)

LEMMA InertTurns ==
  ASSUME NEW item \in Inert \cup {Tok(k) : k \in {"(", "[", "{", ")", "]", "}"}}, NEW ns
  PROVE  Turns(ns, item, ns)
<1>1. item.do \notin Valuing
  BY OtherItems DEF Inert, Valuing
<1> QED
  BY <1>1 DEF Turns, Valuing

LEMMA InertNeutral ==
  ASSUME NEW items \in Seq(Inert)
  PROVE  Neutral(items)
<1>1. items \in Seq(Calm) /\ items \in Seq(Items) /\ \A i \in DOMAIN items : items[i] \in Inert
  <2>1. \A i \in DOMAIN items : items[i] \in Inert
    OBVIOUS
  <2>2. items \in Seq(Calm)
    BY InertCalm
  <2> QED
    BY <2>1, <2>2, CalmOrderly
<1>2. Orderly(items) /\ (items # <<>> => items[1].do \notin Sure)
  BY <1>1, CalmOrderly
<1>3. Even(items)
  BY <1>1, EvenPlain DEF Inert
<1>4. Level(items)
  BY <1>1, InertTurns, LevelPlain DEF Level
<1> QED
  BY <1>2, <1>3, <1>4 DEF Neutral

LEMMA Joined ==
  ASSUME NEW S, NEW a \in Seq(S), NEW b \in Seq(S)
  PROVE  LET r == a \o b IN
         /\ r \in Seq(S) /\ Len(r) = Len(a) + Len(b) /\ Len(a) \in Nat /\ Len(b) \in Nat
         /\ \A i \in 1..Len(a) : r[i] = a[i]
         /\ \A i \in (Len(a) + 1)..Len(r) : r[i] = b[i - Len(a)]
OBVIOUS

\* An expression that goes into a statement, and what comes after it.
LEMMA ExprNeutral ==
  /\ \A rest \in Seq(Inert) : Neutral(Expr \o rest)
  /\ Neutral(Expr)
<1>1. ASSUME NEW items \in Seq(Calm), Len(items) >= 2, items[1] = Prec(1), items[2] = Do("drop"),
             \A i \in 3..Len(items) : items[i] \in Inert
      PROVE  Neutral(items)
  <2>0. Orderly(items) /\ items \in Seq(Items) /\ (items # <<>> => items[1].do \notin Sure)
    BY CalmOrderly
  <2>1. /\ DOMAIN items = 1..Len(items) /\ 1 \in DOMAIN items /\ 1 + 1 \in DOMAIN items /\ 1 + 1 = 2
        /\ \A i \in DOMAIN items : i \notin {1, 2} => i \in 3..Len(items)
    BY <1>1
  <2>2. ASSUME NEW i \in DOMAIN items PROVE Mark(items[i]) \notin BracketKinds
    <3>1. CASE i \in {1, 2}
      BY <3>1, <1>1, OtherItems
    <3>2. CASE i \notin {1, 2}
      BY <3>2, <1>1, <2>1 DEF Inert
    <3> QED
      BY <3>1, <3>2
  <2>3. ASSUME NEW ns \in Heights PROVE Makes(ns, items, ns)
    <3>1. \A i \in DOMAIN items : i \notin {1, 1 + 1} => Turns(ns, items[i], ns)
      BY <1>1, <2>1, InertTurns
    <3> QED
      BY <1>1, <2>0, <2>1, <3>1, MakesDropped
  <2> QED
    BY <2>0, <2>2, <2>3, EvenPlain DEF Neutral, Level
<1>2. Expr \in Seq(Calm) /\ Len(Expr) = 2 /\ Expr[1] = Prec(1) /\ Expr[2] = Do("drop")
  BY ExprIs
<1>3. Neutral(Expr)
  <2>1. Len(Expr) >= 2 /\ \A i \in 3..Len(Expr) : FALSE
    BY <1>2
  <2> QED
    BY <1>1, <1>2, <2>1
<1>4. ASSUME NEW rest \in Seq(Inert) PROVE Neutral(Expr \o rest)
  <2> DEFINE items == Expr \o rest
  <2>1. rest \in Seq(Calm)
    BY InertCalm
  <2>2. /\ items \in Seq(Calm) /\ Len(items) = 2 + Len(rest) /\ items[1] = Expr[1] /\ items[2] = Expr[2]
        /\ \A i \in 3..Len(items) : items[i] = rest[i - 2] /\ i - 2 \in 1..Len(rest)
    <3>1. /\ items \in Seq(Calm) /\ Len(items) = Len(Expr) + Len(rest) /\ Len(rest) \in Nat
          /\ \A i \in 1..Len(Expr) : items[i] = Expr[i]
          /\ \A i \in (Len(Expr) + 1)..Len(items) : items[i] = rest[i - Len(Expr)]
      BY <1>2, <2>1, Joined
    <3> HIDE DEF items
    <3> QED
      BY <1>2, <3>1
  <2> HIDE DEF items
  <2>3. \A i \in 3..Len(items) : items[i] \in Inert
    BY <2>2
  <2>4. Len(items) >= 2
    BY <2>2
  <2>5. Neutral(items)
    BY <1>1, <1>2, <2>2, <2>3, <2>4
  <2> QED
    BY <2>5 DEF items
<1> QED
  BY <1>3, <1>4

\* A bracket and the one that closes it, with nothing but procedures between them.
LEMMA PairNeutral ==
  ASSUME NEW items \in Seq(Calm), NEW p \in DOMAIN items, NEW r \in DOMAIN items, p < r,
         NEW o \in DOMAIN Closer, items[p] = Tok(o), items[r] = Tok(Closer[o]),
         \A i \in DOMAIN items : i \notin {p, r} => items[i] \in Inert
  PROVE  Neutral(items)
<1>0. Orderly(items) /\ items \in Seq(Items) /\ (items # <<>> => items[1].do \notin Sure)
  BY CalmOrderly
<1>1. {o, Closer[o]} \subseteq {"(", "[", "{", ")", "]", "}"}
  BY BracketKindsAre
<1>2. Mark(items[p]) = o /\ Mark(items[r]) = Closer[o]
  BY <1>1, OtherItems
<1>3. \A i \in DOMAIN items : i \notin {p, r} => Mark(items[i]) \notin BracketKinds
  BY DEF Inert
<1>4. Even(items)
  BY <1>0, <1>2, <1>3, EvenPaired
<1>5. \A i \in DOMAIN items : items[i] \in Inert \cup {Tok(k) : k \in {"(", "[", "{", ")", "]", "}"}}
  BY <1>1
<1>6. Level(items)
  BY <1>0, <1>5, InertTurns, LevelPlain DEF Level
<1> QED
  BY <1>0, <1>4, <1>6 DEF Neutral

\* A parenthesised expression, and what comes after it.
LEMMA ParenthesisedNeutral ==
  ASSUME NEW rest \in Seq(Calm), rest # <<>>, rest[1] = Tok(")"), \A i \in 2..Len(rest) : rest[i] \in Inert
  PROVE  Neutral(<<Tok("(")>> \o Expr \o rest)
<1> DEFINE items == <<Tok("(")>> \o Expr \o rest
<1>1. /\ Expr \in Seq(Calm) /\ Len(Expr) = 2 /\ Expr[1] = Prec(1) /\ Expr[2] = Do("drop")
      /\ Tok("(") \in Calm
  BY OtherItems, ExprIs
<1>a. Len(rest) \in Nat /\ Len(rest) >= 1
  OBVIOUS
<1> DEFINE head == <<Tok("(")>> \o Expr
<1>b. /\ head \in Seq(Calm) /\ Len(head) = 3
      /\ head[1] = Tok("(") /\ head[2] = Prec(1) /\ head[3] = Do("drop")
  <2> DEFINE one == <<Tok("(")>>
  <2>1. one \in Seq(Calm) /\ Len(one) = 1 /\ one[1] = Tok("(")
    BY <1>1
  <2> HIDE DEF one
  <2>2. /\ one \o Expr \in Seq(Calm) /\ Len(one \o Expr) = 1 + 2
        /\ \A i \in 1..1 : (one \o Expr)[i] = one[i]
        /\ \A i \in 2..3 : (one \o Expr)[i] = Expr[i - 1]
    <3> DEFINE r == one \o Expr
    <3>1. /\ r \in Seq(Calm) /\ Len(r) = Len(one) + Len(Expr)
          /\ \A i \in 1..Len(one) : r[i] = one[i]
          /\ \A i \in (Len(one) + 1)..Len(r) : r[i] = Expr[i - Len(one)]
      BY <1>1, <2>1, Joined
    <3> HIDE DEF r
    <3>2. Len(r) = 3 /\ Len(one) + 1 = 2
      BY <1>1, <2>1, <3>1
    <3> QED
      BY <1>1, <2>1, <3>1, <3>2 DEF r
  <2> QED
    BY <1>1, <2>1, <2>2 DEF one
<1> HIDE DEF head
<1>2. /\ items \in Seq(Calm) /\ Len(items) = 3 + Len(rest)
      /\ items[1] = Tok("(") /\ items[2] = Prec(1) /\ items[3] = Do("drop")
      /\ \A i \in 4..Len(items) : items[i] = rest[i - 3]
  <2>1. /\ head \o rest \in Seq(Calm) /\ Len(head \o rest) = 3 + Len(rest)
        /\ \A i \in 1..3 : (head \o rest)[i] = head[i]
        /\ \A i \in 4..Len(head \o rest) : (head \o rest)[i] = rest[i - 3]
    <3> DEFINE r == head \o rest
    <3>1. /\ r \in Seq(Calm) /\ Len(r) = Len(head) + Len(rest)
          /\ \A i \in 1..Len(head) : r[i] = head[i]
          /\ \A i \in (Len(head) + 1)..Len(r) : r[i] = rest[i - Len(head)]
      BY <1>b, Joined
    <3> HIDE DEF r
    <3>2. Len(r) = 3 + Len(rest) /\ Len(head) + 1 = 4
      BY <1>b, <3>1
    <3> QED
      BY <1>b, <3>1, <3>2 DEF r
  <2>2. items = head \o rest
    BY DEF head
  <2> HIDE DEF items
  <2> QED
    BY <1>b, <2>1, <2>2
<1> HIDE DEF items
<1>3. /\ items[4] = Tok(")") /\ \A i \in 5..Len(items) : items[i] \in Inert
      /\ DOMAIN items = 1..Len(items) /\ Len(items) \in Nat /\ Len(items) >= 4
  <2>1. 4 \in 4..Len(items) /\ 4 - 3 = 1
    BY <1>a, <1>2
  <2>2. \A i \in 5..Len(items) : i \in 4..Len(items) /\ i - 3 \in 2..Len(rest)
    BY <1>a, <1>2
  <2>3. items[4] = Tok(")")
    BY <1>2, <2>1
  <2>4. \A i \in 5..Len(items) : items[i] \in Inert
    BY <1>2, <2>2
  <2> QED
    BY <1>a, <1>2, <2>3, <2>4
<1>0. Orderly(items) /\ items \in Seq(Items) /\ (items # <<>> => items[1].do \notin Sure)
  BY <1>2, CalmOrderly
<1>4. \A i \in DOMAIN items : i \notin {1, 2, 3, 4} => i \in 5..Len(items)
  BY <1>3
<1>5. Even(items)
  <2>1. 1 \in DOMAIN items /\ 4 \in DOMAIN items /\ 1 < 4
    BY <1>3
  <2>2. "(" \in DOMAIN Closer /\ Mark(items[1]) = "(" /\ Mark(items[4]) = Closer["("]
    BY <1>2, <1>3, OtherItems, BracketKindsAre
  <2>3. ASSUME NEW i \in DOMAIN items, i \notin {1, 4} PROVE Mark(items[i]) \notin BracketKinds
    <3>1. CASE i \in {2, 3}
      BY <3>1, <1>2, OtherItems
    <3>2. CASE i \notin {2, 3}
      <4>1. items[i] \in Inert
        BY <1>3, <1>4, <2>3, <3>2
      <4> QED
        BY <4>1 DEF Inert
    <3> QED
      BY <3>1, <3>2
  <2> QED
    BY <1>0, <2>1, <2>2, <2>3, EvenPaired
<1>6. ASSUME NEW ns \in Heights PROVE Makes(ns, items, ns)
  <2>1. 2 \in DOMAIN items /\ 2 + 1 \in DOMAIN items /\ 2 + 1 = 3
    BY <1>3
  <2>2. ASSUME NEW i \in DOMAIN items, i \notin {2, 2 + 1} PROVE Turns(ns, items[i], ns)
    <3>1. items[i] \in Inert \cup {Tok(k) : k \in {"(", "[", "{", ")", "]", "}"}}
      <4>0. {Tok("("), Tok(")")} \subseteq {Tok(k) : k \in {"(", "[", "{", ")", "]", "}"}}
        OBVIOUS
      <4>1. CASE i \in {1, 4}
        <5>1. items[i] = Tok("(") \/ items[i] = Tok(")")
          BY <4>1, <1>2, <1>3
        <5> QED
          BY <4>0, <5>1
      <4>2. CASE i \notin {1, 4}
        <5>1. i \in 5..Len(items)
          BY <4>2, <2>2, <1>4
        <5> QED
          BY <5>1, <1>3
      <4> QED
        BY <4>1, <4>2
    <3> QED
      BY <3>1, InertTurns
  <2> QED
    BY <1>0, <1>2, <2>1, <2>2, MakesDropped
<1>7. Neutral(items)
  BY <1>0, <1>5, <1>6 DEF Neutral, Level
<1> QED
  BY <1>7 DEF items

-------------------------------------------------------------------------------

LEMMA OneInert ==
  ASSUME NEW a \in Inert
  PROVE  <<a>> \in Seq(Inert)
OBVIOUS

\* The bodies of the procedures, one by one.
LEMMA InertBodies ==
  /\ Neutral(<<>>)
  /\ \A a \in Inert : Neutral(<<a>>)
  /\ \A a, b \in Inert : Neutral(<<a, b>>)
  /\ \A a, b, c, d \in Inert : Neutral(<<a, b, c, d>>)
  /\ \A a, b, c, d, e \in Inert : Neutral(<<a, b, c, d, e>>)
<1>1. Neutral(<<>>)
  <2>1. <<>> \in Seq(Inert)
    OBVIOUS
  <2> QED
    BY <2>1, InertNeutral
<1>2. ASSUME NEW a \in Inert PROVE Neutral(<<a>>)
  <2>1. <<a>> \in Seq(Inert)
    OBVIOUS
  <2> QED
    BY <2>1, InertNeutral
<1>3. ASSUME NEW a \in Inert, NEW b \in Inert PROVE Neutral(<<a, b>>)
  <2>1. <<a, b>> \in Seq(Inert)
    OBVIOUS
  <2> QED
    BY <2>1, InertNeutral
<1>4. ASSUME NEW a \in Inert, NEW b \in Inert, NEW c \in Inert, NEW d \in Inert
      PROVE  Neutral(<<a, b, c, d>>)
  <2>1. <<a, b, c, d>> \in Seq(Inert)
    OBVIOUS
  <2> QED
    BY <2>1, InertNeutral
<1>5. ASSUME NEW a \in Inert, NEW b \in Inert, NEW c \in Inert, NEW d \in Inert, NEW e \in Inert
      PROVE  Neutral(<<a, b, c, d, e>>)
  <2>1. <<a, b, c, d, e>> \in Seq(Inert)
    OBVIOUS
  <2> QED
    BY <2>1, InertNeutral
<1> QED
  BY <1>1, <1>2, <1>3, <1>4, <1>5

LEMMA BracketedBodies ==
  /\ \A a \in Inert : Neutral(<<Tok("{"), a, Tok("}")>>)
  /\ \A a, b, c \in Inert : Neutral(<<Tok("("), a, Tok(")"), b, c>>)
  /\ \A a, b \in Inert : Neutral(<<a, Tok("{"), b, Tok("}")>>)
  /\ \A a, b, c, d \in Inert : Neutral(<<a, Tok("("), b, Tok(")"), c, d>>)
  /\ \A a, b, c, d, e \in Inert : Neutral(<<Tok("("), a, b, c, d, Tok(")"), e>>)
<1> DEFINE lp == Tok("(")
           rp == Tok(")")
           lb == Tok("{")
           rb == Tok("}")
<1>0. /\ lp \in Calm /\ rp \in Calm /\ lb \in Calm /\ rb \in Calm /\ Inert \subseteq Calm
      /\ "(" \in DOMAIN Closer /\ "{" \in DOMAIN Closer /\ rp = Tok(Closer["("]) /\ rb = Tok(Closer["{"])
      /\ lp = Tok("(") /\ lb = Tok("{")
  BY OtherItems, BracketKindsAre
<1> HIDE DEF lp, rp, lb, rb
<1>1. ASSUME NEW a \in Inert PROVE Neutral(<<lb, a, rb>>)
  <2> DEFINE s == <<lb, a, rb>>
  <2>0. s \in Seq(Calm)
    <3>1. a \in Calm /\ lb \in Calm /\ rb \in Calm
      BY <1>0
    <3> QED
      BY ONLY <3>1
  <2>1. /\ DOMAIN s = 1..3 /\ s[1] = lb /\ s[3] = rb /\ s[2] = a
    OBVIOUS
  <2> HIDE DEF s
  <2>2. \A i \in DOMAIN s : i \notin {1, 3} => s[i] \in Inert
    BY <2>1
  <2>3. 1 \in DOMAIN s /\ 3 \in DOMAIN s /\ 1 < 3
    BY <2>1
  <2>4. Neutral(s)
    BY <1>0, <2>0, <2>1, <2>2, <2>3, PairNeutral
  <2> QED
    BY <2>4 DEF s
<1>2. ASSUME NEW a \in Inert, NEW b \in Inert, NEW c \in Inert PROVE Neutral(<<lp, a, rp, b, c>>)
  <2> DEFINE s == <<lp, a, rp, b, c>>
  <2>0. s \in Seq(Calm)
    <3>1. a \in Calm /\ b \in Calm /\ c \in Calm /\ lp \in Calm /\ rp \in Calm
      BY <1>0
    <3> QED
      BY ONLY <3>1
  <2>1. /\ DOMAIN s = 1..5 /\ s[1] = lp /\ s[3] = rp /\ s[2] = a /\ s[4] = b /\ s[5] = c
    OBVIOUS
  <2> HIDE DEF s
  <2>2. \A i \in DOMAIN s : i \notin {1, 3} => s[i] \in Inert
    BY <2>1
  <2>3. 1 \in DOMAIN s /\ 3 \in DOMAIN s /\ 1 < 3
    BY <2>1
  <2>4. Neutral(s)
    BY <1>0, <2>0, <2>1, <2>2, <2>3, PairNeutral
  <2> QED
    BY <2>4 DEF s
<1>3. ASSUME NEW a \in Inert, NEW b \in Inert PROVE Neutral(<<a, lb, b, rb>>)
  <2> DEFINE s == <<a, lb, b, rb>>
  <2>0. s \in Seq(Calm)
    <3>1. a \in Calm /\ b \in Calm /\ lb \in Calm /\ rb \in Calm
      BY <1>0
    <3> QED
      BY ONLY <3>1
  <2>1. /\ DOMAIN s = 1..4 /\ s[1] = a /\ s[2] = lb /\ s[3] = b /\ s[4] = rb
    OBVIOUS
  <2> HIDE DEF s
  <2>2. \A i \in DOMAIN s : i \notin {2, 4} => s[i] \in Inert
    BY <2>1
  <2>3. 2 \in DOMAIN s /\ 4 \in DOMAIN s /\ 2 < 4
    BY <2>1
  <2>4. Neutral(s)
    BY <1>0, <2>0, <2>1, <2>2, <2>3, PairNeutral
  <2> QED
    BY <2>4 DEF s
<1>4. ASSUME NEW a \in Inert, NEW b \in Inert, NEW c \in Inert, NEW d \in Inert
      PROVE  Neutral(<<a, lp, b, rp, c, d>>)
  <2> DEFINE s == <<a, lp, b, rp, c, d>>
  <2>0. s \in Seq(Calm)
    <3>1. a \in Calm /\ b \in Calm /\ c \in Calm /\ d \in Calm /\ lp \in Calm /\ rp \in Calm
      BY <1>0
    <3> QED
      BY ONLY <3>1
  <2>1. /\ DOMAIN s = 1..6
        /\ s[1] = a /\ s[2] = lp /\ s[3] = b /\ s[4] = rp /\ s[5] = c /\ s[6] = d
    OBVIOUS
  <2> HIDE DEF s
  <2>2. \A i \in DOMAIN s : i \notin {2, 4} => s[i] \in Inert
    BY <2>1
  <2>3. 2 \in DOMAIN s /\ 4 \in DOMAIN s /\ 2 < 4
    BY <2>1
  <2>4. Neutral(s)
    BY <1>0, <2>0, <2>1, <2>2, <2>3, PairNeutral
  <2> QED
    BY <2>4 DEF s
<1>5. ASSUME NEW a \in Inert, NEW b \in Inert, NEW c \in Inert, NEW d \in Inert, NEW e \in Inert
      PROVE  Neutral(<<lp, a, b, c, d, rp, e>>)
  <2> DEFINE s == <<lp, a, b, c, d, rp, e>>
  <2>0. s \in Seq(Calm)
    <3>1. a \in Calm /\ b \in Calm /\ c \in Calm /\ d \in Calm /\ e \in Calm /\ lp \in Calm /\ rp \in Calm
      BY <1>0
    <3> QED
      BY ONLY <3>1
  <2>1. /\ DOMAIN s = 1..7
        /\ s[1] = lp /\ s[2] = a /\ s[3] = b /\ s[4] = c /\ s[5] = d /\ s[6] = rp /\ s[7] = e
    OBVIOUS
  <2> HIDE DEF s
  <2>2. \A i \in DOMAIN s : i \notin {1, 6} => s[i] \in Inert
    BY <2>1
  <2>3. 1 \in DOMAIN s /\ 6 \in DOMAIN s /\ 1 < 6
    BY <2>1
  <2>4. Neutral(s)
    BY <1>0, <2>0, <2>1, <2>2, <2>3, PairNeutral
  <2> QED
    BY <2>4 DEF s
<1> QED
  BY <1>1, <1>2, <1>3, <1>4, <1>5 DEF lp, rp, lb, rb

LEMMA ParenthesisedBodies ==
  /\ \A a, b \in Inert : Neutral(<<Tok("(")>> \o Expr \o <<Tok(")"), a, b>>)
  /\ \A a \in Inert : Neutral(<<Tok("(")>> \o Expr \o <<Tok(")"), a>>)
<1> DEFINE rp == Tok(")")
<1>0. rp \in Calm /\ Inert \subseteq Calm /\ rp = Tok(")")
  BY OtherItems
<1> HIDE DEF rp
<1>1. ASSUME NEW a \in Inert, NEW b \in Inert PROVE Neutral(<<Tok("(")>> \o Expr \o <<rp, a, b>>)
  <2> DEFINE s == <<rp, a, b>>
  <2>1. s \in Seq(Calm) /\ Len(s) = 3 /\ s # <<>> /\ s[1] = rp /\ s[2] = a /\ s[3] = b
    BY <1>0
  <2> HIDE DEF s
  <2>2. \A i \in 2..Len(s) : s[i] \in Inert
    BY <2>1
  <2>3. Neutral(<<Tok("(")>> \o Expr \o s)
    BY <1>0, <2>1, <2>2, ParenthesisedNeutral
  <2> QED
    BY <2>3 DEF s
<1>2. ASSUME NEW a \in Inert PROVE Neutral(<<Tok("(")>> \o Expr \o <<rp, a>>)
  <2> DEFINE s == <<rp, a>>
  <2>1. s \in Seq(Calm) /\ Len(s) = 2 /\ s # <<>> /\ s[1] = rp /\ s[2] = a
    BY <1>0
  <2> HIDE DEF s
  <2>2. \A i \in 2..Len(s) : s[i] \in Inert
    BY <2>1
  <2>3. Neutral(<<Tok("(")>> \o Expr \o s)
    BY <1>0, <2>1, <2>2, ParenthesisedNeutral
  <2> QED
    BY <2>3 DEF s
<1> QED
  BY <1>1, <1>2 DEF rp

\* A procedure that knows the keyword it begins with, and one that counts elements.
LEMMA OtherBodies ==
  /\ \A f \in Sure : /\ Orderly(<<Do(f)>>) /\ Level(<<Do(f)>>) /\ Even(<<Do(f)>>)
                     /\ <<Do(f)>>[1].do = f
  /\ \A a, b \in Inert : LET s == <<a, Tok("]"), b>> IN
       Orderly(s) /\ Level(s) /\ Closing("[", s) /\ s[1].do \notin Sure
<1>1. ASSUME NEW f \in Sure
      PROVE  /\ Orderly(<<Do(f)>>) /\ Level(<<Do(f)>>) /\ Even(<<Do(f)>>)
             /\ <<Do(f)>>[1].do = f
  <2> DEFINE d == Do(f)
             s == <<d>>
  <2>1. d \in Items /\ d.do = f /\ Mark(d) = "" /\ "" \notin BracketKinds
    BY BracketKindsAre DEF Do, Item, Items, Acts, Sure, Mark
  <2> HIDE DEF d
  <2>2. s \in Seq(Items) /\ s[1] = d /\ \A i \in DOMAIN s : i = 1
    <3>1. d \in Items
      BY <2>1
    <3> QED
      BY ONLY <3>1
  <2> HIDE DEF s
  <2>3. f \notin {"program", "climb", "bin"} /\ f \notin Valuing
    BY DEF Sure, Valuing
  <2>4. Orderly(s)
    BY <2>1, <2>2, <2>3 DEF Orderly
  <2>5. \A ns : Turns(ns, d, ns)
    BY <2>1, <2>3 DEF Turns, Valuing
  <2>6. Level(s)
    BY <2>2, <2>5, LevelPlain DEF Level
  <2>7. Even(s)
    BY <2>1, <2>2, EvenPlain
  <2> QED
    BY <2>1, <2>2, <2>4, <2>6, <2>7 DEF s, d
<1>2. ASSUME NEW a \in Inert, NEW b \in Inert
      PROVE  LET s == <<a, Tok("]"), b>> IN
               Orderly(s) /\ Level(s) /\ Closing("[", s) /\ s[1].do \notin Sure
  <2> DEFINE rs == Tok("]")
             s == <<a, rs, b>>
  <2>0. /\ rs \in Calm /\ Mark(rs) = "]" /\ Inert \subseteq Calm /\ "[" \in DOMAIN Closer /\ Closer["["] = "]"
        /\ \A ns : Turns(ns, rs, ns)
    BY OtherItems, BracketKindsAre, InertTurns
  <2> HIDE DEF rs
  <2>1. s \in Seq(Calm) /\ DOMAIN s = 1..3 /\ s # <<>> /\ s[1] = a /\ s[2] = rs /\ s[3] = b
    BY <2>0
  <2> HIDE DEF s
  <2>2. s \in Seq(Items) /\ Orderly(s) /\ s[1].do \notin Sure
    BY <2>1, CalmOrderly
  <2>3. \A i \in DOMAIN s : i # 2 => s[i] \in Inert
    BY <2>1
  <2>4. \A i \in DOMAIN s : i # 2 => Mark(s[i]) \notin BracketKinds
    BY <2>3 DEF Inert
  <2>5. Closing("[", s)
    <3>1. 2 \in DOMAIN s /\ Mark(s[2]) = Closer["["]
      BY <2>0, <2>1
    <3> QED
      BY <2>0, <2>2, <2>4, <3>1, ClosingAt
  <2>6. ASSUME NEW ns, NEW i \in DOMAIN s PROVE Turns(ns, s[i], ns)
    BY <2>0, <2>1, <2>3, InertTurns
  <2>7. Level(s)
    BY <2>2, <2>6, LevelPlain DEF Level
  <2> QED
    BY <2>2, <2>5, <2>7 DEF s, rs
<1> QED
  BY <1>1, <1>2

-------------------------------------------------------------------------------

\* A procedure that concerns neither brackets nor expressions goes on: it looks, it
\* consumes a token that is no bracket, or it reports one.
LEMMA NeutralKeeps ==
  ASSUME IInv, todo # <<>>, Top.do \notin Special, UNCHANGED nodes, NEW items, Neutral(items),
         \/ Keep(items)
         \/ Peeked /\ Take(items) /\ Kind \notin BracketKinds
         \/ Peeked /\ Report(items)
  PROVE  IInv'
<1>1. /\ Orderly(items) /\ Level(items) /\ Even(items)
      /\ items # <<>> => items[1].do \notin Sure
  BY DEF Neutral
<1>2. nodes' = nodes
  OBVIOUS
<1>3. CASE Keep(items)
  BY <1>1, <1>2, <1>3, PlainKeeps
<1>4. CASE Peeked /\ Take(items) /\ Kind \notin BracketKinds
  BY <1>1, <1>2, <1>4, PlainTakes
<1>5. CASE Peeked /\ Report(items)
  BY <1>1, <1>2, <1>5, PlainReports
<1> QED
  BY <1>3, <1>4, <1>5

LEMMA SeenIs ==
  ASSUME NEW f, See(f)
  PROVE  todo # <<>> /\ Top.do = f /\ Peeked /\ UNCHANGED nodes
BY DEF See, In

\* A keyword is consumed by the procedure that begins with it.
LEMMA EnterKeeps ==
  ASSUME IInv, NEW f \in Sure, NEW items, Enter(f, items), Neutral(items)
  PROVE  IInv'
<1>1. todo # <<>> /\ Top.do = f /\ UNCHANGED nodes /\ Take(items)
  BY DEF Enter, In
<1>2. Peeked /\ Kind = f
  BY <1>1 DEF IInv, BegunInv
<1>3. f \notin Special /\ f \notin BracketKinds
  BY BracketKindsAre DEF Sure, Special, Valuing
<1> QED
  BY <1>1, <1>2, <1>3, NeutralKeeps

LEMMA TypeKeeps == IInv /\ parse_type => IInv'
<1> SUFFICES ASSUME IInv, parse_type PROVE IInv'
  OBVIOUS
<1>1. /\ Neutral(<<>>) /\ Neutral(<<Do("pointers")>>) /\ Neutral(<<Do("arrays")>>)
  BY InertBodies, InertDo
<1>2. {"type", "pointers", "arrays", "count"} \cap Special = {}
  BY DEF Special, Valuing
<1>3. CASE See("type") /\ IF Kind \in {"type", "ident"} THEN Take(<<Do("pointers")>>) ELSE Report(<<>>)
  <2>1. todo # <<>> /\ Top.do \notin Special /\ Peeked /\ UNCHANGED nodes
    BY <1>2, <1>3, SeenIs
  <2>2. CASE Kind \in {"type", "ident"} /\ Take(<<Do("pointers")>>)
    <3>1. Kind \notin BracketKinds
      BY <2>2, BracketKindsAre
    <3> QED
      BY <1>1, <2>1, <2>2, <3>1, NeutralKeeps
  <2>3. CASE Report(<<>>)
    BY <1>1, <2>1, <2>3, NeutralKeeps
  <2> QED
    BY <1>3, <2>2, <2>3
<1>4. CASE See("pointers") /\ IF Kind = "*" THEN Take(<<Do("pointers")>>) ELSE Keep(<<Do("arrays")>>)
  <2>1. todo # <<>> /\ Top.do \notin Special /\ Peeked /\ UNCHANGED nodes
    BY <1>2, <1>4, SeenIs
  <2>2. CASE Kind = "*" /\ Take(<<Do("pointers")>>)
    <3>1. Kind \notin BracketKinds
      BY <2>2, BracketKindsAre
    <3> QED
      BY <1>1, <2>1, <2>2, <3>1, NeutralKeeps
  <2>3. CASE Keep(<<Do("arrays")>>)
    BY <1>1, <2>1, <2>3, NeutralKeeps
  <2> QED
    BY <1>4, <2>2, <2>3
<1>5. CASE /\ See("arrays")
           /\ IF Kind = "[" THEN Take(<<Do("count"), Tok("]"), Do("arrays")>>) ELSE Keep(<<>>)
  <2>1. todo # <<>> /\ Top.do \notin Special /\ Peeked /\ nodes' = nodes
    BY <1>2, <1>5, SeenIs
  <2> DEFINE s == <<Do("count"), Tok("]"), Do("arrays")>>
  <2>2. CASE Kind = "[" /\ Take(s)
    <3>1. Orderly(s) /\ Level(s) /\ Closing("[", s) /\ s[1].do \notin Sure
      BY OtherBodies, InertDo
    <3>2. "[" \in DOMAIN Closer
      BY BracketKindsAre
    <3> HIDE DEF s
    <3> QED
      BY <2>1, <2>2, <3>1, <3>2, PlainTakes
  <2>3. CASE Keep(<<>>)
    BY <1>1, <2>1, <2>3, NeutralKeeps
  <2> QED
    BY <1>5, <2>2, <2>3
<1>6. CASE See("count") /\ IF Kind = "num" THEN Take(<<>>) ELSE Keep(<<>>)
  <2>1. todo # <<>> /\ Top.do \notin Special /\ Peeked /\ UNCHANGED nodes
    BY <1>2, <1>6, SeenIs
  <2>2. "num" \notin BracketKinds
    BY BracketKindsAre
  <2> QED
    BY <1>1, <1>6, <2>1, <2>2, NeutralKeeps
<1> QED
  BY <1>3, <1>4, <1>5, <1>6 DEF parse_type

LEMMA LetKeeps == IInv /\ parse_let_stmt => IInv'
<1> SUFFICES ASSUME IInv, parse_let_stmt PROVE IInv'
  OBVIOUS
<1>1. /\ Neutral(<<>>) /\ Neutral(Expr) /\ Neutral(<<Do("type")>>)
      /\ Neutral(<<Name, Do("let_type"), Do("let_init"), Tok(";")>>)
  BY InertBodies, InertDo, InertTok, ExprNeutral
<1>2. {"let_type", "let_init"} \cap Special = {} /\ "let" \in Sure /\ {":", "="} \cap BracketKinds = {}
  BY BracketKindsAre DEF Special, Valuing, Sure
<1>3. CASE Enter("let", <<Name, Do("let_type"), Do("let_init"), Tok(";")>>)
  BY <1>1, <1>2, <1>3, EnterKeeps
<1>4. CASE See("let_type") /\ IF Kind = ":" THEN Take(<<Do("type")>>) ELSE Keep(<<>>)
  <2>1. todo # <<>> /\ Top.do \notin Special /\ Peeked /\ UNCHANGED nodes
    BY <1>2, <1>4, SeenIs
  <2> QED
    BY <1>1, <1>2, <1>4, <2>1, NeutralKeeps
<1>5. CASE See("let_init") /\ IF Kind = "=" THEN Take(Expr) ELSE Keep(<<>>)
  <2>1. todo # <<>> /\ Top.do \notin Special /\ Peeked /\ UNCHANGED nodes
    BY <1>2, <1>5, SeenIs
  <2> QED
    BY <1>1, <1>2, <1>5, <2>1, NeutralKeeps
<1> QED
  BY <1>3, <1>4, <1>5 DEF parse_let_stmt

LEMMA IfKeeps == IInv /\ parse_if_stmt => IInv'
<1> SUFFICES ASSUME IInv, parse_if_stmt PROVE IInv'
  OBVIOUS
<1>1. /\ Neutral(<<>>) /\ Neutral(<<Do("else_block")>>) /\ Neutral(<<Do("block")>>)
      /\ Neutral(<<Tok("(")>> \o Expr \o <<Tok(")"), Do("block"), Do("else")>>)
  BY InertBodies, ParenthesisedBodies, InertDo
<1>2. {"else", "else_block"} \cap Special = {} /\ "if" \in Sure /\ "else" \notin BracketKinds
  BY BracketKindsAre DEF Special, Valuing, Sure
<1>3. CASE Enter("if", <<Tok("(")>> \o Expr \o <<Tok(")"), Do("block"), Do("else")>>)
  BY <1>1, <1>2, <1>3, EnterKeeps
<1>4. CASE See("else") /\ IF Kind = "else" THEN Take(<<Do("else_block")>>) ELSE Keep(<<>>)
  <2>1. todo # <<>> /\ Top.do \notin Special /\ Peeked /\ UNCHANGED nodes
    BY <1>2, <1>4, SeenIs
  <2> QED
    BY <1>1, <1>2, <1>4, <2>1, NeutralKeeps
<1>5. CASE See("else_block") /\ Keep(IF Kind = "if" THEN <<Do("if")>> ELSE <<Do("block")>>)
  <2>1. todo # <<>> /\ Top.do \notin Special /\ Peeked /\ nodes' = nodes
    BY <1>2, <1>5, SeenIs
  <2>2. CASE Kind = "if" /\ Keep(<<Do("if")>>)
    <3> DEFINE s == <<Do("if")>>
    <3>1. Orderly(s) /\ Level(s) /\ Even(s) /\ s[1].do = "if"
      BY <1>2, OtherBodies
    <3> HIDE DEF s
    <3>2. Keep(s)
      BY <2>2 DEF s
    <3> QED
      BY <2>1, <2>2, <3>1, <3>2, PlainKeeps
  <2>3. CASE Kind # "if" /\ Keep(<<Do("block")>>)
    BY <1>1, <2>1, <2>3, NeutralKeeps
  <2> QED
    BY <1>5, <2>2, <2>3
<1> QED
  BY <1>3, <1>4, <1>5 DEF parse_if_stmt

LEMMA WhileKeeps == IInv /\ parse_while_stmt => IInv'
<1>1. /\ Neutral(<<Tok("(")>> \o Expr \o <<Tok(")"), Do("block")>>)
      /\ "while" \in Sure
  BY ParenthesisedBodies, InertDo DEF Sure
<1> QED
  BY <1>1, EnterKeeps DEF parse_while_stmt

LEMMA ForKeeps == IInv /\ parse_for_stmt => IInv'
<1> SUFFICES ASSUME IInv, parse_for_stmt PROVE IInv'
  OBVIOUS
<1> DEFINE all == <<Tok("("), Do("for_init"), Item("expr_before", ";", 0), Tok(";"),
                    Item("expr_before", ")", 0), Tok(")"), Do("block")>>
<1>1. /\ Neutral(<<>>) /\ Neutral(Expr) /\ Neutral(Expr \o <<Tok(";")>>) /\ Neutral(all)
  <2>1. Neutral(all)
    BY BracketedBodies, InertDo, InertTok
  <2>2. <<Tok(";")>> \in Seq(Inert)
    BY InertTok, OneInert
  <2> QED
    BY <2>1, <2>2, InertBodies, ExprNeutral
<1>2. {"for_init", "expr_before"} \cap Special = {} /\ "for" \in Sure /\ "let" \in Sure /\ ";" \notin BracketKinds
  BY BracketKindsAre DEF Special, Valuing, Sure
<1>3. CASE Enter("for", all)
  <2> HIDE DEF all
  <2> QED
    BY <1>1, <1>2, <1>3, EnterKeeps
<1>4. CASE /\ See("for_init")
           /\ CASE Kind = ";" -> Take(<<>>)
                [] Kind = "let" -> Keep(<<Do("let")>>)
                [] OTHER -> Keep(Expr \o <<Tok(";")>>)
  <2>1. todo # <<>> /\ Top.do \notin Special /\ Peeked /\ nodes' = nodes
    BY <1>2, <1>4, SeenIs
  <2>2. CASE Kind = "let" /\ Keep(<<Do("let")>>)
    <3> DEFINE s == <<Do("let")>>
    <3>1. Orderly(s) /\ Level(s) /\ Even(s) /\ s[1].do = "let"
      BY <1>2, OtherBodies
    <3> HIDE DEF s
    <3>2. Keep(s)
      BY <2>2 DEF s
    <3> QED
      BY <2>1, <2>2, <3>1, <3>2, PlainKeeps
  <2>3. CASE \/ Kind = ";" /\ Take(<<>>)
             \/ Keep(Expr \o <<Tok(";")>>)
    BY <1>1, <1>2, <2>1, <2>3, NeutralKeeps
  <2> QED
    BY <1>4, <2>2, <2>3
<1>5. CASE See("expr_before") /\ IF Kind = Top.kind THEN Keep(<<>>) ELSE Keep(Expr)
  <2>1. todo # <<>> /\ Top.do \notin Special /\ Peeked /\ UNCHANGED nodes
    BY <1>2, <1>5, SeenIs
  <2> QED
    BY <1>1, <1>5, <2>1, NeutralKeeps
<1> QED
  BY <1>3, <1>4, <1>5 DEF parse_for_stmt

LEMMA ReturnKeeps == IInv /\ parse_return_stmt => IInv'
<1>1. Neutral(<<Item("expr_before", ";", 0), Tok(";")>>) /\ "return" \in Sure
  BY InertBodies, InertTok DEF Sure
<1> QED
  BY <1>1, EnterKeeps DEF parse_return_stmt

LEMMA ExprOrAssignKeeps == IInv /\ parse_expr_or_assign_stmt => IInv'
<1> SUFFICES ASSUME IInv, parse_expr_or_assign_stmt PROVE IInv'
  OBVIOUS
<1>1. Neutral(<<Tok(";")>>) /\ Neutral(Expr \o <<Tok(";")>>) /\ Neutral(Expr \o <<Do("assign")>>)
  <2>1. <<Tok(";")>> \in Seq(Inert) /\ <<Do("assign")>> \in Seq(Inert)
    BY InertTok, InertDo, OneInert
  <2> QED
    BY <2>1, InertNeutral, ExprNeutral
<1>2. {"expr_or_assign", "assign"} \cap Special = {} /\ Assigning \cap BracketKinds = {}
  BY BracketKindsAre DEF Special, Valuing, Assigning
<1>3. CASE In("expr_or_assign") /\ UNCHANGED nodes /\ Keep(Expr \o <<Do("assign")>>)
  <2>1. todo # <<>> /\ Top.do \notin Special /\ UNCHANGED nodes
    BY <1>2, <1>3 DEF In
  <2> QED
    BY <1>1, <1>3, <2>1, NeutralKeeps
<1>4. CASE See("assign") /\ IF Kind \in Assigning THEN Take(Expr \o <<Tok(";")>>) ELSE Keep(<<Tok(";")>>)
  <2>1. todo # <<>> /\ Top.do \notin Special /\ Peeked /\ UNCHANGED nodes
    BY <1>2, <1>4, SeenIs
  <2> QED
    BY <1>1, <1>2, <1>4, <2>1, NeutralKeeps
<1> QED
  BY <1>3, <1>4 DEF parse_expr_or_assign_stmt

LEMMA StmtKeeps == IInv /\ parse_stmt => IInv'
<1> SUFFICES ASSUME IInv, parse_stmt PROVE IInv'
  OBVIOUS
<1>1. /\ Neutral(<<>>) /\ Neutral(<<Do("block")>>) /\ Neutral(<<Do("arena_name")>>)
      /\ Neutral(<<Do("expr_or_assign")>>) /\ Neutral(<<Tok(";")>>)
  BY InertBodies, InertDo, InertTok
<1>2. {"stmt", "arena_name"} \cap Special = {} /\ {"arena", "ident"} \cap BracketKinds = {}
  BY BracketKindsAre DEF Special, Valuing
<1>3. CASE /\ See("stmt")
           /\ CASE Kind \in Sure -> Keep(IF Kind \in {"fn", "struct"} THEN <<Do("expr_or_assign")>> ELSE <<Do(Kind)>>)
                [] Kind = "{" -> Keep(<<Do("block")>>)
                [] Kind = "arena" -> Take(<<Do("arena_name")>>)
                [] OTHER -> Keep(<<Do("expr_or_assign")>>)
  <2>1. todo # <<>> /\ Top.do \notin Special /\ Peeked /\ nodes' = nodes
    BY <1>2, <1>3, SeenIs
  <2>2. CASE Kind \in Sure /\ Keep(<<Do(Kind)>>)
    <3> DEFINE s == <<Do(Kind)>>
    <3>1. Orderly(s) /\ Level(s) /\ Even(s) /\ s[1].do = Kind
      BY <2>2, OtherBodies
    <3>2. Keep(s)
      BY <2>2
    <3> HIDE DEF s
    <3> QED
      BY <2>1, <2>2, <3>1, <3>2, PlainKeeps
  <2>3. CASE \/ Keep(<<Do("block")>>)
             \/ Keep(<<Do("expr_or_assign")>>)
             \/ Kind = "arena" /\ Take(<<Do("arena_name")>>)
    BY <1>1, <1>2, <2>1, <2>3, NeutralKeeps
  <2>4. \/ Kind \in Sure /\ Keep(<<Do(Kind)>>)
        \/ Keep(<<Do("block")>>)
        \/ Keep(<<Do("expr_or_assign")>>)
        \/ Kind = "arena" /\ Take(<<Do("arena_name")>>)
    <3>1. CASE Kind \in Sure
      <4>1. Keep(IF Kind \in {"fn", "struct"} THEN <<Do("expr_or_assign")>> ELSE <<Do(Kind)>>)
        BY <1>3, <3>1 DEF Sure
      <4> QED
        BY <3>1, <4>1
    <3>2. CASE Kind \notin Sure
      BY <1>3, <3>2
    <3> QED
      BY <3>1, <3>2
  <2> QED
    BY <2>2, <2>3, <2>4
<1>4. CASE See("arena_name") /\ IF Kind = "ident" THEN Take(<<Tok(";")>>) ELSE Report(<<>>)
  <2>1. todo # <<>> /\ Top.do \notin Special /\ Peeked /\ UNCHANGED nodes
    BY <1>2, <1>4, SeenIs
  <2> QED
    BY <1>1, <1>2, <1>4, <2>1, NeutralKeeps
<1> QED
  BY <1>3, <1>4 DEF parse_stmt

LEMMA BlockKeeps == IInv /\ parse_block => IInv'
<1> SUFFICES ASSUME IInv, parse_block PROVE IInv'
  OBVIOUS
<1>1. /\ Neutral(<<>>) /\ Neutral(<<Tok("{"), Do("stmts"), Tok("}")>>)
      /\ Neutral(<<Tok("("), Name, Tok(")"), Tok(";"), Do("stmts")>>)
      /\ Neutral(<<Do("stmt"), Do("stmts")>>)
  BY InertBodies, BracketedBodies, InertDo, InertTok
<1>2. {"block", "stmts"} \cap Special = {} /\ "ident" \notin BracketKinds
  BY BracketKindsAre DEF Special, Valuing
<1>3. CASE In("block") /\ UNCHANGED nodes /\ Keep(<<Tok("{"), Do("stmts"), Tok("}")>>)
  <2>1. todo # <<>> /\ Top.do \notin Special /\ UNCHANGED nodes
    BY <1>2, <1>3 DEF In
  <2> QED
    BY <1>1, <1>3, <2>1, NeutralKeeps
<1>4. CASE /\ See("stmts")
           /\ CASE Kind \in {"}", "EOF"} -> Keep(<<>>)
                [] current = "reset" -> Take(<<Tok("("), Name, Tok(")"), Tok(";"), Do("stmts")>>)
                [] OTHER -> Keep(<<Do("stmt"), Do("stmts")>>)
  <2>1. todo # <<>> /\ Top.do \notin Special /\ Peeked /\ UNCHANGED nodes
    BY <1>2, <1>4, SeenIs
  <2>2. CASE Kind \in {"}", "EOF"} /\ Keep(<<>>)
    BY <1>1, <2>1, <2>2, NeutralKeeps
  <2>3. CASE current = "reset" /\ Take(<<Tok("("), Name, Tok(")"), Tok(";"), Do("stmts")>>)
    <3>1. Kind = "ident"
      BY <2>3 DEF Kind
    <3> QED
      BY <1>1, <1>2, <2>1, <2>3, <3>1, NeutralKeeps
  <2>4. CASE Keep(<<Do("stmt"), Do("stmts")>>)
    BY <1>1, <2>1, <2>4, NeutralKeeps
  <2>5. \/ Kind \in {"}", "EOF"} /\ Keep(<<>>)
        \/ current = "reset" /\ Take(<<Tok("("), Name, Tok(")"), Tok(";"), Do("stmts")>>)
        \/ Keep(<<Do("stmt"), Do("stmts")>>)
    <3>1. ~ (Kind \in {"}", "EOF"} /\ current = "reset")
      BY DEF Kind
    <3> QED
      BY <1>4, <3>1
  <2> QED
    BY <2>2, <2>3, <2>4, <2>5
<1> QED
  BY <1>3, <1>4 DEF parse_block

LEMMA FnKeeps == IInv /\ parse_fn_decl => IInv'
<1> SUFFICES ASSUME IInv, parse_fn_decl PROVE IInv'
  OBVIOUS
<1>1. /\ Neutral(<<>>) /\ Neutral(<<Do("params")>>) /\ Neutral(<<Do("type")>>)
      /\ Neutral(<<Do("block")>>) /\ Neutral(<<Tok(";")>>)
      /\ Neutral(<<Name, Tok(":"), Do("type"), Do("more_params")>>)
      /\ Neutral(<<Name, Tok("("), Do("params"), Tok(")"), Do("ret_type"), Do("fn_body")>>)
  BY InertBodies, BracketedBodies, InertDo, InertTok
<1>2. /\ {"params", "more_params", "ret_type", "fn_body"} \cap Special = {} /\ "fn" \in Sure
      /\ {",", "->"} \cap BracketKinds = {}
  BY BracketKindsAre DEF Special, Valuing, Sure
<1>3. CASE Enter("fn", <<Name, Tok("("), Do("params"), Tok(")"), Do("ret_type"), Do("fn_body")>>)
  BY <1>1, <1>2, <1>3, EnterKeeps
<1>4. CASE See("params") /\ IF Kind = ")" THEN Keep(<<>>) ELSE Keep(<<Name, Tok(":"), Do("type"), Do("more_params")>>)
  <2>1. todo # <<>> /\ Top.do \notin Special /\ Peeked /\ UNCHANGED nodes
    BY <1>2, <1>4, SeenIs
  <2> QED
    BY <1>1, <1>2, <1>4, <2>1, NeutralKeeps
<1>5. CASE See("more_params") /\ IF Kind = "," THEN Take(<<Do("params")>>) ELSE Keep(<<>>)
  <2>1. todo # <<>> /\ Top.do \notin Special /\ Peeked /\ UNCHANGED nodes
    BY <1>2, <1>5, SeenIs
  <2> QED
    BY <1>1, <1>2, <1>5, <2>1, NeutralKeeps
<1>6. CASE See("ret_type") /\ IF Kind = "->" THEN Take(<<Do("type")>>) ELSE Keep(<<>>)
  <2>1. todo # <<>> /\ Top.do \notin Special /\ Peeked /\ UNCHANGED nodes
    BY <1>2, <1>6, SeenIs
  <2> QED
    BY <1>1, <1>2, <1>6, <2>1, NeutralKeeps
<1>7. CASE See("fn_body") /\ IF Kind = "{" THEN Keep(<<Do("block")>>) ELSE Keep(<<Tok(";")>>)
  <2>1. todo # <<>> /\ Top.do \notin Special /\ Peeked /\ UNCHANGED nodes
    BY <1>2, <1>7, SeenIs
  <2> QED
    BY <1>1, <1>7, <2>1, NeutralKeeps
<1> QED
  BY <1>3, <1>4, <1>5, <1>6, <1>7 DEF parse_fn_decl

LEMMA StructKeeps == IInv /\ parse_struct_decl => IInv'
<1> SUFFICES ASSUME IInv, parse_struct_decl PROVE IInv'
  OBVIOUS
<1>1. /\ Neutral(<<>>) /\ Neutral(<<Name, Tok("{"), Do("fields"), Tok("}")>>)
      /\ Neutral(<<Name, Tok(":"), Do("type"), Do("comma"), Do("fields")>>)
  BY InertBodies, BracketedBodies, InertDo, InertTok
<1>2. {"fields", "comma"} \cap Special = {} /\ "struct" \in Sure /\ "," \notin BracketKinds
  BY BracketKindsAre DEF Special, Valuing, Sure
<1>3. CASE Enter("struct", <<Name, Tok("{"), Do("fields"), Tok("}")>>)
  BY <1>1, <1>2, <1>3, EnterKeeps
<1>4. CASE /\ See("fields")
           /\ IF Kind = "}" THEN Keep(<<>>)
              ELSE Keep(<<Name, Tok(":"), Do("type"), Do("comma"), Do("fields")>>)
  <2>1. todo # <<>> /\ Top.do \notin Special /\ Peeked /\ UNCHANGED nodes
    BY <1>2, <1>4, SeenIs
  <2> QED
    BY <1>1, <1>4, <2>1, NeutralKeeps
<1>5. CASE See("comma") /\ IF Kind = "," THEN Take(<<>>) ELSE Keep(<<>>)
  <2>1. todo # <<>> /\ Top.do \notin Special /\ Peeked /\ UNCHANGED nodes
    BY <1>2, <1>5, SeenIs
  <2> QED
    BY <1>1, <1>2, <1>5, <2>1, NeutralKeeps
<1> QED
  BY <1>3, <1>4, <1>5 DEF parse_struct_decl

LEMMA NameKeeps == IInv /\ ExpectName => IInv'
<1> SUFFICES ASSUME IInv, ExpectName PROVE IInv'
  OBVIOUS
<1>1. /\ todo # <<>> /\ Top.do = "name" /\ Peeked /\ UNCHANGED nodes
      /\ IF Kind = "ident" THEN Take(<<>>) ELSE Report(<<>>)
  BY DEF ExpectName
<1>2. Neutral(<<>>) /\ "name" \notin Special /\ "ident" \notin BracketKinds
  BY InertBodies, BracketKindsAre DEF Special, Valuing
<1> QED
  BY <1>1, <1>2, NeutralKeeps

-------------------------------------------------------------------------------

\* The stack of brackets cannot tell what the lexer read from what the parser sees.
LEMMA ReadsSeen ==
  ASSUME TypeInv
  PROVE  Read(opened, current) = Read(opened, Kind)
<1>1. opened \in Stacks
  BY DEF TypeInv
<1>2. CASE Kind \in DOMAIN Closer \cup Closers
  BY <1>2, BracketsSeen
<1>3. CASE Kind \notin DOMAIN Closer \cup Closers
  <2>1. Kind # "?"
    BY TokensAre DEF TypeInv, None, Kind
  <2>2. Kind \notin BracketKinds /\ current \notin BracketKinds
    BY <1>3, <2>1, BracketsSeen DEF BracketKinds
  <2> QED
    BY <1>1, <2>2, ReadsNothing
<1> QED
  BY <1>2, <1>3

LEMMA FitsNothing ==
  ASSUME NEW top
  PROVE  Fits(top, <<>>)
<1>1. <<>> \in Seq(Items) /\ DOMAIN <<>> = 1..0 /\ Len(<<>>) = 0
  OBVIOUS
<1>2. \A i : i \notin 1..0 /\ i \notin 2..0
  OBVIOUS
<1> QED
  BY <1>1, <1>2 DEF Fits

LEMMA ExpectKeeps == IInv /\ lexer_expect => IInv'
<1> SUFFICES ASSUME IInv, lexer_expect PROVE IInv'
  OBVIOUS
<1>1. /\ todo # <<>> /\ Top.do = "expect" /\ Peeked /\ nodes' = nodes
      /\ IF Kind = Top.kind THEN Take(<<>>) ELSE Report(<<>>)
  BY SeenIs DEF lexer_expect
<1>2. TypeInv /\ nodes' \in Heights
  BY <1>1 DEF IInv, TypeInv
<1>3. /\ todo' = <<>> \o Rest /\ current' = None /\ fuel' \in Nat /\ errors' \in BOOLEAN
      /\ opened' \in Stacks
  <2>1. CASE Take(<<>>)
    BY <1>1, <1>2, <2>1, Consumed DEF TypeInv
  <2>2. CASE Report(<<>>)
    BY <1>1, <1>2, <2>2, Reported
  <2> QED
    BY <1>1, <2>1, <2>2
<1>4. None \notin {"EOF", "bad"}
  BY DEF None
<1>5. ASSUME ~errors' PROVE ~errors /\ Reads(opened', <<>>, Read(opened, Mark(Top)))
  <2>1. Kind = Top.kind /\ Take(<<>>)
    BY <1>1, <1>2, <1>5, Reported
  <2>2. ~errors /\ opened' = Read(opened, current)
    BY <1>1, <1>2, <1>5, <2>1, Consumed
  <2>3. opened' = Read(opened, Mark(Top))
    BY <1>1, <1>2, <2>1, <2>2, ReadsSeen DEF Mark
  <2>4. Even(<<>>)
    BY InertBodies DEF Neutral
  <2> QED
    BY <1>3, <2>2, <2>3, <2>4 DEF Even
<1>6. \A ms, m \in Heights : Below(ms, nodes) /\ Turns(ms, Top, m) =>
        \E ns \in Heights : Below(ns, nodes') /\ Makes(ns, <<>>, m)
  <2>1. Level(<<>>)
    BY InertBodies DEF Neutral
  <2> QED
    BY <1>1, <2>1 DEF Turns, Valuing, Level
<1>7. \A k : binop_precedence(k) \in Int
  BY PrecedenceBounded
<1>8. Fits(Top, <<>>)
  BY FitsNothing
<1> QED
  BY <1>1, <1>2, <1>3, <1>4, <1>5, <1>6, <1>7, <1>8, MovesOn

\* What is left to show of a procedure that reads no token, that consumes one, and
\* that reports one.
LEMMA KeepMoves ==
  ASSUME IInv, todo # <<>>, Top.do # "expect", NEW items, Keep(items), Fits(Top, items), Even(items),
         nodes' \in Heights,
         \A ms, m \in Heights : Below(ms, nodes) /\ Turns(ms, Top, m) =>
           \E ns \in Heights : Below(ns, nodes') /\ Makes(ns, items, m),
         items # <<>> /\ items[1].do \in Sure => Peeked /\ Kind = items[1].do,
         items = <<>> /\ Top.do \in {"primary", "atom", "postfix", "group", "bin"} => Settled',
         items = <<>> /\ Top.do \in {"expr_prec", "climb"} => Peeked /\ binop_precedence(Kind) < Top.n,
         items = <<>> /\ Top.do = "program" /\ ~errors => current = "EOF"
  PROVE  IInv'
<1>1. /\ current' = current /\ fuel' = fuel /\ opened' = opened /\ errors' = errors
      /\ todo' = items \o Rest
  BY DEF Keep, Body, lexer
<1>2. TypeInv /\ Reads(opened, items, opened)
  BY DEF IInv, TypeInv, Even
<1>3. Peeked' = Peeked /\ Kind' = Kind
  BY <1>1 DEF Peeked, Kind
<1>4. Read(opened, Mark(Top)) = opened
  BY <1>2, BracketKindsAre, ReadsNothing DEF Mark, TypeInv
<1>5. \A k : binop_precedence(k) \in Int
  BY PrecedenceBounded
<1>6. /\ opened' \in Stacks /\ current' \in TokenKinds \cup {None, "EOF"} /\ fuel' \in Nat
      /\ errors' \in BOOLEAN /\ (current' = "EOF" => fuel' = 0) /\ (current' = "bad" => errors')
  BY <1>1, <1>2 DEF TypeInv
<1>7. ~errors' => ~errors /\ Reads(opened', items, Read(opened, Mark(Top)))
  BY <1>1, <1>2, <1>4
<1>8. items = <<>> /\ Top.do \in {"expr_prec", "climb"} => Peeked' /\ binop_precedence(Kind') < Top.n
  BY <1>3
<1> QED
  BY <1>1, <1>3, <1>5, <1>6, <1>7, <1>8, MovesOn

LEMMA TakeMoves ==
  ASSUME IInv, todo # <<>>, Top.do # "expect", Peeked, NEW items, Take(items), Fits(Top, items),
         items # <<>>, items[1].do \notin Sure, nodes' \in Heights,
         \/ Kind \notin BracketKinds /\ Even(items)
         \/ Kind \in DOMAIN Closer /\ Closing(Kind, items),
         \A ms, m \in Heights : Below(ms, nodes) /\ Turns(ms, Top, m) =>
           \E ns \in Heights : Below(ns, nodes') /\ Makes(ns, items, m)
  PROVE  IInv'
<1>0. TypeInv
  BY DEF IInv
<1>1. /\ todo' = items \o Rest /\ current' = None /\ fuel' \in Nat /\ errors' = errors
      /\ opened' \in Stacks /\ (~errors => opened' = Read(opened, current))
  BY <1>0, Consumed
<1>2. Read(opened, Mark(Top)) = opened
  BY <1>0, BracketKindsAre, ReadsNothing DEF Mark, TypeInv
<1>3. ASSUME ~errors PROVE Reads(opened', items, opened)
  <2>1. opened' = Read(opened, Kind)
    BY <1>0, <1>1, <1>3, ReadsSeen
  <2>2. CASE Kind \notin BracketKinds /\ Even(items)
    <3>1. opened' = opened
      BY <1>0, <2>1, <2>2, ReadsNothing DEF TypeInv
    <3> QED
      BY <1>0, <2>2, <3>1 DEF Even, TypeInv
  <2>3. CASE Kind \in DOMAIN Closer /\ Closing(Kind, items)
    <3>1. opened' = <<Closer[Kind]>> \o opened
      BY <1>0, <2>1, <2>3, ReadsBrackets DEF TypeInv
    <3> QED
      BY <1>0, <2>3, <3>1 DEF Closing, TypeInv
  <2> QED
    BY <2>2, <2>3
<1>4. None \notin {"EOF", "bad"} /\ errors \in BOOLEAN
  BY <1>0 DEF None, TypeInv
<1>5. \A k : binop_precedence(k) \in Int
  BY PrecedenceBounded
<1>6. ~errors' => ~errors /\ Reads(opened', items, Read(opened, Mark(Top)))
  BY <1>1, <1>2, <1>3
<1> QED
  BY <1>1, <1>4, <1>5, <1>6, MovesOn

LEMMA ReportMoves ==
  ASSUME IInv, todo # <<>>, Peeked, NEW items, Report(items), Fits(Top, items),
         items # <<>>, items[1].do \notin Sure, nodes' \in Heights,
         \A ms, m \in Heights : Below(ms, nodes) /\ Turns(ms, Top, m) =>
           \E ns \in Heights : Below(ns, nodes') /\ Makes(ns, items, m)
  PROVE  IInv'
<1>0. TypeInv
  BY DEF IInv
<1>1. /\ todo' = items \o Rest /\ current' = None /\ fuel' \in Nat /\ errors' = TRUE
      /\ opened' \in Stacks
  BY <1>0, Reported
<1>2. None \notin {"EOF", "bad"}
  BY DEF None
<1>3. \A k : binop_precedence(k) \in Int
  BY PrecedenceBounded
<1> QED
  BY <1>1, <1>2, <1>3, MovesOn

\* The declarations of a text: the pending one looks for the next.
LEMMA DeclarationBodies ==
  LET p == Do("program") IN
  /\ \A f \in {"fn", "struct"} : LET s == <<Do(f), p>> IN
       /\ \A top : top.do = "program" => Fits(top, s)
       /\ Even(s) /\ Level(s) /\ s[1].do = f
  /\ \A s \in {<<Name, Tok(";"), p>>, <<p>>} :
       /\ \A top : top.do = "program" => Fits(top, s)
       /\ Even(s) /\ Level(s) /\ s[1].do \notin Sure
<1> DEFINE p == Do("program")
<1>1. p \in Items /\ p.do = "program" /\ Mark(p) = "" /\ "" \notin BracketKinds
  BY BracketKindsAre DEF Do, Item, Items, Acts, Mark
<1> HIDE DEF p
<1>2. \A ns : Turns(ns, p, ns)
  BY <1>1 DEF Turns, Valuing
<1>3. ASSUME NEW s \in Seq(Items), s # <<>>, s[Len(s)] = p,
             \A i \in DOMAIN s : i # Len(s) => /\ s[i].do \notin Valuing \cup {"program"}
                                               /\ Mark(s[i]) \notin BracketKinds,
             \A i \in 2..Len(s) : s[i].do \notin Sure
      PROVE  /\ \A top : top.do = "program" => Fits(top, s)
             /\ Even(s) /\ Level(s)
  <2>1. DOMAIN s = 1..Len(s) /\ Len(s) \in Nat /\ Len(s) \in DOMAIN s
    BY <1>3
  <2>2. \A i \in DOMAIN s : s[i].do \notin Valuing /\ Mark(s[i]) \notin BracketKinds
    BY <1>1, <1>3 DEF Valuing
  <2>3. Even(s)
    BY <1>3, <2>2, EvenPlain
  <2>4. \A ns : \A i \in DOMAIN s : Turns(ns, s[i], ns)
    BY <2>2 DEF Turns, Valuing
  <2>5. Level(s)
    BY <1>3, <2>4, LevelPlain DEF Level
  <2>6. \A i \in DOMAIN s : s[i].do = "program" <=> i = Len(s)
    BY <1>1, <1>3, <2>1
  <2>7. \A i \in DOMAIN s : s[i].do \notin {"climb", "bin"}
    BY <2>2 DEF Valuing
  <2>8. \A i \in 2..Len(s) : i \in DOMAIN s
    BY <2>1
  <2>9. 1 \in DOMAIN s
    BY <2>1
  <2>10. \A i \in 2..Len(s) : s[i].do \notin Sure /\ Follows(s[i - 1], s[i])
    BY <1>3, <2>7, <2>8 DEF Follows
  <2>11. ASSUME NEW top, top.do = "program" PROVE Fits(top, s)
    <3>1. \A b : Follows(top, b) => b.do \notin {"climb", "bin"}
      BY <2>11 DEF Follows
    <3>2. \A b : Follows(top, b) => Follows(s[Len(s)], b)
      BY <3>1 DEF Follows
    <3> QED
      BY <1>3, <2>6, <2>7, <2>9, <2>10, <2>11, <3>2 DEF Fits
  <2> QED
    BY <2>3, <2>5, <2>11
<1>4. ASSUME NEW f \in {"fn", "struct"}
      PROVE  LET s == <<Do(f), p>> IN
             /\ \A top : top.do = "program" => Fits(top, s)
             /\ Even(s) /\ Level(s) /\ s[1].do = f
  <2> DEFINE d == Do(f)
             s == <<d, p>>
  <2>1. d \in Items /\ d.do = f /\ Mark(d) = ""
    BY DEF Do, Item, Items, Acts, Mark
  <2> HIDE DEF d
  <2>2. s \in Seq(Items) /\ s # <<>> /\ Len(s) = 2 /\ DOMAIN s = 1..2 /\ s[1] = d /\ s[2] = p
    <3>1. d \in Items /\ p \in Items
      BY <1>1, <2>1
    <3> QED
      BY ONLY <3>1
  <2> HIDE DEF s
  <2>3. \A i \in DOMAIN s : i # Len(s) => i = 1
    BY <2>2
  <2>4. \A i \in 2..Len(s) : i = 2
    BY <2>2
  <2>5. f \notin Valuing \cup {"program"} /\ "program" \notin Sure
    BY DEF Valuing, Sure
  <2>6. \A i \in DOMAIN s : i # Len(s) => s[i].do \notin Valuing \cup {"program"} /\ Mark(s[i]) \notin BracketKinds
    BY <1>1, <2>1, <2>2, <2>3, <2>5
  <2>7. \A i \in 2..Len(s) : s[i].do \notin Sure
    BY <1>1, <2>2, <2>4, <2>5
  <2>8. s[Len(s)] = p
    BY <2>2
  <2>9. /\ \A top : top.do = "program" => Fits(top, s)
        /\ Even(s) /\ Level(s)
    BY <1>3, <2>2, <2>6, <2>7, <2>8
  <2> QED
    BY <2>1, <2>2, <2>9 DEF s, d
<1>5. LET s == <<Name, Tok(";"), p>> IN
      /\ \A top : top.do = "program" => Fits(top, s)
      /\ Even(s) /\ Level(s) /\ s[1].do \notin Sure
  <2> DEFINE a == Name
             b == Tok(";")
             s == <<a, b, p>>
  <2>1. /\ a \in Inert /\ b \in Inert /\ a \in Items /\ b \in Items
    BY InertTok DEF Inert
  <2> HIDE DEF a, b
  <2>2. /\ s \in Seq(Items) /\ s # <<>> /\ Len(s) = 3 /\ DOMAIN s = 1..3
        /\ s[1] = a /\ s[2] = b /\ s[3] = p
    <3>1. a \in Items /\ b \in Items /\ p \in Items
      BY <1>1, <2>1
    <3> QED
      BY ONLY <3>1
  <2> HIDE DEF s
  <2>3. \A i \in DOMAIN s : i # Len(s) => s[i] \in Inert
    BY <2>1, <2>2
  <2>4. \A i \in 2..Len(s) : s[i] \in {b, p}
    BY <2>2
  <2>5. "program" \notin Sure
    BY DEF Sure
  <2>6. \A i \in DOMAIN s : i # Len(s) => s[i].do \notin Valuing \cup {"program"} /\ Mark(s[i]) \notin BracketKinds
    BY <2>3 DEF Inert
  <2>7. \A i \in 2..Len(s) : s[i].do \notin Sure
    BY <1>1, <2>1, <2>4, <2>5 DEF Inert
  <2>8. s[Len(s)] = p /\ s[1].do \notin Sure
    BY <2>1, <2>2 DEF Inert
  <2>9. /\ \A top : top.do = "program" => Fits(top, s)
        /\ Even(s) /\ Level(s)
    BY <1>3, <2>2, <2>6, <2>7, <2>8
  <2> QED
    BY <2>8, <2>9 DEF s, a, b
<1>6. LET s == <<p>> IN
      /\ \A top : top.do = "program" => Fits(top, s)
      /\ Even(s) /\ Level(s) /\ s[1].do \notin Sure
  <2> DEFINE s == <<p>>
  <2>1. /\ s \in Seq(Items) /\ s # <<>> /\ Len(s) = 1 /\ DOMAIN s = 1..1 /\ s[1] = p
    <3>1. p \in Items
      BY <1>1
    <3> QED
      BY ONLY <3>1
  <2> HIDE DEF s
  <2>2. (\A i \in DOMAIN s : i = Len(s)) /\ (\A i : i \notin 2..Len(s)) /\ s[Len(s)] = p
    BY <2>1
  <2>3. s[1].do \notin Sure
    BY <1>1, <2>1 DEF Sure
  <2>4. /\ \A top : top.do = "program" => Fits(top, s)
        /\ Even(s) /\ Level(s)
    BY <1>3, <2>1, <2>2
  <2> QED
    BY <2>3, <2>4 DEF s
<1> QED
  BY <1>4, <1>5, <1>6 DEF p

LEMMA ParseKeeps == IInv /\ parser_parse => IInv'
<1> SUFFICES ASSUME IInv, parser_parse PROVE IInv'
  OBVIOUS
<1>1. /\ todo # <<>> /\ Top.do = "program" /\ Peeked /\ nodes' = nodes
  BY SeenIs DEF parser_parse
<1>2. TypeInv /\ nodes' \in Heights
  BY <1>1 DEF IInv, TypeInv
<1>3. ASSUME NEW items, Level(items)
      PROVE  \A ms, m \in Heights : Below(ms, nodes) /\ Turns(ms, Top, m) =>
               \E ns \in Heights : Below(ns, nodes') /\ Makes(ns, items, m)
  BY <1>1, <1>3 DEF Turns, Valuing, Level
<1>4. CASE Kind = "EOF" /\ Keep(<<>>)
  <2>1. Even(<<>>) /\ Level(<<>>) /\ Fits(Top, <<>>)
    BY InertBodies, FitsNothing DEF Neutral
  <2>2. ~errors => current = "EOF"
    BY <1>2, <1>4, BracketsSeen
  <2> QED
    BY <1>1, <1>2, <1>3, <1>4, <2>1, <2>2, KeepMoves
<1>5. CASE Kind \in {"fn", "struct"} /\ Keep(<<Do(Kind), Do("program")>>)
  <2> DEFINE s == <<Do(Kind), Do("program")>>
  <2>1. Fits(Top, s) /\ Even(s) /\ Level(s) /\ s[1].do = Kind
    BY <1>1, <1>5, DeclarationBodies
  <2>2. s # <<>> /\ Keep(s)
    BY <1>5
  <2> HIDE DEF s
  <2> QED
    BY <1>1, <1>2, <1>3, <2>1, <2>2, KeepMoves
<1>6. CASE Kind = "arena" /\ Take(<<Name, Tok(";"), Do("program")>>)
  <2> DEFINE s == <<Name, Tok(";"), Do("program")>>
  <2>1. Fits(Top, s) /\ Even(s) /\ Level(s) /\ s[1].do \notin Sure
    BY <1>1, DeclarationBodies
  <2>2. s # <<>> /\ Take(s) /\ Kind \notin BracketKinds
    BY <1>6, BracketKindsAre
  <2> HIDE DEF s
  <2> QED
    BY <1>1, <1>2, <1>3, <2>1, <2>2, TakeMoves
<1>7. CASE Report(<<Do("program")>>)
  <2> DEFINE s == <<Do("program")>>
  <2>1. Fits(Top, s) /\ Even(s) /\ Level(s) /\ s[1].do \notin Sure
    BY <1>1, DeclarationBodies
  <2>2. s # <<>> /\ Report(s)
    BY <1>7
  <2> HIDE DEF s
  <2> QED
    BY <1>1, <1>2, <1>3, <2>1, <2>2, ReportMoves
<1> QED
  BY <1>4, <1>5, <1>6, <1>7 DEF parser_parse

-------------------------------------------------------------------------------

\* Lists that read an operand.
Operand(items) ==
  /\ items # <<>> /\ items[1].do \notin Sure
  /\ \A top : top.do = "primary" => Fits(top, items)
  /\ \A ns \in Heights : Makes(ns, items, Append(ns, Primary))

LEMMA OperandItems ==
  \A a \in {"primary", "atom", "postfix", "group"} :
    Do(a) \in Calm /\ Do(a).do = a /\ Mark(Do(a)) = ""
<1> SUFFICES ASSUME NEW a \in {"primary", "atom", "postfix", "group"}
             PROVE  Do(a) \in Calm /\ Do(a).do = a /\ Mark(Do(a)) = ""
  OBVIOUS
<1>1. Do(a).do = a /\ Mark(Do(a)) = ""
  BY DEF Do, Item, Mark
<1>2. a \in Acts /\ a \notin Sure \cup {"program", "climb", "bin"}
  BY DEF Acts, Sure
<1>3. Do(a) \in Items
  BY <1>2 DEF Do, Item, Items
<1> QED
  BY <1>1, <1>2, <1>3 DEF Calm

LEMMA OperandFits ==
  ASSUME NEW top, top.do \in {"primary", "postfix"}, NEW items \in Seq(Calm), items # <<>>,
         items[Len(items)].do \in {"primary", "atom", "postfix", "group"}
  PROVE  Fits(top, items)
<1>1. /\ items \in Seq(Items) /\ DOMAIN items = 1..Len(items) /\ Len(items) \in Nat
      /\ \A i \in DOMAIN items : items[i].do \notin Sure \cup {"program", "climb", "bin"}
  BY DEF Calm
<1>2. 1 \in DOMAIN items /\ \A i \in 2..Len(items) : i \in DOMAIN items
  BY <1>1
<1>3. \A i \in 2..Len(items) : items[i].do \notin Sure /\ Follows(items[i - 1], items[i])
  BY <1>1, <1>2 DEF Follows
<1>4. \A b : Follows(top, b) => Follows(items[Len(items)], b)
  BY DEF Follows
<1> QED
  BY <1>1, <1>2, <1>3, <1>4 DEF Fits

LEMMA OperandOne ==
  ASSUME NEW items \in Seq(Calm), NEW e \in DOMAIN items, items[e].do \in {"primary", "atom"},
         \A i \in DOMAIN items : i # e => \/ items[i] \in Inert \cup {Tok("("), Tok(")")}
                                          \/ i > e /\ items[i].do = "postfix",
         items[Len(items)].do \in {"primary", "atom", "postfix", "group"}
  PROVE  Operand(items)
<1>1. items \in Seq(Items) /\ items # <<>> /\ items[1].do \notin Sure
  BY CalmOrderly
<1>2. \A top : top.do = "primary" => Fits(top, items)
  BY <1>1, OperandFits
<1>3. ASSUME NEW ns \in Heights PROVE Makes(ns, items, Append(ns, Primary))
  <2> DEFINE more == Append(ns, Primary)
  <2>1. more \in Heights /\ more # <<>> /\ more[Len(more)] = Primary /\ Primary >= Primary
    BY PrimaryIs, Grown
  <2>2. Turns(ns, items[e], more)
    BY DEF Turns, Valuing
  <2> HIDE DEF more
  <2>3. ASSUME NEW i \in DOMAIN items, i # e
        PROVE  /\ i < e => Turns(ns, items[i], ns)
               /\ i > e => Turns(more, items[i], more)
    <3>1. CASE items[i] \in Inert \cup {Tok("("), Tok(")")}
      BY <3>1, InertTurns
    <3>2. CASE i > e /\ items[i].do = "postfix"
      <4>1. Turns(more, items[i], more)
        BY <2>1, <3>2 DEF Turns, Ends, Valuing
      <4>2. i \in Int /\ e \in Int
        BY <1>1
      <4> QED
        BY <3>2, <4>1, <4>2
    <3> QED
      BY <2>3, <3>1, <3>2
  <2>4. \A i \in DOMAIN items : /\ i < e => Turns(ns, items[i], ns)
                                /\ i > e => Turns(more, items[i], more)
    <3>1. e \in Int /\ \A i \in DOMAIN items : i \in Int
      BY <1>1
    <3>2. ~ (e < e) /\ ~ (e > e)
      BY <3>1
    <3> QED
      BY <2>3, <3>2
  <2> QED
    BY <1>1, <2>1, <2>2, <2>4, MakesOne DEF more
<1> QED
  BY <1>1, <1>2, <1>3 DEF Operand

LEMMA OperandBodies ==
  /\ Operand(<<Do("atom")>>) /\ Even(<<Do("atom")>>)
  /\ Operand(<<Do("primary")>>) /\ Even(<<Do("primary")>>)
  /\ Operand(<<Do("atom"), Do("postfix")>>) /\ Even(<<Do("atom"), Do("postfix")>>)
  /\ Operand(<<Prec(1), Tok(")"), Do("group")>>) /\ Closing("(", <<Prec(1), Tok(")"), Do("group")>>)
  /\ \A a \in Inert : LET s == <<Tok("("), a, Tok(")"), Do("atom")>> IN Operand(s) /\ Even(s)
  /\ \A a, b, c \in Inert : LET s == <<Tok("("), a, b, c, Tok(")"), Do("atom")>> IN Operand(s) /\ Even(s)
<1> DEFINE at == Do("atom")
           po == Do("postfix")
           lp == Tok("(")
           rp == Tok(")")
           ex == Prec(1)
           gr == Do("group")
<1>0. /\ at \in Calm /\ at.do = "atom" /\ Mark(at) = ""
      /\ po \in Calm /\ po.do = "postfix" /\ Mark(po) = ""
      /\ gr \in Calm /\ gr.do = "group" /\ Mark(gr) = ""
      /\ lp \in Calm /\ rp \in Calm /\ Mark(lp) = "(" /\ Mark(rp) = ")"
      /\ ex \in Calm /\ Mark(ex) = "" /\ Inert \subseteq Calm /\ Calm \subseteq Items
      /\ "(" \in DOMAIN Closer /\ Closer["("] = ")" /\ "" \notin BracketKinds
      /\ \A a \in Inert : Mark(a) \notin BracketKinds
      /\ lp = Tok("(") /\ rp = Tok(")")
  BY OperandItems, OtherItems, BracketKindsAre DEF Inert, Calm
<1>1. ASSUME NEW f \in {"atom", "primary"}
      PROVE  Operand(<<Do(f)>>) /\ Even(<<Do(f)>>)
  <2> DEFINE d == Do(f)
             s == <<d>>
  <2>1. d \in Calm /\ d.do = f /\ Mark(d) \notin BracketKinds
    BY <1>0, OperandItems
  <2> HIDE DEF d
  <2>2. s \in Seq(Calm) /\ DOMAIN s = 1..1 /\ Len(s) = 1 /\ s[1] = d
    <3>1. d \in Calm
      BY <2>1
    <3> QED
      BY ONLY <3>1
  <2> HIDE DEF s
  <2>3. \A i \in DOMAIN s : i = 1
    BY <2>2
  <2>4. Operand(s)
    BY <2>1, <2>2, <2>3, OperandOne
  <2>5. Even(s)
    <3>1. s \in Seq(Items)
      BY <2>2, CalmOrderly
    <3> QED
      BY <2>1, <2>2, <2>3, <3>1, EvenPlain
  <2> QED
    BY <2>4, <2>5 DEF s, d
<1> HIDE DEF at, po, lp, rp, ex, gr
<1>2. Operand(<<at, po>>) /\ Even(<<at, po>>)
  <2> DEFINE s == <<at, po>>
  <2>2. s \in Seq(Calm) /\ DOMAIN s = 1..2 /\ Len(s) = 2 /\ s[1] = at /\ s[2] = po
    <3>1. at \in Calm /\ po \in Calm
      BY <1>0
    <3> QED
      BY ONLY <3>1
  <2> HIDE DEF s
  <2>3. \A i \in DOMAIN s : (i = 1 /\ s[i] = at) \/ (i = 2 /\ i > 1 /\ s[i] = po)
    BY <2>2
  <2>4. Operand(s)
    <3>0. 1 \in DOMAIN s
      BY <2>2
    <3>1. s[1].do \in {"primary", "atom"}
      BY <1>0, <2>2
    <3>2. \A i \in DOMAIN s : i # 1 => i > 1 /\ s[i].do = "postfix"
      BY <1>0, <2>3
    <3>3. s[Len(s)].do = "postfix"
      BY <1>0, <2>2
    <3> QED
      BY <2>2, <3>0, <3>1, <3>2, <3>3, OperandOne
  <2>5. Even(s)
    <3>1. s \in Seq(Items)
      BY <2>2, CalmOrderly
    <3> QED
      BY <1>0, <2>3, <3>1, EvenPlain
  <2> QED
    BY <2>4, <2>5 DEF s
<1>3. Operand(<<ex, rp, gr>>) /\ Closing("(", <<ex, rp, gr>>)
  <2> DEFINE s == <<ex, rp, gr>>
  <2>1. \A ns \in Heights : Makes(ns, s, Append(ns, Primary))
    BY MakesGroup DEF ex, rp, gr
  <2>2. /\ s \in Seq(Calm) /\ DOMAIN s = 1..3 /\ Len(s) = 3 /\ s[1] = ex /\ s[2] = rp /\ s[3] = gr
    <3>1. ex \in Calm /\ rp \in Calm /\ gr \in Calm
      BY <1>0
    <3> QED
      BY ONLY <3>1
  <2> HIDE DEF s
  <2>3. s \in Seq(Items) /\ s # <<>> /\ s[1].do \notin Sure
    BY <2>2, CalmOrderly
  <2>4. \A top : top.do = "primary" => Fits(top, s)
    <3>1. s[Len(s)].do \in {"primary", "atom", "postfix", "group"}
      BY <1>0, <2>2
    <3> QED
      BY <2>2, <2>3, <3>1, OperandFits
  <2>5. Closing("(", s)
    <3>1. \A i \in DOMAIN s : i # 2 => s[i] \in {ex, gr}
      BY <2>2
    <3>2. \A i \in DOMAIN s : i # 2 => Mark(s[i]) \notin BracketKinds
      BY <1>0, <3>1
    <3>0. 2 \in DOMAIN s
      BY <2>2
    <3>3. Mark(s[2]) = Closer["("]
      BY <1>0, <2>2
    <3> QED
      BY <1>0, <2>3, <3>0, <3>2, <3>3, ClosingAt
  <2> QED
    BY <2>1, <2>3, <2>4, <2>5 DEF s, Operand
<1>4. ASSUME NEW a \in Inert PROVE Operand(<<lp, a, rp, at>>) /\ Even(<<lp, a, rp, at>>)
  <2> DEFINE s == <<lp, a, rp, at>>
  <2>2. /\ s \in Seq(Calm) /\ DOMAIN s = 1..4 /\ Len(s) = 4
        /\ s[1] = lp /\ s[2] = a /\ s[3] = rp /\ s[4] = at
    <3>1. lp \in Calm /\ a \in Calm /\ rp \in Calm /\ at \in Calm
      BY <1>0
    <3> QED
      BY ONLY <3>1
  <2> HIDE DEF s
  <2>3. \A i \in DOMAIN s : i # 4 => s[i] \in Inert \cup {lp, rp}
    BY <2>2
  <2>4. \A i \in DOMAIN s : i \notin {1, 3} => s[i] \in {a, at}
    BY <2>2
  <2>5. Operand(s)
    <3>0. 4 \in DOMAIN s
      BY <2>2
    <3>1. s[4].do \in {"primary", "atom"} /\ s[Len(s)].do \in {"primary", "atom", "postfix", "group"}
      BY <1>0, <2>2
    <3>2. \A i \in DOMAIN s : i # 4 => s[i] \in Inert \cup {Tok("("), Tok(")")}
      BY <1>0, <2>3
    <3> QED
      BY <2>2, <3>0, <3>1, <3>2, OperandOne
  <2>6. Even(s)
    <3>1. s \in Seq(Items) /\ 1 \in DOMAIN s /\ 3 \in DOMAIN s /\ 1 < 3
      BY <2>2, CalmOrderly
    <3>2. Mark(s[1]) = "(" /\ Mark(s[3]) = Closer["("]
      BY <1>0, <2>2
    <3>3. \A i \in DOMAIN s : i \notin {1, 3} => Mark(s[i]) \notin BracketKinds
      BY <1>0, <2>4
    <3> QED
      BY <1>0, <3>1, <3>2, <3>3, EvenPaired
  <2> QED
    BY <2>5, <2>6 DEF s
<1>5. ASSUME NEW a \in Inert, NEW b \in Inert, NEW c \in Inert
      PROVE  Operand(<<lp, a, b, c, rp, at>>) /\ Even(<<lp, a, b, c, rp, at>>)
  <2> DEFINE s == <<lp, a, b, c, rp, at>>
  <2>2. /\ s \in Seq(Calm) /\ DOMAIN s = 1..6 /\ Len(s) = 6
        /\ s[1] = lp /\ s[2] = a /\ s[3] = b /\ s[4] = c /\ s[5] = rp /\ s[6] = at
    <3>1. lp \in Calm /\ a \in Calm /\ b \in Calm /\ c \in Calm /\ rp \in Calm /\ at \in Calm
      BY <1>0
    <3> QED
      BY ONLY <3>1
  <2> HIDE DEF s
  <2>3. \A i \in DOMAIN s : i # 6 => s[i] \in Inert \cup {lp, rp}
    BY <2>2
  <2>4. \A i \in DOMAIN s : i \notin {1, 5} => s[i] \in {a, b, c, at}
    BY <2>2
  <2>5. Operand(s)
    <3>0. 6 \in DOMAIN s
      BY <2>2
    <3>1. s[6].do \in {"primary", "atom"} /\ s[Len(s)].do \in {"primary", "atom", "postfix", "group"}
      BY <1>0, <2>2
    <3>2. \A i \in DOMAIN s : i # 6 => s[i] \in Inert \cup {Tok("("), Tok(")")}
      BY <1>0, <2>3
    <3> QED
      BY <2>2, <3>0, <3>1, <3>2, OperandOne
  <2>6. Even(s)
    <3>1. s \in Seq(Items) /\ 1 \in DOMAIN s /\ 5 \in DOMAIN s /\ 1 < 5
      BY <2>2, CalmOrderly
    <3>2. Mark(s[1]) = "(" /\ Mark(s[5]) = Closer["("]
      BY <1>0, <2>2
    <3>3. \A i \in DOMAIN s : i \notin {1, 5} => Mark(s[i]) \notin BracketKinds
      BY <1>0, <2>4
    <3> QED
      BY <1>0, <3>1, <3>2, <3>3, EvenPaired
  <2> QED
    BY <2>5, <2>6 DEF s
<1> QED
  BY <1>1, <1>2, <1>3, <1>4, <1>5 DEF at, po, lp, rp, ex, gr

LEMMA OperandKeeps ==
  ASSUME IInv, todo # <<>>, Top.do = "primary", UNCHANGED nodes, Peeked, NEW items, Operand(items),
         \/ Take(items) /\ \/ Kind \notin BracketKinds /\ Even(items)
                           \/ Kind \in DOMAIN Closer /\ Closing(Kind, items)
         \/ Report(items)
  PROVE  IInv'
<1>1. /\ items # <<>> /\ items[1].do \notin Sure /\ Fits(Top, items)
      /\ nodes' = nodes /\ nodes' \in Heights
  BY DEF Operand, IInv, TypeInv
<1>2. \A ms, m \in Heights : Below(ms, nodes) /\ Turns(ms, Top, m) =>
        \E ns \in Heights : Below(ns, nodes') /\ Makes(ns, items, m)
  BY <1>1 DEF Turns, Operand
<1>3. CASE Take(items) /\ \/ Kind \notin BracketKinds /\ Even(items)
                          \/ Kind \in DOMAIN Closer /\ Closing(Kind, items)
  BY <1>1, <1>2, <1>3, TakeMoves
<1>4. CASE Report(items)
  BY <1>1, <1>2, <1>4, ReportMoves
<1> QED
  BY <1>3, <1>4

LEMMA PrimaryKeeps == IInv /\ parse_primary => IInv'
<1> SUFFICES ASSUME IInv, parse_primary PROVE IInv'
  OBVIOUS
<1>1. todo # <<>> /\ Top.do = "primary" /\ Peeked /\ UNCHANGED nodes
  BY SeenIs DEF parse_primary
<1>2. /\ ({"num", "str", "true", "ident", "alloc", "sizeof"} \cup Unary) \cap BracketKinds = {}
      /\ "(" \in DOMAIN Closer
  BY BracketKindsAre DEF Unary
<1>3. Name \in Inert /\ Tok(",") \in Inert /\ Do("type") \in Inert
  BY InertTok, InertDo
<1>4. CASE Kind \in {"num", "str", "true"} /\ Take(<<Do("atom")>>)
  BY <1>1, <1>2, <1>4, OperandBodies, OperandKeeps
<1>5. CASE Kind = "ident" /\ Take(<<Do("atom"), Do("postfix")>>)
  BY <1>1, <1>2, <1>5, OperandBodies, OperandKeeps
<1>6. CASE Kind = "(" /\ Take(<<Prec(1), Tok(")"), Do("group")>>)
  BY <1>1, <1>2, <1>6, OperandBodies, OperandKeeps
<1>7. CASE Kind = "alloc" /\ Take(<<Tok("("), Name, Tok(","), Do("type"), Tok(")"), Do("atom")>>)
  <2> DEFINE s == <<Tok("("), Name, Tok(","), Do("type"), Tok(")"), Do("atom")>>
  <2>1. Operand(s) /\ Even(s) /\ Take(s)
    BY <1>3, <1>7, OperandBodies
  <2> HIDE DEF s
  <2> QED
    BY <1>1, <1>2, <1>7, <2>1, OperandKeeps
<1>8. CASE Kind = "sizeof" /\ Take(<<Tok("("), Do("type"), Tok(")"), Do("atom")>>)
  <2> DEFINE s == <<Tok("("), Do("type"), Tok(")"), Do("atom")>>
  <2>1. Operand(s) /\ Even(s) /\ Take(s)
    BY <1>3, <1>8, OperandBodies
  <2> HIDE DEF s
  <2> QED
    BY <1>1, <1>2, <1>8, <2>1, OperandKeeps
<1>9. CASE Kind \in Unary /\ Take(<<Do("primary")>>)
  BY <1>1, <1>2, <1>9, OperandBodies, OperandKeeps
<1>10. CASE Report(<<Do("atom")>>)
  BY <1>1, <1>10, OperandBodies, OperandKeeps
<1> QED
  BY <1>4, <1>5, <1>6, <1>7, <1>8, <1>9, <1>10 DEF parse_primary

-------------------------------------------------------------------------------

LEMMA EndsBelow ==
  ASSUME NEW ms \in Heights, NEW ns \in Heights, Below(ms, ns), NEW p \in Int, Ends(ms, p)
  PROVE  Ends(ns, p)
<1>1. ms # <<>> /\ ms[Len(ms)] >= p /\ Len(ms) = Len(ns) /\ \A i \in 1..Len(ns) : ms[i] <= ns[i]
  BY DEF Ends, Below
<1>2. Len(ms) \in Nat \ {0} /\ ms[Len(ms)] \in 1..Primary
  BY <1>1, Shrunk
<1>3. ns # <<>> /\ Len(ns) \in 1..Len(ns)
  <2>1. Len(<<>>) = 0 /\ Len(ns) \in Nat \ {0}
    BY <1>1, <1>2
  <2> QED
    BY <2>1
<1>4. ns[Len(ns)] \in 1..Primary
  BY <1>3, Shrunk
<1>5. ms[Len(ns)] <= ns[Len(ns)] /\ ms[Len(ns)] >= p
  BY <1>1, <1>3
<1>6. \A a, b, c \in Int : a <= b /\ a >= c => b >= c
  OBVIOUS
<1>7. ms[Len(ns)] \in Int /\ ns[Len(ns)] \in Int
  BY <1>1, <1>2, <1>4
<1> QED
  BY <1>3, <1>5, <1>6, <1>7 DEF Ends

\* The expressions at hand are what the pending item asks for.
LEMMA TopTurns ==
  ASSUME IInv, todo # <<>>
  PROVE  \E ms, m \in Heights : Below(ms, nodes) /\ Turns(ms, Top, m)
<1>1. PICK ms \in Heights : Below(ms, nodes) /\ Makes(ms, todo, <<>>)
  BY DEF IInv, TreeInv
<1>2. PICK m \in Heights : Turns(ms, todo[1], m)
  BY <1>1, MakesSpliced DEF IInv, TypeInv
<1> QED
  BY <1>1, <1>2 DEF Top

\* A whole operand waits for no operator.
LEMMA WholeSettles ==
  ASSUME NEW ns \in Heights, Ends(ns, Primary), NEW k
  PROVE  Ends(ns, binop_precedence(k))
<1>1. ns # <<>> /\ ns[Len(ns)] >= 11 /\ ns[Len(ns)] \in 1..Primary
  BY PrimaryIs, Shrunk DEF Ends
<1>2. binop_precedence(k) \in 0..10
  BY PrecedenceBounded
<1>3. ns[Len(ns)] >= binop_precedence(k)
  BY <1>1, <1>2, PrimaryIs
<1> QED
  BY <1>1, <1>3 DEF Ends

\* Lists that go on from an operand with what belongs to it.
Further(items) ==
  /\ items # <<>> /\ items[1].do \notin Sure
  /\ \A top : top.do = "postfix" => Fits(top, items)
  /\ \A ns \in Heights : Ends(ns, Primary) => Makes(ns, items, ns)

LEMMA FurtherBodies ==
  /\ LET s == <<Do("args"), Tok(")"), Do("postfix")>> IN Further(s) /\ Closing("(", s)
  /\ LET s == Expr \o <<Tok("]"), Do("postfix")>> IN Further(s) /\ Closing("[", s)
  /\ LET s == <<Name, Do("postfix")>> IN Further(s) /\ Even(s)
<1> DEFINE ar == Do("args")
           rp == Tok(")")
           rs == Tok("]")
           po == Do("postfix")
           ex == Prec(1)
           dr == Do("drop")
           na == Name
<1>0. /\ ar \in Inert /\ na \in Inert /\ Inert \subseteq Calm
      /\ \A a \in Inert : Mark(a) \notin BracketKinds
      /\ po \in Calm /\ po.do = "postfix" /\ Mark(po) \notin BracketKinds
      /\ rp \in Calm /\ rs \in Calm /\ Mark(rp) = ")" /\ Mark(rs) = "]"
      /\ ex \in Calm /\ dr \in Calm /\ Mark(ex) \notin BracketKinds /\ Mark(dr) \notin BracketKinds
      /\ "(" \in DOMAIN Closer /\ Closer["("] = ")" /\ "[" \in DOMAIN Closer /\ Closer["["] = "]"
  BY InertDo, InertTok, OperandItems, OtherItems, BracketKindsAre DEF Inert
<1>00. \A ns : Turns(ns, ar, ns) /\ Turns(ns, na, ns) /\ Turns(ns, rp, ns) /\ Turns(ns, rs, ns)
  BY <1>0, InertTurns
<1>01. \A ns : Ends(ns, Primary) => Turns(ns, po, ns)
  BY <1>0 DEF Turns, Valuing
<1> HIDE DEF ar, rp, rs, po, ex, dr, na
<1>1. ASSUME NEW s \in Seq(Calm), s # <<>>, s[Len(s)] = po,
             \A ns \in Heights : Ends(ns, Primary) => Makes(ns, s, ns)
      PROVE  Further(s)
  <2>1. s[1].do \notin Sure
    BY <1>1, CalmOrderly
  <2>2. \A top : top.do = "postfix" => Fits(top, s)
    BY <1>0, <1>1, OperandFits
  <2> QED
    BY <1>1, <2>1, <2>2 DEF Further
<1>2. LET s == <<ar, rp, po>> IN Further(s) /\ Closing("(", s)
  <2> DEFINE s == <<ar, rp, po>>
  <2>1. s \in Seq(Calm) /\ s # <<>> /\ DOMAIN s = 1..3 /\ Len(s) = 3 /\ s[1] = ar /\ s[2] = rp /\ s[3] = po
    <3>1. ar \in Calm /\ rp \in Calm /\ po \in Calm
      BY <1>0
    <3> QED
      BY ONLY <3>1
  <2> HIDE DEF s
  <2>2. s \in Seq(Items) /\ s[Len(s)] = po /\ 2 \in DOMAIN s
    BY <2>1, CalmOrderly
  <2>3. (\A i \in DOMAIN s : s[i] \in {ar, rp, po}) /\ \A i \in DOMAIN s : i # 2 => s[i] \in {ar, po}
    BY <2>1
  <2>4. ASSUME NEW ns \in Heights, Ends(ns, Primary) PROVE Makes(ns, s, ns)
    <3>1. \A i \in DOMAIN s : Turns(ns, s[i], ns)
      BY <1>00, <1>01, <2>3, <2>4
    <3> QED
      BY <2>2, <3>1, LevelPlain
  <2>5. Closing("(", s)
    <3>1. \A i \in DOMAIN s : i # 2 => Mark(s[i]) \notin BracketKinds
      BY <1>0, <2>3
    <3>2. Mark(s[2]) = Closer["("]
      BY <1>0, <2>1
    <3> QED
      BY <1>0, <2>2, <3>1, <3>2, ClosingAt
  <2>6. Further(s)
    BY <1>1, <2>1, <2>2, <2>4
  <2> QED
    BY <2>5, <2>6 DEF s
<1>3. LET s == <<ex, dr>> \o <<rs, po>> IN Further(s) /\ Closing("[", s)
  <2> DEFINE s == <<ex, dr>> \o <<rs, po>>
  <2>1. /\ s \in Seq(Calm) /\ s # <<>> /\ DOMAIN s = 1..4 /\ Len(s) = 4
        /\ s[1] = ex /\ s[2] = dr /\ s[3] = rs /\ s[4] = po
    <3>1. ex \in Calm /\ dr \in Calm /\ rs \in Calm /\ po \in Calm
      BY <1>0
    <3> QED
      BY ONLY <3>1
  <2> HIDE DEF s
  <2>2. s \in Seq(Items) /\ s[Len(s)] = po /\ 3 \in DOMAIN s /\ 1 \in DOMAIN s /\ 1 + 1 \in DOMAIN s
    BY <2>1, CalmOrderly
  <2>3. \A i \in DOMAIN s : /\ i # 3 => s[i] \in {ex, dr, po}
                            /\ i \notin {1, 1 + 1} => s[i] \in {rs, po}
    BY <2>1
  <2>4. ASSUME NEW ns \in Heights, Ends(ns, Primary) PROVE Makes(ns, s, ns)
    <3>1. \A i \in DOMAIN s : i \notin {1, 1 + 1} => Turns(ns, s[i], ns)
      BY <1>00, <1>01, <2>3, <2>4
    <3>2. s[1] = Prec(1) /\ s[1 + 1] = Do("drop")
      BY <2>1 DEF ex, dr
    <3> QED
      BY <2>2, <3>1, <3>2, MakesDropped
  <2>5. Closing("[", s)
    <3>1. \A i \in DOMAIN s : i # 3 => Mark(s[i]) \notin BracketKinds
      BY <1>0, <2>3
    <3>2. Mark(s[3]) = Closer["["]
      BY <1>0, <2>1
    <3> QED
      BY <1>0, <2>2, <3>1, <3>2, ClosingAt
  <2>6. Further(s)
    BY <1>1, <2>1, <2>2, <2>4
  <2> QED
    BY <2>5, <2>6 DEF s
<1>4. LET s == <<na, po>> IN Further(s) /\ Even(s)
  <2> DEFINE s == <<na, po>>
  <2>1. s \in Seq(Calm) /\ s # <<>> /\ DOMAIN s = 1..2 /\ Len(s) = 2 /\ s[1] = na /\ s[2] = po
    <3>1. na \in Calm /\ po \in Calm
      BY <1>0
    <3> QED
      BY ONLY <3>1
  <2> HIDE DEF s
  <2>2. s \in Seq(Items) /\ s[Len(s)] = po
    BY <2>1, CalmOrderly
  <2>3. \A i \in DOMAIN s : s[i] \in {na, po}
    BY <2>1
  <2>4. ASSUME NEW ns \in Heights, Ends(ns, Primary) PROVE Makes(ns, s, ns)
    <3>1. \A i \in DOMAIN s : Turns(ns, s[i], ns)
      BY <1>00, <1>01, <2>3, <2>4
    <3> QED
      BY <2>2, <3>1, LevelPlain
  <2>5. Even(s)
    BY <1>0, <2>2, <2>3, EvenPlain
  <2>6. Further(s)
    BY <1>1, <2>1, <2>2, <2>4
  <2> QED
    BY <2>5, <2>6 DEF s
<1> QED
  BY <1>2, <1>3, <1>4 DEF ar, rp, rs, po, ex, dr, na, Expr

LEMMA FurtherKeeps ==
  ASSUME IInv, todo # <<>>, Top.do = "postfix", UNCHANGED nodes, Peeked, NEW items, Further(items), Take(items),
         \/ Kind \notin BracketKinds /\ Even(items)
         \/ Kind \in DOMAIN Closer /\ Closing(Kind, items)
  PROVE  IInv'
<1>1. /\ items # <<>> /\ items[1].do \notin Sure /\ Fits(Top, items)
      /\ nodes' = nodes /\ nodes' \in Heights
  BY DEF Further, IInv, TypeInv
<1>2. \A ms, m \in Heights : Below(ms, nodes) /\ Turns(ms, Top, m) =>
        \E ns \in Heights : Below(ns, nodes') /\ Makes(ns, items, m)
  BY <1>1 DEF Turns, Further
<1> QED
  BY <1>1, <1>2, TakeMoves

LEMMA PostfixKeeps == IInv /\ Postfix => IInv'
<1> SUFFICES ASSUME IInv, Postfix PROVE IInv'
  OBVIOUS
<1>1. {"args", "more_args"} \cap Special = {} /\ {",", "."} \cap BracketKinds = {} /\ {"(", "["} \subseteq DOMAIN Closer
  BY BracketKindsAre DEF Special, Valuing
<1>2. Neutral(<<>>) /\ Neutral(Expr \o <<Do("more_args")>>) /\ Neutral(<<Do("args")>>)
  BY InertBodies, InertDo, OneInert, ExprNeutral
<1>3. CASE /\ See("postfix")
           /\ CASE Kind = "(" -> Take(<<Do("args"), Tok(")"), Do("postfix")>>)
                [] Kind = "[" -> Take(Expr \o <<Tok("]"), Do("postfix")>>)
                [] Kind = "." -> Take(<<Name, Do("postfix")>>)
                [] OTHER -> Keep(<<>>)
  <2>1. todo # <<>> /\ Top.do = "postfix" /\ Peeked /\ UNCHANGED nodes
    BY <1>3, SeenIs
  <2>2. CASE Kind = "(" /\ Take(<<Do("args"), Tok(")"), Do("postfix")>>)
    BY <1>1, <2>1, <2>2, FurtherBodies, FurtherKeeps
  <2>3. CASE Kind = "[" /\ Take(Expr \o <<Tok("]"), Do("postfix")>>)
    BY <1>1, <2>1, <2>3, FurtherBodies, FurtherKeeps
  <2>4. CASE Kind = "." /\ Take(<<Name, Do("postfix")>>)
    BY <1>1, <2>1, <2>4, FurtherBodies, FurtherKeeps
  <2>5. CASE Keep(<<>>)
    <3>1. nodes' = nodes /\ nodes' \in Heights
      BY <2>1 DEF IInv, TypeInv
    <3>2. Even(<<>>) /\ Level(<<>>) /\ Fits(Top, <<>>)
      BY <1>2, FitsNothing DEF Neutral
    <3>3. PICK ms \in Heights : Below(ms, nodes) /\ Ends(ms, Primary)
      BY <2>1, TopTurns DEF Turns
    <3>4. Ends(nodes, Primary) /\ nodes \in Heights
      BY <3>1, <3>3, EndsBelow, PrimaryIs
    <3>5. Settled'
      <4>1. Ends(nodes', Primary) /\ Ends(nodes', binop_precedence(Kind'))
        BY <3>1, <3>4, WholeSettles
      <4> QED
        BY <4>1 DEF Settled
    <3>6. \A ns, m \in Heights : Below(ns, nodes) /\ Turns(ns, Top, m) =>
            \E os \in Heights : Below(os, nodes') /\ Makes(os, <<>>, m)
      BY <2>1, <3>1, <3>2 DEF Turns, Level
    <3> QED
      BY <2>1, <2>5, <3>1, <3>2, <3>5, <3>6, KeepMoves
  <2> QED
    BY <1>3, <2>2, <2>3, <2>4, <2>5
<1>4. CASE See("args") /\ IF Kind = ")" THEN Keep(<<>>) ELSE Keep(Expr \o <<Do("more_args")>>)
  <2>1. todo # <<>> /\ Top.do \notin Special /\ Peeked /\ UNCHANGED nodes
    BY <1>1, <1>4, SeenIs
  <2> QED
    BY <1>2, <1>4, <2>1, NeutralKeeps
<1>5. CASE See("more_args") /\ IF Kind = "," THEN Take(<<Do("args")>>) ELSE Keep(<<>>)
  <2>1. todo # <<>> /\ Top.do \notin Special /\ Peeked /\ UNCHANGED nodes
    BY <1>1, <1>5, SeenIs
  <2> QED
    BY <1>1, <1>2, <1>5, <2>1, NeutralKeeps
<1> QED
  BY <1>3, <1>4, <1>5 DEF Postfix

-------------------------------------------------------------------------------

LEMMA OperatorsNoBrackets ==
  ASSUME NEW k, binop_precedence(k) >= 1
  PROVE  k \notin BracketKinds
<1> DEFINE S == {0} \cup {i \in DOMAIN Levels : k \in Levels[i]}
<1>1. DOMAIN Levels = 1..10
  BY DEF Levels
<1>2. S \in SUBSET (0..10) /\ S # {} /\ 10 \in Nat
  BY <1>1
<1>3. Max(S) \in S
  <2> HIDE DEF S
  <2> QED
    BY <1>2, MaxIsGreatest
<1>4. PICK i \in 1..10 : k \in Levels[i]
  BY <1>1, <1>3 DEF binop_precedence
<1>5. \/ i = 1 \/ i = 2 \/ i = 3 \/ i = 4 \/ i = 5 \/ i = 6 \/ i = 7 \/ i = 8 \/ i = 9 \/ i = 10
  BY <1>4
<1> HIDE DEF S
<1>6. k \notin {"(", "[", "{", ")", "]", "}", "?"}
  <2>1. /\ Levels[1] = {"||"} /\ Levels[2] = {"&&"} /\ Levels[3] = {"|"} /\ Levels[4] = {"^"}
        /\ Levels[5] = {"&"} /\ Levels[6] = {"==", "!="} /\ Levels[7] = {"<", ">", "<=", ">="}
        /\ Levels[8] = {"<<", ">>"} /\ Levels[9] = {"+", "-"} /\ Levels[10] = {"*", "/", "%"}
    BY DEF Levels
  <2>2. k \in {"||", "&&", "|", "^", "&", "==", "!=", "<", ">", "<=", ">=", "<<", ">>", "+", "-", "*", "/", "%"}
    BY ONLY <1>4, <1>5, <2>1
  <2> QED
    BY ONLY <2>2
<1> QED
  BY <1>6, BracketKindsAre

LEMMA ExprPrecKeeps ==
  ASSUME IInv, In("expr_prec"), UNCHANGED nodes, Keep(<<Do("primary"), Item("climb", "", Top.n)>>)
  PROVE  IInv'
<1>1. todo # <<>> /\ Top.do = "expr_prec" /\ nodes' = nodes /\ nodes' \in Heights
  BY DEF In, IInv, TypeInv
<1> DEFINE p == Do("primary")
           c == Item("climb", "", Top.n)
           s == <<p, c>>
<1>2. Top.n \in Nat
  <2>1. todo \in Seq(Items) /\ todo # <<>> /\ Top = todo[1]
    BY <1>1 DEF IInv, TypeInv, Top
  <2>2. todo[1] \in Items
    BY ONLY <2>1
  <2> QED
    BY <2>1, <2>2 DEF Items
<1>3. /\ p \in Items /\ p.do = "primary" /\ Mark(p) \notin BracketKinds
      /\ c \in Items /\ c.do = "climb" /\ c.n = Top.n /\ Mark(c) \notin BracketKinds
  BY <1>2, BracketKindsAre DEF Do, Item, Items, Acts, Mark
<1>4. \A ms, m \in Heights : Below(ms, nodes) /\ Turns(ms, Top, m) =>
        \E ns \in Heights : Below(ns, nodes') /\ Makes(ns, s, m)
  BY <1>1, MakesClimbed DEF Turns
<1>5. Keep(s)
  OBVIOUS
<1> HIDE DEF p, c
<1>6. /\ s \in Seq(Items) /\ s # <<>> /\ DOMAIN s = 1..2 /\ Len(s) = 2 /\ s[1] = p /\ s[2] = c
  <2>1. p \in Items /\ c \in Items
    BY <1>3
  <2> QED
    BY ONLY <2>1
<1> HIDE DEF s
<1>7. (\A i \in DOMAIN s : s[i] \in {p, c}) /\ \A i \in 2..Len(s) : i = 2 /\ i - 1 = 1
  <2>1. \A i \in DOMAIN s : s[i] \in {p, c}
    BY ONLY <1>6
  <2>2. \A i \in 2..2 : i = 2 /\ i - 1 = 1
    BY ONLY TRUE
  <2> QED
    BY <1>6, <2>1, <2>2
<1>8. Even(s)
  BY <1>3, <1>6, <1>7, EvenPlain
<1>9. Fits(Top, s)
  <2>1. \A i \in DOMAIN s : s[i].do # "program"
    BY <1>3, <1>7
  <2>2. Follows(p, c) /\ c.do \notin Sure /\ p.do \notin Sure
    BY <1>3 DEF Follows, Sure
  <2>3. \A i \in 2..Len(s) : s[i].do \notin Sure /\ Follows(s[i - 1], s[i])
    BY <1>6, <1>7, <2>2
  <2>4. \A b : Follows(Top, b) => Follows(c, b)
    BY <1>1, <1>3 DEF Follows
  <2>5. s[1].do \notin {"climb", "bin"} /\ s[Len(s)] = c
    BY <1>3, <1>6
  <2> QED
    BY <1>1, <1>6, <2>1, <2>3, <2>4, <2>5 DEF Fits
<1>10. s[1].do \notin Sure
  BY <1>3, <1>6 DEF Sure
<1> QED
  BY <1>1, <1>4, <1>5, <1>6, <1>8, <1>9, <1>10, KeepMoves

\* An operator that binds less tightly than asked ends the expression.
LEMMA ClimbEnds ==
  ASSUME IInv, todo # <<>>, Top.do = "climb", Peeked, UNCHANGED nodes,
         binop_precedence(Kind) < Top.n, Keep(<<>>)
  PROVE  IInv'
<1>1. Even(<<>>) /\ Level(<<>>) /\ Fits(Top, <<>>)
  BY InertBodies, FitsNothing DEF Neutral
<1>2. nodes' = nodes /\ nodes \in Heights
  BY DEF IInv, TypeInv
<1>3. ASSUME NEW ms \in Heights, NEW m \in Heights, Below(ms, nodes), Turns(ms, Top, m)
      PROVE  \E ns \in Heights : Below(ns, nodes') /\ Makes(ns, <<>>, m)
  <2>1. Top.n \in 1..Primary /\ Ends(ms, Top.n) /\ m = Append(OneLess(ms), Top.n)
    BY <1>3 DEF Turns
  <2>2. /\ ms # <<>> /\ ms[Len(ms)] >= Top.n
        /\ OneLess(ms) \in Heights /\ Len(OneLess(ms)) = Len(ms) - 1 /\ Len(ms) \in Nat \ {0}
        /\ \A i \in 1..(Len(ms) - 1) : OneLess(ms)[i] = ms[i]
        /\ ms[Len(ms)] \in 1..Primary
    BY <2>1, Shrunk DEF Ends
  <2>3. /\ Len(m) = Len(ms) /\ m[Len(m)] = Top.n
        /\ \A i \in 1..(Len(ms) - 1) : m[i] = ms[i]
    <3>1. /\ Len(m) = Len(OneLess(ms)) + 1 /\ m[Len(m)] = Top.n
          /\ \A i \in 1..Len(OneLess(ms)) : m[i] = OneLess(ms)[i]
      BY <2>1, <2>2, Grown
    <3> QED
      BY <2>2, <3>1
  <2>4. Len(ms) = Len(nodes) /\ \A i \in 1..Len(nodes) : ms[i] <= nodes[i]
    BY <1>3 DEF Below
  <2>5. ASSUME NEW i \in 1..Len(nodes) PROVE m[i] <= nodes[i]
    <3>1. i \in 1..(Len(ms) - 1) \/ i = Len(ms)
      BY <2>2, <2>4
    <3>2. CASE i \in 1..(Len(ms) - 1)
      BY <2>3, <2>4, <3>2
    <3>3. CASE i = Len(ms)
      <4>1. m[i] = Top.n /\ ms[i] >= Top.n /\ ms[i] <= nodes[i]
        BY <2>2, <2>3, <2>4, <3>3
      <4>2. nodes[i] \in 1..Primary
        BY <1>2, ElementOfSeq DEF Heights
      <4>3. Top.n \in Int /\ ms[i] \in Int /\ nodes[i] \in Int
        BY <2>1, <2>2, <3>3, <4>2
      <4>4. \A a, b, c \in Int : b >= a /\ b <= c => a <= c
        OBVIOUS
      <4> QED
        BY <4>1, <4>3, <4>4
    <3> QED
      BY <3>1, <3>2, <3>3
  <2>6. Below(m, nodes')
    BY <1>2, <2>3, <2>4, <2>5 DEF Below
  <2> QED
    BY <1>1, <2>6 DEF Level
<1> QED
  BY <1>1, <1>2, <1>3, KeepMoves

\* One that binds as tightly waits for the expression on its right, which binds more
\* tightly.
LEMMA ClimbGoesOn ==
  ASSUME IInv, todo # <<>>, Top.do = "climb", Peeked, UNCHANGED nodes, NEW prec,
         prec = binop_precedence(Kind), ~ (prec < Top.n),
         Take(<<Prec(prec + 1), Item("bin", Kind, prec), Top>>)
  PROVE  IInv'
<1>1. nodes' = nodes /\ nodes' \in Heights /\ nodes \in Heights
  BY DEF IInv, TypeInv
<1>2. Top \in Items /\ Top.n \in 1..Primary
  <2>1. PICK ms, m \in Heights : Below(ms, nodes) /\ Turns(ms, Top, m)
    BY TopTurns
  <2> QED
    BY <2>1 DEF Turns, IInv, TypeInv, Top
<1>3. prec \in 1..10 /\ Top.n <= prec
  <2>1. prec \in 0..10
    BY PrecedenceBounded
  <2> QED
    BY <1>2, <2>1, PrimaryIs
<1>4. Kind \notin BracketKinds
  BY <1>3, OperatorsNoBrackets
<1>5. nodes # <<>> /\ nodes[Len(nodes)] >= prec
  BY DEF IInv, BegunInv, Settled, Ends
<1>6. Kind \in TokenKinds \cup {"EOF"}
  <2>1. current \in TokenKinds \cup {"EOF"}
    BY DEF IInv, TypeInv, Peeked
  <2>2. "ident" \in TokenKinds
    BY DEF TokenKinds
  <2> QED
    BY <2>1, <2>2 DEF Kind
<1> DEFINE e == Prec(prec + 1)
           b == Item("bin", Kind, prec)
           s == <<e, b, Top>>
<1>7. /\ e \in Items /\ e.do = "expr_prec" /\ e.n = prec + 1 /\ Mark(e) = ""
      /\ b \in Items /\ b.do = "bin" /\ b.n = prec /\ Mark(b) = "" /\ Mark(Top) = "" /\ "" \notin BracketKinds
  <2>1. prec + 1 \in Nat /\ prec \in Nat
    BY <1>3
  <2>2. e \in Items /\ e.do = "expr_prec" /\ e.n = prec + 1 /\ Mark(e) = ""
    BY <2>1 DEF Prec, Item, Items, Acts, Mark
  <2>3. b \in Items /\ b.do = "bin" /\ b.n = prec /\ Mark(b) = ""
    BY <1>6, <2>1 DEF Item, Items, Acts, Mark
  <2> QED
    BY <2>2, <2>3, BracketKindsAre DEF Mark
<1>8. ASSUME NEW ms \in Heights, NEW m \in Heights, Below(ms, nodes), Turns(ms, Top, m)
      PROVE  \E ns \in Heights : Below(ns, nodes') /\ Makes(ns, s, m)
  <2> DEFINE last == nodes[Len(nodes)]
             ns == Append(OneLess(ms), last)
  <2>1. Ends(ms, Top.n) /\ m = Append(OneLess(ms), Top.n)
    BY <1>8 DEF Turns
  <2>2. /\ OneLess(ms) \in Heights /\ Len(OneLess(ms)) = Len(ms) - 1 /\ Len(ms) \in Nat \ {0}
        /\ \A i \in 1..(Len(ms) - 1) : OneLess(ms)[i] = ms[i]
    BY <2>1, Shrunk DEF Ends
  <2>3. last \in 1..Primary /\ last >= prec
    BY <1>1, <1>5, Shrunk
  <2>4. /\ ns \in Heights /\ ns # <<>> /\ Len(ns) = Len(OneLess(ms)) + 1 /\ ns[Len(ns)] = last
        /\ OneLess(ns) = OneLess(ms) /\ \A i \in 1..Len(OneLess(ms)) : ns[i] = OneLess(ms)[i]
    BY <2>2, <2>3, Grown
  <2>5. last = nodes[Len(nodes)]
    OBVIOUS
  <2> HIDE DEF last, ns
  <2>6. Len(ms) = Len(nodes) /\ \A i \in 1..Len(nodes) : ms[i] <= nodes[i]
    BY <1>8 DEF Below
  <2>7. ASSUME NEW i \in 1..Len(nodes) PROVE ns[i] <= nodes[i]
    <3>1. i \in 1..(Len(ms) - 1) \/ i = Len(nodes)
      BY <2>2, <2>6
    <3>2. CASE i \in 1..(Len(ms) - 1)
      <4>1. ns[i] = ms[i]
        BY <2>2, <2>4, <3>2
      <4> QED
        BY <2>6, <4>1
    <3>3. CASE i = Len(nodes)
      <4>1. Len(ns) = Len(nodes)
        BY <2>2, <2>4, <2>6
      <4>2. ns[i] = last /\ nodes[i] = last /\ last \in Int
        BY <2>3, <2>4, <2>5, <3>3, <4>1
      <4> QED
        BY <4>2
    <3> QED
      BY <3>1, <3>2, <3>3
  <2>8. Len(ns) = Len(nodes)
    BY <2>2, <2>4, <2>6
  <2>9. Below(ns, nodes')
    BY <1>1, <2>7, <2>8 DEF Below
  <2>10. Ends(ns, prec)
    BY <2>3, <2>4 DEF Ends
  <2>11. Makes(ns, s, Append(OneLess(ns), Top.n))
    BY <1>2, <1>3, <2>4, <2>10, MakesBinary
  <2> QED
    BY <2>1, <2>4, <2>9, <2>11
<1>9. Take(s)
  OBVIOUS
<1> HIDE DEF e, b
<1>10. s \in Seq(Items) /\ s # <<>> /\ DOMAIN s = 1..3 /\ Len(s) = 3 /\ s[1] = e /\ s[2] = b /\ s[3] = Top
  <2>1. e \in Items /\ b \in Items /\ Top \in Items
    BY <1>2, <1>7
  <2> QED
    BY ONLY <2>1
<1> HIDE DEF s
<1>11. /\ \A i \in DOMAIN s : s[i] \in {e, b, Top}
       /\ \A i \in 2..Len(s) : (i = 2 /\ i - 1 = 1) \/ (i = 3 /\ i - 1 = 2)
  BY <1>10
<1>12. Even(s)
  BY <1>7, <1>10, <1>11, EvenPlain
<1>13. Fits(Top, s)
  <2>1. \A i \in DOMAIN s : s[i].do # "program"
    BY <1>7, <1>11
  <2>2. Follows(e, b) /\ Follows(b, Top) /\ b.do \notin Sure /\ Top.do \notin Sure
    BY <1>7 DEF Follows, Sure
  <2>3. \A i \in 2..Len(s) : s[i].do \notin Sure /\ Follows(s[i - 1], s[i])
    BY <1>10, <1>11, <2>2
  <2>4. s[1].do \notin {"climb", "bin"} /\ s[Len(s)] = Top
    BY <1>7, <1>10
  <2> QED
    BY <1>10, <2>1, <2>3, <2>4 DEF Fits
<1>14. s[1].do \notin Sure
  BY <1>7, <1>10 DEF Sure
<1> QED
  BY <1>1, <1>4, <1>8, <1>9, <1>10, <1>12, <1>13, <1>14, TakeMoves

LEMMA ClimbKeeps == IInv /\ parse_expr_prec => IInv'
<1> SUFFICES ASSUME IInv, parse_expr_prec PROVE IInv'
  OBVIOUS
<1>1. CASE In("expr_prec") /\ UNCHANGED nodes /\ Keep(<<Do("primary"), Item("climb", "", Top.n)>>)
  BY <1>1, ExprPrecKeeps
<1>2. CASE /\ See("climb")
           /\ LET prec == binop_precedence(Kind)
                  next_prec == IF is_right_assoc(Kind) THEN prec ELSE prec + 1
              IN IF prec < Top.n THEN Keep(<<>>)
                 ELSE Take(<<Prec(next_prec), Item("bin", Kind, prec), Top>>)
  <2>1. todo # <<>> /\ Top.do = "climb" /\ Peeked /\ UNCHANGED nodes
    BY <1>2, SeenIs
  <2> DEFINE prec == binop_precedence(Kind)
  <2>2. CASE prec < Top.n /\ Keep(<<>>)
    BY <2>1, <2>2, ClimbEnds
  <2>3. CASE ~ (prec < Top.n) /\ Take(<<Prec(prec + 1), Item("bin", Kind, prec), Top>>)
    BY <2>1, <2>3, ClimbGoesOn
  <2> QED
    BY <1>2, <2>2, <2>3 DEF is_right_assoc
<1> QED
  BY <1>1, <1>2 DEF parse_expr_prec

-------------------------------------------------------------------------------

LEMMA BelowCut ==
  ASSUME NEW ms \in Heights, NEW ns \in Heights, Below(ms, ns), NEW n \in 0..Len(ns)
  PROVE  LET a == SubSeq(ms, 1, n)
             b == SubSeq(ns, 1, n)
         IN a \in Heights /\ b \in Heights /\ Below(a, b)
<1>1. Len(ms) = Len(ns) /\ \A i \in 1..Len(ns) : ms[i] <= ns[i]
  BY DEF Below
<1> DEFINE a == SubSeq(ms, 1, n)
           b == SubSeq(ns, 1, n)
<1>2. a \in Heights /\ Len(a) = n /\ \A i \in 1..n : a[i] = ms[i]
  BY <1>1, Begins DEF Heights
<1>3. b \in Heights /\ Len(b) = n /\ \A i \in 1..n : b[i] = ns[i]
  BY Begins DEF Heights
<1> HIDE DEF a, b
<1>4. \A i \in 1..n : i \in 1..Len(ns)
  BY DEF Heights
<1>5. Below(a, b)
  BY <1>1, <1>2, <1>3, <1>4 DEF Below
<1> QED
  BY <1>2, <1>3, <1>5 DEF a, b

LEMMA BelowGrown ==
  ASSUME NEW a \in Heights, NEW b \in Heights, Below(a, b), NEW p \in 1..Primary
  PROVE  /\ Append(a, p) \in Heights /\ Append(b, p) \in Heights /\ Below(Append(a, p), Append(b, p))
         /\ Ends(Append(b, p), p)
<1>1. Len(a) = Len(b) /\ \A i \in 1..Len(b) : a[i] <= b[i]
  BY DEF Below
<1> DEFINE aa == Append(a, p)
           bb == Append(b, p)
<1>2. /\ aa \in Heights /\ Len(aa) = Len(a) + 1 /\ aa[Len(aa)] = p /\ \A i \in 1..Len(a) : aa[i] = a[i]
  BY Grown
<1>3. /\ bb \in Heights /\ Len(bb) = Len(b) + 1 /\ bb[Len(bb)] = p /\ bb # <<>> /\ Len(b) \in Nat
      /\ \A i \in 1..Len(b) : bb[i] = b[i]
  BY Grown
<1> HIDE DEF aa, bb
<1>4. ASSUME NEW i \in 1..Len(bb) PROVE aa[i] <= bb[i]
  <2>1. i \in 1..Len(b) \/ i = Len(bb)
    BY <1>3
  <2>2. CASE i \in 1..Len(b)
    BY <1>1, <1>2, <1>3, <2>2
  <2>3. CASE i = Len(bb)
    <3>1. aa[i] = p /\ bb[i] = p /\ p \in Int
      BY <1>1, <1>2, <1>3, <2>3
    <3> QED
      BY <3>1
  <2> QED
    BY <2>1, <2>2, <2>3
<1>5. Below(aa, bb) /\ Ends(bb, p)
  <2>1. p >= p
    OBVIOUS
  <2> QED
    BY <1>1, <1>2, <1>3, <1>4, <2>1 DEF Below, Ends
<1> QED
  BY <1>2, <1>3, <1>5 DEF aa, bb

\* A node is made of the expressions at hand.
LEMMA NodeKeeps == IInv /\ MakeNode => IInv'
<1> SUFFICES ASSUME IInv, MakeNode PROVE IInv'
  OBVIOUS
<1>1. Keep(<<>>) /\ nodes \in Heights /\ current' = current
  BY DEF MakeNode, Keep, lexer, IInv, TypeInv
<1>2. Even(<<>>) /\ Level(<<>>) /\ Fits(Top, <<>>)
  BY InertBodies, FitsNothing DEF Neutral
<1>3. Primary \in 1..Primary
  BY PrimaryIs
<1>4. ASSUME Ends(nodes', Primary), nodes' \in Heights PROVE Settled'
  <2>1. Ends(nodes', binop_precedence(Kind'))
    BY <1>4, WholeSettles
  <2> QED
    BY <1>4, <2>1 DEF Settled
<1>5. CASE In("atom") /\ nodes' = Append(nodes, Primary)
  <2>1. todo # <<>> /\ Top.do = "atom"
    BY <1>5 DEF In
  <2>2. ASSUME NEW ms \in Heights, NEW m \in Heights, Below(ms, nodes), Turns(ms, Top, m)
        PROVE  \E ns \in Heights : Below(ns, nodes') /\ Makes(ns, <<>>, m)
    <3>1. m = Append(ms, Primary) /\ Below(m, nodes')
      BY <1>1, <1>3, <1>5, <2>1, <2>2, BelowGrown DEF Turns
    <3> QED
      BY <1>2, <3>1 DEF Level
  <2>3. PICK ms, m \in Heights : Below(ms, nodes) /\ Turns(ms, Top, m)
    BY <2>1, TopTurns
  <2>4. nodes' \in Heights /\ Ends(nodes', Primary)
    BY <1>1, <1>3, <1>5, <2>3, BelowGrown
  <2>5. Settled'
    BY <1>4, <2>4
  <2> QED
    BY <1>1, <1>2, <2>1, <2>2, <2>4, <2>5, KeepMoves
<1>6. CASE In("bin") /\ nodes' = Append(Drop(2), Top.n)
  <2>1. todo # <<>> /\ Top.do = "bin"
    BY <1>6 DEF In
  <2>2. ASSUME NEW ms \in Heights, NEW m \in Heights, Below(ms, nodes), Turns(ms, Top, m)
        PROVE  /\ Below(m, nodes') /\ nodes' \in Heights
               /\ Ends(nodes', Top.n) /\ Top.n \in 1..Primary
    <3>1. /\ Len(ms) >= 2 /\ Top.n \in 1..Primary
          /\ m = Append(SubSeq(ms, 1, Len(ms) - 2), Top.n)
      BY <2>1, <2>2 DEF Turns
    <3>2. Len(ms) = Len(nodes) /\ Len(nodes) \in Nat
      BY <1>1, <2>2 DEF Below, Heights
    <3> DEFINE n == Len(nodes) - 2
               a == SubSeq(ms, 1, n)
               b == SubSeq(nodes, 1, n)
    <3>3. n \in 0..Len(nodes)
      BY <3>1, <3>2
    <3>4. a \in Heights /\ b \in Heights /\ Below(a, b)
      <4> HIDE DEF n
      <4> QED
        BY <1>1, <2>2, <3>3, BelowCut
    <3>5. m = Append(a, Top.n) /\ nodes' = Append(b, Top.n)
      BY <1>6, <3>1, <3>2 DEF Drop
    <3> HIDE DEF a, b
    <3> QED
      BY <3>1, <3>4, <3>5, BelowGrown
  <2>3. PICK ms, m \in Heights : Below(ms, nodes) /\ Turns(ms, Top, m)
    BY <2>1, TopTurns
  <2>4. nodes' \in Heights /\ Ends(nodes', Top.n) /\ Top.n \in 1..Primary
    BY <2>2, <2>3
  <2>5. Peeked /\ binop_precedence(Kind) <= Top.n
    BY <2>1 DEF IInv, BegunInv
  <2>6. Settled'
    <3>1. Peeked' /\ binop_precedence(Kind') <= Top.n
      BY <1>1, <2>5 DEF Peeked, Kind
    <3>2. nodes' # <<>> /\ nodes'[Len(nodes')] >= Top.n /\ nodes'[Len(nodes')] \in 1..Primary
      BY <2>4, Shrunk DEF Ends
    <3>3. binop_precedence(Kind') \in 0..10
      BY PrecedenceBounded
    <3>4. \A x, y, z \in Int : x <= y /\ z >= y => z >= x
      OBVIOUS
    <3>5. nodes'[Len(nodes')] >= binop_precedence(Kind')
      BY <2>4, <3>1, <3>2, <3>3, <3>4
    <3> QED
      BY <3>1, <3>2, <3>5 DEF Settled, Ends
  <2>7. \A ns, o \in Heights : Below(ns, nodes) /\ Turns(ns, Top, o) =>
          \E os \in Heights : Below(os, nodes') /\ Makes(os, <<>>, o)
    BY <1>2, <2>2 DEF Level
  <2> QED
    BY <1>1, <1>2, <2>1, <2>4, <2>6, <2>7, KeepMoves
<1>7. CASE In("group") /\ nodes' = Append(Drop(1), Primary)
  <2>1. todo # <<>> /\ Top.do = "group"
    BY <1>7 DEF In
  <2>2. ASSUME NEW ms \in Heights, NEW m \in Heights, Below(ms, nodes), Turns(ms, Top, m)
        PROVE  Below(m, nodes') /\ nodes' \in Heights /\ Ends(nodes', Primary)
    <3>1. ms # <<>> /\ m = Append(SubSeq(ms, 1, Len(ms) - 1), Primary)
      BY <2>1, <2>2 DEF Turns, OneLess
    <3>2. Len(ms) = Len(nodes) /\ Len(ms) \in Nat \ {0}
      BY <2>2, <3>1, Shrunk DEF Below
    <3> DEFINE n == Len(nodes) - 1
               a == SubSeq(ms, 1, n)
               b == SubSeq(nodes, 1, n)
    <3>3. n \in 0..Len(nodes)
      BY <3>2
    <3>4. a \in Heights /\ b \in Heights /\ Below(a, b)
      <4> HIDE DEF n
      <4> QED
        BY <1>1, <2>2, <3>3, BelowCut
    <3>5. m = Append(a, Primary) /\ nodes' = Append(b, Primary)
      BY <1>7, <3>1, <3>2 DEF Drop
    <3> HIDE DEF a, b
    <3> QED
      BY <1>3, <3>4, <3>5, BelowGrown
  <2>3. PICK ms, m \in Heights : Below(ms, nodes) /\ Turns(ms, Top, m)
    BY <2>1, TopTurns
  <2>4. nodes' \in Heights /\ Ends(nodes', Primary)
    BY <2>2, <2>3
  <2>5. Settled'
    BY <1>4, <2>4
  <2>6. \A ns, o \in Heights : Below(ns, nodes) /\ Turns(ns, Top, o) =>
          \E os \in Heights : Below(os, nodes') /\ Makes(os, <<>>, o)
    BY <1>2, <2>2 DEF Level
  <2> QED
    BY <1>1, <1>2, <2>1, <2>4, <2>5, <2>6, KeepMoves
<1>8. CASE In("drop") /\ nodes' = Drop(1)
  <2>1. todo # <<>> /\ Top.do = "drop"
    BY <1>8 DEF In
  <2>2. ASSUME NEW ms \in Heights, NEW m \in Heights, Below(ms, nodes), Turns(ms, Top, m)
        PROVE  Below(m, nodes') /\ nodes' \in Heights
    <3>1. ms # <<>> /\ m = SubSeq(ms, 1, Len(ms) - 1)
      BY <2>1, <2>2 DEF Turns, OneLess
    <3>2. Len(ms) = Len(nodes) /\ Len(ms) \in Nat \ {0}
      BY <2>2, <3>1, Shrunk DEF Below
    <3> DEFINE n == Len(nodes) - 1
    <3>3. n \in 0..Len(nodes)
      BY <3>2
    <3>4. m = SubSeq(ms, 1, n) /\ nodes' = SubSeq(nodes, 1, n)
      BY <1>8, <3>1, <3>2 DEF Drop
    <3> HIDE DEF n
    <3> QED
      BY <1>1, <2>2, <3>3, <3>4, BelowCut
  <2>3. PICK ms, m \in Heights : Below(ms, nodes) /\ Turns(ms, Top, m)
    BY <2>1, TopTurns
  <2>4. nodes' \in Heights
    BY <2>2, <2>3
  <2>5. \A ns, o \in Heights : Below(ns, nodes) /\ Turns(ns, Top, o) =>
          \E os \in Heights : Below(os, nodes') /\ Makes(os, <<>>, o)
    BY <1>2, <2>2 DEF Level
  <2> QED
    BY <1>1, <1>2, <2>1, <2>4, <2>5, KeepMoves
<1> QED
  BY <1>5, <1>6, <1>7, <1>8 DEF MakeNode

-------------------------------------------------------------------------------

LEMMA NextKeeps == IInv /\ [Next]_vars => IInv'
<1>1. ASSUME IInv, lexer_peek PROVE IInv'
  BY <1>1, PeekKeeps
<1>2. ASSUME IInv, UNCHANGED vars PROVE IInv'
  <2>1. /\ current' = current /\ fuel' = fuel /\ todo' = todo /\ nodes' = nodes
        /\ opened' = opened /\ errors' = errors
    BY <1>2 DEF vars, lexer
  <2>2. TypeInv' /\ Ordered(todo)' /\ BracketInv' /\ TreeInv' /\ EndInv'
    BY <1>2, <2>1 DEF IInv, TypeInv, BracketInv, TreeInv, EndInv
  <2>3. BegunInv'
    BY <1>2, <2>1 DEF IInv, BegunInv, Settled, Top, Peeked, Kind
  <2> QED
    BY <2>2, <2>3 DEF IInv
<1> QED
  BY <1>1, <1>2, ExpectKeeps, NameKeeps, NodeKeeps, TypeKeeps, PrimaryKeeps, PostfixKeeps, ClimbKeeps,
     LetKeeps, IfKeeps, WhileKeeps, ForKeeps, ReturnKeeps, ExprOrAssignKeeps, StmtKeeps, BlockKeeps,
     FnKeeps, StructKeeps, ParseKeeps DEF Next

LEMMA AlwaysInv == Spec => []IInv
<1>1. Init => IInv
  BY InitHolds
<1>2. IInv /\ [Next]_vars => IInv'
  BY NextKeeps
<1> QED
  BY <1>1, <1>2, PTL DEF Spec

-------------------------------------------------------------------------------

\* A fold of a sequence is what a walk along it comes to.  First, numbers up to some
\* number are reached one by one.
LEMMA OneByOne ==
  ASSUME NEW k \in Nat, NEW P, 0 \in P, \A i \in 1..k : i - 1 \in P => i \in P
  PROVE  \A i \in 0..k : i \in P
<1> DEFINE T == {i \in 0..k : i \notin P}
           R == {ss \in Nat \X Nat : ss[1] < ss[2]}
<1>1. ASSUME T # {} PROVE FALSE
  <2>1. IsWellFoundedOn(R, Nat)
    BY NatLessThanWellFounded DEF OpToRel
  <2>2. T \subseteq Nat
    OBVIOUS
  <2>3. \E x \in T : \A y \in T : ~ (<<y, x>> \in R)
    <3> HIDE DEF T, R
    <3> QED
      BY <1>1, <2>1, <2>2, WFMin
  <2>4. PICK x \in T : \A y \in T : ~ (<<y, x>> \in R)
    BY <2>3
  <2>5. x # 0 /\ x \in 0..k
    OBVIOUS
  <2>6. x - 1 \in T
    <3>1. x \in 1..k /\ x - 1 \in 0..k
      BY <2>5
    <3>2. x - 1 \notin P
      BY <3>1
    <3> QED
      BY <3>1, <3>2
  <2>7. <<x - 1, x>> \in R
    BY <2>5, <2>6
  <2> QED
    BY <2>4, <2>6, <2>7
<1> QED
  BY <1>1

LEMMA MaxUpTo ==
  ASSUME NEW n \in Nat \ {0}
  PROVE  Max(1..n) = n
<1>1. n \in Nat /\ 1..n \in SUBSET (0..n) /\ 1..n # {} /\ n \in 1..n
  OBVIOUS
<1>2. Max(1..n) \in 1..n /\ \A k \in 1..n : k <= Max(1..n)
  BY <1>1, MaxIsGreatest
<1> QED
  BY <1>1, <1>2

\* The function the fold is defined by exists.
Folding(k, A, base, F, f) ==
  /\ f \in [SUBSET (1..k) -> A]
  /\ \A s \in SUBSET (1..k) : f[s] = IF s = {} THEN base ELSE F[Max(s)][f[s \ {Max(s)}]]

LEMMA FoldExists ==
  ASSUME NEW k \in Nat, NEW A, NEW base \in A, NEW F \in [1..k -> [A -> A]]
  PROVE  \E f : Folding(k, A, base, F, f)
<1> DEFINE Folds(n, f) == /\ f \in [SUBSET (1..n) -> A]
                          /\ f[{}] = base
                          /\ \A s \in SUBSET (1..n) : s # {} => f[s] = F[Max(s)][f[s \ {Max(s)}]]
           P == {n \in 0..k : \E f : Folds(n, f)}
<1>1. 0 \in P
  <2> DEFINE f == [s \in SUBSET (1..0) |-> base]
  <2>1. {} \in SUBSET (1..0) /\ \A s \in SUBSET (1..0) : s = {}
    OBVIOUS
  <2>2. f \in [SUBSET (1..0) -> A] /\ f[{}] = base
    BY <2>1
  <2> HIDE DEF f
  <2>3. Folds(0, f)
    <3>1. \A s \in SUBSET (1..0) : s # {} => f[s] = F[Max(s)][f[s \ {Max(s)}]]
      BY ONLY <2>1
    <3> QED
      BY <2>2, <3>1
  <2> HIDE DEF Folds
  <2> QED
    BY <2>3
<1>2. ASSUME NEW n \in 1..k, n - 1 \in P PROVE n \in P
  <2>1. PICK f : Folds(n - 1, f)
    BY <1>2
  <2>2. n \in Nat /\ 1..n = 1..(n - 1) \cup {n} /\ n \notin 1..(n - 1) /\ n - 1 \in Nat
    OBVIOUS
  <2> DEFINE h == [s \in SUBSET (1..n) |-> IF n \in s THEN F[n][f[s \ {n}]] ELSE f[s]]
  <2>3. \A s \in SUBSET (1..n) : /\ s \ {n} \in SUBSET (1..(n - 1))
                                 /\ n \notin s => s \in SUBSET (1..(n - 1))
    BY <2>2
  <2>4. F[n] \in [A -> A]
    OBVIOUS
  <2>5. h \in [SUBSET (1..n) -> A]
    BY <2>1, <2>3, <2>4
  <2>6. h[{}] = base
    BY <2>1
  <2>7. ASSUME NEW s \in SUBSET (1..n), s # {}
        PROVE  h[s] = F[Max(s)][h[s \ {Max(s)}]]
    <3>1. CASE n \in s
      <4>1. s \in SUBSET (0..n)
        BY <2>2
      <4>2. Max(s) \in s /\ \A i \in s : i <= Max(s)
        BY <2>2, <2>7, <4>1, MaxIsGreatest
      <4>3. Max(s) = n
        <5>1. Max(s) \in 0..n /\ n <= Max(s)
          BY <3>1, <4>1, <4>2
        <5>2. \A m \in 0..n : n <= m => m = n
          BY <2>2
        <5> QED
          BY ONLY <5>1, <5>2
      <4>4. s \ {n} \in SUBSET (1..n) /\ n \notin s \ {n}
        OBVIOUS
      <4>5. h[s] = F[n][f[s \ {n}]] /\ h[s \ {n}] = f[s \ {n}]
        BY <3>1, <4>4
      <4> QED
        BY <4>3, <4>5
    <3>2. CASE n \notin s
      <4>1. s \in SUBSET (1..(n - 1))
        BY <2>3, <3>2
      <4>2. s \ {Max(s)} \in SUBSET (1..n) /\ n \notin s \ {Max(s)}
        BY <3>2
      <4>3. h[s] = f[s] /\ h[s \ {Max(s)}] = f[s \ {Max(s)}]
        BY <3>2, <4>2
      <4> QED
        BY <2>1, <2>7, <4>1, <4>3
    <3> QED
      BY <3>1, <3>2
  <2> HIDE DEF h
  <2>8. Folds(n, h)
    BY ONLY <2>5, <2>6, <2>7
  <2> HIDE DEF Folds
  <2> QED
    BY <2>8
<1>3. k \in P
  <2> HIDE DEF P
  <2>1. k \in 0..k
    OBVIOUS
  <2> QED
    BY <1>1, <1>2, <2>1, OneByOne
<1>4. PICK f : Folds(k, f)
  BY <1>3
<1> QED
  BY <1>4 DEF Folding

LEMMA UpTo ==
  ASSUME NEW k \in Nat, NEW i \in 1..k
  PROVE  /\ 1..i \in SUBSET (1..k) /\ 1..i # {} /\ Max(1..i) = i /\ (1..i) \ {i} = 1..(i - 1)
<1>1. i \in Nat \ {0} /\ i \in 1..i /\ i <= k
  OBVIOUS
<1>2. 1..i \in SUBSET (1..k)
  BY <1>1
<1>3. (1..i) \ {i} = 1..(i - 1)
  BY ONLY <1>1
<1> QED
  BY <1>1, <1>2, <1>3, MaxUpTo

\* And its value on the numbers up to some number is where the walk is by then.
LEMMA FoldWalks ==
  ASSUME NEW k \in Nat, NEW f, NEW g, f[{}] = g[0],
         \A i \in 1..k : f[1..(i - 1)] = g[i - 1] => f[1..i] = g[i]
  PROVE  f[1..k] = g[k]
<1> DEFINE P == {i \in 0..k : f[1..i] = g[i]}
<1>1. 0 \in P
  <2>1. 1..0 = {} /\ 0 \in 0..k
    OBVIOUS
  <2> QED
    BY <2>1
<1>2. ASSUME NEW i \in 1..k, i - 1 \in P PROVE i \in P
  BY <1>2
<1>3. k \in P
  <2> HIDE DEF P
  <2>1. k \in 0..k
    OBVIOUS
  <2> QED
    BY <1>1, <1>2, <2>1, OneByOne
<1> QED
  BY <1>3

LEMMA ReadsFolds ==
  ASSUME NEW os \in Stacks, NEW items \in Seq(Items), NEW after, Reads(os, items, after)
  PROVE  FoldLeft(Read, os, [i \in DOMAIN items |-> Mark(items[i])]) = after
<1> DEFINE k == Len(items)
           marks == [i \in DOMAIN items |-> Mark(items[i])]
           F == [i \in 1..k |-> [a \in Stacks |-> Read(a, marks[i])]]
           Folds(f) == f = [s \in SUBSET DOMAIN marks |->
                              IF s = {} THEN os ELSE Read(f[s \ {Max(s)}], marks[Max(s)])]
           c == CHOOSE f : Folds(f)
<1>1. k \in Nat /\ DOMAIN items = 1..k /\ DOMAIN marks = 1..k /\ \A i \in 1..k : marks[i] = Mark(items[i])
  OBVIOUS
<1>2. PICK g \in [0..k -> Stacks] : /\ g[0] = os /\ g[k] = after
                                    /\ \A i \in 1..k : g[i] = Read(g[i - 1], Mark(items[i]))
  BY DEF Reads
<1>3. FoldLeft(Read, os, marks) = c[DOMAIN marks]
  <2> HIDE DEF marks
  <2> QED
    BY Zenon DEF FoldLeft, MapThenFoldSet
<1> HIDE DEF k, marks
<1>4. F \in [1..k -> [Stacks -> Stacks]]
  <2>1. ASSUME NEW i \in 1..k, NEW a \in Stacks PROVE Read(a, marks[i]) \in Stacks
    BY ReadsStack
  <2> QED
    BY <2>1
<1>5. \A i \in 1..k : \A a \in Stacks : F[i][a] = Read(a, marks[i])
  OBVIOUS
<1> HIDE DEF F
<1>6. \E f : Folds(f)
  <2>0. PICK f : Folding(k, Stacks, os, F, f)
    BY <1>1, <1>4, FoldExists
  <2>1. /\ f \in [SUBSET (1..k) -> Stacks]
        /\ \A s \in SUBSET (1..k) : f[s] = IF s = {} THEN os ELSE F[Max(s)][f[s \ {Max(s)}]]
    BY <2>0 DEF Folding
  <2>2. ASSUME NEW s \in SUBSET (1..k), s # {}
        PROVE  F[Max(s)][f[s \ {Max(s)}]] = Read(f[s \ {Max(s)}], marks[Max(s)])
    <3>1. s \in SUBSET (0..k)
      OBVIOUS
    <3>2. Max(s) \in 1..k
      BY <1>1, <2>2, <3>1, MaxIsGreatest
    <3>3. f[s \ {Max(s)}] \in Stacks
      BY <2>1
    <3> QED
      BY <1>5, <3>2, <3>3
  <2>3. \A s \in SUBSET (1..k) : f[s] = IF s = {} THEN os ELSE Read(f[s \ {Max(s)}], marks[Max(s)])
    BY <2>1, <2>2
  <2>4. Folds(f)
    BY <1>1, <2>3
  <2> QED
    BY <2>4
<1>7. Folds(c)
  BY <1>6
<1> HIDE DEF c
<1>8. c[{}] = g[0]
  BY <1>1, <1>2, <1>7
<1>9. ASSUME NEW i \in 1..k, c[1..(i - 1)] = g[i - 1] PROVE c[1..i] = g[i]
  <2>1. 1..i \in SUBSET (1..k) /\ 1..i # {} /\ Max(1..i) = i /\ (1..i) \ {i} = 1..(i - 1)
    BY <1>1, UpTo
  <2>2. c[1..i] = Read(c[1..(i - 1)], marks[i])
    BY <1>1, <1>7, <2>1
  <2> QED
    BY <1>1, <1>2, <1>9, <2>2
<1>10. c[1..k] = g[k]
  <2>1. k \in Nat
    BY <1>1
  <2>2. \A i \in 1..k : c[1..(i - 1)] = g[i - 1] => c[1..i] = g[i]
    BY <1>9
  <2> QED
    BY ONLY <1>8, <2>1, <2>2, FoldWalks
<1>11. FoldLeft(Read, os, marks) = after
  BY <1>1, <1>2, <1>3, <1>10, Zenon
<1> QED
  BY <1>11, Zenon DEF marks

\* How many expressions an item takes and gives.
LEMMA TurnsCounts ==
  ASSUME NEW ns \in Heights, NEW m \in Heights, NEW item, Turns(ns, item, m)
  PROVE  Len(m) = Len(ns) + Effect(item) /\ Effect(item) \in Int
<1>0. Len(ns) \in Nat /\ Len(m) \in Nat
  BY DEF Heights
<1>1. CASE item.do = "expr_prec" \/ item.do \in {"primary", "atom"}
  <2>1. PICK p \in 1..Primary : m = Append(ns, p)
    BY <1>1, PrimaryIs DEF Turns
  <2>2. Len(m) = Len(ns) + 1
    BY <2>1, Grown
  <2> QED
    BY <1>1, <2>2 DEF Effect
<1>2. CASE item.do = "bin"
  <2>1. item.n \in 1..Primary /\ Len(ns) >= 2 /\ m = Append(SubSeq(ns, 1, Len(ns) - 2), item.n)
    BY <1>2 DEF Turns
  <2> DEFINE n == Len(ns) - 2
             b == SubSeq(ns, 1, n)
  <2>2. n \in 0..Len(ns)
    BY <1>0, <2>1
  <2>3. b \in Heights /\ Len(b) = n
    <3> HIDE DEF n
    <3> QED
      BY <2>2, Begins DEF Heights
  <2>4. Len(Append(b, item.n)) = n + 1
    <3> HIDE DEF b, n
    <3> QED
      BY <2>1, <2>3, Grown
  <2>5. Len(m) = Len(ns) - 1
    BY <1>0, <2>1, <2>4
  <2> QED
    BY <1>0, <1>2, <2>5 DEF Effect
<1>3. CASE item.do = "drop"
  <2>1. ns # <<>> /\ m = OneLess(ns)
    BY <1>3 DEF Turns
  <2>2. Len(m) = Len(ns) - 1
    BY <2>1, Shrunk
  <2> QED
    BY <1>0, <1>3, <2>2 DEF Effect
<1>4. CASE item.do \in {"climb", "group"}
  <2>1. PICK p \in 1..Primary : ns # <<>> /\ m = Append(OneLess(ns), p)
    BY <1>4, PrimaryIs DEF Turns, Ends
  <2>2. OneLess(ns) \in Heights /\ Len(OneLess(ns)) = Len(ns) - 1
    BY <2>1, Shrunk
  <2>3. Len(m) = Len(OneLess(ns)) + 1
    BY <2>1, <2>2, Grown
  <2> QED
    BY <1>0, <1>4, <2>2, <2>3 DEF Effect
<1>5. CASE item.do \notin {"expr_prec", "primary", "atom", "bin", "drop", "climb", "group"}
  <2>1. m = ns
    BY <1>5 DEF Turns, Valuing
  <2>2. Effect(item) = 0
    BY <1>5 DEF Effect
  <2> QED
    BY <1>0, <2>1, <2>2
<1> QED
  BY <1>1, <1>2, <1>3, <1>4, <1>5

LEMMA MakesFolds ==
  ASSUME NEW ns \in Heights, NEW items \in Seq(Items), NEW after, Makes(ns, items, after)
  PROVE  FoldLeft(LAMBDA n, item : n + Effect(item), Len(ns), items) = Len(after)
<1> DEFINE k == Len(items)
           base == Len(ns)
           F == [i \in 1..k |-> [a \in Int |-> a + Effect(items[i])]]
           Folds(f) == f = [s \in SUBSET DOMAIN items |->
                              IF s = {} THEN base ELSE f[s \ {Max(s)}] + Effect(items[Max(s)])]
           c == CHOOSE f : Folds(f)
<1>1. k \in Nat /\ DOMAIN items = 1..k /\ base \in Nat
  BY DEF Heights
<1>2. PICK h \in [0..k -> Heights] : /\ h[0] = ns /\ h[k] = after
                                     /\ \A i \in 1..k : Turns(h[i - 1], items[i], h[i])
  BY DEF Makes
<1> DEFINE g == [i \in 0..k |-> Len(h[i])]
<1>3. FoldLeft(LAMBDA n, item : n + Effect(item), base, items) = c[DOMAIN items]
  <2> HIDE DEF base
  <2> QED
    BY Zenon DEF FoldLeft, MapThenFoldSet
<1> HIDE DEF k
<1>4. g[0] = base /\ g[k] = Len(after)
  BY <1>1, <1>2
<1>5. ASSUME NEW i \in 1..k PROVE g[i] = g[i - 1] + Effect(items[i]) /\ Effect(items[i]) \in Int
  <2>1. i \in 0..k /\ i - 1 \in 0..k
    BY <1>1
  <2>2. h[i] \in Heights /\ h[i - 1] \in Heights /\ Turns(h[i - 1], items[i], h[i])
    BY <1>2, <2>1
  <2>3. Len(h[i]) = Len(h[i - 1]) + Effect(items[i]) /\ Effect(items[i]) \in Int
    BY <2>2, TurnsCounts
  <2> QED
    BY <2>1, <2>3
<1> HIDE DEF g, base
<1>6. F \in [1..k -> [Int -> Int]]
  BY <1>5
<1>7. \A i \in 1..k : \A a \in Int : F[i][a] = a + Effect(items[i])
  OBVIOUS
<1> HIDE DEF F
<1>8. \E f : Folds(f)
  <2>0. PICK f : Folding(k, Int, base, F, f)
    <3>1. k \in Nat /\ base \in Int
      BY <1>1
    <3> QED
      BY <1>6, <3>1, FoldExists
  <2>1. /\ f \in [SUBSET (1..k) -> Int]
        /\ \A s \in SUBSET (1..k) : f[s] = IF s = {} THEN base ELSE F[Max(s)][f[s \ {Max(s)}]]
    BY <2>0 DEF Folding
  <2>2. ASSUME NEW s \in SUBSET (1..k), s # {}
        PROVE  F[Max(s)][f[s \ {Max(s)}]] = f[s \ {Max(s)}] + Effect(items[Max(s)])
    <3>1. s \in SUBSET (0..k)
      OBVIOUS
    <3>2. Max(s) \in 1..k
      BY <1>1, <2>2, <3>1, MaxIsGreatest
    <3>3. f[s \ {Max(s)}] \in Int
      BY <2>1
    <3> QED
      BY <1>7, <3>2, <3>3
  <2>3. \A s \in SUBSET (1..k) : f[s] = IF s = {} THEN base ELSE f[s \ {Max(s)}] + Effect(items[Max(s)])
    BY <2>1, <2>2
  <2>4. Folds(f)
    BY <1>1, <2>1, <2>3
  <2> QED
    BY <2>4
<1>9. Folds(c)
  BY <1>8
<1> HIDE DEF c
<1>10. c[{}] = g[0]
  BY <1>1, <1>4, <1>9
<1>11. ASSUME NEW i \in 1..k, c[1..(i - 1)] = g[i - 1] PROVE c[1..i] = g[i]
  <2>1. 1..i \in SUBSET (1..k) /\ 1..i # {} /\ Max(1..i) = i /\ (1..i) \ {i} = 1..(i - 1)
    BY <1>1, UpTo
  <2>2. c[1..i] = c[1..(i - 1)] + Effect(items[i])
    BY <1>1, <1>9, <2>1
  <2> QED
    BY <1>5, <1>11, <2>2
<1>12. c[1..k] = g[k]
  <2>1. k \in Nat
    BY <1>1
  <2>2. \A i \in 1..k : c[1..(i - 1)] = g[i - 1] => c[1..i] = g[i]
    BY <1>11
  <2> QED
    BY ONLY <1>10, <2>1, <2>2, FoldWalks
<1>13. FoldLeft(LAMBDA n, item : n + Effect(item), base, items) = Len(after)
  BY <1>1, <1>3, <1>4, <1>12, Zenon
<1> QED
  BY <1>13, Zenon DEF base

-------------------------------------------------------------------------------

\* Whatever the text, a procedure that begins with advance() starts with the keyword
\* its caller has peeked still in the buffer: no caller consumes a token between its
\* look and the call (parser.c:339-343, lexer.c:358-364).
THEOREM PeekedAlways == Spec => []NextPeeked
<1>1. IInv => NextPeeked
  BY DEF IInv, BegunInv, NextPeeked
<1> QED
  BY <1>1, AlwaysInv, PTL

\* As long as no error was reported, the brackets read and the ones still expected
\* close each other in order, for every text; and when the procedures are done,
\* nothing of it remains (parser_expect, parser.c:32-43; parser_parse, parser.c:596).
THEOREM BalancedAlways == Spec => []Balanced
<1>1. ASSUME IInv, ~errors
      PROVE  /\ todo = <<>> => current = "EOF" /\ fuel = 0
             /\ FoldLeft(Read, opened, [i \in DOMAIN todo |-> IF todo[i].do = "expect" THEN todo[i].kind ELSE ""])
                  = <<>>
  <2>1. todo = <<>> => current = "EOF" /\ fuel = 0
    BY <1>1 DEF IInv, EndInv, TypeInv
  <2>2. opened \in Stacks /\ todo \in Seq(Items) /\ Reads(opened, todo, <<>>)
    BY <1>1 DEF IInv, TypeInv, BracketInv
  <2>3. FoldLeft(Read, opened, [i \in DOMAIN todo |-> Mark(todo[i])]) = <<>>
    BY <2>2, ReadsFolds
  <2> QED
    BY <2>1, <2>3 DEF Mark
<1>2. IInv => Balanced
  BY <1>1 DEF Balanced
<1> QED
  BY <1>2, AlwaysInv, PTL

\* The tree of every expression, in every text, correct or not, is the one the table
\* of precedences stands for: an operator joins a left operand that binds at least as
\* tightly and a right one that binds more tightly, and the procedures never take an
\* expression that is not there, nor leave one behind (parser.c:246-301).
THEOREM TightestAlways == Spec => []BindsTightest
<1>1. ASSUME IInv PROVE FoldLeft(LAMBDA n, item : n + Effect(item), Len(nodes), todo) = 0
  <2>1. todo \in Seq(Items)
    BY <1>1 DEF IInv, TypeInv
  <2>2. PICK ms \in Heights : Below(ms, nodes) /\ Makes(ms, todo, <<>>)
    BY <1>1 DEF IInv, TreeInv
  <2>3. FoldLeft(LAMBDA n, item : n + Effect(item), Len(ms), todo) = Len(<<>>)
    BY <2>1, <2>2, MakesFolds
  <2>4. Len(ms) = Len(nodes) /\ Len(<<>>) = 0
    BY <2>2 DEF Below
  <2> QED
    BY <2>3, <2>4, Zenon
<1>2. ASSUME IInv, todo # <<>>, Top.do = "bin"
      PROVE  nodes[Len(nodes) - 1] >= Top.n /\ nodes[Len(nodes)] > Top.n
  <2>1. PICK ms, m \in Heights : Below(ms, nodes) /\ Turns(ms, Top, m)
    BY <1>2, TopTurns
  <2>2. Top.n \in 1..Primary /\ Len(ms) >= 2 /\ ms[Len(ms) - 1] >= Top.n /\ ms[Len(ms)] > Top.n
    BY <1>2, <2>1 DEF Turns
  <2>3. Len(ms) = Len(nodes) /\ \A i \in 1..Len(nodes) : ms[i] <= nodes[i]
    BY <2>1 DEF Below
  <2>4. nodes \in Seq(1..Primary) /\ ms \in Seq(1..Primary) /\ Len(ms) \in Nat
    BY <1>2 DEF IInv, TypeInv, Heights
  <2> DEFINE l == Len(nodes)
  <2>5. l \in 1..l /\ l - 1 \in 1..l
    BY <2>2, <2>3, <2>4
  <2>6. /\ nodes[l] \in 1..Primary /\ nodes[l - 1] \in 1..Primary
        /\ ms[l] \in 1..Primary /\ ms[l - 1] \in 1..Primary
    BY <2>3, <2>4, <2>5, ElementOfSeq
  <2>7. ms[l] <= nodes[l] /\ ms[l - 1] <= nodes[l - 1] /\ ms[l - 1] >= Top.n /\ ms[l] > Top.n
    BY <2>2, <2>3, <2>5
  <2>8. \A a, b, n \in Int : a <= b => (a >= n => b >= n) /\ (a > n => b > n)
    OBVIOUS
  <2> HIDE DEF l
  <2>9. nodes[l - 1] >= Top.n /\ nodes[l] > Top.n
    BY <2>2, <2>6, <2>7, <2>8
  <2> QED
    BY <2>9 DEF l
<1>3. IInv => BindsTightest
  <2> SUFFICES ASSUME IInv PROVE BindsTightest
    OBVIOUS
  <2> QED
    BY <1>1, <1>2, Zenon DEF BindsTightest
<1> QED
  BY <1>3, AlwaysInv, PTL

===============================================================================
