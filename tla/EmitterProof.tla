------------------------------ MODULE EmitterProof ------------------------------
(***************************************************************************)
(* Emitter.tla, for every program and every fuel: branches land, calls     *)
(* have the relocation of the function they name, the file is sound.       *)
(*                                                                         *)
(* First come the types and lengths of what the encoding functions give    *)
(* (Encode.tla), and what each step adds to the text, the log, the symbols *)
(* and the relocations; then the parts of the inductive invariant.  The    *)
(* items of the log tile the text (TextInv).  While a function is          *)
(* emitted, its branches and the patches correspond (PatchInv), and no     *)
(* two items share a byte (OneItem): so patching writes each branch of the *)
(* function its own displacement and nothing else (EndBytes, Kept), which  *)
(* is where LandInv begins and why LandInv and RelInv go on holding.       *)
(* Symbols keep their names, and those of functions are one for each       *)
(* function (SymInv), so that a name that is looked up means what the      *)
(* linker takes it for.                                                    *)
(***************************************************************************)
EXTENDS Emitter, SequenceTheorems, WellFoundedInduction, NaturalsInduction, TLAPS

-------------------------------------------------------------------------------
\* Strings of strings (FlattenSeq).

\* Numbers up to some number are reached one by one.
LEMMA OneByOne ==
  ASSUME NEW k \in Nat, NEW P, 0 \in P, \A i \in 1..k : i - 1 \in P => i \in P
  PROVE  \A i \in 0..k : i \in P
<1> DEFINE T == {i \in 0..k : i \notin P}
           R == {ss \in Nat \X Nat : ss[1] < ss[2]}
<1>1. ASSUME T # {} PROVE FALSE
  <2>1. IsWellFoundedOn(R, Nat)
    BY NatLessThanWellFounded DEF OpToRel
  <2>2. T \subseteq Nat
    OBVIOUS
  <2>3. \E x \in T : \A y \in T : ~ (<<y, x>> \in R)
    <3> HIDE DEF T, R
    <3> QED
      BY <1>1, <2>1, <2>2, WFMin
  <2>4. PICK x \in T : \A y \in T : ~ (<<y, x>> \in R)
    BY <2>3
  <2>5. x # 0 /\ x \in 0..k
    OBVIOUS
  <2>6. x - 1 \in T
    <3>1. x \in 1..k /\ x - 1 \in 0..k
      BY <2>5
    <3>2. x - 1 \notin P
      BY <3>1
    <3> QED
      BY <3>1, <3>2
  <2>7. <<x - 1, x>> \in R
    BY <2>5, <2>6
  <2> QED
    BY <2>4, <2>6, <2>7
<1> QED
  BY <1>1

\* FlattenSeq: f says how far the concatenation of ss has got.
Flattens(S, ss, f) ==
  /\ f \in [0..Len(ss) -> Seq(S)]
  /\ f[0] = <<>>
  /\ \A i \in 1..Len(ss) : f[i] = f[i - 1] \o ss[i]

LEMMA FlattensExists ==
  ASSUME NEW S, NEW ss \in Seq(Seq(S))
  PROVE  \E f : Flattens(S, ss, f)
<1> DEFINE k == Len(ss)
           Upto(n, f) == /\ f \in [0..n -> Seq(S)]
                         /\ f[0] = <<>>
                         /\ \A i \in 1..n : f[i] = f[i - 1] \o ss[i]
           P == {n \in 0..k : \E f : Upto(n, f)}
<1>0. k \in Nat /\ \A i \in 1..k : ss[i] \in Seq(S)
  OBVIOUS
<1>1. 0 \in P
  <2> DEFINE f == [i \in 0..0 |-> <<>>]
  <2>1. f \in [0..0 -> Seq(S)] /\ f[0] = <<>>
    OBVIOUS
  <2> HIDE DEF f
  <2>2. Upto(0, f)
    BY <2>1
  <2>3. 0 \in 0..k
    BY <1>0
  <2> HIDE DEF Upto
  <2> QED
    BY <2>2, <2>3
<1>2. ASSUME NEW n \in 1..k, n - 1 \in P PROVE n \in P
  <2>1. PICK f : Upto(n - 1, f)
    BY <1>2
  <2> DEFINE h == [i \in 0..n |-> IF i = n THEN f[n - 1] \o ss[n] ELSE f[i]]
  <2>2. n \in Nat /\ n >= 1 /\ n - 1 \in 0..(n - 1) /\ f[n - 1] \in Seq(S) /\ ss[n] \in Seq(S)
    BY <1>0, <2>1
  <2>3. f[n - 1] \o ss[n] \in Seq(S)
    BY <2>2
  <2>4. h \in [0..n -> Seq(S)]
    <3>1. ASSUME NEW i \in 0..n, i # n PROVE f[i] \in Seq(S)
      <4>1. i \in 0..(n - 1)
        BY <2>2, <3>1
      <4> QED
        BY <4>1, <2>1
    <3> QED
      BY <2>3, <3>1
  <2>5. h[0] = <<>>
    BY <2>1, <2>2
  <2>6. ASSUME NEW i \in 1..n PROVE h[i] = h[i - 1] \o ss[i]
    <3>1. i - 1 \in 0..n /\ i - 1 # n /\ h[i - 1] = f[i - 1]
      BY <2>2
    <3>2. CASE i = n
      <4>1. n \in 0..n
        BY <2>2
      <4>2. h[n] = f[n - 1] \o ss[n]
        BY <4>1
      <4> HIDE DEF h
      <4> QED
        BY <3>1, <3>2, <4>2
    <3>3. CASE i # n
      <4>1. i \in 1..(n - 1)
        BY <3>3, <2>2
      <4>2. h[i] = f[i]
        BY <3>3
      <4>3. f[i] = f[i - 1] \o ss[i]
        BY <2>1, <4>1
      <4> HIDE DEF h
      <4> QED
        BY <3>1, <4>2, <4>3
    <3> QED
      BY <3>2, <3>3
  <2> HIDE DEF h
  <2>7. Upto(n, h)
    BY ONLY <2>4, <2>5, <2>6
  <2> HIDE DEF Upto
  <2> QED
    BY <2>7
<1>3. k \in P
  <2> HIDE DEF P
  <2>1. k \in 0..k
    BY <1>0
  <2> QED
    BY <1>0, <1>1, <1>2, <2>1, OneByOne
<1> QED
  BY <1>3 DEF Flattens

LEMMA FlattensAlone ==
  ASSUME NEW S, NEW ss \in Seq(Seq(S)), NEW f, Flattens(S, ss, f)
  PROVE  FlattenSeq(ss) = f[Len(ss)] /\ FlattenSeq(ss) \in Seq(S)
<1> DEFINE k == Len(ss)
           Is(g) == g = [i \in 1..Len(ss) |-> IF i = 1 THEN ss[i] ELSE g[i - 1] \o ss[i]]
           c == CHOOSE g : Is(g)
<1>0. k \in Nat /\ k \in 0..k /\ \A i \in 1..k : ss[i] \in Seq(S)
  OBVIOUS
<1>1. CASE k = 0
  <2>1. FlattenSeq(ss) = ss /\ ss = <<>>
    BY <1>1 DEF FlattenSeq
  <2> QED
    BY <1>1, <2>1 DEF Flattens
<1>2. CASE k # 0
  <2>1. FlattenSeq(ss) = c[k]
    BY <1>2, Zenon DEF FlattenSeq
  <2>2. Is(c)
    <3> DEFINE g == [i \in 1..k |-> f[i]]
    <3>1. ASSUME NEW i \in 1..k PROVE g[i] = IF i = 1 THEN ss[i] ELSE g[i - 1] \o ss[i]
      <4>1. CASE i = 1
        <5>1. f[1] = f[0] \o ss[1] /\ ss[1] \in Seq(S)
          <6>1. 1 \in 1..Len(ss) /\ 1 - 1 = 0
            BY <1>2, <1>0
          <6>2. f[1] = f[1 - 1] \o ss[1]
            BY <6>1 DEF Flattens
          <6> QED
            BY <1>0, <6>1, <6>2
        <5> QED
          BY <4>1, <5>1 DEF Flattens
      <4>2. CASE i # 1
        <5>1. i - 1 \in 1..k
          BY <4>2, <1>0
        <5> QED
          BY <4>2, <5>1 DEF Flattens
      <4> QED
        BY <4>1, <4>2
    <3>2. g = [i \in 1..k |-> IF i = 1 THEN ss[i] ELSE g[i - 1] \o ss[i]]
      <4>1. g = [i \in 1..k |-> g[i]]
        OBVIOUS
      <4> HIDE DEF g
      <4> QED
        BY <4>1, <3>1
    <3> HIDE DEF g
    <3>3. Is(g)
      BY <3>2
    <3> HIDE DEF Is
    <3> QED
      BY <3>3
  <2> DEFINE P == {i \in 0..k : i # 0 => c[i] = f[i]}
  <2> HIDE DEF c
  <2>3. 0 \in P
    BY <1>0
  <2>4. ASSUME NEW i \in 1..k, i - 1 \in P PROVE i \in P
    <3>1. c[i] = IF i = 1 THEN ss[i] ELSE c[i - 1] \o ss[i]
      BY <2>2
    <3>2. f[i] = f[i - 1] \o ss[i]
      BY DEF Flattens
    <3>3. CASE i = 1
      <4>1. f[1] = <<>> \o ss[1] /\ ss[1] \in Seq(S)
        <5>1. 1 - 1 = 0 /\ f[0] = <<>>
          BY DEF Flattens
        <5> QED
          BY <1>0, <3>2, <3>3, <5>1
      <4> QED
        BY <3>1, <3>3, <4>1
    <3>4. CASE i # 1
      <4>1. c[i - 1] = f[i - 1]
        BY <2>4, <3>4
      <4>2. i \in 0..k
        BY <1>0
      <4> QED
        BY <3>1, <3>2, <3>4, <4>1, <4>2
    <3> QED
      BY <3>3, <3>4
  <2>5. k \in P
    <3> HIDE DEF P
    <3> QED
      BY <1>0, <2>3, <2>4, OneByOne
  <2>6. f[k] \in Seq(S)
    BY <1>0 DEF Flattens
  <2> QED
    BY <1>2, <2>1, <2>5, <2>6
<1> QED
  BY <1>1, <1>2

LEMMA FlattenTyped ==
  ASSUME NEW S, NEW ss \in Seq(Seq(S))
  PROVE  FlattenSeq(ss) \in Seq(S)
BY FlattensExists, FlattensAlone

LEMMA FlattenOne ==
  ASSUME NEW S, NEW s \in Seq(S)
  PROVE  FlattenSeq(<<s>>) = s
<1>1. <<s>> \in Seq(Seq(S)) /\ Len(<<s>>) = 1
  OBVIOUS
<1> DEFINE ss == <<s>>
<1>2. PICK f : Flattens(S, ss, f)
  BY <1>1, FlattensExists
<1>3. FlattenSeq(ss) = f[1]
  BY <1>1, <1>2, FlattensAlone
<1>4. f[1] = f[0] \o ss[1] /\ f[0] = <<>> /\ ss[1] = s
  <2>1. 1 \in 1..Len(ss) /\ 1 - 1 = 0
    OBVIOUS
  <2>2. f[1] = f[1 - 1] \o ss[1]
    BY <1>2, <2>1 DEF Flattens
  <2> QED
    BY <1>2, <2>1, <2>2 DEF Flattens
<1> QED
  BY <1>3, <1>4

LEMMA FlattenConcat ==
  ASSUME NEW S, NEW a \in Seq(Seq(S)), NEW b \in Seq(Seq(S))
  PROVE  FlattenSeq(a \o b) = FlattenSeq(a) \o FlattenSeq(b)
<1> DEFINE m == Len(a)  n == Len(b)  ab == a \o b
<1>0. /\ m \in Nat /\ n \in Nat /\ m \in 0..m /\ n \in 0..n /\ ab \in Seq(Seq(S)) /\ Len(ab) = m + n
      /\ \A i \in 1..m : ab[i] = a[i] /\ a[i] \in Seq(S)
      /\ \A j \in 1..n : ab[m + j] = b[j] /\ b[j] \in Seq(S)
  OBVIOUS
<1>1. PICK f : Flattens(S, a, f)
  BY FlattensExists
<1>2. PICK g : Flattens(S, b, g)
  BY FlattensExists
<1>3. PICK h : Flattens(S, ab, h)
  BY <1>0, FlattensExists
<1>4. FlattenSeq(a) = f[m] /\ FlattenSeq(b) = g[n] /\ FlattenSeq(ab) = h[m + n]
  BY <1>0, <1>1, <1>2, <1>3, FlattensAlone
<1> HIDE DEF ab
<1>5. h[m] = f[m]
  <2> DEFINE P == {i \in 0..m : h[i] = f[i]}
  <2>1. 0 \in P
    BY <1>0, <1>1, <1>3 DEF Flattens
  <2>2. ASSUME NEW i \in 1..m, i - 1 \in P PROVE i \in P
    <3>1. i \in 1..(m + n) /\ i \in 0..m
      BY <1>0
    <3> QED
      BY <1>0, <1>1, <1>3, <2>2, <3>1 DEF Flattens
  <2>3. m \in P
    <3> HIDE DEF P
    <3>1. m \in 0..m
      BY <1>0
    <3> QED
      BY <1>0, <2>1, <2>2, <3>1, OneByOne
  <2> QED
    BY <2>3
<1>6. h[m + n] = f[m] \o g[n]
  <2> DEFINE P == {j \in 0..n : h[m + j] = f[m] \o g[j]}
  <2>0. f[m] \in Seq(S)
    BY <1>0, <1>1 DEF Flattens
  <2>1. 0 \in P
    <3>1. g[0] = <<>> /\ m + 0 = m /\ 0 \in 0..n
      BY <1>0, <1>2 DEF Flattens
    <3>2. f[m] \o <<>> = f[m]
      BY ONLY <2>0, ConcatEmptySeq
    <3>3. h[m + 0] = f[m] \o g[0]
      BY ONLY <3>1, <3>2, <1>5
    <3> QED
      BY <3>1, <3>3
  <2>2. ASSUME NEW j \in 1..n, j - 1 \in P PROVE j \in P
    <3>1. m + j \in 1..(m + n) /\ j \in 0..n /\ j - 1 \in 0..n /\ (m + j) - 1 = m + (j - 1)
      BY <1>0
    <3>2. h[m + j] = h[(m + j) - 1] \o ab[m + j]
      BY <1>0, <1>3, <3>1 DEF Flattens
    <3>3. g[j] = g[j - 1] \o b[j] /\ g[j - 1] \in Seq(S) /\ b[j] \in Seq(S)
      BY <1>0, <1>2, <3>1 DEF Flattens
    <3>4. h[m + j] = (f[m] \o g[j - 1]) \o b[j]
      BY <1>0, <2>2, <3>1, <3>2
    <3>5. (f[m] \o g[j - 1]) \o b[j] = f[m] \o (g[j - 1] \o b[j])
      <4> DEFINE x == f[m]  y == g[j - 1]  z == b[j]
      <4>1. x \in Seq(S) /\ y \in Seq(S) /\ z \in Seq(S)
        BY ONLY <2>0, <3>3
      <4> HIDE DEF x, y, z
      <4>2. (x \o y) \o z = x \o (y \o z)
        BY ONLY <4>1, SMTT(60)
      <4> QED
        BY <4>2 DEF x, y, z
    <3> QED
      BY <3>1, <3>3, <3>4, <3>5
  <2>3. n \in P
    <3> HIDE DEF P
    <3>1. n \in 0..n
      BY <1>0
    <3> QED
      BY <1>0, <2>1, <2>2, <3>1, OneByOne
  <2> QED
    BY <2>3
<1> QED
  BY <1>4, <1>5, <1>6 DEF ab

-------------------------------------------------------------------------------
\* The encoding functions give bytes.

Octets == 0..255
Mnemonics == {"mov", "movi", "subi", "imul", "set", "movzx", "push", "pop", "lea", "store", "load",
              "cqo", "ret", "jmp", "jcc", "call"} \cup DOMAIN Alu \cup DOMAIN Digit
\* The instructions the encoding functions are asked for.
Asms ==
  {i \in [mn : Mnemonics, w : {8, 32, 64}, a : 0..16, b : 0..16, n : Int \X Int] :
     /\ i.mn \in DOMAIN Alu => i.w = 64 \/ (i.mn = "xor" /\ i.w = 32)
     /\ i.mn = "subi" => i.n[2] >= 0}

LEMMA Seq1 == ASSUME NEW S, NEW a \in S PROVE <<a>> \in Seq(S) /\ Len(<<a>>) = 1
OBVIOUS
LEMMA Seq2 == ASSUME NEW S, NEW a \in S, NEW b \in S PROVE <<a, b>> \in Seq(S) /\ Len(<<a, b>>) = 2
OBVIOUS
LEMMA Seq3 == ASSUME NEW S, NEW a \in S, NEW b \in S, NEW c \in S
              PROVE <<a, b, c>> \in Seq(S) /\ Len(<<a, b, c>>) = 3
OBVIOUS
LEMMA Seq4 == ASSUME NEW S, NEW a \in S, NEW b \in S, NEW c \in S, NEW d \in S
              PROVE <<a, b, c, d>> \in Seq(S) /\ Len(<<a, b, c, d>>) = 4
OBVIOUS
LEMMA Seq5 == ASSUME NEW S, NEW a \in S, NEW b \in S, NEW c \in S, NEW d \in S, NEW e \in S
              PROVE <<a, b, c, d, e>> \in Seq(S) /\ Len(<<a, b, c, d, e>>) = 5
OBVIOUS
LEMMA SeqConcat == ASSUME NEW S, NEW a \in Seq(S), NEW b \in Seq(S)
                   PROVE a \o b \in Seq(S) /\ Len(a \o b) = Len(a) + Len(b)
OBVIOUS

LEMMA RegBits ==
  ASSUME NEW r \in 0..16
  PROVE  reg_enc(r) \in 0..7 /\ reg_ext(r) \in 0..1
BY DEF reg_enc, reg_ext, NoReg, R8, R15

LEMMA RexTyped ==
  ASSUME NEW w \in 0..1, NEW r \in 0..16, NEW s \in 0..16
  PROVE  make_rex(w, r, s) \in Octets /\ make_rex_ext(w, r) \in Octets
<1>1. reg_ext(r) \in 0..1 /\ reg_ext(s) \in 0..1
  BY RegBits
<1> QED
  BY <1>1 DEF make_rex, make_rex_ext, Octets

LEMMA ModrmTyped ==
  ASSUME NEW r \in 0..16, NEW s \in 0..16
  PROVE  /\ modrm_rr(r, s) \in Octets /\ modrm_disp8(r, s) \in Octets /\ modrm_disp32(r, s) \in Octets
         /\ \A d \in 0..7 : modrm_ext_rr(d, r) \in Octets
<1>1. reg_enc(r) \in 0..7 /\ reg_enc(s) \in 0..7
  BY RegBits
<1> QED
  BY <1>1 DEF modrm_rr, modrm_disp8, modrm_disp32, modrm_ext_rr, Octets

LEMMA PushTyped ==
  ASSUME NEW n \in Int
  PROVE  push32le(n) \in Seq(Octets) /\ Len(push32le(n)) = 4 /\ DOMAIN push32le(n) = 1..4
<1> DEFINE a == n % 256  b == (n \div 256) % 256  c == (n \div 65536) % 256  d == (n \div 16777216) % 256
<1>1. a \in Octets /\ b \in Octets /\ c \in Octets /\ d \in Octets
  BY DEF Octets
<1> HIDE DEF a, b, c, d
<1>2. <<a, b, c, d>> \in Seq(Octets) /\ Len(<<a, b, c, d>>) = 4
  BY <1>1, Seq4
<1>3. push32le(n) = <<a, b, c, d>>
  BY DEF push32le, a, b, c, d
<1> QED
  BY <1>2, <1>3

LEMMA IfNeededTyped ==
  ASSUME NEW c, NEW x \in Octets
  PROVE  IfNeeded(c, x) \in Seq(Octets)
BY DEF IfNeeded

LEMMA MovBytes ==
  ASSUME NEW i \in Asms
  PROVE  EncMov(i) \in Seq(Octets)
<1> DEFINE rm == modrm_rr(i.b, i.a)  x1 == make_rex(1, i.b, i.a)  x0 == make_rex(0, i.b, i.a)
<1>0. i.a \in 0..16 /\ i.b \in 0..16 /\ i.w \in {8, 32, 64}
  BY DEF Asms
<1>1. rm \in Octets /\ x1 \in Octets /\ x0 \in Octets /\ 137 \in Octets /\ 136 \in Octets
  <2>1. x1 \in Octets /\ x0 \in Octets
    BY <1>0, RexTyped
  <2>2. rm \in Octets
    BY <1>0, ModrmTyped
  <2> QED
    BY <2>1, <2>2 DEF Octets
<1> DEFINE c32 == AnyExt(i.a, i.b)  c8 == AnyExt(i.a, i.b) \/ reg_needs_rex_8bit(i.a) \/ reg_needs_rex_8bit(i.b)
<1>2. EncMov(i) = CASE i.w = 64 -> <<x1, 137, rm>> [] i.w = 32 -> IfNeeded(c32, x0) \o <<137, rm>>
                    [] i.w = 8 -> IfNeeded(c8, x0) \o <<136, rm>>
  BY DEF EncMov
<1> HIDE DEF rm, x1, x0, c32, c8
<1>3. IfNeeded(c32, x0) \in Seq(Octets) /\ IfNeeded(c8, x0) \in Seq(Octets)
  BY <1>1, IfNeededTyped
<1>4. <<x1, 137, rm>> \in Seq(Octets) /\ <<137, rm>> \in Seq(Octets) /\ <<136, rm>> \in Seq(Octets)
  BY <1>1, Seq3, Seq2
<1>5. IfNeeded(c32, x0) \o <<137, rm>> \in Seq(Octets) /\ IfNeeded(c8, x0) \o <<136, rm>> \in Seq(Octets)
  BY <1>3, <1>4, SeqConcat
<1> QED
  BY <1>0, <1>2, <1>4, <1>5

LEMMA MovImmBytes ==
  ASSUME NEW i \in Asms
  PROVE  EncMovImm(i) \in Seq(Octets)
<1> DEFINE x1 == make_rex(1, NoReg, i.a)  x0 == make_rex(0, NoReg, i.a)  e1 == make_rex_ext(1, i.a)
           m == modrm_ext_rr(0, i.a)  b4 == 184 + reg_enc(i.a)  b1 == 176 + reg_enc(i.a)
           low == push32le(i.n[2])  high == push32le(i.n[1])  l == i.n[2] % 256
           c32 == reg_ext(i.a) = 1  c8 == reg_ext(i.a) = 1 \/ reg_needs_rex_8bit(i.a)
<1>0. i.a \in 0..16 /\ i.w \in {8, 32, 64} /\ i.n[1] \in Int /\ i.n[2] \in Int /\ NoReg \in 0..16
  BY DEF Asms, NoReg
<1>1. x1 \in Octets /\ x0 \in Octets /\ e1 \in Octets
  BY <1>0, RexTyped
<1>2. m \in Octets
  BY <1>0, ModrmTyped
<1>3. b4 \in Octets /\ b1 \in Octets /\ 199 \in Octets
  BY <1>0, RegBits DEF Octets
<1>4. low \in Seq(Octets) /\ high \in Seq(Octets)
  BY <1>0, PushTyped
<1>5. l \in Octets
  BY <1>0 DEF Octets
<1>6. EncMovImm(i) = CASE i.w = 64 /\ ~Fits32(i.n) -> <<x1, b4>> \o (low \o high)
                       [] i.w = 64 /\ Fits32(i.n) -> <<e1, 199, m>> \o low
                       [] i.w = 32 -> IfNeeded(c32, x0) \o <<b4>> \o low
                       [] i.w = 8 -> IfNeeded(c8, x0) \o <<b1, l>>
  BY DEF EncMovImm, push64le
<1> HIDE DEF x1, x0, e1, m, b4, b1, low, high, l, c32, c8
<1>7. /\ <<x1, b4>> \in Seq(Octets) /\ <<e1, 199, m>> \in Seq(Octets) /\ <<b4>> \in Seq(Octets)
      /\ <<b1, l>> \in Seq(Octets)
  BY <1>1, <1>2, <1>3, <1>5, Seq1, Seq2, Seq3
<1>8. IfNeeded(c32, x0) \in Seq(Octets) /\ IfNeeded(c8, x0) \in Seq(Octets)
  BY <1>1, IfNeededTyped
<1>9. <<x1, b4>> \o (low \o high) \in Seq(Octets)
  BY <1>4, <1>7, SeqConcat
<1>10. <<e1, 199, m>> \o low \in Seq(Octets)
  BY <1>4, <1>7, SeqConcat
<1>11. IfNeeded(c32, x0) \o <<b4>> \o low \in Seq(Octets)
  BY <1>4, <1>7, <1>8, SeqConcat
<1>12. IfNeeded(c8, x0) \o <<b1, l>> \in Seq(Octets)
  BY <1>7, <1>8, SeqConcat
<1> QED
  BY <1>0, <1>6, <1>9, <1>10, <1>11, <1>12

LEMMA AluBytes ==
  ASSUME NEW i \in Asms, i.mn \in DOMAIN Alu
  PROVE  EncAlu(i) \in Seq(Octets)
<1> DEFINE x == make_rex(1, i.b, i.a)  o == Alu[i.mn]  m == modrm_rr(i.b, i.a)
<1>0. i.a \in 0..16 /\ i.b \in 0..16
  BY DEF Asms
<1>1. x \in Octets /\ m \in Octets
  BY <1>0, RexTyped, ModrmTyped
<1>2. o \in Octets
  BY DEF Alu, Octets
<1>3. EncAlu(i) = <<x, o, m>>
  BY DEF EncAlu
<1> HIDE DEF x, o, m
<1> QED
  BY <1>1, <1>2, <1>3, Seq3

LEMMA SubImmBytes ==
  ASSUME NEW i \in Asms, i.mn = "subi"
  PROVE  EncSubImm(i) \in Seq(Octets)
<1> DEFINE x == make_rex_ext(1, i.a)  m == modrm_ext_rr(5, i.a)  n == i.n[2]  p == push32le(n)
<1>0. i.a \in 0..16 /\ n \in Int /\ n >= 0
  BY DEF Asms
<1>1. x \in Octets /\ m \in Octets /\ 131 \in Octets /\ 129 \in Octets
  <2>1. x \in Octets
    BY <1>0, RexTyped
  <2>2. m \in Octets
    BY <1>0, ModrmTyped
  <2> QED
    BY <2>1, <2>2 DEF Octets
<1>2. p \in Seq(Octets)
  BY <1>0, PushTyped
<1>3. EncSubImm(i) = IF n <= 127 THEN <<x, 131, m, n>> ELSE <<x, 129, m>> \o p
  BY DEF EncSubImm
<1> HIDE DEF x, m, n, p
<1>4. n <= 127 => n \in Octets
  BY <1>0 DEF Octets
<1>5. n <= 127 => <<x, 131, m, n>> \in Seq(Octets)
  BY <1>1, <1>4, Seq4
<1>6. <<x, 129, m>> \in Seq(Octets)
  BY <1>1, Seq3
<1>7. <<x, 129, m>> \o p \in Seq(Octets)
  BY <1>2, <1>6, SeqConcat
<1> QED
  BY <1>3, <1>5, <1>7

LEMMA ImulBytes ==
  ASSUME NEW i \in Asms
  PROVE  EncImul(i) \in Seq(Octets)
<1> DEFINE x == make_rex(1, i.a, i.b)  m == modrm_rr(i.a, i.b)
<1>0. i.a \in 0..16 /\ i.b \in 0..16
  BY DEF Asms
<1>1. x \in Octets /\ m \in Octets /\ 15 \in Octets /\ 175 \in Octets
  <2>1. x \in Octets
    BY <1>0, RexTyped
  <2>2. m \in Octets
    BY <1>0, ModrmTyped
  <2> QED
    BY <2>1, <2>2 DEF Octets
<1>3. EncImul(i) = <<x, 15, 175, m>>
  BY DEF EncImul
<1> HIDE DEF x, m
<1> QED
  BY <1>1, <1>3, Seq4

LEMMA UnaryBytes ==
  ASSUME NEW i \in Asms, i.mn \in DOMAIN Digit
  PROVE  EncUnary(i) \in Seq(Octets)
<1> DEFINE x == make_rex_ext(1, i.a)  o == IF i.mn \in {"shl", "shr"} THEN 211 ELSE 247
           d == Digit[i.mn]  m == modrm_ext_rr(d, i.a)
<1>0. i.a \in 0..16 /\ d \in 0..7
  BY DEF Asms, Digit
<1>1. x \in Octets /\ o \in Octets
  <2>1. x \in Octets
    BY <1>0, RexTyped
  <2> QED
    BY <2>1 DEF Octets
<1>2. m \in Octets
  <2> HIDE DEF d
  <2> QED
    BY <1>0, ModrmTyped
<1>3. EncUnary(i) = <<x, o, m>>
  BY DEF EncUnary
<1> HIDE DEF x, o, m
<1> QED
  BY <1>1, <1>2, <1>3, Seq3

LEMMA SetccBytes ==
  ASSUME NEW i \in Asms
  PROVE  EncSetcc(i) \in Seq(Octets)
<1> DEFINE x == make_rex_ext(0, i.a)  o == 144 + i.b  m == modrm_ext_rr(0, i.a)
           c == reg_ext(i.a) = 1 \/ reg_needs_rex_8bit(i.a)
<1>0. i.a \in 0..16 /\ i.b \in 0..16
  BY DEF Asms
<1>1. x \in Octets /\ m \in Octets
  BY <1>0, RexTyped, ModrmTyped
<1>2. o \in Octets /\ 15 \in Octets
  BY <1>0 DEF Octets
<1>3. EncSetcc(i) = IfNeeded(c, x) \o <<15, o, m>>
  BY DEF EncSetcc
<1> HIDE DEF x, o, m, c
<1>4. IfNeeded(c, x) \in Seq(Octets) /\ <<15, o, m>> \in Seq(Octets)
  BY <1>1, <1>2, IfNeededTyped, Seq3
<1> QED
  BY <1>3, <1>4, SeqConcat

LEMMA MovzxBytes ==
  ASSUME NEW i \in Asms
  PROVE  EncMovzx(i) \in Seq(Octets)
<1> DEFINE x == make_rex(0, i.a, i.b)  m == modrm_rr(i.a, i.b)
           c == AnyExt(i.a, i.b) \/ reg_needs_rex_8bit(i.b)
<1>0. i.a \in 0..16 /\ i.b \in 0..16
  BY DEF Asms
<1>1. x \in Octets /\ m \in Octets /\ 15 \in Octets /\ 182 \in Octets
  <2>1. x \in Octets
    BY <1>0, RexTyped
  <2>2. m \in Octets
    BY <1>0, ModrmTyped
  <2> QED
    BY <2>1, <2>2 DEF Octets
<1>3. EncMovzx(i) = IfNeeded(c, x) \o <<15, 182, m>>
  BY DEF EncMovzx
<1> HIDE DEF x, m, c
<1>4. IfNeeded(c, x) \in Seq(Octets) /\ <<15, 182, m>> \in Seq(Octets)
  BY <1>1, IfNeededTyped, Seq3
<1> QED
  BY <1>3, <1>4, SeqConcat

LEMMA StackBytes ==
  ASSUME NEW i \in Asms
  PROVE  EncPush(i) \in Seq(Octets)
<1> DEFINE o == (IF i.mn = "push" THEN 80 ELSE 88) + reg_enc(i.a)  c == reg_ext(i.a) = 1
<1>0. i.a \in 0..16
  BY DEF Asms
<1>1. o \in Octets /\ 65 \in Octets
  BY <1>0, RegBits DEF Octets
<1>3. EncPush(i) = IfNeeded(c, 65) \o <<o>>
  BY DEF EncPush
<1> HIDE DEF o, c
<1>4. IfNeeded(c, 65) \in Seq(Octets) /\ <<o>> \in Seq(Octets)
  BY <1>1, IfNeededTyped, Seq1
<1> QED
  BY <1>3, <1>4, SeqConcat

LEMMA LeaBytes ==
  ASSUME NEW i \in Asms
  PROVE  EncLea(i) \in Seq(Octets) /\ EncLeaRip(i) \in Seq(Octets)
<1> DEFINE x == make_rex(1, i.a, i.b)  n == i.n[2]  small == n \in -128..127
           sib == i.b \in {RSP, R12}  base == IF sib THEN 4 ELSE i.b
           m8 == modrm_disp8(i.a, base)  m32 == modrm_disp32(i.a, base)  l == n % 256  p == push32le(n)
           y == make_rex(1, i.a, NoReg)  r == 8 * reg_enc(i.a) + 5
           s1 == <<IF small THEN m8 ELSE m32>>  s2 == IF sib THEN <<36>> ELSE <<>>
           s3 == IF small THEN <<l>> ELSE p
<1>0. i.a \in 0..16 /\ i.b \in 0..16 /\ base \in 0..16 /\ n \in Int /\ NoReg \in 0..16
  BY DEF Asms, NoReg
<1>1. x \in Octets /\ y \in Octets
  BY <1>0, RexTyped
<1>2. m8 \in Octets /\ m32 \in Octets
  <2> HIDE DEF base
  <2> QED
    BY <1>0, ModrmTyped
<1>3. l \in Octets /\ 141 \in Octets /\ 36 \in Octets
  BY <1>0 DEF Octets
<1>4. r \in Octets
  BY <1>0, RegBits DEF Octets
<1>5. p \in Seq(Octets)
  BY <1>0, PushTyped
<1>6. EncLea(i) = <<x, 141>> \o s1 \o s2 \o s3
  BY DEF EncLea
<1>7. EncLeaRip(i) = <<y, 141, r>> \o p
  BY DEF EncLeaRip
<1> HIDE DEF x, n, m8, m32, l, p, y, r
<1>8. <<x, 141>> \in Seq(Octets) /\ <<y, 141, r>> \in Seq(Octets)
  BY <1>1, <1>3, <1>4, Seq2, Seq3
<1>9. s1 \in Seq(Octets)
  BY <1>2, Seq1
<1>10. s2 \in Seq(Octets)
  BY <1>3, Seq1
<1>11. s3 \in Seq(Octets)
  BY <1>3, <1>5, Seq1
<1> HIDE DEF s1, s2, s3
<1>12. <<x, 141>> \o s1 \o s2 \o s3 \in Seq(Octets)
  BY <1>8, <1>9, <1>10, <1>11, SeqConcat
<1> QED
  BY <1>5, <1>6, <1>7, <1>8, <1>12, SeqConcat

LEMMA FieldBytes ==
  ASSUME NEW i \in Asms
  PROVE  /\ <<233>> \o push32le(i.n[2]) \in Seq(Octets) /\ Len(<<233>> \o push32le(i.n[2])) = 5
         /\ <<15, 128 + i.b>> \o push32le(i.n[2]) \in Seq(Octets) /\ Len(<<15, 128 + i.b>> \o push32le(i.n[2])) = 6
         /\ <<232>> \o push32le(i.n[2]) \in Seq(Octets) /\ Len(<<232>> \o push32le(i.n[2])) = 5
         /\ (<<232>> \o push32le(i.n[2]))[1] = 232
<1> DEFINE p == push32le(i.n[2])  b == 128 + i.b
<1>0. i.n[2] \in Int /\ i.b \in 0..16
  BY DEF Asms
<1>1. p \in Seq(Octets) /\ Len(p) = 4
  BY <1>0, PushTyped
<1>2. b \in Octets /\ 233 \in Octets /\ 232 \in Octets /\ 15 \in Octets
  BY <1>0 DEF Octets
<1> HIDE DEF p, b
<1>3. <<233>> \in Seq(Octets) /\ <<232>> \in Seq(Octets) /\ <<15, b>> \in Seq(Octets)
  BY <1>2, Seq1, Seq2
<1>4. Len(<<233>>) = 1 /\ Len(<<232>>) = 1 /\ Len(<<15, b>>) = 2
  OBVIOUS
<1>5. /\ <<233>> \o p \in Seq(Octets) /\ Len(<<233>> \o p) = 5
      /\ <<15, b>> \o p \in Seq(Octets) /\ Len(<<15, b>> \o p) = 6
      /\ <<232>> \o p \in Seq(Octets) /\ Len(<<232>> \o p) = 5
  <2> DEFINE u == <<233>>  v == <<15, b>>  z == <<232>>
  <2> HIDE DEF u, v, z
  <2>1. u \o p \in Seq(Octets) /\ Len(u \o p) = Len(u) + Len(p)
    BY <1>1, <1>3, SeqConcat, ZenonT(60) DEF u
  <2>2. v \o p \in Seq(Octets) /\ Len(v \o p) = Len(v) + Len(p)
    BY <1>1, <1>3, SeqConcat, ZenonT(60) DEF v
  <2>3. z \o p \in Seq(Octets) /\ Len(z \o p) = Len(z) + Len(p)
    BY <1>1, <1>3, SeqConcat, ZenonT(60) DEF z
  <2>4. Len(u) = 1 /\ Len(v) = 2 /\ Len(z) = 1
    BY <1>4 DEF u, v, z
  <2>5. Len(u \o p) = 5 /\ Len(v \o p) = 6 /\ Len(z \o p) = 5
    BY ONLY <1>1, <2>1, <2>2, <2>3, <2>4
  <2> QED
    BY <2>1, <2>2, <2>3, <2>5 DEF u, v, z
<1>6. (<<232>> \o p)[1] = 232
  BY <1>1, <1>3, <1>4
<1> QED
  BY <1>5, <1>6 DEF p, b

\* Every instruction becomes bytes.
LEMMA BytesTyped ==
  ASSUME NEW i \in Asms
  PROVE  Bytes(i) \in Seq(Octets)
<1>1. i.mn \in Mnemonics
  BY DEF Asms
<1>2. CASE i.mn = "mov"
  BY <1>2, MovBytes DEF Bytes, Alu, Digit
<1>3. CASE i.mn = "movi"
  BY <1>3, MovImmBytes DEF Bytes, Alu, Digit
<1>4. CASE i.mn \in DOMAIN Alu /\ i.w = 64
  BY <1>4, AluBytes DEF Bytes, Alu, Digit
<1>5. CASE i.mn = "xor" /\ i.w = 32
  <2> DEFINE m == modrm_rr(i.b, i.a)
  <2>1. i.a \in 0..16 /\ i.b \in 0..16
    BY DEF Asms
  <2>2. m \in Octets
    BY <2>1, ModrmTyped
  <2>4. 49 \in Octets
    BY DEF Octets
  <2>3. Bytes(i) = <<49, m>>
    BY <1>5 DEF Bytes, Alu, Digit
  <2> HIDE DEF m
  <2> QED
    BY <2>2, <2>3, <2>4, Seq2
<1>6. CASE i.mn = "subi"
  BY <1>6, SubImmBytes DEF Bytes, Alu, Digit
<1>7. CASE i.mn = "imul"
  BY <1>7, ImulBytes DEF Bytes, Alu, Digit
<1>8. CASE i.mn \in DOMAIN Digit
  BY <1>8, UnaryBytes DEF Bytes, Alu, Digit
<1>9. CASE i.mn = "set"
  BY <1>9, SetccBytes DEF Bytes, Alu, Digit
<1>10. CASE i.mn = "movzx"
  BY <1>10, MovzxBytes DEF Bytes, Alu, Digit
<1>11. CASE i.mn \in {"push", "pop"}
  BY <1>11, StackBytes DEF Bytes, Alu, Digit
<1>12. CASE i.mn = "lea"
  BY <1>12, LeaBytes DEF Bytes, Alu, Digit
<1>13. CASE i.mn \in {"store", "load"}
  <2> DEFINE o == IF i.mn = "store" THEN 137 ELSE 139
  <2>1. o \in Octets /\ 72 \in Octets /\ 84 \in Octets /\ 36 \in Octets /\ 248 \in Octets
    BY DEF Octets
  <2>2. Bytes(i) = <<72, o, 84, 36, 248>>
    BY <1>13 DEF Bytes, Alu, Digit, EncRedZone
  <2> HIDE DEF o
  <2> QED
    BY <2>1, <2>2, Seq5
<1>14. CASE i.mn = "cqo"
  BY <1>14 DEF Bytes, Alu, Digit, Octets
<1>15. CASE i.mn = "ret"
  BY <1>15 DEF Bytes, Alu, Digit, Octets
<1>16. CASE i.mn = "jmp"
  BY <1>16, FieldBytes DEF Bytes, Alu, Digit
<1>17. CASE i.mn = "jcc"
  BY <1>17, FieldBytes DEF Bytes, Alu, Digit
<1>18. CASE i.mn = "call"
  BY <1>18, FieldBytes DEF Bytes, Alu, Digit
<1>19. i.mn \in DOMAIN Alu => i.w = 64 \/ (i.mn = "xor" /\ i.w = 32)
  BY DEF Asms
<1> QED
  BY <1>1, <1>2, <1>3, <1>4, <1>5, <1>6, <1>7, <1>8, <1>9, <1>10, <1>11, <1>12, <1>13, <1>14, <1>15,
     <1>16, <1>17, <1>18, <1>19 DEF Mnemonics

-------------------------------------------------------------------------------
\* What a selected instruction is expanded to.

LEMMA OperandRange == Operands = 0..16 /\ Gprs = 1..16
BY DEF Operands, Gprs, NoReg, RAX, R15

LEMMA ArgRegsTyped == Len(ArgRegs) = 6 /\ \A j \in 1..6 : ArgRegs[j] \in 0..16
BY DEF ArgRegs, RDI, RSI, RDX, RCX, R8, R9

LEMMA SeqMade ==
  ASSUME NEW S, NEW n \in Nat, NEW f, f = [k \in 1..n |-> f[k]], \A k \in 1..n : f[k] \in S
  PROVE  f \in Seq(S) /\ Len(f) = n
<1>1. f \in [1..n -> S]
  OBVIOUS
<1> QED
  BY <1>1

LEMMA AsmTyped ==
  ASSUME NEW mn \in Mnemonics, NEW w \in {8, 32, 64}, NEW a \in 0..16, NEW b \in 0..16,
         mn \in DOMAIN Alu => w = 64 \/ (mn = "xor" /\ w = 32)
  PROVE  /\ mn # "subi" => \A n \in Int \X Int : Asm(mn, w, a, b, n) \in Asms
         /\ Asm2(mn, w, a, b) \in Asms
BY DEF Asm, Asm2, Asms, Wide

\* The same with the sets named, which the provers match at once.
Widths == {8, 32, 64}
Codes == 0..16
Free(mn) == mn \in Mnemonics /\ mn \notin DOMAIN Alu /\ mn # "subi"

LEMMA KnownCodes ==
  /\ 8 \in Widths /\ 32 \in Widths /\ 64 \in Widths
  /\ NoReg \in Codes /\ RAX \in Codes /\ RCX \in Codes /\ RDX \in Codes /\ RSP \in Codes /\ RBP \in Codes
  BY DEF Widths, Codes, NoReg, RAX, RCX, RDX, RSP, RBP

LEMMA FreeOnes ==
  /\ Free("mov") /\ Free("movi") /\ Free("imul") /\ Free("set") /\ Free("movzx") /\ Free("lea") /\ Free("store")
  /\ Free("load") /\ Free("cqo") /\ Free("jmp") /\ Free("jcc") /\ Free("call") /\ Free("push") /\ Free("pop")
  /\ Free("ret") /\ Free("shl") /\ Free("shr") /\ Free("neg") /\ Free("not") /\ Free("idiv")
  BY DEF Free, Mnemonics, Alu, Digit

LEMMA AsmOf ==
  ASSUME NEW mn, Free(mn), NEW w \in Widths, NEW a \in Codes, NEW b \in Codes, NEW n \in Int \X Int
  PROVE  Asm(mn, w, a, b, n) \in Asms
BY DEF Asm, Asms, Free, Widths, Codes

LEMMA Asm2Of ==
  ASSUME NEW mn, Free(mn), NEW w \in Widths, NEW a \in Codes, NEW b \in Codes
  PROVE  Asm2(mn, w, a, b) \in Asms
BY DEF Asm, Asm2, Asms, Wide, Free, Widths, Codes

LEMMA AluOf ==
  ASSUME NEW mn, mn \in DOMAIN Alu, NEW a \in Codes, NEW b \in Codes
  PROVE  Asm2(mn, 64, a, b) \in Asms
BY DEF Asm, Asm2, Asms, Wide, Codes, Mnemonics

LEMMA MovTyped ==
  ASSUME NEW a \in 0..16, NEW b \in 0..16
  PROVE  Mov(a, b) \in Asms /\ \A c : MovUnless(c, a, b) \in Seq(Asms)
<1>1. Mov(a, b) \in Asms
  BY KnownCodes, FreeOnes, Asm2Of DEF Mov, Codes
<1>2. <<Mov(a, b)>> \in Seq(Asms)
  BY <1>1
<1> QED
  BY <1>1, <1>2 DEF MovUnless

LEMMA PopsTyped ==
  ASSUME NEW saved \in Seq(Gprs)
  PROVE  Epilogue(saved) \in Seq(Asms)
<1> DEFINE x == Mov(RSP, RBP)  y == Asm2("pop", 64, RBP, NoReg)  z == Asm2("ret", 64, NoReg, NoReg)
           p == [k \in DOMAIN saved |-> Asm2("pop", 64, saved[Len(saved) + 1 - k], NoReg)]
<1>0. RSP \in 0..16 /\ RBP \in 0..16 /\ NoReg \in 0..16
  BY DEF RSP, RBP, NoReg
<1>1. x \in Asms
  BY <1>0, MovTyped
<1>2. y \in Asms /\ z \in Asms
  BY KnownCodes, FreeOnes, Asm2Of
<1>3. p \in Seq(Asms)
  <2>1. ASSUME NEW k \in 1..Len(saved) PROVE p[k] \in Asms
    <3> DEFINE r == saved[Len(saved) + 1 - k]
    <3>1. r \in 0..16
      BY OperandRange
    <3>3. k \in DOMAIN saved
      OBVIOUS
    <3>4. p[k] = Asm2("pop", 64, r, NoReg)
      BY <3>3
    <3> HIDE DEF r, p
    <3>5. Asm2("pop", 64, r, NoReg) \in Asms
      BY KnownCodes, FreeOnes, <3>1, Asm2Of DEF Codes
    <3> QED
      BY <3>4, <3>5
  <2>2. p = [k \in 1..Len(saved) |-> p[k]] /\ Len(saved) \in Nat
    OBVIOUS
  <2> HIDE DEF p
  <2> QED
    BY <2>1, <2>2
<1>4. Epilogue(saved) = p \o <<x, y, z>>
  BY DEF Epilogue
<1> HIDE DEF x, y, z, p
<1>5. <<x, y, z>> \in Seq(Asms)
  BY <1>1, <1>2, Seq3
<1> QED
  BY <1>3, <1>4, <1>5, SeqConcat

LEMMA MovesTyped ==
  ASSUME NEW k \in 0..6, NEW rs, \A j \in 1..k : rs[j] \in 0..16
  PROVE  /\ FlattenSeq([j \in 1..k |-> MovUnless(~Valid(rs[j]) \/ rs[j] = ArgRegs[j], ArgRegs[j], rs[j])]) \in Seq(Asms)
         /\ FlattenSeq([j \in 1..k |-> MovUnless(~Valid(rs[j]) \/ rs[j] = ArgRegs[j], rs[j], ArgRegs[j])]) \in Seq(Asms)
<1> DEFINE ms == [j \in 1..k |-> MovUnless(~Valid(rs[j]) \/ rs[j] = ArgRegs[j], ArgRegs[j], rs[j])]
           ns == [j \in 1..k |-> MovUnless(~Valid(rs[j]) \/ rs[j] = ArgRegs[j], rs[j], ArgRegs[j])]
<1>1. ASSUME NEW j \in 1..k PROVE ms[j] \in Seq(Asms) /\ ns[j] \in Seq(Asms)
  <2> DEFINE r == rs[j]  q == ArgRegs[j]
  <2>1. r \in 0..16 /\ q \in 0..16
    <3>1. j \in 1..6
      OBVIOUS
    <3> QED
      BY <3>1, ArgRegsTyped
  <2>2. ms[j] = MovUnless(~Valid(r) \/ r = q, q, r) /\ ns[j] = MovUnless(~Valid(r) \/ r = q, r, q)
    OBVIOUS
  <2> HIDE DEF r, q, ms, ns
  <2> QED
    BY <2>1, <2>2, MovTyped
<1>2. ms = [j \in 1..k |-> ms[j]] /\ ns = [j \in 1..k |-> ns[j]] /\ k \in Nat
  OBVIOUS
<1> HIDE DEF ms, ns
<1>3. ms \in Seq(Seq(Asms)) /\ ns \in Seq(Seq(Asms))
  <2>1. ms \in [1..k -> Seq(Asms)] /\ ns \in [1..k -> Seq(Asms)]
    BY <1>1, <1>2
  <2> QED
    BY <1>2, <2>1
<1>4. FlattenSeq(ms) \in Seq(Asms) /\ FlattenSeq(ns) \in Seq(Asms)
  BY <1>3, FlattenTyped
<1> QED
  BY <1>4 DEF ms, ns

LEMMA PrologueTyped ==
  ASSUME NEW shape \in Frames, Len(shape.params) <= Len(ArgRegs)
  PROVE  /\ Prologue(shape.frame, shape.saved, shape.params) \in Seq(Asms)
         /\ Len(Prologue(shape.frame, shape.saved, shape.params)) >= 1
         /\ Prologue(shape.frame, shape.saved, shape.params)[1] = Asm2("push", 64, RBP, NoReg)
<1> DEFINE frame == shape.frame  saved == shape.saved  params == shape.params
           x == Asm2("push", 64, RBP, NoReg)  y == Mov(RBP, RSP)
           sub == IF frame = 0 THEN <<>> ELSE <<Asm("subi", 64, RSP, NoReg, Wide(frame))>>
           p == [k \in DOMAIN saved |-> Asm2("push", 64, saved[k], NoReg)]
           ms == [j \in DOMAIN params |-> MovUnless(~Valid(params[j]) \/ params[j] = ArgRegs[j], params[j], ArgRegs[j])]
<1>0. RSP \in 0..16 /\ RBP \in 0..16 /\ NoReg \in 0..16
  BY DEF RSP, RBP, NoReg
<1>a. frame \in Nat /\ saved \in Seq(Gprs) /\ params \in Seq(Operands)
  BY DEF Frames
<1>1. y \in Asms
  BY <1>0, MovTyped
<1>b. "push" \in Mnemonics /\ "push" \notin DOMAIN Alu
  BY DEF Mnemonics, Alu
<1>2. x \in Asms
  BY KnownCodes, FreeOnes, Asm2Of
<1>3. sub \in Seq(Asms)
  <2>1. Asm("subi", 64, RSP, NoReg, Wide(frame)) \in Asms
    BY <1>0, <1>a DEF Asm, Asms, Wide, Mnemonics, Alu
  <2> QED
    BY <2>1
<1>4. p \in Seq(Asms)
  <2>1. ASSUME NEW k \in 1..Len(saved) PROVE p[k] \in Asms
    <3> DEFINE r == saved[k]
    <3>1. r \in 0..16
      BY <1>a, OperandRange
    <3>2. p[k] = Asm2("push", 64, r, NoReg)
      BY <1>a
    <3> HIDE DEF r, p
    <3>3. Asm2("push", 64, r, NoReg) \in Asms
      BY KnownCodes, FreeOnes, <3>1, Asm2Of DEF Codes
    <3> QED
      BY <3>2, <3>3
  <2>2. p = [k \in 1..Len(saved) |-> p[k]] /\ Len(saved) \in Nat
    <3>1. DOMAIN saved = 1..Len(saved) /\ Len(saved) \in Nat
      BY <1>a
    <3> HIDE DEF saved
    <3> QED
      BY <3>1
  <2> DEFINE n == Len(saved)
  <2>3. n \in Nat /\ p = [k \in 1..n |-> p[k]] /\ \A k \in 1..n : p[k] \in Asms
    BY <2>1, <2>2
  <2> HIDE DEF p, n
  <2> QED
    BY <2>3, SeqMade
<1>5. FlattenSeq(ms) \in Seq(Asms)
  <2> DEFINE k == Len(params)
  <2>1. k \in 0..6 /\ DOMAIN params = 1..k /\ \A j \in 1..k : params[j] \in 0..16
    <3>1. k <= 6 /\ k \in Nat /\ DOMAIN params = 1..k
      BY <1>a, ArgRegsTyped
    <3>2. \A j \in 1..k : params[j] \in Operands
      BY <1>a, <3>1
    <3> HIDE DEF params, k
    <3> QED
      BY <3>1, <3>2, OperandRange
  <2>2. FlattenSeq([j \in 1..k |-> MovUnless(~Valid(params[j]) \/ params[j] = ArgRegs[j], params[j], ArgRegs[j])]) \in Seq(Asms)
    <3> HIDE DEF k, params
    <3> QED
      BY <2>1, MovesTyped
  <2> QED
    BY <2>1, <2>2
<1>6. Prologue(frame, saved, params) = <<x, y>> \o sub \o p \o FlattenSeq(ms)
  BY DEF Prologue
<1> DEFINE m == FlattenSeq(ms)
<1>7. m \in Seq(Asms)
  BY <1>5
<1> HIDE DEF x, y, sub, p, m
<1>8. <<x, y>> \in Seq(Asms) /\ Len(<<x, y>>) >= 1 /\ <<x, y>>[1] = x
  BY <1>1, <1>2, Seq2
<1> DEFINE t == <<x, y>>
<1> HIDE DEF t
<1>9. t \o sub \in Seq(Asms) /\ Len(t \o sub) >= 1 /\ (t \o sub)[1] = x
  BY <1>3, <1>8 DEF t
<1> DEFINE u == t \o sub
<1> HIDE DEF u
<1>10. u \o p \in Seq(Asms) /\ Len(u \o p) >= 1 /\ (u \o p)[1] = x
  BY <1>4, <1>9 DEF u
<1> DEFINE v == u \o p
<1> HIDE DEF v
<1>11. v \o m \in Seq(Asms) /\ Len(v \o m) >= 1 /\ (v \o m)[1] = x
  BY <1>7, <1>10 DEF v
<1>12. Prologue(frame, saved, params) = v \o m
  BY <1>6 DEF m, v, u, t
<1> QED
  BY <1>11, <1>12 DEF x

LEMMA MoveArgsTyped ==
  ASSUME NEW m \in Selected
  PROVE  MoveArgs(m) \in Seq(Asms)
<1> DEFINE k == IF Len(m.args) < Len(ArgRegs) THEN Len(m.args) ELSE Len(ArgRegs)
           args == m.args
<1>1. args \in Seq(Operands)
  BY DEF Selected
<1>2. k \in 0..6 /\ \A j \in 1..k : args[j] \in 0..16
  <2> HIDE DEF args
  <2>1. k \in 0..6 /\ k <= Len(args)
    <3> DEFINE l == Len(m.args)  r == Len(ArgRegs)
    <3>1. r = 6 /\ l \in Nat
      BY <1>1, ArgRegsTyped DEF args
    <3>2. k = (IF l < r THEN l ELSE r) /\ Len(args) = l
      BY DEF args
    <3> HIDE DEF l, r, k
    <3> QED
      BY ONLY <3>1, <3>2
  <2> QED
    BY <1>1, <2>1, OperandRange
<1>3. MoveArgs(m) = FlattenSeq([j \in 1..k |-> MovUnless(~Valid(args[j]) \/ args[j] = ArgRegs[j], ArgRegs[j], args[j])])
  BY DEF MoveArgs
<1> HIDE DEF k, args
<1> QED
  BY <1>2, <1>3, MovesTyped

LEMMA ExpandTyped ==
  ASSUME NEW m \in Selected, NEW saved \in Seq(Gprs)
  PROVE  Expand(m, saved) \in Seq(Asms)
<1>0. /\ m.op \in Plain \cup Branches \cup {"CALL"} /\ m.dst \in 0..16 /\ m.src \in 0..16 /\ m.src2 \in 0..16
      /\ m.w \in {8, 32, 64} /\ m.n \in Int \X Int /\ m.n[2] \in Int
  BY OperandRange DEF Selected
<1>r. RAX \in 0..16 /\ RDX \in 0..16 /\ RCX \in 0..16 /\ RSP \in 0..16 /\ NoReg \in 0..16
  BY DEF RAX, RDX, RCX, RSP, NoReg
<1>m. /\ {"mov", "movi", "imul", "set", "movzx", "lea", "store", "load", "cqo", "jmp", "jcc", "call"} \subseteq Mnemonics
      /\ {"mov", "movi", "imul", "set", "movzx", "lea", "store", "load", "cqo", "jmp", "jcc", "call"} \cap DOMAIN Alu = {}
      /\ {"shl", "shr", "neg", "not", "idiv"} \subseteq Mnemonics
      /\ {"shl", "shr", "neg", "not", "idiv"} \cap DOMAIN Alu = {}
      /\ {"add", "sub", "and", "or", "xor", "cmp", "test"} \subseteq Mnemonics
  BY DEF Mnemonics, Alu, Digit
<1>o. m.dst \in Codes /\ m.src \in Codes /\ m.src2 \in Codes /\ m.w \in Widths
  BY <1>0 DEF Codes, Widths
<1>a. "xor" \in DOMAIN Alu /\ "cmp" \in DOMAIN Alu /\ "test" \in DOMAIN Alu
  BY DEF Alu
<1>n. \A c : /\ MovUnless(c, m.dst, m.src) \in Seq(Asms)
             /\ MovUnless(c, m.dst, RAX) \in Seq(Asms) /\ MovUnless(c, m.dst, RDX) \in Seq(Asms)
             /\ MovUnless(c, RAX, m.src) \in Seq(Asms) /\ MovUnless(c, RAX, RAX) \in Seq(Asms)
  BY <1>0, <1>r, MovTyped
<1>1. CASE m.op = "MOV"
  <2>1. Asm2("mov", m.w, m.dst, m.src) \in Asms
    BY <1>o, KnownCodes, FreeOnes, Asm2Of
  <2> QED
    BY <1>1, <2>1 DEF Expand, ExpandMov, Arith, Cc
<1>2. CASE m.op = "MOV_IMM"
  <2> DEFINE n == IF m.w = 32 THEN <<0, m.n[2]>> ELSE m.n
  <2>1. n \in Int \X Int
    BY <1>0
  <2> DEFINE x == Asm("movi", 64, m.dst, NoReg, n)  y == Asm("movi", m.w, m.dst, NoReg, n)
  <2>2. Expand(m, saved) \in {<<>>, <<x>>, <<y>>}
    BY <1>2 DEF Expand, ExpandMovImm, Arith, Cc
  <2>3. x \in Asms /\ y \in Asms
    <3> HIDE DEF n
    <3> QED
      BY <1>o, KnownCodes, FreeOnes, <2>1, AsmOf
  <2> HIDE DEF x, y
  <2>4. <<x>> \in Seq(Asms) /\ <<y>> \in Seq(Asms) /\ <<>> \in Seq(Asms)
    BY <2>3, Seq1, EmptySeq
  <2> QED
    BY <2>2, <2>4
<1>3. CASE m.op \in DOMAIN Arith
  <2> DEFINE o == Arith[m.op]  x == Asm2(o, 64, m.dst, m.src2)
             u == MovUnless(m.dst = m.src \/ ~Valid(m.src), m.dst, m.src)
  <2>1. o = "imul" \/ o \in DOMAIN Alu
    <3>1. o \in {"add", "sub", "and", "or", "imul"}
      BY <1>3 DEF Arith
    <3> HIDE DEF o
    <3> QED
      BY <3>1 DEF Alu
  <2>2. Expand(m, saved) = IF ~Valid(m.dst) \/ ~Valid(m.src2) THEN <<>> ELSE u \o <<x>>
    BY <1>3 DEF Expand, ExpandArith, Arith, Cc
  <2>3. x \in Asms
    <3> HIDE DEF o
    <3> QED
      BY <1>o, <2>1, KnownCodes, FreeOnes, AluOf, Asm2Of
  <2>4. u \in Seq(Asms)
    BY <1>n
  <2> HIDE DEF x, u
  <2>5. u \o <<x>> \in Seq(Asms)
    BY <2>3, <2>4, Seq1, SeqConcat
  <2> QED
    BY <2>2, <2>5
<1>4. CASE m.op = "XOR"
  <2> DEFINE x == Asm2("xor", 64, m.dst, m.src2)
             u == MovUnless(m.dst = m.src2 \/ m.src = m.src2 \/ ~Valid(m.src) \/ m.dst = m.src, m.dst, m.src)
  <2>2. Expand(m, saved) = IF ~Valid(m.dst) \/ ~Valid(m.src2) THEN <<>> ELSE u \o <<x>>
    BY <1>4 DEF Expand, ExpandXor, Arith, Cc
  <2>3. x \in Asms
    BY <1>o, <1>a, AluOf
  <2>4. u \in Seq(Asms)
    BY <1>n
  <2> HIDE DEF x, u
  <2>5. u \o <<x>> \in Seq(Asms)
    BY <2>3, <2>4, Seq1, SeqConcat
  <2> QED
    BY <2>2, <2>5
<1>5. CASE m.op \in {"SHL", "SHR"}
  <2> DEFINE x == Asm2(IF m.op = "SHL" THEN "shl" ELSE "shr", 64, m.dst, RCX)
             u == MovUnless(m.dst = m.src \/ ~Valid(m.src), m.dst, m.src)
  <2>2. Expand(m, saved) = IF ~Valid(m.dst) THEN <<>> ELSE u \o <<x>>
    BY <1>5 DEF Expand, ExpandShift, Arith, Cc
  <2>3. x \in Asms
    <3>1. Asm2("shl", 64, m.dst, RCX) \in Asms /\ Asm2("shr", 64, m.dst, RCX) \in Asms
      BY <1>o, KnownCodes, FreeOnes, Asm2Of
    <3> QED
      BY <3>1
  <2>4. u \in Seq(Asms)
    BY <1>n
  <2> HIDE DEF x, u
  <2>5. u \o <<x>> \in Seq(Asms)
    BY <2>3, <2>4, Seq1, SeqConcat
  <2> QED
    BY <2>2, <2>5
<1>i. Idiv(m) \in Seq(Asms)
  <2> DEFINE lhs == IF Valid(m.src) THEN m.src ELSE RAX  u == MovUnless(lhs = RAX, RAX, lhs)
             x == Asm2("cqo", 64, NoReg, NoReg)  y == Asm2("idiv", 64, m.src2, NoReg)
  <2>1. Idiv(m) = u \o <<x, y>>
    BY DEF Idiv
  <2>2. u \in Seq(Asms)
    BY <1>n
  <2>3. x \in Asms /\ y \in Asms
    BY <1>o, KnownCodes, FreeOnes, Asm2Of
  <2> HIDE DEF u, x, y
  <2>4. <<x, y>> \in Seq(Asms)
    BY <2>3, Seq2
  <2> QED
    BY <2>1, <2>2, <2>4, SeqConcat
<1>6. CASE m.op = "DIV"
  <2> DEFINE u == Idiv(m)  v == MovUnless(~Valid(m.dst) \/ m.dst = RAX, m.dst, RAX)
  <2>1. Expand(m, saved) = IF ~Valid(m.src2) THEN <<>> ELSE u \o v
    BY <1>6 DEF Expand, ExpandDiv, Arith, Cc
  <2>2. u \in Seq(Asms) /\ v \in Seq(Asms)
    BY <1>i, <1>n
  <2> HIDE DEF u, v
  <2> QED
    BY <2>1, <2>2, SeqConcat
<1>7. CASE m.op = "MOD"
  <2> DEFINE u == Idiv(m)  v == MovUnless(~Valid(m.dst) \/ m.dst = RDX, m.dst, RDX)
             x == Asm("store", 64, RDX, RSP, Wide(-8))  y == Asm("load", 64, RDX, RSP, Wide(-8))
  <2>1. Expand(m, saved) = IF ~Valid(m.src2) THEN <<>> ELSE <<x>> \o u \o v \o <<y>>
    BY <1>7 DEF Expand, ExpandMod, Arith, Cc
  <2>2. u \in Seq(Asms) /\ v \in Seq(Asms)
    BY <1>i, <1>n
  <2>3. Wide(-8) \in Int \X Int
    BY DEF Wide
  <2>4. x \in Asms /\ y \in Asms
    BY KnownCodes, FreeOnes, <2>3, AsmOf
  <2> HIDE DEF u, v, x, y
  <2>5. <<x>> \in Seq(Asms) /\ <<y>> \in Seq(Asms)
    BY <2>4, Seq1
  <2>6. <<x>> \o u \o v \o <<y>> \in Seq(Asms)
    BY <2>2, <2>5, SeqConcat
  <2> QED
    BY <2>1, <2>6
<1>8. CASE m.op \in {"NEG", "NOT"}
  <2> DEFINE x == Asm2(IF m.op = "NEG" THEN "neg" ELSE "not", 64, m.src, NoReg)
  <2>2. Expand(m, saved) = IF ~Valid(m.src) THEN <<>> ELSE <<x>>
    BY <1>8 DEF Expand, ExpandUnary, Arith, Cc
  <2>3. Asm2("neg", 64, m.src, NoReg) \in Asms /\ Asm2("not", 64, m.src, NoReg) \in Asms
    BY <1>o, KnownCodes, FreeOnes, Asm2Of
  <2>4. x \in Asms
    BY <2>3
  <2> HIDE DEF x
  <2> QED
    BY <2>2, <2>4
<1>9. CASE m.op \in {"CMP", "TEST"}
  <2> DEFINE x == Asm2(IF m.op = "CMP" THEN "cmp" ELSE "test", 64, m.src, m.src2)
  <2>2. Expand(m, saved) = IF ~Valid(m.src) \/ ~Valid(m.src2) THEN <<>> ELSE <<x>>
    BY <1>9 DEF Expand, ExpandCompare, Arith, Cc
  <2>3. Asm2("cmp", 64, m.src, m.src2) \in Asms /\ Asm2("test", 64, m.src, m.src2) \in Asms
    BY <1>o, <1>a, AluOf
  <2>4. x \in Asms
    BY <2>3
  <2> HIDE DEF x
  <2> QED
    BY <2>2, <2>4
<1>10. CASE m.op \in DOMAIN Cc
  <2> DEFINE c == Cc[m.op]  x == Asm2("set", 8, m.dst, c)  y == Asm2("movzx", 32, m.dst, m.dst)
  <2>1. c \in 0..16
    BY <1>10 DEF Cc
  <2>2. Expand(m, saved) = IF ~Valid(m.dst) THEN <<>> ELSE <<x, y>>
    BY <1>10 DEF Expand, ExpandSet, Arith, Cc
  <2>3. x \in Asms /\ y \in Asms
    <3> HIDE DEF c
    <3> QED
      BY <1>o, KnownCodes, FreeOnes, <2>1, Asm2Of DEF Codes
  <2> HIDE DEF x, y
  <2> QED
    BY <2>2, <2>3
<1>11. CASE m.op = "LEA"
  <2> DEFINE x == Asm("movi", 64, m.dst, NoReg, m.n)  y == Mov(m.dst, m.src)  z == Asm("lea", 64, m.dst, m.src, m.n)
  <2>1. Expand(m, saved) = ExpandLea(m)
    BY <1>11 DEF Expand, Arith, Cc
  <2>2. \/ Expand(m, saved) = <<>> \/ Expand(m, saved) = <<x>> \/ Expand(m, saved) = <<y>>
        \/ Expand(m, saved) = <<z>>
    BY <2>1 DEF ExpandLea
  <2>3. x \in Asms /\ z \in Asms
    <3> DEFINE d == m.dst  e == m.src  n == m.n
    <3>1. d \in Codes /\ e \in Codes /\ n \in Int \X Int
      BY <1>0, <1>o
    <3> HIDE DEF d, e, n
    <3>2. Asm("movi", 64, d, NoReg, n) \in Asms /\ Asm("lea", 64, d, e, n) \in Asms
      BY <3>1, KnownCodes, FreeOnes, AsmOf
    <3> QED
      BY <3>2 DEF d, e, n
  <2>4. y \in Asms
    BY <1>0, MovTyped
  <2> HIDE DEF x, y, z
  <2>5. <<x>> \in Seq(Asms) /\ <<y>> \in Seq(Asms) /\ <<z>> \in Seq(Asms) /\ <<>> \in Seq(Asms)
    BY <2>3, <2>4, Seq1, EmptySeq
  <2> QED
    BY <2>2, <2>5
<1>12. CASE m.op = "CALL"
  <2> DEFINE u == MoveArgs(m)  x == Asm("call", 64, NoReg, NoReg, Wide(-1))
             v == MovUnless(~Valid(m.dst) \/ m.dst = RAX, m.dst, RAX)
  <2>1. Expand(m, saved) = u \o <<x>> \o v
    BY <1>12 DEF Expand, ExpandCall, Arith, Cc
  <2>2. u \in Seq(Asms) /\ v \in Seq(Asms)
    BY <1>n, MoveArgsTyped
  <2>3. Wide(-1) \in Int \X Int
    BY DEF Wide
  <2>4. x \in Asms
    BY KnownCodes, FreeOnes, <2>3, AsmOf
  <2> HIDE DEF u, v, x
  <2>5. u \o <<x>> \o v \in Seq(Asms)
    BY <2>2, <2>4, Seq1, SeqConcat
  <2> QED
    BY <2>1, <2>5
<1>13. CASE m.op = "RET"
  <2> DEFINE u == MovUnless(~Valid(m.src) \/ m.src = RAX, RAX, m.src)  v == Epilogue(saved)
  <2>1. Expand(m, saved) = u \o v
    BY <1>13 DEF Expand, ExpandRet, Arith, Cc
  <2>2. u \in Seq(Asms) /\ v \in Seq(Asms)
    BY <1>n, PopsTyped
  <2> HIDE DEF u, v
  <2> QED
    BY <2>1, <2>2, SeqConcat
<1>14. CASE m.op \in Branches
  <2> DEFINE x == Asm2("jmp", 64, NoReg, NoReg)  y == Asm2("jcc", 64, NoReg, 5)
  <2>1. Expand(m, saved) = <<x>> \/ Expand(m, saved) = <<y>>
    BY <1>14 DEF Expand, Branches, Arith, Cc
  <2>2. x \in Asms
    BY KnownCodes, FreeOnes, Asm2Of
  <2>3. y \in Asms
    <3>1. 5 \in Codes
      BY DEF Codes
    <3> QED
      BY KnownCodes, FreeOnes, <3>1, Asm2Of
  <2> HIDE DEF x, y
  <2> QED
    BY <2>1, <2>2, <2>3
<1> QED
  BY <1>0, <1>1, <1>2, <1>3, <1>4, <1>5, <1>6, <1>7, <1>8, <1>9, <1>10, <1>11, <1>12, <1>13, <1>14 DEF Plain

-------------------------------------------------------------------------------
\* The bytes of several instructions.

LEMMA EachBytes ==
  ASSUME NEW is \in Seq(Asms)
  PROVE  /\ [k \in DOMAIN is |-> Bytes(is[k])] \in Seq(Seq(Octets))
         /\ Len([k \in DOMAIN is |-> Bytes(is[k])]) = Len(is)
<1> DEFINE n == Len(is)  f == [k \in DOMAIN is |-> Bytes(is[k])]
<1>1. n \in Nat /\ DOMAIN is = 1..n /\ \A k \in 1..n : is[k] \in Asms
  OBVIOUS
<1>2. ASSUME NEW k \in 1..n PROVE f[k] \in Seq(Octets)
  <2>1. Bytes(is[k]) \in Seq(Octets)
    <3> DEFINE i == is[k]
    <3>1. i \in Asms
      BY <1>1
    <3> HIDE DEF i
    <3>2. Bytes(i) \in Seq(Octets)
      BY <3>1, BytesTyped
    <3> QED
      BY <3>2 DEF i
  <2> QED
    BY <1>1, <2>1
<1>3. f = [k \in 1..n |-> f[k]]
  BY <1>1
<1> HIDE DEF f, n
<1>4. f \in Seq(Seq(Octets)) /\ Len(f) = n
  BY <1>1, <1>2, <1>3, SeqMade
<1> QED
  BY <1>4 DEF f, n

LEMMA AllBytesTyped ==
  ASSUME NEW is \in Seq(Asms)
  PROVE  AllBytes(is) \in Seq(Octets) /\ Len(AllBytes(is)) \in Nat
<1> DEFINE f == [k \in DOMAIN is |-> Bytes(is[k])]
<1>1. f \in Seq(Seq(Octets))
  BY EachBytes
<1>2. AllBytes(is) = FlattenSeq(f)
  BY DEF AllBytes
<1> HIDE DEF f
<1>3. FlattenSeq(f) \in Seq(Octets)
  BY <1>1, FlattenTyped
<1> QED
  BY <1>2, <1>3

LEMMA AllBytesConcat ==
  ASSUME NEW a \in Seq(Asms), NEW b \in Seq(Asms)
  PROVE  AllBytes(a \o b) = AllBytes(a) \o AllBytes(b)
<1> DEFINE fa == [k \in DOMAIN a |-> Bytes(a[k])]  fb == [k \in DOMAIN b |-> Bytes(b[k])]
           ab == a \o b  f == [k \in DOMAIN ab |-> Bytes(ab[k])]
<1>1. /\ fa \in Seq(Seq(Octets)) /\ fb \in Seq(Seq(Octets))
      /\ Len(fa) = Len(a) /\ Len(fb) = Len(b)
  BY EachBytes
<1>2. ab \in Seq(Asms) /\ Len(ab) = Len(a) + Len(b)
  BY SeqConcat
<1>3. f \in Seq(Seq(Octets)) /\ Len(f) = Len(ab)
  <2> HIDE DEF ab
  <2> QED
    BY <1>2, EachBytes
<1>4. \A k \in 1..Len(a) : f[k] = fa[k]
  <2> SUFFICES ASSUME NEW k \in 1..Len(a) PROVE f[k] = fa[k]
    OBVIOUS
  <2>1. k \in DOMAIN a /\ k \in DOMAIN ab /\ ab[k] = a[k]
    OBVIOUS
  <2> HIDE DEF ab
  <2> QED
    BY <2>1
<1>5. \A k \in 1..Len(b) : f[Len(a) + k] = fb[k]
  <2> SUFFICES ASSUME NEW k \in 1..Len(b) PROVE f[Len(a) + k] = fb[k]
    OBVIOUS
  <2>1. k \in DOMAIN b /\ Len(a) + k \in DOMAIN ab /\ ab[Len(a) + k] = b[k]
    OBVIOUS
  <2> HIDE DEF ab
  <2> QED
    BY <2>1
<1>6. AllBytes(ab) = FlattenSeq(f) /\ AllBytes(a) = FlattenSeq(fa) /\ AllBytes(b) = FlattenSeq(fb)
  BY DEF AllBytes
<1>7. Len(a) \in Nat /\ Len(b) \in Nat
  OBVIOUS
<1> DEFINE la == Len(a)  lb == Len(b)
<1> HIDE DEF f, fa, fb, ab, la, lb
<1>8. f = fa \o fb
  <2> DEFINE g == fa \o fb
  <2>1. g \in Seq(Seq(Octets)) /\ Len(g) = la + lb
    <3>1. fa \in Seq(Seq(Octets)) /\ fb \in Seq(Seq(Octets)) /\ Len(fa) = la /\ Len(fb) = lb
      BY <1>1 DEF la, lb
    <3>2. g \in Seq(Seq(Octets)) /\ Len(g) = Len(fa) + Len(fb)
      BY <3>1, SeqConcat
    <3> QED
      BY ONLY <3>1, <3>2
  <2>2. ASSUME NEW k \in 1..(la + lb) PROVE f[k] = g[k]
    <3>1. CASE k <= la
      <4>1. k \in 1..la /\ g[k] = fa[k]
        BY <1>1, <1>7, <3>1 DEF la, lb
      <4> QED
        BY <1>4, <4>1 DEF la, lb
    <3>2. CASE ~(k <= la)
      <4>1. k - la \in 1..lb /\ la + (k - la) = k
        BY <1>7, <3>2 DEF la, lb
      <4>2. g[k] = fb[k - la]
        BY <1>1, <1>7, <3>2 DEF la, lb
      <4>3. f[la + (k - la)] = fb[k - la]
        BY <1>5, <4>1 DEF la, lb
      <4> QED
        BY <4>1, <4>2, <4>3
    <3> QED
      BY <3>1, <3>2
  <2>3. Len(f) = la + lb
    BY <1>2, <1>3 DEF la, lb
  <2> HIDE DEF g
  <2>4. f = g
    BY <1>3, <2>1, <2>2, <2>3, SeqEqual
  <2> QED
    BY <2>4 DEF g
<1>9. FlattenSeq(fa \o fb) = FlattenSeq(fa) \o FlattenSeq(fb)
  BY <1>1, FlattenConcat
<1> QED
  BY <1>6, <1>8, <1>9 DEF ab

LEMMA AllBytesOne ==
  ASSUME NEW i \in Asms
  PROVE  AllBytes(<<i>>) = Bytes(i) /\ Bytes(i) \in Seq(Octets)
<1>1. Bytes(i) \in Seq(Octets)
  BY BytesTyped
<1> DEFINE b == Bytes(i)
<1>2. [k \in DOMAIN <<i>> |-> Bytes(<<i>>[k])] = <<b>>
  OBVIOUS
<1>3. AllBytes(<<i>>) = FlattenSeq(<<b>>)
  BY <1>2 DEF AllBytes
<1> HIDE DEF b
<1>4. FlattenSeq(<<b>>) = b
  BY <1>1, FlattenOne DEF b
<1> QED
  BY <1>1, <1>3, <1>4 DEF b

\* What a list begins with is what its bytes begin with.
LEMMA AllBytesFirst ==
  ASSUME NEW is \in Seq(Asms), Len(is) >= 1
  PROVE  Len(AllBytes(is)) >= Len(Bytes(is[1])) /\ Len(Bytes(is[1])) \in Nat
<1> DEFINE i == is[1]  rest == Tail(is)  a == <<i>>
<1>1. i \in Asms /\ rest \in Seq(Asms) /\ is = a \o rest
  OBVIOUS
<1> HIDE DEF i, rest
<1>2. a \in Seq(Asms)
  BY <1>1, Seq1
<1> HIDE DEF a
<1>3. AllBytes(a \o rest) = AllBytes(a) \o AllBytes(rest)
  BY <1>1, <1>2, AllBytesConcat
<1>4. AllBytes(a) = Bytes(i) /\ Bytes(i) \in Seq(Octets)
  BY <1>1, AllBytesOne DEF a
<1>5. AllBytes(rest) \in Seq(Octets)
  BY <1>1, AllBytesTyped
<1> DEFINE u == Bytes(i)  v == AllBytes(rest)
<1>6. u \in Seq(Octets) /\ v \in Seq(Octets) /\ AllBytes(is) = u \o v
  BY <1>1, <1>3, <1>4, <1>5
<1> HIDE DEF u, v
<1>7. Len(u \o v) = Len(u) + Len(v) /\ Len(u) \in Nat /\ Len(v) \in Nat
  BY <1>6, SeqConcat
<1> QED
  BY <1>6, <1>7 DEF u, i

\* The prologue pushes RBP at least.
LEMMA PrologueBytes ==
  ASSUME NEW shape \in Frames, Len(shape.params) <= Len(ArgRegs)
  PROVE  /\ AllBytes(Prologue(shape.frame, shape.saved, shape.params)) \in Seq(Octets)
         /\ Len(AllBytes(Prologue(shape.frame, shape.saved, shape.params))) >= 1
<1> DEFINE p == Prologue(shape.frame, shape.saved, shape.params)  x == Asm2("push", 64, RBP, NoReg)
<1>1. p \in Seq(Asms) /\ Len(p) >= 1 /\ p[1] = x
  BY PrologueTyped
<1>2. Bytes(x) = EncPush(x) /\ x.a = RBP /\ x.mn = "push"
  BY DEF Bytes, Asm2, Asm, Alu, Digit
<1>3. Bytes(x) = <<80 + reg_enc(RBP)>>
  BY <1>2 DEF EncPush, IfNeeded, reg_ext, RBP, R8, R15
<1>4. Len(Bytes(x)) = 1
  BY <1>3
<1> HIDE DEF p, x
<1>5. AllBytes(p) \in Seq(Octets)
  BY <1>1, AllBytesTyped
<1>6. Len(AllBytes(p)) >= Len(Bytes(p[1]))
  BY <1>1, AllBytesFirst
<1> QED
  BY <1>1, <1>4, <1>5, <1>6 DEF p

LEMMA BranchBytes ==
  ASSUME NEW m \in Selected, NEW saved \in Seq(Gprs), m.op \in Branches
  PROVE  Len(AllBytes(Expand(m, saved))) >= 5
<1> DEFINE x == Asm2("jmp", 64, NoReg, NoReg)  y == Asm2("jcc", 64, NoReg, 5)
<1>1. Expand(m, saved) = <<x>> \/ Expand(m, saved) = <<y>>
  BY DEF Expand, Branches, Arith, Cc
<1>2. x \in Asms /\ y \in Asms
  <2>1. {"jmp", "jcc"} \subseteq Mnemonics /\ {"jmp", "jcc"} \cap DOMAIN Alu = {}
    BY DEF Mnemonics, Alu
  <2>2. NoReg \in 0..16 /\ 5 \in 0..16 /\ 64 \in {8, 32, 64}
    BY DEF NoReg
  <2> QED
    BY <2>1, <2>2, AsmTyped
<1>3. Bytes(x) = <<233>> \o push32le(x.n[2]) /\ Bytes(y) = <<15, 128 + y.b>> \o push32le(y.n[2])
  BY DEF Bytes, Asm2, Asm, Alu, Digit
<1> HIDE DEF x, y
<1>4. Len(Bytes(x)) = 5 /\ Len(Bytes(y)) = 6
  BY <1>2, <1>3, FieldBytes
<1>5. AllBytes(<<x>>) = Bytes(x) /\ AllBytes(<<y>>) = Bytes(y)
  BY <1>2, AllBytesOne
<1>6. Len(AllBytes(<<x>>)) = 5 /\ Len(AllBytes(<<y>>)) = 6
  BY ONLY <1>4, <1>5
<1> DEFINE all == Expand(m, saved)  xs == <<x>>  ys == <<y>>
<1>7. (all = xs \/ all = ys) /\ Len(AllBytes(xs)) = 5 /\ Len(AllBytes(ys)) = 6
  BY <1>1, <1>6
<1> HIDE DEF all, xs, ys
<1>8. Len(AllBytes(all)) = 5 \/ Len(AllBytes(all)) = 6
  BY ONLY <1>7, Zenon
<1>9. Len(AllBytes(all)) >= 5
  <2> DEFINE k == Len(AllBytes(all))
  <2>1. k = 5 \/ k = 6
    BY <1>8
  <2> HIDE DEF k
  <2>2. k >= 5
    BY ONLY <2>1
  <2> QED
    BY <2>2 DEF k
<1> QED
  BY <1>9 DEF all

LEMMA CallBytes ==
  ASSUME NEW n \in Int \X Int
  PROVE  /\ Asm("call", 64, NoReg, NoReg, n) \in Asms
         /\ AllBytes(<<Asm("call", 64, NoReg, NoReg, n)>>) \in Seq(Octets)
         /\ Len(AllBytes(<<Asm("call", 64, NoReg, NoReg, n)>>)) = 5
         /\ AllBytes(<<Asm("call", 64, NoReg, NoReg, n)>>)[1] = 232
<1> DEFINE x == Asm("call", 64, NoReg, NoReg, n)
<1>1. x \in Asms
  <2>1. "call" \in Mnemonics /\ "call" \notin DOMAIN Alu
    BY DEF Mnemonics, Alu
  <2>2. NoReg \in 0..16 /\ 64 \in {8, 32, 64}
    BY DEF NoReg
  <2> QED
    BY <2>1, <2>2, AsmTyped
<1>2. Bytes(x) = <<232>> \o push32le(x.n[2])
  BY DEF Bytes, Asm, Alu, Digit
<1> HIDE DEF x
<1>3. Bytes(x) \in Seq(Octets) /\ Len(Bytes(x)) = 5 /\ Bytes(x)[1] = 232
  BY <1>1, <1>2, FieldBytes
<1>4. AllBytes(<<x>>) = Bytes(x)
  BY <1>1, AllBytesOne
<1> QED
  BY <1>1, <1>3, <1>4 DEF x

LEMMA CallAt ==
  ASSUME NEW m \in Selected, NEW saved \in Seq(Gprs), m.op = "CALL"
  PROVE  LET head == AllBytes(MoveArgs(m))  all == AllBytes(Expand(m, saved)) IN
         /\ all \in Seq(Octets) /\ Len(head) \in Nat
         /\ Len(all) >= Len(head) + 5
         /\ all[Len(head) + 1] = 232
<1> DEFINE u == MoveArgs(m)  x == Asm("call", 64, NoReg, NoReg, Wide(-1))
           v == MovUnless(~Valid(m.dst) \/ m.dst = RAX, m.dst, RAX)
           h == AllBytes(u)  c == AllBytes(<<x>>)  t == AllBytes(v)
<1>1. Expand(m, saved) = u \o <<x>> \o v
  BY DEF Expand, ExpandCall, Arith, Cc
<1>2. u \in Seq(Asms)
  BY MoveArgsTyped
<1>3. v \in Seq(Asms)
  <2> DEFINE d == m.dst
  <2>1. d \in Operands
    BY DEF Selected
  <2>2. RAX \in 0..16
    BY DEF RAX
  <2> HIDE DEF d
  <2>3. d \in 0..16
    BY ONLY <2>1, OperandRange
  <2>4. MovUnless(~Valid(d) \/ d = RAX, d, RAX) \in Seq(Asms)
    BY <2>2, <2>3, MovTyped
  <2> QED
    BY <2>4 DEF d
<1>4. x \in Asms /\ c \in Seq(Octets) /\ Len(c) = 5 /\ c[1] = 232
  <2>1. Wide(-1) \in Int \X Int
    BY DEF Wide
  <2> QED
    BY <2>1, CallBytes
<1> HIDE DEF u, x, v
<1>5. <<x>> \in Seq(Asms)
  BY <1>4, Seq1
<1> DEFINE y == <<x>>  uy == u \o y
<1>6. AllBytes(uy) = h \o AllBytes(y) /\ uy \in Seq(Asms)
  <2> HIDE DEF y
  <2> QED
    BY <1>2, <1>5, AllBytesConcat, SeqConcat DEF y
<1>7. AllBytes(uy \o v) = AllBytes(uy) \o t
  <2> HIDE DEF uy
  <2> QED
    BY <1>3, <1>6, AllBytesConcat
<1>8. AllBytes(Expand(m, saved)) = (h \o c) \o t
  BY <1>1, <1>6, <1>7
<1>9. h \in Seq(Octets) /\ t \in Seq(Octets)
  BY <1>2, <1>3, AllBytesTyped
<1> HIDE DEF h, c, t
<1>10. h \o c \in Seq(Octets) /\ Len(h \o c) = Len(h) + 5 /\ (h \o c)[Len(h) + 1] = 232 /\ Len(h) \in Nat /\ Len(t) \in Nat
  <2>0. c \in Seq(Octets)
    BY <1>4
  <2>1. h \o c \in Seq(Octets) /\ Len(h \o c) = Len(h) + Len(c) /\ Len(h) \in Nat /\ Len(t) \in Nat
    BY ONLY <2>0, <1>9
  <2>2. (h \o c)[Len(h) + 1] = c[1]
    BY <1>4, <1>9, <2>1
  <2> QED
    BY ONLY <1>4, <2>1, <2>2
<1> DEFINE hc == h \o c
<1>13. t \in Seq(Octets)
  BY <1>9
<1> HIDE DEF hc
<1>11. hc \o t \in Seq(Octets) /\ Len(hc \o t) = Len(h) + 5 + Len(t) /\ (hc \o t)[Len(h) + 1] = 232
  <2>1. hc \in Seq(Octets) /\ Len(hc) = Len(h) + 5 /\ hc[Len(h) + 1] = 232
    BY <1>10 DEF hc
  <2>2. hc \o t \in Seq(Octets) /\ Len(hc \o t) = Len(hc) + Len(t)
    BY ONLY <1>13, <2>1, SeqConcat
  <2>3. Len(h) + 1 \in 1..Len(hc)
    BY ONLY <1>10, <2>1
  <2>4. (hc \o t)[Len(h) + 1] = hc[Len(h) + 1]
    BY <1>9, <2>1, <2>3
  <2> QED
    BY ONLY <2>1, <2>2, <2>4
<1>12. Len(hc \o t) >= Len(h) + 5
  BY <1>10, <1>11
<1> QED
  BY <1>8, <1>10, <1>11, <1>12 DEF hc, h, u

LEMMA HelperBytes ==
  /\ AllBytes(HelperHead) \in Seq(Octets) /\ Len(AllBytes(HelperHead)) >= 7
  /\ AllBytes(HelperCall) \in Seq(Octets) /\ Len(AllBytes(HelperCall)) = 5 /\ AllBytes(HelperCall)[1] = 232
  /\ AllBytes(Epilogue(<<>>)) \in Seq(Octets)
<1> DEFINE x == Asm2("push", 64, RBP, NoReg)  y == Mov(RBP, RSP)  z == Mov(RSI, RDI)
           l == Asm("lea", 64, RDI, NoReg, Wide(0))  o == Asm2("xor", 32, RAX, RAX)
           is == <<x, y, z>>  js == <<l, o>>
<1>0. RSP \in 0..16 /\ RBP \in 0..16 /\ NoReg \in 0..16 /\ RSI \in 0..16 /\ RDI \in 0..16 /\ RAX \in 0..16
  BY DEF RSP, RBP, NoReg, RSI, RDI, RAX
<1>1. Wide(0) \in Int \X Int
  BY DEF Wide
<1>2. x \in Asms
  <2>1. "push" \in Mnemonics /\ "push" \notin DOMAIN Alu
    BY DEF Mnemonics, Alu
  <2> QED
    BY <1>0, <2>1, AsmTyped
<1>3. y \in Asms /\ z \in Asms
  BY <1>0, MovTyped
<1>4. l \in Asms
  <2>1. "lea" \in Mnemonics /\ "lea" \notin DOMAIN Alu
    BY DEF Mnemonics, Alu
  <2> QED
    BY <1>0, <1>1, <2>1, AsmTyped
<1>5. o \in Asms
  <2>1. "xor" \in Mnemonics
    BY DEF Mnemonics, Alu
  <2> QED
    BY <1>0, <2>1, AsmTyped
<1>6. HelperHead = <<x, y, z, l, o>>
  BY DEF HelperHead
<1>7. Bytes(l) = <<make_rex(1, RDI, NoReg), 141, 8 * reg_enc(RDI) + 5>> \o push32le(l.n[2]) /\ l.n[2] \in Int
  BY <1>1 DEF Bytes, Asm, Alu, Digit, EncLeaRip
<1> HIDE DEF x, y, z, l, o
<1>8. is \in Seq(Asms) /\ js \in Seq(Asms) /\ Len(is) = 3 /\ Len(js) = 2 /\ js[1] = l
  BY <1>2, <1>3, <1>4, <1>5, Seq3, Seq2
<1>9. HelperHead = is \o js
  BY <1>6
<1>10. Len(Bytes(l)) = 7
  <2> DEFINE p == push32le(l.n[2])  a == make_rex(1, RDI, NoReg)  b == 8 * reg_enc(RDI) + 5
  <2>1. p \in Seq(Octets) /\ Len(p) = 4
    BY <1>7, PushTyped
  <2> HIDE DEF p, a, b
  <2>2. <<a, 141, b>> \in Seq({a, 141, b} \cup Octets) /\ Len(<<a, 141, b>>) = 3
    OBVIOUS
  <2> DEFINE t == <<a, 141, b>>  S == {a, 141, b} \cup Octets
  <2> HIDE DEF t
  <2>3. p \in Seq(S)
    BY <2>1
  <2> HIDE DEF S
  <2>4. Len(t \o p) = Len(t) + Len(p)
    BY <2>2, <2>3, SeqConcat DEF t, S
  <2> QED
    BY <1>7, <2>1, <2>2, <2>4 DEF t, p, a, b
<1> HIDE DEF is, js
<1>11. AllBytes(is \o js) = AllBytes(is) \o AllBytes(js)
  BY <1>8, AllBytesConcat
<1>12. AllBytes(is) \in Seq(Octets) /\ AllBytes(js) \in Seq(Octets)
  BY <1>8, AllBytesTyped
<1>13. Len(AllBytes(js)) >= Len(Bytes(js[1]))
  <2>1. js \in Seq(Asms) /\ Len(js) >= 1
    BY <1>8
  <2> QED
    BY ONLY <2>1, AllBytesFirst
<1> DEFINE u == AllBytes(is)  v == AllBytes(js)
<1>14. u \in Seq(Octets) /\ v \in Seq(Octets) /\ AllBytes(HelperHead) = u \o v /\ Len(v) >= 7
  BY <1>8, <1>9, <1>10, <1>11, <1>12, <1>13
<1> HIDE DEF u, v
<1>15. u \o v \in Seq(Octets) /\ Len(u \o v) >= 7
  BY <1>14, SeqConcat
<1>16. AllBytes(HelperCall) \in Seq(Octets) /\ Len(AllBytes(HelperCall)) = 5 /\ AllBytes(HelperCall)[1] = 232
  BY <1>1, CallBytes DEF HelperCall
<1>17. AllBytes(Epilogue(<<>>)) \in Seq(Octets)
  <2>1. <<>> \in Seq(Gprs)
    BY EmptySeq
  <2>2. Epilogue(<<>>) \in Seq(Asms)
    BY <2>1, PopsTyped
  <2> DEFINE e == Epilogue(<<>>)
  <2> HIDE DEF e
  <2>3. e \in Seq(Asms) => AllBytes(e) \in Seq(Octets)
    BY AllBytesTyped
  <2> QED
    BY <2>2, <2>3 DEF e
<1> QED
  BY <1>14, <1>15, <1>16, <1>17

LEMMA FallbackBytes ==
  ASSUME NEW saved \in Seq(Gprs)
  PROVE  AllBytes(<<Asm("movi", 64, RAX, NoReg, Wide(0))>> \o Epilogue(saved)) \in Seq(Octets)
<1> DEFINE x == Asm("movi", 64, RAX, NoReg, Wide(0))  e == Epilogue(saved)
<1>1. x \in Asms
  <2>1. "movi" \in Mnemonics /\ "movi" \notin DOMAIN Alu
    BY DEF Mnemonics, Alu
  <2>2. Wide(0) \in Int \X Int /\ RAX \in 0..16 /\ NoReg \in 0..16
    BY DEF Wide, RAX, NoReg
  <2> QED
    BY <2>1, <2>2, AsmTyped
<1>2. e \in Seq(Asms)
  BY PopsTyped
<1> HIDE DEF x, e
<1>3. <<x>> \o e \in Seq(Asms)
  BY <1>1, <1>2, Seq1, SeqConcat
<1> DEFINE all == <<x>> \o e
<1> HIDE DEF all
<1>4. AllBytes(all) \in Seq(Octets)
  BY <1>3, AllBytesTyped DEF all
<1> QED
  BY <1>4 DEF all, x, e

LEMMA ExpandBytes ==
  ASSUME NEW m \in Selected, NEW saved \in Seq(Gprs)
  PROVE  AllBytes(Expand(m, saved)) \in Seq(Octets)
<1> DEFINE e == Expand(m, saved)
<1>1. e \in Seq(Asms)
  BY ExpandTyped
<1> HIDE DEF e
<1>2. AllBytes(e) \in Seq(Octets)
  BY <1>1, AllBytesTyped
<1> QED
  BY <1>2 DEF e

\* A number of 32 bits is read back from its bytes.
LEMMA WordBack ==
  ASSUME NEW n \in Int, n >= -2147483648, n < 2147483648, NEW c, NEW p \in Nat,
         \A j \in 1..4 : c[p + j] = push32le(n)[j]
  PROVE  Word(c, p) = n
<1> DEFINE a == n % 256  b == (n \div 256) % 256  d == (n \div 65536) % 256  e == (n \div 16777216) % 256
<1>1. c[p + 1] = a /\ c[p + 2] = b /\ c[p + 3] = d /\ c[p + 4] = e
  BY DEF push32le
<1>2. /\ Byte(c, p) = a /\ Byte(c, p + 1) = b /\ Byte(c, p + 2) = d /\ Byte(c, p + 3) = e
  <2>1. p + 1 + 1 = p + 2 /\ p + 2 + 1 = p + 3 /\ p + 3 + 1 = p + 4
    OBVIOUS
  <2> HIDE DEF a, b, d, e
  <2> QED
    BY <1>1, <2>1 DEF Byte
<1>3. Word(c, p) = a + 256 * b + 65536 * d + 16777216 * Signed8(e)
  <2> HIDE DEF a, b, d, e
  <2> QED
    BY <1>2 DEF Word
<1>4. n = a + 256 * b + 65536 * d + 16777216 * Signed8(e)
  <2> DEFINE q == n \div 256  r == q \div 256  s == r \div 256
  <2>1. n = 256 * q + a /\ a \in 0..255 /\ q \in Int
    OBVIOUS
  <2>2. n \div 65536 = r /\ n \div 16777216 = s
    OBVIOUS
  <2>3. q = 256 * r + b /\ r = 256 * s + d /\ b \in 0..255 /\ d \in 0..255 /\ r \in Int /\ s \in Int
    <3>1. d = r % 256
      BY <2>2
    <3> HIDE DEF d
    <3> QED
      BY <2>1, <3>1
  <2>4. e = s % 256
    BY <2>2
  <2> HIDE DEF a, b, d, e, q, r, s
  <2>5. n = a + 256 * b + 65536 * d + 16777216 * s
    BY <2>1, <2>3
  <2>6. s >= -128 /\ s < 128
    BY <2>1, <2>3, <2>5
  <2>7. Signed8(e) = s
    BY <2>3, <2>4, <2>6 DEF Signed8
  <2> QED
    BY <2>5, <2>7
<1> QED
  BY <1>3, <1>4

-------------------------------------------------------------------------------
\* Types, and the operators on symbols and patches.

Spellings == SymbolNames \cup {""}
Ops == Plain \cup Branches \cup {"CALL", "PROLOGUE", "FALLBACK", "HELPER"}
Records ==
  [op : Ops, dst : Operands, src : Operands, src2 : Operands,
   w : {8, 32, 64}, n : Int \X Int, bb : Nat, name : Spellings, args : Seq(Operands)]
Items == [mi : Records, at : Nat, to : Nat]
Fields == [at : Nat, target : Nat]
Symbols == [name : Spellings, shndx : 0..2, value : Nat, size : Nat]
Relocations == [offset : Nat, type : {"PC32", "PLT32"}, sym : Nat, addend : Int]
Functions == [name : Spellings, shape : Frames, start : Nat, items : Nat]
Ends == [name : Spellings, shape : Frames, start : Nat, end : Nat, labels : Seq(Nat),
         first : Nat, last : Nat, alone : BOOLEAN]

TypeInv ==
  /\ code \in Seq(Octets) /\ rodata \in Nat /\ labels \in Seq(Nat) /\ patches \in Seq(Fields)
  /\ syms \in Seq(Symbols) /\ Len(syms) >= 1 /\ relocs \in Seq(Relocations) /\ strtab \in Nat
  /\ mf \in Functions /\ phase \in {"between", "blocks", "helper", "done"}
  /\ fuel \in Nat /\ log \in Seq(Items) /\ done \in Seq(Ends)

\* The least of some positions.
LEMMA MinIsLeast ==
  ASSUME NEW S, S \subseteq Nat, S # {}
  PROVE  Min(S) \in S /\ \A k \in S : Min(S) <= k
<1> DEFINE R == {ss \in Nat \X Nat : ss[1] < ss[2]}
<1>1. IsWellFoundedOn(R, Nat)
  BY NatLessThanWellFounded DEF OpToRel
<1>2. \E x \in S : \A y \in S : ~ (<<y, x>> \in R)
  <2> HIDE DEF R
  <2> QED
    BY <1>1, WFMin
<1>3. PICK x \in S : \A y \in S : x <= y
  <2>1. PICK x \in S : \A y \in S : ~ (<<y, x>> \in R)
    BY <1>2
  <2>2. ASSUME NEW y \in S PROVE x <= y
    <3>1. x \in Nat /\ y \in Nat
      OBVIOUS
    <3>2. ~ (y < x)
      BY <2>1, <3>1
    <3> QED
      BY <3>1, <3>2
  <2> QED
    BY <2>2
<1> QED
  BY <1>3 DEF Min

LEMMA FindsSym ==
  ASSUME NEW ss \in Seq(Symbols), NEW name
  PROVE  /\ (\E k \in DOMAIN ss : ss[k].name = name) =>
              find_sym(ss, name) + 1 \in DOMAIN ss /\ ss[find_sym(ss, name) + 1].name = name /\ find_sym(ss, name) >= 0
         /\ ~(\E k \in DOMAIN ss : ss[k].name = name) => find_sym(ss, name) = -1
         /\ find_sym(ss, name) \in Int
<1> DEFINE I == {k \in 1..Len(ss) : ss[k].name = name}
<1>0. Len(ss) \in Nat /\ DOMAIN ss = 1..Len(ss)
  OBVIOUS
<1>1. find_sym(ss, name) = (IF I # {} THEN Min(I) ELSE 0) - 1
  BY DEF find_sym, SelectInSeq
<1>2. I # {} <=> \E k \in DOMAIN ss : ss[k].name = name
  BY <1>0
<1>3. ASSUME I # {} PROVE Min(I) \in I
  <2>1. I \subseteq Nat
    BY <1>0
  <2> HIDE DEF I
  <2> QED
    BY <1>3, <2>1, MinIsLeast
<1>4. CASE I # {}
  <2> DEFINE m == Min(I)
  <2>1. m \in 1..Len(ss) /\ ss[m].name = name
    BY <1>3, <1>4
  <2> HIDE DEF m
  <2>2. find_sym(ss, name) = m - 1
    BY <1>1, <1>4 DEF m
  <2>3. find_sym(ss, name) + 1 = m /\ find_sym(ss, name) >= 0 /\ find_sym(ss, name) \in Int
    BY <1>0, <2>1, <2>2
  <2> QED
    BY <1>0, <1>2, <1>4, <2>1, <2>3
<1>5. CASE I = {}
  BY <1>1, <1>2, <1>5
<1> QED
  BY <1>4, <1>5

\* A symbol that is added where none has its name can be found.
Added(ss, new) == IF find_sym(ss, new.name) >= 0 THEN ss ELSE Append(ss, new)

LEMMA FindsAdded ==
  ASSUME NEW ss \in Seq(Symbols), NEW new \in Symbols
  PROVE  /\ Added(ss, new) \in Seq(Symbols) /\ Added(ss, new) \in {ss, Append(ss, new)}
         /\ find_sym(Added(ss, new), new.name) \in Nat
         /\ find_sym(Added(ss, new), new.name) + 1 \in DOMAIN Added(ss, new)
         /\ Added(ss, new)[find_sym(Added(ss, new), new.name) + 1].name = new.name
<1> DEFINE tt == Added(ss, new)
<1>1. tt = IF find_sym(ss, new.name) >= 0 THEN ss ELSE Append(ss, new)
  BY DEF Added
<1>7. tt \in {ss, Append(ss, new)}
  BY <1>1
<1> HIDE DEF tt
<1> DEFINE name == new.name
<1>2. Len(ss) \in Nat /\ Append(ss, new) \in Seq(Symbols) /\ Len(Append(ss, new)) = Len(ss) + 1
      /\ Append(ss, new)[Len(ss) + 1] = new
  OBVIOUS
<1>4. tt \in Seq(Symbols) /\ (\E k \in DOMAIN tt : tt[k].name = name)
  <2>1. CASE \E k \in DOMAIN ss : ss[k].name = name
    <3>1. find_sym(ss, name) >= 0
      BY <2>1, FindsSym
    <3> QED
      BY <1>1, <2>1, <3>1
  <2>2. CASE ~ \E k \in DOMAIN ss : ss[k].name = name
    <3>1. find_sym(ss, name) = -1
      BY <2>2, FindsSym
    <3>2. ~(-1 >= 0)
      OBVIOUS
    <3>3. tt = Append(ss, new)
      BY <1>1, <3>1, <3>2
    <3>4. Len(ss) + 1 \in DOMAIN tt /\ tt[Len(ss) + 1].name = name
      BY <1>2, <3>3
    <3> QED
      BY <1>2, <3>3, <3>4
  <2> QED
    BY <2>1, <2>2
<1> DEFINE i == find_sym(tt, name)
<1>5. i + 1 \in DOMAIN tt /\ tt[i + 1].name = name /\ i >= 0 /\ i \in Int
  BY <1>4, FindsSym
<1>6. i \in Nat
  <2> HIDE DEF i
  <2> QED
    BY <1>5
<1> HIDE DEF i
<1> QED
  BY <1>4, <1>5, <1>6, <1>7 DEF i, tt

\* emitter_ensure_extern leaves the symbols there are and makes sure of one of the name.
LEMMA EnsureFinds ==
  ASSUME NEW ss \in Seq(Symbols), NEW name \in Spellings
  PROVE  /\ ensure_extern(ss, name) \in Seq(Symbols)
         /\ ensure_extern(ss, name) \in {ss, Append(ss, Sym(name, UNDEF, 0))}
         /\ find_sym(ensure_extern(ss, name), name) \in Nat
         /\ find_sym(ensure_extern(ss, name), name) + 1 \in DOMAIN ensure_extern(ss, name)
         /\ ensure_extern(ss, name)[find_sym(ensure_extern(ss, name), name) + 1].name = name
<1> DEFINE new == Sym(name, UNDEF, 0)  tt == ensure_extern(ss, name)
<1>1. new \in Symbols /\ new.name = name
  BY DEF Sym, Symbols, UNDEF
<1> HIDE DEF new
<1>2. tt = Added(ss, new)
  BY <1>1 DEF ensure_extern, Added, new
<1> HIDE DEF tt
<1>3. /\ tt \in Seq(Symbols) /\ tt \in {ss, Append(ss, new)}
      /\ find_sym(tt, new.name) \in Nat /\ find_sym(tt, new.name) + 1 \in DOMAIN tt
      /\ tt[find_sym(tt, new.name) + 1].name = new.name
  BY <1>1, <1>2, FindsAdded
<1> QED
  BY <1>1, <1>3 DEF tt, new

\* The size of the last symbol is all that changes.
LEMMA SetSizeIs ==
  ASSUME NEW ss \in Seq(Symbols), NEW n \in Nat
  PROVE  /\ SetLastSize(ss, n) \in Seq(Symbols) /\ Len(SetLastSize(ss, n)) = Len(ss)
         /\ \A k \in DOMAIN ss : 
              /\ SetLastSize(ss, n)[k].name = ss[k].name
              /\ SetLastSize(ss, n)[k].shndx = ss[k].shndx
              /\ SetLastSize(ss, n)[k].value = ss[k].value
              /\ SetLastSize(ss, n)[k].size = IF k = Len(ss) THEN n ELSE ss[k].size
<1> DEFINE m == Len(ss)  tt == SetLastSize(ss, n)
<1>1. m \in Nat /\ DOMAIN ss = 1..m
  OBVIOUS
<1>2. ASSUME NEW k \in 1..m PROVE ss[k] \in Symbols
  BY <1>1
<1>3. tt = [k \in 1..m |-> IF k = m THEN [ss[k] EXCEPT !.size = n] ELSE ss[k]]
  BY <1>1 DEF SetLastSize
<1> HIDE DEF tt
<1>4. ASSUME NEW k \in 1..m
      PROVE  tt[k] \in Symbols /\ tt[k].name = ss[k].name /\ tt[k].shndx = ss[k].shndx
             /\ tt[k].value = ss[k].value /\ tt[k].size = IF k = m THEN n ELSE ss[k].size
  <2> DEFINE s == ss[k]
  <2>1. s \in Symbols
    BY <1>2
  <2>2. tt[k] = IF k = m THEN [s EXCEPT !.size = n] ELSE s
    BY <1>3
  <2> HIDE DEF s
  <2>3. tt[k] \in Symbols /\ tt[k].name = s.name /\ tt[k].shndx = s.shndx
             /\ tt[k].value = s.value /\ tt[k].size = IF k = m THEN n ELSE s.size
    BY <2>1, <2>2 DEF Symbols
  <2> QED
    BY <2>3 DEF s
<1>5. tt \in Seq(Symbols) /\ Len(tt) = m
  <2>1. tt = [k \in 1..m |-> tt[k]]
    BY <1>3
  <2> HIDE DEF m
  <2> QED
    BY <1>1, <1>4, <2>1, SeqMade
<1> QED
  BY <1>1, <1>4, <1>5 DEF tt

LEMMA SeqElem ==
  ASSUME NEW S, NEW s \in Seq(S), NEW q \in 1..Len(s)
  PROVE  s[q] \in S
  OBVIOUS

\* Patched: the length stays, and so does what lies in no field.
Hits(p, k) == k - 1 \in p.at..(p.at + 3)
FilledIn(d, c, ps, ls) ==
  /\ d \in Seq(Octets) /\ Len(d) = Len(c)
  /\ \A k \in 1..Len(c) : (\A j \in DOMAIN ps : ~Hits(ps[j], k)) => d[k] = c[k]
  /\ \A k \in 1..Len(c) : (\E j \in DOMAIN ps : Hits(ps[j], k)) =>
       \E j \in DOMAIN ps :
         /\ Hits(ps[j], k)
         /\ d[k] = push32le(Displacement(ls[ps[j].target + 1], ps[j].at))[k - ps[j].at]

LEMMA PatchedIs ==
  ASSUME NEW c \in Seq(Octets), NEW ps \in Seq(Fields), NEW ls \in Seq(Nat),
         \A j \in DOMAIN ps : ps[j].target + 1 \in DOMAIN ls
  PROVE  FilledIn(Patched(c, ps, ls), c, ps, ls)
<1> DEFINE n == Len(c)  d == Patched(c, ps, ls)
           here(k) == {j \in DOMAIN ps : k - 1 \in ps[j].at..(ps[j].at + 3)}
           pick(k) == CHOOSE j \in here(k) : TRUE
           byte(k, j) == push32le(Displacement(ls[ps[j].target + 1], ps[j].at))[k - ps[j].at]
<1>0. n \in Nat /\ DOMAIN c = 1..n /\ \A k \in 1..n : c[k] \in Octets
  OBVIOUS
<1>1. d = [k \in 1..n |-> IF here(k) = {} THEN c[k] ELSE byte(k, pick(k))]
  BY <1>0 DEF Patched
<1>2. ASSUME NEW k \in 1..n, here(k) # {}
      PROVE  pick(k) \in here(k)
  BY <1>2
<1>3. ASSUME NEW k \in 1..n, NEW j \in here(k) PROVE byte(k, j) \in Octets
  <2> DEFINE a == ps[j].at  t == ls[ps[j].target + 1]  disp == Displacement(t, a)
  <2>1. j \in DOMAIN ps /\ k - 1 \in a..(a + 3)
    BY <1>3
  <2>2. a \in Nat /\ t \in Nat
    <3>1. ps[j] \in Fields
      BY <2>1
    <3>2. a \in Nat
      BY <3>1 DEF Fields
    <3>3. t \in Nat
      BY <2>1
    <3> QED
      BY <3>2, <3>3
  <2> HIDE DEF a, t
  <2>3. disp \in Int
    BY <2>2 DEF Displacement
  <2>4. k - a \in 1..4
    BY <1>0, <2>1, <2>2
  <2> HIDE DEF disp
  <2>5. push32le(disp)[k - a] \in Octets
    <3>1. push32le(disp) \in Seq(Octets) /\ DOMAIN push32le(disp) = 1..4 /\ Len(push32le(disp)) = 4
      BY <2>3, PushTyped
    <3> DEFINE q == k - a  s == push32le(disp)
    <3>2. s \in Seq(Octets) /\ Len(s) = 4 /\ q \in 1..4
      BY <2>4, <3>1
    <3> HIDE DEF q, s
    <3>3. s[q] \in Octets
      BY <3>2, SeqElem
    <3> QED
      BY <3>3 DEF q, s
  <2> QED
    BY <2>5 DEF disp, a, t
<1> HIDE DEF d, here, pick, byte
<1>4. ASSUME NEW k \in 1..n PROVE d[k] \in Octets
  <2>1. CASE here(k) = {}
    BY <1>0, <1>1, <2>1
  <2>2. CASE here(k) # {}
    BY <1>1, <1>2, <1>3, <2>2
  <2> QED
    BY <2>1, <2>2
<1>5. d \in Seq(Octets) /\ Len(d) = n
  <2>1. d = [k \in 1..n |-> d[k]]
    BY <1>1
  <2> HIDE DEF n
  <2> QED
    BY <1>0, <1>4, <2>1, SeqMade
<1>6. ASSUME NEW k \in 1..n, \A j \in DOMAIN ps : k - 1 \notin ps[j].at..(ps[j].at + 3)
      PROVE  d[k] = c[k]
  <2>1. here(k) = {}
    BY <1>6 DEF here
  <2> QED
    BY <1>1, <2>1
<1>7. ASSUME NEW k \in 1..n, \E j \in DOMAIN ps : k - 1 \in ps[j].at..(ps[j].at + 3)
      PROVE  \E j \in DOMAIN ps : k - 1 \in ps[j].at..(ps[j].at + 3) /\ d[k] = byte(k, j)
  <2>1. here(k) # {}
    BY <1>7 DEF here
  <2>2. pick(k) \in here(k) /\ d[k] = byte(k, pick(k))
    BY <1>1, <1>2, <2>1
  <2>3. \A j \in here(k) : j \in DOMAIN ps /\ k - 1 \in ps[j].at..(ps[j].at + 3)
    BY DEF here
  <2> QED
    BY <2>2, <2>3
<1>8. \A k \in 1..n : (\A j \in DOMAIN ps : ~Hits(ps[j], k)) => d[k] = c[k]
  BY <1>6 DEF Hits
<1>9. \A k \in 1..n : (\E j \in DOMAIN ps : Hits(ps[j], k)) =>
        \E j \in DOMAIN ps :
          /\ Hits(ps[j], k)
          /\ d[k] = push32le(Displacement(ls[ps[j].target + 1], ps[j].at))[k - ps[j].at]
  BY <1>7 DEF Hits, byte
<1> QED
  BY <1>5, <1>8, <1>9 DEF d, FilledIn

-------------------------------------------------------------------------------
\* The inductive invariant.

\* The items of a text of n bytes lie in it one after another.
Laid(l, n) ==
  /\ \A i \in DOMAIN l : l[i].at <= l[i].to /\ l[i].to <= n
  /\ \A i, j \in DOMAIN l : i < j => l[i].to <= l[j].at

TextInv ==
  /\ Laid(log, Len(code))
  /\ \A f \in Finished : done[f].first >= 1 /\ done[f].last <= Len(log) /\ done[f].start < Len(code)
  /\ mf.items <= Len(log)
  /\ phase = "blocks" =>
       /\ mf.start < Len(code)
       /\ \A f \in Finished : done[f].last <= mf.items /\ done[f].start < mf.start

\* A symbol of a function that begins at a.
Marks(s, name, a) == s.name = name /\ s.shndx = TEXT /\ s.value = a

SymInv ==
  /\ syms[1].name = "" /\ syms[1].shndx = UNDEF
  /\ \A k \in DOMAIN syms : syms[k].shndx = TEXT => syms[k].value < Len(code)
  /\ \A k, l \in DOMAIN syms :
       syms[k].shndx = TEXT /\ syms[l].shndx = TEXT /\ syms[k].value = syms[l].value => k = l
  /\ \A k \in DOMAIN syms : syms[k].shndx = RODATA => syms[k].name = ".rodata"
  /\ \A k \in DOMAIN syms : syms[k].shndx = TEXT =>
       \/ \E f \in Finished : Marks(syms[k], done[f].name, done[f].start)
       \/ phase = "blocks" /\ Marks(syms[k], mf.name, mf.start)
  /\ \A f \in Finished : \E k \in DOMAIN syms :
       /\ Marks(syms[k], done[f].name, done[f].start)
       /\ done[f].alone => syms[k].size = done[f].end - done[f].start
  /\ phase = "blocks" => \E o \in DOMAIN syms :
       /\ Marks(syms[o], mf.name, mf.start)
       /\ \A k \in DOMAIN syms : k > o => syms[k].shndx = UNDEF

\* The patch p is for the branch that item it is.
For(p, it) ==
  /\ it.mi.op \in Branches /\ it.at + 4 <= it.to
  /\ p.at = it.to - 4 /\ p.target = it.mi.bb

PatchInv ==
  phase = "blocks" =>
    /\ Len(labels) <= mf.shape.nblocks
    /\ \A k \in DOMAIN labels : labels[k] <= Len(code)
    /\ \A j \in DOMAIN patches :
         /\ patches[j].target < mf.shape.nblocks
         /\ \E i \in DOMAIN log : i > mf.items /\ For(patches[j], log[i])
    /\ \A i \in DOMAIN log : i > mf.items /\ log[i].mi.op \in Branches =>
         \E j \in DOMAIN patches : For(patches[j], log[i])

\* A branch that lands where its block begins, as far as 32 bits reach.
Landed(it, c, ls) ==
  it.mi.op \in Branches =>
    /\ it.at + 4 <= it.to /\ it.mi.bb < Len(ls)
    /\ Len(c) <= 2147483647 => Word(c, it.to - 4) = ls[it.mi.bb + 1] - it.to

LandInv ==
  \A f \in Finished : \A i \in done[f].first..done[f].last : Landed(log[i], code, done[f].labels)

\* The relocation of a call.
Calls(r, it, c, ss) ==
  /\ r.offset > it.at /\ r.offset + 4 <= it.to
  /\ c[r.offset] = 232 /\ r.type = "PLT32" /\ r.addend = -4
  /\ r.sym + 1 \in DOMAIN ss /\ ss[r.sym + 1].name = it.mi.name

Called(it, c, ss, rs) ==
  it.mi.op = "CALL" =>
    /\ it.mi.name # "" /\ it.mi.name # ".rodata"
    /\ \E k \in DOMAIN rs : 
         /\ Calls(rs[k], it, c, ss)
         /\ \A j \in DOMAIN rs : j # k => rs[j].offset \notin it.at..it.to

RelInv ==
  /\ \A k \in DOMAIN relocs : relocs[k].sym \in 1..(Len(syms) - 1) /\ relocs[k].offset + 4 <= Len(code)
  /\ \A i \in DOMAIN log : Called(log[i], code, syms, relocs)

FileInv == file = <<>> \/ (phase = "done" /\ \E written \in BOOLEAN : file = [ok |-> written, sections |-> Layout])

Inv == TextInv /\ SymInv /\ PatchInv /\ LandInv /\ RelInv /\ FileInv

LEMMA SelectedTyped ==
  ASSUME NEW m \in Insts
  PROVE  m \in Selected /\ m \in Records
<1>1. m \in Selected
  BY InputAssumption
<1> DEFINE some == Plain \cup Branches \cup {"CALL"}
<1>2. Selected = [op : some, dst : Operands, src : Operands, src2 : Operands, w : {8, 32, 64},
                  n : Int \X Int, bb : Nat, name : Spellings, args : Seq(Operands)]
  BY DEF Selected, Spellings
<1>3. some \subseteq Ops
  BY DEF Ops
<1> HIDE DEF some
<1> QED
  BY <1>1, <1>2, <1>3 DEF Records

LEMMA ItemTyped ==
  ASSUME code \in Seq(Octets), NEW m \in Records, NEW bytes \in Seq(Octets)
  PROVE  /\ Item(m, bytes) \in Items /\ Item(m, bytes).mi = m /\ Item(m, bytes).at = Len(code)
         /\ Item(m, bytes).to = Len(code) + Len(bytes)
<1>1. Len(code) \in Nat /\ Len(bytes) \in Nat
  OBVIOUS
<1>2. Len(code) + Len(bytes) \in Nat
  BY <1>1
<1> QED
  BY <1>1, <1>2 DEF Item, Items

\* The two strings grow together.
Emitted(m, bytes) ==
  /\ m \in Records /\ bytes \in Seq(Octets)
  /\ code' = code \o bytes
  /\ log' = Append(log, Item(m, bytes))

LEMMA EmittedTyped ==
  ASSUME TypeInv, NEW m, NEW bytes, Emitted(m, bytes)
  PROVE  code' \in Seq(Octets) /\ log' \in Seq(Items) /\ Len(code') = Len(code) + Len(bytes)
<1>1. code \in Seq(Octets) /\ log \in Seq(Items)
  BY DEF TypeInv
<1>2. Item(m, bytes) \in Items
  BY <1>1, ItemTyped DEF Emitted
<1> QED
  BY <1>1, <1>2 DEF Emitted

LEMMA EmitBytesIs ==
  ASSUME TypeInv, NEW m \in Insts, EmitBytes(m)
  PROVE  Emitted(m, AllBytes(Expand(m, mf.shape.saved)))
<1>1. mf.shape.saved \in Seq(Gprs)
  BY DEF TypeInv, Functions, Frames
<1> DEFINE saved == mf.shape.saved
<1> HIDE DEF saved
<1>2. AllBytes(Expand(m, saved)) \in Seq(Octets)
  BY <1>1, SelectedTyped, ExpandBytes DEF saved
<1> QED
  BY <1>2, SelectedTyped DEF EmitBytes, Emitted, saved

\* The least a function consists of.
PrologueItem == Mi("PROLOGUE", NoReg, NoReg, NoReg)
LEMMA MiTyped ==
  ASSUME NEW op \in Ops, NEW d \in Operands, NEW a \in Operands, NEW b \in Operands
  PROVE  Mi(op, d, a, b) \in Records /\ Mi(op, d, a, b).op = op /\ Mi(op, d, a, b).bb \in Nat
<1> DEFINE none == <<>>  zero == Wide(0)  bb == 0  name == ""
<1>1. none \in Seq(Operands) /\ zero \in Int \X Int /\ bb \in Nat /\ name \in Spellings
  BY DEF Wide, Spellings
<1>2. Mi(op, d, a, b) = [op |-> op, dst |-> d, src |-> a, src2 |-> b, w |-> 64, n |-> zero,
                         bb |-> bb, name |-> name, args |-> none]
  BY DEF Mi
<1> HIDE DEF none, zero, bb, name
<1> QED
  BY <1>1, <1>2 DEF Records

LEMMA NoRegTyped == NoReg \in Operands /\ RAX \in Operands
  BY DEF NoReg, Operands, Gprs, RAX, R15

LEMMA BeginFunctionIs ==
  ASSUME TypeInv, BeginFunction
  PROVE  \E name \in Names, shape \in Shapes, bytes \in Seq(Octets) :
           /\ Emitted(PrologueItem, bytes) /\ Len(bytes) >= 1
           /\ shape \in Frames /\ fuel' = fuel - Cost(shape) /\ Cost(shape) <= fuel
           /\ mf' = [name |-> name, shape |-> shape, start |-> Len(code), items |-> Len(log)]
           /\ syms' = Append(syms, Sym(name, TEXT, Len(code)))
           /\ strtab' = strtab_add(strtab, name)
<1>1. PICK name \in Names, shape \in Shapes :
        LET prologue == AllBytes(Prologue(shape.frame, shape.saved, shape.params)) IN
        /\ Spend(shape)
        /\ mf' = [name |-> name, shape |-> shape, start |-> Len(code), items |-> Len(log)]
        /\ syms' = Append(syms, Sym(name, TEXT, Len(code)))
        /\ strtab' = strtab_add(strtab, name)
        /\ code' = code \o prologue
        /\ log' = Append(log, Item(Mi("PROLOGUE", NoReg, NoReg, NoReg), prologue))
  BY DEF BeginFunction
<1> DEFINE bytes == AllBytes(Prologue(shape.frame, shape.saved, shape.params))
<1>2. shape \in Frames /\ Len(shape.params) <= Len(ArgRegs)
  BY InputAssumption
<1>3. bytes \in Seq(Octets) /\ Len(bytes) >= 1
  BY <1>2, PrologueBytes
<1> HIDE DEF bytes
<1>4. PrologueItem \in Records
  <2>1. "PROLOGUE" \in Ops
    BY DEF Ops
  <2> QED
    BY <2>1, NoRegTyped, MiTyped DEF PrologueItem
<1>5. Emitted(PrologueItem, bytes)
  BY <1>1, <1>3, <1>4 DEF Emitted, PrologueItem, bytes
<1> QED
  BY <1>1, <1>2, <1>3, <1>5 DEF Spend

-------------------------------------------------------------------------------
\* Types: the head of a function, its blocks, plain instructions and branches.

LEMMA StrtabTyped ==
  ASSUME NEW n \in Nat, NEW name \in SymbolNames, NEW ss
  PROVE  strtab_add(n, name) \in Nat /\ strtab_ensure(n, ss, name) \in Nat
<1>1. NameLen[name] \in Nat
  BY EmitterAssumption
<1>2. strtab_add(n, name) \in Nat
  BY <1>1 DEF strtab_add
<1> QED
  BY <1>2 DEF strtab_ensure

LEMMA SpellingsHold ==
  /\ Names \subseteq SymbolNames /\ SymbolNames \subseteq Spellings /\ HelperName \in SymbolNames
  /\ Library \in SymbolNames /\ ".rodata" \in SymbolNames /\ "" \in Spellings
  BY DEF Spellings, SymbolNames

LEMMA SymTyped ==
  ASSUME NEW name \in Spellings, NEW x \in {UNDEF, TEXT, RODATA}, NEW v \in Nat
  PROVE  Sym(name, x, v) \in Symbols
<1>1. x \in 0..2
  BY DEF UNDEF, TEXT, RODATA
<1> QED
  BY <1>1 DEF Sym, Symbols

LEMMA NoFuncTyped == NoFunc \in Functions /\ NoFunc.shape \in Frames /\ NoFunc.items = 0
<1> DEFINE none == <<>>  zero == 0  name == ""
           shape == [nblocks |-> zero, frame |-> zero, saved |-> none, params |-> none]
<1>1. none \in Seq(Gprs) /\ none \in Seq(Operands) /\ zero \in Nat /\ name \in Spellings
  <2>1. none \in Seq(Gprs) /\ none \in Seq(Operands)
    BY EmptySeq
  <2>2. name \in Spellings
    BY SpellingsHold
  <2> QED
    BY <2>1, <2>2
<1>2. NoFunc = [name |-> name, shape |-> shape, start |-> zero, items |-> zero]
  BY DEF NoFunc
<1> HIDE DEF none, name
<1>3. shape \in Frames
  BY <1>1 DEF Frames
<1> HIDE DEF shape
<1>4. NoFunc \in Functions
  BY <1>1, <1>2, <1>3 DEF Functions
<1> QED
  BY <1>2, <1>3, <1>4

LEMMA SpendTyped ==
  ASSUME TypeInv, NEW x \in Shapes \cup Insts, Spend(x)
  PROVE  fuel' \in Nat
<1>1. Cost(x) \in Nat /\ fuel \in Nat
  BY EmitterAssumption DEF TypeInv
<1> QED
  BY <1>1 DEF Spend

LEMMA InitTypes == Init => TypeInv
<1> SUFFICES ASSUME Init PROVE TypeInv
  OBVIOUS
<1> DEFINE s == Sym("", UNDEF, 0)
<1>1. s \in Symbols
  <2>1. "" \in Spellings /\ UNDEF \in {UNDEF, TEXT, RODATA} /\ 0 \in Nat
    BY SpellingsHold
  <2> QED
    BY <2>1, SymTyped
<1> HIDE DEF s
<1>2. syms = <<s>>
  BY DEF Init, s
<1>3. syms \in Seq(Symbols) /\ Len(syms) >= 1
  <2>1. syms \in Seq(Symbols) /\ Len(syms) = 1
    BY <1>1, <1>2
  <2> QED
    BY <2>1
<1>4. Fuel \in Nat
  BY EmitterAssumption
<1>5. code \in Seq(Octets) /\ labels \in Seq(Nat) /\ patches \in Seq(Fields)
      /\ relocs \in Seq(Relocations) /\ log \in Seq(Items) /\ done \in Seq(Ends)
  BY EmptySeq DEF Init
<1>6. rodata \in Nat /\ strtab \in Nat /\ phase \in {"between", "blocks", "helper", "done"} /\ fuel \in Nat
  BY <1>4 DEF Init
<1>7. mf \in Functions
  BY NoFuncTyped DEF Init
<1> QED
  BY <1>3, <1>5, <1>6, <1>7 DEF TypeInv

LEMMA BeginTypes == TypeInv /\ BeginFunction => TypeInv'
<1> SUFFICES ASSUME TypeInv, BeginFunction PROVE TypeInv'
  OBVIOUS
<1>1. PICK name \in Names, shape \in Shapes, bytes \in Seq(Octets) :
        /\ Emitted(PrologueItem, bytes) /\ Len(bytes) >= 1
        /\ shape \in Frames /\ fuel' = fuel - Cost(shape) /\ Cost(shape) <= fuel
        /\ mf' = [name |-> name, shape |-> shape, start |-> Len(code), items |-> Len(log)]
        /\ syms' = Append(syms, Sym(name, TEXT, Len(code)))
        /\ strtab' = strtab_add(strtab, name)
  BY BeginFunctionIs
<1>2. code' \in Seq(Octets) /\ log' \in Seq(Items)
  BY <1>1, EmittedTyped
<1>3. Len(code) \in Nat /\ Len(log) \in Nat
  BY DEF TypeInv
<1>4. name \in Spellings /\ name \in SymbolNames
  BY SpellingsHold
<1>5. mf' \in Functions
  BY <1>1, <1>3, <1>4 DEF Functions
<1>6. syms' \in Seq(Symbols) /\ Len(syms') >= 1
  <2> DEFINE s == Sym(name, TEXT, Len(code))
  <2>1. s \in Symbols
    BY <1>3, <1>4, SymTyped
  <2> HIDE DEF s
  <2>2. syms' = Append(syms, s)
    BY <1>1 DEF s
  <2>3. syms \in Seq(Symbols)
    BY DEF TypeInv
  <2> QED
    BY <2>1, <2>2, <2>3
<1>7. strtab' \in Nat
  BY <1>1, <1>4, StrtabTyped DEF TypeInv
<1>8. fuel' \in Nat
  <2>1. Cost(shape) \in Nat /\ fuel \in Nat
    BY EmitterAssumption DEF TypeInv
  <2> QED
    BY <1>1, <2>1
<1> QED
  BY <1>2, <1>5, <1>6, <1>7, <1>8 DEF TypeInv, BeginFunction

LEMMA BlockTypes == TypeInv /\ BeginBlock => TypeInv'
<1> SUFFICES ASSUME TypeInv, BeginBlock PROVE TypeInv'
  OBVIOUS
<1>1. labels' \in Seq(Nat)
  BY DEF TypeInv, BeginBlock
<1> QED
  BY <1>1 DEF TypeInv, BeginBlock

LEMMA PlainTypes == TypeInv /\ EmitPlain => TypeInv'
<1> SUFFICES ASSUME TypeInv, EmitPlain PROVE TypeInv'
  OBVIOUS
<1>1. PICK m \in Upcoming(Plain) : Spend(m) /\ EmitBytes(m)
  BY DEF EmitPlain
<1>2. m \in Insts
  BY DEF Upcoming
<1>3. code' \in Seq(Octets) /\ log' \in Seq(Items)
  BY <1>1, <1>2, EmitBytesIs, EmittedTyped
<1>4. fuel' \in Nat
  BY <1>1, <1>2, SpendTyped
<1> QED
  BY <1>3, <1>4 DEF TypeInv, EmitPlain

\* A branch takes no less than the field of its displacement.
LEMMA BranchIs ==
  ASSUME TypeInv, EmitBranch
  PROVE  \E m \in Insts, bytes \in Seq(Octets) :
           /\ m.op \in Branches /\ m.bb < mf.shape.nblocks /\ m.bb \in Nat
           /\ Spend(m) /\ Emitted(m, bytes) /\ Len(bytes) >= 5
           /\ patches' = Append(patches, [at |-> Len(code) + Len(bytes) - 4, target |-> m.bb])
<1>1. PICK m \in Upcoming(Branches) :
        /\ Spend(m) /\ EmitBytes(m)
        /\ patches' = Append(patches, [at |-> Len(code') - 4, target |-> m.bb])
  BY DEF EmitBranch
<1>2. m \in Insts /\ m.op \in Branches /\ m.bb < mf.shape.nblocks
  BY DEF Upcoming
<1>3. m \in Selected /\ m \in Records
  BY <1>2, SelectedTyped
<1>4. m.bb \in Nat
  BY <1>3 DEF Records
<1> DEFINE saved == mf.shape.saved  bytes == AllBytes(Expand(m, saved))
<1>5. Emitted(m, bytes)
  BY <1>1, <1>2, EmitBytesIs
<1>6. saved \in Seq(Gprs)
  BY DEF TypeInv, Functions, Frames
<1> HIDE DEF saved
<1>7. Len(bytes) >= 5
  BY <1>2, <1>3, <1>6, BranchBytes
<1> HIDE DEF bytes
<1>8. Len(code') = Len(code) + Len(bytes) /\ bytes \in Seq(Octets)
  BY <1>5, EmittedTyped DEF Emitted
<1>9. patches' = Append(patches, [at |-> Len(code) + Len(bytes) - 4, target |-> m.bb])
  BY <1>1, <1>8
<1> QED
  BY ONLY <1>1, <1>2, <1>4, <1>5, <1>7, <1>8, <1>9, Zenon

LEMMA BranchTypes == TypeInv /\ EmitBranch => TypeInv'
<1> SUFFICES ASSUME TypeInv, EmitBranch PROVE TypeInv'
  OBVIOUS
<1>1. PICK m \in Insts, bytes \in Seq(Octets) :
        /\ m.op \in Branches /\ m.bb < mf.shape.nblocks /\ m.bb \in Nat
        /\ Spend(m) /\ Emitted(m, bytes) /\ Len(bytes) >= 5
        /\ patches' = Append(patches, [at |-> Len(code) + Len(bytes) - 4, target |-> m.bb])
  BY BranchIs
<1>2. code' \in Seq(Octets) /\ log' \in Seq(Items)
  BY <1>1, EmittedTyped
<1>3. fuel' \in Nat
  BY <1>1, SpendTyped
<1>4. Len(code) \in Nat /\ Len(bytes) \in Nat
  BY DEF TypeInv
<1> DEFINE a == Len(code) + Len(bytes) - 4  p == [at |-> a, target |-> m.bb]
<1>5. a \in Nat
  BY <1>1, <1>4
<1> HIDE DEF a
<1>6. p \in Fields
  BY <1>1, <1>5 DEF Fields
<1>7. patches' = Append(patches, p)
  BY <1>1 DEF a
<1> HIDE DEF p
<1>8. patches' \in Seq(Fields)
  BY <1>6, <1>7 DEF TypeInv
<1> QED
  BY <1>2, <1>3, <1>8 DEF TypeInv, EmitBranch

-------------------------------------------------------------------------------
\* Types: calls and the end of a function.

\* A call has its opcode after the moves of the arguments.
LEMMA CallIs ==
  ASSUME TypeInv, EmitCall
  PROVE  \E m \in Insts, bytes \in Seq(Octets), h \in Nat :
           /\ m.op = "CALL" /\ m.name \in Names \cup {HelperName, Library}
           /\ Spend(m) /\ Emitted(m, bytes) /\ Len(bytes) >= h + 5 /\ bytes[h + 1] = 232
           /\ AddCall(m.name, Len(code) + h + 1)
<1>1. PICK m \in Upcoming({"CALL"}) :
        Spend(m) /\ EmitBytes(m) /\ AddCall(m.name, Len(code) + Len(AllBytes(MoveArgs(m))) + 1)
  BY DEF EmitCall
<1>2. m \in Insts /\ m.op = "CALL"
  BY DEF Upcoming
<1>3. m \in Selected /\ m.name \in Names \cup {HelperName, Library}
  BY <1>2, SelectedTyped, InputAssumption
<1> DEFINE saved == mf.shape.saved  bytes == AllBytes(Expand(m, saved))  h == Len(AllBytes(MoveArgs(m)))
<1>5. Emitted(m, bytes)
  BY <1>1, <1>2, EmitBytesIs
<1>6. saved \in Seq(Gprs)
  BY DEF TypeInv, Functions, Frames
<1> HIDE DEF saved
<1>7. bytes \in Seq(Octets) /\ h \in Nat /\ Len(bytes) >= h + 5 /\ bytes[h + 1] = 232
  BY <1>2, <1>3, <1>6, CallAt
<1>8. AddCall(m.name, Len(code) + h + 1)
  BY <1>1
<1> HIDE DEF bytes, h
<1> QED
  BY ONLY <1>1, <1>2, <1>3, <1>5, <1>7, <1>8, ZenonT(60)

\* The symbols after a call, and its relocation.
LEMMA AddCallIs ==
  ASSUME TypeInv, NEW name \in Names \cup {HelperName, Library}, NEW field \in Nat, AddCall(name, field)
  PROVE  /\ syms' \in Seq(Symbols) /\ syms' \in {syms, Append(syms, Sym(name, UNDEF, 0))}
         /\ strtab' \in Nat
         /\ \E s \in Nat : /\ s + 1 \in DOMAIN syms' /\ syms'[s + 1].name = name
                           /\ relocs' = Append(relocs, Reloc(field, "PLT32", s, -4))
                           /\ Reloc(field, "PLT32", s, -4) \in Relocations
<1>1. name \in SymbolNames /\ name \in Spellings
  BY SpellingsHold
<1>2. syms \in Seq(Symbols) /\ strtab \in Nat
  BY DEF TypeInv
<1>3. syms' = ensure_extern(syms, name) /\ strtab' = strtab_ensure(strtab, syms, name)
      /\ relocs' = Append(relocs, Reloc(field, "PLT32", find_sym(syms', name), -4))
  BY DEF AddCall
<1>4. strtab' \in Nat
  BY <1>1, <1>2, <1>3, StrtabTyped
<1> DEFINE s == find_sym(syms', name)
<1>5. /\ syms' \in Seq(Symbols) /\ syms' \in {syms, Append(syms, Sym(name, UNDEF, 0))}
      /\ s \in Nat /\ s + 1 \in DOMAIN syms' /\ syms'[s + 1].name = name
  BY <1>1, <1>2, <1>3, EnsureFinds
<1> HIDE DEF s
<1>6. relocs' = Append(relocs, Reloc(field, "PLT32", s, -4))
  BY <1>3 DEF s
<1>7. Reloc(field, "PLT32", s, -4) \in Relocations
  BY <1>5 DEF Reloc, Relocations
<1> QED
  BY <1>4, <1>5, <1>6, <1>7

LEMMA CallTypes == TypeInv /\ EmitCall => TypeInv'
<1> SUFFICES ASSUME TypeInv, EmitCall PROVE TypeInv'
  OBVIOUS
<1>1. PICK m \in Insts, bytes \in Seq(Octets), h \in Nat :
        /\ m.op = "CALL" /\ m.name \in Names \cup {HelperName, Library}
        /\ Spend(m) /\ Emitted(m, bytes) /\ Len(bytes) >= h + 5 /\ bytes[h + 1] = 232
        /\ AddCall(m.name, Len(code) + h + 1)
  BY CallIs
<1>2. code' \in Seq(Octets) /\ log' \in Seq(Items)
  BY <1>1, EmittedTyped
<1>3. fuel' \in Nat
  BY <1>1, SpendTyped
<1>4. Len(code) + h + 1 \in Nat
  <2>1. Len(code) \in Nat
    BY DEF TypeInv
  <2> QED
    BY <2>1
<1> DEFINE field == Len(code) + h + 1
<1> HIDE DEF field
<1>5. AddCall(m.name, field) /\ field \in Nat
  BY <1>1, <1>4 DEF field
<1>6. /\ syms' \in Seq(Symbols) /\ syms' \in {syms, Append(syms, Sym(m.name, UNDEF, 0))}
      /\ strtab' \in Nat
      /\ \E s \in Nat : /\ s + 1 \in DOMAIN syms' /\ syms'[s + 1].name = m.name
                        /\ relocs' = Append(relocs, Reloc(field, "PLT32", s, -4))
                        /\ Reloc(field, "PLT32", s, -4) \in Relocations
  BY <1>1, <1>5, AddCallIs
<1>7. relocs' \in Seq(Relocations)
  BY <1>6 DEF TypeInv
<1>8. Len(syms') >= 1
  <2>1. PICK s \in Nat : s + 1 \in DOMAIN syms'
    BY <1>6
  <2>2. DOMAIN syms' = 1..Len(syms') /\ Len(syms') \in Nat
    BY <1>6
  <2> QED
    BY <2>1, <2>2
<1> QED
  BY <1>2, <1>3, <1>6, <1>7, <1>8 DEF TypeInv, EmitCall

\* The end of a function.
FallbackItem == [MiImm(RAX, 64, Wide(0)) EXCEPT !.op = "FALLBACK"]
LEMMA FallbackTyped == FallbackItem \in Records /\ FallbackItem.op = "FALLBACK"
<1> DEFINE zero == Wide(0)  none == <<>>  bb == 0  name == ""
<1>1. none \in Seq(Operands) /\ zero \in Int \X Int /\ bb \in Nat /\ name \in Spellings
  <2>1. none \in Seq(Operands)
    BY EmptySeq
  <2>2. name \in Spellings
    BY SpellingsHold
  <2>3. zero \in Int \X Int /\ bb \in Nat
    BY DEF Wide
  <2> QED
    BY <2>1, <2>2, <2>3
<1>2. FallbackItem = [op |-> "FALLBACK", dst |-> RAX, src |-> NoReg, src2 |-> NoReg, w |-> 64, n |-> zero,
                      bb |-> bb, name |-> name, args |-> none]
  <2> DEFINE imm == MiImm(RAX, 64, zero)
  <2>1. Mi("MOV_IMM", RAX, NoReg, NoReg) =
          [op |-> "MOV_IMM", dst |-> RAX, src |-> NoReg, src2 |-> NoReg, w |-> 64, n |-> zero,
           bb |-> bb, name |-> name, args |-> none]
    BY DEF Mi
  <2>2. imm = [Mi("MOV_IMM", RAX, NoReg, NoReg) EXCEPT !.w = 64, !.n = zero]
    BY DEF MiImm
  <2>3. FallbackItem = [imm EXCEPT !.op = "FALLBACK"]
    BY DEF FallbackItem
  <2> HIDE DEF imm, zero, bb, name, none
  <2>4. imm = [op |-> "MOV_IMM", dst |-> RAX, src |-> NoReg, src2 |-> NoReg, w |-> 64, n |-> zero,
               bb |-> bb, name |-> name, args |-> none]
    <3> DEFINE r == [op |-> "MOV_IMM", dst |-> RAX, src |-> NoReg, src2 |-> NoReg, w |-> 64, n |-> zero,
                     bb |-> bb, name |-> name, args |-> none]
    <3>1. [r EXCEPT !.w = 64, !.n = zero] = [[r EXCEPT !.w = 64] EXCEPT !.n = zero]
      OBVIOUS
    <3>2. [r EXCEPT !.w = 64] = r
      OBVIOUS
    <3>3. [r EXCEPT !.n = zero] = r
      OBVIOUS
    <3>4. Mi("MOV_IMM", RAX, NoReg, NoReg) = r
      BY <2>1
    <3> HIDE DEF r
    <3>5. imm = r
      BY <2>2, <3>1, <3>2, <3>3, <3>4
    <3> QED
      BY <3>5 DEF r
  <2> QED
    BY <2>3, <2>4
<1>3. "FALLBACK" \in Ops
  BY DEF Ops
<1> HIDE DEF zero, none, bb, name
<1>4. FallbackItem.op = "FALLBACK"
  BY <1>2
<1> QED
  BY <1>1, <1>2, <1>3, <1>4, NoRegTyped DEF Records

LEMMA EndIs ==
  ASSUME TypeInv, EndFunction
  PROVE  \E bytes \in Seq(Octets) :
           /\ code' = Patched(code \o bytes, patches, labels)
           /\ log' = Append(log, Item(FallbackItem, bytes))
<1> DEFINE saved == mf.shape.saved
           bytes == AllBytes(<<Asm("movi", 64, RAX, NoReg, Wide(0))>> \o Epilogue(saved))
<1>1. saved \in Seq(Gprs)
  BY DEF TypeInv, Functions, Frames
<1>2. bytes \in Seq(Octets)
  <2> HIDE DEF saved
  <2> QED
    BY <1>1, FallbackBytes
<1>3. code' = Patched(code \o bytes, patches, labels)
      /\ log' = Append(log, [Item(MiImm(RAX, 64, Wide(0)), bytes) EXCEPT !.mi = [@ EXCEPT !.op = "FALLBACK"]])
  BY DEF EndFunction
<1> HIDE DEF bytes
<1>4. [Item(MiImm(RAX, 64, Wide(0)), bytes) EXCEPT !.mi = [@ EXCEPT !.op = "FALLBACK"]]
        = Item(FallbackItem, bytes)
  <2> DEFINE m == MiImm(RAX, 64, Wide(0))
  <2> HIDE DEF m
  <2>1. [Item(m, bytes) EXCEPT !.mi = [@ EXCEPT !.op = "FALLBACK"]] = Item([m EXCEPT !.op = "FALLBACK"], bytes)
    BY DEF Item
  <2> QED
    BY <2>1 DEF m, FallbackItem
<1> QED
  BY <1>2, <1>3, <1>4

\* The branches of a function whose blocks have all begun can be filled in.
LEMMA PatchesFit ==
  ASSUME TypeInv, PatchInv, EndFunction
  PROVE  \A j \in DOMAIN patches : patches[j].target + 1 \in DOMAIN labels
<1>1. phase = "blocks" /\ Len(labels) = mf.shape.nblocks
  BY DEF EndFunction
<1>2. ASSUME NEW j \in DOMAIN patches PROVE patches[j].target + 1 \in DOMAIN labels
  <2>1. patches[j].target < mf.shape.nblocks
    BY <1>1, <1>2 DEF PatchInv
  <2>2. patches[j] \in Fields
    BY DEF TypeInv
  <2>3. patches[j].target \in Nat
    BY <2>2 DEF Fields
  <2>4. DOMAIN labels = 1..Len(labels) /\ Len(labels) \in Nat
    BY DEF TypeInv
  <2> QED
    BY <1>1, <2>1, <2>3, <2>4
<1> QED
  BY <1>2

\* Filling in changes bytes, and not how many there are.
LEMMA EndCode ==
  ASSUME TypeInv, PatchInv, EndFunction, NEW bytes \in Seq(Octets),
         code' = Patched(code \o bytes, patches, labels)
  PROVE  /\ code' \in Seq(Octets) /\ Len(code') = Len(code) + Len(bytes)
         /\ code \o bytes \in Seq(Octets) /\ Len(code \o bytes) = Len(code) + Len(bytes)
<1> DEFINE c == code \o bytes
<1>1. code \in Seq(Octets)
  BY DEF TypeInv
<1>2. c \in Seq(Octets) /\ Len(c) = Len(code) + Len(bytes)
  BY <1>1
<1> HIDE DEF c
<1>3. patches \in Seq(Fields) /\ labels \in Seq(Nat)
  BY DEF TypeInv
<1>4. code' \in Seq(Octets) /\ Len(code') = Len(c)
  <2>1. code' = Patched(c, patches, labels)
    BY DEF c
  <2>2. FilledIn(Patched(c, patches, labels), c, patches, labels)
    BY <1>2, <1>3, PatchesFit, PatchedIs
  <2> QED
    BY <2>1, <2>2 DEF FilledIn
<1> QED
  BY <1>2, <1>4 DEF c

LEMMA EndTypes == TypeInv /\ TextInv /\ PatchInv /\ EndFunction => TypeInv'
<1> SUFFICES ASSUME TypeInv, TextInv, PatchInv, EndFunction PROVE TypeInv'
  OBVIOUS
<1>1. PICK bytes \in Seq(Octets) :
        code' = Patched(code \o bytes, patches, labels) /\ log' = Append(log, Item(FallbackItem, bytes))
  BY EndIs
<1>2. code' \in Seq(Octets) /\ Len(code') = Len(code) + Len(bytes)
  BY <1>1, EndCode
<1>3. code \in Seq(Octets) /\ Len(code) \in Nat /\ Len(bytes) \in Nat
  BY DEF TypeInv
<1>4. log' \in Seq(Items)
  <2>1. Item(FallbackItem, bytes) \in Items
    BY <1>3, FallbackTyped, ItemTyped
  <2> QED
    BY <1>1, <2>1 DEF TypeInv
<1>5. mf \in Functions /\ mf.start \in Nat /\ mf.start < Len(code)
  BY DEF TypeInv, Functions, TextInv, EndFunction
<1> DEFINE n == Len(code') - mf.start
<1>6. n \in Nat
  BY <1>2, <1>3, <1>5
<1>7. syms' = SetLastSize(syms, n)
  BY DEF EndFunction
<1>8. syms \in Seq(Symbols) /\ Len(syms) >= 1
  BY DEF TypeInv
<1>9. syms' \in Seq(Symbols) /\ Len(syms') >= 1
  <2> HIDE DEF n
  <2> QED
    BY <1>6, <1>7, <1>8, SetSizeIs
<1> DEFINE alone == Last(syms).name = mf.name /\ Last(syms).shndx = TEXT
           first == mf.items + 1  last == Len(log')  end == Len(code')
           e == [name |-> mf.name, shape |-> mf.shape, start |-> mf.start, end |-> end,
                 labels |-> labels, first |-> first, last |-> last, alone |-> alone]
<1>10. e \in Ends
  <2>1. mf.name \in Spellings /\ mf.shape \in Frames /\ mf.start \in Nat /\ mf.items \in Nat
    BY <1>5 DEF Functions
  <2>2. first \in Nat /\ last \in Nat /\ end \in Nat
    BY <1>2, <1>4, <2>1
  <2>3. alone \in BOOLEAN
    OBVIOUS
  <2>4. labels \in Seq(Nat)
    BY DEF TypeInv
  <2> HIDE DEF alone, first, last, end
  <2> QED
    BY <2>1, <2>2, <2>3, <2>4 DEF Ends
<1>11. done' = Append(done, e)
  BY DEF EndFunction
<1>12. done' \in Seq(Ends)
  <2> HIDE DEF e
  <2> QED
    BY <1>10, <1>11 DEF TypeInv
<1> QED
  BY <1>2, <1>4, <1>9, <1>12, NoFuncTyped DEF TypeInv, EndFunction

LEMMA WriteTypes == TypeInv /\ WriteElf => TypeInv'
  BY DEF TypeInv, WriteElf, emitter

-------------------------------------------------------------------------------
\* The print routine.

\* The print routine: what it adds to the text, the log, the symbols, the relocations.
HelperItem(op, from, to) == [mi |-> Mi(op, NoReg, NoReg, NoReg), at |-> from, to |-> to]
LibraryCall == MiCall(Library, NoReg, <<>>)
CallItem(from, to) == [mi |-> LibraryCall, at |-> from, to |-> to]

LEMMA HelperItemIs ==
  ASSUME NEW op, NEW a, NEW b
  PROVE  HelperItem(op, a, b).mi.op = op /\ HelperItem(op, a, b).at = a /\ HelperItem(op, a, b).to = b
<1> DEFINE zero == Wide(0)  none == <<>>  bb == 0  name == ""  m == Mi(op, NoReg, NoReg, NoReg)
<1>1. m = [op |-> op, dst |-> NoReg, src |-> NoReg, src2 |-> NoReg, w |-> 64, n |-> zero,
           bb |-> bb, name |-> name, args |-> none]
  BY DEF Mi
<1>2. HelperItem(op, a, b) = [mi |-> m, at |-> a, to |-> b]
  BY DEF HelperItem
<1> HIDE DEF zero, none, bb, name, m
<1>3. m.op = op
  BY <1>1, SMTT(30)
<1>4. HelperItem(op, a, b).mi = m /\ HelperItem(op, a, b).at = a /\ HelperItem(op, a, b).to = b
  BY <1>2, SMTT(30)
<1> QED
  BY <1>3, <1>4, SMTT(30)

LEMMA LibraryCallTyped ==
  LibraryCall \in Records /\ LibraryCall.op = "CALL" /\ LibraryCall.name = Library
<1> DEFINE none == <<>>  m == Mi("CALL", NoReg, NoReg, NoReg)
<1>1. none \in Seq(Operands)
  BY EmptySeq
<1>2. Library \in Spellings
  BY SpellingsHold
<1>3. "CALL" \in Ops
  BY DEF Ops
<1>4. m \in Records /\ m.op = "CALL"
  BY <1>3, NoRegTyped, MiTyped
<1>5. LibraryCall = [m EXCEPT !.name = Library, !.args = none]
  BY DEF LibraryCall, MiCall
<1> HIDE DEF none, m
<1>6. LibraryCall = [[m EXCEPT !.name = Library] EXCEPT !.args = none]
  BY <1>4, <1>5
<1> DEFINE k == [m EXCEPT !.name = Library]
<1>7. k \in Records /\ k.op = "CALL" /\ k.name = Library
  BY <1>2, <1>4 DEF Records
<1>8. LibraryCall = [k EXCEPT !.args = none]
  BY <1>6
<1> HIDE DEF k
<1> QED
  BY <1>1, <1>7, <1>8 DEF Records

\* What stands in the log, in the symbols and in the relocations afterwards, where
\* the routine begins at a, its call at b, and its tail at b + 5.
HelperLog(a, b, n) ==
  log' = log \o <<HelperItem("HELPER", a, b), CallItem(b, b + 5), HelperItem("RET", b + 5, n)>>
WithRodata(ss) == Added(ss, Sym(".rodata", RODATA, 0))
HelperSyms(a) == ensure_extern(WithRodata(Append(syms, Sym(HelperName, TEXT, a))), Library)

LEMMA HelperIs ==
  ASSUME TypeInv, EmitPrintHelper
  PROVE  \E head \in Seq(Octets), call \in Seq(Octets), tail \in Seq(Octets) :
           LET a == Len(code)  b == Len(code) + Len(head) IN
           /\ Len(head) >= 7 /\ Len(call) = 5 /\ call[1] = 232
           /\ code' = ((code \o head) \o call) \o tail
           /\ HelperLog(a, b, Len(code'))
           /\ syms' = SetLastSize(HelperSyms(a), Len(code') - a)
           /\ relocs' = relocs \o <<Reloc(b - 2 - 4, "PC32",
                                          find_sym(WithRodata(Append(syms, Sym(HelperName, TEXT, a))), ".rodata"),
                                          rodata - 4),
                                    Reloc(b + 1, "PLT32", find_sym(syms', Library), -4)>>
           /\ strtab' \in Nat
           /\ done' = Append(done, [name |-> HelperName, shape |-> NoFunc.shape, start |-> a, end |-> Len(code'),
                                    labels |-> <<>>, first |-> Len(log) + 1, last |-> Len(log'), alone |-> FALSE])
<1> DEFINE head == AllBytes(HelperHead)  call == AllBytes(HelperCall)  tail == AllBytes(Epilogue(<<>>))
           a == Len(code)  b == Len(code) + Len(head)
           added == Append(syms, Sym(HelperName, TEXT, a))
           with == WithRodata(added)
<1>1. head \in Seq(Octets) /\ Len(head) >= 7 /\ call \in Seq(Octets) /\ Len(call) = 5 /\ call[1] = 232
      /\ tail \in Seq(Octets)
  BY HelperBytes
<1>2. (IF find_sym(added, ".rodata") >= 0 THEN added ELSE Append(added, Sym(".rodata", RODATA, 0))) = with
  <2>1. Sym(".rodata", RODATA, 0).name = ".rodata"
    BY DEF Sym
  <2> HIDE DEF added
  <2> QED
    BY <2>1 DEF WithRodata, Added
<1>3. /\ code' = ((code \o head) \o call) \o tail
      /\ log' = log \o <<[mi |-> Mi("HELPER", NoReg, NoReg, NoReg), at |-> a, to |-> a + Len(head)],
                         [mi |-> MiCall(Library, NoReg, <<>>), at |-> a + Len(head), to |-> a + Len(head) + Len(call)],
                         [mi |-> Mi("RET", NoReg, NoReg, NoReg), at |-> a + Len(head) + Len(call), to |-> Len(code')]>>
      /\ done' = Append(done, [name |-> HelperName, shape |-> NoFunc.shape, start |-> a, end |-> Len(code'),
                               labels |-> <<>>, first |-> Len(log) + 1, last |-> Len(log'), alone |-> FALSE])
  BY DEF EmitPrintHelper
<1>4. /\ strtab' = strtab_ensure(strtab_ensure(strtab_add(strtab, HelperName), added, ".rodata"), with, Library)
      /\ syms' = SetLastSize(ensure_extern(with, Library), Len(code') - a)
      /\ relocs' = relocs \o <<Reloc(b - 2 - 4, "PC32", find_sym(with, ".rodata"), rodata - 4),
                               Reloc(b + 1, "PLT32", find_sym(syms', Library), -4)>>
  <2> DEFINE w == IF find_sym(added, ".rodata") >= 0 THEN added ELSE Append(added, Sym(".rodata", RODATA, 0))
  <2>1. strtab' = strtab_ensure(strtab_ensure(strtab_add(strtab, HelperName), added, ".rodata"), w, Library)
    BY DEF EmitPrintHelper
  <2>2. syms' = SetLastSize(ensure_extern(w, Library), Len(code') - a)
    BY DEF EmitPrintHelper
  <2> DEFINE lea == Len(code) + Len(head) - 2 - 4
  <2>3. relocs' = relocs \o <<Reloc(lea, "PC32", find_sym(w, ".rodata"), rodata - 4),
                              Reloc(b + 1, "PLT32", find_sym(syms', Library), -4)>>
    BY DEF EmitPrintHelper
  <2>5. lea = b - 2 - 4
    <3> DEFINE h == Len(head)
    <3>1. a \in Nat /\ h \in Nat
      BY <1>1 DEF TypeInv
    <3> HIDE DEF h
    <3>2. a + h - 2 - 4 = (a + h) - 2 - 4
      BY <3>1
    <3> QED
      BY <3>2 DEF h
  <2> HIDE DEF with, w, lea
  <2>4. w = with
    BY <1>2 DEF w
  <2> QED
    BY <2>1, <2>2, <2>3, <2>4, <2>5, Zenon
<1>5. strtab' \in Nat
  <2>1. strtab \in Nat
    BY DEF TypeInv
  <2>2. strtab_add(strtab, HelperName) \in Nat
    BY <2>1, SpellingsHold, StrtabTyped
  <2>3. strtab_ensure(strtab_add(strtab, HelperName), added, ".rodata") \in Nat
    <3> DEFINE n == strtab_add(strtab, HelperName)
    <3> HIDE DEF n, added
    <3> QED
      BY <2>2, SpellingsHold, StrtabTyped DEF n
  <2> DEFINE n == strtab_ensure(strtab_add(strtab, HelperName), added, ".rodata")
  <2>4. strtab' = strtab_ensure(n, with, Library)
    BY <1>4
  <2> HIDE DEF n, with
  <2> QED
    BY <2>3, <2>4, SpellingsHold, StrtabTyped DEF n
<1>6. HelperLog(a, b, Len(code'))
  <2> DEFINE h == Len(head)
  <2>1. a + h + Len(call) = b + 5
    BY <1>1
  <2> HIDE DEF head, call
  <2> QED
    BY <1>3, <2>1 DEF HelperLog, HelperItem, CallItem, LibraryCall
<1>7. syms' = SetLastSize(HelperSyms(a), Len(code') - a)
  BY <1>4 DEF HelperSyms
<1> HIDE DEF head, call, tail
<1> QED
  BY <1>1, <1>3, <1>4, <1>5, <1>6, <1>7

\* The symbols there were, the routine's own, and undefined ones or the one of .rodata.
LEMMA HelperSymsAre ==
  ASSUME TypeInv, NEW a \in Nat
  PROVE  LET ext == HelperSyms(a)  n == Len(syms)
             ro == find_sym(WithRodata(Append(syms, Sym(HelperName, TEXT, a))), ".rodata") IN
         /\ ext \in Seq(Symbols) /\ Len(ext) >= n + 1 /\ n \in Nat
         /\ \A k \in 1..n : ext[k] = syms[k]
         /\ ext[n + 1] = Sym(HelperName, TEXT, a)
         /\ \A k \in DOMAIN ext : k > n + 1 =>
              ext[k].shndx = UNDEF \/ (ext[k].shndx = RODATA /\ ext[k].name = ".rodata")
         /\ ro \in Nat /\ ro + 1 \in DOMAIN ext
         /\ ro + 1 \in DOMAIN ext /\ ext[ro + 1].name = ".rodata"
         /\ \E k \in DOMAIN ext : ext[k].name = Library
<1> DEFINE n == Len(syms)  s0 == Sym(HelperName, TEXT, a)  s1 == Sym(".rodata", RODATA, 0)
           s2 == Sym(Library, UNDEF, 0)
           added == Append(syms, s0)  with == WithRodata(added)  ext == HelperSyms(a)
           ro == find_sym(with, ".rodata")
<1>1. s0 \in Symbols /\ s1 \in Symbols /\ s2 \in Symbols
  <2>1. HelperName \in Spellings /\ ".rodata" \in Spellings /\ Library \in Spellings
    BY SpellingsHold
  <2>2. 0 \in Nat
    OBVIOUS
  <2> QED
    BY <2>1, <2>2, SymTyped
<1>2. s1.name = ".rodata" /\ s1.shndx = RODATA /\ s2.shndx = UNDEF
  BY DEF Sym
<1>3. syms \in Seq(Symbols)
  BY DEF TypeInv
<1>4. with = Added(added, s1)
  BY DEF WithRodata
<1>5. ext = ensure_extern(with, Library)
  BY DEF HelperSyms
<1> HIDE DEF s0, s1, ext
<1>6. added \in Seq(Symbols) /\ Len(added) = n + 1 /\ n \in Nat /\ added[n + 1] = s0
      /\ \A k \in 1..n : added[k] = syms[k]
  BY <1>1, <1>3
<1> HIDE DEF added, with, n
<1>7. with \in Seq(Symbols) /\ with \in {added, Append(added, s1)}
      /\ find_sym(with, s1.name) \in Nat /\ find_sym(with, s1.name) + 1 \in DOMAIN with
      /\ with[find_sym(with, s1.name) + 1].name = s1.name
  BY <1>1, <1>4, <1>6, FindsAdded
<1>8. ro \in Nat /\ ro + 1 \in DOMAIN with /\ with[ro + 1].name = ".rodata"
  BY <1>2, <1>7
<1> HIDE DEF ro
<1>9. Len(with) >= n + 1 /\ \A k \in DOMAIN with : k > n + 1 => with[k] = s1
  <2>1. CASE with = added
    BY <1>6, <2>1
  <2>2. CASE with = Append(added, s1)
    BY <1>1, <1>6, <2>2
  <2> QED
    BY <1>7, <2>1, <2>2
<1>10. \A k \in 1..(n + 1) : with[k] = added[k]
  <2>1. CASE with = added
    BY <2>1
  <2>2. CASE with = Append(added, s1)
    BY <1>1, <1>6, <2>2
  <2> QED
    BY <1>7, <2>1, <2>2
<1>11. /\ ext \in Seq(Symbols) /\ ext \in {with, Append(with, s2)}
       /\ find_sym(ext, Library) + 1 \in DOMAIN ext /\ ext[find_sym(ext, Library) + 1].name = Library
  BY <1>5, <1>7, SpellingsHold, EnsureFinds
<1> HIDE DEF s2
<1>12. /\ Len(ext) >= Len(with) /\ Len(with) \in Nat /\ Len(ext) \in Nat
       /\ \A k \in 1..Len(with) : ext[k] = with[k]
       /\ \A k \in DOMAIN ext : k > Len(with) => ext[k] = s2
  <2>1. CASE ext = with
    BY <1>7, <2>1
  <2>2. CASE ext = Append(with, s2)
    BY <1>1, <1>7, <2>2
  <2> QED
    BY <1>11, <2>1, <2>2
<1>13. Len(ext) >= n + 1
  BY <1>6, <1>9, <1>12
<1>14. \A k \in 1..n : ext[k] = syms[k]
  BY <1>6, <1>9, <1>10, <1>12
<1>15. ext[n + 1] = s0
  BY <1>6, <1>9, <1>10, <1>12
<1>16. ASSUME NEW k \in DOMAIN ext, k > n + 1
       PROVE  ext[k].shndx = UNDEF \/ (ext[k].shndx = RODATA /\ ext[k].name = ".rodata")
  <2>1. CASE k > Len(with)
    BY <1>2, <1>12, <2>1
  <2>2. CASE ~(k > Len(with))
    <3>1. k \in DOMAIN with /\ ext[k] = with[k]
      BY <1>7, <1>11, <1>12, <2>2, SMTT(60)
    <3> QED
      BY <1>2, <1>9, <1>16, <3>1
  <2> QED
    BY <2>1, <2>2
<1>17. ro + 1 \in DOMAIN ext /\ ext[ro + 1].name = ".rodata"
  <2>1. ro + 1 \in 1..Len(with)
    BY <1>7, <1>8
  <2> QED
    BY <1>8, <1>11, <1>12, <2>1
<1> QED
  BY <1>6, <1>8, <1>11, <1>13, <1>14, <1>15, <1>16, <1>17 DEF ext, n, s0, ro, with, added

-------------------------------------------------------------------------------
\* What the print routine adds, altogether.

LEMMA ThreeMore ==
  ASSUME NEW S, NEW l \in Seq(S), NEW x \in S, NEW y \in S, NEW z \in S
  PROVE  /\ l \o <<x, y, z>> \in Seq(S) /\ Len(l \o <<x, y, z>>) = Len(l) + 3
         /\ \A i \in 1..Len(l) : (l \o <<x, y, z>>)[i] = l[i]
         /\ (l \o <<x, y, z>>)[Len(l) + 1] = x /\ (l \o <<x, y, z>>)[Len(l) + 2] = y
         /\ (l \o <<x, y, z>>)[Len(l) + 3] = z
<1> DEFINE t == <<x, y, z>>
<1>1. t \in Seq(S) /\ Len(t) = 3 /\ t[1] = x /\ t[2] = y /\ t[3] = z
  BY Seq3
<1> HIDE DEF t
<1>0. /\ l \o t \in Seq(S) /\ Len(l \o t) = Len(l) + Len(t) /\ Len(l) \in Nat
      /\ \A i \in 1..Len(l) : (l \o t)[i] = l[i]
      /\ \A i \in 1..Len(t) : (l \o t)[Len(l) + i] = t[i]
  <2>1. l \in Seq(S) /\ t \in Seq(S)
    BY <1>1
  <2>2. l \o t \in Seq(S) /\ Len(l \o t) = Len(l) + Len(t) /\ Len(l) \in Nat
    BY ONLY <2>1
  <2>3. \A i \in 1..Len(l) : (l \o t)[i] = l[i]
    BY ONLY <2>1
  <2>4. \A i \in 1..Len(t) : (l \o t)[Len(l) + i] = t[i]
    BY ONLY <2>1
  <2> QED
    BY <2>2, <2>3, <2>4, Zenon
<1> DEFINE c == l \o t
<1> HIDE DEF c
<1>2. c \in Seq(S) /\ Len(c) = Len(l) + 3 /\ Len(l) \in Nat
      /\ \A i \in 1..Len(l) : c[i] = l[i]
  BY <1>0, <1>1 DEF c
<1>3. \A i \in 1..3 : c[Len(l) + i] = t[i]
  BY <1>0, <1>1 DEF c
<1> QED
  BY <1>1, <1>2, <1>3 DEF t, c

LEMMA TwoMore ==
  ASSUME NEW S, NEW l \in Seq(S), NEW x \in S, NEW y \in S
  PROVE  /\ l \o <<x, y>> \in Seq(S) /\ Len(l \o <<x, y>>) = Len(l) + 2
         /\ \A i \in 1..Len(l) : (l \o <<x, y>>)[i] = l[i]
         /\ (l \o <<x, y>>)[Len(l) + 1] = x /\ (l \o <<x, y>>)[Len(l) + 2] = y
<1> DEFINE t == <<x, y>>
<1>1. t \in Seq(S) /\ Len(t) = 2 /\ t[1] = x /\ t[2] = y
  BY Seq2
<1> HIDE DEF t
<1>0. /\ l \o t \in Seq(S) /\ Len(l \o t) = Len(l) + Len(t) /\ Len(l) \in Nat
      /\ \A i \in 1..Len(l) : (l \o t)[i] = l[i]
      /\ \A i \in 1..Len(t) : (l \o t)[Len(l) + i] = t[i]
  <2>1. l \in Seq(S) /\ t \in Seq(S)
    BY <1>1
  <2>2. l \o t \in Seq(S) /\ Len(l \o t) = Len(l) + Len(t) /\ Len(l) \in Nat
    BY ONLY <2>1
  <2>3. \A i \in 1..Len(l) : (l \o t)[i] = l[i]
    BY ONLY <2>1
  <2>4. \A i \in 1..Len(t) : (l \o t)[Len(l) + i] = t[i]
    BY ONLY <2>1
  <2> QED
    BY <2>2, <2>3, <2>4, Zenon
<1> DEFINE c == l \o t
<1> HIDE DEF c
<1>2. c \in Seq(S) /\ Len(c) = Len(l) + 2 /\ Len(l) \in Nat
      /\ \A i \in 1..Len(l) : c[i] = l[i]
  BY <1>0, <1>1 DEF c
<1>3. \A i \in 1..2 : c[Len(l) + i] = t[i]
  BY <1>0, <1>1 DEF c
<1> QED
  BY <1>1, <1>2, <1>3 DEF t, c

Glued(c, head, call, tail) == ((c \o head) \o call) \o tail

LEMMA HelperCode ==
  ASSUME NEW c \in Seq(Octets), NEW head \in Seq(Octets), NEW call \in Seq(Octets), NEW tail \in Seq(Octets),
         Len(call) = 5
  PROVE  LET all == Glued(c, head, call, tail) IN
         /\ all \in Seq(Octets) /\ Len(all) >= (Len(c) + Len(head)) + 5 /\ Len(all) \in Nat
         /\ \A k \in 1..Len(c) : all[k] = c[k]
         /\ all[(Len(c) + Len(head)) + 1] = call[1]
<1> DEFINE ch == c \o head  chc == ch \o call  all == chc \o tail  h == Len(head)  n == Len(c)
<1>1. ch \in Seq(Octets) /\ Len(ch) = n + h /\ n \in Nat /\ h \in Nat /\ \A k \in 1..n : ch[k] = c[k]
  OBVIOUS
<1> HIDE DEF ch, h
<1>2. chc \in Seq(Octets) /\ Len(chc) = Len(ch) + 5 /\ (\A k \in 1..Len(ch) : chc[k] = ch[k])
      /\ chc[Len(ch) + 1] = call[1]
  <2>1. /\ chc \in Seq(Octets) /\ Len(chc) = Len(ch) + Len(call) /\ (\A k \in 1..Len(ch) : chc[k] = ch[k])
        /\ \A k \in 1..Len(call) : chc[Len(ch) + k] = call[k]
    <3>1. ch \in Seq(Octets) /\ call \in Seq(Octets)
      BY <1>1
    <3>2. chc \in Seq(Octets) /\ Len(chc) = Len(ch) + Len(call)
      BY ONLY <3>1
    <3>3. \A k \in 1..Len(ch) : chc[k] = ch[k]
      BY ONLY <3>1
    <3>4. \A k \in 1..Len(call) : chc[Len(ch) + k] = call[k]
      BY ONLY <3>1
    <3> QED
      BY <3>2, <3>3, <3>4, Zenon
  <2> HIDE DEF chc
  <2>2. 1 \in 1..Len(call)
    OBVIOUS
  <2> QED
    BY <2>1, <2>2
<1> HIDE DEF chc
<1>3. all \in Seq(Octets) /\ Len(all) = Len(chc) + Len(tail) /\ Len(tail) \in Nat
      /\ (\A k \in 1..Len(chc) : all[k] = chc[k])
  <2>1. chc \in Seq(Octets)
    BY <1>2
  <2> QED
    BY ONLY <2>1, tail \in Seq(Octets)
<1> HIDE DEF all
<1>4. Len(all) >= n + h + 5 /\ Len(all) \in Nat
  BY <1>1, <1>2, <1>3
<1>5. \A k \in 1..n : all[k] = c[k]
  BY <1>1, <1>2, <1>3
<1>6. all[(n + h) + 1] = call[1]
  <2>1. (n + h) + 1 \in 1..Len(chc)
    BY <1>1, <1>2
  <2> QED
    BY <1>1, <1>2, <1>3, <2>1
<1> QED
  BY <1>3, <1>4, <1>5, <1>6 DEF all, chc, ch, h, Glued

\* The step of the print routine, item by item.
HelperFacts(a, b, ro, lib) ==
  /\ a = Len(code) /\ b >= a + 7
  /\ code' \in Seq(Octets) /\ Len(code') >= b + 5 /\ (\A k \in 1..a : code'[k] = code[k]) /\ code'[b + 1] = 232
  /\ log' \in Seq(Items) /\ Len(log') = Len(log) + 3 /\ (\A i \in 1..Len(log) : log'[i] = log[i])
  /\ log'[Len(log) + 1] = HelperItem("HELPER", a, b)
  /\ log'[Len(log) + 2] = CallItem(b, b + 5)
  /\ log'[Len(log) + 3] = HelperItem("RET", b + 5, Len(code'))
  /\ syms' = SetLastSize(HelperSyms(a), Len(code') - a) /\ syms' \in Seq(Symbols)
  /\ Len(syms') = Len(HelperSyms(a))
  /\ \A k \in DOMAIN syms' :
       /\ syms'[k].name = HelperSyms(a)[k].name
       /\ syms'[k].shndx = HelperSyms(a)[k].shndx
       /\ syms'[k].value = HelperSyms(a)[k].value
       /\ k # Len(syms') => syms'[k].size = HelperSyms(a)[k].size
  /\ relocs' = relocs \o <<Reloc(b - 2 - 4, "PC32", ro, rodata - 4), Reloc(b + 1, "PLT32", lib, -4)>>
  /\ Reloc(b - 2 - 4, "PC32", ro, rodata - 4) \in Relocations /\ Reloc(b + 1, "PLT32", lib, -4) \in Relocations
  /\ ro + 1 \in DOMAIN syms' /\ syms'[ro + 1].name = ".rodata"
  /\ lib + 1 \in DOMAIN syms' /\ syms'[lib + 1].name = Library
  /\ strtab' \in Nat
  /\ done' = Append(done, [name |-> HelperName, shape |-> NoFunc.shape, start |-> a, end |-> Len(code'),
                           labels |-> <<>>, first |-> Len(log) + 1, last |-> Len(log'), alone |-> FALSE])
  /\ [name |-> HelperName, shape |-> NoFunc.shape, start |-> a, end |-> Len(code'),
      labels |-> <<>>, first |-> Len(log) + 1, last |-> Len(log'), alone |-> FALSE] \in Ends

LEMMA HelperStep ==
  ASSUME TypeInv, EmitPrintHelper
  PROVE  \E a, b, ro, lib \in Nat : HelperFacts(a, b, ro, lib)
<1>1. PICK head \in Seq(Octets), call \in Seq(Octets), tail \in Seq(Octets) :
        LET a == Len(code)  b == Len(code) + Len(head) IN
        /\ Len(head) >= 7 /\ Len(call) = 5 /\ call[1] = 232
        /\ code' = ((code \o head) \o call) \o tail
        /\ HelperLog(a, b, Len(code'))
        /\ syms' = SetLastSize(HelperSyms(a), Len(code') - a)
        /\ relocs' = relocs \o <<Reloc(b - 2 - 4, "PC32",
                                       find_sym(WithRodata(Append(syms, Sym(HelperName, TEXT, a))), ".rodata"),
                                       rodata - 4),
                                 Reloc(b + 1, "PLT32", find_sym(syms', Library), -4)>>
        /\ strtab' \in Nat
        /\ done' = Append(done, [name |-> HelperName, shape |-> NoFunc.shape, start |-> a, end |-> Len(code'),
                                 labels |-> <<>>, first |-> Len(log) + 1, last |-> Len(log'), alone |-> FALSE])
  BY HelperIs
<1> DEFINE a == Len(code)  b == Len(code) + Len(head)  n == Len(code')  m == Len(log)
           ro == find_sym(WithRodata(Append(syms, Sym(HelperName, TEXT, a))), ".rodata")
           lib == find_sym(syms', Library)  ext == HelperSyms(a)
<1>2. a \in Nat /\ b \in Nat /\ b >= a + 7 /\ m \in Nat
  <2>1. a \in Nat /\ m \in Nat /\ Len(head) \in Nat
    BY DEF TypeInv
  <2> QED
    BY <1>1, <2>1
<1>3. code' \in Seq(Octets) /\ n >= b + 5 /\ n \in Nat /\ (\A k \in 1..a : code'[k] = code[k]) /\ code'[b + 1] = 232
  <2>1. code \in Seq(Octets)
    BY DEF TypeInv
  <2> DEFINE all == Glued(code, head, call, tail)
  <2>2. /\ all \in Seq(Octets) /\ Len(all) >= (Len(code) + Len(head)) + 5 /\ Len(all) \in Nat
        /\ \A k \in 1..Len(code) : all[k] = code[k]
        /\ all[(Len(code) + Len(head)) + 1] = call[1]
    <3>1. /\ code \in Seq(Octets) /\ head \in Seq(Octets) /\ call \in Seq(Octets) /\ tail \in Seq(Octets)
          /\ Len(call) = 5
      BY <1>1, <2>1
    <3> QED
      BY ONLY <3>1, HelperCode, SMTT(30)
  <2>3. code' = all /\ call[1] = 232
    BY <1>1 DEF Glued
  <2> HIDE DEF all
  <2> QED
    BY <2>2, <2>3
<1>4. HelperLog(a, b, n) /\ syms' = SetLastSize(ext, n - a) /\ strtab' \in Nat
      /\ relocs' = relocs \o <<Reloc(b - 2 - 4, "PC32", ro, rodata - 4), Reloc(b + 1, "PLT32", lib, -4)>>
  BY <1>1
<1>5. done' = Append(done, [name |-> HelperName, shape |-> NoFunc.shape, start |-> a, end |-> n,
                            labels |-> <<>>, first |-> m + 1, last |-> Len(log'), alone |-> FALSE])
  BY <1>1
<1> HIDE DEF a, b, n
<1>6. /\ ext \in Seq(Symbols) /\ ro \in Nat /\ ro + 1 \in DOMAIN ext /\ ext[ro + 1].name = ".rodata"
      /\ \E k \in DOMAIN ext : ext[k].name = Library
  BY <1>2, HelperSymsAre
<1> HIDE DEF ro, ext
<1>7. /\ syms' \in Seq(Symbols) /\ Len(syms') = Len(ext)
      /\ \A k \in DOMAIN ext :
           /\ syms'[k].name = ext[k].name /\ syms'[k].shndx = ext[k].shndx
           /\ syms'[k].value = ext[k].value /\ syms'[k].size = IF k = Len(ext) THEN n - a ELSE ext[k].size
  <2>1. n - a \in Nat
    BY <1>2, <1>3
  <2> QED
    BY <1>4, <1>6, <2>1, SetSizeIs
<1>8. DOMAIN syms' = DOMAIN ext
  BY <1>6, <1>7
<1>9. lib \in Nat /\ lib + 1 \in DOMAIN syms' /\ syms'[lib + 1].name = Library
  <2>1. \E k \in DOMAIN syms' : syms'[k].name = Library
    BY <1>6, <1>7, <1>8
  <2>2. lib + 1 \in DOMAIN syms' /\ syms'[lib + 1].name = Library /\ lib >= 0 /\ lib \in Int
    BY <1>7, <2>1, FindsSym
  <2>3. lib \in Nat
    <3> HIDE DEF lib
    <3> QED
      BY <2>2
  <2> QED
    BY <2>2, <2>3
<1> HIDE DEF lib
<1>10. /\ Reloc(b - 2 - 4, "PC32", ro, rodata - 4) \in Relocations
       /\ Reloc(b + 1, "PLT32", lib, -4) \in Relocations
  <2>1. b - 2 - 4 \in Nat /\ b + 1 \in Nat /\ rodata - 4 \in Int /\ -4 \in Int
    BY <1>2 DEF TypeInv
  <2> QED
    BY <1>6, <1>9, <2>1 DEF Reloc, Relocations
<1>11. HelperItem("HELPER", a, b) \in Items /\ HelperItem("RET", b + 5, n) \in Items /\ CallItem(b, b + 5) \in Items
  <2>1. "HELPER" \in Ops /\ "RET" \in Ops
    BY DEF Ops, Plain
  <2>2. Mi("HELPER", NoReg, NoReg, NoReg) \in Records /\ Mi("RET", NoReg, NoReg, NoReg) \in Records
    BY <2>1, NoRegTyped, MiTyped
  <2>3. b + 5 \in Nat
    BY <1>2
  <2>4. HelperItem("HELPER", a, b) \in Items /\ HelperItem("RET", b + 5, n) \in Items
    BY <1>2, <1>3, <2>2, <2>3 DEF HelperItem, Items
  <2>5. CallItem(b, b + 5) \in Items
    BY <1>2, <2>3, LibraryCallTyped DEF CallItem, Items
  <2> QED
    BY <2>4, <2>5
<1>12. /\ log' \in Seq(Items) /\ Len(log') = m + 3 /\ (\A i \in 1..m : log'[i] = log[i])
       /\ log'[m + 1] = HelperItem("HELPER", a, b) /\ log'[m + 2] = CallItem(b, b + 5)
       /\ log'[m + 3] = HelperItem("RET", b + 5, n)
  <2> DEFINE x == HelperItem("HELPER", a, b)  y == CallItem(b, b + 5)  z == HelperItem("RET", b + 5, n)
  <2>1. log' = log \o <<x, y, z>> /\ log \in Seq(Items)
    BY <1>4 DEF HelperLog, TypeInv
  <2> HIDE DEF x, y, z
  <2>2. x \in Items /\ y \in Items /\ z \in Items
    BY <1>11 DEF x, y, z
  <2>3. /\ log' \in Seq(Items) /\ Len(log') = Len(log) + 3 /\ (\A i \in 1..Len(log) : log'[i] = log[i])
        /\ log'[Len(log) + 1] = x /\ log'[Len(log) + 2] = y /\ log'[Len(log) + 3] = z
    BY <2>1, <2>2, ThreeMore
  <2> QED
    BY <2>3 DEF x, y, z
<1>13. [name |-> HelperName, shape |-> NoFunc.shape, start |-> a, end |-> n,
        labels |-> <<>>, first |-> m + 1, last |-> Len(log'), alone |-> FALSE] \in Ends
  <2> DEFINE none == <<>>  first == m + 1  last == Len(log')
  <2>1. none \in Seq(Nat) /\ first \in Nat /\ last \in Nat
    BY <1>2, <1>12, EmptySeq
  <2>2. HelperName \in Spellings /\ NoFunc.shape \in Frames
    BY SpellingsHold, NoFuncTyped
  <2> HIDE DEF none, first, last
  <2>3. [name |-> HelperName, shape |-> NoFunc.shape, start |-> a, end |-> n,
         labels |-> none, first |-> first, last |-> last, alone |-> FALSE] \in Ends
    BY <1>2, <1>3, <2>1, <2>2 DEF Ends
  <2> QED
    BY <2>3 DEF none, first, last
<1>14. \A k \in DOMAIN syms' :
       /\ syms'[k].name = ext[k].name
       /\ syms'[k].shndx = ext[k].shndx
       /\ syms'[k].value = ext[k].value
       /\ k # Len(syms') => syms'[k].size = ext[k].size
  BY <1>7, <1>8
<1>15. ro + 1 \in DOMAIN syms' /\ syms'[ro + 1].name = ".rodata"
  BY <1>6, <1>7, <1>8
<1>16. HelperFacts(a, b, ro, lib)
  <2>1. a = Len(code) /\ n = Len(code') /\ ext = HelperSyms(a) /\ m = Len(log)
    BY DEF a, n, ext
  <2> HIDE DEF m
  <2> QED
    BY ONLY <1>2, <1>3, <1>4, <1>5, <1>7, <1>9, <1>10, <1>12, <1>13, <1>14, <1>15, <2>1 DEF HelperFacts
<1> QED
  BY <1>2, <1>6, <1>9, <1>16

-------------------------------------------------------------------------------
\* Types: every step.

LEMMA HelperTypes == TypeInv /\ EmitPrintHelper => TypeInv'
<1> SUFFICES ASSUME TypeInv, EmitPrintHelper PROVE TypeInv'
  OBVIOUS
<1>1. PICK a, b, ro, lib \in Nat : HelperFacts(a, b, ro, lib)
  BY HelperStep
<1>2. code' \in Seq(Octets) /\ log' \in Seq(Items) /\ strtab' \in Nat /\ syms' \in Seq(Symbols)
  BY <1>1, SMTT(30) DEF HelperFacts
<1>3. Len(syms') >= 1
  <2>1. ro + 1 \in DOMAIN syms'
    BY <1>1, SMTT(30) DEF HelperFacts
  <2>2. DOMAIN syms' = 1..Len(syms') /\ Len(syms') \in Nat
    BY <1>2
  <2> QED
    BY <2>1, <2>2
<1>4. done' \in Seq(Ends)
  <2> DEFINE e == [name |-> HelperName, shape |-> NoFunc.shape, start |-> a, end |-> Len(code'),
                   labels |-> <<>>, first |-> Len(log) + 1, last |-> Len(log'), alone |-> FALSE]
  <2>1. e \in Ends /\ done' = Append(done, e)
    BY <1>1, SMTT(30) DEF HelperFacts
  <2> HIDE DEF e
  <2> QED
    BY <2>1 DEF TypeInv
<1>5. relocs' \in Seq(Relocations)
  <2> DEFINE x == Reloc(b - 2 - 4, "PC32", ro, rodata - 4)  y == Reloc(b + 1, "PLT32", lib, -4)
  <2>1. x \in Relocations /\ y \in Relocations /\ relocs' = relocs \o <<x, y>>
    BY <1>1, SMTT(30) DEF HelperFacts
  <2>2. relocs \in Seq(Relocations)
    BY DEF TypeInv
  <2> HIDE DEF x, y
  <2> QED
    BY <2>1, <2>2, TwoMore
<1>6. rodata' \in Nat
  BY DEF TypeInv, EmitPrintHelper, FormatLen
<1> QED
  BY <1>2, <1>3, <1>4, <1>5, <1>6 DEF TypeInv, EmitPrintHelper

LEMMA NextTypes == TypeInv /\ TextInv /\ PatchInv /\ [Next]_vars => TypeInv'
<1> SUFFICES ASSUME TypeInv, TextInv, PatchInv, [Next]_vars PROVE TypeInv'
  OBVIOUS
<1>1. CASE BeginFunction
  BY <1>1, BeginTypes
<1>2. CASE BeginBlock
  BY <1>2, BlockTypes
<1>3. CASE EmitPlain
  BY <1>3, PlainTypes
<1>4. CASE EmitBranch
  BY <1>4, BranchTypes
<1>5. CASE EmitCall
  BY <1>5, CallTypes
<1>6. CASE EndFunction
  BY <1>6, EndTypes
<1>7. CASE EmitPrintHelper
  BY <1>7, HelperTypes
<1>8. CASE WriteElf
  BY <1>8, WriteTypes
<1>9. CASE UNCHANGED vars
  BY <1>9 DEF vars, emitter, TypeInv
<1> QED
  BY <1>1, <1>2, <1>3, <1>4, <1>5, <1>6, <1>7, <1>8, <1>9 DEF Next

\* An item at the end of a text.
LEMMA LaidAppend ==
  ASSUME NEW l \in Seq(Items), NEW n \in Nat, Laid(l, n), NEW it \in Items, it.at = n, it.at <= it.to
  PROVE  Laid(Append(l, it), it.to)
<1> DEFINE m == Len(l)  k == Append(l, it)
<1>1. m \in Nat /\ DOMAIN l = 1..m /\ DOMAIN k = 1..(m + 1) /\ k[m + 1] = it /\ \A i \in 1..m : k[i] = l[i]
  OBVIOUS
<1>2. it.at \in Nat /\ it.to \in Nat
  BY DEF Items
<1>3. ASSUME NEW i \in 1..m PROVE l[i].at \in Nat /\ l[i].to \in Nat
  <2>1. l[i] \in Items
    BY <1>1
  <2> QED
    BY <2>1 DEF Items
<1>4. /\ \A i \in 1..m : l[i].at <= l[i].to /\ l[i].to <= n
      /\ \A i, j \in 1..m : i < j => l[i].to <= l[j].at
  BY <1>1 DEF Laid
<1> HIDE DEF k, m
<1>5. ASSUME NEW i \in 1..(m + 1) PROVE k[i].at <= k[i].to /\ k[i].to <= it.to
  <2>1. CASE i = m + 1
    BY <1>1, <1>2, <2>1
  <2>2. CASE i # m + 1
    <3>1. i \in 1..m
      BY <1>1, <2>2
    <3> QED
      BY <1>1, <1>2, <1>3, <1>4, <3>1
  <2> QED
    BY <2>1, <2>2
<1>6. ASSUME NEW i \in 1..(m + 1), NEW j \in 1..(m + 1), i < j PROVE k[i].to <= k[j].at
  <2>0. i \in 1..m
    BY <1>1, <1>6
  <2>1. CASE j = m + 1
    BY <1>1, <1>2, <1>3, <1>4, <2>0, <2>1
  <2>2. CASE j # m + 1
    <3>1. j \in 1..m
      BY <1>1, <2>2
    <3> QED
      BY <1>1, <1>4, <1>6, <2>0, <3>1
  <2> QED
    BY <2>1, <2>2
<1> QED
  BY <1>1, <1>5, <1>6 DEF Laid, k

LEMMA EmittedLaid ==
  ASSUME TypeInv, TextInv, NEW m, NEW bytes, Emitted(m, bytes)
  PROVE  /\ Laid(log', Len(code')) /\ Len(code') = Len(code) + Len(bytes) /\ Len(log') = Len(log) + 1
         /\ Len(code) \in Nat /\ Len(bytes) \in Nat /\ Len(log) \in Nat
<1>1. code \in Seq(Octets) /\ log \in Seq(Items) /\ Len(code) \in Nat /\ Len(log) \in Nat
  BY DEF TypeInv
<1>2. m \in Records /\ bytes \in Seq(Octets) /\ log' = Append(log, Item(m, bytes))
  BY DEF Emitted
<1>3. Len(bytes) \in Nat
  BY <1>2
<1> DEFINE it == Item(m, bytes)
<1>4. it \in Items /\ it.at = Len(code) /\ it.to = Len(code) + Len(bytes)
  BY <1>1, <1>2, ItemTyped
<1>5. Len(code') = Len(code) + Len(bytes)
  BY EmittedTyped
<1> HIDE DEF it
<1>6. it.at <= it.to
  BY <1>1, <1>3, <1>4
<1>7. Laid(Append(log, it), it.to)
  BY <1>1, <1>4, <1>6, LaidAppend DEF TextInv
<1>8. Len(log') = Len(log) + 1
  BY <1>1, <1>2
<1> QED
  BY <1>1, <1>2, <1>3, <1>4, <1>5, <1>7, <1>8 DEF it

LEMMA DoneTyped ==
  ASSUME TypeInv, NEW f \in Finished
  PROVE  /\ done[f].first \in Nat /\ done[f].last \in Nat /\ done[f].start \in Nat /\ done[f].labels \in Seq(Nat)
         /\ done[f].name \in Spellings /\ done[f].end \in Nat
<1>1. done[f] \in Ends
  BY DEF TypeInv, Finished
<1> QED
  BY <1>1 DEF Ends

LEMMA MfTyped ==
  ASSUME TypeInv
  PROVE  mf.items \in Nat /\ mf.start \in Nat /\ mf.name \in Spellings /\ mf.shape.nblocks \in Nat
  BY DEF TypeInv, Functions, Frames

\* Within a function.
LEMMA TextKept ==
  ASSUME TypeInv, TextInv, UNCHANGED <<done, mf, phase>>, Laid(log', Len(code')),
         Len(log') \in Nat, Len(code') \in Nat, Len(log) <= Len(log'), Len(code) <= Len(code')
  PROVE  TextInv'
<1>1. Len(code) \in Nat /\ Len(log) \in Nat
  BY DEF TypeInv
<1>2. ASSUME NEW f \in Finished'
      PROVE  done'[f].first >= 1 /\ done'[f].last <= Len(log') /\ done'[f].start < Len(code')
  <2>1. f \in Finished /\ done'[f] = done[f]
    BY DEF Finished
  <2>2. done[f].first >= 1 /\ done[f].last <= Len(log) /\ done[f].start < Len(code)
    BY <2>1 DEF TextInv
  <2>3. done[f].last \in Nat /\ done[f].start \in Nat
    BY <2>1, DoneTyped
  <2> QED
    BY <1>1, <2>1, <2>2, <2>3
<1>3. mf'.items <= Len(log')
  BY <1>1, MfTyped DEF TextInv
<1>4. phase' = "blocks" => mf'.start < Len(code')
  BY <1>1, MfTyped DEF TextInv
<1>5. phase' = "blocks" => \A f \in Finished' : done'[f].last <= mf'.items /\ done'[f].start < mf'.start
  BY DEF TextInv, Finished
<1> QED
  BY <1>2, <1>3, <1>4, <1>5 DEF TextInv

\* A function more is finished.
LEMMA DoneMore ==
  ASSUME TypeInv, NEW e, e \in Ends, done' = Append(done, e)
  PROVE  /\ Len(done) \in Nat /\ Finished = 1..Len(done) /\ Finished' = 1..(Len(done) + 1)
         /\ done'[Len(done) + 1] = e /\ \A f \in Finished : done'[f] = done[f]
  BY DEF TypeInv, Finished

LEMMA TextMore ==
  ASSUME TypeInv, TextInv, NEW e \in Ends, done' = Append(done, e), Laid(log', Len(code')),
         Len(log') \in Nat, Len(code') \in Nat, Len(log) <= Len(log'), Len(code) <= Len(code'),
         e.first >= 1, e.last <= Len(log'), e.start < Len(code'), mf'.items <= Len(log'), phase' # "blocks"
  PROVE  TextInv'
<1>1. Len(code) \in Nat /\ Len(log) \in Nat
  BY DEF TypeInv
<1>2. /\ Len(done) \in Nat /\ Finished = 1..Len(done) /\ Finished' = 1..(Len(done) + 1)
      /\ done'[Len(done) + 1] = e /\ \A f \in Finished : done'[f] = done[f]
  BY DoneMore
<1>3. ASSUME NEW f \in Finished'
      PROVE  done'[f].first >= 1 /\ done'[f].last <= Len(log') /\ done'[f].start < Len(code')
  <2>1. CASE f \in Finished
    <3>1. done[f].first >= 1 /\ done[f].last <= Len(log) /\ done[f].start < Len(code)
      BY <2>1 DEF TextInv
    <3>2. done[f].last \in Nat /\ done[f].start \in Nat
      BY <2>1, DoneTyped
    <3> QED
      BY <1>1, <1>2, <2>1, <3>1, <3>2
  <2>2. CASE f \notin Finished
    <3>1. f = Len(done) + 1
      BY <1>2, <2>2
    <3> QED
      BY <1>2, <3>1
  <2> QED
    BY <2>1, <2>2
<1> QED
  BY <1>3 DEF TextInv

-------------------------------------------------------------------------------
\* The text: items lie one after another.

LEMMA InitText == Init => TextInv
<1> SUFFICES ASSUME Init PROVE TextInv
  OBVIOUS
<1>1. code = <<>> /\ log = <<>> /\ done = <<>> /\ mf = NoFunc /\ phase = "between"
  BY DEF Init
<1>2. Laid(log, Len(code))
  BY <1>1 DEF Laid
<1>3. Finished = {}
  BY <1>1 DEF Finished
<1>4. mf.items <= Len(log)
  BY <1>1, NoFuncTyped
<1> QED
  BY <1>1, <1>2, <1>3, <1>4 DEF TextInv

LEMMA BeginText == TypeInv /\ TextInv /\ BeginFunction => TextInv'
<1> SUFFICES ASSUME TypeInv, TextInv, BeginFunction PROVE TextInv'
  OBVIOUS
<1>1. PICK name \in Names, shape \in Shapes, bytes \in Seq(Octets) :
        /\ Emitted(PrologueItem, bytes) /\ Len(bytes) >= 1
        /\ shape \in Frames /\ fuel' = fuel - Cost(shape) /\ Cost(shape) <= fuel
        /\ mf' = [name |-> name, shape |-> shape, start |-> Len(code), items |-> Len(log)]
        /\ syms' = Append(syms, Sym(name, TEXT, Len(code)))
        /\ strtab' = strtab_add(strtab, name)
  BY BeginFunctionIs
<1>2. /\ Laid(log', Len(code')) /\ Len(code') = Len(code) + Len(bytes) /\ Len(log') = Len(log) + 1
      /\ Len(code) \in Nat /\ Len(bytes) \in Nat /\ Len(log) \in Nat
  BY <1>1, EmittedLaid
<1>3. done' = done /\ phase' = "blocks" /\ mf'.items = Len(log) /\ mf'.start = Len(code)
  BY <1>1 DEF BeginFunction
<1>4. ASSUME NEW f \in Finished'
      PROVE  /\ done'[f].first >= 1 /\ done'[f].last <= Len(log') /\ done'[f].start < Len(code')
             /\ done'[f].last <= mf'.items /\ done'[f].start < mf'.start
  <2>1. f \in Finished /\ done'[f] = done[f]
    BY <1>3 DEF Finished
  <2>2. done[f].first >= 1 /\ done[f].last <= Len(log) /\ done[f].start < Len(code)
    BY <2>1 DEF TextInv
  <2>3. done[f].last \in Nat /\ done[f].start \in Nat
    BY <2>1, DoneTyped
  <2> QED
    BY <1>1, <1>2, <1>3, <2>1, <2>2, <2>3
<1>5. mf'.items <= Len(log') /\ mf'.start < Len(code')
  BY <1>1, <1>2, <1>3
<1> QED
  BY <1>2, <1>4, <1>5 DEF TextInv

LEMMA BlockText == TypeInv /\ TextInv /\ BeginBlock => TextInv'
<1> SUFFICES ASSUME TypeInv, TextInv, BeginBlock PROVE TextInv'
  OBVIOUS
<1>1. UNCHANGED <<code, log, done, mf, phase>>
  BY DEF BeginBlock
<1> QED
  BY <1>1 DEF TextInv, Finished

LEMMA WithinText ==
  ASSUME TypeInv, TextInv, NEW m, NEW bytes, Emitted(m, bytes), UNCHANGED <<done, mf, phase>>
  PROVE  TextInv'
<1>1. /\ Laid(log', Len(code')) /\ Len(code') = Len(code) + Len(bytes) /\ Len(log') = Len(log) + 1
      /\ Len(code) \in Nat /\ Len(bytes) \in Nat /\ Len(log) \in Nat
  BY EmittedLaid
<1>2. Len(log') \in Nat /\ Len(code') \in Nat /\ Len(log) <= Len(log') /\ Len(code) <= Len(code')
  BY <1>1
<1> QED
  BY <1>1, <1>2, TextKept

LEMMA PlainIs ==
  ASSUME TypeInv, EmitPlain
  PROVE  \E m \in Insts, bytes \in Seq(Octets) : m.op \in Plain /\ Emitted(m, bytes)
<1>1. PICK m \in Upcoming(Plain) : EmitBytes(m)
  BY DEF EmitPlain
<1>2. m \in Insts /\ m.op \in Plain
  BY DEF Upcoming
<1>3. Emitted(m, AllBytes(Expand(m, mf.shape.saved)))
  BY <1>1, <1>2, EmitBytesIs
<1>4. AllBytes(Expand(m, mf.shape.saved)) \in Seq(Octets)
  BY <1>3 DEF Emitted
<1> QED
  BY <1>2, <1>3, <1>4

LEMMA EmitText == TypeInv /\ TextInv /\ (EmitPlain \/ EmitBranch \/ EmitCall) => TextInv'
<1> SUFFICES ASSUME TypeInv, TextInv, EmitPlain \/ EmitBranch \/ EmitCall PROVE TextInv'
  OBVIOUS
<1>1. UNCHANGED <<done, mf, phase>>
  BY DEF EmitPlain, EmitBranch, EmitCall
<1>2. \E m \in Insts, bytes \in Seq(Octets) : Emitted(m, bytes)
  BY PlainIs, BranchIs, CallIs
<1> QED
  BY <1>1, <1>2, WithinText

LEMMA EndText == TypeInv /\ TextInv /\ PatchInv /\ EndFunction => TextInv'
<1> SUFFICES ASSUME TypeInv, TextInv, PatchInv, EndFunction PROVE TextInv'
  OBVIOUS
<1>0. TypeInv'
  BY EndTypes
<1>1. PICK bytes \in Seq(Octets) :
        code' = Patched(code \o bytes, patches, labels) /\ log' = Append(log, Item(FallbackItem, bytes))
  BY EndIs
<1>2. code' \in Seq(Octets) /\ Len(code') = Len(code) + Len(bytes)
  BY <1>1, EndCode
<1>3. code \in Seq(Octets) /\ Len(code) \in Nat /\ Len(bytes) \in Nat /\ log \in Seq(Items) /\ Len(log) \in Nat
  BY DEF TypeInv
<1> DEFINE it == Item(FallbackItem, bytes)
<1>4. it \in Items /\ it.at = Len(code) /\ it.to = Len(code) + Len(bytes)
  BY <1>3, FallbackTyped, ItemTyped
<1>5. log' = Append(log, it)
  BY <1>1
<1> HIDE DEF it
<1>6. Laid(log', Len(code')) /\ Len(log') = Len(log) + 1
  <2>1. it.at <= it.to
    BY <1>3, <1>4
  <2>2. Laid(Append(log, it), it.to)
    BY <1>3, <1>4, <2>1, LaidAppend DEF TextInv
  <2>3. Len(log') = Len(log) + 1
    BY <1>3, <1>4, <1>5
  <2> QED
    BY <1>2, <1>4, <1>5, <2>2, <2>3
<1> DEFINE e == done'[Len(done) + 1]
<1>7. /\ e.first = mf.items + 1 /\ e.last = Len(log') /\ e.start = mf.start /\ done' = Append(done, e)
      /\ phase = "blocks" /\ phase' = "between" /\ mf' = NoFunc
  <2> DEFINE d == [name |-> mf.name, shape |-> mf.shape, start |-> mf.start, end |-> Len(code'),
                   labels |-> labels, first |-> mf.items + 1, last |-> Len(log'),
                   alone |-> Last(syms).name = mf.name /\ Last(syms).shndx = TEXT]
  <2>1. done' = Append(done, d) /\ phase = "blocks" /\ phase' = "between" /\ mf' = NoFunc
    BY DEF EndFunction
  <2>2. d.first = mf.items + 1 /\ d.last = Len(log') /\ d.start = mf.start
    OBVIOUS
  <2> HIDE DEF d
  <2>3. done'[Len(done) + 1] = d
    BY <2>1 DEF TypeInv
  <2> QED
    BY <2>1, <2>2, <2>3
<1>8. e \in Ends
  <2>1. done' \in Seq(Ends) /\ Len(done') = Len(done) + 1 /\ Len(done) \in Nat
    <3>1. done \in Seq(Ends)
      BY DEF TypeInv
    <3>2. done' \in Seq(Ends)
      BY <1>0 DEF TypeInv
    <3>3. Len(done') = Len(done) + 1
      <4> HIDE DEF e
      <4> QED
        BY <1>7, <3>1
    <3> QED
      BY <3>1, <3>2, <3>3
  <2> QED
    BY <2>1
<1> HIDE DEF e
<1>9. mf.items \in Nat /\ mf.start \in Nat /\ mf.items <= Len(log) /\ mf.start < Len(code)
  BY <1>7, MfTyped DEF TextInv
<1>10. e.first >= 1 /\ e.last <= Len(log') /\ e.start < Len(code')
  BY <1>2, <1>3, <1>6, <1>7, <1>9
<1>11. Len(log') \in Nat /\ Len(code') \in Nat /\ Len(log) <= Len(log') /\ Len(code) <= Len(code')
  BY <1>2, <1>3, <1>6
<1>12. mf'.items <= Len(log')
  BY <1>7, <1>11, NoFuncTyped
<1> QED
  BY <1>6, <1>7, <1>8, <1>10, <1>11, <1>12, TextMore

LEMMA ItemTypes ==
  ASSUME TypeInv, NEW i \in DOMAIN log
  PROVE  log[i].at \in Nat /\ log[i].to \in Nat /\ log[i].mi \in Records /\ log[i] \in Items
<1>1. log[i] \in Items
  BY DEF TypeInv
<1> QED
  BY <1>1 DEF Items

LEMMA HelperText == TypeInv /\ TextInv /\ EmitPrintHelper => TextInv'
<1> SUFFICES ASSUME TypeInv, TextInv, EmitPrintHelper PROVE TextInv'
  OBVIOUS
<1>1. PICK a, b, ro, lib \in Nat : HelperFacts(a, b, ro, lib)
  BY HelperStep
<1> DEFINE n == Len(code')  m == Len(log)
           x == HelperItem("HELPER", a, b)  y == CallItem(b, b + 5)  z == HelperItem("RET", b + 5, n)
           e == [name |-> HelperName, shape |-> NoFunc.shape, start |-> a, end |-> Len(code'),
                 labels |-> <<>>, first |-> Len(log) + 1, last |-> Len(log'), alone |-> FALSE]
<1>2. /\ a = Len(code) /\ b >= a + 7 /\ n >= b + 5 /\ n \in Nat /\ m \in Nat /\ Len(log') = m + 3
      /\ log' \in Seq(Items)
  <2>1. /\ a = Len(code) /\ b >= a + 7 /\ n >= b + 5 /\ Len(log') = m + 3
        /\ log' \in Seq(Items) /\ code' \in Seq(Octets)
    BY <1>1, SMTT(30) DEF HelperFacts
  <2>2. m \in Nat
    BY DEF TypeInv
  <2>3. n \in Nat
    BY <2>1
  <2> QED
    BY <2>1, <2>2, <2>3
<1>3. log'[m + 1] = x /\ log'[m + 2] = y /\ log'[m + 3] = z /\ \A i \in 1..m : log'[i] = log[i]
  BY <1>1, SMTT(30) DEF HelperFacts
<1>4. x.at = a /\ x.to = b /\ y.at = b /\ y.to = b + 5 /\ z.at = b + 5 /\ z.to = n
  BY DEF HelperItem, CallItem
<1>5. e \in Ends /\ done' = Append(done, e)
  BY <1>1, SMTT(30) DEF HelperFacts
<1>6. e.first = m + 1 /\ e.last = Len(log') /\ e.start = a
  OBVIOUS
<1> HIDE DEF x, y, z, e, n, m
<1>7. ASSUME NEW i \in 1..m
      PROVE  /\ log'[i].at \in Nat /\ log'[i].to \in Nat
             /\ log'[i].at <= log'[i].to /\ log'[i].to <= a
             /\ \A j \in 1..m : i < j => log'[i].to <= log'[j].at
  <2>1. i \in DOMAIN log /\ DOMAIN log = 1..m
    BY DEF TypeInv, m
  <2>2. log[i].at \in Nat /\ log[i].to \in Nat
    BY <2>1, ItemTypes
  <2>3. log[i].at <= log[i].to /\ log[i].to <= a /\ \A j \in 1..m : i < j => log[i].to <= log[j].at
    BY <1>2, <2>1 DEF TextInv, Laid
  <2> QED
    BY <1>3, <2>2, <2>3
<1>8. /\ log'[m + 1].at = a /\ log'[m + 1].to = b /\ log'[m + 2].at = b
      /\ log'[m + 2].to = b + 5 /\ log'[m + 3].at = b + 5 /\ log'[m + 3].to = n
  BY <1>3, <1>4
<1>9. \A i \in 1..(m + 3) : i \in 1..m \/ i = m + 1 \/ i = m + 2 \/ i = m + 3
  BY <1>2
<1>10. ASSUME NEW i \in 1..(m + 3) PROVE log'[i].at <= log'[i].to /\ log'[i].to <= n
  <2>1. CASE i \in 1..m
    BY <1>2, <1>7, <2>1
  <2>2. CASE i = m + 1
    BY <1>2, <1>8, <2>2
  <2>3. CASE i = m + 2
    BY <1>2, <1>8, <2>3
  <2>4. CASE i = m + 3
    BY <1>2, <1>8, <2>4
  <2> QED
    BY <1>9, <2>1, <2>2, <2>3, <2>4
<1>11. ASSUME NEW i \in 1..(m + 3), NEW j \in 1..(m + 3), i < j PROVE log'[i].to <= log'[j].at
  <2>1. CASE j \in 1..m
    <3>1. i \in 1..m
      BY <1>2, <1>11, <2>1
    <3> QED
      BY <1>7, <1>11, <2>1, <3>1
  <2>2. CASE j = m + 1
    <3>1. i \in 1..m
      BY <1>2, <1>11, <2>2
    <3> QED
      BY <1>7, <1>8, <2>2, <3>1
  <2>3. CASE j = m + 2
    <3>1. i \in 1..m \/ i = m + 1
      BY <1>2, <1>11, <2>3
    <3> QED
      BY <1>2, <1>7, <1>8, <2>3, <3>1
  <2>4. CASE j = m + 3
    <3>1. i \in 1..m \/ i = m + 1 \/ i = m + 2
      BY <1>2, <1>11, <2>4
    <3> QED
      BY <1>2, <1>7, <1>8, <2>4, <3>1
  <2> QED
    BY <1>9, <2>1, <2>2, <2>3, <2>4
<1>12. Laid(log', n)
  <2>1. DOMAIN log' = 1..(m + 3)
    BY <1>2
  <2> QED
    BY <1>10, <1>11, <2>1 DEF Laid
<1>13. mf.items \in Nat /\ mf.items <= m /\ mf' = mf /\ phase' = "helper"
  BY MfTyped DEF TextInv, EmitPrintHelper, m
<1>14. e.first >= 1 /\ e.last <= Len(log') /\ e.start < n /\ Len(log') \in Nat /\ m <= Len(log') /\ a <= n
       /\ mf'.items <= Len(log')
  BY <1>2, <1>6, <1>13
<1> QED
  BY <1>2, <1>5, <1>12, <1>13, <1>14, TextMore DEF n, m

LEMMA NextText == TypeInv /\ TextInv /\ PatchInv /\ [Next]_vars => TextInv'
<1> SUFFICES ASSUME TypeInv, TextInv, PatchInv, [Next]_vars PROVE TextInv'
  OBVIOUS
<1>1. CASE WriteElf \/ UNCHANGED vars
  <2>1. UNCHANGED <<code, log, done, mf>> /\ (phase' = "blocks" => phase = "blocks")
    BY <1>1 DEF WriteElf, vars, emitter
  <2> QED
    BY <2>1 DEF TextInv, Finished
<1> QED
  BY <1>1, BeginText, BlockText, EmitText, EndText, HelperText DEF Next

-------------------------------------------------------------------------------
\* The symbols.

LEMMA SymFields ==
  ASSUME NEW ss \in Seq(Symbols), NEW k \in DOMAIN ss
  PROVE  ss[k].value \in Nat /\ ss[k].size \in Nat /\ ss[k].name \in Spellings /\ ss[k] \in Symbols
<1>1. ss[k] \in Symbols
  OBVIOUS
<1> QED
  BY <1>1 DEF Symbols

LEMMA SymMade ==
  ASSUME NEW name, NEW x, NEW v
  PROVE  /\ Sym(name, x, v).name = name /\ Sym(name, x, v).shndx = x /\ Sym(name, x, v).value = v
         /\ Sym(name, x, v).size = 0
  BY DEF Sym

LEMMA Sections == UNDEF # TEXT /\ TEXT # RODATA /\ UNDEF # RODATA
  BY DEF UNDEF, TEXT, RODATA

LEMMA InitSyms == Init => SymInv
<1> SUFFICES ASSUME Init PROVE SymInv
  OBVIOUS
<1> DEFINE s == Sym("", UNDEF, 0)
<1>1. syms = <<s>> /\ done = <<>> /\ phase = "between"
  BY DEF Init
<1>2. s.name = "" /\ s.shndx = UNDEF
  BY DEF Sym
<1> HIDE DEF s
<1>3. DOMAIN syms = {1} /\ syms[1] = s
  BY <1>1
<1>4. Finished = {}
  BY <1>1 DEF Finished
<1> QED
  BY <1>1, <1>2, <1>3, <1>4, Sections DEF SymInv

\* The text grows, the symbols stay.
LEMMA SymsStay ==
  ASSUME TypeInv, SymInv, UNCHANGED <<syms, done, mf>>, phase' = "blocks" <=> phase = "blocks",
         Len(code) <= Len(code'), Len(code') \in Nat
  PROVE  SymInv'
<1>1. ASSUME NEW k \in DOMAIN syms', syms'[k].shndx = TEXT PROVE syms'[k].value < Len(code')
  <2>1. syms[k].value < Len(code)
    BY <1>1 DEF SymInv
  <2>2. syms[k].value \in Nat /\ Len(code) \in Nat
    BY <1>1, SymFields DEF TypeInv
  <2> QED
    BY <2>1, <2>2
<1>2. Finished' = Finished
  BY DEF Finished
<1>3. /\ syms'[1].name = "" /\ syms'[1].shndx = UNDEF
      /\ \A k, l \in DOMAIN syms' :
           syms'[k].shndx = TEXT /\ syms'[l].shndx = TEXT /\ syms'[k].value = syms'[l].value => k = l
      /\ \A k \in DOMAIN syms' : syms'[k].shndx = RODATA => syms'[k].name = ".rodata"
  BY DEF SymInv
<1>4. \A k \in DOMAIN syms' : syms'[k].shndx = TEXT =>
       \/ \E f \in Finished' : Marks(syms'[k], done'[f].name, done'[f].start)
       \/ phase' = "blocks" /\ Marks(syms'[k], mf'.name, mf'.start)
  BY <1>2 DEF SymInv
<1>5. \A f \in Finished' : \E k \in DOMAIN syms' :
       /\ Marks(syms'[k], done'[f].name, done'[f].start)
       /\ done'[f].alone => syms'[k].size = done'[f].end - done'[f].start
  BY <1>2 DEF SymInv
<1>6. phase' = "blocks" => \E o \in DOMAIN syms' :
       /\ Marks(syms'[o], mf'.name, mf'.start)
       /\ \A k \in DOMAIN syms' : k > o => syms'[k].shndx = UNDEF
  BY DEF SymInv
<1> QED
  BY <1>1, <1>3, <1>4, <1>5, <1>6 DEF SymInv

\* A symbol more, at the end of the text or of no section.
LEMMA OneMore ==
  ASSUME TypeInv, NEW s \in Symbols, syms' = Append(syms, s)
  PROVE  /\ Len(syms) \in Nat \ {0} /\ DOMAIN syms = 1..Len(syms) /\ DOMAIN syms' = 1..(Len(syms) + 1)
         /\ syms'[Len(syms) + 1] = s /\ \A k \in DOMAIN syms : syms'[k] = syms[k]
<1>1. syms \in Seq(Symbols) /\ Len(syms) >= 1
  BY DEF TypeInv
<1> QED
  BY <1>1

LEMMA CallSyms == TypeInv /\ TextInv /\ SymInv /\ EmitCall => SymInv'
<1> SUFFICES ASSUME TypeInv, TextInv, SymInv, EmitCall PROVE SymInv'
  OBVIOUS
<1>1. PICK m \in Insts, bytes \in Seq(Octets), h \in Nat :
        /\ m.op = "CALL" /\ m.name \in Names \cup {HelperName, Library}
        /\ Spend(m) /\ Emitted(m, bytes) /\ Len(bytes) >= h + 5 /\ bytes[h + 1] = 232
        /\ AddCall(m.name, Len(code) + h + 1)
  BY CallIs
<1>2. UNCHANGED <<done, mf, phase>>
  BY DEF EmitCall
<1>3. Len(code) <= Len(code') /\ Len(code') \in Nat /\ Len(code) \in Nat
  <2>1. Len(code') = Len(code) + Len(bytes) /\ Len(code) \in Nat /\ Len(bytes) \in Nat
    BY <1>1, EmittedLaid
  <2> QED
    BY <2>1
<1> DEFINE s == Sym(m.name, UNDEF, 0)  field == Len(code) + h + 1
<1>4. syms' \in {syms, Append(syms, s)}
  <2>1. field \in Nat
    BY <1>3
  <2>2. AddCall(m.name, field)
    BY <1>1
  <2> HIDE DEF field
  <2> QED
    BY <1>1, <2>1, <2>2, AddCallIs
<1>5. CASE syms' = syms
  BY <1>2, <1>3, <1>5, SymsStay
<1>6. CASE syms' = Append(syms, s)
  <2>1. s \in Symbols
    <3>1. Names \cup {HelperName, Library} \subseteq Spellings
      BY SpellingsHold
    <3>2. m.name \in Spellings /\ 0 \in Nat
      BY <1>1, <3>1
    <3> QED
      BY <3>2, SymTyped
  <2>2. s.shndx = UNDEF
    BY SymMade
  <2> HIDE DEF s
  <2> DEFINE n == Len(syms)
  <2>3. /\ n \in Nat \ {0} /\ DOMAIN syms = 1..n /\ DOMAIN syms' = 1..(n + 1)
        /\ syms'[n + 1] = s /\ \A k \in DOMAIN syms : syms'[k] = syms[k]
    BY <1>6, <2>1, OneMore
  <2> HIDE DEF n
  <2>4. \A k \in DOMAIN syms' : k \in DOMAIN syms \/ (k = n + 1 /\ syms'[k].shndx = UNDEF)
    BY <2>2, <2>3
  <2>5. DOMAIN syms \subseteq DOMAIN syms' /\ 1 \in DOMAIN syms
    BY <2>3
  <2>6. Finished' = Finished
    BY <1>2 DEF Finished
  <2>7. \A k \in DOMAIN syms' : syms'[k].shndx # UNDEF => k \in DOMAIN syms /\ syms'[k] = syms[k]
    BY <2>3, <2>4
  <2>8. ASSUME NEW k \in DOMAIN syms', syms'[k].shndx = TEXT PROVE syms'[k].value < Len(code')
    <3>1. k \in DOMAIN syms /\ syms'[k] = syms[k]
      BY <2>7, <2>8, Sections
    <3>2. syms[k].value < Len(code)
      BY <2>8, <3>1 DEF SymInv
    <3>3. syms[k].value \in Nat
      BY <3>1, SymFields DEF TypeInv
    <3> QED
      BY <1>3, <3>1, <3>2, <3>3
  <2>9. syms'[1].name = "" /\ syms'[1].shndx = UNDEF
    BY <2>3, <2>5 DEF SymInv
  <2>10. \A k, l \in DOMAIN syms' :
           syms'[k].shndx = TEXT /\ syms'[l].shndx = TEXT /\ syms'[k].value = syms'[l].value => k = l
    BY <2>7, Sections DEF SymInv
  <2>11. \A k \in DOMAIN syms' : syms'[k].shndx = RODATA => syms'[k].name = ".rodata"
    BY <2>7, Sections DEF SymInv
  <2>12. \A k \in DOMAIN syms' : syms'[k].shndx = TEXT =>
           \/ \E f \in Finished' : Marks(syms'[k], done'[f].name, done'[f].start)
           \/ phase' = "blocks" /\ Marks(syms'[k], mf'.name, mf'.start)
    BY <1>2, <2>6, <2>7, Sections DEF SymInv
  <2>13. ASSUME NEW f \in Finished'
         PROVE  \E k \in DOMAIN syms' :
                  /\ Marks(syms'[k], done'[f].name, done'[f].start)
                  /\ done'[f].alone => syms'[k].size = done'[f].end - done'[f].start
    <3>1. PICK k \in DOMAIN syms : /\ Marks(syms[k], done[f].name, done[f].start)
                                   /\ done[f].alone => syms[k].size = done[f].end - done[f].start
      BY <2>6 DEF SymInv
    <3>2. k \in DOMAIN syms' /\ syms'[k] = syms[k] /\ done' = done
      BY <1>2, <2>3, <2>5
    <3> QED
      BY <3>1, <3>2
  <2>14. phase' = "blocks" => \E o \in DOMAIN syms' :
           /\ Marks(syms'[o], mf'.name, mf'.start)
           /\ \A k \in DOMAIN syms' : k > o => syms'[k].shndx = UNDEF
    BY <1>2, <2>3, <2>4, <2>5, ZenonT(60) DEF SymInv
  <2> QED
    BY <2>8, <2>9, <2>10, <2>11, <2>12, <2>13, <2>14 DEF SymInv
<1> QED
  BY <1>4, <1>5, <1>6

LEMMA BeginSyms == TypeInv /\ TextInv /\ SymInv /\ BeginFunction => SymInv'
<1> SUFFICES ASSUME TypeInv, TextInv, SymInv, BeginFunction PROVE SymInv'
  OBVIOUS
<1>1. PICK name \in Names, shape \in Shapes, bytes \in Seq(Octets) :
        /\ Emitted(PrologueItem, bytes) /\ Len(bytes) >= 1
        /\ shape \in Frames /\ fuel' = fuel - Cost(shape) /\ Cost(shape) <= fuel
        /\ mf' = [name |-> name, shape |-> shape, start |-> Len(code), items |-> Len(log)]
        /\ syms' = Append(syms, Sym(name, TEXT, Len(code)))
        /\ strtab' = strtab_add(strtab, name)
  BY BeginFunctionIs
<1>2. Len(code) \in Nat /\ Len(code') \in Nat /\ Len(code) < Len(code')
  <2>1. Len(code') = Len(code) + Len(bytes) /\ Len(code) \in Nat /\ Len(bytes) \in Nat
    BY <1>1, EmittedLaid
  <2> QED
    BY <1>1, <2>1
<1>3. done' = done /\ phase = "between" /\ phase' = "blocks" /\ mf'.name = name /\ mf'.start = Len(code)
  BY <1>1 DEF BeginFunction
<1> DEFINE s == Sym(name, TEXT, Len(code))  n == Len(syms)
<1>4. s \in Symbols
  <2>1. name \in Spellings
    BY SpellingsHold
  <2> QED
    BY <1>2, <2>1, SymTyped
<1>5. s.name = name /\ s.shndx = TEXT /\ s.value = Len(code)
  BY SymMade
<1>6. syms' = Append(syms, s)
  BY <1>1
<1> HIDE DEF s
<1>7. /\ n \in Nat \ {0} /\ DOMAIN syms = 1..n /\ DOMAIN syms' = 1..(n + 1)
      /\ syms'[n + 1] = s /\ \A k \in DOMAIN syms : syms'[k] = syms[k]
  BY <1>4, <1>6, OneMore
<1> HIDE DEF n
<1>8. /\ \A k \in DOMAIN syms' : k \in DOMAIN syms \/ k = n + 1
      /\ DOMAIN syms \subseteq DOMAIN syms' /\ 1 \in DOMAIN syms /\ n + 1 \in DOMAIN syms'
  BY <1>7
<1>9. Finished' = Finished
  BY <1>3 DEF Finished
<1>10. ASSUME NEW k \in DOMAIN syms, syms[k].shndx = TEXT
       PROVE  syms[k].value < Len(code) /\ syms[k].value \in Nat
  BY <1>10, SymFields DEF SymInv, TypeInv
<1>11. ASSUME NEW k \in DOMAIN syms', syms'[k].shndx = TEXT PROVE syms'[k].value < Len(code')
  <2>1. CASE k \in DOMAIN syms
    BY <1>2, <1>7, <1>10, <1>11, <2>1
  <2>2. CASE k = n + 1
    BY <1>2, <1>5, <1>7, <2>2
  <2> QED
    BY <1>8, <2>1, <2>2
<1>12. syms'[1].name = "" /\ syms'[1].shndx = UNDEF
  BY <1>7, <1>8 DEF SymInv
<1>13. ASSUME NEW k \in DOMAIN syms', NEW l \in DOMAIN syms',
              syms'[k].shndx = TEXT, syms'[l].shndx = TEXT, syms'[k].value = syms'[l].value
       PROVE  k = l
  <2>1. CASE k \in DOMAIN syms /\ l \in DOMAIN syms
    BY <1>7, <1>13, <2>1, ZenonT(60) DEF SymInv
  <2>2. CASE k \in DOMAIN syms /\ l = n + 1
    BY <1>2, <1>5, <1>7, <1>10, <1>13, <2>2
  <2>3. CASE k = n + 1 /\ l \in DOMAIN syms
    BY <1>2, <1>5, <1>7, <1>10, <1>13, <2>3
  <2> QED
    BY <1>8, <2>1, <2>2, <2>3
<1>14. ASSUME NEW k \in DOMAIN syms', syms'[k].shndx = RODATA PROVE syms'[k].name = ".rodata"
  <2>1. k \in DOMAIN syms /\ syms'[k] = syms[k]
    BY <1>5, <1>7, <1>8, <1>14, Sections
  <2> QED
    BY <1>14, <2>1 DEF SymInv
<1>15. ASSUME NEW k \in DOMAIN syms', syms'[k].shndx = TEXT
       PROVE  \/ \E f \in Finished' : Marks(syms'[k], done'[f].name, done'[f].start)
              \/ phase' = "blocks" /\ Marks(syms'[k], mf'.name, mf'.start)
  <2>1. CASE k \in DOMAIN syms
    <3>1. \E f \in Finished : Marks(syms[k], done[f].name, done[f].start)
      BY <1>3, <1>7, <1>15, <2>1 DEF SymInv
    <3> QED
      BY <1>3, <1>7, <1>9, <2>1, <3>1
  <2>2. CASE k = n + 1
    BY <1>3, <1>5, <1>7, <2>2 DEF Marks
  <2> QED
    BY <1>8, <2>1, <2>2
<1>16. ASSUME NEW f \in Finished'
       PROVE  \E k \in DOMAIN syms' :
                /\ Marks(syms'[k], done'[f].name, done'[f].start)
                /\ done'[f].alone => syms'[k].size = done'[f].end - done'[f].start
  <2>1. PICK k \in DOMAIN syms : /\ Marks(syms[k], done[f].name, done[f].start)
                                 /\ done[f].alone => syms[k].size = done[f].end - done[f].start
    BY <1>9 DEF SymInv
  <2>2. k \in DOMAIN syms' /\ syms'[k] = syms[k] /\ done' = done
    BY <1>3, <1>7, <1>8
  <2> QED
    BY <2>1, <2>2
<1>17. \E o \in DOMAIN syms' :
         /\ Marks(syms'[o], mf'.name, mf'.start)
         /\ \A k \in DOMAIN syms' : k > o => syms'[k].shndx = UNDEF
  <2>1. Marks(syms'[n + 1], mf'.name, mf'.start)
    BY <1>3, <1>5, <1>7 DEF Marks
  <2>2. \A k \in DOMAIN syms' : ~(k > n + 1)
    BY <1>7
  <2> QED
    BY <1>8, <2>1, <2>2
<1> QED
  BY <1>11, <1>12, <1>13, <1>14, <1>15, <1>16, <1>17 DEF SymInv

-------------------------------------------------------------------------------
\* The symbols, at the end of a function and of the program.

\* What the end of a function records of it.
LEMMA EndRecord ==
  ASSUME TypeInv, EndFunction
  PROVE  LET e == done'[Len(done) + 1] IN
         /\ done' = Append(done, e) /\ e.name = mf.name /\ e.start = mf.start /\ e.end = Len(code')
         /\ e.labels = labels /\ e.first = mf.items + 1 /\ e.last = Len(log')
         /\ e.alone = (Last(syms).name = mf.name /\ Last(syms).shndx = TEXT)
         /\ phase = "blocks" /\ phase' = "between" /\ mf' = NoFunc
<1> DEFINE alone == Last(syms).name = mf.name /\ Last(syms).shndx = TEXT
           d == [name |-> mf.name, shape |-> mf.shape, start |-> mf.start, end |-> Len(code'),
                 labels |-> labels, first |-> mf.items + 1, last |-> Len(log'), alone |-> alone]
<1>1. done' = Append(done, d) /\ phase = "blocks" /\ phase' = "between" /\ mf' = NoFunc
  BY DEF EndFunction
<1> HIDE DEF alone
<1>2. /\ d.first = mf.items + 1 /\ d.last = Len(log') /\ d.start = mf.start /\ d.name = mf.name
      /\ d.end = Len(code') /\ d.labels = labels /\ d.alone = alone
  OBVIOUS
<1> HIDE DEF d
<1>3. done'[Len(done) + 1] = d
  BY <1>1 DEF TypeInv
<1> QED
  BY <1>1, <1>2, <1>3 DEF alone

LEMMA EndSyms == TypeInv /\ TextInv /\ SymInv /\ PatchInv /\ EndFunction => SymInv'
<1> SUFFICES ASSUME TypeInv, TextInv, SymInv, PatchInv, EndFunction PROVE SymInv'
  OBVIOUS
<1> DEFINE e == done'[Len(done) + 1]  n == Len(code') - mf.start  m == Len(syms)
<1>0. TypeInv'
  BY EndTypes
<1>1. /\ done' = Append(done, e) /\ e.name = mf.name /\ e.start = mf.start /\ e.end = Len(code')
      /\ phase = "blocks" /\ phase' = "between"
  BY EndRecord
<1>2. e.alone => Last(syms).shndx = TEXT
  BY EndRecord
<1>3. e \in Ends
  <2>1. done \in Seq(Ends) /\ done' \in Seq(Ends)
    BY <1>0 DEF TypeInv
  <2>2. Len(done') = Len(done) + 1 /\ Len(done) \in Nat
    <3> HIDE DEF e
    <3> QED
      BY <1>1, <2>1
  <2> QED
    BY <2>1, <2>2
<1> HIDE DEF e
<1>4. /\ Len(done) \in Nat /\ Finished = 1..Len(done) /\ Finished' = 1..(Len(done) + 1)
      /\ done'[Len(done) + 1] = e /\ \A f \in Finished : done'[f] = done[f]
  BY <1>1, <1>3, DoneMore
<1>5. Len(code) \in Nat /\ Len(code') \in Nat /\ Len(code) <= Len(code')
  <2>1. PICK bytes \in Seq(Octets) : code' = Patched(code \o bytes, patches, labels)
    BY EndIs
  <2>2. Len(code') = Len(code) + Len(bytes)
    BY <2>1, EndCode
  <2>3. Len(code) \in Nat /\ Len(bytes) \in Nat
    BY DEF TypeInv
  <2> QED
    BY <2>2, <2>3
<1>6. n \in Nat
  <2>1. mf.start \in Nat /\ mf.start < Len(code)
    BY <1>1, MfTyped DEF TextInv
  <2> QED
    BY <1>5, <2>1
<1>7. syms' = SetLastSize(syms, n)
  BY DEF EndFunction
<1>8. syms \in Seq(Symbols) /\ m \in Nat /\ m >= 1 /\ DOMAIN syms = 1..m
  BY DEF TypeInv
<1> HIDE DEF n
<1>9. /\ syms' \in Seq(Symbols) /\ Len(syms') = m
      /\ \A k \in DOMAIN syms :
           /\ syms'[k].name = syms[k].name /\ syms'[k].shndx = syms[k].shndx /\ syms'[k].value = syms[k].value
           /\ syms'[k].size = IF k = m THEN n ELSE syms[k].size
  BY <1>6, <1>7, <1>8, SetSizeIs
<1>10. DOMAIN syms' = DOMAIN syms /\ 1 \in DOMAIN syms /\ m \in DOMAIN syms
  BY <1>8, <1>9
<1>11. PICK o \in DOMAIN syms : /\ Marks(syms[o], mf.name, mf.start)
                                /\ \A k \in DOMAIN syms : k > o => syms[k].shndx = UNDEF
  BY <1>1 DEF SymInv
<1>12. syms[m].shndx = TEXT => o = m
  BY <1>8, <1>10, <1>11, Sections
<1>13. Last(syms) = syms[m]
  BY DEF Last
<1>14. ASSUME NEW k \in DOMAIN syms', syms'[k].shndx = TEXT PROVE syms'[k].value < Len(code')
  <2>1. syms[k].value < Len(code) /\ syms[k].value \in Nat
    BY <1>8, <1>9, <1>10, <1>14, SymFields DEF SymInv
  <2> QED
    BY <1>5, <1>9, <1>10, <2>1
<1>15. syms'[1].name = "" /\ syms'[1].shndx = UNDEF
  BY <1>9, <1>10 DEF SymInv
<1>16. ASSUME NEW k \in DOMAIN syms', NEW l \in DOMAIN syms',
              syms'[k].shndx = TEXT, syms'[l].shndx = TEXT, syms'[k].value = syms'[l].value
       PROVE  k = l
  <2>1. syms[k].shndx = TEXT /\ syms[l].shndx = TEXT /\ syms[k].value = syms[l].value
    BY <1>9, <1>10, <1>16
  <2>2. \A i, j \in DOMAIN syms :
          syms[i].shndx = TEXT /\ syms[j].shndx = TEXT /\ syms[i].value = syms[j].value => i = j
    BY DEF SymInv
  <2> QED
    BY <1>10, <2>1, <2>2
<1>17. ASSUME NEW k \in DOMAIN syms', syms'[k].shndx = RODATA PROVE syms'[k].name = ".rodata"
  BY <1>9, <1>10, <1>17 DEF SymInv
<1>18. ASSUME NEW k \in DOMAIN syms', NEW name, NEW a
       PROVE  Marks(syms'[k], name, a) <=> Marks(syms[k], name, a)
  BY <1>9, <1>10 DEF Marks
<1>19. ASSUME NEW k \in DOMAIN syms', syms'[k].shndx = TEXT
       PROVE  \E f \in Finished' : Marks(syms'[k], done'[f].name, done'[f].start)
  <2>1. syms[k].shndx = TEXT
    BY <1>9, <1>10, <1>19
  <2>2. CASE \E f \in Finished : Marks(syms[k], done[f].name, done[f].start)
    <3>1. PICK f \in Finished : Marks(syms[k], done[f].name, done[f].start)
      BY <2>2
    <3>2. f \in Finished' /\ done'[f] = done[f]
      BY <1>4
    <3> QED
      BY <1>18, <3>1, <3>2
  <2>3. CASE Marks(syms[k], mf.name, mf.start)
    <3>1. Len(done) + 1 \in Finished'
      BY <1>4
    <3>2. Marks(syms'[k], e.name, e.start)
      BY <1>1, <1>18, <2>3
    <3> QED
      BY <1>4, <3>1, <3>2
  <2> QED
    BY <1>10, <2>1, <2>2, <2>3 DEF SymInv
<1>20. ASSUME NEW f \in Finished'
       PROVE  \E k \in DOMAIN syms' :
                /\ Marks(syms'[k], done'[f].name, done'[f].start)
                /\ done'[f].alone => syms'[k].size = done'[f].end - done'[f].start
  <2>1. CASE f \in Finished
    <3>1. PICK k \in DOMAIN syms : /\ Marks(syms[k], done[f].name, done[f].start)
                                   /\ done[f].alone => syms[k].size = done[f].end - done[f].start
      BY <2>1 DEF SymInv
    <3>2. k # m
      <4> SUFFICES ASSUME k = m PROVE FALSE
        OBVIOUS
      <4>1. k = o
        BY <1>12, <3>1 DEF Marks
      <4>2. done[f].start = mf.start
        BY <1>11, <3>1, <4>1 DEF Marks
      <4>3. done[f].start < mf.start /\ done[f].start \in Nat /\ mf.start \in Nat
        BY <1>1, <2>1, DoneTyped, MfTyped DEF TextInv
      <4> QED
        BY <4>2, <4>3
    <3>3. k \in DOMAIN syms' /\ syms'[k].size = syms[k].size /\ done'[f] = done[f]
      BY <1>4, <1>9, <1>10, <2>1, <3>2
    <3>4. Marks(syms'[k], done'[f].name, done'[f].start)
      BY <1>18, <3>1, <3>3
    <3> QED
      BY <3>1, <3>3, <3>4
  <2>2. CASE f \notin Finished
    <3>1. done'[f] = e
      BY <1>4, <2>2
    <3>2. o \in DOMAIN syms' /\ Marks(syms'[o], e.name, e.start)
      BY <1>1, <1>10, <1>11, <1>18
    <3>3. ASSUME e.alone PROVE syms'[o].size = e.end - e.start
      <4>1. o = m
        BY <1>2, <1>12, <1>13, <3>3
      <4>2. syms'[o].size = n
        BY <1>9, <4>1
      <4> QED
        BY <1>1, <4>2 DEF n
    <3> QED
      BY <3>1, <3>2, <3>3
  <2> QED
    BY <2>1, <2>2
<1> QED
  BY <1>1, <1>14, <1>15, <1>16, <1>17, <1>19, <1>20 DEF SymInv

LEMMA HelperSymsKept == TypeInv /\ TextInv /\ SymInv /\ EmitPrintHelper => SymInv'
<1> SUFFICES ASSUME TypeInv, TextInv, SymInv, EmitPrintHelper PROVE SymInv'
  OBVIOUS
<1>1. PICK a, b, ro, lib \in Nat : HelperFacts(a, b, ro, lib)
  BY HelperStep
<1> DEFINE ext == HelperSyms(a)  n == Len(syms)  s == Sym(HelperName, TEXT, a)
           e == [name |-> HelperName, shape |-> NoFunc.shape, start |-> a, end |-> Len(code'),
                 labels |-> <<>>, first |-> Len(log) + 1, last |-> Len(log'), alone |-> FALSE]
<1>2. /\ ext \in Seq(Symbols) /\ Len(ext) >= n + 1 /\ n \in Nat
      /\ \A k \in 1..n : ext[k] = syms[k]
      /\ ext[n + 1] = s
      /\ \A k \in DOMAIN ext : k > n + 1 => ext[k].shndx = UNDEF \/ (ext[k].shndx = RODATA /\ ext[k].name = ".rodata")
  BY HelperSymsAre
<1>3. /\ syms' \in Seq(Symbols) /\ Len(syms') = Len(ext)
      /\ \A k \in DOMAIN syms' :
           /\ syms'[k].name = ext[k].name /\ syms'[k].shndx = ext[k].shndx /\ syms'[k].value = ext[k].value
           /\ k # Len(syms') => syms'[k].size = ext[k].size
  BY <1>1, SMTT(30) DEF HelperFacts
<1>4. e \in Ends /\ done' = Append(done, e)
  BY <1>1, SMTT(30) DEF HelperFacts
<1>5. e.name = HelperName /\ e.start = a /\ e.alone = FALSE
  BY SMTT(30)
<1>6. s.name = HelperName /\ s.shndx = TEXT /\ s.value = a
  BY SymMade
<1> HIDE DEF ext, n, s, e
<1>7. /\ Len(done) \in Nat /\ Finished = 1..Len(done) /\ Finished' = 1..(Len(done) + 1)
      /\ done'[Len(done) + 1] = e /\ \A f \in Finished : done'[f] = done[f]
  BY <1>4, DoneMore
<1>8. /\ DOMAIN syms = 1..n /\ n >= 1 /\ DOMAIN syms' = DOMAIN ext /\ DOMAIN ext = 1..Len(ext) /\ Len(ext) \in Nat
  BY <1>2, <1>3 DEF n, TypeInv
<1>9. /\ DOMAIN syms \subseteq DOMAIN syms' /\ 1 \in DOMAIN syms /\ n + 1 \in DOMAIN syms'
      /\ \A k \in DOMAIN syms' : k \in DOMAIN syms \/ k = n + 1 \/ k > n + 1
  BY <1>2, <1>8
<1>10. a = Len(code) /\ a < Len(code') /\ Len(code') \in Nat
  <2>1. a = Len(code) /\ b >= a + 7 /\ Len(code') >= b + 5 /\ code' \in Seq(Octets)
    BY <1>1, SMTT(30) DEF HelperFacts
  <2>2. Len(code') \in Nat
    BY <2>1
  <2> QED
    BY <2>1, <2>2
<1>11. ASSUME NEW k \in DOMAIN syms
       PROVE  /\ syms'[k].name = syms[k].name /\ syms'[k].shndx = syms[k].shndx
              /\ syms'[k].value = syms[k].value /\ syms'[k].size = syms[k].size
  <2>1. k \in DOMAIN syms' /\ ext[k] = syms[k] /\ k # Len(syms')
    BY <1>2, <1>3, <1>8
  <2> QED
    BY <1>3, <2>1
<1>12. syms'[n + 1].name = HelperName /\ syms'[n + 1].shndx = TEXT /\ syms'[n + 1].value = a
  BY <1>2, <1>3, <1>6, <1>9
<1>13. ASSUME NEW k \in DOMAIN syms', k > n + 1
       PROVE  syms'[k].shndx = UNDEF \/ (syms'[k].shndx = RODATA /\ syms'[k].name = ".rodata")
  BY <1>2, <1>3, <1>8, <1>13
<1>14. ASSUME NEW k \in DOMAIN syms, syms[k].shndx = TEXT
       PROVE  syms[k].value < a /\ syms[k].value \in Nat
  BY <1>10, <1>14, SymFields DEF SymInv, TypeInv
<1>15. \A k \in DOMAIN syms' : syms'[k].shndx = TEXT => k \in DOMAIN syms \/ k = n + 1
  BY <1>9, <1>13, Sections
<1>16. ASSUME NEW k \in DOMAIN syms', syms'[k].shndx = TEXT PROVE syms'[k].value < Len(code')
  <2>1. CASE k \in DOMAIN syms
    BY <1>10, <1>11, <1>14, <1>16, <2>1
  <2>2. CASE k = n + 1
    BY <1>10, <1>12, <2>2
  <2> QED
    BY <1>15, <1>16, <2>1, <2>2
<1>17. syms'[1].name = "" /\ syms'[1].shndx = UNDEF
  BY <1>9, <1>11 DEF SymInv
<1>18. ASSUME NEW k \in DOMAIN syms', NEW l \in DOMAIN syms',
              syms'[k].shndx = TEXT, syms'[l].shndx = TEXT, syms'[k].value = syms'[l].value
       PROVE  k = l
  <2>1. CASE k \in DOMAIN syms /\ l \in DOMAIN syms
    <3>1. syms[k].shndx = TEXT /\ syms[l].shndx = TEXT /\ syms[k].value = syms[l].value
      BY <1>11, <1>18, <2>1
    <3>2. \A i, j \in DOMAIN syms :
            syms[i].shndx = TEXT /\ syms[j].shndx = TEXT /\ syms[i].value = syms[j].value => i = j
      BY DEF SymInv
    <3> QED
      BY <2>1, <3>1, <3>2
  <2>2. CASE k \in DOMAIN syms /\ l = n + 1
    BY <1>11, <1>12, <1>14, <1>18, <2>2
  <2>3. CASE k = n + 1 /\ l \in DOMAIN syms
    BY <1>11, <1>12, <1>14, <1>18, <2>3
  <2> QED
    BY <1>15, <1>18, <2>1, <2>2, <2>3
<1>19. ASSUME NEW k \in DOMAIN syms', syms'[k].shndx = RODATA PROVE syms'[k].name = ".rodata"
  <2>1. CASE k \in DOMAIN syms
    BY <1>11, <1>19, <2>1 DEF SymInv
  <2>2. CASE k = n + 1
    BY <1>12, <1>19, <2>2, Sections
  <2>3. CASE k > n + 1
    BY <1>13, <1>19, <2>3, Sections
  <2> QED
    BY <1>9, <2>1, <2>2, <2>3
<1>20. ASSUME NEW k \in DOMAIN syms', syms'[k].shndx = TEXT
       PROVE  \E f \in Finished' : Marks(syms'[k], done'[f].name, done'[f].start)
  <2>1. CASE k \in DOMAIN syms
    <3>1. phase # "blocks"
      BY DEF EmitPrintHelper
    <3>2. PICK f \in Finished : Marks(syms[k], done[f].name, done[f].start)
      BY <1>11, <1>20, <2>1, <3>1 DEF SymInv
    <3>3. f \in Finished' /\ done'[f] = done[f]
      BY <1>7
    <3> QED
      BY <1>11, <2>1, <3>2, <3>3 DEF Marks
  <2>2. CASE k = n + 1
    <3>1. Len(done) + 1 \in Finished'
      BY <1>7
    <3> QED
      BY <1>5, <1>7, <1>12, <2>2, <3>1 DEF Marks
  <2> QED
    BY <1>15, <1>20, <2>1, <2>2
<1>21. ASSUME NEW f \in Finished'
       PROVE  \E k \in DOMAIN syms' :
                /\ Marks(syms'[k], done'[f].name, done'[f].start)
                /\ done'[f].alone => syms'[k].size = done'[f].end - done'[f].start
  <2>1. CASE f \in Finished
    <3>1. PICK k \in DOMAIN syms : /\ Marks(syms[k], done[f].name, done[f].start)
                                   /\ done[f].alone => syms[k].size = done[f].end - done[f].start
      BY <2>1 DEF SymInv
    <3>2. done'[f] = done[f] /\ k \in DOMAIN syms' /\ syms'[k].size = syms[k].size
      BY <1>7, <1>9, <1>11, <2>1
    <3>3. Marks(syms'[k], done'[f].name, done'[f].start)
      BY <1>11, <3>1, <3>2 DEF Marks
    <3> QED
      BY <3>1, <3>2, <3>3
  <2>2. CASE f \notin Finished
    <3>1. done'[f] = e
      BY <1>7, <2>2
    <3>2. Marks(syms'[n + 1], e.name, e.start)
      BY <1>5, <1>12 DEF Marks
    <3> QED
      BY <1>5, <1>9, <3>1, <3>2
  <2> QED
    BY <2>1, <2>2
<1>22. phase' # "blocks"
  BY DEF EmitPrintHelper
<1> QED
  BY <1>16, <1>17, <1>18, <1>19, <1>20, <1>21, <1>22 DEF SymInv

LEMMA NextSyms == TypeInv /\ TextInv /\ SymInv /\ PatchInv /\ [Next]_vars => SymInv'
<1> SUFFICES ASSUME TypeInv, TextInv, SymInv, PatchInv, [Next]_vars PROVE SymInv'
  OBVIOUS
<1>0. Len(code) \in Nat
  BY DEF TypeInv
<1>1. CASE EmitPlain \/ EmitBranch
  <2>1. UNCHANGED <<syms, done, mf, phase>>
    BY <1>1 DEF EmitPlain, EmitBranch
  <2>2. PICK m \in Insts, bytes \in Seq(Octets) : Emitted(m, bytes)
    BY <1>1, PlainIs, BranchIs
  <2>3. Len(code') = Len(code) + Len(bytes) /\ Len(bytes) \in Nat
    BY <2>2, EmittedLaid
  <2>4. Len(code) <= Len(code') /\ Len(code') \in Nat
    BY <1>0, <2>3
  <2> QED
    BY <2>1, <2>4, SymsStay
<1>2. CASE BeginBlock \/ WriteElf \/ UNCHANGED vars
  <2>1. UNCHANGED <<syms, done, mf, code>> /\ (phase' = "blocks" <=> phase = "blocks")
    BY <1>2 DEF BeginBlock, WriteElf, vars, emitter
  <2>2. Len(code) <= Len(code') /\ Len(code') \in Nat
    BY <1>0, <2>1
  <2> QED
    BY <2>1, <2>2, SymsStay
<1> QED
  BY <1>1, <1>2, BeginSyms, CallSyms, EndSyms, HelperSymsKept DEF Next

-------------------------------------------------------------------------------
\* The patches.

LEMMA OpsApart ==
  /\ Plain \cap Branches = {} /\ "CALL" \notin Plain /\ "CALL" \notin Branches
  /\ "PROLOGUE" \notin Branches /\ "FALLBACK" \notin Branches /\ "HELPER" \notin Branches /\ "RET" \notin Branches
<1>1. DOMAIN Arith = {"ADD", "SUB", "AND", "OR", "MUL"}
  BY DEF Arith
<1>2. DOMAIN Cc = {"SET_EQ", "SET_NEQ", "SET_LT", "SET_GEQ", "SET_LEQ", "SET_GT"}
  BY DEF Cc
<1> QED
  BY <1>1, <1>2 DEF Plain, Branches

LEMMA PrologueNoBranch == PrologueItem.op = "PROLOGUE"
<1>1. "PROLOGUE" \in Ops
  BY DEF Ops
<1> QED
  BY <1>1, NoRegTyped, MiTyped DEF PrologueItem

LEMMA EmittedLog ==
  ASSUME TypeInv, NEW m, NEW bytes, Emitted(m, bytes)
  PROVE  /\ Len(log) \in Nat /\ DOMAIN log = 1..Len(log) /\ DOMAIN log' = 1..(Len(log) + 1)
         /\ log'[Len(log) + 1] = Item(m, bytes) /\ \A i \in DOMAIN log : log'[i] = log[i]
         /\ Item(m, bytes).mi = m /\ Item(m, bytes).at = Len(code) /\ Item(m, bytes).to = Len(code) + Len(bytes)
         /\ Len(code) \in Nat /\ Len(bytes) \in Nat /\ Len(code') = Len(code) + Len(bytes)
<1>1. code \in Seq(Octets) /\ log \in Seq(Items) /\ Len(code) \in Nat /\ Len(log) \in Nat
  BY DEF TypeInv
<1>2. m \in Records /\ bytes \in Seq(Octets) /\ log' = Append(log, Item(m, bytes))
  BY DEF Emitted
<1> DEFINE it == Item(m, bytes)
<1>3. it \in Items /\ it.mi = m /\ it.at = Len(code) /\ it.to = Len(code) + Len(bytes)
  BY <1>1, <1>2, ItemTyped
<1> HIDE DEF it
<1>4. log' = Append(log, it)
  BY <1>2 DEF it
<1>5. /\ DOMAIN log = 1..Len(log) /\ DOMAIN log' = 1..(Len(log) + 1)
      /\ log'[Len(log) + 1] = it /\ \A i \in DOMAIN log : log'[i] = log[i]
  BY <1>1, <1>3, <1>4
<1>6. Len(bytes) \in Nat
  BY <1>2
<1> QED
  BY <1>1, <1>3, <1>5, <1>6, EmittedTyped DEF it

LEMMA BeginPatches == TypeInv /\ BeginFunction => PatchInv'
<1> SUFFICES ASSUME TypeInv, BeginFunction PROVE PatchInv'
  OBVIOUS
<1>1. PICK name \in Names, shape \in Shapes, bytes \in Seq(Octets) :
        /\ Emitted(PrologueItem, bytes) /\ Len(bytes) >= 1
        /\ shape \in Frames /\ fuel' = fuel - Cost(shape) /\ Cost(shape) <= fuel
        /\ mf' = [name |-> name, shape |-> shape, start |-> Len(code), items |-> Len(log)]
        /\ syms' = Append(syms, Sym(name, TEXT, Len(code)))
        /\ strtab' = strtab_add(strtab, name)
  BY BeginFunctionIs
<1>2. labels' = <<>> /\ patches' = <<>>
  BY DEF BeginFunction
<1>3. mf'.items = Len(log) /\ mf'.shape = shape
  BY <1>1
<1>4. /\ Len(log) \in Nat /\ DOMAIN log' = 1..(Len(log) + 1)
      /\ log'[Len(log) + 1].mi.op = "PROLOGUE"
  <2>1. log'[Len(log) + 1].mi = PrologueItem
    BY <1>1, EmittedLog
  <2> QED
    BY <1>1, <2>1, EmittedLog, PrologueNoBranch
<1>5. \A i \in DOMAIN log' : i > mf'.items => i = Len(log) + 1
  BY <1>3, <1>4
<1>6. \A i \in DOMAIN log' : ~(i > mf'.items /\ log'[i].mi.op \in Branches)
  BY <1>4, <1>5, OpsApart
<1>7. Len(labels') <= mf'.shape.nblocks
  <2>1. shape.nblocks \in Nat
    BY <1>1 DEF Frames
  <2>2. Len(labels') = 0
    BY <1>2
  <2> QED
    BY <1>3, <2>1, <2>2
<1>8. DOMAIN labels' = {} /\ DOMAIN patches' = {}
  BY <1>2
<1> QED
  BY <1>6, <1>7, <1>8 DEF PatchInv

LEMMA BlockPatches == TypeInv /\ PatchInv /\ BeginBlock => PatchInv'
<1> SUFFICES ASSUME TypeInv, PatchInv, BeginBlock PROVE PatchInv'
  OBVIOUS
<1>1. /\ phase = "blocks" /\ Len(labels) < mf.shape.nblocks /\ labels' = Append(labels, Len(code))
      /\ UNCHANGED <<code, patches, mf, phase, log>>
  BY DEF BeginBlock
<1>2. labels \in Seq(Nat) /\ Len(code) \in Nat /\ Len(labels) \in Nat
  BY DEF TypeInv
<1>3. Len(labels') = Len(labels) + 1 /\ labels'[Len(labels) + 1] = Len(code)
      /\ DOMAIN labels' = 1..(Len(labels) + 1) /\ \A k \in 1..Len(labels) : labels'[k] = labels[k]
  BY <1>1, <1>2
<1>4. ASSUME NEW k \in DOMAIN labels' PROVE labels'[k] <= Len(code')
  <2>1. CASE k \in 1..Len(labels)
    BY <1>1, <1>2, <1>3, <2>1 DEF PatchInv
  <2>2. CASE k = Len(labels) + 1
    BY <1>1, <1>2, <1>3, <2>2
  <2> QED
    BY <1>2, <1>3, <2>1, <2>2
<1>5. Len(labels') <= mf'.shape.nblocks
  BY <1>1, <1>2, <1>3, MfTyped
<1> QED
  BY <1>1, <1>4, <1>5 DEF PatchInv

LEMMA OtherPatches ==
  ASSUME TypeInv, PatchInv, phase = "blocks", UNCHANGED <<labels, patches, mf, phase>>,
         NEW m, NEW bytes, Emitted(m, bytes), m.op \notin Branches
  PROVE  PatchInv'
<1>1. /\ Len(log) \in Nat /\ DOMAIN log = 1..Len(log) /\ DOMAIN log' = 1..(Len(log) + 1)
      /\ log'[Len(log) + 1].mi = m /\ \A i \in DOMAIN log : log'[i] = log[i]
      /\ Len(code) \in Nat /\ Len(bytes) \in Nat /\ Len(code') = Len(code) + Len(bytes)
  BY EmittedLog
<1>2. DOMAIN log \subseteq DOMAIN log' /\ \A i \in DOMAIN log' : i \in DOMAIN log \/ i = Len(log) + 1
  BY <1>1
<1>3. ASSUME NEW k \in DOMAIN labels' PROVE labels'[k] <= Len(code')
  <2>1. labels[k] <= Len(code) /\ labels[k] \in Nat
    BY <1>3 DEF PatchInv, TypeInv
  <2> QED
    BY <1>1, <2>1
<1>4. ASSUME NEW j \in DOMAIN patches'
      PROVE  /\ patches'[j].target < mf'.shape.nblocks
             /\ \E i \in DOMAIN log' : i > mf'.items /\ For(patches'[j], log'[i])
  <2>1. patches[j].target < mf.shape.nblocks
    BY <1>4 DEF PatchInv
  <2>2. PICK i \in DOMAIN log : i > mf.items /\ For(patches[j], log[i])
    BY <1>4 DEF PatchInv
  <2>3. i \in DOMAIN log' /\ log'[i] = log[i]
    BY <1>1, <1>2
  <2> QED
    BY <2>1, <2>2, <2>3
<1>5. ASSUME NEW i \in DOMAIN log', i > mf'.items, log'[i].mi.op \in Branches
      PROVE  \E j \in DOMAIN patches' : For(patches'[j], log'[i])
  <2>1. i \in DOMAIN log /\ log'[i] = log[i]
    BY <1>1, <1>2, <1>5
  <2>2. PICK j \in DOMAIN patches : For(patches[j], log[i])
    BY <1>5, <2>1 DEF PatchInv
  <2> QED
    BY <2>1, <2>2
<1>6. Len(labels') <= mf'.shape.nblocks
  BY DEF PatchInv
<1> QED
  BY <1>3, <1>4, <1>5, <1>6 DEF PatchInv

LEMMA BranchPatches == TypeInv /\ TextInv /\ PatchInv /\ EmitBranch => PatchInv'
<1> SUFFICES ASSUME TypeInv, TextInv, PatchInv, EmitBranch PROVE PatchInv'
  OBVIOUS
<1>1. PICK m \in Insts, bytes \in Seq(Octets) :
        /\ m.op \in Branches /\ m.bb < mf.shape.nblocks /\ m.bb \in Nat
        /\ Spend(m) /\ Emitted(m, bytes) /\ Len(bytes) >= 5
        /\ patches' = Append(patches, [at |-> Len(code) + Len(bytes) - 4, target |-> m.bb])
  BY BranchIs
<1>2. phase = "blocks" /\ UNCHANGED <<labels, mf, phase>>
  BY DEF EmitBranch
<1> DEFINE p == [at |-> Len(code) + Len(bytes) - 4, target |-> m.bb]  it == log'[Len(log) + 1]
<1>3. /\ Len(log) \in Nat /\ DOMAIN log = 1..Len(log) /\ DOMAIN log' = 1..(Len(log) + 1)
      /\ \A i \in DOMAIN log : log'[i] = log[i]
      /\ it.mi = m /\ it.at = Len(code) /\ it.to = Len(code) + Len(bytes)
      /\ Len(code) \in Nat /\ Len(bytes) \in Nat /\ Len(code') = Len(code) + Len(bytes)
  BY <1>1, EmittedLog
<1>4. p.at = Len(code) + Len(bytes) - 4 /\ p.target = m.bb /\ patches' = Append(patches, p)
  BY <1>1
<1> HIDE DEF p, it
<1>5. For(p, it)
  <2>1. it.at + 4 <= it.to /\ p.at = it.to - 4
    BY <1>1, <1>3, <1>4
  <2> QED
    BY <1>1, <1>3, <1>4, <2>1 DEF For
<1>6. /\ Len(patches) \in Nat /\ DOMAIN patches' = 1..(Len(patches) + 1) /\ DOMAIN patches = 1..Len(patches)
      /\ patches'[Len(patches) + 1] = p /\ \A j \in DOMAIN patches : patches'[j] = patches[j]
  BY <1>4 DEF TypeInv
<1>7. /\ DOMAIN log \subseteq DOMAIN log' /\ \A i \in DOMAIN log' : i \in DOMAIN log \/ i = Len(log) + 1
      /\ Len(log) + 1 \in DOMAIN log'
  BY <1>3
<1>8. /\ DOMAIN patches \subseteq DOMAIN patches' /\ Len(patches) + 1 \in DOMAIN patches'
      /\ \A j \in DOMAIN patches' : j \in DOMAIN patches \/ j = Len(patches) + 1
  BY <1>6
<1>9. ASSUME NEW k \in DOMAIN labels' PROVE labels'[k] <= Len(code')
  <2>1. labels[k] <= Len(code) /\ labels[k] \in Nat
    BY <1>2, <1>9 DEF PatchInv, TypeInv
  <2> QED
    BY <1>2, <1>3, <2>1
<1>10. ASSUME NEW j \in DOMAIN patches'
       PROVE  /\ patches'[j].target < mf'.shape.nblocks
              /\ \E i \in DOMAIN log' : i > mf'.items /\ For(patches'[j], log'[i])
  <2>1. CASE j \in DOMAIN patches
    <3>1. patches[j].target < mf.shape.nblocks
      BY <1>2, <2>1 DEF PatchInv
    <3>2. PICK i \in DOMAIN log : i > mf.items /\ For(patches[j], log[i])
      BY <1>2, <2>1 DEF PatchInv
    <3>3. i \in DOMAIN log' /\ log'[i] = log[i] /\ patches'[j] = patches[j]
      BY <1>3, <1>6, <1>7, <2>1
    <3> QED
      BY <1>2, <3>1, <3>2, <3>3
  <2>2. CASE j = Len(patches) + 1
    <3>1. patches'[j].target < mf'.shape.nblocks
      BY <1>1, <1>2, <1>4, <1>6, <2>2
    <3>2. Len(log) + 1 > mf'.items
      BY <1>2, <1>3, MfTyped DEF TextInv
    <3>3. For(patches'[j], log'[Len(log) + 1])
      BY <1>5, <1>6, <2>2 DEF it
    <3> QED
      BY <1>7, <3>1, <3>2, <3>3
  <2> QED
    BY <1>8, <2>1, <2>2
<1>11. ASSUME NEW i \in DOMAIN log', i > mf'.items, log'[i].mi.op \in Branches
       PROVE  \E j \in DOMAIN patches' : For(patches'[j], log'[i])
  <2>1. CASE i \in DOMAIN log
    <3>1. PICK j \in DOMAIN patches : For(patches[j], log[i])
      BY <1>2, <1>3, <1>11, <2>1 DEF PatchInv
    <3>2. j \in DOMAIN patches' /\ patches'[j] = patches[j] /\ log'[i] = log[i]
      BY <1>3, <1>6, <1>8, <2>1
    <3> QED
      BY <3>1, <3>2
  <2>2. CASE i = Len(log) + 1
    <3>1. For(patches'[Len(patches) + 1], log'[i])
      BY <1>5, <1>6, <2>2 DEF it
    <3> QED
      BY <1>8, <3>1
  <2> QED
    BY <1>7, <2>1, <2>2
<1>12. Len(labels') <= mf'.shape.nblocks
  BY <1>2 DEF PatchInv
<1> QED
  BY <1>9, <1>10, <1>11, <1>12 DEF PatchInv

LEMMA NextPatches == TypeInv /\ TextInv /\ PatchInv /\ [Next]_vars => PatchInv'
<1> SUFFICES ASSUME TypeInv, TextInv, PatchInv, [Next]_vars PROVE PatchInv'
  OBVIOUS
<1>1. CASE EmitPlain
  <2>1. PICK m \in Insts, bytes \in Seq(Octets) : m.op \in Plain /\ Emitted(m, bytes)
    BY <1>1, PlainIs
  <2>2. phase = "blocks" /\ UNCHANGED <<labels, patches, mf, phase>>
    BY <1>1 DEF EmitPlain
  <2>3. m.op \notin Branches
    BY <2>1, OpsApart
  <2> QED
    BY <2>1, <2>2, <2>3, OtherPatches
<1>2. CASE EmitCall
  <2>1. PICK m \in Insts, bytes \in Seq(Octets) : m.op = "CALL" /\ Emitted(m, bytes)
    BY <1>2, CallIs
  <2>2. phase = "blocks" /\ UNCHANGED <<labels, patches, mf, phase>>
    BY <1>2 DEF EmitCall
  <2>3. m.op \notin Branches
    BY <2>1, OpsApart
  <2> QED
    BY <2>1, <2>2, <2>3, OtherPatches
<1>3. CASE EndFunction \/ EmitPrintHelper \/ WriteElf
  <2>1. phase' # "blocks"
    BY <1>3 DEF EndFunction, EmitPrintHelper, WriteElf
  <2> QED
    BY <2>1 DEF PatchInv
<1>4. CASE UNCHANGED vars
  BY <1>4 DEF vars, emitter, PatchInv
<1> QED
  BY <1>1, <1>2, <1>3, <1>4, BeginPatches, BlockPatches, BranchPatches DEF Next

-------------------------------------------------------------------------------
\* What a step leaves of the text.

\* A byte is of one item at most.
LEMMA OneItem ==
  ASSUME TypeInv, TextInv, NEW i \in DOMAIN log, NEW j \in DOMAIN log, NEW k \in Nat,
         log[i].at < k, k <= log[i].to, log[j].at < k, k <= log[j].to
  PROVE  i = j
<1>1. DOMAIN log = 1..Len(log) /\ Len(log) \in Nat
  BY DEF TypeInv
<1>2. log[i].at \in Nat /\ log[i].to \in Nat /\ log[j].at \in Nat /\ log[j].to \in Nat
  BY ItemTypes
<1>3. (i < j => log[i].to <= log[j].at) /\ (j < i => log[j].to <= log[i].at)
  BY DEF TextInv, Laid
<1>4. ~(i < j) /\ ~(j < i)
  BY <1>2, <1>3
<1> QED
  BY <1>1, <1>4

\* What a step leaves of the text: all but the fields of the branches at hand.
Kept ==
  /\ code' \in Seq(Octets) /\ Len(code') \in Nat /\ Len(code) \in Nat /\ Len(code) <= Len(code')
  /\ \A i \in DOMAIN log : i \in DOMAIN log' /\ log'[i] = log[i]
  /\ \A i \in DOMAIN log :
       \/ phase = "blocks" /\ i > mf.items /\ log[i].mi.op \in Branches
       \/ \A k \in (log[i].at + 1)..log[i].to : code'[k] = code[k]

\* Where the first bytes of the text stay, so do the items.
LEMMA KeptWhole ==
  ASSUME TypeInv, TextInv, code' \in Seq(Octets), Len(code) <= Len(code'),
         \A i \in DOMAIN log : i \in DOMAIN log' /\ log'[i] = log[i],
         \A k \in 1..Len(code) : code'[k] = code[k]
  PROVE  Kept
<1>1. Len(code) \in Nat /\ Len(code') \in Nat
  BY DEF TypeInv
<1>2. ASSUME NEW i \in DOMAIN log, NEW k \in (log[i].at + 1)..log[i].to PROVE code'[k] = code[k]
  <2>1. log[i].at \in Nat /\ log[i].to \in Nat /\ log[i].to <= Len(code)
    BY ItemTypes DEF TextInv, Laid
  <2>2. k \in 1..Len(code)
    BY <1>1, <2>1
  <2> QED
    BY <2>2
<1> QED
  BY <1>1, <1>2 DEF Kept

LEMMA EmittedKept ==
  ASSUME TypeInv, TextInv, NEW m, NEW bytes, Emitted(m, bytes)
  PROVE  Kept
<1>1. /\ Len(log) \in Nat /\ DOMAIN log = 1..Len(log) /\ DOMAIN log' = 1..(Len(log) + 1)
      /\ \A i \in DOMAIN log : log'[i] = log[i]
      /\ Len(code) \in Nat /\ Len(bytes) \in Nat /\ Len(code') = Len(code) + Len(bytes)
  BY EmittedLog
<1>2. code \in Seq(Octets) /\ bytes \in Seq(Octets) /\ code' = code \o bytes
  BY DEF TypeInv, Emitted
<1>3. \A k \in 1..Len(code) : code'[k] = code[k]
  BY <1>2
<1>4. code' \in Seq(Octets)
  BY EmittedTyped
<1>5. Len(code) <= Len(code')
  BY <1>1
<1>6. \A i \in DOMAIN log : i \in DOMAIN log' /\ log'[i] = log[i]
  BY <1>1
<1> QED
  BY <1>3, <1>4, <1>5, <1>6, KeptWhole

\* The bytes of the finished function: only fields of its branches differ.
LEMMA EndBytes ==
  ASSUME TypeInv, TextInv, PatchInv, EndFunction
  PROVE  /\ Kept
         /\ \A i \in DOMAIN log : i > mf.items /\ log[i].mi.op \in Branches =>
              /\ log[i].at + 4 <= log[i].to /\ log[i].mi.bb < Len(labels)
              /\ \A q \in 1..4 : code'[(log[i].to - 4) + q] = push32le(labels[log[i].mi.bb + 1] - log[i].to)[q]
<1>1. PICK bytes \in Seq(Octets) :
        code' = Patched(code \o bytes, patches, labels) /\ log' = Append(log, Item(FallbackItem, bytes))
  BY EndIs
<1> DEFINE c == code \o bytes  n == Len(code)
<1>2. code \in Seq(Octets) /\ n \in Nat /\ Len(bytes) \in Nat /\ log \in Seq(Items) /\ patches \in Seq(Fields)
      /\ labels \in Seq(Nat)
  BY DEF TypeInv
<1>3. /\ code' \in Seq(Octets) /\ Len(code') = Len(c) /\ Len(code') = n + Len(bytes)
      /\ c \in Seq(Octets) /\ Len(c) = n + Len(bytes)
  BY <1>1, EndCode
<1>4. \A k \in 1..n : c[k] = code[k]
  BY <1>2
<1>5. code' = Patched(c, patches, labels)
  BY <1>1
<1> HIDE DEF c, n
<1>6. FilledIn(code', c, patches, labels)
  <2>1. FilledIn(Patched(c, patches, labels), c, patches, labels)
    BY <1>2, <1>3, PatchesFit, PatchedIs
  <2> QED
    BY <1>5, <2>1
<1>7. phase = "blocks" /\ Len(labels) = mf.shape.nblocks
  BY DEF EndFunction
<1>8. n <= Len(code') /\ Len(code') \in Nat
  BY <1>2, <1>3
<1>9. ASSUME NEW i \in DOMAIN log PROVE i \in DOMAIN log' /\ log'[i] = log[i]
  <2> DEFINE it == Item(FallbackItem, bytes)
  <2>1. it \in Items
    BY <1>2, FallbackTyped, ItemTyped
  <2>2. log' = Append(log, it)
    BY <1>1
  <2> HIDE DEF it
  <2> QED
    BY <1>2, <2>1, <2>2
<1>10. ASSUME NEW i \in DOMAIN log, NEW k \in (log[i].at + 1)..log[i].to
       PROVE  k \in 1..Len(c) /\ k \in 1..n /\ k \in Nat /\ log[i].at < k /\ k <= log[i].to
              /\ log[i].at \in Nat /\ log[i].to \in Nat
  <2>1. log[i].at \in Nat /\ log[i].to \in Nat /\ log[i].to <= n
    BY ItemTypes, SMTT(30) DEF TextInv, Laid, n
  <2> QED
    BY <1>2, <1>3, <2>1, SMTT(30)
<1>11. ASSUME NEW i \in DOMAIN log, NEW k \in (log[i].at + 1)..log[i].to,
              NEW j \in DOMAIN patches, Hits(patches[j], k)
       PROVE  i > mf.items /\ For(patches[j], log[i])
  <2>1. PICK h \in DOMAIN log : h > mf.items /\ For(patches[j], log[h])
    BY <1>7 DEF PatchInv
  <2>2. log[h].at \in Nat /\ log[h].to \in Nat
    BY ItemTypes
  <2>3. log[h].at + 4 <= log[h].to /\ patches[j].at = log[h].to - 4
    BY <2>1 DEF For
  <2>4. k \in Nat /\ log[i].at < k /\ k <= log[i].to
    BY <1>10
  <2>5. k - 1 \in (log[h].to - 4)..((log[h].to - 4) + 3)
    BY <1>11, <2>3 DEF Hits
  <2>6. log[h].at < k /\ k <= log[h].to
    BY <2>2, <2>3, <2>4, <2>5
  <2>7. i = h
    BY <2>4, <2>6, OneItem
  <2> QED
    BY <2>1, <2>7
<1>12. ASSUME NEW i \in DOMAIN log, ~(i > mf.items /\ log[i].mi.op \in Branches),
              NEW k \in (log[i].at + 1)..log[i].to
       PROVE  code'[k] = code[k]
  <2>1. \A j \in DOMAIN patches : ~Hits(patches[j], k)
    BY <1>11, <1>12 DEF For
  <2>2. k \in 1..Len(c) /\ k \in 1..n
    BY <1>10
  <2> QED
    BY <1>4, <1>6, <2>1, <2>2 DEF FilledIn
<1>13. Kept
  BY <1>3, <1>2, <1>7, <1>8, <1>9, <1>12 DEF Kept, n
<1>14. ASSUME NEW i \in DOMAIN log, i > mf.items, log[i].mi.op \in Branches
       PROVE  /\ log[i].at + 4 <= log[i].to /\ log[i].mi.bb < Len(labels)
              /\ \A q \in 1..4 : code'[(log[i].to - 4) + q] = push32le(labels[log[i].mi.bb + 1] - log[i].to)[q]
  <2>1. PICK j0 \in DOMAIN patches : For(patches[j0], log[i])
    BY <1>7, <1>14 DEF PatchInv
  <2> DEFINE to == log[i].to  bb == log[i].mi.bb
  <2>2. log[i].at \in Nat /\ to \in Nat
    BY ItemTypes
  <2>3. log[i].at + 4 <= to /\ patches[j0].at = to - 4 /\ patches[j0].target = bb
    BY <2>1 DEF For
  <2>4. bb < Len(labels)
    BY <1>7, <2>3 DEF PatchInv
  <2>5. ASSUME NEW q \in 1..4 PROVE code'[(to - 4) + q] = push32le(labels[bb + 1] - to)[q]
    <3> DEFINE k == (to - 4) + q
    <3>1. k \in (log[i].at + 1)..to /\ k - 1 \in (to - 4)..((to - 4) + 3)
      <4> DEFINE a == log[i].at
      <4>1. a \in Nat /\ to \in Nat /\ a + 4 <= to
        BY <2>2, <2>3
      <4> HIDE DEF a, to
      <4>2. k \in (a + 1)..to /\ k - 1 \in (to - 4)..((to - 4) + 3)
        BY <4>1
      <4> QED
        BY <4>2 DEF a
    <3> HIDE DEF k, to, bb
    <3>2. k \in (log[i].at + 1)..log[i].to
      BY <3>1 DEF to
    <3>3. k \in 1..Len(c)
      BY <1>10, <3>2
    <3>4. PICK j \in DOMAIN patches :
            /\ Hits(patches[j], k)
            /\ code'[k] = push32le(Displacement(labels[patches[j].target + 1], patches[j].at))[k - patches[j].at]
      <4>1. Hits(patches[j0], k)
        BY <2>3, <3>1 DEF Hits
      <4> QED
        BY <1>6, <3>3, <4>1 DEF FilledIn
    <3>5. For(patches[j], log[i])
      BY <1>11, <3>2, <3>4
    <3>6. patches[j].at = to - 4 /\ patches[j].target = bb
      BY <3>5 DEF For, to, bb
    <3> DEFINE L == labels[bb + 1]
    <3>7. L \in Nat
      <4>1. bb \in Nat
        <5>1. log[i].mi \in Records
          BY ItemTypes
        <5> QED
          BY <5>1 DEF Records, bb
      <4>2. bb + 1 \in DOMAIN labels
        BY <1>2, <2>4, <4>1
      <4> QED
        BY <1>2, <4>2
    <3> HIDE DEF L
    <3>8. Displacement(L, to - 4) = L - to
      BY <2>2, <3>7 DEF Displacement
    <3>9. k - (to - 4) = q
      BY <2>2 DEF k
    <3>10. code'[k] = push32le(L - to)[q]
      <4>1. code'[k] = push32le(Displacement(L, to - 4))[k - (to - 4)]
        BY <3>4, <3>6 DEF L
      <4> QED
        BY <3>8, <3>9, <4>1
    <3> QED
      BY <3>10 DEF k, L
  <2> QED
    BY <2>3, <2>4, <2>5
<1> QED
  BY <1>13, <1>14

LEMMA HelperKept == TypeInv /\ TextInv /\ EmitPrintHelper => Kept
<1> SUFFICES ASSUME TypeInv, TextInv, EmitPrintHelper PROVE Kept
  OBVIOUS
<1>1. PICK a, b, ro, lib \in Nat : HelperFacts(a, b, ro, lib)
  BY HelperStep
<1>2. /\ a = Len(code) /\ b >= a + 7 /\ code' \in Seq(Octets) /\ Len(code') >= b + 5
      /\ \A k \in 1..a : code'[k] = code[k]
      /\ log' \in Seq(Items) /\ Len(log') = Len(log) + 3 /\ \A i \in 1..Len(log) : log'[i] = log[i]
  BY <1>1, SMTT(30) DEF HelperFacts
<1>3. Len(code) <= Len(code')
  <2>1. Len(code') \in Nat
    BY <1>2
  <2> QED
    BY <1>2, <2>1
<1>4. \A i \in DOMAIN log : i \in DOMAIN log' /\ log'[i] = log[i]
  <2>1. DOMAIN log = 1..Len(log) /\ Len(log) \in Nat
    BY DEF TypeInv
  <2>2. DOMAIN log' = 1..(Len(log) + 3)
    BY <1>2
  <2> QED
    BY <1>2, <2>1, <2>2
<1> QED
  BY <1>2, <1>3, <1>4, KeptWhole

LEMMA NextKept == TypeInv /\ TextInv /\ PatchInv /\ [Next]_vars => Kept
<1> SUFFICES ASSUME TypeInv, TextInv, PatchInv, [Next]_vars PROVE Kept
  OBVIOUS
<1>1. CASE BeginFunction \/ EmitPlain \/ EmitBranch \/ EmitCall
  <2>1. \E m, bytes : Emitted(m, bytes)
    BY <1>1, BeginFunctionIs, PlainIs, BranchIs, CallIs
  <2> QED
    BY <2>1, EmittedKept
<1>2. CASE BeginBlock \/ WriteElf \/ UNCHANGED vars
  <2>1. UNCHANGED <<code, log>>
    BY <1>2 DEF BeginBlock, WriteElf, vars, emitter
  <2>2. code \in Seq(Octets) /\ Len(code) \in Nat
    BY DEF TypeInv
  <2> QED
    BY <2>1, <2>2 DEF Kept
<1> QED
  BY <1>1, <1>2, EndBytes, HelperKept DEF Next

-------------------------------------------------------------------------------
\* Branches land.

\* The four bytes decide.
LEMMA SameWord ==
  ASSUME NEW c, NEW d, NEW p \in Nat, \A k \in (p + 1)..(p + 4) : d[k] = c[k]
  PROVE  Word(d, p) = Word(c, p)
<1>1. d[p + 1] = c[p + 1] /\ d[p + 2] = c[p + 2] /\ d[p + 3] = c[p + 3] /\ d[p + 4] = c[p + 4]
  OBVIOUS
<1>2. p + 1 + 1 = p + 2 /\ p + 2 + 1 = p + 3 /\ p + 3 + 1 = p + 4
  OBVIOUS
<1>3. Byte(d, p) = Byte(c, p) /\ Byte(d, p + 1) = Byte(c, p + 1) /\ Byte(d, p + 2) = Byte(c, p + 2)
      /\ Byte(d, p + 3) = Byte(c, p + 3)
  BY <1>1, <1>2 DEF Byte
<1> QED
  BY <1>3 DEF Word

\* A branch whose bytes stay goes on landing.
LEMMA LandedKept ==
  ASSUME NEW it \in Items, NEW c, NEW d, NEW ls, Len(c) \in Nat, Len(d) \in Nat, Len(c) <= Len(d),
         \A k \in (it.at + 1)..it.to : d[k] = c[k], Landed(it, c, ls)
  PROVE  Landed(it, d, ls)
<1> SUFFICES ASSUME it.mi.op \in Branches
             PROVE  /\ it.at + 4 <= it.to /\ it.mi.bb < Len(ls)
                    /\ Len(d) <= 2147483647 => Word(d, it.to - 4) = ls[it.mi.bb + 1] - it.to
  BY DEF Landed
<1> DEFINE at == it.at  to == it.to
<1>1. at \in Nat /\ to \in Nat
  BY DEF Items
<1>2. it.at + 4 <= it.to /\ it.mi.bb < Len(ls) /\ (Len(c) <= 2147483647 => Word(c, to - 4) = ls[it.mi.bb + 1] - to)
  BY DEF Landed
<1>3. Word(d, to - 4) = Word(c, to - 4)
  <2>1. at + 4 <= to /\ \A k \in (at + 1)..to : d[k] = c[k]
    BY <1>2
  <2> HIDE DEF at, to
  <2> DEFINE p == to - 4
  <2>2. p \in Nat /\ \A k \in (p + 1)..(p + 4) : k \in (at + 1)..to
    BY <1>1, <2>1
  <2>3. \A k \in (p + 1)..(p + 4) : d[k] = c[k]
    BY <2>1, <2>2
  <2> HIDE DEF p
  <2>4. Word(d, p) = Word(c, p)
    BY <2>2, <2>3, SameWord
  <2> QED
    BY <2>4 DEF p
<1>4. Len(d) <= 2147483647 => Len(c) <= 2147483647
  OBVIOUS
<1> QED
  BY <1>2, <1>3, <1>4

LEMMA InitLand == Init => PatchInv /\ LandInv
<1> SUFFICES ASSUME Init PROVE PatchInv /\ LandInv
  OBVIOUS
<1>1. phase # "blocks"
  BY DEF Init
<1>2. done = <<>>
  BY DEF Init
<1>3. DOMAIN done = {}
  BY <1>2
<1> QED
  BY <1>1, <1>3 DEF PatchInv, LandInv, Finished

\* The branches of the functions finished before.
LEMMA OldLand ==
  ASSUME TypeInv, TextInv, LandInv, Kept,
         \A f \in Finished : f \in Finished' /\ done'[f] = done[f]
  PROVE  \A f \in Finished : \A i \in done[f].first..done[f].last : Landed(log'[i], code', done'[f].labels)
<1> SUFFICES ASSUME NEW f \in Finished, NEW i \in done[f].first..done[f].last
             PROVE  Landed(log'[i], code', done'[f].labels)
  OBVIOUS
<1>1. done[f].first \in Nat /\ done[f].last \in Nat
  BY DoneTyped
<1>2. done[f].first >= 1 /\ done[f].last <= Len(log) /\ (phase = "blocks" => done[f].last <= mf.items)
  BY DEF TextInv
<1>3. i \in DOMAIN log /\ (phase = "blocks" => ~(i > mf.items))
  <2>1. DOMAIN log = 1..Len(log) /\ Len(log) \in Nat
    BY DEF TypeInv
  <2>2. mf.items \in Nat
    BY MfTyped
  <2> QED
    BY <1>1, <1>2, <2>1, <2>2
<1>4. log'[i] = log[i] /\ \A k \in (log[i].at + 1)..log[i].to : code'[k] = code[k]
  BY <1>3 DEF Kept
<1>5. Landed(log[i], code, done[f].labels)
  BY DEF LandInv
<1>6. log[i] \in Items
  BY <1>3, ItemTypes
<1>7. Len(code) \in Nat /\ Len(code') \in Nat /\ Len(code) <= Len(code')
  BY DEF Kept
<1>8. Landed(log[i], code', done[f].labels)
  BY <1>4, <1>5, <1>6, <1>7, LandedKept
<1> QED
  BY <1>4, <1>8

LEMMA SameLand ==
  ASSUME TypeInv, TextInv, LandInv, Kept, UNCHANGED done
  PROVE  LandInv'
<1>1. Finished' = Finished
  BY DEF Finished
<1>2. \A f \in Finished : \A i \in done[f].first..done[f].last : Landed(log'[i], code', done'[f].labels)
  BY <1>1, OldLand
<1> QED
  BY <1>1, <1>2 DEF LandInv

LEMMA MoreLand ==
  ASSUME TypeInv, TextInv, LandInv, Kept, NEW e \in Ends, done' = Append(done, e),
         \A i \in e.first..e.last : Landed(log'[i], code', e.labels)
  PROVE  LandInv'
<1>1. /\ Len(done) \in Nat /\ Finished = 1..Len(done) /\ Finished' = 1..(Len(done) + 1)
      /\ done'[Len(done) + 1] = e /\ \A f \in Finished : done'[f] = done[f]
  BY DoneMore
<1>2. \A f \in Finished : f \in Finished' /\ done'[f] = done[f]
  BY <1>1
<1>3. \A f \in Finished : \A i \in done[f].first..done[f].last : Landed(log'[i], code', done'[f].labels)
  BY <1>2, OldLand
<1>4. ASSUME NEW f \in Finished', NEW i \in done'[f].first..done'[f].last
      PROVE  Landed(log'[i], code', done'[f].labels)
  <2>1. f \in Finished \/ f = Len(done) + 1
    BY <1>1
  <2>2. CASE f \in Finished
    BY <1>2, <1>3, <2>2
  <2>3. CASE f = Len(done) + 1
    BY <1>1, <2>3
  <2> QED
    BY <2>1, <2>2, <2>3
<1> QED
  BY <1>4 DEF LandInv

LEMMA EndLand == TypeInv /\ TextInv /\ PatchInv /\ LandInv /\ EndFunction => LandInv'
<1> SUFFICES ASSUME TypeInv, TextInv, PatchInv, LandInv, EndFunction PROVE LandInv'
  OBVIOUS
<1> DEFINE e == done'[Len(done) + 1]
<1>1. /\ done' = Append(done, e) /\ e.labels = labels /\ e.first = mf.items + 1 /\ e.last = Len(log')
      /\ phase = "blocks"
  BY EndRecord
<1>2. e \in Ends
  <2>1. TypeInv'
    BY EndTypes
  <2>2. done' \in Seq(Ends)
    BY <2>1 DEF TypeInv
  <2>3. Len(done) + 1 \in 1..Len(done')
    <3>1. done \in Seq(Ends)
      BY DEF TypeInv
    <3> HIDE DEF e
    <3>2. Len(done') = Len(done) + 1 /\ Len(done) \in Nat
      BY <1>1, <3>1
    <3> QED
      BY <3>2
  <2> QED
    BY <2>2, <2>3
<1> HIDE DEF e
<1>3. Kept
  BY EndBytes
<1>4. PICK bytes \in Seq(Octets) :
        code' = Patched(code \o bytes, patches, labels) /\ log' = Append(log, Item(FallbackItem, bytes))
  BY EndIs
<1>5. ASSUME NEW i \in e.first..e.last PROVE Landed(log'[i], code', labels)
  <2> DEFINE it == Item(FallbackItem, bytes)
  <2>1. it.mi = FallbackItem
    BY DEF Item
  <2>2. log' = Append(log, it) /\ log \in Seq(Items)
    BY <1>4 DEF TypeInv
  <2> HIDE DEF it
  <2>3. Len(log') = Len(log) + 1 /\ log'[Len(log) + 1] = it /\ Len(log) \in Nat /\ DOMAIN log = 1..Len(log)
    BY <2>2
  <2>4. (i \in DOMAIN log /\ i > mf.items) \/ i = Len(log) + 1
    <3>1. mf.items \in Nat
      BY MfTyped
    <3> QED
      BY <1>1, <2>3, <3>1
  <2>5. CASE i = Len(log) + 1
    <3>1. log'[i].mi.op \notin Branches
      BY <2>1, <2>3, <2>5, OpsApart, FallbackTyped
    <3> QED
      BY <3>1 DEF Landed
  <2>6. CASE i \in DOMAIN log /\ i > mf.items
    <3>1. log'[i] = log[i]
      BY <1>3, <2>6 DEF Kept
    <3> SUFFICES ASSUME log[i].mi.op \in Branches PROVE Landed(log[i], code', labels)
      BY <3>1 DEF Landed
    <3> DEFINE to == log[i].to  bb == log[i].mi.bb
    <3>2. /\ log[i].at + 4 <= to /\ bb < Len(labels)
          /\ \A q \in 1..4 : code'[(to - 4) + q] = push32le(labels[bb + 1] - to)[q]
      BY <2>6, EndBytes
    <3>3. log[i].at \in Nat /\ to \in Nat /\ bb \in Nat
      <4>1. log[i].mi \in Records /\ log[i].at \in Nat /\ log[i].to \in Nat
        BY <2>6, ItemTypes
      <4> QED
        BY <4>1 DEF Records
    <3>4. to <= Len(code) /\ Len(code) \in Nat /\ Len(code') \in Nat /\ Len(code) <= Len(code')
      BY <1>3, <2>6 DEF TextInv, Laid, Kept
    <3>5. labels[bb + 1] \in Nat /\ labels[bb + 1] <= Len(code)
      <4>1. labels \in Seq(Nat)
        BY DEF TypeInv
      <4> HIDE DEF bb
      <4>2. bb + 1 \in DOMAIN labels
        BY <3>2, <3>3, <4>1
      <4>3. labels[bb + 1] \in Nat
        BY <4>1, <4>2
      <4> QED
        BY <1>1, <4>2, <4>3 DEF PatchInv
    <3> DEFINE n == labels[bb + 1] - to
    <3>6. Len(code') <= 2147483647 => n \in Int /\ n >= -2147483648 /\ n < 2147483648
      <4> DEFINE L == labels[bb + 1]  a == Len(code)  b == Len(code')
      <4>1. L \in Nat /\ L <= a /\ to \in Nat /\ to <= a /\ a \in Nat /\ b \in Nat /\ a <= b /\ n = L - to
        BY <3>3, <3>4, <3>5
      <4> HIDE DEF L, a, b, n, to
      <4>2. b <= 2147483647 => n \in Int /\ n >= -2147483648 /\ n < 2147483648
        BY <4>1
      <4> QED
        BY <4>2 DEF b
    <3>7. to - 4 \in Nat
      <4> HIDE DEF to
      <4> QED
        BY <3>2, <3>3
    <3>8. \A q \in 1..4 : code'[(to - 4) + q] = push32le(n)[q]
      BY <3>2
    <3>9. Len(code') <= 2147483647 => Word(code', to - 4) = n
      <4> HIDE DEF n, to
      <4> DEFINE p == to - 4
      <4>1. p \in Nat /\ \A q \in 1..4 : code'[p + q] = push32le(n)[q]
        BY <3>7, <3>8
      <4> HIDE DEF p
      <4>2. Len(code') <= 2147483647 => Word(code', p) = n
        BY <3>6, <4>1, WordBack, SMTT(60)
      <4> QED
        BY <4>2 DEF p
    <3> QED
      BY <3>2, <3>9 DEF Landed
  <2> QED
    BY <2>4, <2>5, <2>6
<1> QED
  BY <1>1, <1>2, <1>3, <1>5, MoreLand

LEMMA HelperLand == TypeInv /\ TextInv /\ LandInv /\ EmitPrintHelper => LandInv'
<1> SUFFICES ASSUME TypeInv, TextInv, LandInv, EmitPrintHelper PROVE LandInv'
  BY SMTT(30)
<1>1. PICK a, b, ro, lib \in Nat : HelperFacts(a, b, ro, lib)
  BY HelperStep, SMTT(30)
<1>3. Kept
  BY HelperKept, SMTT(30)
<1> DEFINE e == [name |-> HelperName, shape |-> NoFunc.shape, start |-> a, end |-> Len(code'),
                 labels |-> <<>>, first |-> Len(log) + 1, last |-> Len(log'), alone |-> FALSE]
           n == Len(log)
<1>2. e \in Ends /\ done' = Append(done, e)
  BY <1>1, SMTT(30) DEF HelperFacts
<1>4. e.first = n + 1 /\ e.last = Len(log')
  BY SMTT(30)
<1> HIDE DEF e
<1>5. /\ Len(log') = n + 3 /\ log'[n + 1] = HelperItem("HELPER", a, b) /\ log'[n + 2] = CallItem(b, b + 5)
      /\ log'[n + 3] = HelperItem("RET", b + 5, Len(code'))
  BY <1>1, SMTT(30) DEF HelperFacts
<1>6. ASSUME NEW i \in e.first..e.last PROVE Landed(log'[i], code', e.labels)
  <2>1. n \in Nat
    BY SMTT(30) DEF TypeInv
  <2>2. i = n + 1 \/ i = n + 2 \/ i = n + 3
    BY <1>4, <1>5, <2>1, SMTT(30)
  <2>3. log'[i].mi.op \in {"HELPER", "CALL", "RET"}
    <3>1. HelperItem("HELPER", a, b).mi.op = "HELPER" /\ HelperItem("RET", b + 5, Len(code')).mi.op = "RET"
      BY HelperItemIs
    <3>2. CallItem(b, b + 5).mi.op = "CALL"
      BY LibraryCallTyped DEF CallItem
    <3> QED
      BY <1>5, <2>2, <3>1, <3>2
  <2>4. log'[i].mi.op \notin Branches
    BY <2>3, OpsApart
  <2> QED
    BY <2>4 DEF Landed
<1> QED
  BY <1>2, <1>3, <1>6, MoreLand

LEMMA NextLand == TypeInv /\ TextInv /\ PatchInv /\ LandInv /\ [Next]_vars => LandInv'
<1> SUFFICES ASSUME TypeInv, TextInv, PatchInv, LandInv, [Next]_vars PROVE LandInv'
  OBVIOUS
<1>1. CASE UNCHANGED done
  BY <1>1, NextKept, SameLand
<1>2. CASE EndFunction
  BY <1>2, EndLand
<1>3. CASE EmitPrintHelper
  BY <1>3, HelperLand
<1>4. UNCHANGED done \/ EndFunction \/ EmitPrintHelper
  BY DEF Next, vars, BeginFunction, BeginBlock, EmitPlain, EmitBranch, EmitCall, WriteElf
<1> QED
  BY <1>1, <1>2, <1>3, <1>4

-------------------------------------------------------------------------------
\* Relocations.

\* The symbols keep their names, the relocations stay, and new ones are in new text.
Grown ==
  /\ Len(syms) <= Len(syms')
  /\ \A k \in DOMAIN syms : k \in DOMAIN syms' /\ syms'[k].name = syms[k].name
  /\ \A k \in DOMAIN relocs : k \in DOMAIN relocs' /\ relocs'[k] = relocs[k]
  /\ \A k \in DOMAIN relocs' : k \in DOMAIN relocs \/ relocs'[k].offset > Len(code)

Placed(r, ss, c) == r.sym \in 1..(Len(ss) - 1) /\ r.offset + 4 <= Len(c)

LEMMA RelocTyped ==
  ASSUME TypeInv, NEW k \in DOMAIN relocs
  PROVE  relocs[k].offset \in Nat /\ relocs[k].sym \in Nat
<1>1. relocs \in Seq(Relocations)
  BY DEF TypeInv
<1>2. relocs[k] \in Relocations
  BY <1>1
<1> QED
  BY <1>2 DEF Relocations

LEMMA CalledKept ==
  ASSUME TypeInv, TextInv, RelInv, Kept, Grown, NEW i \in DOMAIN log
  PROVE  Called(log'[i], code', syms', relocs')
<1> DEFINE it == log[i]
<1>1. log'[i] = it
  BY DEF Kept
<1> SUFFICES ASSUME it.mi.op = "CALL" PROVE Called(it, code', syms', relocs')
  BY <1>1 DEF Called
<1>2. it.mi.name # "" /\ it.mi.name # ".rodata"
  BY DEF RelInv, Called
<1>3. PICK k \in DOMAIN relocs : /\ Calls(relocs[k], it, code, syms)
                                 /\ \A j \in DOMAIN relocs : j # k => relocs[j].offset \notin it.at..it.to
  BY DEF RelInv, Called
<1>4. it.at \in Nat /\ it.to \in Nat /\ it.to <= Len(code) /\ Len(code) \in Nat
  BY ItemTypes DEF TextInv, Laid, Kept
<1>5. it.mi.op \notin Branches
  BY OpsApart
<1>6. \A q \in (it.at + 1)..it.to : code'[q] = code[q]
  BY <1>5 DEF Kept
<1>7. k \in DOMAIN relocs' /\ relocs'[k] = relocs[k]
  BY DEF Grown
<1> HIDE DEF it
<1>8. Calls(relocs[k], it, code', syms')
  <2> DEFINE r == relocs[k]
  <2>1. r.offset \in Nat
    BY RelocTyped
  <2>2. r.offset > it.at /\ r.offset + 4 <= it.to /\ code[r.offset] = 232 /\ r.sym + 1 \in DOMAIN syms
        /\ syms[r.sym + 1].name = it.mi.name
    BY <1>3 DEF Calls
  <2>3. code'[r.offset] = 232
    <3>1. r.offset \in (it.at + 1)..it.to
      BY <1>4, <2>1, <2>2
    <3> QED
      BY <1>6, <2>2, <3>1
  <2>4. r.sym + 1 \in DOMAIN syms' /\ syms'[r.sym + 1].name = it.mi.name
    BY <2>2 DEF Grown
  <2> QED
    BY <1>3, <2>3, <2>4 DEF Calls
<1>9. ASSUME NEW j \in DOMAIN relocs', j # k PROVE relocs'[j].offset \notin it.at..it.to
  <2>1. CASE j \in DOMAIN relocs
    BY <1>3, <1>9, <2>1 DEF Grown
  <2>2. CASE relocs'[j].offset > Len(code)
    <3> DEFINE o == relocs'[j].offset  n == Len(code)
    <3>1. o > n
      BY <2>2
    <3> HIDE DEF o
    <3>2. o \notin it.at..it.to
      BY <1>4, <3>1
    <3> QED
      BY <3>2 DEF o
  <2> QED
    BY <2>1, <2>2 DEF Grown
<1> QED
  BY <1>2, <1>7, <1>8, <1>9 DEF Called

LEMMA RelMore ==
  ASSUME TypeInv, TextInv, RelInv, Kept, Grown, Len(syms) \in Nat, Len(syms') \in Nat,
         \A k \in DOMAIN relocs' : k \in DOMAIN relocs \/ Placed(relocs'[k], syms', code'),
         \A i \in DOMAIN log' : i \in DOMAIN log \/ Called(log'[i], code', syms', relocs')
  PROVE  RelInv'
<1>1. ASSUME NEW k \in DOMAIN relocs' PROVE Placed(relocs'[k], syms', code')
  <2>1. CASE k \in DOMAIN relocs
    <3>1. relocs[k].sym \in 1..(Len(syms) - 1) /\ relocs[k].offset + 4 <= Len(code)
      BY <2>1 DEF RelInv
    <3>2. relocs'[k] = relocs[k]
      BY <2>1 DEF Grown
    <3>3. relocs[k].offset \in Nat /\ relocs[k].sym \in Nat
      BY <2>1, RelocTyped
    <3>4. Len(code) \in Nat /\ Len(code') \in Nat /\ Len(code) <= Len(code') /\ Len(syms) <= Len(syms')
      BY DEF Kept, Grown
    <3> QED
      BY <3>1, <3>2, <3>3, <3>4 DEF Placed
  <2> QED
    BY <2>1
<1>2. ASSUME NEW i \in DOMAIN log' PROVE Called(log'[i], code', syms', relocs')
  BY CalledKept
<1> QED
  BY <1>1, <1>2 DEF RelInv, Placed

\* Steps without a call.
LEMMA RelSame ==
  ASSUME TypeInv, TypeInv', TextInv, RelInv, Kept, UNCHANGED relocs, Len(syms) <= Len(syms'),
         \A k \in DOMAIN syms : k \in DOMAIN syms' /\ syms'[k].name = syms[k].name,
         \A i \in DOMAIN log' : i \in DOMAIN log \/ log'[i].mi.op # "CALL"
  PROVE  RelInv'
<1>1. Grown
  BY DEF Grown
<1>2. Len(syms) \in Nat /\ Len(syms') \in Nat
  BY DEF TypeInv
<1>3. \A i \in DOMAIN log' : i \in DOMAIN log \/ Called(log'[i], code', syms', relocs')
  BY DEF Called
<1> QED
  BY <1>1, <1>2, <1>3, RelMore

LEMMA InitRel == Init => RelInv
<1> SUFFICES ASSUME Init PROVE RelInv
  OBVIOUS
<1>1. log = <<>> /\ relocs = <<>>
  BY DEF Init
<1>2. DOMAIN log = {} /\ DOMAIN relocs = {}
  BY <1>1
<1> QED
  BY <1>2 DEF RelInv

LEMMA BeginRel == TypeInv /\ TextInv /\ PatchInv /\ RelInv /\ BeginFunction => RelInv'
<1> SUFFICES ASSUME TypeInv, TextInv, PatchInv, RelInv, BeginFunction PROVE RelInv'
  OBVIOUS
<1>1. TypeInv' /\ Kept
  BY BeginTypes, NextKept DEF Next
<1>2. \E s : syms' = Append(syms, s)
  BY DEF BeginFunction
<1>3. \A k \in DOMAIN syms : k \in DOMAIN syms' /\ syms'[k].name = syms[k].name /\ Len(syms) <= Len(syms')
  <2>1. PICK s : syms' = Append(syms, s)
    BY <1>2
  <2>2. syms \in Seq(Symbols) /\ syms' \in Seq(Symbols)
    BY <1>1 DEF TypeInv
  <2>3. s \in Symbols
    <3>1. syms'[Len(syms) + 1] = s /\ Len(syms') = Len(syms) + 1
      BY <2>1, <2>2
    <3>2. syms'[Len(syms) + 1] \in Symbols
      BY <2>2, <3>1
    <3> QED
      BY <3>1, <3>2
  <2>4. Len(syms) \in Nat /\ Len(syms') = Len(syms) + 1
    BY <2>1, <2>2, <2>3
  <2> QED
    BY <2>1, <2>3, <2>4, OneMore
<1>4. Len(syms) >= 1 /\ 1 \in DOMAIN syms
  <2>1. Len(syms) >= 1 /\ syms \in Seq(Symbols)
    BY DEF TypeInv
  <2> QED
    BY <2>1
<1>5. \A i \in DOMAIN log' : i \in DOMAIN log \/ log'[i].mi.op # "CALL"
  <2>1. PICK bytes : Emitted(PrologueItem, bytes)
    BY BeginFunctionIs
  <2>2. DOMAIN log = 1..Len(log) /\ DOMAIN log' = 1..(Len(log) + 1) /\ Len(log) \in Nat
        /\ log'[Len(log) + 1] = Item(PrologueItem, bytes) /\ Item(PrologueItem, bytes).mi = PrologueItem
    BY <2>1, EmittedLog
  <2>3. log'[Len(log) + 1].mi.op # "CALL"
    BY <2>2, PrologueNoBranch
  <2> QED
    BY <2>2, <2>3
<1>6. UNCHANGED relocs
  BY DEF BeginFunction
<1> QED
  BY <1>1, <1>3, <1>4, <1>5, <1>6, RelSame

LEMMA PlainRel == TypeInv /\ TextInv /\ PatchInv /\ RelInv /\ (EmitPlain \/ EmitBranch) => RelInv'
<1> SUFFICES ASSUME TypeInv, TextInv, PatchInv, RelInv, EmitPlain \/ EmitBranch PROVE RelInv'
  OBVIOUS
<1>1. TypeInv' /\ Kept
  BY PlainTypes, BranchTypes, NextKept DEF Next
<1>2. UNCHANGED <<syms, relocs>>
  BY DEF EmitPlain, EmitBranch
<1>3. Len(syms) \in Nat
  BY DEF TypeInv
<1>4. \A i \in DOMAIN log' : i \in DOMAIN log \/ log'[i].mi.op # "CALL"
  <2>1. PICK m, bytes : Emitted(m, bytes) /\ (m.op \in Plain \/ m.op \in Branches)
    BY PlainIs, BranchIs
  <2>2. m.op # "CALL"
    BY <2>1, OpsApart
  <2>3. DOMAIN log = 1..Len(log) /\ DOMAIN log' = 1..(Len(log) + 1) /\ Len(log) \in Nat
        /\ log'[Len(log) + 1] = Item(m, bytes) /\ Item(m, bytes).mi = m
    BY <2>1, EmittedLog
  <2> QED
    BY <2>2, <2>3
<1> QED
  BY <1>1, <1>2, <1>3, <1>4, RelSame

LEMMA EndRel == TypeInv /\ TextInv /\ PatchInv /\ RelInv /\ EndFunction => RelInv'
<1> SUFFICES ASSUME TypeInv, TextInv, PatchInv, RelInv, EndFunction PROVE RelInv'
  OBVIOUS
<1>1. TypeInv' /\ Kept
  BY EndTypes, EndBytes
<1>2. UNCHANGED relocs /\ syms' = SetLastSize(syms, Len(code') - mf.start)
  BY DEF EndFunction
<1>3. Len(code') - mf.start \in Nat
  <2>1. Len(code') \in Nat /\ Len(code) \in Nat /\ Len(code) <= Len(code')
    BY <1>1 DEF Kept
  <2>2. mf.start \in Nat /\ mf.start < Len(code)
    BY MfTyped DEF TextInv, EndFunction
  <2> QED
    BY <2>1, <2>2
<1> DEFINE n == Len(code') - mf.start
<1> HIDE DEF n
<1>4. syms \in Seq(Symbols) /\ Len(syms) \in Nat /\ n \in Nat /\ syms' = SetLastSize(syms, n) /\ syms' \in Seq(Symbols)
  BY <1>1, <1>2, <1>3 DEF TypeInv, n
<1>5. Len(syms') = Len(syms) /\ \A k \in DOMAIN syms : k \in DOMAIN syms' /\ syms'[k].name = syms[k].name
  <2>1. Len(syms') = Len(syms) /\ \A k \in DOMAIN syms : syms'[k].name = syms[k].name
    BY <1>4, SetSizeIs
  <2>2. DOMAIN syms' = DOMAIN syms
    BY <1>4, <2>1
  <2> QED
    BY <2>1, <2>2
<1>6. \A i \in DOMAIN log' : i \in DOMAIN log \/ log'[i].mi.op # "CALL"
  <2>1. PICK bytes \in Seq(Octets) : log' = Append(log, Item(FallbackItem, bytes))
    BY EndIs
  <2> DEFINE it == Item(FallbackItem, bytes)
  <2>2. it.mi.op # "CALL"
    BY FallbackTyped DEF Item
  <2>3. log' = Append(log, it) /\ log \in Seq(Items)
    BY <2>1 DEF TypeInv
  <2> HIDE DEF it
  <2>4. DOMAIN log = 1..Len(log) /\ DOMAIN log' = 1..(Len(log) + 1) /\ Len(log) \in Nat /\ log'[Len(log) + 1] = it
    BY <2>3
  <2> QED
    BY <2>2, <2>4
<1> QED
  BY <1>1, <1>2, <1>4, <1>5, <1>6, RelSame

\* A name a call has is no section's and not that of the null symbol.
LEMMA CallNames ==
  ASSUME NEW name \in Names \cup {HelperName, Library}
  PROVE  name # "" /\ name # ".rodata" /\ name \in Spellings
<1>1. CASE name \in Names
  <2>1. Names \cap {"", ".rodata"} = {}
    BY InputAssumption
  <2> QED
    BY <1>1, <2>1, SpellingsHold
<1>2. CASE name = HelperName
  <2>1. name # "" /\ name # ".rodata"
    BY <1>2 DEF HelperName
  <2> QED
    BY <1>2, <2>1, SpellingsHold
<1>3. CASE name = Library
  <2>1. name # "" /\ name # ".rodata"
    BY <1>3 DEF Library
  <2> QED
    BY <1>3, <2>1, SpellingsHold
<1> QED
  BY <1>1, <1>2, <1>3

\* The symbol of a name is not the null symbol.
LEMMA NotTheNull ==
  ASSUME NEW ss \in Seq(Symbols), NEW s \in Nat, s + 1 \in DOMAIN ss, Len(ss) >= 1, ss[1].name = "", ss[s + 1].name # ""
  PROVE  s \in 1..(Len(ss) - 1)
<1>1. Len(ss) \in Nat /\ DOMAIN ss = 1..Len(ss)
  BY ONLY ss \in Seq(Symbols)
<1>2. s # 0
  <2>1. s = 0 => s + 1 = 1
    BY ONLY s \in Nat
  <2>2. s + 1 # 1
    BY ZenonT(10)
  <2> QED
    BY <2>1, <2>2
<1>3. s + 1 <= Len(ss)
  BY ONLY s \in Nat, s + 1 \in DOMAIN ss, <1>1
<1> QED
  BY ONLY s \in Nat, <1>1, <1>2, <1>3

LEMMA CallRel == TypeInv /\ TextInv /\ PatchInv /\ SymInv /\ RelInv /\ EmitCall => RelInv'
<1> SUFFICES ASSUME TypeInv, TextInv, PatchInv, SymInv, RelInv, EmitCall PROVE RelInv'
  OBVIOUS
<1>1. TypeInv' /\ Kept
  BY CallTypes, NextKept DEF Next
<1>2. PICK m \in Insts, bytes \in Seq(Octets), h \in Nat :
        /\ m.op = "CALL" /\ m.name \in Names \cup {HelperName, Library}
        /\ Emitted(m, bytes) /\ Len(bytes) >= h + 5 /\ bytes[h + 1] = 232
        /\ AddCall(m.name, Len(code) + h + 1)
  BY CallIs
<1> DEFINE n == Len(code)  o == n + h + 1  name == m.name
<1>3. n \in Nat /\ o \in Nat /\ o = n + (h + 1) /\ Len(bytes) \in Nat /\ code \in Seq(Octets)
  BY DEF TypeInv
<1>4. /\ syms' \in Seq(Symbols) /\ syms' \in {syms, Append(syms, Sym(name, UNDEF, 0))}
      /\ \E s \in Nat : /\ s + 1 \in DOMAIN syms' /\ syms'[s + 1].name = name
                        /\ relocs' = Append(relocs, Reloc(o, "PLT32", s, -4))
                        /\ Reloc(o, "PLT32", s, -4) \in Relocations
  <2>1. name \in Names \cup {HelperName, Library} /\ AddCall(name, o)
    BY <1>2
  <2> HIDE DEF o, name, n
  <2> QED
    BY <1>3, <2>1, AddCallIs
<1>5. name # "" /\ name # ".rodata" /\ name \in Spellings
  <2>1. name \in Names \cup {HelperName, Library}
    BY <1>2
  <2> HIDE DEF name
  <2> QED
    BY ONLY <2>1, CallNames
<1>6. /\ Len(syms) \in Nat /\ Len(syms') \in Nat /\ Len(syms) <= Len(syms') /\ Len(syms') >= 1
      /\ \A k \in DOMAIN syms : k \in DOMAIN syms' /\ syms'[k] = syms[k]
  <2>1. syms \in Seq(Symbols) /\ Len(syms) \in Nat /\ Len(syms) >= 1
    BY DEF TypeInv
  <2>2. CASE syms' = syms
    BY <2>1, <2>2
  <2>3. CASE syms' = Append(syms, Sym(name, UNDEF, 0))
    <3> DEFINE new == Sym(name, UNDEF, 0)
    <3>1. new \in Symbols
      BY <1>5, SymTyped DEF UNDEF
    <3> HIDE DEF new
    <3>2. syms' = Append(syms, new)
      BY <2>3 DEF new
    <3>3. Len(syms') = Len(syms) + 1
      BY <2>1, <3>2
    <3>4. \A k \in DOMAIN syms : k \in DOMAIN syms' /\ syms'[k] = syms[k]
      BY <3>1, <3>2, OneMore
    <3> QED
      BY <2>1, <3>3, <3>4
  <2> QED
    BY <1>4, <2>2, <2>3
<1> HIDE DEF o, n, name
<1>7. PICK s \in Nat : /\ s + 1 \in DOMAIN syms' /\ syms'[s + 1].name = name
                       /\ relocs' = Append(relocs, Reloc(o, "PLT32", s, -4))
                       /\ Reloc(o, "PLT32", s, -4) \in Relocations
  BY <1>4
<1> DEFINE r == Reloc(o, "PLT32", s, -4)  z == Len(relocs)
<1>8. r.offset = o /\ r.type = "PLT32" /\ r.addend = -4 /\ r.sym = s
  BY DEF Reloc
<1>9. relocs' = Append(relocs, r) /\ r \in Relocations /\ relocs \in Seq(Relocations) /\ z \in Nat
  BY <1>7 DEF TypeInv
<1> HIDE DEF r, z
<1>10. /\ DOMAIN relocs = 1..z /\ DOMAIN relocs' = 1..(z + 1) /\ relocs'[z + 1] = r
       /\ \A k \in DOMAIN relocs : relocs'[k] = relocs[k]
  BY <1>9 DEF z
<1>11. o > n
  BY <1>3
<1>12. Grown
  <2>1. \A k \in DOMAIN relocs : k \in DOMAIN relocs' /\ relocs'[k] = relocs[k]
    BY <1>9, <1>10
  <2>2. \A k \in DOMAIN relocs' : k \in DOMAIN relocs \/ relocs'[k].offset > Len(code)
    <3>1. \A k \in DOMAIN relocs' : k \in DOMAIN relocs \/ k = z + 1
      BY <1>9, <1>10
    <3> QED
      BY <1>8, <1>10, <1>11, <3>1 DEF n
  <2>3. \A k \in DOMAIN syms : k \in DOMAIN syms' /\ syms'[k].name = syms[k].name
    BY <1>6
  <2> QED
    BY <1>6, <2>1, <2>2, <2>3 DEF Grown
<1>13. s \in 1..(Len(syms') - 1)
  <2>1. 1 \in DOMAIN syms
    <3>1. syms \in Seq(Symbols) /\ Len(syms) >= 1
      BY DEF TypeInv
    <3> QED
      BY <3>1
  <2>2. syms'[1].name = ""
    BY <1>6, <2>1 DEF SymInv
  <2>3. syms'[s + 1].name # ""
    BY <1>5, <1>7
  <2> QED
    BY <1>4, <1>6, <1>7, <2>2, <2>3, NotTheNull
<1> DEFINE it == Item(m, bytes)  l == Len(log)
<1>14. /\ l \in Nat /\ DOMAIN log = 1..l /\ DOMAIN log' = 1..(l + 1) /\ log'[l + 1] = it
       /\ it.mi = m /\ it.at = n /\ it.to = n + Len(bytes) /\ Len(code') = n + Len(bytes)
  BY <1>2, EmittedLog DEF n
<1> HIDE DEF it, l
<1>15. o + 4 <= n + Len(bytes)
  BY <1>2, <1>3
<1>16. Called(it, code', syms', relocs')
  <2>1. it.mi.name # "" /\ it.mi.name # ".rodata"
    BY <1>5, <1>14 DEF name
  <2>2. Calls(r, it, code', syms')
    <3>1. r.offset > it.at /\ r.offset + 4 <= it.to
      BY <1>8, <1>11, <1>14, <1>15
    <3>2. code'[o] = 232
      <4>1. code' = code \o bytes
        BY <1>2 DEF Emitted
      <4>2. h + 1 \in 1..Len(bytes)
        BY <1>2, <1>3
      <4>3. (code \o bytes)[Len(code) + (h + 1)] = bytes[h + 1]
        BY <1>3, <4>2
      <4> QED
        BY <1>2, <1>3, <4>1, <4>3 DEF n
    <3> QED
      BY <1>7, <1>8, <1>14, <3>1, <3>2 DEF Calls, name
  <2>3. ASSUME NEW j \in DOMAIN relocs', j # z + 1 PROVE relocs'[j].offset \notin it.at..it.to
    <3>1. j \in DOMAIN relocs
      BY <1>9, <1>10, <2>3
    <3>2. relocs[j].offset + 4 <= n /\ relocs[j].offset \in Nat
      BY <3>1, RelocTyped DEF RelInv, n
    <3>3. relocs[j].offset \notin n..(n + Len(bytes))
      BY <1>3, <3>2
    <3> QED
      BY <1>10, <1>14, <3>1, <3>3
  <2>4. z + 1 \in DOMAIN relocs'
    BY <1>9, <1>10
  <2> QED
    BY <1>10, <2>1, <2>2, <2>3, <2>4 DEF Called
<1>17. \A i \in DOMAIN log' : i \in DOMAIN log \/ Called(log'[i], code', syms', relocs')
  BY <1>14, <1>16
<1>18. \A k \in DOMAIN relocs' : k \in DOMAIN relocs \/ Placed(relocs'[k], syms', code')
  <2>1. Placed(r, syms', code')
    BY <1>8, <1>13, <1>14, <1>15 DEF Placed
  <2>2. \A k \in DOMAIN relocs' : k \in DOMAIN relocs \/ k = z + 1
    BY <1>9, <1>10
  <2> QED
    BY <1>10, <2>1, <2>2
<1> QED
  BY <1>1, <1>6, <1>12, <1>17, <1>18, RelMore

-------------------------------------------------------------------------------
\* Relocations of the print routine, and the file.

LEMMA HelperRel == TypeInv /\ TextInv /\ PatchInv /\ SymInv /\ RelInv /\ EmitPrintHelper => RelInv'
<1> SUFFICES ASSUME TypeInv, TextInv, PatchInv, SymInv, RelInv, EmitPrintHelper PROVE RelInv'
  OBVIOUS
<1>1. TypeInv' /\ Kept
  BY HelperTypes, HelperKept
<1>2. PICK a, b, ro, lib \in Nat : HelperFacts(a, b, ro, lib)
  BY HelperStep
<1> DEFINE ext == HelperSyms(a)  n == Len(syms)  l == Len(log)  z == Len(relocs)  m == Len(code')
           r == Reloc(b - 2 - 4, "PC32", ro, rodata - 4)  q == Reloc(b + 1, "PLT32", lib, -4)
           x == HelperItem("HELPER", a, b)  y == CallItem(b, b + 5)  w == HelperItem("RET", b + 5, m)
<1>3. /\ a = Len(code) /\ b >= a + 7 /\ m >= b + 5 /\ code'[b + 1] = 232 /\ m \in Nat
      /\ log' \in Seq(Items) /\ Len(log') = l + 3 /\ log'[l + 1] = x /\ log'[l + 2] = y /\ log'[l + 3] = w
  <2>1. m \in Nat
    BY <1>1 DEF Kept
  <2> QED
    BY <1>2, <2>1, SMTT(30) DEF HelperFacts
<1>4. /\ syms' \in Seq(Symbols) /\ Len(syms') = Len(ext) /\ \A k \in DOMAIN syms' : syms'[k].name = ext[k].name
      /\ ro + 1 \in DOMAIN syms' /\ syms'[ro + 1].name = ".rodata"
      /\ lib + 1 \in DOMAIN syms' /\ syms'[lib + 1].name = Library
  BY <1>2, SMTT(30) DEF HelperFacts
<1>5. relocs' = relocs \o <<r, q>> /\ r \in Relocations /\ q \in Relocations /\ relocs \in Seq(Relocations)
  BY <1>2, SMTT(30) DEF HelperFacts, TypeInv
<1>6. /\ ext \in Seq(Symbols) /\ Len(ext) >= n + 1 /\ n \in Nat /\ \A k \in 1..n : ext[k] = syms[k]
  BY HelperSymsAre
<1>7. /\ r.offset = b - 6 /\ r.sym = ro
      /\ q.offset = b + 1 /\ q.type = "PLT32" /\ q.addend = -4 /\ q.sym = lib
  <2>1. b - 2 - 4 = b - 6
    BY SMTT(30)
  <2> QED
    BY <2>1 DEF Reloc
<1>8. x.mi.op = "HELPER" /\ w.mi.op = "RET" /\ y.mi.op = "CALL" /\ y.mi.name = Library /\ y.at = b /\ y.to = b + 5
  <2>1. x.mi.op = "HELPER" /\ w.mi.op = "RET"
    BY HelperItemIs
  <2>2. y.mi.op = "CALL" /\ y.mi.name = Library /\ y.at = b /\ y.to = b + 5
    BY LibraryCallTyped DEF CallItem
  <2> QED
    BY <2>1, <2>2
<1> HIDE DEF ext, n, r, q, x, y, w, m
<1>9. /\ z \in Nat /\ DOMAIN relocs = 1..z /\ DOMAIN relocs' = 1..(z + 2) /\ relocs'[z + 1] = r /\ relocs'[z + 2] = q
      /\ \A k \in DOMAIN relocs : relocs'[k] = relocs[k]
  <2>1. z \in Nat /\ DOMAIN relocs = 1..z
    BY <1>5
  <2>2. relocs' \in Seq(Relocations) /\ Len(relocs') = z + 2 /\ \A i \in 1..z : relocs'[i] = relocs[i]
    BY <1>5, TwoMore
  <2>3. relocs'[z + 1] = r /\ relocs'[z + 2] = q
    BY <1>5, TwoMore
  <2>4. DOMAIN relocs' = 1..(z + 2)
    BY <2>2
  <2> QED
    BY <2>1, <2>2, <2>3, <2>4
<1>10. \A k \in DOMAIN relocs' : k \in DOMAIN relocs \/ k = z + 1 \/ k = z + 2
  BY <1>9
<1>11. /\ \A k \in DOMAIN relocs : k \in DOMAIN relocs'
       /\ z + 1 \in DOMAIN relocs' /\ z + 2 \in DOMAIN relocs' /\ z + 1 # z + 2
  BY <1>9
<1> HIDE DEF z
<1>12. /\ DOMAIN syms = 1..n /\ n >= 1 /\ DOMAIN syms' = 1..Len(syms') /\ Len(syms') \in Nat /\ n + 1 <= Len(syms')
  <2>1. syms \in Seq(Symbols) /\ Len(syms) >= 1
    BY DEF TypeInv
  <2> QED
    BY <1>4, <1>6, <2>1 DEF n
<1>13. \A k \in DOMAIN syms : k \in DOMAIN syms' /\ syms'[k].name = syms[k].name
  <2>1. \A k \in DOMAIN syms : k \in DOMAIN syms'
    BY <1>6, <1>12
  <2>2. \A k \in DOMAIN syms : ext[k] = syms[k]
    BY <1>6, <1>12
  <2> QED
    BY <1>4, <2>1, <2>2
<1>14. Grown
  <2>1. Len(syms) <= Len(syms')
    <3>1. n <= Len(syms')
      BY <1>6, <1>12
    <3> QED
      BY <3>1 DEF n
  <2>2. r.offset > a /\ q.offset > a
    BY <1>3, <1>7
  <2>3. \A k \in DOMAIN relocs' : k \in DOMAIN relocs \/ relocs'[k].offset > Len(code)
    BY <1>3, <1>9, <1>10, <2>2
  <2> QED
    BY <1>9, <1>11, <1>13, <2>1, <2>3 DEF Grown
<1>15. ro \in 1..(Len(syms') - 1) /\ lib \in 1..(Len(syms') - 1)
  <2>1. syms'[1].name = ""
    <3>1. 1 \in DOMAIN syms
      BY <1>6, <1>12
    <3> QED
      BY <1>13, <3>1 DEF SymInv
  <2>2. Len(syms') >= 1
    BY <1>6, <1>12
  <2>3. syms'[ro + 1].name # ""
    BY <1>4
  <2>4. syms'[lib + 1].name # ""
    BY <1>4 DEF Library
  <2>5. ro \in 1..(Len(syms') - 1)
    BY <1>4, <2>1, <2>2, <2>3, NotTheNull
  <2>6. lib \in 1..(Len(syms') - 1)
    BY <1>4, <2>1, <2>2, <2>4, NotTheNull
  <2> QED
    BY <2>5, <2>6
<1>16. Placed(r, syms', code') /\ Placed(q, syms', code')
  <2>1. r.offset + 4 <= m /\ q.offset + 4 <= m
    BY <1>3, <1>7
  <2> QED
    BY <1>7, <1>15, <2>1 DEF Placed, m
<1>17. Called(y, code', syms', relocs')
  <2>1. y.mi.name # "" /\ y.mi.name # ".rodata"
    BY <1>8 DEF Library
  <2>2. Calls(q, y, code', syms')
    <3>1. q.offset > y.at /\ q.offset + 4 <= y.to
      BY <1>7, <1>8
    <3> QED
      BY <1>3, <1>4, <1>7, <1>8, <3>1 DEF Calls
  <2>3. ASSUME NEW j \in DOMAIN relocs', j # z + 2 PROVE relocs'[j].offset \notin y.at..y.to
    <3>1. CASE j \in DOMAIN relocs
      <4>1. relocs[j].offset + 4 <= a /\ relocs[j].offset \in Nat
        BY <1>3, <3>1, RelocTyped DEF RelInv
      <4> DEFINE o == relocs[j].offset
      <4> HIDE DEF o
      <4>2. o + 4 <= a /\ o \in Nat
        BY <4>1 DEF o
      <4>3. o \notin b..(b + 5)
        BY <1>3, <4>2
      <4> QED
        BY <1>8, <1>9, <3>1, <4>3 DEF o
    <3>2. CASE j = z + 1
      <4>1. r.offset \notin b..(b + 5)
        BY <1>7
      <4> QED
        BY <1>8, <1>9, <3>2, <4>1
    <3> QED
      BY <1>10, <2>3, <3>1, <3>2
  <2> QED
    BY <1>9, <1>11, <2>1, <2>2, <2>3 DEF Called
<1>18. \A i \in DOMAIN log' : i \in DOMAIN log \/ Called(log'[i], code', syms', relocs')
  <2>1. l \in Nat /\ DOMAIN log = 1..l /\ DOMAIN log' = 1..(l + 3)
    BY <1>3 DEF TypeInv
  <2> HIDE DEF l
  <2>2. \A i \in DOMAIN log' : i \in DOMAIN log \/ i = l + 1 \/ i = l + 2 \/ i = l + 3
    BY <2>1
  <2>3. Called(x, code', syms', relocs') /\ Called(w, code', syms', relocs')
    BY <1>8 DEF Called
  <2> QED
    BY <1>3, <1>17, <2>2, <2>3
<1>19. \A k \in DOMAIN relocs' : k \in DOMAIN relocs \/ Placed(relocs'[k], syms', code')
  BY <1>9, <1>10, <1>16
<1>20. Len(syms) \in Nat /\ Len(syms') \in Nat
  BY <1>6, <1>12 DEF n
<1> QED
  BY <1>1, <1>14, <1>18, <1>19, <1>20, RelMore

LEMMA NextRel == TypeInv /\ TextInv /\ PatchInv /\ SymInv /\ RelInv /\ [Next]_vars => RelInv'
<1> SUFFICES ASSUME TypeInv, TextInv, PatchInv, SymInv, RelInv, [Next]_vars PROVE RelInv'
  OBVIOUS
<1>1. CASE BeginBlock \/ WriteElf \/ UNCHANGED vars
  <2>1. UNCHANGED <<syms, relocs, log>>
    BY <1>1 DEF BeginBlock, WriteElf, vars, emitter
  <2>2. Kept
    BY NextKept
  <2>3. TypeInv'
    BY NextTypes
  <2>4. Len(syms) \in Nat
    BY DEF TypeInv
  <2> QED
    BY <2>1, <2>2, <2>3, <2>4, RelSame
<1> QED
  BY <1>1, BeginRel, PlainRel, EndRel, CallRel, HelperRel DEF Next

LEMMA InitFile == Init => FileInv
  BY DEF Init, FileInv

\* The sections of a file, of the lengths of what it holds.
After(s, a) == Align(s.off + s.size, a)
Ro(t, ro) == Section(".rodata", After(t, 16), ro, 8)
Rela(s, n) == Section(".rela.text", After(s, 16), 24 * n, 8)
Symtab(s, n) == Section(".symtab", After(s, 8), 24 * n, 8)
Str(s, n) == Section(".strtab", After(s, 8), n, 1)
Shstr(s) == Section(".shstrtab", After(s, 8), ShstrtabLen, 1)
Headers(s) == Section("headers", After(s, 16), 7 * 64, 8)

Chain(t, ro, nr, ns, nt) ==
  LET s2 == Ro(t, ro)  s3 == Rela(s2, nr)  s4 == Symtab(s3, ns)  s5 == Str(s4, nt)  s6 == Shstr(s5)
  IN <<t, s2, s3, s4, s5, s6, Headers(s6)>>

LEMMA LayoutIs == Layout = Chain(Section(".text", HeaderLen, Len(code), 16), rodata, Len(relocs), Len(syms), strtab)
  BY ZenonT(30) DEF Layout, Chain, After, Ro, Rela, Symtab, Str, Shstr, Headers

LEMMA SameLayout == UNCHANGED <<code, rodata, relocs, syms, strtab>> => Layout' = Layout
<1> SUFFICES ASSUME code' = code, rodata' = rodata, relocs' = relocs, syms' = syms, strtab' = strtab
             PROVE  Layout' = Layout
  OBVIOUS
<1> DEFINE made(c, ro, rs, ss, n) == Chain(Section(".text", HeaderLen, Len(c), 16), ro, Len(rs), Len(ss), n)
<1>1. Layout = made(code, rodata, relocs, syms, strtab)
  BY LayoutIs
<1>2. Layout' = made(code', rodata', relocs', syms', strtab')
  BY ZenonT(30) DEF Layout, Chain, After, Ro, Rela, Symtab, Str, Shstr, Headers
<1> HIDE DEF made
<1> QED
  BY <1>1, <1>2

\* The file is written last.
LEMMA NextFile == FileInv /\ [Next]_vars => FileInv'
<1> SUFFICES ASSUME FileInv, [Next]_vars PROVE FileInv'
  OBVIOUS
<1>1. CASE file = <<>> /\ UNCHANGED file
  BY <1>1 DEF FileInv
<1>2. CASE WriteElf
  <2>1. phase' = "done" /\ UNCHANGED <<emitter>> /\ \E written \in BOOLEAN : file' = [ok |-> written, sections |-> Layout]
    BY <1>2 DEF WriteElf
  <2>2. UNCHANGED <<code, rodata, relocs, syms, strtab>>
    BY <2>1 DEF emitter
  <2>3. Layout' = Layout
    BY <2>2, SameLayout
  <2> QED
    BY <2>1, <2>3 DEF FileInv
<1>3. CASE phase = "done" /\ UNCHANGED vars
  <2>1. UNCHANGED <<phase, file, code, rodata, relocs, syms, strtab>>
    BY <1>3 DEF vars, emitter
  <2>2. Layout' = Layout
    BY <2>1, SameLayout
  <2> QED
    BY <2>1, <2>2 DEF FileInv
<1>4. UNCHANGED file \/ WriteElf
  BY DEF Next, vars, BeginFunction, BeginBlock, EmitPlain, EmitBranch, EmitCall, EndFunction, EmitPrintHelper
<1>5. phase = "done" => WriteElf \/ UNCHANGED vars
  BY DEF Next, vars, BeginFunction, BeginBlock, EmitPlain, EmitBranch, EmitCall, EndFunction, EmitPrintHelper
<1>6. file = <<>> \/ phase = "done"
  BY DEF FileInv
<1> QED
  BY <1>1, <1>2, <1>3, <1>4, <1>5, <1>6

-------------------------------------------------------------------------------
\* The theorems.

IInv == TypeInv /\ Inv

\* The inductive invariant holds of every state of emit_object, whatever the
\* program, its names and its functions' frames (emit.c:1295-1675).
THEOREM EmitterHolds == Spec => []IInv
<1>1. Init => IInv
  BY InitTypes, InitText, InitSyms, InitLand, InitRel, InitFile DEF IInv, Inv
<1>2. IInv /\ [Next]_vars => IInv'
  BY NextTypes, NextText, NextSyms, NextPatches, NextLand, NextRel, NextFile DEF IInv, Inv
<1> QED
  BY <1>1, <1>2, PTL DEF Spec

\* What the emitter keeps is what its structures say: bytes in the text, symbols,
\* relocations and patches with the fields of their types (emit.c:104-241).
THEOREM EmitterTypes == Spec => []TypeInv
<1>1. IInv => TypeInv
  BY DEF IInv
<1> QED
  BY <1>1, EmitterHolds, PTL

\* The items of a finished function are entries of the log.
LEMMA ItemsAre ==
  ASSUME TypeInv, TextInv, NEW f \in Finished, NEW it \in ToSet(ItemsOf(f))
  PROVE  \E i \in done[f].first..done[f].last : i \in DOMAIN log /\ it = log[i]
<1> DEFINE a == done[f].first  b == done[f].last  s == SubSeq(log, a, b)
<1>1. a \in Nat /\ b \in Nat /\ a >= 1 /\ b <= Len(log) /\ log \in Seq(Items)
  BY DoneTyped DEF TextInv, TypeInv
<1>2. PICK k \in DOMAIN s : it = s[k]
  BY DEF ToSet, ItemsOf
<1> HIDE DEF a, b
<1>3. DOMAIN log = 1..Len(log) /\ Len(log) \in Nat
  BY <1>1
<1>4. k \in 1..((b - a) + 1) /\ s[k] = log[(a + k) - 1]
  <2>1. s = [i \in 1..((b - a) + 1) |-> log[(a + i) - 1]]
    <3>1. s = [i \in 1..(b - a + 1) |-> log[a + i - 1]]
      BY <1>1
    <3>2. b - a + 1 = (b - a) + 1
      BY <1>1
    <3>3. \A i \in 1..((b - a) + 1) : a + i - 1 = (a + i) - 1
      BY <1>1
    <3> QED
      BY <3>1, <3>2, <3>3
  <2> HIDE DEF s
  <2>2. DOMAIN s = 1..((b - a) + 1)
    BY <2>1
  <2> QED
    BY <2>1, <2>2
<1> HIDE DEF s
<1>5. (a + k) - 1 \in a..b /\ (a + k) - 1 \in DOMAIN log
  BY <1>1, <1>3, <1>4
<1>6. \E i \in a..b : i \in DOMAIN log /\ it = log[i]
  BY <1>2, <1>4, <1>5
<1> QED
  BY <1>6 DEF a, b

\* Every branch of every finished function lands where its target block begins, as
\* long as the text is of a size a displacement of 32 bits spans; patches and labels
\* of one function do not reach into another (emit.c:1129-1152, 1295-1346).
THEOREM BranchesReach == Spec => [](Len(code) <= 2147483647 => BranchesLand)
<1>1. ASSUME IInv, Len(code) <= 2147483647, NEW f \in Finished, NEW b \in BranchTargets(f)
      PROVE  b.at + 4 + Word(code, b.at) = b.target
  <2>1. TypeInv /\ TextInv /\ LandInv
    BY <1>1 DEF IInv, Inv
  <2>2. PICK it \in ToSet(ItemsOf(f)) :
          it.mi.op \in Branches /\ b = [at |-> it.to - 4, target |-> done[f].labels[it.mi.bb + 1]]
    BY DEF BranchTargets
  <2>3. PICK i \in done[f].first..done[f].last : i \in DOMAIN log /\ it = log[i]
    BY <2>1, ItemsAre
  <2> DEFINE to == it.to  L == done[f].labels[it.mi.bb + 1]  w == Word(code, to - 4)
  <2>4. Landed(it, code, done[f].labels)
    BY <2>1, <2>3 DEF LandInv
  <2>5. it.mi.bb < Len(done[f].labels) /\ w = L - to
    BY <1>1, <2>2, <2>4 DEF Landed
  <2>6. to \in Nat /\ it.mi.bb \in Nat
    <3>1. it.to \in Nat /\ it.mi \in Records
      BY <2>1, <2>3, ItemTypes
    <3> QED
      BY <3>1 DEF Records
  <2>7. L \in Nat
    <3>1. done[f].labels \in Seq(Nat)
      BY <2>1, DoneTyped
    <3> DEFINE ls == done[f].labels  bb == it.mi.bb
    <3> HIDE DEF ls, bb
    <3>2. ls \in Seq(Nat) /\ bb \in Nat /\ bb < Len(ls)
      BY <2>5, <2>6, <3>1 DEF ls, bb
    <3>3. bb + 1 \in DOMAIN ls
      BY <3>2
    <3>4. ls[bb + 1] \in Nat
      BY <3>2, <3>3
    <3> QED
      BY <3>4 DEF ls, bb
  <2>8. b.at = to - 4 /\ b.target = L
    BY <2>2
  <2> HIDE DEF to, L, w
  <2>9. (to - 4) + 4 + w = L
    BY <2>5, <2>6, <2>7
  <2> QED
    BY <2>8, <2>9 DEF w
<1>2. IInv => (Len(code) <= 2147483647 => BranchesLand)
  BY <1>1 DEF BranchesLand
<1> QED
  BY <1>2, EmitterHolds, PTL

\* The opcode of a call is decoded as one.
LEMMA CallDecodes ==
  ASSUME NEW c, NEW p, Byte(c, p) = 232
  PROVE  Decode(c, p).i.mn = "call"
<1>1. ~IsRex(232)
  BY DEF IsRex
<1>2. Decode(c, p) = DecodeOp(c, p, 64, FALSE)
  BY <1>1 DEF Decode
<1>3. ~\E mn \in DOMAIN Alu : Alu[mn] = 232
  BY DEF Alu
<1> DEFINE call == Asm("call", 64, NoReg, NoReg, Wide(Word(c, p + 1)))
<1>4. DecodeOp(c, p, 64, FALSE) = [i |-> call, len |-> 5]
  BY <1>3, SMTT(60) DEF DecodeOp
<1>5. call.mn = "call"
  BY DEF Asm
<1> HIDE DEF call
<1> DEFINE d == Decode(c, p)  e == DecodeOp(c, p, 64, FALSE)
<1>6. d = e
  BY <1>2
<1>7. e = [i |-> call, len |-> 5]
  BY <1>4
<1> HIDE DEF d, e
<1>8. d.i = call
  BY <1>6, <1>7
<1> QED
  BY <1>5, <1>8 DEF d

\* Where no function has the name of another, a name has one definition: the
\* function finished with it.
LEMMA OneDefinition ==
  ASSUME TypeInv, SymInv, phase # "blocks", ~Clashing, NEW name, name # ".rodata"
  PROVE  IF \E g \in Finished : done[g].name = name
         THEN \E d \in Definitions(name) :
                /\ Definitions(name) = {d}
                /\ \E g \in Finished : done[g].name = name /\ syms[d].value = done[g].start
         ELSE Definitions(name) = {}
<1>1. ASSUME NEW e \in Definitions(name)
      PROVE  e \in DOMAIN syms /\ \E g \in Finished : Marks(syms[e], done[g].name, done[g].start) /\ done[g].name = name
  <2>1. e \in DOMAIN syms /\ syms[e].name = name /\ syms[e].shndx # UNDEF
    BY DEF Definitions
  <2>2. syms[e].shndx \in 0..2
    <3>1. syms[e] \in Symbols
      BY <2>1, SymFields DEF TypeInv
    <3> QED
      BY <3>1 DEF Symbols
  <2>3. syms[e].shndx # RODATA
    BY <2>1 DEF SymInv
  <2>4. syms[e].shndx = TEXT
    BY <2>1, <2>2, <2>3 DEF UNDEF, TEXT, RODATA
  <2>5. PICK g \in Finished : Marks(syms[e], done[g].name, done[g].start)
    BY <2>1, <2>4 DEF SymInv
  <2> QED
    BY <2>1, <2>5 DEF Marks
<1>2. CASE \E g \in Finished : done[g].name = name
  <2>1. PICK g \in Finished : done[g].name = name
    BY <1>2
  <2>2. PICK d \in DOMAIN syms : Marks(syms[d], done[g].name, done[g].start)
    BY DEF SymInv
  <2>3. d \in Definitions(name)
    BY <2>1, <2>2, Sections DEF Definitions, Marks
  <2>4. ASSUME NEW e \in Definitions(name) PROVE e = d
    <3>1. PICK h \in Finished : Marks(syms[e], done[h].name, done[h].start) /\ done[h].name = name
      BY <1>1
    <3>2. h = g
      BY <2>1, <3>1 DEF Clashing
    <3>3. e \in DOMAIN syms
      BY <1>1
    <3>4. syms[e].shndx = TEXT /\ syms[d].shndx = TEXT /\ syms[e].value = syms[d].value
      BY <2>2, <3>1, <3>2 DEF Marks
    <3>5. \A k, l \in DOMAIN syms :
            syms[k].shndx = TEXT /\ syms[l].shndx = TEXT /\ syms[k].value = syms[l].value => k = l
      BY DEF SymInv
    <3> QED
      BY <3>3, <3>4, <3>5
  <2>5. Definitions(name) = {d}
    BY <2>3, <2>4
  <2>6. syms[d].value = done[g].start
    BY <2>2 DEF Marks
  <2> QED
    BY <1>2, <2>1, <2>3, <2>5, <2>6
<1>3. CASE ~\E g \in Finished : done[g].name = name
  BY <1>1, <1>3
<1> QED
  BY <1>2, <1>3

\* Each call, those of the print routine included, has exactly one relocation, of the
\* field after its opcode, to the symbol of the name it calls; a function of the object
\* is the only definition of its name (emit.c:1182-1206, 263-290, 1352-1404).
THEOREM CallsReachTheirs == Spec => []CallsReach
<1>1. ASSUME IInv, phase = "helper", ~Clashing, NEW f \in Finished,
             NEW it \in ToSet(ItemsOf(f)), it.mi.op = "CALL"
      PROVE  \E k \in DOMAIN relocs :
               LET r == relocs[k]  name == it.mi.name  defs == Definitions(syms[r.sym + 1].name) IN
               /\ r.offset \in it.at..it.to
               /\ Decode(code, r.offset - 1).i.mn = "call" /\ r.type = "PLT32" /\ r.addend = -4
               /\ syms[r.sym + 1].name = name
               /\ IF \E g \in Finished : done[g].name = name
                  THEN \E d \in defs : defs = {d} /\ \E g \in Finished : done[g].name = name /\ syms[d].value = done[g].start
                  ELSE defs = {}
               /\ \A j \in DOMAIN relocs : j # k => relocs[j].offset \notin it.at..it.to
  <2>1. TypeInv /\ TextInv /\ SymInv /\ RelInv
    BY <1>1 DEF IInv, Inv
  <2>2. PICK i \in DOMAIN log : it = log[i]
    BY <2>1, ItemsAre
  <2>3. Called(it, code, syms, relocs)
    BY <2>1, <2>2 DEF RelInv
  <2>4. it.mi.name # ".rodata"
    BY <1>1, <2>3 DEF Called
  <2>5. PICK k \in DOMAIN relocs :
          /\ Calls(relocs[k], it, code, syms)
          /\ \A j \in DOMAIN relocs : j # k => relocs[j].offset \notin it.at..it.to
    BY <1>1, <2>3 DEF Called
  <2> DEFINE r == relocs[k]  o == r.offset
  <2>6. o \in Nat /\ it.at \in Nat /\ it.to \in Nat
    BY <2>1, <2>2, RelocTyped, ItemTypes
  <2>7. /\ o > it.at /\ o + 4 <= it.to /\ code[o] = 232 /\ r.type = "PLT32" /\ r.addend = -4
        /\ syms[r.sym + 1].name = it.mi.name
    BY <2>5 DEF Calls
  <2>8. Decode(code, o - 1).i.mn = "call"
    <3> HIDE DEF o
    <3>1. (o - 1) + 1 = o
      BY <2>6
    <3>2. Byte(code, o - 1) = 232
      BY <2>7, <3>1 DEF Byte
    <3> QED
      BY <3>2, CallDecodes
  <2>9. o \in it.at..it.to
    <3> HIDE DEF o
    <3> QED
      BY <2>6, <2>7
  <2> DEFINE name == it.mi.name
  <2>10. IF \E g \in Finished : done[g].name = name
         THEN \E d \in Definitions(name) :
                /\ Definitions(name) = {d}
                /\ \E g \in Finished : done[g].name = name /\ syms[d].value = done[g].start
         ELSE Definitions(name) = {}
    <3> HIDE DEF name
    <3>1. name # ".rodata" /\ phase # "blocks"
      BY <1>1, <2>4 DEF name
    <3> QED
      BY <1>1, <2>1, <3>1, OneDefinition
  <2>11. Definitions(syms[r.sym + 1].name) = Definitions(name)
    BY <2>7
  <2> HIDE DEF name
  <2> QED
    BY <2>5, <2>7, <2>8, <2>9, <2>10, <2>11 DEF name
<1>2. IInv => CallsReach
  BY <1>1 DEF CallsReach
<1> QED
  BY <1>2, EmitterHolds, PTL

\* Offsets are rounded up, to a multiple.
LEMMA AlignIs ==
  ASSUME NEW n \in Nat, NEW a \in {1, 8, 16}
  PROVE  Align(n, a) \in Nat /\ Align(n, a) >= n /\ Align(n, a) % a = 0 /\ (a = 16 => Align(n, a) % 8 = 0)
<1>1. CASE a = 1
  BY <1>1 DEF Align
<1>2. CASE a = 8
  BY <1>2 DEF Align
<1>3. CASE a = 16
  BY <1>3 DEF Align
<1> QED
  BY <1>1, <1>2, <1>3

SizedSection(s) == s.off \in Nat /\ s.size \in Nat

LEMMA SectionIs ==
  ASSUME NEW s, SizedSection(s), NEW a \in {8, 16}, NEW name, NEW n \in Nat, NEW d \in {1, 8}
  PROVE  LET t == Section(name, After(s, a), n, d) IN
         SizedSection(t) /\ t.size = n /\ t.off % t.align = 0 /\ s.off + s.size <= t.off
<1> DEFINE at == After(s, a)
<1>1. s.off + s.size \in Nat
  BY DEF SizedSection
<1>2. at \in Nat /\ at >= s.off + s.size /\ at % a = 0 /\ (a = 16 => at % 8 = 0)
  <2> DEFINE b == s.off + s.size
  <2>1. a \in {1, 8, 16} /\ b \in Nat
    BY <1>1
  <2>2. at = Align(b, a)
    BY DEF After
  <2> HIDE DEF at, b
  <2>3. at \in Nat /\ at >= b /\ at % a = 0 /\ (a = 16 => at % 8 = 0)
    BY <2>1, <2>2, AlignIs, ZenonT(30)
  <2> QED
    BY <2>3 DEF b
<1> HIDE DEF at
<1>3. at % d = 0
  BY <1>2
<1> DEFINE t == Section(name, at, n, d)
<1>4. t.off = at /\ t.size = n /\ t.align = d
  BY DEF Section
<1> HIDE DEF t
<1>5. SizedSection(t) /\ t.size = n /\ t.off % t.align = 0 /\ s.off + s.size <= t.off
  BY <1>1, <1>2, <1>3, <1>4 DEF SizedSection
<1> QED
  BY <1>5 DEF t, at

SectionsSound(ss, len) ==
  /\ Len(ss) = 7 /\ ss[1].size = len
  /\ \A k \in DOMAIN ss : ss[k].off % ss[k].align = 0
  /\ \A k \in 1..(Len(ss) - 1) : ss[k].off + ss[k].size <= ss[k + 1].off

LEMMA ChainIs ==
  ASSUME NEW len \in Nat, NEW ro \in Nat, NEW nr \in Nat, NEW ns \in Nat, NEW nt \in Nat
  PROVE  SectionsSound(Chain(Section(".text", HeaderLen, len, 16), ro, nr, ns, nt), len)
<1> DEFINE s1 == Section(".text", HeaderLen, len, 16)  s2 == Ro(s1, ro)  s3 == Rela(s2, nr)  s4 == Symtab(s3, ns)
           s5 == Str(s4, nt)  s6 == Shstr(s5)  s7 == Headers(s6)  ss == Chain(s1, ro, nr, ns, nt)
<1>1. ss = <<s1, s2, s3, s4, s5, s6, s7>>
  BY DEF Chain
<1>2. SizedSection(s1) /\ s1.size = len /\ s1.off % s1.align = 0
  BY DEF Section, HeaderLen, SizedSection
<1> HIDE DEF s1, ss
<1>3. SizedSection(s2) /\ s2.off % s2.align = 0 /\ s1.off + s1.size <= s2.off
  BY <1>2, SectionIs DEF Ro
<1> HIDE DEF s2
<1>4. SizedSection(s3) /\ s3.off % s3.align = 0 /\ s2.off + s2.size <= s3.off
  <2>1. 24 * nr \in Nat
    OBVIOUS
  <2> QED
    BY <1>3, <2>1, SectionIs DEF Rela
<1> HIDE DEF s3
<1>5. SizedSection(s4) /\ s4.off % s4.align = 0 /\ s3.off + s3.size <= s4.off
  <2>1. 24 * ns \in Nat
    OBVIOUS
  <2> QED
    BY <1>4, <2>1, SectionIs DEF Symtab
<1> HIDE DEF s4
<1>6. SizedSection(s5) /\ s5.off % s5.align = 0 /\ s4.off + s4.size <= s5.off
  BY <1>5, SectionIs DEF Str
<1> HIDE DEF s5
<1>7. SizedSection(s6) /\ s6.off % s6.align = 0 /\ s5.off + s5.size <= s6.off
  <2>1. ShstrtabLen \in Nat
    BY DEF ShstrtabLen
  <2> QED
    BY <1>6, <2>1, SectionIs DEF Shstr
<1> HIDE DEF s6
<1>8. SizedSection(s7) /\ s7.off % s7.align = 0 /\ s6.off + s6.size <= s7.off
  <2>1. 7 * 64 \in Nat
    OBVIOUS
  <2> QED
    BY <1>7, <2>1, SectionIs DEF Headers
<1> HIDE DEF s7
<1>9. /\ Len(ss) = 7 /\ DOMAIN ss = 1..7 /\ ss[1] = s1 /\ ss[2] = s2 /\ ss[3] = s3 /\ ss[4] = s4 /\ ss[5] = s5
      /\ ss[6] = s6 /\ ss[7] = s7
  BY <1>1
<1>10. ASSUME NEW k \in DOMAIN ss PROVE ss[k].off % ss[k].align = 0
  <2>1. k = 1 \/ k = 2 \/ k = 3 \/ k = 4 \/ k = 5 \/ k = 6 \/ k = 7
    BY <1>9
  <2> QED
    BY <2>1, <1>9, <1>2, <1>3, <1>4, <1>5, <1>6, <1>7, <1>8
<1>11. ASSUME NEW k \in 1..(Len(ss) - 1) PROVE ss[k].off + ss[k].size <= ss[k + 1].off
  <2>1. k = 1 \/ k = 2 \/ k = 3 \/ k = 4 \/ k = 5 \/ k = 6
    BY <1>9
  <2>2. 1 + 1 = 2 /\ 2 + 1 = 3 /\ 3 + 1 = 4 /\ 4 + 1 = 5 /\ 5 + 1 = 6 /\ 6 + 1 = 7
    OBVIOUS
  <2> QED
    BY <2>1, <2>2, <1>9, <1>3, <1>4, <1>5, <1>6, <1>7, <1>8
<1>12. SectionsSound(ss, len)
  BY <1>2, <1>9, <1>10, <1>11 DEF SectionsSound
<1> QED
  BY <1>12 DEF ss, s1

\* The sections of the file follow one another aligned and without overlap, symbols
\* and relocations lie in the text, whatever was emitted (emit.c:1489-1545).  The sizes of
\* functions whose calls added no symbol are right; of the others, which emit.c:1345 need
\* not give one, nothing is said.
THEOREM FileIsSound == Spec => []FileSound
<1>1. ASSUME IInv, file # <<>>
      PROVE  LET ss == file.sections IN
             /\ \A k \in DOMAIN ss : ss[k].off % ss[k].align = 0
             /\ \A k \in 1..(Len(ss) - 1) : ss[k].off + ss[k].size <= ss[k + 1].off
             /\ \A k \in DOMAIN syms : syms[k].shndx = TEXT => syms[k].value < ss[1].size
             /\ \A k \in DOMAIN relocs : relocs[k].sym \in 1..(Len(syms) - 1) /\ relocs[k].offset + 4 <= ss[1].size
             /\ SizesRight
  <2>1. TypeInv /\ SymInv /\ RelInv /\ FileInv
    BY <1>1 DEF IInv, Inv
  <2>2. file.sections = Layout
    BY <1>1, <2>1 DEF FileInv
  <2>3. Len(code) \in Nat /\ rodata \in Nat /\ Len(relocs) \in Nat /\ Len(syms) \in Nat /\ strtab \in Nat
    BY <2>1 DEF TypeInv
  <2> DEFINE ss == file.sections  n == Len(code)  nr == Len(relocs)  ns == Len(syms)
  <2>4. ss = Chain(Section(".text", HeaderLen, n, 16), rodata, nr, ns, strtab)
    BY <2>2, LayoutIs
  <2>5. SectionsSound(ss, n)
    <3> HIDE DEF ss, n, nr, ns
    <3>1. n \in Nat /\ nr \in Nat /\ ns \in Nat /\ rodata \in Nat /\ strtab \in Nat
      BY <2>3 DEF n, nr, ns
    <3> QED
      BY <2>4, <3>1, ChainIs
  <2>6. SizesRight
    BY <2>1 DEF SymInv, SizesRight, Sized, Marks
  <2>7. \A k \in DOMAIN syms : syms[k].shndx = TEXT => syms[k].value < n
    BY <2>1 DEF SymInv
  <2>8. \A k \in DOMAIN relocs : relocs[k].sym \in 1..(Len(syms) - 1) /\ relocs[k].offset + 4 <= n
    BY <2>1 DEF RelInv
  <2> HIDE DEF ss, n
  <2> QED
    BY <2>5, <2>6, <2>7, <2>8 DEF ss, SectionsSound
<1>2. IInv => FileSound
  BY <1>1 DEF FileSound
<1> QED
  BY <1>2, EmitterHolds, PTL

===============================================================================
