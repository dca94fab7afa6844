------------------------------- MODULE ArenaProof -------------------------------
(***************************************************************************)
(* The blocks of an arena are sound: for every page size, request and      *)
(* choice of malloc, blocks lie in pages held, apart from one another,     *)
(* with room for what was asked, until a request comes so near SIZE_MAX    *)
(* that its sums wrap.  How far from it requests must stay for that never  *)
(* to happen is proved last.                                               *)
(*                                                                         *)
(* NoOverlap is not inductive: that a new block is apart from those of     *)
(* other pages follows only from the pages being apart and no page used    *)
(* beyond its capacity, and from each block lying in a page.  That the     *)
(* pages lie in memory is what keeps the addresses from wrapping.          *)
(***************************************************************************)
EXTENDS Arena, TLAPS

Words == 0..(WordSize - 1)
PageSet == [base : Words, capacity : Words, used : Words]
BlockSet == [ptr : Words, size : Words, align : Aligns, wanted : Nat]

PageOK(p) ==
  /\ p \in PageSet
  /\ p.used <= p.capacity /\ p.capacity # 0
  /\ p.base + p.capacity <= MaxAddr + 1
PagesApart(p, q) == Apart(p.base, p.capacity, q.base, q.capacity)
Holds(p, b) == p.base <= b.ptr /\ b.ptr + b.size <= p.base + p.used

\* The pages, of which c is being filled and the others are os.
PagesSound(c, os) ==
  /\ PageOK(c)
  /\ \A p \in os : PageOK(p) /\ PagesApart(c, p)
  /\ \A p, q \in os : p # q => PagesApart(p, q)
BlocksHeld(c, os) == \A b \in blocks : \E p \in {c} \cup os : Holds(p, b)

AllApart == \A b, c \in blocks : b # c => Apart(b.ptr, b.size, c.ptr, c.size)
Covered == \A b \in blocks : b.wanted <= b.size

Typed ==
  /\ Pages \subseteq PageSet
  /\ blocks \subseteq BlockSet
  /\ total \in Words
  /\ state \in {"live", "destroyed", "exited", "undefined"}

Sound ==
  /\ PagesSound(current, older)
  /\ BlocksHeld(current, older)
  /\ AllApart
  /\ Covered

IInv ==
  /\ Typed
  /\ Aligned
  /\ state # "undefined" => Sound

-------------------------------------------------------------------------------

\* A word is a word, and what is less than one stays as it is.
LEMMA WordOf ==
  ASSUME NEW n \in Nat
  PROVE  Word(n) \in Words /\ (n < WordSize => Word(n) = n)
<1>1. WordSize \in Nat \ {0}
  BY ArenaAssumption
<1>2. \A w \in Nat \ {0} : n % w \in 0..(w - 1) /\ (n < w => n % w = n)
  OBVIOUS
<1> QED
  BY <1>1, <1>2 DEF Word, Words

\* The padding of an address is less than the alignment.
LEMMA PaddingBounds ==
  ASSUME NEW n \in Nat, NEW a \in Nat \ {0}
  PROVE  Padding(n, a) \in 0..(a - 1)
<1>1. n % a \in 0..(a - 1)
  OBVIOUS
<1>2. \A m \in Nat : m % a \in 0..(a - 1)
  OBVIOUS
<1> QED
  BY <1>1, <1>2 DEF Padding

\* A new page is less than a word long, and has room for the request it is made for
\* unless rounding that up wraps.
LEMMA CapacityEnough ==
  ASSUME NEW m \in Words
  PROVE  /\ Capacity(m) \in Words
         /\ \/ m > PageSize /\ m + PageSize - 1 >= WordSize
            \/ Capacity(m) # 0 /\ Capacity(m) >= m
<1>1. PageSize \in Nat \ {0} /\ PageSize < WordSize /\ WordSize \in Nat /\ m \in Nat
  BY ArenaAssumption DEF Words
<1>2. \A x, p \in Nat : p # 0 => /\ (x \div p) * p \in Nat
                               /\ (x \div p) * p > x - p /\ (x \div p) * p <= x
  OBVIOUS
<1>3. CASE m > PageSize
  <2> DEFINE x == Word(m + PageSize - 1)
             c == (x \div PageSize) * PageSize
  <2>1. m + PageSize - 1 \in Nat
    BY <1>1
  <2>2. x \in Words /\ (m + PageSize - 1 < WordSize => x = m + PageSize - 1)
    BY <2>1, WordOf
  <2>3. Capacity(m) = c
    BY <1>3 DEF Capacity
  <2> HIDE DEF x
  <2>4. x \in Nat
    BY <2>2 DEF Words
  <2>5. c \in Nat /\ c > x - PageSize /\ c <= x
    BY <1>1, <1>2, <2>4
  <2> HIDE DEF c
  <2>6. c \in Words
    BY <1>1, <2>2, <2>5 DEF Words
  <2>7. m + PageSize - 1 < WordSize => c >= m
    BY <1>1, <2>2, <2>5
  <2> QED
    BY <1>1, <1>3, <2>3, <2>5, <2>6, <2>7
<1>4. CASE ~(m > PageSize)
  BY <1>1, <1>4 DEF Capacity, Words
<1> QED
  BY <1>3, <1>4

\* A multiple leaves no remainder.
LEMMA Multiple ==
  ASSUME NEW a \in Nat \ {0}, NEW k \in Nat
  PROVE  (a * k) % a = 0
<1>1. \A q, r \in Int : a * k = a * q + r /\ r \in 0..(a-1) => r = 0
  <2> SUFFICES ASSUME NEW q \in Int, NEW r \in 0..(a-1), a * k = a * q + r PROVE r = 0
    OBVIOUS
  <2>1. r = a * (k - q)
    OBVIOUS
  <2>2. CASE k - q <= 0
    <3>1. a * (k - q) <= 0
      BY <2>2
    <3> QED
      BY <2>1, <3>1
  <2>3. CASE k - q >= 1
    <3>1. a * (k - q) >= a
      BY <2>3
    <3> QED
      BY <2>1, <3>1
  <2> QED
    BY <2>2, <2>3
<1>2. a * k \in Nat
  OBVIOUS
<1> DEFINE n == a * k
<1>3. n \in Nat
  BY <1>2
<1> HIDE DEF n
<1>4. n = a * (n \div a) + (n % a) /\ n % a \in 0..(a-1) /\ n \div a \in Int
  BY <1>3
<1>5. \A q \in Int : n = a * q + (n % a) => n % a = 0
  BY <1>1, <1>4 DEF n
<1>6. n % a = 0
  BY <1>4, <1>5
<1> QED
  BY <1>6 DEF n

\* An address with its padding is a multiple of the alignment.
LEMMA PaddingAligns ==
  ASSUME NEW n \in Nat, NEW a \in Nat \ {0}
  PROVE  (n + Padding(n, a)) % a = 0
<1> DEFINE q == n \div a
           r == n % a
<1>1. n = a * q + r /\ q \in Nat /\ r \in 0..(a - 1)
  OBVIOUS
<1>2. CASE r = 0
  <2>1. Padding(n, a) = a % a
    BY <1>1, <1>2 DEF Padding
  <2>2. a % a = 0
    OBVIOUS
  <2>3. n + Padding(n, a) = a * q
    BY <1>1, <1>2, <2>1, <2>2
  <2> QED
    BY <1>1, <2>3, Multiple
<1>3. CASE r # 0
  <2>1. (a - r) % a = a - r
    BY <1>1, <1>3
  <2>2. n + Padding(n, a) = a * (q + 1)
    BY <1>1, <2>1 DEF Padding
  <2> QED
    BY <1>1, <2>2, Multiple
<1> QED
  BY <1>2, <1>3

\* Wrapping at a multiple of the alignment keeps an address aligned.
LEMMA WordAligned ==
  ASSUME NEW n \in Nat, NEW a \in Aligns, n % a = 0
  PROVE  Word(n) % a = 0
<1>1. a \in Nat \ {0} /\ WordSize \in Nat \ {0} /\ WordSize % a = 0
  BY ArenaAssumption
<1>2. \A x \in Nat, y \in Nat \ {0} :
        x = y * (x \div y) + (x % y) /\ x \div y \in Nat /\ x % y \in Nat
  OBVIOUS
<1> DEFINE q == n \div WordSize
           r == n % WordSize
           kn == n \div a
           kw == WordSize \div a
           k == kn - kw * q
<1>3. n = WordSize * q + r /\ q \in Nat /\ r \in Nat
  BY <1>1, <1>2
<1>4. n = a * kn /\ kn \in Nat
  BY <1>1, <1>2
<1>5. WordSize = a * kw /\ kw \in Nat
  BY <1>1, <1>2
<1> HIDE DEF q, r, kn, kw
<1>6. k \in Int
  BY <1>3, <1>4, <1>5
<1>7. r = a * k
  <2>1. a * kn = (a * kw) * q + r
    BY <1>3, <1>4, <1>5
  <2>2. (a * kw) * q = a * (kw * q)
    BY <1>1, <1>3, <1>5
  <2>3. a * k = a * kn - a * (kw * q)
    BY <1>1, <1>3, <1>4, <1>5
  <2>4. a * kn \in Int /\ a * (kw * q) \in Int
    BY <1>1, <1>3, <1>4, <1>5
  <2> QED
    BY <1>3, <2>1, <2>2, <2>3, <2>4
<1> HIDE DEF k
<1>8. k \in Nat
  <2>1. k < 0 => a * k < 0
    BY <1>1, <1>6
  <2> QED
    BY <1>3, <1>6, <1>7, <2>1
<1>9. (a * k) % a = 0
  BY <1>1, <1>8, Multiple
<1> QED
  BY <1>7, <1>9 DEF Word, r

\* A product the overflow check lets pass has not wrapped.
LEMMA WrapEnough ==
  ASSUME NEW c \in Nat, NEW s \in Nat, ~Overflow(c, s)
  PROVE  c * s <= Word(c * s) /\ Word(c * s) \in Words
<1>1. \A x \in Nat, k \in Nat \ {0} : k * (x \div k) <= x
  OBVIOUS
<1>2. c * s \in Nat
  OBVIOUS
<1>3. Word(c * s) \in Words
  BY <1>2, WordOf
<1>4. Word(c * s) \in Nat
  BY <1>3 DEF Words
<1>5. CASE c = 0
  BY <1>3, <1>4, <1>5
<1>6. CASE c # 0
  <2>1. Word(c * s) \div c = s
    BY <1>6 DEF Overflow
  <2> QED
    BY <1>1, <1>3, <1>4, <1>6, <2>1
<1> QED
  BY <1>5, <1>6

-------------------------------------------------------------------------------

\* Filling a page keeps the types and the alignment, be it the page in use or a new
\* one, also where the sums wrap.
LEMMA BumpTyped ==
  ASSUME Typed, Aligned,
         NEW p \in PageSet, NEW size \in Words, NEW align \in Aligns, NEW wanted \in Nat,
         Bump(p, size, align, wanted), older' \subseteq PageSet,
         state' \in {"live", "destroyed", "exited", "undefined"}
  PROVE  Typed' /\ Aligned'
<1> DEFINE pad == Padding(p.base + p.used, align)
           ptr == Word(p.base + p.used + pad)
           new == [ptr |-> ptr, size |-> size, align |-> align, wanted |-> wanted]
<1>1. p.base \in Nat /\ p.used \in Nat /\ size \in Nat /\ total \in Nat
  BY DEF PageSet, Words, Typed
<1>2. align \in Nat \ {0}
  BY ArenaAssumption
<1>3. pad \in Nat /\ ((p.base + p.used) + pad) % align = 0
  <2>1. p.base + p.used \in Nat
    BY <1>1
  <2>2. \A x \in 0..(align - 1) : x \in Nat
    BY <1>2
  <2> QED
    BY <1>2, <2>1, <2>2, PaddingBounds, PaddingAligns
<1>4. /\ current' = [p EXCEPT !.used = Word(p.used + pad + size)]
      /\ total' = Word(total + pad + size)
      /\ blocks' = blocks \cup {new}
  BY DEF Bump
<1> HIDE DEF pad
<1>5. Word(p.used + pad + size) \in Words /\ Word(total + pad + size) \in Words
  <2>1. p.used + pad + size \in Nat /\ total + pad + size \in Nat
    BY <1>1, <1>3
  <2> QED
    BY <2>1, WordOf
<1>6. ptr \in Words /\ ptr % align = 0
  <2>1. p.base + p.used + pad \in Nat
    BY <1>1, <1>3
  <2> QED
    BY <1>3, <2>1, WordOf, WordAligned
<1> HIDE DEF ptr
<1>7. current' \in PageSet
  BY <1>4, <1>5 DEF PageSet
<1>8. new \in BlockSet
  BY <1>6 DEF BlockSet
<1>9. Typed'
  BY <1>4, <1>5, <1>7, <1>8 DEF Typed, Pages
<1>10. Aligned'
  BY <1>4, <1>6 DEF Aligned
<1> QED
  BY <1>9, <1>10

\* Filling a page that has room keeps the blocks sound.
LEMMA BumpSound ==
  ASSUME Typed, Sound,
         NEW p, NEW size \in Words \ {0}, NEW align \in Aligns, NEW wanted \in Nat,
         wanted <= size,
         PagesSound(p, older'), BlocksHeld(p, older'),
         p.used + Padding(p.base + p.used, align) + size <= p.capacity,
         Bump(p, size, align, wanted)
  PROVE  Sound'
<1> DEFINE pad == Padding(p.base + p.used, align)
           ptr == p.base + p.used + pad
           new == [ptr |-> ptr, size |-> size, align |-> align, wanted |-> wanted]
<1>1. p \in PageSet /\ p.base + p.capacity <= MaxAddr + 1
  BY DEF PagesSound, PageOK
<1>2. /\ p.base \in Nat /\ p.used \in Nat /\ p.capacity \in Nat /\ size \in Nat
      /\ p.capacity < WordSize
  BY <1>1, ArenaAssumption DEF PageSet, Words
<1>3. pad \in Nat
  <2>1. align \in Nat \ {0} /\ p.base + p.used \in Nat
    BY <1>2, ArenaAssumption
  <2>2. \A x \in 0..(align - 1) : x \in Nat
    BY <2>1
  <2> QED
    BY <2>1, <2>2, PaddingBounds
<1>4. p.used + pad + size <= p.capacity
  OBVIOUS
<1>5. /\ current' = [p EXCEPT !.used = Word(p.used + pad + size)]
      /\ blocks' = blocks \cup {[ptr |-> Word(ptr), size |-> size, align |-> align,
                                 wanted |-> wanted]}
  BY DEF Bump
<1> HIDE DEF pad
<1>6. Word(p.used + pad + size) = p.used + pad + size
  <2>1. p.used + pad + size \in Nat /\ p.used + pad + size < WordSize
    BY <1>2, <1>3, <1>4, ArenaAssumption
  <2> QED
    BY <2>1, WordOf
<1>7. Word(ptr) = ptr
  <2>1. ptr \in Nat /\ ptr < WordSize
    BY <1>1, <1>2, <1>3, <1>4, ArenaAssumption
  <2> HIDE DEF ptr
  <2> QED
    BY <2>1, WordOf
<1>8. blocks' = blocks \cup {new}
  BY <1>5, <1>7
<1>9. /\ current' \in PageSet /\ current'.base = p.base /\ current'.capacity = p.capacity
      /\ current'.used = p.used + pad + size
  <2>1. p.used + pad + size \in Words
    BY <1>2, <1>3, <1>4, ArenaAssumption DEF Words
  <2> QED
    BY <1>1, <1>5, <1>6, <2>1 DEF PageSet
<1>10. PagesSound(current', older')
  BY <1>4, <1>9 DEF PagesSound, PageOK, PagesApart
<1>11. blocks \subseteq BlockSet
  BY DEF Typed
<1>12. \A b \in blocks : b.ptr \in Nat /\ b.size \in Nat
  BY <1>11 DEF BlockSet, Words
<1>13. Holds(current', new)
  BY <1>2, <1>3, <1>9 DEF Holds
<1>14. \A b \in blocks : \E q \in {current'} \cup older' : Holds(q, b)
  <2> SUFFICES ASSUME NEW b \in blocks
               PROVE  \E q \in {current'} \cup older' : Holds(q, b)
    OBVIOUS
  <2>1. PICK q \in {p} \cup older' : Holds(q, b)
    BY DEF BlocksHeld
  <2>2. CASE q = p
    <3>1. Holds(current', b)
      BY <1>2, <1>3, <1>9, <1>12, <2>1, <2>2 DEF Holds
    <3> QED
      BY <3>1
  <2>3. CASE q # p
    BY <2>1, <2>3
  <2> QED
    BY <2>2, <2>3
<1>15. \A b \in blocks : Apart(b.ptr, b.size, ptr, size)
  <2> SUFFICES ASSUME NEW b \in blocks
               PROVE  Apart(b.ptr, b.size, ptr, size)
    OBVIOUS
  <2>1. PICK q \in {p} \cup older' : Holds(q, b)
    BY DEF BlocksHeld
  <2>2. b.ptr \in Nat /\ b.size \in Nat
    BY <1>12
  <2>3. CASE q = p
    <3>1. b.ptr + b.size <= p.base + p.used
      BY <2>1, <2>3 DEF Holds
    <3> QED
      BY <1>2, <1>3, <2>2, <3>1 DEF Apart
  <2>4. CASE q \in older'
    <3>1. q \in PageSet /\ q.used <= q.capacity /\ PagesApart(p, q)
      BY <2>4 DEF PagesSound, PageOK
    <3>2. q.base \in Nat /\ q.used \in Nat /\ q.capacity \in Nat
      BY <3>1 DEF PageSet, Words
    <3>3. q.base <= b.ptr /\ b.ptr + b.size <= q.base + q.capacity
      BY <2>1, <2>2, <3>1, <3>2 DEF Holds
    <3>4. p.base <= ptr /\ ptr + size <= p.base + p.capacity
      BY <1>2, <1>3, <1>4
    <3> QED
      BY <1>2, <1>3, <2>2, <3>1, <3>2, <3>3, <3>4 DEF PagesApart, Apart
  <2> QED
    BY <2>1, <2>3, <2>4
<1>16. BlocksHeld(current, older)'
  <2>1. \A b \in blocks' : \E q \in {current'} \cup older' : Holds(q, b)
    BY <1>8, <1>13, <1>14
  <2> QED
    BY <2>1 DEF BlocksHeld
<1>17. AllApart'
  <2> SUFFICES ASSUME NEW b \in blocks', NEW c \in blocks', b # c
               PROVE  Apart(b.ptr, b.size, c.ptr, c.size)
    BY DEF AllApart
  <2>1. CASE b \in blocks /\ c \in blocks
    BY <2>1 DEF Sound, AllApart
  <2>2. CASE b \in blocks /\ c = new
    BY <1>15, <2>2
  <2>3. CASE b = new /\ c \in blocks
    <3>1. Apart(c.ptr, c.size, b.ptr, b.size)
      BY <1>15, <2>3
    <3> QED
      BY <3>1 DEF Apart
  <2> QED
    BY <1>8, <2>1, <2>2, <2>3
<1>18. Covered'
  BY <1>8 DEF Sound, Covered
<1>19. PagesSound(current, older)'
  BY <1>10 DEF PagesSound, PageOK, PagesApart
<1> QED
  BY <1>16, <1>17, <1>18, <1>19 DEF Sound

-------------------------------------------------------------------------------

\* What changes nothing but the state keeps the invariant.
LEMMA SameBlocks ==
  ASSUME IInv, UNCHANGED <<current, older, total, blocks>>,
         state' \in {"live", "destroyed", "exited", "undefined"},
         state' # "undefined" => state # "undefined"
  PROVE  IInv'
<1>1. Typed' /\ Aligned'
  BY DEF IInv, Typed, Pages, Aligned
<1>2. Sound => Sound'
  BY DEF Sound, PagesSound, PageOK, PagesApart, BlocksHeld, Holds, AllApart, Covered
<1> QED
  BY <1>1, <1>2 DEF IInv

\* A request keeps the invariant, whether it fits, needs a page or gets none.
LEMMA AllocKeeps ==
  ASSUME IInv, state = "live",
         NEW size \in Words, NEW align \in Aligns, NEW wanted \in Nat, wanted <= size,
         AllocAligned(size, align, wanted)
  PROVE  IInv'
<1>0. /\ Typed /\ Aligned /\ Sound
      /\ current \in PageSet /\ older \subseteq PageSet
  BY DEF IInv, Typed, Pages
<1>1. align \in Nat \ {0} /\ size \in Nat
  BY ArenaAssumption DEF Words
<1>2. CASE UNCHANGED vars
  BY <1>2, SameBlocks DEF IInv, Typed, vars
<1>3. CASE /\ size # 0 /\ Fits(size, align)
           /\ Bump(current, size, align, wanted)
           /\ state' = IF Wraps(size, align) THEN "undefined" ELSE state
           /\ UNCHANGED older
  <2>1. Typed' /\ Aligned'
    BY <1>0, <1>3, BumpTyped
  <2>2. CASE Wraps(size, align)
    BY <1>3, <2>1, <2>2 DEF IInv
  <2>3. CASE ~Wraps(size, align)
    <3>1. PagesSound(current, older') /\ BlocksHeld(current, older')
      BY <1>0, <1>3 DEF Sound
    <3>2. Needed(size, align) \in Nat
      <4>1. current.base \in Nat /\ current.used \in Nat
        BY <1>0 DEF PageSet, Words
      <4>2. current.base + current.used \in Nat
        BY <4>1
      <4>3. Padding(current.base + current.used, align) \in 0..(align - 1)
        BY <1>1, <4>2, PaddingBounds
      <4> QED
        BY <1>1, <4>1, <4>3 DEF Needed
    <3>3. Needed(size, align) < WordSize
      BY <1>3, <2>3, <3>2, ArenaAssumption DEF Wraps
    <3>4. Needed(size, align) <= current.capacity
      BY <1>3, <3>2, <3>3, WordOf DEF Fits
    <3>5. Sound'
      BY <1>0, <1>3, <3>1, <3>4, BumpSound DEF Needed
    <3> QED
      BY <2>1, <3>5 DEF IInv
  <2> QED
    BY <2>2, <2>3
<1>4. CASE /\ size # 0 /\ ~Fits(size, align)
           /\ \E b \in FreeBases(NewPageFor(size, align)) :
                Bump(Page(b, NewPageFor(size, align), 0), size, align, wanted)
           /\ older' = older \cup {current}
           /\ state' = IF Wraps(size, align) THEN "undefined" ELSE state
  <2>1. PICK b \in FreeBases(NewPageFor(size, align)) :
          Bump(Page(b, NewPageFor(size, align), 0), size, align, wanted)
    BY <1>4
  <2> DEFINE capacity == NewPageFor(size, align)
             p == Page(b, capacity, 0)
  <2>2. size + align \in Nat
    BY <1>1
  <2>3. capacity \in Words
    BY <2>2, WordOf, CapacityEnough DEF NewPageFor
  <2>4. /\ b \in 0..MaxAddr /\ b + capacity <= MaxAddr + 1
        /\ \A q \in Pages : Apart(b, capacity, q.base, q.capacity)
    BY DEF FreeBases
  <2>5. b \in Words /\ b \in Nat
    BY <2>4, ArenaAssumption DEF Words
  <2>6. ~Wraps(size, align) => capacity # 0 /\ capacity >= size + align
    <3> SUFFICES ASSUME ~Wraps(size, align)
                 PROVE  capacity # 0 /\ capacity >= size + align
      OBVIOUS
    <3>1. size + align < WordSize
      BY <1>1, <1>4, ArenaAssumption DEF Wraps
    <3>2. ~(size + align > PageSize /\ size + align + PageSize - 1 >= WordSize)
      BY <1>4 DEF Wraps
    <3>3. Word(size + align) = size + align /\ size + align \in Words
      BY <2>2, <3>1, WordOf
    <3> QED
      BY <3>2, <3>3, CapacityEnough DEF NewPageFor
  <2>7. Bump(p, size, align, wanted)
    BY <2>1
  <2> HIDE DEF capacity
  <2>8. p.base = b /\ p.capacity = capacity /\ p.used = 0 /\ p \in PageSet
    <3>1. 0 \in Words
      BY ArenaAssumption DEF Words
    <3> QED
      BY <2>3, <2>5, <3>1 DEF Page, PageSet
  <2> HIDE DEF p
  <2>9. Typed' /\ Aligned'
    <3>1. older' \subseteq PageSet
      BY <1>0, <1>4
    <3> QED
      BY <1>0, <1>4, <2>7, <2>8, <3>1, BumpTyped
  <2>10. CASE Wraps(size, align)
    BY <1>4, <2>9, <2>10 DEF IInv
  <2>11. CASE ~Wraps(size, align)
    <3>1. capacity \in Nat /\ capacity # 0 /\ capacity >= size + align
      BY <2>3, <2>6, <2>11 DEF Words
    <3>2. PageOK(p)
      BY <2>4, <2>8, <3>1 DEF PageOK
    <3>3. \A q \in older' : PageOK(q) /\ PagesApart(p, q)
      BY <1>0, <1>4, <2>4, <2>8 DEF Sound, PagesSound, PagesApart, Pages
    <3>4. \A q, r \in older' : q # r => PagesApart(q, r)
      BY <1>0, <1>4 DEF Sound, PagesSound, PagesApart, Apart
    <3>5. PagesSound(p, older')
      BY <3>2, <3>3, <3>4 DEF PagesSound
    <3>6. BlocksHeld(p, older')
      BY <1>0, <1>4 DEF Sound, BlocksHeld
    <3>7. p.used + Padding(p.base + p.used, align) + size <= p.capacity
      <4>1. Padding(b, align) \in 0..(align - 1)
        BY <1>1, <2>5, PaddingBounds
      <4>2. p.base + p.used = b
        BY <2>5, <2>8
      <4> QED
        BY <1>1, <2>8, <3>1, <4>1, <4>2
    <3>8. Sound'
      BY <1>0, <1>4, <2>7, <3>5, <3>6, <3>7, BumpSound
    <3> QED
      BY <2>9, <3>8 DEF IInv
  <2> QED
    BY <2>10, <2>11
<1>5. CASE Exit
  BY <1>5, SameBlocks DEF Exit
<1> QED
  BY <1>2, <1>3, <1>4, <1>5 DEF AllocAligned

\* The first page is sound and no block handed out.
LEMMA InitHolds == Init => IInv
<1> SUFFICES ASSUME Init
             PROVE  IInv
  OBVIOUS
<1>1. PICK b \in 0..MaxAddr : /\ b + PageSize <= MaxAddr + 1
                              /\ current = Page(b, PageSize, 0)
  BY DEF Init
<1>2. b \in Words /\ PageSize \in Words /\ 0 \in Words /\ PageSize # 0
  BY ArenaAssumption DEF Words
<1>3. PageOK(current)
  BY <1>1, <1>2, ArenaAssumption DEF Page, PageOK, PageSet, Words
<1>4. Typed
  BY <1>2, <1>3 DEF Init, Typed, Pages, PageOK
<1>5. Sound
  BY <1>3 DEF Init, Sound, PagesSound, BlocksHeld, AllApart, Covered
<1> QED
  BY <1>4, <1>5 DEF Init, IInv, Aligned

\* Every step keeps the invariant.
LEMMA StepKeeps == IInv /\ [Next]_vars => IInv'
<1> SUFFICES ASSUME IInv, [Next]_vars
             PROVE  IInv'
  OBVIOUS
<1>0. Sizes \subseteq Words /\ Counts \subseteq Words
  BY ArenaAssumption DEF Words
<1>1. CASE state = "live" /\ Alloc
  <2>1. PICK size \in Sizes, align \in Aligns : AllocAligned(size, align, size)
    BY <1>1 DEF Alloc
  <2>2. size \in Words /\ size \in Nat /\ size <= size
    BY <1>0 DEF Words
  <2> QED
    BY <1>1, <2>1, <2>2, AllocKeeps
<1>2. CASE state = "live" /\ Calloc
  <2>1. PICK count \in Counts, size \in Sizes :
          IF Overflow(count, size) THEN Exit
          ELSE AllocAligned(Word(count * size), PointerAlign, count * size)
    BY <1>2 DEF Calloc
  <2>2. count \in Nat /\ size \in Nat /\ PointerAlign \in Aligns
    BY <1>0, ArenaAssumption DEF Words
  <2>3. CASE Overflow(count, size)
    BY <1>2, <2>1, <2>3, SameBlocks DEF Exit
  <2>4. CASE ~Overflow(count, size)
    <3>1. count * size <= Word(count * size) /\ Word(count * size) \in Words
      BY <2>2, <2>4, WrapEnough
    <3>2. count * size \in Nat
      BY <2>2
    <3> QED
      BY <1>2, <2>1, <2>2, <2>4, <3>1, <3>2, AllocKeeps
  <2> QED
    BY <2>3, <2>4
<1>3. CASE state = "live" /\ Reset
  <2>1. current \in PageSet /\ PageOK(current) /\ 0 \in Words
    BY <1>3, ArenaAssumption DEF IInv, Sound, PagesSound, PageOK, Words
  <2>2. current' \in PageSet /\ PageOK(current')
    BY <1>3, <2>1 DEF Reset, PageOK, PageSet, Words
  <2>3. Typed' /\ Aligned'
    BY <1>3, <2>1, <2>2 DEF Reset, IInv, Typed, Pages, Aligned
  <2>4. Sound'
    BY <1>3, <2>2 DEF Reset, Sound, PagesSound, PageOK, PagesApart, BlocksHeld, AllApart, Covered
  <2> QED
    BY <2>3, <2>4 DEF IInv
<1>4. CASE state = "live" /\ Destroy
  <2>1. Typed' /\ Aligned'
    BY <1>4 DEF Destroy, IInv, Typed, Pages, Aligned
  <2>2. Sound'
    BY <1>4 DEF Destroy, IInv, Sound, PagesSound, PageOK, PagesApart, BlocksHeld, AllApart, Covered
  <2> QED
    BY <2>1, <2>2 DEF IInv
<1>5. CASE UNCHANGED vars
  BY <1>5, SameBlocks DEF IInv, Typed, vars
<1> QED
  BY <1>1, <1>2, <1>3, <1>4, <1>5 DEF Next

\* The invariant holds in every reachable state.
LEMMA AlwaysIInv == Spec => []IInv
  BY InitHolds, StepKeeps, PTL DEF Spec

-------------------------------------------------------------------------------

\* Arena.TypeOK, for every arena.c:10-149 operation.
THEOREM TypeCorrect == Spec => []TypeOK
<1>1. IInv => TypeOK
  BY DEF IInv, Typed, TypeOK, PageSet, BlockSet, Words
<1> QED
  BY <1>1, AlwaysIInv, PTL

\* No two blocks share a byte, until the sums of a request wrap: arena_alloc_aligned
\* (arena.c:63-90) hands out fresh memory, for every page size and wherever malloc
\* puts the pages.
THEOREM BlocksNeverOverlap == Spec => []NoOverlap
<1>1. IInv => NoOverlap
  BY DEF IInv, Sound, AllApart, NoOverlap
<1> QED
  BY <1>1, AlwaysIInv, PTL

\* Every block lies in a page held, in its used part: the page asked for in arena.c:75
\* is large enough, until the sums of a request wrap.
THEOREM NeverOutsidePages == Spec => []InsidePages
<1>1. IInv => InsidePages
  BY DEF IInv, Sound, InsidePages, BlocksHeld, Holds, PagesSound, PageOK, Pages
<1> QED
  BY <1>1, AlwaysIInv, PTL

\* The arithmetic of arena.c:68-71 aligns every block, also where it wraps.
THEOREM AlwaysAligned == Spec => []Aligned
<1>1. IInv => Aligned
  BY DEF IInv
<1> QED
  BY <1>1, AlwaysIInv, PTL

\* The overflow check of arena.c:97-102 lets no product through that wrapped, for every
\* word size: its block has room for all the elements, unless the sums that follow the
\* check, which nothing looks at (arena.c:44, 74, 75), wrap for it.
THEOREM AlwaysRoom == Spec => []RoomForAll
<1>1. IInv => RoomForAll
  <2> SUFFICES ASSUME IInv, state = "live", NEW b \in blocks
               PROVE  \E p \in Pages : /\ p.base <= b.ptr
                                      /\ b.ptr + b.wanted <= p.base + p.capacity
    BY DEF RoomForAll
  <2>1. Typed /\ Sound
    BY DEF IInv
  <2>2. PICK p \in Pages : Holds(p, b)
    BY <2>1 DEF Sound, BlocksHeld, Pages
  <2>3. p \in PageSet /\ p.used <= p.capacity
    BY <2>1 DEF Sound, PagesSound, PageOK, Pages
  <2>4. b.wanted <= b.size /\ b \in BlockSet
    BY <2>1 DEF Sound, Covered, Typed
  <2>5. /\ b.ptr \in Nat /\ b.size \in Nat /\ b.wanted \in Nat
        /\ p.base \in Nat /\ p.used \in Nat /\ p.capacity \in Nat
    BY <2>3, <2>4 DEF PageSet, BlockSet, Words
  <2>6. p.base <= b.ptr /\ b.ptr + b.wanted <= p.base + p.capacity
    BY <2>2, <2>3, <2>4, <2>5 DEF Holds
  <2> QED
    BY <2>6
<1> QED
  BY <1>1, AlwaysIInv, PTL

-------------------------------------------------------------------------------

\* A request that leaves a page, all of memory and its alignment below SIZE_MAX.
Modest(size, align) == size + align + PageSize + MaxAddr + 1 <= WordSize
AllModest ==
  /\ \A size \in Sizes, align \in Aligns : Modest(size, align)
  /\ \A count \in Counts, size \in Sizes :
       Overflow(count, size) \/ Modest(Word(count * size), PointerAlign)

Defined == state # "undefined"

\* The sums of such a request do not wrap.
LEMMA ModestFits ==
  ASSUME Typed, Sound, NEW size \in Words, NEW align \in Aligns, Modest(size, align)
  PROVE  ~Wraps(size, align)
<1>1. /\ align \in Nat \ {0} /\ size \in Nat /\ PageSize \in Nat /\ MaxAddr \in Nat
      /\ WordSize \in Nat
  BY ArenaAssumption DEF Words
<1>2. PageOK(current)
  BY DEF Sound, PagesSound
<1>3. current.base \in Nat /\ current.used \in Nat /\ current.used <= MaxAddr + 1
  BY <1>1, <1>2 DEF PageOK, PageSet, Words
<1>4. current.base + current.used \in Nat
  BY <1>3
<1>5. Padding(current.base + current.used, align) \in 0..(align - 1)
  BY <1>1, <1>4, PaddingBounds
<1>6. Needed(size, align) < WordSize /\ Needed(size, align) \in Nat
  BY <1>1, <1>3, <1>5 DEF Modest, Needed
<1>7. size + align < WordSize /\ size + align + PageSize - 1 < WordSize
  BY <1>1 DEF Modest
<1> QED
  BY <1>1, <1>6, <1>7 DEF Wraps

\* As long as requests stay that far below SIZE_MAX, as lengths of sources and of tables
\* do, no sum of arena.c:44, 74, 75 wraps and every block is as the theorems above say.
THEOREM NeverUndefined == ASSUME AllModest PROVE Spec => []Defined
<1>1. Init => Defined
  BY DEF Init, Defined
<1>2. IInv /\ Defined /\ [Next]_vars => Defined'
  <2> SUFFICES ASSUME IInv, state # "undefined", [Next]_vars
               PROVE  state' # "undefined"
    BY DEF Defined
  <2>0. Typed /\ Sound /\ Sizes \subseteq Words /\ Counts \subseteq Words
    BY ArenaAssumption DEF IInv, Words
  <2>1. ASSUME NEW size \in Words, NEW align \in Aligns, NEW wanted, Modest(size, align),
               AllocAligned(size, align, wanted)
        PROVE  state' # "undefined"
    <3>1. ~Wraps(size, align)
      BY <2>0, <2>1, ModestFits
    <3> QED
      BY <2>1, <3>1 DEF AllocAligned, Exit, vars
  <2>2. CASE Alloc
    BY <2>0, <2>1, <2>2 DEF Alloc, AllModest
  <2>3. CASE Calloc
    <3>1. PICK count \in Counts, size \in Sizes :
            IF Overflow(count, size) THEN Exit
            ELSE AllocAligned(Word(count * size), PointerAlign, count * size)
      BY <2>3 DEF Calloc
    <3>2. CASE Overflow(count, size)
      BY <3>1, <3>2 DEF Exit
    <3>3. CASE ~Overflow(count, size)
      <4>1. Word(count * size) \in Words
        <5>1. count \in Nat /\ size \in Nat
          BY <2>0 DEF Words
        <5> QED
          BY <3>3, <5>1, WrapEnough
      <4>2. Modest(Word(count * size), PointerAlign) /\ PointerAlign \in Aligns
        BY <3>3, ArenaAssumption DEF AllModest
      <4> QED
        BY <2>1, <3>1, <3>3, <4>1, <4>2
    <3> QED
      BY <3>2, <3>3
  <2>4. CASE Reset \/ Destroy \/ UNCHANGED vars
    BY <2>4 DEF Reset, Destroy, vars
  <2> QED
    BY <2>2, <2>3, <2>4 DEF Next
<1> QED
  BY <1>1, <1>2, AlwaysIInv, PTL DEF Spec

===============================================================================
