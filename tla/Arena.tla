--------------------------------- MODULE Arena ---------------------------------
(***************************************************************************)
(* The arena allocator every stage of the compiler takes its memory from,  *)
(* arena.c: pages got from malloc, of which the one pushed last is bumped  *)
(* through, and a reset that keeps that page.                              *)
(*                                                                         *)
(* Memory is the addresses 0..MaxAddr.  malloc hands out any region that   *)
(* no page holds, at a multiple of its own alignment; where there is none  *)
(* the compiler exits.  The list of pages is its head, which is always the *)
(* current page, and the set of the others, whose order decides nothing.   *)
(*                                                                         *)
(* Every sum is one of size_t and wraps at WordSize, and so does the       *)
(* product of arena_calloc.  Only the product is checked: a request near   *)
(* SIZE_MAX whose sums wrap gets a block that reaches beyond its page, and *)
(* what happens once it is filled is undefined, so the model ends there.   *)
(***************************************************************************)
EXTENDS Integers, FiniteSets

CONSTANTS
  PageSize,     \* a->page_size
  Sizes,        \* the sizes asked for
  Aligns,       \* the alignments asked for, powers of two
  PointerAlign, \* sizeof(void *)
  Counts,       \* the counts given to arena_calloc
  WordSize,     \* SIZE_MAX + 1
  MallocAlign,  \* the alignment of what malloc returns
  MaxAddr       \* the last address

ASSUME ArenaAssumption ==
  /\ WordSize \in Nat \ {0} /\ MallocAlign \in Nat \ {0}
  /\ PageSize \in Nat \ {0} /\ PageSize < WordSize
  /\ MaxAddr \in Nat /\ MaxAddr + 1 < WordSize
  /\ Sizes \subseteq 0..(WordSize - 1) /\ Counts \subseteq 0..(WordSize - 1)
  /\ Aligns \subseteq Nat \ {0} /\ PointerAlign \in Aligns
  /\ \A a \in Aligns : WordSize % a = 0

VARIABLES
  current,  \* a->current, which is a->first: its base, capacity and used
  older,    \* the pages behind it
  total,    \* a->total_allocated
  blocks,   \* the blocks handed out since the last reset
  state     \* "live", "destroyed", "exited" when the process ended, or "undefined"

vars == <<current, older, total, blocks, state>>

Page(base, capacity, used) == [base |-> base, capacity |-> capacity, used |-> used]
Pages == {current} \cup older

\* Two stretches of memory apart from one another.
Apart(p, n, q, m) == p + n <= q \/ q + m <= p

\* malloc(capacity).
FreeBases(capacity) ==
  {b \in 0..MaxAddr :
     /\ b % MallocAlign = 0 /\ b + capacity <= MaxAddr + 1
     /\ \A p \in Pages : Apart(b, capacity, p.base, p.capacity)}

Word(n) == n % WordSize

Exit == state' = "exited" /\ UNCHANGED <<current, older, total, blocks>>

\* arena_create.
Init ==
  /\ \E b \in 0..MaxAddr :
       /\ b % MallocAlign = 0 /\ b + PageSize <= MaxAddr + 1
       /\ current = Page(b, PageSize, 0)
  /\ older = {}
  /\ total = 0
  /\ blocks = {}
  /\ state = "live"

-------------------------------------------------------------------------------

\* arena_new_page: the request rounded up to a multiple of the page size.
Capacity(min) ==
  IF min > PageSize THEN (Word(min + PageSize - 1) \div PageSize) * PageSize ELSE PageSize

\* aligned - offset.  Mutated forms, below, are plausible slips the
\* properties must catch; no specification uses them.
Padding(offset, align) == (align - (offset % align)) % align

\* size bytes, of which the caller uses wanted, at the end of page p.
Bump(p, size, align, wanted) ==
  LET padding == Padding(p.base + p.used, align) IN
  /\ current' = [p EXCEPT !.used = Word(@ + padding + size)]
  /\ total' = Word(total + padding + size)
  /\ blocks' = blocks \cup {[ptr |-> Word(p.base + p.used + padding), size |-> size,
                             align |-> align, wanted |-> wanted]}

Needed(size, align) ==
  current.used + Padding(current.base + current.used, align) + size

Fits_NoPadding(size, align) == Word(current.used + size) <= current.capacity
Fits(size, align) == Word(Needed(size, align)) <= current.capacity

NewPageFor_SizeOnly(size, align) == Capacity(size)
NewPageFor(size, align) == Capacity(Word(size + align))

\* A sum that decides where a block goes exceeds a word: its place in the page, or
\* the page made for it.
Wraps(size, align) ==
  IF Fits(size, align) THEN Needed(size, align) >= WordSize
  ELSE \/ size + align >= WordSize
       \/ size + align > PageSize /\ size + align + PageSize - 1 >= WordSize

\* arena_alloc_aligned; a size of zero gets no block.
AllocAligned(size, align, wanted) ==
  \/ size = 0 /\ UNCHANGED vars
  \/ /\ size # 0 /\ Fits(size, align)
     /\ Bump(current, size, align, wanted)
     /\ state' = IF Wraps(size, align) THEN "undefined" ELSE state
     /\ UNCHANGED older
  \/ /\ size # 0 /\ ~Fits(size, align)
     /\ \E b \in FreeBases(NewPageFor(size, align)) :
          Bump(Page(b, NewPageFor(size, align), 0), size, align, wanted)
     /\ older' = older \cup {current}
     /\ state' = IF Wraps(size, align) THEN "undefined" ELSE state
  \/ size # 0 /\ ~Fits(size, align) /\ FreeBases(NewPageFor(size, align)) = {} /\ Exit

Alloc == \E size \in Sizes, align \in Aligns : AllocAligned(size, align, size)

Overflow_None(count, size) == FALSE
Overflow(count, size) ==
  count # 0 /\ Word(count * size) \div count # size

Calloc ==
  \E count \in Counts, size \in Sizes :
    IF Overflow(count, size) THEN Exit
    ELSE AllocAligned(Word(count * size), PointerAlign, count * size)

\* arena_reset: every block is given up, the page pushed last is kept.
Reset ==
  /\ current' = [current EXCEPT !.used = 0]
  /\ older' = {}
  /\ total' = 0
  /\ blocks' = {}
  /\ UNCHANGED state

Destroy ==
  /\ older' = {} /\ blocks' = {}
  /\ state' = "destroyed"
  /\ UNCHANGED <<current, total>>

Next == state = "live" /\ (Alloc \/ Calloc \/ Reset \/ Destroy)

Spec == Init /\ [][Next]_vars

-------------------------------------------------------------------------------

TypeOK ==
  /\ \A p \in Pages : {p.base, p.capacity, p.used} \subseteq 0..(WordSize - 1)
  /\ total \in 0..(WordSize - 1)
  /\ \A b \in blocks : {b.ptr, b.size} \subseteq 0..(WordSize - 1) /\ b.align \in Aligns
  /\ state \in {"live", "destroyed", "exited", "undefined"}

\* While no request came near SIZE_MAX, no two blocks handed out since the last reset
\* share a byte, whichever pages they lie in (arena.c:63-90).
NoOverlap ==
  state # "undefined" =>
    \A b, c \in blocks : b # c => Apart(b.ptr, b.size, c.ptr, c.size)

\* While no request came near SIZE_MAX, every block lies in a page the arena holds,
\* in what it counts as used: a new page is large enough for the block and its
\* padding, wherever malloc puts it (arena.c:41-86).
InsidePages ==
  state = "live" =>
    \A b \in blocks : \E p \in Pages :
      /\ p.base <= b.ptr /\ b.ptr + b.size <= p.base + p.used /\ p.used <= p.capacity

\* Blocks are aligned as asked, also where malloc aligns its pages less.
Aligned == \A b \in blocks : b.ptr % b.align = 0

\* arena_calloc hands out no block for a product that wrapped: the memory of its page
\* goes on for all the elements asked for (arena.c:96-106), unless a sum wraps in the
\* place of the product (arena.c:44, 74, 75), which nothing checks.
RoomForAll ==
  state = "live" =>
    \A b \in blocks : \E p \in Pages :
      p.base <= b.ptr /\ b.ptr + b.wanted <= p.base + p.capacity

===============================================================================
