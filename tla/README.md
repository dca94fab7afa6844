# VORTECH: a TLA+ verification project

VORTECH is a small ahead-of-time compiler in C. It reads one source file and
writes an x86-64 ELF object, through two trees (AST, HIR), an SSA form,
optimization passes, machine code over virtual registers, linear-scan register
allocation, a peephole pass and an emitter. This directory models the parts
that carry its logic, checks them with TLC on small instances and proves
theorems about them with TLAPS.

The compiler is sequential: no threads, no signals, no persistent state. What
is hard in it is of another kind: state that is read, recursed over and used
again; lists and tables changed while they are walked; orders of instructions
and blocks that later stages rely on without saying so; limits (registers,
table capacities, pages); and the question every stage has to answer, whether
its output still means what its input meant.

Paths below are relative to the repository's `src/` directory; line numbers
are those of the commit this project was written for.

## 1. Inventory

For each component: the state it keeps, its operations, whom it meets, what is
hard, what makes it correct, and where it is modelled.

| Component | Files | Modelled in |
|---|---|---|
| Arena allocator | `arena.c` | Arena, ArenaProof |
| Lexer | `lexer.c` | Parser (the one-token buffer) |
| Parser, AST | `parser.c`, `ast.c` | Parser, ParserProof |
| HIR construction | `hir_build.c` | Scopes, Binding, ScopesProof (binding and statements) |
| SSA construction | `ssa_build.c` | SsaBuilder, SsaBuild, SsaBuildProof, SsaWalk |
| SSA verifier | `ssa_verify.c` | SsaVerify |
| Constant folding, SCCP, copy propagation, CSE, DCE | `opt_*.c` | Optimizer, SsaMeaning |
| LICM, unrolling, `opt.c` | `opt_licm.c`, ... | no: they change nothing |
| Instruction selection, PHI elimination | `isel.c` | Backend |
| Register allocator | `regalloc.c` | RegAlloc and its proofs, Homes, Backend |
| Peephole pass | `peephole.c` | Backend |
| Emitter, ELF | `emit.c`, `elf.h` | Encode, Emitter, X86, EmitterProof (bytes); Machine (values) |
| Driver | `main.c` | Driver, DriverProof |
| Diagnostics | `diag.c` | Driver (the error count, the fatal exit) |
| Common definitions | `common.h` | no: types and numbers |

**Arena allocator.** State: a list of pages (base, capacity, bytes used), the
page being filled, a total. Operations: create, allocate with an alignment,
the zeroing form with a product of two sizes, duplicate a string, reset,
destroy. Every other component allocates from one of the driver's arenas. Hard:
padding depends on where `malloc` put the page; the product may wrap, which is
tested, and so may the sums, which is not. Correct: as long as no sum wraps,
blocks lie in pages held, do not overlap, are aligned and large enough.

**Lexer, parser, AST.** State: a cursor, a buffer of one token, error flags.
Operations: peek, next, expect; one procedure per grammar rule, with recovery at
statement boundaries. Hard: `lexer_next` consumes nothing unless a token was
peeked, so who peeks is a contract between procedures; loops that end at a
brace must end at the end of the text too; recovery must make progress.
Correct: operators bind as the table says, brackets match, nothing is skipped
without a report, the parser comes back.

**HIR construction.** State: a chain of scopes with their declarations, the next
local index. Operations: push, pop, declare, look up; one case per statement.
Hard: HIR carries both an index and a name, and SSA construction resolves by
the name alone; a `for` opens two scopes, a block one. Correct: identifiers mean
what lexical scoping says, locals have slots of their own, and the by-name
variables of SSA construction agree with the bindings.

**SSA construction.** State: blocks with instructions, predecessors and a sealed
flag; a definition table per block; the list of incomplete PHIs; the next vreg;
the current block. Operations: `read_var`, `write_var`, `seal_block` (Braun et
al.'s construction) and one case per HIR statement and expression. Hard: the
recursion of `read_var` goes round loops, creates and drops PHIs on the way and
pushes on the list `seal_block` is walking; tables grow at 16 blocks. Correct:
lowering ends, predecessors are final once a block is sealed, nothing is left
incomplete, each vreg has one definition, and on every path each read of a
variable sees what was written last.

**SSA verifier.** A predicate on functions: terminators last, operands in range.
The driver calls it before the first optimization and after the last one. Correct: what it accepts can be run
(it cannot promise that: see section 7).

**Optimization passes.** State: the function, and per pass a table (SCCP's
lattice, CSE's expressions, the copy map, DCE's marks). Operations: sweeps, up to
ten of them for folding and DCE. They meet through the function only, in the
order of `main.c:242-263`. Hard: replacing an instruction in place by what a
later pass is trusted to clean up; replacing uses in the whole function while
sweeping it; a lattice that must only fall. Correct: what the function prints
and returns is unchanged; definitions stay unique; the verifier accepts each
result; sweeps end.

**Instruction selection and PHI elimination.** State: machine blocks, the edges
with copies to place. Operations: select each instruction; place the copies of
each edge, splitting the edge when its jump is conditional. Hard: copies of one
edge are made one after the other; each edge placed changes the jumps the next
one looks for. Correct: control still flows between the same blocks and each
PHI has its value when its block is entered.

**Register allocator.** State: an interval per vreg, the active set, the free
registers, the result. Operations: expire, assign, spill the current interval,
evict another; compute the frame; rewrite operands. Hard: registers given back
too early or never; eviction after eviction; parameters, which arrive in
registers of their own. Correct: overlapping intervals never share a register,
slots are never shared, nothing is lost, nothing is spilled needlessly, the
frame fits.

**Peephole pass and emitter.** State: machine blocks; a byte buffer, labels,
patches, symbols, relocations. Operations: drop and shorten instructions;
encode each one; patch branches at the end of a function; lay out the file.
Hard: flags clobbered between comparison and use; registers an instruction uses
beside its operands (RAX and RDX in divisions, RCX in shifts, argument registers
in calls); register numbers that need a prefix or change the meaning of an
address byte; offsets remembered before the bytes between are known. Correct:
the bytes are those of the instruction meant, and do what it means; branches,
calls, symbols and sections fit.

**Driver.** State: the configuration, four arenas, the verdicts of the stages.
Runs the stages over arenas that it destroys as it goes. Hard: a structure that
still points into an arena already destroyed; an exit per stage, each with its
own list of things to free and its own status; which failures are asked for.
Correct: see the properties of Driver in section 3.

## 2. Modules

    Arena ── ArenaProof, MCArena

    Driver ── DriverProof, MCDriver

    Parser ── ParserProof, MCParser

    Binding (abstract)
       │ INSTANCE
    Scopes ── ScopesProof, MCScopes

    SsaBuilder ── SsaBuild ── SsaWalk ── MCSsaWalk
                      └────── SsaBuildProof, MCSsaBuild

    SsaMeaning ─┬─ Optimizer (with SsaVerify) ── OptimizerProof, MCOptimizer
                ├─ SsaShapes  (functions for both)
                └─ Machine ── Backend ── MCBackend
                                 │ INSTANCE
    RegAlloc ────────────────────┘
        └─ RegAllocHomes (INSTANCE Homes) ─┬─ MCRegAlloc
                                           └─ RegAllocProof

    X86 ── Encode ── Emitter ── EmitterProof, MCEmitter

**Driver** is `main`, one action per stage. What a stage computes is left open: it
may report errors, and a function is well formed or not (`sound`). `Home` says
which arena each object lives in and `Needs` which objects a stage reads; what is
read after its arena is gone is collected in `stale`, and may crash.

**Parser** turns the recursive procedures into a stack of items still to do: a token
to expect, a procedure to enter, a loop that puts itself back. The text is made up a
token at a time, so every text within the bound meets the parser, wrong ones
included. Of the tree only the precedence at the top of each expression is kept.

**Scopes** converts every function of a small grammar, statement by statement, with
the chain of scopes `hir_build.c` keeps, and then runs the result on any path with
one variable per name, as SSA construction has it. **Binding** is the abstract
specification: each open block has an environment, no list is searched. Scopes
implements it (`BindsLexically`).

**Encode** is the emission of each instruction as bytes, a byte being a value 0..255
where the encoding computes it. **X86** reads such bytes back, as the processor's
manual has it (external to the repository), and runs them on symbolic values.
**Emitter** is `emit_object`: functions with prologue, labels, patches and epilogue,
the print routine, symbols, relocations and the layout of the file.

**Arena.** `current` is the page at the head of the list and `older` the set of the
rest (their order decides nothing). One action per operation: `Alloc`, `Calloc`,
`Reset`, `Destroy`, each with the branches of the code: room in the page, a new
page, no memory (the process exits). `malloc` may return any free place of its
alignment. `blocks` remembers what was handed out since the last reset: it is
the yardstick, not state of the code. Sums wrap as `size_t` does. `Wraps` says of a
request that a sum deciding where its block goes exceeds a word: the block then reaches
beyond its page, what happens once it is filled is undefined, and the model ends there,
in state `"undefined"`.

**SsaBuilder** holds `read_var`, `write_var` and `seal_block`. The C recursion is a
stack of pending calls (`todo`) with a stack of returned vregs (`vals`), one step
per piece of code between two calls, so that what happens between a call and
its return is visible. `FillPhi` models the list of incomplete PHIs with the
link the C code holds over recursive reads. **SsaBuild** is its driver: where the
code looks at the next HIR node, the model chooses one, so that a run lowers
every program of the grammar within `Fuel` and `MaxNesting`. `READ` and `WRITE`
marks record what the source program reads and assigns. **SsaWalk** then runs the
finished function on every path, next to the source program the marks spell out.

**SsaVerify** is `ssa_verify_func` as a predicate. **SsaMeaning** defines what a
function in SSA form does (values printed, value returned, trap) with words of
three bits. **Optimizer** has one action per sweep of a pass and keeps what the
function meant at the start. **SsaShapes** makes the functions both runs use.

**RegAlloc** is `regalloc_linear_scan`, one step per interval: `AssignFree`,
`SpillCurrent`, `EvictFor`, then `Finish`. Its intervals are arbitrary. **Homes** is the
abstract specification: vregs are served one by one, each gets a register or a
slot of its own, and serving one may at most send others from their register to
a fresh slot. **RegAllocHomes** maps linear scan to it: scanned vregs are the ones
served, overlapping intervals are in conflict; `Finish` is a stutter.
**Backend** takes a function through selection, PHI elimination, the computing of
intervals, RegAlloc (by INSTANCE, on those intervals), the rewriting of operands
and the peephole pass; **Machine** says what the emitted code does to registers.
Loads, stores and arenas, which need memory, are left out.

Known slips. Several components are wrong on some inputs for reasons that are
understood. Such a slip is recorded when the run at hand meets it, and the main
property speaks of runs without one: it says that there is no other cause.

- SsaBuild (`slips`, for `FormKept`): the block where an arm *began* is recorded as
  predecessor (`ssa_build.c:1019` and siblings); an `if` adds its jump after a
  `return` (`:1054`); an arm ends in an empty block without terminator (`:978`);
  `seal_block` drops PHIs pushed while it reads (`:434`); `next_vreg--` gives back
  a vreg that is not the PHI's (`:293`).
- Optimizer (`lapses`, for `MeaningPreserved`): an identity folded to its constant; a
  GEP that CSE leaves behind; a quotient of constants that overflows.
- Backend (`slips`, for `EmittedRight`): NEG and NOT computed in place; copies of an
  edge that overwrite one another; a vreg lost outside its interval; a value lost
  in a call; one lost in a division; an instruction on a spilled vreg.
- Emitter (`KnownWrong`, `Misencoded`): a spilled operand is dropped; moves of 8 and 32
  bits; `XOR` of a register with itself into another; the count of a shift; RAX
  and RDX in divisions; NEG and NOT in place; arguments of a call that overwrite
  one another; LEA with base R12.
- Scopes (`hidden`, for `ReadsBound`): a `let` that hides an outer variable.
- Parser: a number where a name is expected ends the process; the fields of a struct
  that meet the end of the text are looked for for ever (`Returns`).
- Driver: the borrowed objects (`Borrowed`, for `InputsAlive`); errors of SSA
  construction and of the linker (`ExitTellsTruth`).

Operators called `<Name>_<Slip>` are mutated forms: plausible mistakes in the
definition that follows. No specification uses them; each shows that some
property would notice.

## 3. Runs

| Run | Module, cfg | Distinct states | Shows |
|---|---|---|---|
| `arena` | MCArena | 350 thousand | blocks of an arena are sound |
| `driver` | MCDriver | 23 thousand | every way out is in order |
| `parser` | MCParser | 426 thousand | precedence, brackets, progress |
| `scopes` | MCScopes | 1.3 million | names are bound lexically |
| `ssa_control` | MCSsaBuild, SsaBuildControl | 1.5 million | construction ends in SSA form |
| `ssa_walk` | MCSsaWalk, SsaWalk | 6.8 million | reads see the last write |
| `optimizer` | MCOptimizer | 44 thousand | passes preserve meaning |
| `backend` | MCBackend | 16 thousand | emitted code is right |
| `regalloc` | MCRegAlloc | 143 thousand | linear scan is sound |
| `emitter` | MCEmitter | 89 thousand | bytes say what was selected |
| `nested_preds` | MCSsaBuild, FindNestedPreds | violation | wrong predecessors recorded |
| `identities` | MCOptimizer, OptIdentity | violation | `x + 0` folds to 0 |

A run is started, for example, with `tlc -config MCRegAlloc.cfg MCRegAlloc`.

**Bounds, and why they are enough.**

- `arena`: pages of 8 bytes in 40 bytes of memory; requests of 0, 3, 8 and 60
  bytes aligned to 2 or 8, `malloc` aligned to 4. So a request may fit, just not fit
  because of its padding, need a page of two units, or find no memory; 9 times 8
  wraps a word of 64, and 60 wraps with what is added to it: its padding, its
  alignment or the rounding to pages. Two or more pages, a reset and refilling all happen.
- `driver`: command lines of up to four arguments, so that two dumps, or a level
  and `--no-verify`, come together with an input file; up to three functions, so
  that one is between two others when its passes spoil it.
- `parser`: a fuel of 13, of which the tokens of a function with an expression or an
  `if` in it take one each and the others two, and of 4 after the first report. Three
  operators of different levels fit into one expression, an `else if` into a
  function, brackets in brackets; after an error there is room for the recovery to
  skip, stop and go on. Operators of three of the ten levels and one token of each
  kind that decides something stand for the others.
- `scopes`: two names; a fuel of 9 with costs from 1 to 3: a name is declared, hidden,
  written and read in loops and branches up to four deep.
- `ssa_control`: one variable, three statements or operators of those that make
  blocks, nested twice, with tables for 9 blocks, so that the table limit
  (`ssa_build.c:180`, 16 in the code) is met as well. Three constructs are
  enough for a loop whose body branches and whose header reads round the loop.
- `ssa_walk`: two variables and a fuel of 4. Assignments, ifs and while loops cost
  1; `if`/`else`, compound assignments, `for`, `return`, `print`, `&&` and `||`
  2; the rest, which differ only in operands, 3. Only results that are in SSA form
  (`SsaForm`) are run: that some are not is what `FormKept` excuses and
  `nested_preds` shows. So a branch in the body of a loop, or in an arm of another
  branch, is never walked; runs of eight blocks go up to three times round a loop of
  straight code, and through constructs that follow one another.
- `optimizer`: 5760 functions in two shapes, a branch whose sides meet and a
  loop, with every choice of the listed instructions in their holes, on four
  inputs, among them 0 and the smallest word; `MAX_ITERATIONS` is 3. What a
  sweep does depends on a few neighbouring instructions; the shapes contain
  each combination the passes distinguish, before, at and after a join.
- `backend`: 867 functions of the same shapes and blocks with 3 to 5 values at
  once; 7 registers of 14 with two arguments. All slips happen and so do
  functions without any.
- `regalloc`: five vregs, two of them parameters, every assignment of intervals
  over four positions, two free registers. A vreg that evicts another and is
  evicted in turn needs no more. The proofs of section 5 lift these bounds.
- `emitter`: eight of the sixteen registers as operands: those instructions use
  beside their operands, one that needs a prefix as a byte, one with a prefix in
  every use, and the two that mean something else in an address; constants of one
  byte, four bytes and eight, displacements that take one byte and four. Control flow
  is checked on programs of two functions, three blocks and up to four branches
  and calls, so that a branch jumps forwards over another one, patches of two
  functions follow one another, and a call names a function not yet emitted.

**Properties.** Each has a comment in its module that says what it means and
which lines it is about.

- Arena, as long as no sum wraps: `NoOverlap`, `InsidePages`, `RoomForAll` (the page goes
  on for all the elements asked of `arena_calloc`: it hands out nothing for a product that
  wraps).
- Driver: `VerifiedAround` (the first pass begins with accepted functions and selection
  sees accepted ones; between two passes nothing is verified and nothing claimed),
  `ExitTellsTruth`, `InputsAlive` (memory that is gone is read through borrowed
  objects only), `FreedOnce`, `DumpsAlone`.
- Parser: `BindsTightest`, `Balanced`, `NextPeeked` (a procedure that consumes its
  keyword finds it peeked), `Returns` (liveness).
- Scopes: `BindsLexically` (the refinement of Binding), `SlotsApart`, `ReadsBound`.
- SsaBuild: `NeverAskedTwice` (while a block's predecessors are being asked for
  a variable the block is not asked again: the recursion is well founded),
  `FormKept` (without a slip the function is in SSA form and nothing is left over),
  `SealedPredsFrozen` (an action property), `Terminates`.
- SsaWalk: `ReadsSeeLastWrite`, the correctness of the construction.
- Optimizer: `MeaningPreserved`, `PassesVerify`, `NothingDead`, `LatticeDescends` (an
  action property, of functions with one definition a vreg), `Finishes`.
- Backend: `EmittedRight`, `IntervalsCover` (where control only goes down the code, a
  vreg is live only inside its interval).
- RegAlloc: `NoSharedRegister`, `SlotsDistinct`, `IncomingUntouched`,
  `SpillOnlyUnderPressure`, and `KeepsPromise`, the refinement of Homes.
- Emitter: `DecodesBack` (the bytes are the instructions meant and no others),
  `DoesWhatItSays` (run, they do what the selected instruction says and touch
  nothing else), `BranchesLand`, `FramesBalanced`, `CallsReach`, `FileSound` (sections and
  symbols do not overlap; a function has its size if its calls added no symbol; the
  others do not, see section 4).

**Fairness.** Liveness is checked under weak fairness of the whole next-state
relation and nothing finer: the compiler is one sequential program and goes on
as long as there is a next step. Deadlock checking is off where the program may
be at its end; Backend has a stuttering `Done` step instead, so that a stage that
cannot go on is reported.

## 4. Findings

Two comments of the repository are contradicted by the code and have a violation
run (PROJECT.json quotes the lines):

- `ssa_build.c:1019` and its siblings: the block an arm *began* in is recorded as
  predecessor, not the one it ended in, so nested control flow gets wrong PHIs.
- `opt_constfold.c:87`: `x + 0` becomes the constant 0, `x * 1` becomes 1.

Two more have none: the properties beside them leave the case out and say so.

- `main.c:245` (`VerifiedAround`): the passes follow one another without the verifier that
  `ssa_verify.c:4` promises before and after each; it runs before the first and after
  the last.
- `emit.c:1345`, and `:1403` for the print routine (`SizesRight`): the size meant for a
  function is stored in the symbol added last, which after the first call of a name is
  the name's.

The other slips of section 2 are part of the properties of passing runs: the model
does what the code does, and the property says that nothing else goes wrong.

## 5. Proofs

Checked by TLAPS for every value of the constants that meets the named
assumptions of the modules.

**RegAllocProof** (assumptions `SizesAssumption`, `RegsAssumption`: sizes are
naturals, registers a finite set, incoming registers distinct). `NoSharedRegister`
is not inductive: that a free register is not held by an overlapping interval
depends on who has been expired, and that depends on the order of the scan.
`IInv` adds what the scan maintains: active intervals hold distinct registers
that are not on offer (`ActiveHolds`); a scanned interval that is no longer active
but has a register ended before every interval to come starts (`RetiredIsOver`);
vregs not yet reached hold nothing but their incoming register (`NotServedYet`);
the sorted copy and the result agree except for spilled parameters
(`ResultAgrees`); incoming registers are never on offer (`ReservedApart`); and the
exclusion on the sorted copy (`Exclusive`). `AtCurrent` collects what holds between
expiry and assignment; one lemma per action; theorems `TypeCorrect`,
`NeverShared`, `IncomingSafe`. On top of it `HomesApart` is inductive by itself
and gives `SlotsApart` and `NothingLost`.

The second part adds that no register is forgotten (what is not reserved is on
offer or held by an active interval) and that the scan goes by rising start.
Then a spill is forced by counting: the active intervals at that point map onto
the unreserved registers and the current one is one more (`ForcedSpill`, with
the library's theorems on finite sets). Theorem `SpillsAreForced`. With it every safety property of RegAlloc is proved.

The last part proves `ScanKeepsPromise`: linear scan implements Homes. That
nothing clashes after a step is what the invariants say of the state it leads
to; what is new is how a step changes the homes of the others, one lemma per
action (`AssignFreeServes`, `SpillCurrentServes`, `EvictForServes`).

**ArenaProof** (assumption `ArenaAssumption`: memory is smaller than a word can count,
alignments divide the size of a word). `NoOverlap` is not inductive either:
that a new block is apart from the others follows from pages being apart from
one another, none filled beyond its capacity, and each block lying in the used
part of a page. `IInv` says so (`PagesSound`, `BlocksHeld`) while no sum has wrapped,
beside the types, which hold also then. Lemmas on division
give what rounding needs: the padding is below the alignment and aligns
(`PaddingBounds`, `PaddingAligns`), also modulo a word (`WordAligned`), a new page has room
for request and padding (`CapacityEnough`), and where the overflow test is passed the
product did not wrap (`WrapEnough`). Theorems `TypeCorrect`, `BlocksNeverOverlap`,
`NeverOutsidePages`, `AlwaysAligned`, `AlwaysRoom`. All but the types and the alignment
end where a sum wraps; `NeverUndefined` says how far from `SIZE_MAX` every request must
stay, with its alignment, the page size and the memory there is, for that never to happen.

**ScopesProof** (assumption `ScopesAssumption`). `Shape` is inductive: types, jumps
that stay within the function (`GoodCode`), and open constructs that lie in each
other as their scopes do (`Nested`). Lemmas on the chain say what pushing, popping
and declaring do to `scope_lookup` (`PushKeeps`, `PopKeeps`, `DeclareBinds`); the
search has to find the greatest index, so `MaxIsGreatest` is proved from
well-foundedness. Every action changes the chain in one of six ways (`ChainSteps`),
and each is a step of Binding or leaves its variables alone: `ScopesBindLexically`.
`Slots` says that all declarations in the chain and in the code so far have distinct
indices below `next_local`: `ScopesSlotsApart`.

`ReadsBound` speaks of the runs of the converted code, and a run may take any path:
the invariant (`Bound`) makes the code carry what is needed. Each node has, as a ghost,
what was in scope where it was emitted. `Flows`: what a node leaves in scope agrees
with what the node it falls through or jumps to had, outside the hidden names.
`HeldIn`: the nodes an open construct will come back to, its test, update and pending
jump, had in scope what its surroundings have, so that the jump may still be given its
target (`BoundJump`). `OneHolder`: a name not hidden is declared in one scope of the
chain at most, so popping uncovers nothing else (`PoppedEnv`). `Answered`: a read has the
index that was in scope at its node, or the function has failed. `Owned`: a run holds
what the next node had in scope. One lemma per action: `ScopesReadsBound`. With these
every safety property of Scopes is proved.

**DriverProof** (assumption `DriverAssumption`). No property is inductive alone; what
makes each so is that a stage determines the rest of the state. `Memory`: the stage
says which arenas are live, and a live arena was never freed (`DriverFreedOnce`; with
`GoneIsBorrowed`, that what a stage reads of memory already gone is borrowed,
`DriverInputsAlive`). `Reported`: what may have failed and what was made before each
stage (`DriverExitTellsTruth`). `Accepted`: the list of passes only gets shorter, so
only a function whose passes have not begun is claimed to be accepted beside the ones
through with them (`DriverVerifiedAround`). `Dumped`: a stage is past the dumps nobody
asked for (`DriverDumpsAlone`). With these every property of Driver is proved.

**ParserProof** (assumption `ParserAssumption`). What the parser will do next is in
`todo`, and each property is about it. That a procedure finds its keyword peeked
(`PeekedAlways`) takes an invariant on which items may follow one another (`Ordered`):
an item that consumes a token without looking stands behind one that peeked it. The
brackets read so far and the ones `todo` will still read are one walk over a stack of
open brackets, which must end with the stack empty (`BracketInv`, `BalancedAlways`).
The trees on the operand stack and the ones `todo` will still make are a walk over a
stack of precedences (`TreeInv`); of an expression not yet read only a lower bound of
its precedence is known (`Below`), and it is enough: `TightestAlways`. The walks are
folds over `todo`. A fold over a sequence is a function on a set of numbers, and what
holds of it follows from the least number where it would fail (`OneByOne`,
`FoldWalks`). One lemma per action of the parser. With these every safety property
of Parser is proved.

**SsaBuildProof** (assumptions `BuilderAssumption`, `DriverAssumption`), for every program,
with its own `IInv`. `TypeInv`: every block a pending call names has been handed out.
`OpenInv`: no pending call adds a predecessor to a block after one that closes it, so
that adding meets open blocks only (`SealedFrozen`). `ScanInv`: `read_var` pushes on the
list `seal_block` is walking, and only at its head, so that counting from the end the
walk still stands at an entry of its own block (`WalkStandsRight`).

**EmitterProof** (assumptions `EmitterAssumption`: sizes and costs are
naturals, and `InputAssumption`: what selection and the register allocator hand over is
of its types, calls name functions of the program or of the library, no function's name
is empty or `.rodata`), for every program, frame and length of text. First come
the types: that every encoding gives at least one byte and bytes only, whatever the
registers, and that the bytes of a branch end in a field of four and a call has its opcode
where the relocation will point behind (`EmitBytesIs`, `CallAt`). The invariant
has six parts beside the types. `TextInv`: the items of the log tile the text
without gaps, and a finished function ends before the next begins. `PatchInv`: branches of
the function at hand and patches correspond one to one, and each field is the end of its
item. From these two, patching at the end of a function writes each of its branches the
displacement to its own target and changes no other byte (`EndBytes`, `Kept`).
`LandInv` says so of the functions finished; a displacement read back as a word of 32 bits
is the one written as long as the text has at most 2^31 - 1 bytes (`WordBack`), which the
code takes for granted and the theorem says: `BranchesReach`. `SymInv`: the symbols of
finished functions have their places and sizes, no two lie at one place, and behind the
symbol of the function at hand there are external ones only. `RelInv`: the item of each
call has one relocation, of its field, to a symbol of its name, and symbols keep their
numbers and names. `CallsReachTheirs` takes from it what the linker does. `FileInv`:
sections computed one from the other (`SectionIs`, `ChainIs`) do not overlap;
`FileIsSound`, which asks for the sizes of those functions only whose calls added no
symbol, since the others do not have theirs. One lemma per action and part.

**OptimizerProof** (assumptions `OptimizerAssumption` and `ProgramsAssumption`: the
functions have instructions of the modelled operations with their operands, and the
verifier accepts them), for every set of functions, of any size. One definition a vreg,
which construction means to give but may miss (`ssa_build.c:293`) and the verifier does not
ask for, is not assumed: `LatticeDescends` has it as a condition, and `SingleStays` says
that no pass takes it away. The pipeline is six passes and the invariant `OptHolds` speaks of
the code between any two sweeps. Five of them put an instruction in the place of another:
`Mirrors` says that the code has other instructions in the same places, with the same
definitions and terminators where they were, and each pass has a lemma that it gives
such code (`ConstFoldMirrors`, `SubstituteMirrors`, `RewriteMirrors`, `CseMirrors`).
Dead code elimination leaves some out: `Picked` says that what is left of a block is
what is kept of it, in its order, from which follow the shape of the block
(`PickedShape`), that definitions stay single (`ThinnedWell`), and, when a sweep changed
nothing, that nothing dead is left (`NoneDead`). With `WellVerified`: `Verified`.

That a place in the lattice only falls (`Descends`) cannot be seen from one step: the
sweep writes what it computes over what was known, without comparing. It needs `Sound`:
what is known of a vreg is no more than what its instruction gives from what is known of
its operands, for an operation on constants their result, for a PHI the meet. Looking at
the instruction then lowers its place or leaves it (`EvaluateFalls`); it stays sound when
the places of the operands fall, the meet being monotone though its value is not symmetric
(`MeetFalls`, `PhiFalls`, `SoundStays`); and, with one definition a vreg, no other
instruction writes it. With two, `CONST 1` and `CONST 2` undo each other in every sweep
until the cap of 1000, which the model lets come at any sweep of such a function
(`Capped`). Sweeps are
folds over the places of the function; a fold is shown to be a walk along the sequence,
once for each operator folded with (`SweepInstWalks` and its siblings).

**Proved and not run:** the type invariants of Arena, RegAlloc, Scopes, Driver, Parser,
SsaBuild and Emitter, `Aligned` of Arena, `EveryVregHasAHome` of RegAlloc and `ScanInv` of
SsaBuild, which the proofs show for all constants.

**Only model-checked:** `NeverAskedTwice` and `FormKept` of SsaBuild, everything about
SsaWalk and Backend, `MeaningPreserved` of Optimizer, what the bytes of the Emitter mean
(`DecodesBack`, `DoesWhatItSays`, `FramesBalanced`), and all liveness (`Terminates`,
`Finishes`, `Returns`). Liveness under fairness is beyond this prover. The rest takes induction over
what a program computes: the value of an operand through all the instructions before
it, the meaning of a list of bytes. The library's induction
theorems cannot be used here, and recursive operators not at all; what the folds
of Parser needed was got from a least counterexample, one fold at a time.

## 6. Not modelled, and why

- How characters make tokens (`lexer.c`: numbers, strings, comments): scanning
  without a decision the parser's properties depend on. Making and printing trees.
- Types of expressions, struct layout and promotion in `hir_build.c`: a function of
  the tree, with two places that dereference NULL (section 7).
- Memory: LOAD, STORE, ALLOC and arena instructions in the back end; arrays read
  beyond their end. Isel turns LOAD and STORE into moves between registers, so a
  meaning of memory would find nothing else.
- Cases of `emit.c` that no selected instruction reaches (`ADD_IMM`, `CMP_IMM`, `JE`,
  vector registers); what the ELF headers contain beside offsets, sizes and
  alignments.
- LICM and unrolling analyse and change nothing; `opt_run_all` has no caller.
- Operator kinds that differ only in the instruction they become.
- Diagnostics: the texts. `common.h`: names and numbers.

## 7. Observations without a run

Met while modelling; where a model contains them, as slips, it does so silently.

- Lexer and parser: a number where a name is expected is used as a pointer to the
  name and the process ends, though the text is only wrong (`let 5 = 3;`); the
  fields of a struct at the end of the text loop for ever (`parser.c:575`). A call on
  an index or a field (`a[0](1)`) reads the wrong member of a union for the
  function's name (`parser.c:140`). A comment that is not closed silently ends the
  text. The update of a `for` cannot assign (`parser.c:394`). A local
  `arena frame;` is reported as "expected expression".
- `hir_build.c:76-112`: `!x`, and a promotion between integer and float, make a type
  in an arena that is NULL.
- `ssa_build.c:180-198`: the block tables grow with `realloc`, one of them was not
  allocated by `malloc`: functions of more than 16 blocks abort. SsaBuild models
  this as outcome `aborted`.
- `ssa_build.c:840`: a cast is built as a negation.
- `ssa_verify.c` does not ask for one definition per vreg, nor for definitions
  before uses, nor that a PHI's operands match its block's predecessors; it
  does not look at GEP, and an empty block only draws a warning. With
  `--no-verify`, `opt_dce.c:50` indexes with `VT_INVALID_VREG`.
- `MAX_ITERATIONS` leaves chains of more than ten dead instructions behind.
- `opt_cse.c:154`: GEP is missing among the instructions whose operands are
  replaced. `opt_constfold.c:34`: folding the smallest word divided by -1 traps
  in the compiler.
- `regalloc.c:169-173` skips parameters "already assigned" but looks at copies made
  before they were; parameters are allocated like any other vreg. The evicting
  vreg is given a slot beside its register, which it does not need
  (`regalloc.c:209`).
- `isel.c:408-463`: when both targets of a branch have PHIs and the copies for the
  unconditional jump are placed first, they stand between the two jumps; the edge of the
  conditional one is then no longer recognized and its copies are dropped. No function of
  the front end has such a branch: one of the targets is always a new block.
- `isel.c:239-254`: LOAD and STORE become moves between registers; `:290`: a print
  writes the register of vreg 0; the operands of an arena call are zeros, that is
  vreg 0.
- `emit.c`: LEA with base R12 is misencoded (`:680`); the count of a shift is never
  moved to RCX; moves of 8 and 32 bits leave or clear upper bits while every test is
  of 64, so that a negative `i32` prints as a large number at `-O1`; functions called `printf` or `__vortech_print_i64`, or
  twice the same, clash.
- `regalloc.c:243-258` counts the saved registers in the frame, and `enc_prologue`
  (`emit.c:753-767`) subtracts the frame and pushes them below it: the room is never used,
  and an odd number of them leaves the stack misaligned at calls.
- `arena.c:44`, `:74`, `:75`: the sums wrap near `SIZE_MAX`, and a request that large gets
  a block reaching beyond its page. No caller asks for so much.
- `main.c`: what is read after its arena was destroyed: the number of functions and
  their parameters (`:279`, `:288-308`, `:355`), operands in `regalloc.c:28-30` and
  `emit.c:1189`, `:1312`, `:1324`, names in `emit.c:186`, `:278` and
  `ssa_build.c:1353`, types in `hir_build.c:519` and `emit.c:412`; the comments of
  `:205`, `:225` and `:274` say otherwise. A failed link ends with status 0 (`:364`).
  Errors of SSA construction are reported and never asked for.

## 8. Plan

Done, in order: SsaBuilder, SsaBuild, SsaWalk, SsaVerify, RegAlloc with proofs,
Optimizer, Backend, Arena with proofs, Emitter, Scopes with proofs (`ReadsBound` last),
Driver with proofs, Parser with proofs, proofs for SsaBuild, Emitter and the Optimizer. Left:

1. *Proofs for SsaBuild*: the well-foundedness of `read_var` (`NeverAskedTwice`) for any
   program, from an invariant on the loops its recorded predecessors make.
2. *An abstract construction.* What SSA construction promises of one variable
   (the definition that reaches each read), as an abstract specification that
   SsaBuilder implements where its result is in SSA form.
3. *Backend*: the covering of intervals where control goes down the code, for any function
   whose definitions dominate their uses and whose branches have PHIs at one target at most
   (see `isel.c:408-463` in section 7: without this it does not hold).
4. *Bigger instances* of `backend`: two parameters.
