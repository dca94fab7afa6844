--------------------------------- MODULE Driver ---------------------------------
(***************************************************************************)
(* main.c: the stages of a compilation, the arenas each representation     *)
(* lives in, and the ways out.  What a stage computes is left open: it may *)
(* report errors, and a function of the program is well formed or not.     *)
(*                                                                         *)
(* An arena is destroyed when the next representation is made, but that    *)
(* one still points into it.  Memory that is read after its arena is gone  *)
(* holds what it held, or ends the process: `stale' keeps such reads.      *)
(***************************************************************************)
EXTENDS Integers, Sequences, FiniteSets

CONSTANTS
  MaxArgs,   \* bound: arguments on the command line
  MaxFuncs   \* bound: functions of the program

ASSUME DriverAssumption == MaxArgs \in Nat /\ MaxFuncs \in Nat

VARIABLES
  left,      \* how many more arguments there may be
  cfg, stage,
  errors,    \* diag.c: something was reported
  sound,     \* per function: the verifier would accept it
  todo,      \* the passes the current function is still to go through
  index,     \* the current function
  live,      \* the arenas (and the source) in existence
  freed,     \* how often each was freed
  stale, failed, made,
  rc,        \* what the linker answered
  status     \* of the process

vars == <<left, cfg, stage, errors, sound, todo, index, live, freed, stale, failed, made, rc, status>>
run == <<errors, sound, todo, index, rc>>
memory == <<live, freed>>

Running == -1
Crashed == -2
Dumps == <<"ast", "hir", "ssa", "mach">>
Heap == {"source", "ast", "hir", "ssa", "mach"}

\* Where each object lives; `types' are those that were declared, `names' belong to
\* functions and variables, `prog' is the list of functions with its length,
\* `operands' are parameters and arguments of calls.
Home == [source |-> "source", ast |-> "ast", types |-> "ast", hir |-> "hir", names |-> "hir",
         ssa |-> "ssa", prog |-> "ssa", operands |-> "ssa", mach |-> "mach"]
Borrowed == {"types", "names", "prog", "operands"}

\* What a stage reads, whichever functions it meets.
Needs == [args |-> {}, read |-> {}, parse |-> {"source"},
  ast_print |-> {"ast", "types"}, hir_build |-> {"ast", "types"}, hir_print |-> {"hir", "names", "types"},
  ssa_build |-> {"hir", "names", "types"}, verify |-> {"ssa", "prog", "operands"},
  ssa_print |-> {"ssa", "prog", "operands", "names"}, optimize |-> {"ssa", "prog", "operands"},
  isel |-> {"ssa", "prog", "operands"}, mach_print |-> {"mach", "prog", "operands", "names"},
  regalloc |-> {"mach", "prog", "operands"}, peephole |-> {"mach", "prog"},
  emit |-> {"mach", "prog", "operands", "names", "types"}, link |-> {}, cleanup |-> {"prog"}]

PrintOf == [ast |-> "ast_print", hir |-> "hir_print", ssa |-> "ssa_print", mach |-> "mach_print"]

Gone == {o \in Needs[stage] : Home[o] \notin live}
Touch == stale' = stale \cup ({stage} \X Gone)

-------------------------------------------------------------------------------

Go(s) == stage' = s /\ status' = status
Exit(code) == status' = code /\ stage' = stage
Fail(why) == failed' = failed \cup {why}
Free(rs) ==
  /\ live' = live \ rs
  /\ freed' = [r \in Heap |-> freed[r] + IF r \in rs THEN 1 ELSE 0]

Init ==
  /\ left = MaxArgs
  /\ cfg = [opt_level |-> 2, dumps |-> {}, no_verify |-> FALSE, input |-> FALSE]
  /\ stage = "args" /\ errors = FALSE /\ sound = <<>> /\ todo = <<>> /\ index = 1
  /\ live = {} /\ freed = [r \in Heap |-> 0]
  /\ stale = {} /\ failed = {} /\ made = {} /\ rc = 0 /\ status = Running

\* -o takes the next argument with it, whatever it is; as the last one it is unknown.
Option(n, changed) ==
  /\ status = Running /\ stage = "args" /\ left >= n
  /\ left' = left - n /\ cfg' = changed
  /\ UNCHANGED <<stage, run, memory, stale, failed, made, status>>

ArgsEnd(ok, code) ==
  /\ status = Running /\ stage = "args"
  /\ IF ok THEN Go("read") /\ UNCHANGED failed
     ELSE Exit(code) /\ IF code = 0 THEN UNCHANGED failed ELSE Fail("usage")
  /\ UNCHANGED <<left, cfg, run, memory, stale, made>>

parse_args ==
  \/ Option(2, cfg)
  \/ \E l \in 0..2 : Option(1, [cfg EXCEPT !.opt_level = l])
  \/ \E d \in {"ast", "hir", "ssa", "mach"} : Option(1, [cfg EXCEPT !.dumps = @ \cup {d}])
  \/ Option(1, [cfg EXCEPT !.no_verify = TRUE])
  \/ Option(1, [cfg EXCEPT !.input = TRUE])
  \/ left > 0 /\ ArgsEnd(FALSE, 0)      \* -h
  \/ left > 0 /\ ArgsEnd(FALSE, 1)      \* not an option
  \/ ArgsEnd(cfg.input, 1)

At(s) == status = Running /\ stage = s /\ UNCHANGED <<left, cfg>>

read_file ==
  /\ At("read")
  /\ \/ Go("parse") /\ live' = Heap /\ UNCHANGED <<freed, failed>>
     \/ Exit(1) /\ Fail("read") /\ UNCHANGED memory
  /\ UNCHANGED <<run, stale, made>>

parser_parse ==
  /\ At("parse") /\ Touch
  /\ \E e \in BOOLEAN : errors' = e
  /\ IF errors' THEN Exit(1) /\ Fail("parse") /\ Free({"ast", "source"})
     ELSE Go(IF "ast" \in cfg.dumps THEN "ast_print" ELSE "hir_build") /\ UNCHANGED <<failed, memory>>
  /\ UNCHANGED <<sound, todo, index, rc, made>>

Dump_GoesOn(d, rs) ==
  /\ At(PrintOf[d]) /\ Touch
  /\ made' = made \cup {d}
  /\ IF d = "ssa" THEN Go("optimize") /\ UNCHANGED memory ELSE Exit(0) /\ Free(rs)
  /\ UNCHANGED <<run, failed>>
\* Print and exit, with what was live freed or left to the system.
Dump(d, rs) ==
  /\ At(PrintOf[d]) /\ Touch
  /\ made' = made \cup {d} /\ Exit(0) /\ Free(rs)
  /\ UNCHANGED <<run, failed>>

hir_build_Unchecked ==
  /\ At("hir_build") /\ Touch
  /\ \E e \in BOOLEAN : errors' = e /\ IF e THEN Fail("hir") ELSE UNCHANGED failed
  /\ Go(IF "hir" \in cfg.dumps THEN "hir_print" ELSE "ssa_build") /\ Free({"ast"})
  /\ UNCHANGED <<sound, todo, index, rc, made>>
hir_build ==
  /\ At("hir_build") /\ Touch
  /\ \E e \in BOOLEAN : errors' = e
  /\ IF errors' THEN Exit(1) /\ Fail("hir") /\ Free({"ast", "source"})
     ELSE Go(IF "hir" \in cfg.dumps THEN "hir_print" ELSE "ssa_build") /\ Free({"ast"}) /\ UNCHANGED failed
  /\ UNCHANGED <<sound, todo, index, rc, made>>

\* Errors of SSA construction are reported, but nothing asks for them.
ssa_build ==
  /\ At("ssa_build") /\ Touch
  /\ \E n \in 0..MaxFuncs : sound' \in [1..n -> BOOLEAN]
  /\ \/ UNCHANGED <<errors, failed>>
     \/ errors' = TRUE /\ Fail("ssa")
  /\ Free({"hir"}) /\ Go("verify")
  /\ UNCHANGED <<todo, index, rc, made>>

ssa_verify_program_Any(fs) == DOMAIN fs # {} => \E i \in DOMAIN fs : fs[i]
ssa_verify_program(fs) == \A i \in DOMAIN fs : fs[i]

Passes ==
  (IF cfg.opt_level >= 1 THEN <<"const_fold", "dce", "copy_prop">> ELSE <<>>)
  \o (IF cfg.opt_level >= 2 THEN <<"sccp", "cse", "dce", "licm">> ELSE <<>>)

verify ==
  /\ At("verify")
  /\ IF cfg.no_verify THEN UNCHANGED stale ELSE Touch
  /\ IF ~cfg.no_verify /\ ~ssa_verify_program(sound)
     THEN Exit(1) /\ Fail("verify")
     ELSE Go(IF "ssa" \in cfg.dumps THEN "ssa_print" ELSE "optimize") /\ UNCHANGED failed
  /\ todo' = Passes /\ index' = 1
  /\ UNCHANGED <<errors, sound, rc, memory, made>>

\* A pass may spoil its function; LICM only looks.
Pass ==
  /\ At("optimize") /\ index \in DOMAIN sound /\ todo # <<>> /\ Touch
  /\ \/ UNCHANGED sound
     \/ Head(todo) # "licm" /\ sound' = [sound EXCEPT ![index] = FALSE]
  /\ todo' = Tail(todo) /\ Go(stage)
  /\ UNCHANGED <<errors, index, rc, memory, failed, made>>

ssa_verify_func ==
  /\ At("optimize") /\ index \in DOMAIN sound /\ todo = <<>> /\ Touch
  /\ IF ~cfg.no_verify /\ ~sound[index]
     THEN Exit(1) /\ Fail("verify") /\ UNCHANGED <<index, todo>>
     ELSE index' = index + 1 /\ todo' = Passes /\ Go(stage) /\ UNCHANGED failed
  /\ UNCHANGED <<errors, sound, rc, memory, made>>

Optimized_Freed ==
  /\ At("optimize") /\ index \notin DOMAIN sound /\ Touch
  /\ Go("isel") /\ Free({"ssa"})
  /\ UNCHANGED <<run, failed, made>>
Optimized ==
  /\ At("optimize") /\ index \notin DOMAIN sound /\ Touch
  /\ Go("isel")
  /\ UNCHANGED <<run, memory, failed, made>>

Work(s, rs, next) ==
  /\ At(s) /\ Touch /\ Free(rs) /\ Go(next)
  /\ UNCHANGED <<run, failed, made>>

isel == Work("isel", {"ssa"}, IF "mach" \in cfg.dumps THEN "mach_print" ELSE "regalloc")
regalloc == Work("regalloc", {}, "peephole")
peephole == Work("peephole", {}, "emit")

emit_object ==
  /\ At("emit") /\ Touch
  /\ \/ Go("link") /\ made' = made \cup {"object"} /\ UNCHANGED <<failed, memory>>
     \/ Exit(1) /\ Fail("emit") /\ Free({"source"}) /\ UNCHANGED made
  /\ UNCHANGED run

\* system() answers with a wait status, its exit code in the upper byte, or -1; the
\* result of main is the lower byte of that.
ExitStatus(answer) == answer % 256
link ==
  /\ At("link")
  /\ \E answer \in {0, 256, -1} :
       /\ rc' = answer
       /\ IF answer = 0 THEN made' = made \cup {"executable"} /\ UNCHANGED failed
          ELSE Fail("link") /\ UNCHANGED made
  /\ Go("cleanup")
  /\ UNCHANGED <<errors, sound, todo, index, memory, stale>>

cleanup_Both ==
  /\ At("cleanup") /\ Touch /\ Free({"source", "ssa", "mach"}) /\ Exit(ExitStatus(rc))
  /\ UNCHANGED <<run, failed, made>>
cleanup ==
  /\ At("cleanup") /\ Touch /\ Free({"source", "mach"}) /\ Exit(ExitStatus(rc))
  /\ UNCHANGED <<run, failed, made>>

\* The ways out that no stage chooses: memory that is gone, and no more memory.
Crash ==
  /\ status = Running /\ Gone # {} /\ Touch
  /\ Exit(Crashed)
  /\ UNCHANGED <<left, cfg, run, memory, failed, made>>

OutOfMemory ==
  /\ status = Running /\ Touch
  /\ stage \in {"read", "parse", "hir_build", "ssa_build", "optimize", "isel", "regalloc", "emit"}
  /\ Exit(1) /\ Fail("memory")
  /\ UNCHANGED <<left, cfg, run, memory, made>>

Next ==
  \/ parse_args \/ read_file \/ parser_parse \/ hir_build \/ ssa_build \/ verify
  \/ Pass \/ ssa_verify_func \/ Optimized \/ isel \/ regalloc \/ peephole
  \/ emit_object \/ link \/ cleanup \/ Crash \/ OutOfMemory
  \/ Dump("ast", {"ast", "source"}) \/ Dump("hir", {"hir", "source"})
  \/ Dump("ssa", {"ssa", "source"}) \/ Dump("mach", {"source"})

Spec == Init /\ [][Next]_vars

-------------------------------------------------------------------------------

TypeOK ==
  /\ left \in 0..MaxArgs /\ stage \in DOMAIN Needs
  /\ cfg \in [opt_level : 0..2, dumps : SUBSET {"ast", "hir", "ssa", "mach"},
              no_verify : BOOLEAN, input : BOOLEAN]
  /\ errors \in BOOLEAN /\ rc \in {0, 256, -1} /\ Len(sound) \in 0..MaxFuncs /\ index \in 1..(MaxFuncs + 1)
  /\ live \subseteq Heap /\ stale \subseteq ((DOMAIN Needs) \X (DOMAIN Home))
  /\ status \in {Running, Crashed} \cup 0..255

\* The verifier stands around the pipeline of a function, not around each pass
\* (main.c:228-232, 244-265).  Unless told not to verify, a function the verifier rejects
\* does not enter its first pass, is not left behind when the next function begins,
\* and does not reach selection.  Nothing is said of what the later passes are given:
\* ssa_verify.c:4 promises the verifier before and after each, and main does not call it.
VerifiedAround ==
  ~cfg.no_verify /\ status = Running =>
    /\ stage = "optimize" /\ todo = Passes /\ index \in DOMAIN sound => sound[index]
    /\ stage = "optimize" => \A i \in DOMAIN sound : i # index => sound[i]
    /\ stage \in {"isel", "mach_print", "regalloc", "peephole", "emit", "link"} =>
         \A i \in DOMAIN sound : sound[i]

\* The exit status says what happened: 0 only if nothing failed, but for an error of SSA
\* construction and a failing linker, whose status loses its upper byte; 1 only
\* after a failure, with no object file made (main.c:187-192, 208-212, 308-314, 364).
ExitTellsTruth ==
  /\ status = 0 => failed \subseteq {"ssa", "link"}
  /\ status \in 1..255 => failed # {} /\ "executable" \notin made
  /\ status = 1 => "object" \notin made
  /\ "executable" \in made => failed \subseteq {"ssa"}

\* Whatever is read after its arena is gone is something a later representation has
\* borrowed, never the one the stage works on (main.c:205, 225, 274).
InputsAlive == \A read \in stale : read[2] \in Borrowed

\* Nothing is freed twice on any way out, and a compilation that comes to its
\* end has freed everything.
FreedOnce ==
  /\ \A r \in Heap : freed[r] <= 1
  /\ stage = "cleanup" /\ status \in 0..255 => live = {}

\* "Print ... and exit": of several dumps only the earliest is made, and no file
\* is written (main.c:57-60).
DumpsAlone ==
  /\ status = 0 /\ cfg.dumps # {} /\ stage # "args" =>
       \E i \in DOMAIN Dumps :
         /\ made = {Dumps[i]} /\ Dumps[i] \in cfg.dumps
         /\ \A j \in 1..(i - 1) : Dumps[j] \notin cfg.dumps
  /\ cfg.dumps # {} => "object" \notin made

===============================================================================
