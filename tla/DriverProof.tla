------------------------------- MODULE DriverProof -------------------------------
(***************************************************************************)
(* The ways out of a compilation, for command lines and programs of any    *)
(* length: what is freed and read, and what the exit status says.          *)
(*                                                                         *)
(* None of the properties is inductive alone.  What an arena's state is    *)
(* depends on the stage only (Kept), what was reported and made likewise   *)
(* (Reported), and a function stays accepted until its passes begin        *)
(* (Accepted).                                                             *)
(***************************************************************************)
EXTENDS Driver, SequenceTheorems, TLAPS

Stages == {"args", "read", "parse", "ast_print", "hir_build", "hir_print", "ssa_build", "verify", "ssa_print",
           "optimize", "isel", "mach_print", "regalloc", "peephole", "emit", "link", "cleanup"}
Configs == [opt_level : 0..2, dumps : SUBSET {"ast", "hir", "ssa", "mach"}, no_verify : BOOLEAN, input : BOOLEAN]
PassNames == {"const_fold", "dce", "copy_prop", "sccp", "cse", "licm"}
Late == {"verify", "ssa_print", "optimize", "isel"}

Types ==
  /\ left \in 0..MaxArgs /\ cfg \in Configs /\ stage \in Stages
  /\ errors \in BOOLEAN /\ rc \in {0, 256, -1} /\ status \in {Running, Crashed} \cup 0..255
  /\ sound \in Seq(BOOLEAN) /\ Len(sound) \in 0..MaxFuncs
  /\ index \in 1..(MaxFuncs + 1)
  /\ todo \in Seq(PassNames)

Kept(s) ==
  IF s \in {"args", "read"} THEN {}
  ELSE IF s \in {"parse", "ast_print", "hir_build"} THEN Heap
  ELSE IF s \in {"hir_print", "ssa_build"} THEN {"source", "hir", "ssa", "mach"}
  ELSE IF s \in Late THEN {"source", "ssa", "mach"}
  ELSE {"source", "mach"}
Memory ==
  /\ live \subseteq Heap /\ freed \in [Heap -> {0, 1}]
  /\ \A r \in live : freed[r] = 0
  /\ stage \in {"args", "read"} => freed = [r \in Heap |-> 0]
  /\ status = Running => live = Kept(stage)
  /\ stage = "cleanup" /\ status \in 0..255 => live = {}
Reads == stale \subseteq (Stages \X Borrowed)

Reported ==
  /\ status = Running =>
       /\ failed \subseteq {"ssa", "link"}
       /\ stage # "cleanup" => rc = 0 /\ failed \subseteq {"ssa"}
       /\ stage \notin {"link", "cleanup"} => made = {}
       /\ stage = "link" => made = {"object"}
       /\ stage = "cleanup" => made \subseteq {"object", "executable"}
       /\ stage = "cleanup" /\ rc = 0 => failed \subseteq {"ssa"}
       /\ stage = "cleanup" /\ rc # 0 => made = {"object"} /\ "link" \in failed
  /\ ExitTellsTruth

Accepted ==
  /\ status = Running /\ stage = "optimize" => index \in 1..(Len(sound) + 1) /\ Len(todo) <= Len(Passes)
  /\ VerifiedAround

AfterMach == {"regalloc", "peephole", "emit", "link", "cleanup"}
AfterSsa == AfterMach \cup {"optimize", "isel", "mach_print"}
AfterHir == AfterSsa \cup {"ssa_build", "verify", "ssa_print"}
AfterAst == AfterHir \cup {"hir_build", "hir_print"}
Dumped ==
  /\ status = Running =>
       /\ stage \in AfterAst => "ast" \notin cfg.dumps
       /\ stage \in AfterHir => "hir" \notin cfg.dumps
       /\ stage \in AfterSsa => "ssa" \notin cfg.dumps
       /\ stage \in AfterMach => "mach" \notin cfg.dumps
       /\ \A d \in DOMAIN PrintOf : stage = PrintOf[d] => d \in cfg.dumps
  /\ DumpsAlone

-------------------------------------------------------------------------------

LEMMA StagesAre == DOMAIN Needs = Stages /\ DOMAIN Home = {"source", "ast", "types", "hir", "names", "ssa", "prog", "operands", "mach"}
  BY DEF Needs, Home, Stages

LEMMA PassesAre == Passes \in Seq(PassNames) /\ Len(Passes) \in Nat
<1> DEFINE three == <<"const_fold", "dce", "copy_prop">>
           four == <<"sccp", "cse", "dce", "licm">>
<1>1. three \in [1..3 -> PassNames] /\ four \in [1..4 -> PassNames]
  <2>1. DOMAIN three = 1..3 /\ DOMAIN four = 1..4
    OBVIOUS
  <2>2. \A k \in 1..3 : three[k] \in PassNames
    BY DEF PassNames
  <2>3. \A k \in 1..4 : four[k] \in PassNames
    BY DEF PassNames
  <2> QED
    BY <2>1, <2>2, <2>3
<1>2. Passes = (IF cfg.opt_level >= 1 THEN three ELSE <<>>) \o (IF cfg.opt_level >= 2 THEN four ELSE <<>>)
  BY DEF Passes
<1> HIDE DEF three, four
<1>3. three \in Seq(PassNames) /\ four \in Seq(PassNames) /\ <<>> \in Seq(PassNames)
  <2>1. three \in Seq(PassNames)
    BY <1>1, 3 \in Nat, SeqDef
  <2>2. four \in Seq(PassNames)
    <3>1. four \in [1..4 -> PassNames] /\ 4 \in Nat
      BY <1>1
    <3> QED
      BY <3>1, SeqDef, Zenon
  <2> QED
    BY <2>1, <2>2
<1> DEFINE low == IF cfg.opt_level >= 1 THEN three ELSE <<>>
           high == IF cfg.opt_level >= 2 THEN four ELSE <<>>
<1>4. low \in Seq(PassNames) /\ high \in Seq(PassNames)
  BY <1>3
<1>5. Passes = low \o high
  BY <1>2
<1> HIDE DEF low, high
<1> QED
  BY <1>4, <1>5

\* What a stage reads of memory that is gone was borrowed.
LEMMA GoneIsBorrowed ==
  ASSUME stage \in Stages, live = Kept(stage)
  PROVE  Gone \subseteq Borrowed
  BY DEF Gone, Needs, Home, Borrowed, Kept, Late, Heap, Stages

LEMMA InitTypes == Init => Types
<1> SUFFICES ASSUME Init PROVE Types
  OBVIOUS
<1>1. sound \in Seq(BOOLEAN) /\ Len(sound) = 0 /\ todo \in Seq(PassNames) /\ index = 1
  BY DEF Init
<1>2. cfg \in Configs
  BY DEF Init, Configs
<1>3. left \in 0..MaxArgs /\ stage \in Stages
  BY DriverAssumption DEF Init, Stages
<1>4. errors \in BOOLEAN
  BY DEF Init
<1>5. rc \in {0, 256, -1} /\ status = Running
  BY DEF Init
<1>6. Len(sound) \in 0..MaxFuncs /\ index \in 1..(MaxFuncs + 1)
  BY <1>1, DriverAssumption
<1> QED
  BY <1>1, <1>2, <1>3, <1>4, <1>5, <1>6 DEF Types

\* The types of the next state, one action at a time.
LEMMA TypesStep == Types /\ [Next]_vars => Types'
<1> SUFFICES ASSUME Types, [Next]_vars PROVE Types'
  OBVIOUS
<1> USE DriverAssumption DEF Types, Stages, Running, Crashed, At, Go, Exit
<1>1. CASE parse_args
  <2>1. ASSUME NEW n \in 1..2, NEW changed \in Configs, Option(n, changed) PROVE Types'
    BY <2>1 DEF Option, run
  <2>2. ASSUME status' \in {Running, 0, 1}, stage' \in {"args", "read"}, UNCHANGED <<left, cfg, run>> PROVE Types'
    BY <2>2 DEF run
  <2>3. /\ \A l \in 0..2 : [cfg EXCEPT !.opt_level = l] \in Configs
        /\ \A d \in {"ast", "hir", "ssa", "mach"} : [cfg EXCEPT !.dumps = @ \cup {d}] \in Configs
        /\ [cfg EXCEPT !.no_verify = TRUE] \in Configs /\ [cfg EXCEPT !.input = TRUE] \in Configs
    BY DEF Configs
  <2>4. ASSUME Option(2, cfg) PROVE Types'
    BY <2>1, <2>4
  <2>5. ASSUME NEW changed \in Configs, Option(1, changed) PROVE Types'
    BY <2>1, <2>5
  <2>6. ASSUME ArgsEnd(FALSE, 0) \/ ArgsEnd(FALSE, 1) \/ ArgsEnd(cfg.input, 1) PROVE Types'
    BY <2>2, <2>6 DEF ArgsEnd
  <2>7. CASE \E l \in 0..2 : Option(1, [cfg EXCEPT !.opt_level = l])
    <3>1. PICK l \in 0..2 : Option(1, [cfg EXCEPT !.opt_level = l])
      BY <2>7
    <3>2. [cfg EXCEPT !.opt_level = l] \in Configs
      BY <2>3
    <3> QED
      BY <2>5, <3>1, <3>2
  <2>8. CASE \E d \in {"ast", "hir", "ssa", "mach"} : Option(1, [cfg EXCEPT !.dumps = @ \cup {d}])
    <3>1. PICK d \in {"ast", "hir", "ssa", "mach"} : Option(1, [cfg EXCEPT !.dumps = @ \cup {d}])
      BY <2>8
    <3>2. [cfg EXCEPT !.dumps = @ \cup {d}] \in Configs
      BY <2>3
    <3> QED
      BY <2>5, <3>1, <3>2
  <2>9. CASE Option(1, [cfg EXCEPT !.no_verify = TRUE]) \/ Option(1, [cfg EXCEPT !.input = TRUE])
    BY <2>3, <2>5, <2>9
  <2> QED
    BY <1>1, <2>4, <2>6, <2>7, <2>8, <2>9 DEF parse_args
<1>2. CASE read_file
  BY <1>2 DEF read_file, run
<1>3. CASE parser_parse
  <2>1. errors' \in BOOLEAN
    BY <1>3 DEF parser_parse
  <2> QED
    BY <1>3, <2>1 DEF parser_parse
<1>4. CASE hir_build
  <2>1. errors' \in BOOLEAN
    BY <1>4 DEF hir_build
  <2> QED
    BY <1>4, <2>1 DEF hir_build
<1>5. CASE ssa_build
  <2>1. PICK n \in 0..MaxFuncs : sound' \in [1..n -> BOOLEAN]
    BY <1>5 DEF ssa_build
  <2>2. sound' \in Seq(BOOLEAN) /\ Len(sound') = n
    BY <2>1
  <2>3. errors' \in BOOLEAN
    BY <1>5 DEF ssa_build
  <2> QED
    BY <1>5, <2>2, <2>3 DEF ssa_build
<1>6. CASE verify
  BY <1>6, PassesAre DEF verify
<1>7. CASE Pass
  <2>1. todo' \in Seq(PassNames)
    BY <1>7 DEF Pass
  <2>2. sound' = sound \/ sound' = [sound EXCEPT ![index] = FALSE]
    BY <1>7 DEF Pass
  <2>4. [sound EXCEPT ![index] = FALSE] \in Seq(BOOLEAN) /\ Len([sound EXCEPT ![index] = FALSE]) = Len(sound)
    <3>1. sound \in [1..Len(sound) -> BOOLEAN] /\ Len(sound) \in Nat
      OBVIOUS
    <3>2. [sound EXCEPT ![index] = FALSE] \in [1..Len(sound) -> BOOLEAN]
      BY <3>1, Zenon
    <3> QED
      BY <3>1, <3>2
  <2>3. sound' \in Seq(BOOLEAN) /\ Len(sound') = Len(sound)
    BY <2>2, <2>4
  <2> QED
    BY <1>7, <2>1, <2>3 DEF Pass
<1>8. CASE ssa_verify_func
  <2>1. index' \in 1..(MaxFuncs + 1)
    BY <1>8 DEF ssa_verify_func
  <2>2. todo' \in Seq(PassNames)
    BY <1>8, PassesAre DEF ssa_verify_func
  <2>3. stage' \in Stages /\ status' \in {Running, 1}
    BY <1>8 DEF ssa_verify_func
  <2> QED
    BY <1>8, <2>1, <2>2, <2>3 DEF ssa_verify_func
<1>9. CASE Optimized \/ isel \/ regalloc \/ peephole
  BY <1>9 DEF Optimized, isel, regalloc, peephole, Work, run
<1>10. CASE emit_object \/ cleanup \/ Crash \/ OutOfMemory
  <2>1. ExitStatus(rc) \in 0..255
    BY DEF ExitStatus
  <2> QED
    BY <1>10, <2>1 DEF emit_object, cleanup, Crash, OutOfMemory, run
<1>11. CASE link
  BY <1>11 DEF link
<1>12. CASE \E d \in {"ast", "hir", "ssa", "mach"}, rs \in SUBSET Heap : Dump(d, rs)
  BY <1>12 DEF Dump, run
<1>13. CASE UNCHANGED vars
  BY <1>13 DEF vars
<1> QED
  BY <1>1, <1>2, <1>3, <1>4, <1>5, <1>6, <1>7, <1>8, <1>9, <1>10, <1>11, <1>12, <1>13 DEF Next, Heap

\* What is live, and how often it was freed, follows from the stage.
LEMMA MemoryStep == Types /\ Memory /\ [Next]_vars => Memory'
<1> SUFFICES ASSUME Types, Memory, [Next]_vars PROVE Memory'
  OBVIOUS
<1>0. /\ live \subseteq Heap /\ freed \in [Heap -> {0, 1}] /\ \A r \in live : freed[r] = 0
      /\ status = Running => live = Kept(stage)
      /\ stage \in {"args", "read"} => freed = [r \in Heap |-> 0]
  BY DEF Memory
\* Freeing what is live keeps the account.
<1>1. ASSUME NEW rs \in SUBSET live, Free(rs)
      PROVE  live' = live \ rs /\ live' \subseteq Heap /\ freed' \in [Heap -> {0, 1}] /\ \A r \in live' : freed'[r] = 0
  <2>1. freed' = [r \in Heap |-> freed[r] + IF r \in rs THEN 1 ELSE 0] /\ live' = live \ rs
    BY <1>1 DEF Free
  <2>2. \A r \in Heap : (r \in rs => freed[r] = 0) /\ freed[r] \in {0, 1}
    BY <1>0
  <2>3. \A r \in Heap : (freed[r] + IF r \in rs THEN 1 ELSE 0) \in {0, 1}
    BY <2>2
  <2>4. \A r \in live' : freed'[r] = 0
    BY <1>0, <2>1
  <2> HIDE DEF Heap
  <2> QED
    BY <1>0, <2>1, <2>3, <2>4
\* A step that frees nothing, and one that frees what is live.
<1>2. ASSUME UNCHANGED memory, status = Running,
             \/ /\ status' = Running /\ Kept(stage') = Kept(stage)
                /\ stage' \in {"args", "read"} => stage \in {"args", "read"}
             \/ status' # Running /\ stage' = stage /\ (stage = "cleanup" => status' \notin 0..255)
      PROVE  Memory'
  BY <1>0, <1>2 DEF Memory, memory, Running
<1>3. ASSUME status = Running, NEW rs \in SUBSET live, Free(rs), stage' \notin {"args", "read"},
             \/ status' = Running /\ Kept(stage') = Kept(stage) \ rs
             \/ status' # Running /\ stage' = stage /\ (stage = "cleanup" => rs = live)
      PROVE  Memory'
  <2>1. live' = live \ rs /\ live' \subseteq Heap /\ freed' \in [Heap -> {0, 1}] /\ \A r \in live' : freed'[r] = 0
    BY <1>1, <1>3
  <2>2. live = Kept(stage)
    BY <1>0, <1>3
  <2> QED
    BY <1>3, <2>1, <2>2 DEF Memory, Running
<1> USE DEF Kept, Late, Heap
<1>4. CASE parse_args
  <2>1. status = Running /\ stage = "args" /\ UNCHANGED memory /\ stage' \in {"args", "read"}
        /\ (status' # Running => stage' = stage)
    BY <1>4 DEF parse_args, Option, ArgsEnd, Go, Exit
  <2> QED
    BY <1>2, <2>1
<1>5. CASE read_file
  <2>1. CASE UNCHANGED memory /\ Exit(1)
    BY <1>2, <1>5, <2>1 DEF read_file, At, Exit, Running
  <2>2. CASE live' = Heap /\ UNCHANGED freed /\ Go("parse")
    <3>1. freed' = [r \in Heap |-> 0] /\ status' = Running /\ stage' = "parse"
      BY <1>0, <1>5, <2>2 DEF read_file, At, Go
    <3> QED
      BY <2>2, <3>1 DEF Memory, Running
  <2> QED
    BY <1>5, <2>1, <2>2 DEF read_file
<1>6. CASE parser_parse \/ hir_build \/ ssa_build
  <2>1. status = Running /\ stage \in {"parse", "hir_build", "ssa_build"} /\ live = Kept(stage)
    BY <1>0, <1>6 DEF parser_parse, hir_build, ssa_build, At
  <2>2. CASE parser_parse
    <3>1. \/ UNCHANGED memory /\ status' = Running /\ stage' \in {"ast_print", "hir_build"}
          \/ Free({"ast", "source"}) /\ status' = 1 /\ stage' = stage
      BY <2>1, <2>2 DEF parser_parse, Go, Exit
    <3>2. stage = "parse"
      BY <2>2 DEF parser_parse, At
    <3> QED
      BY <1>2, <1>3, <2>1, <3>1, <3>2 DEF Running
  <2>3. CASE hir_build
    <3>1. \/ Free({"ast"}) /\ status' = Running /\ stage' \in {"hir_print", "ssa_build"}
          \/ Free({"ast", "source"}) /\ status' = 1 /\ stage' = stage
      BY <2>1, <2>3 DEF hir_build, Go, Exit
    <3>2. stage = "hir_build"
      BY <2>3 DEF hir_build, At
    <3> QED
      BY <1>3, <2>1, <3>1, <3>2 DEF Running
  <2>4. CASE ssa_build
    <3>1. Free({"hir"}) /\ status' = Running /\ stage' = "verify" /\ stage = "ssa_build"
      BY <2>1, <2>4 DEF ssa_build, Go, At
    <3> QED
      BY <1>3, <2>1, <3>1
  <2> QED
    BY <1>6, <2>2, <2>3, <2>4
<1>7. CASE verify \/ Pass \/ ssa_verify_func \/ Optimized
  <2>1. /\ status = Running /\ stage \in Late /\ UNCHANGED memory
        /\ \/ status' = Running /\ stage' \in Late
           \/ status' = 1 /\ stage' = stage
    BY <1>7 DEF verify, Pass, ssa_verify_func, Optimized, At, Go, Exit
  <2> QED
    BY <1>2, <2>1 DEF Running
<1>8. CASE isel
  <2>1. status = Running /\ stage = "isel" /\ Free({"ssa"}) /\ status' = Running /\ stage' \in {"mach_print", "regalloc"}
    BY <1>8 DEF isel, Work, At, Go
  <2> QED
    BY <1>0, <1>3, <2>1
<1>9. CASE regalloc \/ peephole
  <2>1. status = Running /\ stage \in {"regalloc", "peephole"} /\ Free({}) /\ status' = Running /\ stage' \in {"peephole", "emit"}
    BY <1>9 DEF regalloc, peephole, Work, At, Go
  <2> QED
    BY <1>3, <2>1
<1>10. CASE emit_object \/ link
  <2>1. /\ status = Running /\ stage \in {"emit", "link"}
        /\ \/ UNCHANGED memory /\ status' = Running /\ stage' \in {"link", "cleanup"}
           \/ Free({"source"}) /\ status' = 1 /\ stage' = stage
    BY <1>10 DEF emit_object, link, At, Go, Exit
  <2> QED
    BY <1>0, <1>2, <1>3, <2>1 DEF Running
<1>11. CASE cleanup
  <2>1. status = Running /\ stage = "cleanup" /\ Free({"source", "mach"}) /\ status' = ExitStatus(rc) /\ stage' = stage
    BY <1>11 DEF cleanup, At, Exit
  <2>2. status' \in 0..255
    BY <2>1 DEF ExitStatus, Types
  <2> QED
    BY <1>0, <1>3, <2>1, <2>2 DEF Running
<1>12. CASE Crash \/ OutOfMemory
  <2>1. /\ status = Running /\ UNCHANGED memory /\ stage' = stage
        /\ \/ status' = Crashed
           \/ status' = 1 /\ stage # "cleanup"
    BY <1>12 DEF Crash, OutOfMemory, Exit
  <2> QED
    BY <1>2, <2>1 DEF Running, Crashed
<1>13. CASE \E d \in {"ast", "hir", "ssa", "mach"}, rs \in SUBSET Heap : Dump(d, rs) /\ rs \subseteq Kept(PrintOf[d])
  <2>1. PICK d \in {"ast", "hir", "ssa", "mach"}, rs \in SUBSET Heap : Dump(d, rs) /\ rs \subseteq Kept(PrintOf[d])
    BY <1>13
  <2>2. /\ status = Running /\ stage = PrintOf[d] /\ Free(rs) /\ status' = 0 /\ stage' = stage
        /\ stage \in {"ast_print", "hir_print", "ssa_print", "mach_print"}
    BY <2>1 DEF Dump, At, Exit, PrintOf
  <2>3. rs \subseteq live
    BY <1>0, <2>1, <2>2
  <2> QED
    BY <1>3, <2>2, <2>3 DEF Running
<1>14. CASE UNCHANGED vars
  BY <1>0, <1>14 DEF Memory, vars
<1> QED
  BY <1>4, <1>5, <1>6, <1>7, <1>8, <1>9, <1>10, <1>11, <1>12, <1>13, <1>14 DEF Next, PrintOf

\* Every step works on memory that is there, or that a later representation borrows.
LEMMA ReadsStep == Types /\ Memory /\ Reads /\ [Next]_vars => Reads'
<1> SUFFICES ASSUME Types, Memory, Reads, [Next]_vars PROVE Reads'
  OBVIOUS
<1>1. ASSUME status = Running, Touch PROVE Reads'
  <2>1. Gone \subseteq Borrowed /\ stage \in Stages
    BY <1>1, GoneIsBorrowed DEF Memory, Types
  <2> QED
    BY <1>1, <2>1 DEF Touch, Reads
<1>2. stale' = stale \/ (status = Running /\ Touch)
  BY DEF Next, vars, parse_args, Option, ArgsEnd, At, read_file, parser_parse, hir_build, ssa_build, verify, Pass,
         ssa_verify_func, Optimized, isel, regalloc, peephole, Work, emit_object, link, cleanup, Crash, OutOfMemory, Dump
<1> QED
  BY <1>1, <1>2 DEF Reads

\* What has failed and what was made, by the stage.
LEMMA ReportedStep == Types /\ Reported /\ [Next]_vars => Reported'
<1> SUFFICES ASSUME Types, Reported, [Next]_vars PROVE Reported'
  OBVIOUS
<1> USE DEF At, Go, Exit, Fail, Running
<1>1. ASSUME status = Running, status' = 1, stage \notin {"link", "cleanup"}, made' = made, failed' # {}
      PROVE  Reported'
  BY <1>1 DEF Reported, ExitTellsTruth
<1>2. ASSUME status = Running, status' = Running, stage \notin {"link", "cleanup"}, stage' \notin {"link", "cleanup"},
             UNCHANGED <<rc, made>>, failed' = failed \/ failed' = failed \cup {"ssa"}
      PROVE  Reported'
  BY <1>2 DEF Reported, ExitTellsTruth
<1>3. ASSUME status = Running, status' = 0, stage \in Stages \ {"link", "cleanup"}, failed' = failed,
             made' \subseteq {"ast", "hir", "ssa", "mach"}
      PROVE  Reported'
  BY <1>3 DEF Reported, ExitTellsTruth
<1>4. CASE parse_args
  <2>1. \/ status = Running /\ status' = Running /\ UNCHANGED <<rc, made, failed>> /\ stage = "args" /\ stage' \in {"args", "read"}
        \/ status = Running /\ status' = 1 /\ stage = "args" /\ made' = made /\ failed' # {}
        \/ status = Running /\ status' = 0 /\ stage = "args" /\ made' = made /\ failed' = failed
    BY <1>4 DEF parse_args, Option, ArgsEnd, run
  <2>2. stage = "args" /\ status = Running => made = {}
    BY DEF Reported
  <2> QED
    BY <1>1, <1>2, <1>3, <2>1, <2>2 DEF Stages
<1>5. CASE read_file \/ parser_parse \/ hir_build \/ ssa_build \/ verify
  <2>1. /\ status = Running /\ stage \in {"read", "parse", "hir_build", "ssa_build", "verify"} /\ made' = made
        /\ \/ status' = Running /\ rc' = rc /\ failed' \in {failed, failed \cup {"ssa"}} /\ stage' \notin {"link", "cleanup"}
           \/ status' = 1 /\ failed' # {}
    BY <1>5 DEF read_file, parser_parse, hir_build, ssa_build, verify, run
  <2> QED
    BY <1>1, <1>2, <2>1
<1>6. CASE Pass \/ ssa_verify_func \/ Optimized \/ isel \/ regalloc \/ peephole
  <2>1. /\ status = Running /\ stage \in {"optimize", "isel", "regalloc", "peephole"} /\ made' = made
        /\ \/ status' = Running /\ rc' = rc /\ failed' = failed /\ stage' \notin {"link", "cleanup"}
           \/ status' = 1 /\ failed' # {}
    BY <1>6 DEF Pass, ssa_verify_func, Optimized, isel, regalloc, peephole, Work, run
  <2> QED
    BY <1>1, <1>2, <2>1
<1>7. CASE emit_object
  <2>1. CASE status' = 1
    <3>1. status = Running /\ stage = "emit" /\ made' = made /\ failed' # {}
      BY <1>7, <2>1 DEF emit_object
    <3> QED
      BY <1>1, <2>1, <3>1
  <2>2. CASE stage' = "link"
    <3>1. status' = Running /\ made' = {"object"} /\ failed' = failed /\ failed \subseteq {"ssa"} /\ rc' = 0
      BY <1>7, <2>2 DEF emit_object, Reported, run
    <3> QED
      BY <2>2, <3>1 DEF Reported, ExitTellsTruth
  <2> QED
    BY <1>7, <2>1, <2>2 DEF emit_object
<1>8. CASE link
  <2>1. /\ status' = Running /\ stage' = "cleanup" /\ made = {"object"} /\ failed \subseteq {"ssa"}
        /\ \/ rc' = 0 /\ made' = made \cup {"executable"} /\ failed' = failed
           \/ rc' # 0 /\ made' = made /\ failed' = failed \cup {"link"}
    BY <1>8 DEF link, Reported
  <2>2. CASE rc' = 0 /\ made' = made \cup {"executable"} /\ failed' = failed
    <3>1. made' = {"object", "executable"} /\ failed' \subseteq {"ssa"}
      BY <2>1, <2>2
    <3> QED
      BY <2>1, <2>2, <3>1 DEF Reported, ExitTellsTruth
  <2>3. CASE rc' # 0 /\ made' = made /\ failed' = failed \cup {"link"}
    <3>1. made' = {"object"} /\ failed' \subseteq {"ssa", "link"} /\ "link" \in failed' /\ "executable" \notin made'
      BY <2>1, <2>3
    <3> QED
      BY <2>1, <2>3, <3>1 DEF Reported, ExitTellsTruth
  <2> QED
    BY <2>1, <2>2, <2>3
<1>9. CASE cleanup
  <2>1. /\ status = Running /\ stage = "cleanup" /\ stage' = stage /\ UNCHANGED <<made, failed, rc>>
        /\ status' = ExitStatus(rc)
    BY <1>9 DEF cleanup, run
  <2>2. ExitStatus(rc) \in {0, 255} /\ (rc = 0 => ExitStatus(rc) = 0)
    BY DEF Types, ExitStatus
  <2>3. /\ failed \subseteq {"ssa", "link"} /\ made \subseteq {"object", "executable"}
        /\ rc = 0 => failed \subseteq {"ssa"}
        /\ rc # 0 => made = {"object"} /\ "link" \in failed
    BY <2>1 DEF Reported
  <2> QED
    BY <2>1, <2>2, <2>3 DEF Reported, ExitTellsTruth
<1>10. CASE Crash
  <2>1. status = Running /\ status' = Crashed /\ UNCHANGED <<made, failed>>
    BY <1>10 DEF Crash
  <2>2. "executable" \in made => failed \subseteq {"ssa"}
    BY DEF Reported, ExitTellsTruth
  <2> QED
    BY <2>1, <2>2 DEF Reported, ExitTellsTruth, Crashed
<1>11. CASE OutOfMemory
  <2>1. status = Running /\ status' = 1 /\ stage \notin {"link", "cleanup"} /\ made' = made /\ failed' # {}
    BY <1>11 DEF OutOfMemory
  <2> QED
    BY <1>1, <2>1
<1>12. CASE \E d \in {"ast", "hir", "ssa", "mach"}, rs \in SUBSET Heap : Dump(d, rs)
  <2>1. PICK d \in {"ast", "hir", "ssa", "mach"}, rs \in SUBSET Heap : Dump(d, rs)
    BY <1>12
  <2>2. /\ status = Running /\ status' = 0 /\ failed' = failed /\ made' = made \cup {d}
        /\ stage \in {"ast_print", "hir_print", "ssa_print", "mach_print"}
    BY <2>1 DEF Dump, PrintOf
  <2>3. made = {}
    BY <2>2 DEF Reported
  <2> QED
    BY <1>3, <2>2, <2>3 DEF Stages
<1>13. CASE UNCHANGED vars
  BY <1>13 DEF Reported, ExitTellsTruth, vars
<1> QED
  BY <1>4, <1>5, <1>6, <1>7, <1>8, <1>9, <1>10, <1>11, <1>12, <1>13 DEF Next, Heap

\* A function is accepted before its passes begin and when all of them are through.
LEMMA AcceptedStep == Types /\ Accepted /\ [Next]_vars => Accepted'
<1> SUFFICES ASSUME Types, Accepted, [Next]_vars PROVE Accepted'
  OBVIOUS
<1> USE DEF At, Go, Exit, Running
<1>0. Passes \in Seq(PassNames) /\ Len(Passes) \in Nat
  BY PassesAre
<1>1. ASSUME status' # Running \/ stage' \notin {"optimize", "isel", "mach_print", "regalloc", "peephole", "emit", "link"}
      PROVE  Accepted'
  BY <1>1 DEF Accepted, VerifiedAround
<1>2. CASE parse_args
  BY <1>1, <1>2 DEF parse_args, Option, ArgsEnd
<1>3. CASE read_file \/ parser_parse \/ hir_build \/ ssa_build
  BY <1>1, <1>3 DEF read_file, parser_parse, hir_build, ssa_build
<1>4. CASE verify
  <2>1. CASE status' = Running /\ stage' = "optimize"
    <3>1. cfg' = cfg /\ sound' = sound /\ todo' = Passes /\ index' = 1
      BY <1>4, <2>1 DEF verify
    <3>2. ~ cfg.no_verify => \A i \in DOMAIN sound : sound[i]
      BY <1>4, <2>1 DEF verify, ssa_verify_program
    <3>3. Passes' = Passes
      BY <3>1 DEF Passes
    <3>4. index' \in 1..(Len(sound') + 1) /\ Len(todo') <= Len(Passes')
      BY <1>0, <3>1, <3>3 DEF Types
    <3> QED
      BY <2>1, <3>1, <3>2, <3>4 DEF Accepted, VerifiedAround
  <2> QED
    BY <1>1, <1>4, <2>1 DEF verify
<1>5. CASE Pass
  <2>1. /\ status = Running /\ stage = "optimize" /\ stage' = "optimize" /\ cfg' = cfg /\ index' = index
        /\ todo # <<>> /\ todo' = Tail(todo) /\ (sound' = sound \/ sound' = [sound EXCEPT ![index] = FALSE])
    BY <1>5 DEF Pass
  <2>2. Passes' = Passes
    BY <2>1 DEF Passes
  <2>3. Len(todo) <= Len(Passes) /\ index \in 1..(Len(sound) + 1)
    BY <2>1, <1>5 DEF Accepted, Pass
  <2>4. Len(todo') = Len(todo) - 1 /\ Len(todo) \in Nat
    BY <2>1 DEF Types
  <2>5. todo' # Passes' /\ Len(todo') <= Len(Passes')
    BY <1>0, <2>2, <2>3, <2>4
  <2>6. /\ DOMAIN sound' = DOMAIN sound /\ Len(sound') = Len(sound)
        /\ \A i \in DOMAIN sound : i # index => (sound'[i] <=> sound[i])
    BY <2>1 DEF Types
  <2>7. ~ cfg.no_verify => \A i \in DOMAIN sound : i # index => sound[i]
    BY <1>5, <2>1 DEF Accepted, VerifiedAround, Pass
  <2>8. ~ cfg'.no_verify => \A i \in DOMAIN sound' : i # index' => sound'[i]
    BY <2>1, <2>6, <2>7
  <2> QED
    BY <2>1, <2>3, <2>5, <2>6, <2>8 DEF Accepted, VerifiedAround
<1>6. CASE ssa_verify_func
  <2>1. CASE status' = Running
    <3>1. /\ status = Running /\ stage = "optimize" /\ stage' = "optimize" /\ cfg' = cfg /\ sound' = sound /\ todo' = Passes
          /\ index \in DOMAIN sound /\ index' = index + 1 /\ (cfg.no_verify \/ sound[index])
      BY <1>6, <2>1 DEF ssa_verify_func
    <3>2. ~ cfg.no_verify => \A i \in DOMAIN sound : i # index => sound[i]
      BY <3>1 DEF Accepted, VerifiedAround
    <3>3. ~ cfg.no_verify => \A i \in DOMAIN sound : sound[i]
      BY <3>1, <3>2
    <3>4. Passes' = Passes
      BY <3>1 DEF Passes
    <3>5. index' \in 1..(Len(sound') + 1) /\ Len(todo') <= Len(Passes')
      BY <1>0, <3>1, <3>4 DEF Types
    <3> QED
      BY <3>1, <3>3, <3>5 DEF Accepted, VerifiedAround
  <2> QED
    BY <1>1, <2>1
<1>7. CASE Optimized
  <2>1. /\ status = Running /\ stage = "optimize" /\ stage' = "isel" /\ cfg' = cfg /\ sound' = sound /\ index \notin DOMAIN sound
    BY <1>7 DEF Optimized, run
  <2>2. ~ cfg.no_verify => \A i \in DOMAIN sound : sound[i]
    BY <2>1 DEF Accepted, VerifiedAround
  <2> QED
    BY <2>1, <2>2 DEF Accepted, VerifiedAround
<1>8. CASE isel \/ regalloc \/ peephole \/ emit_object
  <2>1. /\ status = Running /\ stage \in {"isel", "regalloc", "peephole", "emit"} /\ cfg' = cfg /\ sound' = sound
        /\ (stage' # "optimize" \/ status' # Running)
    BY <1>8 DEF isel, regalloc, peephole, Work, emit_object, run
  <2>2. ~ cfg.no_verify => \A i \in DOMAIN sound : sound[i]
    BY <2>1 DEF Accepted, VerifiedAround
  <2> QED
    BY <2>1, <2>2 DEF Accepted, VerifiedAround
<1>9. CASE link
  BY <1>1, <1>9 DEF link
<1>10. CASE cleanup
  <2>1. ExitStatus(rc) # Running /\ status' = ExitStatus(rc)
    BY <1>10 DEF cleanup, ExitStatus, Types
  <2> QED
    BY <1>1, <2>1
<1>11. CASE Crash \/ OutOfMemory
  BY <1>1, <1>11 DEF Crash, OutOfMemory, Crashed
<1>12. CASE \E d \in {"ast", "hir", "ssa", "mach"}, rs \in SUBSET Heap : Dump(d, rs)
  BY <1>1, <1>12 DEF Dump
<1>13. CASE UNCHANGED vars
  BY <1>13 DEF Accepted, VerifiedAround, Passes, vars
<1> QED
  BY <1>2, <1>3, <1>4, <1>5, <1>6, <1>7, <1>8, <1>9, <1>10, <1>11, <1>12, <1>13 DEF Next, Heap

\* A stage is past the dumps nobody asked for.
LEMMA DumpedStep == Types /\ Reported /\ Dumped /\ [Next]_vars => Dumped'
<1> SUFFICES ASSUME Types, Reported, Dumped, [Next]_vars PROVE Dumped'
  OBVIOUS
<1> USE DEF At, Go, Exit, Running
<1>0. cfg.dumps \subseteq {"ast", "hir", "ssa", "mach"}
  BY DEF Types, Configs
\* A step to a later stage, past the dumps it leaves out, and a way out that made nothing.
<1>1. ASSUME cfg' = cfg, status' = Running, made' = {},
             stage' \in AfterAst => "ast" \notin cfg.dumps,
             stage' \in AfterHir => "hir" \notin cfg.dumps,
             stage' \in AfterSsa => "ssa" \notin cfg.dumps,
             stage' \in AfterMach => "mach" \notin cfg.dumps,
             \A d \in DOMAIN PrintOf : stage' = PrintOf[d] => d \in cfg.dumps
      PROVE  Dumped'
  BY <1>1 DEF Dumped, DumpsAlone
<1>2. ASSUME cfg' = cfg, status' # Running, status' # 0, made' = {}
      PROVE  Dumped'
  BY <1>2 DEF Dumped, DumpsAlone
<1>3. status = Running /\ stage \notin {"link", "cleanup"} => made = {}
  BY DEF Reported
<1>4. CASE parse_args
  <2>1. stage = "args" /\ stage' \in {"args", "read"} /\ made' = {} /\ (status' # Running => stage' = "args")
    BY <1>3, <1>4 DEF parse_args, Option, ArgsEnd
  <2> QED
    BY <2>1 DEF Dumped, DumpsAlone, AfterAst, AfterHir, AfterSsa, AfterMach, PrintOf
<1>5. CASE read_file
  <2>1. status = Running /\ cfg' = cfg /\ made' = {} /\ (status' = 1 \/ (status' = Running /\ stage' = "parse"))
    BY <1>3, <1>5 DEF read_file
  <2> QED
    BY <1>1, <1>2, <2>1 DEF AfterAst, AfterHir, AfterSsa, AfterMach, PrintOf
<1>6. CASE parser_parse
  <2>1. status = Running /\ cfg' = cfg /\ made' = {}
        /\ (status' = 1 \/ (status' = Running /\ stage' = IF "ast" \in cfg.dumps THEN "ast_print" ELSE "hir_build"))
    BY <1>3, <1>6 DEF parser_parse
  <2> QED
    BY <1>1, <1>2, <2>1 DEF AfterAst, AfterHir, AfterSsa, AfterMach, PrintOf
<1>7. CASE hir_build
  <2>1. status = Running /\ stage = "hir_build" /\ cfg' = cfg /\ made' = {}
        /\ (status' = 1 \/ (status' = Running /\ stage' = IF "hir" \in cfg.dumps THEN "hir_print" ELSE "ssa_build"))
    BY <1>3, <1>7 DEF hir_build
  <2>2. "ast" \notin cfg.dumps
    BY <2>1 DEF Dumped, AfterAst
  <2> QED
    BY <1>1, <1>2, <2>1, <2>2 DEF AfterAst, AfterHir, AfterSsa, AfterMach, PrintOf
<1>8. CASE ssa_build
  <2>1. status = Running /\ stage = "ssa_build" /\ cfg' = cfg /\ made' = {} /\ status' = Running /\ stage' = "verify"
    BY <1>3, <1>8 DEF ssa_build
  <2>2. "ast" \notin cfg.dumps /\ "hir" \notin cfg.dumps
    BY <2>1 DEF Dumped, AfterAst, AfterHir
  <2> QED
    BY <1>1, <2>1, <2>2 DEF AfterAst, AfterHir, AfterSsa, AfterMach, PrintOf
<1>9. CASE verify
  <2>1. status = Running /\ stage = "verify" /\ cfg' = cfg /\ made' = {}
        /\ (status' = 1 \/ (status' = Running /\ stage' = IF "ssa" \in cfg.dumps THEN "ssa_print" ELSE "optimize"))
    BY <1>3, <1>9 DEF verify
  <2>2. "ast" \notin cfg.dumps /\ "hir" \notin cfg.dumps
    BY <2>1 DEF Dumped, AfterAst, AfterHir
  <2> QED
    BY <1>1, <1>2, <2>1, <2>2 DEF AfterAst, AfterHir, AfterSsa, AfterMach, PrintOf
<1>10. CASE Pass \/ ssa_verify_func \/ Optimized
  <2>1. status = Running /\ stage = "optimize" /\ cfg' = cfg /\ made' = {}
        /\ (status' = 1 \/ (status' = Running /\ stage' \in {"optimize", "isel"}))
    BY <1>3, <1>10 DEF Pass, ssa_verify_func, Optimized
  <2>2. "ast" \notin cfg.dumps /\ "hir" \notin cfg.dumps /\ "ssa" \notin cfg.dumps
    BY <2>1 DEF Dumped, AfterAst, AfterHir, AfterSsa
  <2> QED
    BY <1>1, <1>2, <2>1, <2>2 DEF AfterAst, AfterHir, AfterSsa, AfterMach, PrintOf
<1>11. CASE isel
  <2>1. status = Running /\ stage = "isel" /\ cfg' = cfg /\ made' = {} /\ status' = Running
        /\ stage' = IF "mach" \in cfg.dumps THEN "mach_print" ELSE "regalloc"
    BY <1>3, <1>11 DEF isel, Work
  <2>2. "ast" \notin cfg.dumps /\ "hir" \notin cfg.dumps /\ "ssa" \notin cfg.dumps
    BY <2>1 DEF Dumped, AfterAst, AfterHir, AfterSsa
  <2> QED
    BY <1>1, <2>1, <2>2 DEF AfterAst, AfterHir, AfterSsa, AfterMach, PrintOf
<1>12. CASE regalloc \/ peephole \/ emit_object \/ link \/ cleanup
  <2>1. status = Running /\ stage \in AfterMach /\ cfg' = cfg /\ (stage' \in AfterMach \/ status' = 1)
    BY <1>12 DEF regalloc, peephole, Work, emit_object, link, cleanup, AfterMach
  <2>2. cfg.dumps = {}
    <3>1. "ast" \notin cfg.dumps /\ "hir" \notin cfg.dumps /\ "ssa" \notin cfg.dumps /\ "mach" \notin cfg.dumps
      BY <2>1 DEF Dumped, AfterAst, AfterHir, AfterSsa
    <3> QED
      BY <1>0, <3>1
  <2>3. status' = Running => stage' \in AfterMach
    BY <2>1
  <2> QED
    BY <2>1, <2>2, <2>3 DEF Dumped, DumpsAlone, AfterMach, PrintOf
<1>13. CASE Crash \/ OutOfMemory
  <2>1. status = Running /\ cfg' = cfg /\ made' = made /\ stage' = stage /\ status' \in {Crashed, 1}
    BY <1>13 DEF Crash, OutOfMemory
  <2> QED
    BY <2>1 DEF Dumped, DumpsAlone, Crashed
<1>14. CASE \E d \in {"ast", "hir", "ssa", "mach"}, rs \in SUBSET Heap : Dump(d, rs)
  <2>1. PICK d \in {"ast", "hir", "ssa", "mach"}, rs \in SUBSET Heap : Dump(d, rs)
    BY <1>14
  <2>2. /\ status = Running /\ stage = PrintOf[d] /\ cfg' = cfg /\ status' = 0 /\ stage' = stage /\ made' = {d}
    BY <1>3, <2>1 DEF Dump, PrintOf
  <2>3. d \in cfg.dumps
    BY <2>2 DEF Dumped, PrintOf
  <2>4. /\ d \in {"hir", "ssa", "mach"} => "ast" \notin cfg.dumps
        /\ d \in {"ssa", "mach"} => "hir" \notin cfg.dumps
        /\ d = "mach" => "ssa" \notin cfg.dumps
    BY <2>2 DEF Dumped, PrintOf, AfterAst, AfterHir, AfterSsa
  <2>5. DOMAIN Dumps = 1..4 /\ Dumps[1] = "ast" /\ Dumps[2] = "hir" /\ Dumps[3] = "ssa" /\ Dumps[4] = "mach"
    BY DEF Dumps
  <2>6. \E i \in DOMAIN Dumps :
          Dumps[i] = d /\ \A j \in 1..(i - 1) : Dumps[j] \notin cfg.dumps
    <3>1. CASE d = "ast"
      BY <2>5, <3>1
    <3>2. CASE d = "hir"
      <4>1. \A j \in 1..(2 - 1) : Dumps[j] \notin cfg.dumps
        BY <2>4, <2>5, <3>2
      <4> QED
        BY <2>5, <3>2, <4>1
    <3>3. CASE d = "ssa"
      <4>1. \A j \in 1..(3 - 1) : Dumps[j] \notin cfg.dumps
        BY <2>4, <2>5, <3>3
      <4> QED
        BY <2>5, <3>3, <4>1
    <3>4. CASE d = "mach"
      <4>1. \A j \in 1..(4 - 1) : Dumps[j] \notin cfg.dumps
        BY <2>4, <2>5, <3>4
      <4> QED
        BY <2>5, <3>4, <4>1
    <3> QED
      BY <3>1, <3>2, <3>3, <3>4
  <2>7. \E i \in DOMAIN Dumps :
          made' = {Dumps[i]} /\ Dumps[i] \in cfg.dumps /\ \A j \in 1..(i - 1) : Dumps[j] \notin cfg.dumps
    BY <2>2, <2>3, <2>6
  <2>8. "object" \notin made'
    BY <2>2
  <2> QED
    BY <2>2, <2>7, <2>8 DEF Dumped, DumpsAlone
<1>15. CASE UNCHANGED vars
  BY <1>15 DEF Dumped, DumpsAlone, vars
<1> QED
  BY <1>4, <1>5, <1>6, <1>7, <1>8, <1>9, <1>10, <1>11, <1>12, <1>13, <1>14, <1>15 DEF Next, Heap

-------------------------------------------------------------------------------

LEMMA TypesAlways == Spec => []Types
  BY InitTypes, TypesStep, PTL DEF Spec

LEMMA MemoryAlways == Spec => []Memory
<1>1. Init => Memory
  BY DEF Init, Memory, Kept, Heap, Running
<1> QED
  BY <1>1, MemoryStep, TypesAlways, PTL DEF Spec

LEMMA ReportedAlways == Spec => []Reported
<1>1. Init => Reported
  BY DEF Init, Reported, ExitTellsTruth, Running
<1> QED
  BY <1>1, ReportedStep, TypesAlways, PTL DEF Spec

\* No command line and no program lead out of a compilation with an arena freed twice,
\* and one that comes to its end has freed everything (Driver!FreedOnce).
THEOREM DriverFreedOnce == Spec => []FreedOnce
<1>1. Memory => FreedOnce
  BY DEF Memory, FreedOnce
<1> QED
  BY <1>1, MemoryAlways, PTL

\* What is read after its arena is gone was borrowed by a later representation
\* (Driver!InputsAlive).
THEOREM DriverInputsAlive == Spec => []InputsAlive
<1>1. Init => Reads
  BY DEF Init, Reads
<1>2. Reads => InputsAlive
  BY DEF Reads, InputsAlive
<1> QED
  BY <1>1, <1>2, ReadsStep, TypesAlways, MemoryAlways, PTL DEF Spec

\* What the exit status says of failures and files is so (Driver!ExitTellsTruth).
THEOREM DriverExitTellsTruth == Spec => []ExitTellsTruth
<1>1. Reported => ExitTellsTruth
  BY DEF Reported
<1> QED
  BY <1>1, ReportedAlways, PTL

\* Of several dumps only the earliest is made, and with one no file is written, for any
\* command line (Driver!DumpsAlone).
THEOREM DriverDumpsAlone == Spec => []DumpsAlone
<1>1. Init => Dumped
  BY DEF Init, Dumped, DumpsAlone, Running, AfterAst, AfterHir, AfterSsa, AfterMach, PrintOf
<1>2. Dumped => DumpsAlone
  BY DEF Dumped
<1> QED
  BY <1>1, <1>2, DumpedStep, TypesAlways, ReportedAlways, PTL DEF Spec

\* A function the verifier rejects enters no first pass, is not left behind by the loop
\* over functions and does not reach selection (main.c:228-265), for programs of any number
\* of functions (Driver!VerifiedAround).  The later passes of a function run unverified.
THEOREM DriverVerifiedAround == Spec => []VerifiedAround
<1>1. Init => Accepted
  BY DEF Init, Accepted, VerifiedAround
<1>2. Accepted => VerifiedAround
  BY DEF Accepted
<1> QED
  BY <1>1, <1>2, AcceptedStep, TypesAlways, PTL DEF Spec

\* Every variable keeps its type (Driver!TypeOK).
THEOREM DriverTypeCorrect == Spec => []TypeOK
<1>1. Types /\ Memory /\ Reads => TypeOK
  BY StagesAre, DriverAssumption DEF Types, Memory, Reads, TypeOK, Configs, Borrowed
<1>2. Init => Reads
  BY DEF Init, Reads
<1> QED
  BY <1>1, <1>2, ReadsStep, TypesAlways, MemoryAlways, PTL DEF Spec

=================================================================================
