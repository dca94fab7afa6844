--------------------------------- MODULE Scopes ---------------------------------
(***************************************************************************)
(* hir_build.c: how the identifiers of a function are bound to local       *)
(* variables by a chain of scopes, and what becomes of the bindings: SSA   *)
(* construction (ssa_build.c) ignores them and goes by the name.           *)
(*                                                                         *)
(* The function is made up as it is converted, a statement at a time; an   *)
(* expression is the identifier it reads or None.  The result is a list of *)
(* nodes in the order of execution: reads, writes, declarations and jumps. *)
(* Then the function is run, on any path, with one variable per name as    *)
(* SSA construction has it.                                                *)
(***************************************************************************)
EXTENDS Integers, Sequences, FiniteSetsExt

CONSTANTS
  Names,    \* of variables
  None,     \* an expression that reads none
  Kinds,    \* of statements, and what each
  Cost,     \* takes of the fuel
  Fuel      \* bound: what the statements of a function may cost

ASSUME ScopesAssumption ==
  /\ None \notin Names /\ Fuel \in Nat /\ Cost \in [Kinds -> Nat]
  /\ {"param", "let", "assign", "use", "return", "block", "if", "while", "for"} \subseteq Kinds

VARIABLES
  scopes,      \* the chain from the outermost to current_scope: entries, newest last
  next_local,
  open,        \* the constructs being converted, outermost first
  hir,         \* the nodes made so far
  failed,      \* an undefined variable was reported
  hidden,      \* names a let has declared in sight of an outer variable
  phase, fuel,
  owner, pc    \* the run: which local wrote each name last; the node that is next

vars == <<scopes, next_local, open, hir, failed, hidden, phase, fuel, owner, pc>>
Expr == Names \cup {None}
Unbound == -1

-------------------------------------------------------------------------------

scope_push(ss) == Append(ss, <<>>)
scope_pop(ss) == SubSeq(ss, 1, Len(ss) - 1)
scope_declare_Reused(ss, n, i) ==
  [ss EXCEPT ![Len(ss)] = Append(@, [name |-> n, local_index |-> Len(@)])]
scope_declare(ss, n, i) ==
  [ss EXCEPT ![Len(ss)] = Append(@, [name |-> n, local_index |-> i])]

\* The search from scope d outwards, in each scope for the newest entry.
Holders(ss, d, n) == {k \in 1..d : \E j \in DOMAIN ss[k] : ss[k][j].name = n}
Newest(s, n) == Max({j \in DOMAIN s : s[j].name = n})
scope_lookup_Outermost(ss, d, n) ==
  IF Holders(ss, d, n) = {} THEN Unbound
  ELSE LET s == ss[Min(Holders(ss, d, n))] IN s[Newest(s, n)].local_index
scope_lookup(ss, d, n) ==
  IF Holders(ss, d, n) = {} THEN Unbound
  ELSE LET s == ss[Max(Holders(ss, d, n))] IN s[Newest(s, n)].local_index

Visible == [n \in Names |-> scope_lookup(scopes, Len(scopes), n)]

\* A node: what is done, with which variable, or where to go.  env, what was in
\* scope, is kept for the sake of the proof only.
Node(op, n, i) == [op |-> op, name |-> n, local_index |-> i, to |-> 0, env |-> Visible]
Reads(e) == IF e = None THEN <<>> ELSE <<Node("read", e, Visible[e])>>
Goto(k) == [Node("goto", None, Unbound) EXCEPT !.to = k]
Branch == Node("skip", None, Unbound)
Upto(k) == Len(hir) + k

\* A construct: the length of the chain it began with, where its condition and
\* update are, and the jump over it, whose target is not known before its end.
Frame(kind, cond, skip, update) ==
  [kind |-> kind, depth |-> Len(scopes), cond |-> cond, skip |-> skip, update |-> update]
Top == open[Len(open)]
Rest == SubSeq(open, 1, Len(open) - 1)
InBlock == phase = "body" /\ Top.kind \notin {"init", "header"}

\* Bound: nothing is added to a program that has failed already.
Spend(kind) == ~failed /\ Cost[kind] <= fuel /\ fuel' = fuel - Cost[kind]
Undefined(e) == e # None /\ Visible[e] = Unbound

-------------------------------------------------------------------------------

Init ==
  /\ scopes = <<>> /\ next_local = 0 /\ open = <<>> /\ hir = <<>>
  /\ failed = FALSE /\ hidden = {} /\ phase = "between" /\ fuel = Fuel
  /\ owner = [n \in Names |-> Unbound] /\ pc = 0

BeginFunction ==
  /\ phase = "between"
  /\ scopes' = scope_push(scopes) /\ next_local' = 0
  /\ open' = <<>> /\ hir' = <<>> /\ hidden' = {} /\ fuel' = Fuel
  /\ owner' = [n \in Names |-> Unbound] /\ pc' = 0
  /\ phase' = "params"
  /\ UNCHANGED failed

Declared(n) ==
  /\ scopes' = scope_declare(scopes, n, next_local)
  /\ next_local' = next_local + 1

\* A parameter; ssa_builder_create writes the variable of its name.
Param(n) ==
  /\ phase = "params" /\ Spend("param")
  /\ Declared(n)
  /\ owner' = [owner EXCEPT ![n] = next_local]
  /\ UNCHANGED <<open, hir, failed, hidden, phase, pc>>

OpenBody ==
  /\ phase = "params"
  /\ scopes' = scope_push(scopes)
  /\ open' = <<Frame("body", 0, 0, 0)>>
  /\ phase' = "body"
  /\ UNCHANGED <<next_local, hir, failed, hidden, fuel, owner, pc>>

\* The initialisation of a for is a let or an expression.
InitDone == open' = IF Top.kind = "init" THEN Append(Rest, [Top EXCEPT !.kind = "header"]) ELSE open

Convert(nodes, e) ==
  /\ hir' = hir \o nodes
  /\ failed' = (failed \/ Undefined(e))

\* The initial value is converted before the variable is declared.
Let_DeclaredFirst(n, e) ==
  /\ phase = "body" /\ Top.kind # "header" /\ Spend("let")
  /\ Declared(n)
  /\ LET i == scope_lookup(scopes', Len(scopes'), n) IN
     Convert((IF e = n THEN <<Node("read", n, i)>> ELSE Reads(e)) \o <<Node("let", n, i)>>,
             IF e = n THEN None ELSE e)
  /\ hidden' = IF \E k \in Holders(scopes, Len(scopes), n) : k < Len(scopes) THEN hidden \cup {n} ELSE hidden
  /\ InitDone
  /\ UNCHANGED <<phase, owner, pc>>

Let(n, e) ==
  /\ phase = "body" /\ Top.kind # "header" /\ Spend("let")
  /\ Declared(n)
  /\ Convert(Reads(e) \o <<Node("let", n, scope_lookup(scopes', Len(scopes'), n))>>, e)
  /\ hidden' = IF \E k \in Holders(scopes, Len(scopes), n) : k < Len(scopes) THEN hidden \cup {n} ELSE hidden
  /\ InitDone
  /\ UNCHANGED <<phase, owner, pc>>

\* The target is converted first, but evaluated last.
Assign(n, e) ==
  /\ InBlock /\ Spend("assign")
  /\ hir' = hir \o (Reads(e) \o <<Node("write", n, Visible[n])>>)
  /\ failed' = (failed \/ Undefined(n) \/ Undefined(e))
  /\ UNCHANGED <<scopes, next_local, open, hidden, phase, owner, pc>>

Use(e) ==
  /\ phase = "body" /\ Top.kind # "header" /\ Spend("use")
  /\ Convert(Reads(e), e)
  /\ InitDone
  /\ UNCHANGED <<scopes, next_local, hidden, phase, owner, pc>>

Return(e) ==
  /\ InBlock /\ Spend("return")
  /\ Convert(Reads(e) \o <<Node("ret", None, Unbound)>>, e)
  /\ UNCHANGED <<scopes, next_local, open, hidden, phase, owner, pc>>

\* Blocks, and the statements that contain one.
Enter(frame) ==
  /\ scopes' = scope_push(scopes)
  /\ open' = Append(open, frame)
  /\ UNCHANGED <<next_local, hidden, phase, owner, pc>>

OpenBlock ==
  /\ InBlock /\ Spend("block")
  /\ Enter(Frame("block", 0, 0, 0))
  /\ UNCHANGED <<hir, failed>>

OpenIf(e) ==
  /\ InBlock /\ Spend("if")
  /\ Convert(Reads(e) \o <<Branch>>, e)
  /\ Enter(Frame("then", 0, Len(hir'), 0))

OpenWhile(e) ==
  /\ InBlock /\ Spend("while")
  /\ Convert(Reads(e) \o <<Branch>>, e)
  /\ Enter(Frame("while", Upto(1), Len(hir'), 0))

\* A for has a scope of its own; condition and update see what its initialisation
\* declares, the body is one more scope.
OpenFor ==
  /\ InBlock /\ Spend("for")
  /\ Enter(Frame("init", 0, 0, 0))
  /\ UNCHANGED <<hir, failed>>

ForHeader(c, u) ==
  /\ phase = "body" /\ Top.kind \in {"init", "header"}
  /\ LET cond == Reads(c) \o <<Branch>>
         skip == Upto(Len(cond))
         update == skip + 2
         body == update + Len(Reads(u)) + 1
         jumps == <<Goto(body)>> \o (Reads(u) \o <<Goto(Upto(1))>>)
     IN /\ hir' = hir \o (cond \o jumps)
        /\ open' = Append(Rest, [Frame("for", Upto(1), skip, update) EXCEPT !.depth = Top.depth])
  /\ failed' = (failed \/ Undefined(c) \/ Undefined(u))
  /\ scopes' = scope_push(scopes)
  /\ UNCHANGED <<next_local, hidden, phase, fuel, owner, pc>>

Leave(nodes) ==
  /\ hir' = IF Top.skip = 0 THEN hir \o nodes
            ELSE [hir EXCEPT ![Top.skip].to = Len(hir) + Len(nodes) + 1] \o nodes
  /\ open' = Rest
  /\ UNCHANGED <<next_local, failed, hidden, phase, fuel, owner, pc>>

CloseBlock ==
  /\ phase = "body" /\ Top.kind \in {"block", "then", "else"}
  /\ scopes' = scope_pop(scopes)
  /\ Leave(<<>>)

OpenElse ==
  /\ phase = "body" /\ Top.kind = "then"
  /\ scopes' = scope_push(scope_pop(scopes))
  /\ hir' = [hir EXCEPT ![Top.skip].to = Upto(2)] \o <<Goto(0)>>
  /\ open' = Append(Rest, [Frame("else", 0, Upto(1), 0) EXCEPT !.depth = Top.depth])
  /\ UNCHANGED <<next_local, failed, hidden, phase, fuel, owner, pc>>

CloseWhile ==
  /\ phase = "body" /\ Top.kind = "while"
  /\ scopes' = scope_pop(scopes)
  /\ Leave(<<Goto(Top.cond)>>)

CloseFor ==
  /\ phase = "body" /\ Top.kind = "for"
  /\ scopes' = scope_pop(scope_pop(scopes))
  /\ Leave(<<Goto(Top.update)>>)

\* The function is complete; after an undefined variable the program is not run.
CloseBody ==
  /\ phase = "body" /\ Top.kind = "body"
  /\ scopes' = scope_pop(scope_pop(scopes))
  /\ open' = <<>>
  /\ IF failed THEN phase' = "between" /\ pc' = 0 ELSE phase' = "run" /\ pc' = 1
  /\ UNCHANGED <<next_local, hir, failed, hidden, fuel, owner>>

\* A step of the run: SSA construction has one variable per name.
Step ==
  /\ phase = "run" /\ pc \in DOMAIN hir
  /\ LET node == hir[pc] IN
     /\ owner' = IF node.op \in {"let", "write"} THEN [owner EXCEPT ![node.name] = node.local_index] ELSE owner
     /\ \/ node.op \in {"read", "let", "write", "skip"} /\ pc' = pc + 1
        \/ node.op \in {"skip", "goto"} /\ pc' = node.to
        \/ node.op = "ret" /\ pc' = Len(hir) + 1
  /\ UNCHANGED <<scopes, next_local, open, hir, failed, hidden, phase, fuel>>

Finish ==
  /\ phase = "run" /\ pc > Len(hir)
  /\ phase' = "between"
  /\ UNCHANGED <<scopes, next_local, open, hir, failed, hidden, fuel, owner, pc>>

Next ==
  \/ BeginFunction \/ OpenBody \/ OpenBlock \/ OpenFor
  \/ CloseBlock \/ OpenElse \/ CloseWhile \/ CloseFor \/ CloseBody \/ Step \/ Finish
  \/ \E n \in Names : Param(n)
  \/ \E n \in Names, e \in Expr : Let(n, e) \/ Assign(n, e)
  \/ \E e \in Expr : Use(e) \/ Return(e) \/ OpenIf(e) \/ OpenWhile(e)
  \/ \E c, u \in Expr : ForHeader(c, u)

Spec == Init /\ [][Next]_vars

-------------------------------------------------------------------------------

TypeOK ==
  /\ next_local \in Nat /\ failed \in BOOLEAN /\ hidden \subseteq Names
  /\ phase \in {"between", "params", "body", "run"} /\ fuel \in 0..Fuel
  /\ owner \in [Names -> Int] /\ pc \in Nat
  /\ \A k \in DOMAIN hir : hir[k].env \in [Names -> Int] /\ hir[k].to \in 0..(Len(hir) + 1)
  /\ phase \in {"between", "run"} <=> scopes = <<>>
  /\ phase = "body" <=> open # <<>>
  /\ phase = "body" => Len(scopes) = Top.depth + IF Top.kind = "for" THEN 2 ELSE 1

\* scope_lookup over the chain of scopes answers as lexical environments do: what a
\* block declares is forgotten with it, what it hid is seen again (hir_build.c:39-72).
Environments == [d \in DOMAIN scopes |-> [n \in Names |-> scope_lookup(scopes, d, n)]]
Lexical == INSTANCE Binding WITH envs <- Environments
BindsLexically == Lexical!Spec

\* No two declarations of a function share a slot of its frame, not even those of
\* blocks that are over, and each lies in the frame of stack_size bytes
\* (hir_build.c:60, 451, 472).
Lets == {k \in DOMAIN hir : hir[k].op = "let"}
SlotsOf(ss) ==
  \A d \in DOMAIN ss : \A j \in DOMAIN ss[d] :
    /\ ss[d][j].local_index \in 0..(next_local - 1)
    /\ \A c \in DOMAIN ss : \A k \in DOMAIN ss[c] :
         ss[c][k].local_index = ss[d][j].local_index => c = d /\ k = j
SlotsApart ==
  /\ SlotsOf(scopes)
  /\ \A k, m \in Lets : hir[k].local_index = hir[m].local_index => k = m
  /\ \A k \in Lets : hir[k].local_index \in 0..(next_local - 1)

\* On every path, a variable that SSA construction finds by name was last written
\* by the declaration HIR construction bound the identifier to, unless some let
\* declares the name in sight of an outer variable (ssa_build.c:870-905).
ReadsBound ==
  phase = "run" /\ pc \in DOMAIN hir =>
    LET node == hir[pc] IN
    node.op = "read" /\ node.name \notin hidden => owner[node.name] = node.local_index

===============================================================================
