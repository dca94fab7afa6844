--------------------------------- MODULE Parser ---------------------------------
(***************************************************************************)
(* parser.c over the one-token buffer of lexer.c.  What the recursive      *)
(* procedures still have to do is a stack of items: a token to expect, or  *)
(* a procedure to enter, which puts the items of its body in its place.  A *)
(* loop is an item that puts itself back.  The text is made up a token at  *)
(* a time, so that every text within the bound meets the parser.           *)
(*                                                                         *)
(* Of the tree only the precedence at the top of each expression is kept.  *)
(***************************************************************************)
EXTENDS Integers, Sequences, FiniteSetsExt, SequencesExt

CONSTANTS
  Kinds,     \* of tokens the text is made of
  Cost,      \* what each takes of the fuel
  Fuel,      \* bound: on the length of the text
  After      \* bound: on what follows an error

\* Kinds that matter to no decision stand for their like: "type" for the keywords
\* of types, "str" and "true" for other literals; "num" is a number, "reset" the
\* identifier arena_reset, "bad" a character that begins no token.
Levels == << {"||"}, {"&&"}, {"|"}, {"^"}, {"&"}, {"==", "!="}, {"<", ">", "<=", ">="},
             {"<<", ">>"}, {"+", "-"}, {"*", "/", "%"} >>
Binary == UNION {Levels[i] : i \in DOMAIN Levels}
Unary == {"!", "-", "~", "*", "&"}
Assigning == {"=", "+=", "-=", "*=", "/="}
Closer == [k \in {"(", "[", "{"} |-> CASE k = "(" -> ")" [] k = "[" -> "]" [] OTHER -> "}"]
TokenKinds == Binary \cup Unary \cup Assigning \cup
  {"(", ")", "[", "]", "{", "}", ",", ";", ":", ".", "->", "num", "str", "true", "ident", "reset", "type", "bad",
   "fn", "struct", "arena", "let", "if", "else", "while", "for", "return", "alloc", "sizeof"}

ASSUME ParserAssumption ==
  /\ Kinds \subseteq TokenKinds /\ Cost \in [Kinds -> Nat \ {0}]
  /\ Fuel \in Nat /\ After \in Nat

VARIABLES
  current,   \* the token the lexer has peeked, or None
  fuel,
  todo,      \* what is still to be done, the next first
  nodes,     \* the expressions in the hands of procedures
  opened,    \* the brackets read, as their closers, innermost first, until the first error
  errors, crashed

lexer == <<current, fuel>>
vars == <<lexer, todo, nodes, opened, errors, crashed>>

None == "none"
Peeked == current # None
Item(what, kind, n) == [do |-> what, kind |-> kind, n |-> n]
Do(what) == Item(what, "", 0)
Tok(k) == Item("expect", k, 0)
Name == Item("name", "ident", 0)
Prec(n) == Item("expr_prec", "", n)
Expr == <<Prec(1), Do("drop")>>
Top == todo[1]
Rest == Tail(todo)

\* What the parser sees of a token.
Kind == IF current = "bad" THEN "EOF" ELSE IF current = "reset" THEN "ident" ELSE current

-------------------------------------------------------------------------------

Init ==
  /\ current = None /\ fuel = Fuel
  /\ todo = <<Do("program")>> /\ nodes = <<>> /\ opened = <<>>
  /\ errors = FALSE /\ crashed = FALSE

Noted(left, report) ==
  /\ errors' = (errors \/ report)
  /\ fuel' = IF report /\ left > After THEN After ELSE left

\* A bad character is reported and taken for the end of the text.
Scan ==
  \/ current' = "EOF" /\ Noted(0, FALSE)
  \/ \E k \in Kinds : Cost[k] <= fuel /\ current' = k /\ Noted(fuel - Cost[k], k = "bad")

Read(os, k) ==
  IF k \in DOMAIN Closer THEN <<Closer[k]>> \o os
  ELSE IF os # <<>> /\ k = os[1] THEN Tail(os)
  ELSE IF k \in {")", "]", "}"} THEN <<"?">> \o os ELSE os
Brackets(os) == opened' = IF errors' THEN <<>> ELSE os

\* Procedures that begin with advance(), sure of the token their caller has seen.
Sure == {"fn", "struct", "let", "if", "while", "for", "return"}
Blind == {"expr_prec", "bin", "atom", "group", "drop", "block", "expr_or_assign"} \cup Sure

lexer_peek ==
  /\ ~crashed /\ todo # <<>> /\ Top.do \notin Blind /\ ~Peeked
  /\ Scan /\ Brackets(opened)
  /\ UNCHANGED <<todo, nodes, crashed>>

\* Without a peeked token, lexer_next scans one and leaves it in the buffer.
lexer_next(report) ==
  IF Peeked
  THEN current' = None /\ Noted(fuel, report) /\ Brackets(Read(opened, current))
  ELSE Scan /\ Brackets(opened)

In(f) == ~crashed /\ todo # <<>> /\ Top.do = f /\ UNCHANGED crashed
See(f) == In(f) /\ Peeked /\ UNCHANGED nodes
Body(items) == todo' = items \o Rest
Take(items) == lexer_next(FALSE) /\ Body(items)
Report(items) == lexer_next(TRUE) /\ Body(items)
Keep(items) == UNCHANGED <<lexer, opened, errors>> /\ Body(items)
Enter(f, items) == In(f) /\ UNCHANGED nodes /\ Take(items)

\* The unexpected token is skipped.
lexer_expect ==
  /\ See("expect")
  /\ IF Kind = Top.kind THEN Take(<<>>) ELSE Report(<<>>)

\* A name that is a number is still copied as a string, from that address; what
\* comes before the copy does not depend on it.
ExpectName ==
  /\ ~crashed /\ todo # <<>> /\ Top.do = "name" /\ Peeked /\ UNCHANGED nodes
  /\ IF Kind = "ident" THEN Take(<<>>) ELSE Report(<<>>)
  /\ crashed' \in IF Kind = "num" THEN BOOLEAN ELSE {FALSE}

-------------------------------------------------------------------------------

parse_type ==
  \/ See("type") /\ IF Kind \in {"type", "ident"} THEN Take(<<Do("pointers")>>) ELSE Report(<<>>)
  \/ See("pointers") /\ IF Kind = "*" THEN Take(<<Do("pointers")>>) ELSE Keep(<<Do("arrays")>>)
  \/ See("arrays") /\ IF Kind = "[" THEN Take(<<Do("count"), Tok("]"), Do("arrays")>>) ELSE Keep(<<>>)
  \/ See("count") /\ IF Kind = "num" THEN Take(<<>>) ELSE Keep(<<>>)

parse_primary ==
  /\ See("primary")
  /\ CASE Kind \in {"num", "str", "true"} -> Take(<<Do("atom")>>)
       [] Kind = "ident" -> Take(<<Do("atom"), Do("postfix")>>)
       [] Kind = "(" -> Take(<<Prec(1), Tok(")"), Do("group")>>)
       [] Kind = "alloc" -> Take(<<Tok("("), Name, Tok(","), Do("type"), Tok(")"), Do("atom")>>)
       [] Kind = "sizeof" -> Take(<<Tok("("), Do("type"), Tok(")"), Do("atom")>>)
       [] Kind \in Unary -> Take(<<Do("primary")>>)
       [] OTHER -> Report(<<Do("atom")>>)

Postfix_Unclosed ==
  \/ /\ See("postfix")
     /\ CASE Kind = "(" -> Take(<<Do("args"), Tok(")"), Do("postfix")>>)
          [] Kind = "[" -> Take(Expr \o <<Do("postfix")>>)
          [] OTHER -> Keep(<<>>)
  \/ See("args") /\ IF Kind = ")" THEN Keep(<<>>) ELSE Keep(Expr \o <<Do("more_args")>>)
  \/ See("more_args") /\ IF Kind = "," THEN Take(<<Do("args")>>) ELSE Keep(<<>>)
Postfix ==
  \/ /\ See("postfix")
     /\ CASE Kind = "(" -> Take(<<Do("args"), Tok(")"), Do("postfix")>>)
          [] Kind = "[" -> Take(Expr \o <<Tok("]"), Do("postfix")>>)
          [] Kind = "." -> Take(<<Name, Do("postfix")>>)
          [] OTHER -> Keep(<<>>)
  \/ See("args") /\ IF Kind = ")" THEN Keep(<<>>) ELSE Keep(Expr \o <<Do("more_args")>>)
  \/ See("more_args") /\ IF Kind = "," THEN Take(<<Do("args")>>) ELSE Keep(<<>>)

binop_precedence(k) == Max({0} \cup {i \in DOMAIN Levels : k \in Levels[i]})
is_right_assoc_Always(k) == TRUE
is_right_assoc(k) == FALSE
Primary == Len(Levels) + 1

parse_expr_prec ==
  \/ In("expr_prec") /\ UNCHANGED nodes /\ Keep(<<Do("primary"), Item("climb", "", Top.n)>>)
  \/ /\ See("climb")
     /\ LET prec == binop_precedence(Kind)
            next_prec == IF is_right_assoc(Kind) THEN prec ELSE prec + 1
        IN IF prec < Top.n THEN Keep(<<>>)
           ELSE Take(<<Prec(next_prec), Item("bin", Kind, prec), Top>>)

\* What becomes of expressions: one is made, two are joined by an operator, one is
\* put in parentheses, one goes into the tree of a statement.
Drop(k) == SubSeq(nodes, 1, Len(nodes) - k)
MakeNode ==
  /\ \/ In("atom") /\ nodes' = Append(nodes, Primary)
     \/ In("bin") /\ nodes' = Append(Drop(2), Top.n)
     \/ In("group") /\ nodes' = Append(Drop(1), Primary)
     \/ In("drop") /\ nodes' = Drop(1)
  /\ Keep(<<>>)

-------------------------------------------------------------------------------

parse_let_stmt ==
  \/ Enter("let", <<Name, Do("let_type"), Do("let_init"), Tok(";")>>)
  \/ See("let_type") /\ IF Kind = ":" THEN Take(<<Do("type")>>) ELSE Keep(<<>>)
  \/ See("let_init") /\ IF Kind = "=" THEN Take(Expr) ELSE Keep(<<>>)

parse_if_stmt_Taken ==
  \/ Enter("if", <<Tok("(")>> \o Expr \o <<Tok(")"), Do("block"), Do("else")>>)
  \/ See("else") /\ IF Kind = "else" THEN Take(<<Do("else_block")>>) ELSE Keep(<<>>)
  \/ See("else_block") /\ IF Kind = "if" THEN Take(<<Do("if")>>) ELSE Keep(<<Do("block")>>)
parse_if_stmt ==
  \/ Enter("if", <<Tok("(")>> \o Expr \o <<Tok(")"), Do("block"), Do("else")>>)
  \/ See("else") /\ IF Kind = "else" THEN Take(<<Do("else_block")>>) ELSE Keep(<<>>)
  \/ See("else_block") /\ Keep(IF Kind = "if" THEN <<Do("if")>> ELSE <<Do("block")>>)

parse_while_stmt == Enter("while", <<Tok("(")>> \o Expr \o <<Tok(")"), Do("block")>>)

parse_for_stmt ==
  \/ Enter("for", <<Tok("("), Do("for_init"), Item("expr_before", ";", 0), Tok(";"),
                    Item("expr_before", ")", 0), Tok(")"), Do("block")>>)
  \/ /\ See("for_init")
     /\ CASE Kind = ";" -> Take(<<>>)
          [] Kind = "let" -> Keep(<<Do("let")>>)
          [] OTHER -> Keep(Expr \o <<Tok(";")>>)
  \/ See("expr_before") /\ IF Kind = Top.kind THEN Keep(<<>>) ELSE Keep(Expr)

parse_return_stmt == Enter("return", <<Item("expr_before", ";", 0), Tok(";")>>)

parse_expr_or_assign_stmt ==
  \/ In("expr_or_assign") /\ UNCHANGED nodes /\ Keep(Expr \o <<Do("assign")>>)
  \/ See("assign") /\ IF Kind \in Assigning THEN Take(Expr \o <<Tok(";")>>) ELSE Keep(<<Tok(";")>>)

parse_stmt ==
  \/ /\ See("stmt")
     /\ CASE Kind \in Sure -> Keep(IF Kind \in {"fn", "struct"} THEN <<Do("expr_or_assign")>> ELSE <<Do(Kind)>>)
          [] Kind = "{" -> Keep(<<Do("block")>>)
          [] Kind = "arena" -> Take(<<Do("arena_name")>>)
          [] OTHER -> Keep(<<Do("expr_or_assign")>>)
  \/ See("arena_name") /\ IF Kind = "ident" THEN Take(<<Tok(";")>>) ELSE Report(<<>>)

parse_block_ToBrace ==
  \/ In("block") /\ UNCHANGED nodes /\ Keep(<<Tok("{"), Do("stmts"), Tok("}")>>)
  \/ /\ See("stmts")
     /\ CASE Kind = "}" -> Keep(<<>>)
          [] current = "reset" -> Take(<<Tok("("), Name, Tok(")"), Tok(";"), Do("stmts")>>)
          [] OTHER -> Keep(<<Do("stmt"), Do("stmts")>>)
parse_block ==
  \/ In("block") /\ UNCHANGED nodes /\ Keep(<<Tok("{"), Do("stmts"), Tok("}")>>)
  \/ /\ See("stmts")
     /\ CASE Kind \in {"}", "EOF"} -> Keep(<<>>)
          [] current = "reset" -> Take(<<Tok("("), Name, Tok(")"), Tok(";"), Do("stmts")>>)
          [] OTHER -> Keep(<<Do("stmt"), Do("stmts")>>)

parse_fn_decl ==
  \/ Enter("fn", <<Name, Tok("("), Do("params"), Tok(")"), Do("ret_type"), Do("fn_body")>>)
  \/ See("params") /\ IF Kind = ")" THEN Keep(<<>>) ELSE Keep(<<Name, Tok(":"), Do("type"), Do("more_params")>>)
  \/ See("more_params") /\ IF Kind = "," THEN Take(<<Do("params")>>) ELSE Keep(<<>>)
  \/ See("ret_type") /\ IF Kind = "->" THEN Take(<<Do("type")>>) ELSE Keep(<<>>)
  \/ See("fn_body") /\ IF Kind = "{" THEN Keep(<<Do("block")>>) ELSE Keep(<<Tok(";")>>)

\* Unlike those of a block, the fields are not over at the end of the text.
parse_struct_decl ==
  \/ Enter("struct", <<Name, Tok("{"), Do("fields"), Tok("}")>>)
  \/ See("fields") /\ IF Kind = "}" THEN Keep(<<>>)
                      ELSE Keep(<<Name, Tok(":"), Do("type"), Do("comma"), Do("fields")>>)
  \/ See("comma") /\ IF Kind = "," THEN Take(<<>>) ELSE Keep(<<>>)

parser_parse ==
  /\ See("program")
  /\ CASE Kind = "EOF" -> Keep(<<>>)
       [] Kind \in {"fn", "struct"} -> Keep(<<Do(Kind), Do("program")>>)
       [] Kind = "arena" -> Take(<<Name, Tok(";"), Do("program")>>)
       [] OTHER -> Report(<<Do("program")>>)

Next ==
  \/ lexer_peek \/ lexer_expect \/ ExpectName \/ MakeNode
  \/ parse_type \/ parse_primary \/ Postfix \/ parse_expr_prec
  \/ parse_let_stmt \/ parse_if_stmt \/ parse_while_stmt \/ parse_for_stmt \/ parse_return_stmt
  \/ parse_expr_or_assign_stmt \/ parse_stmt \/ parse_block
  \/ parse_fn_decl \/ parse_struct_decl \/ parser_parse

Spec == Init /\ [][Next]_vars /\ WF_vars(Next)

-------------------------------------------------------------------------------

\* What the pending items will make of expressions uses up those at hand.
Effect(item) ==
  CASE item.do \in {"expr_prec", "primary", "atom"} -> 1
    [] item.do \in {"bin", "drop"} -> -1
    [] OTHER -> 0

\* An operator joins operands that bind more tightly, and on its left as tightly:
\* the tree is the one the table of precedences stands for, and no expression is
\* left over or missing, after errors too (parser.c:246-301).
BindsTightest ==
  /\ FoldLeft(LAMBDA n, item : n + Effect(item), Len(nodes), todo) = 0
  /\ todo # <<>> /\ Top.do = "bin" =>
       /\ nodes[Len(nodes) - 1] >= Top.n
       /\ nodes[Len(nodes)] > Top.n

\* As long as nothing was reported, what was read together with what the procedures
\* still expect is well bracketed: no procedure forgets or steals a bracket of another,
\* and nothing of the text remains when they are done.
Balanced ==
  ~errors =>
    /\ todo = <<>> => current = "EOF" /\ fuel = 0
    /\ FoldLeft(Read, opened, [i \in DOMAIN todo |-> IF todo[i].do = "expect" THEN todo[i].kind ELSE ""]) = <<>>

\* A procedure that begins with advance() finds the keyword it begins with in the
\* buffer: lexer_next would otherwise skip nothing (lexer.c:358-364).
NextPeeked == todo # <<>> /\ Top.do \in Sure => Peeked /\ Kind = Top.do

\* The parser comes back from every text, correct or not, or ends the process; but a
\* struct whose fields run into the end of the text goes on for ever (parser.c:575).
InFields == \E i \in DOMAIN todo : todo[i].do = "fields"
Returns == <>(todo = <<>> \/ crashed) \/ <>[](InFields /\ fuel = 0)

===============================================================================
