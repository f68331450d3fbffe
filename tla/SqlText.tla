------------------------------- MODULE SqlText -------------------------------
(***************************************************************************)
(* internal/sql/parser.go: tokens and the clauses of a SELECT statement.   *)
(*                                                                         *)
(* A text is a sequence of atoms: a character, or a whole word where no    *)
(* code looks inside it.  Keywords are the words in capitals (the parser   *)
(* takes them in any case).  Numbers are integers: one with a point, which *)
(* becomes a float literal, is left out.                                   *)
(*                                                                         *)
(* A parsing operator is given the tokens and the place of the next one    *)
(* and returns what it has read and the place after it, 0 for an error.    *)
(* Past the last token every token is EOF.                                 *)
(***************************************************************************)
EXTENDS Expressions

Figures == <<"0", "1", "2", "3", "4", "5", "6", "7", "8", "9">>
Digit == ToSet(Figures)
Spaces == {" ", "\n"}
Operator == {"=", "!", "<", ">"}
PunctuationType ==
  ("," :> "Comma") @@ ("*" :> "Star") @@ ("(" :> "LParen") @@ (")" :> "RParen") @@ ("." :> "Dot")
Skipped == {";", "?", "-"}   \* "?" stands for any character no token starts with
Letter(atom) == atom \notin Digit \cup Spaces \cup Operator \cup DOMAIN PunctuationType \cup Skipped \cup {"'"}

Token(typ, val) == [typ |-> typ, val |-> val]
EOF == Token("EOF", <<>>)

-----------------------------------------------------------------------------
(* Tokens                                                                  *)

\* The first place from i on whose atom does not pass
RunEnd(text, i, passes(_)) ==
  Min({j \in i..Len(text)+1 : j = Len(text) + 1 \/ ~passes(text[j])})

(* What starts at i: its token, or none, and where the next one may start  *)
TokenAt(text, i) ==
  LET ch == text[i]
      ahead == IF i < Len(text) THEN text[i+1] ELSE ""
      scanned(typ, from, end, next) == [tokens |-> <<Token(typ, SubSeq(text, from, end - 1))>>, next |-> next]
      number == RunEnd(text, i + 1, LAMBDA c : c \in Digit \cup {"."})
      word == RunEnd(text, i, LAMBDA c : Letter(c) \/ c \in Digit)
      closing == RunEnd(text, i + 1, LAMBDA c : c # "'")
  IN  CASE ch = "'" -> scanned("String", i + 1, closing, closing + 1)
        [] ch \in Digit \/ (ch = "-" /\ ahead \in Digit) -> scanned("Number", i, number, number)
        [] ch = "<" /\ ahead = ">" -> [tokens |-> <<Token("Op", <<"!", "=">>)>>, next |-> i + 2]
        [] ch \in {"!", "<", ">"} /\ ahead = "=" -> scanned("Op", i, i + 2, i + 2)
        [] ch \in {"=", ">"} /\ (ch = "=" \/ ahead # "=") -> scanned("Op", i, i + 1, i + 1)
        [] ch = "<" /\ ahead \notin {"=", ">"} -> scanned("Op", i, i + 1, i + 1)
        [] ch \in DOMAIN PunctuationType -> scanned(PunctuationType[ch], i, i + 1, i + 1)
        [] Letter(ch) -> scanned("Ident", i, word, word)
        [] OTHER -> [tokens |-> <<>>, next |-> i + 1]

(* tokenize                                                                *)
RECURSIVE TokensFrom(_, _)
TokensFrom(text, i) ==
  IF i > Len(text) THEN <<>>
  ELSE TokenAt(text, i).tokens \o TokensFrom(text, TokenAt(text, i).next)

tokenize(text) == TokensFrom(text, 1)

Peek(ts, p) == IF p > Len(ts) THEN EOF ELSE ts[p]
Val(ts, p) == Peek(ts, p).val
Typ(ts, p) == Peek(ts, p).typ

(* isKeyword looks at the value only: a text in quotes may be a keyword    *)
IsKeyword(ts, p, kw) == Val(ts, p) = <<kw>>
IsOneOf(ts, p, kws) == \E kw \in kws : IsKeyword(ts, p, kw)

JoinWords == {"JOIN", "INNER", "LEFT", "RIGHT", "FULL", "CROSS"}
ClauseWords == {"WHERE", "GROUP", "ORDER", "LIMIT"}

\* strconv.Atoi: an integer, possibly negative
Magnitude(val) == IF val # <<>> /\ val[1] = "-" THEN Tail(val) ELSE val
IsInteger(val) == Magnitude(val) # <<>> /\ ToSet(Magnitude(val)) \subseteq Digit
Integer(val) ==
  LET n == FoldLeft(LAMBDA acc, d : 10 * acc + SelectInSeq(Figures, LAMBDA f : f = d) - 1, 0, Magnitude(val))
  IN  IF val[1] = "-" THEN -n ELSE n

-----------------------------------------------------------------------------
(* Names, columns and lists                                                *)

\* A name, with the part after a dot if there is one
Qualified(ts, p) ==
  IF Typ(ts, p + 1) = "Dot"
    THEN [name |-> Val(ts, p) \o <<".">> \o Val(ts, p + 2), next |-> p + 3]
    ELSE [name |-> Val(ts, p), next |-> p + 1]

AliasAt(ts, p, default) ==
  IF IsKeyword(ts, p, "AS") THEN [name |-> Val(ts, p + 1), next |-> p + 2]
  ELSE [name |-> default, next |-> p]

\* A select column; no alias and no function are the empty text
SelectColumn(name, alias, agg) == [agg |-> agg, alias |-> alias, name |-> name]

(* parseColumn: an aggregate of one bare name, or a name                   *)
ParseColumn(ts, p) ==
  IF Typ(ts, p) = "Ident" /\ Typ(ts, p + 1) = "LParen"
    THEN LET name == Val(ts, p + 2)
             alias == AliasAt(ts, p + 4, name)
         IN  [col |-> SelectColumn(name, alias.name, Val(ts, p)),
              next |-> IF Typ(ts, p + 3) = "RParen" THEN alias.next ELSE 0]
    ELSE LET q == Qualified(ts, p)
             alias == AliasAt(ts, q.next, <<>>)
         IN  [col |-> SelectColumn(q.name, alias.name, <<>>), next |-> alias.next]

RECURSIVE ParseColumns(_, _)
ParseColumns(ts, p) ==
  LET first == ParseColumn(ts, p)
      rest == ParseColumns(ts, first.next + 1)
  IN  IF first.next # 0 /\ Typ(ts, first.next) = "Comma"
        THEN [cols |-> <<first.col>> \o rest.cols, next |-> rest.next]
        ELSE [cols |-> <<first.col>>, next |-> first.next]

(* The list after GROUP BY: single tokens, no qualified names              *)
RECURSIVE ParseNames(_, _)
ParseNames(ts, p) ==
  LET rest == ParseNames(ts, p + 2)
  IN  IF Typ(ts, p + 1) = "Comma" THEN [names |-> <<Val(ts, p)>> \o rest.names, next |-> rest.next]
      ELSE [names |-> <<Val(ts, p)>>, next |-> p + 1]

(* The list after ORDER BY                                                 *)
RECURSIVE ParseOrder(_, _)
ParseOrder(ts, p) ==
  LET item == [col |-> Val(ts, p), desc |-> IsKeyword(ts, p + 1, "DESC")]
      end == IF IsOneOf(ts, p + 1, {"DESC", "ASC"}) THEN p + 2 ELSE p + 1
      rest == ParseOrder(ts, end + 1)
  IN  IF Typ(ts, end) = "Comma" THEN [items |-> <<item>> \o rest.items, next |-> rest.next]
      ELSE [items |-> <<item>>, next |-> end]

(* parseJoin: any name but ON after the table is its alias; what stands    *)
(* between the two keys is skipped                                         *)
ParseJoin(ts, p) ==
  LET how == IF IsOneOf(ts, p, JoinWords \ {"JOIN"}) THEN Val(ts, p)[1] ELSE "INNER"
      at == IF IsOneOf(ts, p, JoinWords \ {"JOIN"}) THEN p + 1 ELSE p
      aliased == Typ(ts, at + 2) = "Ident" /\ ~IsKeyword(ts, at + 2, "ON")
      on == IF aliased THEN at + 3 ELSE at + 2
      left == Qualified(ts, on + 1)
      right == Qualified(ts, left.next + 1)
      keyed == IsKeyword(ts, on, "ON")
  IN  [join |-> [alias |-> IF aliased THEN Val(ts, at + 2) ELSE <<>>,
                 how |-> how,
                 leftOn |-> IF keyed THEN left.name ELSE <<>>,
                 rightOn |-> IF keyed THEN right.name ELSE <<>>,
                 table |-> Val(ts, at + 1)],
       next |-> IF ~IsKeyword(ts, at, "JOIN") THEN 0 ELSE IF keyed THEN right.next ELSE on]

-----------------------------------------------------------------------------
(* Conditions: expression trees of internal/expr (sqlToExpr)               *)

KindOf ==
  (<<"=">> :> "eq") @@ (<<"!", "=">> :> "neq") @@ (<<"<">> :> "lt") @@ (<<">">> :> "gt")
  @@ (<<"<", "=">> :> "lte") @@ (<<">", "=">> :> "gte")

ParseFailed == [expr |-> Col(<<>>), next |-> 0]

RECURSIVE ParseExpr(_, _), ParseRest(_, _, _)

(* parsePrimary: whatever is not a text, a number or a parenthesis is      *)
(* taken for a column                                                      *)
ParsePrimary(ts, p) ==
  CASE Typ(ts, p) = "LParen" ->
         LET inner == ParseExpr(ts, p + 1)
         IN  IF inner.next = 0 \/ Typ(ts, inner.next) # "RParen" THEN ParseFailed
             ELSE [expr |-> inner.expr, next |-> inner.next + 1]
    [] Typ(ts, p) = "String" -> [expr |-> Lit(Val(ts, p), "String"), next |-> p + 1]
    [] Typ(ts, p) = "Number" -> [expr |-> Lit(Integer(Val(ts, p)), "Int64"), next |-> p + 1]
    [] OTHER -> [expr |-> Col(Qualified(ts, p).name), next |-> Qualified(ts, p).next]

(* parseExpr: a comparison takes the next primary, AND and OR take all     *)
(* that follows, so both group to the right and neither binds tighter      *)
ParseExpr(ts, p) ==
  LET first == ParsePrimary(ts, p)
  IN  IF first.next = 0 THEN ParseFailed ELSE ParseRest(ts, first.next, first.expr)

ParseRest(ts, p, left) ==
  LET word == CASE Typ(ts, p) = "Op" -> KindOf[Val(ts, p)]
                [] Typ(ts, p) # "Op" /\ IsKeyword(ts, p, "AND") -> "and"
                [] Typ(ts, p) # "Op" /\ IsKeyword(ts, p, "OR") -> "or"
                [] OTHER -> "none"
      right == IF word \in Logical THEN ParseExpr(ts, p + 1) ELSE ParsePrimary(ts, p + 1)
  IN  IF word = "none" THEN [expr |-> left, next |-> p]
      ELSE IF right.next = 0 THEN ParseFailed
      ELSE ParseRest(ts, right.next, BinaryOp(word, left, right.expr))
=============================================================================
