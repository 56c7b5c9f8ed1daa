-------------------------------- MODULE Parser -------------------------------
(***************************************************************************)
(* The recursive-descent parser (parser/parser.cpp) on sequences of tokens.*)
(* A token is a string: a keyword or a symbol, a member of Idents, or a    *)
(* member of Literals.  A parsing function returns the tree it built and   *)
(* the tokens that are left, or the tokens at which it failed.             *)
(*                                                                         *)
(* An expression is a column, a literal or an operator over two of them.   *)
(* A clause that may be missing is an empty or a one-element sequence.     *)
(***************************************************************************)
EXTENDS Integers, Sequences, SequencesExt, FiniteSets

CONSTANTS Idents,
          Literals, IntLiterals   \* literal tokens, NULL, TRUE and FALSE with them

Ok(v, rest) == [ok |-> TRUE, val |-> v, rest |-> rest]
Failed(rest) == [ok |-> FALSE, val |-> <<>>, rest |-> rest]

\* Peek and Check: behind the last token is kEndOfInput.
At(s, tok) == s # <<>> /\ Head(s) = tok
AtOneOf(s, toks) == s # <<>> /\ Head(s) \in toks

Expect(s, tok) == IF At(s, tok) THEN Ok(tok, Tail(s)) ELSE Failed(s)
ExpectOneOf(s, toks) == IF AtOneOf(s, toks) THEN Ok(Head(s), Tail(s)) ELSE Failed(s)

\* What follows a step that may have failed.
AndThen(p, F(_, _)) == IF p.ok THEN F(p.val, p.rest) ELSE p

ParseIdentifier(s) == ExpectOneOf(s, Idents)
ParseLiteral(s) == ExpectOneOf(s, Literals)

Column(c) == [kind |-> "column", name |-> c]
Literal(l) == [kind |-> "literal", token |-> l]
MakeBinary(l, op, r) == [kind |-> "binary", op |-> op, left |-> l, right |-> r]

ComparisonOps == {"=", "!=", "<", "<=", ">", ">="}

RECURSIVE ParseOrExpr(_), AndRest(_, _), OrRest(_, _)

ParsePrimary(s) ==
  IF At(s, "(")
  THEN AndThen(ParseOrExpr(Tail(s)), LAMBDA e, r : AndThen(Expect(r, ")"), LAMBDA x, q : Ok(e, q)))
  ELSE IF AtOneOf(s, Idents) THEN Ok(Column(Head(s)), Tail(s))
  ELSE AndThen(ParseLiteral(s), LAMBDA l, r : Ok(Literal(l), r))

ParseComparison(s) ==
  AndThen(ParsePrimary(s), LAMBDA left, r :
    IF AtOneOf(r, ComparisonOps)
    THEN AndThen(ParsePrimary(Tail(r)), LAMBDA right, q : Ok(MakeBinary(left, Head(r), right), q))
    ELSE Ok(left, r))

\* The loops of ParseAndExpr and ParseOrExpr, after the first operand.
AndRest(left, s) ==
  IF At(s, "AND")
  THEN AndThen(ParseComparison(Tail(s)), LAMBDA right, r : AndRest(MakeBinary(left, "AND", right), r))
  ELSE Ok(left, s)

ParseAndExpr(s) == AndThen(ParseComparison(s), AndRest)

\* Mutant: only the first operand of OR may be a conjunction.
OrRestOfComparisons(left, s) ==
  IF At(s, "OR")
  THEN AndThen(ParseComparison(Tail(s)), LAMBDA right, r : OrRest(MakeBinary(left, "OR", right), r))
  ELSE Ok(left, s)

OrRest(left, s) ==
  IF At(s, "OR")
  THEN AndThen(ParseAndExpr(Tail(s)), LAMBDA right, r : OrRest(MakeBinary(left, "OR", right), r))
  ELSE Ok(left, s)

ParseOrExpr(s) == AndThen(ParseAndExpr(s), OrRest)

\* if (Check(kWhere)) ParseWhereClause()
OptionalWhere(s) ==
  IF At(s, "WHERE") THEN AndThen(ParseOrExpr(Tail(s)), LAMBDA e, r : Ok(<<e>>, r)) ELSE Ok(<<>>, s)
-----------------------------------------------------------------------------
Aggregates == {"COUNT", "SUM", "AVG", "MIN", "MAX"}

Item(func, col, alias) == [func |-> func, column |-> col, alias |-> alias]

OptionalAlias(s) ==
  IF At(s, "AS") THEN AndThen(ParseIdentifier(Tail(s)), LAMBDA a, r : Ok(<<a>>, r)) ELSE Ok(<<>>, s)

ParseSelectItem(s) ==
  IF AtOneOf(s, Aggregates)
  THEN AndThen(Expect(Tail(s), "("), LAMBDA x, r :
         AndThen(ExpectOneOf(r, Idents \cup (IF Head(s) = "COUNT" THEN {"*"} ELSE {})), LAMBDA col, q :
           AndThen(Expect(q, ")"), LAMBDA y, t :
             AndThen(OptionalAlias(t), LAMBDA a, u : Ok(Item(Head(s), col, a), u)))))
  ELSE AndThen(ParseIdentifier(s), LAMBDA col, r :
         AndThen(OptionalAlias(r), LAMBDA a, q : Ok(Item("", col, a), q)))

\* VARCHAR(n) or VARCHAR, or another type, and NOT NULL.
ParseColumnDef(s) ==
  AndThen(ParseIdentifier(s), LAMBDA name, r :
    AndThen(ExpectOneOf(r, {"INT", "BIGINT", "DOUBLE", "BOOLEAN", "VARCHAR"}), LAMBDA type, q :
      AndThen(IF type = "VARCHAR" /\ At(q, "(")
              THEN AndThen(ExpectOneOf(Tail(q), IntLiterals), LAMBDA n, t :
                     AndThen(Expect(t, ")"), LAMBDA x, u : Ok(<<n>>, u)))
              ELSE Ok(<<>>, q),
        LAMBDA len, t :
          IF At(t, "NOT")
          THEN AndThen(Expect(Tail(t), "NULL"), LAMBDA x, u :
                 Ok([name |-> name, type |-> type, max |-> len, nullable |-> FALSE], u))
          ELSE Ok([name |-> name, type |-> type, max |-> len, nullable |-> TRUE], t))))

ParseAssignment(s) ==
  AndThen(ParseIdentifier(s), LAMBDA col, r :
    AndThen(Expect(r, "="), LAMBDA x, q :
      AndThen(ParseLiteral(q), LAMBDA l, t : Ok(<<col, l>>, t))))

\* do ... while (Match(kComma)) over the kinds of things in lists.
RECURSIVE ParseList(_, _)
ParseTuple(s) ==
  AndThen(Expect(s, "("), LAMBDA x, r :
    AndThen(ParseList("literal", r), LAMBDA row, q : AndThen(Expect(q, ")"), LAMBDA y, t : Ok(row, t))))

ParseElement(what, s) ==
  CASE what = "literal" -> ParseLiteral(s)
    [] what = "identifier" -> ParseIdentifier(s)
    [] what = "item" -> ParseSelectItem(s)
    [] what = "column" -> ParseColumnDef(s)
    [] what = "assignment" -> ParseAssignment(s)
    [] what = "tuple" -> ParseTuple(s)

ParseList(what, s) ==
  AndThen(ParseElement(what, s), LAMBDA e, r :
    IF At(r, ",")
    THEN AndThen(ParseList(what, Tail(r)), LAMBDA es, q : Ok(<<e>> \o es, q))
    ELSE Ok(<<e>>, r))
-----------------------------------------------------------------------------
OptionalOrderBy(s) ==
  IF At(s, "ORDER")
  THEN AndThen(Expect(Tail(s), "BY"), LAMBDA x, r :
         AndThen(ParseIdentifier(r), LAMBDA col, q :
           Ok(<<[column |-> col, descending |-> At(q, "DESC")]>>,
              IF AtOneOf(q, {"DESC", "ASC"}) THEN Tail(q) ELSE q)))
  ELSE Ok(<<>>, s)

OptionalLimit(s) ==
  IF At(s, "LIMIT")
  THEN AndThen(ExpectOneOf(Tail(s), IntLiterals), LAMBDA n, r : Ok(<<n>>, r))
  ELSE Ok(<<>>, s)

ParseSelect(s) ==
  AndThen(IF At(s, "*") THEN Ok(<<Item("", "*", <<>>)>>, Tail(s)) ELSE ParseList("item", s), LAMBDA items, r1 :
    AndThen(Expect(r1, "FROM"), LAMBDA x, r2 :
      AndThen(ParseIdentifier(r2), LAMBDA table, r3 :
        AndThen(OptionalWhere(r3), LAMBDA where, r4 :
          AndThen(OptionalOrderBy(r4), LAMBDA order, r5 :
            AndThen(OptionalLimit(r5), LAMBDA limit, r6 :
              Ok([kind |-> "select", items |-> items, table |-> table, where |-> where,
                  order_by |-> order, limit |-> limit], r6)))))))

ParseInsert(s) ==
  AndThen(Expect(s, "INTO"), LAMBDA x, r1 :
    AndThen(ParseIdentifier(r1), LAMBDA table, r2 :
      AndThen(IF At(r2, "(")
              THEN AndThen(ParseList("identifier", Tail(r2)), LAMBDA cs, q :
                     AndThen(Expect(q, ")"), LAMBDA y, t : Ok(cs, t)))
              ELSE Ok(<<>>, r2),
        LAMBDA columns, r3 :
          AndThen(Expect(r3, "VALUES"), LAMBDA z, r4 :
            AndThen(ParseList("tuple", r4), LAMBDA rows, r5 :
              Ok([kind |-> "insert", table |-> table, columns |-> columns, rows |-> rows], r5))))))

ParseUpdate(s) ==
  AndThen(ParseIdentifier(s), LAMBDA table, r1 :
    AndThen(Expect(r1, "SET"), LAMBDA x, r2 :
      AndThen(ParseList("assignment", r2), LAMBDA set, r3 :
        AndThen(OptionalWhere(r3), LAMBDA where, r4 :
          Ok([kind |-> "update", table |-> table, set |-> set, where |-> where], r4)))))

ParseDelete(s) ==
  AndThen(Expect(s, "FROM"), LAMBDA x, r1 :
    AndThen(ParseIdentifier(r1), LAMBDA table, r2 :
      AndThen(OptionalWhere(r2), LAMBDA where, r3 :
        Ok([kind |-> "delete", table |-> table, where |-> where], r3))))

ParseCreateTable(s) ==
  AndThen(ParseIdentifier(s), LAMBDA table, r1 :
    AndThen(Expect(r1, "("), LAMBDA x, r2 :
      AndThen(ParseList("column", r2), LAMBDA columns, r3 :
        AndThen(Expect(r3, ")"), LAMBDA y, r4 :
          Ok([kind |-> "create_table", table |-> table, columns |-> columns], r4)))))

ParseCreateIndex(s) ==
  AndThen(ParseIdentifier(s), LAMBDA index, r1 :
    AndThen(Expect(r1, "ON"), LAMBDA x, r2 :
      AndThen(ParseIdentifier(r2), LAMBDA table, r3 :
        AndThen(Expect(r3, "("), LAMBDA y, r4 :
          AndThen(ParseIdentifier(r4), LAMBDA col, r5 :
            AndThen(Expect(r5, ")"), LAMBDA z, r6 :
              Ok([kind |-> "create_index", index |-> index, table |-> table, column |-> col], r6)))))))

ParseDrop(kind, s) == AndThen(ParseIdentifier(s), LAMBDA name, r : Ok([kind |-> kind, name |-> name], r))

ParseByKeyword(s) ==
  LET t == IF s = <<>> THEN s ELSE Tail(s)
  IN  CASE At(s, "SELECT") -> ParseSelect(t)
        [] At(s, "INSERT") -> ParseInsert(t)
        [] At(s, "UPDATE") -> ParseUpdate(t)
        [] At(s, "DELETE") -> ParseDelete(t)
        [] At(s, "CREATE") /\ At(t, "TABLE") -> ParseCreateTable(Tail(t))
        [] At(s, "CREATE") /\ At(t, "INDEX") -> ParseCreateIndex(Tail(t))
        [] At(s, "DROP") /\ At(t, "TABLE") -> ParseDrop("drop_table", Tail(t))
        [] At(s, "DROP") /\ At(t, "INDEX") -> ParseDrop("drop_index", Tail(t))
        [] At(s, "CREATE") \/ At(s, "DROP") -> Failed(t)
        [] OTHER -> Failed(s)

\* Mutant: what follows the statement is ignored.
ParsesPrefix(rest) == TRUE

AtEndOfStatement(rest) == rest \in {<<>>, <<";">>}

ParseStatement(s) ==
  AndThen(ParseByKeyword(s), LAMBDA stmt, r :
    IF AtEndOfStatement(r) THEN Ok(stmt, <<>>) ELSE Failed(IF At(r, ";") THEN Tail(r) ELSE r))
-----------------------------------------------------------------------------
(* The language, apart from how it is parsed. *)

\* The trees of an expression by the grammar that the parser's functions are
\* named after, both chains leaning to the left:
\*   or -> and | or OR and      and -> cmp | and AND cmp
\*   cmp -> prim | prim op prim     prim -> ( or ) | column | literal
RECURSIVE Trees(_, _)
Trees(rule, s) ==
  LET Split(ops, left, right) ==
        UNION {{MakeBinary(l, s[i], r) : l \in Trees(left, SubSeq(s, 1, i - 1)),
                                         r \in Trees(right, SubSeq(s, i + 1, Len(s)))} :
               i \in {j \in 2 .. Len(s) - 1 : s[j] \in ops}}
  IN  CASE rule = "or" -> Trees("and", s) \cup Split({"OR"}, "or", "and")
        [] rule = "and" -> Trees("comparison", s) \cup Split({"AND"}, "and", "comparison")
        [] rule = "comparison" -> Trees("primary", s) \cup Split(ComparisonOps, "primary", "primary")
        [] rule = "primary" ->
             IF Len(s) = 1 THEN (IF s[1] \in Idents THEN {Column(s[1])}
                                 ELSE IF s[1] \in Literals THEN {Literal(s[1])} ELSE {})
             ELSE IF Len(s) > 2 /\ s[1] = "(" /\ Last(s) = ")"
                  THEN Trees("or", SubSeq(s, 2, Len(s) - 1)) ELSE {}

\* The names, values and operators of a tree, as they stand in the text.
RECURSIVE Leaves(_)
Leaves(e) ==
  CASE e.kind = "column" -> <<e.name>>
    [] e.kind = "literal" -> <<e.token>>
    [] e.kind = "binary" -> Leaves(e.left) \o <<e.op>> \o Leaves(e.right)
=============================================================================
