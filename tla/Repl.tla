--------------------------------- MODULE Repl --------------------------------
(***************************************************************************)
(* A session of the prompt (cli/repl.cpp): the user types the words of a   *)
(* statement, the semicolon hands it to ProcessStatement, which parses it  *)
(* and, if it is a SELECT, executes it by pulling rows one by one through  *)
(* its operators.  What the other statements do is in Database.            *)
(*                                                                         *)
(* A session starts from its head, words already typed, and adds up to max *)
(* of its words.  Where it is marked stubborn, every text is typed; else   *)
(* one that the parser has refused before its end is not typed further.    *)
(* In sessions marked chars the text is characters, which are tokenized    *)
(* only.                                                                   *)
(***************************************************************************)
EXTENDS Query, Tokenizer, Bags

CONSTANTS TableName,  \* the one table
          Sessions,   \* records: head, words, max, chars, stubborn
          Tables,     \* contents of the table: sequences of rows of literals
          IndexedColumns

VARIABLES session, text, phase, stmt, table, indexed, plan, buffer, answer

replVars == <<session, text, phase, stmt, table, indexed, plan, buffer, answer>>

NoStatement == [kind |-> "none"]
NoAnswer == [kind |-> "none", rows |-> <<>>]
ErrorAnswer == [kind |-> "error", rows |-> <<>>]

\* INSERT: the literals of a row, coerced and encoded.
Stored(literals) ==
  Encode([i \in DOMAIN literals |-> CoerceLiteralToColumnType(LiteralValue(literals[i]), Schema[i])])

\* RecordManager::Scan skips what cannot be decoded.
ScanTuples(records) ==
  LET decoded == [i \in DOMAIN records |-> Decode(records[i])]
      good == SelectSeq(decoded, LAMBDA d : ~d.bad)
  IN  [i \in DOMAIN good |-> good[i].values]

Init ==
  \E s \in Sessions :
    /\ session = s /\ text = s.head /\ phase = "typing" /\ stmt = NoStatement /\ table = <<>>
    /\ indexed = {} /\ plan = <<>> /\ buffer = <<>> /\ answer = NoAnswer

Ended(s) == s # <<>> /\ s[Len(s)] = ";"
Refused(s) == LET p == ParseStatement(s) IN ~p.ok /\ p.rest # <<>>

Type(w) ==
  /\ phase = "typing"
  /\ Len(text) < Len(session.head) + session.max
  /\ session.chars \/ ~Ended(text)
  /\ session.chars \/ session.stubborn \/ text = session.head \/ ~Refused(text)
  /\ text' = Append(text, w)
  /\ UNCHANGED <<session, phase, stmt, table, indexed, plan, buffer, answer>>

IsQuery(s) == s.kind = "select" /\ s.table = TableName
IsAggregate(s) == s.items[1].func # ""
MixesAggregates(s) ==
  \E i, j \in DOMAIN s.items : s.items[i].func # "" /\ s.items[j].func = ""
UnknownOrder(s) == s.order_by # <<>> /\ IndexOf(s.order_by[1].column) = 0

\* ProcessStatement, up to the Open of the operators.
ProcessStatement(rows, columns) ==
  LET p == ParseStatement(text)
  IN  /\ phase = "typing"
      /\ ~session.chars
      /\ Ended(text)
      /\ \/ /\ text = <<";">> \/ ~p.ok
            /\ phase' = "answered"
            /\ answer' = IF text = <<";">> THEN NoAnswer ELSE ErrorAnswer
            /\ UNCHANGED <<stmt, table, indexed, plan>>
         \/ /\ text # <<";">> /\ p.ok
            /\ ~IsQuery(p.val)
            /\ phase' = "answered"
            /\ stmt' = p.val
            /\ answer' = IF p.val.kind = "select" THEN ErrorAnswer ELSE NoAnswer
            /\ UNCHANGED <<table, indexed, plan>>
         \/ /\ text # <<";">> /\ p.ok
            /\ IsQuery(p.val)
            /\ stmt' = p.val
            /\ table' = rows
            /\ indexed' = columns
            /\ IF MixesAggregates(p.val) \/ (~IsAggregate(p.val) /\ UnknownOrder(p.val))
               THEN /\ phase' = "answered"
                    /\ answer' = ErrorAnswer
                    /\ plan' = <<>>
               ELSE /\ phase' = "pulling"
                    /\ answer' = NoAnswer
                    /\ plan' = Candidates(ScanTuples([i \in DOMAIN rows |-> Stored(rows[i])]),
                                          ChosenConjunct(p.val.where, columns))
      /\ UNCHANGED <<session, text, buffer>>

Limit == LiteralValue(stmt.limit[1])[2]

\* LimitOperator on top of rows that are passed on as they come: neither
\* sorted nor aggregated, both of which read all rows first.
LimitReached ==
  ~IsAggregate(stmt) /\ stmt.order_by = <<>> /\ stmt.limit # <<>> /\ Len(buffer) >= Limit

\* Mutant: a row on which WHERE is an error does not match.
MatchedOrSkipped(row) ==
  LET v == EvaluatePredicate(stmt.where, row) IN IF v = Error THEN False ELSE v

Matched(row) == EvaluatePredicate(stmt.where, row)

\* FilterOperator's next row.
Pull ==
  LET matched == Matched(Head(plan))
  IN  /\ phase = "pulling"
      /\ ~LimitReached
      /\ plan # <<>>
      /\ plan' = Tail(plan)
      /\ \/ /\ matched = Error
            /\ phase' = "answered"
            /\ answer' = ErrorAnswer
            /\ UNCHANGED buffer
         \/ /\ matched # Error
            /\ buffer' = IF matched = True THEN Append(buffer, Head(plan)) ELSE buffer
            /\ UNCHANGED <<phase, answer>>
      /\ UNCHANGED <<session, text, stmt, table, indexed>>

Ordered ==
  IF stmt.order_by = <<>> THEN buffer
  ELSE Sorted(buffer, IndexOf(stmt.order_by[1].column), stmt.order_by[1].descending)

Limited(tuples) ==
  IF stmt.limit = <<>> \/ Len(tuples) <= Limit THEN tuples ELSE SubSeq(tuples, 1, Limit)

\* No more rows: the rest of ExecuteSelect.
Answer ==
  /\ phase = "pulling"
  /\ LimitReached \/ plan = <<>>
  /\ phase' = "answered"
  /\ answer' =
       IF IsAggregate(stmt)
       THEN IF \E i \in DOMAIN stmt.items : AggregateFails(stmt.items[i], buffer) THEN ErrorAnswer
            ELSE [kind |-> "rows",
                  rows |-> <<[i \in DOMAIN stmt.items |-> AggregateValue(stmt.items[i], buffer)]>>]
       ELSE LET tuples == Limited(Ordered)
            IN  [kind |-> "rows", rows |-> [i \in DOMAIN tuples |-> Project(tuples[i], stmt.items)]]
  /\ UNCHANGED <<session, text, stmt, table, indexed, plan, buffer>>

Next ==
  \/ \E w \in session.words : Type(w)
  \/ \E rows \in Tables, columns \in SUBSET IndexedColumns : ProcessStatement(rows, columns)
  \/ Pull
  \/ Answer

Spec == Init /\ [][Next]_replVars
-----------------------------------------------------------------------------
\* Type invariant.
TypeOK ==
  /\ phase \in {"typing", "pulling", "answered"}
  /\ phase = "pulling" => stmt.kind = "select" /\ answer = NoAnswer
  /\ Len(buffer) + Len(plan) <= Len(table)
  /\ answer.kind \in {"none", "error", "rows"}

ExpressionWords == Idents \cup Literals \cup ComparisonOps \cup {"AND", "OR", "(", ")"}

\* An expression after WHERE is accepted if the grammar has a tree for it, and
\* the parser's tree is that one, there being no other: AND binds tighter than
\* OR, both to the left, comparisons do not chain (parser.cpp:261-323).
ParserExact ==
  LET w == SelectInSeq(text, LAMBDA t : t = "WHERE")
      s == SubSeq(text, w + 1, Len(text))
      p == ParseStatement(text)
  IN  ~session.chars /\ w # 0 /\ s # <<>> /\ Range(s) \subseteq ExpressionWords =>
        Trees("or", s) = IF p.ok THEN {p.val.where[1]} ELSE {}

Commas(parts) ==
  FlattenSeq([i \in DOMAIN parts |-> IF i = 1 THEN parts[i] ELSE <<",">> \o parts[i]])
Clause(word, part, F(_)) == IF part = <<>> THEN <<>> ELSE word \o F(part[1])

Written(s) ==
  LET where == Clause(<<"WHERE">>, s.where, Leaves)
      Words(x) == <<x>>
      WrittenItem(x) == (IF x.func = "" THEN <<x.column>> ELSE <<x.func, x.column>>) \o Clause(<<"AS">>, x.alias, Words)
      WrittenOrder(o) == <<o.column>> \o (IF o.descending THEN <<"DESC">> ELSE <<>>)
      WrittenColumn(c) == <<c.name, c.type>> \o c.max \o (IF c.nullable THEN <<>> ELSE <<"NOT", "NULL">>)
      Singles(xs) == Commas([i \in DOMAIN xs |-> <<xs[i]>>])
  IN  CASE s.kind = "select" ->
             <<"SELECT">> \o Commas([i \in DOMAIN s.items |-> WrittenItem(s.items[i])]) \o <<"FROM", s.table>>
               \o where \o Clause(<<"ORDER", "BY">>, s.order_by, WrittenOrder) \o Clause(<<"LIMIT">>, s.limit, Words)
        [] s.kind = "insert" ->
             <<"INSERT", "INTO", s.table>> \o Singles(s.columns) \o <<"VALUES">>
               \o Commas([i \in DOMAIN s.rows |-> Singles(s.rows[i])])
        [] s.kind = "update" ->
             <<"UPDATE", s.table, "SET">>
               \o Commas([i \in DOMAIN s.set |-> <<s.set[i][1], "=", s.set[i][2]>>]) \o where
        [] s.kind = "delete" -> <<"DELETE", "FROM", s.table>> \o where
        [] s.kind = "create_table" ->
             <<"CREATE", "TABLE", s.table>> \o Commas([i \in DOMAIN s.columns |-> WrittenColumn(s.columns[i])])
        [] s.kind = "create_index" -> <<"CREATE", "INDEX", s.index, "ON", s.table, s.column>>
        [] s.kind = "drop_table" -> <<"DROP", "TABLE", s.name>>
        [] s.kind = "drop_index" -> <<"DROP", "INDEX", s.name>>

\* A statement that is accepted says all that was typed and in its order, but
\* for parentheses, ASC and the semicolon: no word is skipped or taken twice,
\* in any statement (parser.cpp:23-508).
NothingIgnored ==
  LET p == ParseStatement(text)
  IN  ~session.chars /\ p.ok => Written(p.val) = SelectSeq(text, LAMBDA t : t \notin {"(", ")", "ASC", ";"})

\* The tokens of a text are those of any other way to write them: blanks,
\* comments and doubled quotes lose and add nothing (tokenizer.cpp:36-166).
TokensExact ==
  session.chars =>
    LET t == TokenizeAll(text)
    IN  t.ok => TokenizeAll(Respelled(t.tokens)) = t

\* In one line without a comment, the prompt sees the end of the statement if
\* and only if the parser will see a semicolon: not one in a string, however
\* its quotes are doubled (repl.cpp:41-46, tokenizer.cpp:64-85).
TerminatorExact ==
  session.chars /\ {"-", "\n"} \cap Range(text) = {} =>
    LET t == TokenizeAll(text)
        semicolon == \E i \in DOMAIN t.tokens : t.tokens[i] = Token("operator", <<";">>)
    IN  t.ok => (FoundTerminator(text) <=> semicolon)
-----------------------------------------------------------------------------
InsertedRow(literals) ==
  [i \in DOMAIN literals |-> CoerceLiteralToColumnType(LiteralValue(literals[i]), Schema[i])]
InsertedRows == [i \in DOMAIN table |-> InsertedRow(table[i])]

\* A row that was inserted is read back as it was, and a record that has lost
\* bytes at its end is refused, never read as some other row
\* (record.cpp:13-141).
RecordsReadBack ==
  \A i \in DOMAIN table :
    LET bytes == Stored(table[i])
    IN  /\ Decode(bytes) = [bad |-> FALSE, values |-> InsertedRows[i], cursor |-> Len(bytes)]
        /\ \A n \in 0 .. Len(bytes) - 1 : Decode(SubSeq(bytes, 1, n)).bad

\* WHERE as logic, for rows on which it is not an error.
RECURSIVE Holds(_, _)
Holds(e, row) ==
  LET Val(x) == IF x.kind = "column" THEN row[IndexOf(x.name)] ELSE Evaluate(x, row)
      Known == ~IsNull(Val(e.left)) /\ ~IsNull(Val(e.right))
      L == Val(e.left)[2]
      R == Val(e.right)[2]
  IN  IF e.kind # "binary" THEN Val(e) = True
      ELSE CASE e.op = "AND" -> Holds(e.left, row) /\ Holds(e.right, row)
             [] e.op = "OR" -> Holds(e.left, row) \/ Holds(e.right, row)
             [] e.op = "=" -> Known /\ L = R
             [] e.op = "!=" -> ~(Known /\ L = R)
             [] e.op = "<" -> Known /\ Less(Val(e.left), Val(e.right))
             [] e.op = ">" -> Known /\ Less(Val(e.right), Val(e.left))
             [] e.op = "<=" -> Known /\ ~Less(Val(e.right), Val(e.left))
             [] e.op = ">=" -> Known /\ ~Less(Val(e.left), Val(e.right))

RowFails(row) == EvaluatePredicate(stmt.where, row) = Error
SomeRowFails == \E i \in DOMAIN table : RowFails(InsertedRows[i])

Selected == SelectSeq(InsertedRows, LAMBDA row : stmt.where = <<>> \/ Holds(stmt.where[1], row))

\* The aggregates of the selected rows.
AggregateIs(item, v) ==
  LET col == IndexOf(item.column)
      known == {i \in DOMAIN Selected : item.column = "*" \/ ~IsNull(Selected[i][col])}
      sum == FoldLeft(LAMBDA a, row : a + row[col][2], 0, SelectSeq(Selected, LAMBDA row : ~IsNull(row[col])))
  IN  CASE item.func = "COUNT" -> v[2] = Cardinality(known)
        [] known = {} -> IsNull(v)
        [] item.func = "SUM" -> v[2] = sum
        [] item.func = "AVG" -> v[2][1] = sum /\ v[2][2] = Cardinality(known)
        [] item.func = "MIN" ->
             (\E i \in known : Selected[i][col] = v) /\ \A i \in known : ~Less(Selected[i][col], v)
        [] item.func = "MAX" ->
             (\E i \in known : Selected[i][col] = v) /\ \A i \in known : ~Less(v, Selected[i][col])

BagOf(s) == LET all == Range(s) IN [x \in all |-> Cardinality({i \in DOMAIN s : s[i] = x})]

Executed == phase = "answered" /\ stmt.kind = "select" /\ answer.kind = "rows"
ChosenOp == LET c == ChosenConjunct(stmt.where, indexed) IN IF c = <<>> THEN "none" ELSE c[1].op

\* The answer has the rows for which WHERE holds, each as often as it is in the
\* table, through an index as without; LIMIT leaves out no more than it has to;
\* aggregates are over these rows.  For WHERE without errors, and not if the
\* index was chosen for a != (executor.cpp:350-466).
AnswerExact ==
  Executed /\ ~SomeRowFails /\ ChosenOp # "!=" =>
    IF IsAggregate(stmt)
    THEN \A i \in DOMAIN stmt.items : AggregateIs(stmt.items[i], answer.rows[1][i])
    ELSE LET expected == BagOf([i \in DOMAIN Selected |-> Project(Selected[i], stmt.items)])
         IN  /\ BagOf(answer.rows) \sqsubseteq expected
             /\ Len(answer.rows) = IF stmt.limit # <<>> /\ Limit < Len(Selected) THEN Limit ELSE Len(Selected)

\* An error in WHERE on a row is reported, unless LIMIT or the index kept the
\* row from being looked at; there is no error without such a row or a column
\* that cannot be sorted by or aggregated (filter.hpp:22-37).
ErrorsExact ==
  phase = "answered" /\ stmt.kind = "select" /\ stmt.table = TableName =>
    LET static == \/ MixesAggregates(stmt)
                  \/ ~IsAggregate(stmt) /\ UnknownOrder(stmt)
                  \/ IsAggregate(stmt) /\ \E i \in DOMAIN stmt.items : AggregateFails(stmt.items[i], Selected)
        all_read == ChosenOp = "none" /\ (stmt.limit = <<>> \/ IsAggregate(stmt) \/ stmt.order_by # <<>>)
    IN  /\ answer.kind = "error" => SomeRowFails \/ static
        /\ all_read /\ SomeRowFails => answer.kind = "error"

\* ORDER BY: the answer is sorted, NULL before or, descending, behind all
\* values, and rows with equal values stay in the order of the scan
\* (sort.hpp:19-47).
SortedStably ==
  Executed /\ ~IsAggregate(stmt) /\ stmt.order_by # <<>> /\ stmt.items[1].column = "*" /\ ChosenOp = "none" =>
    LET col == IndexOf(stmt.order_by[1].column)
        Rank(v) == IF IsNull(v) THEN 0 ELSE v[2] + 1
        up == ~stmt.order_by[1].descending
        With(s, v) == SelectSeq(s, LAMBDA row : row[col] = v)
        rows == answer.rows
    IN  /\ \A i, j \in DOMAIN rows :
             i < j => IF up THEN Rank(rows[i][col]) <= Rank(rows[j][col]) ELSE Rank(rows[i][col]) >= Rank(rows[j][col])
        /\ \A i \in DOMAIN rows : IsPrefix(With(rows, rows[i][col]), With(Selected, rows[i][col]))
=============================================================================
